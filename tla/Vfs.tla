-------------------------------- MODULE Vfs --------------------------------
(***************************************************************************)
(* The virtual file system, src/src/drivers/fs/vfs.rs: the list of mounts, *)
(* the tree of cached nodes and the File objects callers hold.             *)
(*                                                                         *)
(* A path is a sequence of names; a node of the tree is known by its path. *)
(* The children of a node live by value in its BTreeMap, so the address of *)
(* a node is a slot of its parent's leaf and changes when a name that      *)
(* sorts before it is inserted (a leaf holds 11 entries; the model stays   *)
(* below).  Names are numbers, in the order of the map.                    *)
(*                                                                         *)
(* A walk (vfs_open, and the chain of lookup calls that may follow it) is  *)
(* one step for each name.  Using a Vfs whose Box has been dropped ends    *)
(* the behaviour with fault = "dropped"; a panic ends it as well.          *)
(***************************************************************************)
EXTENDS Integers, FiniteSets, Sequences, SequencesExt

CONSTANTS
    Fs,             \* the file systems there are to mount
    Dirs, Files,    \* the directories and the files of each, as paths in it
    Paths,          \* the paths callers open
    MountPoints,    \* the paths callers mount on and unmount, "/" aside
    Handles,        \* bound: File objects at one time
    None

Dot    == -1
DotDot == -2
Root   == <<>>

ASSUME FsAssumption == \A f \in Fs : Root \in Dirs[f] /\ Dirs[f] \cap Files[f] = {}
ASSUME MountPointsAssumption == Root \notin MountPoints

(* Names, and the mount points the kernel uses, are without dots.          *)
ASSUME NamesAssumption ==
    /\ \A f \in Fs : Dirs[f] \subseteq Seq(Nat) /\ Files[f] \subseteq Seq(Nat)
    /\ MountPoints \subseteq Seq(Nat)
    /\ Paths \subseteq Seq(Nat \union {Dot, DotDot})

ASSUME HandlesAssumption == IsFiniteSet(Handles)

\* A node's address is its slot of a leaf of its parent's map; see AddressOf.
Address == [leaf : Seq(Nat), slot : Int]

(* None is Rust's Option::None, or null: nothing else that is stored.      *)
ASSUME NoneAssumption ==
    /\ None \notin Fs /\ "open" \notin Fs
    /\ None \notin {"panic", "dropped", "overflow"}
    /\ None \notin Address /\ None \notin [descriptor : Address, of : Seq(Nat)]

VARIABLES
    mounts,     \* ROOT_VFS and its `next` chain: [fs, at] in list order
    tree,       \* NODE_TREE: cached path -> [vfs, ino, mounted, refs, parent]
    files,      \* File objects by handle: [descriptor, of], `of` is the node it was opened on
    fresh,      \* file systems not yet given to add_vfs
    pc, op, cur, rest,      \* the walk: its caller, the node it is at, names to go
    fault,      \* None, "panic", "dropped" or "overflow"
    callers     \* history, see Next: "kernel", "unmounted" or "any"

vars == <<mounts, tree, files, fresh, pc, op, cur, rest, fault, callers>>

\* The Vfs objects whose Box is in the list.
Alive == {mounts[k].fs : k \in DOMAIN mounts}

NewNode(v, ino, parent) ==
    [vfs |-> v, ino |-> ino, mounted |-> None, refs |-> 0, parent |-> parent]

\* Where the node at path q is stored: the slot of its name among its siblings.
AddressOf(q) ==
    IF q = Root THEN [leaf |-> Root, slot |-> -1]
    ELSE [leaf |-> Front(q),
          slot |-> Cardinality({s \in DOMAIN tree : /\ s # Root /\ Front(s) = Front(q)
                                                    /\ Last(s) < Last(q)})]

\* The node that is stored there now.
NodeAt(a) == CHOOSE q \in DOMAIN tree : AddressOf(q) = a

Init ==
    /\ mounts = <<>>
    /\ tree = <<>>
    /\ files = [h \in Handles |-> None]
    /\ fresh = Fs
    /\ pc = "idle" /\ op = None /\ cur = Root /\ rest = <<>>
    /\ fault = None
    /\ callers = "kernel"

\* No walk is under way and no node is held.
Rest == pc' = "idle" /\ op' = None /\ cur' = Root /\ rest' = <<>>

Running == fault = None
Idle    == Running /\ pc # "walk"

-----------------------------------------------------------------------------
\* A File when the tree it points into is replaced: only the address of the
\* root, a static, stays good.
Uprooted(file) ==
    IF file = None \/ file.descriptor = AddressOf(Root) THEN file
    ELSE [file EXCEPT !.descriptor = None]

(* add_vfs("/", f): the first mount, with the root of the tree.            *)
AddRoot(f) ==
    /\ Idle /\ f \in fresh /\ mounts = <<>>
    /\ tree' = [q \in {Root} |-> NewNode(f, Root, None)]
    /\ mounts' = <<[fs |-> f, at |-> Root]>>
    /\ files' = [h \in Handles |-> Uprooted(files[h])]
    /\ fresh' = fresh \ {f}
    /\ Rest
    /\ UNCHANGED fault

(* add_vfs returns Err before it looks at the path: "/" is taken, or there *)
(* is no "/" yet.  The boxed file system is dropped.                       *)
AddRefused(f, p) ==
    /\ Idle /\ f \in fresh
    /\ (p = Root) <=> (mounts # <<>>)
    /\ fresh' = fresh \ {f}
    /\ Rest
    /\ UNCHANGED <<mounts, tree, files, fault>>

\* The start of vfs_open: from the root of the tree, if there is one.
StartWalk(o, p) ==
    /\ Idle /\ mounts # <<>>
    /\ pc' = "walk" /\ op' = o /\ cur' = Root /\ rest' = p
    /\ UNCHANGED <<mounts, tree, files, fault>>

(* add_vfs(p, f): vfs_open(p) comes first (twice, the second time over     *)
(* cached nodes only).                                                     *)
AddVfs(f, p) == f \in fresh /\ StartWalk(f, p) /\ fresh' = fresh \ {f}

VfsOpen(p) == StartWalk("open", p) /\ UNCHANGED fresh

(* TreeNode::lookup on the node the last walk found.                       *)
Lookup(n) ==
    /\ Running /\ pc = "found"
    /\ pc' = "walk" /\ op' = "open" /\ rest' = <<n>>
    /\ UNCHANGED <<mounts, tree, files, fresh, cur, fault>>

-----------------------------------------------------------------------------
(* TreeNode::lookup, one name of a walk.                                   *)
Walking == Running /\ pc = "walk" /\ rest # <<>>

WalkTo(q) ==
    /\ cur' = q /\ rest' = Tail(rest)
    /\ UNCHANGED <<mounts, files, fresh, pc, op, fault>>

Fail == Rest /\ UNCHANGED <<mounts, tree, files, fresh, fault>>

Fault(kind) ==
    /\ fault' = kind
    /\ UNCHANGED <<mounts, tree, files, fresh, pc, op, cur, rest>>

WalkDot == Walking /\ Head(rest) = Dot /\ WalkTo(cur) /\ UNCHANGED tree

(* ".." follows the address the node was given when it was created.        *)
WalkUp ==
    /\ Walking /\ Head(rest) = DotDot
    /\ IF tree[cur].parent = None THEN Fail
       ELSE WalkTo(NodeAt(tree[cur].parent)) /\ UNCHANGED tree

Child == Append(cur, Head(rest))

WalkCached ==
    /\ Walking /\ Head(rest) \notin {Dot, DotDot}
    /\ Child \in DOMAIN tree
    /\ WalkTo(Child) /\ UNCHANGED tree

\* Mutant: a lookup that does not notice the file system mounted here.
LookupHere(node) == [vfs |-> node.vfs, dir |-> node.ino]

\* Which file system is asked, and for which of its directories.
LookupIn(node) ==
    IF node.mounted # None THEN [vfs |-> node.mounted, dir |-> Root]
    ELSE [vfs |-> node.vfs, dir |-> node.ino]

(* A name that is not cached: the file system is asked for a vnode.        *)
WalkMiss ==
    /\ Walking /\ Head(rest) \notin {Dot, DotDot}
    /\ Child \notin DOMAIN tree
    /\ LET in  == LookupIn(tree[cur])
           ino == Append(in.dir, Head(rest))
       IN \/ in.vfs \notin Alive /\ Fault("dropped")
          \/ in.vfs \in Alive /\ in.dir \in Files[in.vfs] /\ Fault("panic")
          \/ /\ in.vfs \in Alive /\ in.dir \in Dirs[in.vfs]
             /\ ino \notin Dirs[in.vfs] \union Files[in.vfs]
             /\ Fail
          \/ /\ in.vfs \in Alive /\ in.dir \in Dirs[in.vfs]
             /\ ino \in Dirs[in.vfs] \union Files[in.vfs]
             /\ tree' = [q \in DOMAIN tree \union {Child} |->
                           IF q = Child THEN NewNode(in.vfs, ino, AddressOf(cur)) ELSE tree[q]]
             /\ WalkTo(Child)

(* The walk is over: vfs_open returns the node ...                         *)
WalkFound ==
    /\ Running /\ pc = "walk" /\ rest = <<>> /\ op = "open"
    /\ pc' = "found"
    /\ UNCHANGED <<mounts, tree, files, fresh, op, cur, rest, fault>>

(* ... and add_vfs mounts on it.                                           *)
Mount ==
    /\ Running /\ pc = "walk" /\ rest = <<>> /\ op \in Fs
    /\ tree' = [tree EXCEPT ![cur].mounted = op]
    /\ mounts' = Append(mounts, [fs |-> op, at |-> cur])
    /\ Rest
    /\ UNCHANGED <<files, fresh, fault>>

Walk == WalkDot \/ WalkUp \/ WalkCached \/ WalkMiss \/ WalkFound \/ Mount

-----------------------------------------------------------------------------
(* TreeNode::open on the node that was found.                              *)
Open(h) ==
    /\ Running /\ pc = "found" /\ files[h] = None
    /\ tree' = [tree EXCEPT ![cur].refs = @ + 1]
    /\ files' = [files EXCEPT ![h] = [descriptor |-> AddressOf(cur), of |-> cur]]
    /\ UNCHANGED <<mounts, fresh, pc, op, cur, rest, fault>>

IsOpen(h) == Running /\ pc # "walk" /\ files[h] # None

(* File::read_all: len() panics on a directory, and the inode's read finds *)
(* its file system through parent_vfs.  A read changes no state here.      *)
Read(h) ==
    /\ IsOpen(h)
    /\ files[h].descriptor # None
    /\ LET node == tree[NodeAt(files[h].descriptor)] IN
         IF node.ino \in Dirs[node.vfs] THEN Fault("panic")
         ELSE IF node.vfs \notin Alive THEN Fault("dropped")
         ELSE UNCHANGED <<mounts, tree, files, fresh, pc, op, cur, rest, fault>>

\* Mutant: a File that forgets to close its node.
CloseNothing(h) ==
    /\ IsOpen(h)
    /\ files' = [files EXCEPT ![h] = None]
    /\ UNCHANGED <<mounts, tree, fresh, pc, op, cur, rest, fault>>

(* The drop of a File: TreeNode::close on the node its descriptor points   *)
(* to.  ref_count is a u32.                                                *)
Close(h) ==
    /\ IsOpen(h)
    /\ files[h].descriptor # None
    /\ LET q == NodeAt(files[h].descriptor) IN
         IF tree[q].refs = 0 THEN Fault("overflow")
         ELSE /\ tree' = [tree EXCEPT ![q].refs = @ - 1]
              /\ files' = [files EXCEPT ![h] = None]
              /\ UNCHANGED <<mounts, fresh, pc, op, cur, rest, fault>>

(* Any use of a File whose tree is gone.                                   *)
UseUprooted(h) == IsOpen(h) /\ files[h].descriptor = None /\ Fault("dropped")

-----------------------------------------------------------------------------
\* mount_point_busy: some other mount point starts with p.
MountPointBusy(p) == \E k \in DOMAIN mounts : IsStrictPrefix(p, mounts[k].at)

(* del_vfs("/"): refused while there is a second mount.  The tree stays.   *)
DelRoot ==
    /\ Idle /\ Len(mounts) = 1
    /\ mounts' = <<>>
    /\ Rest
    /\ UNCHANGED <<tree, files, fresh, fault>>

\* Mutant: the last Vfs of the list with that mount point is dropped.
DelNewest(p) ==
    /\ Idle /\ ~MountPointBusy(p)
    /\ \E k \in DOMAIN mounts :
         /\ mounts[k].at = p
         /\ \A j \in (k + 1) .. Len(mounts) : mounts[j].at # p
         /\ mounts' = RemoveAt(mounts, k)
    /\ Rest
    /\ UNCHANGED <<tree, files, fresh, fault>>

(* del_vfs(p): the first Vfs of the list with that mount point is dropped. *)
(* Nodes and vfs_mounted_here are left as they are.                        *)
DelVfs(p) ==
    /\ Idle /\ ~MountPointBusy(p)
    /\ \E k \in DOMAIN mounts :
         /\ mounts[k].at = p
         /\ \A j \in 1 .. (k - 1) : mounts[j].at # p
         /\ mounts' = RemoveAt(mounts, k)
    /\ Rest
    /\ UNCHANGED <<tree, files, fresh, fault>>

-----------------------------------------------------------------------------
FileOps == \E h \in Handles : Open(h) \/ Read(h) \/ Close(h) \/ UseUprooted(h)

Names == UNION {Range(q) : q \in UNION {Dirs[f] \union Files[f] : f \in Fs}}

\* No directory can have more names than a leaf of the map holds, see AddressOf.
NamesFit == IsFiniteSet(Names) /\ Cardinality(Names) <= 11

NoFileOpen == \A h \in Handles : files[h] = None

Unvisited(p) == \A q \in DOMAIN tree : ~IsStrictPrefix(p, q)

\* The step is one that the kernel takes as well if asKernel holds.
Caller(asKernel) == callers' = IF asKernel THEN callers ELSE "any"

(* Any caller may do anything.  The kernel does less, and callers records  *)
(* whether the behaviour so far could be the kernel's: kmain drops every   *)
(* File in the statement that opens it, so no name is looked up while one  *)
(* is open; ide.rs mounts on a directory nobody has looked into (the       *)
(* initramfs has an empty /mnt); and there is one unmount, of /mnt, near   *)
(* the end of kmain, after which callers is "unmounted".                   *)
Next ==
    \/ (Walk \/ FileOps) /\ Caller(TRUE)
    \/ \E f \in Fs : AddRoot(f) /\ Caller(TRUE)
    \/ \E f \in Fs, p \in MountPoints \union {Root} : AddRefused(f, p) /\ Caller(FALSE)
    \/ \E f \in Fs, p \in MountPoints :
          AddVfs(f, p) /\ Caller(callers = "kernel" /\ NoFileOpen /\ Unvisited(p))
    \/ \E p \in Paths : VfsOpen(p) /\ Caller(NoFileOpen)
    \/ \E n \in Names : Lookup(n) /\ Caller(NoFileOpen)
    \/ DelRoot /\ Caller(FALSE)
    \/ \E p \in MountPoints :
          DelVfs(p) /\ callers' = IF callers = "kernel" /\ NoFileOpen THEN "unmounted" ELSE "any"

Spec == Init /\ [][Next]_vars

-----------------------------------------------------------------------------
Node == [vfs : Fs, ino : Seq(Nat), mounted : Fs \union {None}, refs : 0 .. Cardinality(Handles),
         parent : [leaf : Seq(Nat), slot : -1 .. 10] \union {None}]

\* The variables keep their types; in particular a leaf of the tree has room
\* for all its names, as AddressOf assumes.
TypeOK ==
    /\ \A k \in DOMAIN mounts : mounts[k].fs \in Fs /\ mounts[k].at \in MountPoints \union {Root}
    /\ \A q \in DOMAIN tree : tree[q] \in Node
    /\ pc \in {"idle", "walk", "found"}
    /\ pc # "idle" => cur \in DOMAIN tree
    /\ fault \in {None, "panic", "dropped", "overflow"}
    /\ callers \in {"kernel", "unmounted", "any"}

\* The mount a path is resolved by: the longest mount point above it, and of
\* several mounts on one point the newest.
Covers(m, q) == m.at = Root \/ IsStrictPrefix(m.at, q)

Covering(q) ==
    CHOOSE k \in DOMAIN mounts :
        /\ Covers(mounts[k], q)
        /\ \A j \in DOMAIN mounts : Covers(mounts[j], q) =>
              \/ Len(mounts[j].at) < Len(mounts[k].at)
              \/ mounts[j].at = mounts[k].at /\ j <= k

\* The cached node at q is the file that its path names now.
Coherent(q) ==
    LET m == mounts[Covering(q)] IN
      /\ tree[q].vfs = m.fs
      /\ tree[q].ino = SubSeq(q, Len(m.at) + 1, Len(q))

\* Every cached node is the file that its path names now: lookup asks the file
\* system that covers the path, and no later mount of the kernel makes a cached
\* node wrong.
CacheCoherent == callers = "kernel" => \A q \in DOMAIN tree : Coherent(q)

\* Nothing is mounted on p any more, though its vfs_mounted_here says otherwise.
Stale(p) == tree[p].mounted # None /\ \A k \in DOMAIN mounts : mounts[k].at # p

\* What kmain's del_vfs leaves behind is confined to the nodes below its mount
\* point, and there only if it took off the last mount on it: whatever is looked
\* up and opened afterwards, every other cached node is the file its path names.
UnmountStaysLocal ==
    callers # "any" => \A q \in DOMAIN tree :
        Coherent(q) \/ \E p \in DOMAIN tree : Stale(p) /\ IsStrictPrefix(p, q)

\* Files and reference counts, node by node.
FilesCounted ==
    /\ \A h \in Handles : files[h] # None => NodeAt(files[h].descriptor) = files[h].of
    /\ \A q \in DOMAIN tree :
          tree[q].refs = Cardinality({h \in Handles : files[h] # None /\ files[h].of = q})

\* Every File points to the node it was opened on and ref_count counts exactly
\* those Files, so the last drop, and only the last, closes the inode: the way
\* the kernel opens files keeps nodes from moving under them.  (With the types of
\* the state.)
RefCountsExact ==
    /\ TypeOK
    /\ callers # "any" => FilesCounted

\* No lookup and no read of the kernel goes through a Vfs that has been dropped.
\* kmain means this to hold after its del_vfs("/mnt") as well: it opens
\* /mnt/boot/limine once more and unwraps what it finds.
UnmountIsSafe == callers # "any" => fault # "dropped"

\* The newest mount on a point is the one that lookups through it reach, however
\* add_vfs and del_vfs alternate.
NewestMountOnTop ==
    \A k \in DOMAIN mounts :
        mounts[k].at # Root /\ (\A j \in DOMAIN mounts : mounts[j].at = mounts[k].at => j <= k)
            => tree[mounts[k].at].mounted = mounts[k].fs
=============================================================================
