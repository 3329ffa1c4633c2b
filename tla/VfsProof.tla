------------------------------ MODULE VfsProof ------------------------------
(***************************************************************************)
(* Proofs about Vfs: for all file systems, paths and mount points, and any *)
(* number of File objects.                                                 *)
(***************************************************************************)
EXTENDS Vfs, FiniteSetTheorems, SequenceTheorems, WellFoundedInduction, TLAPS

-----------------------------------------------------------------------------
(* Paths.                                                                  *)

\* A path below the root is its directory and its name.
LEMMA FrontLast ==
    ASSUME NEW q \in Seq(Nat), q # Root
    PROVE  /\ Len(q) \in Nat /\ Len(q) > 0
           /\ Front(q) \in Seq(Nat) /\ Last(q) \in Nat
           /\ Len(Front(q)) = Len(q) - 1
           /\ \A k \in 1 .. (Len(q) - 1) : Front(q)[k] = q[k]
           /\ q[Len(q)] = Last(q)
<1>1. Len(q) \in Nat \ {0}
  BY EmptySeq DEF Root
<1>2. q[Len(q)] \in Nat /\ \A k \in 1 .. (Len(q) - 1) : q[k] \in Nat
  BY <1>1, ElementOfSeq
<1>3. /\ SubSeq(q, 1, Len(q) - 1) \in Seq(Nat)
      /\ Len(SubSeq(q, 1, Len(q) - 1)) = Len(q) - 1
      /\ \A k \in 1 .. (Len(q) - 1) : SubSeq(q, 1, Len(q) - 1)[k] = q[k]
  <2>1. PICK n \in Nat : n = Len(q) - 1
    BY <1>1
  <2>2. \A k \in 1 .. n : q[k] \in Nat
    BY <1>2, <2>1
  <2>3. /\ SubSeq(q, 1, n) \in Seq(Nat)
        /\ Len(SubSeq(q, 1, n)) = IF 1 <= n THEN n - 1 + 1 ELSE 0
        /\ \A k \in 1 .. n - 1 + 1 : SubSeq(q, 1, n)[k] = q[1 + k - 1]
    BY <2>2, SubSeqProperties
  <2>4. Len(SubSeq(q, 1, n)) = n /\ \A k \in 1 .. n : SubSeq(q, 1, n)[k] = q[k]
    BY <2>3
  <2> QED
    BY <2>1, <2>3, <2>4
<1> QED
  BY <1>1, <1>2, <1>3 DEF Front, Last

\* Two paths of the same directory and the same name are the same.
LEMMA SameNameSamePath ==
    ASSUME NEW q \in Seq(Nat), NEW r \in Seq(Nat), q # Root, r # Root,
           Front(q) = Front(r), Last(q) = Last(r)
    PROVE  q = r
<1>1. Len(q) = Len(r) /\ Len(q) \in Nat /\ Len(q) > 0
  BY FrontLast
<1>2. ASSUME NEW k \in 1 .. Len(q) PROVE q[k] = r[k]
  <2>1. CASE k = Len(q)
    BY <2>1, <1>1, FrontLast
  <2>2. CASE k \in 1 .. (Len(q) - 1)
    <3>1. Front(q)[k] = q[k]
      BY <2>2, FrontLast
    <3>2. Front(r)[k] = r[k]
      BY <2>2, <1>1, FrontLast
    <3> QED
      BY <3>1, <3>2
  <2> QED
    BY <2>1, <2>2, <1>1
<1> QED
  BY <1>1, <1>2, SeqEqual

\* The directory and the name of a child.
LEMMA ChildPath ==
    ASSUME NEW d \in Seq(Nat), NEW n \in Nat
    PROVE  /\ Append(d, n) \in Seq(Nat) /\ Append(d, n) # Root
           /\ Front(Append(d, n)) = d /\ Last(Append(d, n)) = n
<1>1. /\ Append(d, n) \in Seq(Nat) /\ Len(Append(d, n)) = Len(d) + 1 /\ Len(d) \in Nat
      /\ Append(d, n)[Len(d) + 1] = n
      /\ \A k \in 1 .. Len(d) : Append(d, n)[k] = d[k]
  OBVIOUS
<1>2. Append(d, n) # Root
  BY <1>1 DEF Root
<1>3. /\ Front(Append(d, n)) \in Seq(Nat) /\ Len(Front(Append(d, n))) = Len(d)
      /\ \A k \in 1 .. Len(d) : Front(Append(d, n))[k] = d[k]
  <2> DEFINE c == Append(d, n)
  <2>1. Len(c) - 1 = Len(d)
    BY <1>1
  <2> HIDE DEF c
  <2>2. /\ Front(c) \in Seq(Nat) /\ Len(Front(c)) = Len(d)
        /\ \A k \in 1 .. Len(d) : Front(c)[k] = c[k]
    BY <1>1, <1>2, <2>1, FrontLast DEF c
  <2> QED
    BY <1>1, <2>2 DEF c
<1>4. Front(Append(d, n)) = d
  BY <1>3, SeqEqual
<1> QED
  BY <1>1, <1>2, <1>4 DEF Last

-----------------------------------------------------------------------------
(* Addresses.  AddressOf depends on the paths of the tree only, here T.    *)

Before(T, q) == {s \in T : s # Root /\ Front(s) = Front(q) /\ Last(s) < Last(q)}

AddrIn(T, q) ==
    IF q = Root THEN [leaf |-> Root, slot |-> -1]
    ELSE [leaf |-> Front(q), slot |-> Cardinality(Before(T, q))]

\* A path in a finite tree has an address.
LEMMA AddrType ==
    ASSUME NEW T, IsFiniteSet(T), NEW q \in Seq(Nat)
    PROVE  /\ IsFiniteSet(Before(T, q)) /\ Cardinality(Before(T, q)) \in Nat
           /\ AddrIn(T, q) \in Address
<1>1. IsFiniteSet(Before(T, q)) /\ Cardinality(Before(T, q)) \in Nat
  BY FS_Subset, FS_CardinalityType DEF Before
<1>2. CASE q = Root
  BY <1>1, <1>2 DEF AddrIn, Address, Root
<1>3. CASE q # Root
  BY <1>1, <1>3, FrontLast DEF AddrIn, Address
<1> QED
  BY <1>1, <1>2, <1>3

\* A sibling with a smaller name has a smaller slot.
LEMMA SlotsGrow ==
    ASSUME NEW T, IsFiniteSet(T), T \subseteq Seq(Nat), NEW q \in T, NEW r \in T,
           q # Root, r # Root, Front(q) = Front(r), Last(q) < Last(r)
    PROVE  Cardinality(Before(T, q)) < Cardinality(Before(T, r))
<1>1. Last(q) \in Nat /\ Last(r) \in Nat /\ \A s \in T : s # Root => Last(s) \in Nat
  BY FrontLast
<1>2. Before(T, q) \union {q} \in SUBSET Before(T, r) /\ q \notin Before(T, q)
  BY <1>1 DEF Before
<1>3. IsFiniteSet(Before(T, q)) /\ IsFiniteSet(Before(T, r))
  BY AddrType
<1>4. Cardinality(Before(T, q) \union {q}) = Cardinality(Before(T, q)) + 1
  BY <1>2, <1>3, FS_AddElement
<1>5. Cardinality(Before(T, q) \union {q}) <= Cardinality(Before(T, r))
  BY <1>2, <1>3, FS_Subset
<1>6. Cardinality(Before(T, q)) \in Nat /\ Cardinality(Before(T, r)) \in Nat
  BY AddrType
<1> QED
  BY <1>4, <1>5, <1>6

\* No two nodes of a tree have the same address.
LEMMA AddrInjective ==
    ASSUME NEW T, IsFiniteSet(T), T \subseteq Seq(Nat), NEW q \in T, NEW r \in T,
           AddrIn(T, q) = AddrIn(T, r)
    PROVE  q = r
<1>1. Cardinality(Before(T, q)) \in Nat /\ Cardinality(Before(T, r)) \in Nat
  BY AddrType
<1>2. CASE q = Root \/ r = Root
  <2>1. \A s : s = Root => AddrIn(T, s).slot = -1
    BY DEF AddrIn
  <2>2. \A s : s # Root => AddrIn(T, s).slot = Cardinality(Before(T, s))
    BY DEF AddrIn
  <2> QED
    BY <2>1, <2>2, <1>1, <1>2
<1>3. CASE q # Root /\ r # Root
  <2>1. Front(q) = Front(r) /\ Cardinality(Before(T, q)) = Cardinality(Before(T, r))
    BY <1>3 DEF AddrIn
  <2>2. Last(q) \in Nat /\ Last(r) \in Nat
    BY <1>3, FrontLast
  <2>3. ~(Last(q) < Last(r)) /\ ~(Last(r) < Last(q))
    BY <2>1, <1>1, <1>3, SlotsGrow
  <2> QED
    BY <2>1, <2>2, <2>3, <1>3, SameNameSamePath
<1> QED
  BY <1>2, <1>3

\* A set of naturals that is bounded and not empty has a greatest member.
LEMMA Greatest ==
    ASSUME NEW S, S \subseteq Nat, S # {}, NEW b \in Nat, \A x \in S : x <= b
    PROVE  \E x \in S : \A y \in S : y <= x
<1> DEFINE D == {b - x : x \in S}
<1>1. D \subseteq Nat /\ D # {}
  <2>1. \A x \in S : x \in Nat /\ x <= b /\ b - x \in Nat
    OBVIOUS
  <2> QED
    BY <2>1
<1>2. PICK d \in D : \A e \in D : ~ (<<e, d>> \in OpToRel(<, Nat))
  BY <1>1, NatLessThanWellFounded, WFMin
<1>3. \A e \in D : ~ (e < d)
  BY <1>1, <1>2 DEF OpToRel
<1>4. PICK x \in S : d = b - x
  BY <1>2
<1>5. \A y \in S : ~ (b - y < b - x)
  BY <1>3, <1>4
<1> QED
  BY <1>4, <1>5

\* A slot that is occupied stays occupied when a name is inserted: by the node
\* that was there, or by the one below it, which has moved up.
LEMMA SlotStaysOccupied ==
    ASSUME NEW T, IsFiniteSet(T), T \subseteq Seq(Nat), NEW c \in Seq(Nat), c # Root, c \notin T,
           NEW q \in T
    PROVE  \E r \in T \union {c} : AddrIn(T \union {c}, r) = AddrIn(T, q)
<1> DEFINE U == T \union {c}
<1>1. IsFiniteSet(U) /\ U \subseteq Seq(Nat)
  BY FS_AddElement
<1>2. CASE q = Root
  BY <1>2 DEF AddrIn
<1>3. CASE q # Root /\ ~(Front(c) = Front(q) /\ Last(c) < Last(q))
  <2>1. Before(U, q) = Before(T, q)
    BY <1>3 DEF Before
  <2> QED
    BY <2>1, <1>3 DEF AddrIn
<1>4. CASE q # Root /\ Front(c) = Front(q) /\ Last(c) < Last(q)
  <2>1. Before(U, q) = Before(T, q) \union {c} /\ c \notin Before(T, q)
    BY <1>4 DEF Before
  <2>2. IsFiniteSet(Before(T, q)) /\ Cardinality(Before(T, q)) \in Nat
    BY AddrType
  <2>3. Cardinality(Before(U, q)) = Cardinality(Before(T, q)) + 1
    BY <2>1, <2>2, FS_AddElement
  <2> DEFINE S == {Last(s) : s \in Before(U, q)}
  <2>4. \A s \in U : s # Root => Last(s) \in Nat
    BY <1>1, FrontLast
  <2>5. S \subseteq Nat /\ S # {} /\ Last(q) \in Nat /\ \A x \in S : x <= Last(q)
    BY <2>1, <2>4, <1>4 DEF Before
  <2>6. PICK x \in S : \A y \in S : y <= x
    BY <2>5, Greatest
  <2>7. PICK r \in Before(U, q) : x = Last(r)
    BY <2>6
  <2>8. r \in U /\ r # Root /\ Front(r) = Front(q) /\ Last(r) < Last(q) /\ Last(r) \in Nat
    BY <2>7, <2>4 DEF Before
  <2>9. Before(U, q) = Before(U, r) \union {r} /\ r \notin Before(U, r)
    <3>1. ASSUME NEW s \in Before(U, q), s # r PROVE s \in Before(U, r)
      <4>1. s \in U /\ s # Root /\ Front(s) = Front(q) /\ Last(s) \in Nat
        BY <2>4 DEF Before
      <4>2. Last(s) <= Last(r)
        BY <2>6, <2>7
      <4>3. Last(s) # Last(r)
        BY <3>1, <4>1, <2>8, <1>1, SameNameSamePath
      <4> QED
        BY <4>1, <4>2, <4>3, <2>8 DEF Before
    <3>2. ASSUME NEW s \in Before(U, r) PROVE s \in Before(U, q)
      BY <2>4, <2>5, <2>8 DEF Before
    <3>3. r \notin Before(U, r)
      BY <2>8 DEF Before
    <3> QED
      BY <3>1, <3>2, <3>3, <2>7
  <2>10. IsFiniteSet(Before(U, r)) /\ Cardinality(Before(U, r)) \in Nat
    BY <2>8, <1>1, AddrType
  <2>11. Cardinality(Before(U, q)) = Cardinality(Before(U, r)) + 1
    BY <2>9, <2>10, FS_AddElement
  <2>12. Cardinality(Before(U, r)) = Cardinality(Before(T, q))
    BY <2>2, <2>3, <2>10, <2>11
  <2> QED
    BY <2>8, <2>12, <1>4 DEF AddrIn
<1> QED
  BY <1>2, <1>3, <1>4
-----------------------------------------------------------------------------
(* The invariant that holds whoever calls.                                 *)

Tree == DOMAIN tree

Occupied(a) == \E q \in Tree : AddrIn(Tree, q) = a

NodeT == [vfs : Fs, ino : Seq(Nat), mounted : Fs \union {None}, refs : Nat,
          parent : Address \union {None}]

FileT == [descriptor : Address \union {None}, of : Seq(Nat)]

(* The slot ".." follows is never empty.                                   *)
TreeInv ==
    /\ IsFiniteSet(Tree) /\ Tree \subseteq Seq(Nat)
    /\ \A q \in Tree : /\ tree[q] \in NodeT
                       /\ tree[q].parent # None => Occupied(tree[q].parent)

(* "/" is the first mount and no other, and mount points stay in the tree. *)
MountsInv ==
    /\ mounts \in Seq([fs : Fs, at : Seq(Nat)])
    /\ \A k \in 1 .. Len(mounts) : /\ mounts[k].at \in Tree
                                   /\ mounts[k].at \in MountPoints \union {Root}
                                   /\ mounts[k].at = Root <=> k = 1

(* A File points to some node, not always its own, or into a tree that has *)
(* been replaced.                                                          *)
FilesInv ==
    /\ files \in [Handles -> FileT \union {None}]
    /\ \A h \in Handles :
          files[h] # None /\ files[h].descriptor # None => Occupied(files[h].descriptor)

(* A walk is at a node; the walk of add_vfs is on its way to a mount point. *)
WalkInv ==
    /\ pc \in {"idle", "walk", "found"}
    /\ pc # "idle" => cur \in Tree /\ mounts # << >>
    /\ rest \in Seq(Nat \union {Dot, DotDot})
    /\ pc = "walk" /\ op \in Fs => rest \in Seq(Nat) /\ cur \o rest \in MountPoints

CommonInv == TreeInv /\ MountsInv /\ FilesInv /\ WalkInv /\ NewestMountOnTop

Still == UNCHANGED <<mounts, tree, files>>

\* AddressOf in terms of the paths of the tree.
LEMMA AddressOfIs == \A q : AddressOf(q) = AddrIn(Tree, q)
BY DEF AddressOf, AddrIn, Before, Tree

\* An address that is occupied leads to the node that is stored there.
LEMMA NodeAtOccupied ==
    ASSUME NEW a, Occupied(a)
    PROVE  NodeAt(a) \in Tree /\ AddrIn(Tree, NodeAt(a)) = a
<1>1. \E q \in DOMAIN tree : AddressOf(q) = a
  BY AddressOfIs DEF Occupied, Tree
<1>2. NodeAt(a) \in DOMAIN tree /\ AddressOf(NodeAt(a)) = a
  BY <1>1 DEF NodeAt
<1> QED
  BY <1>2, AddressOfIs DEF Tree

\* The indices of the mounts.
LEMMA MountFacts ==
    ASSUME MountsInv
    PROVE  /\ Len(mounts) \in Nat /\ DOMAIN mounts = 1 .. Len(mounts)
           /\ \A k \in 1 .. Len(mounts) : /\ mounts[k] \in [fs : Fs, at : Seq(Nat)]
                                          /\ mounts[k].fs \in Fs /\ mounts[k].at \in Seq(Nat)
           /\ mounts # << >> => Root \in Tree /\ 1 \in 1 .. Len(mounts) /\ mounts[1].at = Root
<1>1. mounts \in Seq([fs : Fs, at : Seq(Nat)])
  BY DEF MountsInv
<1>2. Len(mounts) \in Nat /\ DOMAIN mounts = 1 .. Len(mounts)
  BY <1>1, LenProperties
<1>3. \A k \in 1 .. Len(mounts) : mounts[k] \in [fs : Fs, at : Seq(Nat)]
  BY <1>1, ElementOfSeq
<1>4. mounts # << >> => Len(mounts) \in Nat \ {0}
  BY <1>1, EmptySeq
<1> QED
  BY <1>2, <1>3, <1>4 DEF MountsInv

\* A step that leaves the list, the tree and the Files alone.
LEMMA StillInv ==
    ASSUME CommonInv, Still, WalkInv'
    PROVE  CommonInv'
<1>1. UNCHANGED <<mounts, tree, files>>
  BY DEF Still
<1>2. TreeInv'
  BY <1>1 DEF CommonInv, TreeInv, Tree, Occupied
<1>3. MountsInv'
  BY <1>1 DEF CommonInv, MountsInv, Tree
<1>4. FilesInv'
  BY <1>1 DEF CommonInv, FilesInv, Tree, Occupied
<1>5. NewestMountOnTop'
  BY <1>1 DEF CommonInv, NewestMountOnTop
<1> QED
  BY <1>2, <1>3, <1>4, <1>5 DEF CommonInv

\* A walk that is over holds nothing.
LEMMA RestWalk == Rest => WalkInv'
<1>1. << >> \in Seq(Nat \union {Dot, DotDot})
  BY EmptySeq
<1> QED
  BY <1>1 DEF Rest, WalkInv

\* A fault ends everything.
LEMMA FaultInv ==
    ASSUME CommonInv, NEW kind, Fault(kind)
    PROVE  CommonInv'
<1>1. UNCHANGED <<mounts, tree, files, pc, op, cur, rest>>
  BY DEF Fault
<1>2. WalkInv'
  BY <1>1 DEF CommonInv, WalkInv, Tree
<1> QED
  BY <1>1, <1>2, StillInv DEF Still

\* A walk begins at the root of the tree.
LEMMA StartWalkInv ==
    ASSUME CommonInv, NEW o, NEW p, StartWalk(o, p),
           p \in Seq(Nat \union {Dot, DotDot}), o \in Fs => p \in MountPoints
    PROVE  CommonInv'
<1>1. /\ mounts # << >> /\ pc' = "walk" /\ op' = o /\ cur' = Root /\ rest' = p
      /\ UNCHANGED <<mounts, tree, files>>
  BY DEF StartWalk
<1>2. Root \in Tree
  BY <1>1, MountFacts DEF CommonInv
<1>3. o \in Fs => p \in Seq(Nat) /\ Root \o p \in MountPoints
  BY NamesAssumption, ConcatEmptySeq DEF Root
<1>4. WalkInv'
  BY <1>1, <1>2, <1>3 DEF WalkInv, Tree
<1> QED
  BY <1>1, <1>4, StillInv DEF Still

\* The names lookup is called with.
LEMMA NamesAreNumbers == Names \subseteq Nat
<1> SUFFICES ASSUME NEW n \in Names PROVE n \in Nat
  OBVIOUS
<1>1. PICK f \in Fs : \E q \in Dirs[f] \union Files[f] : n \in Range(q)
  BY DEF Names
<1>2. PICK q \in Dirs[f] \union Files[f] : n \in Range(q)
  BY <1>1
<1>3. q \in Seq(Nat)
  BY NamesAssumption
<1> QED
  BY <1>2, <1>3, RangeOfSeq

\* A walk goes on from the node that was found.
LEMMA LookupInv ==
    ASSUME CommonInv, NEW n \in Nat, Lookup(n)
    PROVE  CommonInv'
<1>1. /\ pc = "found" /\ pc' = "walk" /\ op' = "open" /\ rest' = <<n>> /\ cur' = cur
      /\ UNCHANGED <<mounts, tree, files>>
  BY DEF Lookup
<1>2. <<n>> \in Seq(Nat \union {Dot, DotDot})
  OBVIOUS
<1>3. "open" \notin Fs
  BY NoneAssumption
<1>4. WalkInv'
  BY <1>1, <1>2, <1>3 DEF CommonInv, WalkInv, Tree
<1> QED
  BY <1>1, <1>4, StillInv DEF Still

\* One name less to go, one name further down.
LEMMA AddStep ==
    ASSUME NEW d \in Seq(Nat), NEW r \in Seq(Nat), r # << >>
    PROVE  Tail(r) \in Seq(Nat) /\ Append(d, Head(r)) \o Tail(r) = d \o r
<1>1. Tail(r) \in Seq(Nat) /\ Head(r) \in Nat
  BY HeadTailProperties
<1>2. r = <<Head(r)>> \o Tail(r)
  OBVIOUS
<1>3. ASSUME NEW n \in Nat, NEW t \in Seq(Nat)
      PROVE  Append(d, n) \o t = d \o (<<n>> \o t)
  <2>1. Append(d, n) = d \o <<n>> /\ <<n>> \in Seq(Nat)
    BY AppendIsConcat
  <2>2. (d \o <<n>>) \o t = d \o (<<n>> \o t)
    BY <2>1, ConcatAssociative
  <2> QED
    BY <2>1, <2>2
<1>4. Append(d, Head(r)) \o Tail(r) = d \o (<<Head(r)>> \o Tail(r))
  BY <1>1, <1>3
<1> QED
  BY <1>1, <1>2, <1>4

\* A walk goes to a node of the tree by one name; that of add_vfs to the child.
LEMMA WalkToInv ==
    ASSUME CommonInv, Walking, Still, NEW q \in Tree, WalkTo(q), q = Child \/ op \notin Fs
    PROVE  CommonInv'
<1>1. /\ pc = "walk" /\ rest # << >> /\ pc' = pc /\ op' = op /\ cur' = q /\ rest' = Tail(rest)
      /\ UNCHANGED <<mounts, tree>>
  BY DEF Walking, WalkTo, Still
<1>2. Tail(rest) \in Seq(Nat \union {Dot, DotDot})
  BY <1>1, HeadTailProperties DEF CommonInv, WalkInv
<1>3. ASSUME op \in Fs
      PROVE  Tail(rest) \in Seq(Nat) /\ q \o Tail(rest) \in MountPoints
  BY <1>1, <1>3, AddStep DEF CommonInv, WalkInv, TreeInv, Child
<1>4. WalkInv'
  BY <1>1, <1>2, <1>3 DEF CommonInv, WalkInv, Tree
<1> QED
  BY <1>4, StillInv

\* Only paths that callers open have dots.
LEMMA NoDotsInAdd ==
    ASSUME CommonInv, Walking
    PROVE  /\ Head(rest) \in Nat \union {Dot, DotDot}
           /\ op \in Fs => Head(rest) \in Nat
           /\ cur \in Tree /\ cur \in Seq(Nat)
<1>1. pc = "walk" /\ rest # << >> /\ rest \in Seq(Nat \union {Dot, DotDot})
  BY DEF CommonInv, WalkInv, Walking
<1>2. op \in Fs => rest \in Seq(Nat)
  BY <1>1 DEF CommonInv, WalkInv
<1>3. cur \in Tree /\ cur \in Seq(Nat)
  BY <1>1 DEF CommonInv, WalkInv, TreeInv
<1> QED
  BY <1>1, <1>2, <1>3, HeadTailProperties

\* A walk that fails leaves everything alone.
LEMMA FailInv ==
    ASSUME CommonInv, Fail
    PROVE  CommonInv'
BY RestWalk, StillInv DEF Fail, Still

\* "." and "..": the slot that ".." follows holds a node.
LEMMA WalkDotsInv ==
    ASSUME CommonInv, WalkDot \/ WalkUp
    PROVE  CommonInv'
<1>1. Walking /\ Head(rest) \in {Dot, DotDot}
  BY DEF WalkDot, WalkUp
<1>2. op \notin Fs /\ cur \in Tree
  BY <1>1, NoDotsInAdd DEF Dot, DotDot
<1>3. CASE WalkDot
  BY <1>1, <1>2, <1>3, WalkToInv DEF WalkDot, WalkTo, Still
<1>4. CASE WalkUp
  <2>1. CASE tree[cur].parent = None
    BY <1>4, <2>1, FailInv DEF WalkUp
  <2>2. CASE tree[cur].parent # None
    <3>1. Occupied(tree[cur].parent)
      BY <1>2, <2>2 DEF CommonInv, TreeInv
    <3>2. NodeAt(tree[cur].parent) \in Tree
      BY <3>1, NodeAtOccupied
    <3> QED
      BY <1>1, <1>2, <1>4, <2>2, <3>2, WalkToInv DEF WalkUp, WalkTo, Still
  <2> QED
    BY <2>1, <2>2
<1> QED
  BY <1>3, <1>4

\* A name that is cached.
LEMMA WalkCachedInv ==
    ASSUME CommonInv, WalkCached
    PROVE  CommonInv'
BY WalkToInv DEF WalkCached, WalkTo, Still, Tree

\* A node is added to the tree.
Inserts(c) ==
    /\ c \in Seq(Nat) /\ c # Root /\ c \notin Tree
    /\ Tree' = Tree \union {c}
    /\ \A q \in Tree : tree'[q] = tree[q]
    /\ UNCHANGED <<mounts, files>>

\* What was stored at an address may move, but the address stays in use.
LEMMA OccupiedStays ==
    ASSUME TreeInv, NEW c, Inserts(c), NEW a, Occupied(a)
    PROVE  Occupied(a)'
<1>1. PICK q \in Tree : AddrIn(Tree, q) = a
  BY DEF Occupied
<1>2. IsFiniteSet(Tree) /\ Tree \subseteq Seq(Nat) /\ c \in Seq(Nat) /\ c # Root /\ c \notin Tree
  BY DEF TreeInv, Inserts
<1>3. \E r \in Tree \union {c} : AddrIn(Tree \union {c}, r) = AddrIn(Tree, q)
  BY <1>2, SlotStaysOccupied
<1>4. Tree' = Tree \union {c}
  BY DEF Inserts
<1>5. \E r \in Tree' : AddrIn(Tree', r) = a
  BY <1>1, <1>3, <1>4
<1> QED
  BY <1>5 DEF Occupied, AddrIn, Before

\* A node is inserted: slots that are in use stay in use, and mounts stay where they are.
LEMMA InsertInv ==
    ASSUME CommonInv, NEW c, Inserts(c), WalkInv',
           tree'[c] \in NodeT, tree'[c].parent # None => Occupied(tree'[c].parent)
    PROVE  CommonInv'
<1>1. /\ c \notin Tree /\ c \in Seq(Nat) /\ Tree' = Tree \union {c}
      /\ \A q \in Tree : tree'[q] = tree[q]
      /\ mounts' = mounts /\ files' = files
  BY DEF Inserts
<1>2. TreeInv
  BY DEF CommonInv
<1>3. \A a : Occupied(a) => Occupied(a)'
  BY <1>2, OccupiedStays
<1>4. TreeInv'
  <2>1. IsFiniteSet(Tree') /\ Tree' \subseteq Seq(Nat)
    BY <1>1, <1>2, FS_AddElement DEF TreeInv
  <2>2. ASSUME NEW q \in Tree' PROVE tree'[q] \in NodeT /\ (tree'[q].parent # None => Occupied(tree'[q].parent))
    BY <1>1, <1>2 DEF TreeInv
  <2>3. ASSUME NEW q \in Tree' PROVE tree'[q].parent # None => \E r \in Tree' : AddrIn(Tree', r) = tree'[q].parent
    <3>1. PICK a : a = tree'[q].parent
      OBVIOUS
    <3>2. a # None => Occupied(a)'
      BY <2>2, <3>1, <1>3
    <3> QED
      BY <3>1, <3>2 DEF Occupied, AddrIn, Before
  <2>4. NodeT' = NodeT
    BY DEF NodeT
  <2> QED
    BY <2>1, <2>2, <2>3, <2>4 DEF TreeInv, Occupied, AddrIn, Before
<1>5. MountsInv'
  BY <1>1 DEF CommonInv, MountsInv
<1>6. FilesInv'
  <2>1. ASSUME NEW h \in Handles, files[h] # None, files[h].descriptor # None
        PROVE  \E r \in Tree' : AddrIn(Tree', r) = files[h].descriptor
    <3>1. PICK a : a = files[h].descriptor
      OBVIOUS
    <3>2. Occupied(a)'
      BY <2>1, <3>1, <1>3 DEF CommonInv, FilesInv
    <3> QED
      BY <3>1, <3>2 DEF Occupied, AddrIn, Before
  <2> QED
    BY <1>1, <2>1 DEF CommonInv, FilesInv, Occupied, AddrIn, Before
<1>7. NewestMountOnTop'
  <2>1. \A k \in DOMAIN mounts : mounts[k].at \in Tree
    BY MountFacts DEF CommonInv, MountsInv
  <2> QED
    BY <1>1, <2>1 DEF CommonInv, NewestMountOnTop
<1> QED
  BY <1>4, <1>5, <1>6, <1>7 DEF CommonInv

\* A name that is not cached and that the file system knows.
WalkInsert ==
    /\ Walking /\ Head(rest) \notin {Dot, DotDot}
    /\ Child \notin DOMAIN tree
    /\ LET in  == LookupIn(tree[cur])
           ino == Append(in.dir, Head(rest))
       IN  /\ in.vfs \in Alive /\ in.dir \in Dirs[in.vfs]
           /\ ino \in Dirs[in.vfs] \union Files[in.vfs]
           /\ tree' = [q \in DOMAIN tree \union {Child} |->
                         IF q = Child THEN NewNode(in.vfs, ino, AddressOf(cur)) ELSE tree[q]]
           /\ WalkTo(Child)

\* WalkMiss inserts, or faults, or fails.
LEMMA WalkMissKinds ==
    ASSUME WalkMiss
    PROVE  \/ WalkInsert
           \/ LookupIn(tree[cur]).vfs \notin Alive /\ Fault("dropped")
           \/ Fault("panic")
           \/ Fail
BY DEF WalkMiss, WalkInsert

\* The node that WalkMiss inserts.
LEMMA WalkInserts ==
    ASSUME CommonInv, WalkInsert
    PROVE  /\ Head(rest) \in Nat /\ Inserts(Child)
           /\ tree'[Child] = NewNode(LookupIn(tree[cur]).vfs, Append(LookupIn(tree[cur]).dir, Head(rest)),
                                     AddrIn(Tree, cur))
           /\ LookupIn(tree[cur]).vfs \in Fs
           /\ LookupIn(tree[cur]).dir \in Seq(Nat)
           /\ Append(LookupIn(tree[cur]).dir, Head(rest)) \in Seq(Nat)
<1> DEFINE v == LookupIn(tree[cur]).vfs
           d == LookupIn(tree[cur]).dir
<1>1. /\ Walking /\ Head(rest) \notin {Dot, DotDot} /\ Child \notin Tree
      /\ v \in Alive /\ d \in Dirs[v] /\ Append(d, Head(rest)) \in Dirs[v] \union Files[v]
      /\ WalkTo(Child)
      /\ tree' = [q \in Tree \union {Child} |->
                    IF q = Child THEN NewNode(v, Append(d, Head(rest)), AddrIn(Tree, cur)) ELSE tree[q]]
  BY AddressOfIs DEF WalkInsert, Tree
<1>2. Head(rest) \in Nat /\ cur \in Seq(Nat)
  BY <1>1, NoDotsInAdd
<1>3. Child \in Seq(Nat) /\ Child # Root
  BY <1>2, ChildPath DEF Child
<1>4. /\ Tree' = Tree \union {Child}
      /\ \A q \in Tree : tree'[q] = tree[q]
      /\ tree'[Child] = NewNode(v, Append(d, Head(rest)), AddrIn(Tree, cur))
  BY <1>1 DEF Tree
<1>5. v \in Fs
  BY <1>1, MountFacts DEF Alive, CommonInv
<1>6. d \in Seq(Nat) /\ Append(d, Head(rest)) \in Seq(Nat)
  BY <1>1, <1>5, NamesAssumption
<1>7. UNCHANGED <<mounts, files>>
  BY <1>1 DEF WalkTo
<1> QED
  BY <1>1, <1>2, <1>3, <1>4, <1>5, <1>6, <1>7 DEF Inserts

\* A name that is not cached, and that the file system has.
LEMMA WalkInsertInv ==
    ASSUME CommonInv, WalkInsert
    PROVE  CommonInv'
<1>1. PICK c : c = Child
  OBVIOUS
<1>2. Walking /\ WalkTo(c) /\ cur \in Tree /\ cur \in Seq(Nat)
  BY <1>1, NoDotsInAdd DEF WalkInsert
<1>3. Inserts(c) /\ Head(rest) \in Nat
  BY <1>1, WalkInserts
<1>4. AddrIn(Tree, cur) \in Address /\ Occupied(AddrIn(Tree, cur))
  BY <1>2, AddrType DEF Occupied, CommonInv, TreeInv
<1>5. tree'[c] \in NodeT /\ tree'[c].parent = AddrIn(Tree, cur)
  <2>1. ASSUME NEW v \in Fs, NEW ino \in Seq(Nat), NEW a \in Address
        PROVE  NewNode(v, ino, a) \in NodeT /\ NewNode(v, ino, a).parent = a
    BY DEF NewNode, NodeT
  <2>2. PICK v \in Fs, ino \in Seq(Nat) : tree'[Child] = NewNode(v, ino, AddrIn(Tree, cur))
    BY WalkInserts
  <2>3. tree'[c] = NewNode(v, ino, AddrIn(Tree, cur))
    BY <1>1, <2>2
  <2> QED
    BY <2>1, <2>3, <1>4
<1>6. WalkInv'
  <2>1. /\ pc = "walk" /\ rest # << >> /\ pc' = pc /\ op' = op /\ cur' = c /\ rest' = Tail(rest)
        /\ mounts' = mounts /\ c \in Tree'
    BY <1>2, <1>3 DEF Walking, WalkTo, Inserts
  <2>2. Tail(rest) \in Seq(Nat \union {Dot, DotDot}) /\ mounts # << >>
    BY <2>1, HeadTailProperties DEF CommonInv, WalkInv
  <2>3. ASSUME op \in Fs
        PROVE  Tail(rest) \in Seq(Nat) /\ c \o Tail(rest) \in MountPoints
    BY <1>1, <1>2, <2>1, <2>3, AddStep DEF CommonInv, WalkInv, Child
  <2> QED
    BY <2>1, <2>2, <2>3 DEF WalkInv
<1> QED
  BY <1>3, <1>4, <1>5, <1>6, InsertInv

\* A node is changed, but not its place nor where ".." leads.
Changes(q) ==
    /\ q \in Tree /\ Tree' = Tree
    /\ \A r \in Tree : r # q => tree'[r] = tree[r]
    /\ tree'[q] \in NodeT /\ tree'[q].parent = tree[q].parent

\* A node is changed in place.
LEMMA ChangeInv ==
    ASSUME TreeInv, NEW q, Changes(q)
    PROVE  TreeInv' /\ \A a : Occupied(a) => Occupied(a)'
<1>1. \A a : Occupied(a)' <=> Occupied(a)
  BY DEF Changes, Occupied, AddrIn, Before
<1>2. /\ Tree' = Tree
      /\ \A r \in Tree : tree'[r] \in NodeT /\ tree'[r].parent = tree[r].parent
  BY DEF Changes, TreeInv
<1>3. \A r \in Tree : tree[r].parent # None => Occupied(tree[r].parent)
  BY DEF TreeInv
<1>4. \A r \in Tree' : tree'[r].parent # None => \E x \in Tree' : AddrIn(Tree', x) = tree'[r].parent
  BY <1>2, <1>3 DEF Occupied
<1>5. NodeT' = NodeT
  BY DEF NodeT
<1>6. IsFiniteSet(Tree') /\ Tree' \subseteq Seq(Nat)
  BY <1>2 DEF TreeInv
<1>7. TreeInv'
  BY <1>2, <1>4, <1>5, <1>6 DEF TreeInv, Occupied, AddrIn, Before
<1> QED
  BY <1>1, <1>7

\* The mount of add_vfs.
LEMMA MountChanges ==
    ASSUME CommonInv, Mount
    PROVE  /\ op \in Fs /\ cur \in MountPoints /\ Changes(cur) /\ mounts # << >>
           /\ tree'[cur] = [tree[cur] EXCEPT !.mounted = op] /\ tree'[cur].mounted = op
           /\ Len(mounts') = Len(mounts) + 1
           /\ mounts' \in Seq([fs : Fs, at : Seq(Nat)])
           /\ \A k \in 1 .. Len(mounts) : mounts'[k] = mounts[k]
           /\ mounts'[Len(mounts) + 1] = [fs |-> op, at |-> cur]
           /\ files' = files
<1>1. /\ pc = "walk" /\ rest = << >> /\ op \in Fs
      /\ tree' = [tree EXCEPT ![cur].mounted = op]
      /\ mounts' = Append(mounts, [fs |-> op, at |-> cur])
      /\ files' = files
  BY DEF Mount
<1>2. cur \in Tree /\ cur \in Seq(Nat) /\ tree[cur] \in NodeT /\ mounts # << >>
  BY <1>1 DEF CommonInv, WalkInv, TreeInv
<1>3. cur \in MountPoints
  <2>1. cur \o << >> \in MountPoints
    BY <1>1 DEF CommonInv, WalkInv
  <2> QED
    BY <2>1, <1>2, ConcatEmptySeq
<1>4. /\ Tree' = Tree
      /\ \A r \in Tree : r # cur => tree'[r] = tree[r]
      /\ tree'[cur] = [tree[cur] EXCEPT !.mounted = op]
  BY <1>1, <1>2 DEF Tree
<1>5. /\ [tree[cur] EXCEPT !.mounted = op] \in NodeT
      /\ [tree[cur] EXCEPT !.mounted = op].parent = tree[cur].parent
      /\ [tree[cur] EXCEPT !.mounted = op].mounted = op
  BY <1>1, <1>2 DEF NodeT
<1>6. [fs |-> op, at |-> cur] \in [fs : Fs, at : Seq(Nat)]
  BY <1>1, <1>2
<1>7. mounts \in Seq([fs : Fs, at : Seq(Nat)])
  BY DEF CommonInv, MountsInv
<1>8. /\ Len(mounts') = Len(mounts) + 1
      /\ mounts' \in Seq([fs : Fs, at : Seq(Nat)])
      /\ \A k \in 1 .. Len(mounts) : mounts'[k] = mounts[k]
      /\ mounts'[Len(mounts) + 1] = [fs |-> op, at |-> cur]
  BY <1>1, <1>6, <1>7, AppendProperties
<1> QED
  BY <1>1, <1>2, <1>3, <1>4, <1>5, <1>8 DEF Changes

\* A mount: it is the last of the list, and its node points to it.
LEMMA MountInv ==
    ASSUME CommonInv, Mount
    PROVE  CommonInv'
<1>1. PICK c : c = cur
  OBVIOUS
<1>2. /\ op \in Fs /\ c \in MountPoints /\ Changes(c) /\ mounts # << >>
      /\ tree'[c].mounted = op
      /\ Len(mounts') = Len(mounts) + 1
      /\ mounts' \in Seq([fs : Fs, at : Seq(Nat)])
      /\ \A k \in 1 .. Len(mounts) : mounts'[k] = mounts[k]
      /\ mounts'[Len(mounts) + 1].fs = op /\ mounts'[Len(mounts) + 1].at = c
      /\ files' = files
  BY <1>1, MountChanges
<1>3. /\ Len(mounts) \in Nat /\ 1 \in 1 .. Len(mounts) /\ MountsInv
      /\ DOMAIN mounts = 1 .. Len(mounts) /\ DOMAIN mounts' = 1 .. (Len(mounts) + 1)
  BY <1>2, MountFacts, LenProperties DEF CommonInv
<1>4. TreeInv' /\ \A a : Occupied(a) => Occupied(a)'
  BY <1>2, ChangeInv DEF CommonInv
<1>5. Tree' = Tree /\ c \in Tree /\ \A r \in Tree : r # c => tree'[r] = tree[r]
  BY <1>2 DEF Changes
<1>6. \A k \in 1 .. (Len(mounts) + 1) : k \in 1 .. Len(mounts) \/ k = Len(mounts) + 1
  BY <1>3
<1>7. MountsInv'
  <2>1. \A k \in 1 .. Len(mounts) : /\ mounts'[k].at \in Tree'
                                    /\ mounts'[k].at \in MountPoints \union {Root}
                                    /\ mounts'[k].at = Root <=> k = 1
    BY <1>2, <1>3, <1>5 DEF MountsInv
  <2>2. c # Root /\ Len(mounts) + 1 # 1
    BY <1>2, <1>3, MountPointsAssumption
  <2> QED
    BY <2>1, <2>2, <1>2, <1>5, <1>6 DEF MountsInv
<1>8. FilesInv'
  <2>1. ASSUME NEW h \in Handles, files[h] # None, files[h].descriptor # None
        PROVE  \E r \in Tree' : AddrIn(Tree', r) = files[h].descriptor
    BY <2>1, <1>5 DEF CommonInv, FilesInv, Occupied
  <2> QED
    BY <2>1, <1>2 DEF CommonInv, FilesInv, Occupied, AddrIn, Before
<1>9. NewestMountOnTop'
  <2> SUFFICES ASSUME NEW k \in 1 .. (Len(mounts) + 1), mounts'[k].at # Root,
                      \A j \in 1 .. (Len(mounts) + 1) : mounts'[j].at = mounts'[k].at => j <= k
               PROVE  tree'[mounts'[k].at].mounted = mounts'[k].fs
    BY <1>3 DEF NewestMountOnTop
  <2>1. CASE k = Len(mounts) + 1
    BY <2>1, <1>2
  <2>2. CASE k \in 1 .. Len(mounts)
    <3>1. mounts'[k] = mounts[k]
      BY <2>2, <1>2
    <3>2. mounts[k].at # c
      <4>1. Len(mounts) + 1 \in 1 .. (Len(mounts) + 1) /\ ~(Len(mounts) + 1 <= k)
        BY <1>3, <2>2
      <4>2. mounts'[Len(mounts) + 1].at # mounts'[k].at
        BY <4>1
      <4> QED
        BY <4>2, <1>2, <3>1
    <3>3. mounts[k].at \in Tree
      BY <2>2, <1>3 DEF MountsInv
    <3>4. \A j \in DOMAIN mounts : mounts[j].at = mounts[k].at => j <= k
      BY <1>2, <1>3, <1>6, <3>1
    <3>5. tree[mounts[k].at].mounted = mounts[k].fs
      BY <3>1, <3>4, <1>3, <2>2 DEF CommonInv, NewestMountOnTop
    <3> QED
      BY <3>1, <3>2, <3>3, <3>5, <1>5
  <2> QED
    BY <2>1, <2>2, <1>6
<1>10. WalkInv'
  BY RestWalk DEF Mount
<1> QED
  BY <1>4, <1>7, <1>8, <1>9, <1>10 DEF CommonInv

\* What a node is apart from its reference count.
SameBut(n, m) == /\ n \in NodeT /\ m.vfs = n.vfs /\ m.ino = n.ino /\ m.mounted = n.mounted
                 /\ m.parent = n.parent

\* open and close change a reference count.
LEMMA RefsChange ==
    ASSUME CommonInv, NEW q \in Tree, NEW n \in Nat, tree' = [tree EXCEPT ![q].refs = n]
    PROVE  /\ Changes(q) /\ tree'[q].refs = n /\ tree'[q] = [tree[q] EXCEPT !.refs = n]
           /\ \A r \in Tree : SameBut(tree[r], tree'[r])
<1>1. \A r \in Tree : tree[r] \in NodeT
  BY DEF CommonInv, TreeInv
<1>2. /\ Tree' = Tree
      /\ \A r \in Tree : r # q => tree'[r] = tree[r]
      /\ tree'[q] = [tree[q] EXCEPT !.refs = n]
  BY DEF Tree
<1>3. ASSUME NEW m \in NodeT
      PROVE  /\ [m EXCEPT !.refs = n] \in NodeT /\ [m EXCEPT !.refs = n].refs = n
             /\ SameBut(m, [m EXCEPT !.refs = n])
  BY DEF NodeT, SameBut
<1>4. \A m \in NodeT : SameBut(m, m)
  BY DEF SameBut
<1>5. tree'[q] \in NodeT /\ tree'[q].refs = n /\ SameBut(tree[q], tree'[q])
  BY <1>1, <1>2, <1>3
<1> QED
  BY <1>1, <1>2, <1>4, <1>5 DEF Changes, SameBut

\* A File is opened or closed.
LEMMA FileStepInv ==
    ASSUME CommonInv, NEW q \in Tree, NEW n \in Nat, tree' = [tree EXCEPT ![q].refs = n],
           NEW h \in Handles, NEW x, files' = [files EXCEPT ![h] = x],
           x = None \/ (x \in FileT /\ Occupied(x.descriptor)),
           UNCHANGED <<mounts, pc, op, cur, rest>>
    PROVE  CommonInv'
<1>1. Changes(q) /\ \A r \in Tree : SameBut(tree[r], tree'[r])
  BY RefsChange
<1>2. TreeInv' /\ \A a : Occupied(a) => Occupied(a)'
  BY <1>1, ChangeInv DEF CommonInv
<1>3. Tree' = Tree
  BY <1>1 DEF Changes
<1>4. MountsInv'
  BY <1>3 DEF CommonInv, MountsInv
<1>5. FilesInv'
  <2>1. files \in [Handles -> FileT \union {None}]
    BY DEF CommonInv, FilesInv
  <2>2. files' \in [Handles -> FileT \union {None}] /\ FileT' = FileT
    BY <2>1 DEF FileT
  <2>3. ASSUME NEW g \in Handles, files'[g] # None, files'[g].descriptor # None
        PROVE  Occupied(files'[g].descriptor)
    BY <2>1, <2>3 DEF CommonInv, FilesInv
  <2>4. ASSUME NEW g \in Handles, files'[g] # None, files'[g].descriptor # None
        PROVE  \E r \in Tree' : AddrIn(Tree', r) = files'[g].descriptor
    BY <2>3, <2>4, <1>3 DEF Occupied
  <2> QED
    BY <2>2, <2>4 DEF FilesInv, Occupied, AddrIn, Before
<1>6. NewestMountOnTop'
  <2>1. \A k \in DOMAIN mounts : mounts[k].at \in Tree
    BY MountFacts DEF CommonInv, MountsInv
  <2> QED
    BY <1>1, <2>1 DEF CommonInv, NewestMountOnTop, SameBut
<1>7. WalkInv'
  BY <1>3 DEF CommonInv, WalkInv
<1> QED
  BY <1>2, <1>4, <1>5, <1>6, <1>7 DEF CommonInv

\* A File is opened on a node of the tree.
LEMMA OpenInv ==
    ASSUME CommonInv, NEW h \in Handles, Open(h)
    PROVE  CommonInv'
<1> DEFINE x == [descriptor |-> AddrIn(Tree, cur), of |-> cur]
           n == tree[cur].refs + 1
<1>1. /\ pc = "found" /\ tree' = [tree EXCEPT ![cur].refs = n]
      /\ files' = [files EXCEPT ![h] = x]
      /\ UNCHANGED <<mounts, pc, op, cur, rest>>
  BY AddressOfIs DEF Open
<1>2. cur \in Tree /\ cur \in Seq(Nat) /\ IsFiniteSet(Tree) /\ tree[cur] \in NodeT
  BY <1>1 DEF CommonInv, WalkInv, TreeInv
<1>3. n \in Nat
  BY <1>2 DEF NodeT
<1>4. AddrIn(Tree, cur) \in Address
  BY <1>2, AddrType
<1>5. x \in FileT /\ x.descriptor = AddrIn(Tree, cur)
  BY <1>2, <1>4 DEF FileT
<1>6. Occupied(x.descriptor)
  BY <1>2, <1>5 DEF Occupied
<1> HIDE DEF x, n
<1> QED
  BY <1>1, <1>2, <1>3, <1>5, <1>6, FileStepInv

\* What open does, with the address in terms of the tree.
LEMMA OpenIs ==
    ASSUME CommonInv, NEW h \in Handles, Open(h)
    PROVE  /\ pc = "found" /\ files[h] = None /\ mounts # << >> /\ cur \in Tree
           /\ tree[cur].refs + 1 \in Nat
           /\ tree' = [tree EXCEPT ![cur].refs = tree[cur].refs + 1]
           /\ files' = [files EXCEPT ![h] = [descriptor |-> AddrIn(Tree, cur), of |-> cur]]
           /\ AddrIn(Tree, cur) \in Address
           /\ UNCHANGED <<mounts, pc, op, cur, rest>>
<1>1. /\ pc = "found" /\ files[h] = None /\ tree' = [tree EXCEPT ![cur].refs = tree[cur].refs + 1]
      /\ files' = [files EXCEPT ![h] = [descriptor |-> AddrIn(Tree, cur), of |-> cur]]
      /\ UNCHANGED <<mounts, pc, op, cur, rest>>
  BY AddressOfIs DEF Open
<1>2. cur \in Tree /\ cur \in Seq(Nat) /\ IsFiniteSet(Tree) /\ tree[cur] \in NodeT /\ mounts # << >>
  BY <1>1 DEF CommonInv, WalkInv, TreeInv
<1>3. tree[cur].refs + 1 \in Nat
  BY <1>2 DEF NodeT
<1> QED
  BY <1>1, <1>2, <1>3, AddrType

\* A File is closed: the count of the node its descriptor leads to goes down.
CloseDone(h, q) ==
    /\ IsOpen(h) /\ files[h].descriptor # None
    /\ q = NodeAt(files[h].descriptor) /\ q \in Tree
    /\ tree[q].refs # 0
    /\ tree' = [tree EXCEPT ![q].refs = tree[q].refs - 1]
    /\ files' = [files EXCEPT ![h] = None]
    /\ UNCHANGED <<mounts, fresh, pc, op, cur, rest, fault>>

\* The drop of a File counts down, or overflows.
LEMMA CloseKinds ==
    ASSUME CommonInv, NEW h \in Handles, Close(h)
    PROVE  Fault("overflow") \/ \E q : CloseDone(h, q)
<1>1. IsOpen(h) /\ files[h].descriptor # None
  BY DEF Close
<1>2. NodeAt(files[h].descriptor) \in Tree
  BY <1>1, NodeAtOccupied DEF CommonInv, FilesInv, IsOpen
<1>3. CASE tree[NodeAt(files[h].descriptor)].refs = 0
  BY <1>3 DEF Close
<1>4. CASE tree[NodeAt(files[h].descriptor)].refs # 0
  BY <1>1, <1>2, <1>4 DEF Close, CloseDone
<1> QED
  BY <1>3, <1>4

\* What close does.
LEMMA CloseIs ==
    ASSUME CommonInv, NEW h \in Handles, NEW q, CloseDone(h, q)
    PROVE  /\ files[h] # None /\ q \in Tree /\ tree[q].refs - 1 \in Nat
           /\ tree' = [tree EXCEPT ![q].refs = tree[q].refs - 1]
           /\ files' = [files EXCEPT ![h] = None]
           /\ UNCHANGED <<mounts, pc, op, cur, rest>>
<1>1. tree[q].refs \in Nat
  BY DEF CommonInv, TreeInv, CloseDone, NodeT
<1> QED
  BY <1>1 DEF CloseDone, IsOpen

\* A File is closed.
LEMMA CloseInv ==
    ASSUME CommonInv, NEW h \in Handles, NEW q, CloseDone(h, q)
    PROVE  CommonInv'
<1>1. q \in Tree /\ tree[q].refs # 0
  BY DEF CloseDone
<1>2. tree[q].refs - 1 \in Nat
  BY <1>1 DEF CommonInv, TreeInv, NodeT
<1>3. PICK n \in Nat : n = tree[q].refs - 1
  BY <1>2
<1> QED
  BY <1>1, <1>3, FileStepInv DEF CloseDone

\* The first mount, with a new tree.
LEMMA AddRootInv ==
    ASSUME CommonInv, NEW f \in Fs, AddRoot(f)
    PROVE  CommonInv'
<1>1. /\ tree' = [q \in {Root} |-> NewNode(f, Root, None)]
      /\ mounts' = <<[fs |-> f, at |-> Root]>>
      /\ files' = [h \in Handles |-> Uprooted(files[h])]
      /\ Rest
  BY DEF AddRoot
<1>2. Tree' = {Root} /\ tree'[Root] = NewNode(f, Root, None)
  BY <1>1 DEF Tree
<1>3. Root \in Seq(Nat)
  BY EmptySeq DEF Root
<1>4. NewNode(f, Root, None) \in NodeT /\ NewNode(f, Root, None).parent = None
  BY <1>3 DEF NewNode, NodeT
<1>5. TreeInv'
  BY <1>2, <1>3, <1>4, FS_Singleton DEF TreeInv, NodeT
<1>6. [fs |-> f, at |-> Root] \in [fs : Fs, at : Seq(Nat)]
  BY <1>3
<1>7. /\ mounts' \in Seq([fs : Fs, at : Seq(Nat)]) /\ Len(mounts') = 1
      /\ mounts'[1].at = Root /\ DOMAIN mounts' = {1}
  <2>1. ASSUME NEW S, NEW e \in S
        PROVE  <<e>> \in Seq(S) /\ Len(<<e>>) = 1 /\ <<e>>[1] = e /\ DOMAIN <<e>> = {1}
    OBVIOUS
  <2>2. [fs |-> f, at |-> Root].at = Root
    OBVIOUS
  <2> QED
    BY <1>1, <1>6, <2>1, <2>2
<1>8. MountsInv'
  BY <1>2, <1>7 DEF MountsInv
<1>9. NewestMountOnTop'
  BY <1>7 DEF NewestMountOnTop
<1>10. FilesInv'
  <2>1. files \in [Handles -> FileT \union {None}] /\ FileT' = FileT
    BY DEF CommonInv, FilesInv, FileT
  <2>2. AddressOf(Root) = [leaf |-> Root, slot |-> -1]
    BY DEF AddressOf
  <2>3. \A file \in FileT : [file EXCEPT !.descriptor = None] \in FileT
    BY DEF FileT
  <2>4. \A h \in Handles : files'[h] = Uprooted(files[h]) /\ files[h] \in FileT \union {None}
    BY <1>1, <2>1
  <2>5. ASSUME NEW h \in Handles
        PROVE  /\ files'[h] \in FileT \union {None}
               /\ files'[h] # None /\ files'[h].descriptor # None => files'[h].descriptor = AddressOf(Root)
    <3>1. CASE files[h] = None \/ files[h].descriptor = AddressOf(Root)
      BY <3>1, <2>4 DEF Uprooted
    <3>2. CASE ~(files[h] = None \/ files[h].descriptor = AddressOf(Root))
      <4>1. files'[h] = [files[h] EXCEPT !.descriptor = None] /\ files[h] \in FileT
        BY <3>2, <2>4 DEF Uprooted
      <4>2. files'[h].descriptor = None
        BY <4>1 DEF FileT
      <4> QED
        BY <4>1, <4>2, <2>3
    <3> QED
      BY <3>1, <3>2
  <2>6. files' \in [Handles -> FileT \union {None}]
    BY <1>1, <2>4, <2>5
  <2>7. AddrIn(Tree', Root) = [leaf |-> Root, slot |-> -1]
    BY DEF AddrIn
  <2>8. ASSUME NEW h \in Handles, files'[h] # None, files'[h].descriptor # None
        PROVE  \E r \in Tree' : AddrIn(Tree', r) = files'[h].descriptor
    BY <2>2, <2>5, <2>7, <2>8, <1>2
  <2> QED
    BY <2>1, <2>6, <2>8 DEF FilesInv, Occupied, AddrIn, Before
<1> QED
  BY <1>1, <1>5, <1>8, <1>9, <1>10, RestWalk DEF CommonInv

\* A list of mounts without one of them.
LEMMA RemoveAtFacts ==
    ASSUME NEW S, NEW s \in Seq(S), NEW k \in 1 .. Len(s)
    PROVE  /\ RemoveAt(s, k) \in Seq(S)
           /\ Len(RemoveAt(s, k)) = Len(s) - 1
           /\ \A j \in 1 .. (Len(s) - 1) : RemoveAt(s, k)[j] = IF j < k THEN s[j] ELSE s[j + 1]
<1>1. Len(s) \in Nat /\ k \in Nat
  OBVIOUS
<1>2. /\ SubSeq(s, 1, k - 1) \in Seq(S) /\ Len(SubSeq(s, 1, k - 1)) = k - 1
      /\ \A j \in 1 .. (k - 1) : SubSeq(s, 1, k - 1)[j] = s[j]
  OBVIOUS
<1>3. /\ SubSeq(s, k + 1, Len(s)) \in Seq(S) /\ Len(SubSeq(s, k + 1, Len(s))) = Len(s) - k
      /\ \A j \in 1 .. (Len(s) - k) : SubSeq(s, k + 1, Len(s))[j] = s[k + j]
  OBVIOUS
<1> DEFINE a == SubSeq(s, 1, k - 1)
           b == SubSeq(s, k + 1, Len(s))
<1> HIDE DEF a, b
<1>4. /\ a \o b \in Seq(S) /\ Len(a \o b) = Len(s) - 1
      /\ \A j \in 1 .. (Len(s) - 1) : (a \o b)[j] = IF j <= Len(a) THEN a[j] ELSE b[j - Len(a)]
  <2>1. a \in Seq(S) /\ b \in Seq(S) /\ Len(a) + Len(b) = Len(s) - 1
    <3>1. a \in Seq(S) /\ Len(a) = k - 1
      BY <1>2 DEF a
    <3>2. b \in Seq(S) /\ Len(b) = Len(s) - k
      BY <1>3 DEF b
    <3> QED
      BY <3>1, <3>2, <1>1
  <2>2. /\ a \o b \in Seq(S) /\ Len(a \o b) = Len(a) + Len(b)
        /\ \A j \in 1 .. Len(a) + Len(b) : (a \o b)[j] = IF j <= Len(a) THEN a[j] ELSE b[j - Len(a)]
    BY <2>1, ConcatProperties
  <2> QED
    BY <2>1, <2>2
<1>5. ASSUME NEW j \in 1 .. (Len(s) - 1) PROVE (a \o b)[j] = IF j < k THEN s[j] ELSE s[j + 1]
  <2>1. CASE j < k
    BY <2>1, <1>1, <1>2, <1>4 DEF a
  <2>2. CASE j >= k
    <3>1. j - (k - 1) \in 1 .. (Len(s) - k) /\ ~(j <= k - 1) /\ k + (j - (k - 1)) = j + 1
      BY <2>2, <1>1
    <3>2. (a \o b)[j] = b[j - (k - 1)]
      BY <3>1, <1>2, <1>4 DEF a
    <3>3. b[j - (k - 1)] = s[j + 1]
      BY <3>1, <1>3 DEF b
    <3> QED
      BY <3>2, <3>3, <2>2, <1>1
  <2>3. j < k \/ j >= k
    BY <1>1
  <2> QED
    BY <2>1, <2>2, <2>3
<1> QED
  BY <1>4, <1>5 DEF RemoveAt, a, b

\* What del_vfs takes off the list: not "/".
Unlists(k, p) ==
    /\ k \in 2 .. Len(mounts) /\ mounts[k].at = p /\ p \in MountPoints
    /\ \A j \in 1 .. (k - 1) : mounts[j].at # p
    /\ mounts' = RemoveAt(mounts, k)
    /\ UNCHANGED <<tree, files>>

\* del_vfs takes a mount off the list.
LEMMA DelVfsKinds ==
    ASSUME CommonInv, NEW p \in MountPoints, DelVfs(p)
    PROVE  Rest /\ \E k : Unlists(k, p)
<1>1. PICK k \in DOMAIN mounts : /\ mounts[k].at = p
                                 /\ \A j \in 1 .. (k - 1) : mounts[j].at # p
                                 /\ mounts' = RemoveAt(mounts, k)
  BY DEF DelVfs
<1>2. k \in 1 .. Len(mounts) /\ Len(mounts) \in Nat /\ k # 1
  BY <1>1, MountFacts, MountPointsAssumption DEF CommonInv, MountsInv
<1>3. k \in 2 .. Len(mounts)
  BY <1>2
<1> QED
  BY <1>1, <1>3 DEF DelVfs, Unlists

\* A mount is taken off, the oldest on its point: the newest stays on top.
LEMMA UnlistInv ==
    ASSUME CommonInv, NEW p, NEW k, Unlists(k, p), Rest
    PROVE  CommonInv'
<1> DEFINE N == Len(mounts)
           old(j) == IF j < k THEN j ELSE j + 1
<1>1. /\ k \in 2 .. N /\ N \in Nat /\ mounts[k].at = p
      /\ \A j \in 1 .. (k - 1) : mounts[j].at # p
      /\ tree' = tree /\ files' = files /\ Tree' = Tree
  BY MountFacts DEF Unlists, CommonInv, Tree
<1>2. k \in 1 .. N
  BY <1>1
<1>3. /\ mounts' \in Seq([fs : Fs, at : Seq(Nat)]) /\ Len(mounts') = N - 1
      /\ \A j \in 1 .. (N - 1) : mounts'[j] = mounts[old(j)]
      /\ DOMAIN mounts' = 1 .. (N - 1) /\ DOMAIN mounts = 1 .. N
  <2>1. mounts \in Seq([fs : Fs, at : Seq(Nat)]) /\ DOMAIN mounts = 1 .. N
    BY MountFacts DEF CommonInv, MountsInv
  <2>2. /\ mounts' \in Seq([fs : Fs, at : Seq(Nat)]) /\ Len(mounts') = N - 1
        /\ \A j \in 1 .. (N - 1) : mounts'[j] = IF j < k THEN mounts[j] ELSE mounts[j + 1]
    BY <2>1, <1>2, RemoveAtFacts DEF Unlists
  <2>3. DOMAIN mounts' = 1 .. (N - 1)
    BY <2>2, LenProperties
  <2> QED
    BY <2>1, <2>2, <2>3
<1>4. \A j \in 1 .. (N - 1) : old(j) \in 1 .. N /\ old(j) # k /\ (old(j) = 1 <=> j = 1)
  BY <1>1
<1>5. \A x \in 1 .. N : x # k => \E j \in 1 .. (N - 1) : old(j) = x
  <2> SUFFICES ASSUME NEW x \in 1 .. N, x # k PROVE \E j \in 1 .. (N - 1) : old(j) = x
    OBVIOUS
  <2>1. CASE x < k
    BY <2>1, <1>1
  <2>2. CASE x > k
    <3>1. x - 1 \in 1 .. (N - 1) /\ old(x - 1) = x
      BY <2>2, <1>1
    <3> QED
      BY <3>1
  <2> QED
    BY <2>1, <2>2, <1>1
<1>6. \A j, l \in 1 .. (N - 1) : j <= l => old(j) <= old(l)
  BY <1>1
<1>7. MountsInv'
  <2>1. \A x \in 1 .. N : /\ mounts[x].at \in Tree /\ mounts[x].at \in MountPoints \union {Root}
                          /\ mounts[x].at = Root <=> x = 1
    BY DEF CommonInv, MountsInv
  <2> HIDE DEF old
  <2>2. ASSUME NEW j \in 1 .. (N - 1)
        PROVE  /\ mounts'[j].at \in Tree'
               /\ mounts'[j].at \in MountPoints \union {Root}
               /\ mounts'[j].at = Root <=> j = 1
    <3>1. mounts'[j] = mounts[old(j)] /\ old(j) \in 1 .. N /\ (old(j) = 1 <=> j = 1)
      BY <1>3, <1>4
    <3> QED
      BY <3>1, <2>1, <1>1
  <2> QED
    BY <1>3, <2>2 DEF MountsInv
<1>8. NewestMountOnTop'
  <2> SUFFICES ASSUME NEW j \in 1 .. (N - 1), mounts'[j].at # Root,
                      \A l \in 1 .. (N - 1) : mounts'[l].at = mounts'[j].at => l <= j
               PROVE  tree[mounts'[j].at].mounted = mounts'[j].fs
    BY <1>1, <1>3 DEF NewestMountOnTop
  <2>1. old(j) \in 1 .. N /\ old(j) # k /\ mounts'[j] = mounts[old(j)]
    BY <1>3, <1>4
  <2>2. ASSUME NEW x \in 1 .. N, mounts[x].at = mounts[old(j)].at PROVE x <= old(j)
    <3>1. CASE x = k
      BY <3>1, <2>1, <2>2, <1>1
    <3>2. CASE x # k
      <4>1. PICK l \in 1 .. (N - 1) : old(l) = x
        BY <3>2, <1>5
      <4>2. mounts'[l].at = mounts'[j].at
        BY <4>1, <2>1, <2>2, <1>3
      <4>3. l <= j
        BY <4>2
      <4> QED
        BY <4>1, <4>3, <1>6
    <3> QED
      BY <3>1, <3>2
  <2> HIDE DEF old
  <2> QED
    BY <2>1, <2>2, <1>3 DEF CommonInv, NewestMountOnTop
<1>9. TreeInv'
  BY <1>1 DEF CommonInv, TreeInv, Occupied, AddrIn, Before, Tree
<1>10. FilesInv'
  BY <1>1 DEF CommonInv, FilesInv, Occupied, AddrIn, Before, Tree
<1> QED
  BY <1>7, <1>8, <1>9, <1>10, RestWalk DEF CommonInv

\* "/" is unmounted; the tree stays.
LEMMA DelRootInv ==
    ASSUME CommonInv, DelRoot
    PROVE  CommonInv'
<1>1. mounts' = << >> /\ tree' = tree /\ files' = files /\ Rest
  BY DEF DelRoot
<1>2. MountsInv' /\ NewestMountOnTop'
  BY <1>1, EmptySeq DEF MountsInv, NewestMountOnTop
<1>3. TreeInv'
  BY <1>1 DEF CommonInv, TreeInv, Occupied, AddrIn, Before, Tree
<1>4. FilesInv'
  BY <1>1 DEF CommonInv, FilesInv, Occupied, AddrIn, Before, Tree
<1> QED
  BY <1>1, <1>2, <1>3, <1>4, RestWalk DEF CommonInv

\* One step, by what it does to the list, the tree and the Files.
LEMMA StepKinds ==
    ASSUME CommonInv, Next
    PROVE  \/ Still /\ CommonInv'
           \/ WalkInsert
           \/ Mount
           \/ \E h \in Handles : Open(h) \/ \E q : CloseDone(h, q)
           \/ \E f \in Fs : AddRoot(f)
           \/ DelRoot
           \/ \E p \in MountPoints : DelVfs(p) /\ Rest /\ \E k : Unlists(k, p)
<1>1. CASE WalkDot \/ WalkUp
  BY <1>1, WalkDotsInv DEF WalkDot, WalkUp, WalkTo, Fail, Still
<1>2. CASE WalkCached
  BY <1>2, WalkCachedInv DEF WalkCached, WalkTo, Still
<1>3. CASE WalkMiss
  <2>1. \A kind : Fault(kind) => Still /\ CommonInv'
    BY FaultInv DEF Fault, Still
  <2>2. Fail => Still /\ CommonInv'
    BY FailInv DEF Fail, Still
  <2> QED
    BY <1>3, <2>1, <2>2, WalkMissKinds
<1>4. CASE WalkFound
  <2>1. pc' = "found" /\ UNCHANGED <<mounts, tree, files, op, cur, rest>> /\ pc = "walk"
    BY <1>4 DEF WalkFound
  <2>2. WalkInv'
    BY <2>1 DEF CommonInv, WalkInv, Tree
  <2> QED
    BY <2>1, <2>2, StillInv DEF Still
<1>5. CASE FileOps
  <2>1. PICK h \in Handles : Open(h) \/ Read(h) \/ Close(h) \/ UseUprooted(h)
    BY <1>5 DEF FileOps
  <2>2. CASE Read(h)
    <3>1. (\E kind : Fault(kind)) \/ UNCHANGED <<mounts, tree, files, fresh, pc, op, cur, rest, fault>>
      BY <2>2 DEF Read
    <3>2. Still
      BY <3>1 DEF Fault, Still
    <3>3. WalkInv'
      BY <3>1 DEF Fault, CommonInv, WalkInv, Tree
    <3> QED
      BY <3>2, <3>3, StillInv
  <2>3. CASE Close(h)
    BY <2>3, CloseKinds, FaultInv DEF Fault, Still
  <2>4. CASE UseUprooted(h)
    BY <2>4, FaultInv DEF UseUprooted, Fault, Still
  <2> QED
    BY <2>1, <2>2, <2>3, <2>4
<1>6. CASE \E f \in Fs, p \in MountPoints \union {Root} : AddRefused(f, p)
  BY <1>6, RestWalk, StillInv DEF AddRefused, Still
<1>7. CASE \E f \in Fs, p \in MountPoints : AddVfs(f, p)
  <2>1. PICK f \in Fs, p \in MountPoints : StartWalk(f, p)
    BY <1>7 DEF AddVfs
  <2>2. p \in Seq(Nat \union {Dot, DotDot})
    BY NamesAssumption, SeqMonotonic
  <2> QED
    BY <2>1, <2>2, StartWalkInv DEF StartWalk, Still
<1>8. CASE \E p \in Paths : VfsOpen(p)
  <2>1. PICK p \in Paths : StartWalk("open", p)
    BY <1>8 DEF VfsOpen
  <2>2. p \in Seq(Nat \union {Dot, DotDot}) /\ "open" \notin Fs
    BY NamesAssumption, NoneAssumption
  <2> QED
    BY <2>1, <2>2, StartWalkInv DEF StartWalk, Still
<1>9. CASE \E n \in Names : Lookup(n)
  <2>1. PICK n \in Names : Lookup(n)
    BY <1>9
  <2>2. n \in Nat
    BY NamesAreNumbers
  <2> QED
    BY <2>1, <2>2, LookupInv DEF Lookup, Still
<1>10. CASE \E p \in MountPoints : DelVfs(p)
  BY <1>10, DelVfsKinds
<1> QED
  BY <1>1, <1>2, <1>3, <1>4, <1>5, <1>6, <1>7, <1>8, <1>9, <1>10 DEF Next, Walk

\* Every step keeps the invariant.
LEMMA CommonNext ==
    ASSUME CommonInv, [Next]_vars
    PROVE  CommonInv'
<1>1. CASE UNCHANGED vars
  BY <1>1, StillInv DEF vars, Still, CommonInv, WalkInv, Tree
<1>2. CASE Next
  BY <1>2, StepKinds, WalkInsertInv, MountInv, OpenInv, CloseInv, AddRootInv, DelRootInv, UnlistInv
<1> QED
  BY <1>1, <1>2

\* At the start there is no tree.
LEMMA CommonInit == Init => CommonInv
<1> SUFFICES ASSUME Init PROVE CommonInv
  OBVIOUS
<1>1. /\ mounts = << >> /\ tree = << >> /\ files = [h \in Handles |-> None]
      /\ pc = "idle" /\ rest = << >>
  BY DEF Init
<1>2. Tree = {}
  BY <1>1 DEF Tree
<1> QED
  BY <1>1, <1>2, EmptySeq, FS_EmptySet
     DEF CommonInv, TreeInv, MountsInv, FilesInv, WalkInv, NewestMountOnTop

\* However add_vfs and del_vfs alternate with lookups, vfs_mounted_here of a mount
\* point is the newest mount on it: for all file systems and mount points.
THEOREM NewestIsOnTop == Spec => []NewestMountOnTop
<1>1. CommonInv /\ [Next]_vars => CommonInv'
  BY CommonNext
<1>2. CommonInv => NewestMountOnTop
  BY DEF CommonInv
<1> QED
  BY <1>1, <1>2, CommonInit, PTL DEF Spec
-----------------------------------------------------------------------------
(* The kernel's own calls.                                                 *)

\* The steps the kernel takes beside its one unmount, by what Caller says of them.
LEMMA KernelSteps ==
    ASSUME Next, callers' = "kernel" \/ (callers' = "unmounted" /\ callers = "unmounted")
    PROVE  /\ callers = callers'
           /\ \/ Walk
              \/ FileOps
              \/ \E f \in Fs : AddRoot(f)
              \/ \E f \in Fs, p \in MountPoints : AddVfs(f, p) /\ NoFileOpen /\ Unvisited(p)
              \/ \E p \in Paths : VfsOpen(p) /\ NoFileOpen
              \/ \E n \in Names : Lookup(n) /\ NoFileOpen
BY DEF Next, Caller

\* None of them takes a mount off the list.
LEMMA KernelOnlyAdds ==
    ASSUME CommonInv, Next,
           callers' = "kernel" \/ (callers' = "unmounted" /\ callers = "unmounted")
    PROVE  ~DelRoot /\ ~\E p \in MountPoints : \E k : Unlists(k, p)
<1>1. Len(mounts) \in Nat /\ mounts \in Seq([fs : Fs, at : Seq(Nat)])
  BY MountFacts DEF CommonInv, MountsInv
<1>2. mounts' = mounts \/ Len(mounts') = Len(mounts) + 1 \/ mounts = << >>
  <2>1. CASE Walk
    <3>1. CASE Mount
      BY <3>1, MountChanges
    <3>2. CASE WalkDot \/ WalkUp \/ WalkCached \/ WalkMiss \/ WalkFound
      BY <3>2 DEF WalkDot, WalkUp, WalkCached, WalkMiss, WalkFound, WalkTo, Fail, Rest, Fault
    <3> QED
      BY <2>1, <3>1, <3>2 DEF Walk
  <2>2. CASE FileOps
    BY <2>2 DEF FileOps, Open, Read, Close, UseUprooted, Fault
  <2> QED
    BY <2>1, <2>2, KernelSteps DEF AddRoot, AddVfs, VfsOpen, StartWalk, Lookup
<1>3. ASSUME DelRoot PROVE FALSE
  <2>1. Len(mounts) = 1 /\ mounts' = << >>
    BY <1>3 DEF DelRoot
  <2>2. Len(mounts') = 0 /\ mounts # << >>
    BY <2>1
  <2> QED
    BY <2>1, <2>2, <1>2
<1>4. ASSUME NEW p, NEW k, Unlists(k, p) PROVE FALSE
  <2>1. k \in 1 .. Len(mounts) /\ mounts' = RemoveAt(mounts, k)
    BY <1>1, <1>4 DEF Unlists
  <2>2. Len(mounts') = Len(mounts) - 1
    BY <2>1, <1>1, RemoveAtFacts
  <2>3. mounts # << >>
    BY <2>1
  <2> QED
    BY <2>2, <2>3, <1>1, <1>2
<1> QED
  BY <1>3, <1>4

-----------------------------------------------------------------------------
(* The kernel's own calls: the cache is right.                             *)

\* A strict prefix, name by name.
LEMMA PrefixIs ==
    ASSUME NEW s \in Seq(Nat), NEW t \in Seq(Nat)
    PROVE  IsStrictPrefix(s, t) <=> Len(s) < Len(t) /\ \A k \in 1 .. Len(s) : s[k] = t[k]
<1>1. Len(s) \in Nat /\ Len(t) \in Nat /\ \A k \in 1 .. Len(s) : s[k] \in Nat
  BY ElementOfSeq
<1>2. SubSeq(s, 1, Len(s)) = s
  BY SubSeqFull
<1>3. ASSUME Len(s) <= Len(t)
      PROVE  /\ SubSeq(t, 1, Len(s)) \in Seq(Nat) /\ Len(SubSeq(t, 1, Len(s))) = Len(s)
             /\ \A k \in 1 .. Len(s) : SubSeq(t, 1, Len(s))[k] = t[k]
  BY <1>1, <1>3
<1>4. ASSUME Len(s) <= Len(t)
      PROVE  s = SubSeq(t, 1, Len(s)) <=> \A k \in 1 .. Len(s) : s[k] = t[k]
  BY <1>3, <1>4, SeqEqual
<1>5. ASSUME Len(s) = Len(t), \A k \in 1 .. Len(s) : s[k] = t[k] PROVE s = t
  BY <1>5, SeqEqual
<1>6. IsStrictPrefix(s, t) <=> Len(s) <= Len(t) /\ s = SubSeq(t, 1, Len(s)) /\ s # t
  BY <1>2 DEF IsStrictPrefix, IsPrefix
<1>7. Len(s) <= Len(t) <=> Len(s) < Len(t) \/ Len(s) = Len(t)
  BY <1>1
<1>8. Len(s) < Len(t) => s # t
  BY <1>1
<1> QED
  BY <1>4, <1>5, <1>6, <1>7, <1>8

\* What is above a child: its directory, and what is above that.
LEMMA AboveChild ==
    ASSUME NEW s \in Seq(Nat), NEW d \in Seq(Nat), NEW n \in Nat
    PROVE  IsStrictPrefix(s, Append(d, n)) <=> IsStrictPrefix(s, d) \/ s = d
<1> DEFINE c == Append(d, n)
<1>1. /\ c \in Seq(Nat) /\ Len(c) = Len(d) + 1 /\ Len(d) \in Nat /\ Len(s) \in Nat
      /\ \A k \in 1 .. Len(d) : c[k] = d[k]
  OBVIOUS
<1> HIDE DEF c
<1>2. IsStrictPrefix(s, c) <=> Len(s) < Len(c) /\ \A k \in 1 .. Len(s) : s[k] = c[k]
  BY <1>1, PrefixIs
<1>3. IsStrictPrefix(s, d) <=> Len(s) < Len(d) /\ \A k \in 1 .. Len(s) : s[k] = d[k]
  BY PrefixIs
<1>4. Len(s) < Len(c) <=> Len(s) < Len(d) \/ Len(s) = Len(d)
  BY <1>1
<1>5. ASSUME Len(s) <= Len(d)
      PROVE  (\A k \in 1 .. Len(s) : s[k] = c[k]) <=> \A k \in 1 .. Len(s) : s[k] = d[k]
  <2>1. ASSUME NEW k \in 1 .. Len(s) PROVE c[k] = d[k]
    <3>1. k \in 1 .. Len(d)
      BY <1>1, <1>5
    <3> QED
      BY <3>1, <1>1
  <2> QED
    BY <2>1
<1>6. s = d <=> Len(s) = Len(d) /\ \A k \in 1 .. Len(s) : s[k] = d[k]
  BY SeqEqual
<1>7. Len(s) < Len(d) \/ Len(s) = Len(d) => Len(s) <= Len(d)
  BY <1>1
<1>8. IsStrictPrefix(s, c) <=> IsStrictPrefix(s, d) \/ s = d
  BY <1>2, <1>3, <1>4, <1>5, <1>6, <1>7
<1> QED
  BY <1>8 DEF c

\* The path of a child relative to something above it.
LEMMA RelativeChild ==
    ASSUME NEW d \in Seq(Nat), NEW n \in Nat, NEW l \in 0 .. Len(d)
    PROVE  SubSeq(Append(d, n), l + 1, Len(d) + 1) = Append(SubSeq(d, l + 1, Len(d)), n)
<1> DEFINE a == SubSeq(Append(d, n), l + 1, Len(d) + 1)
           b == SubSeq(d, l + 1, Len(d))
<1>1. Len(d) \in Nat /\ l \in Nat /\ l <= Len(d)
  OBVIOUS
<1>2. /\ Append(d, n) \in Seq(Nat) /\ Len(Append(d, n)) = Len(d) + 1
      /\ Append(d, n)[Len(d) + 1] = n
      /\ \A k \in 1 .. Len(d) : Append(d, n)[k] = d[k]
  OBVIOUS
<1>3. /\ a \in Seq(Nat) /\ Len(a) = Len(d) + 1 - l
      /\ \A k \in 1 .. (Len(d) + 1 - l) : a[k] = Append(d, n)[l + k]
  BY <1>1, <1>2
<1>4. /\ b \in Seq(Nat) /\ Len(b) = Len(d) - l
      /\ \A k \in 1 .. (Len(d) - l) : b[k] = d[l + k]
  BY <1>1
<1> HIDE DEF a, b
<1>5. /\ Append(b, n) \in Seq(Nat) /\ Len(Append(b, n)) = Len(b) + 1
      /\ Append(b, n)[Len(b) + 1] = n
      /\ \A k \in 1 .. Len(b) : Append(b, n)[k] = b[k]
  BY <1>4
<1>6. Len(a) = Len(Append(b, n))
  BY <1>1, <1>3, <1>4, <1>5
<1>7. ASSUME NEW k \in 1 .. Len(a) PROVE a[k] = Append(b, n)[k]
  <2>1. CASE k = Len(d) + 1 - l
    <3>1. l + k = Len(d) + 1 /\ k \in 1 .. (Len(d) + 1 - l) /\ k = Len(b) + 1
      BY <2>1, <1>1, <1>4
    <3>2. a[k] = n
      BY <3>1, <1>2, <1>3
    <3> QED
      BY <3>1, <3>2, <1>5
  <2>2. CASE k \in 1 .. (Len(d) - l)
    <3>1. l + k \in 1 .. Len(d) /\ k \in 1 .. (Len(d) + 1 - l) /\ k \in 1 .. Len(b)
      BY <2>2, <1>1, <1>4
    <3>2. a[k] = d[l + k]
      BY <3>1, <1>2, <1>3
    <3>3. Append(b, n)[k] = d[l + k]
      BY <3>1, <2>2, <1>4, <1>5
    <3> QED
      BY <3>2, <3>3
  <2>3. k = Len(d) + 1 - l \/ k \in 1 .. (Len(d) - l)
    <3>1. k \in 1 .. (Len(d) + 1 - l)
      BY <1>3
    <3> QED
      BY <3>1, <1>1
  <2> QED
    BY <2>1, <2>2, <2>3
<1>8. a = Append(b, n)
  BY <1>3, <1>5, <1>6, <1>7, SeqEqual
<1> QED
  BY <1>8 DEF a, b

\* The mount k is the one that covers the path q.
IsCovering(k, q) ==
    /\ k \in 1 .. Len(mounts) /\ Covers(mounts[k], q)
    /\ \A j \in 1 .. Len(mounts) : Covers(mounts[j], q) =>
          \/ Len(mounts[j].at) < Len(mounts[k].at)
          \/ mounts[j].at = mounts[k].at /\ j <= k

\* There is only one.
LEMMA CoveringIs ==
    ASSUME MountsInv, NEW q, NEW k, IsCovering(k, q)
    PROVE  Covering(q) = k
<1>1. Len(mounts) \in Nat /\ DOMAIN mounts = 1 .. Len(mounts)
      /\ \A j \in 1 .. Len(mounts) : Len(mounts[j].at) \in Nat
  BY MountFacts
<1>2. ASSUME NEW j, IsCovering(j, q) PROVE j = k
  <2>1. j \in 1 .. Len(mounts) /\ k \in 1 .. Len(mounts)
    BY <1>2 DEF IsCovering
  <2>2. Len(mounts[j].at) < Len(mounts[k].at) \/ (mounts[j].at = mounts[k].at /\ j <= k)
    BY <1>2, <2>1 DEF IsCovering
  <2>3. Len(mounts[k].at) < Len(mounts[j].at) \/ (mounts[j].at = mounts[k].at /\ k <= j)
    BY <1>2, <2>1 DEF IsCovering
  <2>4. Len(mounts[j].at) \in Nat /\ Len(mounts[k].at) \in Nat
    BY <1>1, <2>1
  <2> QED
    BY <1>1, <2>1, <2>2, <2>3, <2>4
<1>3. Covering(q) = CHOOSE x \in 1 .. Len(mounts) : IsCovering(x, q)
  BY <1>1 DEF Covering, IsCovering
<1> QED
  BY <1>2, <1>3 DEF IsCovering

\* The node at q is what the covering mount has there.
Resolved(q) ==
    \E k : /\ IsCovering(k, q)
           /\ tree[q].vfs = mounts[k].fs
           /\ tree[q].ino = SubSeq(q, Len(mounts[k].at) + 1, Len(q))

LEMMA ResolvedIs ==
    ASSUME CommonInv, NEW q, Resolved(q)
    PROVE  Coherent(q)
<1>1. PICK k : /\ IsCovering(k, q) /\ tree[q].vfs = mounts[k].fs
               /\ tree[q].ino = SubSeq(q, Len(mounts[k].at) + 1, Len(q))
  BY DEF Resolved
<1>2. Covering(q) = k
  BY <1>1, CoveringIs DEF CommonInv
<1> QED
  BY <1>1, <1>2 DEF Coherent

\* The node at q knows the newest mount on it, if there is one.
Topped(q) ==
    /\ tree[q].mounted = None => \A k \in 1 .. Len(mounts) : mounts[k].at = q => q = Root
    /\ tree[q].mounted # None =>
         /\ q # Root
         /\ \E k \in 1 .. Len(mounts) :
              /\ mounts[k].at = q /\ mounts[k].fs = tree[q].mounted
              /\ \A j \in 1 .. Len(mounts) : mounts[j].at = q => j <= k

(* ... and nobody has been below the point that add_vfs is about to mount  *)
(* on.                                                                     *)
CoherentInv ==
    callers = "kernel" =>
        /\ \A q \in Tree : Resolved(q) /\ Topped(q)
        /\ pc = "walk" /\ op \in Fs => Unvisited(cur \o rest)

\* Where the walk of add_vfs is going does not change on its way.
LEMMA WalkTarget ==
    ASSUME CommonInv, Next, callers' = "kernel", pc' = "walk", op' \in Fs
    PROVE  \/ Unvisited(cur' \o rest') /\ Tree' = Tree
           \/ pc = "walk" /\ op \in Fs /\ cur' \o rest' = cur \o rest
<1>1. CASE Walk
  <2>1. pc = "walk"
    BY <1>1 DEF Walk, WalkDot, WalkUp, WalkCached, WalkMiss, WalkFound, Mount, Walking
  <2>2. CASE WalkDot \/ WalkUp
    <3>1. Walking /\ Head(rest) \in {Dot, DotDot}
      BY <2>2 DEF WalkDot, WalkUp
    <3>2. op \notin Fs
      BY <3>1, NoDotsInAdd DEF Dot, DotDot
    <3>3. op' = op
      BY <2>2 DEF WalkDot, WalkUp, WalkTo, Fail, Rest
    <3> QED
      BY <3>2, <3>3
  <2>3. ASSUME Walking, WalkTo(Child)
        PROVE  op \in Fs /\ cur' \o rest' = cur \o rest
    <3>1. op' = op /\ cur' = Child /\ rest' = Tail(rest) /\ rest # << >>
      BY <2>3 DEF Walking, WalkTo
    <3>2. rest \in Seq(Nat) /\ cur \in Seq(Nat)
      BY <2>1, <3>1 DEF CommonInv, WalkInv, TreeInv
    <3> QED
      BY <3>1, <3>2, AddStep DEF Child
  <2>4. CASE WalkCached
    BY <2>1, <2>3, <2>4 DEF WalkCached
  <2>5. CASE WalkMiss
    BY <2>1, <2>3, <2>5 DEF WalkMiss, Fault, Fail, Rest
  <2>6. CASE WalkFound \/ Mount
    BY <2>6 DEF WalkFound, Mount, Rest
  <2> QED
    BY <1>1, <2>2, <2>4, <2>5, <2>6 DEF Walk
<1>2. CASE FileOps
  BY <1>2 DEF FileOps, Open, Read, Close, UseUprooted, Fault
<1>3. CASE \E f \in Fs, p \in MountPoints : AddVfs(f, p) /\ NoFileOpen /\ Unvisited(p)
  <2>1. PICK p \in MountPoints : Unvisited(p) /\ cur' = Root /\ rest' = p /\ tree' = tree
    BY <1>3 DEF AddVfs, StartWalk
  <2>2. Root \o p = p
    BY NamesAssumption, ConcatEmptySeq DEF Root
  <2> QED
    BY <2>1, <2>2 DEF Tree
<1>4. CASE \E f \in Fs : AddRoot(f)
  BY <1>4 DEF AddRoot, Rest
<1>5. CASE (\E p \in Paths : VfsOpen(p) /\ NoFileOpen) \/ \E n \in Names : Lookup(n) /\ NoFileOpen
  BY <1>5, NoneAssumption DEF VfsOpen, StartWalk, Lookup
<1> QED
  BY <1>1, <1>2, <1>3, <1>4, <1>5, KernelSteps

\* A node that is only counted, in a list that stays, is what it was.
LEMMA CoherentKept ==
    ASSUME mounts' = mounts, NEW q,
           tree'[q].vfs = tree[q].vfs, tree'[q].ino = tree[q].ino, tree'[q].mounted = tree[q].mounted,
           Resolved(q), Topped(q)
    PROVE  Resolved(q)' /\ Topped(q)'
<1>1. \A k : IsCovering(k, q)' <=> IsCovering(k, q)
  BY DEF IsCovering, Covers
<1>2. Resolved(q)'
  BY <1>1 DEF Resolved
<1>3. Topped(q)'
  BY DEF Topped
<1> QED
  BY <1>2, <1>3

\* The node that a lookup inserts is what the covering mount has there.
LEMMA InsertCoherent ==
    ASSUME CommonInv, WalkInsert, Resolved(cur), Topped(cur), NEW c, c = Child
    PROVE  Resolved(c)' /\ Topped(c)'
<1> DEFINE n == Head(rest)
           v == LookupIn(tree[cur]).vfs
           d == LookupIn(tree[cur]).dir
<1>1. /\ n \in Nat /\ Inserts(c) /\ c = Append(cur, n)
      /\ tree'[c].vfs = v /\ tree'[c].ino = Append(d, n) /\ tree'[c].mounted = None
  BY WalkInserts DEF NewNode, Child
<1>2. /\ cur \in Seq(Nat) /\ cur \in Tree /\ c \notin Tree /\ mounts' = mounts
      /\ Len(cur) \in Nat /\ Len(c) = Len(cur) + 1
  BY <1>1, NoDotsInAdd DEF Inserts, WalkInsert
<1>3. /\ Len(mounts) \in Nat
      /\ \A k \in 1 .. Len(mounts) : mounts[k].at \in Seq(Nat) /\ Len(mounts[k].at) \in Nat
  BY MountFacts DEF CommonInv
<1>4. \A k \in 1 .. Len(mounts) :
        Covers(mounts[k], c) <=> mounts[k].at = Root \/ IsStrictPrefix(mounts[k].at, cur) \/ mounts[k].at = cur
  BY <1>1, <1>2, <1>3, AboveChild DEF Covers
<1>5. \A k \in 1 .. Len(mounts) : mounts[k].at = Root \/ IsStrictPrefix(mounts[k].at, cur)
                                    <=> Covers(mounts[k], cur)
  BY DEF Covers
<1>6. Topped(c)'
  <2>1. \A k \in 1 .. Len(mounts) : mounts[k].at # c
    BY <1>2 DEF CommonInv, MountsInv
  <2> QED
    BY <2>1, <1>1, <1>2 DEF Topped
<1>7. SUFFICES \E k : /\ IsCovering(k, c) /\ v = mounts[k].fs
                      /\ Append(d, n) = SubSeq(c, Len(mounts[k].at) + 1, Len(c))
  <2>1. \A k : IsCovering(k, c)' <=> IsCovering(k, c)
    BY <1>2 DEF IsCovering, Covers
  <2> QED
    BY <2>1, <1>1, <1>2, <1>6 DEF Resolved
<1>8. CASE tree[cur].mounted # None
  <2>1. cur # Root /\ v = tree[cur].mounted /\ d = Root
    BY <1>8 DEF Topped, LookupIn
  <2>2. PICK k \in 1 .. Len(mounts) :
          /\ mounts[k].at = cur /\ mounts[k].fs = v
          /\ \A j \in 1 .. Len(mounts) : mounts[j].at = cur => j <= k
    BY <1>8, <2>1 DEF Topped
  <2>3. ASSUME NEW j \in 1 .. Len(mounts), Covers(mounts[j], c)
        PROVE  \/ Len(mounts[j].at) < Len(mounts[k].at)
               \/ mounts[j].at = mounts[k].at /\ j <= k
    <3>1. CASE mounts[j].at = Root
      <4>1. Len(mounts[j].at) = 0 /\ Len(cur) # 0
        BY <3>1, <2>1, <1>2, EmptySeq DEF Root
      <4> QED
        BY <4>1, <2>2, <1>2
    <3>2. CASE IsStrictPrefix(mounts[j].at, cur)
      BY <3>2, <2>2, <1>2, <1>3, PrefixIs
    <3>3. CASE mounts[j].at = cur
      BY <3>3, <2>2
    <3> QED
      BY <2>3, <3>1, <3>2, <3>3, <1>4
  <2>4. IsCovering(k, c)
    BY <2>2, <2>3, <1>4 DEF IsCovering
  <2>5. SubSeq(c, Len(cur) + 1, Len(c)) = Append(Root, n)
    <3>1. SubSeq(Append(cur, n), Len(cur) + 1, Len(cur) + 1) = Append(SubSeq(cur, Len(cur) + 1, Len(cur)), n)
      BY <1>1, <1>2, RelativeChild
    <3>2. SubSeq(cur, Len(cur) + 1, Len(cur)) = Root
      BY <1>2, SubSeqEmpty DEF Root
    <3> QED
      BY <3>1, <3>2, <1>1, <1>2
  <2> QED
    BY <2>1, <2>2, <2>4, <2>5
<1>9. CASE tree[cur].mounted = None
  <2>1. v = tree[cur].vfs /\ d = tree[cur].ino
    BY <1>9 DEF LookupIn
  <2>2. PICK k : /\ IsCovering(k, cur) /\ v = mounts[k].fs
                 /\ d = SubSeq(cur, Len(mounts[k].at) + 1, Len(cur))
    BY <2>1 DEF Resolved
  <2>3. \A j \in 1 .. Len(mounts) : Covers(mounts[j], c) <=> Covers(mounts[j], cur)
    <3>1. \A j \in 1 .. Len(mounts) : mounts[j].at = cur => mounts[j].at = Root
      BY <1>9 DEF Topped
    <3> QED
      BY <3>1, <1>4, <1>5
  <2>4. IsCovering(k, c)
    BY <2>2, <2>3 DEF IsCovering
  <2>5. k \in 1 .. Len(mounts) /\ Len(mounts[k].at) \in 0 .. Len(cur)
    <3>1. k \in 1 .. Len(mounts) /\ Covers(mounts[k], cur)
      BY <2>2 DEF IsCovering
    <3>2. CASE mounts[k].at = Root
      BY <3>1, <3>2, <1>2, EmptySeq DEF Root
    <3>3. CASE IsStrictPrefix(mounts[k].at, cur)
      BY <3>1, <3>3, <1>2, <1>3, PrefixIs
    <3> QED
      BY <3>1, <3>2, <3>3, <1>5
  <2>6. SubSeq(c, Len(mounts[k].at) + 1, Len(c)) = Append(d, n)
    BY <2>2, <2>5, <1>1, <1>2, RelativeChild
  <2> QED
    BY <2>2, <2>4, <2>6
<1> QED
  BY <1>8, <1>9

\* Nobody goes below the mount point of add_vfs while it walks there.
LEMMA TargetUnvisited ==
    ASSUME CommonInv, CoherentInv, Next, callers' = "kernel", pc' = "walk", op' \in Fs
    PROVE  Unvisited(cur \o rest)'
<1>1. PICK t : t = cur' \o rest'
  OBVIOUS
<1>2. SUFFICES \A q \in Tree' : ~IsStrictPrefix(t, q)
  BY <1>1 DEF Unvisited, Tree
<1>3. CASE Unvisited(t) /\ Tree' = Tree
  BY <1>3 DEF Unvisited, Tree
<1>4. CASE pc = "walk" /\ op \in Fs /\ t = cur \o rest
  <2>1. /\ \A q \in Tree : ~IsStrictPrefix(t, q)
        /\ cur \in Seq(Nat) /\ rest \in Seq(Nat)
    BY <1>4, KernelSteps DEF CoherentInv, Unvisited, Tree, CommonInv, WalkInv, TreeInv
  <2>2. CASE Tree' = Tree
    BY <2>1, <2>2
  <2>3. CASE WalkInsert
    <3>1. PICK c : c = Child
      OBVIOUS
    <3>2. Tree' = Tree \union {c} /\ c \in Seq(Nat) /\ c = Append(cur, Head(rest)) /\ rest # << >>
      BY <2>3, <3>1, WalkInserts DEF Inserts, Child, WalkInsert, Walking
    <3>3. t \in Seq(Nat) /\ Len(t) = Len(cur) + Len(rest)
      BY <1>4, <2>1, ConcatProperties
    <3>4. Len(rest) \in Nat \ {0} /\ Len(cur) \in Nat /\ Len(c) = Len(cur) + 1
      BY <2>1, <3>2, EmptySeq
    <3>5. ~(Len(t) < Len(c))
      BY <3>3, <3>4
    <3>6. ~IsStrictPrefix(t, c)
      BY <3>2, <3>3, <3>5, PrefixIs
    <3> QED
      BY <2>1, <3>2, <3>6
  <2>4. CASE \E h \in Handles : Open(h) \/ \E q : CloseDone(h, q)
    BY <2>2, <2>4, OpenIs, CloseIs, RefsChange DEF Changes
  <2>5. ~Mount /\ ~\E f \in Fs : AddRoot(f)
    BY DEF Mount, AddRoot, Rest
  <2> QED
    BY <2>2, <2>3, <2>4, <2>5, StepKinds, KernelOnlyAdds DEF Still, Tree
<1> QED
  BY <1>1, <1>3, <1>4, WalkTarget

\* A mount is above nothing that is cached, and on top of its own point.
LEMMA MountCoherent ==
    ASSUME CommonInv, CoherentInv, callers = "kernel", Mount, NEW q \in Tree
    PROVE  Resolved(q)' /\ Topped(q)'
<1> DEFINE N == Len(mounts)
<1>1. PICK c : c = cur
  OBVIOUS
<1>2. /\ c \in MountPoints /\ Changes(c) /\ op \in Fs /\ Len(mounts') = N + 1
      /\ tree'[c] = [tree[c] EXCEPT !.mounted = op] /\ tree'[c].mounted = op
      /\ \A k \in 1 .. N : mounts'[k] = mounts[k]
      /\ mounts'[N + 1].at = c /\ mounts'[N + 1].fs = op
  BY <1>1, MountChanges
<1>3. N \in Nat /\ c # Root /\ op # None
  BY <1>2, MountFacts, MountPointsAssumption, NoneAssumption DEF CommonInv
<1>4. /\ 1 .. (N + 1) = 1 .. N \union {N + 1} /\ N + 1 \in 1 .. (N + 1)
      /\ \A k \in 1 .. (N + 1) : k <= N + 1
  BY <1>3
<1>5. Resolved(q) /\ Topped(q)
  BY DEF CoherentInv
<1>6. ~IsStrictPrefix(c, q)
  <2>1. pc = "walk" /\ rest = << >> /\ op \in Fs /\ cur \in Seq(Nat)
    BY DEF Mount, CommonInv, WalkInv, TreeInv
  <2>2. cur \o rest = c
    BY <1>1, <2>1, ConcatEmptySeq
  <2> QED
    BY <2>1, <2>2 DEF CoherentInv, Unvisited, Tree
<1>7. ~Covers(mounts'[N + 1], q)
  BY <1>2, <1>3, <1>6 DEF Covers
<1>8. /\ c \in Tree /\ \A r \in Tree : r # c => tree'[r] = tree[r]
      /\ tree'[q].vfs = tree[q].vfs /\ tree'[q].ino = tree[q].ino
  <2>1. c \in Tree /\ \A r \in Tree : r # c => tree'[r] = tree[r]
    BY <1>2 DEF Changes
  <2>2. ASSUME NEW n \in NodeT
        PROVE  [n EXCEPT !.mounted = op].vfs = n.vfs /\ [n EXCEPT !.mounted = op].ino = n.ino
    BY DEF NodeT
  <2>3. tree[c] \in NodeT
    BY <2>1 DEF CommonInv, TreeInv
  <2>4. tree'[c].vfs = tree[c].vfs /\ tree'[c].ino = tree[c].ino
    BY <2>2, <2>3, <1>2
  <2> QED
    BY <2>1, <2>4
<1>9. Resolved(q)'
  <2>1. PICK k : /\ IsCovering(k, q) /\ tree[q].vfs = mounts[k].fs
                 /\ tree[q].ino = SubSeq(q, Len(mounts[k].at) + 1, Len(q))
    BY <1>5 DEF Resolved
  <2>2. k \in 1 .. N /\ mounts'[k] = mounts[k]
    BY <2>1, <1>2 DEF IsCovering
  <2>3. ASSUME NEW j \in 1 .. (N + 1), Covers(mounts'[j], q)
        PROVE  \/ Len(mounts'[j].at) < Len(mounts'[k].at)
               \/ mounts'[j].at = mounts'[k].at /\ j <= k
    <3>1. j \in 1 .. N /\ mounts'[j] = mounts[j]
      BY <2>3, <1>2, <1>4, <1>7
    <3> QED
      BY <2>1, <2>2, <2>3, <3>1 DEF IsCovering
  <2>4. IsCovering(k, q)'
    BY <2>1, <2>2, <2>3, <1>2, <1>4 DEF IsCovering, Covers
  <2> QED
    BY <2>1, <2>2, <2>4, <1>8 DEF Resolved
<1>10. CASE q = c
  BY <1>10, <1>2, <1>3, <1>4, <1>9 DEF Topped
<1>11. CASE q # c
  <2>1. tree'[q] = tree[q]
    BY <1>8, <1>11
  <2>2. \A k \in 1 .. (N + 1) : mounts'[k].at = q => k \in 1 .. N /\ mounts'[k] = mounts[k]
    BY <1>2, <1>4, <1>11
  <2>3. Topped(q)'
    <3>1. CASE tree[q].mounted = None
      BY <3>1, <2>1, <2>2, <1>2, <1>5 DEF Topped
    <3>2. CASE tree[q].mounted # None
      <4>1. PICK k \in 1 .. N : /\ mounts[k].at = q /\ mounts[k].fs = tree[q].mounted
                                /\ \A j \in 1 .. N : mounts[j].at = q => j <= k
        BY <3>2, <1>5 DEF Topped
      <4>2. q # Root
        BY <3>2, <1>5 DEF Topped
      <4>3. k \in 1 .. (N + 1) /\ mounts'[k] = mounts[k]
        BY <1>2, <1>4
      <4>4. \A j \in 1 .. (N + 1) : mounts'[j].at = q => j <= k
        BY <2>2, <4>1
      <4> QED
        BY <3>2, <4>1, <4>2, <4>3, <4>4, <2>1, <1>2 DEF Topped
    <3> QED
      BY <3>1, <3>2
  <2> QED
    BY <2>3, <1>9
<1> QED
  BY <1>9, <1>10, <1>11

\* The first mount covers the root of the new tree.
LEMMA AddRootCoherent ==
    ASSUME NEW f \in Fs, AddRoot(f), NEW q \in Tree'
    PROVE  Resolved(q)' /\ Topped(q)'
<1>1. /\ mounts' = <<[fs |-> f, at |-> Root]>>
      /\ tree' = [r \in {Root} |-> NewNode(f, Root, None)]
  BY DEF AddRoot
<1>2. Len(mounts') = 1 /\ mounts'[1].fs = f /\ mounts'[1].at = Root /\ 1 .. 1 = {1}
  BY <1>1
<1>3. /\ q = Root
      /\ tree'[q].vfs = f /\ tree'[q].ino = Root /\ tree'[q].mounted = None
  BY <1>1 DEF Tree, NewNode
<1>4. IsCovering(1, q)'
  BY <1>2, <1>3 DEF IsCovering, Covers
<1>5. SubSeq(q, Len(Root) + 1, Len(q)) = Root
  <2>1. q \in Seq(Nat) /\ Len(q) = 0 /\ Len(Root) = 0
    BY <1>3, EmptySeq DEF Root
  <2>2. SubSeq(q, 1, 0) = << >>
    BY <2>1, SubSeqEmpty
  <2> QED
    BY <2>1, <2>2 DEF Root
<1> QED
  BY <1>2, <1>3, <1>4, <1>5 DEF Resolved, Topped

\* One step keeps the cache right.
LEMMA CoherentNext ==
    ASSUME CommonInv, CoherentInv, [Next]_vars
    PROVE  CoherentInv'
<1>1. CASE UNCHANGED vars
  <2>1. \A q : (Resolved(q)' <=> Resolved(q)) /\ (Topped(q)' <=> Topped(q))
    BY <1>1 DEF vars, Resolved, Topped, IsCovering, Covers
  <2> QED
    BY <1>1, <2>1 DEF vars, CoherentInv, Unvisited, Tree
<1>2. CASE Next
  <2> SUFFICES ASSUME callers' = "kernel" PROVE \A q \in Tree' : Resolved(q)' /\ Topped(q)'
    BY <1>2, TargetUnvisited DEF CoherentInv
  <2>1. callers = "kernel" /\ \A q \in Tree : Resolved(q) /\ Topped(q)
    BY <1>2, KernelSteps DEF CoherentInv
  <2>2. CASE Still
    BY <2>1, <2>2, CoherentKept DEF Still, Tree
  <2>3. CASE WalkInsert
    <3>1. PICK c : c = Child
      OBVIOUS
    <3>2. /\ Tree' = Tree \union {c} /\ mounts' = mounts
          /\ \A q \in Tree : tree'[q] = tree[q]
      BY <2>3, <3>1, WalkInserts DEF Inserts
    <3>3. cur \in Tree
      BY <2>3, NoDotsInAdd DEF WalkInsert
    <3>4. Resolved(c)' /\ Topped(c)'
      BY <2>1, <2>3, <3>1, <3>3, InsertCoherent
    <3>5. \A q \in Tree : Resolved(q)' /\ Topped(q)'
      BY <2>1, <3>2, CoherentKept
    <3> QED
      BY <3>2, <3>4, <3>5
  <2>4. CASE Mount
    <3>1. Tree' = Tree
      BY <2>4, MountChanges DEF Changes
    <3> QED
      BY <2>1, <2>4, <3>1, MountCoherent
  <2>5. CASE \E h \in Handles : Open(h) \/ \E q : CloseDone(h, q)
    <3>1. /\ mounts' = mounts /\ Tree' = Tree
          /\ \A q \in Tree : SameBut(tree[q], tree'[q])
      BY <2>5, OpenIs, CloseIs, RefsChange DEF Changes
    <3> QED
      BY <2>1, <3>1, CoherentKept DEF SameBut
  <2>6. CASE \E f \in Fs : AddRoot(f)
    BY <2>6, AddRootCoherent
  <2> QED
    BY <1>2, <2>2, <2>3, <2>4, <2>5, <2>6, StepKinds, KernelOnlyAdds
<1> QED
  BY <1>1, <1>2

\* Before the first mount nothing is cached.
LEMMA CoherentInit == Init => CoherentInv
<1>1. Init => Tree = {} /\ pc = "idle"
  BY DEF Init, Tree
<1> QED
  BY <1>1 DEF CoherentInv

\* Every node the kernel has cached is the file that its path names now, whatever
\* file systems it mounts and wherever: the one that covers the path, and in it
\* the rest of the path.
THEOREM CacheIsCoherent == Spec => []CacheCoherent
<1>1. CommonInv /\ CoherentInv /\ [Next]_vars => CommonInv' /\ CoherentInv'
  BY CommonNext, CoherentNext
<1>2. CommonInv /\ CoherentInv => CacheCoherent
  BY ResolvedIs DEF CacheCoherent, CoherentInv, Tree
<1> QED
  BY <1>1, <1>2, CommonInit, CoherentInit, PTL DEF Spec
-----------------------------------------------------------------------------
(* What the one unmount of the kernel leaves behind.                       *)

(* A file system is mounted once: add_vfs takes it out of `fresh`.         *)
FreshInv ==
    /\ \A j, k \in 1 .. Len(mounts) : mounts[j].fs = mounts[k].fs => j = k
    /\ \A k \in 1 .. Len(mounts) : mounts[k].fs \notin fresh
    /\ pc = "walk" /\ op \in Fs =>
         op \notin fresh /\ \A k \in 1 .. Len(mounts) : mounts[k].fs # op

(* The list without its mount k, by the indices of the list before.        *)
Shifts(old, k) ==
    /\ Len(mounts) \in Nat /\ k \in 1 .. Len(mounts) /\ Len(mounts') = Len(mounts) - 1
    /\ \A j \in 1 .. Len(mounts') : /\ old[j] \in 1 .. Len(mounts) /\ old[j] # k
                                    /\ mounts'[j] = mounts[old[j]]
    /\ \A x \in 1 .. Len(mounts) : x # k => \E j \in 1 .. Len(mounts') : old[j] = x
    /\ \A i, j \in 1 .. Len(mounts') : i <= j <=> old[i] <= old[j]

LEMMA Shifted ==
    ASSUME CommonInv, NEW p, NEW k, Unlists(k, p)
    PROVE  \E old : Shifts(old, k)
<1> DEFINE old == [j \in 1 .. (Len(mounts) - 1) |-> IF j < k THEN j ELSE j + 1]
<1> DEFINE N == Len(mounts)
<1>1. k \in 2 .. N /\ k \in 1 .. N /\ N \in Nat /\ mounts \in Seq([fs : Fs, at : Seq(Nat)])
  BY MountFacts DEF Unlists, CommonInv, MountsInv
<1>2. /\ Len(mounts') = N - 1
      /\ \A j \in 1 .. (N - 1) : mounts'[j] = IF j < k THEN mounts[j] ELSE mounts[j + 1]
  BY <1>1, RemoveAtFacts DEF Unlists
<1>3. \A j \in 1 .. (N - 1) : old[j] \in 1 .. N /\ old[j] # k
  BY <1>1
<1>4. \A j \in 1 .. (N - 1) : mounts'[j] = mounts[old[j]]
  BY <1>2
<1>5. ASSUME NEW x \in 1 .. N, x # k PROVE \E j \in 1 .. (N - 1) : old[j] = x
  <2>1. CASE x < k
    <3>1. x \in 1 .. (N - 1) /\ old[x] = x
      BY <1>1, <2>1
    <3> QED
      BY <3>1
  <2>2. CASE x > k
    <3>1. x - 1 \in 1 .. (N - 1) /\ old[x - 1] = x
      BY <1>1, <2>2
    <3> QED
      BY <3>1
  <2> QED
    BY <1>1, <1>5, <2>1, <2>2
<1>6. \A i, j \in 1 .. (N - 1) : i <= j <=> old[i] <= old[j]
  BY <1>1
<1>7. Shifts(old, k)
  BY <1>1, <1>2, <1>3, <1>4, <1>5, <1>6 DEF Shifts
<1> QED
  BY <1>7

\* Every step keeps the file systems apart.
LEMMA FreshNext ==
    ASSUME CommonInv, FreshInv, [Next]_vars
    PROVE  FreshInv'
<1>1. CASE UNCHANGED vars
  BY <1>1 DEF vars, FreshInv
<1>2. CASE Mount
  <2>1. /\ op \in Fs /\ pc = "walk" /\ fresh' = fresh /\ pc' = "idle"
        /\ Len(mounts') = Len(mounts) + 1
        /\ \A k \in 1 .. Len(mounts) : mounts'[k] = mounts[k]
        /\ mounts'[Len(mounts) + 1].fs = op
    BY <1>2, MountChanges DEF Mount, Rest
  <2>2. Len(mounts) \in Nat
    BY MountFacts DEF CommonInv
  <2>3. 1 .. Len(mounts') = 1 .. Len(mounts) \union {Len(mounts) + 1}
    BY <2>1, <2>2
  <2> QED
    BY <2>1, <2>3 DEF FreshInv
<1>3. CASE Walk /\ ~Mount
  <2>1. mounts' = mounts /\ fresh' = fresh /\ (pc' = "walk" => pc = "walk" /\ op' = op)
    BY <1>3 DEF Walk, WalkDot, WalkUp, WalkCached, WalkMiss, WalkFound, Walking, WalkTo, Fail, Rest, Fault
  <2> QED
    BY <2>1 DEF FreshInv
<1>4. CASE FileOps
  <2>1. mounts' = mounts /\ fresh' = fresh /\ pc' = pc /\ op' = op
    BY <1>4 DEF FileOps, Open, Read, Close, UseUprooted, Fault
  <2> QED
    BY <2>1 DEF FreshInv
<1>5. ASSUME NEW f \in Fs, AddRoot(f) PROVE FreshInv'
  <2>1. mounts' = <<[fs |-> f, at |-> Root]>> /\ fresh' = fresh \ {f} /\ pc' = "idle"
    BY <1>5 DEF AddRoot, Rest
  <2>2. Len(mounts') = 1 /\ mounts'[1].fs = f /\ 1 .. 1 = {1}
    BY <2>1
  <2> QED
    BY <2>1, <2>2 DEF FreshInv
<1>6. CASE \E f \in Fs, p \in MountPoints \union {Root} : AddRefused(f, p)
  BY <1>6 DEF AddRefused, Rest, FreshInv
<1>7. CASE \E f \in Fs, p \in MountPoints : AddVfs(f, p)
  BY <1>7 DEF AddVfs, StartWalk, FreshInv
<1>8. CASE (\E p \in Paths : VfsOpen(p)) \/ \E n \in Names : Lookup(n)
  BY <1>8, NoneAssumption DEF VfsOpen, StartWalk, Lookup, FreshInv
<1>9. CASE DelRoot
  <2>1. mounts' = << >> /\ fresh' = fresh /\ pc' = "idle"
    BY <1>9 DEF DelRoot, Rest
  <2>2. 1 .. Len(mounts') = {}
    BY <2>1
  <2> QED
    BY <2>1, <2>2 DEF FreshInv
<1>10. ASSUME NEW p \in MountPoints, DelVfs(p) PROVE FreshInv'
  <2>1. PICK k : Unlists(k, p)
    BY <1>10, DelVfsKinds
  <2>2. PICK old : Shifts(old, k)
    BY <2>1, Shifted
  <2>3. /\ \A j \in 1 .. Len(mounts') : old[j] \in 1 .. Len(mounts) /\ mounts'[j] = mounts[old[j]]
        /\ \A i, j \in 1 .. Len(mounts') : i <= j <=> old[i] <= old[j]
        /\ Len(mounts') \in Int
    <3>1. \A j \in 1 .. Len(mounts') : old[j] \in 1 .. Len(mounts) /\ mounts'[j] = mounts[old[j]]
      BY <2>2, Zenon DEF Shifts
    <3>2. \A i, j \in 1 .. Len(mounts') : i <= j <=> old[i] <= old[j]
      BY <2>2, Zenon DEF Shifts
    <3>3. Len(mounts) \in Nat /\ Len(mounts') = Len(mounts) - 1
      BY <2>2, Zenon DEF Shifts
    <3>4. Len(mounts') \in Int
      BY <3>3
    <3> QED
      BY <3>1, <3>2, <3>4
  <2>4. fresh' = fresh /\ pc' = "idle"
    BY <1>10 DEF DelVfs, Rest
  <2>5. ASSUME NEW i \in 1 .. Len(mounts'), NEW j \in 1 .. Len(mounts'), old[i] = old[j]
        PROVE  i = j
    <3>1. i <= j /\ j <= i
      BY <2>3, <2>5
    <3> QED
      BY <3>1, <2>3
  <2>6. ASSUME NEW i \in 1 .. Len(mounts'), NEW j \in 1 .. Len(mounts'), mounts'[i].fs = mounts'[j].fs
        PROVE  i = j
    BY <2>3, <2>5, <2>6 DEF FreshInv
  <2>7. \A i \in 1 .. Len(mounts') : mounts'[i].fs \notin fresh
    BY <2>3 DEF FreshInv
  <2> QED
    BY <2>4, <2>6, <2>7 DEF FreshInv
<1> QED
  BY <1>1, <1>2, <1>3, <1>4, <1>5, <1>6, <1>7, <1>8, <1>9, <1>10 DEF Next

(* A node that the unmount has cut off: below a stale mount point, in the  *)
(* file system that was dropped, and no mount point itself.                *)
CutOff(q) ==
    /\ \E p \in Tree : Stale(p) /\ IsStrictPrefix(p, q)
    /\ tree[q].vfs \notin Alive /\ tree[q].mounted = None

(* A stale mount point still refers to what has been dropped.              *)
Dangling(q) == Stale(q) /\ tree[q].mounted \notin Alive

(* After the unmount a node is cut off, or as right as ever but for the    *)
(* mount point itself; and no mount is under way.                          *)
UnmountedInv ==
    callers = "unmounted" =>
        /\ \A q \in Tree : CutOff(q) \/ (Resolved(q) /\ (Topped(q) \/ Dangling(q)))
        /\ pc = "walk" => op \notin Fs

\* Lookups and Files leave it so: a lookup inserts no node where the file system
\* it would ask has been dropped.
LEMMA UnmountedKept ==
    ASSUME mounts' = mounts, NEW q \in Tree, Tree \subseteq Tree',
           \A r \in Tree : /\ tree'[r].vfs = tree[r].vfs /\ tree'[r].ino = tree[r].ino
                           /\ tree'[r].mounted = tree[r].mounted
    PROVE  /\ CutOff(q) => CutOff(q)'
           /\ Resolved(q) => Resolved(q)'
           /\ Topped(q) => Topped(q)'
           /\ Dangling(q) => Dangling(q)'
<1>1. \A k : IsCovering(k, q)' <=> IsCovering(k, q)
  BY DEF IsCovering, Covers
<1>2. Alive' = Alive
  BY DEF Alive
<1>3. \A r \in Tree : Stale(r)' <=> Stale(r)
  BY DEF Stale
<1> QED
  BY <1>1, <1>2, <1>3 DEF CutOff, Resolved, Topped, Dangling

\* The unmount itself: what the dropped mount covers is cut off, if it was the only
\* one on its point, and what other mounts cover is not touched.
LEMMA UnlistCutsOff ==
    ASSUME CommonInv, CoherentInv, FreshInv, callers = "kernel",
           NEW p \in MountPoints, DelVfs(p), NEW q \in Tree
    PROVE  CutOff(q)' \/ (Resolved(q)' /\ (Topped(q)' \/ Dangling(q)'))
<1>1. PICK k : Unlists(k, p)
  BY DelVfsKinds
<1>2. PICK old : Shifts(old, k)
  BY <1>1, Shifted
<1>3. /\ Len(mounts) \in Nat /\ k \in 1 .. Len(mounts) /\ Len(mounts') = Len(mounts) - 1
      /\ \A j \in 1 .. Len(mounts') : /\ old[j] \in 1 .. Len(mounts) /\ old[j] # k
                                      /\ mounts'[j] = mounts[old[j]]
      /\ \A x \in 1 .. Len(mounts) : x # k => \E j \in 1 .. Len(mounts') : old[j] = x
      /\ \A i, j \in 1 .. Len(mounts') : i <= j <=> old[i] <= old[j]
  BY <1>2 DEF Shifts
<1>4. /\ mounts[k].at = p /\ tree' = tree /\ Tree' = Tree /\ p # Root
      /\ \A j \in 1 .. Len(mounts) : mounts[j].at = p => k <= j
      /\ \A j \in 1 .. Len(mounts) : ~IsStrictPrefix(p, mounts[j].at)
  <2>1. \A j \in 1 .. (k - 1) : mounts[j].at # p
    BY <1>1 DEF Unlists
  <2>2. \A j \in 1 .. Len(mounts) : mounts[j].at = p => k <= j
    BY <2>1, <1>3
  <2>3. DOMAIN mounts = 1 .. Len(mounts)
    BY MountFacts DEF CommonInv
  <2> QED
    BY <1>1, <2>2, <2>3, MountPointsAssumption DEF Unlists, Tree, DelVfs, MountPointBusy
<1>5. DOMAIN mounts' = 1 .. Len(mounts')
  <2>1. CommonInv'
    BY <1>1, UnlistInv DEF DelVfs
  <2> QED
    BY <2>1, MountFacts DEF CommonInv
<1>6. ASSUME NEW v, \A j \in 1 .. Len(mounts) : mounts[j].fs = v => j = k
      PROVE  v \notin Alive'
  BY <1>3, <1>5, <1>6 DEF Alive
<1>7. mounts[k].fs \notin Alive'
  <2>1. \A j \in 1 .. Len(mounts) : mounts[j].fs = mounts[k].fs => j = k
    BY <1>3 DEF FreshInv
  <2> QED
    BY <2>1, <1>6
<1>8. ASSUME \A j \in 1 .. Len(mounts) : mounts[j].at = p => j = k
      PROVE  /\ p \in Tree /\ tree[p].mounted = mounts[k].fs
             /\ Stale(p)' /\ Dangling(p)'
  <2>1. p \in Tree
    BY <1>3, <1>4 DEF CommonInv, MountsInv
  <2>2. Topped(p)
    BY <2>1 DEF CoherentInv
  <2>3. tree[p].mounted # None
    BY <2>2, <1>3, <1>4 DEF Topped
  <2>4. tree[p].mounted = mounts[k].fs
    BY <2>2, <2>3, <1>8 DEF Topped
  <2>5. ASSUME NEW j \in 1 .. Len(mounts') PROVE mounts'[j].at # p
    <3>1. old[j] \in 1 .. Len(mounts) /\ old[j] # k /\ mounts'[j] = mounts[old[j]]
      BY <1>3
    <3> QED
      BY <3>1, <1>8
  <2>6. Stale(p)'
    BY <2>3, <2>5, <1>4, <1>5 DEF Stale
  <2> QED
    BY <2>1, <2>4, <2>6, <1>4, <1>7 DEF Dangling
<1>9. Resolved(q) /\ Topped(q)
  BY DEF CoherentInv
<1>10. PICK c : /\ IsCovering(c, q) /\ tree[q].vfs = mounts[c].fs
                /\ tree[q].ino = SubSeq(q, Len(mounts[c].at) + 1, Len(q))
  BY <1>9 DEF Resolved
<1>11. CASE c = k
  <2>1. IsStrictPrefix(p, q)
    BY <1>4, <1>10, <1>11 DEF IsCovering, Covers
  <2>2. \A j \in 1 .. Len(mounts) : mounts[j].at = p => j = k
    <3> SUFFICES ASSUME NEW j \in 1 .. Len(mounts), mounts[j].at = p PROVE j = k
      OBVIOUS
    <3>1. Covers(mounts[j], q)
      BY <2>1 DEF Covers
    <3>2. Len(mounts[j].at) < Len(mounts[k].at) \/ j <= k
      BY <3>1, <1>10, <1>11 DEF IsCovering
    <3>3. ~(Len(mounts[j].at) < Len(mounts[k].at))
      <4>1. Len(mounts[k].at) \in Nat /\ mounts[j].at = mounts[k].at
        BY <1>3, <1>4, MountFacts DEF CommonInv
      <4> QED
        BY <4>1
    <3>4. k <= j /\ j <= k
      BY <3>2, <3>3, <1>4
    <3> QED
      BY <3>4, <1>3
  <2>3. tree[q].mounted = None
    <3>1. \A j \in 1 .. Len(mounts) : mounts[j].at # q
      BY <2>1, <1>4
    <3> QED
      BY <3>1, <1>9 DEF Topped
  <2>4. p \in Tree /\ Stale(p)'
    BY <2>2, <1>8
  <2> QED
    BY <2>1, <2>3, <2>4, <1>4, <1>7, <1>10, <1>11 DEF CutOff
<1>12. CASE c # k
  <2>1. PICK d \in 1 .. Len(mounts') : old[d] = c
    BY <1>3, <1>10, <1>12 DEF IsCovering
  <2>2. mounts'[d] = mounts[c]
    BY <2>1, <1>3
  <2>3. IsCovering(d, q)'
    <3> SUFFICES ASSUME NEW j \in 1 .. Len(mounts'), Covers(mounts'[j], q)
                 PROVE  \/ Len(mounts'[j].at) < Len(mounts'[d].at)
                        \/ mounts'[j].at = mounts'[d].at /\ j <= d
      BY <2>1, <2>2, <1>10 DEF IsCovering, Covers
    <3>1. /\ mounts'[j] = mounts[old[j]] /\ old[j] \in 1 .. Len(mounts)
          /\ (j <= d <=> old[j] <= c)
      BY <2>1, <1>3
    <3> QED
      BY <3>1, <2>2, <1>10 DEF IsCovering
  <2>4. Resolved(q)'
    BY <2>2, <2>3, <1>4, <1>10 DEF Resolved
  <2>5. CASE tree[q].mounted = None
    <3>1. ASSUME NEW j \in 1 .. Len(mounts'), mounts'[j].at = q PROVE q = Root
      <4>1. old[j] \in 1 .. Len(mounts) /\ mounts'[j] = mounts[old[j]]
        BY <1>3
      <4> QED
        BY <3>1, <4>1, <2>5, <1>9 DEF Topped
    <3>2. Topped(q)'
      BY <3>1, <2>5, <1>4 DEF Topped
    <3> QED
      BY <3>2, <2>4
  <2>6. CASE tree[q].mounted # None
    <3>1. PICK t \in 1 .. Len(mounts) : /\ mounts[t].at = q /\ mounts[t].fs = tree[q].mounted
                                        /\ \A j \in 1 .. Len(mounts) : mounts[j].at = q => j <= t
      BY <2>6, <1>9 DEF Topped
    <3>2. CASE t = k
      <4>1. \A j \in 1 .. Len(mounts) : mounts[j].at = p => j = k
        <5> SUFFICES ASSUME NEW j \in 1 .. Len(mounts), mounts[j].at = p PROVE j = k
          OBVIOUS
        <5>1. k <= j /\ j <= k
          BY <3>1, <3>2, <1>4
        <5> QED
          BY <5>1, <1>3
      <4>2. q = p
        BY <3>1, <3>2, <1>4
      <4> QED
        BY <4>1, <4>2, <2>4, <1>8
    <3>3. CASE t # k
      <4>1. PICK e \in 1 .. Len(mounts') : old[e] = t
        BY <3>3, <1>3
      <4>2. mounts'[e].at = q /\ mounts'[e].fs = tree'[q].mounted
        BY <4>1, <3>1, <1>3, <1>4
      <4>3. \A j \in 1 .. Len(mounts') : mounts'[j].at = q => j <= e
        BY <4>1, <3>1, <1>3
      <4>4. q # Root
        BY <2>6, <1>9 DEF Topped
      <4>5. Topped(q)'
        BY <4>2, <4>3, <4>4, <2>6, <1>4 DEF Topped
      <4> QED
        BY <4>5, <2>4
    <3> QED
      BY <3>2, <3>3
  <2> QED
    BY <2>5, <2>6
<1> QED
  BY <1>11, <1>12

\* One step keeps the damage where it is.
LEMMA UnmountedNext ==
    ASSUME CommonInv, CoherentInv, FreshInv, UnmountedInv, [Next]_vars
    PROVE  UnmountedInv'
<1>1. CASE UNCHANGED vars
  <2>1. \A q : /\ (Resolved(q)' <=> Resolved(q)) /\ (Topped(q)' <=> Topped(q))
               /\ (CutOff(q)' <=> CutOff(q)) /\ (Dangling(q)' <=> Dangling(q))
    BY <1>1 DEF vars, Resolved, Topped, IsCovering, Covers, CutOff, Dangling, Stale, Alive, Tree
  <2> QED
    BY <1>1, <2>1 DEF vars, UnmountedInv, Tree
<1>2. CASE Next
  <2> SUFFICES ASSUME callers' = "unmounted" PROVE UnmountedInv'
    BY DEF UnmountedInv
  <2>1. CASE callers = "kernel"
    <3>1. PICK p \in MountPoints : DelVfs(p)
      BY <1>2, <2>1 DEF Next, Caller
    <3>2. pc' = "idle" /\ Tree' = Tree
      BY <3>1 DEF DelVfs, Rest, Tree
    <3> QED
      BY <2>1, <3>1, <3>2, UnlistCutsOff DEF UnmountedInv
  <2>2. CASE callers # "kernel"
    <3>1. /\ callers = "unmounted"
          /\ \/ Walk \/ FileOps
             \/ \E f \in Fs : AddRoot(f)
             \/ \E p \in Paths : VfsOpen(p)
             \/ \E n \in Names : Lookup(n)
      <4>1. callers = "unmounted"
        BY <1>2, <2>2 DEF Next, Caller
      <4> QED
        BY <1>2, <4>1 DEF Next, Caller
    <3>2. /\ \A q \in Tree : CutOff(q) \/ (Resolved(q) /\ (Topped(q) \/ Dangling(q)))
          /\ pc = "walk" => op \notin Fs
      BY <3>1 DEF UnmountedInv
    <3>3. pc' = "walk" => op' \notin Fs
      BY <3>1, <3>2, NoneAssumption
         DEF Walk, WalkDot, WalkUp, WalkCached, WalkMiss, WalkFound, Mount, Walking, WalkTo, Fail, Rest,
             Fault, FileOps, Open, Read, Close, UseUprooted, IsOpen, AddRoot, VfsOpen, StartWalk, Lookup
    <3>4. ASSUME mounts' = mounts, Tree \subseteq Tree',
                 \A r \in Tree : /\ tree'[r].vfs = tree[r].vfs /\ tree'[r].ino = tree[r].ino
                                 /\ tree'[r].mounted = tree[r].mounted
          PROVE  \A q \in Tree : CutOff(q)' \/ (Resolved(q)' /\ (Topped(q)' \/ Dangling(q)'))
      BY <3>2, <3>4, UnmountedKept
    <3>5. CASE Still
      BY <3>3, <3>4, <3>5 DEF Still, Tree, UnmountedInv
    <3>6. CASE WalkInsert
      <4>1. PICK c : c = Child
        OBVIOUS
      <4>2. /\ Tree' = Tree \union {c} /\ mounts' = mounts
            /\ \A q \in Tree : tree'[q] = tree[q]
        BY <3>6, <4>1, WalkInserts DEF Inserts
      <4>3. cur \in Tree /\ LookupIn(tree[cur]).vfs \in Alive
        BY <3>6, NoDotsInAdd DEF WalkInsert
      <4>4. Resolved(cur) /\ Topped(cur)
        <5>1. ~CutOff(cur)
          BY <4>3 DEF CutOff, LookupIn
        <5>2. ~Dangling(cur)
          BY <4>3 DEF Dangling, Stale, LookupIn
        <5> QED
          BY <3>2, <4>3, <5>1, <5>2
      <4>5. Resolved(c)' /\ Topped(c)'
        BY <3>6, <4>1, <4>4, InsertCoherent
      <4>6. \A q \in Tree : CutOff(q)' \/ (Resolved(q)' /\ (Topped(q)' \/ Dangling(q)'))
        BY <3>4, <4>2
      <4> QED
        BY <3>3, <4>2, <4>5, <4>6 DEF UnmountedInv
    <3>7. ~Mount
      BY <3>2 DEF Mount
    <3>8. CASE \E h \in Handles : Open(h) \/ \E q : CloseDone(h, q)
      <4>1. /\ mounts' = mounts /\ Tree' = Tree
            /\ \A q \in Tree : SameBut(tree[q], tree'[q])
        BY <3>8, OpenIs, CloseIs, RefsChange DEF Changes
      <4>2. \A q \in Tree : CutOff(q)' \/ (Resolved(q)' /\ (Topped(q)' \/ Dangling(q)'))
        BY <3>4, <4>1 DEF SameBut
      <4> QED
        BY <3>3, <4>1, <4>2 DEF UnmountedInv
    <3>9. CASE \E f \in Fs : AddRoot(f)
      BY <3>3, <3>9, AddRootCoherent DEF UnmountedInv
    <3> QED
      BY <1>2, <3>1, <3>5, <3>6, <3>7, <3>8, <3>9, StepKinds, KernelOnlyAdds
  <2> QED
    BY <2>1, <2>2
<1> QED
  BY <1>1, <1>2

\* The unmount of the kernel damages nothing but the nodes below its mount point,
\* whatever the file systems are and whatever is looked up and opened afterwards.
THEOREM UnmountIsLocal == Spec => []UnmountStaysLocal
<1> DEFINE Inv == /\ CommonInv /\ CoherentInv /\ FreshInv /\ UnmountedInv
                  /\ callers \in {"kernel", "unmounted", "any"}
<1>1. Inv /\ [Next]_vars => Inv'
  <2> SUFFICES ASSUME Inv, [Next]_vars PROVE Inv'
    OBVIOUS
  <2>1. callers' \in {"kernel", "unmounted", "any"}
    BY DEF Next, Caller, vars
  <2> QED
    BY <2>1, CommonNext, CoherentNext, FreshNext, UnmountedNext
<1>2. Inv => UnmountStaysLocal
  <2> SUFFICES ASSUME Inv, callers = "kernel" \/ callers = "unmounted", NEW q \in Tree
               PROVE  Coherent(q) \/ \E p \in Tree : Stale(p) /\ IsStrictPrefix(p, q)
    BY DEF UnmountStaysLocal, Tree
  <2>1. CutOff(q) \/ Resolved(q)
    BY DEF CoherentInv, UnmountedInv
  <2> QED
    BY <2>1, ResolvedIs DEF CutOff
<1>3. Init => Inv
  <2>1. Init => FreshInv /\ UnmountedInv /\ callers \in {"kernel", "unmounted", "any"}
    BY DEF Init, FreshInv, UnmountedInv
  <2> QED
    BY <2>1, CommonInit, CoherentInit
<1> HIDE DEF Inv
<1> QED
  BY <1>1, <1>2, <1>3, PTL DEF Spec
-----------------------------------------------------------------------------
(* Reference counts.                                                       *)

OpenFiles == {h \in Handles : files[h] # None}

FilesOf(q) == {h \in Handles : files[h] # None /\ files[h].of = q}

(* One token for each reference counted, on whatever node.                 *)
Tokens == {t \in Tree \X Nat : 1 <= t[2] /\ t[2] <= tree[t[1]].refs}

(* Whoever calls: no more references than Files.  A File that closes a     *)
(* node which is not its own still takes one away.                         *)
TokensInv == IsFiniteSet(Tokens) /\ Cardinality(Tokens) <= Cardinality(OpenFiles)

(* Names come from the file systems, so a leaf has room for all of them.   *)
SlotInv ==
    \A q \in Tree : /\ q # Root => Last(q) \in Names
                    /\ tree[q].parent # None => tree[q].parent.slot \in -1 .. 10

MarksInv ==
    /\ fault \in {None, "panic", "dropped", "overflow"}
    /\ callers \in {"kernel", "unmounted", "any"}

(* The kernel opens no File before there is a "/" and looks no name up     *)
(* while one is open.                                                      *)
CountInv ==
    callers # "any" =>
        /\ mounts = << >> => Tree = {} /\ NoFileOpen
        /\ pc = "walk" => NoFileOpen
        /\ \A h \in Handles : files[h] # None => /\ files[h].of \in Tree
                                                 /\ files[h].descriptor = AddrIn(Tree, files[h].of)
        /\ \A q \in Tree : tree[q].refs = Cardinality(FilesOf(q))

\* Sets of handles are finite.
LEMMA HandleSets ==
    ASSUME NEW S, S \subseteq Handles
    PROVE  /\ IsFiniteSet(S) /\ Cardinality(S) \in Nat
           /\ Cardinality(S) <= Cardinality(Handles) /\ Cardinality(Handles) \in Nat
BY HandlesAssumption, FS_Subset, FS_CardinalityType

\* One member more or less.
LEMMA AddOrRemove ==
    ASSUME NEW S, IsFiniteSet(S), NEW x
    PROVE  /\ Cardinality(S) \in Nat
           /\ x \notin S => /\ IsFiniteSet(S \union {x})
                            /\ Cardinality(S \union {x}) = Cardinality(S) + 1
           /\ x \in S => /\ IsFiniteSet(S \ {x}) /\ Cardinality(S \ {x}) = Cardinality(S) - 1
BY FS_CardinalityType, FS_AddElement, FS_RemoveElement

\* Opening and closing change the tokens by one.
LEMMA TokensChange ==
    ASSUME CommonInv, NEW q \in Tree, NEW n \in Nat, tree' = [tree EXCEPT ![q].refs = n]
    PROVE  /\ n = tree[q].refs + 1 => <<q, n>> \notin Tokens /\ Tokens' = Tokens \union {<<q, n>>}
           /\ n = tree[q].refs - 1 => /\ <<q, tree[q].refs>> \in Tokens
                                      /\ Tokens' = Tokens \ {<<q, tree[q].refs>>}
<1>1. Changes(q) /\ tree'[q].refs = n
  BY RefsChange
<1>2. Tree' = Tree /\ \A r \in Tree : r # q => tree'[r].refs = tree[r].refs
  BY <1>1 DEF Changes
<1>3. \A r \in Tree : tree[r].refs \in Nat
  BY DEF CommonInv, TreeInv, NodeT
<1>4. \A r, i : <<r, i>> \in Tokens <=> r \in Tree /\ i \in Nat /\ 1 <= i /\ i <= tree[r].refs
  BY DEF Tokens
<1>5. \A r, i : <<r, i>> \in Tokens' <=> r \in Tree /\ i \in Nat /\ 1 <= i /\ i <= tree'[r].refs
  BY <1>2 DEF Tokens
<1>6. (\A t \in Tokens : \E r, i : t = <<r, i>>) /\ (\A t \in Tokens' : \E r, i : t = <<r, i>>)
  BY DEF Tokens
<1>7. ASSUME n = tree[q].refs + 1
      PROVE  <<q, n>> \notin Tokens /\ Tokens' = Tokens \union {<<q, n>>}
  <2>1. tree[q].refs \in Nat /\ ~(n <= tree[q].refs) /\ 1 <= n
    BY <1>3, <1>7
  <2>2. <<q, n>> \notin Tokens /\ <<q, n>> \in Tokens'
    BY <2>1, <1>1, <1>4, <1>5
  <2>3. ASSUME NEW r, NEW i PROVE <<r, i>> \in Tokens' <=> <<r, i>> \in Tokens \/ (r = q /\ i = n)
    <3>1. CASE r # q
      BY <3>1, <1>2, <1>4, <1>5
    <3>2. CASE r = q
      <4>1. \A j \in Nat : j <= n <=> j <= tree[q].refs \/ j = n
        BY <2>1, <1>7
      <4> QED
        BY <3>2, <4>1, <2>2, <1>1, <1>4, <1>5
    <3> QED
      BY <3>1, <3>2
  <2>4. \A r, i : <<r, i>> = <<q, n>> <=> r = q /\ i = n
    OBVIOUS
  <2> QED
    BY <2>2, <2>3, <2>4, <1>6
<1>8. ASSUME n = tree[q].refs - 1
      PROVE  /\ <<q, tree[q].refs>> \in Tokens
             /\ Tokens' = Tokens \ {<<q, tree[q].refs>>}
  <2>0. PICK m : m = tree[q].refs
    OBVIOUS
  <2>1. m \in Nat /\ m = n + 1 /\ 1 <= m
    BY <1>3, <1>8, <2>0
  <2>2. <<q, m>> \in Tokens /\ <<q, m>> \notin Tokens'
    <3>1. m <= m /\ ~(m <= n)
      BY <2>1
    <3>2. <<q, m>> \in Tokens
      BY <2>0, <2>1, <3>1, <1>4
    <3>3. <<q, m>> \notin Tokens'
      BY <3>1, <1>1, <1>5
    <3> QED
      BY <3>2, <3>3
  <2>3. ASSUME NEW r, NEW i PROVE <<r, i>> \in Tokens' <=> <<r, i>> \in Tokens /\ ~(r = q /\ i = m)
    <3>1. CASE r # q
      BY <3>1, <1>2, <1>4, <1>5
    <3>2. CASE r = q
      <4>1. \A j \in Nat : j <= n <=> j <= m /\ j # m
        BY <2>1
      <4> QED
        BY <3>2, <4>1, <2>0, <1>1, <1>4, <1>5
    <3> QED
      BY <3>1, <3>2
  <2>4. \A r, i : <<r, i>> = <<q, m>> <=> r = q /\ i = m
    OBVIOUS
  <2> QED
    BY <2>0, <2>2, <2>3, <2>4, <1>6
<1> QED
  BY <1>7, <1>8

\* A step that counts nothing.
LEMMA TokensSame ==
    ASSUME TokensInv, files' = files, Tree \subseteq Tree',
           \A q \in Tree : tree'[q].refs = tree[q].refs,
           \A q \in Tree' : q \notin Tree => tree'[q].refs = 0
    PROVE  TokensInv'
<1>1. OpenFiles' = OpenFiles
  BY DEF OpenFiles
<1>2. \A t \in Tree' \X Nat : 1 <= t[2] /\ t[2] <= tree'[t[1]].refs => t \in Tokens
  BY DEF Tokens
<1>3. Tokens \subseteq Tokens'
  BY DEF Tokens
<1>4. Tokens' = Tokens
  BY <1>2, <1>3 DEF Tokens
<1> QED
  BY <1>1, <1>4 DEF TokensInv

\* References never outnumber Files.
LEMMA TokensNext ==
    ASSUME CommonInv, TokensInv, [Next]_vars
    PROVE  TokensInv'
<1>1. CASE tree' = tree /\ files' = files
  BY <1>1, TokensSame DEF Tree
<1>2. CASE WalkInsert
  <2>1. PICK c : c = Child
    OBVIOUS
  <2>2. Inserts(c) /\ tree'[c].refs = 0
    BY <1>2, <2>1, WalkInserts DEF NewNode
  <2> QED
    BY <2>2, TokensSame DEF Inserts
<1>3. CASE Mount
  <2>1. PICK c : c = cur
    OBVIOUS
  <2>2. Changes(c) /\ tree'[c] = [tree[c] EXCEPT !.mounted = op] /\ files' = files
    BY <1>3, <2>1, MountChanges
  <2>3. c \in Tree /\ Tree' = Tree /\ tree[c] \in NodeT
        /\ \A r \in Tree : r # c => tree'[r] = tree[r]
    BY <2>2 DEF Changes, CommonInv, TreeInv
  <2>4. tree'[c].refs = tree[c].refs
    BY <2>2, <2>3 DEF NodeT
  <2> QED
    BY <2>2, <2>3, <2>4, TokensSame
<1>4. ASSUME NEW h \in Handles, Open(h) PROVE TokensInv'
  <2>1. PICK n \in Nat : n = tree[cur].refs + 1 /\ tree' = [tree EXCEPT ![cur].refs = n]
    BY <1>4, OpenIs
  <2>2. cur \in Tree /\ files[h] = None
    BY <1>4, OpenIs
  <2>3. OpenFiles' = OpenFiles \union {h} /\ h \notin OpenFiles
    <3>1. PICK x : files' = [files EXCEPT ![h] = x] /\ x # None
      <4>1. [descriptor |-> AddrIn(Tree, cur), of |-> cur] # None
        <5>1. [descriptor |-> AddrIn(Tree, cur), of |-> cur] \in [descriptor : Address, of : Seq(Nat)]
          BY <1>4, <2>2, OpenIs DEF CommonInv, TreeInv
        <5> QED
          BY <5>1, NoneAssumption
      <4> QED
        BY <1>4, <4>1, OpenIs
    <3> QED
      BY <3>1, <2>2 DEF OpenFiles, CommonInv, FilesInv
  <2>4. IsFiniteSet(OpenFiles)
    BY HandleSets DEF OpenFiles
  <2>5. Cardinality(OpenFiles') = Cardinality(OpenFiles) + 1 /\ Cardinality(OpenFiles) \in Nat
    BY <2>3, <2>4, AddOrRemove
  <2>6. <<cur, n>> \notin Tokens /\ Tokens' = Tokens \union {<<cur, n>>}
    BY <2>1, <2>2, TokensChange
  <2>7. /\ IsFiniteSet(Tokens') /\ Cardinality(Tokens') = Cardinality(Tokens) + 1
        /\ Cardinality(Tokens) \in Nat
    BY <2>6, AddOrRemove DEF TokensInv
  <2> QED
    BY <2>5, <2>7 DEF TokensInv
<1>5. ASSUME NEW h \in Handles, NEW q, CloseDone(h, q) PROVE TokensInv'
  <2>1. PICK n \in Nat : n = tree[q].refs - 1 /\ tree' = [tree EXCEPT ![q].refs = n]
    BY <1>5, CloseIs
  <2>2. q \in Tree /\ files[h] # None /\ files' = [files EXCEPT ![h] = None]
    BY <1>5, CloseIs
  <2>3. OpenFiles' = OpenFiles \ {h} /\ h \in OpenFiles
    BY <2>2 DEF OpenFiles, CommonInv, FilesInv
  <2>4. IsFiniteSet(OpenFiles)
    BY HandleSets DEF OpenFiles
  <2>5. Cardinality(OpenFiles') = Cardinality(OpenFiles) - 1 /\ Cardinality(OpenFiles) \in Nat
    BY <2>3, <2>4, AddOrRemove
  <2>6. PICK t : t \in Tokens /\ Tokens' = Tokens \ {t}
    BY <2>1, <2>2, TokensChange
  <2>7. /\ IsFiniteSet(Tokens') /\ Cardinality(Tokens') = Cardinality(Tokens) - 1
        /\ Cardinality(Tokens) \in Nat
    BY <2>6, AddOrRemove DEF TokensInv
  <2> QED
    BY <2>5, <2>7 DEF TokensInv
<1>6. ASSUME NEW f \in Fs, AddRoot(f) PROVE TokensInv'
  <2>1. Tree' = {Root} /\ tree'[Root].refs = 0
    BY <1>6 DEF AddRoot, NewNode, Tree
  <2>2. Tokens' = {}
    BY <2>1 DEF Tokens
  <2>3. Cardinality(OpenFiles') \in Nat
    BY HandleSets DEF OpenFiles
  <2> QED
    BY <2>2, <2>3, FS_EmptySet DEF TokensInv
<1> QED
  BY <1>1, <1>2, <1>3, <1>4, <1>5, <1>6, StepKinds DEF vars, Still, DelRoot, Unlists

\* The names of an inode are Names.
LEMMA NameOfInode ==
    ASSUME NEW v \in Fs, NEW d \in Seq(Nat), NEW n \in Nat, Append(d, n) \in Dirs[v] \union Files[v]
    PROVE  n \in Names
<1>1. /\ Append(d, n) \in Seq(Nat) /\ DOMAIN Append(d, n) = 1 .. (Len(d) + 1) /\ Len(d) \in Nat
      /\ Append(d, n)[Len(d) + 1] = n
  OBVIOUS
<1>2. Len(d) + 1 \in 1 .. (Len(d) + 1)
  BY <1>1
<1>3. n \in Range(Append(d, n))
  BY <1>1, <1>2 DEF Range
<1> QED
  BY <1>3 DEF Names

\* A node has at most ten siblings before it: there are no more names.
LEMMA SlotFits ==
    ASSUME NamesFit, TreeInv, SlotInv, NEW q \in Tree
    PROVE  AddrIn(Tree, q).slot \in -1 .. 10
<1>1. CASE q = Root
  BY <1>1 DEF AddrIn
<1>2. CASE q # Root
  <2> DEFINE B == Before(Tree, q)
             M == Names \ {Last(q)}
             f == [s \in B |-> Last(s)]
  <2>1. Tree \subseteq Seq(Nat) /\ IsFiniteSet(Tree) /\ Last(q) \in Names /\ Last(q) \in Nat
    BY <1>2, FrontLast DEF TreeInv, SlotInv
  <2>2. \A s \in B : /\ s \in Tree /\ s # Root /\ Front(s) = Front(q) /\ Last(s) \in Nat
                     /\ Last(s) < Last(q) /\ Last(s) \in Names
    BY <2>1, FrontLast DEF Before, SlotInv
  <2>3. \A s \in B : Last(s) \in M
    BY <2>1, <2>2
  <2>4. \A s, t \in B : Last(s) = Last(t) => s = t
    BY <2>1, <2>2, SameNameSamePath
  <2> HIDE DEF B, M
  <2>5. f \in Injection(B, M)
    BY <2>3, <2>4 DEF Injection, IsInjective
  <2>6. IsFiniteSet(M) /\ Cardinality(M) = Cardinality(Names) - 1 /\ Cardinality(Names) \in Nat
    BY <2>1, AddOrRemove DEF NamesFit, M
  <2>7. IsFiniteSet(B) /\ Cardinality(B) <= Cardinality(M)
    BY <2>5, <2>6, FS_Injection
  <2>8. Cardinality(B) \in Nat
    BY <2>7, FS_CardinalityType
  <2>9. Cardinality(B) \in -1 .. 10
    BY <2>6, <2>7, <2>8 DEF NamesFit
  <2>10. AddrIn(Tree, q).slot = Cardinality(B)
    BY <1>2 DEF AddrIn, B
  <2> QED
    BY <2>9, <2>10
<1> QED
  BY <1>1, <1>2

\* A step that gives no node another parent.
LEMMA SlotSame ==
    ASSUME SlotInv, Tree' = Tree, \A q \in Tree : tree'[q].parent = tree[q].parent
    PROVE  SlotInv'
BY DEF SlotInv

\* Nodes keep names of the file systems, and slots that a leaf has.
LEMMA SlotNext ==
    ASSUME NamesFit, CommonInv, SlotInv, [Next]_vars
    PROVE  SlotInv'
<1>1. CASE tree' = tree
  BY <1>1 DEF SlotInv, Tree
<1>2. CASE WalkInsert
  <2>1. PICK c : c = Child
    OBVIOUS
  <2>2. /\ Inserts(c) /\ tree'[c].parent = AddrIn(Tree, cur) /\ c = Append(cur, Head(rest))
        /\ Head(rest) \in Nat
    BY <1>2, <2>1, WalkInserts DEF NewNode, Child
  <2>3. cur \in Tree /\ cur \in Seq(Nat)
    BY <1>2, NoDotsInAdd DEF WalkInsert
  <2>4. Last(c) = Head(rest)
    BY <2>2, <2>3, ChildPath
  <2>5. Head(rest) \in Names
    BY <1>2, WalkInserts, NameOfInode DEF WalkInsert
  <2>6. AddrIn(Tree, cur).slot \in -1 .. 10
    BY <2>3, SlotFits DEF CommonInv
  <2>7. Tree' = Tree \union {c} /\ \A q \in Tree : tree'[q] = tree[q]
    BY <2>2 DEF Inserts
  <2> QED
    BY <2>2, <2>4, <2>5, <2>6, <2>7 DEF SlotInv
<1>3. CASE \E q : Changes(q)
  BY <1>3, SlotSame DEF Changes
<1>4. CASE \E f \in Fs : AddRoot(f)
  <2>1. Tree' = {Root} /\ tree'[Root].parent = None
    BY <1>4 DEF AddRoot, NewNode, Tree
  <2> QED
    BY <2>1 DEF SlotInv
<1>5. Mount \/ (\E h \in Handles : Open(h) \/ \E q : CloseDone(h, q)) => \E q : Changes(q)
  BY MountChanges, OpenIs, CloseIs, RefsChange
<1> QED
  BY <1>1, <1>2, <1>3, <1>4, <1>5, StepKinds DEF vars, Still, DelRoot, Unlists

\* The fault and the history keep their types.
LEMMA MarksNext ==
    ASSUME MarksInv, [Next]_vars
    PROVE  MarksInv'
<1>1. CASE UNCHANGED vars
  BY <1>1 DEF vars, MarksInv
<1>2. CASE Next
  <2>1. callers' \in {"kernel", "unmounted", "any"}
    BY <1>2 DEF Next, Caller, MarksInv
  <2>2. \A kind \in {"panic", "dropped", "overflow"} : Fault(kind) => fault' = kind
    BY DEF Fault
  <2>3. fault' = fault \/ fault' \in {"panic", "dropped", "overflow"}
    <3>1. CASE Walk
      <4>1. CASE WalkMiss
        BY <4>1, <2>2 DEF WalkMiss, Fail, WalkTo
      <4>2. CASE WalkDot \/ WalkUp \/ WalkCached \/ WalkFound \/ Mount
        BY <4>2 DEF WalkDot, WalkUp, WalkCached, WalkFound, Mount, WalkTo, Fail
      <4> QED
        BY <3>1, <4>1, <4>2 DEF Walk
    <3>2. CASE FileOps
      BY <3>2, <2>2 DEF FileOps, Open, Read, Close, UseUprooted
    <3>3. CASE ~Walk /\ ~FileOps
      BY <1>2, <3>3 DEF Next, AddRoot, AddRefused, AddVfs, VfsOpen, StartWalk, Lookup, DelRoot, DelVfs
    <3> QED
      BY <3>1, <3>2, <3>3
  <2> QED
    BY <2>1, <2>3 DEF MarksInv
<1> QED
  BY <1>1, <1>2

\* The steps of the kernel, its one unmount included.
LEMMA KeptSteps ==
    ASSUME Next, callers' # "any"
    PROVE  /\ callers # "any"
           /\ \/ Walk
              \/ FileOps
              \/ \E f \in Fs : AddRoot(f)
              \/ \E f \in Fs, p \in MountPoints : AddVfs(f, p) /\ NoFileOpen
              \/ \E p \in Paths : VfsOpen(p) /\ NoFileOpen
              \/ \E n \in Names : Lookup(n) /\ NoFileOpen
              \/ \E p \in MountPoints : DelVfs(p) /\ NoFileOpen
BY DEF Next, Caller

\* The kernel does not unmount "/".
LEMMA RootStays ==
    ASSUME CommonInv, Next, callers' # "any"
    PROVE  mounts' = << >> => mounts = << >>
<1>1. Len(mounts) \in Nat /\ mounts \in Seq([fs : Fs, at : Seq(Nat)])
  BY MountFacts DEF CommonInv, MountsInv
<1>2. CASE Walk
  <2>1. CASE Mount
    <3>1. Len(mounts') = Len(mounts) + 1
      BY <2>1, MountChanges
    <3>2. Len(mounts') # 0
      BY <1>1, <3>1
    <3> QED
      BY <3>2
  <2>2. CASE WalkDot \/ WalkUp \/ WalkCached \/ WalkMiss \/ WalkFound
    BY <2>2 DEF WalkDot, WalkUp, WalkCached, WalkMiss, WalkFound, WalkTo, Fail, Rest, Fault
  <2> QED
    BY <1>2, <2>1, <2>2 DEF Walk
<1>3. CASE FileOps
  BY <1>3 DEF FileOps, Open, Read, Close, UseUprooted, Fault
<1>4. ASSUME NEW p \in MountPoints, DelVfs(p) PROVE mounts' # << >>
  <2>1. PICK k : Unlists(k, p)
    BY <1>4, DelVfsKinds
  <2>2. k \in 1 .. Len(mounts) /\ Len(mounts) >= 2 /\ mounts' = RemoveAt(mounts, k)
    BY <1>1, <2>1 DEF Unlists
  <2>3. Len(mounts') = Len(mounts) - 1
    BY <1>1, <2>2, RemoveAtFacts
  <2>4. ASSUME NEW n \in Nat, n >= 2 PROVE n - 1 # 0
    BY <2>4
  <2>5. Len(mounts') # 0
    <3>1. Len(mounts) \in Nat /\ Len(mounts) >= 2
      BY <1>1, <2>2
    <3> QED
      BY <3>1, <2>3, <2>4
  <2> QED
    BY <2>5
<1> QED
  BY <1>2, <1>3, <1>4, KeptSteps DEF AddRoot, AddVfs, VfsOpen, StartWalk, Lookup

\* No File is open while a name is looked up.
LEMMA WalkHoldsNoFile ==
    ASSUME Next, callers' # "any", pc = "walk" => NoFileOpen, pc' = "walk"
    PROVE  NoFileOpen'
<1>1. CASE Walk
  <2>1. pc = "walk" /\ files' = files
    BY <1>1 DEF Walk, WalkDot, WalkUp, WalkCached, WalkMiss, WalkFound, Mount, Walking, WalkTo, Fail, Fault
  <2> QED
    BY <2>1 DEF NoFileOpen
<1>2. CASE FileOps
  <2>1. pc # "walk" /\ pc' = pc
    BY <1>2 DEF FileOps, Open, Read, Close, UseUprooted, IsOpen, Fault
  <2> QED
    BY <2>1
<1>3. CASE \/ \E f \in Fs, p \in MountPoints : AddVfs(f, p) /\ NoFileOpen
           \/ \E p \in Paths : VfsOpen(p) /\ NoFileOpen
           \/ \E n \in Names : Lookup(n) /\ NoFileOpen
  BY <1>3 DEF AddVfs, VfsOpen, StartWalk, Lookup, NoFileOpen
<1>4. CASE (\E f \in Fs : AddRoot(f)) \/ \E p \in MountPoints : DelVfs(p) /\ NoFileOpen
  BY <1>4 DEF AddRoot, DelVfs, Rest
<1> QED
  BY <1>1, <1>2, <1>3, <1>4, KeptSteps

Counted ==
    /\ \A h \in Handles : files[h] # None => /\ files[h].of \in Tree
                                             /\ files[h].descriptor = AddrIn(Tree, files[h].of)
    /\ \A q \in Tree : tree[q].refs = Cardinality(FilesOf(q))

\* While no File is open, what counts is that nothing is counted.
LEMMA CountedWhenClosed ==
    ASSUME NoFileOpen
    PROVE  Counted <=> \A q \in Tree : tree[q].refs = 0
<1>1. \A q : FilesOf(q) = {}
  BY DEF FilesOf, NoFileOpen
<1> QED
  BY <1>1, FS_EmptySet DEF Counted, NoFileOpen

\* A File is opened: it points to its node, and is counted there.
LEMMA OpenCounted ==
    ASSUME CommonInv, Counted, NEW h \in Handles, Open(h)
    PROVE  Counted'
<1>1. PICK c : c = cur
  OBVIOUS
<1> DEFINE x == [descriptor |-> AddrIn(Tree, c), of |-> c]
<1>2. /\ c \in Tree /\ files[h] = None /\ tree[c].refs + 1 \in Nat
      /\ tree' = [tree EXCEPT ![c].refs = tree[c].refs + 1]
      /\ files' = [files EXCEPT ![h] = x] /\ AddrIn(Tree, c) \in Address /\ c \in Seq(Nat)
  BY <1>1, OpenIs DEF CommonInv, TreeInv
<1>3. Changes(c) /\ tree'[c].refs = tree[c].refs + 1
  BY <1>2, RefsChange
<1>4. Tree' = Tree /\ \A r \in Tree : r # c => tree'[r] = tree[r]
  BY <1>3 DEF Changes
<1>5. x # None /\ x.of = c /\ x.descriptor = AddrIn(Tree, c)
  <2>1. x \in [descriptor : Address, of : Seq(Nat)]
    BY <1>2
  <2> QED
    BY <2>1, NoneAssumption
<1> HIDE DEF x
<1>6. files'[h] = x /\ \A g \in Handles : g # h => files'[g] = files[g]
  BY <1>2 DEF CommonInv, FilesInv
<1>7. \A q : FilesOf(q)' = IF q = c THEN FilesOf(q) \union {h} ELSE FilesOf(q)
  BY <1>2, <1>5, <1>6 DEF FilesOf
<1>8. h \notin FilesOf(c) /\ IsFiniteSet(FilesOf(c))
  BY <1>2, HandleSets DEF FilesOf
<1>9. Cardinality(FilesOf(c) \union {h}) = Cardinality(FilesOf(c)) + 1
  BY <1>8, AddOrRemove
<1>10. \A q \in Tree' : tree'[q].refs = Cardinality(FilesOf(q)')
  BY <1>2, <1>3, <1>4, <1>7, <1>9 DEF Counted
<1>11. \A g \in Handles : files'[g] # None => /\ files'[g].of \in Tree
                                              /\ files'[g].descriptor = AddrIn(Tree, files'[g].of)
  BY <1>2, <1>5, <1>6 DEF Counted
<1> QED
  BY <1>4, <1>10, <1>11 DEF Counted, FilesOf, AddrIn, Before

\* A File is closed: the node it closes is its own.
LEMMA CloseCounted ==
    ASSUME CommonInv, Counted, NEW h \in Handles, NEW q, CloseDone(h, q)
    PROVE  Counted'
<1>1. /\ q \in Tree /\ files[h] # None /\ tree[q].refs - 1 \in Nat
      /\ tree' = [tree EXCEPT ![q].refs = tree[q].refs - 1]
      /\ files' = [files EXCEPT ![h] = None]
  BY CloseIs
<1>2. q = files[h].of
  <2>1. q = NodeAt(files[h].descriptor) /\ files[h].descriptor # None
    BY DEF CloseDone
  <2>2. AddrIn(Tree, q) = files[h].descriptor
    BY <2>1, <1>1, NodeAtOccupied DEF CommonInv, FilesInv
  <2>3. files[h].of \in Tree /\ files[h].descriptor = AddrIn(Tree, files[h].of)
    BY <1>1 DEF Counted
  <2> QED
    BY <2>2, <2>3, <1>1, AddrInjective DEF CommonInv, TreeInv
<1>3. Changes(q) /\ tree'[q].refs = tree[q].refs - 1
  BY <1>1, RefsChange
<1>4. Tree' = Tree /\ \A r \in Tree : r # q => tree'[r] = tree[r]
  BY <1>3 DEF Changes
<1>5. files'[h] = None /\ \A g \in Handles : g # h => files'[g] = files[g]
  BY <1>1 DEF CommonInv, FilesInv
<1>6. \A r : FilesOf(r)' = IF r = q THEN FilesOf(r) \ {h} ELSE FilesOf(r)
  BY <1>1, <1>2, <1>5 DEF FilesOf
<1>7. h \in FilesOf(q) /\ IsFiniteSet(FilesOf(q))
  BY <1>1, <1>2, HandleSets DEF FilesOf
<1>8. Cardinality(FilesOf(q) \ {h}) = Cardinality(FilesOf(q)) - 1
  BY <1>7, AddOrRemove
<1>9. \A r \in Tree' : tree'[r].refs = Cardinality(FilesOf(r)')
  BY <1>1, <1>3, <1>4, <1>6, <1>8 DEF Counted
<1>10. \A g \in Handles : files'[g] # None => /\ files'[g].of \in Tree
                                              /\ files'[g].descriptor = AddrIn(Tree, files'[g].of)
  BY <1>5 DEF Counted
<1> QED
  BY <1>4, <1>9, <1>10 DEF Counted, FilesOf, AddrIn, Before

\* One step of the kernel keeps the counts.
LEMMA CountNext ==
    ASSUME CommonInv, CountInv, [Next]_vars
    PROVE  CountInv'
<1>1. CASE UNCHANGED vars
  BY <1>1 DEF vars, CountInv, Tree, NoFileOpen, FilesOf, AddrIn, Before
<1>2. CASE Next
  <2> SUFFICES ASSUME callers' # "any"
               PROVE  /\ mounts' = << >> => Tree' = {} /\ NoFileOpen'
                      /\ Counted'
    BY <1>2, KeptSteps, WalkHoldsNoFile DEF CountInv, Counted
  <2>1. /\ callers # "any"
        /\ mounts = << >> => Tree = {} /\ NoFileOpen
        /\ pc = "walk" => NoFileOpen
        /\ Counted
    BY <1>2, KeptSteps DEF CountInv, Counted
  <2>2. mounts' = << >> => mounts = << >>
    BY <1>2, RootStays
  <2>3. CASE tree' = tree /\ files' = files
    BY <2>1, <2>2, <2>3 DEF Counted, Tree, NoFileOpen, FilesOf, AddrIn, Before
  <2>4. CASE WalkInsert
    <3>1. PICK c : c = Child
      OBVIOUS
    <3>2. Inserts(c) /\ tree'[c].refs = 0
      BY <2>4, <3>1, WalkInserts DEF NewNode
    <3>3. /\ mounts' = mounts /\ files' = files /\ Tree' = Tree \union {c}
          /\ \A q \in Tree : tree'[q] = tree[q]
      BY <3>2 DEF Inserts
    <3>4. pc = "walk" /\ mounts # << >>
      BY <2>4 DEF WalkInsert, Walking, CommonInv, WalkInv
    <3>5. NoFileOpen /\ NoFileOpen'
      BY <3>3, <3>4, <2>1 DEF NoFileOpen
    <3>6. \A q \in Tree' : tree'[q].refs = 0
      BY <3>2, <3>3, <3>5, <2>1, CountedWhenClosed
    <3>7. Counted'
      <4>1. \A q : FilesOf(q)' = {}
        BY <3>5 DEF FilesOf, NoFileOpen
      <4> QED
        BY <4>1, <3>5, <3>6, FS_EmptySet DEF Counted, NoFileOpen
    <3> QED
      BY <3>3, <3>4, <3>7
  <2>5. CASE Mount
    <3>1. PICK c : c = cur
      OBVIOUS
    <3>2. /\ Changes(c) /\ tree'[c] = [tree[c] EXCEPT !.mounted = op]
          /\ files' = files /\ mounts # << >>
      BY <2>5, <3>1, MountChanges
    <3>3. c \in Tree /\ Tree' = Tree /\ tree[c] \in NodeT
          /\ \A r \in Tree : r # c => tree'[r] = tree[r]
      BY <3>2 DEF Changes, CommonInv, TreeInv
    <3>4. tree'[c].refs = tree[c].refs
      BY <3>2, <3>3 DEF NodeT
    <3>5. \A q \in Tree' : tree'[q].refs = tree[q].refs
      BY <3>3, <3>4
    <3>6. \A q : FilesOf(q)' = FilesOf(q)
      BY <3>2 DEF FilesOf
    <3>7. Counted'
      BY <2>1, <3>2, <3>3, <3>5, <3>6 DEF Counted, AddrIn, Before
    <3> QED
      BY <2>2, <3>2, <3>7
  <2>6. ASSUME NEW h \in Handles, Open(h) \/ \E q : CloseDone(h, q)
        PROVE  mounts' # << >> /\ Counted'
    <3>1. CASE Open(h)
      BY <2>1, <3>1, OpenIs, OpenCounted
    <3>2. ASSUME NEW q, CloseDone(h, q) PROVE mounts' # << >> /\ Counted'
      <4>1. files[h] # None /\ mounts' = mounts
        BY <3>2, CloseIs
      <4> QED
        BY <2>1, <3>2, <4>1, CloseCounted DEF NoFileOpen
    <3> QED
      BY <2>6, <3>1, <3>2
  <2>7. ASSUME NEW f \in Fs, AddRoot(f)
        PROVE  mounts' # << >> /\ Counted'
    <3>1. NoFileOpen /\ mounts' = <<[fs |-> f, at |-> Root]>>
      BY <2>1, <2>7 DEF AddRoot
    <3>2. \A g \in Handles : files'[g] = None
      BY <2>7, <3>1 DEF AddRoot, NoFileOpen, Uprooted
    <3>3. Tree' = {Root} /\ tree'[Root].refs = 0
      BY <2>7 DEF AddRoot, NewNode, Tree
    <3>4. \A q : FilesOf(q)' = {}
      BY <3>2 DEF FilesOf
    <3>5. Counted'
      BY <3>2, <3>3, <3>4, FS_EmptySet DEF Counted
    <3> QED
      BY <3>1, <3>5
  <2> QED
    BY <1>2, <2>3, <2>4, <2>5, <2>6, <2>7, StepKinds DEF Still, DelRoot, Unlists
<1> QED
  BY <1>1, <1>2

\* At the start nothing is mounted, cached or open.
LEMMA RefInit == Init => TokensInv /\ SlotInv /\ MarksInv /\ CountInv
<1> SUFFICES ASSUME Init PROVE TokensInv /\ SlotInv /\ MarksInv /\ CountInv
  OBVIOUS
<1>1. Tree = {} /\ NoFileOpen /\ fault = None /\ callers = "kernel"
  BY DEF Init, Tree, NoFileOpen
<1>2. Tokens = {} /\ OpenFiles = {}
  BY <1>1 DEF Tokens, OpenFiles, NoFileOpen
<1>3. TokensInv
  BY <1>2, FS_EmptySet DEF TokensInv
<1> QED
  BY <1>1, <1>3 DEF SlotInv, MarksInv, CountInv, NoFileOpen

\* The count of one node is at most that of all, and no node counts more Files
\* than there are.
LEMMA RefsBounded ==
    ASSUME CommonInv, TokensInv, NEW q \in Tree
    PROVE  tree[q].refs \in 0 .. Cardinality(Handles)
<1>1. PICK n \in Nat : n = tree[q].refs
  BY DEF CommonInv, TreeInv, NodeT
<1> DEFINE f == [i \in 1 .. n |-> <<q, i>>]
<1>2. f \in Injection(1 .. n, Tokens)
  <2>1. \A i \in 1 .. n : <<q, i>> \in Tokens
    BY <1>1 DEF Tokens
  <2>2. \A i, j \in 1 .. n : <<q, i>> = <<q, j>> => i = j
    OBVIOUS
  <2> QED
    BY <2>1, <2>2 DEF Injection, IsInjective
<1>3. Cardinality(1 .. n) <= Cardinality(Tokens)
  BY <1>2, FS_Injection DEF TokensInv
<1>4. Cardinality(1 .. n) = n
  BY FS_Interval
<1>5. Cardinality(Tokens) <= Cardinality(OpenFiles) /\ Cardinality(Tokens) \in Nat
  BY FS_CardinalityType DEF TokensInv
<1>6. /\ Cardinality(OpenFiles) <= Cardinality(Handles)
      /\ Cardinality(OpenFiles) \in Nat /\ Cardinality(Handles) \in Nat
  BY HandleSets DEF OpenFiles
<1> QED
  BY <1>1, <1>3, <1>4, <1>5, <1>6

\* The types of the state.
LEMMA TypeFacts ==
    ASSUME CommonInv, TokensInv, SlotInv, MarksInv
    PROVE  TypeOK
<1>1. \A k \in DOMAIN mounts : mounts[k].fs \in Fs /\ mounts[k].at \in MountPoints \union {Root}
  BY MountFacts DEF CommonInv, MountsInv
<1>2. ASSUME NEW q \in Tree PROVE tree[q] \in Node
  <2>1. ASSUME NEW n \in NodeT, n.refs \in 0 .. Cardinality(Handles),
               n.parent # None => n.parent.slot \in -1 .. 10
        PROVE  n \in Node
    <3>1. n.parent \in [leaf : Seq(Nat), slot : -1 .. 10] \union {None}
      <4>1. ASSUME NEW a \in Address, a.slot \in -1 .. 10
            PROVE  a \in [leaf : Seq(Nat), slot : -1 .. 10]
        BY <4>1 DEF Address
      <4> QED
        BY <2>1, <4>1 DEF NodeT
    <3> QED
      BY <2>1, <3>1 DEF NodeT, Node
  <2>2. tree[q] \in NodeT
    BY DEF CommonInv, TreeInv
  <2> QED
    BY <2>1, <2>2, RefsBounded DEF SlotInv
<1>3. pc \in {"idle", "walk", "found"} /\ (pc # "idle" => cur \in DOMAIN tree)
  BY DEF CommonInv, WalkInv, Tree
<1> QED
  BY <1>1, <1>2, <1>3 DEF TypeOK, MarksInv, Tree

\* The Files of the kernel, node by node.
LEMMA CountedFiles ==
    ASSUME CommonInv, CountInv, callers # "any"
    PROVE  FilesCounted
<1>1. ASSUME NEW h \in Handles, files[h] # None
      PROVE  NodeAt(files[h].descriptor) = files[h].of
  <2>1. files[h].of \in Tree /\ files[h].descriptor = AddrIn(Tree, files[h].of)
    BY <1>1 DEF CountInv
  <2>2. Occupied(files[h].descriptor)
    BY <2>1 DEF Occupied
  <2>3. /\ NodeAt(files[h].descriptor) \in Tree
        /\ AddrIn(Tree, NodeAt(files[h].descriptor)) = files[h].descriptor
    BY <2>2, NodeAtOccupied
  <2> QED
    BY <2>1, <2>3, AddrInjective DEF CommonInv, TreeInv
<1>2. \A q \in Tree : tree[q].refs = Cardinality(FilesOf(q))
  BY DEF CountInv
<1> QED
  BY <1>1, <1>2 DEF FilesCounted, FilesOf, Tree

\* Every File the kernel holds points to the node it was opened on, and ref_count
\* counts exactly those, for any number of Files and any paths and mounts; and
\* whoever calls, no count exceeds the number of Files.  The names must fit into
\* one leaf of the map, where a node keeps its slot until a name is inserted.
THEOREM RefCountsAreExact ==
    ASSUME NamesFit
    PROVE  Spec => []RefCountsExact
<1> DEFINE RefInv == CommonInv /\ TokensInv /\ SlotInv /\ MarksInv /\ CountInv
<1>1. RefInv /\ [Next]_vars => RefInv'
  BY CommonNext, TokensNext, SlotNext, MarksNext, CountNext
<1>2. RefInv => RefCountsExact
  BY TypeFacts, CountedFiles DEF RefCountsExact
<1>3. Init => RefInv
  BY CommonInit, RefInit
<1> HIDE DEF RefInv
<1> QED
  BY <1>1, <1>2, <1>3, PTL DEF Spec
=============================================================================
