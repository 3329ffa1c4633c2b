------------------------ MODULE LinkedListAllocator ------------------------
(***************************************************************************)
(* The kernel's global allocator, src/src/mem/allocator.rs: a list of free *)
(* regions, ordered by address, whose nodes live in the regions they       *)
(* describe.  The three loops over the list (find_region, add_free_region, *)
(* coalesce_memory) are modelled at the grain of one step for each node    *)
(* they look at; `cur` is the node the loop stands on.                     *)
(*                                                                         *)
(* A call runs from lock() to the drop of the guard, so a new one starts   *)
(* only when pc is "idle" (Mutex.tla models the lock).  Addresses and      *)
(* sizes are in bytes.                                                     *)
(***************************************************************************)
EXTENDS Integers

CONSTANTS
    HeapBase, HeapSize,     \* the region pmm_alloc(HEAP_PAGES) gave
    Layouts                 \* the layouts [size, align] callers ask for

NodeSize  == 16     \* core::mem::size_of::<MemNode>()
NodeAlign == 8      \* core::mem::align_of::<MemNode>()

(* The heap is made of whole pages; 64 stands for the alignment of a page. *)
ASSUME HeapAssumption ==
    /\ HeapBase \in Nat /\ HeapBase > 0 /\ HeapBase % 64 = 0
    /\ HeapSize \in Nat /\ HeapSize >= NodeSize /\ HeapSize % NodeAlign = 0
ASSUME LayoutAssumption ==
    Layouts \subseteq [size : Nat \ {0}, align : {1, 2, 4, 8, 16}]

HeapEnd == HeapBase + HeapSize

Words == {a \in HeapBase .. (HeapEnd - 1) : a % NodeAlign = 0}

Head == 0           \* the node in the LinkedListAllocator itself
None == -1          \* no next node

VARIABLES
    next, size,     \* the fields of the nodes, by address
    listed,         \* the addresses that hold a node of the list
    live,           \* the blocks [addr, layout] callers hold
    pc,             \* the loop being run
    op,             \* the call: "init", "alloc" or "dealloc"
    cur,            \* the node the loop stands on
    want,           \* alloc: the layout asked for, as a set
    ret,            \* alloc: the region being cut
    ptr, len        \* add_free_region: its arguments

vars == <<next, size, listed, live, pc, op, cur, want, ret, ptr, len>>

-----------------------------------------------------------------------------
(* align_up, and size_align: align to a node, pad, make room for a node.   *)
AlignUp(val, align) == ((val + align - 1) \div align) * align

AlignOf(layout) == IF layout.align > NodeAlign THEN layout.align ELSE NodeAlign

SizeOf(layout) ==
    LET padded == AlignUp(layout.size, AlignOf(layout))
    IN  IF padded > NodeSize THEN padded ELSE NodeSize

EndAddr(a) == a + size[a]

(* alloc_from_node does not return null.                                   *)
Suitable(a, layout) ==
    LET end   == AlignUp(a, AlignOf(layout)) + SizeOf(layout)
        extra == EndAddr(a) - end
    IN  /\ end <= EndAddr(a)
        /\ ~(extra > 0 /\ extra < NodeSize)

Init ==
    /\ next = [a \in Words \union {Head} |-> None]
    /\ size = [a \in Words \union {Head} |-> 0]
    /\ listed = {} /\ live = {}
    /\ pc = "boot" /\ op = "init"
    /\ cur = Head /\ want = {} /\ ret = 0 /\ ptr = 0 /\ len = 0

(* The entry of add_free_region: its two assertions.                       *)
AddFreeRegion(p, n) ==
    /\ pc' = IF p % NodeAlign = 0 /\ n >= NodeSize THEN "insert" ELSE "panic"
    /\ cur' = Head
    /\ ptr' = p /\ len' = n

Return ==
    /\ pc' = "idle"
    /\ cur' = Head /\ want' = {} /\ ret' = 0 /\ ptr' = 0 /\ len' = 0

(* LinkedListAllocator::init, called by init_allocator.                    *)
InitRegion ==
    /\ pc = "boot"
    /\ AddFreeRegion(HeapBase, HeapSize)
    /\ UNCHANGED <<next, size, listed, live, op, want, ret>>

(* GlobalAlloc::alloc: inner_alloc enters find_region.                     *)
Alloc(layout) ==
    /\ pc = "idle"
    /\ pc' = "find" /\ op' = "alloc"
    /\ cur' = Head
    /\ want' = {layout}
    /\ UNCHANGED <<next, size, listed, live, ret, ptr, len>>

(* GlobalAlloc::dealloc: inner_dealloc enters add_free_region.             *)
Dealloc(b) ==
    /\ pc = "idle"
    /\ b \in live
    /\ live' = live \ {b}
    /\ op' = "dealloc"
    /\ AddFreeRegion(b.addr, SizeOf(b.layout))
    /\ UNCHANGED <<next, size, listed, want, ret>>

-----------------------------------------------------------------------------
\* Mutant: `continue` without moving on to the next node.
FindSkipStuck ==
    /\ pc = "find" /\ next[cur] # None
    /\ \A l \in want : ~Suitable(next[cur], l)
    /\ UNCHANGED vars

(* find_region: a node that does not suit is passed over.                  *)
FindSkip ==
    /\ pc = "find" /\ next[cur] # None
    /\ \A l \in want : ~Suitable(next[cur], l)
    /\ cur' = next[cur]
    /\ UNCHANGED <<next, size, listed, live, pc, op, want, ret, ptr, len>>

\* Mutant: only the first node of the list is tried.
FindFailsEarly ==
    /\ pc = "find" /\ (next[cur] = None \/ cur # Head)
    /\ Return
    /\ UNCHANGED <<next, size, listed, live, op>>

(* The end of the list: alloc returns null.                                *)
FindFails ==
    /\ pc = "find" /\ next[cur] = None
    /\ Return
    /\ UNCHANGED <<next, size, listed, live, op>>

(* Take node n out of the list.  What its header holds from now on is up   *)
(* to the new owner of the memory and is never read again.                 *)
Unlink(n) ==
    /\ next' = [next EXCEPT ![cur] = next[n], ![n] = None]
    /\ size' = [size EXCEPT ![n] = 0]
    /\ listed' = listed \ {n}

(* A node that suits and is used whole.                                    *)
FindExact(l) ==
    LET n == next[cur] IN
    /\ pc = "find" /\ n # None
    /\ want = {l} /\ Suitable(n, l)
    /\ EndAddr(n) = n + SizeOf(l)
    /\ Unlink(n)
    /\ live' = live \union {[addr |-> n, layout |-> l]}
    /\ Return
    /\ UNCHANGED op

\* Mutant: what is left of the node does not go back to the list.
FindSplitLoses(l) ==
    LET n == next[cur] IN
    /\ pc = "find" /\ n # None
    /\ want = {l} /\ Suitable(n, l)
    /\ EndAddr(n) > n + SizeOf(l)
    /\ Unlink(n)
    /\ live' = live \union {[addr |-> n, layout |-> l]}
    /\ Return
    /\ UNCHANGED op

(* A node that suits and is larger: the rest goes back to the list.        *)
FindSplit(l) ==
    LET n == next[cur] IN
    /\ pc = "find" /\ n # None
    /\ want = {l} /\ Suitable(n, l)
    /\ EndAddr(n) > n + SizeOf(l)
    /\ Unlink(n)
    /\ ret' = n
    /\ AddFreeRegion(n + SizeOf(l), EndAddr(n) - (n + SizeOf(l)))
    /\ UNCHANGED <<live, op, want>>

(* add_free_region: go on to the last node that is not above ptr.          *)
InsertAdvance ==
    /\ pc = "insert"
    /\ next[cur] # None /\ next[cur] <= ptr
    /\ cur' = next[cur]
    /\ UNCHANGED <<next, size, listed, live, pc, op, want, ret, ptr, len>>

\* Mutant: the node is linked in wherever the loop stands.
LinkAnywhere ==
    /\ pc = "insert"
    /\ next' = [next EXCEPT ![ptr] = next[cur], ![cur] = ptr]
    /\ size' = [size EXCEPT ![ptr] = len]
    /\ listed' = listed \union {ptr}

Link ==
    /\ pc = "insert"
    /\ next[cur] = None \/ next[cur] > ptr
    /\ next' = [next EXCEPT ![ptr] = next[cur], ![cur] = ptr]
    /\ size' = [size EXCEPT ![ptr] = len]
    /\ listed' = listed \union {ptr}

(* Back in init or inner_alloc the call is over; inner_dealloc goes on to  *)
(* coalesce_memory.                                                        *)
InsertReturn ==
    /\ op # "dealloc"
    /\ Link
    /\ live' = live \union {[addr |-> ret, layout |-> l] : l \in want}
    /\ Return
    /\ UNCHANGED op

InsertCoalesce ==
    /\ op = "dealloc"
    /\ Link
    /\ pc' = "coalesce" /\ cur' = Head
    /\ ptr' = 0 /\ len' = 0
    /\ UNCHANGED <<live, op, want, ret>>

\* Mutant: moving on after a merge instead of looking again.
CoalesceMergeMovesOn ==
    LET n == next[cur] IN
    /\ pc = "coalesce" /\ n # None
    /\ EndAddr(cur) = n
    /\ next' = [next EXCEPT ![cur] = next[n], ![n] = None]
    /\ size' = [size EXCEPT ![cur] = size[cur] + size[n], ![n] = 0]
    /\ listed' = listed \ {n}
    /\ cur' = IF next[n] = None THEN cur ELSE next[n]
    /\ UNCHANGED <<live, pc, op, want, ret, ptr, len>>

(* coalesce_memory: a node that ends where the next one starts takes it in *)
(* and looks again, any other node is done.                                *)
CoalesceMerge ==
    LET n == next[cur] IN
    /\ pc = "coalesce" /\ n # None
    /\ EndAddr(cur) = n
    /\ next' = [next EXCEPT ![cur] = next[n], ![n] = None]
    /\ size' = [size EXCEPT ![cur] = size[cur] + size[n], ![n] = 0]
    /\ listed' = listed \ {n}
    /\ UNCHANGED <<live, pc, op, cur, want, ret, ptr, len>>

CoalesceAdvance ==
    /\ pc = "coalesce" /\ next[cur] # None
    /\ EndAddr(cur) # next[cur]
    /\ cur' = next[cur]
    /\ UNCHANGED <<next, size, listed, live, pc, op, want, ret, ptr, len>>

CoalesceDone ==
    /\ pc = "coalesce" /\ next[cur] = None
    /\ Return
    /\ UNCHANGED <<next, size, listed, live, op>>

-----------------------------------------------------------------------------
Find == FindSkip \/ FindFails \/ \E l \in Layouts : FindExact(l) \/ FindSplit(l)

Insert == InsertAdvance \/ InsertReturn \/ InsertCoalesce

Coalesce == CoalesceMerge \/ CoalesceAdvance \/ CoalesceDone

Step == InitRegion \/ Find \/ Insert \/ Coalesce

Next ==
    \/ Step
    \/ \E l \in Layouts : Alloc(l)
    \/ \E b \in live : Dealloc(b)

(* A call that has the lock runs on until it returns.                      *)
Spec == Init /\ [][Next]_vars /\ WF_vars(Step)

-----------------------------------------------------------------------------
(* What holds of every reachable state.                                    *)

\* The variables keep their types: nodes, blocks and the region in flight
\* have addresses of the heap.
TypeOK ==
    /\ next \in [Words \union {Head} -> Words \union {None}]
    /\ size \in [Words \union {Head} -> 0 .. HeapSize]
    /\ listed \subseteq Words
    /\ live \subseteq [addr : Words, layout : Layouts]
    /\ pc \in {"boot", "idle", "find", "insert", "coalesce", "panic"}
    /\ op \in {"init", "alloc", "dealloc"}
    /\ cur \in listed \union {Head}
    /\ want \in SUBSET Layouts
    /\ ret \in Words \union {0}
    /\ ptr \in Words \union {0}
    /\ len \in 0 .. HeapSize

\* Following next from the head visits the listed nodes in increasing order of
\* address, each of them once: no node is lost, none is on the list twice, and
\* there is no cycle for the loops to run around in.  (With the types of the state.)
ListOrdered ==
    /\ TypeOK
    /\ \A a \in listed \union {Head} :
        /\ next[a] = None => \A b \in listed : b <= a
        /\ next[a] # None => /\ next[a] \in listed /\ a < next[a]
                             /\ \A b \in listed : b <= a \/ next[a] <= b

(* The regions of the heap, as pairs of addresses: free nodes, blocks, and  *)
(* what a call holds while it is neither.                                   *)
FreeRegions == {<<a, EndAddr(a)>> : a \in listed}

LiveRegions == {<<b.addr, b.addr + SizeOf(b.layout)>> : b \in live}

InFlight ==
    IF pc = "insert" THEN {<<ptr, ptr + len>>} ELSE {}

BeingReturned ==
    IF pc = "insert" THEN {<<ret, ret + SizeOf(l)>> : l \in want} ELSE {}

Regions == FreeRegions \union LiveRegions \union InFlight \union BeingReturned

Covers(r, w) == r[1] <= w /\ w < r[2]

\* At every moment each word of the heap is in exactly one region, and that region
\* has one owner: no two blocks overlap, no block overlaps a free node, and no byte
\* is ever lost.
HeapPartition ==
    pc \notin {"boot", "panic"} =>
        /\ \A w \in Words : \E r \in Regions :
               Covers(r, w) /\ \A q \in Regions : Covers(q, w) => q = r
        /\ \A a, b \in live : a.addr = b.addr => a = b
        /\ \A b \in live : b.addr \notin listed

\* Between calls no two free regions touch: what coalesce_memory did not merge
\* cannot be merged, although inner_alloc splits regions and never merges any.
Coalesced ==
    pc = "idle" => \A a \in listed : EndAddr(a) \notin listed

\* Every call of alloc and dealloc returns: the list loops end, and the assertions
\* of add_free_region (a MemNode fits, its address is aligned) never panic.
CallsReturn == (pc # "idle") ~> (pc = "idle")

(* The refinement mapping: a region belongs to its new owner from the moment *)
(* find_region takes its node out of the list, or dealloc is entered.        *)
Abstract == INSTANCE HeapAllocator WITH
    BlockSize <- SizeOf,
    free <- IF pc = "boot" THEN Words
            ELSE {w \in Words : \E r \in FreeRegions \union InFlight : Covers(r, w)},
    live <- live \union IF pc = "insert" THEN {[addr |-> ret, layout |-> l] : l \in want} ELSE {},
    call <- IF pc = "find" THEN want ELSE {}

\* The list implements the abstract heap: a block is cut from free memory, and
\* alloc returns null only when no maximal free stretch can be cut to the size,
\* which depends on every earlier dealloc having coalesced all it could.
ImplementsHeapAllocator == Abstract!Spec
=============================================================================
