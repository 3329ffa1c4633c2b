--------------------------- MODULE HeapAllocator ---------------------------
(***************************************************************************)
(* What the kernel heap promises, with no list of nodes: an allocation is  *)
(* answered by some free stretch of the heap and may be refused only when  *)
(* no maximal free stretch can be cut to its size.  A stretch can be cut   *)
(* when it is used whole or what is left can still hold a list node.       *)
(* LinkedListAllocator.tla, translated from src/src/mem/allocator.rs,      *)
(* implements this module.                                                 *)
(***************************************************************************)
EXTENDS Integers

CONSTANTS
    Words,          \* the addresses of the heap, one for each 8 bytes
    Layouts,        \* the layouts callers ask for
    BlockSize(_),   \* the bytes a block of a layout occupies
    NodeSize        \* the bytes a list node needs

VARIABLES
    free,           \* the addresses that belong to nobody
    live,           \* the blocks [addr, layout] that callers hold
    call            \* a set: the layout being asked for, or nothing

vars == <<free, live, call>>

\* The n bytes from address a on.
Stretch(a, n) == {w \in Words : a <= w /\ w < a + n}

\* The lengths of the maximal free stretches.
MaximalAt(a, b) ==
    /\ a < b
    /\ Stretch(a, b - a) \subseteq free
    /\ a - 8 \notin free /\ b \notin free

Fits(l) ==
    \E a \in free : \E w \in free :
        /\ MaximalAt(a, w + 8)
        /\ \/ w + 8 - a = BlockSize(l)
           \/ w + 8 - a >= BlockSize(l) + NodeSize

Init ==
    /\ free = Words
    /\ live = {}
    /\ call = {}

Request(l) ==
    /\ call = {}
    /\ call' = {l}
    /\ UNCHANGED <<free, live>>

Grant(l, a) ==
    /\ call = {l}
    /\ Stretch(a, BlockSize(l)) \subseteq free
    /\ free' = free \ Stretch(a, BlockSize(l))
    /\ live' = live \union {[addr |-> a, layout |-> l]}
    /\ call' = {}

Refuse(l) ==
    /\ call = {l}
    /\ ~Fits(l)
    /\ call' = {}
    /\ UNCHANGED <<free, live>>

Release(b) ==
    /\ call = {}
    /\ b \in live
    /\ free' = free \union Stretch(b.addr, BlockSize(b.layout))
    /\ live' = live \ {b}
    /\ UNCHANGED call

Next ==
    \/ \E l \in Layouts : Request(l) \/ Refuse(l)
    \/ \E l \in Layouts, a \in free : Grant(l, a)
    \/ \E b \in live : Release(b)

Spec == Init /\ [][Next]_vars
=============================================================================
