--------------------------- MODULE PageAllocator ---------------------------
(***************************************************************************)
(* What a physical page allocator promises its callers, with no bitmap and *)
(* no cursor: a request is answered by SOME run of free pages, it may be   *)
(* refused only when no run is long enough, and pages come back only when  *)
(* the block they were handed out in is released.                          *)
(* Pmm.tla, translated from src/src/mem/pmm.rs, implements this module.    *)
(***************************************************************************)
EXTENDS Integers

CONSTANTS
    Usable,     \* the pages the allocator manages
    Sizes       \* the page counts callers ask for

VARIABLES
    free,       \* the pages that belong to nobody
    live,       \* the blocks [page, pages] that callers hold
    call        \* the size being asked for, or NoCall

vars == <<free, live, call>>

NoCall == -1

\* The n pages from page s on.
Run(s, n) == s .. (s + n - 1)

\* A request that can be met.  A request for no page at all never is.
Fits(n) == n > 0 /\ \E s \in free : Run(s, n) \subseteq free

Init ==
    /\ free = Usable
    /\ live = {}
    /\ call = NoCall

Request(n) ==
    /\ call = NoCall
    /\ call' = n
    /\ UNCHANGED <<free, live>>

Grant(s) ==
    /\ call > 0
    /\ Run(s, call) \subseteq free
    /\ free' = free \ Run(s, call)
    /\ live' = live \union {[page |-> s, pages |-> call]}
    /\ call' = NoCall

Refuse ==
    /\ call # NoCall
    /\ ~Fits(call)
    /\ call' = NoCall
    /\ UNCHANGED <<free, live>>

Release(b) ==
    /\ call = NoCall
    /\ b \in live
    /\ free' = free \union Run(b.page, b.pages)
    /\ live' = live \ {b}
    /\ UNCHANGED call

Next ==
    \/ \E n \in Sizes : Request(n)
    \/ \E s \in free : Grant(s)
    \/ Refuse
    \/ \E b \in live : Release(b)

Spec == Init /\ [][Next]_vars
=============================================================================
