-------------------------------- MODULE Pmm --------------------------------
(***************************************************************************)
(* The physical memory manager, src/src/mem/pmm.rs, from the moment        *)
(* pmm_init has returned (PmmInit.tla models pmm_init itself).             *)
(*                                                                         *)
(* The bitmap is the set `free` of the page indices whose bit is reset.    *)
(* pmm_alloc_nozero is modelled at the grain of its loop: one step for     *)
(* each evaluation of the `while` condition of pmm_inner_alloc.  pc is     *)
(* "first" during the scan up to highest_page_idx, "second" during the     *)
(* scan from page 0 that follows a failed first one.                       *)
(***************************************************************************)
EXTENDS Integers, FiniteSets

CONSTANTS
    Highest,        \* highest_page_idx
    Usable,         \* the pages whose bit pmm_init has reset
    Sizes,          \* the values of `pages` callers pass
    WORD            \* the number of values of a usize, 2^64 in the kernel

(* The boot protocol never marks page 0 usable: address 0 stays free to    *)
(* mean "out of memory".                                                   *)
ASSUME HighestAssumption == Highest \in Nat /\ WORD \in Nat /\ Highest < WORD
ASSUME UsableAssumption  == Usable \subseteq 1 .. (Highest - 1)
ASSUME SizesAssumption   == Sizes \subseteq Nat

VARIABLES
    free,                   \* the bits of the bitmap that are 0
    last_used_page_idx,     \* the scan cursor, kept between calls
    used_pages,             \* the counter behind used_memory()
    live,                   \* the blocks [page, pages] callers hold
    pc, pages, limit, p     \* the call in progress and its locals

vars == <<free, last_used_page_idx, used_pages, live, pc, pages, limit, p>>

Run(s, n) == s .. (s + n - 1)

\* AtomicUsize::fetch_add and fetch_sub wrap around.
FetchAdd(a, n) == IF a + n < WORD THEN a + n ELSE a + n - WORD

\* Mutant: the store is forgotten.
FetchSubLost(a, n) == a

FetchSub(a, n) == IF a >= n THEN a - n ELSE a + WORD - n

Init ==
    /\ free = Usable
    /\ last_used_page_idx = 0
    /\ used_pages = 0
    /\ live = {}
    /\ pc = "idle"
    /\ pages = 0 /\ limit = 0 /\ p = 0

-----------------------------------------------------------------------------
(* pmm_alloc and pmm_alloc_nozero: the first call of pmm_inner_alloc.      *)
AllocCall(n) ==
    /\ pc = "idle"
    /\ pc' = "first"
    /\ pages' = n
    /\ limit' = Highest
    /\ p' = 0
    /\ UNCHANGED <<free, last_used_page_idx, used_pages, live>>

(* The condition of the loop of pmm_inner_alloc.                            *)
Scanning == pc \in {"first", "second"} /\ last_used_page_idx < limit

\* Mutant: the count of free pages outlives a taken one.
ScanTakenKeepsCount ==
    /\ Scanning
    /\ last_used_page_idx \notin free
    /\ last_used_page_idx' = last_used_page_idx + 1
    /\ UNCHANGED <<free, used_pages, live, pc, pages, limit, p>>

(* pmm_inner_alloc, the loop body on a page that is taken.                 *)
ScanTaken ==
    /\ Scanning
    /\ last_used_page_idx \notin free
    /\ last_used_page_idx' = last_used_page_idx + 1
    /\ p' = 0
    /\ UNCHANGED <<free, used_pages, live, pc, pages, limit>>

(* ... on a free page that does not complete the run.                      *)
ScanFree ==
    /\ Scanning
    /\ last_used_page_idx \in free
    /\ p + 1 # pages
    /\ last_used_page_idx' = last_used_page_idx + 1
    /\ p' = p + 1
    /\ UNCHANGED <<free, used_pages, live, pc, pages, limit>>

\* `last_used_page_idx.load() - pages`, after the cursor has been advanced.
FoundPage == last_used_page_idx + 1 - pages

(* ... on the free page that completes it: the run is marked used and its  *)
(* address is not null, so pmm_alloc_nozero counts the pages and returns.  *)
ScanFound ==
    /\ Scanning
    /\ last_used_page_idx \in free
    /\ p + 1 = pages
    /\ FoundPage # 0
    /\ last_used_page_idx' = last_used_page_idx + 1
    /\ free' = free \ Run(FoundPage, pages)
    /\ live' = live \union {[page |-> FoundPage, pages |-> pages]}
    /\ used_pages' = FetchAdd(used_pages, pages)
    /\ pc' = "idle"
    /\ UNCHANGED <<pages, limit, p>>

\* Mutant: a scan that restarts as often as it fails.
RescanForever ==
    /\ pc = "first"
    /\ last_used_page_idx >= limit
    /\ limit' = last_used_page_idx
    /\ last_used_page_idx' = 0
    /\ p' = 0
    /\ UNCHANGED <<free, used_pages, live, pc, pages>>

(* pmm_inner_alloc has returned null from the first scan: swap the cursor  *)
(* with 0 and scan again, up to where it stood.                            *)
Rescan ==
    /\ pc = "first"
    /\ last_used_page_idx >= limit
    /\ limit' = last_used_page_idx
    /\ last_used_page_idx' = 0
    /\ p' = 0
    /\ pc' = "second"
    /\ UNCHANGED <<free, used_pages, live, pages>>

\* Mutant: giving up after the first scan.
OutOfMemoryEarly ==
    /\ pc \in {"first", "second"}
    /\ last_used_page_idx >= limit
    /\ pc' = "idle"
    /\ UNCHANGED <<free, last_used_page_idx, used_pages, live, pages, limit, p>>

(* The second scan has returned null as well: so does pmm_alloc.           *)
OutOfMemory ==
    /\ pc = "second"
    /\ last_used_page_idx >= limit
    /\ pc' = "idle"
    /\ UNCHANGED <<free, last_used_page_idx, used_pages, live, pages, limit, p>>

\* Mutant: the last page of a block is not reset.
DeallocOneShort(b) ==
    /\ pc = "idle"
    /\ b \in live
    /\ free' = free \union Run(b.page, b.pages - 1)
    /\ used_pages' = FetchSub(used_pages, b.pages)
    /\ live' = live \ {b}
    /\ UNCHANGED <<last_used_page_idx, pc, pages, limit, p>>

(* pmm_dealloc of a block the caller holds.                                *)
Dealloc(b) ==
    /\ pc = "idle"
    /\ b \in live
    /\ free' = free \union Run(b.page, b.pages)
    /\ used_pages' = FetchSub(used_pages, b.pages)
    /\ live' = live \ {b}
    /\ UNCHANGED <<last_used_page_idx, pc, pages, limit, p>>

ScanStep == ScanTaken \/ ScanFree \/ ScanFound \/ Rescan \/ OutOfMemory

Next ==
    \/ \E n \in Sizes : AllocCall(n)
    \/ ScanStep
    \/ \E b \in live : Dealloc(b)

(* A call runs on until it returns: nothing it does can block.             *)
Spec == Init /\ [][Next]_vars /\ WF_vars(ScanStep)

-----------------------------------------------------------------------------
(* What holds of every reachable state.                                    *)

Blocks == [page : Usable, pages : 1 .. Highest]

\* The variables of the manager keep their types; in particular the cursor
\* never passes highest_page_idx, so bitmap_test stays inside the bitmap.
TypeOK ==
    /\ free \subseteq Usable
    /\ last_used_page_idx \in 0 .. Highest
    /\ used_pages \in 0 .. Highest
    /\ live \subseteq Blocks
    /\ pc \in {"idle", "first", "second"}
    /\ pages \in Nat /\ limit \in 0 .. Highest /\ p \in 0 .. Highest

\* Blocks are made of usable pages and no page is in two blocks at once, however
\* the scans of pmm_inner_alloc and the releases of pmm_dealloc alternate.
BlocksDisjoint ==
    /\ \A b \in live : Run(b.page, b.pages) \subseteq Usable
    /\ \A a, b \in live : a # b => Run(a.page, a.pages) \cap Run(b.page, b.pages) = {}

\* The bitmap is exact: the pages that are marked used are the pages of the
\* live blocks and no others, so pmm_dealloc gives back all that pmm_alloc took.
BitmapExact ==
    \A x \in Usable : x \notin free <=> \E b \in live : x \in Run(b.page, b.pages)

\* used_pages, which pmm_alloc_nozero and pmm_dealloc keep on the side of the
\* bitmap, always equals the number of bits that are set for usable pages; so
\* fetch_sub never wraps and usable_memory() never underflows.
UsedPagesExact == used_pages = Cardinality(Usable \ free)

\* During a scan p counts the free pages just below the cursor, and the second
\* scan has no long enough run of free pages behind it: what it has passed over
\* it could not have used.
ScanMissesNothing ==
    pc # "idle" =>
        /\ p <= last_used_page_idx
        /\ Run(last_used_page_idx - p, p) \subseteq free
        /\ pages > 0 => p < pages
        /\ pc = "first" => limit = Highest
        /\ pc = "second" =>
             /\ limit = Highest
             /\ (last_used_page_idx - p - 1) \notin free
             /\ pages > 0 =>
                  \A s \in free : s + pages <= last_used_page_idx =>
                                     ~(Run(s, pages) \subseteq free)

\* Every call of pmm_alloc returns: the two scans end.
AllocReturns == (pc # "idle") ~> (pc = "idle")

(* The refinement mapping: a call is being answered as long as pc is not    *)
(* "idle".                                                                 *)
call == IF pc = "idle" THEN -1 ELSE pages

PA == INSTANCE PageAllocator

\* The two scans and the cursor implement the abstract page allocator: a block
\* is a run of pages that were free, and pmm_alloc returns null only when no
\* run of that many free pages exists anywhere below highest_page_idx.
ImplementsPageAllocator == PA!Spec
=============================================================================
