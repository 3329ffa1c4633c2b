------------------------------ MODULE PmmProof ------------------------------
(***************************************************************************)
(* Proofs about Pmm: for every memory size, every set of usable pages and  *)
(* every set of request sizes, the bitmap, the live blocks and the counter *)
(* agree, and the two scans implement PageAllocator.                       *)
(***************************************************************************)
EXTENDS Pmm, FiniteSetTheorems, TLAPS

USE HighestAssumption, UsableAssumption, SizesAssumption

(* The inductive invariant.  BitmapExact is what makes a new block disjoint *)
(* from the old ones, UsedPagesExact is what keeps the counter in its word, *)
(* and ScanMissesNothing is what makes an answer of null justified.         *)
IInv == TypeOK /\ BlocksDisjoint /\ BitmapExact /\ UsedPagesExact /\ ScanMissesNothing

-----------------------------------------------------------------------------
(* Every set of usable pages is finite and smaller than highest_page_idx.   *)
LEMMA UsableFinite ==
    ASSUME NEW S \in SUBSET Usable
    PROVE  IsFiniteSet(S) /\ Cardinality(S) \in Nat /\ Cardinality(S) <= Highest
<1>1. IsFiniteSet(1 .. (Highest - 1)) /\ Cardinality(1 .. (Highest - 1)) <= Highest
  BY FS_Interval, SMT
<1>2. IsFiniteSet(S) /\ Cardinality(S) <= Cardinality(1 .. (Highest - 1))
  <2>1. S \in SUBSET (1 .. (Highest - 1))
    OBVIOUS
  <2> QED
    BY <1>1, <2>1, FS_Subset
<1>3. Cardinality(S) \in Nat /\ Cardinality(1 .. (Highest - 1)) \in Nat
  BY <1>1, <1>2, FS_CardinalityType
<1> QED
  BY <1>1, <1>2, <1>3, SMT

(* A block of n pages has n pages.                                          *)
LEMMA RunSize ==
    ASSUME NEW s \in Nat, NEW n \in Nat
    PROVE  IsFiniteSet(Run(s, n)) /\ Cardinality(Run(s, n)) = n
<1>1. s + n - 1 \in Int
  OBVIOUS
<1>2. /\ IsFiniteSet(s .. (s + n - 1))
      /\ Cardinality(s .. (s + n - 1)) = IF s > s + n - 1 THEN 0 ELSE (s + n - 1) - s + 1
  BY <1>1, FS_Interval
<1> QED
  BY <1>2 DEF Run

(* Taking a run out of the free pages adds its length to the used ones.     *)
LEMMA UsedGrows ==
    ASSUME NEW F \in SUBSET Usable, NEW s \in Nat, NEW n \in Nat, Run(s, n) \subseteq F
    PROVE  Cardinality(Usable \ (F \ Run(s, n))) = Cardinality(Usable \ F) + n
<1> DEFINE A == Usable \ F
           R == Run(s, n)
<1>1. Usable \ (F \ R) = A \union R
  OBVIOUS
<1>2. A \cap R = {}
  OBVIOUS
<1>3. IsFiniteSet(A) /\ IsFiniteSet(R) /\ Cardinality(R) = n /\ Cardinality(A) \in Nat
  BY UsableFinite, RunSize
<1>4. Cardinality(A \union R) = Cardinality(A) + Cardinality(R) - Cardinality(A \cap R)
  BY <1>3, FS_Union
<1>5. Cardinality(A \cap R) = 0
  BY <1>2, FS_EmptySet
<1> QED
  BY <1>1, <1>3, <1>4, <1>5, SMT

-----------------------------------------------------------------------------
(* The block that ScanFound hands out: the run the scan has just counted.   *)
LEMMA FoundRun ==
    ASSUME IInv, ScanFound
    PROVE  /\ FoundPage \in Usable
           /\ pages \in 1 .. Highest
           /\ Run(FoundPage, pages) \subseteq free
<1> USE DEF IInv, TypeOK
<1>1. /\ p \in Nat /\ pages = p + 1 /\ last_used_page_idx \in Nat
      /\ last_used_page_idx \in free
      /\ last_used_page_idx < Highest
      /\ p <= last_used_page_idx
      /\ FoundPage = last_used_page_idx - p
  BY DEF ScanFound, Scanning, ScanMissesNothing, FoundPage
<1>2. Run(last_used_page_idx - p, p) \subseteq free
  BY DEF ScanFound, Scanning, ScanMissesNothing
<1>3. Run(FoundPage, pages) = Run(last_used_page_idx - p, p) \union {last_used_page_idx}
  BY <1>1 DEF Run
<1>4. Run(FoundPage, pages) \subseteq free
  BY <1>1, <1>2, <1>3
<1>5. FoundPage \in Run(FoundPage, pages)
  BY <1>1 DEF Run
<1> QED
  BY <1>1, <1>4, <1>5

(* Init, and the steps that leave the bitmap alone.                         *)
LEMMA InitInv == Init => IInv
<1> SUFFICES ASSUME Init PROVE IInv
  OBVIOUS
<1>1. Cardinality(Usable \ free) = 0
  <2>1. Usable \ free = {}
    BY DEF Init
  <2> QED
    BY <2>1, FS_EmptySet
<1> QED
  BY <1>1 DEF Init, IInv, TypeOK, BlocksDisjoint, BitmapExact, UsedPagesExact, ScanMissesNothing

\* pmm_alloc is called.
LEMMA AllocCallInv ==
    ASSUME IInv, NEW n \in Sizes, AllocCall(n)
    PROVE  IInv'
<1> USE DEF IInv, AllocCall
<1>1. TypeOK'
  BY DEF TypeOK
<1>2. BlocksDisjoint' /\ BitmapExact' /\ UsedPagesExact'
  BY DEF BlocksDisjoint, BitmapExact, UsedPagesExact
<1>3. ScanMissesNothing'
  BY DEF TypeOK, ScanMissesNothing, Run
<1> QED
  BY <1>1, <1>2, <1>3

\* The scan passes a page that is taken.
LEMMA ScanTakenInv ==
    ASSUME IInv, ScanTaken
    PROVE  IInv'
<1> USE DEF IInv, ScanTaken, Scanning
<1>1. TypeOK'
  BY DEF TypeOK
<1>2. BlocksDisjoint' /\ BitmapExact' /\ UsedPagesExact'
  BY DEF BlocksDisjoint, BitmapExact, UsedPagesExact
<1>3. ScanMissesNothing'
  BY DEF TypeOK, ScanMissesNothing, Run
<1> QED
  BY <1>1, <1>2, <1>3

\* The scan counts a free page.
LEMMA ScanFreeInv ==
    ASSUME IInv, ScanFree
    PROVE  IInv'
<1> USE DEF IInv, ScanFree, Scanning
<1>1. TypeOK'
  BY DEF TypeOK, ScanMissesNothing
<1>2. BlocksDisjoint' /\ BitmapExact' /\ UsedPagesExact'
  BY DEF BlocksDisjoint, BitmapExact, UsedPagesExact
<1>3. ScanMissesNothing'
  BY DEF TypeOK, ScanMissesNothing, Run
<1> QED
  BY <1>1, <1>2, <1>3

\* The scan starts again from the first page.
LEMMA RescanInv ==
    ASSUME IInv, Rescan
    PROVE  IInv'
<1> USE DEF IInv, Rescan
<1>1. TypeOK'
  BY DEF TypeOK
<1>2. BlocksDisjoint' /\ BitmapExact' /\ UsedPagesExact'
  BY DEF BlocksDisjoint, BitmapExact, UsedPagesExact
<1>3. ScanMissesNothing'
  BY DEF TypeOK, ScanMissesNothing, Run
<1> QED
  BY <1>1, <1>2, <1>3

\* pmm_alloc returns null.
LEMMA OutOfMemoryInv ==
    ASSUME IInv, OutOfMemory
    PROVE  IInv'
BY DEF IInv, OutOfMemory, TypeOK, BlocksDisjoint, BitmapExact, UsedPagesExact, ScanMissesNothing

(* The step that takes pages, and the one that gives them back.             *)
LEMMA ScanFoundInv ==
    ASSUME IInv, ScanFound
    PROVE  IInv'
<1> DEFINE b == [page |-> FoundPage, pages |-> pages]
           R == Run(FoundPage, pages)
<1>1. FoundPage \in Usable /\ pages \in 1 .. Highest /\ R \subseteq free
  BY FoundRun
<1>2. free' = free \ R /\ live' = live \union {b} /\ pc' = "idle"
  BY DEF ScanFound
<1>3. free \subseteq Usable /\ used_pages = Cardinality(Usable \ free)
  BY DEF IInv, TypeOK, UsedPagesExact
<1>4. UsedPagesExact'
  <2>0. FoundPage \in Nat /\ pages \in Nat /\ free \in SUBSET Usable
    BY <1>1, <1>3
  <2>1. Cardinality(Usable \ free') = used_pages + pages
    BY <1>1, <1>2, <1>3, <2>0, UsedGrows
  <2>2. Cardinality(Usable \ free') <= Highest
    BY UsableFinite
  <2>3. used_pages' = used_pages + pages
    BY <2>1, <2>2, <1>1 DEF ScanFound, FetchAdd, IInv, TypeOK
  <2> QED
    BY <2>1, <2>3 DEF UsedPagesExact
<1>5. TypeOK'
  <2>1. used_pages' \in 0 .. Highest
    BY <1>4, UsableFinite DEF UsedPagesExact
  <2>2. live' \subseteq Blocks
    BY <1>1, <1>2 DEF IInv, TypeOK, Blocks
  <2>3. free' \subseteq Usable
    BY <1>2, <1>3
  <2>4. last_used_page_idx' \in 0 .. Highest
    BY DEF IInv, TypeOK, ScanFound, Scanning
  <2>5. pages' \in Nat /\ limit' \in 0 .. Highest /\ p' \in 0 .. Highest
    BY DEF IInv, TypeOK, ScanFound, Scanning
  <2> QED
    BY <1>2, <2>1, <2>2, <2>3, <2>4, <2>5 DEF TypeOK
<1>6. BlocksDisjoint'
  <2>1. ASSUME NEW a \in live
        PROVE  Run(a.page, a.pages) \cap R = {} /\ Run(a.page, a.pages) \subseteq Usable
    BY <1>1, <1>3 DEF IInv, BlocksDisjoint, BitmapExact
  <2>2. Run(b.page, b.pages) = R /\ R \subseteq Usable
    BY <1>1, <1>3
  <2> QED
    BY <1>2, <2>1, <2>2 DEF IInv, BlocksDisjoint
<1>7. BitmapExact'
  <2> SUFFICES ASSUME NEW x \in Usable
               PROVE  x \notin free' <=> \E a \in live' : x \in Run(a.page, a.pages)
    BY DEF BitmapExact
  <2>1. Run(b.page, b.pages) = R /\ b \in live'
    BY <1>2
  <2>2. CASE x \in R
    BY <1>2, <2>1, <2>2
  <2>3. CASE x \notin R
    BY <1>2, <2>1, <2>3 DEF IInv, BitmapExact
  <2> QED
    BY <2>2, <2>3
<1>8. ScanMissesNothing'
  BY <1>2 DEF ScanMissesNothing
<1> QED
  BY <1>4, <1>5, <1>6, <1>7, <1>8 DEF IInv

\* pmm_dealloc clears the bits of a block.
LEMMA DeallocInv ==
    ASSUME IInv, NEW b \in live, Dealloc(b)
    PROVE  IInv'
<1> DEFINE R == Run(b.page, b.pages)
<1>1. b.page \in Nat /\ b.pages \in Nat /\ R \subseteq Usable
  <2>1. b \in Blocks
    BY DEF IInv, TypeOK
  <2>2. b.page \in Usable /\ b.pages \in 1 .. Highest
    BY <2>1 DEF Blocks
  <2>3. b.page \in Nat /\ b.pages \in Nat
    <3>1. Usable \subseteq Nat /\ 1 .. Highest \subseteq Nat
      OBVIOUS
    <3> QED
      BY <2>2, <3>1, Zenon
  <2>4. R \subseteq Usable
    BY Zenon DEF IInv, BlocksDisjoint
  <2> QED
    BY <2>3, <2>4
<1>2. free' = free \union R /\ live' = live \ {b} /\ pc' = "idle"
  BY DEF Dealloc
<1>3. free \subseteq Usable /\ used_pages = Cardinality(Usable \ free)
  BY DEF IInv, TypeOK, UsedPagesExact
<1>4. R \cap free = {}
  BY <1>1 DEF IInv, BitmapExact
<1>5. UsedPagesExact'
  <2>1. free' \in SUBSET Usable /\ R \subseteq free' /\ free = free' \ R
    BY <1>1, <1>2, <1>3, <1>4
  <2>2. used_pages = Cardinality(Usable \ free') + b.pages
    BY <1>1, <1>3, <2>1, UsedGrows
  <2>3. Cardinality(Usable \ free') \in Nat
    BY UsableFinite
  <2>4. used_pages' = used_pages - b.pages
    BY <1>1, <2>2, <2>3 DEF Dealloc, FetchSub
  <2> QED
    BY <1>1, <2>2, <2>3, <2>4 DEF UsedPagesExact
<1>6. TypeOK'
  <2>1. used_pages' \in 0 .. Highest
    BY <1>5, UsableFinite DEF UsedPagesExact
  <2> QED
    BY <1>1, <1>2, <2>1 DEF IInv, TypeOK, Dealloc
<1>7. BlocksDisjoint'
  BY <1>2 DEF IInv, BlocksDisjoint
<1>8. BitmapExact'
  <2> SUFFICES ASSUME NEW x \in Usable
               PROVE  x \notin free' <=> \E a \in live' : x \in Run(a.page, a.pages)
    BY DEF BitmapExact
  <2>1. CASE x \in R
    BY <2>1, <1>2 DEF IInv, BlocksDisjoint
  <2>2. CASE x \notin R
    BY <2>2, <1>2 DEF IInv, BitmapExact
  <2> QED
    BY <2>1, <2>2
<1>9. ScanMissesNothing'
  BY <1>2 DEF ScanMissesNothing
<1> QED
  BY <1>5, <1>6, <1>7, <1>8, <1>9 DEF IInv

\* Every step keeps the invariant.
LEMMA NextInv == IInv /\ [Next]_vars => IInv'
<1> SUFFICES ASSUME IInv, [Next]_vars PROVE IInv'
  OBVIOUS
<1>1. CASE UNCHANGED vars
  BY <1>1 DEF vars, IInv, TypeOK, BlocksDisjoint, BitmapExact, UsedPagesExact, ScanMissesNothing
<1>2. CASE Next
  BY <1>2, AllocCallInv, ScanTakenInv, ScanFreeInv, ScanFoundInv, RescanInv,
     OutOfMemoryInv, DeallocInv DEF Next, ScanStep
<1> QED
  BY <1>1, <1>2

(* The inductive invariant holds in every reachable state.                  *)
THEOREM Invariance == Spec => []IInv
BY InitInv, NextInv, PTL DEF Spec

(* No two callers of pmm_alloc ever hold the same page.                     *)
THEOREM BlocksAreDisjoint == Spec => []BlocksDisjoint
BY Invariance, PTL DEF IInv

(* A set bit of a usable page always belongs to exactly one live block.     *)
THEOREM BitmapIsExact == Spec => []BitmapExact
BY Invariance, PTL DEF IInv

(* used_pages counts the set bits of the usable pages and never wraps.      *)
THEOREM UsedPagesAreExact == Spec => []UsedPagesExact
BY Invariance, PTL DEF IInv

-----------------------------------------------------------------------------
(* Refinement, step by step.  Only ScanFound and the two ends of a call are *)
(* visible to PageAllocator.                                                *)
LEMMA InitRefines == Init => PA!Init
BY DEF Init, PA!Init, PA!NoCall, call

\* The call is a Request.
LEMMA AllocCallRefines ==
    ASSUME IInv, NEW n \in Sizes, AllocCall(n)
    PROVE  PA!Request(n)
BY DEF AllocCall, PA!Request, PA!NoCall, call

\* Scanning is not seen.
LEMMA ScanSilent ==
    ASSUME IInv, ScanTaken \/ ScanFree \/ Rescan
    PROVE  UNCHANGED PA!vars
BY DEF ScanTaken, ScanFree, Scanning, Rescan, PA!vars, call

\* A run that is found is a Grant: its pages were free.
LEMMA ScanFoundRefines ==
    ASSUME IInv, ScanFound
    PROVE  \E s \in free : PA!Grant(s)
<1>1. FoundPage \in Usable /\ pages \in 1 .. Highest /\ Run(FoundPage, pages) \subseteq free
  BY FoundRun
<1>2. FoundPage \in free
  BY <1>1 DEF Run
<1>3. call = pages /\ call' = -1
  BY DEF ScanFound, Scanning, call
<1>4. Run(FoundPage, pages) = PA!Run(FoundPage, call)
  BY <1>3 DEF Run, PA!Run
<1>5. PA!Grant(FoundPage)
  BY <1>1, <1>3, <1>4 DEF ScanFound, PA!Grant, PA!NoCall
<1> QED
  BY <1>2, <1>5

\* A null is a Refuse: no run of free pages is long enough.
LEMMA OutOfMemoryRefines ==
    ASSUME IInv, OutOfMemory
    PROVE  PA!Refuse
<1>1. pages \in Nat /\ limit = Highest /\ last_used_page_idx = Highest /\ call = pages
  BY DEF IInv, TypeOK, OutOfMemory, ScanMissesNothing, call
<1>2. ~PA!Fits(call)
  <2> SUFFICES ASSUME pages > 0, NEW s \in free, Run(s, pages) \subseteq free
               PROVE  FALSE
    BY <1>1 DEF PA!Fits, PA!Run, Run
  <2>1. s \in 1 .. (Highest - 1) /\ free \subseteq 1 .. (Highest - 1)
    BY DEF IInv, TypeOK
  <2>2. s + pages - 1 \in Run(s, pages)
    BY <1>1, <2>1 DEF Run
  <2>3. s + pages <= Highest
    BY <1>1, <2>1, <2>2
  <2> QED
    BY <1>1, <2>3 DEF IInv, OutOfMemory, ScanMissesNothing
<1> QED
  BY <1>1, <1>2 DEF OutOfMemory, PA!Refuse, PA!NoCall, call

\* pmm_dealloc is a Release.
LEMMA DeallocRefines ==
    ASSUME IInv, NEW b \in live, Dealloc(b)
    PROVE  PA!Release(b)
BY DEF Dealloc, PA!Release, PA!NoCall, PA!Run, Run, call

(* pmm.rs implements the abstract page allocator: in particular pmm_alloc   *)
(* answers null only when no run of that many free pages exists.            *)
THEOREM Refinement == Spec => ImplementsPageAllocator
<1>1. IInv /\ [Next]_vars => [PA!Next]_(PA!vars)
  <2> SUFFICES ASSUME IInv, [Next]_vars PROVE [PA!Next]_(PA!vars)
    OBVIOUS
  <2>1. CASE UNCHANGED vars
    BY <2>1 DEF vars, PA!vars, call
  <2>2. ASSUME NEW n \in Sizes, AllocCall(n) PROVE PA!Next
    BY <2>2, AllocCallRefines DEF PA!Next
  <2>3. CASE ScanTaken \/ ScanFree \/ Rescan
    BY <2>3, ScanSilent
  <2>4. CASE ScanFound
    BY <2>4, ScanFoundRefines DEF PA!Next
  <2>5. CASE OutOfMemory
    BY <2>5, OutOfMemoryRefines DEF PA!Next
  <2>6. ASSUME NEW b \in live, Dealloc(b) PROVE PA!Next
    BY <2>6, DeallocRefines DEF PA!Next
  <2> QED
    BY <2>1, <2>2, <2>3, <2>4, <2>5, <2>6 DEF Next, ScanStep
<1> QED
  BY <1>1, InitRefines, Invariance, PTL DEF Spec, PA!Spec, ImplementsPageAllocator
=============================================================================
