-------------------------- MODULE BootMemoryProof --------------------------
(***************************************************************************)
(* Proofs about BootMemory: what pmm_init hands over, that the bitmap, the *)
(* heap and the page tables never share a page, and, with VmmProof, what   *)
(* the page tables map, for every memory map the boot protocol allows,     *)
(* every page size, every size of a table and every heap.                  *)
(***************************************************************************)
EXTENDS BootMemory, FiniteSetTheorems, WellFoundedInduction, TLAPS

(* The map the boot loader handed over.                                    *)
Map == hw.memmap

IsUsable(k) == k \in 1 .. Len(Map) /\ P!Usable(Map[k])

EndOf(k) == Map[k].base + Map[k].length

(* The pages of the bitmap.                                                *)
Host == bitmap_size \div PAGE_SIZE

(* First loop: highest_page_idx is 0 or the end of an entry, and no usable *)
(* entry that has been seen ends above it.                                 *)
Counted ==
    /\ highest_page_idx = 0 \/ \E k : IsUsable(k) /\ highest_page_idx = EndOf(k)
    /\ \A k : IsUsable(k) /\ (pmm_phase = "count" => k < entry) => EndOf(k) <= highest_page_idx
    /\ pmm_phase # "count" => bitmap_size = P!BitmapSize(highest_page_idx)

(* Until the bitmap is placed nothing is free, and the map is the loader's. *)
Untouched == memmap = Map /\ free = {}

(* Then entry h, and no other, has lost the pages of the bitmap.           *)
HostedBy(h) ==
    /\ IsUsable(h)
    /\ bitmap = Map[h].base
    /\ Host \in 0 .. Map[h].length
    /\ memmap[h].type = Map[h].type
    /\ memmap[h].base = Map[h].base + Host
    /\ memmap[h].length = Map[h].length - Host
    /\ \A k \in 1 .. Len(Map) : k # h => memmap[k] = Map[k]

Hosted ==
    /\ memmap \in Seq([base : Nat, length : Nat, type : STRING])
    /\ Len(memmap) = Len(Map)
    /\ \E h : HostedBy(h)

(* Third loop: the pages of the usable entries that have been seen.        *)
FreeSoFar ==
    \A p : p \in free <=>
        \E k \in 1 .. Len(memmap) :
           /\ pmm_phase = "reset" => k < entry
           /\ P!Usable(memmap[k]) /\ p \in P!PagesOf(memmap[k])

(* The inductive invariant of pmm_init.                                    *)
PmmInv ==
    /\ hw \in Machines
    /\ pmm_phase \in {"count", "place", "lost", "reset", "done"}
    /\ entry \in Nat \ {0} /\ highest_page_idx \in Nat
    /\ Counted
    /\ pmm_phase \in {"count", "place", "lost"} => Untouched
    /\ pmm_phase \in {"reset", "done"} => Hosted /\ FreeSoFar

(* What is taken out of the free pages later, the heap first.              *)
TakenInv ==
    /\ heap = Null \/ (heap \in Nat /\ pmm_phase = "done" /\ HeapPages \subseteq free)
    /\ last_used_page_idx \in Int
    /\ vmm_phase # "wild" => DOMAIN tables \subseteq free \ HeapPages
    /\ pmm_phase # "done" => vmm_phase = "root"
    /\ heap = Null => DOMAIN tables = {}

BootInv == PmmInv /\ TakenInv

-----------------------------------------------------------------------------
(* Arithmetic.                                                             *)

\* The byte x of n blocks of s bytes is in one of the n.
LEMMA DivBelow ==
    ASSUME NEW x \in Nat, NEW n \in Nat, NEW s \in Nat \ {0}, x < n * s
    PROVE  x \div s \in 0 .. (n - 1)
<1> DEFINE q == x \div s
<1>1. q \in Nat /\ s * q <= x
  OBVIOUS
<1>2. SUFFICES ASSUME q >= n PROVE FALSE
  BY <1>1
<1>3. q - n \in Nat /\ s * (q - n) >= 0
  BY <1>1, <1>2
<1>4. s * q = s * n + s * (q - n)
  BY <1>1
<1> QED
  BY <1>1, <1>3, <1>4

\* n blocks of s bytes are n blocks.
LEMMA DivExact ==
    ASSUME NEW n \in Nat, NEW s \in Nat \ {0}
    PROVE  (n * s) \div s = n
<1>1. n * s \in Nat /\ n * s < (n + 1) * s
  OBVIOUS
<1>2. (n * s) \div s \in 0 .. n
  BY <1>1, DivBelow, n + 1 \in Nat, (n + 1) - 1 = n
<1>3. ASSUME n > 0 PROVE (n * s) \div s >= n
  <2> DEFINE q == (n * s) \div s
              r == (n * s) % s
  <2>1. q \in Nat /\ r \in 0 .. (s - 1) /\ n * s = s * q + r
    BY <1>1
  <2>2. SUFFICES ASSUME q <= n - 1 PROVE FALSE
    BY <2>1
  <2>3. s * (n - 1 - q) >= 0
    BY <2>1, <2>2
  <2>4. s * (n - 1 - q) = n * s - s - s * q
    BY <2>1
  <2> QED BY <2>1, <2>3, <2>4
<1> QED
  BY <1>2, <1>3

\* The bitmap is a whole number of pages.
LEMMA BitmapWhole ==
    ASSUME NEW h \in Nat
    PROVE  /\ P!BitmapSize(h) \in Nat
           /\ P!BitmapSize(h) \div PAGE_SIZE \in Nat
           /\ P!BitmapSize(h) = (P!BitmapSize(h) \div PAGE_SIZE) * PAGE_SIZE
<1> DEFINE n == ((h \div 8) + PAGE_SIZE - 1) \div PAGE_SIZE
<1>1. PAGE_SIZE \in Nat \ {0}
  BY BootAssumption
<1>2. n \in Nat
  BY <1>1
<1>3. P!BitmapSize(h) = n * PAGE_SIZE
  BY DEF P!BitmapSize
<1>4. (n * PAGE_SIZE) \div PAGE_SIZE = n
  BY <1>1, <1>2, DivExact
<1> QED
  BY <1>1, <1>2, <1>3, <1>4

\* A set of naturals that is not empty has a least member.
LEMMA Least ==
    ASSUME NEW S, S \subseteq Nat, S # {}
    PROVE  \E x \in S : \A y \in S : x <= y
<1>1. PICK x \in S : \A y \in S : ~ (<<y, x>> \in OpToRel(<, Nat))
  BY NatLessThanWellFounded, WFMin
<1>2. \A y \in S : ~ (y < x)
  BY <1>1 DEF OpToRel
<1> QED
  BY <1>2

-----------------------------------------------------------------------------
(* pmm_init.                                                               *)

\* What a member of a sequence is.
LEMMA SeqMember ==
    ASSUME NEW S, NEW s \in Seq(S)
    PROVE  Len(s) \in Nat /\ DOMAIN s = 1 .. Len(s) /\ \A k \in 1 .. Len(s) : s[k] \in S
OBVIOUS

\* The types of the loader's map.
LEMMA MapFacts ==
    ASSUME hw \in Machines
    PROVE  /\ Map \in Seq([base : Nat, length : Nat, type : STRING])
           /\ Len(Map) \in Nat
           /\ DOMAIN Map = 1 .. Len(Map)
           /\ \A k \in 1 .. Len(Map) :
                /\ Map[k] \in [base : Nat, length : Nat, type : STRING]
                /\ Map[k].base \in Nat /\ Map[k].length \in Nat
                /\ EndOf(k) \in Nat
<1>1. Map \in Seq([base : Nat, length : Nat, type : STRING])
  BY MapAssumption DEF Map
<1>2. Len(Map) \in Nat /\ DOMAIN Map = 1 .. Len(Map)
  BY <1>1
<1>3. \A k \in 1 .. Len(Map) : Map[k] \in [base : Nat, length : Nat, type : STRING]
  BY <1>1, SeqMember
<1> QED
  BY <1>1, <1>2, <1>3 DEF EndOf

\* Usable entries start above page 0 and do not overlap.
LEMMA UsableApart ==
    ASSUME hw \in Machines, NEW k, IsUsable(k)
    PROVE  /\ Map[k].base > 0
           /\ \A l : IsUsable(l) /\ l # k => EndOf(k) <= Map[l].base \/ EndOf(l) <= Map[k].base
<1>1. DOMAIN Map = 1 .. Len(Map)
  BY MapFacts
<1> QED
  BY <1>1, MapAssumption DEF Map, IsUsable, EndOf, P!Usable

\* A step that leaves the variables of pmm_init alone.
LEMMA SamePmm ==
    ASSUME PmmInv, UNCHANGED <<hw, pmm_vars>>
    PROVE  PmmInv'
BY DEF PmmInv, pmm_vars, Counted, Untouched, Hosted, HostedBy, FreeSoFar, Map, IsUsable,
       EndOf, Host, P!BitmapSize, P!Usable, P!PagesOf

\* The first pass of pmm_init raises the highest page to the end of an entry.
LEMMA CountInv ==
    ASSUME PmmInv, P!Count, UNCHANGED hw
    PROVE  PmmInv'
<1> DEFINE e == memmap[entry]
<1>1. /\ pmm_phase = "count" /\ pmm_phase' = "count" /\ entry <= Len(memmap) /\ entry' = entry + 1
      /\ memmap' = memmap /\ free' = free /\ bitmap' = bitmap /\ bitmap_size' = bitmap_size
  BY DEF P!Count
<1>2. memmap = Map /\ free = {} /\ Map' = Map
  BY <1>1 DEF PmmInv, Untouched, Map
<1>3. IF P!Usable(e)
      THEN highest_page_idx' = IF highest_page_idx < e.base + e.length
                               THEN e.base + e.length ELSE highest_page_idx
      ELSE highest_page_idx' = highest_page_idx
  BY DEF P!Count
<1>4. /\ entry \in Nat \ {0} /\ highest_page_idx \in Nat /\ hw \in Machines
      /\ highest_page_idx = 0 \/ \E k : IsUsable(k) /\ highest_page_idx = EndOf(k)
      /\ \A k : IsUsable(k) /\ k < entry => EndOf(k) <= highest_page_idx
  BY <1>1 DEF PmmInv, Counted
<1>5. \A k : /\ IsUsable(k)' <=> IsUsable(k)
             /\ EndOf(k)' = EndOf(k)
             /\ IsUsable(k) => k \in Nat /\ EndOf(k) \in Nat
  BY <1>2, <1>4, MapFacts DEF IsUsable, EndOf, P!Usable
<1>6. IsUsable(entry) => P!Usable(e) /\ e.base + e.length = EndOf(entry)
  BY <1>2 DEF IsUsable, EndOf
<1>7. P!Usable(e) => IsUsable(entry)
  BY <1>1, <1>2, <1>4, MapFacts DEF IsUsable
<1>8. /\ highest_page_idx' \in Nat
      /\ highest_page_idx <= highest_page_idx'
      /\ IsUsable(entry) => EndOf(entry) <= highest_page_idx'
      /\ highest_page_idx' = highest_page_idx \/ (IsUsable(entry) /\ highest_page_idx' = EndOf(entry))
  BY <1>3, <1>4, <1>5, <1>6, <1>7
<1>9. highest_page_idx' = 0 \/ \E k : IsUsable(k) /\ highest_page_idx' = EndOf(k)
  BY <1>4, <1>8
<1>10. \A k : IsUsable(k) /\ k < entry + 1 => EndOf(k) <= highest_page_idx'
  <2> SUFFICES ASSUME NEW k, IsUsable(k), k < entry + 1
               PROVE  EndOf(k) <= highest_page_idx'
    OBVIOUS
  <2>1. k \in Nat /\ EndOf(k) \in Nat
    BY <1>5
  <2>2. CASE k = entry
    BY <2>2, <1>8
  <2>3. CASE k < entry
    BY <2>1, <2>3, <1>4, <1>8
  <2> QED
    BY <2>1, <2>2, <2>3, <1>4
<1>11. Counted'
  BY <1>1, <1>5, <1>9, <1>10 DEF Counted
<1>12. Untouched'
  BY <1>1, <1>2 DEF Untouched
<1> QED
  BY <1>1, <1>4, <1>8, <1>11, <1>12 DEF PmmInv

\* The first pass is over: the highest page is known.
LEMMA CountDoneInv ==
    ASSUME PmmInv, P!CountDone, UNCHANGED hw
    PROVE  PmmInv'
<1>1. /\ pmm_phase = "count" /\ pmm_phase' = "place" /\ entry > Len(memmap) /\ entry' = 1
      /\ memmap' = memmap /\ free' = free /\ highest_page_idx' = highest_page_idx
      /\ bitmap_size' = P!BitmapSize(highest_page_idx)
  BY DEF P!CountDone
<1>2. memmap = Map /\ free = {} /\ Map' = Map
  BY <1>1 DEF PmmInv, Untouched, Map
<1>3. /\ entry \in Nat /\ highest_page_idx \in Nat /\ hw \in Machines
      /\ highest_page_idx = 0 \/ \E k : IsUsable(k) /\ highest_page_idx = EndOf(k)
      /\ \A k : IsUsable(k) /\ k < entry => EndOf(k) <= highest_page_idx
  BY <1>1 DEF PmmInv, Counted
<1>4. \A k : /\ IsUsable(k)' <=> IsUsable(k)
             /\ EndOf(k)' = EndOf(k)
  BY <1>2 DEF IsUsable, EndOf, P!Usable
<1>5. \A k : IsUsable(k) => k < entry
  BY <1>1, <1>2, <1>3, MapFacts DEF IsUsable
<1>6. bitmap_size' = P!BitmapSize(highest_page_idx)'
  BY <1>1 DEF P!BitmapSize
<1>7. Counted'
  BY <1>1, <1>3, <1>4, <1>5, <1>6 DEF Counted
<1> QED
  BY <1>1, <1>2, <1>3, <1>7 DEF PmmInv, Untouched

\* From the second loop on Counted depends on nothing that changes.
LEMMA SameCounted ==
    ASSUME Counted, pmm_phase # "count", pmm_phase' # "count",
           UNCHANGED <<hw, highest_page_idx, bitmap_size>>
    PROVE  Counted'
<1>1. \A k : (IsUsable(k)' <=> IsUsable(k)) /\ EndOf(k)' = EndOf(k)
  BY DEF IsUsable, EndOf, P!Usable, Map
<1>2. P!BitmapSize(highest_page_idx)' = P!BitmapSize(highest_page_idx)
  BY DEF P!BitmapSize
<1>3. highest_page_idx' = 0 \/ \E k : IsUsable(k)' /\ highest_page_idx' = EndOf(k)'
  BY <1>1 DEF Counted
<1>4. \A k : IsUsable(k)' => EndOf(k)' <= highest_page_idx'
  BY <1>1 DEF Counted
<1> QED
  BY <1>2, <1>3, <1>4 DEF Counted

\* An entry cannot hold the bitmap.
LEMMA PlaceMissInv ==
    ASSUME PmmInv, P!PlaceSkip \/ P!NoHost, UNCHANGED hw
    PROVE  PmmInv'
<1>1. /\ pmm_phase = "place" /\ pmm_phase' \in {"place", "lost"} /\ entry' \in {entry, entry + 1}
      /\ memmap' = memmap /\ free' = free
      /\ UNCHANGED <<hw, highest_page_idx, bitmap_size>>
  BY DEF P!PlaceSkip, P!NoHost
<1>2. entry' \in Nat \ {0}
  BY <1>1 DEF PmmInv
<1> QED
  BY <1>1, <1>2, SameCounted DEF PmmInv, Untouched, Map

\* When every bit has its byte, the bitmap reaches up to highest_page_idx.
LEMMA BitsHaveBytes ==
    ASSUME PmmInv, pmm_phase # "count", EveryBitStored,
           NEW b \in 0 .. (highest_page_idx - 1)
    PROVE  b \div 8 < bitmap_size
<1>1. /\ hw \in Machines /\ highest_page_idx \in Nat
      /\ highest_page_idx = 0 \/ \E k : IsUsable(k) /\ highest_page_idx = EndOf(k)
      /\ \A k : IsUsable(k) => EndOf(k) <= highest_page_idx
      /\ bitmap_size = P!BitmapSize(highest_page_idx)
  BY DEF PmmInv, Counted
<1>2. PICK k : IsUsable(k) /\ highest_page_idx = EndOf(k)
  BY <1>1
<1>3. DOMAIN Map = 1 .. Len(Map)
  BY <1>1, MapFacts
<1>4. \A l \in DOMAIN Map : P!Usable(Map[l]) => EndOf(l) <= EndOf(k)
  BY <1>1, <1>2, <1>3 DEF IsUsable
<1>5. IsTop(Map, k)
  BY <1>2, <1>3, <1>4 DEF IsTop, IsUsable, EndOf
<1>6. \A c \in 0 .. (EndOf(k) - 1) : c \div 8 < P!BitmapSize(EndOf(k))
  BY <1>1, <1>2, <1>3, <1>5 DEF EveryBitStored, EndOf, Map, IsUsable
<1> QED
  BY <1>1, <1>2, <1>6

\* An entry holds the bitmap: it is filled with ones, and its pages taken off the entry.
LEMMA PlaceHereInv ==
    ASSUME PmmInv, P!PlaceHere, UNCHANGED hw, EveryBitStored
    PROVE  PmmInv'
<1>1. /\ pmm_phase = "place" /\ pmm_phase' = "reset" /\ entry <= Len(memmap) /\ entry' = 1
      /\ P!Usable(memmap[entry]) /\ memmap[entry].length * PAGE_SIZE >= bitmap_size
      /\ bitmap' = memmap[entry].base
      /\ UNCHANGED <<hw, highest_page_idx, bitmap_size>>
  BY DEF P!PlaceHere
<1>2. /\ free' \in SUBSET ((0 .. (highest_page_idx - 1)) \ P!BitsIn(bitmap_size, highest_page_idx))
      /\ memmap' = [memmap EXCEPT ![entry].length = @ - Host, ![entry].base   = @ + Host]
  BY DEF P!PlaceHere, Host
<1>3. /\ memmap = Map /\ Map' = Map /\ Host' = Host
      /\ entry \in Nat \ {0} /\ highest_page_idx \in Nat /\ hw \in Machines
      /\ Counted /\ bitmap_size = P!BitmapSize(highest_page_idx)
  BY <1>1 DEF PmmInv, Untouched, Map, Host, Counted
<1>4. /\ Len(Map) \in Nat
      /\ entry \in 1 .. Len(Map)
      /\ IsUsable(entry)
      /\ Map[entry] \in [base : Nat, length : Nat, type : STRING]
      /\ Map[entry].base \in Nat /\ Map[entry].length \in Nat
  <2>1. Len(Map) \in Nat /\ entry \in 1 .. Len(Map)
    BY <1>1, <1>3, MapFacts
  <2> QED
    BY <2>1, <1>1, <1>3, MapFacts DEF IsUsable
<1>5. PAGE_SIZE \in Nat \ {0} /\ Host \in Nat /\ bitmap_size = Host * PAGE_SIZE
  BY <1>3, BitmapWhole, BootAssumption DEF Host
<1>6. Host <= Map[entry].length
  <2>1. Map[entry].length * PAGE_SIZE >= Host * PAGE_SIZE
    BY <1>1, <1>3, <1>5
  <2>2. SUFFICES ASSUME NEW l \in Nat, NEW n \in Nat, NEW s \in Nat \ {0}, l * s >= n * s
                 PROVE  n <= l
    BY <1>4, <1>5, <2>1
  <2>3. SUFFICES ASSUME l < n PROVE FALSE
    OBVIOUS
  <2>4. (n - l - 1) * s >= 0
    BY <2>3
  <2>5. (n - l - 1) * s = n * s - l * s - s
    OBVIOUS
  <2> QED
    BY <2>4, <2>5, <2>2
<1>7. free' = {}
  BY <1>1, <1>2, BitsHaveBytes DEF P!BitsIn
<1>8. /\ memmap' \in Seq([base : Nat, length : Nat, type : STRING])
      /\ Len(memmap') = Len(Map)
      /\ memmap'[entry] = [Map[entry] EXCEPT !.length = @ - Host, !.base = @ + Host]
      /\ \A k \in 1 .. Len(Map) : k # entry => memmap'[k] = Map[k]
  <2> DEFINE new == [Map[entry] EXCEPT !.length = @ - Host, !.base = @ + Host]
  <2>1. memmap' = [Map EXCEPT ![entry] = new]
    BY <1>2, <1>3
  <2>2. new \in [base : Nat, length : Nat, type : STRING]
    <3>1. ASSUME NEW e \in [base : Nat, length : Nat, type : STRING], NEW n \in 0 .. e.length
          PROVE  [e EXCEPT !.length = @ - n, !.base = @ + n] \in [base : Nat, length : Nat, type : STRING]
      <4>1. e.length - n \in Nat /\ e.base + n \in Nat
        OBVIOUS
      <4>2. ASSUME NEW T, NEW r \in [base : Nat, length : Nat, type : T], NEW a \in Nat, NEW b \in Nat
            PROVE  [r EXCEPT !.length = a, !.base = b] \in [base : Nat, length : Nat, type : T]
        OBVIOUS
      <4> QED
        BY <4>1, <4>2
    <3>2. Host \in 0 .. Map[entry].length
      BY <1>4, <1>5, <1>6
    <3> QED
      BY <3>1, <3>2, <1>4
  <2>3. Map \in Seq([base : Nat, length : Nat, type : STRING])
    BY <1>3, MapFacts
  <2>4. ASSUME NEW S, NEW s \in Seq(S), NEW v \in S, NEW k \in 1 .. Len(s)
        PROVE  /\ [s EXCEPT ![k] = v] \in Seq(S)
               /\ Len([s EXCEPT ![k] = v]) = Len(s)
               /\ [s EXCEPT ![k] = v][k] = v
               /\ \A l \in 1 .. Len(s) : l # k => [s EXCEPT ![k] = v][l] = s[l]
    OBVIOUS
  <2> HIDE DEF new
  <2>5. /\ memmap' \in Seq([base : Nat, length : Nat, type : STRING])
        /\ Len(memmap') = Len(Map)
        /\ memmap'[entry] = new
        /\ \A k \in 1 .. Len(Map) : k # entry => memmap'[k] = Map[k]
    BY <2>1, <2>2, <2>3, <2>4, <1>4
  <2> QED
    BY <2>5 DEF new
<1>9. /\ memmap'[entry].type = Map[entry].type
      /\ memmap'[entry].base = Map[entry].base + Host
      /\ memmap'[entry].length = Map[entry].length - Host
  BY <1>4, <1>8
<1>10. \E h : HostedBy(h)'
  <2>1. PICK h : h = entry
    OBVIOUS
  <2>2. IsUsable(h)' /\ bitmap' = Map'[h].base /\ Host' \in 0 .. Map'[h].length
    BY <2>1, <1>1, <1>3, <1>4, <1>5, <1>6 DEF IsUsable, P!Usable
  <2>3. HostedBy(h)'
    BY <2>1, <2>2, <1>3, <1>8, <1>9 DEF HostedBy
  <2> QED BY <2>3
<1>11. Hosted'
  BY <1>3, <1>8, <1>10 DEF Hosted
<1>12. FreeSoFar'
  BY <1>1, <1>3, <1>7, <1>8 DEF FreeSoFar
<1> QED
  BY <1>1, <1>3, <1>11, <1>12, SameCounted DEF PmmInv

\* The last pass clears the bit of a usable page, or ends.
LEMMA ResetInv ==
    ASSUME PmmInv, P!Reset \/ P!ResetDone, UNCHANGED hw
    PROVE  PmmInv'
<1>1. /\ pmm_phase = "reset" /\ pmm_phase' \in {"reset", "done"}
      /\ UNCHANGED <<hw, memmap, highest_page_idx, bitmap, bitmap_size>>
  BY DEF P!Reset, P!ResetDone
<1>2. /\ Counted' /\ hw' \in Machines /\ highest_page_idx' \in Nat
      /\ entry \in Nat \ {0} /\ Hosted /\ FreeSoFar /\ Len(memmap) \in Nat
  BY <1>1, SameCounted, SeqMember DEF PmmInv, Hosted
<1>3. Hosted'
  <2>1. \A h : HostedBy(h)' <=> HostedBy(h)
    BY <1>1 DEF HostedBy, IsUsable, P!Usable, Map, Host
  <2> QED
    BY <1>1, <1>2, <2>1 DEF Hosted, Map
<1>4. CASE P!Reset
  <2>1. /\ entry <= Len(memmap) /\ entry' = entry + 1 /\ pmm_phase' = "reset" /\ memmap' = memmap
        /\ free' = IF P!Usable(memmap[entry]) THEN free \union P!PagesOf(memmap[entry]) ELSE free
    BY <1>4 DEF P!Reset
  <2>2. \A p : p \in free <=> \E k \in 1 .. Len(memmap) :
                   k < entry /\ P!Usable(memmap[k]) /\ p \in P!PagesOf(memmap[k])
    BY <1>1, <1>2 DEF FreeSoFar
  <2>3. entry \in 1 .. Len(memmap)
    BY <1>2, <2>1
  <2>4. \A k \in 1 .. Len(memmap) : k < entry + 1 <=> k < entry \/ k = entry
    BY <1>2
  <2>5. \A p : p \in free' <=> \E k \in 1 .. Len(memmap) :
                   k < entry + 1 /\ P!Usable(memmap[k]) /\ p \in P!PagesOf(memmap[k])
    BY <2>1, <2>2, <2>3, <2>4
  <2>6. FreeSoFar'
    BY <2>1, <2>5 DEF FreeSoFar, P!Usable, P!PagesOf
  <2> QED
    BY <2>1, <2>6, <1>1, <1>2, <1>3 DEF PmmInv
<1>5. CASE P!ResetDone
  <2>1. /\ entry > Len(memmap) /\ entry' = entry /\ pmm_phase' = "done" /\ memmap' = memmap
        /\ free' = free
    BY <1>5 DEF P!ResetDone
  <2>2. \A k \in 1 .. Len(memmap) : k < entry
    BY <2>1, <1>2
  <2>3. FreeSoFar'
    BY <2>1, <2>2, <1>1, <1>2 DEF FreeSoFar, P!Usable, P!PagesOf
  <2> QED
    BY <2>1, <2>3, <1>1, <1>2, <1>3 DEF PmmInv
<1> QED
  BY <1>4, <1>5

\* A step of pmm_init.
LEMMA PmmStepInv ==
    ASSUME PmmInv, P!Next, UNCHANGED hw, EveryBitStored
    PROVE  PmmInv'
BY CountInv, CountDoneInv, PlaceMissInv, PlaceHereInv, ResetInv DEF P!Next

-----------------------------------------------------------------------------
(* What pmm_init hands over.                                               *)

\* The pages of the entries after pmm_init, entry by entry: those of the host
\* begin where the bitmap ends.
LEMMA PagesAfter ==
    ASSUME PmmInv, pmm_phase = "done", NEW h, HostedBy(h), NEW p, p \in free
    PROVE  \E k : /\ IsUsable(k) /\ p \in Map[k].base .. (EndOf(k) - 1)
                  /\ k = h => p >= bitmap + Host
<1>1. hw \in Machines /\ Len(memmap) = Len(Map) /\ FreeSoFar
  BY DEF PmmInv, Hosted
<1>2. PICK k \in 1 .. Len(Map) : P!Usable(memmap[k]) /\ p \in P!PagesOf(memmap[k])
  BY <1>1 DEF FreeSoFar
<1>3. Map[k].base \in Nat /\ Map[k].length \in Nat
  BY <1>1, MapFacts
<1>4. CASE k = h
  <2>1. /\ p \in (Map[h].base + Host) .. (Map[h].base + Host + (Map[h].length - Host) - 1)
        /\ IsUsable(h) /\ bitmap = Map[h].base /\ Host \in 0 .. Map[h].length
    BY <1>2, <1>4 DEF HostedBy, P!PagesOf
  <2>2. p \in Map[h].base .. (EndOf(h) - 1) /\ p >= bitmap + Host
    BY <2>1, <1>3, <1>4 DEF EndOf
  <2> QED
    BY <2>1, <2>2, <1>4
<1>5. CASE k # h
  <2>1. memmap[k] = Map[k]
    BY <1>5 DEF HostedBy
  <2>2. IsUsable(k) /\ p \in Map[k].base .. (EndOf(k) - 1)
    <3>1. IsUsable(k) /\ p \in Map[k].base .. (Map[k].base + Map[k].length - 1)
      BY <2>1, <1>2 DEF IsUsable, P!PagesOf
    <3> QED
      BY <3>1, <1>3 DEF EndOf
  <2> QED
    BY <2>2, <1>5
<1> QED
  BY <1>4, <1>5

\* The pages of the bitmap are the first ones of its host.
LEMMA BitmapInHost ==
    ASSUME PmmInv, pmm_phase = "done", EveryBitStored, NEW h, HostedBy(h), NEW p, p \in BitmapPages
    PROVE  p \in bitmap .. (bitmap + Host - 1) /\ p \in Map[h].base .. (EndOf(h) - 1)
<1>1. PICK b \in 0 .. (highest_page_idx - 1) : p = bitmap + (b \div 8) \div PAGE_SIZE
  BY DEF BitmapPages, P!BitmapPages
<1>2. /\ hw \in Machines /\ highest_page_idx \in Nat
      /\ bitmap_size = P!BitmapSize(highest_page_idx)
      /\ IsUsable(h) /\ bitmap = Map[h].base /\ Host \in 0 .. Map[h].length
  BY DEF PmmInv, HostedBy, Counted
<1>3. Map[h].base \in Nat /\ Map[h].length \in Nat
  BY <1>2, MapFacts DEF IsUsable
<1>4. PAGE_SIZE \in Nat \ {0} /\ Host \in Nat /\ bitmap_size = Host * PAGE_SIZE
  BY <1>2, BitmapWhole, BootAssumption DEF Host
<1>5. b \div 8 \in Nat /\ b \div 8 < Host * PAGE_SIZE
  BY <1>4, <1>2, BitsHaveBytes
<1>6. (b \div 8) \div PAGE_SIZE \in 0 .. (Host - 1)
  BY <1>4, <1>5, DivBelow
<1> QED
  BY <1>1, <1>2, <1>3, <1>6 DEF EndOf

\* Free pages lie above page 0 and below highest_page_idx, in entries that the
\* loader's map calls usable, and not in the bitmap.
LEMMA FreeFacts ==
    ASSUME PmmInv, pmm_phase = "done", EveryBitStored, NEW p, p \in free
    PROVE  /\ p \in 1 .. (highest_page_idx - 1)
           /\ \E k : IsUsable(k) /\ p \in Map[k].base .. (EndOf(k) - 1)
           /\ p \notin BitmapPages
<1>1. PICK h : HostedBy(h)
  BY DEF PmmInv, Hosted
<1>2. PICK k : /\ IsUsable(k) /\ p \in Map[k].base .. (EndOf(k) - 1)
               /\ k = h => p >= bitmap + Host
  BY <1>1, PagesAfter
<1>3. hw \in Machines /\ highest_page_idx \in Nat /\ EndOf(k) <= highest_page_idx
  BY <1>2 DEF PmmInv, Counted
<1>4. Map[k].base \in Nat /\ EndOf(k) \in Nat /\ Map[k].base > 0
  BY <1>2, <1>3, MapFacts, UsableApart DEF IsUsable
<1>5. p \in 1 .. (highest_page_idx - 1)
  BY <1>2, <1>3, <1>4
<1>6. ASSUME p \in BitmapPages PROVE FALSE
  <2>1. p \in bitmap .. (bitmap + Host - 1) /\ p \in Map[h].base .. (EndOf(h) - 1)
    BY <1>1, <1>6, BitmapInHost
  <2>2. /\ IsUsable(h) /\ bitmap = Map[h].base /\ Host \in 0 .. Map[h].length
        /\ Map[h].base \in Nat /\ Map[h].length \in Nat /\ EndOf(h) \in Nat
    BY <1>1, <1>3, MapFacts DEF HostedBy, IsUsable
  <2>3. CASE k = h
    BY <2>1, <2>2, <2>3, <1>2, <1>5
  <2>4. CASE k # h
    <3>1. EndOf(k) <= Map[h].base \/ EndOf(h) <= Map[k].base
      BY <1>2, <1>3, <2>2, <2>4, UsableApart
    <3> QED
      BY <3>1, <2>1, <2>2, <1>2, <1>4, <1>5
  <2> QED
    BY <2>3, <2>4
<1> QED
  BY <1>2, <1>5, <1>6

\* The invariant gives what pmm_init promises.
LEMMA PmmInvGivesBitmap ==
    ASSUME PmmInv, EveryBitStored
    PROVE  BitmapDescribesMemory
<1>1. SUFFICES ASSUME pmm_phase = "done"
               PROVE  /\ free = P!UsableNow
                      /\ free \cap P!BitmapPages = {}
                      /\ free \subseteq 1 .. (highest_page_idx - 1)
  BY DEF BitmapDescribesMemory, P!BitmapDescribesMemory
<1>2. \A p : p \in free <=>
        \E k \in 1 .. Len(memmap) : P!Usable(memmap[k]) /\ p \in P!PagesOf(memmap[k])
  BY <1>1 DEF PmmInv, FreeSoFar
<1>3. free = P!UsableNow
  BY <1>2 DEF P!UsableNow, P!UsableEntries
<1>4. free \cap P!BitmapPages = {}
  BY <1>1, FreeFacts DEF BitmapPages
<1>5. free \subseteq 1 .. (highest_page_idx - 1)
  BY <1>1, FreeFacts
<1> QED
  BY <1>3, <1>4, <1>5

-----------------------------------------------------------------------------
(* The heap and the page tables.                                           *)

\* Before pmm_init nothing is taken.
LEMMA InitInv == Init => BootInv
<1> SUFFICES ASSUME Init PROVE BootInv
  OBVIOUS
<1>1. /\ hw \in Machines /\ memmap = Map
      /\ pmm_phase = "count" /\ entry = 1 /\ highest_page_idx = 0 /\ free = {}
      /\ heap = Null /\ last_used_page_idx = 0 /\ tables = << >> /\ vmm_phase = "root"
  BY DEF Init, P!Init, V!Init, Map
<1>2. Counted
  BY <1>1, MapFacts DEF Counted, IsUsable
<1>3. PmmInv
  BY <1>1, <1>2 DEF PmmInv, Untouched
<1>4. DOMAIN tables = {}
  BY <1>1
<1> QED
  BY <1>1, <1>3, <1>4 DEF BootInv, TakenInv

\* A step of pmm_init.
LEMMA PmmInitStepInv ==
    ASSUME BootInv, PmmInitStep, EveryBitStored
    PROVE  BootInv'
<1>1. P!Next /\ UNCHANGED <<hw, heap_vars, vmm_vars>>
  BY DEF PmmInitStep
<1>2. pmm_phase # "done"
  BY <1>1 DEF P!Next, P!Count, P!CountDone, P!PlaceSkip, P!PlaceHere, P!NoHost, P!Reset, P!ResetDone
<1>3. UNCHANGED <<hw, heap, last_used_page_idx, tables, vmm_phase>>
  BY <1>1 DEF heap_vars, vmm_vars
<1>4. PmmInv'
  BY <1>1, PmmStepInv DEF BootInv
<1>5. heap = Null /\ DOMAIN tables = {} /\ vmm_phase = "root" /\ last_used_page_idx \in Int
  BY <1>2 DEF BootInv, TakenInv
<1>6. TakenInv'
  BY <1>3, <1>5 DEF TakenInv, Null
<1> QED
  BY <1>4, <1>6 DEF BootInv

\* The heap is allocated: its pages were free and are taken now.
LEMMA InitAllocatorInv ==
    ASSUME BootInv, InitAllocator, EveryBitStored
    PROVE  BootInv'
<1>1. /\ pmm_phase = "done" /\ heap = Null /\ Runs # {}
      /\ heap' = CHOOSE p \in Runs : \A q \in Runs : p <= q
      /\ last_used_page_idx' = heap' + HEAP_PAGES
      /\ UNCHANGED <<hw, pmm_vars, vmm_vars>>
  BY DEF InitAllocator, Ready
<1>2. Runs \subseteq Nat
  BY <1>1, FreeFacts DEF BootInv, Runs
<1>3. heap' \in Runs /\ heap' \in Nat
  BY <1>1, <1>2, Least
<1>4. heap' .. (heap' + HEAP_PAGES - 1) \subseteq free
  BY <1>3 DEF Runs
<1>5. HeapPages' \subseteq free
  BY <1>3, <1>4 DEF HeapPages
<1>6. PmmInv'
  BY <1>1, SamePmm DEF BootInv
<1>7. /\ DOMAIN tables = {} /\ tables' = tables /\ free' = free /\ pmm_phase' = "done"
      /\ last_used_page_idx' \in Int
  BY <1>1, <1>3, BootAssumption DEF BootInv, TakenInv, pmm_vars, vmm_vars
<1>8. TakenInv'
  BY <1>3, <1>5, <1>7 DEF TakenInv
<1> QED
  BY <1>6, <1>8 DEF BootInv

\* A step that touches neither pmm_init's variables nor the heap's, and takes
\* at most free pages for tables.
LEMMA TablesInv ==
    ASSUME BootInv, UNCHANGED <<hw, pmm_vars, heap_vars>>, pmm_phase = "done",
           vmm_phase' # "wild" => DOMAIN tables' \subseteq free \ HeapPages,
           heap = Null => DOMAIN tables' = {}
    PROVE  BootInv'
<1>1. PmmInv'
  BY SamePmm DEF BootInv
<1>2. UNCHANGED <<heap, last_used_page_idx, free, pmm_phase>> /\ HeapPages' = HeapPages
  BY DEF pmm_vars, heap_vars, HeapPages
<1>3. TakenInv'
  BY <1>2 DEF BootInv, TakenInv
<1> QED
  BY <1>1, <1>3 DEF BootInv

\* pmm_alloc, as vmm_init calls it, returns a free page or nothing.
LEMMA AllocFree ==
    ASSUME BootInv, pmm_phase = "done", EveryBitStored, V!pmm_alloc # V!NoPage
    PROVE  V!pmm_alloc \in (free \ HeapPages) \ DOMAIN tables
<1> DEFINE F == (free \ HeapPages) \ DOMAIN tables
           O(p) == (p - last_used_page_idx) % highest_page_idx
<1>1. V!FreePages = F /\ \A p : V!ScanOrder(p) = O(p)
  BY DEF V!FreePages, V!ScanOrder, machine, FreeBits
<1>2. V!pmm_alloc = CHOOSE p \in F : \A q \in F : O(p) <= O(q)
  BY <1>1 DEF V!pmm_alloc
<1>3. F # {}
  BY <1>1 DEF V!pmm_alloc
<1>4. /\ last_used_page_idx \in Int /\ highest_page_idx \in Nat
      /\ \A p \in F : p \in 1 .. (highest_page_idx - 1)
  BY FreeFacts DEF BootInv, TakenInv, PmmInv
<1>5. \A p \in F : O(p) \in Nat
  BY <1>4
<1> DEFINE S == {O(p) : p \in F}
<1>6. S \subseteq Nat /\ S # {}
  BY <1>3, <1>5
<1>7. PICK x \in S : \A y \in S : x <= y
  BY <1>6, Least
<1>8. \E p \in F : \A q \in F : O(p) <= O(q)
  BY <1>7
<1> HIDE DEF F, O
<1>9. V!pmm_alloc \in F
  BY <1>2, <1>8
<1> QED
  BY <1>9 DEF F

\* A step of vmm_init adds at most the page of pmm_alloc to those with a table.
LEMMA VmmSteps ==
    ASSUME V!Next
    PROVE  \/ vmm_phase' = "wild" /\ UNCHANGED tables
           \/ vmm_phase # "wild" /\ DOMAIN tables' = DOMAIN tables
           \/ vmm_phase = "wild" /\ vmm_phase' = "wild"
           \/ /\ V!pmm_alloc # V!NoPage /\ vmm_phase # "wild"
              /\ DOMAIN tables' = DOMAIN tables \union {V!pmm_alloc}
<1>1. \A p : DOMAIN V!WithTable(p) = DOMAIN tables \union {p}
  BY DEF V!WithTable
<1>2. CASE V!AllocRoot
  BY <1>1, <1>2 DEF V!AllocRoot, V!Wild
<1>3. CASE V!NextLevelNew
  BY <1>1, <1>3 DEF V!NextLevelNew, V!Wild
<1>4. CASE V!MapPage
  BY <1>4 DEF V!MapPage
<1>5. CASE V!NextLevelTable \/ V!MapSpill \/ V!MapLow \/ V!MapKernel \/ V!MapHigh \/ V!Switch
  BY <1>5 DEF V!NextLevelTable, V!MapSpill, V!MapLow, V!MapKernel, V!MapHigh, V!Switch,
              V!CallsMap, V!NextEntry
<1> QED
  BY <1>2, <1>3, <1>4, <1>5 DEF V!Next

\* A step of vmm_init, with the page it may allocate for a table.
LEMMA VmmInitStepInv ==
    ASSUME BootInv, VmmInitStep, EveryBitStored
    PROVE  BootInv'
<1>1. heap # Null /\ pmm_phase = "done" /\ V!Next /\ UNCHANGED <<hw, pmm_vars, heap_vars>>
  BY DEF VmmInitStep, BootInv, TakenInv
<1>2. ASSUME vmm_phase' # "wild" PROVE DOMAIN tables' \subseteq free \ HeapPages
  BY <1>1, <1>2, VmmSteps, AllocFree DEF BootInv, TakenInv
<1> QED
  BY <1>1, <1>2, TablesInv

\* Every step keeps the invariant.
LEMMA NextInv ==
    ASSUME BootInv, [Next]_vars, EveryBitStored
    PROVE  BootInv'
<1>1. CASE InitAllocatorSpins
  <2>1. UNCHANGED <<hw, pmm_vars>> /\ UNCHANGED <<heap, tables, vmm_phase>>
        /\ UNCHANGED <<free, pmm_phase>> /\ last_used_page_idx' = highest_page_idx
    BY <1>1 DEF InitAllocatorSpins, vmm_vars, pmm_vars
  <2>2. PmmInv' /\ highest_page_idx \in Nat
    BY <2>1, SamePmm DEF BootInv, PmmInv
  <2> QED
    BY <2>1, <2>2 DEF BootInv, TakenInv, HeapPages
<1>2. CASE UNCHANGED vars
  <2>1. UNCHANGED <<hw, pmm_vars>> /\ UNCHANGED <<heap, last_used_page_idx, tables, vmm_phase>>
        /\ UNCHANGED <<free, pmm_phase>>
    BY <1>2 DEF vars, heap_vars, vmm_vars, pmm_vars
  <2>2. PmmInv'
    BY <2>1, SamePmm DEF BootInv
  <2> QED
    BY <2>1, <2>2 DEF BootInv, TakenInv, HeapPages
<1>3. CASE Ended
  BY <1>2, <1>3 DEF Ended
<1> QED
  BY <1>1, <1>2, <1>3, PmmInitStepInv, InitAllocatorInv, VmmInitStepInv DEF Next

\* The invariant keeps the three apart.
LEMMA BootInvGivesDisjoint ==
    ASSUME BootInv, EveryBitStored
    PROVE  BootPagesDisjoint
<1> DEFINE U == UNION {P!PagesOf(hw.memmap[k]) : k \in {k \in DOMAIN hw.memmap : P!Usable(hw.memmap[k])}}
<1>1. SUFFICES ASSUME vmm_phase # "wild", pmm_phase = "done"
               PROVE  /\ BitmapPages \intersect HeapPages = {}
                      /\ (BitmapPages \union HeapPages) \intersect DOMAIN tables = {}
                      /\ BitmapPages \union HeapPages \union DOMAIN tables \subseteq U
  BY DEF BootPagesDisjoint
<1>2. PmmInv /\ hw \in Machines /\ HeapPages \subseteq free /\ DOMAIN tables \subseteq free \ HeapPages
  BY <1>1 DEF BootInv, TakenInv, PmmInv, HeapPages
<1>3. free \intersect BitmapPages = {}
  BY <1>1, <1>2, FreeFacts
<1>4. \A k, p : IsUsable(k) /\ p \in Map[k].base .. (EndOf(k) - 1) => p \in U
  BY <1>2, MapFacts DEF IsUsable, EndOf, P!PagesOf, Map
<1>5. free \subseteq U
  BY <1>1, <1>2, <1>4, FreeFacts
<1>6. BitmapPages \subseteq U
  <2>1. PICK h : HostedBy(h)
    BY <1>1, <1>2 DEF PmmInv, Hosted
  <2>2. IsUsable(h)
    BY <2>1 DEF HostedBy
  <2> QED
    BY <2>1, <2>2, <1>1, <1>2, <1>4, BitmapInHost
<1> HIDE DEF U
<1> QED
  BY <1>2, <1>3, <1>5, <1>6

-----------------------------------------------------------------------------
(* The address space.  VmmProof has the invariant of vmm_init for every    *)
(* machine that MachineOK describes; pmm_init and the boot protocol make   *)
(* such a machine.                                                         *)

VP == INSTANCE VmmProof WITH phase <- vmm_phase

(* Until pmm_init has returned vmm_init has not begun.                     *)
AddressInv ==
    /\ VP!SpaceInv
    /\ pmm_phase # "done" => VP!Init

\* The parts of the machine.
LEMMA MachineHas ==
    /\ machine.memmap = memmap /\ machine.free = FreeBits
    /\ machine.last_used_page_idx = last_used_page_idx
    /\ machine.highest_page_idx = highest_page_idx
    /\ machine.levels = hw.levels /\ machine.gib = hw.gib /\ machine.hhdm = hw.hhdm
    /\ machine.kernel_virt = hw.kernel_virt /\ machine.kernel_phys = hw.kernel_phys
BY DEF machine

\* The memory map has entries, whatever pmm_init has done to it.
LEMMA MemmapIs ==
    ASSUME PmmInv
    PROVE  /\ memmap \in Seq([base : Nat, length : Nat, type : STRING])
           /\ memmap # << >>
           /\ Len(memmap) = Len(Map)
<1>1. hw \in Machines
  BY DEF PmmInv
<1>2. Map \in Seq([base : Nat, length : Nat, type : STRING]) /\ Map # << >>
  BY <1>1, MapAssumption DEF Map
<1>3. Len(Map) \in Nat /\ Len(Map) # 0
  BY <1>2
<1>4. CASE Untouched
  BY <1>2, <1>4 DEF Untouched
<1>5. CASE Hosted
  <2>1. memmap \in Seq([base : Nat, length : Nat, type : STRING]) /\ Len(memmap) = Len(Map)
    BY <1>5 DEF Hosted
  <2>2. Len(<< >>) = 0
    OBVIOUS
  <2> QED
    BY <2>1, <2>2, <1>3
<1> QED
  BY <1>4, <1>5 DEF PmmInv

\* A range that is cut from below.
LEMMA CutRange ==
    ASSUME NEW p, NEW b \in Nat, NEW n \in Nat, NEW c \in 0 .. n,
           p \in (b + c) .. ((b + c) + (n - c) - 1)
    PROVE  p \in b .. ((b + n) - 1)
OBVIOUS

\* Memory of the direct map lies in the first 4 GiB or in an entry of the
\* loader's map.
LEMMA DirectInMap ==
    ASSUME PmmInv, pmm_phase = "done", NEW p \in VP!DirectPages
    PROVE  \/ p \in 0 .. (LOW - 1)
           \/ \E k \in 1 .. Len(Map) : /\ Map[k].type \notin {"reserved", "bad"}
                                       /\ p \in Map[k].base .. (EndOf(k) - 1)
<1>1. hw \in Machines /\ Hosted /\ Len(memmap) = Len(Map)
  BY MemmapIs DEF PmmInv
<1>2. DOMAIN memmap = 1 .. Len(Map)
  BY <1>1, SeqMember DEF Hosted
<1>3. SUFFICES ASSUME NEW k \in 1 .. Len(Map), memmap[k].type \notin {"reserved", "bad"},
                      p \in memmap[k].base .. (memmap[k].base + memmap[k].length - 1)
               PROVE  Map[k].type \notin {"reserved", "bad"} /\ p \in Map[k].base .. (EndOf(k) - 1)
  BY <1>2, VP!DirectIs, MachineHas
<1>4. PICK h : HostedBy(h)
  BY <1>1 DEF Hosted
<1>5. Map[k].base \in Nat /\ Map[k].length \in Nat
  BY <1>1, MapFacts
<1>6. CASE k = h
  <2>1. /\ memmap[k].type = Map[k].type /\ Host \in 0 .. Map[k].length
        /\ memmap[k].base = Map[k].base + Host /\ memmap[k].length = Map[k].length - Host
    BY <1>4, <1>6 DEF HostedBy
  <2>2. p \in (Map[k].base + Host) .. ((Map[k].base + Host) + (Map[k].length - Host) - 1)
    BY <2>1, <1>3
  <2>3. p \in Map[k].base .. (EndOf(k) - 1)
    BY <2>1, <2>2, <1>5, CutRange DEF EndOf
  <2> QED
    BY <2>1, <2>3, <1>3
<1>7. CASE k # h
  <2>1. memmap[k] = Map[k]
    BY <1>4, <1>7 DEF HostedBy
  <2>2. p \in Map[k].base .. (Map[k].base + Map[k].length - 1)
    BY <2>1, <1>3
  <2>3. p \in Map[k].base .. (EndOf(k) - 1)
    BY <2>2, <1>5 DEF EndOf
  <2> QED
    BY <2>1, <2>3, <1>3
<1> QED
  BY <1>6, <1>7

\* Kernel entries are as the loader left them.
LEMMA KernelEntries ==
    ASSUME PmmInv, pmm_phase = "done", NEW k \in DOMAIN memmap, memmap[k].type = "kernel"
    PROVE  k \in 1 .. Len(Map) /\ memmap[k] = Map[k]
<1>1. Hosted
  BY DEF PmmInv
<1>2. PICK h : HostedBy(h)
  BY <1>1 DEF Hosted
<1>3. memmap[h].type = "usable"
  BY <1>2 DEF HostedBy, IsUsable, P!Usable
<1>4. k \in 1 .. Len(Map)
  BY <1>1, SeqMember DEF Hosted
<1> QED
  BY <1>2, <1>3, <1>4 DEF HostedBy

\* Free pages are pages of the direct map.
LEMMA FreeDirect ==
    ASSUME PmmInv, pmm_phase = "done", EveryBitStored
    PROVE  FreeBits \subseteq VP!DirectPages \ {0} /\ IsFiniteSet(FreeBits)
<1>1. ASSUME NEW p \in FreeBits PROVE p \in VP!DirectPages
  <2>1. p \in free
    BY DEF FreeBits
  <2>2. PICK k \in 1 .. Len(memmap) : P!Usable(memmap[k]) /\ p \in P!PagesOf(memmap[k])
    BY <2>1 DEF PmmInv, FreeSoFar
  <2>3. k \in DOMAIN memmap
    BY <2>2, MemmapIs, SeqMember
  <2>4. /\ memmap[k].type \notin {"reserved", "bad"}
        /\ p \in memmap[k].base .. (memmap[k].base + memmap[k].length - 1)
    BY <2>2 DEF P!Usable, P!PagesOf
  <2> QED
    BY <2>3, <2>4, VP!DirectIs, MachineHas
<1>2. FreeBits \subseteq 1 .. (highest_page_idx - 1) /\ highest_page_idx \in Nat
  BY FreeFacts DEF FreeBits, PmmInv
<1>3. IsFiniteSet(FreeBits)
  <2>1. IsFiniteSet(1 .. (highest_page_idx - 1))
    BY <1>2, FS_Interval, 1 \in Int, highest_page_idx - 1 \in Int
  <2> QED
    BY <1>2, <2>1, FS_Subset
<1> QED
  BY <1>1, <1>2, <1>3

\* pmm_init makes a machine that vmm_init can rely on.
LEMMA MachineIs ==
    ASSUME BootInv, pmm_phase = "done", EveryBitStored
    PROVE  VP!MachineOK
<1>1. PmmInv /\ hw \in Machines /\ last_used_page_idx \in Int /\ highest_page_idx \in Nat
  BY DEF BootInv, PmmInv, TakenInv
<1>2. E \in Nat /\ E > 1 /\ LOW \in Nat
  BY BootAssumption
<1>3. /\ hw.levels \in {4, 5} /\ hw.gib \in BOOLEAN
      /\ hw.hhdm \in Nat /\ hw.kernel_virt \in Nat /\ hw.kernel_phys \in Nat
      /\ hw.hhdm % (E * E) = 0
  BY <1>1, SpaceAssumption
<1>4. VP!Span(2) = E * E /\ VP!Span(hw.levels) = E * E * E * E * (IF hw.levels = 5 THEN E ELSE 1)
  BY <1>2, <1>3 DEF VP!Span
<1>5. hw.kernel_virt < VP!Span(hw.levels)
  BY <1>1, <1>4, SpaceAssumption
<1>6. ASSUME NEW p \in VP!DirectPages
      PROVE  (hw.hhdm + p) \div (E * E) < hw.kernel_virt \div (E * E)
  <2>1. CASE p \in 0 .. (LOW - 1)
    BY <1>1, <2>1, SpaceAssumption
  <2>2. ASSUME NEW k \in 1 .. Len(Map), Map[k].type \notin {"reserved", "bad"},
               p \in Map[k].base .. (EndOf(k) - 1)
        PROVE  (hw.hhdm + p) \div (E * E) < hw.kernel_virt \div (E * E)
    <3>1. k \in DOMAIN hw.memmap
      BY <1>1, MapFacts DEF Map
    <3>2. Map[k].base \in Nat /\ Map[k].length \in Nat
      BY <1>1, MapFacts
    <3>3. p \in hw.memmap[k].base .. (hw.memmap[k].base + hw.memmap[k].length - 1)
      BY <2>2, <3>2 DEF Map, EndOf
    <3>4. hw.memmap[k].type \notin {"reserved", "bad"}
      BY <2>2 DEF Map
    <3> QED
      BY <1>1, <3>1, <3>3, <3>4, SpaceAssumption
  <2> QED
    BY <1>1, <2>1, <2>2, DirectInMap
<1>7. ASSUME NEW k \in DOMAIN memmap, memmap[k].type = "kernel"
      PROVE  hw.kernel_virt + memmap[k].length <= VP!Span(hw.levels)
  <2>1. k \in 1 .. Len(Map) /\ memmap[k] = Map[k]
    BY <1>1, <1>7, KernelEntries
  <2>2. k \in DOMAIN hw.memmap /\ hw.memmap[k].type = "kernel"
    BY <1>1, <1>7, <2>1, MapFacts DEF Map
  <2> QED
    BY <1>1, <1>4, <2>1, <2>2, SpaceAssumption DEF Map
<1>8. highest_page_idx # 0
  <2>1. PICK h : HostedBy(h)
    BY <1>1 DEF PmmInv, Hosted
  <2>2. IsUsable(h)
    BY <2>1 DEF HostedBy
  <2>3. EndOf(h) <= highest_page_idx
    BY <1>1, <2>2 DEF PmmInv, Counted
  <2>4. Map[h].base \in Nat /\ Map[h].length \in Nat /\ Map[h].base > 0
    BY <1>1, <2>2, MapFacts, UsableApart DEF IsUsable
  <2> QED
    BY <1>1, <2>3, <2>4 DEF EndOf
<1>9. FreeBits \subseteq VP!DirectPages \ {0} /\ IsFiniteSet(FreeBits)
  BY <1>1, FreeDirect
<1>10. memmap \in Seq([base : Nat, length : Nat, type : STRING]) /\ memmap # << >>
  BY <1>1, MemmapIs
<1>11. \A p \in VP!DirectPages : VP!Block(hw.hhdm + p, 2) < VP!KernelGib
  BY <1>4, <1>6, MachineHas DEF VP!Block, VP!KernelGib
<1>12. highest_page_idx \in Nat \ {0} /\ hw.hhdm % VP!Span(2) = 0
  BY <1>1, <1>3, <1>4, <1>8
<1> QED
  <2>1. machine.levels \in {4, 5}
    BY <1>3, MachineHas
  <2>2. machine.gib \in BOOLEAN
    BY <1>3, MachineHas, Zenon
  <2>3. /\ machine.hhdm \in Nat /\ machine.kernel_virt \in Nat /\ machine.kernel_phys \in Nat
        /\ machine.hhdm % VP!Span(2) = 0
    BY <1>3, <1>12, MachineHas
  <2>4. machine.kernel_virt < VP!Span(machine.levels)
    BY <1>5, MachineHas
  <2>5. /\ machine.memmap \in Seq([base : Nat, length : Nat, type : STRING])
        /\ machine.memmap # << >>
    BY <1>10, MachineHas
  <2>6. \A p \in VP!DirectPages : VP!Block(machine.hhdm + p, 2) < VP!KernelGib
    BY <1>11, MachineHas
  <2>7. \A k \in DOMAIN machine.memmap : machine.memmap[k].type = "kernel" =>
           machine.kernel_virt + machine.memmap[k].length <= VP!Span(machine.levels)
    BY <1>7, MachineHas
  <2>8. machine.free \subseteq VP!DirectPages \ {0} /\ VP!IsFiniteSet(machine.free)
    BY <1>9, MachineHas DEF IsFiniteSet, VP!IsFiniteSet
  <2>9. machine.last_used_page_idx \in Int /\ machine.highest_page_idx \in Nat \ {0}
    BY <1>1, <1>12, MachineHas
  <2> QED
    BY <1>2, <2>1, <2>2, <2>3, <2>4, <2>5, <2>6, <2>7, <2>8, <2>9, Zenon DEF VP!MachineOK

-----------------------------------------------------------------------------
(* The invariant of the address space.                                     *)

\* vmm_init and its invariant are about the same machine, tables and calls.
LEMMA SameVmm == (V!Init <=> VP!Init) /\ (V!Next <=> VP!Next)
<1>1. V!Init <=> VP!Init
  BY DEF V!Init, VP!Init, V!NoPage, VP!NoPage
<1>2. V!Next <=> VP!Next
  BY DEF V!NoPage, VP!NoPage, V!Wild, VP!Wild, V!AllocRoot, VP!AllocRoot, V!pmm_alloc,
         VP!pmm_alloc, V!FreePages, VP!FreePages, V!ScanOrder, VP!ScanOrder, V!WithTable,
         VP!WithTable, V!EmptyTable, VP!EmptyTable, V!NoEntry, VP!NoEntry, V!Entry, VP!Entry,
         V!is_table, VP!is_table, V!Call, VP!Call, V!Top, VP!Top, V!Below, VP!Below,
         V!TopEntry, VP!TopEntry, V!Moved, VP!Moved, V!Index, VP!Index, V!PAGE_SIZES,
         VP!PAGE_SIZES, V!NextLevelTable, VP!NextLevelTable, V!NextLevelNew, VP!NextLevelNew,
         V!Spills, VP!Spills, V!Size1GiB, VP!Size1GiB, V!Size2MiB, VP!Size2MiB, V!Size4KiB,
         VP!Size4KiB, V!MapPage, VP!MapPage, V!MapSpill, VP!MapSpill, V!CallsMap, VP!CallsMap,
         V!MapLow, VP!MapLow, V!NextEntry, VP!NextEntry, V!MapKernel, VP!MapKernel,
         V!align_down, VP!align_down, V!align_up, VP!align_up, V!MapHigh, VP!MapHigh, V!Switch,
         VP!Switch, V!Next, VP!Next
<1> QED
  BY <1>1, <1>2

\* Before vmm_init begins the invariant holds, whatever pmm_init has done.
LEMMA NotBegun ==
    ASSUME PmmInv, VP!Init
    PROVE  VP!SpaceInv
BY MemmapIs, MachineHas, VP!SpaceInit

\* Nothing has happened yet.
LEMMA AddressInit ==
    ASSUME Init, PmmInv
    PROVE  AddressInv
<1>1. VP!Init
  BY SameVmm DEF Init
<1> QED
  BY <1>1, NotBegun DEF AddressInv

\* A step that leaves vmm_init where it starts.
LEMMA BeforeVmm ==
    ASSUME BootInv', VP!Init, UNCHANGED vmm_vars
    PROVE  AddressInv'
<1>1. VP!Init'
  BY DEF VP!Init, vmm_vars, VP!NoPage
<1>2. (PmmInv /\ VP!Init => VP!SpaceInv)'
  BY NotBegun, PTL
<1> QED
  BY <1>1, <1>2 DEF AddressInv, BootInv

\* vmm_init has not begun while its phase is the first.
LEMMA RootInit ==
    ASSUME VP!SpaceInv, vmm_phase = "root"
    PROVE  VP!Init
BY DEF VP!SpaceInv, VP!Unbuilt, VP!Built, VP!Types, VP!Init

\* A step of vmm_init keeps the machine.
LEMMA SameMachine ==
    ASSUME UNCHANGED <<hw, pmm_vars, heap_vars>>
    PROVE  UNCHANGED machine
BY DEF machine, pmm_vars, heap_vars, FreeBits, HeapPages

\* Every step keeps the invariant of the address space.
LEMMA AddressNext ==
    ASSUME BootInv, AddressInv, BootInv', [Next]_vars, EveryBitStored
    PROVE  AddressInv'
<1>1. CASE PmmInitStep
  <2>1. P!Next /\ UNCHANGED vmm_vars
    BY <1>1 DEF PmmInitStep
  <2>2. pmm_phase # "done"
    BY <2>1 DEF P!Next, P!Count, P!CountDone, P!PlaceSkip, P!PlaceHere, P!NoHost, P!Reset, P!ResetDone
  <2> QED
    BY <2>1, <2>2, BeforeVmm DEF AddressInv
<1>2. CASE InitAllocator
  <2>1. vmm_phase = "root" /\ UNCHANGED vmm_vars
    BY <1>2 DEF InitAllocator, Ready
  <2> QED
    BY <2>1, RootInit, BeforeVmm DEF AddressInv
<1>3. CASE InitAllocatorSpins
  <2>1. vmm_phase = "root" /\ UNCHANGED vmm_vars
    BY <1>3 DEF InitAllocatorSpins, Ready
  <2> QED
    BY <2>1, RootInit, BeforeVmm DEF AddressInv
<1>4. CASE VmmInitStep
  <2>1. VP!Next /\ pmm_phase = "done" /\ pmm_phase' = "done"
    BY <1>4, SameVmm DEF VmmInitStep, BootInv, TakenInv, pmm_vars
  <2>2. VP!SpaceInv'
    BY <2>1, MachineIs, VP!SpaceStep DEF AddressInv
  <2> QED
    BY <2>1, <2>2 DEF AddressInv
<1>5. CASE UNCHANGED vars
  <2>1. UNCHANGED <<hw, pmm_vars, heap_vars>> /\ UNCHANGED vmm_vars /\ UNCHANGED pmm_phase
    BY <1>5 DEF vars, pmm_vars
  <2>2. UNCHANGED VP!vars
    BY <2>1, SameMachine DEF VP!vars, vmm_vars
  <2>3. VP!SpaceInv'
    BY <2>2, VP!SpaceSame DEF AddressInv
  <2>4. pmm_phase # "done" => VP!Init'
    BY <2>1 DEF AddressInv, VP!Init, vmm_vars, VP!NoPage
  <2> QED
    BY <2>1, <2>3, <2>4 DEF AddressInv
<1>6. CASE Ended
  BY <1>5, <1>6 DEF Ended
<1> QED
  BY <1>1, <1>2, <1>3, <1>4, <1>5, <1>6 DEF Next

-----------------------------------------------------------------------------
(* What the invariant says of the boot.                                    *)

(* V and VP, two instances of the same definitions, agree on what the      *)
(* tables say.                                                             *)
SameRead ==
    /\ V!NoPage = VP!NoPage /\ V!VirtualPages = VP!VirtualPages /\ V!DirectPages = VP!DirectPages
    /\ \A l : V!PAGE_SIZES(l) = VP!PAGE_SIZES(l)
    /\ \A dir, v : V!Translate(dir, v) = VP!Translate(dir, v)

\* They do.
LEMMA SameTranslate == SameRead
<1>1. V!NoPage = VP!NoPage /\ V!VirtualPages = VP!VirtualPages /\ V!DirectPages = VP!DirectPages
      /\ \A l : V!PAGE_SIZES(l) = VP!PAGE_SIZES(l)
  BY DEF V!NoPage, VP!NoPage, V!VirtualPages, VP!VirtualPages, V!DirectPages, VP!DirectPages,
         V!PAGE_SIZES, VP!PAGE_SIZES
<1>2. \A dir, v : V!Translate(dir, v) = VP!Translate(dir, v)
  BY DEF V!Translate, VP!Translate, V!Walk, VP!Walk, V!IsLeaf, VP!IsLeaf, V!Index, VP!Index,
         V!PAGE_SIZES, VP!PAGE_SIZES, V!is_table, VP!is_table, V!NoPage, VP!NoPage
<1> QED
  BY <1>1, <1>2 DEF SameRead

\* A large page is never met.
LEMMA AddressNeverSplits ==
    ASSUME BootInv, AddressInv, EveryBitStored
    PROVE  NeverSplits
<1>1. VP!NeverSplits
  <2>1. CASE pmm_phase = "done"
    BY <2>1, MachineIs, VP!SpaceNeverSplits DEF AddressInv
  <2>2. CASE pmm_phase # "done"
    BY <2>2 DEF AddressInv, VP!Init, VP!NeverSplits
  <2> QED
    BY <2>1, <2>2
<1> QED
  BY <1>1 DEF NeverSplits, V!NeverSplits, VP!NeverSplits, V!Top, VP!Top, V!TopEntry, VP!TopEntry,
              V!is_large, VP!is_large, V!Index, VP!Index, V!PAGE_SIZES, VP!PAGE_SIZES

\* Nothing is mapped to a page that its address does not stand for.
LEMMA AddressNoForeign ==
    ASSUME BootInv, AddressInv, EveryBitStored
    PROVE  NoForeignMapping
<1>1. VP!NoForeignMapping
  <2>1. CASE pmm_phase = "done"
    BY <2>1, MachineIs, VP!SpaceNoForeign DEF AddressInv
  <2>2. CASE pmm_phase # "done"
    BY <2>2 DEF AddressInv, VP!Init, VP!NoForeignMapping
  <2> QED
    BY <2>1, <2>2
<1> QED
  BY <1>1, SameTranslate DEF NoForeignMapping, V!NoForeignMapping, VP!NoForeignMapping, SameRead

\* At the end pmm_init has long returned.
LEMMA AtTheEnd ==
    ASSUME BootInv, AddressInv, EveryBitStored, vmm_phase = "done"
    PROVE  pmm_phase = "done" /\ VP!MachineOK /\ VP!SpaceInv
BY MachineIs DEF AddressInv, VP!Init

\* to_higher_half is right of every page of memory.
LEMMA AddressDirectMap ==
    ASSUME BootInv, AddressInv, EveryBitStored
    PROVE  DirectMapExact
<1>1. SUFFICES ASSUME vmm_phase = "done"
               PROVE  \A p \in V!DirectPages : V!Translate(cr3, machine.hhdm + p) = p
  BY DEF DirectMapExact, V!DirectMapExact
<1>2. VP!DirectMapExact
  BY <1>1, AtTheEnd, VP!SpaceDirectMap
<1> QED
  BY <1>1, <1>2, SameTranslate DEF VP!DirectMapExact, SameRead

\* The kernel is where it is linked.
LEMMA AddressKernel ==
    ASSUME BootInv, AddressInv, EveryBitStored
    PROVE  KernelStaysMapped
<1>1. VP!KernelStaysMapped
  <2>1. CASE vmm_phase = "done"
    BY <2>1, AtTheEnd, VP!SpaceKernel
  <2>2. CASE vmm_phase # "done"
    BY <2>2 DEF VP!KernelStaysMapped
  <2> QED
    BY <2>1, <2>2
<1> QED
  BY <1>1, SameTranslate DEF KernelStaysMapped, V!KernelStaysMapped, VP!KernelStaysMapped, SameRead

\* So is the bitmap, but for the gigabyte that has nothing else in it.
LEMMA AddressBitmap ==
    ASSUME BootInv, AddressInv, EveryBitStored
    PROVE  BitmapStaysMapped
<1>1. SUFFICES ASSUME vmm_phase = "done", NEW p \in BitmapPages
               PROVE  \/ V!Translate(cr3, hw.hhdm + p) = p
                      \/ /\ p >= LOW
                         /\ \A q \in V!DirectPages : q \div V!PAGE_SIZES(2) # p \div V!PAGE_SIZES(2)
  BY DEF BitmapStaysMapped
<1>2. PmmInv /\ pmm_phase = "done" /\ VP!MachineOK /\ VP!SpaceInv
  BY <1>1, AtTheEnd DEF BootInv
<1>3. p \in Nat
  <2>1. PICK h : HostedBy(h)
    BY <1>2 DEF PmmInv, Hosted
  <2>2. p \in Map[h].base .. (EndOf(h) - 1)
    BY <1>2, <2>1, BitmapInHost
  <2>3. Map[h].base \in Nat /\ EndOf(h) \in Nat
    BY <1>2, <2>1, MapFacts DEF HostedBy, IsUsable, PmmInv
  <2> QED
    BY <2>2, <2>3
<1>4. E \in Nat /\ E > 1 /\ LOW \in Nat
  BY BootAssumption
<1>5. V!PAGE_SIZES(2) = VP!Span(2)
  BY <1>4, VP!Spans, SameTranslate, 2 \in 0 .. 4 DEF SameRead
<1>6. \A q \in VP!DirectPages : q \div VP!Span(2) = p \div VP!Span(2) =>
         VP!Translate(cr3, machine.hhdm + p) = p
  BY <1>1, <1>2, <1>3, VP!GibMapped DEF VP!Block
<1>7. p \in 0 .. (LOW - 1) => p \in VP!DirectPages
  BY VP!DirectIs
<1> QED
  BY <1>3, <1>4, <1>5, <1>6, <1>7, SameTranslate, MachineHas DEF SameRead

\* Every table is found from the root by one entry.
LEMMA AddressTables ==
    ASSUME BootInv, AddressInv, EveryBitStored
    PROVE  TablesFormTree
<1>1. VP!TablesFormTree
  <2>1. CASE pmm_phase = "done"
    BY <2>1, MachineIs, VP!SpaceTablesTree DEF AddressInv
  <2>2. CASE pmm_phase # "done"
    <3>1. VP!Init /\ DOMAIN tables = {} /\ Len(calls) = 0
      BY <2>2 DEF AddressInv, VP!Init
    <3>2. at \in 1 .. Len(machine.memmap)
      BY DEF AddressInv, VP!SpaceInv, VP!Types
    <3> QED
      BY <3>1, <3>2 DEF VP!TablesFormTree, VP!TypeOK, VP!Init
  <2> QED
    BY <2>1, <2>2
<1>2. V!TypeOK <=> VP!TypeOK
  BY DEF V!TypeOK, VP!TypeOK, V!NoPage, VP!NoPage
<1>3. \A ts : V!Down(ts) = VP!Down(ts)
  BY DEF V!Down, VP!Down, V!is_table, VP!is_table
<1>4. V!TablesAt = VP!TablesAt
  BY <1>3 DEF V!TablesAt, VP!TablesAt
<1>5. \A S : V!Cardinality(S) = VP!Cardinality(S)
  BY DEF V!Cardinality, VP!Cardinality
<1> QED
  BY <1>1, <1>2, <1>3, <1>4, <1>5 DEF TablesFormTree, V!TablesFormTree, VP!TablesFormTree

\* No step unmaps or moves a page.
LEMMA AddressKept ==
    ASSUME BootInv, AddressInv, [Next]_vars, EveryBitStored
    PROVE  [UNCHANGED tables \/
            \A v \in V!VirtualPages :
              V!Translate(root, v) # V!NoPage => V!Translate(root, v)' = V!Translate(root, v)]_V!vars
<1>1. CASE VmmInitStep
  <2>1. VP!Next /\ pmm_phase = "done"
    BY <1>1, SameVmm DEF VmmInitStep, BootInv, TakenInv
  <2>2. \/ UNCHANGED tables
        \/ \A v \in VP!VirtualPages : VP!Translate(root, v) # VP!NoPage =>
              VP!Translate(root, v)' = VP!Translate(root, v)
    BY <2>1, MachineIs, VP!SpaceMappingsKept DEF AddressInv
  <2>3. \A v : V!Translate(root, v) = VP!Translate(root, v)
    BY SameTranslate DEF SameRead
  <2>4. (\A v : V!Translate(root, v) = VP!Translate(root, v))'
    <3>1. SameRead'
      BY SameTranslate, PTL
    <3> QED
      BY <3>1 DEF SameRead
  <2> QED
    BY <2>2, <2>3, <2>4, SameTranslate DEF SameRead
<1>2. CASE PmmInitStep \/ InitAllocator \/ InitAllocatorSpins
  BY <1>2 DEF PmmInitStep, InitAllocator, InitAllocatorSpins, vmm_vars
<1>3. CASE UNCHANGED vars \/ Ended
  BY <1>3 DEF Ended, vars, vmm_vars
<1> QED
  BY <1>1, <1>2, <1>3 DEF Next

-----------------------------------------------------------------------------
(* Theorems.  They need the bitmap to have a byte for every bit, which     *)
(* pmm_init does not see to (pmm.rs divides by 8 and rounds down first):   *)
(* MCPmmInitTail shows what happens otherwise.                             *)

\* pmm_init hands over a bitmap in which exactly the usable pages outside the
\* bitmap are free, for every memory map, whichever entry hosts the bitmap.
THEOREM BitmapIsTrue ==
    ASSUME EveryBitStored
    PROVE  Spec => []BitmapDescribesMemory
<1>1. BootInv /\ [Next]_vars => BootInv'
  BY NextInv
<1>2. BootInv => BitmapDescribesMemory
  BY PmmInvGivesBitmap DEF BootInv
<1> QED
  BY <1>1, <1>2, InitInv, PTL DEF Spec

\* From pmm_init to the end of vmm_init, the bitmap, the heap of init_allocator
\* and the page tables of vmm_map lie in usable memory and share no page.
THEOREM BootPagesAreDisjoint ==
    ASSUME EveryBitStored
    PROVE  Spec => []BootPagesDisjoint
<1>1. BootInv /\ [Next]_vars => BootInv'
  BY NextInv
<1>2. BootInv => BootPagesDisjoint
  BY BootInvGivesDisjoint
<1> QED
  BY <1>1, <1>2, InitInv, PTL DEF Spec

\* The two invariants hold throughout.
LEMMA SpaceHolds ==
    ASSUME EveryBitStored
    PROVE  Spec => [](BootInv /\ AddressInv)
<1>1. Init => BootInv /\ AddressInv
  BY InitInv, AddressInit DEF BootInv
<1>2. BootInv /\ AddressInv /\ [Next]_vars => BootInv' /\ AddressInv'
  BY NextInv, AddressNext
<1> QED
  BY <1>1, <1>2, PTL DEF Spec

\* get_next_level never meets a large page to split: no vmm_map call of vmm_init
\* for a page of the kernel goes through a gigabyte of the direct map, and none for
\* a gigabyte, or for the 2 MiB pages that stand for one, finds a page above it.
THEOREM NothingIsSplit ==
    ASSUME EveryBitStored
    PROVE  Spec => []NeverSplits
<1>1. BootInv /\ AddressInv => NeverSplits
  BY AddressNeverSplits
<1> QED
  BY <1>1, SpaceHolds, PTL

\* Whatever vmm_map has entered, at any point of vmm_init, leads to the page that
\* the direct map or the kernel's link address gives the address.
THEOREM NoForeignPage ==
    ASSUME EveryBitStored
    PROVE  Spec => []NoForeignMapping
<1>1. BootInv /\ AddressInv => NoForeignMapping
  BY AddressNoForeign
<1> QED
  BY <1>1, SpaceHolds, PTL

\* get_next_level never shares, loses or loops page tables: each but the root
\* hangs from exactly one entry, at every point of vmm_init.
THEOREM TablesAreATree ==
    ASSUME EveryBitStored
    PROVE  Spec => []TablesFormTree
<1>1. BootInv /\ AddressInv => TablesFormTree
  BY AddressTables
<1> QED
  BY <1>1, SpaceHolds, PTL

\* After va_space_switch, to_higher_half is right for every page of memory: the
\* three loops of vmm_init leave no page of the first 4 GiB and of the memory map
\* out, with and without 1 GiB pages.
THEOREM DirectMapIsExact ==
    ASSUME EveryBitStored
    PROVE  Spec => []DirectMapExact
<1>1. BootInv /\ AddressInv => DirectMapExact
  BY AddressDirectMap
<1> QED
  BY <1>1, SpaceHolds, PTL

\* After va_space_switch the kernel's code and data are where it is linked, to
\* the end of the memory map entry that holds it.
THEOREM KernelIsMapped ==
    ASSUME EveryBitStored
    PROVE  Spec => []KernelStaysMapped
<1>1. BootInv /\ AddressInv => KernelStaysMapped
  BY AddressKernel
<1> QED
  BY <1>1, SpaceHolds, PTL

\* After va_space_switch the allocator's bitmap is still mapped, unless it lies
\* above 4 GiB in a gigabyte where pmm_init has left no other memory.
THEOREM BitmapIsMapped ==
    ASSUME EveryBitStored
    PROVE  Spec => []BitmapStaysMapped
<1>1. BootInv /\ AddressInv => BitmapStaysMapped
  BY AddressBitmap
<1> QED
  BY <1>1, SpaceHolds, PTL

\* No step of the boot takes away or moves a page that vmm_map has mapped: where
\* two entries of the memory map share a gigabyte it is mapped again in place.
THEOREM MappingsAreKept ==
    ASSUME EveryBitStored
    PROVE  Spec => MappingsKept
<1>1. BootInv /\ AddressInv /\ [Next]_vars =>
        [UNCHANGED tables \/
         \A v \in V!VirtualPages :
           V!Translate(root, v) # V!NoPage => V!Translate(root, v)' = V!Translate(root, v)]_V!vars
  BY AddressKept
<1> QED
  BY <1>1, SpaceHolds, PTL DEF Spec, MappingsKept, V!MappingsKept

=============================================================================
