----------------------------- MODULE HeapProof -----------------------------
(***************************************************************************)
(* Proofs about LinkedListAllocator: for every heap and every set of       *)
(* layouts the list stays ordered, every word of the heap has one owner    *)
(* and free neighbours are merged; and for layouts no stricter than a node *)
(* the list implements HeapAllocator.                                      *)
(***************************************************************************)
EXTENDS LinkedListAllocator, TLAPS

BlockEnd(b) == b.addr + SizeOf(b.layout)

-----------------------------------------------------------------------------
(* The inductive invariant.                                                 *)

\* A node has room for its header and lies in the heap.
NodesInHeap ==
    /\ size[Head] = 0
    /\ \A a \in listed :
        size[a] >= NodeSize /\ size[a] % NodeAlign = 0 /\ EndAddr(a) <= HeapEnd

\* So does a block.
BlocksInHeap == \A b \in live : BlockEnd(b) <= HeapEnd

\* What the locals of each loop hold.
Locals ==
    /\ pc = "boot" => listed = {} /\ live = {} /\ op = "init"
    /\ pc \in {"boot", "idle", "coalesce"} => want = {}
    /\ pc = "find" => op = "alloc" /\ \E l \in Layouts : want = {l}
    /\ pc = "insert" =>
        /\ ptr \in Words /\ cur < ptr
        /\ len >= NodeSize /\ len % NodeAlign = 0 /\ ptr + len <= HeapEnd
        /\ IF op = "alloc" THEN ret \in Words /\ \E l \in Layouts : want = {l}
           ELSE want = {}

\* No two regions overlap, whoever owns them.
FreeApart == \A a, b \in listed : a < b => EndAddr(a) <= b

LiveApart ==
    /\ \A b, c \in live : b = c \/ BlockEnd(b) <= c.addr \/ BlockEnd(c) <= b.addr
    /\ \A b \in live, a \in listed : BlockEnd(b) <= a \/ EndAddr(a) <= b.addr

FlightApart ==
    pc = "insert" =>
        /\ \A a \in listed : ptr + len <= a \/ EndAddr(a) <= ptr
        /\ \A b \in live : ptr + len <= b.addr \/ BlockEnd(b) <= ptr
        /\ \A l \in want :
            /\ ptr + len <= ret \/ ret + SizeOf(l) <= ptr
            /\ ret + SizeOf(l) <= HeapEnd
            /\ \A a \in listed : ret + SizeOf(l) <= a \/ EndAddr(a) <= ret
            /\ \A b \in live : ret + SizeOf(l) <= b.addr \/ BlockEnd(b) <= ret

\* A word belongs to a node, to a block, or to the call under way.
InNode(w)  == \E a \in listed : a <= w /\ w < EndAddr(a)
InBlock(w) == \E b \in live : b.addr <= w /\ w < BlockEnd(b)
InCall(w)  ==
    /\ pc = "insert"
    /\ \/ ptr <= w /\ w < ptr + len
       \/ \E l \in want : ret <= w /\ w < ret + SizeOf(l)

NothingLost ==
    pc \notin {"boot", "panic"} => \A w \in Words : InNode(w) \/ InBlock(w) \/ InCall(w)

\* Coalesced, in the middle of a call: only inner_dealloc makes regions touch,
\* and coalesce_memory leaves none behind it.
NoneTouch(S) == \A a \in S : EndAddr(a) \notin listed

Merged ==
    /\ pc \in {"idle", "find"} => NoneTouch(listed)
    /\ pc = "insert" /\ op # "dealloc" =>
        /\ NoneTouch(listed)
        /\ ptr + len \notin listed
        /\ \A a \in listed : EndAddr(a) # ptr
    /\ pc = "coalesce" => NoneTouch({a \in listed : a < cur})

\* find_region has passed over what does not suit, and nothing else.
SearchedInVain ==
    pc = "find" => \A l \in want, a \in listed : a <= cur => ~Suitable(a, l)

HeapInv ==
    /\ ListOrdered
    /\ NodesInHeap /\ BlocksInHeap
    /\ Locals
    /\ FreeApart /\ LiveApart /\ FlightApart
    /\ NothingLost
    /\ Merged
    /\ SearchedInVain

-----------------------------------------------------------------------------
(* Addresses and sizes.                                                     *)
USE DEF Head, None, NodeSize, NodeAlign

\* The heap as numbers: it begins and ends on a word.
LEMMA HeapFacts ==
    /\ HeapBase \in Nat /\ HeapBase > 0 /\ HeapEnd \in Nat
    /\ HeapBase % 8 = 0 /\ HeapEnd % 8 = 0
    /\ HeapEnd = HeapBase + HeapSize
    /\ HeapSize \in Nat /\ HeapSize >= 16 /\ HeapSize % 8 = 0
BY HeapAssumption DEF HeapEnd

(* A word is a multiple of eight inside the heap, and neither the head nor  *)
(* the end of the list.                                                     *)
LEMMA WordFacts ==
    ASSUME NEW w \in Words
    PROVE  w \in Nat /\ w > 0 /\ w # -1 /\ w % 8 = 0 /\ HeapBase <= w /\ w < HeapEnd
BY HeapFacts DEF Words

\* An aligned address in the heap is a word.
LEMMA WordIntro ==
    ASSUME NEW w \in Int, HeapBase <= w, w < HeapEnd, w % 8 = 0
    PROVE  w \in Words
BY HeapFacts DEF Words

\* Sums and differences of multiples of eight.
LEMMA Multiples ==
    ASSUME NEW a \in Int, NEW b \in Int, a % 8 = 0, b % 8 = 0
    PROVE  (a + b) % 8 = 0 /\ (a - b) % 8 = 0
OBVIOUS

(* align_up for the two alignments there are.                               *)
LEMMA AlignUpFacts ==
    ASSUME NEW v \in Nat, NEW align \in {8, 16}
    PROVE  /\ AlignUp(v, align) \in Nat
           /\ AlignUp(v, align) >= v
           /\ AlignUp(v, align) % 8 = 0
           /\ align = 8 /\ v % 8 = 0 => AlignUp(v, align) = v
<1>1. CASE align = 8
  BY <1>1 DEF AlignUp
<1>2. CASE align = 16
  BY <1>2 DEF AlignUp
<1> QED
  BY <1>1, <1>2

(* size_align never makes a block too small for the node that will one day  *)
(* stand in its place, and keeps its end on a word.                         *)
LEMMA LayoutFacts ==
    ASSUME NEW l \in Layouts
    PROVE  /\ AlignOf(l) \in {8, 16}
           /\ l.align <= 8 => AlignOf(l) = 8
           /\ SizeOf(l) \in Nat /\ SizeOf(l) >= 16 /\ SizeOf(l) % 8 = 0
<1>1. l.size \in Nat /\ l.align \in {1, 2, 4, 8, 16}
  BY LayoutAssumption
<1>2. AlignOf(l) \in {8, 16} /\ (l.align <= 8 => AlignOf(l) = 8)
  BY <1>1 DEF AlignOf
<1>3. AlignUp(l.size, AlignOf(l)) \in Nat /\ AlignUp(l.size, AlignOf(l)) % 8 = 0
  BY <1>1, <1>2, AlignUpFacts
<1> QED
  BY <1>2, <1>3 DEF SizeOf

(* A node that suits holds the block from the node's own address on ...     *)
LEMMA SuitableRoom ==
    ASSUME NEW a \in Words, NEW l \in Layouts, EndAddr(a) \in Int, Suitable(a, l)
    PROVE  a + SizeOf(l) <= EndAddr(a)
<1>1. AlignUp(a, AlignOf(l)) \in Nat /\ AlignUp(a, AlignOf(l)) >= a
  BY WordFacts, LayoutFacts, AlignUpFacts
<1> QED
  BY <1>1, WordFacts, LayoutFacts DEF Suitable

(* ... and for layouts no stricter than a node it suits exactly when what   *)
(* is left is nothing or a node.                                            *)
LEMMA SuitableExact ==
    ASSUME NEW a \in Words, NEW l \in Layouts, l.align <= NodeAlign, EndAddr(a) \in Int
    PROVE  Suitable(a, l) <=> \/ EndAddr(a) = a + SizeOf(l)
                              \/ EndAddr(a) >= a + SizeOf(l) + NodeSize
<1>1. AlignUp(a, AlignOf(l)) = a
  BY WordFacts, LayoutFacts, AlignUpFacts
<1> QED
  BY <1>1, WordFacts, LayoutFacts DEF Suitable

-----------------------------------------------------------------------------
(* What the invariant says of a single node and a single block.             *)
LEMMA NodeFacts ==
    ASSUME HeapInv, NEW a \in listed
    PROVE  /\ a \in Words /\ size[a] \in Nat /\ EndAddr(a) = a + size[a]
           /\ size[a] >= 16 /\ size[a] % 8 = 0 /\ size[a] <= HeapSize
           /\ EndAddr(a) \in Nat /\ EndAddr(a) % 8 = 0 /\ EndAddr(a) <= HeapEnd
<1>1. a \in Words /\ size[a] \in 0 .. HeapSize
  BY DEF HeapInv, ListOrdered, TypeOK
<1>2. size[a] >= 16 /\ size[a] % 8 = 0 /\ EndAddr(a) <= HeapEnd
  BY DEF HeapInv, NodesInHeap
<1>3. a \in Nat /\ a % 8 = 0
  BY <1>1, WordFacts
<1>4. (a + size[a]) % 8 = 0
  <2> HIDE DEF TypeOK
  <2>1. size[a] \in Int /\ a \in Int
    BY <1>1, <1>3, HeapFacts
  <2> QED
    BY ONLY <1>2, <1>3, <2>1
<1> QED
  BY <1>1, <1>2, <1>3, <1>4, HeapFacts DEF EndAddr

\* An allocated block is whole words of the heap.
LEMMA BlockFacts ==
    ASSUME HeapInv, NEW b \in live
    PROVE  /\ b.addr \in Words /\ b.layout \in Layouts
           /\ b = [addr |-> b.addr, layout |-> b.layout]
           /\ BlockEnd(b) \in Nat /\ BlockEnd(b) >= b.addr + 16 /\ BlockEnd(b) % 8 = 0
           /\ BlockEnd(b) <= HeapEnd
<1>1. b.addr \in Words /\ b.layout \in Layouts /\ b = [addr |-> b.addr, layout |-> b.layout]
  BY DEF HeapInv, ListOrdered, TypeOK
<1>2. BlockEnd(b) <= HeapEnd
  BY DEF HeapInv, BlocksInHeap
<1> QED
  BY <1>1, <1>2, WordFacts, LayoutFacts, Multiples DEF BlockEnd

-----------------------------------------------------------------------------
(* The list.                                                                *)

\* The second half of ListOrdered.
Ordered ==
    \A a \in listed \union {Head} :
        /\ next[a] = None => \A b \in listed : b <= a
        /\ next[a] # None => /\ next[a] \in listed /\ a < next[a]
                             /\ \A b \in listed : b <= a \/ next[a] <= b

\* ListOrdered, apart from the types, is the order of the list.
LEMMA OrderedIsEnough == ListOrdered <=> TypeOK /\ Ordered
BY DEF ListOrdered, Ordered

\* A next pointer is a number: an address or zero.
LEMMA NextInt ==
    ASSUME HeapInv, NEW a \in listed \union {Head}
    PROVE  next[a] \in Int
<1>1. next[a] \in Words \union {None}
  BY DEF HeapInv, ListOrdered, TypeOK
<1> QED
  BY <1>1, WordFacts

(* The node after the one the loop stands on.                               *)
LEMMA NextNode ==
    ASSUME HeapInv, next[cur] # None
    PROVE  /\ next[cur] \in listed /\ cur < next[cur] /\ cur \in Nat
           /\ \A b \in listed : b <= cur \/ next[cur] <= b
           /\ cur \in listed \union {Head}
<1>1. cur \in listed \union {Head} /\ Ordered
  BY OrderedIsEnough DEF HeapInv, TypeOK
<1>2. \A a \in listed : a \in Nat
  BY NodeFacts, WordFacts
<1> QED
  BY <1>1, <1>2 DEF Ordered

(* A step that only moves along the list.                                   *)
LEMMA SameHeap ==
    ASSUME HeapInv, UNCHANGED <<next, size, listed, live>>
    PROVE  Ordered' /\ NodesInHeap' /\ BlocksInHeap' /\ FreeApart' /\ LiveApart'
BY OrderedIsEnough
   DEF HeapInv, Ordered, NodesInHeap, BlocksInHeap, FreeApart, LiveApart, EndAddr, BlockEnd

(* Taking the next node out keeps the order.                                *)
LEMMA Removal ==
    ASSUME HeapInv, next[cur] # None,
           next' = [next EXCEPT ![cur] = next[next[cur]], ![next[cur]] = None],
           listed' = listed \ {next[cur]}
    PROVE  Ordered' /\ next' \in [Words \union {Head} -> Words \union {None}]
<1> DEFINE n == next[cur]
<1>1. /\ n \in listed /\ cur < n /\ cur \in Nat /\ n \in Words
      /\ \A b \in listed : b <= cur \/ n <= b
      /\ cur \in listed \union {Head} /\ listed \subseteq Words
  BY NextNode, NodeFacts DEF HeapInv, ListOrdered, TypeOK
<1>2. next \in [Words \union {Head} -> Words \union {None}]
  BY DEF HeapInv, ListOrdered, TypeOK
<1>3. next[n] \in Words \union {None}
  BY <1>1, <1>2
<1>4. Ordered
  BY OrderedIsEnough DEF HeapInv
<1>5. \A a \in Words \union {Head} :
         next'[a] = IF a = n THEN None ELSE IF a = cur THEN next[n] ELSE next[a]
  BY <1>1, <1>2
<1>6. \A a \in listed : a \in Nat
  BY NodeFacts, WordFacts
<1> HIDE DEF n
<1>7. Ordered'
  <2> SUFFICES ASSUME NEW a \in listed' \union {Head}
               PROVE  /\ next'[a] = None => \A b \in listed' : b <= a
                      /\ next'[a] # None => /\ next'[a] \in listed' /\ a < next'[a]
                                            /\ \A b \in listed' : b <= a \/ next'[a] <= b
    BY DEF Ordered
  <2>0. listed' = listed \ {n}
    BY DEF n
  <2>1. a # n /\ a \in listed \union {Head} /\ a \in Nat /\ a \in Words \union {Head}
    BY <1>1, <1>6, <2>0
  <2>2. CASE a = cur
    <3>1. next'[a] = next[n]
      BY <1>5, <2>1, <2>2
    <3>2. /\ next[n] = None => \A b \in listed : b <= n
          /\ next[n] # None => /\ next[n] \in listed /\ n < next[n]
                               /\ \A b \in listed : b <= n \/ next[n] <= b
      BY <1>1, <1>4 DEF Ordered
    <3>3. next[n] = None => \A b \in listed' : b <= a
      BY <1>1, <1>6, <2>0, <2>1, <2>2, <3>2
    <3>4. next[n] # None => next[n] \in listed' /\ a < next[n]
      BY <1>1, <1>6, <2>0, <2>1, <2>2, <3>2
    <3>5. ASSUME next[n] # None, NEW b \in listed' PROVE b <= a \/ next[n] <= b
      BY <1>1, <1>6, <2>0, <2>1, <2>2, <3>2, <3>5
    <3> QED
      BY <3>1, <3>3, <3>4, <3>5
  <2>3. CASE a # cur
    <3>1. next'[a] = next[a]
      BY <1>5, <2>1, <2>3
    <3>2. next[a] # n
      <4>1. next[cur] = n
        BY DEF n
      <4> QED
        BY <1>1, <1>4, <1>6, <2>1, <2>3, <4>1 DEF Ordered
    <3> QED
      BY <1>4, <2>0, <2>1, <3>1, <3>2 DEF Ordered
  <2> QED
    BY <2>2, <2>3
<1> QED
  BY <1>2, <1>3, <1>7 DEF n

(* Linking a region in after the last node below it keeps the order.        *)
LEMMA Insertion ==
    ASSUME HeapInv, Link
    PROVE  /\ Ordered' /\ next' \in [Words \union {Head} -> Words \union {None}]
           /\ ptr \notin listed
<1>1. /\ ptr \in Words /\ ptr \in Nat /\ cur < ptr
      /\ cur \in listed \union {Head} /\ cur \in Nat
      /\ listed \subseteq Words /\ \A a \in listed : a \in Nat
  BY WordFacts DEF Link, HeapInv, Locals, ListOrdered, TypeOK
<1>2. ptr \notin listed
  <2> SUFFICES ASSUME ptr \in listed PROVE FALSE
    OBVIOUS
  <2>1. EndAddr(ptr) > ptr /\ EndAddr(ptr) \in Nat
    BY NodeFacts, WordFacts
  <2>2. ptr + len <= ptr \/ EndAddr(ptr) <= ptr
    BY DEF HeapInv, FlightApart, Link
  <2>3. len \in Nat /\ len >= 16
    BY HeapFacts DEF HeapInv, Locals, Link, ListOrdered, TypeOK
  <2> QED
    BY <1>1, <2>1, <2>2, <2>3
<1>3. Ordered
  BY OrderedIsEnough DEF HeapInv
<1>4. /\ listed' = listed \union {ptr}
      /\ next[cur] = None \/ next[cur] > ptr
  BY DEF Link
<1>5. \A a \in listed \union {Head} : next[a] \in Int
  BY NextInt
<1>6. /\ next' \in [Words \union {Head} -> Words \union {None}]
      /\ \A a \in Words \union {Head} :
           next'[a] = IF a = cur THEN ptr ELSE IF a = ptr THEN next[cur] ELSE next[a]
  <2>1. next \in [Words \union {Head} -> Words \union {None}]
    BY DEF HeapInv, ListOrdered, TypeOK
  <2>2. next' = [next EXCEPT ![ptr] = next[cur], ![cur] = ptr]
    BY DEF Link
  <2> QED
    BY <1>1, <2>1, <2>2
<1>7. Ordered'
  <2> SUFFICES ASSUME NEW a \in listed' \union {Head}
               PROVE  /\ next'[a] = None => \A b \in listed' : b <= a
                      /\ next'[a] # None => /\ next'[a] \in listed' /\ a < next'[a]
                                            /\ \A b \in listed' : b <= a \/ next'[a] <= b
    BY DEF Ordered
  <2>1. /\ next[cur] = None => \A b \in listed : b <= cur
        /\ next[cur] # None => /\ next[cur] \in listed /\ cur < next[cur]
                               /\ \A b \in listed : b <= cur \/ next[cur] <= b
    BY <1>1, <1>3 DEF Ordered
  <2>2. CASE a = cur
    <3>1. next'[a] = ptr
      BY <1>1, <1>6, <2>2
    <3>2. ASSUME NEW b \in listed PROVE b <= cur \/ ptr <= b
      <4> next[cur] \in Int
        BY <1>1, <1>5
      <4> QED
        BY <1>1, <1>4, <2>1
    <3> QED
      BY <1>1, <1>4, <2>2, <3>1, <3>2
  <2>3. CASE a = ptr
    <3>1. next'[a] = next[cur]
      BY <1>1, <1>6, <2>3
    <3> QED
      BY <1>1, <1>4, <2>1, <2>3, <3>1
  <2>4. CASE a # cur /\ a # ptr
    <3>1. next'[a] = next[a] /\ a \in listed \union {Head} /\ a \in Nat
      BY <1>1, <1>4, <1>6, <2>4
    <3>2. /\ next[a] = None => \A b \in listed : b <= a
          /\ next[a] # None => /\ next[a] \in listed /\ a < next[a]
                               /\ \A b \in listed : b <= a \/ next[a] <= b
      BY <1>3, <3>1 DEF Ordered
    <3>3. CASE a < cur
      <4>1. cur \in listed
        BY <1>1, <3>1, <3>3
      <4>2. next[a] # None /\ next[a] \in listed /\ next[a] <= cur /\ next[a] \in Nat
        <5> next[a] \in Int
          BY <1>5, <3>1
        <5> QED
          BY <1>1, <3>1, <3>2, <3>3, <4>1
      <4>3. next[a] <= ptr
        BY <1>1, <4>2
      <4> QED
        BY <1>4, <3>1, <3>2, <4>2, <4>3
    <3>4. CASE cur < a
      <4>1. a \in listed
        BY <1>1, <3>1, <3>4
      <4>2. next[cur] # None /\ next[cur] <= a /\ next[cur] \in Nat
        <5> next[cur] \in Int
          BY <1>1, <1>5
        <5> QED
          BY <1>1, <2>1, <3>1, <3>4, <4>1
      <4>3. ptr <= a
        BY <1>1, <1>4, <3>1, <4>2
      <4> QED
        BY <1>4, <3>1, <3>2, <4>3
    <3> QED
      BY <1>1, <2>4, <3>1, <3>3, <3>4
  <2> QED
    BY <2>2, <2>3, <2>4
<1> QED
  BY <1>2, <1>6, <1>7

-----------------------------------------------------------------------------
(* The steps that leave list and blocks alone.                              *)

\* Before init there is no list.
LEMMA InitInv == Init => HeapInv
<1> SUFFICES ASSUME Init PROVE HeapInv
  OBVIOUS
<1>1. TypeOK
  BY HeapFacts, WordFacts DEF Init, TypeOK
<1>2. ListOrdered
  BY <1>1 DEF Init, ListOrdered
<1>3. NodesInHeap /\ BlocksInHeap /\ FreeApart /\ LiveApart
  BY DEF Init, NodesInHeap, BlocksInHeap, FreeApart, LiveApart
<1>4. Locals /\ FlightApart /\ NothingLost /\ Merged /\ SearchedInVain
  BY DEF Init, Locals, FlightApart, NothingLost, Merged, SearchedInVain
<1> QED
  BY <1>2, <1>3, <1>4 DEF HeapInv

\* init: the whole heap is about to become one node.
LEMMA InitRegionInv ==
    ASSUME HeapInv, InitRegion
    PROVE  HeapInv' /\ pc' = "insert"
<1>1. /\ pc' = "insert" /\ op' = "init" /\ cur' = 0 /\ ptr' = HeapBase /\ len' = HeapSize
      /\ want' = {} /\ listed' = {} /\ live' = {}
  BY HeapFacts DEF InitRegion, AddFreeRegion, HeapInv, Locals
<1>2. HeapBase \in Words
  BY HeapFacts, WordIntro
<1>3. TypeOK'
  BY <1>1, <1>2, HeapFacts DEF InitRegion, AddFreeRegion, HeapInv, ListOrdered, TypeOK
<1>4. Ordered' /\ NodesInHeap' /\ BlocksInHeap' /\ FreeApart' /\ LiveApart'
  BY SameHeap DEF InitRegion
<1>5. Locals'
  BY <1>1, <1>2, HeapFacts DEF Locals
<1>6. FlightApart' /\ Merged' /\ SearchedInVain'
  BY <1>1 DEF FlightApart, Merged, SearchedInVain, NoneTouch
<1>7. NothingLost'
  BY <1>1, HeapFacts, WordFacts DEF NothingLost, InCall
<1> QED
  BY <1>1, <1>3, <1>4, <1>5, <1>6, <1>7 DEF HeapInv, ListOrdered, Ordered

\* alloc is called.
LEMMA AllocInv ==
    ASSUME HeapInv, NEW l \in Layouts, Alloc(l)
    PROVE  HeapInv'
<1>1. /\ pc = "idle" /\ pc' = "find" /\ op' = "alloc" /\ cur' = 0 /\ want' = {l}
      /\ UNCHANGED <<next, size, listed, live, ret, ptr, len>>
  BY DEF Alloc
<1>2. TypeOK'
  BY <1>1 DEF HeapInv, ListOrdered, TypeOK
<1>3. Ordered' /\ NodesInHeap' /\ BlocksInHeap' /\ FreeApart' /\ LiveApart'
  BY <1>1, SameHeap
<1>4. Locals' /\ FlightApart'
  BY <1>1 DEF Locals, FlightApart
<1>5. NothingLost'
  BY <1>1 DEF HeapInv, NothingLost, InNode, InBlock, InCall, EndAddr
<1>6. Merged'
  BY <1>1 DEF HeapInv, Merged, NoneTouch, EndAddr
<1>7. SearchedInVain'
  <2>1. \A a \in listed : ~(a <= 0)
    BY NodeFacts, WordFacts
  <2> QED
    BY <1>1, <2>1 DEF SearchedInVain
<1> QED
  BY <1>2, <1>3, <1>4, <1>5, <1>6, <1>7 DEF HeapInv, ListOrdered, Ordered

\* find_region passes a node that does not fit.
LEMMA FindSkipInv ==
    ASSUME HeapInv, FindSkip
    PROVE  HeapInv'
<1>1. /\ pc = "find" /\ next[cur] # None /\ cur' = next[cur]
      /\ \A l \in want : ~Suitable(next[cur], l)
      /\ UNCHANGED <<next, size, listed, live, pc, op, want, ret, ptr, len>>
  BY DEF FindSkip
<1>2. TypeOK'
  BY <1>1, NextNode DEF HeapInv, ListOrdered, TypeOK
<1>3. Ordered' /\ NodesInHeap' /\ BlocksInHeap' /\ FreeApart' /\ LiveApart'
  BY <1>1, SameHeap
<1>4. Locals' /\ FlightApart' /\ Merged'
  BY <1>1 DEF HeapInv, Locals, FlightApart, Merged, NoneTouch, EndAddr
<1>5. NothingLost'
  BY <1>1 DEF HeapInv, NothingLost, InNode, InBlock, InCall, EndAddr
<1>6. SearchedInVain'
  <2> SUFFICES ASSUME NEW l \in want, NEW a \in listed, a <= next[cur]
               PROVE  ~Suitable(a, l)
    BY <1>1 DEF SearchedInVain, Suitable, EndAddr
  <2>1. a \in Nat /\ next[cur] \in Nat /\ (a <= cur \/ next[cur] <= a)
    BY <1>1, NextNode, NodeFacts, WordFacts
  <2>2. CASE a <= cur
    BY <1>1, <2>2 DEF HeapInv, SearchedInVain
  <2>3. CASE a = next[cur]
    BY <1>1, <2>3
  <2> QED
    BY <2>1, <2>2, <2>3
<1> QED
  BY <1>2, <1>3, <1>4, <1>5, <1>6 DEF HeapInv, ListOrdered, Ordered

\* add_free_region passes a node below the region.
LEMMA InsertAdvanceInv ==
    ASSUME HeapInv, InsertAdvance
    PROVE  HeapInv'
<1>1. /\ pc = "insert" /\ next[cur] # None /\ next[cur] <= ptr /\ cur' = next[cur]
      /\ UNCHANGED <<next, size, listed, live, pc, op, want, ret, ptr, len>>
  BY DEF InsertAdvance
<1>2. next[cur] \in listed
  BY <1>1, NextNode
<1>3. next[cur] < ptr
  <2> DEFINE n == next[cur]
  <2>1. n \in Nat /\ EndAddr(n) \in Nat /\ EndAddr(n) >= n + 16
    BY <1>2, NodeFacts, WordFacts
  <2>2. ptr \in Nat /\ len \in Nat /\ len >= 16
    BY <1>1, WordFacts, HeapFacts DEF HeapInv, Locals, ListOrdered, TypeOK
  <2>3. ptr + len <= n \/ EndAddr(n) <= ptr
    BY <1>1, <1>2 DEF HeapInv, FlightApart
  <2> QED
    BY <1>1, <2>1, <2>2, <2>3
<1>4. TypeOK'
  BY <1>1, <1>2 DEF HeapInv, ListOrdered, TypeOK
<1>5. Ordered' /\ NodesInHeap' /\ BlocksInHeap' /\ FreeApart' /\ LiveApart'
  BY <1>1, SameHeap
<1>6. Locals'
  BY <1>1, <1>3 DEF HeapInv, Locals
<1>7. FlightApart' /\ Merged' /\ SearchedInVain'
  BY <1>1 DEF HeapInv, FlightApart, Merged, NoneTouch, SearchedInVain, EndAddr, BlockEnd
<1>8. NothingLost'
  BY <1>1 DEF HeapInv, NothingLost, InNode, InBlock, InCall, EndAddr
<1> QED
  BY <1>4, <1>5, <1>6, <1>7, <1>8 DEF HeapInv, ListOrdered, Ordered

\* coalesce_memory passes a node that does not touch the next one.
LEMMA CoalesceAdvanceInv ==
    ASSUME HeapInv, CoalesceAdvance
    PROVE  HeapInv'
<1>1. /\ pc = "coalesce" /\ next[cur] # None /\ EndAddr(cur) # next[cur] /\ cur' = next[cur]
      /\ UNCHANGED <<next, size, listed, live, pc, op, want, ret, ptr, len>>
  BY DEF CoalesceAdvance
<1>2. /\ next[cur] \in listed /\ cur < next[cur] /\ cur \in Nat
      /\ \A b \in listed : b <= cur \/ next[cur] <= b
      /\ cur \in listed \union {0}
  BY <1>1, NextNode
<1>3. TypeOK'
  BY <1>1, <1>2 DEF HeapInv, ListOrdered, TypeOK
<1>4. Ordered' /\ NodesInHeap' /\ BlocksInHeap' /\ FreeApart' /\ LiveApart'
  BY <1>1, SameHeap
<1>5. Locals' /\ FlightApart' /\ SearchedInVain'
  BY <1>1 DEF HeapInv, Locals, FlightApart, SearchedInVain
<1>6. NothingLost'
  BY <1>1 DEF HeapInv, NothingLost, InNode, InBlock, InCall, EndAddr
<1>7. ASSUME NEW a \in listed, a < next[cur]
      PROVE  EndAddr(a) \notin listed
  <2> DEFINE n == next[cur]
  <2>1. a \in Nat /\ a > 0 /\ n \in Nat /\ EndAddr(a) \in Nat /\ EndAddr(a) >= a + 16
    <3>1. a \in Nat /\ a > 0 /\ EndAddr(a) \in Nat /\ EndAddr(a) >= a + 16
      BY NodeFacts, WordFacts
    <3>2. n \in Nat
      BY <1>2, NodeFacts, WordFacts
    <3> QED
      BY <3>1, <3>2
  <2>2. a <= cur /\ cur \in listed
    BY <1>2, <1>7, <2>1
  <2>3. CASE a < cur
    BY <1>1, <2>2, <2>3 DEF HeapInv, Merged, NoneTouch
  <2>4. CASE a = cur
    <3>1. EndAddr(a) <= n
      BY <1>2, <1>7 DEF HeapInv, FreeApart
    <3>2. EndAddr(a) # n
      BY <1>1, <2>4
    <3>3. \A b \in listed : b <= a \/ n <= b
      BY <1>2, <2>4
    <3> HIDE DEF n
    <3> QED
      BY <2>1, <3>1, <3>2, <3>3
  <2> QED
    BY <1>2, <2>1, <2>2, <2>3, <2>4
<1>8. Merged'
  BY <1>1, <1>7 DEF Merged, NoneTouch, EndAddr
<1> QED
  BY <1>3, <1>4, <1>5, <1>6, <1>8 DEF HeapInv, ListOrdered, Ordered

(* Return from a call that found nothing, or has nothing more to merge.     *)
LEMMA ReturnInv ==
    ASSUME HeapInv, FindFails \/ CoalesceDone
    PROVE  HeapInv'
<1>1. /\ pc \in {"find", "coalesce"} /\ next[cur] = None
      /\ pc' = "idle" /\ cur' = 0 /\ want' = {} /\ ret' = 0 /\ ptr' = 0 /\ len' = 0
      /\ UNCHANGED <<next, size, listed, live, op>>
  BY DEF FindFails, CoalesceDone, Return
<1>2. TypeOK'
  BY <1>1, HeapFacts DEF HeapInv, ListOrdered, TypeOK
<1>3. Ordered' /\ NodesInHeap' /\ BlocksInHeap' /\ FreeApart' /\ LiveApart'
  BY <1>1, SameHeap
<1>4. Locals' /\ FlightApart' /\ SearchedInVain'
  BY <1>1 DEF HeapInv, Locals, FlightApart, SearchedInVain
<1>5. NothingLost'
  BY <1>1 DEF HeapInv, NothingLost, InNode, InBlock, InCall, EndAddr
<1>6. NoneTouch(listed)
  <2>1. CASE pc = "find"
    BY <2>1 DEF HeapInv, Merged
  <2>2. CASE pc = "coalesce"
    <3> SUFFICES ASSUME NEW a \in listed PROVE EndAddr(a) \notin listed
      BY DEF NoneTouch
    <3>1. cur \in listed \union {0} /\ \A b \in listed : b <= cur
      BY <1>1, OrderedIsEnough DEF HeapInv, Ordered, TypeOK
    <3>2. a \in Nat /\ a > 0 /\ EndAddr(a) \in Nat /\ EndAddr(a) >= a + 16
      BY NodeFacts, WordFacts
    <3>3. a <= cur /\ cur \in Nat
      BY <3>1, NodeFacts, WordFacts
    <3>4. CASE a < cur
      BY <2>2, <3>4 DEF HeapInv, Merged, NoneTouch
    <3>5. CASE a = cur
      BY <3>1, <3>2, <3>5
    <3> QED
      BY <3>2, <3>3, <3>4, <3>5
  <2> QED
    BY <1>1, <2>1, <2>2
<1>7. Merged'
  BY <1>1, <1>6 DEF Merged, NoneTouch, EndAddr
<1> QED
  BY <1>2, <1>3, <1>4, <1>5, <1>7 DEF HeapInv, ListOrdered, Ordered

-----------------------------------------------------------------------------
(* dealloc: a block becomes the region in flight.                           *)
LEMMA DeallocInv ==
    ASSUME HeapInv, NEW b \in live, Dealloc(b)
    PROVE  HeapInv' /\ pc' = "insert"
<1>1. /\ b.addr \in Words /\ b.layout \in Layouts
      /\ b.addr \in Nat /\ b.addr > 0 /\ b.addr % 8 = 0 /\ b.addr >= HeapBase
      /\ SizeOf(b.layout) \in Nat /\ SizeOf(b.layout) >= 16 /\ SizeOf(b.layout) % 8 = 0
      /\ BlockEnd(b) = b.addr + SizeOf(b.layout) /\ BlockEnd(b) <= HeapEnd
  BY BlockFacts, WordFacts, LayoutFacts DEF BlockEnd
<1>2. /\ pc = "idle" /\ pc' = "insert" /\ op' = "dealloc" /\ cur' = 0
      /\ ptr' = b.addr /\ len' = SizeOf(b.layout) /\ live' = live \ {b}
      /\ UNCHANGED <<next, size, listed, want, ret>>
  BY <1>1 DEF Dealloc, AddFreeRegion
<1>3. want = {}
  BY <1>2 DEF HeapInv, Locals
<1>4. TypeOK'
  <2>1. SizeOf(b.layout) \in 0 .. HeapSize
    BY <1>1, HeapFacts
  <2> QED
    BY <1>1, <1>2, <2>1 DEF HeapInv, ListOrdered, TypeOK
<1>5. Ordered' /\ NodesInHeap' /\ FreeApart'
  BY <1>2, OrderedIsEnough DEF HeapInv, Ordered, NodesInHeap, FreeApart, EndAddr
<1>6. BlocksInHeap' /\ LiveApart'
  BY <1>2 DEF HeapInv, BlocksInHeap, LiveApart, EndAddr, BlockEnd
<1>7. Locals'
  BY <1>1, <1>2, <1>3 DEF Locals
<1>8. FlightApart'
  <2>1. \A a \in listed : BlockEnd(b) <= a \/ EndAddr(a) <= b.addr
    BY DEF HeapInv, LiveApart
  <2>2. \A c \in live' : BlockEnd(b) <= c.addr \/ BlockEnd(c) <= b.addr
    BY <1>2 DEF HeapInv, LiveApart
  <2> QED
    BY <1>1, <1>2, <1>3, <2>1, <2>2 DEF FlightApart, EndAddr, BlockEnd
<1>9. NothingLost'
  <2> SUFFICES ASSUME NEW w \in Words PROVE InNode(w)' \/ InBlock(w)' \/ InCall(w)'
    BY DEF NothingLost
  <2>1. InNode(w) \/ InBlock(w)
    BY <1>2 DEF HeapInv, NothingLost, InCall
  <2>2. CASE InNode(w)
    BY <1>2, <2>2 DEF InNode, EndAddr
  <2>3. CASE InBlock(w)
    <3>1. PICK c \in live : c.addr <= w /\ w < BlockEnd(c)
      BY <2>3 DEF InBlock
    <3>2. CASE c = b
      BY <1>1, <1>2, <3>1, <3>2 DEF InCall
    <3>3. CASE c # b
      BY <1>2, <3>1, <3>3 DEF InBlock
    <3> QED
      BY <3>2, <3>3
  <2> QED
    BY <2>1, <2>2, <2>3
<1>10. Merged' /\ SearchedInVain'
  BY <1>2 DEF Merged, SearchedInVain
<1> QED
  BY <1>2, <1>4, <1>5, <1>6, <1>7, <1>8, <1>9, <1>10 DEF HeapInv, ListOrdered, Ordered

-----------------------------------------------------------------------------
(* find_region takes a node out of the list.                                *)
LEMMA UnlinkHeap ==
    ASSUME HeapInv, next[cur] # None, Unlink(next[cur])
    PROVE  /\ Ordered' /\ NodesInHeap' /\ FreeApart'
           /\ next' \in [Words \union {Head} -> Words \union {None}]
           /\ size' \in [Words \union {Head} -> 0 .. HeapSize]
           /\ listed' = listed \ {next[cur]}
           /\ \A a \in listed' : size'[a] = size[a]
<1> DEFINE n == next[cur]
<1>1. n \in listed /\ n \in Words /\ n # 0
  BY NextNode, NodeFacts, WordFacts
<1>2. Ordered' /\ next' \in [Words \union {Head} -> Words \union {None}]
  BY Removal DEF Unlink
<1>3. /\ size \in [Words \union {Head} -> 0 .. HeapSize]
      /\ listed \subseteq Words
  BY DEF HeapInv, ListOrdered, TypeOK
<1>4. size' = [size EXCEPT ![n] = 0] /\ listed' = listed \ {n}
  BY DEF Unlink
<1> HIDE DEF n
<1>5. /\ size' \in [Words \union {Head} -> 0 .. HeapSize]
      /\ \A a \in listed' : a \in listed /\ size'[a] = size[a]
      /\ size'[0] = size[0]
  BY <1>1, <1>3, <1>4, HeapFacts
<1>6. NodesInHeap'
  BY <1>5 DEF HeapInv, NodesInHeap, EndAddr
<1>7. FreeApart'
  BY <1>5 DEF HeapInv, FreeApart, EndAddr
<1> QED
  BY <1>2, <1>4, <1>5, <1>6, <1>7 DEF n

(* The node it takes: the block is the front of it.                         *)
LEMMA FoundNode ==
    ASSUME HeapInv, pc = "find", next[cur] # None, NEW l \in Layouts, Suitable(next[cur], l)
    PROVE  LET n == next[cur] IN
           /\ n \in listed /\ n \in Words /\ n \in Nat /\ n > 0 /\ n % 8 = 0 /\ n >= HeapBase
           /\ EndAddr(n) \in Nat /\ EndAddr(n) % 8 = 0 /\ EndAddr(n) <= HeapEnd
           /\ SizeOf(l) \in Nat /\ SizeOf(l) >= 16 /\ SizeOf(l) % 8 = 0
           /\ n + SizeOf(l) <= EndAddr(n)
           /\ \A a \in listed : a = n \/ EndAddr(a) <= n \/ EndAddr(n) <= a
           /\ \A b \in live : BlockEnd(b) <= n \/ EndAddr(n) <= b.addr
           /\ EndAddr(n) \notin listed
<1> DEFINE n == next[cur]
<1>1. n \in listed
  BY NextNode
<1> HIDE DEF n
<1>2. /\ n \in Words /\ n \in Nat /\ n > 0 /\ n % 8 = 0 /\ n >= HeapBase
      /\ EndAddr(n) \in Nat /\ EndAddr(n) % 8 = 0 /\ EndAddr(n) <= HeapEnd
  BY <1>1, NodeFacts, WordFacts
<1>3. SizeOf(l) \in Nat /\ SizeOf(l) >= 16 /\ SizeOf(l) % 8 = 0
  BY LayoutFacts
<1>4. n + SizeOf(l) <= EndAddr(n)
  BY <1>2, SuitableRoom DEF n
<1>5. \A a \in listed : a = n \/ EndAddr(a) <= n \/ EndAddr(n) <= a
  <2> TAKE a \in listed
  <2>1. a \in Nat
    BY NodeFacts, WordFacts
  <2>2. (a < n => EndAddr(a) <= n) /\ (n < a => EndAddr(n) <= a)
    BY <1>1 DEF HeapInv, FreeApart
  <2> QED
    BY <1>2, <2>1, <2>2
<1>6. \A b \in live : BlockEnd(b) <= n \/ EndAddr(n) <= b.addr
  BY <1>1 DEF HeapInv, LiveApart
<1>7. EndAddr(n) \notin listed
  BY <1>1 DEF HeapInv, Merged, NoneTouch
<1> QED
  BY <1>1, <1>2, <1>3, <1>4, <1>5, <1>6, <1>7 DEF n

\* find_region takes a node of exactly the size.
LEMMA FindExactInv ==
    ASSUME HeapInv, NEW l \in Layouts, FindExact(l)
    PROVE  HeapInv'
<1> DEFINE n == next[cur]
           block == [addr |-> n, layout |-> l]
<1>1. /\ pc = "find" /\ n # None /\ Suitable(n, l) /\ EndAddr(n) = n + SizeOf(l)
      /\ Unlink(n) /\ live' = live \union {block}
      /\ pc' = "idle" /\ cur' = 0 /\ want' = {} /\ ret' = 0 /\ ptr' = 0 /\ len' = 0 /\ op' = op
  BY DEF FindExact, Return
<1>2. /\ n \in listed /\ n \in Words /\ n \in Nat
      /\ EndAddr(n) \in Nat /\ EndAddr(n) <= HeapEnd
      /\ \A a \in listed : a = n \/ EndAddr(a) <= n \/ EndAddr(n) <= a
      /\ \A b \in live : BlockEnd(b) <= n \/ EndAddr(n) <= b.addr
  BY <1>1, FoundNode
<1>3. /\ Ordered' /\ NodesInHeap' /\ FreeApart'
      /\ next' \in [Words \union {Head} -> Words \union {None}]
      /\ size' \in [Words \union {Head} -> 0 .. HeapSize]
      /\ listed' = listed \ {n}
      /\ \A a \in listed' : size'[a] = size[a]
  BY <1>1, UnlinkHeap
<1>4. block.addr = n /\ BlockEnd(block) = EndAddr(n)
  BY <1>1 DEF BlockEnd
<1>5. /\ listed \subseteq Words /\ live \subseteq [addr : Words, layout : Layouts]
      /\ op \in {"init", "alloc", "dealloc"}
  BY DEF HeapInv, ListOrdered, TypeOK
<1>6. TypeOK'
  BY <1>1, <1>2, <1>3, <1>5, HeapFacts DEF TypeOK
<1> HIDE DEF n, block
<1>7. \A a \in listed' : a \in listed /\ EndAddr(a)' = EndAddr(a)
  BY <1>3 DEF EndAddr
<1>8. BlocksInHeap'
  BY <1>1, <1>2, <1>4 DEF HeapInv, BlocksInHeap
<1>9. LiveApart'
  <2>1. ASSUME NEW b \in live', NEW c \in live'
        PROVE  b = c \/ BlockEnd(b) <= c.addr \/ BlockEnd(c) <= b.addr
    <3>1. CASE b \in live /\ c \in live
      BY <3>1 DEF HeapInv, LiveApart
    <3>2. CASE b = block /\ c \in live
      BY <1>2, <1>4, <3>2
    <3>3. CASE b \in live /\ c = block
      BY <1>2, <1>4, <3>3
    <3> QED
      BY <1>1, <3>1, <3>2, <3>3
  <2>2. ASSUME NEW b \in live', NEW a \in listed'
        PROVE  BlockEnd(b) <= a \/ EndAddr(a)' <= b.addr
    <3>1. CASE b \in live
      BY <1>7, <3>1 DEF HeapInv, LiveApart
    <3>2. CASE b = block
      BY <1>2, <1>3, <1>4, <1>7, <3>2
    <3> QED
      BY <1>1, <3>1, <3>2
  <2> QED
    BY <2>1, <2>2 DEF LiveApart
<1>10. Locals' /\ FlightApart' /\ SearchedInVain'
  BY <1>1 DEF Locals, FlightApart, SearchedInVain
<1>11. Merged'
  <2>1. \A a \in listed : EndAddr(a) \notin listed
    BY <1>1 DEF HeapInv, Merged, NoneTouch
  <2> QED
    BY <1>1, <1>3, <1>7, <2>1 DEF Merged, NoneTouch
<1>12. NothingLost'
  <2> SUFFICES ASSUME NEW w \in Words PROVE InNode(w)' \/ InBlock(w)'
    BY DEF NothingLost
  <2>1. InNode(w) \/ InBlock(w)
    BY <1>1 DEF HeapInv, NothingLost, InCall
  <2>2. CASE InBlock(w)
    BY <1>1, <2>2 DEF InBlock
  <2>3. CASE InNode(w)
    <3>1. PICK a \in listed : a <= w /\ w < EndAddr(a)
      BY <2>3 DEF InNode
    <3>2. CASE a = n
      BY <1>1, <1>4, <3>1, <3>2 DEF InBlock
    <3>3. CASE a # n
      BY <1>3, <1>7, <3>1, <3>3 DEF InNode
    <3> QED
      BY <3>2, <3>3
  <2> QED
    BY <2>1, <2>2, <2>3
<1> QED
  BY <1>3, <1>6, <1>8, <1>9, <1>10, <1>11, <1>12 DEF HeapInv, ListOrdered, Ordered

(* What is left of the node is the region in flight.  It may be too small   *)
(* to hold a node, for layouts stricter than one: the assertion of          *)
(* add_free_region panics.                                                  *)
LEMMA FindSplitInv ==
    ASSUME HeapInv, NEW l \in Layouts, FindSplit(l)
    PROVE  /\ HeapInv'
           /\ pc' \in {"insert", "panic"}
           /\ l.align <= NodeAlign => pc' = "insert"
<1> DEFINE n == next[cur]
           cut == n + SizeOf(l)
           end == EndAddr(n)
<1>1. /\ pc = "find" /\ n # None /\ want = {l} /\ Suitable(n, l) /\ end > cut
      /\ Unlink(n) /\ ret' = n /\ cur' = 0 /\ ptr' = cut /\ len' = end - cut
      /\ pc' = IF cut % 8 = 0 /\ end - cut >= 16 THEN "insert" ELSE "panic"
      /\ UNCHANGED <<live, op, want>>
  BY DEF FindSplit, AddFreeRegion
<1>2. /\ n \in listed /\ n \in Words /\ n \in Nat /\ n > 0 /\ n % 8 = 0 /\ n >= HeapBase
      /\ end \in Nat /\ end % 8 = 0 /\ end <= HeapEnd
      /\ SizeOf(l) \in Nat /\ SizeOf(l) >= 16 /\ SizeOf(l) % 8 = 0
      /\ \A a \in listed : a = n \/ EndAddr(a) <= n \/ end <= a
      /\ \A b \in live : BlockEnd(b) <= n \/ end <= b.addr
      /\ end \notin listed
  BY <1>1, FoundNode
<1>3. /\ Ordered' /\ NodesInHeap' /\ FreeApart'
      /\ next' \in [Words \union {Head} -> Words \union {None}]
      /\ size' \in [Words \union {Head} -> 0 .. HeapSize]
      /\ listed' = listed \ {n}
      /\ \A a \in listed' : size'[a] = size[a]
  BY <1>1, UnlinkHeap
<1>4. l.align <= NodeAlign => end - cut >= 16
  <2>1. Suitable(n, l) /\ EndAddr(n) \in Int
    BY <1>1, <1>2
  <2> HIDE DEF n
  <2> QED
    BY <1>1, <1>2, <2>1, SuitableExact
<1>5. \A a \in listed' : a \in listed /\ a # n /\ EndAddr(a)' = EndAddr(a)
  BY <1>3 DEF EndAddr
<1> HIDE DEF n, end
<1>6. /\ cut \in Nat /\ cut % 8 = 0 /\ cut \in Words
      /\ (end - cut) % 8 = 0 /\ end - cut \in 0 .. HeapSize
  <2>1. cut \in Nat /\ cut % 8 = 0 /\ (end - cut) % 8 = 0
    BY ONLY <1>2
  <2>2. cut >= HeapBase /\ cut < HeapEnd /\ end - cut \in 0 .. HeapSize
    BY <1>1, <1>2, HeapFacts
  <2> QED
    BY <2>1, <2>2, WordIntro
<1> HIDE DEF cut
<1>7. op = "alloc"
  BY <1>1 DEF HeapInv, Locals
<1>8. /\ listed \subseteq Words /\ live \subseteq [addr : Words, layout : Layouts]
      /\ op \in {"init", "alloc", "dealloc"} /\ want \in SUBSET Layouts
  BY DEF HeapInv, ListOrdered, TypeOK
<1>9. TypeOK'
  BY <1>1, <1>2, <1>3, <1>6, <1>8 DEF TypeOK
<1>10. BlocksInHeap' /\ LiveApart'
  BY <1>1, <1>5 DEF HeapInv, BlocksInHeap, LiveApart
<1>11. ptr' + len' = end /\ n + SizeOf(l) = cut /\ n < cut
  BY <1>1, <1>2, <1>6 DEF cut
<1>12. Locals'
  <2>1. pc' # "panic" => ptr' \in Words /\ cur' < ptr' /\ len' >= 16 /\ len' % 8 = 0
    BY <1>1, <1>2, <1>6, <1>11
  <2>2. ptr' + len' <= HeapEnd
    BY <1>2, <1>11
  <2> QED
    BY <1>1, <1>2, <1>7, <2>1, <2>2 DEF Locals
<1>13. \A a \in listed' : a \in Nat /\ EndAddr(a) \in Nat /\ EndAddr(a) >= a + 16
  BY <1>5, NodeFacts, WordFacts
<1>14. FlightApart'
  <2>1. ASSUME NEW a \in listed'
        PROVE  /\ end <= a \/ EndAddr(a) <= cut
               /\ cut <= a \/ EndAddr(a) <= n
    BY <1>1, <1>2, <1>5, <1>6, <1>11, <1>13
  <2>2. ASSUME NEW b \in live
        PROVE  /\ end <= b.addr \/ BlockEnd(b) <= cut
               /\ cut <= b.addr \/ BlockEnd(b) <= n
    <3>1. b.addr \in Nat /\ BlockEnd(b) \in Nat
      BY BlockFacts, WordFacts
    <3> QED
      BY <1>1, <1>2, <1>6, <1>11, <3>1
  <2>3. cut <= HeapEnd
    BY <1>1, <1>2, <1>6, HeapFacts
  <2> QED
    BY <1>1, <1>5, <1>11, <1>6, <2>1, <2>2, <2>3 DEF FlightApart
<1>15. NothingLost'
  <2> SUFFICES ASSUME pc' = "insert", NEW w \in Words
               PROVE  InNode(w)' \/ InBlock(w)' \/ InCall(w)'
    BY <1>1 DEF NothingLost
  <2>1. InNode(w) \/ InBlock(w)
    BY <1>1 DEF HeapInv, NothingLost, InCall
  <2>2. CASE InBlock(w)
    BY <1>1, <2>2 DEF InBlock
  <2>3. CASE InNode(w)
    <3>1. PICK a \in listed : a <= w /\ w < EndAddr(a)
      BY <2>3 DEF InNode
    <3>2. CASE a = n
      <4>1. w \in Nat
        BY WordFacts
      <4>2. (n <= w /\ w < n + SizeOf(l)) \/ (cut <= w /\ w < ptr' + len')
        BY <1>2, <1>6, <1>11, <3>1, <3>2, <4>1 DEF end
      <4> QED
        BY <1>1, <4>2 DEF InCall
    <3>3. CASE a # n
      BY <1>3, <1>5, <3>1, <3>3 DEF InNode
    <3> QED
      BY <3>2, <3>3
  <2> QED
    BY <2>1, <2>2, <2>3
<1>16. Merged'
  <2>1. \A a \in listed : EndAddr(a) \notin listed
    BY <1>1 DEF HeapInv, Merged, NoneTouch
  <2>2. \A a \in listed' : EndAddr(a) # cut
    BY <1>1, <1>2, <1>5, <1>6, <1>11, <1>13
  <2> QED
    BY <1>1, <1>2, <1>3, <1>5, <1>11, <2>1, <2>2 DEF Merged, NoneTouch
<1>17. SearchedInVain'
  BY <1>1 DEF SearchedInVain
<1> QED
  BY <1>1, <1>3, <1>4, <1>6, <1>9, <1>10, <1>12, <1>14, <1>15, <1>16, <1>17
     DEF HeapInv, ListOrdered, Ordered

-----------------------------------------------------------------------------
(* add_free_region links the region in flight into the list.                *)
LEMMA LinkHeap ==
    ASSUME HeapInv, Link
    PROVE  /\ Ordered' /\ NodesInHeap' /\ FreeApart'
           /\ next' \in [Words \union {Head} -> Words \union {None}]
           /\ size' \in [Words \union {Head} -> 0 .. HeapSize]
           /\ listed' = listed \union {ptr} /\ ptr \notin listed
           /\ \A a \in listed' : EndAddr(a)' = IF a = ptr THEN ptr + len ELSE EndAddr(a)
           /\ ptr \in Words /\ ptr \in Nat /\ len \in Nat /\ len >= 16
<1>1. Ordered' /\ next' \in [Words \union {Head} -> Words \union {None}] /\ ptr \notin listed
  BY Insertion
<1>2. /\ ptr \in Words /\ ptr \in Nat /\ ptr > 0 /\ len \in 0 .. HeapSize
      /\ len >= 16 /\ len % 8 = 0 /\ ptr + len <= HeapEnd
  BY WordFacts DEF Link, HeapInv, Locals, ListOrdered, TypeOK
<1>3. size \in [Words \union {Head} -> 0 .. HeapSize] /\ listed \subseteq Words
  BY DEF HeapInv, ListOrdered, TypeOK
<1>4. size' = [size EXCEPT ![ptr] = len] /\ listed' = listed \union {ptr} /\ pc = "insert"
  BY DEF Link
<1>5. /\ size' \in [Words \union {Head} -> 0 .. HeapSize]
      /\ \A a \in listed : size'[a] = size[a]
      /\ size'[0] = size[0]
      /\ size'[ptr] = len
  BY <1>1, <1>2, <1>3, <1>4
<1>6. \A a \in listed' : EndAddr(a)' = IF a = ptr THEN ptr + len ELSE EndAddr(a)
  BY <1>1, <1>4, <1>5 DEF EndAddr
<1>7. NodesInHeap'
  <2>1. ASSUME NEW a \in listed'
        PROVE  size'[a] >= 16 /\ size'[a] % 8 = 0 /\ EndAddr(a)' <= HeapEnd
    <3>1. CASE a = ptr
      BY <1>2, <1>5, <1>6, <3>1
    <3>2. CASE a # ptr
      BY <1>4, <1>5, <1>6, <3>2 DEF HeapInv, NodesInHeap
    <3> QED
      BY <3>1, <3>2
  <2> QED
    BY <1>5, <2>1 DEF HeapInv, NodesInHeap
<1>8. FreeApart'
  <2> SUFFICES ASSUME NEW a \in listed', NEW b \in listed', a < b PROVE EndAddr(a)' <= b
    BY DEF FreeApart
  <2>1. CASE a \in listed /\ b \in listed
    BY <1>1, <1>6, <2>1 DEF HeapInv, FreeApart
  <2>2. CASE a = ptr /\ b \in listed
    <3>1. ptr + len <= b \/ EndAddr(b) <= ptr
      BY <1>4, <2>2 DEF HeapInv, FlightApart
    <3>2. b \in Nat /\ EndAddr(b) \in Nat /\ EndAddr(b) > b
      BY <2>2, NodeFacts, WordFacts
    <3> QED
      BY <1>2, <1>6, <2>2, <3>1, <3>2
  <2>3. CASE a \in listed /\ b = ptr
    <3>1. ptr + len <= a \/ EndAddr(a) <= ptr
      BY <1>4, <2>3 DEF HeapInv, FlightApart
    <3>2. a \in Nat
      BY <2>3, NodeFacts, WordFacts
    <3>3. EndAddr(a) <= ptr
      BY <1>2, <2>3, <3>1, <3>2
    <3> QED
      BY <1>1, <1>6, <2>3, <3>3
  <2>4. ~(a = ptr /\ b = ptr)
    BY <1>2
  <2> QED
    BY <1>4, <2>1, <2>2, <2>3, <2>4
<1> QED
  BY <1>1, <1>2, <1>4, <1>5, <1>6, <1>7, <1>8

(* The words of the region in flight are words of the new node, all others  *)
(* stay where they are.                                                     *)
LEMMA LinkKeepsWords ==
    ASSUME HeapInv, Link, NEW w \in Words
    PROVE  \/ InNode(w)'
           \/ InBlock(w)
           \/ \E l \in want : ret <= w /\ w < ret + SizeOf(l)
<1>1. /\ listed' = listed \union {ptr} /\ ptr \notin listed
      /\ \A a \in listed' : EndAddr(a)' = IF a = ptr THEN ptr + len ELSE EndAddr(a)
  BY LinkHeap
<1>2. InNode(w) \/ InBlock(w) \/ InCall(w)
  BY DEF HeapInv, NothingLost, Link
<1>3. CASE InNode(w)
  BY <1>1, <1>3 DEF InNode
<1>4. CASE ptr <= w /\ w < ptr + len
  <2>1. \E a \in listed' : a = ptr
    BY <1>1
  <2> QED
    BY <1>1, <1>4, <2>1 DEF InNode
<1> QED
  BY <1>2, <1>3, <1>4 DEF InCall

\* add_free_region links what init or alloc gives back, and the call returns.
LEMMA InsertReturnInv ==
    ASSUME HeapInv, InsertReturn
    PROVE  HeapInv'
<1> DEFINE Block(l) == [addr |-> ret, layout |-> l]
<1>1. /\ pc = "insert" /\ op # "dealloc" /\ Link
      /\ live' = live \union {Block(l) : l \in want}
      /\ pc' = "idle" /\ cur' = 0 /\ want' = {} /\ ret' = 0 /\ ptr' = 0 /\ len' = 0 /\ op' = op
  BY DEF InsertReturn, Link, Return
<1>2. /\ Ordered' /\ NodesInHeap' /\ FreeApart'
      /\ next' \in [Words \union {Head} -> Words \union {None}]
      /\ size' \in [Words \union {Head} -> 0 .. HeapSize]
      /\ listed' = listed \union {ptr} /\ ptr \notin listed
      /\ \A a \in listed' : EndAddr(a)' = IF a = ptr THEN ptr + len ELSE EndAddr(a)
      /\ ptr \in Words /\ ptr \in Nat /\ len \in Nat /\ len >= 16
  BY <1>1, LinkHeap
<1>3. /\ listed \subseteq Words /\ live \subseteq [addr : Words, layout : Layouts]
      /\ op \in {"init", "alloc", "dealloc"} /\ want \in SUBSET Layouts
  BY DEF HeapInv, ListOrdered, TypeOK
<1>4. /\ \A l \in want : ret \in Words /\ want = {l}
      /\ \A l \in want : BlockEnd(Block(l)) = ret + SizeOf(l) /\ Block(l).addr = ret
  BY <1>1 DEF HeapInv, Locals, BlockEnd
<1>5. TypeOK'
  <2>1. live' \subseteq [addr : Words, layout : Layouts]
    BY <1>1, <1>3, <1>4
  <2> QED
    BY <1>1, <1>2, <1>3, <2>1, HeapFacts DEF TypeOK
<1>6. \A b \in live' : b \in live \/ \E l \in want : b = Block(l)
  BY <1>1
<1> HIDE DEF Block
<1>7. BlocksInHeap'
  BY <1>1, <1>4, <1>6 DEF HeapInv, BlocksInHeap, FlightApart
<1>8. LiveApart'
  <2>1. ASSUME NEW b \in live', NEW c \in live'
        PROVE  b = c \/ BlockEnd(b) <= c.addr \/ BlockEnd(c) <= b.addr
    <3>1. CASE b \in live /\ c \in live
      BY <3>1 DEF HeapInv, LiveApart
    <3>2. CASE \E l \in want : b = Block(l) /\ c \in live
      BY <1>1, <1>4, <3>2 DEF HeapInv, FlightApart
    <3>3. CASE \E l \in want : c = Block(l) /\ b \in live
      BY <1>1, <1>4, <3>3 DEF HeapInv, FlightApart
    <3>4. CASE \E l, k \in want : c = Block(l) /\ b = Block(k)
      BY <1>4, <3>4
    <3> QED
      BY <1>6, <3>1, <3>2, <3>3, <3>4
  <2>2. ASSUME NEW b \in live', NEW a \in listed'
        PROVE  BlockEnd(b) <= a \/ EndAddr(a)' <= b.addr
    <3>1. CASE b \in live /\ a # ptr
      BY <1>2, <3>1 DEF HeapInv, LiveApart
    <3>2. CASE b \in live /\ a = ptr
      BY <1>1, <1>2, <3>2 DEF HeapInv, FlightApart
    <3>3. CASE \E l \in want : b = Block(l)
      <4>1. PICK l \in want : b = Block(l)
        BY <3>3
      <4>2. b.addr = ret /\ BlockEnd(b) = ret + SizeOf(l)
        BY <1>4, <4>1
      <4>3. CASE a = ptr
        BY <1>1, <1>2, <4>2, <4>3 DEF HeapInv, FlightApart
      <4>4. CASE a # ptr
        BY <1>1, <1>2, <4>2, <4>4 DEF HeapInv, FlightApart
      <4> QED
        BY <4>3, <4>4
    <3> QED
      BY <1>6, <3>1, <3>2, <3>3
  <2> QED
    BY <2>1, <2>2 DEF LiveApart
<1>9. Locals' /\ FlightApart' /\ SearchedInVain'
  BY <1>1 DEF Locals, FlightApart, SearchedInVain
<1>10. Merged'
  <2>1. /\ \A a \in listed : EndAddr(a) \notin listed /\ EndAddr(a) # ptr
        /\ ptr + len \notin listed
    BY <1>1 DEF HeapInv, Merged, NoneTouch
  <2>2. ptr + len # ptr
    BY <1>2
  <2>3. \A a \in listed' : EndAddr(a)' \notin listed'
    BY <1>2, <2>1, <2>2
  <2> QED
    BY <1>1, <2>3 DEF Merged, NoneTouch
<1>11. NothingLost'
  <2> SUFFICES ASSUME NEW w \in Words PROVE InNode(w)' \/ InBlock(w)'
    BY DEF NothingLost
  <2>1. CASE InNode(w)'
    BY <2>1
  <2>2. CASE InBlock(w)
    BY <1>1, <2>2 DEF InBlock
  <2>3. CASE \E l \in want : ret <= w /\ w < ret + SizeOf(l)
    <3>1. PICK l \in want : ret <= w /\ w < ret + SizeOf(l)
      BY <2>3
    <3>2. Block(l) \in live'
      BY <1>1
    <3> QED
      BY <1>4, <3>1, <3>2 DEF InBlock
  <2> QED
    BY <1>1, <2>1, <2>2, <2>3, LinkKeepsWords
<1> QED
  BY <1>2, <1>5, <1>7, <1>8, <1>9, <1>10, <1>11 DEF HeapInv, ListOrdered, Ordered

\* add_free_region links a freed block, and coalesce_memory begins.
LEMMA InsertCoalesceInv ==
    ASSUME HeapInv, InsertCoalesce
    PROVE  HeapInv'
<1>1. /\ pc = "insert" /\ op = "dealloc" /\ Link
      /\ pc' = "coalesce" /\ cur' = 0 /\ ptr' = 0 /\ len' = 0
      /\ UNCHANGED <<live, op, want, ret>>
  BY DEF InsertCoalesce, Link
<1>2. /\ Ordered' /\ NodesInHeap' /\ FreeApart'
      /\ next' \in [Words \union {Head} -> Words \union {None}]
      /\ size' \in [Words \union {Head} -> 0 .. HeapSize]
      /\ listed' = listed \union {ptr} /\ ptr \notin listed
      /\ \A a \in listed' : EndAddr(a)' = IF a = ptr THEN ptr + len ELSE EndAddr(a)
      /\ ptr \in Words
  BY <1>1, LinkHeap
<1>3. /\ listed \subseteq Words /\ live \subseteq [addr : Words, layout : Layouts]
      /\ op \in {"init", "alloc", "dealloc"} /\ want \in SUBSET Layouts
      /\ ret \in Words \union {0}
  BY DEF HeapInv, ListOrdered, TypeOK
<1>4. want = {}
  BY <1>1 DEF HeapInv, Locals
<1>5. TypeOK'
  BY <1>1, <1>2, <1>3, HeapFacts DEF TypeOK
<1>6. BlocksInHeap'
  BY <1>1 DEF HeapInv, BlocksInHeap
<1>7. LiveApart'
  <2>1. ASSUME NEW b \in live, NEW a \in listed'
        PROVE  BlockEnd(b) <= a \/ EndAddr(a)' <= b.addr
    <3>1. CASE a # ptr
      BY <1>2, <3>1 DEF HeapInv, LiveApart
    <3>2. CASE a = ptr
      BY <1>1, <1>2, <3>2 DEF HeapInv, FlightApart
    <3> QED
      BY <3>1, <3>2
  <2> QED
    BY <1>1, <2>1 DEF HeapInv, LiveApart
<1>8. Locals' /\ FlightApart' /\ SearchedInVain'
  BY <1>1, <1>4 DEF Locals, FlightApart, SearchedInVain
<1>9. Merged'
  <2>1. \A a \in listed' : ~(a < 0)
    BY <1>2, <1>3, WordFacts
  <2> QED
    BY <1>1, <2>1 DEF Merged, NoneTouch
<1>10. NothingLost'
  BY <1>1, <1>4, LinkKeepsWords DEF NothingLost, InBlock
<1> QED
  BY <1>2, <1>5, <1>6, <1>7, <1>8, <1>9, <1>10 DEF HeapInv, ListOrdered, Ordered

-----------------------------------------------------------------------------
(* coalesce_memory: the head, of length 0, never takes a node in.           *)
LEMMA MergedNodes ==
    ASSUME HeapInv, CoalesceMerge
    PROVE  LET n == next[cur] IN
           /\ cur \in listed /\ n \in listed /\ cur < n /\ EndAddr(cur) = n
           /\ \A a \in listed : a \in Nat /\ EndAddr(a) \in Nat /\ EndAddr(a) >= a + 16
           /\ listed' = listed \ {n}
           /\ size' \in [Words \union {Head} -> 0 .. HeapSize]
           /\ size'[0] = 0
           /\ \A a \in listed' : a \in listed /\ a # n
           /\ \A a \in listed' : EndAddr(a)' = IF a = cur THEN EndAddr(n) ELSE EndAddr(a)
           /\ \A a \in listed' : size'[a] >= 16 /\ size'[a] % 8 = 0
<1> DEFINE n == next[cur]
<1>1. /\ n # None /\ EndAddr(cur) = n
      /\ size' = [size EXCEPT ![cur] = size[cur] + size[n], ![n] = 0]
      /\ listed' = listed \ {n}
  BY DEF CoalesceMerge
<1>2. n \in listed /\ cur < n /\ cur \in Nat /\ cur \in listed \union {0}
  BY <1>1, NextNode
<1>3. cur # 0
  <2>1. size[0] = 0
    BY DEF HeapInv, NodesInHeap
  <2> QED
    BY <1>1, <1>2, <2>1 DEF EndAddr
<1>4. cur \in listed
  BY <1>2, <1>3
<1> HIDE DEF n
<1>5. \A a \in listed : a \in Nat /\ a > 0 /\ EndAddr(a) \in Nat /\ EndAddr(a) >= a + 16
  BY NodeFacts, WordFacts
<1>6. /\ n \in Words /\ cur \in Words /\ n > 0 /\ n \in Nat /\ n # cur
      /\ size[cur] \in Nat /\ size[cur] >= 16 /\ size[cur] % 8 = 0 /\ n = cur + size[cur]
      /\ size[n] \in Nat /\ size[n] >= 16 /\ size[n] % 8 = 0 /\ EndAddr(n) = n + size[n]
      /\ EndAddr(n) <= HeapEnd /\ HeapBase <= cur
  <2>1. /\ n \in Words /\ n \in Nat /\ n > 0 /\ size[n] \in Nat /\ size[n] >= 16
        /\ size[n] % 8 = 0 /\ EndAddr(n) = n + size[n] /\ EndAddr(n) <= HeapEnd
    BY <1>2, NodeFacts, WordFacts
  <2>2. /\ cur \in Words /\ HeapBase <= cur /\ size[cur] \in Nat /\ size[cur] >= 16
        /\ size[cur] % 8 = 0 /\ EndAddr(cur) = cur + size[cur]
    BY <1>4, NodeFacts, WordFacts
  <2> QED
    BY <1>1, <1>2, <2>1, <2>2
<1>7. size[cur] + size[n] \in 0 .. HeapSize /\ (size[cur] + size[n]) % 8 = 0
  <2>1. (size[cur] + size[n]) % 8 = 0
    BY ONLY <1>6
  <2>2. size[cur] + size[n] \in 0 .. HeapSize
    BY <1>2, <1>6, HeapFacts
  <2> QED
    BY <2>1, <2>2
<1>8. size \in [Words \union {Head} -> 0 .. HeapSize] /\ listed \subseteq Words /\ size[0] = 0
  BY DEF HeapInv, ListOrdered, TypeOK, NodesInHeap
<1>9. /\ size' \in [Words \union {Head} -> 0 .. HeapSize]
      /\ size'[0] = 0
      /\ \A a \in listed' : a \in listed /\ a # n
      /\ \A a \in listed' : size'[a] = IF a = cur THEN size[cur] + size[n] ELSE size[a]
  BY <1>1, <1>3, <1>6, <1>7, <1>8, HeapFacts
<1>10. \A a \in listed' : EndAddr(a)' = IF a = cur THEN EndAddr(n) ELSE EndAddr(a)
  <2> TAKE a \in listed'
  <2>1. EndAddr(a)' = a + size'[a] /\ EndAddr(a) = a + size[a]
    BY DEF EndAddr
  <2> QED
    BY <1>2, <1>6, <1>9, <2>1
<1>11. \A a \in listed' : size'[a] >= 16 /\ size'[a] % 8 = 0
  <2> TAKE a \in listed'
  <2>1. size[a] >= 16 /\ size[a] % 8 = 0
    BY <1>9 DEF HeapInv, NodesInHeap
  <2> QED
    BY <1>6, <1>7, <1>9, <2>1
<1> QED
  BY <1>1, <1>2, <1>4, <1>5, <1>9, <1>10, <1>11 DEF n

\* coalesce_memory merges two nodes that touch.
LEMMA CoalesceMergeInv ==
    ASSUME HeapInv, CoalesceMerge
    PROVE  HeapInv'
<1> DEFINE n == next[cur]
<1>1. /\ pc = "coalesce" /\ n # None
      /\ next' = [next EXCEPT ![cur] = next[n], ![n] = None]
      /\ UNCHANGED <<live, pc, op, cur, want, ret, ptr, len>>
  BY DEF CoalesceMerge
<1>2. /\ cur \in listed /\ n \in listed /\ cur < n /\ EndAddr(cur) = n
      /\ \A a \in listed : a \in Nat /\ EndAddr(a) \in Nat /\ EndAddr(a) >= a + 16
      /\ listed' = listed \ {n}
      /\ size' \in [Words \union {Head} -> 0 .. HeapSize]
      /\ size'[0] = 0
      /\ \A a \in listed' : a \in listed /\ a # n
      /\ \A a \in listed' : EndAddr(a)' = IF a = cur THEN EndAddr(n) ELSE EndAddr(a)
      /\ \A a \in listed' : size'[a] >= 16 /\ size'[a] % 8 = 0
  BY MergedNodes
<1>3. Ordered' /\ next' \in [Words \union {Head} -> Words \union {None}]
  BY <1>1, <1>2, Removal
<1>4. \A b \in listed : b <= cur \/ n <= b
  BY <1>1, NextNode
<1> HIDE DEF n
<1>5. TypeOK'
  <2>1. cur \in listed' /\ listed' \subseteq Words
    BY <1>2 DEF HeapInv, ListOrdered, TypeOK
  <2> QED
    BY <1>1, <1>2, <1>3, <2>1 DEF HeapInv, ListOrdered, TypeOK
<1>6. NodesInHeap'
  <2>1. \A a \in listed : EndAddr(a) <= HeapEnd
    BY DEF HeapInv, NodesInHeap
  <2> QED
    BY <1>2, <2>1 DEF NodesInHeap
<1>7. FreeApart'
  <2> SUFFICES ASSUME NEW a \in listed', NEW b \in listed', a < b PROVE EndAddr(a)' <= b
    BY DEF FreeApart
  <2>1. CASE a = cur
    <3>1. n < b
      BY <1>2, <1>4, <2>1
    <3>2. EndAddr(n) <= b
      BY <1>2, <3>1 DEF HeapInv, FreeApart
    <3> QED
      BY <1>2, <2>1, <3>2
  <2>2. CASE a # cur
    BY <1>2, <2>2 DEF HeapInv, FreeApart
  <2> QED
    BY <2>1, <2>2
<1>8. BlocksInHeap'
  BY <1>1 DEF HeapInv, BlocksInHeap
<1>9. LiveApart'
  <2>1. ASSUME NEW b \in live, NEW a \in listed'
        PROVE  BlockEnd(b) <= a \/ EndAddr(a)' <= b.addr
    <3>1. CASE a # cur
      BY <1>2, <3>1 DEF HeapInv, LiveApart
    <3>2. CASE a = cur
      <4>1. b.addr \in Nat /\ BlockEnd(b) \in Nat /\ BlockEnd(b) >= b.addr + 16
        BY BlockFacts, WordFacts
      <4>2. /\ BlockEnd(b) <= cur \/ EndAddr(cur) <= b.addr
            /\ BlockEnd(b) <= n \/ EndAddr(n) <= b.addr
        BY <1>2 DEF HeapInv, LiveApart
      <4>3. BlockEnd(b) <= cur \/ EndAddr(n) <= b.addr
        BY <1>2, <4>1, <4>2
      <4> QED
        BY <1>2, <3>2, <4>3
    <3> QED
      BY <3>1, <3>2
  <2> QED
    BY <1>1, <2>1 DEF HeapInv, LiveApart
<1>10. Locals' /\ FlightApart' /\ SearchedInVain'
  BY <1>1 DEF HeapInv, Locals, FlightApart, SearchedInVain
<1>11. Merged'
  <2>1. \A a \in listed : a < cur => EndAddr(a) \notin listed
    BY <1>1 DEF HeapInv, Merged, NoneTouch
  <2>2. ASSUME NEW a \in listed', a < cur PROVE EndAddr(a)' \notin listed'
    BY <1>2, <2>1, <2>2
  <2> QED
    BY <1>1, <2>2 DEF Merged, NoneTouch
<1>12. NothingLost'
  <2> SUFFICES ASSUME NEW w \in Words PROVE InNode(w)' \/ InBlock(w)'
    BY DEF NothingLost
  <2>1. InNode(w) \/ InBlock(w)
    BY <1>1 DEF HeapInv, NothingLost, InCall
  <2>2. CASE InBlock(w)
    BY <1>1, <2>2 DEF InBlock
  <2>3. CASE InNode(w)
    <3>1. PICK a \in listed : a <= w /\ w < EndAddr(a)
      BY <2>3 DEF InNode
    <3>2. w \in Nat /\ cur \in listed'
      BY <1>2, WordFacts
    <3>3. CASE a \in {cur, n}
      <4>1. cur <= w /\ w < EndAddr(n)
        BY <1>2, <3>1, <3>2, <3>3
      <4>2. \E c \in listed' : c = cur /\ EndAddr(c)' = EndAddr(n)
        BY <1>2, <3>2
      <4> QED
        BY <4>1, <4>2 DEF InNode
    <3>4. CASE a \notin {cur, n}
      BY <1>2, <3>1, <3>4 DEF InNode
    <3> QED
      BY <3>3, <3>4
  <2> QED
    BY <2>1, <2>2, <2>3
<1> QED
  BY <1>3, <1>5, <1>6, <1>7, <1>8, <1>9, <1>10, <1>11, <1>12 DEF HeapInv, ListOrdered, Ordered

-----------------------------------------------------------------------------
\* Every step keeps the invariant.
LEMMA NextInv ==
    ASSUME HeapInv, [Next]_vars
    PROVE  HeapInv'
<1>1. CASE UNCHANGED vars
  <2> USE <1>1 DEF vars
  <2>1. ListOrdered' /\ NodesInHeap' /\ BlocksInHeap' /\ FreeApart' /\ LiveApart'
    BY DEF HeapInv, ListOrdered, TypeOK, NodesInHeap, BlocksInHeap, FreeApart, LiveApart,
           EndAddr, BlockEnd
  <2>2. Locals' /\ FlightApart' /\ Merged' /\ SearchedInVain'
    BY DEF HeapInv, Locals, FlightApart, Merged, NoneTouch, SearchedInVain, Suitable,
           EndAddr, BlockEnd
  <2>3. NothingLost'
    BY DEF HeapInv, NothingLost, InNode, InBlock, InCall, EndAddr
  <2> QED
    BY <2>1, <2>2, <2>3 DEF HeapInv
<1>2. CASE InitRegion
  BY <1>2, InitRegionInv
<1>3. CASE Find
  BY <1>3, FindSkipInv, ReturnInv, FindExactInv, FindSplitInv DEF Find
<1>4. CASE Insert
  BY <1>4, InsertAdvanceInv, InsertReturnInv, InsertCoalesceInv DEF Insert
<1>5. CASE Coalesce
  BY <1>5, CoalesceMergeInv, CoalesceAdvanceInv, ReturnInv DEF Coalesce
<1>6. CASE \E l \in Layouts : Alloc(l)
  BY <1>6, AllocInv
<1>7. CASE \E b \in live : Dealloc(b)
  BY <1>7, DeallocInv
<1> QED
  BY <1>1, <1>2, <1>3, <1>4, <1>5, <1>6, <1>7 DEF Next, Step

\* The invariant holds in every reachable state.
LEMMA Invariance == Spec => []HeapInv
BY InitInv, NextInv, PTL DEF Spec

(* Whatever is allocated and freed, and in whichever order, the list of     *)
(* free regions is a list: ordered by address, with every free node on it   *)
(* once.                                                                    *)
THEOREM ListIsOrdered == Spec => []ListOrdered
<1>1. HeapInv => ListOrdered
  BY DEF HeapInv
<1> QED
  BY <1>1, Invariance, PTL

(* Between calls there is nothing left to merge.                            *)
THEOREM FreeMemoryIsCoalesced == Spec => []Coalesced
<1>1. HeapInv => Coalesced
  BY DEF HeapInv, Merged, NoneTouch, Coalesced
<1> QED
  BY <1>1, Invariance, PTL

-----------------------------------------------------------------------------
(* From regions that are apart to one owner for each word.                  *)

\* The pair r is a node, a block, or one of the two regions of a call.
IsNode(r)     == \E a \in listed : r = <<a, EndAddr(a)>>
IsBlock(r)    == \E b \in live : r = <<b.addr, BlockEnd(b)>>
IsFlight(r)   == pc = "insert" /\ r = <<ptr, ptr + len>>
IsReturned(r) == pc = "insert" /\ \E l \in want : r = <<ret, ret + SizeOf(l)>>

\* The four kinds of region the heap is partitioned into.
LEMMA RegionKinds ==
    ASSUME NEW r
    PROVE  r \in Regions <=> IsNode(r) \/ IsBlock(r) \/ IsFlight(r) \/ IsReturned(r)
BY DEF Regions, FreeRegions, LiveRegions, InFlight, BeingReturned,
       IsNode, IsBlock, IsFlight, IsReturned, BlockEnd

\* A word belongs to one region.
LEMMA OneOwner ==
    ASSUME HeapInv, NEW w \in Words, NEW r \in Regions, NEW q \in Regions,
           Covers(r, w), Covers(q, w)
    PROVE  r = q
<1>1. w \in Nat
  BY WordFacts
<1>2. r[1] <= w /\ w < r[2] /\ q[1] <= w /\ w < q[2]
  BY DEF Covers
<1>3. \A a \in listed : a \in Nat /\ EndAddr(a) \in Nat
  BY NodeFacts, WordFacts
<1>4. \A b \in live : b.addr \in Nat /\ BlockEnd(b) \in Nat
  BY BlockFacts, WordFacts
<1>5. pc = "insert" =>
        /\ ptr \in Nat /\ len \in Nat
        /\ \A l \in want : want = {l} /\ ret \in Nat /\ SizeOf(l) \in Nat
  BY WordFacts, LayoutFacts DEF HeapInv, Locals, ListOrdered, TypeOK
<1>6. ASSUME NEW x \in Regions, NEW y \in Regions, IsNode(x),
             x[1] <= w /\ w < x[2] /\ y[1] <= w /\ w < y[2]
      PROVE  x = y
  <2>1. PICK a \in listed : x = <<a, EndAddr(a)>>
    BY <1>6 DEF IsNode
  <2>2. a \in Nat /\ EndAddr(a) \in Nat /\ a <= w /\ w < EndAddr(a)
    BY <1>3, <1>6, <2>1
  <2>3. CASE IsNode(y)
    <3>1. PICK c \in listed : y = <<c, EndAddr(c)>>
      BY <2>3 DEF IsNode
    <3>2. c \in Nat /\ EndAddr(c) \in Nat /\ c <= w /\ w < EndAddr(c)
      BY <1>3, <1>6, <3>1
    <3>3. (a < c => EndAddr(a) <= c) /\ (c < a => EndAddr(c) <= a)
      BY DEF HeapInv, FreeApart
    <3>4. a = c
      BY <1>1, <2>2, <3>2, <3>3
    <3> QED
      BY <2>1, <3>1, <3>4
  <2>4. CASE IsBlock(y)
    <3>1. PICK b \in live : y = <<b.addr, BlockEnd(b)>>
      BY <2>4 DEF IsBlock
    <3>2. b.addr \in Nat /\ BlockEnd(b) \in Nat /\ b.addr <= w /\ w < BlockEnd(b)
      BY <1>4, <1>6, <3>1
    <3>3. BlockEnd(b) <= a \/ EndAddr(a) <= b.addr
      BY DEF HeapInv, LiveApart
    <3> QED
      BY <1>1, <2>2, <3>2, <3>3
  <2>5. CASE IsFlight(y)
    <3>1. ptr + len <= a \/ EndAddr(a) <= ptr
      BY <2>5 DEF HeapInv, FlightApart, IsFlight
    <3>2. ptr \in Nat /\ len \in Nat /\ ptr <= w /\ w < ptr + len
      BY <1>5, <1>6, <2>5 DEF IsFlight
    <3> QED
      BY <1>1, <2>2, <3>1, <3>2
  <2>6. CASE IsReturned(y)
    <3>1. PICK l \in want : y = <<ret, ret + SizeOf(l)>>
      BY <2>6 DEF IsReturned
    <3>2. ret + SizeOf(l) <= a \/ EndAddr(a) <= ret
      BY <2>6 DEF HeapInv, FlightApart, IsReturned
    <3>3. ret \in Nat /\ SizeOf(l) \in Nat /\ ret <= w /\ w < ret + SizeOf(l)
      BY <1>5, <1>6, <2>6, <3>1 DEF IsReturned
    <3> QED
      BY <1>1, <2>2, <3>2, <3>3
  <2> QED
    BY <2>3, <2>4, <2>5, <2>6, RegionKinds
<1>7. ASSUME NEW x \in Regions, NEW y \in Regions, IsBlock(x), ~IsNode(y),
             x[1] <= w /\ w < x[2] /\ y[1] <= w /\ w < y[2]
      PROVE  x = y
  <2>1. PICK b \in live : x = <<b.addr, BlockEnd(b)>>
    BY <1>7 DEF IsBlock
  <2>2. b.addr \in Nat /\ BlockEnd(b) \in Nat /\ b.addr <= w /\ w < BlockEnd(b)
    BY <1>4, <1>7, <2>1
  <2>3. CASE IsBlock(y)
    <3>1. PICK c \in live : y = <<c.addr, BlockEnd(c)>>
      BY <2>3 DEF IsBlock
    <3>2. c.addr \in Nat /\ BlockEnd(c) \in Nat /\ c.addr <= w /\ w < BlockEnd(c)
      BY <1>4, <1>7, <3>1
    <3>3. b = c \/ BlockEnd(b) <= c.addr \/ BlockEnd(c) <= b.addr
      BY DEF HeapInv, LiveApart
    <3>4. b = c
      BY <1>1, <2>2, <3>2, <3>3
    <3> QED
      BY <2>1, <3>1, <3>4
  <2>4. CASE IsFlight(y)
    <3>1. ptr + len <= b.addr \/ BlockEnd(b) <= ptr
      BY <2>4 DEF HeapInv, FlightApart, IsFlight
    <3>2. ptr \in Nat /\ len \in Nat /\ ptr <= w /\ w < ptr + len
      BY <1>5, <1>7, <2>4 DEF IsFlight
    <3> QED
      BY <1>1, <2>2, <3>1, <3>2
  <2>5. CASE IsReturned(y)
    <3>1. PICK l \in want : y = <<ret, ret + SizeOf(l)>>
      BY <2>5 DEF IsReturned
    <3>2. ret + SizeOf(l) <= b.addr \/ BlockEnd(b) <= ret
      BY <2>5 DEF HeapInv, FlightApart, IsReturned
    <3>3. ret \in Nat /\ SizeOf(l) \in Nat /\ ret <= w /\ w < ret + SizeOf(l)
      BY <1>5, <1>7, <2>5, <3>1 DEF IsReturned
    <3> QED
      BY <1>1, <2>2, <3>2, <3>3
  <2> QED
    BY <1>7, <2>3, <2>4, <2>5, RegionKinds
<1>8. ASSUME NEW x \in Regions, NEW y \in Regions, IsFlight(x), IsFlight(y) \/ IsReturned(y),
             x[1] <= w /\ w < x[2] /\ y[1] <= w /\ w < y[2]
      PROVE  x = y
  <2>1. CASE IsFlight(y)
    BY <1>8, <2>1 DEF IsFlight
  <2>2. CASE IsReturned(y)
    <3>1. PICK l \in want : y = <<ret, ret + SizeOf(l)>>
      BY <2>2 DEF IsReturned
    <3>2. ptr + len <= ret \/ ret + SizeOf(l) <= ptr
      BY <2>2 DEF HeapInv, FlightApart, IsReturned
    <3>3. ret \in Nat /\ SizeOf(l) \in Nat /\ ret <= w /\ w < ret + SizeOf(l)
      BY <1>5, <1>8, <2>2, <3>1 DEF IsReturned
    <3>4. ptr \in Nat /\ len \in Nat /\ ptr <= w /\ w < ptr + len
      BY <1>5, <1>8 DEF IsFlight
    <3> QED
      BY <1>1, <3>2, <3>3, <3>4
  <2> QED
    BY <1>8, <2>1, <2>2
<1>9. ASSUME IsReturned(r), IsReturned(q)
      PROVE  r = q
  <2>1. \A l, k \in want : l = k
    BY <1>5, <1>9 DEF IsReturned
  <2> QED
    BY <1>9, <2>1 DEF IsReturned
<1> QED
  BY <1>2, <1>6, <1>7, <1>8, <1>9, RegionKinds

(* At every moment of every call each word of the heap has one owner: no    *)
(* block is handed out twice, none overlaps a free node, no byte is lost.   *)
THEOREM HeapIsPartitioned == Spec => []HeapPartition
<1>1. HeapInv => HeapPartition
  <2> SUFFICES ASSUME HeapInv, pc \notin {"boot", "panic"} PROVE HeapPartition
    BY DEF HeapPartition
  <2>1. ASSUME NEW w \in Words
        PROVE  \E r \in Regions : Covers(r, w) /\ \A q \in Regions : Covers(q, w) => q = r
    <3>1. InNode(w) \/ InBlock(w) \/ InCall(w)
      BY DEF HeapInv, NothingLost
    <3>2. \E lo, hi : <<lo, hi>> \in Regions /\ lo <= w /\ w < hi
      BY <3>1, RegionKinds DEF InNode, InBlock, InCall, IsNode, IsBlock, IsFlight, IsReturned
    <3>3. PICK r \in Regions : Covers(r, w)
      BY <3>2 DEF Covers
    <3> QED
      BY <3>3, OneOwner
  <2>2. ASSUME NEW a \in live, NEW b \in live, a.addr = b.addr
        PROVE  a = b
    <3>1. /\ a.addr \in Nat /\ BlockEnd(a) \in Nat /\ BlockEnd(a) > a.addr
          /\ b.addr \in Nat /\ BlockEnd(b) \in Nat /\ BlockEnd(b) > b.addr
      BY BlockFacts, WordFacts
    <3>2. a = b \/ BlockEnd(a) <= b.addr \/ BlockEnd(b) <= a.addr
      BY DEF HeapInv, LiveApart
    <3> QED
      BY <2>2, <3>1, <3>2
  <2>3. ASSUME NEW b \in live, b.addr \in listed
        PROVE  FALSE
    <3> DEFINE a == b.addr
    <3>1. a \in Nat /\ BlockEnd(b) \in Nat /\ BlockEnd(b) > a
      BY BlockFacts, WordFacts
    <3>2. EndAddr(a) \in Nat /\ EndAddr(a) > a
      BY <2>3, NodeFacts, WordFacts
    <3>3. BlockEnd(b) <= a \/ EndAddr(a) <= a
      BY <2>3 DEF HeapInv, LiveApart
    <3> HIDE DEF a
    <3> QED
      BY <3>1, <3>2, <3>3
  <2> QED
    BY <2>1, <2>2, <2>3 DEF HeapPartition
<1> QED
  BY <1>1, Invariance, PTL

-----------------------------------------------------------------------------
(* The refinement.                                                          *)

\* The state of HeapAllocator under the mapping of LinkedListAllocator.
AbsFree == IF pc = "boot" THEN Words
           ELSE {w \in Words : \E r \in FreeRegions \union InFlight : Covers(r, w)}

AbsLive == live \union IF pc = "insert" THEN {[addr |-> ret, layout |-> l] : l \in want} ELSE {}
AbsCall == IF pc = "find" THEN want ELSE {}

\* The bytes of a block, as words.
Span(a, n) == {w \in Words : a <= w /\ w < a + n}

\* A step the abstract allocator does not see.
LEMMA AbsStutter ==
    ASSUME AbsFree' = AbsFree, AbsLive' = AbsLive, AbsCall' = AbsCall
    PROVE  UNCHANGED Abstract!vars
BY DEF Abstract!vars, AbsFree, AbsLive, AbsCall

\* A step that is a Request of HeapAllocator ...
LEMMA AbsRequest ==
    ASSUME NEW l \in Layouts, AbsCall = {}, AbsCall' = {l}, AbsFree' = AbsFree, AbsLive' = AbsLive
    PROVE  Abstract!Next
<1>1. Abstract!Request(l)
  BY DEF Abstract!Request, AbsFree, AbsLive, AbsCall
<1> QED
  BY <1>1 DEF Abstract!Next

\* ... a Grant ...
LEMMA AbsGrant ==
    ASSUME NEW l \in Layouts, NEW a \in AbsFree, AbsCall = {l}, AbsCall' = {},
           Span(a, SizeOf(l)) \subseteq AbsFree,
           AbsFree' = AbsFree \ Span(a, SizeOf(l)),
           AbsLive' = AbsLive \union {[addr |-> a, layout |-> l]}
    PROVE  Abstract!Next
<1>1. Abstract!Grant(l, a)
  BY DEF Abstract!Grant, Abstract!Stretch, Span, AbsFree, AbsLive, AbsCall
<1> QED
  BY <1>1 DEF Abstract!Next, AbsFree

\* ... a Release ...
LEMMA AbsRelease ==
    ASSUME NEW b \in AbsLive, AbsCall = {}, AbsCall' = {},
           AbsFree' = AbsFree \union Span(b.addr, SizeOf(b.layout)),
           AbsLive' = AbsLive \ {b}
    PROVE  Abstract!Next
<1>1. Abstract!Release(b)
  BY DEF Abstract!Release, Abstract!Stretch, Span, AbsFree, AbsLive, AbsCall
<1> QED
  BY <1>1 DEF Abstract!Next, AbsLive

\* MaximalAt and Fits of HeapAllocator.
AbsMaximal(a, b) ==
    a < b /\ Span(a, b - a) \subseteq AbsFree /\ a - 8 \notin AbsFree /\ b \notin AbsFree

AbsFits(l) ==
    \E a \in AbsFree : \E w \in AbsFree :
        /\ AbsMaximal(a, w + 8)
        /\ w + 8 - a = SizeOf(l) \/ w + 8 - a >= SizeOf(l) + NodeSize

\* ... or a Refuse.
LEMMA AbsRefuse ==
    ASSUME NEW l \in Layouts, AbsCall = {l}, AbsCall' = {}, ~AbsFits(l),
           AbsFree' = AbsFree, AbsLive' = AbsLive
    PROVE  Abstract!Next
<1>1. Abstract!Refuse(l)
  BY DEF Abstract!Refuse, Abstract!Fits, Abstract!MaximalAt, Abstract!Stretch, Span,
         AbsFits, AbsMaximal, AbsFree, AbsLive, AbsCall
<1> QED
  BY <1>1 DEF Abstract!Next

(* The free words are those of the nodes and of the region in flight.       *)
Flying(w) == pc = "insert" /\ ptr <= w /\ w < ptr + len

FreeWordsExact == pc # "boot" => \A w : w \in AbsFree <=> w \in Words /\ (InNode(w) \/ Flying(w))

\* Which words are free, in this state ...
LEMMA FreeWordsHere == FreeWordsExact
<1> SUFFICES ASSUME pc # "boot", NEW w \in Words
             PROVE  (\E r \in FreeRegions \union InFlight : Covers(r, w)) <=> InNode(w) \/ Flying(w)
  BY DEF FreeWordsExact, AbsFree
<1>1. \A r : r \in FreeRegions \union InFlight <=> IsNode(r) \/ IsFlight(r)
  BY DEF FreeRegions, InFlight, IsNode, IsFlight
<1>2. ASSUME InNode(w) PROVE \E r \in FreeRegions \union InFlight : Covers(r, w)
  <2>1. PICK a \in listed : a <= w /\ w < EndAddr(a)
    BY <1>2 DEF InNode
  <2>2. IsNode(<<a, EndAddr(a)>>) /\ Covers(<<a, EndAddr(a)>>, w)
    BY <2>1 DEF IsNode, Covers
  <2> QED
    BY <1>1, <2>2
<1>3. ASSUME Flying(w) PROVE \E r \in FreeRegions \union InFlight : Covers(r, w)
  <2>1. IsFlight(<<ptr, ptr + len>>) /\ Covers(<<ptr, ptr + len>>, w)
    BY <1>3 DEF Flying, IsFlight, Covers
  <2> QED
    BY <1>1, <2>1
<1>4. ASSUME NEW r, IsNode(r), Covers(r, w) PROVE InNode(w)
  BY <1>4 DEF IsNode, Covers, InNode
<1>5. ASSUME NEW r, IsFlight(r), Covers(r, w) PROVE Flying(w)
  BY <1>5 DEF IsFlight, Covers, Flying
<1> QED
  BY <1>1, <1>2, <1>3, <1>4, <1>5

\* ... and in the next.
LEMMA FreeWords ==
    ASSUME NEW w
    PROVE  /\ pc # "boot" => (w \in AbsFree <=> w \in Words /\ (InNode(w) \/ Flying(w)))
           /\ pc' # "boot" => (w \in AbsFree' <=> w \in Words /\ (InNode(w)' \/ Flying(w)'))
<1>1. FreeWordsExact'
  BY FreeWordsHere, PTL
<1> QED
  BY <1>1, FreeWordsHere DEF FreeWordsExact

(* A step that changes the owner of no word.                                *)
LEMMA SameWords ==
    ASSUME pc # "boot", pc' # "boot",
           \A w \in Words : InNode(w)' \/ Flying(w)' <=> InNode(w) \/ Flying(w)
    PROVE  AbsFree' = AbsFree
<1>1. \A w : w \in AbsFree' <=> w \in AbsFree
  BY FreeWords
<1>2. AbsFree \subseteq Words /\ AbsFree' \subseteq Words
  BY DEF AbsFree
<1> QED
  BY <1>1, <1>2

\* init makes the whole heap free.
LEMMA InitRegionRefines ==
    ASSUME HeapInv, InitRegion
    PROVE  UNCHANGED Abstract!vars
<1>1. /\ pc = "boot" /\ pc' = "insert" /\ ptr' = HeapBase /\ len' = HeapSize /\ want' = {}
      /\ live' = {} /\ live = {}
  BY InitRegionInv DEF InitRegion, AddFreeRegion, HeapInv, Locals
<1>2. AbsFree = Words
  BY <1>1 DEF AbsFree
<1>3. \A w \in Words : Flying(w)'
  BY <1>1, HeapFacts, WordFacts DEF Flying
<1>4. AbsFree' \subseteq Words
  BY DEF AbsFree
<1>5. AbsFree' = Words
  BY <1>1, <1>3, <1>4, FreeWords
<1>6. AbsLive' = AbsLive /\ AbsCall' = AbsCall
  BY <1>1 DEF AbsLive, AbsCall
<1> QED
  BY <1>2, <1>5, <1>6, AbsStutter

\* The call of alloc is a Request.
LEMMA AllocRefines ==
    ASSUME HeapInv, NEW l \in Layouts, Alloc(l)
    PROVE  Abstract!Next
<1>1. /\ pc = "idle" /\ pc' = "find" /\ want' = {l}
      /\ UNCHANGED <<next, size, listed, live>>
  BY DEF Alloc
<1>2. AbsFree' = AbsFree
  BY <1>1, SameWords DEF InNode, EndAddr, Flying
<1>3. AbsLive' = AbsLive /\ AbsCall = {} /\ AbsCall' = {l}
  BY <1>1 DEF AbsLive, AbsCall
<1> QED
  BY <1>2, <1>3, AbsRequest

\* The call of dealloc is a Release.
LEMMA DeallocRefines ==
    ASSUME HeapInv, NEW b \in live, Dealloc(b)
    PROVE  Abstract!Next
<1>1. /\ pc = "idle" /\ pc' = "insert" /\ ptr' = b.addr /\ len' = SizeOf(b.layout)
      /\ live' = live \ {b} /\ UNCHANGED <<next, size, listed, want>> /\ want = {}
  BY DeallocInv DEF Dealloc, AddFreeRegion, HeapInv, Locals
<1>2. \A w \in Words : /\ InNode(w)' <=> InNode(w)
                       /\ ~Flying(w)
                       /\ Flying(w)' <=> w \in Span(b.addr, SizeOf(b.layout))
  BY <1>1 DEF InNode, EndAddr, Flying, Span
<1>3. \A w : w \in AbsFree' <=> w \in AbsFree \union Span(b.addr, SizeOf(b.layout))
  BY <1>1, <1>2, FreeWords DEF Span
<1>4. AbsFree' = AbsFree \union Span(b.addr, SizeOf(b.layout))
  BY <1>3
<1>5. AbsLive = live /\ AbsLive' = live \ {b} /\ AbsCall = {} /\ AbsCall' = {}
  BY <1>1 DEF AbsLive, AbsCall
<1> QED
  BY <1>4, <1>5, AbsRelease

(* Null is returned only when no maximal stretch of free words would do: a  *)
(* maximal stretch is a single node, because touching nodes were merged,    *)
(* and find_region has looked at every node.                                *)
LEMMA StretchIsNode ==
    ASSUME HeapInv, pc = "find", NEW a \in AbsFree, NEW w \in AbsFree, AbsMaximal(a, w + 8)
    PROVE  a \in listed /\ EndAddr(a) = w + 8
<1>1. /\ a \in Words /\ w \in Words /\ InNode(a) /\ InNode(w)
      /\ a \in Nat /\ w \in Nat /\ a % 8 = 0 /\ w % 8 = 0 /\ a >= HeapBase /\ w < HeapEnd
  BY FreeWords, WordFacts DEF Flying
<1>2. \A v \in Words : v \in AbsFree <=> InNode(v)
  BY FreeWords DEF Flying
<1>3. /\ a < w + 8 /\ a - 8 \notin AbsFree /\ w + 8 \notin AbsFree
      /\ \A v \in Words : a <= v /\ v < w + 8 => v \in AbsFree
  <2>1. a < w + 8 /\ Span(a, (w + 8) - a) \subseteq AbsFree
        /\ a - 8 \notin AbsFree /\ w + 8 \notin AbsFree
    BY DEF AbsMaximal
  <2>2. a + ((w + 8) - a) = w + 8
    BY <1>1
  <2> QED
    BY <2>1, <2>2 DEF Span
<1>4. PICK x \in listed : x <= a /\ a < EndAddr(x)
  BY <1>1 DEF InNode
<1>5. /\ x \in Words /\ x \in Nat /\ x % 8 = 0 /\ x >= HeapBase
      /\ EndAddr(x) \in Nat /\ EndAddr(x) % 8 = 0 /\ EndAddr(x) <= HeapEnd
      /\ EndAddr(x) >= x + 16
  BY NodeFacts, WordFacts
<1>6. x = a
  <2> SUFFICES ASSUME x # a PROVE FALSE
    OBVIOUS
  <2>1. a - 8 \in Int /\ a - 8 >= x /\ a - 8 < EndAddr(x) /\ (a - 8) % 8 = 0
    BY <1>1, <1>4, <1>5
  <2>2. a - 8 \in Words
    BY <1>1, <1>5, <2>1, HeapFacts, WordIntro
  <2> QED
    BY <1>2, <1>3, <2>1, <2>2 DEF InNode
<1> DEFINE e == EndAddr(a)
<1>7. a \in listed /\ e \in Nat /\ e % 8 = 0 /\ e <= HeapEnd /\ e >= a + 16
  BY <1>5, <1>6
<1> HIDE DEF e
<1>8. ~(w + 8 < e)
  <2> SUFFICES ASSUME w + 8 < e PROVE FALSE
    OBVIOUS
  <2>1. w + 8 \in Int /\ (w + 8) % 8 = 0 /\ w + 8 >= a
    BY <1>1, <1>3
  <2>2. w + 8 \in Words
    BY <1>1, <1>7, <2>1, HeapFacts, WordIntro
  <2>3. InNode(w + 8)
    BY <1>7, <2>1 DEF InNode, e
  <2> QED
    BY <1>2, <1>3, <2>2, <2>3
<1>9. ~(e < w + 8)
  <2> SUFFICES ASSUME e < w + 8 PROVE FALSE
    OBVIOUS
  <2>1. e < HeapEnd
    BY <1>1, <1>7, HeapFacts
  <2>2. e \in Words
    BY <1>1, <1>7, <2>1, HeapFacts, WordIntro
  <2>3. InNode(e)
    BY <1>1, <1>2, <1>3, <1>7, <2>2
  <2>4. PICK y \in listed : y <= e /\ e < EndAddr(y)
    BY <2>3 DEF InNode
  <2>5. y \in Nat /\ EndAddr(y) \in Nat
    BY NodeFacts, WordFacts
  <2>6. (y < a => EndAddr(y) <= a) /\ (a < y => e <= y)
    BY <1>7 DEF HeapInv, FreeApart, e
  <2>7. y # a
    BY <1>7, <2>4 DEF e
  <2>8. y = e
    BY <1>1, <1>7, <2>4, <2>5, <2>6, <2>7
  <2>9. e \notin listed
    BY <1>7 DEF HeapInv, Merged, NoneTouch, e
  <2> QED
    BY <2>8, <2>9
<1> QED
  BY <1>1, <1>7, <1>8, <1>9 DEF e

\* The end of the list is a Refuse: no node fits, so no free run does.
LEMMA FindFailsRefines ==
    ASSUME \A l \in Layouts : l.align <= NodeAlign, HeapInv, FindFails
    PROVE  Abstract!Next
<1>1. /\ pc = "find" /\ next[cur] = None /\ pc' = "idle" /\ want' = {}
      /\ UNCHANGED <<next, size, listed, live>>
  BY DEF FindFails, Return
<1>2. PICK l \in Layouts : want = {l}
  BY <1>1 DEF HeapInv, Locals
<1>3. \A a \in listed : ~Suitable(a, l)
  <2>1. \A a \in listed : a <= cur
    BY <1>1, OrderedIsEnough DEF HeapInv, Ordered, TypeOK
  <2> QED
    BY <1>1, <1>2, <2>1 DEF HeapInv, SearchedInVain
<1>4. ~AbsFits(l)
  <2> SUFFICES ASSUME NEW a \in AbsFree, NEW w \in AbsFree, AbsMaximal(a, w + 8),
                      w + 8 - a = SizeOf(l) \/ w + 8 - a >= SizeOf(l) + NodeSize
               PROVE  FALSE
    BY DEF AbsFits
  <2>1. a \in listed /\ EndAddr(a) = w + 8
    BY <1>1, StretchIsNode
  <2>2. a \in Words /\ a \in Nat /\ EndAddr(a) \in Nat /\ SizeOf(l) \in Nat /\ w \in Nat
    <3>1. a \in Words /\ EndAddr(a) \in Nat
      BY <2>1, NodeFacts
    <3>2. a \in Nat /\ w \in Nat
      BY <1>1, <3>1, FreeWords, WordFacts
    <3> QED
      BY <3>1, <3>2, LayoutFacts
  <2>3. EndAddr(a) = a + SizeOf(l) \/ EndAddr(a) >= a + SizeOf(l) + NodeSize
    BY <2>1, <2>2
  <2>4. Suitable(a, l)
    BY <2>2, <2>3, SuitableExact
  <2> QED
    BY <1>3, <2>1, <2>4
<1>5. AbsFree' = AbsFree
  BY <1>1, SameWords DEF InNode, EndAddr, Flying
<1>6. AbsLive' = AbsLive /\ AbsCall = {l} /\ AbsCall' = {}
  BY <1>1, <1>2 DEF AbsLive, AbsCall
<1> QED
  BY <1>4, <1>5, <1>6, AbsRefuse

\* A node that is found is a Grant: the block is taken from the free words.
LEMMA FindGrants ==
    ASSUME \A l \in Layouts : l.align <= NodeAlign, HeapInv,
           NEW l \in Layouts, FindExact(l) \/ FindSplit(l)
    PROVE  Abstract!Next
<1> DEFINE n == next[cur]
           cut == n + SizeOf(l)
<1>1. /\ pc = "find" /\ n # None /\ want = {l} /\ Suitable(n, l) /\ Unlink(n)
  BY DEF FindExact, FindSplit
<1>2. /\ n \in listed /\ n \in Words /\ n \in Nat
      /\ EndAddr(n) \in Nat /\ SizeOf(l) \in Nat /\ SizeOf(l) >= 16 /\ cut <= EndAddr(n)
      /\ \A a \in listed : a = n \/ EndAddr(a) <= n \/ EndAddr(n) <= a
  BY <1>1, FoundNode
<1>3. /\ listed' = listed \ {n}
      /\ \A a \in listed' : EndAddr(a)' = EndAddr(a)
  BY <1>1, UnlinkHeap DEF EndAddr
<1>4. \/ pc' = "idle" /\ EndAddr(n) = cut /\ live' = live \union {[addr |-> n, layout |-> l]}
      \/ /\ pc' = "insert" /\ ret' = n /\ want' = want /\ live' = live
         /\ ptr' = cut /\ len' = EndAddr(n) - cut
  BY FindSplitInv DEF FindExact, FindSplit, Return, AddFreeRegion
<1>5. AbsLive = live /\ AbsLive' = live \union {[addr |-> n, layout |-> l]}
      /\ AbsCall = {l} /\ AbsCall' = {}
  BY <1>1, <1>4 DEF AbsLive, AbsCall
<1> HIDE DEF n
<1>6. /\ cut \in Nat /\ pc # "boot" /\ pc' # "boot"
      /\ \A w : ~Flying(w)
  BY <1>1, <1>2, <1>4 DEF Flying
<1>7. \A w \in Words : n <= w /\ w < EndAddr(n) => InNode(w)
  BY <1>2 DEF InNode
<1>8. Span(n, SizeOf(l)) \subseteq AbsFree
  <2> SUFFICES ASSUME NEW w \in Span(n, SizeOf(l)) PROVE w \in AbsFree
    OBVIOUS
  <2>1. w \in Words /\ w \in Nat /\ n <= w /\ w < EndAddr(n)
    BY <1>2, <1>6, WordFacts DEF Span
  <2> QED
    BY <1>6, <1>7, <2>1, FreeWords
<1>9. ASSUME NEW w \in Words
      PROVE  InNode(w)' \/ Flying(w)' <=> InNode(w) /\ w \notin Span(n, SizeOf(l))
  <2>1. w \in Nat /\ \A a \in listed : a \in Nat /\ EndAddr(a) \in Nat
    BY NodeFacts, WordFacts
  <2>2. ASSUME InNode(w)' PROVE InNode(w) /\ w \notin Span(n, SizeOf(l))
    <3>1. PICK a \in listed' : a <= w /\ w < EndAddr(a)'
      BY <2>2 DEF InNode
    <3>2. a \in listed /\ a # n /\ w < EndAddr(a)
      BY <1>3, <3>1
    <3>3. EndAddr(a) <= n \/ EndAddr(n) <= a
      BY <1>2, <3>2
    <3>4. a \in Nat /\ EndAddr(a) \in Nat
      BY <2>1, <3>2
    <3>5. ~(n <= w /\ w < cut)
      BY <1>2, <1>6, <2>1, <3>1, <3>2, <3>3, <3>4
    <3> QED
      BY <3>1, <3>2, <3>5 DEF InNode, Span
  <2>3. ASSUME Flying(w)' PROVE InNode(w) /\ w \notin Span(n, SizeOf(l))
    <3>1. cut <= w /\ w < cut + (EndAddr(n) - cut)
      BY <1>4, <2>3 DEF Flying
    <3>2. n <= w /\ w < EndAddr(n) /\ ~(w < cut)
      BY <1>2, <1>6, <2>1, <3>1
    <3> QED
      BY <1>7, <3>2 DEF Span
  <2>4. ASSUME InNode(w), w \notin Span(n, SizeOf(l)) PROVE InNode(w)' \/ Flying(w)'
    <3>1. PICK a \in listed : a <= w /\ w < EndAddr(a)
      BY <2>4 DEF InNode
    <3>2. CASE a # n
      BY <1>3, <3>1, <3>2 DEF InNode
    <3>3. CASE a = n
      <4>1. cut <= w /\ w < EndAddr(n)
        BY <1>2, <1>6, <2>1, <2>4, <3>1, <3>3 DEF Span
      <4>2. EndAddr(n) # cut /\ w < cut + (EndAddr(n) - cut)
        BY <1>2, <1>6, <2>1, <4>1
      <4> QED
        BY <1>4, <4>1, <4>2 DEF Flying
    <3> QED
      BY <3>2, <3>3
  <2> QED
    BY <2>2, <2>3, <2>4
<1>10. \A w : w \in AbsFree' <=> w \in AbsFree \ Span(n, SizeOf(l))
  BY <1>6, <1>9, FreeWords
<1>11. AbsFree' = AbsFree \ Span(n, SizeOf(l))
  BY <1>10
<1>12. n \in AbsFree
  BY <1>2, <1>6, <1>7, FreeWords
<1> QED
  BY <1>5, <1>8, <1>11, <1>12, AbsGrant

\* Linking a region changes nothing a caller sees.
LEMMA InsertRefines ==
    ASSUME HeapInv, Insert
    PROVE  UNCHANGED Abstract!vars
<1>1. CASE InsertAdvance
  <2>1. AbsFree' = AbsFree
    BY <1>1, SameWords DEF InsertAdvance, InNode, Flying, EndAddr
  <2>2. AbsLive' = AbsLive /\ AbsCall' = AbsCall
    BY <1>1 DEF InsertAdvance, AbsLive, AbsCall
  <2> QED
    BY <2>1, <2>2, AbsStutter
<1>2. CASE InsertReturn \/ InsertCoalesce
  <2>1. pc = "insert" /\ Link /\ pc' \in {"idle", "coalesce"}
    BY <1>2 DEF InsertReturn, InsertCoalesce, Link, Return
  <2>2. /\ listed' = listed \union {ptr} /\ ptr \notin listed
        /\ \A a \in listed' : EndAddr(a)' = IF a = ptr THEN ptr + len ELSE EndAddr(a)
    BY <2>1, LinkHeap
  <2>3. ASSUME NEW w \in Words
        PROVE  InNode(w)' \/ Flying(w)' <=> InNode(w) \/ Flying(w)
    <3>1. \E a \in listed' : a = ptr
      BY <2>2
    <3>2. InNode(w) \/ Flying(w) => InNode(w)'
      BY <2>2, <3>1 DEF InNode, Flying
    <3>3. InNode(w)' => InNode(w) \/ Flying(w)
      BY <2>1, <2>2 DEF InNode, Flying
    <3> QED
      BY <2>1, <3>2, <3>3 DEF Flying
  <2>4. AbsFree' = AbsFree
    BY <2>1, <2>3, SameWords
  <2>5. AbsLive' = AbsLive
    <3>1. CASE InsertReturn
      BY <2>1, <3>1 DEF InsertReturn, Return, AbsLive
    <3>2. CASE InsertCoalesce
      BY <2>1, <3>2 DEF InsertCoalesce, AbsLive, HeapInv, Locals
    <3> QED
      BY <1>2, <3>1, <3>2
  <2>6. AbsCall' = AbsCall
    BY <2>1 DEF AbsCall
  <2> QED
    BY <2>4, <2>5, <2>6, AbsStutter
<1> QED
  BY <1>1, <1>2 DEF Insert

\* Merging nodes changes nothing a caller sees.
LEMMA CoalesceRefines ==
    ASSUME HeapInv, Coalesce
    PROVE  UNCHANGED Abstract!vars
<1>1. pc = "coalesce" /\ pc' \in {"idle", "coalesce"} /\ live' = live
  BY DEF Coalesce, CoalesceMerge, CoalesceAdvance, CoalesceDone, Return
<1>2. AbsLive' = AbsLive /\ AbsCall' = AbsCall
  BY <1>1 DEF AbsLive, AbsCall
<1>3. CASE UNCHANGED <<size, listed>>
  <2>1. AbsFree' = AbsFree
    BY <1>1, <1>3, SameWords DEF InNode, Flying, EndAddr
  <2> QED
    BY <1>2, <2>1, AbsStutter
<1>4. CASE CoalesceMerge
  <2> DEFINE n == next[cur]
  <2>1. /\ cur \in listed /\ n \in listed /\ cur < n /\ EndAddr(cur) = n
        /\ \A a \in listed : a \in Nat /\ EndAddr(a) \in Nat /\ EndAddr(a) >= a + 16
        /\ listed' = listed \ {n}
        /\ \A a \in listed' : EndAddr(a)' = IF a = cur THEN EndAddr(n) ELSE EndAddr(a)
    BY <1>4, MergedNodes
  <2> HIDE DEF n
  <2>2. ASSUME NEW w \in Words
        PROVE  InNode(w)' <=> InNode(w)
    <3>1. w \in Nat /\ cur \in listed' /\ cur \in Nat /\ n \in Nat /\ EndAddr(n) \in Nat
      BY <2>1, WordFacts
    <3>2. ASSUME InNode(w) PROVE InNode(w)'
      <4>1. PICK a \in listed : a <= w /\ w < EndAddr(a)
        BY <3>2 DEF InNode
      <4>2. CASE a \in {cur, n}
        <5>1. cur <= w /\ w < EndAddr(n)
          BY <2>1, <3>1, <4>1, <4>2
        <5>2. \E c \in listed' : c = cur /\ EndAddr(c)' = EndAddr(n)
          BY <2>1, <3>1
        <5> QED
          BY <5>1, <5>2 DEF InNode
      <4>3. CASE a \notin {cur, n}
        BY <2>1, <4>1, <4>3 DEF InNode
      <4> QED
        BY <4>2, <4>3
    <3>3. ASSUME InNode(w)' PROVE InNode(w)
      <4>1. PICK a \in listed' : a <= w /\ w < EndAddr(a)'
        BY <3>3 DEF InNode
      <4>2. CASE a = cur
        <5>1. (cur <= w /\ w < EndAddr(cur)) \/ (n <= w /\ w < EndAddr(n))
          BY <2>1, <3>1, <4>1, <4>2
        <5> QED
          BY <2>1, <5>1 DEF InNode
      <4>3. CASE a # cur
        BY <2>1, <4>1, <4>3 DEF InNode
      <4> QED
        BY <4>2, <4>3
    <3> QED
      BY <3>2, <3>3
  <2>3. AbsFree' = AbsFree
    BY <1>1, <2>2, SameWords DEF Flying
  <2> QED
    BY <1>2, <2>3, AbsStutter
<1> QED
  BY <1>3, <1>4 DEF Coalesce, CoalesceAdvance, CoalesceDone

\* The assertions of add_free_region have held.
NoPanic == pc # "panic"

\* No step panics.
LEMMA NextNoPanic ==
    ASSUME \A l \in Layouts : l.align <= NodeAlign, HeapInv, NoPanic, [Next]_vars
    PROVE  NoPanic'
<1> USE DEF NoPanic
<1>1. CASE InitRegion \/ \E b \in live : Dealloc(b)
  BY <1>1, InitRegionInv, DeallocInv
<1>2. CASE \E l \in Layouts : FindSplit(l)
  BY <1>2, FindSplitInv
<1>3. CASE FindSkip \/ FindFails \/ (\E l \in Layouts : FindExact(l) \/ Alloc(l))
  BY <1>3 DEF FindSkip, FindFails, FindExact, Alloc, Return
<1>4. CASE Insert \/ Coalesce
  BY <1>4 DEF Insert, InsertAdvance, InsertReturn, InsertCoalesce, Link,
              Coalesce, CoalesceMerge, CoalesceAdvance, CoalesceDone, Return
<1>5. CASE UNCHANGED vars
  BY <1>5 DEF vars
<1> QED
  BY <1>1, <1>2, <1>3, <1>4, <1>5 DEF Next, Step, Find

\* Every step is one of HeapAllocator, or none.
LEMMA NextRefines ==
    ASSUME \A l \in Layouts : l.align <= NodeAlign, HeapInv, [Next]_vars
    PROVE  [Abstract!Next]_Abstract!vars
<1>1. CASE UNCHANGED vars
  <2>1. AbsFree' = AbsFree /\ AbsLive' = AbsLive /\ AbsCall' = AbsCall
    BY <1>1 DEF vars, AbsFree, AbsLive, AbsCall, FreeRegions, InFlight, EndAddr
  <2> QED
    BY <2>1, AbsStutter
<1>2. CASE FindSkip
  <2>1. AbsFree' = AbsFree /\ AbsLive' = AbsLive /\ AbsCall' = AbsCall
    BY <1>2 DEF FindSkip, AbsFree, AbsLive, AbsCall, FreeRegions, InFlight, EndAddr
  <2> QED
    BY <2>1, AbsStutter
<1>3. CASE FindFails \/ \E l \in Layouts : FindExact(l) \/ FindSplit(l)
  BY <1>3, FindFailsRefines, FindGrants
<1>4. CASE InitRegion \/ Insert \/ Coalesce
  BY <1>4, InitRegionRefines, InsertRefines, CoalesceRefines
<1>5. CASE (\E l \in Layouts : Alloc(l)) \/ (\E b \in live : Dealloc(b))
  BY <1>5, AllocRefines, DeallocRefines
<1> QED
  BY <1>1, <1>2, <1>3, <1>4, <1>5 DEF Next, Step, Find

(* For layouts no stricter than a node no call panics, whatever the order   *)
(* of the calls.                                                            *)
THEOREM NoCallPanics ==
    ASSUME \A l \in Layouts : l.align <= NodeAlign
    PROVE  Spec => []NoPanic
<1>1. Init => NoPanic
  BY DEF Init, NoPanic
<1>2. HeapInv /\ NoPanic /\ [Next]_vars => NoPanic'
  BY NextNoPanic
<1> QED
  BY <1>1, <1>2, Invariance, PTL DEF Spec

(* For layouts no stricter than a node the list implements the abstract     *)
(* heap: every block is cut from free memory, and null is returned only     *)
(* when no maximal free stretch can be cut to the size.                     *)
THEOREM ListImplementsHeap ==
    ASSUME \A l \in Layouts : l.align <= NodeAlign
    PROVE  Spec => ImplementsHeapAllocator
<1>1. Init => Abstract!Init
  BY DEF Init, Abstract!Init
<1>2. HeapInv /\ [Next]_vars => [Abstract!Next]_Abstract!vars
  BY NextRefines
<1> QED
  BY <1>1, <1>2, Invariance, PTL DEF Spec, ImplementsHeapAllocator, Abstract!Spec
=============================================================================
