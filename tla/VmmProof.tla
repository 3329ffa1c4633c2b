------------------------------ MODULE VmmProof ------------------------------
(***************************************************************************)
(* Proofs about Vmm, for every machine that MachineOK describes: every     *)
(* size of a table, both paging levels, with and without 1 GiB pages.      *)
(***************************************************************************)
EXTENDS Vmm, FiniteSetTheorems, SequenceTheorems, WellFoundedInduction, TLAPS

\* The level of the root's entries.
RootLevel == machine.levels - 1

(* The pages an entry of level l stands for, and those of all of a table   *)
(* of level l - 1; the number of the block of that size that v is in.      *)
Span(l) ==
    IF l = 0 THEN 1 ELSE IF l = 1 THEN E ELSE IF l = 2 THEN E * E
    ELSE IF l = 3 THEN E * E * E ELSE IF l = 4 THEN E * E * E * E ELSE E * E * E * E * E

Block(v, l) == v \div Span(l)

\* The gigabyte that block b of level l is in.
GibOf(l, b) == IF l = 0 THEN (b \div E) \div E ELSE IF l = 1 THEN b \div E ELSE b

\* The gigabyte the kernel is linked in.
KernelGib == Block(machine.kernel_virt, 2)

\* The level of the large pages that the direct map is made of.
DirectLevel == IF machine.gib THEN 2 ELSE 1

(* What vmm_init relies on.  The boot protocol puts the direct map below   *)
(* the kernel, in other gigabytes, and both in the address space; the      *)
(* allocator's free pages are memory the direct map covers, without page 0. *)
MachineOK ==
    /\ E \in Nat /\ E > 1 /\ LOW \in Nat
    /\ machine.levels \in {4, 5} /\ machine.gib \in BOOLEAN
    /\ machine.hhdm \in Nat /\ machine.kernel_virt \in Nat /\ machine.kernel_phys \in Nat
    /\ machine.hhdm % Span(2) = 0
    /\ machine.kernel_virt < Span(machine.levels)
    /\ machine.memmap \in Seq([base : Nat, length : Nat, type : STRING])
    /\ machine.memmap # << >>
    /\ \A p \in DirectPages : Block(machine.hhdm + p, 2) < KernelGib
    /\ \A k \in DOMAIN machine.memmap : machine.memmap[k].type = "kernel" =>
          machine.kernel_virt + machine.memmap[k].length <= Span(machine.levels)
    /\ machine.free \subseteq DirectPages \ {0}
    /\ IsFiniteSet(machine.free)
    /\ machine.last_used_page_idx \in Int
    /\ machine.highest_page_idx \in Nat \ {0}

-----------------------------------------------------------------------------
(* The tree of page tables.  Table p stands for block px[p] of level       *)
(* lv[p] + 1, and its entry x for block px[p] * E + x of level lv[p].       *)

\* The tables are free pages of E entries.
Entries == 0 .. (E - 1)

Shape ==
    /\ DOMAIN tables \subseteq machine.free
    /\ \A p \in DOMAIN tables : tables[p] \in [Entries -> [valid : BOOLEAN, large : BOOLEAN, addr : Nat]]

\* Every table has a place, and no two tables have the same.
Placed(lv, px) ==
    /\ lv \in [DOMAIN tables -> 0 .. RootLevel] /\ px \in [DOMAIN tables -> Nat]
    /\ root \in DOMAIN tables /\ lv[root] = RootLevel /\ px[root] = 0
    /\ \A p, q \in DOMAIN tables : lv[p] = lv[q] /\ px[p] = px[q] => p = q

\* An entry that is not a leaf leads to the table whose place it stands for.
Leads(lv, px) ==
    \A p \in DOMAIN tables, x \in Entries :
      LET e == tables[p][x] IN
      e.valid /\ ~IsLeaf(e, lv[p]) =>
        /\ e.addr \in DOMAIN tables
        /\ lv[e.addr] = lv[p] - 1
        /\ px[e.addr] = px[p] * E + x

\* Every table but the root hangs from an entry.
Hangs(lv) ==
    \A q \in DOMAIN tables \ {root} : \E p \in DOMAIN tables, x \in Entries :
       is_table(tables[p][x]) /\ lv[p] = lv[q] + 1 /\ tables[p][x].addr = q

\* A leaf is a large page of the direct map below the kernel's gigabyte, or a
\* page of the kernel.
LeafOK(l, b, e) ==
    \/ /\ e.large /\ l = DirectLevel
       /\ GibOf(l, b) < KernelGib
       /\ e.addr + machine.hhdm = b * Span(l)
    \/ /\ ~e.large /\ l = 0
       /\ GibOf(l, b) >= KernelGib
       /\ e.addr + machine.kernel_virt = machine.kernel_phys + b

\* Every leaf is one of those.
Leaves(lv, px) ==
    \A p \in DOMAIN tables, x \in Entries :
       IsLeaf(tables[p][x], lv[p]) => LeafOK(lv[p], px[p] * E + x, tables[p][x])

\* Tables below the level of the large pages are the kernel's.
Fine(lv, px) ==
    \A p \in DOMAIN tables : lv[p] < DirectLevel => GibOf(lv[p] + 1, px[p]) >= KernelGib

\* All of it, for the places lv and px.
Tree(lv, px) ==
    /\ Shape
    /\ Placed(lv, px) /\ Leads(lv, px) /\ Hangs(lv)
    /\ Leaves(lv, px) /\ Fine(lv, px)

-----------------------------------------------------------------------------
(* The vmm_map calls under way.                                            *)

\* A call maps a part of the direct map, or a page of the kernel.
Directs(c) ==
    /\ c.phys + machine.hhdm = c.virt
    /\ Block(c.virt, 2) < KernelGib
    /\ c.virt % Span(c.size) = 0

MapsKernel(c) ==
    /\ c.phys + machine.kernel_virt = machine.kernel_phys + c.virt
    /\ Block(c.virt, 2) >= KernelGib

\* The types of a call.
CallSet == [virt : Nat, phys : Nat, size : 0 .. 2, dir : Nat, level : 0 .. 4, i : Nat]

\* A call of 4 KiB is for the kernel, a larger one for the direct map.
CallOK(c) ==
    /\ c \in CallSet
    /\ c.virt < Span(machine.levels)
    /\ c.level \in c.size .. RootLevel
    /\ IF c.size = 0 THEN MapsKernel(c) ELSE Directs(c)

\* It stands at the table for its address.
Stands(lv, px, c) ==
    /\ c.dir \in DOMAIN tables
    /\ lv[c.dir] = c.level
    /\ px[c.dir] = Block(c.virt, c.level + 1)

\* The loop of 2 MiB calls has one of them under way, or none.
StackOK ==
    /\ calls \in Seq(CallSet)
    /\ Len(calls) \in 0 .. 2
    /\ \A n \in 1 .. Len(calls) : CallOK(calls[n])
    /\ calls # << >> => /\ phase \in {"low", "kernel", "high"}
                        /\ calls[1].size # 1
                        /\ calls[1].i % E = 0 /\ calls[1].i <= Span(2)
                        /\ calls[1].i > 0 => Spills(calls[1]) /\ calls[1].level = calls[1].size
    /\ Len(calls) = 2 => /\ calls[1].i > 0
                         /\ calls[2].size = 1 /\ calls[2].i = 0
                         /\ calls[2].virt + E = calls[1].virt + calls[1].i

-----------------------------------------------------------------------------
(* What is mapped.                                                         *)

\* The pages that the outermost call has yet to map.
Front == IF Len(calls) = 2 THEN calls[2].virt ELSE calls[1].virt + calls[1].i

\* Page v is one of them.
Pending(v) ==
    calls # << >> /\ Front <= v /\ v < calls[1].virt + Span(calls[1].size)

\* It is mapped, or about to be.
Due(v) == v \in VirtualPages /\ (Translate(root, v) # NoPage \/ Pending(v))

\* The first loop: pages below its offset, in the end the first 4 GiB.
LowDue ==
    \A p \in Nat :
      (IF phase = "low" THEN p < i ELSE Block(p, 2) * Span(2) < LOW) => Due(machine.hhdm + p)

\* Entry k of the memory map has been seen in a phase, or page j of it has.
Seen(loop, after, k, begun) == phase \in after \/ (phase = loop /\ (k < at \/ (k = at /\ begun)))

\* The second loop: the pages of the kernel's entries that it has seen.
KernelDue ==
    \A k \in DOMAIN machine.memmap : \A j \in Nat :
      /\ machine.memmap[k].type = "kernel" /\ j < machine.memmap[k].length
      /\ Seen("kernel", {"high", "switch", "done"}, k, j < i)
      => Due(machine.kernel_virt + j)

\* The memory above 4 GiB of an entry.
HighBase(e) == IF e.base < LOW THEN LOW ELSE e.base
HighPages(e) ==
    IF e.type \in {"reserved", "bad"} THEN {} ELSE HighBase(e) .. (e.base + e.length - 1)

\* The third loop: the gigabytes, of the entries it has seen, with memory in them.
HighDue ==
    \A k \in DOMAIN machine.memmap : \A q \in HighPages(machine.memmap[k]) : \A p \in Nat :
      /\ Block(p, 2) = Block(q, 2)
      /\ Seen("high", {"switch", "done"}, k,
              p < Block(HighBase(machine.memmap[k]), 2) * Span(2) + i)
      => Due(machine.hhdm + p)

-----------------------------------------------------------------------------
(* The inductive invariant.                                                *)

\* Where the loops stand; the MMU has the loader's tables until the switch.
Types ==
    /\ phase \in {"root", "low", "kernel", "high", "switch", "done", "wild"}
    /\ at \in 1 .. Len(machine.memmap) /\ i \in Nat
    /\ phase = "root" => i = 0
    /\ phase \in {"root", "low"} => at = 1
    /\ phase \in {"low", "high"} => i % Span(2) = 0
    /\ cr3 = IF phase = "done" THEN root ELSE NoPage

\* There is no table, or a tree of them for which some places exist, with every
\* call under way at its table.
Unbuilt == root = NoPage /\ tables = << >> /\ calls = << >> /\ phase \in {"root", "wild"}

Stand(lv, px) == \A n \in 1 .. Len(calls) : Stands(lv, px, calls[n])

Built == phase # "root" /\ \E lv, px : Tree(lv, px) /\ Stand(lv, px)

\* Once the root is there, what the loops have been through is due.
SpaceInv ==
    /\ Types
    /\ Unbuilt \/ Built
    /\ StackOK
    /\ phase \notin {"root", "wild"} => LowDue /\ KernelDue /\ HighDue

-----------------------------------------------------------------------------
(* Arithmetic.                                                             *)

\* Quotient and remainder are unique.
LEMMA DivUnique ==
    ASSUME NEW n \in Nat, NEW d \in Nat, d > 0, NEW r \in 0 .. (d - 1)
    PROVE  (n * d + r) \div d = n /\ (n * d + r) % d = r
<1> DEFINE v == n * d + r
           q == v \div d
           s == v % d
<1>1. n * d \in Nat
  OBVIOUS
<1>2. v \in Nat /\ q \in Nat /\ s \in 0 .. (d - 1) /\ v = d * q + s
  BY <1>1
<1>3. d * (q - n) = r - s
  <2>1. d * (q - n) = d * q - n * d
    BY <1>2
  <2> QED BY <1>1, <1>2, <2>1
<1>4. q = n
  <2>1. ASSUME q > n PROVE FALSE
    <3>1. d * (q - n) >= d
      <4>1. q - n - 1 \in Nat /\ d * (q - n - 1) >= 0
        BY <1>2, <2>1
      <4>2. d * (q - n - 1) = d * (q - n) - d
        BY <1>2
      <4> QED BY <4>1, <4>2
    <3> QED BY <1>2, <1>3, <3>1
  <2>2. ASSUME q < n PROVE FALSE
    <3>1. d * (q - n) <= -d
      <4>1. n - q - 1 \in Nat /\ d * (n - q - 1) >= 0
        BY <1>2, <2>2
      <4>2. d * (n - q - 1) = -(d * (q - n)) - d
        BY <1>2
      <4> QED BY <4>1, <4>2
    <3> QED BY <1>2, <1>3, <3>1
  <2> QED BY <1>2, <2>1, <2>2
<1> QED
  BY <1>1, <1>2, <1>4

\* A quotient and a remainder.
LEMMA DivMod ==
    ASSUME NEW v \in Nat, NEW d \in Nat, d > 0
    PROVE  /\ v \div d \in Nat /\ v % d \in 0 .. (d - 1)
           /\ v = (v \div d) * d + (v % d)
<1> DEFINE q == v \div d
           r == v % d
<1>1. q \in Nat
  OBVIOUS
<1>2. r \in 0 .. (d - 1)
  OBVIOUS
<1>3. v = d * q + r
  OBVIOUS
<1> HIDE DEF q, r
<1>4. d * q = q * d
  BY <1>1
<1>5. v = q * d + r
  BY <1>3, <1>4
<1> QED
  BY <1>1, <1>2, <1>5 DEF q, r

\* Dividing twice.
LEMMA DivTwice ==
    ASSUME NEW v \in Nat, NEW a \in Nat, a > 0, NEW e \in Nat, e > 0
    PROVE  v \div (a * e) = (v \div a) \div e
<1> DEFINE q == v \div a
           r == v % a
           n == q \div e
           m == q % e
<1>1. q \in Nat /\ r \in 0 .. (a - 1) /\ v = q * a + r
  BY DivMod
<1>2. n \in Nat /\ m \in 0 .. (e - 1) /\ q = n * e + m
  BY <1>1, DivMod
<1> HIDE DEF q, r, n, m
<1>3. a * e \in Nat /\ a * e > 0
  OBVIOUS
<1>4. v = n * (a * e) + (m * a + r)
  <2>1. q * a = n * (a * e) + m * a
    BY <1>2
  <2> QED BY <1>1, <2>1, <1>2
<1>5. m * a + r \in 0 .. (a * e - 1)
  <2>1. (e - 1 - m) * a >= 0 /\ m * a >= 0
    BY <1>2
  <2>2. (e - 1 - m) * a = a * e - a - m * a
    BY <1>2
  <2>3. m * a \in Int
    BY <1>2
  <2> QED BY <1>1, <2>1, <2>2, <2>3, <1>3
<1>6. v \div (a * e) = n
  BY <1>2, <1>3, <1>4, <1>5, DivUnique
<1> QED
  BY <1>6 DEF n, q

\* Quotients are monotone.
LEMMA DivMono ==
    ASSUME NEW v \in Nat, NEW w \in Nat, v <= w, NEW d \in Nat, d > 0
    PROVE  v \div d <= w \div d
<1> DEFINE q == v \div d
           p == w \div d
           r == v % d
           s == w % d
           qd == q * d
           pd == p * d
<1>1. q \in Nat /\ r \in Nat /\ v = qd + r
  BY DivMod
<1>2. p \in Nat /\ s \in 0 .. (d - 1) /\ w = pd + s
  BY DivMod
<1> HIDE DEF q, p, r, s
<1>3. SUFFICES ASSUME p < q PROVE FALSE
  BY <1>1, <1>2 DEF q, p
<1>4. (q - p - 1) * d >= 0
  BY <1>1, <1>2, <1>3
<1>5. (q - p - 1) * d = qd - pd - d
  BY <1>1, <1>2
<1>6. qd \in Int /\ pd \in Int
  BY <1>1, <1>2
<1> HIDE DEF qd, pd
<1> QED
  BY <1>1, <1>2, <1>4, <1>5, <1>6

\* The spans are powers of E, PAGE_SIZES the first five of them.
LEMMA Spans ==
    ASSUME E \in Nat, E > 1
    PROVE  /\ \A l \in 0 .. 5 : Span(l) \in Nat /\ Span(l) > 0
           /\ Span(0) = 1 /\ Span(1) = E /\ Span(2) = E * E
           /\ \A l \in 0 .. 4 : Span(l + 1) = Span(l) * E
           /\ \A l \in 0 .. 4 : PAGE_SIZES(l) = Span(l)
<1>1. E * E \in Nat /\ E * E > 0
  OBVIOUS
<1>2. E * E * E \in Nat /\ E * E * E > 0
  BY <1>1
<1>3. E * E * E * E \in Nat /\ E * E * E * E > 0
  BY <1>2
<1>4. E * E * E * E * E \in Nat /\ E * E * E * E * E > 0
  BY <1>3
<1>5. \A l \in 0 .. 5 : l \in {0, 1, 2, 3, 4, 5}
  OBVIOUS
<1>6. \A l \in 0 .. 5 : Span(l) \in Nat /\ Span(l) > 0
  BY <1>1, <1>2, <1>3, <1>4, <1>5 DEF Span
<1>7. Span(0) = 1 /\ Span(1) = E /\ Span(2) = E * E
  BY DEF Span
<1>8. \A l \in 0 .. 4 : l \in {0, 1, 2, 3, 4}
  OBVIOUS
<1>9. /\ Span(0 + 1) = Span(0) * E /\ Span(1 + 1) = Span(1) * E /\ Span(2 + 1) = Span(2) * E
      /\ Span(3 + 1) = Span(3) * E /\ Span(4 + 1) = Span(4) * E
  BY <1>1, <1>2, <1>3, <1>4 DEF Span
<1>10. /\ PAGE_SIZES(0) = Span(0) /\ PAGE_SIZES(1) = Span(1) /\ PAGE_SIZES(2) = Span(2)
       /\ PAGE_SIZES(3) = Span(3) /\ PAGE_SIZES(4) = Span(4)
  BY DEF Span, PAGE_SIZES
<1>11. \A l \in 0 .. 4 : Span(l + 1) = Span(l) * E
  BY <1>8, <1>9
<1>12. \A l \in 0 .. 4 : PAGE_SIZES(l) = Span(l)
  BY <1>8, <1>10
<1> QED
  BY <1>6, <1>7, <1>11, <1>12

\* The constants of a machine, and its numbers.
LEMMA MachineFacts ==
    ASSUME MachineOK
    PROVE  /\ E \in Nat /\ E > 1 /\ LOW \in Nat
           /\ RootLevel \in {3, 4} /\ RootLevel + 1 = machine.levels
           /\ machine.levels \in {4, 5}
           /\ DirectLevel \in {1, 2}
           /\ machine.hhdm \in Nat /\ machine.kernel_virt \in Nat /\ machine.kernel_phys \in Nat
           /\ \A l \in 0 .. RootLevel : l \in 0 .. 4
BY DEF MachineOK, RootLevel, DirectLevel

\* A block of level l is an entry of one of level l + 1: the one whose index
\* vmm_map computes.
LEMMA Blocks ==
    ASSUME MachineOK, NEW v \in Nat, NEW l \in 0 .. 4
    PROVE  /\ Block(v, l) \in Nat /\ Block(v, l + 1) \in Nat
           /\ Index(v, l) \in Entries
           /\ Block(v, l + 1) = Block(v, l) \div E
           /\ Index(v, l) = Block(v, l) % E
           /\ Block(v, l) = Block(v, l + 1) * E + Index(v, l)
<1> DEFINE s == Span(l)
<1>1. E \in Nat /\ E > 1 /\ E > 0
  BY MachineFacts
<1>2. /\ s \in Nat /\ s > 0 /\ Span(l + 1) = s * E /\ PAGE_SIZES(l) = s
  BY <1>1, Spans
<1> HIDE DEF s
<1>3. v \div (s * E) = (v \div s) \div E
  BY <1>1, <1>2, DivTwice
<1>4. Block(v, l) = v \div s /\ Block(v, l + 1) = (v \div s) \div E
  BY <1>2, <1>3 DEF Block, s
<1>5. Index(v, l) = (v \div s) % E
  BY <1>2 DEF Index
<1> DEFINE b == v \div s
<1>6. b \in Nat
  BY <1>2, DivMod
<1> HIDE DEF b
<1>7. b \div E \in Nat /\ b % E \in 0 .. (E - 1) /\ b = (b \div E) * E + (b % E)
  BY <1>1, <1>6, DivMod
<1>8. Block(v, l) = b /\ Block(v, l + 1) = b \div E /\ Index(v, l) = b % E
  BY <1>4, <1>5 DEF b
<1> QED
  BY <1>6, <1>7, <1>8 DEF Entries

\* A page lies in its block.
LEMMA InBlock ==
    ASSUME MachineOK, NEW v \in Nat, NEW l \in 0 .. 5
    PROVE  /\ Span(l) \in Nat /\ Span(l) > 0
           /\ Block(v, l) \in Nat /\ Block(v, l) * Span(l) \in Nat
           /\ v % Span(l) \in 0 .. (Span(l) - 1)
           /\ v = Block(v, l) * Span(l) + (v % Span(l))
<1> DEFINE s == Span(l)
<1>1. s \in Nat /\ s > 0
  BY MachineFacts, Spans
<1> HIDE DEF s
<1> DEFINE q == v \div s
<1>2. q \in Nat /\ v % s \in 0 .. (s - 1) /\ v = q * s + (v % s)
  BY <1>1, DivMod
<1> HIDE DEF q
<1>3. q * s \in Nat
  BY <1>1, <1>2
<1>4. Block(v, l) = q /\ Span(l) = s
  BY DEF Block, q, s
<1> QED
  BY <1>1, <1>2, <1>3, <1>4

\* ... and whatever lies in it is of that block.
LEMMA BlockOf ==
    ASSUME MachineOK, NEW n \in Nat, NEW l \in 0 .. 5, NEW r \in 0 .. (Span(l) - 1)
    PROVE  Block(n * Span(l) + r, l) = n /\ n * Span(l) + r \in Nat
<1> DEFINE s == Span(l)
<1>1. s \in Nat /\ s > 0
  BY MachineFacts, Spans
<1> HIDE DEF s
<1>2. r \in 0 .. (s - 1)
  BY DEF s
<1>3. (n * s + r) \div s = n /\ n * s \in Nat
  BY <1>1, <1>2, DivUnique
<1> QED
  BY <1>1, <1>2, <1>3 DEF Block, s

\* The kernel's gigabyte has a number.
LEMMA KernelGibNat ==
    ASSUME MachineOK
    PROVE  KernelGib \in Nat
BY MachineFacts, InBlock, 2 \in 0 .. 5 DEF KernelGib

\* Nothing left over.
LEMMA ZeroMod ==
    ASSUME MachineOK
    PROVE  0 % E = 0
<1>1. E \in Nat /\ E > 0 /\ 0 \in 0 .. (E - 1) /\ 0 * E + 0 = 0
  BY MachineFacts
<1> QED
  BY <1>1, DivUnique

\* The entry of a block has one table and one index.
LEMMA PlaceUnique ==
    ASSUME MachineOK, NEW b \in Nat, NEW x \in Entries
    PROVE  b * E + x \in Nat /\ (b * E + x) \div E = b /\ (b * E + x) % E = x
<1>1. E \in Nat /\ E > 1 /\ E > 0 /\ x \in 0 .. (E - 1)
  BY MachineFacts DEF Entries
<1>2. b * E \in Nat
  BY <1>1
<1> QED
  BY <1>1, <1>2, DivUnique

\* The root stands for the whole address space.
LEMMA RootBlock ==
    ASSUME MachineOK, NEW v \in Nat, v < Span(machine.levels)
    PROVE  Block(v, RootLevel + 1) = 0
<1> DEFINE s == Span(machine.levels)
<1>1. s \in Nat /\ s > 0 /\ machine.levels = RootLevel + 1
  BY MachineFacts, Spans
<1> HIDE DEF s
<1>2. v \in 0 .. (s - 1)
  BY <1>1 DEF s
<1>3. (0 * s + v) \div s = 0
  BY <1>1, <1>2, DivUnique
<1>4. 0 * s + v = v
  BY <1>1
<1> QED
  BY <1>1, <1>3, <1>4 DEF Block, s

\* The gigabyte of a page is that of its blocks.
LEMMA GibOfBlock ==
    ASSUME MachineOK, NEW v \in Nat, NEW l \in 0 .. 2
    PROVE  GibOf(l, Block(v, l)) = Block(v, 2)
<1>1. Block(v, 1) = Block(v, 0) \div E
  BY Blocks, 0 + 1 = 1, 0 \in 0 .. 4
<1>2. Block(v, 2) = Block(v, 1) \div E
  BY Blocks, 1 + 1 = 2, 1 \in 0 .. 4
<1> QED
  BY <1>1, <1>2 DEF GibOf

\* ... and an entry's is that of its table.
LEMMA GibOfEntry ==
    ASSUME MachineOK, NEW b \in Nat, NEW x \in Entries, NEW l \in {0, 1}
    PROVE  GibOf(l, b * E + x) = GibOf(l + 1, b)
BY PlaceUnique DEF GibOf

-----------------------------------------------------------------------------
(* What the MMU finds.                                                     *)

\* Where the entry for v of table t, of level l, leads.
NextTable(t, v, l) ==
    IF t \notin DOMAIN tables THEN NoPage
    ELSE IF is_table(tables[t][Index(v, l)]) THEN tables[t][Index(v, l)].addr
    ELSE NoPage

\* The walk exists, and goes from level to level.
LEMMA WalkSteps ==
    ASSUME MachineOK, NEW dir, NEW v
    PROVE  /\ Walk(dir, v)[RootLevel] = dir
           /\ \A l \in 0 .. (RootLevel - 1) :
                Walk(dir, v)[l] = NextTable(Walk(dir, v)[l + 1], v, l + 1)
<1> DEFINE T == RootLevel
           R(w) == [l \in 0 .. T |-> IF l = T THEN dir ELSE NextTable(w[l + 1], v, l + 1)]
           b == NextTable(dir, v, T)
           c == NextTable(b, v, T - 1)
           d == NextTable(c, v, T - 2)
           f == NextTable(d, v, T - 3)
           w1 == [l \in 0 .. T |-> IF l = T THEN dir ELSE IF l = T - 1 THEN b
                                   ELSE IF l = T - 2 THEN c ELSE IF l = T - 3 THEN d ELSE f]
<1>1. T \in {3, 4}
  BY MachineFacts
<1>2. Walk(dir, v) = CHOOSE w : w = R(w)
  BY DEF Walk, NextTable, RootLevel
<1>3. w1 = R(w1)
  <2>1. /\ DOMAIN w1 = 0 .. T /\ DOMAIN R(w1) = 0 .. T
    OBVIOUS
  <2> HIDE DEF b, c, d, f, T
  <2>2. \A l \in 0 .. T : w1[l] = R(w1)[l]
    <3> SUFFICES ASSUME NEW l \in 0 .. T PROVE w1[l] = R(w1)[l]
      OBVIOUS
    <3>1. CASE l = T
      BY <3>1, <1>1
    <3>2. CASE l = T - 1
      BY <3>2, <1>1 DEF b
    <3>3. CASE l = T - 2
      <4>1. l + 1 = T - 1 /\ l + 1 \in 0 .. T /\ l + 1 # T
        BY <3>3, <1>1
      <4>2. w1[l + 1] = b /\ w1[l] = c /\ R(w1)[l] = NextTable(w1[l + 1], v, l + 1)
        BY <4>1, <3>3, <1>1
      <4> QED BY <4>1, <4>2 DEF c
    <3>4. CASE l = T - 3
      <4>1. l + 1 = T - 2 /\ l + 1 \in 0 .. T /\ l + 1 # T
        BY <3>4, <1>1
      <4>2. w1[l + 1] = c /\ w1[l] = d /\ R(w1)[l] = NextTable(w1[l + 1], v, l + 1)
        BY <4>1, <3>4, <1>1
      <4> QED BY <4>1, <4>2 DEF d
    <3>5. CASE l = T - 4
      <4>1. l + 1 = T - 3 /\ l + 1 \in 0 .. T /\ l + 1 # T
        BY <3>5, <1>1
      <4>2. w1[l + 1] = d /\ w1[l] = f /\ R(w1)[l] = NextTable(w1[l + 1], v, l + 1)
        BY <4>1, <3>5, <1>1
      <4> QED BY <4>1, <4>2 DEF f
    <3> QED BY <1>1, <3>1, <3>2, <3>3, <3>4, <3>5
  <2> QED BY <2>1, <2>2
<1> DEFINE W == Walk(dir, v)
<1> HIDE DEF w1
<1>4. W = R(W)
  BY <1>2, <1>3
<1> HIDE DEF W
<1> QED
  BY <1>1, <1>4 DEF W

\* What a member of a sequence is.
LEMMA SeqMember ==
    ASSUME NEW S, NEW s \in Seq(S)
    PROVE  Len(s) \in Nat /\ DOMAIN s = 1 .. Len(s) /\ \A k \in 1 .. Len(s) : s[k] \in S
OBVIOUS

\* The entries of the memory map.
LEMMA MapFacts ==
    ASSUME MachineOK
    PROVE  /\ Len(machine.memmap) \in Nat /\ DOMAIN machine.memmap = 1 .. Len(machine.memmap)
           /\ Len(machine.memmap) > 0
           /\ \A k \in DOMAIN machine.memmap :
                machine.memmap[k].base \in Nat /\ machine.memmap[k].length \in Nat
<1> DEFINE R == [base : Nat, length : Nat, type : STRING]
<1>1. machine.memmap \in Seq(R) /\ machine.memmap # << >>
  BY DEF MachineOK
<1>2. /\ Len(machine.memmap) \in Nat /\ DOMAIN machine.memmap = 1 .. Len(machine.memmap)
      /\ \A k \in 1 .. Len(machine.memmap) : machine.memmap[k] \in R
  <2> HIDE DEF R
  <2> QED BY <1>1, SeqMember
<1>3. \A r \in R : r.base \in Nat /\ r.length \in Nat
  OBVIOUS
<1>4. Len(machine.memmap) # 0
  BY <1>1
<1> HIDE DEF R
<1> QED
  BY <1>2, <1>3, <1>4

\* The pages of the direct map.
LEMMA DirectIs ==
    ASSUME NEW p
    PROVE  p \in DirectPages <=>
             \/ p \in 0 .. (LOW - 1)
             \/ \E k \in DOMAIN machine.memmap :
                  /\ machine.memmap[k].type \notin {"reserved", "bad"}
                  /\ p \in machine.memmap[k].base .. (machine.memmap[k].base + machine.memmap[k].length - 1)
BY DEF DirectPages

\* Pages of memory are numbers.
LEMMA DirectFacts ==
    ASSUME MachineOK
    PROVE  /\ DirectPages \subseteq Nat /\ machine.free \subseteq Nat
           /\ \A p \in machine.free : p # 0 /\ p # NoPage
<1>1. ASSUME NEW p \in DirectPages PROVE p \in Nat
  <2>1. CASE p \in 0 .. (LOW - 1)
    BY <2>1, MachineFacts
  <2>2. ASSUME NEW k \in DOMAIN machine.memmap,
               p \in machine.memmap[k].base .. (machine.memmap[k].base + machine.memmap[k].length - 1)
        PROVE  p \in Nat
    BY <2>2, MapFacts
  <2> QED
    BY <2>1, <2>2, DirectIs
<1>2. machine.free \subseteq DirectPages \ {0}
  BY DEF MachineOK
<1> QED
  BY <1>1, <1>2 DEF NoPage

\* A virtual page is a number in the address space.
LEMMA VirtualFacts ==
    ASSUME MachineOK
    PROVE  \A v : v \in VirtualPages <=> v \in Nat /\ v < Span(machine.levels)
<1>1. RootLevel \in 0 .. 4 /\ RootLevel = machine.levels - 1 /\ RootLevel + 1 = machine.levels
  BY MachineFacts DEF RootLevel
<1>2. /\ PAGE_SIZES(RootLevel) * E = Span(machine.levels)
      /\ Span(machine.levels) \in Nat
  BY <1>1, Spans, MachineFacts
<1> QED
  BY <1>1, <1>2 DEF VirtualPages

\* What the MMU meets at a level is the table for the address.
LEMMA WalkSound ==
    ASSUME MachineOK, NEW lv, NEW px, Tree(lv, px), NEW v \in VirtualPages
    PROVE  \A l \in 0 .. RootLevel :
             LET t == Walk(root, v)[l] IN
             t = NoPage \/ (t \in DOMAIN tables /\ lv[t] = l /\ px[t] = Block(v, l + 1))
<1> DEFINE W == Walk(root, v)
           T == RootLevel
           S(l) == W[l] = NoPage \/ (W[l] \in DOMAIN tables /\ lv[W[l]] = l /\ px[W[l]] = Block(v, l + 1))
<1>1. T \in {3, 4} /\ v \in Nat /\ v < Span(machine.levels)
  BY MachineFacts, VirtualFacts
<1>2. W[T] = root /\ \A l \in 0 .. (T - 1) : W[l] = NextTable(W[l + 1], v, l + 1)
  BY WalkSteps
<1>3. NoPage \notin DOMAIN tables
  BY DirectFacts DEF Tree, Shape
<1> HIDE DEF W
<1>4. S(T)
  BY <1>1, <1>2, RootBlock DEF Tree, Placed
<1>5. ASSUME NEW l \in 0 .. (T - 1), S(l + 1)
      PROVE  S(l)
  <2> DEFINE t == W[l + 1]
             x == Index(v, l + 1)
             e == tables[t][x]
  <2>1. l + 1 \in 0 .. 4 /\ l + 1 # 0 /\ (l + 1) - 1 = l /\ l \in Nat
    BY <1>1
  <2>2. W[l] = NextTable(t, v, l + 1)
    BY <1>2
  <2>3. CASE t \notin DOMAIN tables
    BY <2>2, <2>3 DEF NextTable
  <2>4. CASE t \in DOMAIN tables /\ ~is_table(e)
    BY <2>2, <2>4 DEF NextTable
  <2>5. CASE t \in DOMAIN tables /\ is_table(e)
    <3>1. W[l] = e.addr
      BY <2>2, <2>5 DEF NextTable
    <3>2. lv[t] = l + 1 /\ px[t] = Block(v, (l + 1) + 1)
      BY <1>3, <1>5, <2>1, <2>5
    <3>3. x \in Entries /\ Block(v, l + 1) = Block(v, (l + 1) + 1) * E + x
      BY <1>1, <2>1, Blocks
    <3>4. e.valid /\ ~IsLeaf(e, lv[t])
      BY <2>1, <2>5, <3>2 DEF is_table, IsLeaf
    <3>5. e.addr \in DOMAIN tables /\ lv[e.addr] = lv[t] - 1 /\ px[e.addr] = px[t] * E + x
      BY <2>5, <3>3, <3>4 DEF Tree, Leads
    <3> QED
      BY <2>1, <3>1, <3>2, <3>3, <3>5
  <2> QED
    BY <2>3, <2>4, <2>5
<1> HIDE DEF S, T
<1>6. \A l \in 0 .. T : S(l)
  <2>1. \A l \in 0 .. (T - 1) : S(l + 1) => S(l)
    BY <1>5
  <2>2. S(T - 1)
    BY <1>1, <1>4, <2>1, T - 1 \in 0 .. (T - 1), (T - 1) + 1 = T
  <2>3. S(T - 2)
    BY <1>1, <2>2, <2>1, T - 2 \in 0 .. (T - 1), (T - 2) + 1 = T - 1
  <2>4. S(T - 3)
    BY <1>1, <2>3, <2>1, T - 3 \in 0 .. (T - 1), (T - 3) + 1 = T - 2
  <2>5. T = 4 => S(T - 4)
    BY <1>1, <2>4, <2>1, T = 4 => T - 4 \in 0 .. (T - 1), (T - 4) + 1 = T - 3
  <2> QED
    BY <1>1, <1>4, <2>2, <2>3, <2>4, <2>5
<1> QED
  BY <1>6 DEF S, T, W

\* ... and the table for an address is met.
LEMMA WalkComplete ==
    ASSUME MachineOK, NEW lv, NEW px, Tree(lv, px), NEW v \in VirtualPages,
           NEW p \in DOMAIN tables, px[p] = Block(v, lv[p] + 1)
    PROVE  Walk(root, v)[lv[p]] = p
<1> DEFINE W == Walk(root, v)
           T == RootLevel
           C(l) == \A q \in DOMAIN tables : lv[q] = l /\ px[q] = Block(v, l + 1) => W[l] = q
<1>1. T \in {3, 4} /\ v \in Nat
  BY MachineFacts, VirtualFacts
<1>2. W[T] = root /\ \A l \in 0 .. (T - 1) : W[l] = NextTable(W[l + 1], v, l + 1)
  BY WalkSteps
<1>3. /\ lv \in [DOMAIN tables -> 0 .. T] /\ px \in [DOMAIN tables -> Nat]
      /\ lv[root] = T /\ root \in DOMAIN tables
  BY DEF Tree, Placed
<1> HIDE DEF W
<1>4. ASSUME NEW q \in DOMAIN tables, q # root
      PROVE  \E t \in DOMAIN tables, x \in Entries :
               /\ is_table(tables[t][x]) /\ tables[t][x].addr = q
               /\ lv[t] = lv[q] + 1 /\ px[q] = px[t] * E + x
  <2>1. PICK t \in DOMAIN tables, x \in Entries :
               is_table(tables[t][x]) /\ lv[t] = lv[q] + 1 /\ tables[t][x].addr = q
    BY <1>4 DEF Tree, Hangs
  <2>2. tables[t][x].valid /\ ~IsLeaf(tables[t][x], lv[t])
    BY <1>3, <2>1 DEF is_table, IsLeaf
  <2> QED
    BY <2>1, <2>2 DEF Tree, Leads
<1>5. C(T)
  <2> SUFFICES ASSUME NEW q \in DOMAIN tables, lv[q] = T, q # root PROVE FALSE
    BY <1>2
  <2> QED
    BY <1>1, <1>3, <1>4
<1>6. ASSUME NEW l \in 0 .. (T - 1), C(l + 1) PROVE C(l)
  <2> SUFFICES ASSUME NEW q \in DOMAIN tables, lv[q] = l, px[q] = Block(v, l + 1) PROVE W[l] = q
    OBVIOUS
  <2>1. q # root /\ l + 1 \in 0 .. 4 /\ l \in Nat
    BY <1>1, <1>3
  <2>2. PICK t \in DOMAIN tables, x \in Entries :
               /\ is_table(tables[t][x]) /\ tables[t][x].addr = q
               /\ lv[t] = l + 1 /\ px[q] = px[t] * E + x
    BY <1>4, <2>1
  <2>3. Block(v, (l + 1) + 1) = Block(v, l + 1) \div E /\ Index(v, l + 1) = Block(v, l + 1) % E
    BY <1>1, <2>1, Blocks
  <2>4. px[t] \in Nat
    BY <1>3
  <2>5. px[t] = Block(v, (l + 1) + 1) /\ x = Index(v, l + 1)
    BY <2>2, <2>3, <2>4, PlaceUnique
  <2>6. W[l + 1] = t
    BY <1>6, <2>1, <2>2, <2>5
  <2> QED
    BY <1>2, <2>2, <2>5, <2>6 DEF NextTable
<1> HIDE DEF C, T
<1>7. \A l \in 0 .. T : C(l)
  <2>1. \A l \in 0 .. (T - 1) : C(l + 1) => C(l)
    BY <1>6
  <2>2. C(T - 1)
    BY <1>1, <1>5, <2>1, T - 1 \in 0 .. (T - 1), (T - 1) + 1 = T
  <2>3. C(T - 2)
    BY <1>1, <2>2, <2>1, T - 2 \in 0 .. (T - 1), (T - 2) + 1 = T - 1
  <2>4. C(T - 3)
    BY <1>1, <2>3, <2>1, T - 3 \in 0 .. (T - 1), (T - 3) + 1 = T - 2
  <2>5. T = 4 => C(T - 4)
    BY <1>1, <2>4, <2>1, T = 4 => T - 4 \in 0 .. (T - 1), (T - 4) + 1 = T - 3
  <2> QED
    BY <1>1, <1>5, <2>2, <2>3, <2>4, <2>5
<1>8. lv[p] \in 0 .. T /\ C(lv[p])
  BY <1>3, <1>7
<1> QED
  BY <1>8 DEF C, W

\* Table p has the leaf for v.
Holds(lv, px, v, p) ==
    /\ p \in DOMAIN tables
    /\ px[p] = Block(v, lv[p] + 1)
    /\ IsLeaf(tables[p][Index(v, lv[p])], lv[p])

\* No table is met below a leaf.
LEMMA LeafStops ==
    ASSUME MachineOK, NEW dir, NEW v, NoPage \notin DOMAIN tables,
           NEW l \in 1 .. RootLevel,
           IsLeaf(tables[Walk(dir, v)[l]][Index(v, l)], l)
    PROVE  \A k \in 0 .. (l - 1) : Walk(dir, v)[k] = NoPage
<1> DEFINE W == Walk(dir, v)
           D(k) == W[k] = NoPage
<1>1. RootLevel \in {3, 4} /\ l \in 1 .. 4
  BY MachineFacts
<1>2. \A k \in 0 .. (RootLevel - 1) : W[k] = NextTable(W[k + 1], v, k + 1)
  BY WalkSteps
<1> HIDE DEF W
<1>3. D(l - 1)
  <2>1. l - 1 \in 0 .. (RootLevel - 1) /\ (l - 1) + 1 = l /\ l # 0
    BY <1>1
  <2>2. ~is_table(tables[W[l]][Index(v, l)])
    BY <2>1 DEF IsLeaf, is_table, W
  <2> QED
    BY <1>2, <2>1, <2>2 DEF NextTable
<1>4. \A k \in 0 .. (RootLevel - 1) : D(k + 1) => D(k)
  BY <1>2 DEF NextTable
<1> HIDE DEF D
<1>5. \A k \in 0 .. (l - 1) : D(k)
  <2>1. l >= 2 => D(l - 2)
    BY <1>1, <1>3, <1>4, (l - 2) + 1 = l - 1, l >= 2 => l - 2 \in 0 .. (RootLevel - 1)
  <2>2. l >= 3 => D(l - 3)
    BY <1>1, <2>1, <1>4, (l - 3) + 1 = l - 2, l >= 3 => l - 3 \in 0 .. (RootLevel - 1)
  <2>3. l >= 4 => D(l - 4)
    BY <1>1, <2>2, <1>4, (l - 4) + 1 = l - 3, l >= 4 => l - 4 \in 0 .. (RootLevel - 1)
  <2> QED
    BY <1>1, <1>3, <2>1, <2>2, <2>3
<1> QED
  BY <1>5 DEF D, W

\* The MMU finds the leaf for an address,
LEMMA TranslateHit ==
    ASSUME MachineOK, NEW lv, NEW px, Tree(lv, px), NEW v \in VirtualPages,
           NEW p, Holds(lv, px, v, p)
    PROVE  /\ Translate(root, v) = tables[p][Index(v, lv[p])].addr + (v % Span(lv[p]))
           /\ Translate(root, v) # NoPage
<1> DEFINE W == Walk(root, v)
           L == lv[p]
           leaf(l) == tables[W[l]][Index(v, l)]
           Ends == {l \in 0 .. RootLevel : W[l] \in DOMAIN tables /\ IsLeaf(leaf(l), l)}
<1>1. NoPage \notin DOMAIN tables
  BY DirectFacts DEF Tree, Shape
<1>2. p \in DOMAIN tables /\ L \in 0 .. RootLevel /\ W[L] = p
  BY WalkComplete DEF Holds, Tree, Placed
<1>3. L \in Ends
  BY <1>2 DEF Holds
<1>4. \A l \in Ends : l > 0 => \A k \in 0 .. (l - 1) : W[k] = NoPage
  <2> SUFFICES ASSUME NEW l \in Ends, l > 0 PROVE \A k \in 0 .. (l - 1) : W[k] = NoPage
    OBVIOUS
  <2>1. l \in 1 .. RootLevel
    BY MachineFacts
  <2> QED
    BY <1>1, <2>1, LeafStops
<1>5. \A l \in Ends : l = L
  BY <1>1, <1>3, <1>4, MachineFacts
<1>6. Translate(root, v) = IF Ends = {} THEN NoPage
                           ELSE LET l == CHOOSE l \in Ends : TRUE
                                IN  leaf(l).addr + (v % PAGE_SIZES(l))
  BY DEF Translate, RootLevel
<1>7. (CHOOSE l \in Ends : TRUE) = L
  BY <1>3, <1>5
<1>8. Translate(root, v) = leaf(L).addr + (v % PAGE_SIZES(L))
  <2> HIDE DEF Ends, L, W
  <2> QED BY <1>3, <1>6, <1>7
<1>9. L \in 0 .. 4 /\ v \in Nat
  BY <1>2, MachineFacts, VirtualFacts
<1>10. PAGE_SIZES(L) = Span(L) /\ Span(L) \in Nat /\ Span(L) > 0
  BY <1>9, Spans, MachineFacts
<1>11. leaf(L) = tables[p][Index(v, L)]
  BY <1>2
<1>12. v % Span(L) \in Nat
  <2> HIDE DEF L
  <2> QED BY <1>9, <1>10, DivMod
<1>13. Index(v, L) \in Entries
  BY <1>9, Blocks
<1>14. tables[p][Index(v, L)].addr \in Nat
  BY <1>2, <1>13 DEF Tree, Shape
<1> HIDE DEF leaf, W, L
<1>15. Translate(root, v) = tables[p][Index(v, L)].addr + (v % Span(L))
  BY <1>8, <1>10, <1>11
<1> QED
  BY <1>12, <1>14, <1>15 DEF L, NoPage

\* and nothing else.
LEMMA TranslateMiss ==
    ASSUME MachineOK, NEW lv, NEW px, Tree(lv, px), NEW v \in VirtualPages,
           Translate(root, v) # NoPage
    PROVE  \E p : Holds(lv, px, v, p)
<1> DEFINE W == Walk(root, v)
           leaf(l) == tables[W[l]][Index(v, l)]
           Ends == {l \in 0 .. RootLevel : W[l] \in DOMAIN tables /\ IsLeaf(leaf(l), l)}
<1>1. NoPage \notin DOMAIN tables
  BY DirectFacts DEF Tree, Shape
<1>2. Ends # {}
  BY DEF Translate, RootLevel
<1>3. PICK l \in 0 .. RootLevel : W[l] \in DOMAIN tables /\ IsLeaf(leaf(l), l)
  BY <1>2
<1>4. lv[W[l]] = l /\ px[W[l]] = Block(v, l + 1)
  BY <1>1, <1>3, WalkSound
<1>5. Holds(lv, px, v, W[l])
  BY <1>3, <1>4 DEF Holds
<1> QED
  BY <1>5

\* The page an address stands for, in the direct map or as the kernel's.
Image(v) ==
    IF Block(v, 2) < KernelGib THEN v - machine.hhdm
    ELSE machine.kernel_phys + (v - machine.kernel_virt)

\* What an address is translated to depends on nothing but the address.
LEMMA TranslateValue ==
    ASSUME MachineOK, NEW lv, NEW px, Tree(lv, px), NEW v \in VirtualPages,
           Translate(root, v) # NoPage
    PROVE  Translate(root, v) = Image(v)
<1>1. PICK p : Holds(lv, px, v, p)
  BY TranslateMiss
<1> DEFINE l == lv[p]
           x == Index(v, l)
           e == tables[p][x]
           b == Block(v, l)
<1>2. Translate(root, v) = e.addr + (v % Span(l))
  BY <1>1, TranslateHit
<1>3. p \in DOMAIN tables /\ px[p] = Block(v, l + 1) /\ IsLeaf(e, l)
  BY <1>1 DEF Holds
<1>4. l \in 0 .. RootLevel /\ l \in 0 .. 4 /\ v \in Nat
  BY <1>3, MachineFacts, VirtualFacts DEF Tree, Placed
<1>5. x \in Entries /\ b \in Nat /\ px[p] * E + x = b
  BY <1>3, <1>4, Blocks
<1>6. LeafOK(l, b, e)
  BY <1>3, <1>5 DEF Tree, Leaves
<1>7. Span(l) \in Nat /\ Span(l) > 0 /\ Span(0) = 1
  BY <1>4, Spans, MachineFacts
<1>8. v = b * Span(l) + (v % Span(l)) /\ v % Span(l) \in Nat /\ b * Span(l) \in Nat
  <2> HIDE DEF l
  <2>1. l \in 0 .. 5
    BY <1>4
  <2>2. b * Span(l) \in Nat /\ v % Span(l) \in 0 .. (Span(l) - 1) /\ v = b * Span(l) + (v % Span(l))
    BY <1>4, <2>1, InBlock
  <2> QED BY <1>7, <2>2
<1>9. e.addr \in Nat
  BY <1>3, <1>5 DEF Tree, Shape
<1>10. machine.hhdm \in Nat /\ machine.kernel_virt \in Nat /\ machine.kernel_phys \in Nat
       /\ KernelGib \in Nat /\ Block(v, 2) \in Nat
  BY <1>4, MachineFacts, InBlock, KernelGibNat, 2 \in 0 .. 5
<1>11. l \in 0 .. 2 /\ GibOf(l, b) = Block(v, 2)
  <2>1. l \in 0 .. 2
    BY <1>6, MachineFacts DEF LeafOK
  <2> HIDE DEF l
  <2> QED BY <1>4, <2>1, GibOfBlock
<1> HIDE DEF l, x, e, b
<1>12. CASE e.large /\ l = DirectLevel /\ GibOf(l, b) < KernelGib /\ e.addr + machine.hhdm = b * Span(l)
  <2>1. Image(v) = v - machine.hhdm
    BY <1>11, <1>12 DEF Image
  <2> QED
    BY <1>2, <1>8, <1>9, <1>10, <1>12, <2>1
<1>13. CASE /\ ~e.large /\ l = 0 /\ GibOf(l, b) >= KernelGib
            /\ e.addr + machine.kernel_virt = machine.kernel_phys + b
  <2>1. Image(v) = machine.kernel_phys + (v - machine.kernel_virt)
    BY <1>10, <1>11, <1>13 DEF Image
  <2>2. b * 1 = b /\ b \in Nat
    BY <1>5
  <2>3. v % 1 = 0
    BY <1>4
  <2>4. v = b /\ Translate(root, v) = e.addr
    BY <1>2, <1>7, <1>8, <1>9, <1>13, <2>2, <2>3
  <2>5. e.addr = machine.kernel_phys + (v - machine.kernel_virt)
    BY <1>4, <1>9, <1>10, <1>13, <2>4
  <2> QED
    BY <2>1, <2>4, <2>5
<1> QED
  BY <1>6, <1>12, <1>13 DEF LeafOK

\* The two lemmas above, in this state and the next.
TranslateOf ==
    \A lv, px : MachineOK /\ Tree(lv, px) =>
      \A v \in VirtualPages :
        /\ \A p : Holds(lv, px, v, p) => Translate(root, v) # NoPage
        /\ Translate(root, v) # NoPage => Translate(root, v) = Image(v)

\* In this state.
LEMMA TranslateHere == TranslateOf
BY TranslateHit, TranslateValue DEF TranslateOf

\* In the next.
LEMMA TranslateThere == TranslateOf'
BY TranslateHere, PTL

\* Leaves that stay in place keep what is mapped, and where.
LEMMA LeavesStay ==
    ASSUME MachineOK, MachineOK', UNCHANGED <<machine, root>>,
           NEW lv, NEW px, NEW lw, NEW pw, Tree(lv, px), Tree(lw, pw)',
           \A p \in DOMAIN tables :
             /\ p \in DOMAIN tables' /\ lw[p] = lv[p] /\ pw[p] = px[p]
             /\ \A x \in Entries : IsLeaf(tables[p][x], lv[p]) => IsLeaf(tables'[p][x], lv[p]),
           NEW v \in VirtualPages, Translate(root, v) # NoPage
    PROVE  Translate(root, v)' # NoPage /\ Translate(root, v)' = Translate(root, v)
<1>1. PICK p : Holds(lv, px, v, p)
  BY TranslateMiss
<1>2. lv[p] \in 0 .. 4 /\ v \in Nat
  BY <1>1, MachineFacts, VirtualFacts DEF Holds, Tree, Placed
<1>3. Index(v, lv[p]) \in Entries
  BY <1>2, Blocks
<1>4. Holds(lw, pw, v, p)'
  BY <1>1, <1>3 DEF Holds, IsLeaf, Index, PAGE_SIZES, Block, Span
<1>5. VirtualPages' = VirtualPages /\ Image(v)' = Image(v)
  BY DEF VirtualPages, Image, KernelGib
<1>6. Translate(root, v)' # NoPage /\ Translate(root, v)' = Image(v)'
  BY <1>4, <1>5, TranslateThere DEF TranslateOf
<1>7. Translate(root, v) = Image(v)
  BY TranslateValue
<1> QED
  BY <1>5, <1>6, <1>7

-----------------------------------------------------------------------------
(* The stack of calls.                                                     *)

\* A sequence, and one more.
LEMMA AppendFacts ==
    ASSUME NEW S, NEW s \in Seq(S), NEW c \in S, NEW t, t = Append(s, c)
    PROVE  /\ t \in Seq(S) /\ Len(t) = Len(s) + 1
           /\ \A n \in 1 .. Len(s) : t[n] = s[n]
           /\ t[Len(s) + 1] = c
OBVIOUS

\* A sequence of one, and one more.
LEMMA AppendOne ==
    ASSUME NEW S, NEW a \in S, NEW c \in S
    PROVE  Append(<<a>>, c) = <<a, c>>
<1>1. <<a>> \in Seq(S) /\ Len(<<a>>) = 1 /\ <<a>>[1] = a
  OBVIOUS
<1>2. PICK s : s = <<a>>
  OBVIOUS
<1>3. s \in Seq(S) /\ Len(s) = 1 /\ s[1] = a
  BY <1>1, <1>2, Zenon
<1>4. PICK t : t = Append(s, c)
  OBVIOUS
<1>5. t \in Seq(S) /\ Len(t) = 2 /\ t[1] = a /\ t[2] = c
  <2>1. /\ t \in Seq(S) /\ Len(t) = Len(s) + 1 /\ t[Len(s) + 1] = c
        /\ \A n \in 1 .. Len(s) : t[n] = s[n]
    BY <1>3, <1>4, AppendFacts
  <2> QED
    BY <1>3, <2>1
<1>6. t = <<a, c>>
  BY <1>5
<1> QED
  BY <1>2, <1>4, <1>6, Zenon

\* One call: the innermost, with none below it.
LEMMA OneCall ==
    ASSUME StackOK, Len(calls) = 1
    PROVE  /\ Top = calls[1] /\ Below = << >> /\ calls # << >>
           /\ \A c : Append(Below, c) = <<c>>
           /\ calls[1] \in CallSet
<1>1. calls \in Seq(CallSet)
  BY DEF StackOK
<1>2. Below = << >>
  BY <1>1 DEF Below
<1> QED
  BY <1>1, <1>2 DEF Top

\* Two calls, the inner one of 2 MiB.
LEMMA TwoCalls ==
    ASSUME StackOK, Len(calls) = 2
    PROVE  /\ Top = calls[2] /\ Below = <<calls[1]>> /\ calls # << >>
           /\ \A c : Append(Below, c) = <<calls[1], c>>
           /\ calls[1] \in CallSet /\ calls[2] \in CallSet
<1>1. calls \in Seq(CallSet) /\ calls[1] \in CallSet /\ calls[2] \in CallSet
  <2>1. calls \in Seq(CallSet)
    BY DEF StackOK
  <2> QED BY <2>1
<1>2. Below \in Seq(CallSet) /\ Len(Below) = 1 /\ Below[1] = calls[1]
  BY <1>1 DEF Below
<1>3. Below = <<calls[1]>>
  BY <1>2
<1>4. \A c : Append(<<calls[1]>>, c) = <<calls[1], c>>
  <2> SUFFICES ASSUME NEW c PROVE Append(<<calls[1]>>, c) = <<calls[1], c>>
    OBVIOUS
  <2> QED
    BY AppendOne, calls[1] \in {calls[1], c}, c \in {calls[1], c}
<1> QED
  BY <1>1, <1>3, <1>4 DEF Top

\* There are never more.
LEMMA CallCount ==
    ASSUME StackOK, calls # << >>
    PROVE  Len(calls) \in {1, 2}
<1>1. calls \in Seq(CallSet) /\ Len(calls) \in 0 .. 2
  BY DEF StackOK
<1>2. Len(calls) # 0
  BY <1>1
<1> QED
  BY <1>1, <1>2

\* A call that has gone down a level.
LEMMA MovedCall ==
    ASSUME NEW c \in CallSet, NEW t \in Nat, c.level > 0
    PROVE  LET m == Moved(c, t) IN
           /\ m \in CallSet
           /\ m.virt = c.virt /\ m.phys = c.phys /\ m.size = c.size /\ m.i = c.i
           /\ m.dir = t /\ m.level = c.level - 1
<1> DEFINE m == Moved(c, t)
<1>1. c \in [virt : Nat, phys : Nat, size : 0 .. 2, dir : Nat, level : 0 .. 4, i : Nat]
  BY DEF CallSet
<1>2. /\ m.virt = c.virt /\ m.phys = c.phys /\ m.size = c.size /\ m.i = c.i
      /\ m.dir = t /\ m.level = c.level - 1
  BY <1>1 DEF Moved
<1>3. c.level - 1 \in 0 .. 4
  BY <1>1
<1>4. m \in [virt : Nat, phys : Nat, size : 0 .. 2, dir : Nat, level : 0 .. 4, i : Nat]
  BY <1>1, <1>3 DEF Moved
<1> QED
  BY <1>2, <1>4 DEF CallSet

\* What a call maps does not depend on the tables.
LEMMA CallSame ==
    ASSUME UNCHANGED machine, NEW c, CallOK(c)
    PROVE  CallOK(c)'
BY DEF CallOK, MapsKernel, Directs, KernelGib, RootLevel

\* The innermost call.
LEMMA TopFacts ==
    ASSUME MachineOK, StackOK, calls # << >>
    PROVE  /\ Top \in CallSet /\ CallOK(Top) /\ Len(calls) \in 1 .. Len(calls)
           /\ Top = calls[Len(calls)]
           /\ Top.size = 1 => ~machine.gib
<1>1. Len(calls) \in {1, 2} /\ calls \in Seq(CallSet)
  BY CallCount DEF StackOK
<1>2. Top = calls[Len(calls)] /\ CallOK(Top)
  BY <1>1 DEF Top, StackOK
<1>3. ASSUME Top.size = 1 PROVE ~machine.gib
  <2>1. Len(calls) = 2
    BY <1>1, <1>3 DEF Top, StackOK
  <2> QED
    BY <2>1 DEF StackOK, Spills
<1> QED
  BY <1>1, <1>2, <1>3 DEF CallOK

\* get_next_level moves the innermost call and nothing else.
LEMMA MovedStack ==
    ASSUME MachineOK, StackOK, calls # << >>, Top.level > Top.size, NEW t \in Nat,
           calls' = Append(Below, Moved(Top, t)), UNCHANGED <<machine, phase>>
    PROVE  /\ StackOK'
           /\ Len(calls') = Len(calls) /\ calls'[Len(calls)] = Moved(Top, t)
           /\ \A n \in 1 .. Len(calls) : n # Len(calls) => calls'[n] = calls[n]
           /\ \A v : Pending(v)' = Pending(v)
<1>1. Len(calls) \in {1, 2} /\ Top \in CallSet /\ CallOK(Top)
  BY TopFacts, CallCount
<1>2. Top.level \in 0 .. 4 /\ Top.size \in 0 .. 2 /\ Top.level > 0
  BY <1>1 DEF CallSet
<1> PICK m : m = Moved(Top, t)
  OBVIOUS
<1>3. /\ m \in CallSet
      /\ m.virt = Top.virt /\ m.phys = Top.phys /\ m.size = Top.size /\ m.i = Top.i
      /\ m.dir = t /\ m.level = Top.level - 1
  BY <1>1, <1>2, MovedCall
<1>4. CallOK(m)
  <2>1. RootLevel \in {3, 4}
    BY MachineFacts
  <2>2. m.level \in m.size .. RootLevel
    BY <1>1, <1>2, <1>3, <2>1 DEF CallOK
  <2> QED
    BY <1>1, <1>3, <2>2 DEF CallOK, MapsKernel, Directs
<1>5. \A c : CallOK(c) => CallOK(c)'
  BY CallSame
<1>6. CASE Len(calls) = 1
  <2>1. calls' = <<m>> /\ Top = calls[1]
    BY <1>6, OneCall
  <2>2. /\ Top.i = 0 /\ phase' \in {"low", "kernel", "high"}
        /\ Top.size # 1
    BY <1>1, <1>2, <1>6, <2>1 DEF StackOK, CallSet
  <2>3. calls' \in Seq(CallSet) /\ Len(calls') = 1 /\ calls'[1] = m /\ calls' # << >>
    BY <1>3, <2>1
  <2>4. 0 % E = 0 /\ Span(2) \in Nat
    BY MachineFacts, Spans, ZeroMod, 2 \in 0 .. 5
  <2>5. StackOK'
    BY <1>3, <1>4, <1>5, <2>1, <2>2, <2>3, <2>4 DEF StackOK
  <2>6. \A v : Pending(v)' = Pending(v)
    BY <1>3, <1>6, <2>1, <2>3 DEF Pending, Front
  <2> QED
    BY <1>6, <2>3, <2>5, <2>6
<1>7. CASE Len(calls) = 2
  <2>1. calls' = <<calls[1], m>> /\ Top = calls[2] /\ calls[1] \in CallSet
    BY <1>7, TwoCalls
  <2>2. calls' \in Seq(CallSet) /\ Len(calls') = 2 /\ calls'[1] = calls[1] /\ calls'[2] = m /\ calls' # << >>
    BY <1>3, <2>1
  <2>3. CallOK(calls[1])
    BY <1>7 DEF StackOK
  <2>4. StackOK'
    BY <1>3, <1>4, <1>7, <1>5, <2>1, <2>2, <2>3 DEF StackOK, Spills
  <2>5. \A v : Pending(v)' = Pending(v)
    BY <1>3, <1>7, <2>1, <2>2 DEF Pending, Front
  <2> QED
    BY <1>7, <2>2, <2>4, <2>5
<1> QED
  BY <1>1, <1>6, <1>7

-----------------------------------------------------------------------------
(* The tree, step by step.                                                 *)

\* A set of naturals that is not empty has a least member.
LEMMA Least ==
    ASSUME NEW S, S \subseteq Nat, S # {}
    PROVE  \E x \in S : \A y \in S : x <= y
<1>1. PICK x \in S : \A y \in S : ~ (<<y, x>> \in OpToRel(<, Nat))
  BY NatLessThanWellFounded, WFMin
<1>2. \A y \in S : ~ (y < x)
  BY <1>1 DEF OpToRel
<1> QED
  BY <1>2

\* pmm_alloc returns a page that is free, or nothing.
LEMMA AllocFree ==
    ASSUME MachineOK, pmm_alloc # NoPage
    PROVE  pmm_alloc \in machine.free /\ pmm_alloc \notin DOMAIN tables
<1> DEFINE F == FreePages
           O(p) == (p - machine.last_used_page_idx) % machine.highest_page_idx
<1>1. \A p : ScanOrder(p) = O(p)
  BY DEF ScanOrder
<1>2. F # {} /\ pmm_alloc = CHOOSE p \in F : \A q \in F : O(p) <= O(q)
  BY <1>1 DEF pmm_alloc
<1>3. F \subseteq Nat
  BY DirectFacts DEF FreePages
<1>4. machine.last_used_page_idx \in Int /\ machine.highest_page_idx \in Nat \ {0}
  BY DEF MachineOK
<1>5. \A p \in F : O(p) \in Nat
  BY <1>3, <1>4
<1> DEFINE S == {O(p) : p \in F}
<1>6. PICK x \in S : \A y \in S : x <= y
  <2>1. S \subseteq Nat /\ S # {}
    BY <1>2, <1>5
  <2> QED BY <2>1, Least
<1>7. \E p \in F : \A q \in F : O(p) <= O(q)
  BY <1>6
<1> HIDE DEF F, O
<1>8. pmm_alloc \in F
  BY <1>2, <1>7
<1> QED
  BY <1>8 DEF F, FreePages

\* A step that leaves the tables alone.
LEMMA TreeSame ==
    ASSUME UNCHANGED <<machine, tables, root>>, NEW lv, NEW px, Tree(lv, px)
    PROVE  Tree(lv, px)'
BY DEF Tree, Shape, Placed, Leads, Hangs, Leaves, Fine, LeafOK, RootLevel, DirectLevel, KernelGib

\* Such a step maps what was mapped before it.
LEMMA TranslateSame ==
    ASSUME UNCHANGED <<machine, tables, root>>, NEW v
    PROVE  Translate(root, v)' = Translate(root, v) /\ VirtualPages' = VirtualPages
BY DEF Translate, Walk, VirtualPages

\* The types of an entry.
EntrySet == [valid : BOOLEAN, large : BOOLEAN, addr : Nat]

\* Table n, empty, below entry x of table d: the tables, and those tables entry
\* by entry.
Extended(n, d, x) == [WithTable(n) EXCEPT ![d][x] = Entry(n, FALSE)]

HasTable(ts, n, d, x) ==
    /\ DOMAIN ts = DOMAIN tables \union {n}
    /\ \A p \in DOMAIN tables \union {n} : ts[p] \in [Entries -> EntrySet]
    /\ ts[d][x] = Entry(n, FALSE)
    /\ \A p \in DOMAIN tables, y \in Entries : ~(p = d /\ y = x) => ts[p][y] = tables[p][y]
    /\ \A y \in Entries : ts[n][y] = NoEntry

\* What get_next_level leaves behind.
LEMMA NewTable ==
    ASSUME NEW d \in DOMAIN tables, NEW x \in Entries, NEW n \in Nat, n \notin DOMAIN tables,
           \A p \in DOMAIN tables : tables[p] \in [Entries -> EntrySet]
    PROVE  HasTable(Extended(n, d, x), n, d, x)
<1> DEFINE D == DOMAIN tables
           e0 == Entry(n, FALSE)
           ts == [WithTable(n) EXCEPT ![d][x] = e0]
<1>1. e0 \in EntrySet /\ NoEntry \in EntrySet /\ d # n
  BY DEF Entry, NoEntry, EntrySet
<1>2. EmptyTable \in [Entries -> EntrySet] /\ \A y \in Entries : EmptyTable[y] = NoEntry
  BY <1>1 DEF EmptyTable, Entries
<1> HIDE DEF e0
<1>3. /\ DOMAIN ts = D \union {n}
      /\ ts[n] = EmptyTable
      /\ \A p \in D : p # d => ts[p] = tables[p]
      /\ ts[d] = [tables[d] EXCEPT ![x] = e0]
  BY <1>1 DEF WithTable
<1> HIDE DEF ts
<1>4. ts[d] \in [Entries -> EntrySet] /\ ts[d][x] = e0
      /\ \A y \in Entries : y # x => ts[d][y] = tables[d][y]
  BY <1>1, <1>3
<1>5. \A p \in D \union {n} : ts[p] \in [Entries -> EntrySet]
  BY <1>2, <1>3, <1>4
<1>6. \A p \in D, y \in Entries : ~(p = d /\ y = x) => ts[p][y] = tables[p][y]
  BY <1>3, <1>4
<1>7. \A y \in Entries : ts[n][y] = NoEntry
  BY <1>2, <1>3
<1> QED
  BY <1>3, <1>4, <1>5, <1>6, <1>7 DEF ts, e0, Extended, HasTable

\* An empty table n, below entry x of table d.
LEMMA NewTableTree ==
    ASSUME MachineOK, UNCHANGED <<machine, root>>,
           NEW lv, NEW px, Tree(lv, px),
           NEW d \in DOMAIN tables, NEW x \in Entries, lv[d] > 0, ~tables[d][x].valid,
           NEW n \in machine.free, n \notin DOMAIN tables,
           HasTable(tables', n, d, x),
           lv[d] <= DirectLevel => GibOf(lv[d], px[d] * E + x) >= KernelGib,
           NEW lw \in [DOMAIN tables \union {n} -> 0 .. RootLevel],
           NEW pw \in [DOMAIN tables \union {n} -> Nat],
           lw[n] = lv[d] - 1, pw[n] = px[d] * E + x,
           \A p \in DOMAIN tables : lw[p] = lv[p] /\ pw[p] = px[p]
    PROVE  /\ Tree(lw, pw)'
           /\ \A p \in DOMAIN tables : \A y \in Entries :
                IsLeaf(tables[p][y], lv[p]) => IsLeaf(tables'[p][y], lv[p])
<1> DEFINE D == DOMAIN tables
<1>1. /\ lv \in [D -> 0 .. RootLevel] /\ px \in [D -> Nat]
      /\ root \in D /\ lv[root] = RootLevel /\ px[root] = 0
      /\ \A p, q \in D : lv[p] = lv[q] /\ px[p] = px[q] => p = q
      /\ RootLevel \in {3, 4} /\ RootLevel' = RootLevel
  BY MachineFacts DEF Tree, Placed, RootLevel
<1>2. DOMAIN tables' = D \union {n}
  BY DEF HasTable
<1>3. tables'[d][x].valid /\ ~tables'[d][x].large /\ tables'[d][x].addr = n
  BY DEF Entry, HasTable
<1>4. \A p \in D, y \in Entries : ~(p = d /\ y = x) => tables'[p][y] = tables[p][y]
  BY DEF HasTable
<1>5. \A y \in Entries : ~tables'[n][y].valid
  BY DEF NoEntry, HasTable
<1>6. /\ \A p \in D : lw[p] = lv[p] /\ pw[p] = px[p] /\ p # n
      /\ lw[n] = lv[d] - 1 /\ pw[n] = px[d] * E + x
  OBVIOUS
<1>7. Shape'
  BY DEF Tree, Shape, EntrySet, HasTable
<1>8. ASSUME NEW q \in D, lv[q] = lv[d] - 1, px[q] = px[d] * E + x PROVE FALSE
  <2>1. q # root
    BY <1>1, <1>8
  <2>2. PICK t \in D, y \in Entries : is_table(tables[t][y]) /\ lv[t] = lv[q] + 1 /\ tables[t][y].addr = q
    BY <2>1 DEF Tree, Hangs
  <2>3. lv[t] = lv[d] /\ tables[t][y].valid /\ ~IsLeaf(tables[t][y], lv[t])
    BY <1>1, <1>8, <2>2 DEF is_table, IsLeaf
  <2>4. px[q] = px[t] * E + y
    BY <2>2, <2>3 DEF Tree, Leads
  <2>5. px[t] = px[d] /\ y = x
    BY <1>1, <1>8, <2>4, PlaceUnique
  <2>6. t = d
    BY <1>1, <2>3, <2>5
  <2> QED
    BY <2>3, <2>5, <2>6
<1>9. Placed(lw, pw)'
  <2>1. \A p, q \in D \union {n} : lw[p] = lw[q] /\ pw[p] = pw[q] => p = q
    BY <1>1, <1>6, <1>8
  <2> QED
    BY <1>1, <1>2, <1>6, <2>1 DEF Placed
<1>10. ~IsLeaf(tables'[d][x], lv[d])
  <2>1. lv[d] # 0
    BY <1>1
  <2> QED
    BY <1>3, <2>1, Zenon DEF IsLeaf
<1>11. Leads(lw, pw)'
  <2>1. ASSUME NEW p \in D \union {n}, NEW y \in Entries,
               tables'[p][y].valid, ~IsLeaf(tables'[p][y], lw[p])
        PROVE  /\ tables'[p][y].addr \in D \union {n}
               /\ lw[tables'[p][y].addr] = lw[p] - 1
               /\ pw[tables'[p][y].addr] = pw[p] * E + y
    <3>1. p \in D
      BY <1>5, <2>1
    <3>2. CASE p = d /\ y = x
      BY <1>3, <1>6, <3>2
    <3>3. CASE ~(p = d /\ y = x)
      <4>1. tables'[p][y] = tables[p][y] /\ lw[p] = lv[p]
        BY <1>4, <1>6, <3>1, <3>3
      <4>2. /\ tables[p][y].addr \in D /\ lv[tables[p][y].addr] = lv[p] - 1
            /\ px[tables[p][y].addr] = px[p] * E + y
        BY <2>1, <3>1, <4>1 DEF Tree, Leads
      <4> QED
        BY <1>6, <3>1, <4>1, <4>2
    <3> QED
      BY <3>2, <3>3
  <2> QED
    BY <1>2, <2>1 DEF Leads
<1>12. Hangs(lw)'
  <2>1. ASSUME NEW q \in (D \union {n}) \ {root}
        PROVE  \E p \in D \union {n}, y \in Entries :
                 is_table(tables'[p][y]) /\ lw[p] = lw[q] + 1 /\ tables'[p][y].addr = q
    <3>1. CASE q = n
      <4>1. is_table(tables'[d][x]) /\ tables'[d][x].addr = n
        BY <1>3 DEF is_table
      <4>2. lw[d] = lw[n] + 1
        BY <1>1, <1>6
      <4> QED
        BY <3>1, <4>1, <4>2
    <3>2. CASE q # n
      <4>1. PICK t \in D, y \in Entries :
                 is_table(tables[t][y]) /\ lv[t] = lv[q] + 1 /\ tables[t][y].addr = q
        BY <3>2 DEF Tree, Hangs
      <4>2. tables'[t][y] = tables[t][y]
        BY <1>4, <4>1 DEF is_table
      <4> QED
        BY <1>6, <3>2, <4>1, <4>2
    <3> QED
      BY <3>1, <3>2
  <2> QED
    BY <1>2, <2>1 DEF Hangs
<1>13. DirectLevel' = DirectLevel /\ KernelGib' = KernelGib
  BY DEF DirectLevel, KernelGib
<1>14. Leaves(lw, pw)'
  <2>1. ASSUME NEW p \in D \union {n}, NEW y \in Entries, IsLeaf(tables'[p][y], lw[p])
        PROVE  LeafOK(lw[p], pw[p] * E + y, tables'[p][y])
    <3>1. p \in D
      BY <1>5, <2>1 DEF IsLeaf
    <3>2. tables'[p][y] = tables[p][y] /\ lw[p] = lv[p] /\ pw[p] = px[p]
      BY <1>4, <1>6, <1>10, <2>1, <3>1
    <3> QED
      BY <2>1, <3>1, <3>2 DEF Tree, Leaves
  <2>2. \A l, b, e : LeafOK(l, b, e) => LeafOK(l, b, e)'
    BY <1>13 DEF LeafOK
  <2> QED
    BY <1>2, <2>1, <2>2 DEF Leaves
<1>15. Fine(lw, pw)'
  <2>1. ASSUME NEW p \in D \union {n}, lw[p] < DirectLevel
        PROVE  GibOf(lw[p] + 1, pw[p]) >= KernelGib
    <3>1. CASE p = n
      <4>1. lw[n] + 1 = lv[d] /\ lv[d] <= DirectLevel
        BY <1>1, <1>6, <2>1, <3>1, MachineFacts
      <4> QED
        BY <1>6, <3>1, <4>1
    <3>2. CASE p # n
      BY <1>6, <2>1, <3>2 DEF Tree, Fine
    <3> QED
      BY <3>1, <3>2
  <2> QED
    BY <1>2, <1>13, <2>1 DEF Fine
<1>16. \A p \in D : \A y \in Entries : IsLeaf(tables[p][y], lv[p]) => IsLeaf(tables'[p][y], lv[p])
  BY <1>4 DEF IsLeaf
<1> QED
  BY <1>2, <1>7, <1>9, <1>11, <1>12, <1>14, <1>15, <1>16 DEF Tree

\* Entry x of table d written: the tables, and those tables entry by entry.
Written(d, x, e) == [tables EXCEPT ![d][x] = e]

HasEntry(ts, d, x, e) ==
    /\ DOMAIN ts = DOMAIN tables
    /\ \A p \in DOMAIN tables : ts[p] \in [Entries -> EntrySet]
    /\ ts[d][x] = e
    /\ \A p \in DOMAIN tables, y \in Entries : ~(p = d /\ y = x) => ts[p][y] = tables[p][y]

\* What vmm_map leaves behind.
LEMMA NewEntry ==
    ASSUME NEW d \in DOMAIN tables, NEW x \in Entries, NEW e \in EntrySet,
           \A p \in DOMAIN tables : tables[p] \in [Entries -> EntrySet]
    PROVE  HasEntry(Written(d, x, e), d, x, e)
<1> DEFINE D == DOMAIN tables
           ts == [tables EXCEPT ![d][x] = e]
<1>1. /\ DOMAIN ts = D
      /\ \A p \in D : p # d => ts[p] = tables[p]
      /\ ts[d] = [tables[d] EXCEPT ![x] = e]
  OBVIOUS
<1> HIDE DEF ts
<1>2. ts[d] \in [Entries -> EntrySet] /\ ts[d][x] = e
      /\ \A y \in Entries : y # x => ts[d][y] = tables[d][y]
  BY <1>1
<1>3. \A p \in D : ts[p] \in [Entries -> EntrySet]
  BY <1>1, <1>2
<1>4. \A p \in D, y \in Entries : ~(p = d /\ y = x) => ts[p][y] = tables[p][y]
  BY <1>1, <1>2
<1> QED
  BY <1>1, <1>2, <1>3, <1>4 DEF ts, Written, HasEntry

\* A leaf in entry x of table d.  Where one may stand there was no table: tables
\* below the level of the large pages are the kernel's, and its pages have none
\* below them.
LEMMA LeafTree ==
    ASSUME MachineOK, UNCHANGED <<machine, root>>,
           NEW lv, NEW px, Tree(lv, px),
           NEW d \in DOMAIN tables, NEW x \in Entries,
           NEW e \in EntrySet, IsLeaf(e, lv[d]), LeafOK(lv[d], px[d] * E + x, e),
           HasEntry(tables', d, x, e)
    PROVE  /\ Tree(lv, px)'
           /\ \A p \in DOMAIN tables : \A y \in Entries :
                IsLeaf(tables[p][y], lv[p]) => IsLeaf(tables'[p][y], lv[p])
<1> DEFINE D == DOMAIN tables
<1>1. /\ lv \in [D -> 0 .. RootLevel] /\ px \in [D -> Nat] /\ RootLevel \in {3, 4}
      /\ RootLevel' = RootLevel
  BY MachineFacts DEF Tree, Placed, RootLevel
<1>2. /\ \A p \in D, y \in Entries : ~(p = d /\ y = x) => tables'[p][y] = tables[p][y]
      /\ tables'[d][x] = e /\ DOMAIN tables' = D
  BY DEF HasEntry
<1>3. DirectLevel' = DirectLevel /\ KernelGib' = KernelGib
  BY DEF DirectLevel, KernelGib
<1>4. Shape'
  BY DEF Tree, Shape, EntrySet, HasEntry
<1>5. Placed(lv, px)'
  BY <1>1, <1>2 DEF Tree, Placed
<1>6. ASSUME tables[d][x].valid, ~IsLeaf(tables[d][x], lv[d]) PROVE FALSE
  <2>1. PICK q \in D : lv[q] = lv[d] - 1 /\ px[q] = px[d] * E + x
    BY <1>6 DEF Tree, Leads
  <2>2. lv[d] # 0
    BY <1>6, Zenon DEF IsLeaf
  <2>3. lv[d] = DirectLevel /\ GibOf(lv[d], px[d] * E + x) < KernelGib
    BY <2>2 DEF LeafOK
  <2>4. lv[q] + 1 = lv[d] /\ lv[q] < DirectLevel
    BY <1>1, <2>1, <2>3, MachineFacts
  <2>5. GibOf(lv[d], px[d] * E + x) >= KernelGib
    BY <2>1, <2>4 DEF Tree, Fine
  <2>6. px[d] * E + x \in Nat
    BY <1>1, PlaceUnique
  <2>7. GibOf(lv[d], px[d] * E + x) \in Int
    <3> DEFINE b == px[d] * E + x
    <3> HIDE DEF b
    <3>1. b \in Nat /\ E \in Nat /\ E > 0
      BY <2>6, MachineFacts DEF b
    <3>2. b \div E \in Nat
      BY <3>1, DivMod
    <3>3. lv[d] \in {1, 2}
      BY <2>3, MachineFacts
    <3>4. GibOf(lv[d], b) \in Int
      BY <3>1, <3>2, <3>3 DEF GibOf
    <3> QED BY <3>4 DEF b
  <2> QED
    BY <2>3, <2>5, <2>7, KernelGibNat
<1>7. Leads(lv, px)'
  <2>1. ASSUME NEW p \in D, NEW y \in Entries, tables'[p][y].valid, ~IsLeaf(tables'[p][y], lv[p])
        PROVE  /\ tables'[p][y].addr \in D
               /\ lv[tables'[p][y].addr] = lv[p] - 1
               /\ px[tables'[p][y].addr] = px[p] * E + y
    <3>1. tables'[p][y] = tables[p][y]
      BY <1>2, <2>1
    <3> QED
      BY <2>1, <3>1 DEF Tree, Leads
  <2> QED
    BY <1>2, <2>1 DEF Leads
<1>8. Hangs(lv)'
  <2>1. ASSUME NEW q \in D \ {root}
        PROVE  \E p \in D, y \in Entries :
                 is_table(tables'[p][y]) /\ lv[p] = lv[q] + 1 /\ tables'[p][y].addr = q
    <3>1. PICK t \in D, y \in Entries :
               is_table(tables[t][y]) /\ lv[t] = lv[q] + 1 /\ tables[t][y].addr = q
      BY DEF Tree, Hangs
    <3>2. lv[t] # 0
      BY <1>1, <3>1
    <3>3. tables[t][y].valid /\ ~IsLeaf(tables[t][y], lv[t])
      BY <3>1, <3>2, Zenon DEF is_table, IsLeaf
    <3>4. tables'[t][y] = tables[t][y]
      BY <1>2, <1>6, <3>3
    <3> QED
      BY <3>1, <3>4
  <2> QED
    BY <1>2, <2>1 DEF Hangs
<1>9. Leaves(lv, px)'
  <2>1. ASSUME NEW p \in D, NEW y \in Entries, IsLeaf(tables'[p][y], lv[p])
        PROVE  LeafOK(lv[p], px[p] * E + y, tables'[p][y])
    <3>1. CASE p = d /\ y = x
      BY <1>2, <3>1
    <3>2. CASE ~(p = d /\ y = x)
      <4>1. tables'[p][y] = tables[p][y]
        BY <1>2, <3>2
      <4> QED BY <2>1, <4>1 DEF Tree, Leaves
    <3> QED
      BY <3>1, <3>2
  <2>2. \A l, b, f : LeafOK(l, b, f) => LeafOK(l, b, f)'
    BY <1>3 DEF LeafOK
  <2> QED
    BY <1>2, <2>1, <2>2 DEF Leaves
<1>10. Fine(lv, px)'
  BY <1>2, <1>3 DEF Tree, Fine
<1>11. \A p \in D : \A y \in Entries : IsLeaf(tables[p][y], lv[p]) => IsLeaf(tables'[p][y], lv[p])
  BY <1>2
<1> QED
  BY <1>4, <1>5, <1>7, <1>8, <1>9, <1>10, <1>11 DEF Tree

-----------------------------------------------------------------------------
(* The invariant, step by step.                                            *)

\* What was due stays due while a vmm_map call is under way.
LEMMA DuesKept ==
    ASSUME UNCHANGED <<machine, phase, at, i>>, \A v : Due(v) => Due(v)',
           LowDue, KernelDue, HighDue
    PROVE  LowDue' /\ KernelDue' /\ HighDue'
<1>1. LowDue'
  BY DEF LowDue, Block, Span
<1>2. KernelDue'
  BY DEF KernelDue, Seen
<1>3. HighDue'
  BY DEF HighDue, HighPages, HighBase, Seen, Block, Span
<1> QED
  BY <1>1, <1>2, <1>3

\* A call is under way in a loop of vmm_init only, when the root exists.
LEMMA CallPhase ==
    ASSUME SpaceInv, calls # << >>
    PROVE  /\ phase \in {"low", "kernel", "high"} /\ Built
           /\ LowDue /\ KernelDue /\ HighDue /\ cr3 = NoPage /\ StackOK
BY DEF SpaceInv, StackOK, Unbuilt, Types

\* Nothing but what it says changes on the way into the wild.
LEMMA WildStep ==
    ASSUME MachineOK, SpaceInv, phase # "done", Wild
    PROVE  SpaceInv'
<1>1. UNCHANGED <<machine, tables, root, cr3, at, i>> /\ phase' = "wild" /\ calls' = << >>
  BY DEF Wild
<1>2. Types'
  BY <1>1 DEF SpaceInv, Types
<1>3. StackOK'
  <2>1. calls' \in Seq(CallSet) /\ Len(calls') = 0
    BY <1>1
  <2> QED
    BY <1>1, <2>1 DEF StackOK
<1>4. Unbuilt' \/ Built'
  <2>1. CASE Unbuilt
    BY <1>1, <2>1 DEF Unbuilt
  <2>2. CASE Built
    <3>1. PICK lv, px : Tree(lv, px)
      BY <2>2 DEF Built
    <3>2. Tree(lv, px)'
      BY <1>1, <3>1, TreeSame
    <3>3. Stand(lv, px)'
      BY <1>1 DEF Stand
    <3> QED
      BY <1>1, <3>2, <3>3 DEF Built
  <2> QED
    BY <2>1, <2>2 DEF SpaceInv
<1> QED
  BY <1>1, <1>2, <1>3, <1>4 DEF SpaceInv

\* The entry the innermost call stands at.
LEMMA TopPlace ==
    ASSUME MachineOK, StackOK, calls # << >>, NEW lv, NEW px, Tree(lv, px), Stand(lv, px)
    PROVE  LET x == Index(Top.virt, Top.level) IN
           /\ Top.dir \in DOMAIN tables /\ lv[Top.dir] = Top.level
           /\ Top.level \in 0 .. 4 /\ Top.size \in 0 .. 2 /\ Top.size <= Top.level
           /\ Top.virt \in Nat /\ x \in Entries
           /\ px[Top.dir] * E + x = Block(Top.virt, Top.level)
           /\ TopEntry = tables[Top.dir][x] /\ TopEntry \in EntrySet
<1>1. Top \in CallSet /\ CallOK(Top) /\ Stands(lv, px, Top)
  BY TopFacts DEF Stand
<1>2. Top.level \in 0 .. 4 /\ Top.size \in 0 .. 2 /\ Top.virt \in Nat
  BY <1>1 DEF CallSet
<1>3. Top.size <= Top.level
  BY <1>1, <1>2, MachineFacts DEF CallOK
<1>4. Top.dir \in DOMAIN tables /\ lv[Top.dir] = Top.level /\ px[Top.dir] = Block(Top.virt, Top.level + 1)
  BY <1>1 DEF Stands
<1>5. Index(Top.virt, Top.level) \in Entries /\
      Block(Top.virt, Top.level) = Block(Top.virt, Top.level + 1) * E + Index(Top.virt, Top.level)
  BY <1>2, Blocks
<1>6. TopEntry \in EntrySet
  BY <1>4, <1>5 DEF TopEntry, Tree, Shape, EntrySet
<1> QED
  BY <1>2, <1>3, <1>4, <1>5, <1>6 DEF TopEntry

\* get_next_level leaves the invariant behind whatever it does to the tree.
LEMMA LevelStep ==
    ASSUME MachineOK, MachineOK', SpaceInv, calls # << >>, Top.level > Top.size,
           UNCHANGED <<machine, root, cr3, phase, at, i>>,
           NEW lv, NEW px, Tree(lv, px), Stand(lv, px),
           NEW lw, NEW pw, Tree(lw, pw)',
           \A p \in DOMAIN tables :
             /\ p \in DOMAIN tables' /\ lw[p] = lv[p] /\ pw[p] = px[p]
             /\ \A x \in Entries : IsLeaf(tables[p][x], lv[p]) => IsLeaf(tables'[p][x], lv[p]),
           NEW t \in Nat, calls' = Append(Below, Moved(Top, t)),
           t \in DOMAIN tables', lw[t] = Top.level - 1, pw[t] = Block(Top.virt, Top.level)
    PROVE  SpaceInv'
<1>1. phase \in {"low", "kernel", "high"} /\ LowDue /\ KernelDue /\ HighDue /\ StackOK /\ Types
  BY CallPhase DEF SpaceInv
<1>2. /\ StackOK'
      /\ Len(calls') = Len(calls) /\ calls'[Len(calls)] = Moved(Top, t)
      /\ \A n \in 1 .. Len(calls) : n # Len(calls) => calls'[n] = calls[n]
      /\ \A v : Pending(v)' = Pending(v)
  BY <1>1, MovedStack
<1>3. Types'
  BY <1>1 DEF Types
<1>4. Top \in CallSet /\ Top.level \in 0 .. 4 /\ Top.size \in 0 .. 2 /\ Len(calls) \in {1, 2}
  BY <1>1, TopFacts, CallCount DEF CallSet
<1>5. Stand(lw, pw)'
  <2>1. ASSUME NEW n \in 1 .. Len(calls), NEW c, c = calls'[n] PROVE Stands(lw, pw, c)'
    <3>1. CASE n = Len(calls)
      <4> PICK m : m = Moved(Top, t)
        OBVIOUS
      <4>1. m.dir = t /\ m.level = Top.level - 1 /\ m.virt = Top.virt
        BY <1>4, MovedCall
      <4>2. m.level + 1 = Top.level
        BY <1>4, <4>1
      <4>3. Stands(lw, pw, m)'
        BY <4>1, <4>2 DEF Stands, Block, Span
      <4> QED
        BY <1>2, <2>1, <3>1, <4>3
    <3>2. CASE n # Len(calls)
      <4>1. c = calls[n]
        BY <1>2, <2>1, <3>2
      <4>2. Stands(lv, px, c)
        BY <4>1 DEF Stand
      <4> QED
        BY <4>2 DEF Stands, Block, Span
    <3> QED
      BY <3>1, <3>2
  <2> QED
    BY <1>2, <2>1 DEF Stand
<1>6. \A v : Due(v) => Due(v)'
  <2> SUFFICES ASSUME NEW v, Due(v) PROVE Due(v)'
    OBVIOUS
  <2>1. v \in VirtualPages /\ VirtualPages' = VirtualPages
    BY DEF Due, VirtualPages
  <2>2. Translate(root, v) # NoPage => Translate(root, v)' # NoPage
    BY <2>1, LeavesStay
  <2> QED
    BY <1>2, <2>1, <2>2 DEF Due
<1>7. LowDue' /\ KernelDue' /\ HighDue'
  BY <1>1, <1>6, DuesKept
<1>8. Built'
  BY <1>1, <1>5 DEF Built
<1> QED
  BY <1>2, <1>3, <1>7, <1>8 DEF SpaceInv

\* A machine that does not change stays as it was.
LEMMA MachineSame ==
    ASSUME MachineOK, UNCHANGED machine
    PROVE  MachineOK'
<1>1. DirectPages' = DirectPages /\ KernelGib' = KernelGib
  BY DEF DirectPages, KernelGib
<1> QED
  BY <1>1 DEF MachineOK

\* get_next_level follows an entry.
LEMMA NextLevelTableInv ==
    ASSUME MachineOK, SpaceInv, NextLevelTable
    PROVE  SpaceInv'
<1>1. /\ calls # << >> /\ Top.level > Top.size /\ is_table(TopEntry)
      /\ calls' = Append(Below, Moved(Top, TopEntry.addr))
      /\ UNCHANGED <<machine, tables, root, cr3, phase, at, i>>
  BY DEF NextLevelTable
<1>2. StackOK /\ Built
  BY <1>1, CallPhase
<1>3. PICK lv, px : Tree(lv, px) /\ Stand(lv, px)
  BY <1>2 DEF Built
<1> DEFINE x == Index(Top.virt, Top.level)
           d == Top.dir
           t == TopEntry.addr
<1>4. /\ d \in DOMAIN tables /\ lv[d] = Top.level
      /\ Top.level \in 0 .. 4 /\ Top.size \in 0 .. 2
      /\ x \in Entries /\ px[d] * E + x = Block(Top.virt, Top.level)
      /\ TopEntry = tables[d][x] /\ TopEntry \in EntrySet
  BY <1>1, <1>2, <1>3, TopPlace
<1>5. lv[d] # 0
  BY <1>1, <1>4
<1>6. tables[d][x].valid /\ ~IsLeaf(tables[d][x], lv[d])
  BY <1>1, <1>4, <1>5, Zenon DEF is_table, IsLeaf
<1>7. t \in DOMAIN tables /\ lv[t] = lv[d] - 1 /\ px[t] = px[d] * E + x
  BY <1>3, <1>4, <1>6 DEF Tree, Leads
<1>8. t \in Nat
  BY <1>4 DEF EntrySet
<1>9. Tree(lv, px)' /\ MachineOK'
  BY <1>1, <1>3, TreeSame, MachineSame
<1>10. lv[t] = Top.level - 1 /\ px[t] = Block(Top.virt, Top.level)
  BY <1>4, <1>7
<1>11. \A p \in DOMAIN tables :
             /\ p \in DOMAIN tables' /\ lv[p] = lv[p] /\ px[p] = px[p]
             /\ \A y \in Entries : IsLeaf(tables[p][y], lv[p]) => IsLeaf(tables'[p][y], lv[p])
  BY <1>1
<1>12. t \in DOMAIN tables' /\ calls' = Append(Below, Moved(Top, t))
  BY <1>1, <1>7
<1> HIDE DEF t, d, x
<1> QED
  BY <1>1, <1>3, <1>8, <1>9, <1>10, <1>11, <1>12, LevelStep

\* get_next_level makes a table.
LEMMA NextLevelNewInv ==
    ASSUME MachineOK, SpaceInv, NextLevelNew
    PROVE  /\ SpaceInv'
           /\ \A v \in VirtualPages : Translate(root, v) # NoPage =>
                Translate(root, v)' = Translate(root, v)
<1>1. /\ calls # << >> /\ Top.level > Top.size /\ ~TopEntry.valid
  BY DEF NextLevelNew
<1>2. StackOK /\ Built /\ phase \in {"low", "kernel", "high"}
  BY <1>1, CallPhase
<1>3. PICK lv, px : Tree(lv, px) /\ Stand(lv, px)
  BY <1>2 DEF Built
<1>4. CASE pmm_alloc = NoPage
  <2>1. Wild
    BY <1>4 DEF NextLevelNew
  <2>2. UNCHANGED <<machine, tables, root>>
    BY <2>1 DEF Wild
  <2> QED
    BY <1>2, <2>1, <2>2, WildStep, TranslateSame
<1>5. CASE pmm_alloc # NoPage
  <2> PICK n : n = pmm_alloc
    OBVIOUS
  <2> PICK d : d = Top.dir
    OBVIOUS
  <2> PICK x : x = Index(Top.virt, Top.level)
    OBVIOUS
  <2>1. n \in machine.free /\ n \notin DOMAIN tables /\ n \in Nat
    BY <1>5, AllocFree, DirectFacts
  <2>2. /\ d \in DOMAIN tables /\ lv[d] = Top.level
        /\ Top.level \in 0 .. 4 /\ Top.size \in 0 .. 2
        /\ x \in Entries /\ px[d] * E + x = Block(Top.virt, Top.level)
        /\ ~tables[d][x].valid /\ Top.virt \in Nat
    BY <1>1, <1>2, <1>3, TopPlace
  <2>3. /\ calls' = Append(Below, Moved(Top, n))
        /\ UNCHANGED <<machine, root, cr3, phase, at, i>>
        /\ tables' = [WithTable(n) EXCEPT ![d][x] = Entry(n, FALSE)]
    BY <1>5 DEF NextLevelNew
  <2>4. \A p \in DOMAIN tables : tables[p] \in [Entries -> EntrySet]
    BY <1>3 DEF Tree, Shape, EntrySet
  <2>5. HasTable(tables', n, d, x)
    <3>1. tables' = Extended(n, d, x)
      BY <2>3 DEF Extended
    <3> QED
      BY <2>1, <2>2, <2>4, <3>1, NewTable
  <2>6. lv[d] <= DirectLevel => GibOf(lv[d], px[d] * E + x) >= KernelGib
    <3>1. ASSUME lv[d] <= DirectLevel PROVE GibOf(lv[d], px[d] * E + x) >= KernelGib
      <4>1. DirectLevel \in {1, 2} /\ Top.level \in 0 .. 2 /\ Top.level <= DirectLevel
        BY <2>2, <3>1, MachineFacts
      <4>2. Top.size # 2
        BY <1>1, <2>2, <4>1
      <4>3. Top.size # 1
        <5>1. SUFFICES ASSUME Top.size = 1 PROVE FALSE
          OBVIOUS
        <5>2. DirectLevel = 1
          BY <1>1, <1>2, <5>1, TopFacts DEF DirectLevel
        <5> QED
          BY <1>1, <2>2, <4>1, <5>1, <5>2
      <4>4. Top.size = 0
        BY <2>2, <4>2, <4>3
      <4>5. Block(Top.virt, 2) >= KernelGib
        BY <1>1, <1>2, <4>4, TopFacts DEF CallOK, MapsKernel
      <4>6. GibOf(Top.level, Block(Top.virt, Top.level)) = Block(Top.virt, 2)
        BY <2>2, <4>1, GibOfBlock
      <4> QED
        BY <2>2, <4>5, <4>6
    <3> QED BY <3>1
  <2>7. /\ lv \in [DOMAIN tables -> 0 .. RootLevel] /\ px \in [DOMAIN tables -> Nat]
        /\ RootLevel \in {3, 4}
    BY <1>3, MachineFacts DEF Tree, Placed
  <2>8. lv[d] > 0 /\ lv[d] - 1 \in 0 .. RootLevel /\ px[d] * E + x \in Nat
    <3>1. px[d] \in Nat /\ lv[d] \in 0 .. RootLevel
      BY <2>2, <2>7
    <3>2. px[d] * E + x \in Nat
      BY <2>2, <3>1, PlaceUnique
    <3> QED
      BY <1>1, <2>2, <2>7, <3>1, <3>2
  <2> PICK b : b = px[d] * E + x
    OBVIOUS
  <2> PICK lw : lw = [p \in DOMAIN tables \union {n} |-> IF p = n THEN lv[d] - 1 ELSE lv[p]]
    OBVIOUS
  <2> PICK pw : pw = [p \in DOMAIN tables \union {n} |-> IF p = n THEN b ELSE px[p]]
    OBVIOUS
  <2>9. /\ lw \in [DOMAIN tables \union {n} -> 0 .. RootLevel]
        /\ lw[n] = lv[d] - 1 /\ \A p \in DOMAIN tables : lw[p] = lv[p]
    BY <2>1, <2>7, <2>8
  <2>10. /\ pw \in [DOMAIN tables \union {n} -> Nat]
         /\ pw[n] = b /\ \A p \in DOMAIN tables : pw[p] = px[p]
    BY <2>1, <2>7, <2>8
  <2>11. /\ Tree(lw, pw)'
         /\ \A p \in DOMAIN tables : \A y \in Entries :
                IsLeaf(tables[p][y], lv[p]) => IsLeaf(tables'[p][y], lv[p])
    <3>1. UNCHANGED <<machine, root>>
      BY <2>3
    <3>2. pw[n] = px[d] * E + x /\ \A p \in DOMAIN tables : lw[p] = lv[p] /\ pw[p] = px[p]
      BY <2>9, <2>10
    <3>3. ~tables[d][x].valid /\ lv[d] > 0
      BY <2>2, <2>8
    <3> QED
      BY <1>3, <2>1, <2>2, <2>5, <2>6, <2>9, <2>10, <3>1, <3>2, <3>3, NewTableTree
  <2>12. MachineOK' /\ UNCHANGED <<machine, root, cr3, phase, at, i>>
    BY <2>3, MachineSame
  <2>13. \A p \in DOMAIN tables :
             /\ p \in DOMAIN tables' /\ lw[p] = lv[p] /\ pw[p] = px[p]
             /\ \A y \in Entries : IsLeaf(tables[p][y], lv[p]) => IsLeaf(tables'[p][y], lv[p])
    BY <2>5, <2>9, <2>10, <2>11 DEF HasTable
  <2>14. n \in DOMAIN tables' /\ lw[n] = Top.level - 1 /\ pw[n] = Block(Top.virt, Top.level)
    BY <2>2, <2>5, <2>9, <2>10 DEF HasTable
  <2>15. calls' = Append(Below, Moved(Top, n))
    BY <2>3
  <2>16. SpaceInv'
    BY <1>1, <1>3, <2>1, <2>11, <2>12, <2>13, <2>14, <2>15, LevelStep
  <2>17. \A v \in VirtualPages : Translate(root, v) # NoPage =>
            Translate(root, v)' # NoPage /\ Translate(root, v)' = Translate(root, v)
    BY <1>3, <2>11, <2>12, <2>13, LeavesStay
  <2> QED
    BY <2>16, <2>17
<1> QED
  BY <1>4, <1>5

\* The pages behind an aligned one, up to the end of its block, are of its block.
LEMMA Covered ==
    ASSUME MachineOK, NEW w \in Nat, NEW l \in 0 .. 4, w % Span(l) = 0,
           NEW v \in Nat, w <= v, v < w + Span(l)
    PROVE  /\ Block(v, l) = Block(w, l) /\ Block(v, l + 1) = Block(w, l + 1)
           /\ Index(v, l) = Index(w, l)
<1> DEFINE s == Span(l)
           b == Block(w, l)
           n == b * s
<1>1. l \in 0 .. 5
  OBVIOUS
<1>2. s \in Nat /\ s > 0 /\ b \in Nat /\ n \in Nat /\ w = n + (w % s)
  BY <1>1, InBlock
<1>3. w = n
  BY <1>2
<1> DEFINE r == v - n
<1>4. r \in 0 .. (s - 1) /\ v = n + r
  <2> HIDE DEF n, s
  <2> QED BY <1>2, <1>3 DEF s
<1>5. Block(n + r, l) = b
  <2> HIDE DEF b, r
  <2> QED BY <1>1, <1>2, <1>4, BlockOf
<1>6. Block(v, l) = Block(w, l)
  <2> HIDE DEF n, r
  <2> QED BY <1>4, <1>5
<1>7. Block(v, l + 1) = Block(v, l) \div E /\ Index(v, l) = Block(v, l) % E
  BY Blocks
<1>8. Block(w, l + 1) = Block(w, l) \div E /\ Index(w, l) = Block(w, l) % E
  BY Blocks
<1> QED
  BY <1>6, <1>7, <1>8

\* An entry that the innermost call may write is one that may be there.
LEMMA MapsLeaf ==
    ASSUME MachineOK, StackOK, calls # << >>, Top.level = Top.size, ~Spills(Top)
    PROVE  LET e == Entry(Top.phys, Top.size > 0) IN
           /\ e \in EntrySet /\ IsLeaf(e, Top.level)
           /\ LeafOK(Top.level, Block(Top.virt, Top.level), e)
           /\ Top.virt % Span(Top.level) = 0
<1> DEFINE e == Entry(Top.phys, Top.size > 0)
           b == Block(Top.virt, Top.level)
<1>1. Top \in CallSet /\ CallOK(Top) /\ (Top.size = 1 => ~machine.gib)
  BY TopFacts
<1>2. Top.virt \in Nat /\ Top.phys \in Nat /\ Top.size \in 0 .. 2
  BY <1>1 DEF CallSet
<1>3. /\ e \in EntrySet /\ e.valid /\ e.addr = Top.phys
      /\ e.large = (Top.size > 0)
  BY <1>2 DEF Entry, EntrySet
<1>4. GibOf(Top.level, b) = Block(Top.virt, 2)
  BY <1>2, GibOfBlock
<1>5. /\ Top.virt = b * Span(Top.level) + (Top.virt % Span(Top.level))
      /\ b * Span(Top.level) \in Nat /\ b \in Nat
  <2>1. Top.level \in 0 .. 5
    BY <1>2
  <2> QED BY <1>2, <2>1, InBlock
<1> HIDE DEF e, b
<1>6. CASE Top.size = 0
  <2>1. Span(0) = 1
    BY MachineFacts, Spans
  <2>2. Top.virt % 1 = 0 /\ b * 1 = b
    BY <1>2, <1>5
  <2>3. Top.virt = b /\ Top.virt % Span(Top.level) = 0
    BY <1>5, <1>6, <2>1, <2>2
  <2>4. MapsKernel(Top)
    BY <1>1, <1>6 DEF CallOK
  <2>5. ~(Top.size > 0)
    BY <1>6
  <2>6. ~e.large /\ Top.level = 0
    BY <1>3, <1>6, <2>5, Zenon
  <2>7. LeafOK(Top.level, b, e)
    BY <1>3, <1>4, <2>3, <2>4, <2>6 DEF LeafOK, MapsKernel
  <2>8. IsLeaf(e, Top.level)
    BY <1>3, <2>6 DEF IsLeaf
  <2> QED
    BY <1>3, <2>3, <2>7, <2>8 DEF e, b
<1>7. CASE Top.size # 0
  <2>1. Directs(Top)
    BY <1>1, <1>7 DEF CallOK
  <2>2. Top.size \in {1, 2}
    BY <1>2, <1>7
  <2>3. Top.level = DirectLevel
    BY <1>1, <2>2 DEF Spills, DirectLevel, Size1GiB
  <2>4. Top.size > 0
    BY <2>2
  <2>5. e.large
    BY <1>3, <2>4, Zenon
  <2>6. Top.virt % Span(Top.level) = 0 /\ Top.phys + machine.hhdm = Top.virt
    BY <2>1 DEF Directs
  <2>7. e.addr + machine.hhdm = b * Span(Top.level)
    BY <1>2, <1>3, <1>5, <2>6
  <2>8. LeafOK(Top.level, b, e)
    BY <1>4, <2>1, <2>3, <2>5, <2>7 DEF LeafOK, Directs
  <2>9. IsLeaf(e, Top.level)
    BY <1>3, <2>5 DEF IsLeaf
  <2> QED
    BY <1>3, <2>6, <2>8, <2>9 DEF e, b
<1> QED
  BY <1>6, <1>7

\* The stack after the innermost call has returned: what was pending still is,
\* or is in the block that it mapped.
LEMMA ReturnedStack ==
    ASSUME MachineOK, StackOK, calls # << >>, Top.level = Top.size, ~Spills(Top),
           calls' = Below, UNCHANGED <<machine, phase>>
    PROVE  /\ StackOK'
           /\ Len(calls') < Len(calls) /\ \A n \in 1 .. Len(calls') : calls'[n] = calls[n]
           /\ \A v \in Nat : Pending(v) =>
                Pending(v)' \/ (Top.virt <= v /\ v < Top.virt + Span(Top.level))
<1>1. Len(calls) \in {1, 2} /\ Top \in CallSet
  BY CallCount, TopFacts
<1>2. \A c : CallOK(c) => CallOK(c)'
  BY CallSame
<1>3. CASE Len(calls) = 1
  <2>1. calls' = << >> /\ Top = calls[1]
    BY <1>3, OneCall
  <2>2. Len(calls') = 0 /\ calls' \in Seq(CallSet)
    BY <2>1
  <2>3. StackOK'
    BY <2>1, <2>2 DEF StackOK
  <2>4. Top.i = 0 /\ Top.virt \in Nat
    BY <1>1, <1>3, <2>1, OneCall DEF StackOK, CallSet
  <2>5. \A v \in Nat : Pending(v) => (Top.virt <= v /\ v < Top.virt + Span(Top.level))
    BY <1>3, <2>1, <2>4 DEF Pending, Front
  <2> QED
    BY <1>3, <2>2, <2>3, <2>5
<1>4. CASE Len(calls) = 2
  <2>1. calls' = <<calls[1]>> /\ Top = calls[2] /\ calls[1] \in CallSet /\ calls # << >>
    BY <1>4, TwoCalls
  <2>2. Len(calls') = 1 /\ calls' \in Seq(CallSet) /\ calls'[1] = calls[1] /\ calls' # << >>
    BY <2>1
  <2>3. CallOK(calls[1])
    BY <1>4 DEF StackOK
  <2>4. /\ phase \in {"low", "kernel", "high"} /\ calls[1].size # 1
        /\ calls[1].i % E = 0 /\ calls[1].i <= Span(2)
        /\ calls[1].i > 0 => Spills(calls[1]) /\ calls[1].level = calls[1].size
    BY <2>1 DEF StackOK
  <2>5. StackOK'
    BY <1>2, <2>2, <2>3, <2>4 DEF StackOK, Spills
  <2>6. calls[2].size = 1 /\ calls[2].virt + E = calls[1].virt + calls[1].i
    BY <1>4 DEF StackOK
  <2>7. Span(Top.level) = E /\ E \in Nat
    BY <2>1, <2>6, MachineFacts, Spans
  <2>8. /\ Top.virt \in Nat /\ calls[1].virt \in Nat /\ calls[1].i \in Nat
    BY <1>1, <2>1 DEF CallSet
  <2>9. Front = Top.virt /\ Front' = Top.virt + E
    BY <1>4, <2>1, <2>2, <2>6 DEF Front
  <2>10. \A v \in Nat : Pending(v) => Pending(v)' \/ (Top.virt <= v /\ v < Top.virt + Span(Top.level))
    BY <2>2, <2>7, <2>8, <2>9 DEF Pending
  <2> QED
    BY <1>4, <2>2, <2>5, <2>10
<1> QED
  BY <1>1, <1>3, <1>4

\* vmm_map writes its entry.
LEMMA MapPageInv ==
    ASSUME MachineOK, SpaceInv, MapPage
    PROVE  /\ SpaceInv'
           /\ \A v \in VirtualPages : Translate(root, v) # NoPage =>
                Translate(root, v)' = Translate(root, v)
<1>1. /\ calls # << >> /\ Top.level = Top.size /\ ~Spills(Top) /\ calls' = Below
      /\ UNCHANGED <<machine, root, cr3, phase, at, i>>
  BY DEF MapPage
<1>2. /\ StackOK /\ Built /\ phase \in {"low", "kernel", "high"}
      /\ LowDue /\ KernelDue /\ HighDue /\ Types
  BY <1>1, CallPhase DEF SpaceInv
<1>3. PICK lv, px : Tree(lv, px) /\ Stand(lv, px)
  BY <1>2 DEF Built
<1> PICK e : e = Entry(Top.phys, Top.size > 0)
  OBVIOUS
<1> PICK d : d = Top.dir
  OBVIOUS
<1> PICK x : x = Index(Top.virt, Top.level)
  OBVIOUS
<1>4. /\ e \in EntrySet /\ IsLeaf(e, Top.level)
      /\ LeafOK(Top.level, Block(Top.virt, Top.level), e)
      /\ Top.virt % Span(Top.level) = 0
  BY <1>1, <1>2, MapsLeaf
<1>5. /\ d \in DOMAIN tables /\ lv[d] = Top.level /\ Top.level \in 0 .. 4
      /\ x \in Entries /\ px[d] * E + x = Block(Top.virt, Top.level)
      /\ Top.virt \in Nat
  BY <1>1, <1>2, <1>3, TopPlace
<1>6. HasEntry(tables', d, x, e)
  <2>1. tables' = Written(d, x, e)
    BY DEF MapPage, Written
  <2>2. \A p \in DOMAIN tables : tables[p] \in [Entries -> EntrySet]
    BY <1>3 DEF Tree, Shape, EntrySet
  <2> QED
    BY <1>4, <1>5, <2>1, <2>2, NewEntry
<1>7. /\ Tree(lv, px)'
      /\ \A p \in DOMAIN tables : \A y \in Entries :
           IsLeaf(tables[p][y], lv[p]) => IsLeaf(tables'[p][y], lv[p])
  <2>1. UNCHANGED <<machine, root>> /\ IsLeaf(e, lv[d]) /\ LeafOK(lv[d], px[d] * E + x, e)
    BY <1>1, <1>4, <1>5
  <2> QED
    BY <1>3, <1>4, <1>5, <1>6, <2>1, LeafTree
<1>8. MachineOK' /\ VirtualPages' = VirtualPages
  BY <1>1, MachineSame DEF VirtualPages
<1>9. \A v \in VirtualPages : Translate(root, v) # NoPage =>
         Translate(root, v)' # NoPage /\ Translate(root, v)' = Translate(root, v)
  <2>1. \A p \in DOMAIN tables :
             /\ p \in DOMAIN tables' /\ lv[p] = lv[p] /\ px[p] = px[p]
             /\ \A y \in Entries : IsLeaf(tables[p][y], lv[p]) => IsLeaf(tables'[p][y], lv[p])
    BY <1>6, <1>7 DEF HasEntry
  <2>2. UNCHANGED <<machine, root>>
    BY <1>1
  <2> QED
    BY <1>3, <1>7, <1>8, <2>1, <2>2, LeavesStay
<1>10. /\ StackOK'
       /\ Len(calls') < Len(calls) /\ \A n \in 1 .. Len(calls') : calls'[n] = calls[n]
       /\ \A v \in Nat : Pending(v) =>
            Pending(v)' \/ (Top.virt <= v /\ v < Top.virt + Span(Top.level))
  BY <1>1, <1>2, ReturnedStack
<1>11. ASSUME NEW v \in VirtualPages, Top.virt <= v, v < Top.virt + Span(Top.level)
       PROVE  Translate(root, v)' # NoPage
  <2>1. v \in Nat
    BY VirtualFacts
  <2>2. /\ Block(v, Top.level + 1) = Block(Top.virt, Top.level + 1)
        /\ Index(v, Top.level) = x
    BY <1>4, <1>5, <1>11, <2>1, Covered
  <2>3. px[d] = Block(Top.virt, Top.level + 1)
    BY <1>1, <1>2, <1>3, TopFacts DEF Stand, Stands
  <2>4. d \in DOMAIN tables' /\ px[d] = Block(v, lv[d] + 1) /\ tables'[d][Index(v, lv[d])] = e
    BY <1>5, <1>6, <2>2, <2>3 DEF HasEntry
  <2>5. IsLeaf(e, lv[d])
    BY <1>4, <1>5
  <2>6. Holds(lv, px, v, d)'
    BY <2>4, <2>5 DEF Holds, IsLeaf, Index, PAGE_SIZES, Block, Span
  <2> QED
    BY <1>7, <1>8, <2>6, TranslateThere DEF TranslateOf
<1>12. \A v : Due(v) => Due(v)'
  <2> SUFFICES ASSUME NEW v, Due(v) PROVE Due(v)'
    OBVIOUS
  <2>1. v \in VirtualPages /\ v \in Nat
    BY VirtualFacts DEF Due
  <2> QED
    BY <1>8, <1>9, <1>10, <1>11, <2>1 DEF Due
<1>13. LowDue' /\ KernelDue' /\ HighDue'
  BY <1>1, <1>2, <1>12, DuesKept
<1>14. Stand(lv, px)'
  <2>1. ASSUME NEW n \in 1 .. Len(calls'), NEW c, c = calls'[n] PROVE Stands(lv, px, c)'
    <3>1. c = calls[n] /\ n \in 1 .. Len(calls)
      BY <1>2, <1>10, <2>1 DEF StackOK
    <3>2. Stands(lv, px, c)
      BY <1>3, <3>1 DEF Stand
    <3> QED
      BY <1>6, <3>2 DEF Stands, HasEntry, Block, Span
  <2> QED
    BY <2>1 DEF Stand
<1>15. Types'
  BY <1>1, <1>2 DEF Types
<1>16. Built'
  BY <1>1, <1>2, <1>7, <1>14 DEF Built
<1> QED
  BY <1>9, <1>10, <1>13, <1>15, <1>16 DEF SpaceInv

\* What lies in a gigabyte below the kernel's lies below the kernel.
LEMMA BelowKernel ==
    ASSUME MachineOK, NEW v \in Nat, Block(v, 2) < KernelGib
    PROVE  v < machine.kernel_virt /\ v \in VirtualPages
<1>1. machine.kernel_virt \in Nat /\ machine.kernel_virt < Span(machine.levels)
  BY DEF MachineOK
<1>2. Span(2) \in Nat /\ Span(2) > 0 /\ Span(machine.levels) \in Nat
  <2>1. machine.levels \in 0 .. 5
    BY MachineFacts
  <2> QED BY <2>1, MachineFacts, Spans, 2 \in 0 .. 5
<1>3. ASSUME machine.kernel_virt <= v PROVE FALSE
  <2>1. KernelGib <= Block(v, 2)
    BY <1>1, <1>2, <1>3, DivMono DEF KernelGib, Block
  <2>2. KernelGib \in Nat /\ Block(v, 2) \in Nat
    BY KernelGibNat, InBlock, 2 \in 0 .. 5
  <2> QED BY <2>1, <2>2
<1>4. v < machine.kernel_virt
  BY <1>1, <1>3
<1>5. v < Span(machine.levels)
  BY <1>1, <1>2, <1>4
<1> QED
  BY <1>4, <1>5, VirtualFacts

\* The direct map keeps gigabytes whole.
LEMMA DirectBlock ==
    ASSUME MachineOK, NEW p \in Nat
    PROVE  /\ Block(machine.hhdm + p, 2) = Block(machine.hhdm, 2) + Block(p, 2)
           /\ (machine.hhdm + p) % Span(2) = p % Span(2)
<1> DEFINE s == Span(2)
           h == Block(machine.hhdm, 2)
           b == Block(p, 2)
           r == p % s
<1>1. machine.hhdm \in Nat /\ machine.hhdm % s = 0
  BY DEF MachineOK
<1>2. /\ s \in Nat /\ s > 0 /\ h \in Nat /\ h * s \in Nat /\ machine.hhdm = h * s + (machine.hhdm % s)
  BY <1>1, InBlock, 2 \in 0 .. 5
<1>3. b \in Nat /\ b * s \in Nat /\ r \in 0 .. (s - 1) /\ p = b * s + r
  BY InBlock, 2 \in 0 .. 5
<1>4. Block(machine.hhdm + p, 2) = (machine.hhdm + p) \div s
  BY DEF Block
<1> HIDE DEF s, h, b, r
<1>5. (h + b) * s = h * s + b * s
  BY <1>2, <1>3
<1>6. machine.hhdm + p = (h + b) * s + r
  <2> DEFINE u == h * s
             w == b * s
             z == (h + b) * s
  <2>1. u \in Nat /\ w \in Nat /\ z = u + w /\ machine.hhdm = u /\ p = w + r /\ r \in Nat
    BY <1>1, <1>2, <1>3, <1>5
  <2> HIDE DEF u, w, z
  <2>2. machine.hhdm + p = z + r
    BY <2>1
  <2> QED BY <2>2 DEF z
<1>7. h + b \in Nat
  BY <1>2, <1>3
<1> DEFINE m == h + b
<1> HIDE DEF m
<1>8. (m * s + r) \div s = m /\ (m * s + r) % s = r
  BY <1>2, <1>3, <1>7, DivUnique DEF m
<1> QED
  BY <1>4, <1>6, <1>8 DEF s, h, b, r, m

\* A call that begins stands at the root.
LEMMA NewCall ==
    ASSUME MachineOK, NEW lv, NEW px, Tree(lv, px),
           NEW virt \in VirtualPages, NEW phys \in Nat, NEW size \in 0 .. 2
    PROVE  LET c == Call(virt, phys, size) IN
           /\ c \in CallSet /\ Stands(lv, px, c)
           /\ c.virt = virt /\ c.phys = phys /\ c.size = size /\ c.i = 0
           /\ c.level \in c.size .. RootLevel
           /\ (IF size = 0 THEN MapsKernel(c) ELSE Directs(c)) => CallOK(c)
<1> DEFINE c == Call(virt, phys, size)
<1>1. virt \in Nat /\ virt < Span(machine.levels)
  BY VirtualFacts
<1>2. root \in DOMAIN tables /\ root \in Nat /\ lv[root] = RootLevel /\ px[root] = 0
  BY DirectFacts DEF Tree, Shape, Placed
<1>3. RootLevel \in {3, 4}
  BY MachineFacts
<1>4. /\ c.virt = virt /\ c.phys = phys /\ c.size = size /\ c.i = 0
      /\ c.dir = root /\ c.level = RootLevel
  BY DEF Call, RootLevel
<1>5. c \in CallSet
  <2>1. machine.levels - 1 \in 0 .. 4
    BY <1>3 DEF RootLevel
  <2>2. c \in [virt : Nat, phys : Nat, size : 0 .. 2, dir : Nat, level : 0 .. 4, i : Nat]
    BY <1>1, <1>2, <2>1 DEF Call
  <2> QED BY <2>2 DEF CallSet
<1> HIDE DEF c
<1>6. Stands(lv, px, c)
  BY <1>1, <1>2, <1>4, RootBlock DEF Stands
<1>7. c.level \in c.size .. RootLevel
  BY <1>3, <1>4
<1>8. (IF size = 0 THEN MapsKernel(c) ELSE Directs(c)) => CallOK(c)
  BY <1>1, <1>4, <1>5, <1>7 DEF CallOK
<1> QED
  BY <1>4, <1>5, <1>6, <1>7, <1>8 DEF c

\* The offsets of the loop of 2 MiB calls.
LEMMA SpillOffset ==
    ASSUME MachineOK, NEW w \in Nat, w % Span(2) = 0, NEW n \in Nat, n % E = 0, n < Span(2)
    PROVE  /\ (n + E) % E = 0 /\ n + E <= Span(2)
           /\ (w + n) % Span(1) = 0 /\ Block(w + n, 2) = Block(w, 2)
<1>1. E \in Nat /\ E > 1 /\ E > 0
  BY MachineFacts
<1>2. Span(1) = E /\ Span(2) = E * E /\ E * E \in Nat /\ E * E > 0
  BY <1>1, Spans
<1> DEFINE k == n \div E
           b == w \div (E * E)
<1>3. k \in Nat /\ n = k * E + (n % E)
  BY <1>1, DivMod
<1>4. b \in Nat /\ w = b * (E * E) + (w % (E * E))
  BY <1>2, DivMod
<1>5. n = k * E /\ w = b * (E * E)
  BY <1>1, <1>2, <1>3, <1>4
<1> HIDE DEF k, b
<1>6. k < E
  <2>1. SUFFICES ASSUME k >= E PROVE FALSE
    BY <1>1, <1>3
  <2>2. (k - E) * E >= 0
    BY <1>1, <1>3, <2>1
  <2>3. (k - E) * E = k * E - E * E
    BY <1>1, <1>3
  <2> QED
    BY <1>2, <1>5, <2>2, <2>3
<1>7. (k + 1) * E = k * E + E /\ (k + 1) * E + 0 = n + E
  BY <1>1, <1>3, <1>5
<1>8. (n + E) % E = 0
  <2>1. ((k + 1) * E + 0) % E = 0
    BY <1>1, <1>3, k + 1 \in Nat, 0 \in 0 .. (E - 1), DivUnique
  <2> QED BY <1>7, <2>1
<1>9. n + E <= E * E
  <2> DEFINE u == E * E
             z == (E - 1 - k) * E
  <2>1. z >= 0
    BY <1>1, <1>3, <1>6
  <2>2. z = E * E - E - k * E
    BY <1>1, <1>3
  <2>3. z = u - E - n /\ u \in Nat
    BY <1>2, <1>5, <2>2
  <2> HIDE DEF u, z
  <2>4. n + E <= u
    BY <1>1, <2>1, <2>3
  <2> QED
    BY <2>4 DEF u
<1>10. (w + n) % E = 0
  <2>1. b * E + k \in Nat /\ (b * E + k) * E = b * (E * E) + k * E
    BY <1>1, <1>3, <1>4
  <2>2. (b * E + k) * E + 0 = w + n
    BY <1>5, <2>1
  <2> DEFINE m == b * E + k
  <2>3. m \in Nat
    BY <2>1
  <2> HIDE DEF m
  <2>4. (m * E + 0) % E = 0
    BY <1>1, <2>3, 0 \in 0 .. (E - 1), DivUnique
  <2> QED
    BY <2>2, <2>4 DEF m
<1>11. Block(w + n, 2) = Block(w, 2)
  <2>1. w + n \in Nat /\ w <= w + n /\ w + n < w + Span(2) /\ 2 \in 0 .. 4
    BY <1>2
  <2> QED
    BY <2>1, Covered
<1> QED
  BY <1>2, <1>8, <1>9, <1>10, <1>11

\* vmm_map goes on with its loop of 2 MiB calls.
LEMMA MapSpillInv ==
    ASSUME MachineOK, SpaceInv, MapSpill
    PROVE  SpaceInv'
<1>1. /\ calls # << >> /\ Top.level = Top.size /\ Spills(Top)
      /\ UNCHANGED <<machine, tables, root, cr3, phase, at, i>>
  BY DEF MapSpill
<1>2. /\ StackOK /\ Built /\ phase \in {"low", "kernel", "high"}
      /\ LowDue /\ KernelDue /\ HighDue /\ Types
  BY <1>1, CallPhase DEF SpaceInv
<1>3. PICK lv, px : Tree(lv, px) /\ Stand(lv, px)
  BY <1>2 DEF Built
<1>4. Tree(lv, px)' /\ Types'
  BY <1>1, <1>2, <1>3, TreeSame DEF Types
<1>5. Len(calls) = 1
  <2>1. Len(calls) \in {1, 2} /\ Top = calls[Len(calls)]
    BY <1>1, <1>2, CallCount, TopFacts
  <2>2. Len(calls) = 2 => calls[2].size = 1
    BY <1>2 DEF StackOK
  <2> QED
    BY <1>1, <2>1, <2>2 DEF Spills, Size1GiB
<1>6. Top = calls[1] /\ Below = << >> /\ \A a : Append(Below, a) = <<a>>
  BY <1>2, <1>5, OneCall
<1> PICK c : c = calls[1]
  OBVIOUS
<1>7. c \in CallSet /\ CallOK(c) /\ Stands(lv, px, c) /\ c.size = 2 /\ c.level = 2 /\ ~machine.gib
  BY <1>1, <1>2, <1>3, <1>5, <1>6 DEF StackOK, Stand, Spills, Size1GiB
<1>8. c.virt \in Nat /\ c.phys \in Nat /\ c.i \in Nat
  BY <1>7 DEF CallSet
<1>9. c.i % E = 0 /\ c.i <= Span(2) /\ Span(2) \in Nat /\ Span(1) = E /\ E \in Nat /\ E > 1
  BY <1>1, <1>2, <1>5, <1>6, MachineFacts, Spans, 2 \in 0 .. 5 DEF StackOK
<1>10. PAGE_SIZES(Size1GiB) = Span(2) /\ PAGE_SIZES(Size2MiB) = E
  BY MachineFacts, Spans, 1 \in 0 .. 4, 2 \in 0 .. 4 DEF Size1GiB, Size2MiB
<1>11. \A a : CallOK(a) => CallOK(a)'
  BY <1>1, CallSame
<1>12. \A a : Stands(lv, px, a) => Stands(lv, px, a)'
  BY <1>1 DEF Stands
<1>13. SUFFICES StackOK' /\ Stand(lv, px)' /\ \A v \in Nat : Pending(v) => Pending(v)'
  <2>1. \A v : Due(v) => Due(v)'
    <3> SUFFICES ASSUME NEW v, Due(v) PROVE Due(v)'
      OBVIOUS
    <3>1. Translate(root, v)' = Translate(root, v) /\ VirtualPages' = VirtualPages
      BY <1>1, TranslateSame
    <3>2. v \in Nat /\ v \in VirtualPages
      BY VirtualFacts DEF Due
    <3> QED
      BY <1>13, <3>1, <3>2 DEF Due
  <2>2. LowDue' /\ KernelDue' /\ HighDue'
    BY <1>1, <1>2, <2>1, DuesKept
  <2>3. Built'
    BY <1>1, <1>2, <1>4, <1>13 DEF Built
  <2> QED
    BY <1>4, <1>13, <2>2, <2>3 DEF SpaceInv
<1>14. CASE c.i < Span(2)
  <2> PICK m : m = [c EXCEPT !.i = @ + E]
    OBVIOUS
  <2> PICK n : n = Call(c.virt + c.i, c.phys + c.i, 1)
    OBVIOUS
  <2>1. calls' = Append(<<m>>, n)
    BY <1>6, <1>10, <1>14 DEF MapSpill, Size2MiB
  <2>2. /\ m \in CallSet
        /\ m.virt = c.virt /\ m.phys = c.phys /\ m.size = c.size /\ m.dir = c.dir
        /\ m.level = c.level /\ m.i = c.i + E
    <3>1. c \in [virt : Nat, phys : Nat, size : 0 .. 2, dir : Nat, level : 0 .. 4, i : Nat]
      BY <1>7 DEF CallSet
    <3>2. m \in [virt : Nat, phys : Nat, size : 0 .. 2, dir : Nat, level : 0 .. 4, i : Nat]
      BY <1>8, <1>9, <3>1
    <3> QED
      BY <3>1, <3>2 DEF CallSet
  <2>3. Directs(c)
    BY <1>7 DEF CallOK
  <2>4. /\ (c.i + E) % E = 0 /\ c.i + E <= Span(2)
        /\ (c.virt + c.i) % Span(1) = 0 /\ Block(c.virt + c.i, 2) = Block(c.virt, 2)
    BY <1>7, <1>8, <1>9, <1>14, <2>3, SpillOffset DEF Directs
  <2>5. Block(c.virt + c.i, 2) < KernelGib /\ c.phys + machine.hhdm = c.virt
    BY <2>3, <2>4 DEF Directs
  <2>6. c.virt + c.i \in VirtualPages /\ c.phys + c.i \in Nat
    BY <1>8, <2>5, BelowKernel
  <2>7. /\ n \in CallSet /\ Stands(lv, px, n)
        /\ n.virt = c.virt + c.i /\ n.phys = c.phys + c.i /\ n.size = 1 /\ n.i = 0
        /\ Directs(n) => CallOK(n)
    BY <1>3, <2>6, 1 \in 0 .. 2, NewCall
  <2>8. Directs(n)
    <3>1. c.phys + c.i + machine.hhdm = c.virt + c.i
      BY <1>8, <2>5, MachineFacts
    <3> QED
      BY <2>4, <2>5, <2>7, <3>1 DEF Directs
  <2>9. CallOK(m) /\ Stands(lv, px, m)
    BY <1>7, <2>2 DEF CallOK, Stands, Directs
  <2>10. calls' = <<m, n>>
    BY <2>1, <2>2, <2>7, AppendOne
  <2>11. calls' \in Seq(CallSet) /\ Len(calls') = 2 /\ calls'[1] = m /\ calls'[2] = n /\ calls' # << >>
    BY <2>2, <2>7, <2>10
  <2>12. \A k \in 1 .. Len(calls') : calls'[k] = m \/ calls'[k] = n
    BY <2>11
  <2>13. Stand(lv, px)'
    BY <1>12, <2>7, <2>9, <2>12 DEF Stand
  <2>14. \A k \in 1 .. Len(calls') : CallOK(calls[k])'
    BY <1>11, <2>7, <2>8, <2>9, <2>12
  <2>15. c.i + E > 0 /\ c.virt + c.i + E = c.virt + (c.i + E)
    BY <1>8, <1>9
  <2>16. Spills(m)'
    BY <1>1, <1>7, <2>2 DEF Spills, Size1GiB
  <2>17. StackOK'
    BY <1>1, <1>2, <1>7, <2>2, <2>4, <2>7, <2>11, <2>14, <2>15, <2>16 DEF StackOK
  <2>18. \A v : Pending(v)' = Pending(v)
    BY <1>1, <1>5, <2>2, <2>7, <2>11 DEF Pending, Front
  <2> QED
    BY <2>13, <2>17, <2>18
<1>15. CASE ~(c.i < Span(2))
  <2>1. calls' = << >>
    BY <1>6, <1>10, <1>15 DEF MapSpill
  <2>2. Len(calls') = 0 /\ calls' \in Seq(CallSet)
    BY <2>1
  <2>3. StackOK' /\ Stand(lv, px)'
    BY <2>1, <2>2 DEF StackOK, Stand
  <2>4. c.i = Span(2)
    BY <1>8, <1>9, <1>15
  <2>5. \A v \in Nat : ~Pending(v)
    BY <1>5, <1>7, <1>8, <1>9, <2>4 DEF Pending, Front
  <2> QED
    BY <2>3, <2>5
<1> QED
  BY <1>14, <1>15

\* In a loop, between two calls.
LEMMA LoopFacts ==
    ASSUME MachineOK, SpaceInv, phase \notin {"root", "wild"}
    PROVE  /\ Types /\ StackOK /\ Built /\ LowDue /\ KernelDue /\ HighDue
           /\ at \in 1 .. Len(machine.memmap) /\ at \in DOMAIN machine.memmap /\ i \in Nat
           /\ Span(2) \in Nat /\ Span(2) > 0
           /\ PAGE_SIZES(Size1GiB) = Span(2) /\ PAGE_SIZES(Size4KiB) = 1
BY MachineFacts, MapFacts, Spans, 2 \in 0 .. 5, 2 \in 0 .. 4, 0 \in 0 .. 4
   DEF SpaceInv, Unbuilt, Types, Size1GiB, Size4KiB

\* A loop of vmm_init calls vmm_map.
LEMMA BeginCall ==
    ASSUME MachineOK, SpaceInv, calls = << >>, phase \in {"low", "kernel", "high"},
           NEW virt \in VirtualPages, NEW phys \in Nat, NEW size \in {0, 2},
           IF size = 0 THEN MapsKernel(Call(virt, phys, size)) ELSE Directs(Call(virt, phys, size)),
           CallsMap(virt, phys, size)
    PROVE  /\ StackOK' /\ Built'
           /\ \A v : Due(v) => Due(v)'
           /\ \A v \in VirtualPages : virt <= v /\ v < virt + Span(size) => Due(v)'
           /\ UNCHANGED <<machine, tables, root, cr3, phase, at>>
<1>1. /\ calls' = <<Call(virt, phys, size)>>
      /\ UNCHANGED <<machine, tables, root, cr3, phase, at>>
  BY DEF CallsMap
<1>2. Built
  BY LoopFacts
<1>3. PICK lv, px : Tree(lv, px)
  BY <1>2 DEF Built
<1>4. Tree(lv, px)'
  BY <1>1, <1>3, TreeSame
<1> PICK c : c = Call(virt, phys, size)
  OBVIOUS
<1>5. /\ c \in CallSet /\ Stands(lv, px, c) /\ CallOK(c)
      /\ c.virt = virt /\ c.size = size /\ c.i = 0
  BY <1>3, size \in 0 .. 2, NewCall
<1>6. calls' = <<c>> /\ Len(calls') = 1 /\ calls' \in Seq(CallSet) /\ calls'[1] = c /\ calls' # << >>
  BY <1>1, <1>5
<1>7. CallOK(c)' /\ Stands(lv, px, c)'
  BY <1>1, <1>5, CallSame DEF Stands
<1>8. 0 % E = 0 /\ Span(2) \in Nat
  BY MachineFacts, Spans, ZeroMod, 2 \in 0 .. 5
<1>9. StackOK'
  BY <1>1, <1>5, <1>6, <1>7, <1>8 DEF StackOK
<1>10. Stand(lv, px)'
  BY <1>6, <1>7 DEF Stand
<1>11. Built'
  BY <1>1, <1>4, <1>10 DEF Built
<1>12. \A v : ~Pending(v)
  BY DEF Pending
<1>13. \A v : Translate(root, v)' = Translate(root, v) /\ VirtualPages' = VirtualPages
  BY <1>1, TranslateSame
<1>14. \A v : Due(v) => Due(v)'
  BY <1>12, <1>13 DEF Due
<1>15. ASSUME NEW v \in VirtualPages, virt <= v, v < virt + Span(size) PROVE Due(v)'
  <2>1. Front' = virt
    BY <1>5, <1>6, VirtualFacts DEF Front
  <2>2. Pending(v)'
    BY <1>5, <1>6, <1>15, <2>1 DEF Pending
  <2> QED
    BY <1>13, <2>2 DEF Due
<1> QED
  BY <1>1, <1>9, <1>11, <1>14, <1>15

\* A loop goes on: nothing is called.
LEMMA LoopSame ==
    ASSUME MachineOK, SpaceInv, calls = << >>, phase \notin {"root", "wild"},
           UNCHANGED <<machine, tables, root, calls>>, phase' # "root"
    PROVE  StackOK' /\ Built' /\ \A v : Due(v) => Due(v)'
<1>1. Built
  BY LoopFacts
<1>2. PICK lv, px : Tree(lv, px)
  BY <1>1 DEF Built
<1>3. Tree(lv, px)'
  BY <1>2, TreeSame
<1>4. Len(calls') = 0 /\ calls' \in Seq(CallSet) /\ calls' = << >>
  OBVIOUS
<1>5. StackOK' /\ Stand(lv, px)'
  BY <1>4 DEF StackOK, Stand
<1>6. \A v : ~Pending(v)
  BY DEF Pending
<1>7. \A v : Translate(root, v)' = Translate(root, v) /\ VirtualPages' = VirtualPages
  BY TranslateSame
<1>8. \A v : Due(v) => Due(v)'
  BY <1>6, <1>7 DEF Due
<1> QED
  BY <1>3, <1>5, <1>8 DEF Built

\* A call for a gigabyte of the direct map.
LEMMA GibCall ==
    ASSUME MachineOK, NEW p \in Nat, p % Span(2) = 0, Block(machine.hhdm + p, 2) < KernelGib
    PROVE  /\ machine.hhdm + p \in VirtualPages
           /\ Directs(Call(machine.hhdm + p, p, 2))
           /\ \A q \in Nat : p <= q /\ q < p + Span(2) => machine.hhdm + q \in VirtualPages
<1>1. machine.hhdm \in Nat /\ machine.hhdm + p \in Nat
  BY MachineFacts
<1>2. machine.hhdm + p \in VirtualPages
  BY <1>1, BelowKernel
<1>3. Directs(Call(machine.hhdm + p, p, 2))
  <2>1. (machine.hhdm + p) % Span(2) = 0 /\ p + machine.hhdm = machine.hhdm + p
    BY <1>1, DirectBlock
  <2> QED BY <2>1 DEF Directs, Call
<1>4. ASSUME NEW q \in Nat, p <= q, q < p + Span(2) PROVE machine.hhdm + q \in VirtualPages
  <2>1. Block(q, 2) = Block(p, 2)
    BY <1>4, 2 \in 0 .. 4, Covered
  <2>2. Block(machine.hhdm + q, 2) = Block(machine.hhdm + p, 2)
    BY <2>1, DirectBlock
  <2> QED
    BY <1>1, <2>2, BelowKernel
<1> QED
  BY <1>2, <1>3, <1>4

\* A multiple of a gigabyte above the start of a page's gigabyte is above the page.
LEMMA AboveBlock ==
    ASSUME MachineOK, NEW p \in Nat, NEW m \in Nat, m % Span(2) = 0, Block(p, 2) * Span(2) < m
    PROVE  p < m
<1> DEFINE s == Span(2)
           b == Block(p, 2)
           k == Block(m, 2)
           r == p % s
<1>1. s \in Nat /\ s > 0 /\ b \in Nat /\ r \in 0 .. (s - 1) /\ p = b * s + r
  BY InBlock, 2 \in 0 .. 5
<1>2. k \in Nat /\ k * s \in Nat /\ m = k * s + (m % s)
  BY InBlock, 2 \in 0 .. 5
<1>3. m = k * s /\ b * s < m
  BY <1>2
<1> HIDE DEF s, b, k, r
<1>4. b < k
  <2>1. SUFFICES ASSUME k <= b PROVE FALSE
    BY <1>1, <1>2
  <2>2. (b - k) * s >= 0
    BY <1>1, <1>2, <2>1
  <2>3. (b - k) * s = b * s - k * s
    BY <1>1, <1>2
  <2> DEFINE u == b * s
             w == k * s
  <2>4. u \in Nat /\ w \in Nat /\ u - w >= 0 /\ u < w
    BY <1>1, <1>2, <1>3, <2>2, <2>3
  <2> HIDE DEF u, w
  <2> QED BY <2>4
<1>5. (k - 1 - b) * s >= 0
  BY <1>1, <1>2, <1>4
<1>6. (k - 1 - b) * s = k * s - s - b * s
  BY <1>1, <1>2
<1> DEFINE u == b * s
           w == k * s
<1>7. u \in Nat /\ w \in Nat /\ w - s - u >= 0 /\ p = u + r /\ m = w
  BY <1>1, <1>2, <1>3, <1>5, <1>6
<1> HIDE DEF u, w
<1> QED
  BY <1>1, <1>7

\* The next offset of a loop over gigabytes.
LEMMA NextGib ==
    ASSUME MachineOK, NEW n \in Nat, n % Span(2) = 0
    PROVE  (n + Span(2)) % Span(2) = 0
<1> DEFINE s == Span(2)
           k == Block(n, 2)
<1>1. s \in Nat /\ s > 0 /\ k \in Nat /\ k * s \in Nat /\ n = k * s + (n % s)
  BY InBlock, 2 \in 0 .. 5
<1> HIDE DEF s, k
<1>2. n = k * s
  BY <1>1 DEF s
<1>3. (k + 1) * s + 0 = n + s
  BY <1>1, <1>2
<1>4. ((k + 1) * s + 0) % s = 0
  BY <1>1, k + 1 \in Nat, 0 \in 0 .. (s - 1), DivUnique
<1> QED
  BY <1>3, <1>4 DEF s

\* No gigabytes at all are a whole number of them.
LEMMA NoGib ==
    ASSUME MachineOK
    PROVE  0 % Span(2) = 0
<1> DEFINE s == Span(2)
<1>1. s \in Nat /\ s > 0 /\ 0 \in 0 .. (s - 1) /\ 0 * s + 0 = 0
  BY MachineFacts, Spans, 2 \in 0 .. 5
<1> HIDE DEF s
<1>2. (0 * s + 0) % s = 0
  BY <1>1, DivUnique, 0 \in Nat
<1> QED
  BY <1>1, <1>2 DEF s

\* The loop over the first 4 GiB.
LEMMA MapLowInv ==
    ASSUME MachineOK, SpaceInv, MapLow
    PROVE  SpaceInv'
<1>1. phase = "low" /\ calls = << >>
  BY DEF MapLow
<1>2. /\ Types /\ LowDue /\ at = 1 /\ i \in Nat /\ i % Span(2) = 0 /\ cr3 = NoPage
      /\ Span(2) \in Nat /\ Span(2) > 0 /\ PAGE_SIZES(Size1GiB) = Span(2)
      /\ at \in 1 .. Len(machine.memmap)
  BY <1>1, LoopFacts DEF Types
<1>3. CASE i < LOW
  <2>1. CallsMap(machine.hhdm + i, i, 2)
    BY <1>3 DEF MapLow, Size1GiB
  <2>2. i' = i + Span(2)
    BY <1>2, <2>1 DEF CallsMap, Size1GiB
  <2>3. i \in DirectPages
    BY <1>2, <1>3, MachineFacts, DirectIs
  <2>4. Block(machine.hhdm + i, 2) < KernelGib
    BY <2>3 DEF MachineOK
  <2>5. /\ machine.hhdm + i \in VirtualPages /\ Directs(Call(machine.hhdm + i, i, 2))
        /\ \A q \in Nat : i <= q /\ q < i + Span(2) => machine.hhdm + q \in VirtualPages
    BY <1>2, <2>4, GibCall
  <2>6. /\ StackOK' /\ Built'
        /\ \A v : Due(v) => Due(v)'
        /\ \A v \in VirtualPages :
             machine.hhdm + i <= v /\ v < machine.hhdm + i + Span(2) => Due(v)'
        /\ UNCHANGED <<machine, tables, root, cr3, phase, at>>
    BY <1>1, <1>2, <2>1, <2>5, 2 \in {0, 2}, BeginCall
  <2>7. (i + Span(2)) % Span(2) = 0
    BY <1>2, NextGib
  <2>8. Types'
    <3>1. i + Span(2) \in Nat
      BY <1>2
    <3> QED
      BY <1>1, <1>2, <2>2, <2>6, <2>7, <3>1 DEF Types
  <2>9. LowDue'
    <3>1. ASSUME NEW p \in Nat, p < i + Span(2) PROVE Due(machine.hhdm + p)'
      <4>1. machine.hhdm \in Nat /\ Span(2) \in Nat /\ i \in Nat
        BY <1>2, MachineFacts
      <4>2. CASE p < i
        <5>1. Due(machine.hhdm + p)
          BY <1>1, <1>2, <4>2 DEF LowDue
        <5> QED BY <2>6, <5>1
      <4>3. CASE i <= p
        <5>1. machine.hhdm + p \in VirtualPages
          BY <2>5, <3>1, <4>3
        <5>2. machine.hhdm + i <= machine.hhdm + p /\ machine.hhdm + p < machine.hhdm + i + Span(2)
          BY <4>3, <4>1, <3>1
        <5> QED BY <2>6, <5>1, <5>2
      <4> QED
        BY <1>2, <4>2, <4>3
    <3> QED
      BY <1>1, <2>2, <2>6, <3>1 DEF LowDue
  <2>10. KernelDue' /\ HighDue'
    BY <1>1, <2>6 DEF KernelDue, HighDue, Seen
  <2> QED
    BY <2>6, <2>8, <2>9, <2>10 DEF SpaceInv
<1>4. CASE ~(i < LOW)
  <2>1. /\ phase' = "kernel" /\ i' = 0
        /\ UNCHANGED <<machine, tables, root, cr3, at, calls>>
    BY <1>4 DEF MapLow
  <2>2. StackOK' /\ Built' /\ \A v : Due(v) => Due(v)'
    BY <1>1, <2>1, LoopSame
  <2>3. Types'
    BY <1>2, <2>1 DEF Types
  <2>4. LowDue'
    <3>1. ASSUME NEW p \in Nat, Block(p, 2) * Span(2) < LOW PROVE Due(machine.hhdm + p)'
      <4>1. Block(p, 2) * Span(2) \in Nat /\ LOW \in Nat
        BY InBlock, 2 \in 0 .. 5, MachineFacts
      <4>2. Block(p, 2) * Span(2) < i
        BY <1>2, <1>4, <3>1, <4>1
      <4>3. p < i
        BY <1>2, <4>2, AboveBlock
      <4>4. Due(machine.hhdm + p)
        BY <1>1, <1>2, <4>3 DEF LowDue
      <4> QED
        BY <2>1, <2>2, <4>4
    <3> QED
      BY <2>1, <3>1 DEF LowDue, Block, Span
  <2>5. KernelDue'
    <3>1. DOMAIN machine.memmap = 1 .. Len(machine.memmap)
      BY MapFacts
    <3> QED
      BY <1>2, <2>1, <3>1 DEF KernelDue, Seen
  <2>6. HighDue'
    BY <2>1 DEF HighDue, Seen
  <2> QED
    BY <2>2, <2>3, <2>4, <2>5, <2>6 DEF SpaceInv
<1> QED
  BY <1>3, <1>4

\* The gigabyte of a page begins before it, and after that of an earlier page.
LEMMA BlockMono ==
    ASSUME MachineOK, NEW p \in Nat
    PROVE  /\ Block(p, 2) * Span(2) \in Nat /\ Block(p, 2) * Span(2) <= p
           /\ \A q \in Nat : p <= q => Block(p, 2) * Span(2) <= Block(q, 2) * Span(2)
<1> DEFINE s == Span(2)
           x == Block(p, 2)
           r == p % s
<1>1. s \in Nat /\ s > 0 /\ x \in Nat /\ x * s \in Nat /\ r \in 0 .. (s - 1) /\ p = x * s + r
  BY InBlock, 2 \in 0 .. 5
<1> HIDE DEF s, x, r
<1>2. x * s <= p
  BY <1>1
<1>3. ASSUME NEW q \in Nat, p <= q PROVE x * s <= Block(q, 2) * s
  <2> DEFINE y == Block(q, 2)
  <2>1. x <= y
    BY <1>1, <1>3, DivMono DEF Block, s, x
  <2>2. y \in Nat
    BY InBlock, 2 \in 0 .. 5
  <2> HIDE DEF y
  <2>3. (y - x) * s >= 0 /\ (y - x) * s = y * s - x * s /\ y * s \in Nat
    BY <1>1, <2>1, <2>2
  <2>4. x * s <= y * s
    BY <1>1, <2>3
  <2> QED BY <2>4 DEF y
<1> QED
  BY <1>1, <1>2, <1>3 DEF s, x

\* An entry's memory above 4 GiB has no gigabyte before that of its first page.
LEMMA NoneBefore ==
    ASSUME MachineOK, NEW k \in DOMAIN machine.memmap, NEW q \in HighPages(machine.memmap[k]),
           NEW p \in Nat, Block(p, 2) = Block(q, 2),
           p < Block(HighBase(machine.memmap[k]), 2) * Span(2) + 0
    PROVE  FALSE
<1> DEFINE b == HighBase(machine.memmap[k])
<1>1. b \in Nat /\ machine.memmap[k].base \in Nat /\ machine.memmap[k].length \in Nat
  BY MachineFacts, MapFacts DEF HighBase
<1>2. q \in b .. (machine.memmap[k].base + machine.memmap[k].length - 1)
  BY DEF HighPages
<1> HIDE DEF b
<1>3. q \in Nat /\ b <= q
  BY <1>1, <1>2
<1>4. Block(b, 2) * Span(2) <= Block(q, 2) * Span(2)
  BY <1>1, <1>3, BlockMono
<1>5. /\ Block(p, 2) * Span(2) <= p /\ Block(p, 2) * Span(2) \in Nat
      /\ Block(b, 2) * Span(2) \in Nat
  BY <1>1, BlockMono
<1> QED
  BY <1>4, <1>5 DEF b

\* A loop over the memory map goes to the next entry.
LEMMA NextEntryFacts ==
    ASSUME MachineOK, SpaceInv, calls = << >>, phase \in {"kernel", "high"},
           NEW after \in {"high", "switch"}, NextEntry(after)
    PROVE  /\ StackOK' /\ Built' /\ \A v : Due(v) => Due(v)'
           /\ Types' /\ LowDue' /\ i' = 0
           /\ UNCHANGED <<machine, tables, root, cr3, calls>>
           /\ \/ at' = at + 1 /\ phase' = phase
              \/ at' = 1 /\ phase' = after /\ at = Len(machine.memmap)
           /\ DOMAIN machine.memmap = 1 .. Len(machine.memmap)
           /\ at \in DOMAIN machine.memmap /\ Len(machine.memmap) \in Nat
<1>1. /\ i' = 0 /\ UNCHANGED <<machine, tables, root, cr3, calls>>
      /\ IF at < Len(machine.memmap) THEN at' = at + 1 /\ phase' = phase
         ELSE at' = 1 /\ phase' = after
  BY DEF NextEntry
<1>2. /\ Types /\ LowDue /\ at \in 1 .. Len(machine.memmap) /\ at \in DOMAIN machine.memmap
  BY LoopFacts
<1>3. /\ Len(machine.memmap) \in Nat /\ Len(machine.memmap) > 0
      /\ DOMAIN machine.memmap = 1 .. Len(machine.memmap)
  BY MapFacts
<1>4. /\ \/ at' = at + 1 /\ phase' = phase
         \/ at' = 1 /\ phase' = after /\ at = Len(machine.memmap)
      /\ at' \in 1 .. Len(machine.memmap)
  BY <1>1, <1>2, <1>3
<1>5. phase' \in {"kernel", "high", "switch"}
  BY <1>4
<1>6. StackOK' /\ Built' /\ \A v : Due(v) => Due(v)'
  BY <1>1, <1>5, LoopSame
<1>7. 0 % Span(2) = 0
  BY NoGib
<1>8. Types'
  BY <1>1, <1>2, <1>4, <1>5, <1>7 DEF Types
<1>9. LowDue'
  <2>1. \A p \in Nat : Block(p, 2) * Span(2) < LOW => Due(machine.hhdm + p)
    BY <1>2 DEF LowDue
  <2> QED
    BY <1>1, <1>5, <1>6, <2>1 DEF LowDue, Block, Span
<1> QED
  BY <1>1, <1>2, <1>3, <1>4, <1>6, <1>8, <1>9

\* The loop over the kernel's pages.
LEMMA MapKernelInv ==
    ASSUME MachineOK, SpaceInv, MapKernel
    PROVE  SpaceInv'
<1> DEFINE e == machine.memmap[at]
           kv == machine.kernel_virt
<1>1. phase = "kernel" /\ calls = << >>
  BY DEF MapKernel
<1>2. /\ Types /\ LowDue /\ KernelDue /\ i \in Nat /\ cr3 = NoPage
      /\ PAGE_SIZES(Size4KiB) = 1
      /\ at \in 1 .. Len(machine.memmap) /\ at \in DOMAIN machine.memmap
  BY <1>1, LoopFacts DEF Types
<1>3. e.length \in Nat /\ kv \in Nat /\ machine.kernel_phys \in Nat
  BY <1>2, MapFacts, MachineFacts
<1>4. CASE e.type = "kernel" /\ i < e.length
  <2>1. CallsMap(kv + i, machine.kernel_phys + i, 0)
    BY <1>4 DEF MapKernel, Size4KiB
  <2>2. i' = i + 1
    BY <1>2, <2>1 DEF CallsMap, Size4KiB
  <2>3. kv + e.length <= Span(machine.levels) /\ Span(machine.levels) \in Nat
    <3>1. machine.levels \in 0 .. 5
      BY MachineFacts
    <3> QED BY <1>2, <1>4, <3>1, MachineFacts, Spans DEF MachineOK
  <2>4. kv + i \in VirtualPages /\ kv + i \in Nat /\ machine.kernel_phys + i \in Nat
    <3> HIDE DEF e, kv
    <3>1. kv + i \in Nat /\ machine.kernel_phys + i \in Nat
      BY <1>2, <1>3
    <3>2. kv + i < kv + e.length
      BY <1>2, <1>3, <1>4
    <3>3. kv + i < Span(machine.levels)
      BY <1>3, <2>3, <3>1, <3>2
    <3> QED
      BY <3>1, <3>3, VirtualFacts
  <2>5. MapsKernel(Call(kv + i, machine.kernel_phys + i, 0))
    <3>1. Span(2) \in Nat /\ Span(2) > 0
      BY MachineFacts, Spans, 2 \in 0 .. 5
    <3>2. kv <= kv + i
      BY <1>2, <1>3
    <3>3. KernelGib <= Block(kv + i, 2)
      BY <1>3, <2>4, <3>1, <3>2, DivMono DEF KernelGib, Block
    <3>4. KernelGib \in Nat /\ Block(kv + i, 2) \in Nat
      BY <2>4, KernelGibNat, InBlock, 2 \in 0 .. 5
    <3>5. Block(kv + i, 2) >= KernelGib
      BY <3>3, <3>4
    <3>6. machine.kernel_phys + i + kv = machine.kernel_phys + (kv + i)
      BY <1>2, <1>3
    <3> QED
      BY <3>5, <3>6 DEF MapsKernel, Call
  <2>6. /\ StackOK' /\ Built'
        /\ \A v : Due(v) => Due(v)'
        /\ \A v \in VirtualPages : kv + i <= v /\ v < kv + i + Span(0) => Due(v)'
        /\ UNCHANGED <<machine, tables, root, cr3, phase, at>>
    BY <1>1, <2>1, <2>4, <2>5, 0 \in {0, 2}, BeginCall
  <2> PICK w : w = kv + i
    OBVIOUS
  <2>7. Due(w)'
    <3>1. Span(0) = 1
      BY MachineFacts, Spans
    <3>2. kv + i <= w /\ w < kv + i + Span(0)
      BY <2>4, <3>1
    <3> QED BY <2>4, <2>6, <3>2
  <2>8. Types'
    BY <1>1, <1>2, <2>2, <2>6 DEF Types
  <2>9. LowDue'
    <3>1. \A p \in Nat : Block(p, 2) * Span(2) < LOW => Due(machine.hhdm + p)
      BY <1>1, <1>2 DEF LowDue
    <3> QED
      BY <1>1, <2>6, <3>1 DEF LowDue, Block, Span
  <2>10. KernelDue'
    <3>1. ASSUME NEW k \in DOMAIN machine.memmap, NEW j \in Nat,
                 machine.memmap[k].type = "kernel", j < machine.memmap[k].length,
                 k < at \/ (k = at /\ j < i + 1)
          PROVE  Due(kv + j)'
      <4>1. CASE k < at \/ (k = at /\ j < i)
        <5>1. Due(kv + j)
          BY <1>1, <1>2, <3>1, <4>1 DEF KernelDue, Seen
        <5> QED BY <2>6, <5>1
      <4>2. CASE k = at /\ j = i
        BY <2>6, <2>7, <4>2
      <4> QED
        BY <1>2, <3>1, <4>1, <4>2
    <3> QED
      BY <1>1, <2>2, <2>6, <3>1 DEF KernelDue, Seen
  <2>11. HighDue'
    BY <1>1, <2>6 DEF HighDue, Seen
  <2> QED
    BY <2>6, <2>8, <2>9, <2>10, <2>11 DEF SpaceInv
<1>5. CASE ~(e.type = "kernel" /\ i < e.length)
  <2>1. NextEntry("high")
    BY <1>5 DEF MapKernel
  <2>2. /\ StackOK' /\ Built' /\ \A v : Due(v) => Due(v)'
        /\ Types' /\ LowDue' /\ i' = 0
        /\ UNCHANGED <<machine, tables, root, cr3, calls>>
        /\ \/ at' = at + 1 /\ phase' = phase
           \/ at' = 1 /\ phase' = "high" /\ at = Len(machine.memmap)
        /\ DOMAIN machine.memmap = 1 .. Len(machine.memmap)
        /\ at \in DOMAIN machine.memmap /\ Len(machine.memmap) \in Nat
    BY <1>1, <2>1, NextEntryFacts
  <2>3. ASSUME NEW k \in DOMAIN machine.memmap, NEW j \in Nat,
               machine.memmap[k].type = "kernel", j < machine.memmap[k].length, k <= at
        PROVE  Due(kv + j)'
    <3>1. k = at => j < i
      BY <1>2, <1>3, <1>5, <2>3
    <3>2. k < at \/ (k = at /\ j < i)
      BY <2>2, <2>3, <3>1
    <3>3. Due(kv + j)
      BY <1>1, <1>2, <2>3, <3>2 DEF KernelDue, Seen
    <3> QED
      BY <2>2, <3>3
  <2>4. KernelDue'
    BY <1>1, <2>2, <2>3 DEF KernelDue, Seen
  <2>5. HighDue'
    <3>1. CASE phase' = "kernel"
      BY <3>1, <2>2 DEF HighDue, Seen
    <3>2. CASE phase' = "high" /\ at' = 1
      <4>1. ASSUME NEW k \in DOMAIN machine.memmap, NEW q \in HighPages(machine.memmap[k]),
                   NEW p \in Nat, Block(p, 2) = Block(q, 2),
                   p < Block(HighBase(machine.memmap[k]), 2) * Span(2) + 0
            PROVE  FALSE
        BY <4>1, NoneBefore
      <4> QED
        BY <2>2, <3>2, <4>1 DEF HighDue, Seen, HighPages, HighBase, Block, Span
    <3> QED
      BY <1>1, <2>2, <3>1, <3>2
  <2> QED
    BY <2>2, <2>4, <2>5 DEF SpaceInv
<1> QED
  BY <1>4, <1>5

\* Rounded up to whole gigabytes: whatever gigabyte begins below that begins
\* below the number itself.
LEMMA RoundedUp ==
    ASSUME MachineOK, NEW n \in Nat
    PROVE  LET u == align_up(n, Span(2)) IN
           /\ u \in Nat /\ n <= u /\ u % Span(2) = 0
           /\ \A p \in Nat : p % Span(2) = 0 /\ p < u => p < n
<1> DEFINE s == Span(2)
           m == n + s - 1
           b == Block(m, 2)
           u == b * s
           r == m % s
<1>1. s \in Nat /\ s > 0
  BY MachineFacts, Spans, 2 \in 0 .. 5
<1>2. m \in Nat
  BY <1>1
<1>3. align_up(n, s) = u
  BY DEF align_up, Block
<1> HIDE DEF m
<1>4. b \in Nat /\ u \in Nat /\ r \in 0 .. (s - 1) /\ m = u + r
  BY <1>2, InBlock, 2 \in 0 .. 5
<1> HIDE DEF s, r
<1>5. (b * s + 0) % s = 0
  <2> HIDE DEF b
  <2> QED BY <1>1, <1>4, 0 \in 0 .. (s - 1), DivUnique
<1> HIDE DEF b
<1>6. u + 0 = u
  BY <1>4
<1>7. u % s = 0
  BY <1>5, <1>6
<1> HIDE DEF u
<1>8. n <= u /\ u <= n + s - 1
  BY <1>1, <1>4 DEF m
<1>9. ASSUME NEW p \in Nat, p % s = 0, p < u PROVE p < n
  <2> DEFINE q == p + s - 1
  <2>1. q \in Nat /\ p <= q /\ q < p + s
    BY <1>1
  <2> HIDE DEF q
  <2>2. Block(q, 2) = Block(p, 2)
    BY <1>9, <2>1, 2 \in 0 .. 4, Covered DEF s
  <2>3. Block(p, 2) * s <= p /\ Block(p, 2) * s \in Nat
    BY BlockMono DEF s
  <2>4. Block(q, 2) * s < u
    BY <1>4, <1>9, <2>2, <2>3
  <2>5. q < u
    BY <1>4, <1>7, <2>1, <2>4, AboveBlock DEF s
  <2> QED
    BY <1>1, <1>4, <1>8, <2>5 DEF q
<1> QED
  BY <1>3, <1>4, <1>7, <1>8, <1>9 DEF s

\* The loop over the memory above 4 GiB.
LEMMA MapHighInv ==
    ASSUME MachineOK, SpaceInv, MapHigh
    PROVE  SpaceInv'
<1> DEFINE e == machine.memmap[at]
           top == e.base + e.length
           base == HighBase(e)
           s == Span(2)
           page == Block(base, 2) * s + i
           Maps == e.type \notin {"reserved", "bad"} /\ base < top /\ page < align_up(top, s)
<1>1. phase = "high" /\ calls = << >>
  BY DEF MapHigh
<1>2. /\ Types /\ LowDue /\ KernelDue /\ HighDue /\ i \in Nat /\ i % s = 0 /\ cr3 = NoPage
      /\ PAGE_SIZES(Size1GiB) = s /\ s \in Nat /\ s > 0
      /\ at \in 1 .. Len(machine.memmap) /\ at \in DOMAIN machine.memmap
  BY <1>1, LoopFacts DEF Types
<1>3. e.base \in Nat /\ e.length \in Nat /\ base \in Nat /\ top \in Nat /\ e.base <= base
  <2>1. e.base \in Nat /\ e.length \in Nat /\ LOW \in Nat
    BY <1>2, MapFacts, MachineFacts
  <2> HIDE DEF e
  <2> QED BY <2>1 DEF HighBase
<1>4. Block(base, 2) \in Nat /\ Block(base, 2) * s \in Nat /\ Block(base, 2) * s <= base
  BY <1>3, BlockMono, InBlock, 2 \in 0 .. 5
<1>5. page \in Nat /\ page % s = 0
  <2> DEFINE b == Block(base, 2)
             k == Block(i, 2)
  <2>1. k \in Nat /\ k * s \in Nat /\ i = k * s + (i % s)
    BY <1>2, InBlock, 2 \in 0 .. 5
  <2> HIDE DEF b, k, s
  <2>2. i = k * s
    BY <1>2, <2>1
  <2>3. b \in Nat /\ (b + k) * s + 0 = b * s + i /\ b * s \in Nat
    <3>1. b \in Nat /\ b * s \in Nat
      BY <1>4 DEF b
    <3>2. (b + k) * s = b * s + k * s
      BY <1>2, <2>1, <3>1
    <3>3. (b + k) * s = b * s + i
      BY <2>2, <3>2
    <3> DEFINE u == b * s
    <3>4. u \in Nat /\ (b + k) * s = u + i
      BY <3>1, <3>3
    <3> HIDE DEF u
    <3>5. (b + k) * s + 0 = u + i
      BY <1>2, <3>4
    <3> QED BY <3>1, <3>5 DEF u
  <2>4. ((b + k) * s + 0) % s = 0
    BY <1>2, <2>1, <2>3, b + k \in Nat, 0 \in 0 .. (s - 1), DivUnique
  <2> QED
    BY <1>2, <2>3, <2>4 DEF b
<1>6. MapHigh => IF Maps THEN CallsMap(page + machine.hhdm, page, 2) ELSE NextEntry("switch")
  BY <1>2 DEF MapHigh, HighBase, align_down, Block, Size1GiB
<1>7. /\ align_up(top, s) \in Nat /\ top <= align_up(top, s) /\ align_up(top, s) % s = 0
      /\ \A p \in Nat : p % s = 0 /\ p < align_up(top, s) => p < top
  BY <1>3, RoundedUp
<1> HIDE DEF page, s, base, top
<1>8. LowDue' \/ ~(phase' \in {"high", "switch"} /\ \A v : Due(v) => Due(v)') \/ machine' # machine
  <2>1. \A p \in Nat : Block(p, 2) * Span(2) < LOW => Due(machine.hhdm + p)
    BY <1>1, <1>2 DEF LowDue
  <2> QED
    BY <2>1 DEF LowDue, Block, Span
<1>9. KernelDue' \/ ~(phase' \in {"high", "switch"} /\ \A v : Due(v) => Due(v)') \/ machine' # machine
  <2>1. \A k \in DOMAIN machine.memmap : \A j \in Nat :
           machine.memmap[k].type = "kernel" /\ j < machine.memmap[k].length => Due(machine.kernel_virt + j)
    BY <1>1, <1>2 DEF KernelDue, Seen
  <2> QED
    BY <2>1 DEF KernelDue
<1>10. CASE Maps
  <2>1. page < top
    BY <1>5, <1>7, <1>10
  <2>2. \E q \in DirectPages : q \in Nat /\ Block(q, 2) = Block(page, 2)
    <3>1. CASE base <= page
      <4>1. page \in e.base .. (e.base + e.length - 1)
        BY <1>3, <1>5, <2>1, <3>1 DEF top
      <4>2. page \in DirectPages
        BY <1>2, <1>10, <4>1, DirectIs
      <4> QED BY <1>5, <4>2
    <3>2. CASE page < base
      <4>1. base \in e.base .. (e.base + e.length - 1)
        BY <1>3, <1>10 DEF top
      <4>2. base \in DirectPages
        BY <1>2, <1>10, <4>1, DirectIs
      <4>3. page = Block(base, 2) * s + i
        BY DEF page
      <4>4. Block(base, 2) * s <= page
        BY <1>2, <1>4, <4>3
      <4>5. base < page + s
        <5>1. base % s \in 0 .. (s - 1) /\ base = Block(base, 2) * s + (base % s)
          BY <1>3, InBlock, 2 \in 0 .. 5 DEF s
        <5> QED BY <1>2, <1>3, <1>4, <1>5, <4>4, <5>1
      <4>6. Block(base, 2) = Block(page, 2)
        BY <1>3, <1>5, <3>2, <4>5, 2 \in 0 .. 4, Covered DEF s
      <4> QED BY <1>3, <4>2, <4>6
    <3> QED
      BY <1>3, <1>5, <3>1, <3>2
  <2>3. Block(machine.hhdm + page, 2) < KernelGib
    <3>1. PICK q \in DirectPages : q \in Nat /\ Block(q, 2) = Block(page, 2)
      BY <2>2
    <3>2. Block(machine.hhdm + q, 2) = Block(machine.hhdm + page, 2)
      BY <1>5, <3>1, DirectBlock
    <3> QED
      BY <3>1, <3>2 DEF MachineOK
  <2>4. /\ machine.hhdm + page \in VirtualPages /\ Directs(Call(machine.hhdm + page, page, 2))
        /\ \A q \in Nat : page <= q /\ q < page + s => machine.hhdm + q \in VirtualPages
    BY <1>5, <2>3, GibCall DEF s
  <2>5. machine.hhdm \in Nat /\ page + machine.hhdm = machine.hhdm + page
    BY <1>5, MachineFacts
  <2>6. CallsMap(machine.hhdm + page, page, 2)
    BY <1>6, <1>10, <2>5
  <2>7. i' = i + s
    BY <1>2, <2>6 DEF CallsMap, Size1GiB
  <2>8. /\ StackOK' /\ Built'
        /\ \A v : Due(v) => Due(v)'
        /\ \A v \in VirtualPages :
             machine.hhdm + page <= v /\ v < machine.hhdm + page + s => Due(v)'
        /\ UNCHANGED <<machine, tables, root, cr3, phase, at>>
    BY <1>1, <1>5, <2>4, <2>6, 2 \in {0, 2}, BeginCall DEF s
  <2>9. (i + s) % s = 0
    BY <1>2, NextGib DEF s
  <2>10. Types'
    <3>1. i + s \in Nat
      BY <1>2
    <3> QED
      BY <1>1, <1>2, <2>7, <2>8, <2>9, <3>1 DEF Types, s
  <2>11. HighDue'
    <3>1. ASSUME NEW k \in DOMAIN machine.memmap, NEW q \in HighPages(machine.memmap[k]),
                 NEW p \in Nat, Block(p, 2) = Block(q, 2),
                 k < at \/ (k = at /\ p < Block(HighBase(machine.memmap[k]), 2) * Span(2) + (i + s))
          PROVE  Due(machine.hhdm + p)'
      <4>1. CASE k < at \/ (k = at /\ p < Block(HighBase(machine.memmap[k]), 2) * Span(2) + i)
        <5>1. Due(machine.hhdm + p)
          BY <1>1, <1>2, <3>1, <4>1 DEF HighDue, Seen
        <5> QED BY <2>8, <5>1
      <4>2. CASE k = at /\ ~(p < Block(HighBase(machine.memmap[k]), 2) * Span(2) + i)
        <5>1. Block(HighBase(machine.memmap[k]), 2) * Span(2) = Block(base, 2) * s
          BY <4>2 DEF base, s
        <5> DEFINE z == Block(base, 2) * s
        <5>2. z \in Nat /\ page = z + i
          BY <1>4 DEF page
        <5>3. ~(p < z + i) /\ p < z + (i + s)
          BY <1>2, <3>1, <4>2, <5>1
        <5> HIDE DEF z
        <5>4. page <= p /\ p < page + s
          BY <1>2, <5>2, <5>3
        <5>5. machine.hhdm + p \in VirtualPages
          BY <2>4, <5>4
        <5>6. machine.hhdm + page <= machine.hhdm + p /\ machine.hhdm + p < machine.hhdm + page + s
          BY <1>2, <1>5, <2>5, <5>4
        <5> QED BY <2>8, <5>5, <5>6
      <4> QED
        BY <3>1, <4>1, <4>2
    <3> QED
      BY <1>1, <2>7, <2>8, <3>1 DEF HighDue, Seen, HighPages, HighBase, Block, Span
  <2>12. LowDue' /\ KernelDue'
    BY <1>1, <1>8, <1>9, <2>8
  <2> QED
    BY <2>8, <2>10, <2>11, <2>12 DEF SpaceInv
<1>11. CASE ~Maps
  <2>1. NextEntry("switch")
    BY <1>6, <1>11
  <2>2. /\ StackOK' /\ Built' /\ \A v : Due(v) => Due(v)'
        /\ Types' /\ LowDue' /\ i' = 0
        /\ UNCHANGED <<machine, tables, root, cr3, calls>>
        /\ \/ at' = at + 1 /\ phase' = phase
           \/ at' = 1 /\ phase' = "switch" /\ at = Len(machine.memmap)
        /\ DOMAIN machine.memmap = 1 .. Len(machine.memmap)
        /\ at \in DOMAIN machine.memmap /\ Len(machine.memmap) \in Nat
    BY <1>1, <2>1, NextEntryFacts
  <2>3. ASSUME NEW q \in HighPages(e), NEW p \in Nat, Block(p, 2) = Block(q, 2)
        PROVE  p < Block(base, 2) * s + i
    <3>1. e.type \notin {"reserved", "bad"} /\ q \in base .. (top - 1)
      <4> HIDE DEF e
      <4>1. HighPages(e) # {}
        OBVIOUS
      <4>2. e.type \notin {"reserved", "bad"}
        BY <4>1, Zenon DEF HighPages
      <4>3. q \in HighBase(e) .. (e.base + e.length - 1)
        BY <2>3, <4>2, Zenon DEF HighPages
      <4>4. e.base + e.length - 1 = top - 1
        BY <1>3 DEF top
      <4> QED BY <4>2, <4>3, <4>4 DEF base
    <3>2. q \in Nat /\ base < top /\ q < top
      BY <1>3, <3>1
    <3>3. align_up(top, s) <= page
      BY <1>5, <1>7, <1>11, <3>1, <3>2
    <3>4. Block(q, 2) * s <= q /\ Block(q, 2) * s \in Nat
      BY <3>2, BlockMono DEF s
    <3>5. Block(p, 2) * s < align_up(top, s)
      BY <1>3, <1>7, <2>3, <3>2, <3>4
    <3>6. p < align_up(top, s)
      BY <1>7, <3>5, AboveBlock DEF s
    <3>7. p < page
      BY <1>5, <1>7, <3>3, <3>6
    <3> QED
      BY <3>7 DEF page
  <2>4. ASSUME NEW k \in DOMAIN machine.memmap, NEW q \in HighPages(machine.memmap[k]),
               NEW p \in Nat, Block(p, 2) = Block(q, 2), k <= at
        PROVE  Due(machine.hhdm + p)'
    <3>1. k = at => p < Block(HighBase(machine.memmap[k]), 2) * Span(2) + i
      BY <2>3, <2>4 DEF base, s
    <3>2. k < at \/ k = at
      BY <2>2, <2>4
    <3>3. Due(machine.hhdm + p)
      BY <1>1, <1>2, <2>4, <3>1, <3>2 DEF HighDue, Seen
    <3> QED
      BY <2>2, <3>3
  <2>5. HighDue'
    <3>1. CASE at' = at + 1 /\ phase' = "high"
      <4>1. ASSUME NEW k \in DOMAIN machine.memmap, NEW q \in HighPages(machine.memmap[k]),
                   NEW p \in Nat, Block(p, 2) = Block(q, 2),
                   k < at + 1 \/ (k = at + 1 /\ p < Block(HighBase(machine.memmap[k]), 2) * Span(2) + 0)
            PROVE  Due(machine.hhdm + p)'
        <5>1. CASE k <= at
          BY <2>4, <4>1, <5>1
        <5>2. CASE ~(k <= at)
          <6>1. p < Block(HighBase(machine.memmap[k]), 2) * Span(2) + 0
            BY <2>2, <4>1, <5>2
          <6> QED
            BY <4>1, <6>1, NoneBefore
        <5> QED
          BY <5>1, <5>2
      <4> QED
        BY <2>2, <3>1, <4>1 DEF HighDue, Seen, HighPages, HighBase, Block, Span
    <3>2. CASE phase' = "switch" /\ at = Len(machine.memmap)
      BY <2>2, <2>4, <3>2 DEF HighDue, Seen, HighPages, HighBase, Block, Span
    <3> QED
      BY <1>1, <2>2, <3>1, <3>2
  <2>6. phase' \in {"high", "switch"}
    BY <1>1, <2>2
  <2>7. KernelDue'
    BY <1>9, <2>2, <2>6
  <2> QED
    BY <2>2, <2>5, <2>7 DEF SpaceInv
<1> QED
  BY <1>10, <1>11

\* The root is the first table.
LEMMA AllocRootInv ==
    ASSUME MachineOK, SpaceInv, AllocRoot
    PROVE  SpaceInv'
<1>1. phase = "root" /\ Types /\ StackOK
  BY DEF AllocRoot, SpaceInv
<1>2. root = NoPage /\ tables = << >> /\ calls = << >> /\ i = 0 /\ at = 1 /\ cr3 = NoPage
  BY <1>1 DEF SpaceInv, Built, Unbuilt, Types
<1>3. CASE pmm_alloc = NoPage
  BY <1>1, <1>3, WildStep DEF AllocRoot
<1>4. CASE pmm_alloc # NoPage
  <2> PICK n : n = pmm_alloc
    OBVIOUS
  <2>1. n \in machine.free /\ n \in Nat
    BY <1>4, AllocFree, DirectFacts
  <2>2. /\ root' = n /\ tables' = WithTable(n) /\ phase' = "low"
        /\ UNCHANGED <<machine, cr3, at, i, calls>>
    BY <1>4 DEF AllocRoot
  <2>3. DOMAIN tables' = {n} /\ tables'[n] = EmptyTable
    <3>1. DOMAIN tables = {}
      BY <1>2
    <3> QED
      BY <2>2, <3>1 DEF WithTable
  <2>4. /\ tables'[n] \in [Entries -> EntrySet]
        /\ \A y \in Entries : ~tables'[n][y].valid
    <3>1. NoEntry \in EntrySet /\ ~NoEntry.valid
      BY DEF NoEntry, EntrySet
    <3>2. EmptyTable \in [Entries -> EntrySet] /\ \A y \in Entries : EmptyTable[y] = NoEntry
      BY <3>1 DEF EmptyTable, Entries
    <3> QED
      BY <2>3, <3>1, <3>2
  <2> PICK lv : lv = [p \in {n} |-> RootLevel]
    OBVIOUS
  <2> PICK px : px = [p \in {n} |-> 0]
    OBVIOUS
  <2>5. RootLevel' = RootLevel /\ RootLevel \in {3, 4} /\ DirectLevel' \in {1, 2}
    <3>1. MachineOK'
      BY <2>2, MachineSame
    <3> QED
      BY <2>2, MachineFacts DEF RootLevel, DirectLevel
  <2>6. lv[n] = RootLevel /\ px[n] = 0 /\ lv \in [{n} -> 0 .. RootLevel] /\ px \in [{n} -> Nat]
    BY <2>5
  <2>7. Shape'
    BY <2>1, <2>2, <2>3, <2>4 DEF Shape, EntrySet
  <2>8. Placed(lv, px)'
    BY <2>2, <2>3, <2>5, <2>6 DEF Placed
  <2>9. Leads(lv, px)'
    BY <2>3, <2>4 DEF Leads
  <2>10. Hangs(lv)'
    BY <2>2, <2>3 DEF Hangs
  <2>11. Leaves(lv, px)'
    BY <2>3, <2>4 DEF Leaves, IsLeaf
  <2>12. Fine(lv, px)'
    BY <2>3, <2>5, <2>6 DEF Fine
  <2>13. Tree(lv, px)'
    BY <2>7, <2>8, <2>9, <2>10, <2>11, <2>12 DEF Tree
  <2>14. calls' = << >> /\ Len(calls') = 0 /\ calls' \in Seq(CallSet)
    BY <1>2, <2>2
  <2>15. StackOK' /\ Stand(lv, px)'
    BY <2>14 DEF StackOK, Stand
  <2>16. Built'
    BY <2>2, <2>13, <2>15 DEF Built
  <2>17. 0 % Span(2) = 0
    BY NoGib
  <2>18. Types'
    BY <1>1, <1>2, <2>2, <2>17 DEF Types
  <2>19. LowDue' /\ KernelDue' /\ HighDue'
    BY <1>2, <2>2 DEF LowDue, KernelDue, HighDue, Seen
  <2> QED
    BY <2>15, <2>16, <2>18, <2>19 DEF SpaceInv
<1> QED
  BY <1>3, <1>4

\* va_space_switch finds the root again.
LEMMA SwitchInv ==
    ASSUME MachineOK, SpaceInv, Switch
    PROVE  SpaceInv'
<1>1. /\ phase = "switch" /\ phase' = "done"
      /\ UNCHANGED <<machine, tables, root, at, i, calls>>
  BY DEF Switch
<1>2. Types /\ StackOK /\ Built /\ LowDue /\ KernelDue /\ HighDue
  BY <1>1, LoopFacts
<1>3. calls = << >>
  BY <1>1, <1>2 DEF StackOK
<1>4. PICK lv, px : Tree(lv, px)
  BY <1>2 DEF Built
<1>5. root \in machine.free
  BY <1>4 DEF Tree, Shape, Placed
<1>6. root \in Nat /\ root # 0 /\ root \in DirectPages
  BY <1>5, DirectFacts DEF MachineOK
<1>7. Block(machine.hhdm + root, 2) < KernelGib
  BY <1>6 DEF MachineOK
<1>8. machine.hhdm \in Nat /\ machine.kernel_virt \in Nat
  BY MachineFacts
<1>9. machine.hhdm + root < machine.kernel_virt
  BY <1>6, <1>7, <1>8, BelowKernel
<1>10. cr3' = root
  BY <1>6, <1>8, <1>9 DEF Switch
<1>11. StackOK' /\ Built' /\ \A v : Due(v) => Due(v)'
  BY <1>1, <1>3, LoopSame
<1>12. Types'
  BY <1>1, <1>2, <1>10 DEF Types
<1>13. LowDue'
  BY <1>1, <1>2, <1>11 DEF LowDue, Block, Span
<1>14. KernelDue'
  BY <1>1, <1>2, <1>11 DEF KernelDue, Seen
<1>15. HighDue'
  BY <1>1, <1>2, <1>11 DEF HighDue, HighPages, HighBase, Seen, Block, Span
<1> QED
  BY <1>11, <1>12, <1>13, <1>14, <1>15 DEF SpaceInv

\* Before vmm_init runs.
LEMMA SpaceInit ==
    ASSUME Init, machine.memmap \in Seq([base : Nat, length : Nat, type : STRING]),
           machine.memmap # << >>
    PROVE  SpaceInv
<1>1. Len(machine.memmap) \in Nat /\ Len(machine.memmap) > 0
  OBVIOUS
<1>2. calls \in Seq(CallSet) /\ Len(calls) = 0
  BY DEF Init
<1>3. StackOK
  BY <1>2 DEF Init, StackOK
<1> QED
  BY <1>1, <1>3 DEF Init, SpaceInv, Types, Unbuilt

\* Every step of vmm_init keeps the invariant.
LEMMA SpaceStep ==
    ASSUME MachineOK, SpaceInv, Next
    PROVE  SpaceInv'
BY AllocRootInv, NextLevelTableInv, NextLevelNewInv, MapPageInv, MapSpillInv, MapLowInv,
   MapKernelInv, MapHighInv, SwitchInv DEF Next

\* So does a step that changes nothing.
LEMMA SpaceSame ==
    ASSUME SpaceInv, UNCHANGED vars
    PROVE  SpaceInv'
<1>1. UNCHANGED <<machine, tables, root, cr3, phase, at, i, calls>>
  BY DEF vars
<1>2. Types'
  BY <1>1 DEF SpaceInv, Types
<1>3. StackOK'
  <2>1. \A n \in 1 .. Len(calls) : CallOK(calls'[n])
    BY <1>1 DEF SpaceInv, StackOK
  <2>2. ASSUME NEW n \in 1 .. Len(calls') PROVE CallOK(calls[n])'
    <3>1. PICK c : c = calls[n]
      OBVIOUS
    <3>2. CallOK(c)
      BY <1>1, <2>1, <3>1
    <3>3. CallOK(c)'
      BY <1>1, <3>2, CallSame
    <3>4. calls'[n] = c
      BY <1>1, <3>1
    <3> QED
      BY <3>3, <3>4 DEF CallOK, MapsKernel, Directs
  <2> QED
    BY <1>1, <2>2 DEF SpaceInv, StackOK, Spills
<1>4. Unbuilt' \/ Built'
  <2>1. CASE Unbuilt
    BY <1>1, <2>1 DEF Unbuilt
  <2>2. CASE Built
    <3>1. PICK lv, px : Tree(lv, px) /\ Stand(lv, px)
      BY <2>2 DEF Built
    <3>2. Tree(lv, px)'
      BY <1>1, <3>1, TreeSame
    <3>3. Stand(lv, px)'
      BY <1>1, <3>1 DEF Stand, Stands
    <3> QED
      BY <1>1, <2>2, <3>2, <3>3 DEF Built
  <2> QED
    BY <2>1, <2>2 DEF SpaceInv
<1>5. \A v : Due(v) => Due(v)'
  BY <1>1, TranslateSame DEF Due, Pending, Front, Span
<1>6. phase' \notin {"root", "wild"} => LowDue' /\ KernelDue' /\ HighDue'
  BY <1>1, <1>5, DuesKept DEF SpaceInv
<1> QED
  BY <1>2, <1>3, <1>4, <1>6 DEF SpaceInv

-----------------------------------------------------------------------------
(* What the invariant says.                                                *)

\* A root, and so a tree, exists where root is not NoPage or a call is under way.
LEMMA RootBuilt ==
    ASSUME SpaceInv, root # NoPage \/ calls # << >> \/ tables # << >>
    PROVE  \E lv, px : Tree(lv, px) /\ Stand(lv, px)
BY DEF SpaceInv, Unbuilt, Built

\* get_next_level is never called for an entry that is a large page: those of the
\* direct map are not above the kernel's pages, nor above others of their own size.
LEMMA SpaceNeverSplits ==
    ASSUME MachineOK, SpaceInv
    PROVE  NeverSplits
<1>1. SUFFICES ASSUME calls # << >>, Top.level > Top.size, is_large(TopEntry) PROVE FALSE
  BY DEF NeverSplits
<1>2. PICK lv, px : Tree(lv, px) /\ Stand(lv, px)
  BY <1>1, RootBuilt
<1> DEFINE x == Index(Top.virt, Top.level)
           d == Top.dir
<1>3. /\ d \in DOMAIN tables /\ lv[d] = Top.level
      /\ Top.level \in 0 .. 4 /\ Top.size \in 0 .. 2
      /\ Top.virt \in Nat /\ x \in Entries /\ px[d] * E + x = Block(Top.virt, Top.level)
      /\ TopEntry = tables[d][x]
  BY <1>1, <1>2, TopPlace DEF SpaceInv
<1>4. TopEntry.valid /\ TopEntry.large
  BY <1>1, Zenon DEF is_large
<1>5. IsLeaf(tables[d][x], lv[d])
  BY <1>3, <1>4, Zenon DEF IsLeaf
<1>6. LeafOK(lv[d], px[d] * E + x, tables[d][x])
  BY <1>2, <1>3, <1>5 DEF Tree, Leaves
<1>7. Top.level = DirectLevel /\ GibOf(Top.level, Block(Top.virt, Top.level)) < KernelGib
  BY <1>3, <1>4, <1>6 DEF LeafOK
<1>8. Top.level \in 0 .. 2
  BY <1>7, MachineFacts
<1>9. Block(Top.virt, 2) < KernelGib
  BY <1>3, <1>7, <1>8, GibOfBlock
<1>10. CallOK(Top) /\ (Top.size = 1 => ~machine.gib)
  BY <1>1, TopFacts DEF SpaceInv
<1>11. CASE Top.size = 0
  <2>1. Block(Top.virt, 2) >= KernelGib
    BY <1>10, <1>11 DEF CallOK, MapsKernel
  <2>2. Block(Top.virt, 2) \in Nat
    BY <1>3, InBlock, 2 \in 0 .. 5
  <2> QED
    BY <1>9, <2>1, <2>2, KernelGibNat
<1>12. CASE Top.size = 1
  BY <1>1, <1>7, <1>10, <1>12 DEF DirectLevel
<1>13. CASE Top.size = 2
  BY <1>1, <1>8, <1>13
<1> QED
  BY <1>3, <1>11, <1>12, <1>13

\* Whatever is mapped is mapped to the one page its address stands for.
LEMMA SpaceNoForeign ==
    ASSUME MachineOK, SpaceInv
    PROVE  NoForeignMapping
<1>1. SUFFICES ASSUME root # NoPage, NEW v \in VirtualPages
               PROVE  Translate(root, v) \in {NoPage, v - machine.hhdm,
                                              machine.kernel_phys + (v - machine.kernel_virt)}
  BY DEF NoForeignMapping
<1>2. PICK lv, px : Tree(lv, px)
  BY <1>1, RootBuilt
<1>3. Translate(root, v) # NoPage => Translate(root, v) = Image(v)
  BY <1>2, TranslateValue
<1> QED
  BY <1>3 DEF Image

\* A step maps more, or nothing.
LEMMA SpaceMappingsKept ==
    ASSUME MachineOK, SpaceInv, Next
    PROVE  \/ UNCHANGED tables
           \/ \A v \in VirtualPages :
                Translate(root, v) # NoPage => Translate(root, v)' = Translate(root, v)
<1>1. CASE AllocRoot
  <2>1. tables = << >>
    BY <1>1 DEF SpaceInv, Unbuilt, Built, AllocRoot
  <2>2. DOMAIN tables = {}
    BY <2>1
  <2>3. \A v : Translate(root, v) = NoPage
    BY <2>2 DEF Translate
  <2> QED
    BY <2>3
<1>2. CASE NextLevelNew
  BY <1>2, NextLevelNewInv
<1>3. CASE MapPage
  BY <1>3, MapPageInv
<1>4. CASE NextLevelTable \/ MapSpill \/ Switch
  BY <1>4 DEF NextLevelTable, MapSpill, Switch
<1>5. CASE MapLow \/ MapKernel \/ MapHigh
  BY <1>5 DEF MapLow, MapKernel, MapHigh, CallsMap, NextEntry
<1> QED
  BY <1>1, <1>2, <1>3, <1>4, <1>5 DEF Next

\* At the end every address that was due is mapped.
LEMMA DueMapped ==
    ASSUME MachineOK, SpaceInv, phase = "done", NEW v, Due(v)
    PROVE  v \in VirtualPages /\ Translate(cr3, v) = Image(v)
<1>1. calls = << >> /\ cr3 = root /\ Built
  BY LoopFacts DEF StackOK, Types
<1>2. v \in VirtualPages /\ Translate(root, v) # NoPage
  BY <1>1 DEF Due, Pending
<1>3. PICK lv, px : Tree(lv, px)
  BY <1>1 DEF Built
<1> QED
  BY <1>1, <1>2, <1>3, TranslateValue

\* At the end every page of a gigabyte with memory in it is mapped, where
\* to_higher_half says.
LEMMA GibMapped ==
    ASSUME MachineOK, SpaceInv, phase = "done",
           NEW q \in DirectPages, NEW p \in Nat, Block(p, 2) = Block(q, 2)
    PROVE  Translate(cr3, machine.hhdm + p) = p
<1>1. LowDue /\ HighDue
  BY LoopFacts
<1>2. q \in Nat /\ LOW \in Nat /\ machine.hhdm \in Nat
  BY DirectFacts, MachineFacts
<1>3. Due(machine.hhdm + p)
  <2>1. CASE q < LOW
    <3>1. Block(q, 2) * Span(2) \in Nat /\ Block(q, 2) * Span(2) <= q
      BY <1>2, BlockMono
    <3>2. Block(p, 2) * Span(2) < LOW
      BY <1>2, <2>1, <3>1
    <3> QED
      BY <1>1, <3>2 DEF LowDue
  <2>2. CASE ~(q < LOW)
    <3>1. PICK k \in DOMAIN machine.memmap :
                  /\ machine.memmap[k].type \notin {"reserved", "bad"}
                  /\ q \in machine.memmap[k].base .. (machine.memmap[k].base + machine.memmap[k].length - 1)
      BY <1>2, <2>2, DirectIs
    <3> DEFINE e == machine.memmap[k]
    <3>2. e.base \in Nat /\ e.length \in Nat
      BY MapFacts
    <3>3. e.type \notin {"reserved", "bad"} /\ q \in e.base .. (e.base + e.length - 1)
      BY <3>1
    <3> HIDE DEF e
    <3>4. q \in HighBase(e) .. (e.base + e.length - 1)
      BY <1>2, <2>2, <3>2, <3>3 DEF HighBase
    <3>5. q \in HighPages(e)
      BY <3>3, <3>4, Zenon DEF HighPages
    <3> QED
      BY <1>1, <3>5 DEF HighDue, Seen, e
  <2> QED
    BY <2>1, <2>2
<1>4. Block(machine.hhdm + p, 2) < KernelGib
  <2>1. Block(machine.hhdm + p, 2) = Block(machine.hhdm + q, 2)
    BY <1>2, DirectBlock
  <2> QED
    BY <2>1 DEF MachineOK
<1>5. Translate(cr3, machine.hhdm + p) = Image(machine.hhdm + p)
  BY <1>3, DueMapped
<1>6. Image(machine.hhdm + p) = (machine.hhdm + p) - machine.hhdm
  BY <1>4 DEF Image
<1> QED
  BY <1>2, <1>5, <1>6

\* to_higher_half is right for every page of memory.
LEMMA SpaceDirectMap ==
    ASSUME MachineOK, SpaceInv
    PROVE  DirectMapExact
<1>1. SUFFICES ASSUME phase = "done", NEW p \in DirectPages PROVE Translate(cr3, machine.hhdm + p) = p
  BY DEF DirectMapExact
<1>2. p \in Nat
  BY DirectFacts
<1> QED
  BY <1>1, <1>2, GibMapped

\* The kernel stays where it is linked.
LEMMA SpaceKernel ==
    ASSUME MachineOK, SpaceInv
    PROVE  KernelStaysMapped
<1>1. SUFFICES ASSUME phase = "done", NEW k \in DOMAIN machine.memmap,
                      machine.memmap[k].type = "kernel",
                      machine.kernel_phys \in machine.memmap[k].base ..
                                                (machine.memmap[k].base + machine.memmap[k].length - 1),
                      NEW p \in machine.kernel_phys ..
                                                (machine.memmap[k].base + machine.memmap[k].length - 1)
               PROVE  Translate(cr3, machine.kernel_virt + (p - machine.kernel_phys)) = p
  BY DEF KernelStaysMapped
<1> DEFINE j == p - machine.kernel_phys
           v == machine.kernel_virt + j
<1>2. /\ machine.memmap[k].base \in Nat /\ machine.memmap[k].length \in Nat
      /\ machine.kernel_phys \in Nat /\ machine.kernel_virt \in Nat
  BY MapFacts, MachineFacts
<1>3. p \in Nat /\ j \in Nat /\ j < machine.memmap[k].length
  BY <1>1, <1>2
<1>4. KernelDue
  BY <1>1, LoopFacts
<1>5. Due(v)
  BY <1>1, <1>3, <1>4 DEF KernelDue, Seen
<1>6. Translate(cr3, v) = Image(v)
  BY <1>1, <1>5, DueMapped
<1>7. Span(2) \in Nat /\ Span(2) > 0 /\ v \in Nat /\ machine.kernel_virt <= v
  <2>1. Span(2) \in Nat /\ Span(2) > 0
    BY MachineFacts, Spans, 2 \in 0 .. 5
  <2> QED BY <1>2, <1>3, <2>1
<1> HIDE DEF v
<1>8. KernelGib <= Block(v, 2)
  BY <1>2, <1>7, DivMono DEF KernelGib, Block
<1>9. KernelGib \in Nat /\ Block(v, 2) \in Nat
  BY <1>7, KernelGibNat, InBlock, 2 \in 0 .. 5
<1>10. Image(v) = machine.kernel_phys + (v - machine.kernel_virt)
  BY <1>8, <1>9 DEF Image
<1>11. machine.kernel_phys + (v - machine.kernel_virt) = p
  BY <1>2, <1>3 DEF v
<1> QED
  BY <1>6, <1>10, <1>11 DEF v

\* The types of the state.
LEMMA SpaceTypes ==
    ASSUME MachineOK, SpaceInv
    PROVE  TypeOK
<1>1. Types /\ StackOK /\ (Unbuilt \/ Built)
  BY DEF SpaceInv
<1>2. CASE Unbuilt
  <2>1. DOMAIN tables = {}
    BY <1>2 DEF Unbuilt
  <2> QED
    BY <1>1, <1>2, <2>1 DEF TypeOK, Unbuilt, Types, StackOK
<1>3. CASE Built
  <2>1. PICK lv, px : Tree(lv, px)
    BY <1>3 DEF Built
  <2>2. /\ \A p \in DOMAIN tables :
             /\ p \in machine.free
             /\ tables[p] \in [0 .. (E - 1) -> [valid : BOOLEAN, large : BOOLEAN, addr : Nat]]
        /\ root \in DOMAIN tables
    BY <2>1 DEF Tree, Shape, Placed, Entries
  <2>3. cr3 \in {root, NoPage} /\ Len(calls) <= 2
    BY <1>1 DEF Types, StackOK
  <2> QED
    BY <1>1, <2>2, <2>3 DEF TypeOK, Types
<1> QED
  BY <1>1, <1>2, <1>3

\* The tables found from the root at a level are those that have that level.
LEMMA LevelsFound ==
    ASSUME MachineOK, NEW lv, NEW px, Tree(lv, px)
    PROVE  \A l \in 0 .. RootLevel : TablesAt[l] = {p \in DOMAIN tables : lv[p] = l}
<1> DEFINE D == DOMAIN tables
           T == RootLevel
           Under(S) == {tables[d[1]][d[2]].addr : d \in Down(S)}
           R(w) == [l \in 0 .. T |-> IF l = T THEN {root} ELSE Under(w[l + 1])]
           At(l) == {p \in D : lv[p] = l}
           w1 == [l \in 0 .. T |-> At(l)]
<1>1. /\ T \in {3, 4} /\ lv \in [D -> 0 .. T] /\ px \in [D -> Nat]
      /\ root \in D /\ lv[root] = T /\ px[root] = 0
      /\ \A p, q \in D : lv[p] = lv[q] /\ px[p] = px[q] => p = q
  BY MachineFacts DEF Tree, Placed
<1>2. At(T) = {root}
  <2>1. ASSUME NEW p \in D, lv[p] = T PROVE p = root
    <3>1. SUFFICES ASSUME p # root PROVE FALSE
      OBVIOUS
    <3>2. PICK t \in D, y \in Entries : lv[t] = lv[p] + 1
      BY <3>1 DEF Tree, Hangs
    <3> QED
      BY <1>1, <2>1, <3>2
  <2> QED
    BY <1>1, <2>1
<1>3. ASSUME NEW l \in 0 .. (T - 1) PROVE Under(At(l + 1)) = At(l)
  <2>1. l + 1 # 0 /\ (l + 1) - 1 = l /\ l # T
    BY <1>1
  <2>2. ASSUME NEW q \in Under(At(l + 1)) PROVE q \in At(l)
    <3>1. PICK d \in (At(l + 1) \intersect D) \X Entries :
               is_table(tables[d[1]][d[2]]) /\ q = tables[d[1]][d[2]].addr
      BY DEF Down, Entries
    <3>2. d[1] \in D /\ lv[d[1]] = l + 1 /\ d[2] \in Entries
      BY <3>1
    <3>3. tables[d[1]][d[2]].valid /\ ~IsLeaf(tables[d[1]][d[2]], lv[d[1]])
      BY <2>1, <3>1, <3>2, Zenon DEF is_table, IsLeaf
    <3>4. q \in D /\ lv[q] = lv[d[1]] - 1
      BY <3>1, <3>2, <3>3 DEF Tree, Leads
    <3> QED
      BY <2>1, <3>2, <3>4
  <2>3. ASSUME NEW q \in At(l) PROVE q \in Under(At(l + 1))
    <3>1. q \in D /\ lv[q] = l /\ q # root
      BY <1>1, <2>1
    <3>2. PICK t \in D, y \in Entries : is_table(tables[t][y]) /\ lv[t] = lv[q] + 1 /\ tables[t][y].addr = q
      BY <3>1 DEF Tree, Hangs
    <3>3. <<t, y>> \in Down(At(l + 1))
      BY <3>1, <3>2 DEF Down, Entries
    <3> PICK d : d = <<t, y>>
      OBVIOUS
    <3>4. d \in Down(At(l + 1)) /\ q = tables[d[1]][d[2]].addr
      BY <3>2, <3>3
    <3> QED
      BY <3>4
  <2> QED
    BY <2>2, <2>3
<1>4. TablesAt = CHOOSE w : w = R(w)
  BY DEF TablesAt, RootLevel
<1>5. w1 = R(w1)
  <2> HIDE DEF At, Under
  <2>1. \A l \in 0 .. T : w1[l] = R(w1)[l]
    <3> SUFFICES ASSUME NEW l \in 0 .. T PROVE w1[l] = R(w1)[l]
      OBVIOUS
    <3>1. CASE l = T
      BY <1>2, <3>1
    <3>2. CASE l # T
      <4>1. l \in 0 .. (T - 1) /\ l + 1 \in 0 .. T
        BY <1>1, <3>2
      <4>2. w1[l] = At(l) /\ w1[l + 1] = At(l + 1)
        BY <4>1
      <4>3. R(w1)[l] = Under(w1[l + 1])
        BY <3>2
      <4> QED
        BY <1>3, <4>1, <4>2, <4>3
    <3> QED
      BY <3>1, <3>2
  <2>2. DOMAIN w1 = 0 .. T /\ DOMAIN R(w1) = 0 .. T
    OBVIOUS
  <2> QED
    BY <2>1, <2>2
<1> PICK W : W = TablesAt
  OBVIOUS
<1>6. W = R(W)
  <2> HIDE DEF w1, R
  <2> QED BY <1>4, <1>5
<1> HIDE DEF At, Under, D
<1>7. W[T] = {root} /\ \A l \in 0 .. (T - 1) : W[l] = Under(W[l + 1])
  <2>1. T \in 0 .. T /\ \A l \in 0 .. (T - 1) : l \in 0 .. T /\ l # T
    BY <1>1
  <2>2. R(W)[T] = {root}
    BY <2>1
  <2>3. \A l \in 0 .. (T - 1) : R(W)[l] = Under(W[l + 1])
    BY <2>1
  <2> HIDE DEF R
  <2> QED BY <1>6, <2>2, <2>3
<1>8. W[T] = At(T)
  BY <1>2, <1>7
<1>9. \A l \in 0 .. (T - 1) : W[l + 1] = At(l + 1) => W[l] = At(l)
  BY <1>3, <1>7
<1> HIDE DEF T
<1>10. W[3] = At(3)
  <2>1. CASE T = 3
    BY <1>8, <2>1
  <2>2. CASE T = 4
    BY <1>8, <1>9, <2>2, 3 \in 0 .. 3, 3 + 1 = 4
  <2> QED BY <1>1, <2>1, <2>2
<1>11. W[2] = At(2)
  BY <1>1, <1>9, <1>10, 2 \in 0 .. (T - 1), 2 + 1 = 3
<1>12. W[1] = At(1)
  BY <1>1, <1>9, <1>11, 1 \in 0 .. (T - 1), 1 + 1 = 2
<1>13. W[0] = At(0)
  BY <1>1, <1>9, <1>12, 0 \in 0 .. (T - 1), 0 + 1 = 1
<1>14. \A l \in 0 .. T : l = T \/ l \in {0, 1, 2, 3}
  BY <1>1
<1>15. \A l \in 0 .. T : W[l] = At(l)
  BY <1>8, <1>10, <1>11, <1>12, <1>13, <1>14
<1> QED
  BY <1>15 DEF At, T, D

\* There is one entry for every table but the root.
LEMMA SpaceTablesTree ==
    ASSUME MachineOK, SpaceInv
    PROVE  TablesFormTree
<1>1. SUFFICES ASSUME tables # << >>
               PROVE  /\ DOMAIN tables = UNION {TablesAt[l] : l \in 0 .. RootLevel}
                      /\ Cardinality(UNION {Down(TablesAt[l]) : l \in 1 .. RootLevel})
                           = Cardinality(DOMAIN tables) - 1
  BY SpaceTypes DEF TablesFormTree, RootLevel
<1>2. PICK lv, px : Tree(lv, px)
  BY <1>1, RootBuilt
<1> DEFINE D == DOMAIN tables
           T == RootLevel
           U == UNION {Down(TablesAt[l]) : l \in 1 .. T}
           f == [d \in U |-> tables[d[1]][d[2]].addr]
<1>3. /\ T \in {3, 4} /\ lv \in [D -> 0 .. T] /\ px \in [D -> Nat]
      /\ root \in D /\ lv[root] = T
      /\ \A p, q \in D : lv[p] = lv[q] /\ px[p] = px[q] => p = q
  BY <1>2, MachineFacts DEF Tree, Placed
<1>4. \A l \in 0 .. T : TablesAt[l] = {p \in D : lv[p] = l}
  BY <1>2, LevelsFound
<1>5. D = UNION {TablesAt[l] : l \in 0 .. T}
  BY <1>3, <1>4
<1>6. IsFiniteSet(D)
  <2>1. D \subseteq machine.free /\ IsFiniteSet(machine.free)
    BY <1>2 DEF Tree, Shape, MachineOK
  <2> QED BY <2>1, FS_Subset
<1>7. \A d : d \in U <=> /\ d \in D \X Entries /\ is_table(tables[d[1]][d[2]])
                         /\ lv[d[1]] # 0
  <2>1. \A l \in 1 .. T : l \in 0 .. T
    OBVIOUS
  <2>2. \A l \in 1 .. T : \A d :
           d \in Down(TablesAt[l]) <=> /\ d \in D \X Entries /\ is_table(tables[d[1]][d[2]])
                                       /\ lv[d[1]] = l
    <3> SUFFICES ASSUME NEW l \in 1 .. T, NEW d
                 PROVE  d \in Down(TablesAt[l]) <=> /\ d \in D \X Entries /\ is_table(tables[d[1]][d[2]])
                                                    /\ lv[d[1]] = l
      OBVIOUS
    <3>1. TablesAt[l] \intersect D = {p \in D : lv[p] = l}
      BY <1>4, <2>1
    <3> QED
      BY <3>1 DEF Down, Entries
  <2>3. \A d : d \in U <=> \E l \in 1 .. T : d \in Down(TablesAt[l])
    OBVIOUS
  <2>4. \A d \in D \X Entries : lv[d[1]] # 0 <=> lv[d[1]] \in 1 .. T
    BY <1>3
  <2> HIDE DEF U
  <2> QED
    BY <2>2, <2>3, <2>4
<1> HIDE DEF U
<1>8. ASSUME NEW d \in U
      PROVE  /\ d[1] \in D /\ d[2] \in Entries /\ d = <<d[1], d[2]>>
             /\ f[d] \in D \ {root} /\ lv[f[d]] = lv[d[1]] - 1
             /\ px[f[d]] = px[d[1]] * E + d[2]
  <2>1. d[1] \in D /\ d[2] \in Entries /\ d = <<d[1], d[2]>> /\ is_table(tables[d[1]][d[2]]) /\ lv[d[1]] # 0
    BY <1>7
  <2>2. tables[d[1]][d[2]].valid /\ ~IsLeaf(tables[d[1]][d[2]], lv[d[1]])
    BY <2>1, Zenon DEF is_table, IsLeaf
  <2>3. /\ tables[d[1]][d[2]].addr \in D
        /\ lv[tables[d[1]][d[2]].addr] = lv[d[1]] - 1
        /\ px[tables[d[1]][d[2]].addr] = px[d[1]] * E + d[2]
    BY <1>2, <2>1, <2>2 DEF Tree, Leads
  <2>4. f[d] = tables[d[1]][d[2]].addr
    OBVIOUS
  <2>5. f[d] # root
    BY <1>3, <2>1, <2>3, <2>4
  <2> QED
    BY <2>1, <2>3, <2>4, <2>5
<1>9. ASSUME NEW q \in D \ {root} PROVE \E d \in U : f[d] = q
  <2>1. PICK t \in D, y \in Entries : is_table(tables[t][y]) /\ lv[t] = lv[q] + 1 /\ tables[t][y].addr = q
    BY <1>2 DEF Tree, Hangs
  <2> PICK d : d = <<t, y>>
    OBVIOUS
  <2>2. lv[t] # 0
    BY <1>3, <2>1
  <2>3. d \in U
    BY <1>7, <2>1, <2>2
  <2>4. f[d] = q
    BY <2>1, <2>3
  <2> QED
    BY <2>3, <2>4
<1>10. ASSUME NEW c \in U, NEW d \in U, f[c] = f[d] PROVE c = d
  <2>1. /\ c[1] \in D /\ c[2] \in Entries /\ c = <<c[1], c[2]>>
        /\ lv[f[c]] = lv[c[1]] - 1 /\ px[f[c]] = px[c[1]] * E + c[2]
    BY <1>8
  <2>2. /\ d[1] \in D /\ d[2] \in Entries /\ d = <<d[1], d[2]>>
        /\ lv[f[c]] = lv[d[1]] - 1 /\ px[f[c]] = px[d[1]] * E + d[2]
    BY <1>8, <1>10
  <2> HIDE DEF f
  <2>3. lv[c[1]] = lv[d[1]]
    BY <1>3, <2>1, <2>2
  <2>4. px[c[1]] \in Nat /\ px[d[1]] \in Nat
    BY <1>3, <2>1, <2>2
  <2>5. px[c[1]] = px[d[1]] /\ c[2] = d[2]
    BY <2>1, <2>2, <2>4, PlaceUnique
  <2>6. c[1] = d[1]
    BY <1>3, <2>1, <2>2, <2>3, <2>5
  <2> QED
    BY <2>1, <2>2, <2>5, <2>6
<1>11. IsFiniteSet(U)
  <2>1. IsFiniteSet(Entries)
    BY MachineFacts, FS_Interval, 0 \in Int, E - 1 \in Int DEF Entries
  <2>2. IsFiniteSet(D \X Entries)
    BY <1>6, <2>1, FS_Product
  <2>3. U \subseteq D \X Entries
    BY <1>7
  <2> QED BY <2>2, <2>3, FS_Subset
<1>12. ExistsBijection(U, D \ {root})
  <2>1. f \in [U -> D \ {root}]
    BY <1>8
  <2>2. \A c, d \in U : f[c] = f[d] => c = d
    BY <1>10
  <2>3. \A q \in D \ {root} : \E d \in U : f[d] = q
    BY <1>9
  <2>4. DOMAIN f = U
    OBVIOUS
  <2> HIDE DEF f
  <2>5. f \in Bijection(U, D \ {root})
    BY <2>1, <2>2, <2>3, <2>4 DEF Bijection, Injection, Surjection, IsInjective
  <2> QED BY <2>5 DEF ExistsBijection
<1>13. Cardinality(U) = Cardinality(D \ {root})
  BY <1>11, <1>12, FS_Bijection
<1>14. Cardinality(D \ {root}) = Cardinality(D) - 1
  BY <1>3, <1>6, FS_RemoveElement
<1> QED
  BY <1>5, <1>13, <1>14 DEF U

=============================================================================
