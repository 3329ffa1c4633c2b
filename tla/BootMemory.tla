----------------------------- MODULE BootMemory -----------------------------
(***************************************************************************)
(* Memory from the boot loader's hands into the kernel's: pmm_init,        *)
(* init_allocator and vmm_init, as _start in src/src/main.rs calls them.   *)
(* The three share the memory map, whose entries pmm_init changes in place *)
(* and vmm_init reads again, and the bitmap, out of which the heap and the *)
(* page tables are taken.                                                  *)
(***************************************************************************)
EXTENDS Integers, Sequences, FiniteSets

CONSTANTS
    PAGE_SIZE,      \* bytes in a page
    HEAP_PAGES,     \* pages of the heap
    E, LOW,         \* see Vmm.tla
    Machines        \* the machines [memmap, levels, gib, hhdm, kernel_virt, kernel_phys]

ASSUME BootAssumption ==
    /\ PAGE_SIZE \in Nat \ {0} /\ HEAP_PAGES \in Nat \ {0}
    /\ E \in Nat /\ E > 1 /\ LOW \in Nat

(* What the boot protocol says of a memory map: it has entries, the usable *)
(* ones do not overlap, and page 0 is not in one.                          *)
ASSUME MapAssumption ==
    \A m \in Machines :
      /\ m.memmap \in Seq([base : Nat, length : Nat, type : STRING])
      /\ m.memmap # << >>
      /\ \A k \in DOMAIN m.memmap : m.memmap[k].type = "usable" => m.memmap[k].base > 0
      /\ \A k, l \in DOMAIN m.memmap :
           k # l /\ m.memmap[k].type = "usable" /\ m.memmap[l].type = "usable" =>
              \/ m.memmap[k].base + m.memmap[k].length <= m.memmap[l].base
              \/ m.memmap[l].base + m.memmap[l].length <= m.memmap[k].base

(* What it says of virtual addresses: the direct map begins at a whole     *)
(* gigabyte and ends in one below the kernel's; the kernel, with as many   *)
(* pages as any entry it was loaded in, ends inside the address space.     *)
ASSUME SpaceAssumption ==
    \A m \in Machines :
      /\ m.levels \in {4, 5} /\ m.gib \in BOOLEAN
      /\ m.hhdm \in Nat /\ m.kernel_virt \in Nat /\ m.kernel_phys \in Nat
      /\ m.hhdm % (E * E) = 0
      /\ LET Below(p) == (m.hhdm + p) \div (E * E) < m.kernel_virt \div (E * E)
             size == E * E * E * E * (IF m.levels = 5 THEN E ELSE 1)
         IN  /\ \A p \in 0 .. (LOW - 1) : Below(p)
             /\ \A k \in DOMAIN m.memmap :
                  LET e == m.memmap[k] IN
                  /\ e.type \notin {"reserved", "bad"} =>
                       \A p \in e.base .. (e.base + e.length - 1) : Below(p)
                  /\ e.type = "kernel" => m.kernel_virt + e.length <= size
             /\ m.kernel_virt < size

VARIABLES
    hw,                 \* the machine that boots
    memmap,             \* its memory map, as it is now
    pmm_phase, entry,   \* where pmm_init is, PmmInit's phase and i
    usable_pages, highest_page_idx, bitmap, bitmap_size,
    free,               \* the bits pmm_init leaves reset; see FreeBits
    heap,               \* the first page of the heap, or Null before
    last_used_page_idx,
    tables, root, cr3, vmm_phase, at, i, calls      \* see Vmm.tla

pmm_vars == <<memmap, pmm_phase, entry, usable_pages, highest_page_idx, bitmap, bitmap_size, free>>
heap_vars == <<heap, last_used_page_idx>>
vmm_vars == <<tables, root, cr3, vmm_phase, at, i, calls>>
vars == <<hw, pmm_vars, heap_vars, vmm_vars>>

Null == -1

P == INSTANCE PmmInit WITH MemMaps <- {m.memmap : m \in Machines}, phase <- pmm_phase, i <- entry

HeapPages == IF heap = Null THEN {} ELSE heap .. (heap + HEAP_PAGES - 1)

\* Mutant: the bits of the block handed out are not set.
FreeBitsUnset == free

\* The bits that are reset: the heap and the tables set theirs.
FreeBits == free \ HeapPages

\* The highest usable entry of a memory map.
IsTop(map, k) ==
    /\ k \in DOMAIN map /\ P!Usable(map[k])
    /\ \A l \in DOMAIN map : P!Usable(map[l]) =>
          map[l].base + map[l].length <= map[k].base + map[k].length

\* The bitmap of every machine has a byte for each bit below highest_page_idx.
\* pmm_init does not see to that: MCPmmInit has the maps where it fails.
EveryBitStored ==
    \A m \in Machines : \A k \in DOMAIN m.memmap : IsTop(m.memmap, k) =>
        LET highest == m.memmap[k].base + m.memmap[k].length
        IN  \A b \in 0 .. (highest - 1) : b \div 8 < P!BitmapSize(highest)

\* What vmm_init finds.
machine ==
    [memmap |-> memmap, free |-> FreeBits,
     last_used_page_idx |-> last_used_page_idx, highest_page_idx |-> highest_page_idx,
     levels |-> hw.levels, gib |-> hw.gib, hhdm |-> hw.hhdm,
     kernel_virt |-> hw.kernel_virt, kernel_phys |-> hw.kernel_phys]

V == INSTANCE Vmm WITH phase <- vmm_phase

Init ==
    /\ hw \in Machines /\ memmap = hw.memmap
    /\ P!Init
    /\ heap = Null /\ last_used_page_idx = 0
    /\ V!Init

PmmInitStep == P!Next /\ UNCHANGED <<hw, heap_vars, vmm_vars>>

Ready == pmm_phase = "done" /\ heap = Null /\ vmm_phase = "root"

\* The first run of HEAP_PAGES free pages, where the scan from page 0 ends.
Runs == {p \in free : p .. (p + HEAP_PAGES - 1) \subseteq free}

\* init_allocator: the heap is the first block anybody asks for.
InitAllocator ==
    /\ Ready
    /\ Runs # {}
    /\ heap' = CHOOSE p \in Runs : \A q \in Runs : p <= q
    /\ last_used_page_idx' = heap' + HEAP_PAGES
    /\ UNCHANGED <<hw, pmm_vars, vmm_vars>>

\* Out of memory: the scan has come to its limit, and its log! asks the heap for a
\* string while init_allocator holds ALLOCATOR.  The boot CPU spins here for ever.
InitAllocatorSpins ==
    /\ Ready
    /\ Runs = {}
    /\ last_used_page_idx' = highest_page_idx
    /\ UNCHANGED <<hw, pmm_vars, heap, vmm_vars>>

VmmInitStep ==
    /\ heap # Null
    /\ UNCHANGED <<hw, pmm_vars, heap_vars>>
    /\ V!Next

\* vmm_init has returned, or the kernel runs on memory that is not its own.
Ended ==
    /\ pmm_phase = "lost" \/ vmm_phase \in {"done", "wild"}
    /\ UNCHANGED vars

Next == PmmInitStep \/ InitAllocator \/ InitAllocatorSpins \/ VmmInitStep \/ Ended

Spec == Init /\ [][Next]_vars

-----------------------------------------------------------------------------
(* Properties.                                                             *)

\* pmm_init hands over a bitmap in which exactly the usable pages outside the
\* bitmap are free, page 0 and pages from highest_page_idx on never: what Pmm.tla
\* assumes of Usable.
BitmapDescribesMemory == P!BitmapDescribesMemory

BitmapPages == P!BitmapPages

\* At every point of the boot, the bitmap, the heap and the page tables lie in
\* memory the map called usable, and no page belongs to two of them.
BootPagesDisjoint ==
    vmm_phase # "wild" /\ pmm_phase = "done" =>
        /\ BitmapPages \intersect HeapPages = {}
        /\ (BitmapPages \union HeapPages) \intersect DOMAIN tables = {}
        /\ BitmapPages \union HeapPages \union DOMAIN tables \subseteq
             UNION {P!PagesOf(hw.memmap[k]) : k \in {k \in DOMAIN hw.memmap : P!Usable(hw.memmap[k])}}

\* Every page of memory is where to_higher_half says it is once the kernel runs
\* on its own tables, with and without 1 GiB pages, at both paging levels, and
\* where an entry starts or ends inside a gigabyte or across the 4 GiB line.
DirectMapExact == V!DirectMapExact

\* The bitmap, of which pmm_init has removed all trace from the memory map, can
\* still be reached after the switch, or the next allocation would fault.  The
\* exception is a bitmap above 4 GiB in a gigabyte in which it has left no other
\* memory: nothing maps that gigabyte.
BitmapStaysMapped ==
    vmm_phase = "done" =>
      \A p \in BitmapPages :
        \/ V!Translate(cr3, hw.hhdm + p) = p
        \/ /\ p >= LOW
           /\ \A q \in V!DirectPages : q \div V!PAGE_SIZES(2) # p \div V!PAGE_SIZES(2)

\* The switch does not pull the kernel's code and data from under it.
KernelStaysMapped == V!KernelStaysMapped

\* No vmm_map call writes an entry of somebody else's range.
NoForeignMapping == V!NoForeignMapping

\* Each page table but the root hangs from exactly one entry.
TablesFormTree == V!TablesFormTree

\* get_next_level never meets a large page to split.
NeverSplits == V!NeverSplits

\* No step takes away or moves a page that an earlier vmm_map call mapped.
MappingsKept == V!MappingsKept
=============================================================================
