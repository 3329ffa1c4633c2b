-------------------------------- MODULE Vmm --------------------------------
(***************************************************************************)
(* The kernel's address space: vmm_init and get_next_level of              *)
(* src/src/mem/vmm.rs, vmm_map and va_space_switch of                      *)
(* src/src/arch/x86_64/paging.rs.  vmm_init builds page tables out of      *)
(* pages of the physical allocator and loads them; whatever it forgot to   *)
(* map is gone from that instruction on.                                   *)
(*                                                                         *)
(* Addresses count 4 KiB pages and a table has E entries (512 in the       *)
(* kernel), so that PAGE_SIZES[l] is E^l.  The branch of get_next_level    *)
(* that splits a large page has no action: NeverSplits says that vmm_init, *)
(* the only caller of vmm_map, does not get there.                         *)
(***************************************************************************)
EXTENDS Integers, Sequences, FiniteSets

CONSTANTS
    E,          \* entries in a table
    LOW         \* 0x100000000 in pages: everything below it is mapped

VARIABLES
    machine,    \* what vmm_init finds, see Init; BootMemory.tla says where it comes from
    tables,     \* page -> its E entries, for the pages that hold a table
    root,       \* KENREL_PAGE_DIRECTORY, or NoPage
    cr3,        \* the table the MMU walks, or NoPage while it is the loader's
    phase,      \* the loop of vmm_init: "root", "low", "kernel", "high", then
                \* "done", or "wild" after an allocation that failed
    at, i,      \* the memory map entry and the offset the loop is at
    calls       \* the vmm_map calls under way, the innermost one last

vars == <<machine, tables, root, cr3, phase, at, i, calls>>

NoPage == -1

\* PageSize as the level of its entries, and PAGE_SIZES.
Size4KiB == 0
Size2MiB == 1
Size1GiB == 2
PAGE_SIZES(l) == <<1, E, E * E, E * E * E, E * E * E * E>>[l + 1]

align_down(x, a) == (x \div a) * a
align_up(x, a) == ((x + a - 1) \div a) * a

-----------------------------------------------------------------------------
(* Page table entries: the VALID and LARGE bits and the address.           *)

NoEntry == [valid |-> FALSE, large |-> FALSE, addr |-> 0]
Entry(addr, large) == [valid |-> TRUE, large |-> large, addr |-> addr]

is_table(e) == e.valid /\ ~e.large
is_large(e) == e.valid /\ e.large

\* The index of a virtual page in a table of level l: pml5 is level 4.
Index(v, l) == (v \div PAGE_SIZES(l)) % E

\* The tables the MMU meets on its way down to virtual page v, by level.
Walk(dir, v) ==
    LET top == machine.levels - 1
        walk[l \in 0 .. top] ==
            IF l = top THEN dir
            ELSE IF walk[l + 1] \notin DOMAIN tables THEN NoPage
            ELSE LET e == tables[walk[l + 1]][Index(v, l + 1)]
                 IN  IF is_table(e) THEN e.addr ELSE NoPage
    IN  walk

\* The way down ends at an entry of level l that stands for memory.
IsLeaf(e, l) == e.valid /\ (l = 0 \/ e.large)

\* The page the MMU finds behind virtual page v, or NoPage.
Translate(dir, v) ==
    LET w == Walk(dir, v)
        leaf(l) == tables[w[l]][Index(v, l)]
        ends == {l \in 0 .. (machine.levels - 1) : w[l] \in DOMAIN tables /\ IsLeaf(leaf(l), l)}
    IN  IF ends = {} THEN NoPage
        ELSE LET l == CHOOSE l \in ends : TRUE
             IN  leaf(l).addr + (v % PAGE_SIZES(l))

VirtualPages == 0 .. (PAGE_SIZES(machine.levels - 1) * E - 1)

-----------------------------------------------------------------------------
(* The physical allocator of Pmm.tla, while nobody frees a page: its       *)
(* next-fit scan hands out the free pages upwards from where its last call *)
(* before vmm_init stopped, and then from page 0 on; zeroed.               *)
FreePages == machine.free \ DOMAIN tables

ScanOrder(p) == (p - machine.last_used_page_idx) % machine.highest_page_idx

pmm_alloc == IF FreePages = {} THEN NoPage
             ELSE CHOOSE p \in FreePages : \A q \in FreePages : ScanOrder(p) <= ScanOrder(q)

EmptyTable == [x \in 0 .. (E - 1) |-> NoEntry]

WithTable(p) == [q \in DOMAIN tables \union {p} |->
                   IF q = p THEN EmptyTable ELSE tables[q]]

-----------------------------------------------------------------------------
(* The boot loader gives the memory map [base, length, type], here as      *)
(* pmm_init left it, the offset of the direct map, where the kernel was    *)
(* loaded and linked, and the paging mode; cpuid says whether 1 GiB pages  *)
(* exist.  The physical allocator has its free pages and its scan index.   *)
Init ==
    /\ tables = << >>
    /\ root = NoPage /\ cr3 = NoPage
    /\ phase = "root" /\ at = 1 /\ i = 0
    /\ calls = << >>

(* An allocation that fails returns the null pointer, which no caller here *)
(* tests: the kernel goes on with physical page 0, whatever it holds, as a *)
(* page table.  Nothing is claimed from there on.                          *)
Wild ==
    /\ phase' = "wild"
    /\ calls' = << >>
    /\ UNCHANGED <<machine, tables, root, cr3, at, i>>

AllocRoot ==
    /\ phase = "root"
    /\ IF pmm_alloc = NoPage
       THEN Wild
       ELSE /\ root' = pmm_alloc
            /\ tables' = WithTable(pmm_alloc)
            /\ phase' = "low"
            /\ UNCHANGED <<machine, cr3, at, i, calls>>

-----------------------------------------------------------------------------
(* vmm_map.  A call stands at the table `dir` of level `level`, starting   *)
(* from the root, and goes down to the level of the size it maps.          *)

Call(virt, phys, size) ==
    [virt |-> virt, phys |-> phys, size |-> size,
     dir |-> root, level |-> machine.levels - 1, i |-> 0]

Top == calls[Len(calls)]
Below == SubSeq(calls, 1, Len(calls) - 1)
TopEntry == tables[Top.dir][Index(Top.virt, Top.level)]
Moved(c, dir) == [c EXCEPT !.dir = dir, !.level = @ - 1]

\* get_next_level, entry.is_table(): follow it.
NextLevelTable ==
    /\ calls # << >> /\ Top.level > Top.size
    /\ is_table(TopEntry)
    /\ calls' = Append(Below, Moved(Top, TopEntry.addr))
    /\ UNCHANGED <<machine, tables, root, cr3, phase, at, i>>

\* Mutant: the new table is not entered in the one above it.
NextLevelLost ==
    /\ calls # << >> /\ Top.level > Top.size
    /\ ~TopEntry.valid
    /\ IF pmm_alloc = NoPage
       THEN Wild
       ELSE /\ tables' = WithTable(pmm_alloc)
            /\ calls' = Append(Below, Moved(Top, pmm_alloc))
            /\ UNCHANGED <<machine, root, cr3, phase, at, i>>

\* Mutant: an entry that is already there is replaced by a new table.
NextLevelAlways ==
    /\ calls # << >> /\ Top.level > Top.size
    /\ IF pmm_alloc = NoPage
       THEN Wild
       ELSE /\ tables' = [WithTable(pmm_alloc) EXCEPT
                            ![Top.dir][Index(Top.virt, Top.level)] = Entry(pmm_alloc, FALSE)]
            /\ calls' = Append(Below, Moved(Top, pmm_alloc))
            /\ UNCHANGED <<machine, root, cr3, phase, at, i>>

\* get_next_level, nothing there: a new table.
NextLevelNew ==
    /\ calls # << >> /\ Top.level > Top.size
    /\ ~TopEntry.valid
    /\ IF pmm_alloc = NoPage
       THEN Wild
       ELSE /\ tables' = [WithTable(pmm_alloc) EXCEPT
                            ![Top.dir][Index(Top.virt, Top.level)] = Entry(pmm_alloc, FALSE)]
            /\ calls' = Append(Below, Moved(Top, pmm_alloc))
            /\ UNCHANGED <<machine, root, cr3, phase, at, i>>

\* The call cannot map a page of its size: 1 GiB where cpuid does not offer it.
Spills(c) == c.size = Size1GiB /\ ~machine.gib

\* The entry is written, whatever it held, and the call returns.
MapPage ==
    /\ calls # << >> /\ Top.level = Top.size
    /\ ~Spills(Top)
    /\ tables' = [tables EXCEPT
                    ![Top.dir][Index(Top.virt, Top.level)] = Entry(Top.phys, Top.size > 0)]
    /\ calls' = Below
    /\ UNCHANGED <<machine, root, cr3, phase, at, i>>

\* Mutant: the loop maps the first 2 MiB again and again.
MapSpillSame ==
    /\ calls # << >> /\ Top.level = Top.size
    /\ Spills(Top)
    /\ calls' = IF Top.i < PAGE_SIZES(Size1GiB)
                THEN Append(Append(Below, [Top EXCEPT !.i = @ + PAGE_SIZES(Size2MiB)]),
                            Call(Top.virt + Top.i, Top.phys, Size2MiB))
                ELSE Below
    /\ UNCHANGED <<machine, tables, root, cr3, phase, at, i>>

\* The loop of 2 MiB calls that stands for a 1 GiB page.
MapSpill ==
    /\ calls # << >> /\ Top.level = Top.size
    /\ Spills(Top)
    /\ calls' = IF Top.i < PAGE_SIZES(Size1GiB)
                THEN Append(Append(Below, [Top EXCEPT !.i = @ + PAGE_SIZES(Size2MiB)]),
                            Call(Top.virt + Top.i, Top.phys + Top.i, Size2MiB))
                ELSE Below
    /\ UNCHANGED <<machine, tables, root, cr3, phase, at, i>>

-----------------------------------------------------------------------------
(* The loops of vmm_init.                                                  *)

\* One vmm_map call of a loop, which goes on at offset i + step.
CallsMap(virt, phys, size) ==
    /\ calls' = <<Call(virt, phys, size)>>
    /\ i' = i + PAGE_SIZES(size)
    /\ UNCHANGED <<machine, tables, root, cr3, phase, at>>

\* Mutant: the last gigabyte is left out.
MapLowShort ==
    /\ phase = "low" /\ calls = << >>
    /\ IF i + PAGE_SIZES(Size1GiB) < LOW
       THEN CallsMap(machine.hhdm + i, i, Size1GiB)
       ELSE /\ phase' = "kernel" /\ i' = 0
            /\ UNCHANGED <<machine, tables, root, cr3, at, calls>>

\* The first 4 GiB, whatever the memory map says.
MapLow ==
    /\ phase = "low" /\ calls = << >>
    /\ IF i < LOW
       THEN CallsMap(machine.hhdm + i, i, Size1GiB)
       ELSE /\ phase' = "kernel" /\ i' = 0
            /\ UNCHANGED <<machine, tables, root, cr3, at, calls>>

\* The loop over the memory map goes to its next entry, or is over.
NextEntry(after) ==
    /\ i' = 0
    /\ IF at < Len(machine.memmap)
       THEN at' = at + 1 /\ UNCHANGED phase
       ELSE at' = 1 /\ phase' = after
    /\ UNCHANGED <<machine, tables, root, cr3, calls>>

\* Mutant: each such entry is mapped from its own base.
MapKernelOwnBase ==
    /\ phase = "kernel" /\ calls = << >>
    /\ LET e == machine.memmap[at] IN
         IF e.type = "kernel" /\ i < e.length
         THEN CallsMap(machine.kernel_virt + i, e.base + i, Size4KiB)
         ELSE NextEntry("high")

\* Mutant: the kernel's pages are mapped in the direct map.
MapKernelDirect ==
    /\ phase = "kernel" /\ calls = << >>
    /\ LET e == machine.memmap[at] IN
         IF e.type = "kernel" /\ i < e.length
         THEN CallsMap(machine.hhdm + machine.kernel_phys + i, machine.kernel_phys + i, Size4KiB)
         ELSE NextEntry("high")

\* The kernel: as many pages as each such entry has, all from the address the
\* kernel was loaded at, whatever the entry's own base is.
MapKernel ==
    /\ phase = "kernel" /\ calls = << >>
    /\ LET e == machine.memmap[at] IN
         IF e.type = "kernel" /\ i < e.length
         THEN CallsMap(machine.kernel_virt + i, machine.kernel_phys + i, Size4KiB)
         ELSE NextEntry("high")

\* Mutant: the top is rounded down.
MapHighShort ==
    /\ phase = "high" /\ calls = << >>
    /\ LET e    == machine.memmap[at]
           top  == e.base + e.length
           base == IF e.base < LOW THEN LOW ELSE e.base
           gib  == PAGE_SIZES(Size1GiB)
           page == align_down(base, gib) + i
       IN  IF e.type \notin {"reserved", "bad"} /\ base < top /\ page < align_down(top, gib)
           THEN CallsMap(page + machine.hhdm, page, Size1GiB)
           ELSE NextEntry("switch")

\* Memory above 4 GiB, widened to whole gigabytes.
MapHigh ==
    /\ phase = "high" /\ calls = << >>
    /\ LET e    == machine.memmap[at]
           top  == e.base + e.length
           base == IF e.base < LOW THEN LOW ELSE e.base
           gib  == PAGE_SIZES(Size1GiB)
           page == align_down(base, gib) + i
       IN  IF e.type \notin {"reserved", "bad"} /\ base < top /\ page < align_up(top, gib)
           THEN CallsMap(page + machine.hhdm, page, Size1GiB)
           ELSE NextEntry("switch")

\* va_space_switch: back from a virtual to a physical address, into cr3.
Switch ==
    /\ phase = "switch"
    /\ LET pd == root + machine.hhdm IN
         cr3' = IF pd > machine.kernel_virt THEN pd - machine.kernel_virt
                ELSE IF pd > machine.hhdm THEN pd - machine.hhdm
                ELSE pd
    /\ phase' = "done"
    /\ UNCHANGED <<machine, tables, root, at, i, calls>>

Next ==
    \/ AllocRoot
    \/ NextLevelTable
    \/ NextLevelNew
    \/ MapPage
    \/ MapSpill
    \/ MapLow
    \/ MapKernel
    \/ MapHigh
    \/ Switch

-----------------------------------------------------------------------------
(* Properties.                                                             *)

\* The parts of the state have their types: tables of E entries in usable
\* pages that were free, and at most two vmm_map calls under way.
TypeOK ==
    /\ \A p \in DOMAIN tables :
         /\ p \in machine.free
         /\ tables[p] \in [0 .. (E - 1) -> [valid : BOOLEAN, large : BOOLEAN, addr : Nat]]
    /\ root \in DOMAIN tables \union {NoPage}
    /\ cr3 \in DOMAIN tables \union {NoPage}
    /\ phase \in {"root", "low", "kernel", "high", "switch", "done", "wild"}
    /\ at \in 1 .. Len(machine.memmap)
    /\ Len(calls) <= 2

\* Physical pages the kernel reaches through the direct map: the first 4 GiB,
\* and every entry that is not reserved or bad.
DirectPages ==
    0 .. (LOW - 1) \union
    UNION {e.base .. (e.base + e.length - 1) :
           e \in {machine.memmap[k] : k \in {k \in DOMAIN machine.memmap :
                       machine.memmap[k].type \notin {"reserved", "bad"}}}}

\* to_higher_half is right for every page of memory once the kernel runs on its
\* own tables, whether or not 1 GiB pages exist, at both paging levels, and
\* where an entry starts or ends inside a gigabyte or across the 4 GiB line.
DirectMapExact ==
    phase = "done" => \A p \in DirectPages : Translate(cr3, machine.hhdm + p) = p

\* The switch does not pull the kernel's code and data from under it: the entry
\* it was loaded in stays mapped where it is linked, from its first page to the
\* end of the entry.
KernelStaysMapped ==
    phase = "done" =>
      \A k \in DOMAIN machine.memmap :
        LET e == machine.memmap[k] IN
        e.type = "kernel" /\ machine.kernel_phys \in e.base .. (e.base + e.length - 1) =>
          \A p \in machine.kernel_phys .. (e.base + e.length - 1) :
            Translate(cr3, machine.kernel_virt + (p - machine.kernel_phys)) = p

\* At no point do the tables translate an address to a page that is not the one
\* the direct map or the kernel's link address stands for: no vmm_map call
\* writes an entry of somebody else's range.
NoForeignMapping ==
    root # NoPage =>
    \A v \in VirtualPages :
      Translate(root, v) \in
        {NoPage,
         v - machine.hhdm,
         machine.kernel_phys + (v - machine.kernel_virt)}

\* The places [table, index] of the entries of some tables that lead to a table.
Down(ts) == {d \in (ts \intersect DOMAIN tables) \X (0 .. (E - 1)) :
               is_table(tables[d[1]][d[2]])}

\* The tables of each level, as found from the root.
TablesAt ==
    LET top == machine.levels - 1
        level[l \in 0 .. top] ==
            IF l = top THEN {root} ELSE {tables[d[1]][d[2]].addr : d \in Down(level[l + 1])}
    IN  level

\* Each table but the root hangs from exactly one entry: two entries never share
\* a table, no table is lost, and no table is its own
\* next level.  (Every table is reached, by one entry less than there are tables; with
\* the types of the state.)
TablesFormTree ==
    /\ TypeOK
    /\ tables # << >> =>
         LET top == machine.levels - 1
             level == TablesAt
         IN  /\ DOMAIN tables = UNION {level[l] : l \in 0 .. top}
             /\ Cardinality(UNION {Down(level[l]) : l \in 1 .. top}) = Cardinality(DOMAIN tables) - 1

\* get_next_level never meets a large page, so that the branch that splits one
\* (vmm.rs, "We are replacing an existing large page") is never entered at boot:
\* the direct map and the kernel's link address lie in different gigabytes.
NeverSplits ==
    calls # << >> /\ Top.level > Top.size => ~is_large(TopEntry)

\* No step takes away or moves a page that an earlier vmm_map call mapped: the
\* entries of the memory map that share a gigabyte map it again in place.
MappingsKept ==
    [][UNCHANGED tables \/
       \A v \in VirtualPages :
         Translate(root, v) # NoPage => Translate(root, v)' = Translate(root, v)]_vars
=============================================================================
