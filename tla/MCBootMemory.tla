---------------------------- MODULE MCBootMemory ----------------------------
(* A byte of the bitmap is 8 pages and a page of it 16; tables have 4       *)
(* entries, so that a 2 MiB page is 4 pages, a 1 GiB page 16, and LOW, 4    *)
(* GiB in the kernel, is two of them.  The kernel is linked in the last     *)
(* gigabyte and the direct map starts at the upper half, as in the boot     *)
(* protocol; 5 levels only make the two lie farther apart.                  *)
EXTENDS BootMemory

Area(base, length, type) == [base |-> base, length |-> length, type |-> type]

\* The end of the highest usable entry of a map.
Top(m) ==
    LET ends == {m[k].base + m[k].length : k \in {k \in DOMAIN m : m[k].type = "usable"}}
    IN  CHOOSE x \in ends : \A y \in ends : y <= x

\* The bitmap has a bit for every page: MCPmmInit has the maps where it does not.
Covered(m) == Top(m) % (8 * PAGE_SIZE) \notin 1 .. 7

\* Low memory with or without room for the bitmap and the tables, the kernel in
\* two entries, and one or two areas that start below, at or above 4 GiB and end
\* inside a gigabyte or at its end.
MemMaps ==
    { <<Area(0, 1, "reserved"), Area(1, low, "usable"), Area(24, 3, "kernel"), Area(27, k, "kernel"),
        Area(b, n, t), Area(b + n + g, 16, u)>> :
        low \in {3, 12, 23}, k \in {2, 4},
        b \in {31, 40}, n \in {1, 8, 16}, t \in {"usable", "reserved"},
        g \in {0, 16}, u \in {"acpi", "bad"} }

\* A second kernel entry longer than one 2 MiB page, or a gap between the areas,
\* is tried with one size of low memory only.
FewMaps == {m \in MemMaps : /\ m[4].length = 4 => m[2].length = 23
                            /\ m[6].base > m[5].base + m[5].length => m[2].length = 12
                            /\ m[2].length = 3 => m[6].type = "bad" }

\* Low memory too small for the bitmap, which goes above 4 GiB: at the start of a
\* gigabyte, or up to the end of one, alone in it or not; or finds no room.
HighMaps ==
    { <<Area(0, 1, "reserved"), Area(1, 3, "usable"), Area(24, 3, "kernel"),
        Area(a, 2, u), Area(b, 64 - b, "usable")>> :
        a \in {32, 42}, u \in {"acpi", "bad"}, b \in {44, 46, 48, 61} }

Of(maps, levels, gibs, hhdm, virt, phys) ==
    { [memmap |-> m, levels |-> levels, gib |-> gib, hhdm |-> hhdm,
       kernel_virt |-> virt, kernel_phys |-> phys] : m \in {m \in maps : Covered(m)}, gib \in gibs }

MCMachines ==
    Of(FewMaps \union HighMaps, 4, BOOLEAN, 128, 240, 25)
    \union Of({m \in MemMaps : m[2].length = 23 /\ m[4].length = 2 /\ m[5].base = 31 /\ m[6].type = "acpi"},
              5, {TRUE}, 512, 1008, 24)

\* The hypothesis of the theorems of BootMemoryProof.
ASSUME MCEveryBitStored == EveryBitStored
=============================================================================
