------------------------------ MODULE PmmInit ------------------------------
(***************************************************************************)
(* pmm_init, src/src/mem/pmm.rs: from the boot loader's memory map to the  *)
(* bitmap Pmm.tla starts from.  Three loops over the map, one step for     *)
(* each entry: count and find the top, place the bitmap, reset the bits of *)
(* usable pages.  Entries are measured in pages (the boot protocol aligns  *)
(* usable ones); the size of the bitmap is computed in bytes as the code   *)
(* does, with PAGE_SIZE as a parameter.                                    *)
(***************************************************************************)
EXTENDS Integers, FiniteSets, Sequences

CONSTANTS
    PAGE_SIZE,      \* bytes in a page, 4096 in the kernel
    MemMaps         \* the memory maps, sequences of [base, length, type]

VARIABLES
    memmap,             \* the map, whose entries pmm_init modifies
    phase, i,           \* the loop being run and the entry it is at
    usable_pages,
    highest_page_idx,
    bitmap,             \* the first page of the bitmap, or Null
    bitmap_size,        \* in bytes
    free                \* the bits that read 0

vars == <<memmap, phase, i, usable_pages, highest_page_idx, bitmap, bitmap_size, free>>

Null == -1

PagesOf(entry) == entry.base .. (entry.base + entry.length - 1)

Usable(entry) == entry.type = "usable"

\* ((highest_page_idx / 8) + PAGE_SIZE - 1) & !(PAGE_SIZE - 1)
BitmapSize(highest) == (((highest \div 8) + PAGE_SIZE - 1) \div PAGE_SIZE) * PAGE_SIZE

\* The bits below `highest` that are stored in the first n bytes of the bitmap.
BitsIn(n, highest) == {b \in 0 .. (highest - 1) : b \div 8 < n}

Init ==
    /\ memmap \in MemMaps
    /\ phase = "count" /\ i = 1
    /\ usable_pages = 0 /\ highest_page_idx = 0
    /\ bitmap = Null /\ bitmap_size = 0
    /\ free = {}

(* First loop: usable_pages and the highest usable address.                *)
Count ==
    /\ phase = "count" /\ i <= Len(memmap)
    /\ LET e == memmap[i] IN
         IF Usable(e)
         THEN /\ usable_pages' = usable_pages + e.length
              /\ highest_page_idx' = IF highest_page_idx < e.base + e.length
                                     THEN e.base + e.length ELSE highest_page_idx
         ELSE UNCHANGED <<usable_pages, highest_page_idx>>
    /\ i' = i + 1
    /\ UNCHANGED <<memmap, phase, bitmap, bitmap_size, free>>

CountDone ==
    /\ phase = "count" /\ i > Len(memmap)
    /\ bitmap_size' = BitmapSize(highest_page_idx)
    /\ phase' = "place" /\ i' = 1
    /\ UNCHANGED <<memmap, usable_pages, highest_page_idx, bitmap, free>>

(* Second loop: entries that cannot host the bitmap are passed over.       *)
PlaceSkip ==
    /\ phase = "place" /\ i <= Len(memmap)
    /\ ~Usable(memmap[i]) \/ memmap[i].length * PAGE_SIZE < bitmap_size
    /\ i' = i + 1
    /\ UNCHANGED <<memmap, phase, usable_pages, highest_page_idx, bitmap, bitmap_size, free>>

\* Mutant: the entry that hosts the bitmap is shortened at the wrong end.
PlaceHereKeepsBase ==
    /\ phase = "place" /\ i <= Len(memmap)
    /\ Usable(memmap[i]) /\ memmap[i].length * PAGE_SIZE >= bitmap_size
    /\ bitmap' = memmap[i].base
    /\ free' \in SUBSET ((0 .. (highest_page_idx - 1)) \ BitsIn(bitmap_size, highest_page_idx))
    /\ memmap' = [memmap EXCEPT ![i].length = @ - bitmap_size \div PAGE_SIZE]
    /\ phase' = "reset" /\ i' = 1
    /\ UNCHANGED <<usable_pages, highest_page_idx, bitmap_size>>

(* The first one that can is shortened by the bitmap, whose bytes are all  *)
(* set.  A bit beyond those bytes keeps what the memory held before.       *)
PlaceHere ==
    /\ phase = "place" /\ i <= Len(memmap)
    /\ Usable(memmap[i]) /\ memmap[i].length * PAGE_SIZE >= bitmap_size
    /\ bitmap' = memmap[i].base
    /\ free' \in SUBSET ((0 .. (highest_page_idx - 1)) \ BitsIn(bitmap_size, highest_page_idx))
    /\ memmap' = [memmap EXCEPT ![i].length = @ - bitmap_size \div PAGE_SIZE,
                                ![i].base   = @ + bitmap_size \div PAGE_SIZE]
    /\ phase' = "reset" /\ i' = 1
    /\ UNCHANGED <<usable_pages, highest_page_idx, bitmap_size>>

(* No entry can: the pointer stays null and the third loop would write     *)
(* through it.                                                             *)
NoHost ==
    /\ phase = "place" /\ i > Len(memmap)
    /\ phase' = "lost"
    /\ UNCHANGED <<memmap, i, usable_pages, highest_page_idx, bitmap, bitmap_size, free>>

(* Third loop: the bits of the pages of one entry.                         *)
Reset ==
    /\ phase = "reset" /\ i <= Len(memmap)
    /\ free' = IF Usable(memmap[i]) THEN free \union PagesOf(memmap[i]) ELSE free
    /\ i' = i + 1
    /\ UNCHANGED <<memmap, phase, usable_pages, highest_page_idx, bitmap, bitmap_size>>

ResetDone ==
    /\ phase = "reset" /\ i > Len(memmap)
    /\ phase' = "done"
    /\ UNCHANGED <<memmap, i, usable_pages, highest_page_idx, bitmap, bitmap_size, free>>

Next == Count \/ CountDone \/ PlaceSkip \/ PlaceHere \/ NoHost \/ Reset \/ ResetDone

Spec == Init /\ [][Next]_vars

-----------------------------------------------------------------------------
UsableEntries == {k \in 1 .. Len(memmap) : Usable(memmap[k])}

UsableNow == UNION {PagesOf(memmap[k]) : k \in UsableEntries}

\* The pages whose bytes hold the bits 0 .. highest_page_idx - 1.
BitmapPages == {bitmap + (b \div 8) \div PAGE_SIZE : b \in 0 .. (highest_page_idx - 1)}

\* pmm_init hands over a bitmap in which exactly the usable pages that do not
\* store the bitmap itself are free: what Pmm.tla assumes of Usable, in
\* particular that page 0 and pages from highest_page_idx on are not free.
BitmapDescribesMemory ==
    phase = "done" =>
        /\ free = UsableNow
        /\ free \cap BitmapPages = {}
        /\ free \subseteq 1 .. (highest_page_idx - 1)

\* "Set the bit map to non-free": a page that is not usable is never free.
UnusableIsNonFree ==
    phase = "done" => free \subseteq UsableNow
=============================================================================
