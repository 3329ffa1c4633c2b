# A TLA+ model of the CappuccinOS kernel

This directory holds the specifications of the kernel under `src/src`: TLA+
modules translated from the Rust source, the TLC configurations that check them
on small instances, and TLAPS proofs of the results that should hold for every
machine. `PROJECT.json` maps every definition to the lines it stands for and
lists the runs, the findings, the hazards and the theorems. Paths below are
relative to `src/src`.

## 1. The system

CappuccinOS is a single-address-space x86-64 kernel, booted by Limine. It has
no scheduler and no user mode. What runs is one line of code on the boot CPU
(`_start`, then `kmain`), the other CPUs for the length of one log message, and
interrupt and exception handlers on top of the boot CPU.

    boot loader --memory map--> pmm_init --bitmap--> pmm_alloc / pmm_dealloc
                                                       |            |
                     init_allocator (4 MiB heap) <-----+            +---> vmm_init: page tables, cr3
                        ^       ^        ^                          '---> draw_gradient: screen buffer
       boot CPU, other CPUs, handlers (every log! formats into a String)

    kmain --> vfs: add_vfs, vfs_open, open, read, del_vfs
                 |-- squashfs (initramfs in memory) --> chunk reader --> inflate
                 '-- FAT --> GPT partition --> IDE drive (polled PIO)

### Components, their state, and what makes them correct

| Component | State | Operations | Hard because | Correct when |
|---|---|---|---|---|
| Physical memory manager, `mem/pmm.rs` | bitmap, scan cursor `last_used_page_idx`, counters | `pmm_init`, `pmm_alloc`, `pmm_dealloc` | the cursor survives calls and a scan wraps; the counter is kept apart from the bitmap; size of the bitmap is rounded twice | no page has two owners, null only when nothing fits, counter and bitmap agree |
| Kernel heap, `mem/allocator.rs` | address-ordered free list stored in the free memory itself | `alloc`, `dealloc` | unlink, cut and re-link; coalescing after any history | every byte has one owner, free neighbours merge, null only when nothing can be cut |
| Spin lock, once cell, `libs/` | an `AtomicBool`, an unsynchronised state word | `lock`, drop; `set`, `get` | several CPUs and handlers | exclusion; everyone gets through |
| Boot and log, `main.rs`, `interrupts/`, `acpi.rs` | stage of the boot, IOAPIC mask, log level | `_start`, `kmain`, `log!`, `init_acpi`, `null_interrupt_handler`, AP start | a handler needs the lock the code under it holds; a wait for the firmware | CPUs finish, handlers return |
| Exceptions, `exceptions.rs` | `FAULTED` | `exception_handler`, which may fault itself | it logs, on top of any code of the boot CPU | the allocator stays exclusive through it; that a CPU stops after it is not claimed (section 5) |
| Address space, `mem/vmm.rs`, `paging.rs` | the tree of page tables, `cr3` | `vmm_init`, `vmm_map`, `get_next_level`, switch | clipping at 1 GiB and 4 GiB, 2 MiB fallback by recursion | everything the kernel uses translates as before the switch |
| VFS, `drivers/fs/vfs.rs` | mount list, tree of cached nodes, `File`s with raw pointers | `add_vfs`, `del_vfs`, `vfs_open`, `lookup`, `open`, `read`, drop | caches, raw pointers, moves inside a `BTreeMap` | a cached node is what its path names; nothing dropped is used |
| FAT over GPT over IDE, `fat.rs`, `storage/` | FAT in memory or on disk, drive registers | `ide_initialize`, `FatFs::new`, `mount`, directory search, `read`; `Partition::read`; `ide_access` | the type is computed, not stored; offsets, chains, drive errors, a drive with its own pace | a volume is taken for what it is; the bytes asked for, or an error that happened |
| Squashfs, `drivers/fs/initramfs/` | two chunked tables, decompressed in place | superblock check, `lookup`, `read` | earlier calls change the lengths later calls count with | the inode and bytes of that name |
| Inflate, `libs/gzip.rs` | bit position, ring of 32 KiB, Huffman codes | `uncompress_data` | three kinds of block, codes described in codes, matches across the end of the ring | what was compressed comes back, damage does not pass for data |

Not modelled: the keyboard driver (`keyboard::init` has no caller, so none of it
runs), serial port, walks over ACPI tables and PCI configuration space,
framebuffer, UUIDs, boot protocol structures, descriptor tables, the stubs for
other architectures. See section 6.

## 2. Modules

| Module | Models | Extends / instantiates |
|---|---|---|
| `PageAllocator` | abstract: what a page allocator promises | |
| `Pmm` | `pmm_alloc`, `pmm_dealloc`, one step per page looked at | instantiates `PageAllocator` |
| `PmmInit` | `pmm_init`, one step per memory map entry and loop | |
| `PmmProof` | theorems about `Pmm` | `Pmm` |
| `HeapAllocator` | abstract: what the heap promises | |
| `LinkedListAllocator` | `alloc`, `dealloc`, one step per list node | instantiates `HeapAllocator` |
| `HeapProof` | theorems about `LinkedListAllocator` | `LinkedListAllocator` |
| `Mutex` | the spin lock | |
| `KernelLog` | boot CPU, other CPUs, interrupt and exception handlers around the heap lock, the once cells they read, and `init_acpi`'s wait | instantiates `Mutex` |
| `KernelLogProof` | theorem about `KernelLog` | `KernelLog` |
| `Vmm` | `vmm_init` with its page tables and `Translate`, the MMU's walk | |
| `VmmProof` | the invariant of the page tables, and what follows from it | `Vmm` |
| `BootMemory` | `pmm_init`, `init_allocator` and `vmm_init` in turn, on one memory map and one bitmap | instantiates `PmmInit`, `Vmm` |
| `BootMemoryProof` | theorems about `BootMemory` | `BootMemory`, instantiates `VmmProof` |
| `Vfs` | mounts, cached nodes, Files | |
| `VfsProof` | theorems about `Vfs` | `Vfs` |
| `Ata` | polled reads; the drive is external | |
| `Fat` | probing, type of the FAT, partition, directory search, file reads | `Ata` |
| `FatProof` | theorems about `Fat` and `Ata` together | `Fat` |
| `ChunkReader` | chunked metadata tables | |
| `Squashfs` | superblock and slicing of the tables, `read_inode`, `find_entry_in_directory`, `Inode::read`, `get_decompressed_table` | `ChunkReader` |
| `Inflate` | `uncompress_data`, one step per header, symbol or byte | |
| `InflateProof` | theorem about `Inflate` | `Inflate` |
| `Deflate` | external: an encoder and what its streams stand for, from RFC 1950 and 1951 | |
| `MC*` | instances for TLC | |

Operators named "Mutant" in their comment are variants of a definition with a
plausible mistake in them. They take no part in any specification; each was put
in the place of the definition behind it to see that a property notices.

### How state and actions correspond to the code

* **Pmm.** `free` is the set of zero bits; `pc`, `pages`, `limit`, `p` are the
  locals of a call. One step is one evaluation of the `while` condition of
  `pmm_inner_alloc`. `used_pages` wraps at `WORD` as an `AtomicUsize` does.
  `live` is a history of the blocks callers hold.
* **PmmInit.** The three loops over the memory map. `free` holds arbitrary bits
  before the bitmap is written: memory the code does not set keeps what it had.
* **LinkedListAllocator.** `next` and `size` are the fields of the nodes, by
  address. A region that `find_region` has unlinked and not yet put back is "in
  flight" and owned by the call. The assertions of `add_free_region` lead to
  `pc = "panic"`.
* **KernelLog.** A context is a CPU or a handler; a heap call is lock, use,
  unlock. While a handler runs, the boot CPU does not; code that an exception
  has interrupted never runs again. `exc0` and `exc1` are the exception handlers
  that found `FAULTED` 0 and 1; the third does not log. `exc = "lost"` is what may
  become of the boot CPU around a handler: `push_gprs` and `pop_gprs` are functions
  that push and pop under `options(nostack)`, and behind the call the stub loads
  `rsp` from a register the call may have changed (`exceptions.rs:149`). `LevelsSeen` gives a
  reader of `KERNEL_FEATURES` both values while another CPU writes it.
* **Vmm.** Addresses count pages and a table has `E` entries. `calls` is the
  stack of `vmm_map` calls, since one that finds no 1 GiB support makes smaller
  ones. `Translate` is the hardware's walk.
* **BootMemory.** `pmm_init` changes the entry that hosts the bitmap in place, and
  `vmm_init` reads the changed map; `FreeBits` is what the heap has left of the
  bitmap when the first page table is taken from it. When `init_allocator` gets no
  pages the kernel spins (`InitAllocatorSpins`): the message of `pmm_alloc` needs the
  heap that is locked.
* **Vfs.** A node is known by its path, its address is the slot of its name in
  its parent's leaf; inserting a name moves its later siblings. Walks take one
  step per name. `callers` records whether callers so far behaved like `kmain`
  and `ide.rs` ("kernel"), have unmounted as `kmain` does ("unmounted"), or did
  anything else ("any").
* **Ata, Fat.** A byte is known by its address on the drive, so a read says
  where its bytes came from. `volume` holds the fields of the boot sector that
  decide the type, and `format` what the volume really is. The size of the root
  directory is a sum of 16 bits (`U16`, `Wrapped`). A search reads a cluster and
  then has the entries of the sectors in the buffer (`EntriesAt`): those of the
  directory where its sectors are, and any (`Strays`) where others are. Names that
  are no text (`NotUtf8`, `NotUtf16`) are panics. The drive is busy, offers sectors
  one by one or fails, when it likes.
* **ChunkReader, Squashfs.** A byte of a table is its position, so a slice is
  right when it is the run that was asked for. Every `get_slice` is a step,
  because it may decompress chunks and change what later ones find. An image has
  its metadata by position on the disk; `New` cuts it into tables as the code does,
  from the start of each table to that of the next one there is, so that the
  directory table has the chunk of the fragment table behind it. The data area is a
  sequence of blocks. `Uncompressed` says what `uncompress_data` makes of a run of
  blocks: the block, if it is the only one; an error when the last bytes are not the
  checksum of the first block, and then `get_decompressed_table` returns the bytes as
  they are; and of bytes that were not compressed any of the outcomes. A file of
  another fragment than the first is read through a pointer made of the wrong bytes:
  `ReadAstray` returns `Garbage` or ends the kernel.
* **Inflate.** `pos` stands for `input_buf` and `bit_index`. The tables are the
  code's; only the size of the ring is a parameter. An assertion that fails, or
  an index out of range, is `phase = "panic"`.

## 3. Runs and what they show

Passing runs:

| Run | Instance | States | Shows |
|---|---|---|---|
| `pmm` | 9 pages with a hole, requests of 0 to 4 pages | 45 k | `BlocksDisjoint`, `BitmapExact`, `UsedPagesExact`, every call returns (`AllocReturns`), and `Pmm` implements `PageAllocator` |
| `heap` | 14 words, blocks of 16 to 40 bytes | 40 k | list order, exact partition of the heap, full coalescing, calls return and never panic, and the list implements `HeapAllocator` |
| `boot_memory` | maps of five and six entries with areas below, across and above "4 GiB", bitmaps low and high, 4 and 5 levels, with and without 1 GiB pages | 20 k | the bitmap handed over is what `Pmm` starts from; bitmap, heap and tables share no page; after the switch the direct map, the kernel and the bitmap translate, nothing else is mapped, tables form a tree, no large page is ever split, no mapping is lost |
| `log` | boot CPU, 2 others, 2 key presses, 3 exceptions, both builds, two levels | 399 k | one user of the allocator at a time, whatever interrupts and faults do; undisturbed, all CPUs halt; at quiet levels also with interrupts |
| `vfs` | 3 file systems, 2 mount points (one nested), 2 Files | 2.0 M | cached nodes are what paths name, and reference counts are exact, as long as callers do what the kernel does; its unmount spoils no node but those below the mount point (`UnmountStaysLocal`); for any callers, lookups reach the newest mount |
| `fat` | 30 sectors, partition of 18, 25 volumes around the limits of the types, files in one and three clusters, 1 drive error, directories of four entries in the root and in a cluster | 273 k | which volumes are mounted and as what (`MountExact`), what reads return, when they panic or fail, what searches find, every call ends |
| `squashfs` | 230 images of one tree: chunks of four sizes, optional tables there or not, several data areas, names that are not UTF-8, superblocks that are refused | 485 k | `FindExact`, `ReadExact`; what panics of lookups are due to (`LookupPanicsHaveCause`); searches that do not end are for what lies behind a first chunk that was compressed (`HangsOnlyBehindCompressed`) |
| `inflate` | about 1000 streams: fixed, dynamic, stored and mixed blocks, and copies of three of them with any bit changed or any end cut off | 24 k | intact streams come back whole (`InflateExact`), damaged ones never pass for other data (`DamageCaught`), the ring is the end of the output at every byte (`WindowExact`) |

Several of these properties say exactly how far the code is right. `ReadExact`
and `ReadPanicsOnlyAcrossClusters` of `Fat` hold for reads that start in the
first cluster: `File::read` never reduces its offset to a cluster. `FindExact`
of `Fat` names the entries that are missed (`Missed`): those with only a short name
behind one with a long name. When a missed entry has the name looked for and a
later one has it too, the search finds the later one. Names that are no text are
panics if the search comes to them (`NoText`), and nothing is claimed where the
driver reads other sectors than those of the directory (`InPlace`): a root directory
of FAT12 or FAT16 that is no whole number of clusters, or whose size wraps around in
16 bits. `ErrorsAreReal` names the last sector of the partition, which
`Partition::read` does not give out. `MountExact` leaves out FAT12 and FAT16 volumes
of 65536 sectors or more, such as `ESP_BITS=16` makes: their FAT size is taken from
the FAT32 part of the boot sector; and root directories whose size wraps around.

`ReadExact` of `Squashfs` is about files in the first fragment, and about the first
file with blocks of its own (`block_start` is not used) if data is not compressed or
its block is all the data there is. In other images with compressed data such a read
returns compressed bytes, as `Ok`: the checksum of the data area, taken for one
stream, is wrong, and `unwrap_or(bytes.to_vec())` (`initramfs/mod.rs:305`) hides the
error. A fragment of one byte is a panic, and so may be a pointer in the fragment
table that passes for the head of a zlib stream (`PointerDecodes`).
`LookupPanicsHaveCause` and `HangsOnlyBehindCompressed` state which images the chunk
reader is good for: with `mksquashfs`'s compressed metadata, those where what is
looked for lies in the first chunk of its table and does not cross its end, and no
name that is not UTF-8 comes before it.

`BitmapStaysMapped` leaves out a bitmap above 4 GiB that has its gigabyte to itself.
`InflateExact` leaves out stored blocks whose header ends inside a byte, where
`uncompressed` goes on with the next bit and the format with the next byte.

Runs that show a disagreement with what the repository says:

| Run | Says | Does |
|---|---|---|
| `pmm_init_tail` | "Set the bit map to non-free" (`mem/pmm.rs:95`) | when the top page is 1 to 7 past a multiple of `8 * PAGE_SIZE` the bitmap is a byte short and an unusable page can be free |
| `log_irq` | the null handler "does nothing" (`interrupts/mod.rs:94`) | in a debug build it logs, and spins for ever when the code it interrupted holds the heap lock |
| `vfs_unmount` | `vfs_open("/mnt/boot/limine").unwrap()` after `del_vfs("/mnt")`, "as a sign that we didnt panic" (`main.rs:95`, `108`) | the open succeeds from the cache and the read goes through the dropped `Vfs` |
| `squashfs_chunks` | "handle cases where the chunks arent aligned to CHUNK_SIZE (they're compressed ...)" (`chunk_reader.rs:99`) | once chunk 0 has been decompressed its length is no longer the step the loop needs, and the search for a later chunk never ends |

### Bounds, and why they are enough

* `pmm`: a hole, runs longer and shorter than every request, a cursor at every
  place, and a request of zero pages. Two scans and their meeting point need no
  more pages.
* `boot_memory`: `PAGE_SIZE` is 2 bytes, so that bitmaps of several pages appear
  within 64 pages; `pmm_init_tail` has the rounding case `Covered` leaves out.
  4 GiB is two "gigabytes" of 16 pages; entries begin and end inside, at and
  across them, and low memory has room for the bitmap and the tables, for the
  bitmap only, or for neither.
* `heap`: room for up to seven blocks, so a freed block can have free
  neighbours on no, one or both sides, and rests of every size around
  `NodeSize` occur.
* `log`: `HeapCalls`, `LogCalls` bound the heap calls of a stage and of a
  message to one, which can be interrupted before, inside and behind; `Keys`
  bounds key presses; three `Faults` are one more than `FAULTED` tells apart.
* `vfs`: a name before and a name behind the mount point, so nodes move; a file
  system can be mounted over another and inside another.
* `fat`: `CountMod` and `Lba28Mod` stand for 2^8 and 2^28; clusters of two
  sectors of two bytes make offsets within a sector, a cluster and a chain
  differ. One fault is enough to fail any single access. `Fat12Limit`,
  `Fat16Limit` and `U32` stand for 4085, 65525 and 2^32; volumes lie one below
  and at each limit, and FAT sizes taken from the wrong field make every sum
  overflow, underflow and stay in range. `U16` stands for 2^16; root directories have
  two, four and seven entries of `EntryBytes`: half a cluster, a cluster, and one
  whose size wraps to none. A cluster has `SectorSlots` times two entries, so a
  directory can be full, and a long name of two parts with its entry leaves one.
* `squashfs`: chunks of 48, 64, 100 and 1000 bytes, and inodes of several
  lengths before the ones looked up, put structures at every kind of place:
  inside a chunk, across its end by one, two or more bytes. A compressed chunk has
  half its length on the disk and a compressed block one byte less, which is
  abstract: only that the lengths differ matters. With one ratio for all chunks a
  search behind a decompressed chunk misses its mark and does not come to a wrong
  one; that case is not in the run. `MaxRead` bounds offset and length of a read
  above the size of every packed file.
* `inflate`: a ring of 8 bytes, so that it wraps within a match and several
  times in a stream; all streams of up to four tokens, every length code at its
  first and last length, repeats that run across the two alphabets.

Deadlock is not checked where the code really stops: `pmm_init_tail` and the log
runs end in a halt, the VFS runs in a fault.

### Fairness

`Pmm` and `LinkedListAllocator` assume that the CPU which runs a call goes on
running it (`WF` of the loop's step), and nothing about callers. `KernelLog`
assumes this of each CPU and of the handlers, and that the firmware answers
`acpi_enable` in the end (`init_acpi` has no other way on); no fairness is
assumed of the lock (a spinning CPU may lose every race while others still make
calls) and none of key presses or faults. `Fat` assumes it of the CPU and that the drive, which is hardware,
eventually answers a command it was given; it may answer with an error. `Vfs`,
`BootMemory`, `Squashfs` and `Inflate` state no fairness and claim no liveness.

## 4. Proofs

Each theorem holds for every value of the constants that the named assumptions
allow. Where a theorem needs more, it says so in its own hypothesis.

| Module | Theorems | Hypothesis |
|---|---|---|
| `PmmProof` | `BlocksAreDisjoint`, `BitmapIsExact`, `UsedPagesAreExact`, `Refinement` | |
| `KernelLogProof` | `Exclusion` | |
| `HeapProof` | `ListIsOrdered`, `FreeMemoryIsCoalesced`, `HeapIsPartitioned` | |
| | `NoCallPanics`, `ListImplementsHeap` | no layout is aligned to more than a `MemNode` |
| `BootMemoryProof` | `BitmapIsTrue`, `BootPagesAreDisjoint` | `EveryBitStored` |
| | `NothingIsSplit`, `NoForeignPage`, `TablesAreATree`, `MappingsAreKept`, `DirectMapIsExact`, `KernelIsMapped`, `BitmapIsMapped` | `EveryBitStored` |
| `VfsProof` | `NewestIsOnTop`, `CacheIsCoherent`, `UnmountIsLocal` | |
| | `RefCountsAreExact` | `NamesFit` |
| `FatProof` | `MountsAreExact`, `ReadsAreExact`, `ReadPanics`, `ReadErrors`, `SearchesAreExact` | |
| `InflateProof` | `WindowIsExact` | |

### Physical pages

`PmmProof`, for every `Highest`, `Usable` and `Sizes`:

* `Invariance`: `Spec => []IInv`, with `IInv` the conjunction of `TypeOK`,
  `BlocksDisjoint`, `BitmapExact`, `UsedPagesExact` and `ScanMissesNothing`.
  Disjointness alone is not inductive: a grant is disjoint from older blocks
  only because the pages counted in `p` are free (`ScanMissesNothing`) and free
  pages are in no block (`BitmapExact`). The counter needs that a granted run
  is free and a released one is in use, which makes both steps change the
  cardinality by exactly `pages` (lemma `UsedGrows`).
* `BlocksAreDisjoint`, `BitmapIsExact`, `UsedPagesAreExact` follow.
* `Refinement`: `Spec => PA!Spec`. The interesting step is the refusal: at the
  end of the second scan `ScanMissesNothing` says that no run of the requested
  length ends below the cursor, and the cursor is at `Highest`.

Assumptions: usable pages lie in `1 .. Highest - 1` (the boot protocol does not
mark page 0 usable, and `pmm_init` takes the highest usable address), and the
number of pages fits a `usize`. `BitmapIsTrue` below proves the first of what
`pmm_init` hands over.

### Boot memory

`BootMemoryProof`, for all memory maps: the bitmap `pmm_init` hands over is true,
and bitmap, heap and page tables never share a page. `BootInv` follows the three
loops: the first has counted up to the entry it is at (`Counted`), until a host
is found the map is as the loader left it (`Untouched`), afterwards it differs
from that in the host only, by the pages of the bitmap (`Hosted`), and the bits
that are reset are the usable pages of the entries passed (`FreeSoFar`). Two
entries that differ stay apart, because `pmm_init` cuts the host from below. The
heap and the tables then take free pages only (`TakenInv`).

Assumptions: the usable entries of a map do not overlap and leave out page 0,
which the boot protocol guarantees (`MapAssumption`). Hypothesis: every bit has
a byte (`EveryBitStored`). `pmm_init` does not see to that; the run
`pmm_init_tail` shows the maps where it fails, and the theorems are false there.

### Page tables

`VmmProof` has the invariant of `vmm_init`, for every size of a table, both
paging levels, with and without 1 GiB pages, and every machine with what
`MachineOK` lists; `BootMemoryProof` shows that `pmm_init` hands over such a
machine (`MachineIs`) and carries the invariant through the whole boot
(`AddressInv`). `SpaceInv` says, between any two steps of a `vmm_map` call:

* `Tree`: every table `p` has a place, a level `lv[p]` and the number `px[p]` of the
  part of the address space it stands for, and no two have the same. Entry `x` of
  it stands for part `px[p] * E + x` one level down: a valid entry that is no leaf
  leads to the table with that place (`Leads`), and every table but the root hangs
  from one (`Hangs`). A leaf is a large page of the direct map below the gigabyte
  of the kernel, or a 4 KiB page of the kernel in or above it (`Leaves`), and small
  tables are the kernel's (`Fine`).
* `StackOK`, `Stand`: one call is under way, or a 1 GiB call with one of its 2 MiB
  calls, for a part of the direct map or a page of the kernel, and each stands at
  the table that has the place of its address.
* `LowDue`, `KernelDue`, `HighDue`: what the three loops have been through is mapped,
  or is still to be mapped by the calls under way.

Nothing weaker is inductive: a mapping is kept only because the entry `vmm_map`
overwrites is invalid or has the same leaf in it, which needs the place of the
table and what its leaves are; a new table must not be one that another entry
leads to, which needs that tables are taken from the free pages. The places turn
`Walk` and `Translate` into arithmetic: `Index` is a remainder, the places are
quotients, and the lemmas `WalkSound` and `WalkComplete` say that the walk to `v` is
at the table of level `l` exactly when there is one with place `v \div E^(l+1)`.

* `NothingIsSplit`: a large page above a call's target would be of the direct map,
  and the target of the kernel, in the same gigabyte.
* `NoForeignPage`, `MappingsAreKept`: what `Translate` finds is what the leaf has.
* `TablesAreATree`: `TablesAt` finds level by level the tables with that level in
  `lv`, and places count the entries between them.
* `DirectMapIsExact`, `KernelIsMapped`, `BitmapIsMapped`: at the end no call is under
  way, so that what is due is mapped; `va_space_switch` finds the root again since
  the root, in the direct map, lies below the kernel.

Assumptions: `MapAssumption` as above, and `SpaceAssumption`, which the boot protocol
guarantees: the direct map begins at a whole gigabyte and ends in a gigabyte below
that of the kernel (which Limine links in the last 2 GiB), and the kernel ends
inside the address space. Without it the direct map and the kernel would share
tables, and `get_next_level` would have to split pages. Hypothesis: `EveryBitStored`.
Nothing is claimed after an allocation that failed but that the tables stay what
they were.

### Heap

`HeapProof`, for every heap of whole words and every set of layouts. `HeapInv`
says, between any two steps of a call: the list is ordered by address
(`ListOrdered`); no two regions overlap, be they nodes, blocks, the region that
`add_free_region` is inserting or the block about to be returned (`FreeApart`,
`LiveApart`, `FlightApart`); every word is in one of them (`NothingLost`); no two
nodes touch, while `coalesce_memory` runs none before its cursor (`Merged`); and
`find_region` has passed only nodes that do not suit (`SearchedInVain`). The
partition is not inductive without the order of the list, nor the full merge
without the cursor.

* `ListImplementsHeap`: the free words of `HeapAllocator` are those of the nodes
  and of the region in flight. A refusal is right since free runs are nodes, by
  `FreeMemoryIsCoalesced`, and every node has been looked at.
* `NoCallPanics`: the assertions of `add_free_region` hold. No run checks it by
  itself; `CallsReturn` implies it, since a panic is final. Hypothesis of both: no
  layout is aligned to more than 8 bytes. With such a layout `alloc_from_node`
  judges a node by its aligned address while `inner_alloc` cuts at its start, and
  what is left over may be smaller than a node.

### Log

`KernelLogProof`, for every set of CPUs and any number of interrupts and
exceptions: `Exclusion`, at most one context is inside the allocator. The
invariant ties the flag to the contexts: at most one is inside, and the flag is
set exactly while one is.

### Virtual file system

`VfsProof`, for all file systems, paths and mount points and any finite number of
Files:

* `CommonInv` holds whoever calls. Mount points are nodes of the tree; "/" is the
  first mount and no other; every address that is stored, in a `File` or as a
  parent, is the address of some node. The last needs the lemma
  `SlotStaysOccupied`: when a name is inserted into a leaf, the slots in use stay
  in use, by the same node or by the one before it. `NewestIsOnTop` is part of
  it: `del_vfs` takes the oldest mount on a point, so the newest stays on top.
* `CacheIsCoherent` adds `CoherentInv`: a node is what the mount that covers its
  path has there (`Resolved`); its `vfs_mounted_here` is the newest mount on it
  (`Topped`), so that a child which is looked up through it is resolved; and
  nobody has been below the point that `add_vfs` is walking to, so that the mount
  makes no cached node wrong.
* `UnmountIsLocal` is about the state after `kmain`'s `del_vfs` too, in which freed
  memory may be used below the old mount point. `UnmountedInv` says of every node
  that it is resolved, as before, or cut off: below a stale mount point and in the
  file system that was dropped. `FreshInv`, that a file system is mounted once, is
  needed to know that what was dropped is mounted nowhere else. The property stays
  true because a lookup inserts no node where the file system it would ask is gone.
* `RefCountsAreExact` adds `CountInv`, that Files have the address of their node,
  which is inductive because the kernel looks no name up while one is open, and
  that addresses are injective (`AddrInjective`). For other callers a File may
  close another node than its own; then only the sum holds (`TokensInv`: no more
  references than Files), which bounds each count. Hypothesis: all names fit
  into one leaf of the map (`NamesFit`, 11 of them), below which `AddressOf` is
  what a `BTreeMap` does; the slots of the type invariant follow from it.

Assumptions: names and mount points have no dots in them, `None` is none of the
values stored, `Handles` is finite.

### FAT

`FatProof`, for every drive, partition and layout, every FAT and every file and
directory. `Inv` follows the kernel, the driver and the drive together:

* `AtaInv`: what is in the buffer are the first sectors of those asked for, and the
  drive is at the next one; it is in the state "error" only after a fault.
* `CallInv`: the call of the drive that is under way is the one that the kernel is
  waiting for (`AskedSector`, `AskedCount`), and it failed only after a fault or if
  it does not end inside the partition. Without it, what arrives in the buffer says
  nothing about the cluster the kernel believes it has read.
* `MountInv`: the FAT in memory is what the drive has in the sectors read so far
  (`FatOf`), and from the boot sector on the type is that of the volume. `Recognises`
  shows the arithmetic of `FatFs::new` right, and `NameDecides` that a type which is
  wrong does not have its name in the boot sector.
* `ReadInv`: a read is before or behind its `n`-th cluster, `read.cluster` is the
  `n`-th of the chain (`ClusterOf`), and `bytes` are as many bytes of the file as `n`
  clusters give (`AtCluster`, `AtNext`, `HasRead`). `CopySize` says how many bytes
  `to_copy` is and exactly when the slice leaves the cluster; `CopyBytes` that the
  bytes of the slice, counted in sectors of the drive, are those of the file.
* `FindInv`: the cluster a search reads has the sectors of the directory (`Located`;
  lemma `RootSector` for the root directory, which `sector_to_cluster` makes a cluster
  and `cluster_to_sector` sectors again), so that the entries it has are those the
  directory has (`InDir`). It has gathered the parts directly before entry `i`
  (`Gathered`), has a name in `string` exactly if an entry before `i` has a long one
  (`Forgotten`), and none of the entries before `i` is no text or is the one looked
  for unless it is missed (`NotBefore`). `MatchIs` says that what the code compares at
  an entry succeeds exactly for the matches that are not missed.

`ClusterOf` is a recursive function. That it is defined for every length, and one
step of it is one entry of the FAT (`Clusters`), is proved with the least length for
which it would not be so (`ChainExists`, `ChainUnique`).

The proof corrected the statement of `FindExact`: it had said that whatever is found
is the first match, which is wrong in directories where a missed entry and a later
one have the same name.

Assumptions, all evaluated in the run `fat`. Of the partition (`LayoutAssumption`): it
lies on the drive with room for the FATs, one cluster and one more sector, which
`get_next_cluster` reads along; two clusters fit before the data area, so that
`cluster_to_sector` does not wrap for clusters 0 and 1. That the root directory has
whole clusters is not assumed: where it has not, `FindExact` claims nothing. Of a volume
(`VolumeAssumption`): a FAT12 or FAT16 volume has the number of clusters of its type,
no boot sector has the name of another type, and the FAT has an entry for every
cluster that ends in the partition. Of files (`FilesAssumption`, `ChainAssumption`):
the chain of a file is as long as the file. Where it leads is left open. Of
directories (`DirectoryAssumption`): they fill a cluster, with end marks if need be,
and no long name is cut off by an unused entry.

### Inflate

`InflateProof`: the ring is the end of the output (`WindowIsExact`), for every
input. `RingInv` adds that `pointer` is in `0 .. Window`, where it equals `Window`
after a byte has filled the ring; the lemma `Wrap` says that the index `peek`
computes from it is the right one also across the wrap of the `usize`. Assumption:
the size is a power of two up to 32768, as `index % 32768` after a
`wrapping_sub` needs it to divide 2^64.

### Only model-checked

* All liveness (`AllocReturns`, `CallsReturn`, `EverybodyHalts`, ...): it rests on fairness and `ENABLED`, which the prover does not do.
* `InflateExact`, `DamageCaught`, and the properties of `Squashfs`: what a stream of
  codes or a table of chunks yields is defined by folds and by recursion over the
  data (the encoder, the checksum, the layout of an image), and induction over data
  is out of its reach. Of a damaged stream the checksum only makes it unlikely that
  it passes, so `DamageCaught` holds for the streams of the run and no theorem could
  say more.

## 5. Hazards

`PROJECT.json` lists them with the line where each would bite. Of three of them no
property says that they do no harm, because they do: FAT12 tables read as 16-bit
words (modelled, but what is read is not what the volume holds); a null pointer from
`pmm_alloc` (page 0 as a page table, `init_allocator` that spins, modelled up to that
point, and the assertion of `draw_gradient` that comes after `to_higher_half` and so
cannot fail); and exceptions: one inside the allocator spins on its own CPU's
lock, also when the handler is to say "Exception Loop detected, stopping here", and
what the stub does behind the handler depends on the build. The stale
parent address that ".." can follow in the VFS is modelled by `WalkUp`; no caller
uses "..", and nothing in the repository says what it should find.

## 6. What is abstracted, and what is not modelled

Abstracted: contents of messages, formatting, registers and stack frames an
exception prints; register programming of APIC, IOAPIC, PIC and PCI; flags of
page table entries other than present and large; the identification of drives
and the byte layout of MBR, GPT and boot sector (their fields are there); zeroing
of pages. In `Squashfs` decompression yields what was compressed; that it does is
what `Inflate` checks.

Not modelled:

* `ATADrive::write` and the VNode methods that are stubs: no caller, no effect.
* Keyboard: no caller of `keyboard::init`.
* Serial port, framebuffer and `draw_gradient`: port and memory output with no state
  of their own.
* Walks over ACPI tables and PCI configuration space: what they find is the
  firmware's to say.
* Exceptions on the other CPUs: they load no IDT, so that a fault there resets
  the machine.
* UUIDs, byte labels, pointer wrappers, descriptor tables: accessors, formatting
  and single instructions; the other architectures are stubs.

## 7. Plan

Done, in this order: page allocator and its proof, `pmm_init`, heap, lock and
log, VFS, IDE and FAT, address space, squashfs; then the composition of
`pmm_init`, heap and address space, exceptions and the firmware's wait, several
fragments, the types of a FAT, inflate.

Then the proofs, in this order: page allocator and lock, `WindowExact`, the heap
with its refinement, `pmm_init` and who owns which page, the four invariants of
the VFS, the page tables, mounting, reading and searching a FAT volume.

Left: the properties of `Squashfs` and `Inflate` that section 4 lists as only
model-checked.
