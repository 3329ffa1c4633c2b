-------------------------------- MODULE Fat --------------------------------
(***************************************************************************)
(* The FAT driver over a GPT partition of an IDE drive: ide_initialize     *)
(* (ide.rs), Partition::read (storage/mod.rs), and FatFs and File of       *)
(* src/src/drivers/fs/fat.rs.                                              *)
(*                                                                         *)
(* A byte is known by its address on the drive, so what a read returns     *)
(* says where it was taken from.  A FAT entry is a number below 2^12, EOC  *)
(* and above being the end of a chain.  Directory entries are records; a   *)
(* long name is the sequence of its parts.                                 *)
(***************************************************************************)
EXTENDS Ata, FiniteSets, SequencesExt

CONSTANTS
    Volumes,                \* the drives, see VolumeAssumption
    Fat12Limit, Fat16Limit, \* the clusters that make it FAT16 or FAT32: 4085 and 65525
    U16, U32,               \* 2^16 and 2^32
    start_sector, end_sector,   \* the GPT entry; end_sector belongs to the partition
    TableSectors,           \* the GPT entries
    reserved_sectors, fat_count, sectors_per_fat, sectors_per_cluster,
    SectorBytes,            \* 512
    SectorEntries,          \* FAT entries of a sector
    EntryBytes, SectorSlots,    \* 32, and the directory entries of a sector
    DiskFat,                \* the FAT on the drive: 0 .. -> 0 .. 4095
    Entries,                \* the files: [cluster, file_size]
    SubDirs,                \* the first clusters of directories other than the root
    Directories,            \* what the first cluster of a directory may hold
    Strays,                 \* what other sectors may hold, taken for entries
    Names, ToUpper,         \* the names looked up and their upper case
    NotUtf8, NotUtf16       \* the short and the long names that are no text

EOC == 4088                 \* 0xFF8

VARIABLES
    volume,     \* the drive, the build and the command line: never changes
    fat,        \* FatFs.fat, empty when it is not kept in memory
    pc,         \* where the kernel is
    probe,      \* reads of the drive that ide_initialize and mount have made
    find,       \* find_entry_in_directory: [root, cluster, dir, name, i, long, string, found]
                \* and, for the properties, held: what the directory holds
    read,       \* File::read: [file, asked, count, offset, skip, cluster, bytes]
    result      \* of the last call: "none", "ok", "err" or "panic"

fatVars == <<volume, fat, pc, probe, find, read, result>>
vars    == <<ataVars, fatVars>>

cluster_size   == sectors_per_cluster * SectorBytes
ClusterEntries == sectors_per_cluster * SectorSlots

\* How a drive v is laid out.
RootDirBytes(v) == v.root_directory_count * EntryBytes + (SectorBytes - 1)
RootDirSectorsOf(v) == RootDirBytes(v) \div SectorBytes
FirstDataSectorOf(v) == reserved_sectors + fat_count * sectors_per_fat + RootDirSectorsOf(v)
SectorsOf(v) == IF v.total_sectors = 0 THEN v.large_sector_count ELSE v.total_sectors
ClustersOf(v) == (SectorsOf(v) - FirstDataSectorOf(v)) \div sectors_per_cluster
FormatName(v) ==
    CASE v.format = 12 -> "FAT12" [] v.format = 16 -> "FAT16" [] v.format = 32 -> "FAT32"

\* The driver computes the size of the root directory in u16: a panic in a debug
\* build, and otherwise what is left of it.
Wrapped(v) == RootDirBytes(v) >= U16

root_dir_sectors  == (RootDirBytes(volume) % U16) \div SectorBytes
first_data_sector == reserved_sectors + fat_count * sectors_per_fat + root_dir_sectors

\* How the volume was formatted, for the properties; what the boot sector says of
\* it; what else there is on the drive; and how the kernel was built and started.
\* sectors_per_fat_ext is where FAT32 has the size of a FAT, and the others the
\* drive number and part of the volume id.  A FAT12 or FAT16 volume was given the
\* number of clusters of its type, FAT32 has its root directory among the clusters,
\* and no boot sector has the name of another type.
\* The FAT has an entry for every cluster that ends in the partition.
ASSUME VolumeAssumption ==
    \A v \in Volumes :
        /\ v.format \in {12, 16, 32}
        /\ {v.total_sectors, v.large_sector_count, v.sectors_per_fat_ext} \subseteq 0 .. (U32 - 1)
        /\ v.root_directory_count \in 0 .. (U16 - 1) /\ v.root_dir_cluster \in Nat \ {0, 1}
        /\ v.system_identifier \in {FormatName(v), "other"}
        /\ {v.gpt, v.esp, v.overflow_checks, v.fat_in_mem} \subseteq BOOLEAN
        /\ FirstDataSectorOf(v) <= SectorsOf(v)
        /\ end_sector - (start_sector + FirstDataSectorOf(v))
             < (sectors_per_fat * SectorEntries - 1) * sectors_per_cluster
        /\ v.format = 12 => ClustersOf(v) < Fat12Limit
        /\ v.format = 16 => ClustersOf(v) \in Fat12Limit .. (Fat16Limit - 1)
        /\ v.format = 32 => v.sectors_per_fat_ext = sectors_per_fat /\ v.root_directory_count = 0

\* The partition and its parts: it lies on the drive, it has room for the FATs, a
\* cluster behind them and, what get_next_cluster reads, one more sector.
ASSUME LayoutAssumption ==
    /\ {Fat12Limit, Fat16Limit, U16, U32, start_sector, end_sector, reserved_sectors, fat_count,
          sectors_per_fat} \subseteq Nat
    /\ {TableSectors, sectors_per_cluster, SectorBytes, SectorEntries, EntryBytes, SectorSlots}
          \subseteq Nat \ {0}
    /\ SectorBytes = SectorSlots * EntryBytes /\ SectorBytes <= U16
    /\ fat_count * sectors_per_fat + reserved_sectors >= 2 * sectors_per_cluster
    /\ sectors_per_cluster <= CountMod
    /\ Fat12Limit <= Fat16Limit
    /\ 2 + TableSectors <= SectorCount /\ end_sector <= SectorCount
    /\ reserved_sectors > 0
    /\ start_sector + reserved_sectors + sectors_per_fat < end_sector
    /\ start_sector + reserved_sectors + fat_count * sectors_per_fat + sectors_per_cluster <= end_sector

\* Entries of the FAT that have a sector, and the files.
ASSUME FilesAssumption ==
    /\ DiskFat \in [0 .. (sectors_per_fat * SectorEntries - 1) -> Nat]
    /\ Entries \in Seq([cluster : Nat, file_size : Nat])

\* A cluster of a directory is full of entries, and no long name is cut off by an
\* unused entry.
ASSUME DirectoryAssumption ==
    /\ SubDirs \subseteq Nat \ {0, 1}
    /\ \A dir \in Directories :
          /\ dir = [i \in DOMAIN dir |-> dir[i]] /\ DOMAIN dir = 1 .. ClusterEntries
          /\ \A i \in DOMAIN dir : dir[i].kind \in {"end", "unused", "long", "file"}
          /\ \A i \in 1 .. (ClusterEntries - 1) : dir[i].kind = "long" => dir[i + 1].kind # "unused"
    /\ <<>> \notin Names /\ <<>> \notin NotUtf16

NoFind == [root |-> FALSE, cluster |-> 0, held |-> <<>>, dir |-> <<>>, name |-> <<>>, i |-> 1,
           long |-> <<>>, string |-> <<>>, found |-> 0]
NoRead == [file |-> 0, asked |-> 0, count |-> 0, offset |-> 0, skip |-> 0, cluster |-> 0,
           bytes |-> <<>>]

Init ==
    /\ AtaInit
    /\ volume \in Volumes
    /\ fat = <<>>
    /\ pc = "probe" /\ probe = 0
    /\ find = NoFind /\ read = NoRead /\ result = "none"

-----------------------------------------------------------------------------
(* FatFs::new: the type of a FAT follows from the number of clusters.  The *)
(* size of a FAT is taken from the FAT32 part of the boot sector whenever  *)
(* the 16 bits of total_sectors are not enough, whatever the type.         *)

total_sectors == SectorsOf(volume)
fat_size ==
    IF volume.total_sectors = 0 THEN volume.sectors_per_fat_ext
    ELSE IF volume.format = 32 THEN 0 ELSE sectors_per_fat

before_data == reserved_sectors + fat_count * fat_size + root_dir_sectors

\* So do the operations on u32.
Overflows == Wrapped(volume) \/ before_data >= U32 \/ before_data > total_sectors
total_clusters == ((total_sectors - before_data) % U32) \div sectors_per_cluster

\* Mutant: the limits belong to the smaller type.
fat_type_inclusive ==
    IF total_clusters <= Fat12Limit THEN 12 ELSE IF total_clusters <= Fat16Limit THEN 16 ELSE 32

fat_type ==
    IF total_clusters < Fat12Limit THEN 12 ELSE IF total_clusters < Fat16Limit THEN 16 ELSE 32

\* FAT32 has its name at another place of the boot sector than the others.
Identified ==
    /\ (fat_type = 32) = (volume.format = 32)
    /\ volume.system_identifier = CASE fat_type = 12 -> "FAT12" [] fat_type = 16 -> "FAT16"
                                     [] fat_type = 32 -> "FAT32"

-----------------------------------------------------------------------------
\* Partition::read for a GPT partition.
PartitionRead(sector, count) ==
    IF start_sector + sector + count > end_sector
    THEN io' = [IoIdle EXCEPT !.pc = "err"]
    ELSE DeviceRead(start_sector + sector, count)

\* Mutant: clusters counted from zero.
SectorFromZero(cluster) == cluster * sectors_per_cluster + first_data_sector

cluster_to_sector(cluster) == (cluster - 2) * sectors_per_cluster + first_data_sector

\* The root directory of FAT12 and FAT16 lies before the data area: its cluster is
\* counted backwards from there, in whole clusters.
sector_to_cluster(sector) ==
    2 - ((first_data_sector - sector + (sectors_per_cluster - 1)) \div sectors_per_cluster)

root_cluster ==
    IF fat_type = 32 THEN volume.root_dir_cluster
    ELSE sector_to_cluster(reserved_sectors + fat_count * sectors_per_fat)

\* The FAT entry the driver reads at index k.  It takes FAT12 for an array of
\* 16-bit words and masks 12 bits, while the drive has three nibbles to an entry.
Nibble(n) ==
    LET e == IF n \div 3 \in DOMAIN DiskFat THEN DiskFat[n \div 3] ELSE 0
    IN (e \div <<1, 16, 256>>[(n % 3) + 1]) % 16

ReadEntry(k) ==
    IF fat_type = 12 THEN Nibble(4 * k) + 16 * Nibble(4 * k + 1) + 256 * Nibble(4 * k + 2)
    ELSE IF k \in DOMAIN DiskFat THEN DiskFat[k] ELSE 0

\* The entries in a sector of the FAT that has been read.
EntriesOf(sector) ==
    [j \in 1 .. SectorEntries |->
        ReadEntry((sector - start_sector - reserved_sectors) * SectorEntries + j - 1)]

-----------------------------------------------------------------------------
(* ide_initialize reads the MBR, the GPT header and its entries from the   *)
(* drive; FatFs::new the boot sector and, on FAT32, the FSInfo sector; and *)
(* mount the FAT, sector by sector, if it is to be kept in memory.         *)
NewReads   == 3 + (IF fat_type = 32 THEN 2 ELSE 1)
ProbeReads == NewReads + (IF volume.fat_in_mem THEN sectors_per_fat ELSE 0)

ProbeCall ==
    /\ pc = "probe" /\ io.pc = "idle" /\ probe < ProbeReads
    /\ CASE probe = 0 -> DeviceRead(0, 1)
         [] probe = 1 -> DeviceRead(1, 1)
         [] probe = 2 -> DeviceRead(2, TableSectors)
         [] probe = 3 -> PartitionRead(0, 1)
         [] probe = 4 /\ fat_type = 32 -> PartitionRead(1, 1)
         [] OTHER -> PartitionRead(reserved_sectors + (probe - NewReads), 1)
    /\ UNCHANGED <<count0, drive, faults, fatVars>>

\* What the kernel makes of the read: the MBR must announce a GPT, the entry must
\* be of the type of an EFI system partition, and the boot sector's name must be
\* the one of the type.  A partition that is not mounted is passed over.
Judged ==
    CASE probe = 0 /\ ~volume.gpt                           -> "panic"
      [] probe = 2 /\ ~volume.esp                           -> "unmounted"
      [] probe = 3 /\ Overflows /\ volume.overflow_checks   -> "panic"
      [] probe = 3 /\ ~Identified                           -> "unmounted"
      [] OTHER                                              -> "probe"

ProbeOk ==
    /\ pc = "probe" /\ io.pc = "ok"
    /\ io' = IoIdle
    /\ probe' = probe + 1
    /\ fat' = IF probe >= NewReads THEN fat \o EntriesOf(io.buffer[1]) ELSE fat
    /\ pc' = Judged
    /\ result' = IF Judged = "panic" THEN "panic" ELSE result
    /\ UNCHANGED <<count0, drive, faults, volume, find, read>>

(* Each of these reads is followed by expect.                              *)
ProbePanic ==
    /\ pc = "probe" /\ io.pc = "err"
    /\ pc' = "panic" /\ result' = "panic"
    /\ UNCHANGED <<ataVars, volume, fat, probe, find, read>>

ProbeDone ==
    /\ pc = "probe" /\ io.pc = "idle" /\ probe = ProbeReads
    /\ pc' = "idle"
    /\ UNCHANGED <<ataVars, volume, fat, probe, find, read, result>>

-----------------------------------------------------------------------------
(* File::lookup on a directory, the root or the one at a cluster, that     *)
(* holds the entries held.                                                 *)
Lookup(root, cluster, held, name) ==
    /\ pc = "idle" /\ io.pc = "idle"
    /\ pc' = "dir"
    /\ find' = [NoFind EXCEPT !.root = root, !.cluster = cluster, !.held = held, !.name = name]
    /\ read' = NoRead /\ result' = "none"
    /\ PartitionRead(cluster_to_sector(cluster), sectors_per_cluster)
    /\ UNCHANGED <<count0, drive, faults, volume, fat, probe>>

\* Where the format has a cluster, and the directory that is searched.
SectorOf(c) == start_sector + FirstDataSectorOf(volume) + (c - 2) * sectors_per_cluster

DirSector(root, cluster) ==
    IF root /\ volume.format # 32 THEN start_sector + reserved_sectors + fat_count * sectors_per_fat
    ELSE SectorOf(cluster)

\* The entries that sectors of the drive hold, for a directory that begins at first;
\* sectors outside of it hold what they will.
EntriesAt(sectors, first, held, stray) ==
    [i \in 1 .. ClusterEntries |->
        LET j == sectors[(i - 1) \div SectorSlots + 1] - first
        IN IF j \in 0 .. (sectors_per_cluster - 1)
           THEN held[j * SectorSlots + ((i - 1) % SectorSlots) + 1] ELSE stray[i]]

\* Every call ends here.
Return(how) ==
    /\ result' = how
    /\ pc' = IF how = "panic" THEN "panic" ELSE "idle"

LookupRead ==
    /\ pc = "dir" /\ io.pc \in {"ok", "err"}
    /\ io' = IoIdle
    /\ IF io.pc = "err" THEN Return("err") /\ UNCHANGED find
       ELSE /\ \E stray \in Strays : find' = [find EXCEPT !.dir =
                  EntriesAt(io.buffer, DirSector(find.root, find.cluster), find.held, stray)]
            /\ pc' = "find" /\ UNCHANGED result
    /\ UNCHANGED <<count0, drive, faults, volume, fat, probe, read>>

Finding == pc = "find" /\ find.i <= ClusterEntries
Entry   == find.dir[find.i]

(* A directory that fills its cluster has no end mark, and the slice of    *)
(* the next entry is out of bounds.                                        *)
FindOverrun ==
    /\ pc = "find" /\ find.i > ClusterEntries
    /\ Return("panic")
    /\ UNCHANGED <<ataVars, volume, fat, probe, find, read>>

FindEnd ==
    /\ Finding /\ Entry.kind = "end"
    /\ Return("err")
    /\ UNCHANGED <<ataVars, volume, fat, probe, find, read>>

\* Mutant: the index is advanced at the end of the loop, which continue skips.
FindUnusedStuck ==
    /\ Finding /\ Entry.kind = "unused"
    /\ UNCHANGED vars

FindUnused ==
    /\ Finding /\ Entry.kind = "unused"
    /\ find' = [find EXCEPT !.i = @ + 1]
    /\ UNCHANGED <<ataVars, volume, fat, pc, probe, read, result>>

FindLong ==
    /\ Finding /\ Entry.kind = "long"
    /\ find' = [find EXCEPT !.i = @ + 1, !.long = Append(@, Entry.part)]
    /\ UNCHANGED <<ataVars, volume, fat, pc, probe, read, result>>

\* The names of a file or a directory, which must be text.
Readable == Reverse(find.long) \notin NotUtf16 /\ Entry.short \notin NotUtf8

FindNoText ==
    /\ Finding /\ Entry.kind = "file" /\ ~Readable
    /\ Return("panic")
    /\ UNCHANGED <<ataVars, volume, fat, probe, find, read>>

\* Mutant: the parts are put together in the order in which they are stored.
FindEntryForward ==
    /\ Finding /\ Entry.kind = "file" /\ Readable
    /\ LET string == IF find.long # <<>> THEN find.long ELSE find.string
           match  == IF string # <<>> THEN string = find.name ELSE ToUpper[find.name] = Entry.short
       IN /\ find' = [find EXCEPT !.string = string, !.long = <<>>,
                                  !.i = IF match THEN @ ELSE @ + 1,
                                  !.found = IF match THEN find.i ELSE 0]
          /\ IF match THEN Return("ok") ELSE UNCHANGED <<pc, result>>
    /\ UNCHANGED <<ataVars, volume, fat, probe, read>>

(* A file or a directory.  long_filename_string is set when parts of a     *)
(* long name have been seen, and keeps its value from then on.             *)
FindEntry ==
    /\ Finding /\ Entry.kind = "file" /\ Readable
    /\ LET string == IF find.long # <<>> THEN Reverse(find.long) ELSE find.string
           match  == IF string # <<>> THEN string = find.name ELSE ToUpper[find.name] = Entry.short
       IN /\ find' = [find EXCEPT !.string = string, !.long = <<>>,
                                  !.i = IF match THEN @ ELSE @ + 1,
                                  !.found = IF match THEN find.i ELSE 0]
          /\ IF match THEN Return("ok") ELSE UNCHANGED <<pc, result>>
    /\ UNCHANGED <<ataVars, volume, fat, probe, read>>

-----------------------------------------------------------------------------
(* File::read(count, offset).                                              *)
Read(f, count, offset) ==
    /\ pc = "idle" /\ io.pc = "idle"
    /\ count + offset <= Entries[f].file_size
    /\ read' = [file |-> f, asked |-> offset, count |-> count, offset |-> offset,
                skip |-> offset \div cluster_size, cluster |-> Entries[f].cluster,
                bytes |-> <<>>]
    /\ pc' = IF offset \div cluster_size > 0 THEN "skip" ELSE "cluster"
    /\ find' = NoFind /\ result' = "none"
    /\ UNCHANGED <<ataVars, volume, fat, probe>>

\* What is done with the next cluster: another one to skip, the first one to
\* read, or one more to read unless the chain is at its end.
Follow(next) ==
    /\ read' = [read EXCEPT !.cluster = next, !.skip = IF pc = "skip" THEN @ - 1 ELSE @]
    /\ IF pc = "skip" THEN pc' = (IF read.skip = 1 THEN "cluster" ELSE "skip") /\ UNCHANGED result
       ELSE IF next >= EOC THEN Return("ok")
       ELSE pc' = "cluster" /\ UNCHANGED result

(* get_next_cluster, from memory ...                                       *)
NextInMemory ==
    /\ pc \in {"skip", "next"} /\ volume.fat_in_mem
    /\ IF read.cluster < Len(fat) THEN Follow(fat[read.cluster + 1])
       ELSE Return("panic") /\ UNCHANGED read
    /\ UNCHANGED <<ataVars, volume, fat, probe, find>>

(* ... or from the drive, two sectors at a time.                           *)
NextCall ==
    /\ pc \in {"skip", "next"} /\ ~volume.fat_in_mem /\ io.pc = "idle"
    /\ PartitionRead(reserved_sectors + read.cluster \div SectorEntries, 2)
    /\ UNCHANGED <<count0, drive, faults, fatVars>>

NextRead ==
    /\ pc \in {"skip", "next"} /\ io.pc \in {"ok", "err"}
    /\ io' = IoIdle
    /\ IF io.pc = "ok" THEN Follow(EntriesOf(io.buffer[1])[(read.cluster % SectorEntries) + 1])
       ELSE Return("panic") /\ UNCHANGED read
    /\ UNCHANGED <<count0, drive, faults, volume, fat, probe, find>>

(* read_cluster.                                                           *)
ClusterCall ==
    /\ pc = "cluster" /\ io.pc = "idle"
    /\ PartitionRead(cluster_to_sector(read.cluster), sectors_per_cluster)
    /\ UNCHANGED <<count0, drive, faults, fatVars>>

\* Mutant: every sector is put at the start of the buffer.
ByteOfFirst(sectors, k) == sectors[1] * SectorBytes + (k % SectorBytes)

\* Byte k of the sectors that were read.
ByteOf(sectors, k) == sectors[k \div SectorBytes + 1] * SectorBytes + (k % SectorBytes)

to_copy ==
    LET remaining == read.count - Len(read.bytes)
    IN IF remaining > cluster_size THEN cluster_size - read.offset ELSE remaining

\* Mutant: the offset is used in every cluster.
ClusterReadKeepsOffset ==
    /\ pc = "cluster" /\ io.pc \in {"ok", "err"}
    /\ io' = IoIdle
    /\ IF io.pc = "err" THEN Return("err") /\ UNCHANGED read
       ELSE IF to_copy < 0 \/ read.offset + to_copy > cluster_size
            THEN Return("panic") /\ UNCHANGED read
       ELSE /\ read' = [read EXCEPT !.bytes = @ \o
                          [k \in 1 .. to_copy |-> ByteOf(io.buffer, read.offset + k - 1)]]
            /\ pc' = "next" /\ UNCHANGED result
    /\ UNCHANGED <<count0, drive, faults, volume, fat, probe, find>>

(* The slice panics when it is not inside the cluster; a length that       *)
(* wrapped around is not, either.                                          *)
ClusterRead ==
    /\ pc = "cluster" /\ io.pc \in {"ok", "err"}
    /\ io' = IoIdle
    /\ IF io.pc = "err" THEN Return("err") /\ UNCHANGED read
       ELSE IF to_copy < 0 \/ read.offset + to_copy > cluster_size
            THEN Return("panic") /\ UNCHANGED read
       ELSE /\ read' = [read EXCEPT !.offset = 0, !.bytes = @ \o
                          [k \in 1 .. to_copy |-> ByteOf(io.buffer, read.offset + k - 1)]]
            /\ pc' = "next" /\ UNCHANGED result
    /\ UNCHANGED <<count0, drive, faults, volume, fat, probe, find>>

-----------------------------------------------------------------------------
Probe == ProbeCall \/ ProbeOk \/ ProbePanic \/ ProbeDone
Find  == LookupRead \/ FindOverrun \/ FindEnd \/ FindUnused \/ FindLong
         \/ FindNoText \/ FindEntry
Copy  == NextInMemory \/ NextCall \/ NextRead \/ ClusterCall \/ ClusterRead

Bus == (Driver \/ Drive) /\ UNCHANGED fatVars

Call ==
    \/ \E held \in Directories, name \in Names :
          \/ Lookup(TRUE, root_cluster, held, name)
          \/ \E cluster \in SubDirs : Lookup(FALSE, cluster, held, name)
    \/ \E f \in DOMAIN Entries : \E count, offset \in 0 .. Entries[f].file_size :
          Read(f, count, offset)

Next == Bus \/ Probe \/ Find \/ Copy \/ Call \/ (pc \in {"panic", "unmounted"} /\ UNCHANGED vars)

(* The kernel executes and the drive answers every command.                *)
Fairness == WF_vars(Bus) /\ WF_vars(Probe \/ Find \/ Copy)

Spec == Init /\ [][Next]_vars /\ Fairness

-----------------------------------------------------------------------------
\* The variables keep their types; pc names a call that is under way.
TypeOK ==
    /\ AtaTypeOK
    /\ pc \in {"probe", "idle", "dir", "find", "skip", "cluster", "next", "panic", "unmounted"}
    /\ io.pc # "idle" => pc \notin {"idle", "find"}
    /\ result \in {"none", "ok", "err", "panic"}
    /\ Len(read.bytes) <= read.count
    /\ find.found \in 0 .. ClusterEntries

\* The k-th cluster of a file and the address of byte k of it, as the format has
\* them.
ClusterOf(f, k) ==
    LET c[i \in 0 .. k] == IF i = 0 THEN Entries[f].cluster ELSE DiskFat[c[i - 1]] IN c[k]

\* The chain of a file is as long as the file.
ASSUME ChainAssumption ==
    \A f \in DOMAIN Entries : \A k \in 1 .. ((Entries[f].file_size - 1) \div cluster_size) :
        ClusterOf(f, k) < EOC

FileByte(f, k) ==
    SectorOf(ClusterOf(f, k \div cluster_size)) * SectorBytes + (k % cluster_size)

Reading == read.file # 0 /\ volume.format # 12 /\ ~Wrapped(volume)

\* Whatever the chain of a file, its sectors and the place of its FAT, a read that
\* starts in the first cluster and returns has returned the bytes asked for.
ReadExact ==
    Reading /\ result = "ok" /\ read.asked < cluster_size =>
        read.bytes = [k \in 1 .. read.count |-> FileByte(read.file, read.asked + k - 1)]

\* A read panics only when the drive fails under get_next_cluster, or when it
\* starts behind the first cluster, or when a cluster or less is asked for that
\* does not end in the first cluster.
ReadPanicsOnlyAcrossClusters ==
    Reading /\ result = "panic" =>
        \/ ~volume.fat_in_mem /\ faults > 0
        \/ read.asked >= cluster_size
        \/ read.count <= cluster_size /\ read.asked + read.count > cluster_size

\* A read that fails met a fault of the drive, or followed the chain to the last
\* sector of the partition (which Partition::read does not give out) or beyond.
ErrorsAreReal ==
    Reading /\ result = "err" =>
        \/ faults > 0
        \/ SectorOf(read.cluster) + sectors_per_cluster > end_sector

\* Directory search as the format means it: an entry has the long name stored
\* directly before it, last part first, or else only its short one.
LongBefore(dir, i) ==
    LET from == Max({0} \union {j \in 1 .. (i - 1) : dir[j].kind # "long"}) + 1
    IN Reverse([j \in 1 .. (i - from) |-> dir[from + j - 1].part])

InUse(dir) == {i \in DOMAIN dir : dir[i].kind = "file" /\ \A j \in 1 .. i : dir[j].kind # "end"}

Matches(dir, name) ==
    {i \in InUse(dir) : IF LongBefore(dir, i) # <<>> THEN LongBefore(dir, i) = name
                        ELSE ToUpper[name] = dir[i].short}

\* Entries without a long name behind one that has: long_filename_string is never
\* forgotten, and their short name is not looked at.
Missed(dir) ==
    {i \in InUse(dir) : /\ LongBefore(dir, i) = <<>>
                        /\ \E j \in InUse(dir) : j < i /\ LongBefore(dir, j) # <<>>}

\* Entries with a name that is no text.
NoText(dir) == {i \in InUse(dir) : LongBefore(dir, i) \in NotUtf16 \/ dir[i].short \in NotUtf8}

\* The driver comes to the right sectors: with the right size of the root directory,
\* and to the root directory of FAT12 and FAT16 if that is a number of clusters.
InPlace(root) ==
    IF root /\ volume.format # 32 THEN root_dir_sectors % sectors_per_cluster = 0
    ELSE ~Wrapped(volume)

\* Whatever the directory and wherever it is on the drive, the root of the volume or
\* a directory in it, a search finds the first entry of that name that is not missed.
\* It ends without one only if there is none, or the directory is at the end of the
\* partition; and panics only if it comes to a name that is no text or, having come
\* through the whole cluster, to no end mark.
FindExact ==
    find.name # <<>> /\ faults = 0 /\ InPlace(find.root) =>
        LET seen  == Matches(find.held, find.name) \ Missed(find.held)
            wrong == NoText(find.held)
        IN
        /\ result = "ok" => /\ seen # {} /\ find.found = Min(seen)
                            /\ \A i \in wrong : i > find.found
        /\ result = "err" => \/ seen = {} /\ wrong = {}
                             \/ DirSector(find.root, find.cluster) + sectors_per_cluster > end_sector
        /\ result = "panic" =>
             \/ \E i \in wrong : \A j \in seen : i <= j
             \/ seen = {} /\ \A i \in DOMAIN find.held : find.held[i].kind # "end"

\* A volume that is mounted is taken for what it is.  One is passed over only if it
\* is no system partition, has another name than its format, or calls itself FAT32
\* with too few clusters; and a panic while it is probed has to do with the drive.
\* The exception are FAT12 and FAT16 with 2^16 sectors or more, such as the Makefile
\* makes with ESP_BITS=16: what is taken for the size of their FAT is not; and those
\* with a root directory of nearly 2^16 bytes or more, whose size wraps around.  (With
\* the types of the state.)
MountExact ==
    /\ TypeOK
    /\ pc \in {"idle", "dir", "find", "skip", "cluster", "next"} => fat_type = volume.format
    /\ pc = "unmounted" =>
         \/ ~volume.esp
         \/ volume.system_identifier # FormatName(volume)
         \/ volume.format = 32 /\ ClustersOf(volume) < Fat16Limit
         \/ volume.format # 32 /\ (volume.total_sectors = 0 \/ Wrapped(volume))
    /\ pc = "panic" /\ read = NoRead /\ find = NoFind =>
         \/ faults > 0 \/ ~volume.gpt
         \/ volume.format # 32 /\ (volume.total_sectors = 0 \/ Wrapped(volume))

\* Every call returns or panics: chains end, and every wait for the drive is for
\* something the drive was told to do.
CallsReturn ==
    (volume.format # 12 /\ pc \notin {"idle", "panic", "unmounted"})
        ~> (pc \in {"idle", "panic", "unmounted"})
=============================================================================
