------------------------------ MODULE FatProof ------------------------------
(***************************************************************************)
(* Proofs about Fat: a read of the drive brings the sectors that were      *)
(* asked for, a volume is taken for what it is, and what the search of a   *)
(* directory and the read of a file return.                                *)
(***************************************************************************)
EXTENDS Fat, WellFoundedInduction, TLAPS

-----------------------------------------------------------------------------
(* The inductive invariant.                                                *)

\* A call of the drive: it was asked for at least one sector that is there, the
\* buffer has the first of them and the drive is at the next one.
AtaInv ==
    /\ io \in [pc : {"idle", "reset", "await", "poll", "ok", "err"}, sector : Nat, count : Nat,
               buffer : Seq(Nat)]
    /\ count0 \in 0 .. (CountMod - 1)
    /\ drive \in [state : {"idle", "busy", "data", "error"}, at : Nat, left : 0 .. CountMod]
    /\ faults \in 0 .. Faults
    /\ drive.state # "idle" => drive.left > 0
    /\ io.pc \in {"reset", "await", "poll", "ok"} => io.count > 0 /\ io.sector + io.count <= SectorCount
    /\ io.pc \in {"reset", "await"} => io.buffer = <<>>
    /\ io.pc = "poll" => /\ drive.at = io.sector + Len(io.buffer)
                         /\ drive.state = "error" => faults > 0
    /\ io.pc = "poll" => Len(io.buffer) < io.count
    /\ Len(io.buffer) <= io.count
    /\ io.pc = "ok" => Len(io.buffer) = io.count
    /\ \A k \in 1 .. Len(io.buffer) : io.buffer[k] = io.sector + (k - 1)

Mounted == {"idle", "dir", "find", "skip", "cluster", "next"}

\* What the kernel is waiting for: the first sector, the number of sectors and the
\* end of what may be read.
AskedSector ==
    CASE pc = "probe" /\ probe < 3 -> probe
      [] pc = "probe" /\ probe >= 3 /\ probe < NewReads -> start_sector + (probe - 3)
      [] pc = "probe" /\ probe >= 3 /\ probe >= NewReads ->
            start_sector + reserved_sectors + (probe - NewReads)
      [] pc = "dir" -> start_sector + cluster_to_sector(find.cluster)
      [] pc \in {"skip", "next"} -> start_sector + reserved_sectors + read.cluster \div SectorEntries
      [] OTHER -> start_sector + cluster_to_sector(read.cluster)

AskedCount ==
    CASE pc = "probe" -> (IF probe = 2 THEN TableSectors ELSE 1)
      [] pc \in {"skip", "next"} -> 2
      [] OTHER -> sectors_per_cluster

AskedLimit == IF pc = "probe" /\ probe < 3 THEN SectorCount ELSE end_sector

\* The call of the drive is the one the kernel made, and fails only if the drive
\* does or if it is not for sectors of the partition.
CallInv ==
    /\ pc \in {"idle", "find"} => io.pc = "idle"
    /\ pc \in {"skip", "next"} /\ volume.fat_in_mem => io.pc = "idle"
    /\ pc = "probe" /\ io.pc # "idle" => probe < ProbeReads
    /\ pc \in {"probe"} \union Mounted /\ io.pc \notin {"idle", "err"} =>
          /\ io.sector = AskedSector /\ io.count = AskedCount
          /\ AskedSector + AskedCount <= AskedLimit
    /\ pc \in {"probe"} \union Mounted /\ io.pc = "err" =>
          faults > 0 \/ AskedSector + AskedCount > AskedLimit

\* The part of the FAT that is in memory, m sectors of it.
FatOf(m) == [j \in 1 .. (m * SectorEntries) |-> ReadEntry(j - 1)]

FatRead == IF probe < NewReads THEN 0 ELSE probe - NewReads

\* The volumes of which FatFs::new gets the size of the FAT or of the root directory
\* wrong, why a volume is passed over, and why the probing of one panics.
Misread == volume.format # 32 /\ (volume.total_sectors = 0 \/ Wrapped(volume))

PassedOver ==
    \/ ~volume.esp
    \/ volume.system_identifier # FormatName(volume)
    \/ volume.format = 32 /\ ClustersOf(volume) < Fat16Limit
    \/ Misread

ProbeFails == faults > 0 \/ ~volume.gpt \/ Misread

\* Mounting: how far the reads have come, what has been read of the FAT, and that
\* the volume was recognised.
MountInv ==
    /\ volume \in Volumes
    /\ pc \in {"probe", "panic", "unmounted"} \union Mounted
    /\ result \in {"none", "ok", "err", "panic"}
    /\ probe \in 0 .. ProbeReads
    /\ pc = "probe" => find = NoFind /\ read = NoRead /\ result = "none"
    /\ \E m \in Nat : m = FatRead /\ fat = FatOf(m)
    /\ pc \in Mounted \/ (pc = "probe" /\ probe > 3) => fat_type = volume.format
    /\ pc \in Mounted => probe = ProbeReads /\ result # "panic"
    /\ pc = "unmounted" => PassedOver
    /\ pc \in {"probe", "unmounted"} => result = "none"
    /\ pc = "unmounted" => find = NoFind /\ read = NoRead
    /\ pc = "panic" /\ read = NoRead /\ find = NoFind => ProbeFails

\* How many bytes a read has after n clusters, if it starts in the first one, and
\* that they are bytes of the file.
SizeAfter(n, asked, count) ==
    IF n = 0 THEN 0 ELSE IF count <= n * cluster_size - asked THEN count ELSE n * cluster_size - asked

FromFile(bytes, f, at) == \A k \in 1 .. Len(bytes) : bytes[k] = FileByte(f, at + (k - 1))

HasRead(n, f, asked, count, bytes) ==
    Len(bytes) = SizeAfter(n, asked, count) /\ FromFile(bytes, f, asked)

\* Where the copy from cluster n starts, and how many bytes it takes.
OffsetIn(n, asked) == IF n = 0 THEN asked ELSE 0
CopyOf(count, size, offset) == IF count - size > cluster_size THEN cluster_size - offset ELSE count - size

\* How far a read r is: before its n-th cluster, behind it, and at the end.
AtCluster(r) ==
    \E n \in Nat : /\ r.cluster = ClusterOf(r.file, n) /\ r.offset = OffsetIn(n, r.asked)
                   /\ HasRead(n, r.file, r.asked, r.count, r.bytes)

AtNext(r) ==
    \E n \in Nat : /\ r.cluster = ClusterOf(r.file, n) /\ r.offset = 0
                   /\ HasRead(n + 1, r.file, r.asked, r.count, r.bytes)

Complete(r) == Len(r.bytes) = r.count /\ FromFile(r.bytes, r.file, r.asked)

\* A read that starts in the first cluster, and why one panics.
Plain(r) == volume.format # 12 /\ ~Wrapped(volume) /\ r.asked < cluster_size

ReadFails(r) ==
    \/ ~volume.fat_in_mem /\ faults > 0
    \/ r.asked >= cluster_size
    \/ r.count <= cluster_size /\ r.asked + r.count > cluster_size

Reads ==
    [file : Nat, asked : Nat, count : Nat, offset : Nat, skip : Nat, cluster : Nat, bytes : Seq(Nat)]

ReadOf(r) ==
    /\ Len(r.bytes) <= r.count
    /\ pc \in {"probe", "dir", "find"} => r = NoRead
    /\ pc \in {"skip", "cluster", "next"} =>
          /\ r.file \in DOMAIN Entries /\ result = "none"
          /\ r.count + r.asked <= Entries[r.file].file_size
    /\ pc = "skip" => r.skip > 0 /\ r.asked >= cluster_size
    /\ pc = "next" /\ ~Wrapped(volume) => SectorOf(r.cluster) + sectors_per_cluster <= end_sector
    /\ pc = "cluster" /\ Plain(r) => AtCluster(r)
    /\ pc = "next" /\ Plain(r) => AtNext(r)
    /\ r.file # 0 /\ Plain(r) /\ result = "ok" => Complete(r)
    /\ r.file # 0 /\ ~Wrapped(volume) /\ result = "err" =>
          faults > 0 \/ SectorOf(r.cluster) + sectors_per_cluster > end_sector
    /\ r.file # 0 /\ volume.format # 12 /\ ~Wrapped(volume) /\ result = "panic" => ReadFails(r)

ReadInv ==
    /\ read \in Reads
    /\ \E r \in {read} : ReadOf(r)

\* The entries [from, i) are the parts of a long name, or there are none; and
\* their parts.
LongRun(dir, i, from) ==
    /\ from \in 1 .. i
    /\ \A j \in from .. (i - 1) : dir[j].kind = "long"
    /\ from = 1 \/ dir[from - 1].kind # "long"

PartsOf(dir, i, from) == [j \in 1 .. (i - from) |-> dir[from + j - 1].part]

\* A search r has come to entry r.i: what it has gathered of a long name, what the
\* last long name was, and that the entries before are not the one it looks for.
Gathered(r) == \E from \in 1 .. r.i : LongRun(r.dir, r.i, from) /\ r.long = PartsOf(r.dir, r.i, from)

Forgotten(r) == r.string = <<>> <=> \A j \in InUse(r.dir) : j < r.i => LongBefore(r.dir, j) = <<>>

NotBefore(r) ==
    /\ \A j \in 1 .. (r.i - 1) : r.dir[j].kind # "end"
    /\ \A j \in Matches(r.dir, r.name) : j < r.i => j \in Missed(r.dir)
    /\ \A j \in NoText(r.dir) : ~(j < r.i)

Searching(r) ==
    /\ r.i \in 1 .. (ClusterEntries + 1)
    /\ Gathered(r) /\ Forgotten(r) /\ NotBefore(r)
    /\ r.string # r.name

\* What a search has found, and why it ended without.
Found(r) ==
    /\ Matches(r.held, r.name) \ Missed(r.held) # {}
    /\ r.found = Min(Matches(r.held, r.name) \ Missed(r.held))
    /\ \A i \in NoText(r.held) : i > r.found
NotFound(r) == Matches(r.held, r.name) \ Missed(r.held) = {} /\ NoText(r.held) = {}
AtEnd(r)    == DirSector(r.root, r.cluster) + sectors_per_cluster > end_sector
Stuck(r) ==
    \/ \E i \in NoText(r.held) : \A j \in Matches(r.held, r.name) \ Missed(r.held) : i <= j
    \/ /\ Matches(r.held, r.name) \ Missed(r.held) = {}
       /\ \A i \in DOMAIN r.held : r.held[i].kind # "end"

\* A record of a search, a search for a name in a directory, and one that looks at
\* what the directory holds.
IsFind(r) ==
    /\ r = [root |-> r.root, cluster |-> r.cluster, held |-> r.held, dir |-> r.dir, name |-> r.name,
            i |-> r.i, long |-> r.long, string |-> r.string, found |-> r.found]
    /\ r.found \in 0 .. ClusterEntries

ForName(r) == r.held \in Directories /\ r.name \in Names

InDir(r) == ForName(r) /\ r.dir = r.held

\* The sectors that are read for a search, and that they are the directory's.
Located(r) ==
    /\ start_sector + cluster_to_sector(r.cluster) \in Nat
    /\ InPlace(r.root) => DirSector(r.root, r.cluster) = start_sector + cluster_to_sector(r.cluster)

FindOf(r) ==
    /\ IsFind(r)
    /\ r = NoFind \/ ForName(r)
    /\ pc \in {"dir", "find"} => ForName(r) /\ result = "none"
    /\ pc \in {"probe", "skip", "cluster", "next"} => r = NoFind
    /\ pc = "dir" => Located(r) /\ r.i = 1 /\ r.long = <<>> /\ r.string = <<>>
    /\ pc = "find" => r.i \in 1 .. (ClusterEntries + 1) /\ (InPlace(r.root) => InDir(r) /\ Searching(r))
    /\ faults = 0 /\ r # NoFind /\ InPlace(r.root) =>
          /\ result = "ok" => Found(r)
          /\ result = "err" => NotFound(r) \/ AtEnd(r)
          /\ result = "panic" => Stuck(r)

FindInv == \E r \in {find} : FindOf(r)

Inv ==
    /\ AtaInv /\ CallInv /\ MountInv /\ ReadInv /\ FindInv

-----------------------------------------------------------------------------
(* Division, and what the assumptions say of the numbers.                  *)

\* What the quotient and the remainder are.
LEMMA DivMod ==
    ASSUME NEW v \in Nat, NEW d \in Nat, d > 0
    PROVE  /\ v \div d \in Nat /\ v % d \in 0 .. (d - 1)
           /\ v = (v \div d) * d + (v % d)
<1> DEFINE q == v \div d
           r == v % d
<1>1. q \in Nat /\ r \in 0 .. (d - 1) /\ v = d * q + r
  OBVIOUS
<1> HIDE DEF q, r
<1>2. d * q = q * d
  BY <1>1
<1>3. v = q * d + r
  BY <1>1, <1>2
<1> QED
  BY <1>1, <1>3 DEF q, r

\* A product of numbers, one of them not zero.
LEMMA TimesAtLeast ==
    ASSUME NEW a \in Nat, NEW b \in Nat, NEW d \in Nat, a <= b
    PROVE  a * d <= b * d /\ a * d \in Nat /\ b * d \in Nat
<1>1. (b - a) * d \in Nat /\ a * d \in Nat /\ b * d \in Nat
  OBVIOUS
<1>2. b * d = a * d + (b - a) * d
  OBVIOUS
<1> QED
  BY <1>1, <1>2

\* The quotient grows with the number.
LEMMA DivGrows ==
    ASSUME NEW v \in Nat, NEW w \in Nat, NEW d \in Nat, d > 0, v <= w
    PROVE  v \div d <= w \div d
<1> DEFINE p == v \div d
           q == w \div d
           r == v % d
           s == w % d
<1>1. p \in Nat /\ r \in 0 .. (d - 1) /\ v = p * d + r
  BY DivMod
<1>2. q \in Nat /\ s \in 0 .. (d - 1) /\ w = q * d + s
  BY DivMod
<1> HIDE DEF p, q, r, s
<1>3. ASSUME q < p PROVE FALSE
  <2>1. (q + 1) * d <= p * d /\ p * d \in Nat /\ q * d \in Nat
    BY <1>1, <1>2, <1>3, TimesAtLeast
  <2>2. (q + 1) * d = q * d + d
    BY <1>2
  <2> QED
    BY <1>1, <1>2, <2>1, <2>2
<1>4. p <= q
  BY <1>1, <1>2, <1>3
<1> QED
  BY <1>4 DEF p, q

\* A number is taken apart in one way only.
LEMMA DivUnique ==
    ASSUME NEW n \in Nat, NEW d \in Nat, d > 0, NEW r \in 0 .. (d - 1)
    PROVE  (n * d + r) \div d = n /\ (n * d + r) % d = r
<1> DEFINE v == n * d + r
           q == v \div d
           s == v % d
<1>1. n * d \in Nat /\ v \in Nat
  OBVIOUS
<1>2. q \in Nat /\ s \in 0 .. (d - 1) /\ v = q * d + s
  BY <1>1, DivMod
<1> HIDE DEF q, s
<1>3. ASSUME q < n PROVE FALSE
  <2>1. (q + 1) * d <= n * d /\ q * d \in Nat
    BY <1>2, <1>3, TimesAtLeast
  <2>2. (q + 1) * d = q * d + d
    BY <1>2
  <2> QED
    BY <1>1, <1>2, <2>1, <2>2
<1>4. ASSUME n < q PROVE FALSE
  <2>1. (n + 1) * d <= q * d /\ q * d \in Nat
    BY <1>2, <1>4, TimesAtLeast
  <2>2. (n + 1) * d = n * d + d
    OBVIOUS
  <2> QED
    BY <1>1, <1>2, <2>1, <2>2
<1>5. q = n
  BY <1>2, <1>3, <1>4
<1>6. q * d = n * d
  BY <1>5
<1>7. s = r
  BY <1>1, <1>2, <1>6
<1> QED
  BY <1>5, <1>7 DEF q, s

\* The numbers of the layout.
LEMMA Numbers ==
    /\ Fat12Limit \in Nat /\ Fat16Limit \in Nat /\ U16 \in Nat /\ U32 \in Nat
    /\ start_sector \in Nat /\ end_sector \in Nat /\ reserved_sectors \in Nat /\ fat_count \in Nat
    /\ sectors_per_fat \in Nat /\ EntryBytes \in Nat /\ SectorSlots \in Nat \ {0}
    /\ TableSectors \in Nat \ {0} /\ sectors_per_cluster \in Nat \ {0} /\ SectorBytes \in Nat \ {0}
    /\ SectorEntries \in Nat \ {0} /\ ClusterEntries \in Nat \ {0}
    /\ fat_count * sectors_per_fat \in Nat
    /\ sectors_per_fat * SectorEntries \in Nat
    /\ cluster_size \in Nat \ {0}
<1>1. /\ Fat12Limit \in Nat /\ Fat16Limit \in Nat /\ U16 \in Nat /\ U32 \in Nat
      /\ start_sector \in Nat /\ end_sector \in Nat /\ reserved_sectors \in Nat /\ fat_count \in Nat
      /\ sectors_per_fat \in Nat
  BY LayoutAssumption
<1>2. /\ TableSectors \in Nat \ {0} /\ sectors_per_cluster \in Nat \ {0} /\ SectorBytes \in Nat \ {0}
      /\ SectorEntries \in Nat \ {0} /\ EntryBytes \in Nat /\ SectorSlots \in Nat \ {0}
  BY LayoutAssumption
<1>3. fat_count * sectors_per_fat \in Nat /\ sectors_per_fat * SectorEntries \in Nat
  BY <1>1, <1>2
<1>4. sectors_per_cluster * SectorBytes \in Nat \ {0}
  BY <1>2
<1>5. sectors_per_cluster * SectorSlots \in Nat \ {0}
  BY <1>2
<1> QED
  BY <1>1, <1>2, <1>3, <1>4, <1>5 DEF cluster_size, ClusterEntries

\* A number below d is its own remainder.
LEMMA ModSmall ==
    ASSUME NEW d \in Nat, NEW r \in Nat, r < d
    PROVE  r % d = r /\ r \div d = 0
<1>1. r \in 0 .. (d - 1) /\ d > 0 /\ 0 * d + r = r
  OBVIOUS
<1>2. (0 * d + r) \div d = 0 /\ (0 * d + r) % d = r
  BY <1>1, DivUnique, 0 \in Nat
<1> QED
  BY <1>1, <1>2

-----------------------------------------------------------------------------
(* The driver and the drive.                                               *)

\* The registers of a command for sectors that are there.
LEMMA TaskFileOf ==
    ASSUME NEW sector \in Nat, NEW count \in Nat, count > 0, sector + count <= SectorCount
    PROVE  /\ TaskFile(sector, count).at = sector
           /\ TaskFile(sector, count).count \in 0 .. (CountMod - 1)
           /\ TaskFile(sector, count).zero = CountMod
<1>1. CountMod \in Nat /\ CountMod > 0 /\ Lba28Mod \in Nat /\ SectorCount \in Nat /\ SectorCount < Lba28Mod
  BY AtaAssumption
<1>2. sector < Lba28Mod - 1 /\ sector < Lba28Mod
  BY <1>1
<1>3. sector % Lba28Mod = sector
  BY <1>1, <1>2, ModSmall
<1>4. count % CountMod \in 0 .. (CountMod - 1)
  BY <1>1, DivMod
<1> QED
  BY <1>1, <1>2, <1>3, <1>4 DEF TaskFile

\* One more of a sequence of consecutive numbers.
LEMMA AppendNext ==
    ASSUME NEW b \in Seq(Nat), NEW s \in Nat, NEW c, NEW x \in Nat, x = s + Len(b), c = Append(b, x),
           \A k \in 1 .. Len(b) : b[k] = s + (k - 1)
    PROVE  c \in Seq(Nat) /\ Len(c) = Len(b) + 1 /\ \A k \in 1 .. Len(c) : c[k] = s + (k - 1)
<1>1. Len(b) \in Nat /\ Len(c) = Len(b) + 1 /\ c \in Seq(Nat)
  OBVIOUS
<1>2. ASSUME NEW k \in 1 .. Len(b) PROVE c[k] = b[k]
  OBVIOUS
<1>3. c[Len(b) + 1] = x
  OBVIOUS
<1>4. c[Len(b) + 1] = s + ((Len(b) + 1) - 1)
  BY <1>1, <1>3
<1>5. \A k \in 1 .. Len(c) : k \in 1 .. Len(b) \/ k = Len(b) + 1
  BY <1>1
<1>6. \A k \in 1 .. Len(c) : c[k] = s + (k - 1)
  BY <1>2, <1>4, <1>5
<1> QED
  BY <1>1, <1>6

\* The driver takes a sector: the next of those it asked for.
LEMMA TakeSectorInv ==
    ASSUME AtaInv, TakeSector
    PROVE  AtaInv'
<1> DEFINE b == io.buffer
           c == Append(b, drive.at)
<1>1. drive.at = io.sector + Len(b) /\ Len(b) \in Nat /\ io.sector \in Nat
  BY DEF AtaInv, TakeSector
<1>2. b \in Seq(Nat) /\ drive.at \in Nat /\ io.count \in Nat /\ Len(b) < io.count
  BY DEF AtaInv, TakeSector
<1>3. \A k \in 1 .. Len(b) : b[k] = io.sector + (k - 1)
  BY DEF AtaInv
<1>4. c \in Seq(Nat) /\ Len(c) = Len(b) + 1 /\ \A k \in 1 .. Len(c) : c[k] = io.sector + (k - 1)
  BY <1>1, <1>2, <1>3, AppendNext
<1> HIDE DEF b, c
<1>5. /\ io'.buffer = c /\ io'.sector = io.sector /\ io'.count = io.count
      /\ io'.pc = IF Len(b) + 1 = io.count THEN "ok" ELSE "poll"
  BY DEF TakeSector, AtaInv, b, c
<1>6. io' \in [pc : {"idle", "reset", "await", "poll", "ok", "err"}, sector : Nat, count : Nat,
               buffer : Seq(Nat)]
  BY <1>4 DEF TakeSector, AtaInv, b, c
<1>7. drive.left \in 0 .. CountMod /\ drive.left > 0 /\ CountMod \in Nat
  BY AtaAssumption DEF AtaInv, TakeSector
<1>8. /\ drive'.at = drive.at + 1 /\ drive'.left = drive.left - 1
      /\ drive'.state = (IF drive.left = 1 THEN "idle" ELSE "busy")
      /\ drive' \in [state : {"idle", "busy", "data", "error"}, at : Nat, left : 0 .. CountMod]
  BY <1>2, <1>7 DEF TakeSector
<1>9. drive'.state # "idle" => drive'.left > 0
  BY <1>7, <1>8
<1>10. count0' \in 0 .. (CountMod - 1) /\ faults' \in 0 .. Faults
  BY DEF TakeSector, AtaInv
<1>11. io.count > 0 /\ io.sector + io.count <= SectorCount
  BY DEF TakeSector, AtaInv
<1>12. drive'.at = io'.sector + Len(io'.buffer) /\ drive'.state # "error"
  <2>1. drive'.state # "error"
    BY <1>8
  <2>2. Len(io'.buffer) = Len(b) + 1
    BY <1>4, <1>5
  <2>3. drive'.at = drive.at + 1 /\ io'.sector = io.sector
    BY <1>5, <1>8
  <2>4. drive.at + 1 = io.sector + (Len(b) + 1)
    BY <1>1
  <2> QED
    BY <2>1, <2>2, <2>3, <2>4
<1>13. /\ io'.pc = "poll" => Len(io'.buffer) < io'.count
       /\ Len(io'.buffer) <= io'.count
       /\ io'.pc = "ok" => Len(io'.buffer) = io'.count
       /\ io'.pc \in {"ok", "poll"}
  BY <1>1, <1>2, <1>4, <1>5
<1>14. \A k \in 1 .. Len(io'.buffer) : io'.buffer[k] = io'.sector + (k - 1)
  BY <1>4, <1>5
<1> QED
  BY <1>5, <1>6, <1>8, <1>9, <1>10, <1>11, <1>12, <1>13, <1>14 DEF AtaInv

\* Every other step of the driver and of the drive.
LEMMA OtherAtaSteps ==
    ASSUME AtaInv, SoftwareReset \/ SendCommand \/ TakeError \/ DriveReady \/ DriveError
    PROVE  AtaInv'
<1> USE AtaAssumption
<1>1. CASE SoftwareReset
  BY <1>1 DEF SoftwareReset, AtaInv
<1>2. CASE SendCommand
  <2> DEFINE tf == TaskFile(io.sector, io.count)
  <2>1. io.sector \in Nat /\ io.count \in Nat /\ io.count > 0 /\ io.sector + io.count <= SectorCount
        /\ io.buffer = <<>>
    BY <1>2 DEF SendCommand, AtaInv
  <2>2. tf.at = io.sector /\ tf.count \in 0 .. (CountMod - 1) /\ tf.zero = CountMod
    BY <2>1, TaskFileOf
  <2> HIDE DEF tf
  <2>3. count0' = tf.count
        /\ drive' = [state |-> "busy", at |-> tf.at, left |-> IF tf.count = 0 THEN tf.zero ELSE tf.count]
        /\ io' = [io EXCEPT !.pc = "poll"] /\ faults' = faults
    BY <1>2, <2>1 DEF SendCommand, tf
  <2>4. drive' \in [state : {"idle", "busy", "data", "error"}, at : Nat, left : 0 .. CountMod]
        /\ drive'.left > 0 /\ drive'.at = io.sector /\ drive'.state = "busy"
    BY <2>1, <2>2, <2>3
  <2>5. /\ io' \in [pc : {"idle", "reset", "await", "poll", "ok", "err"}, sector : Nat, count : Nat,
                    buffer : Seq(Nat)]
        /\ io'.pc = "poll" /\ io'.buffer = <<>> /\ io'.sector = io.sector /\ io'.count = io.count
    BY <2>1, <2>3 DEF AtaInv
  <2>6. Len(io'.buffer) = 0
    BY <2>5
  <2>7. count0' \in 0 .. (CountMod - 1) /\ faults' \in 0 .. Faults
    BY <2>2, <2>3 DEF AtaInv
  <2>8. \A k \in 1 .. Len(io'.buffer) : io'.buffer[k] = io'.sector + (k - 1)
    BY <2>6
  <2> QED
    BY <2>1, <2>4, <2>5, <2>6, <2>7, <2>8 DEF AtaInv
<1>3. CASE TakeError
  BY <1>3 DEF TakeError, AtaInv
<1>4. CASE DriveReady
  <2>1. drive' \in [state : {"idle", "busy", "data", "error"}, at : Nat, left : 0 .. CountMod]
        /\ drive'.left = drive.left /\ drive'.at = drive.at /\ drive'.state = "data" /\ drive.left > 0
    BY <1>4 DEF DriveReady, AtaInv
  <2> QED
    BY <1>4, <2>1 DEF DriveReady, AtaInv
<1>5. CASE DriveError
  <2>1. drive' \in [state : {"idle", "busy", "data", "error"}, at : Nat, left : 0 .. CountMod]
        /\ drive'.left = drive.left /\ drive'.at = drive.at /\ drive'.state = "error" /\ drive.left > 0
    BY <1>5 DEF DriveError, AtaInv
  <2>2. faults' \in 0 .. Faults
    BY <1>5 DEF DriveError, AtaInv
  <2>3. io.pc = "poll" => faults' > 0
    BY <1>5 DEF DriveError, AtaInv
  <2> QED
    BY <1>5, <2>1, <2>2, <2>3 DEF DriveError, AtaInv
<1> QED
  BY <1>1, <1>2, <1>3, <1>4, <1>5

\* A step of the driver or of the drive goes on with the call, and ends it with an
\* error only after a fault.
LEMMA BusStep ==
    ASSUME AtaInv, Driver \/ Drive
    PROVE  /\ AtaInv'
           /\ io'.sector = io.sector /\ io'.count = io.count /\ faults' >= faults
           /\ io.pc \in {"idle", "ok", "err"} => io' = io
           /\ io.pc \notin {"idle", "ok", "err"} => io'.pc # "idle" /\ (io'.pc = "err" => faults' > 0)
<1>1. AtaInv'
  BY TakeSectorInv, OtherAtaSteps DEF Driver, Drive
<1>2. io'.sector = io.sector /\ io'.count = io.count
  BY DEF AtaInv, Driver, Drive, SoftwareReset, SendCommand, TakeSector, TakeError, DriveReady, DriveError
<1>3. faults' >= faults
  BY AtaAssumption
     DEF AtaInv, Driver, Drive, SoftwareReset, SendCommand, TakeSector, TakeError, DriveReady, DriveError
<1>4. io.pc \in {"idle", "ok", "err"} => io' = io
  BY DEF AtaInv, Driver, Drive, SoftwareReset, SendCommand, TakeSector, TakeError, DriveReady, DriveError
<1>5. io.pc \notin {"idle", "ok", "err"} => io'.pc # "idle" /\ (io'.pc = "err" => faults' > 0)
  <2>1. CASE SoftwareReset \/ SendCommand \/ TakeSector
    BY <2>1 DEF AtaInv, SoftwareReset, SendCommand, TakeSector
  <2>2. CASE TakeError
    BY <2>2 DEF AtaInv, TakeError
  <2>3. CASE DriveReady \/ DriveError
    BY <2>3 DEF AtaInv, DriveReady, DriveError
  <2> QED
    BY <2>1, <2>2, <2>3 DEF Driver, Drive
<1> QED
  BY <1>1, <1>2, <1>3, <1>4, <1>5

\* A call of the drive that is not waiting for another one ...
LEMMA DeviceCall ==
    ASSUME AtaInv, NEW sector \in Nat, NEW count \in Nat, count > 0,
           DeviceRead(sector, count), UNCHANGED <<count0, drive, faults>>
    PROVE  /\ AtaInv' /\ io'.pc \in {"reset", "err"}
           /\ io'.pc = "reset" => io'.sector = sector /\ io'.count = count /\ sector + count <= SectorCount
           /\ io'.pc = "err" => sector + count > SectorCount
<1> SectorCount \in Nat
  BY AtaAssumption
<1>1. /\ io' \in [pc : {"idle", "reset", "await", "poll", "ok", "err"}, sector : Nat, count : Nat,
                  buffer : Seq(Nat)]
      /\ io'.pc \in {"reset", "err"}
      /\ io'.sector = sector /\ io'.count = count /\ io'.buffer = <<>>
      /\ io'.pc = "reset" => sector + count <= SectorCount
      /\ io'.pc = "err" => sector + count > SectorCount
  BY DEF DeviceRead
<1>2. Len(io'.buffer) = 0 /\ 1 .. Len(io'.buffer) = {}
  BY <1>1
<1> QED
  BY <1>1, <1>2 DEF AtaInv

\* ... and one for sectors of the partition.
LEMMA PartitionCall ==
    ASSUME AtaInv, NEW sector \in Int, start_sector + sector \in Nat, NEW count \in Nat, count > 0,
           PartitionRead(sector, count), UNCHANGED <<count0, drive, faults>>
    PROVE  /\ AtaInv' /\ io'.pc \in {"reset", "err"}
           /\ io'.pc = "reset" => /\ io'.sector = start_sector + sector /\ io'.count = count
                                  /\ start_sector + sector + count <= end_sector
           /\ io'.pc = "err" => start_sector + sector + count > end_sector
<1>1. start_sector \in Nat /\ end_sector \in Nat /\ end_sector <= SectorCount /\ SectorCount \in Nat
  BY Numbers, LayoutAssumption, AtaAssumption
<1>2. CASE start_sector + sector + count > end_sector
  <2>1. io' = [pc |-> "err", sector |-> 0, count |-> 0, buffer |-> <<>>]
    BY <1>2 DEF PartitionRead, IoIdle
  <2>2. /\ io' \in [pc : {"idle", "reset", "await", "poll", "ok", "err"}, sector : Nat, count : Nat,
                    buffer : Seq(Nat)]
        /\ io'.pc = "err" /\ io'.count = 0 /\ io'.buffer = <<>>
    BY <2>1
  <2>3. Len(io'.buffer) = 0 /\ 1 .. Len(io'.buffer) = {}
    BY <2>2
  <2> QED
    BY <1>2, <2>2, <2>3 DEF AtaInv
<1>3. CASE start_sector + sector + count <= end_sector
  <2>1. DeviceRead(start_sector + sector, count)
    BY <1>1, <1>3 DEF PartitionRead
  <2>2. (start_sector + sector) + count <= SectorCount
    BY <1>1, <1>3
  <2> QED
    BY <1>1, <1>3, <2>1, <2>2, DeviceCall
<1> QED
  BY <1>1, <1>2, <1>3

\* A call that has ended.
LEMMA CallEnd ==
    ASSUME AtaInv, io' = IoIdle, UNCHANGED <<count0, drive, faults>>
    PROVE  AtaInv'
<1>1. /\ io' \in [pc : {"idle", "reset", "await", "poll", "ok", "err"}, sector : Nat, count : Nat,
                  buffer : Seq(Nat)]
      /\ io'.pc = "idle" /\ io'.count = 0 /\ io'.buffer = <<>>
  BY DEF IoIdle
<1>2. Len(io'.buffer) = 0 /\ 1 .. Len(io'.buffer) = {}
  BY <1>1
<1> QED
  BY <1>1, <1>2 DEF AtaInv

-----------------------------------------------------------------------------
(* The volume.                                                             *)

\* What follows from the volume does not change while the volume does not.
LEMMA SameVolume ==
    ASSUME volume' = volume
    PROVE  /\ fat_type' = fat_type /\ NewReads' = NewReads /\ ProbeReads' = ProbeReads
           /\ first_data_sector' = first_data_sector /\ Wrapped(volume)' = Wrapped(volume)
           /\ \A root : InPlace(root)' = InPlace(root)
           /\ \A root, c : DirSector(root, c)' = DirSector(root, c)
           /\ \A c : cluster_to_sector(c)' = cluster_to_sector(c) /\ SectorOf(c)' = SectorOf(c)
           /\ \A k : ReadEntry(k)' = ReadEntry(k)
           /\ \A f, k : FileByte(f, k)' = FileByte(f, k)
<1>1. first_data_sector' = first_data_sector /\ root_dir_sectors' = root_dir_sectors
      /\ FirstDataSectorOf(volume)' = FirstDataSectorOf(volume) /\ Wrapped(volume)' = Wrapped(volume)
  BY DEF first_data_sector, FirstDataSectorOf, root_dir_sectors, RootDirSectorsOf, RootDirBytes, Wrapped
<1>2. fat_type' = fat_type
  BY <1>1 DEF fat_type, total_clusters, total_sectors, SectorsOf, before_data, fat_size
<1>3. NewReads' = NewReads /\ ProbeReads' = ProbeReads
  BY <1>2 DEF NewReads, ProbeReads
<1>4. \A c : cluster_to_sector(c)' = cluster_to_sector(c) /\ SectorOf(c)' = SectorOf(c)
  BY <1>1 DEF cluster_to_sector, SectorOf
<1>5. (\A root : InPlace(root)' = InPlace(root)) /\ \A root, c : DirSector(root, c)' = DirSector(root, c)
  BY <1>1, <1>4 DEF InPlace, DirSector
<1>6. \A k : ReadEntry(k)' = ReadEntry(k)
  BY <1>2 DEF ReadEntry
<1>7. \A f, k : FileByte(f, k)' = FileByte(f, k)
  BY <1>1 DEF FileByte, SectorOf
<1> QED
  BY <1>1, <1>2, <1>3, <1>4, <1>5, <1>6, <1>7

\* The numbers of a volume.
LEMMA VolumeNumbers ==
    ASSUME volume \in Volumes
    PROVE  /\ volume.format \in {12, 16, 32} /\ fat_type \in {12, 16, 32}
           /\ first_data_sector \in Nat /\ first_data_sector >= 2 * sectors_per_cluster
           /\ root_dir_sectors \in Nat
           /\ first_data_sector = reserved_sectors + fat_count * sectors_per_fat + root_dir_sectors
           /\ ~Wrapped(volume) => FirstDataSectorOf(volume) = first_data_sector
           /\ FirstDataSectorOf(volume) \in Nat
           /\ total_sectors \in 0 .. (U32 - 1) /\ fat_size \in Nat
           /\ NewReads \in {4, 5} /\ ProbeReads \in Nat
<1>1. volume.format \in {12, 16, 32} /\ fat_type \in {12, 16, 32}
  BY VolumeAssumption DEF fat_type
<1> DEFINE b == RootDirBytes(volume)
<1>2. /\ root_dir_sectors \in Nat /\ RootDirSectorsOf(volume) \in Nat
      /\ ~Wrapped(volume) => root_dir_sectors = RootDirSectorsOf(volume)
  <2>1. volume.root_directory_count \in Nat /\ U16 \in Nat
    BY VolumeAssumption, Numbers
  <2>2. b \in Nat
    BY <2>1, Numbers DEF RootDirBytes
  <2>3. U16 > 0
    BY Numbers, LayoutAssumption
  <2>4. b % U16 \in Nat /\ (b < U16 => b % U16 = b)
    BY <2>1, <2>2, <2>3, DivMod, ModSmall
  <2> HIDE DEF b
  <2>5. \A x \in Nat : x \div SectorBytes \in Nat
    BY Numbers, DivMod
  <2>6. ~(b >= U16) => b < U16
    BY <2>1, <2>2
  <2> QED
    BY <2>2, <2>4, <2>5, <2>6 DEF root_dir_sectors, RootDirSectorsOf, Wrapped, b
<1>3. /\ first_data_sector = reserved_sectors + fat_count * sectors_per_fat + root_dir_sectors
      /\ ~Wrapped(volume) => FirstDataSectorOf(volume) = first_data_sector
      /\ FirstDataSectorOf(volume) \in Nat
  BY <1>2, Numbers DEF first_data_sector, FirstDataSectorOf
<1>4. fat_count * sectors_per_fat + reserved_sectors >= 2 * sectors_per_cluster
  BY LayoutAssumption
<1>5. first_data_sector \in Nat /\ first_data_sector >= 2 * sectors_per_cluster
  BY <1>2, <1>3, <1>4, Numbers
<1>6. {volume.total_sectors, volume.large_sector_count, volume.sectors_per_fat_ext} \subseteq 0 .. (U32 - 1)
  BY VolumeAssumption
<1>7. total_sectors \in 0 .. (U32 - 1) /\ fat_size \in Nat
  BY <1>6, Numbers DEF total_sectors, SectorsOf, fat_size
<1>8. NewReads \in {4, 5} /\ ProbeReads \in Nat
  BY Numbers DEF NewReads, ProbeReads
<1> QED
  BY <1>1, <1>2, <1>3, <1>5, <1>7, <1>8

\* FAT32 has no root directory of a fixed size, and nothing wraps around.
LEMMA SmallRoot ==
    ASSUME volume \in Volumes, volume.format = 32 \/ ~Wrapped(volume)
    PROVE  ~Wrapped(volume)
<1>1. CASE volume.format = 32
  <2>1. volume.root_directory_count = 0
    BY <1>1, VolumeAssumption
  <2>2. RootDirBytes(volume) = SectorBytes - 1
    BY <2>1, Numbers DEF RootDirBytes
  <2> QED
    BY <2>2, Numbers, LayoutAssumption DEF Wrapped
<1> QED
  BY <1>1

\* Where the size of the FAT is where FatFs::new looks for it, the number of
\* clusters is the right one or, on a small FAT32, too large.
LEMMA Recognises ==
    ASSUME volume \in Volumes, volume.format = 32 \/ (volume.total_sectors # 0 /\ ~Wrapped(volume))
    PROVE  /\ ~Overflows
           /\ volume.format # 32 => fat_type = volume.format
           /\ volume.format = 32 /\ ClustersOf(volume) >= Fat16Limit => fat_type = 32
           /\ ClustersOf(volume) \in Nat
<1> DEFINE d == total_sectors - before_data
           e == total_sectors - first_data_sector
<1>1. /\ volume.format \in {12, 16, 32} /\ first_data_sector \in Nat /\ total_sectors \in 0 .. (U32 - 1)
      /\ fat_size \in Nat /\ ~Wrapped(volume) /\ first_data_sector = FirstDataSectorOf(volume)
  <2>1. ~Wrapped(volume)
    BY SmallRoot
  <2> QED
    BY <2>1, VolumeNumbers
<1>2. first_data_sector <= total_sectors
  BY <1>1, VolumeAssumption DEF total_sectors
<1>3. root_dir_sectors \in Nat
      /\ first_data_sector = reserved_sectors + fat_count * sectors_per_fat + root_dir_sectors
  BY VolumeNumbers
<1>4. volume.format # 32 => before_data = first_data_sector
  BY <1>3 DEF before_data, fat_size
<1>5. volume.format = 32 => before_data \in Nat /\ before_data <= first_data_sector
  <2>1. CASE volume.format = 32 /\ volume.total_sectors = 0
    <3>1. fat_size = sectors_per_fat
      BY <2>1, VolumeAssumption DEF fat_size
    <3> QED
      BY <1>1, <1>3, <3>1 DEF before_data
  <2>2. CASE volume.format = 32 /\ volume.total_sectors # 0
    <3>1. fat_size = 0 /\ fat_count * 0 = 0
      BY <2>2, Numbers DEF fat_size
    <3> QED
      BY <1>1, <1>3, <3>1, Numbers DEF before_data
  <2> QED
    BY <2>1, <2>2
<1>6. before_data \in Nat /\ before_data <= first_data_sector
  BY <1>1, <1>4, <1>5
<1>7. ~Overflows
  BY <1>1, <1>2, <1>6, Numbers DEF Overflows
<1>8. d \in Nat /\ e \in Nat /\ e <= d /\ d < U32 /\ U32 \in Nat
  BY <1>1, <1>2, <1>6, Numbers
<1>9. total_clusters = d \div sectors_per_cluster /\ ClustersOf(volume) = e \div sectors_per_cluster
  BY <1>1, <1>8, ModSmall DEF total_clusters, ClustersOf, total_sectors
<1>10. volume.format # 32 => total_clusters = ClustersOf(volume)
  BY <1>4, <1>9
<1>11. total_clusters >= ClustersOf(volume) /\ total_clusters \in Nat /\ ClustersOf(volume) \in Nat
  BY <1>8, <1>9, Numbers, DivGrows, DivMod
<1>12. volume.format = 12 => ClustersOf(volume) < Fat12Limit
  BY VolumeAssumption
<1>13. volume.format = 16 => ClustersOf(volume) \in Fat12Limit .. (Fat16Limit - 1)
  BY VolumeAssumption
<1>14. volume.format # 32 => fat_type = volume.format
  BY <1>1, <1>10, <1>11, <1>12, <1>13, Numbers DEF fat_type
<1>15. volume.format = 32 /\ ClustersOf(volume) >= Fat16Limit => fat_type = 32
  BY <1>11, Numbers, LayoutAssumption DEF fat_type
<1> QED
  BY <1>7, <1>11, <1>14, <1>15

\* The name in the boot sector decides.
LEMMA NameDecides ==
    ASSUME volume \in Volumes
    PROVE  /\ Identified => fat_type = volume.format
           /\ fat_type = volume.format /\ volume.system_identifier = FormatName(volume) => Identified
<1>1. volume.format \in {12, 16, 32} /\ fat_type \in {12, 16, 32}
  BY VolumeNumbers
<1>2. volume.system_identifier \in {FormatName(volume), "other"}
  BY VolumeAssumption
<1>3. Identified => fat_type = volume.format
  BY <1>1, <1>2 DEF Identified, FormatName
<1>4. fat_type = volume.format /\ volume.system_identifier = FormatName(volume) => Identified
  BY <1>1 DEF Identified, FormatName
<1> QED
  BY <1>3, <1>4

\* Where a cluster is; no cluster number leads in front of the drive.
LEMMA ClusterSector ==
    ASSUME volume \in Volumes, NEW c \in Nat
    PROVE  /\ cluster_to_sector(c) \in Nat /\ start_sector + cluster_to_sector(c) \in Nat
           /\ ~Wrapped(volume) => SectorOf(c) = start_sector + cluster_to_sector(c)
<1>1. /\ first_data_sector \in Nat /\ first_data_sector >= 2 * sectors_per_cluster
      /\ ~Wrapped(volume) => FirstDataSectorOf(volume) = first_data_sector
  BY VolumeNumbers
<1>2. c * sectors_per_cluster \in Nat /\ 2 * sectors_per_cluster \in Nat
  BY Numbers
<1>3. (c - 2) * sectors_per_cluster = c * sectors_per_cluster - 2 * sectors_per_cluster
  BY Numbers
<1>4. cluster_to_sector(c) = (c * sectors_per_cluster - 2 * sectors_per_cluster) + first_data_sector
  BY <1>3 DEF cluster_to_sector
<1>5. ~Wrapped(volume) =>
         SectorOf(c) = start_sector + first_data_sector + (c * sectors_per_cluster - 2 * sectors_per_cluster)
  BY <1>1, <1>3 DEF SectorOf
<1> DEFINE a == c * sectors_per_cluster
           b == 2 * sectors_per_cluster
<1>6. a \in Nat /\ b \in Nat /\ first_data_sector >= b
  BY <1>1, <1>2
<1>7. /\ cluster_to_sector(c) = (a - b) + first_data_sector
      /\ ~Wrapped(volume) => SectorOf(c) = start_sector + first_data_sector + (a - b)
  BY <1>4, <1>5
<1> HIDE DEF a, b
<1> QED
  BY <1>1, <1>6, <1>7, Numbers

\* The root directory of FAT12 and FAT16: the driver comes to it, or to less than a
\* cluster before it.
LEMMA RootSector ==
    ASSUME volume \in Volumes, fat_type # 32
    PROVE  /\ cluster_to_sector(root_cluster) \in Nat
           /\ root_dir_sectors % sectors_per_cluster = 0 =>
                 cluster_to_sector(root_cluster) = reserved_sectors + fat_count * sectors_per_fat
<1> DEFINE before == reserved_sectors + fat_count * sectors_per_fat
           s == sectors_per_cluster
           d == root_dir_sectors
           q == (d + (s - 1)) \div s
           r == (d + (s - 1)) % s
<1>1. before \in Nat /\ before >= s /\ s \in Nat \ {0}
  BY Numbers, LayoutAssumption
<1>2. d \in Nat /\ first_data_sector = before + d
  BY VolumeNumbers
<1>3. first_data_sector - before = d
  BY <1>1, <1>2
<1>4. root_cluster = 2 - q
  BY <1>3 DEF root_cluster, sector_to_cluster
<1>5. cluster_to_sector(root_cluster) = ((2 - q) - 2) * s + first_data_sector
  BY <1>4 DEF cluster_to_sector
<1>6. q \in Nat /\ r \in 0 .. (s - 1) /\ d + (s - 1) = q * s + r
  BY <1>1, <1>2, DivMod, d + (s - 1) \in Nat
<1>7. d % s = 0 => q * s = d
  <2>1. SUFFICES ASSUME d % s = 0 PROVE q * s = d
    OBVIOUS
  <2> DEFINE n == d \div s
  <2>2. n \in Nat /\ d = n * s
    BY <1>1, <1>2, <2>1, DivMod
  <2> HIDE DEF n
  <2>3. s - 1 \in 0 .. (s - 1) /\ s \in Nat /\ s > 0
    BY <1>1
  <2>4. (n * s + (s - 1)) \div s = n
    BY <2>2, <2>3, DivUnique
  <2>5. q = n
    BY <2>2, <2>4
  <2> QED
    BY <2>2, <2>5
<1> DEFINE p == q * s
<1> HIDE DEF q, r
<1>8. ((2 - q) - 2) * s = 0 - q * s /\ q * s \in Nat
  BY <1>1, <1>6
<1>9. p \in Nat /\ d + (s - 1) = p + r /\ r \in 0 .. (s - 1) /\ (d % s = 0 => p = d)
  BY <1>6, <1>7, <1>8
<1>10. cluster_to_sector(root_cluster) = (before + d) - p
  BY <1>1, <1>2, <1>5, <1>8
<1> HIDE DEF p, before, d, s
<1>11. p >= d /\ p <= d + s
  BY <1>1, <1>2, <1>9
<1>12. cluster_to_sector(root_cluster) \in Nat
  BY <1>1, <1>2, <1>9, <1>10, <1>11
<1>13. d % s = 0 => cluster_to_sector(root_cluster) = before
  BY <1>1, <1>2, <1>9, <1>10
<1> QED
  BY <1>12, <1>13 DEF before, d, s

\* Where the driver looks for a directory of a volume that was recognised.
LEMMA DirPlace ==
    ASSUME volume \in Volumes, fat_type = volume.format, NEW root \in BOOLEAN, NEW c,
           IF root THEN c = root_cluster ELSE c \in Nat
    PROVE  /\ cluster_to_sector(c) \in Nat /\ start_sector + cluster_to_sector(c) \in Nat
           /\ InPlace(root) => DirSector(root, c) = start_sector + cluster_to_sector(c)
<1>1. start_sector \in Nat /\ reserved_sectors \in Nat /\ fat_count * sectors_per_fat \in Nat
  BY Numbers
<1>2. CASE root /\ volume.format # 32
  <2>1. /\ cluster_to_sector(c) \in Nat
        /\ InPlace(root) => cluster_to_sector(c) = reserved_sectors + fat_count * sectors_per_fat
    BY <1>2, RootSector DEF InPlace
  <2>2. DirSector(root, c) = start_sector + reserved_sectors + fat_count * sectors_per_fat
    BY <1>2 DEF DirSector
  <2> QED
    BY <1>1, <2>1, <2>2
<1>3. CASE ~(root /\ volume.format # 32)
  <2>1. c \in Nat
    <3>1. root => volume.format = 32 /\ c = volume.root_dir_cluster
      BY <1>3 DEF root_cluster
    <3>2. volume.root_dir_cluster \in Nat
      BY VolumeAssumption
    <3> QED
      BY <3>1, <3>2
  <2>2. DirSector(root, c) = SectorOf(c) /\ (InPlace(root) => ~Wrapped(volume))
    BY <1>3 DEF DirSector, InPlace
  <2> QED
    BY <2>1, <2>2, ClusterSector
<1> QED
  BY <1>2, <1>3

\* A cluster that ends in the partition has an entry in the FAT, and get_next_cluster
\* can read it.
LEMMA InFat ==
    ASSUME volume \in Volumes, NEW c \in Nat, SectorOf(c) + sectors_per_cluster <= end_sector
    PROVE  /\ c < sectors_per_fat * SectorEntries
           /\ c \div SectorEntries < sectors_per_fat
           /\ start_sector + reserved_sectors + c \div SectorEntries + 2 <= end_sector
<1> DEFINE n == sectors_per_fat * SectorEntries
           s == sectors_per_cluster
           data == FirstDataSectorOf(volume)
<1>1. n \in Nat /\ s \in Nat \ {0} /\ data \in Nat /\ start_sector \in Nat /\ end_sector \in Nat
  BY Numbers, VolumeNumbers
<1>2. end_sector - (start_sector + data) < (n - 1) * s
  BY VolumeAssumption
<1>3. ASSUME c >= n PROVE FALSE
  <2>1. (c - n) * s \in Nat
    BY <1>1, <1>3
  <2>2. (c - 2) * s + s = (n - 1) * s + (c - n) * s
    BY <1>1
  <2>3. SectorOf(c) = start_sector + data + (c - 2) * s
    BY DEF SectorOf
  <2> DEFINE x == (c - 2) * s
             y == (n - 1) * s
             z == (c - n) * s
  <2>4. x \in Int /\ y \in Int /\ z \in Nat /\ x + s = y + z
    BY <1>1, <2>1, <2>2
  <2>5. end_sector - (start_sector + data) < y
        /\ start_sector + data + x + s <= end_sector
    BY <1>2, <2>3
  <2> HIDE DEF x, y, z, s, n, data
  <2> QED
    BY <1>1, <2>4, <2>5
<1>4. c < n
  BY <1>1, <1>3
<1>5. c \div SectorEntries \in Nat /\ c = (c \div SectorEntries) * SectorEntries + (c % SectorEntries)
      /\ c % SectorEntries \in 0 .. (SectorEntries - 1)
  BY Numbers, DivMod
<1> DEFINE q == c \div SectorEntries
<1>6. q \in Nat /\ q * SectorEntries <= c
  <2> DEFINE p == q * SectorEntries
             r == c % SectorEntries
  <2>1. q \in Nat /\ c = p + r /\ r \in 0 .. (SectorEntries - 1) /\ p \in Nat
    BY <1>5, Numbers
  <2> HIDE DEF q, p, r
  <2>2. p <= c
    BY <2>1, Numbers
  <2> QED
    BY <2>1, <2>2 DEF p
<1> HIDE DEF q
<1>7. ASSUME q >= sectors_per_fat PROVE FALSE
  <2>1. sectors_per_fat * SectorEntries <= q * SectorEntries
    BY <1>6, <1>7, Numbers, TimesAtLeast
  <2> QED
    BY <1>1, <1>4, <1>6, <2>1, Numbers
<1>8. q < sectors_per_fat
  BY <1>6, <1>7, Numbers
<1>9. start_sector + reserved_sectors + q + 2 <= end_sector
  BY <1>6, <1>8, Numbers, LayoutAssumption
<1> QED
  BY <1>4, <1>8, <1>9 DEF q

-----------------------------------------------------------------------------
(* The FAT.                                                                *)

\* A nibble of the FAT on the drive.
LEMMA NibbleInNat ==
    ASSUME NEW n \in Nat
    PROVE  Nibble(n) \in Nat
<1> DEFINE e == IF n \div 3 \in DOMAIN DiskFat THEN DiskFat[n \div 3] ELSE 0
           w == <<1, 16, 256>>[(n % 3) + 1]
<1>1. e \in Nat
  BY FilesAssumption
<1>2. (n % 3) + 1 \in 1 .. 3
  BY DivMod, 3 \in Nat
<1>3. w \in {1, 16, 256}
  BY <1>2
<1> HIDE DEF e, w
<1>4. e \div w \in Nat
  BY <1>1, <1>3
<1>5. (e \div w) % 16 \in Nat
  BY <1>4
<1> QED
  BY <1>5 DEF Nibble, e, w

\* What the driver takes for an entry is a number, and the entry unless it is FAT12.
LEMMA EntryRead ==
    ASSUME NEW k \in Nat
    PROVE  /\ ReadEntry(k) \in Nat
           /\ fat_type # 12 /\ k < sectors_per_fat * SectorEntries => ReadEntry(k) = DiskFat[k]
<1>1. CASE fat_type = 12
  <2>1. Nibble(4 * k) \in Nat /\ Nibble(4 * k + 1) \in Nat /\ Nibble(4 * k + 2) \in Nat
    BY NibbleInNat
  <2> QED
    BY <1>1, <2>1 DEF ReadEntry
<1>2. CASE fat_type # 12
  <2>1. DiskFat \in [0 .. (sectors_per_fat * SectorEntries - 1) -> Nat] /\ sectors_per_fat * SectorEntries \in Nat
    BY FilesAssumption, Numbers
  <2> DEFINE n == sectors_per_fat * SectorEntries
  <2>2. DiskFat \in [0 .. (n - 1) -> Nat] /\ n \in Nat
    BY <2>1
  <2> HIDE DEF n
  <2>3. k < n => k \in DOMAIN DiskFat
    BY <2>2
  <2>4. ReadEntry(k) \in Nat /\ (k < n => ReadEntry(k) = DiskFat[k])
    BY <1>2, <2>2, <2>3 DEF ReadEntry
  <2> QED
    BY <2>4 DEF n
<1> QED
  BY <1>1, <1>2

\* The entries of a sector of the FAT.
LEMMA SectorEntry ==
    ASSUME NEW q \in Nat, NEW r \in 0 .. (SectorEntries - 1)
    PROVE  /\ Len(EntriesOf(start_sector + reserved_sectors + q)) = SectorEntries
           /\ EntriesOf(start_sector + reserved_sectors + q) \in Seq(Nat)
           /\ EntriesOf(start_sector + reserved_sectors + q)[r + 1] = ReadEntry(q * SectorEntries + r)
<1> DEFINE s == start_sector + reserved_sectors + q
           b == q * SectorEntries
<1>1. s - start_sector - reserved_sectors = q
  BY Numbers
<1>2. b \in Nat /\ SectorEntries \in Nat \ {0}
  BY Numbers
<1> HIDE DEF s
<1>3. EntriesOf(s) = [j \in 1 .. SectorEntries |-> ReadEntry(b + j - 1)]
  BY <1>1 DEF EntriesOf
<1> HIDE DEF b
<1>4. \A j \in 1 .. SectorEntries : b + j - 1 \in Nat
  BY <1>2
<1>5. \A j \in 1 .. SectorEntries : ReadEntry(b + j - 1) \in Nat
  BY <1>4, EntryRead
<1>6. EntriesOf(s) \in [1 .. SectorEntries -> Nat]
  BY <1>3, <1>5
<1>7. EntriesOf(s) \in Seq(Nat) /\ Len(EntriesOf(s)) = SectorEntries
  BY <1>2, <1>6
<1>8. r + 1 \in 1 .. SectorEntries /\ b + (r + 1) - 1 = b + r
  BY <1>2
<1>9. EntriesOf(s)[r + 1] = ReadEntry(b + r)
  BY <1>3, <1>8
<1> QED
  BY <1>7, <1>9 DEF s, b

\* Two sequences of numbers with the same elements.
LEMMA SameSequence ==
    ASSUME NEW s \in Seq(Nat), NEW t \in Seq(Nat), NEW n, Len(s) = n, Len(t) = n,
           \A j \in 1 .. n : s[j] = t[j]
    PROVE  s = t
<1>1. s = [j \in 1 .. n |-> s[j]] /\ t = [j \in 1 .. n |-> t[j]]
  OBVIOUS
<1> QED
  BY <1>1

\* One more sector of it.
LEMMA FatGrows ==
    ASSUME NEW m \in Nat
    PROVE  /\ FatOf(m) \in Seq(Nat) /\ Len(FatOf(m)) = m * SectorEntries
           /\ FatOf(m) \o EntriesOf(start_sector + reserved_sectors + m) = FatOf(m + 1)
<1> DEFINE n == m * SectorEntries
           s == EntriesOf(start_sector + reserved_sectors + m)
           t == FatOf(m)
           u == FatOf(m + 1)
<1>1. n \in Nat /\ SectorEntries \in Nat \ {0} /\ (m + 1) * SectorEntries = n + SectorEntries
  BY Numbers
<1>2. t = [j \in 1 .. n |-> ReadEntry(j - 1)] /\ u = [j \in 1 .. (n + SectorEntries) |-> ReadEntry(j - 1)]
  BY <1>1 DEF FatOf
<1>3. \A r \in 0 .. (SectorEntries - 1) : s[r + 1] = ReadEntry(n + r)
  BY SectorEntry
<1>4. s \in Seq(Nat) /\ Len(s) = SectorEntries
  BY <1>1, SectorEntry, 0 \in 0 .. (SectorEntries - 1)
<1> HIDE DEF n, s, t, u
<1>5. \A j \in Nat : ReadEntry(j) \in Nat
  BY EntryRead
<1>6. \A j \in Nat \ {0} : ReadEntry(j - 1) \in Nat
  BY <1>5
<1>7. n \in Nat /\ n + SectorEntries \in Nat /\ SectorEntries \in Nat
  BY <1>1
<1>8. t \in [1 .. n -> Nat] /\ u \in [1 .. (n + SectorEntries) -> Nat]
  BY <1>2, <1>6, <1>7
<1>9. t \in Seq(Nat) /\ Len(t) = n
  BY <1>7, <1>8
<1>10. u \in Seq(Nat) /\ Len(u) = n + SectorEntries
  BY <1>7, <1>8
<1>11. t \o s \in Seq(Nat) /\ Len(t \o s) = n + SectorEntries
  BY <1>1, <1>4, <1>9
<1>12. ASSUME NEW j \in 1 .. (n + SectorEntries) PROVE (t \o s)[j] = u[j]
  <2>1. CASE j <= n
    BY <1>1, <1>2, <1>4, <1>9, <2>1
  <2>2. CASE j > n
    <3> DEFINE r == j - n - 1
    <3>1. r \in 0 .. (SectorEntries - 1) /\ r + 1 = j - n /\ n + r = j - 1
      BY <1>1, <2>2
    <3>2. (t \o s)[j] = s[j - n]
      BY <1>1, <1>4, <1>9, <2>2
    <3>3. s[r + 1] = ReadEntry(n + r)
      BY <1>3, <3>1
    <3> QED
      BY <1>2, <3>1, <3>2, <3>3
  <2>3. j <= n \/ j > n
    BY <1>7
  <2> QED
    BY <2>1, <2>2, <2>3
<1>13. t \o s = u
  BY <1>10, <1>11, <1>12, SameSequence
<1> QED
  BY <1>9, <1>13 DEF t, s, u, n

-----------------------------------------------------------------------------
(* The chain of a file.                                                    *)

\* A set of natural numbers has a least one.
LEMMA Least ==
    ASSUME NEW S, S \subseteq Nat, S # {}
    PROVE  \E x \in S : \A y \in S : x <= y
<1>1. PICK x \in S : \A y \in S : ~ (<<y, x>> \in OpToRel(<, Nat))
  BY NatLessThanWellFounded, WFMin
<1>2. \A y \in S : ~ (y < x)
  BY <1>1 DEF OpToRel
<1> QED
  BY <1>2

\* The first clusters of a chain that starts with c0.
Chain(c0, k, g) == g = [i \in 0 .. k |-> IF i = 0 THEN c0 ELSE DiskFat[g[i - 1]]]

\* What a chain is.
Linked(c0, k, g) == DOMAIN g = 0 .. k /\ g[0] = c0 /\ \A i \in 1 .. k : g[i] = DiskFat[g[i - 1]]

\* A chain is linked by the entries of the FAT.
LEMMA ChainOf ==
    ASSUME NEW c0, NEW k \in Nat, NEW g, Chain(c0, k, g)
    PROVE  Linked(c0, k, g)
<1> DEFINE h == [i \in 0 .. k |-> IF i = 0 THEN c0 ELSE DiskFat[g[i - 1]]]
<1>1. g = h
  BY DEF Chain
<1>2. DOMAIN h = 0 .. k /\ h[0] = c0 /\ \A i \in 1 .. k : h[i] = DiskFat[g[i - 1]]
  BY 0 \in 0 .. k
<1> HIDE DEF h
<1> QED
  BY <1>1, <1>2 DEF Linked

\* There is one ...
LEMMA ChainExists ==
    ASSUME NEW c0, NEW k \in Nat
    PROVE  \E g : Chain(c0, k, g)
<1> DEFINE S == {n \in Nat : ~ \E g : Chain(c0, n, g)}
<1>1. SUFFICES ASSUME S # {} PROVE FALSE
  OBVIOUS
<1>2. PICK n \in S : \A m \in S : n <= m
  BY <1>1, Least
<1>3. n # 0
  <2> DEFINE h == [i \in 0 .. 0 |-> c0]
  <2>1. h = [i \in 0 .. 0 |-> IF i = 0 THEN c0 ELSE DiskFat[h[i - 1]]]
    OBVIOUS
  <2> HIDE DEF h
  <2>2. Chain(c0, 0, h)
    BY <2>1 DEF Chain
  <2> QED
    BY <1>2, <2>2
<1>4. n - 1 \in Nat /\ n - 1 \notin S
  BY <1>2, <1>3
<1>5. PICK g : Chain(c0, n - 1, g)
  BY <1>4
<1>6. DOMAIN g = 0 .. (n - 1) /\ g[0] = c0 /\ \A i \in 1 .. (n - 1) : g[i] = DiskFat[g[i - 1]]
  <2>1. Linked(c0, n - 1, g)
    BY <1>4, <1>5, ChainOf
  <2> QED
    BY <2>1 DEF Linked
<1> DEFINE h == [i \in 0 .. n |-> IF i < n THEN g[i] ELSE DiskFat[g[n - 1]]]
<1>7. ASSUME NEW i \in 0 .. n PROVE h[i] = IF i = 0 THEN c0 ELSE DiskFat[h[i - 1]]
  <2>1. CASE i = 0
    BY <1>4, <1>6, <2>1
  <2>2. CASE i \in 1 .. (n - 1)
    BY <1>4, <1>6, <2>2
  <2>3. CASE i = n
    BY <1>4, <1>6, <2>3
  <2> QED
    BY <1>2, <2>1, <2>2, <2>3
<1>8. h = [i \in 0 .. n |-> IF i = 0 THEN c0 ELSE DiskFat[h[i - 1]]]
  BY <1>7
<1> HIDE DEF h
<1>9. Chain(c0, n, h)
  BY <1>8 DEF Chain
<1> QED
  BY <1>2, <1>9

\* ... and only one, of any length.
LEMMA ChainUnique ==
    ASSUME NEW c0, NEW k \in Nat, NEW l \in Nat, k <= l, NEW g, Chain(c0, k, g), NEW h, Chain(c0, l, h)
    PROVE  \A i \in 0 .. k : g[i] = h[i]
<1> DEFINE S == {i \in 0 .. k : g[i] # h[i]}
<1>1. SUFFICES ASSUME S # {} PROVE FALSE
  OBVIOUS
<1>2. S \subseteq Nat
  OBVIOUS
<1>3. PICK n \in S : \A m \in S : n <= m
  BY <1>1, <1>2, Least
<1>4. DOMAIN g = 0 .. k /\ g[0] = c0 /\ \A i \in 1 .. k : g[i] = DiskFat[g[i - 1]]
  <2>1. Linked(c0, k, g)
    BY ChainOf
  <2> QED
    BY <2>1 DEF Linked
<1>5. DOMAIN h = 0 .. l /\ h[0] = c0 /\ \A i \in 1 .. l : h[i] = DiskFat[h[i - 1]]
  <2>1. Linked(c0, l, h)
    BY ChainOf
  <2> QED
    BY <2>1 DEF Linked
<1>6. n # 0 /\ n \in 1 .. k /\ n - 1 \in 0 .. k /\ n - 1 \notin S
  BY <1>3, <1>4, <1>5
<1>7. g[n - 1] = h[n - 1]
  BY <1>6
<1>8. n \in 1 .. l
  BY <1>6
<1>9. g[n] = DiskFat[g[n - 1]] /\ h[n] = DiskFat[h[n - 1]]
  BY <1>6, <1>8, <1>4, <1>5
<1> QED
  BY <1>3, <1>7, <1>9

\* The clusters of a file.
LEMMA Clusters ==
    ASSUME NEW f, NEW k \in Nat
    PROVE  /\ ClusterOf(f, 0) = Entries[f].cluster
           /\ ClusterOf(f, k + 1) = DiskFat[ClusterOf(f, k)]
<1> DEFINE c0 == Entries[f].cluster
           C(n) == CHOOSE g : Chain(c0, n, g)
<1>1. ASSUME NEW n \in Nat PROVE Chain(c0, n, C(n))
  BY ChainExists
<1>2. ASSUME NEW n \in Nat PROVE ClusterOf(f, n) = C(n)[n]
  BY DEF ClusterOf, Chain
<1> HIDE DEF C, c0
<1>3. C(0)[0] = c0
  BY <1>1, ChainOf, 0 \in Nat DEF Linked
<1>4. C(k + 1)[k + 1] = DiskFat[C(k + 1)[(k + 1) - 1]] /\ (k + 1) - 1 = k
  <2> DEFINE n == k + 1
             g == C(n)
  <2>1. Chain(c0, n, g) /\ n \in Nat /\ n \in 1 .. n /\ n - 1 = k
    BY <1>1, k + 1 \in Nat
  <2> HIDE DEF n, g
  <2>2. Linked(c0, n, g)
    BY <2>1, ChainOf
  <2>3. g[n] = DiskFat[g[n - 1]]
    BY <2>1, <2>2 DEF Linked
  <2> QED
    BY <2>1, <2>3 DEF n, g
<1>5. C(k)[k] = C(k + 1)[k]
  <2>1. Chain(c0, k, C(k)) /\ Chain(c0, k + 1, C(k + 1)) /\ k + 1 \in Nat
    BY <1>1
  <2> QED
    BY <2>1, ChainUnique, k \in 0 .. k
<1>6. ClusterOf(f, 0) = C(0)[0] /\ ClusterOf(f, k) = C(k)[k] /\ ClusterOf(f, k + 1) = C(k + 1)[k + 1]
  BY <1>2, 0 \in Nat, k + 1 \in Nat
<1> QED
  BY <1>3, <1>4, <1>5, <1>6 DEF c0

-----------------------------------------------------------------------------
(* The bytes of a read.                                                    *)

\* A byte of a cluster that was read.
LEMMA BufferByte ==
    ASSUME NEW first \in Nat, NEW s \in Seq(Nat), Len(s) = sectors_per_cluster,
           \A k \in 1 .. Len(s) : s[k] = first + (k - 1), NEW k \in 0 .. (cluster_size - 1)
    PROVE  ByteOf(s, k) = first * SectorBytes + k /\ ByteOf(s, k) \in Nat
<1> DEFINE q == k \div SectorBytes
           r == k % SectorBytes
           b == SectorBytes
<1>1. b \in Nat \ {0} /\ sectors_per_cluster \in Nat \ {0} /\ cluster_size = sectors_per_cluster * b
      /\ cluster_size \in Nat
  BY Numbers DEF cluster_size
<1>2. k \in Nat /\ k < sectors_per_cluster * b
  BY <1>1
<1>3. q \in Nat /\ r \in 0 .. (b - 1) /\ k = q * b + r
  BY <1>1, <1>2, DivMod
<1>4. ByteOf(s, k) = s[q + 1] * b + r
  BY DEF ByteOf
<1> HIDE DEF q, r, b
<1>5. ASSUME q >= sectors_per_cluster PROVE FALSE
  <2>1. sectors_per_cluster * b <= q * b /\ q * b \in Nat
    BY <1>1, <1>3, <1>5, TimesAtLeast
  <2> DEFINE x == sectors_per_cluster * b
             y == q * b
  <2>2. x <= y /\ y \in Nat /\ k < x /\ k = y + r /\ x \in Nat
    BY <1>1, <1>2, <1>3, <2>1
  <2> HIDE DEF x, y
  <2> QED
    BY <1>1, <1>3, <2>2
<1>6. q + 1 \in 1 .. Len(s)
  BY <1>1, <1>3, <1>5
<1>7. s[q + 1] = first + q
  BY <1>3, <1>6
<1>8. (first + q) * b = first * b + q * b /\ first * b \in Nat /\ q * b \in Nat
  BY <1>1, <1>3
<1> DEFINE x == first * b
           y == q * b
<1>9. ByteOf(s, k) = (x + y) + r /\ k = y + r /\ x \in Nat /\ y \in Nat
  BY <1>3, <1>4, <1>7, <1>8
<1> HIDE DEF x, y
<1>10. ByteOf(s, k) = x + k /\ ByteOf(s, k) \in Nat
  BY <1>1, <1>3, <1>9
<1> QED
  BY <1>10 DEF x, b

\* A byte of a file.
LEMMA ByteOfFile ==
    ASSUME NEW f, NEW n \in Nat, NEW r \in 0 .. (cluster_size - 1)
    PROVE  FileByte(f, n * cluster_size + r) = SectorOf(ClusterOf(f, n)) * SectorBytes + r
BY DivUnique, Numbers DEF FileByte

\* A function on the first n numbers.
LEMMA SequenceOf ==
    ASSUME NEW T, NEW n \in Nat, NEW g \in [1 .. n -> T]
    PROVE  g \in Seq(T) /\ Len(g) = n
OBVIOUS

\* How many bytes are copied from cluster n, where they go, and when it is too many.
LEMMA CopySize ==
    ASSUME NEW n \in Nat, NEW asked \in Nat, asked < cluster_size, NEW count \in Nat,
           NEW size \in Nat, size = SizeAfter(n, asked, count),
           NEW offset \in Nat, offset = OffsetIn(n, asked),
           NEW copy, copy = CopyOf(count, size, offset)
    PROVE  /\ size <= count /\ copy \in Nat
           /\ offset + copy > cluster_size => count <= cluster_size /\ asked + count > cluster_size
           /\ offset + copy <= cluster_size =>
                /\ size + copy = SizeAfter(n + 1, asked, count)
                /\ copy > 0 => asked + size = n * cluster_size + offset
<1> DEFINE s == cluster_size
           b == n * s
<1>1. s \in Nat \ {0} /\ b \in Nat /\ (n + 1) * s = b + s
  BY Numbers
<1>2. n = 0 => b = 0
  BY <1>1
<1>3. n > 0 => b >= s
  <2> SUFFICES ASSUME n > 0 PROVE b >= s
    OBVIOUS
  <2>1. 1 * s <= n * s
    BY <1>1, TimesAtLeast, 1 \in Nat
  <2> QED
    BY <1>1, <2>1
<1>4. size = IF n = 0 THEN 0 ELSE IF count <= b - asked THEN count ELSE b - asked
  BY DEF SizeAfter
<1>5. SizeAfter(n + 1, asked, count) = IF count <= (b + s) - asked THEN count ELSE (b + s) - asked
  <2>1. n + 1 # 0
    OBVIOUS
  <2> QED
    BY <1>1, <2>1 DEF SizeAfter
<1>6. asked < s /\ offset = (IF n = 0 THEN asked ELSE 0)
      /\ copy = IF count - size > s THEN s - offset ELSE count - size
  BY DEF OffsetIn, CopyOf
<1> HIDE DEF s, b
<1>7. CASE n = 0
  BY <1>1, <1>2, <1>4, <1>5, <1>6, <1>7 DEF s, b
<1>8. CASE n > 0
  BY <1>1, <1>3, <1>4, <1>5, <1>6, <1>8 DEF s, b
<1> QED
  BY <1>7, <1>8

\* The bytes copied are inside the cluster, and the file has them behind base.
Placed(n, base, offset, copy) ==
    \A k \in 1 .. copy : /\ offset + (k - 1) \in 0 .. (cluster_size - 1)
                         /\ base + (k - 1) = n * cluster_size + (offset + (k - 1))

\* The numbers of a copy that stays in its cluster.
Copying(n, asked, count, size, offset, copy) ==
    /\ n \in Nat /\ asked \in Nat /\ asked < cluster_size /\ count \in Nat
    /\ size \in Nat /\ size = SizeAfter(n, asked, count)
    /\ offset \in Nat /\ offset = OffsetIn(n, asked)
    /\ copy \in Nat /\ copy = CopyOf(count, size, offset) /\ offset + copy <= cluster_size

\* The sectors of a cluster, and bytes of them.
ClusterBuffer(s, c) ==
    /\ s \in Seq(Nat) /\ Len(s) = sectors_per_cluster
    /\ \A k \in 1 .. Len(s) : s[k] = (start_sector + cluster_to_sector(c)) + (k - 1)
Piece(s, offset, copy) == [k \in 1 .. copy |-> ByteOf(s, offset + (k - 1))]

\* Where the bytes of the copy are in the cluster and in the file.
LEMMA CopyPlace ==
    ASSUME NEW n, NEW asked, NEW count, NEW size, NEW offset, NEW copy,
           Copying(n, asked, count, size, offset, copy)
    PROVE  /\ size + copy = SizeAfter(n + 1, asked, count) /\ asked + size \in Nat
           /\ Placed(n, asked + size, offset, copy)
<1> USE DEF Copying
<1> DEFINE b == n * cluster_size
<1>1. b \in Nat /\ cluster_size \in Nat
  BY Numbers
<1>2. size + copy = SizeAfter(n + 1, asked, count) /\ (copy > 0 => asked + size = b + offset)
  BY CopySize
<1> HIDE DEF b
<1>3. ASSUME NEW k \in 1 .. copy
      PROVE  /\ offset + (k - 1) \in 0 .. (cluster_size - 1)
             /\ (asked + size) + (k - 1) = b + (offset + (k - 1))
  BY <1>1, <1>2
<1>4. asked + size \in Nat
  OBVIOUS
<1> QED
  BY <1>2, <1>3, <1>4 DEF b, Placed

\* So many bytes of a file.
BytesOf(bytes, size, f, at) == bytes \in Seq(Nat) /\ Len(bytes) = size /\ FromFile(bytes, f, at)

\* The bytes of the copy.
LEMMA PieceBytes ==
    ASSUME volume \in Volumes, ~Wrapped(volume), NEW f, NEW n \in Nat, NEW c \in Nat, c = ClusterOf(f, n),
           NEW s, ClusterBuffer(s, c), NEW offset \in Nat, NEW copy \in Nat, NEW base \in Nat,
           Placed(n, base, offset, copy), NEW piece, piece = Piece(s, offset, copy)
    PROVE  BytesOf(piece, copy, f, base)
<1> DEFINE first == start_sector + cluster_to_sector(c)
<1>1. first \in Nat /\ SectorOf(c) = first
  BY ClusterSector
<1>2. ASSUME NEW k \in 1 .. copy
      PROVE  piece[k] \in Nat /\ piece[k] = FileByte(f, base + (k - 1))
  <2> DEFINE r == offset + (k - 1)
  <2>1. r \in 0 .. (cluster_size - 1) /\ base + (k - 1) = n * cluster_size + r /\ piece[k] = ByteOf(s, r)
    BY DEF Placed, Piece
  <2> HIDE DEF r
  <2>2. ByteOf(s, r) = first * SectorBytes + r /\ ByteOf(s, r) \in Nat
    BY <1>1, <2>1, BufferByte DEF ClusterBuffer
  <2>3. FileByte(f, n * cluster_size + r) = first * SectorBytes + r
    BY <1>1, <2>1, ByteOfFile
  <2> QED
    BY <2>1, <2>2, <2>3
<1>3. piece \in [1 .. copy -> Nat]
  BY <1>2 DEF Piece
<1>4. piece \in Seq(Nat) /\ Len(piece) = copy
  BY <1>3, SequenceOf
<1> QED
  BY <1>2, <1>4 DEF BytesOf, FromFile

\* Two sequences, one behind the other.
LEMMA Concat ==
    ASSUME NEW b \in Seq(Nat), NEW p \in Seq(Nat), NEW t, t = b \o p
    PROVE  /\ t \in Seq(Nat) /\ Len(t) = Len(b) + Len(p)
           /\ \A k \in 1 .. Len(b) : t[k] = b[k]
           /\ \A k \in (Len(b) + 1) .. (Len(b) + Len(p)) : t[k] = p[k - Len(b)]
OBVIOUS

\* The bytes there are and the copy.
LEMMA BothBytes ==
    ASSUME NEW f, NEW asked \in Nat, NEW size \in Nat, NEW copy \in Nat, NEW bytes, NEW piece, NEW t,
           BytesOf(bytes, size, f, asked), BytesOf(piece, copy, f, asked + size), t = bytes \o piece
    PROVE  BytesOf(t, size + copy, f, asked)
<1>1. /\ t \in Seq(Nat) /\ Len(t) = size + copy
      /\ \A k \in 1 .. size : t[k] = bytes[k]
      /\ \A k \in (size + 1) .. (size + copy) : t[k] = piece[k - size]
  <2>1. Len(bytes) = size /\ Len(piece) = copy
    BY DEF BytesOf
  <2>2. bytes \in Seq(Nat)
    BY DEF BytesOf
  <2>3. piece \in Seq(Nat)
    BY DEF BytesOf
  <2>4. /\ t \in Seq(Nat) /\ Len(t) = Len(bytes) + Len(piece)
        /\ \A k \in 1 .. Len(bytes) : t[k] = bytes[k]
        /\ \A k \in (Len(bytes) + 1) .. (Len(bytes) + Len(piece)) : t[k] = piece[k - Len(bytes)]
    BY <2>2, <2>3, Concat
  <2> QED
    BY <2>1, <2>4
<1>2. ASSUME NEW k \in 1 .. size PROVE t[k] = FileByte(f, asked + (k - 1))
  BY <1>1 DEF BytesOf, FromFile
<1>3. ASSUME NEW k \in (size + 1) .. (size + copy) PROVE t[k] = FileByte(f, asked + (k - 1))
  <2>1. k - size \in 1 .. copy /\ (asked + size) + ((k - size) - 1) = asked + (k - 1)
    OBVIOUS
  <2>2. piece[k - size] = FileByte(f, (asked + size) + ((k - size) - 1))
    BY <2>1 DEF BytesOf, FromFile
  <2> QED
    BY <1>1, <2>1, <2>2
<1>4. \A k \in 1 .. (size + copy) : k \in 1 .. size \/ k \in (size + 1) .. (size + copy)
  OBVIOUS
<1>5. FromFile(t, f, asked)
  BY <1>1, <1>2, <1>3, <1>4 DEF FromFile
<1> QED
  BY <1>1, <1>5 DEF BytesOf

\* What a read has after another cluster.
LEMMA CopyBytes ==
    ASSUME volume \in Volumes, ~Wrapped(volume), NEW n, NEW f, NEW asked, NEW count, NEW size, NEW offset, NEW copy,
           Copying(n, asked, count, size, offset, copy),
           NEW bytes \in Seq(Nat), HasRead(n, f, asked, count, bytes), size = Len(bytes),
           NEW c \in Nat, c = ClusterOf(f, n), NEW s, ClusterBuffer(s, c),
           NEW t, t = bytes \o Piece(s, offset, copy)
    PROVE  t \in Seq(Nat) /\ HasRead(n + 1, f, asked, count, t)
<1> DEFINE piece == Piece(s, offset, copy)
<1>1. size = SizeAfter(n, asked, count) /\ FromFile(bytes, f, asked)
  BY DEF HasRead
<1>2. /\ size + copy = SizeAfter(n + 1, asked, count) /\ asked + size \in Nat
      /\ Placed(n, asked + size, offset, copy)
  BY CopyPlace
<1>3. n \in Nat /\ asked \in Nat /\ size \in Nat /\ offset \in Nat /\ copy \in Nat
  BY DEF Copying
<1>4. BytesOf(piece, copy, f, asked + size)
  BY <1>2, <1>3, PieceBytes
<1>5. BytesOf(bytes, size, f, asked) /\ t = bytes \o piece
  BY <1>1 DEF BytesOf
<1> HIDE DEF piece
<1>6. BytesOf(t, size + copy, f, asked)
  BY <1>3, <1>4, <1>5, BothBytes
<1> QED
  BY <1>2, <1>6 DEF HasRead, BytesOf

\* A member of a sequence.
LEMMA SequenceMember ==
    ASSUME NEW S, NEW s \in Seq(S), NEW k \in DOMAIN s
    PROVE  s[k] \in S /\ k \in Nat \ {0}
OBVIOUS

\* A file of the directory.
LEMMA FileEntry ==
    ASSUME NEW f \in DOMAIN Entries
    PROVE  Entries[f] \in [cluster : Nat, file_size : Nat] /\ f \in Nat \ {0}
<1>1. Entries \in Seq([cluster : Nat, file_size : Nat])
  BY FilesAssumption
<1> QED
  BY <1>1, SequenceMember

\* Where the chain ends, the read is complete.
LEMMA ReadComplete ==
    ASSUME NEW f \in DOMAIN Entries, NEW n \in Nat, NEW asked \in Nat, NEW count \in Nat,
           count + asked <= Entries[f].file_size, ClusterOf(f, n + 1) \in Nat, ClusterOf(f, n + 1) >= EOC
    PROVE  SizeAfter(n + 1, asked, count) = count
<1> DEFINE z == Entries[f].file_size
           q == (z - 1) \div cluster_size
           s == cluster_size
           b == (n + 1) * s
<1>1. Entries[f] \in [cluster : Nat, file_size : Nat]
  BY FileEntry
<1>2. z \in Nat /\ s \in Nat \ {0}
  BY <1>1, Numbers
<1>3. b \in Nat
  BY <1>2
<1>4. z <= b
  <2>1. SUFFICES ASSUME z > b PROVE FALSE
    BY <1>2, <1>3
  <2>2. z - 1 \in Nat /\ z - 1 >= b
    BY <1>2, <1>3, <2>1
  <2>3. b = (n + 1) * s + 0 /\ b \div s = n + 1
    <3>1. ((n + 1) * s + 0) \div s = n + 1
      BY <1>2, DivUnique, n + 1 \in Nat, 0 \in 0 .. (s - 1)
    <3>2. b = (n + 1) * s + 0
      BY <1>3
    <3> QED
      BY <3>1, <3>2
  <2> HIDE DEF b, z, s
  <2>4. b \div s <= (z - 1) \div s /\ (z - 1) \div s \in Nat
    BY <1>2, <1>3, <2>2, DivGrows, DivMod
  <2>5. n + 1 \in 1 .. ((z - 1) \div s)
    BY <2>3, <2>4
  <2>6. ClusterOf(f, n + 1) < EOC
    BY <2>5, ChainAssumption DEF z, s
  <2> QED
    BY <2>6 DEF EOC
<1> HIDE DEF b, z, s
<1>5. count <= b - asked
  BY <1>2, <1>3, <1>4 DEF z
<1>6. n + 1 # 0
  OBVIOUS
<1> QED
  BY <1>5, <1>6 DEF SizeAfter, b, s

-----------------------------------------------------------------------------
(* The calls of the drive.                                                 *)

\* What the kernel waits for changes only with what the kernel does.
LEMMA SameAsked ==
    ASSUME UNCHANGED fatVars
    PROVE  AskedSector' = AskedSector /\ AskedCount' = AskedCount /\ AskedLimit' = AskedLimit
<1>1. volume' = volume /\ pc' = pc /\ probe' = probe /\ read' = read /\ find' = find
  BY DEF fatVars
<1>2. NewReads' = NewReads /\ first_data_sector' = first_data_sector
  BY <1>1, SameVolume
<1>3. AskedCount' = AskedCount /\ AskedLimit' = AskedLimit
  BY <1>1 DEF AskedCount, AskedLimit
<1> QED
  BY <1>1, <1>2, <1>3 DEF AskedSector, cluster_to_sector

\* No call, or none that matters.
LEMMA NoCall ==
    ASSUME io'.pc = "idle" \/ pc' \in {"panic", "unmounted"}
    PROVE  CallInv'
BY DEF CallInv, Mounted

\* A step of the driver or of the drive.
LEMMA BusCall ==
    ASSUME Inv, Driver \/ Drive, UNCHANGED fatVars
    PROVE  AtaInv' /\ CallInv' /\ faults' >= faults /\ faults \in Nat /\ faults' \in Nat
<1>1. AtaInv /\ CallInv
  BY DEF Inv
<1>2. /\ AtaInv'
      /\ io'.sector = io.sector /\ io'.count = io.count /\ faults' >= faults
      /\ io.pc \in {"idle", "ok", "err"} => io' = io
      /\ io.pc \notin {"idle", "ok", "err"} => io'.pc # "idle" /\ (io'.pc = "err" => faults' > 0)
  BY <1>1, BusStep
<1>3. AskedSector' = AskedSector /\ AskedCount' = AskedCount /\ AskedLimit' = AskedLimit
  BY SameAsked
<1>4. volume' = volume /\ pc' = pc /\ probe' = probe /\ ProbeReads' = ProbeReads
  BY SameVolume DEF fatVars
<1>5. faults \in Nat /\ faults' \in Nat
  BY <1>1, <1>2, AtaAssumption DEF AtaInv
<1>6. CASE io.pc \in {"idle", "ok", "err"}
  <2>1. io' = io
    BY <1>2, <1>6
  <2> QED
    BY <1>1, <1>2, <1>3, <1>4, <1>5, <2>1 DEF CallInv
<1>7. CASE io.pc \notin {"idle", "ok", "err"}
  BY <1>1, <1>2, <1>3, <1>4, <1>5, <1>7 DEF CallInv
<1> QED
  BY <1>2, <1>5, <1>6, <1>7

\* A call the kernel makes.
LEMMA MakeCall ==
    ASSUME pc' \in {"probe", "dir", "skip", "next", "cluster"},
           pc' \in {"skip", "next"} => ~volume'.fat_in_mem, pc' = "probe" => probe' < ProbeReads',
           io'.pc \in {"reset", "err"},
           io'.pc = "reset" => /\ io'.sector = AskedSector' /\ io'.count = AskedCount'
                               /\ AskedSector' + AskedCount' <= AskedLimit',
           io'.pc = "err" => AskedSector' + AskedCount' > AskedLimit'
    PROVE  CallInv'
BY DEF CallInv

\* The reads of a volume while it is probed.
LEMMA ProbeCallInv ==
    ASSUME Inv, ProbeCall
    PROVE  AtaInv' /\ CallInv'
<1>1. AtaInv /\ volume \in Volumes /\ pc = "probe" /\ probe \in 0 .. ProbeReads /\ io.pc = "idle"
  BY DEF Inv, MountInv, ProbeCall
<1>2. NewReads \in {4, 5} /\ ProbeReads \in Nat /\ (NewReads = 5) = (fat_type = 32)
  BY <1>1, VolumeNumbers DEF NewReads
<1>3. UNCHANGED fatVars /\ UNCHANGED <<count0, drive, faults>>
  BY DEF ProbeCall
<1>4. AskedSector' = AskedSector /\ AskedCount' = AskedCount /\ AskedLimit' = AskedLimit /\ pc' = "probe"
      /\ probe' < ProbeReads'
  BY <1>1, <1>3, SameAsked, SameVolume DEF fatVars, ProbeCall
<1>5. start_sector \in Nat /\ end_sector \in Nat /\ reserved_sectors \in Nat /\ TableSectors \in Nat \ {0}
      /\ SectorCount \in Nat
  BY Numbers, AtaAssumption
<1>6. SUFFICES /\ AtaInv' /\ io'.pc \in {"reset", "err"}
               /\ io'.pc = "reset" => /\ io'.sector = AskedSector /\ io'.count = AskedCount
                                      /\ AskedSector + AskedCount <= AskedLimit
               /\ io'.pc = "err" => AskedSector + AskedCount > AskedLimit
  BY <1>4, MakeCall
<1>7. CASE probe \in {0, 1}
  <2>1. DeviceRead(probe, 1)
    BY <1>7 DEF ProbeCall
  <2>2. AskedSector = probe /\ AskedCount = 1 /\ AskedLimit = SectorCount
    BY <1>1, <1>7 DEF AskedSector, AskedCount, AskedLimit
  <2> QED
    BY <1>1, <1>3, <1>7, <2>1, <2>2, DeviceCall, 1 \in Nat, 1 > 0
<1>8. CASE probe = 2
  <2>1. DeviceRead(2, TableSectors)
    BY <1>8 DEF ProbeCall
  <2>2. AskedSector = 2 /\ AskedCount = TableSectors /\ AskedLimit = SectorCount
    BY <1>1, <1>8 DEF AskedSector, AskedCount, AskedLimit
  <2> QED
    BY <1>1, <1>3, <1>5, <2>1, <2>2, DeviceCall, 2 \in Nat
<1>9. CASE probe >= 3 /\ probe < NewReads
  <2> DEFINE k == probe - 3
  <2>1. k \in Nat /\ k \in Int /\ probe \in {3, 4} /\ (probe = 4 => fat_type = 32)
    BY <1>1, <1>2, <1>9
  <2>2. PartitionRead(k, 1)
    BY <2>1 DEF ProbeCall
  <2>3. AskedSector = start_sector + k /\ AskedCount = 1 /\ AskedLimit = end_sector
    <3>1. ~(probe < 3) /\ probe # 2 /\ ~(probe >= NewReads)
      BY <1>2, <1>9, <2>1
    <3> QED
      BY <1>1, <1>9, <3>1 DEF AskedSector, AskedCount, AskedLimit
  <2> HIDE DEF k
  <2>4. start_sector + k \in Nat
    BY <1>5, <2>1
  <2> QED
    BY <1>1, <1>3, <2>1, <2>2, <2>3, <2>4, PartitionCall, 1 \in Nat, 1 > 0
<1>10. CASE probe >= 3 /\ probe >= NewReads
  <2> DEFINE k == reserved_sectors + (probe - NewReads)
  <2>1. k \in Nat /\ k \in Int /\ start_sector + k = start_sector + reserved_sectors + (probe - NewReads)
    BY <1>1, <1>2, <1>5, <1>10
  <2>2. PartitionRead(k, 1)
    BY <1>1, <1>2, <1>10 DEF ProbeCall
  <2>3. AskedSector = start_sector + k /\ AskedCount = 1 /\ AskedLimit = end_sector
    BY <1>1, <1>2, <1>10, <2>1 DEF AskedSector, AskedCount, AskedLimit
  <2> HIDE DEF k
  <2>4. start_sector + k \in Nat
    BY <1>5, <2>1
  <2> QED
    BY <1>1, <1>3, <2>1, <2>2, <2>3, <2>4, PartitionCall, 1 \in Nat, 1 > 0
<1> QED
  BY <1>1, <1>2, <1>7, <1>8, <1>9, <1>10

\* The read of a directory.
LEMMA LookupCallInv ==
    ASSUME Inv, NEW root \in BOOLEAN, NEW c, NEW held, NEW name, Lookup(root, c, held, name),
           IF root THEN c = root_cluster ELSE c \in Nat
    PROVE  AtaInv' /\ CallInv'
<1> DEFINE k == cluster_to_sector(c)
<1>1. AtaInv /\ volume \in Volumes /\ fat_type = volume.format
  BY DEF Inv, MountInv, Lookup, Mounted
<1>2. k \in Nat /\ k \in Int /\ start_sector + k \in Nat
  BY <1>1, DirPlace
<1>3. volume' = volume /\ pc' = "dir" /\ UNCHANGED <<count0, drive, faults>>
      /\ PartitionRead(k, sectors_per_cluster) /\ find'.cluster = c
  BY DEF Lookup, NoFind
<1>4. cluster_to_sector(c)' = k
  BY <1>3, SameVolume
<1>5. AskedSector' = start_sector + k /\ AskedCount' = sectors_per_cluster /\ AskedLimit' = end_sector
  <2>1. AskedSector' = start_sector + cluster_to_sector(find.cluster)'
    BY <1>3 DEF AskedSector
  <2>2. cluster_to_sector(find.cluster)' = cluster_to_sector(c)'
    BY <1>3 DEF cluster_to_sector
  <2> QED
    BY <1>3, <1>4, <2>1, <2>2 DEF AskedCount, AskedLimit
<1>6. sectors_per_cluster \in Nat /\ sectors_per_cluster > 0
  BY Numbers
<1> HIDE DEF k
<1>7. /\ AtaInv' /\ io'.pc \in {"reset", "err"}
      /\ io'.pc = "reset" => /\ io'.sector = start_sector + k /\ io'.count = sectors_per_cluster
                             /\ start_sector + k + sectors_per_cluster <= end_sector
      /\ io'.pc = "err" => start_sector + k + sectors_per_cluster > end_sector
  BY <1>1, <1>2, <1>3, <1>6, PartitionCall
<1> QED
  BY <1>3, <1>5, <1>7, MakeCall

\* The read of an entry of the FAT.
LEMMA NextCallInv ==
    ASSUME Inv, NextCall
    PROVE  AtaInv' /\ CallInv'
<1>1. AtaInv /\ read.cluster \in Nat /\ pc \in {"skip", "next"} /\ ~volume.fat_in_mem
  BY DEF Inv, ReadInv, Reads, NextCall
<1> DEFINE k == reserved_sectors + read.cluster \div SectorEntries
<1>2. UNCHANGED fatVars /\ UNCHANGED <<count0, drive, faults>> /\ PartitionRead(k, 2)
  BY DEF NextCall
<1>3. AskedSector' = AskedSector /\ AskedCount' = AskedCount /\ AskedLimit' = AskedLimit
      /\ pc' = pc /\ volume' = volume
  BY <1>2, SameAsked DEF fatVars
<1>4. read.cluster \div SectorEntries \in Nat /\ start_sector \in Nat /\ reserved_sectors \in Nat
  BY <1>1, Numbers, DivMod
<1>5. k \in Int /\ start_sector + k \in Nat
      /\ start_sector + k = start_sector + reserved_sectors + read.cluster \div SectorEntries
  BY <1>4
<1>6. AskedSector = start_sector + k /\ AskedCount = 2 /\ AskedLimit = end_sector
  BY <1>1, <1>5 DEF AskedSector, AskedCount, AskedLimit
<1> HIDE DEF k
<1>7. /\ AtaInv' /\ io'.pc \in {"reset", "err"}
      /\ io'.pc = "reset" => /\ io'.sector = start_sector + k /\ io'.count = 2
                             /\ start_sector + k + 2 <= end_sector
      /\ io'.pc = "err" => start_sector + k + 2 > end_sector
  BY <1>1, <1>2, <1>5, PartitionCall, 2 \in Nat, 2 > 0
<1> QED
  BY <1>1, <1>3, <1>6, <1>7, MakeCall

\* The read of a cluster.
LEMMA ClusterCallInv ==
    ASSUME Inv, ClusterCall
    PROVE  AtaInv' /\ CallInv'
<1>1. AtaInv /\ volume \in Volumes /\ read.cluster \in Nat /\ pc = "cluster"
  BY DEF Inv, ReadInv, Reads, MountInv, ClusterCall
<1> DEFINE k == cluster_to_sector(read.cluster)
<1>2. UNCHANGED fatVars /\ UNCHANGED <<count0, drive, faults>> /\ PartitionRead(k, sectors_per_cluster)
  BY DEF ClusterCall
<1>3. AskedSector' = AskedSector /\ AskedCount' = AskedCount /\ AskedLimit' = AskedLimit
      /\ pc' = pc /\ volume' = volume
  BY <1>2, SameAsked DEF fatVars
<1>4. k \in Nat /\ start_sector + k \in Nat /\ sectors_per_cluster \in Nat /\ sectors_per_cluster > 0
  BY <1>1, Numbers, ClusterSector
<1>5. AskedSector = start_sector + k /\ AskedCount = sectors_per_cluster /\ AskedLimit = end_sector
  BY <1>1 DEF AskedSector, AskedCount, AskedLimit
<1> HIDE DEF k
<1>6. k \in Int
  BY <1>4
<1>7. /\ AtaInv' /\ io'.pc \in {"reset", "err"}
      /\ io'.pc = "reset" => /\ io'.sector = start_sector + k /\ io'.count = sectors_per_cluster
                             /\ start_sector + k + sectors_per_cluster <= end_sector
      /\ io'.pc = "err" => start_sector + k + sectors_per_cluster > end_sector
  BY <1>1, <1>2, <1>4, <1>6, PartitionCall
<1> QED
  BY <1>1, <1>3, <1>5, <1>7, MakeCall

\* The steps of the kernel that make no call: they end one, or none is under way.
Quiet ==
    \/ ProbeOk \/ ProbePanic \/ ProbeDone
    \/ LookupRead \/ FindOverrun \/ FindEnd \/ FindUnused \/ FindLong \/ FindNoText \/ FindEntry
    \/ NextInMemory \/ NextRead \/ ClusterRead
    \/ \E f \in DOMAIN Entries : \E count, offset \in 0 .. Entries[f].file_size : Read(f, count, offset)

\* No call of the drive is under way behind one of them.
LEMMA QuietCall ==
    ASSUME Inv, Quiet
    PROVE  AtaInv' /\ CallInv' /\ faults' = faults
<1>1. AtaInv /\ CallInv
  BY DEF Inv
<1>2. CASE ProbeOk \/ LookupRead \/ NextRead \/ ClusterRead
  <2>1. io' = IoIdle /\ UNCHANGED <<count0, drive, faults>>
    BY <1>2 DEF ProbeOk, LookupRead, NextRead, ClusterRead
  <2>2. AtaInv' /\ io'.pc = "idle"
    BY <1>1, <2>1, CallEnd DEF IoIdle
  <2> QED
    BY <2>1, <2>2, NoCall
<1>3. CASE ~(ProbeOk \/ LookupRead \/ NextRead \/ ClusterRead)
  <2>1. UNCHANGED ataVars
    BY <1>3 DEF Quiet, ProbePanic, ProbeDone, FindOverrun, FindEnd, FindUnused, FindLong, FindNoText,
                FindEntry, NextInMemory, Read
  <2>2. AtaInv' /\ faults' = faults /\ io' = io
    BY <1>1, <2>1 DEF AtaInv, ataVars
  <2>3. io.pc = "idle" \/ pc' = "panic"
    BY <1>1, <1>3 DEF Quiet, ProbePanic, ProbeDone, FindOverrun, FindEnd, FindUnused, FindLong, FindNoText,
                FindEntry, Finding, NextInMemory, Read, CallInv
  <2> QED
    BY <2>2, <2>3, NoCall
<1> QED
  BY <1>2, <1>3

-----------------------------------------------------------------------------
(* Mounting.                                                               *)

\* The FAT in memory does not change with the state.
LEMMA SameFat ==
    ASSUME volume' = volume
    PROVE  \A m : FatOf(m)' = FatOf(m)
BY SameVolume DEF FatOf

\* A step that leaves the volume and what was read of it as they are.
LEMMA LaterSteps ==
    ASSUME Inv, volume' = volume, fat' = fat, probe' = probe, faults' >= faults, faults \in Nat, faults' \in Nat,
           pc \in Mounted, pc' \in Mounted \union {"panic"}, result' \in {"none", "ok", "err", "panic"},
           pc' = "panic" => read' # NoRead \/ find' # NoFind, pc' \in Mounted => result' # "panic"
    PROVE  MountInv'
<1>1. MountInv
  BY DEF Inv
<1>2. fat_type' = fat_type /\ NewReads' = NewReads /\ ProbeReads' = ProbeReads
  BY SameVolume
<1>3. \A m : FatOf(m)' = FatOf(m)
  BY SameFat
<1>4. FatRead' = FatRead
  BY <1>2 DEF FatRead
<1>5. PICK m \in Nat : m = FatRead /\ fat = FatOf(m)
  BY <1>1 DEF MountInv
<1>6. m = FatRead' /\ fat' = FatOf(m)'
  BY <1>3, <1>4, <1>5
<1>7. pc' \notin {"probe", "unmounted"} /\ pc \notin {"probe", "unmounted"}
  BY DEF Mounted
<1>8. (pc' = "panic" /\ read' = NoRead /\ find' = NoFind) => ProbeFails'
  OBVIOUS
<1>9. probe' \in 0 .. ProbeReads' /\ (pc' \in Mounted => probe' = ProbeReads' /\ result' # "panic")
  BY <1>1, <1>2 DEF MountInv
<1>10. volume' \in Volumes /\ (pc' \in Mounted => fat_type' = volume'.format)
  BY <1>1, <1>2 DEF MountInv
<1>11. pc' \in {"probe", "panic", "unmounted"} \union Mounted
  OBVIOUS
<1> QED
  BY <1>6, <1>7, <1>8, <1>9, <1>10, <1>11 DEF MountInv, Mounted

\* A step of the driver or of the drive, and one in which nothing happens.
LEMMA MountSame ==
    ASSUME Inv, UNCHANGED fatVars, faults' >= faults, faults \in Nat, faults' \in Nat
    PROVE  MountInv'
<1>1. MountInv /\ volume' = volume /\ fat' = fat /\ pc' = pc /\ probe' = probe /\ find' = find
      /\ read' = read /\ result' = result
  BY DEF Inv, fatVars
<1>2. fat_type' = fat_type /\ NewReads' = NewReads /\ ProbeReads' = ProbeReads
  BY <1>1, SameVolume
<1>3. \A m : FatOf(m)' = FatOf(m)
  BY <1>1, SameFat
<1>4. FatRead' = FatRead
  BY <1>1, <1>2 DEF FatRead
<1>5. \E m \in Nat : m = FatRead' /\ fat' = FatOf(m)'
  BY <1>1, <1>3, <1>4 DEF MountInv
<1>6. (PassedOver => PassedOver') /\ (ProbeFails => ProbeFails')
  BY <1>1 DEF PassedOver, ProbeFails, Misread
<1> QED
  BY <1>1, <1>2, <1>5, <1>6 DEF MountInv

\* The reads while a volume is probed are of sectors that are there.
LEMMA ProbeInRange ==
    ASSUME volume \in Volumes, pc = "probe", probe \in Nat, probe < ProbeReads
    PROVE  ~(AskedSector + AskedCount > AskedLimit)
<1>1. NewReads \in {4, 5} /\ (ProbeReads = NewReads \/ ProbeReads = NewReads + sectors_per_fat)
  BY VolumeNumbers DEF ProbeReads, NewReads
<1>2. start_sector \in Nat /\ end_sector \in Nat /\ reserved_sectors \in Nat /\ TableSectors \in Nat \ {0}
      /\ SectorCount \in Nat /\ sectors_per_fat \in Nat
  BY Numbers, AtaAssumption
<1>3. /\ 2 + TableSectors <= SectorCount /\ reserved_sectors > 0
      /\ start_sector + reserved_sectors + sectors_per_fat < end_sector
  BY LayoutAssumption
<1>4. CASE probe < 3
  <2>1. AskedSector = probe /\ AskedCount = (IF probe = 2 THEN TableSectors ELSE 1) /\ AskedLimit = SectorCount
    BY <1>4 DEF AskedSector, AskedCount, AskedLimit
  <2> QED
    BY <1>2, <1>3, <1>4, <2>1
<1>5. CASE probe >= 3 /\ probe < NewReads
  <2>1. ~(probe < 3) /\ probe # 2 /\ ~(probe >= NewReads)
    BY <1>1, <1>5
  <2>2. AskedSector = start_sector + (probe - 3) /\ AskedCount = 1 /\ AskedLimit = end_sector
    BY <1>5, <2>1 DEF AskedSector, AskedCount, AskedLimit
  <2>3. probe - 3 \in {0, 1}
    BY <1>1, <1>5
  <2> QED
    BY <1>2, <1>3, <2>2, <2>3
<1>6. CASE probe >= 3 /\ probe >= NewReads
  <2>1. ~(probe < 3) /\ probe # 2 /\ ~(probe < NewReads)
    BY <1>1, <1>6
  <2>2. AskedSector = start_sector + reserved_sectors + (probe - NewReads) /\ AskedCount = 1
        /\ AskedLimit = end_sector
    BY <1>6, <2>1 DEF AskedSector, AskedCount, AskedLimit
  <2>3. probe - NewReads \in Nat /\ probe - NewReads < sectors_per_fat
    BY <1>1, <1>2, <1>6
  <2> QED
    BY <1>2, <1>3, <2>2, <2>3
<1> QED
  BY <1>1, <1>4, <1>5, <1>6

\* What the kernel makes of the boot sector.
LEMMA JudgedRight ==
    ASSUME volume \in Volumes, probe \in Nat
    PROVE  /\ Judged \in {"probe", "panic", "unmounted"}
           /\ Judged = "panic" => ~volume.gpt \/ Misread
           /\ Judged = "unmounted" => PassedOver
           /\ Judged = "probe" /\ probe = 3 => fat_type = volume.format
<1>1. volume.format \in {12, 16, 32}
  BY VolumeNumbers
<1>2. Overflows => Misread
  BY Recognises DEF Misread
<1>3. ~Identified => PassedOver
  <2>1. SUFFICES ASSUME ~PassedOver PROVE Identified
    OBVIOUS
  <2>2. /\ volume.system_identifier = FormatName(volume)
        /\ volume.format = 32 \/ (volume.total_sectors # 0 /\ ~Wrapped(volume))
        /\ volume.format = 32 => ~(ClustersOf(volume) < Fat16Limit)
    BY <2>1 DEF PassedOver, Misread
  <2>3. fat_type = volume.format
    BY <1>1, <2>2, Recognises, Numbers
  <2> QED
    BY <2>2, <2>3, NameDecides
<1>4. Identified => fat_type = volume.format
  BY NameDecides
<1>5. Judged \in {"probe", "panic", "unmounted"}
  BY DEF Judged
<1>6. Judged = "panic" => ~volume.gpt \/ Overflows
  BY DEF Judged
<1>7. Judged = "unmounted" => ~volume.esp \/ ~Identified
  BY DEF Judged
<1>8. Judged = "probe" /\ probe = 3 => Identified
  BY DEF Judged
<1> QED
  BY <1>2, <1>3, <1>4, <1>5, <1>6, <1>7, <1>8 DEF PassedOver

\* A read that has brought something: where it is from.
LEMMA Brought ==
    ASSUME Inv, pc \in {"probe"} \union Mounted, io.pc = "ok"
    PROVE  /\ io.buffer \in Seq(Nat) /\ Len(io.buffer) = AskedCount /\ io.buffer[1] = AskedSector
           /\ \A k \in 1 .. Len(io.buffer) : io.buffer[k] = AskedSector + (k - 1)
           /\ AskedSector + AskedCount <= AskedLimit
<1>1. /\ Len(io.buffer) = io.count /\ io.count > 0 /\ io.count \in Nat /\ io.sector \in Nat
      /\ \A k \in 1 .. Len(io.buffer) : io.buffer[k] = io.sector + (k - 1)
  BY DEF Inv, AtaInv
<1>2. io.buffer \in Seq(Nat)
  BY DEF Inv, AtaInv
<1>3. io.sector = AskedSector /\ io.count = AskedCount /\ AskedSector + AskedCount <= AskedLimit
  BY DEF Inv, CallInv
<1>4. 1 \in 1 .. Len(io.buffer) /\ io.sector + (1 - 1) = io.sector
  BY <1>1
<1>5. io.buffer[1] = io.sector
  BY <1>1, <1>4
<1> QED
  BY <1>1, <1>2, <1>3, <1>5

\* A read of the volume that succeeded.
LEMMA ProbeOkMount ==
    ASSUME Inv, ProbeOk
    PROVE  MountInv'
<1>1. MountInv /\ pc = "probe" /\ io.pc = "ok"
  BY DEF Inv, ProbeOk
<1>2. volume \in Volumes /\ probe \in 0 .. ProbeReads /\ find = NoFind /\ read = NoRead /\ result = "none"
  BY <1>1 DEF MountInv
<1>3. /\ volume' = volume /\ find' = find /\ read' = read /\ faults' = faults /\ probe' = probe + 1
      /\ pc' = Judged /\ result' = IF Judged = "panic" THEN "panic" ELSE result
      /\ fat' = IF probe >= NewReads THEN fat \o EntriesOf(io.buffer[1]) ELSE fat
  BY DEF ProbeOk
<1>4. fat_type' = fat_type /\ NewReads' = NewReads /\ ProbeReads' = ProbeReads
  BY <1>3, SameVolume
<1>5. NewReads \in {4, 5} /\ ProbeReads \in Nat /\ probe \in Nat
  BY <1>2, VolumeNumbers
<1>6. probe < ProbeReads
  BY <1>1 DEF Inv, CallInv
<1>7. probe' \in 0 .. ProbeReads'
  BY <1>3, <1>4, <1>5, <1>6
<1>8. /\ Judged \in {"probe", "panic", "unmounted"}
      /\ Judged = "panic" => ~volume.gpt \/ Misread
      /\ Judged = "unmounted" => PassedOver
      /\ Judged = "probe" /\ probe = 3 => fat_type = volume.format
  BY <1>2, <1>5, JudgedRight
<1>9. \E m \in Nat : m = FatRead' /\ fat' = FatOf(m)'
  <2>1. \A m : FatOf(m)' = FatOf(m)
    BY <1>3, SameFat
  <2>2. PICK m \in Nat : m = FatRead /\ fat = FatOf(m)
    BY <1>1 DEF MountInv
  <2>3. CASE probe >= NewReads
    <3>1. io.buffer[1] = AskedSector
      BY <1>1, Brought
    <3>2. AskedSector = start_sector + reserved_sectors + m
      <4>1. ~(probe < 3) /\ ~(probe < NewReads) /\ probe >= 3 /\ m = probe - NewReads
        BY <1>5, <2>2, <2>3 DEF FatRead
      <4> QED
        BY <1>1, <2>3, <4>1 DEF AskedSector
    <3>3. fat' = FatOf(m + 1)
      BY <1>3, <2>2, <2>3, <3>1, <3>2, FatGrows
    <3>4. FatRead' = m + 1
      BY <1>3, <1>4, <1>5, <2>2, <2>3 DEF FatRead
    <3> QED
      BY <2>1, <3>3, <3>4
  <2>4. CASE probe < NewReads
    <3>1. m = 0 /\ FatRead' = 0
      BY <1>3, <1>4, <1>5, <2>2, <2>4 DEF FatRead
    <3>2. fat' = FatOf(0)
      BY <1>3, <1>5, <2>2, <2>4, <3>1
    <3> QED
      BY <2>1, <3>1, <3>2
  <2> QED
    BY <1>5, <2>3, <2>4
<1>10. pc' = "probe" /\ probe' > 3 => fat_type' = volume'.format
  <2>1. probe > 3 => fat_type = volume.format
    BY <1>1 DEF MountInv
  <2> QED
    BY <1>3, <1>4, <1>5, <1>8, <2>1
<1>11. (pc' = "unmounted" => PassedOver') /\ (pc' = "panic" => ProbeFails')
  BY <1>3, <1>8 DEF PassedOver, ProbeFails, Misread
<1>12. pc' \in {"probe", "panic", "unmounted"} /\ pc' \notin Mounted
       /\ result' = IF pc' = "panic" THEN "panic" ELSE "none"
  BY <1>2, <1>3, <1>8 DEF Mounted
<1> QED
  BY <1>2, <1>3, <1>7, <1>9, <1>10, <1>11, <1>12 DEF MountInv

\* One that failed, and the last one.
LEMMA ProbeEndMount ==
    ASSUME Inv, ProbePanic \/ ProbeDone
    PROVE  MountInv'
<1>1. MountInv /\ pc = "probe"
  BY DEF Inv, ProbePanic, ProbeDone
<1>2. volume \in Volumes /\ probe \in 0 .. ProbeReads /\ find = NoFind /\ read = NoRead /\ result = "none"
  BY <1>1 DEF MountInv
<1>3. /\ volume' = volume /\ find' = find /\ read' = read /\ faults' = faults /\ probe' = probe
      /\ fat' = fat
  BY DEF ProbePanic, ProbeDone, ataVars
<1>4. fat_type' = fat_type /\ NewReads' = NewReads /\ ProbeReads' = ProbeReads
  BY <1>3, SameVolume
<1>5. \A m : FatOf(m)' = FatOf(m)
  BY <1>3, SameFat
<1>6. FatRead' = FatRead
  BY <1>3, <1>4 DEF FatRead
<1>7. \E m \in Nat : m = FatRead' /\ fat' = FatOf(m)'
  BY <1>1, <1>3, <1>5, <1>6 DEF MountInv
<1>8. NewReads \in {4, 5} /\ ProbeReads \in Nat /\ ProbeReads >= NewReads
  BY <1>2, VolumeNumbers, Numbers DEF ProbeReads
<1>9. CASE ProbePanic
  <2>1. pc' = "panic" /\ result' = "panic" /\ io.pc = "err"
    BY <1>9 DEF ProbePanic
  <2>2. probe < ProbeReads /\ (faults > 0 \/ AskedSector + AskedCount > AskedLimit)
    BY <1>1, <2>1 DEF Inv, CallInv
  <2>3. ~(AskedSector + AskedCount > AskedLimit)
    BY <1>1, <1>2, <1>8, <2>2, ProbeInRange
  <2>4. faults > 0
    BY <2>2, <2>3
  <2>5. ProbeFails'
    BY <1>3, <2>4 DEF ProbeFails
  <2> QED
    BY <1>2, <1>3, <1>4, <1>7, <2>1, <2>5 DEF MountInv, Mounted
<1>10. CASE ProbeDone
  <2>1. pc' = "idle" /\ result' = "none" /\ probe = ProbeReads
    BY <1>2, <1>10 DEF ProbeDone
  <2>2. probe > 3
    BY <1>8, <2>1
  <2>3. fat_type = volume.format
    BY <1>1, <2>2 DEF MountInv
  <2> QED
    BY <1>2, <1>3, <1>4, <1>7, <2>1, <2>3 DEF MountInv, Mounted
<1> QED
  BY <1>9, <1>10

-----------------------------------------------------------------------------
(* Reading a file.                                                         *)

\* How far a read is does not change with the state.
LEMMA SameProgress ==
    ASSUME volume' = volume
    PROVE  /\ \A r : AtCluster(r)' = AtCluster(r) /\ AtNext(r)' = AtNext(r) /\ Complete(r)' = Complete(r)
           /\ \A r : Plain(r)' = Plain(r)
           /\ \A c : SectorOf(c)' = SectorOf(c)
           /\ Wrapped(volume)' = Wrapped(volume)
<1>1. (\A f, k : FileByte(f, k)' = FileByte(f, k)) /\ (\A c : SectorOf(c)' = SectorOf(c))
      /\ Wrapped(volume)' = Wrapped(volume)
  BY SameVolume
<1>2. \A b, f, at : FromFile(b, f, at)' = FromFile(b, f, at)
  BY <1>1 DEF FromFile
<1>3. \A r : AtCluster(r)' = AtCluster(r) /\ AtNext(r)' = AtNext(r) /\ Complete(r)' = Complete(r)
  BY <1>2 DEF AtCluster, AtNext, Complete, HasRead
<1>4. \A r : Plain(r)' = Plain(r)
  BY <1>1 DEF Plain
<1> QED
  BY <1>1, <1>3, <1>4

\* What a read consists of.
LEMMA ReadFields ==
    ASSUME NEW r \in Reads
    PROVE  /\ r.file \in Nat /\ r.asked \in Nat /\ r.count \in Nat /\ r.offset \in Nat
           /\ r.skip \in Nat /\ r.cluster \in Nat
BY DEF Reads

\* The bytes of a read.
LEMMA ReadBytes ==
    ASSUME NEW r \in Reads
    PROVE  r.bytes \in Seq(Nat) /\ Len(r.bytes) \in Nat
BY DEF Reads

\* A read that goes to another cluster.
MovesTo(r, c, k, s) == s = [r EXCEPT !.cluster = c, !.skip = k]

\* What such a read consists of.
LEMMA ReadMoves ==
    ASSUME NEW r \in Reads, NEW c \in Nat, NEW k \in Nat, NEW s, MovesTo(r, c, k, s)
    PROVE  /\ s \in Reads /\ s.file = r.file /\ s.asked = r.asked /\ s.count = r.count
           /\ s.offset = r.offset /\ s.cluster = c /\ s.bytes = r.bytes /\ s.skip = k
BY DEF Reads, MovesTo

\* A read that gets more bytes.
GrowsTo(r, b, s) == s = [r EXCEPT !.offset = 0, !.bytes = b]

\* What such a read consists of.
LEMMA ReadGrows ==
    ASSUME NEW r \in Reads, NEW b \in Seq(Nat), NEW s, GrowsTo(r, b, s)
    PROVE  /\ s \in Reads /\ s.file = r.file /\ s.asked = r.asked /\ s.count = r.count
           /\ s.offset = 0 /\ s.cluster = r.cluster /\ s.bytes = b /\ s.skip = r.skip
BY DEF Reads, GrowsTo

\* No read is under way.
LEMMA NoReadInv ==
    ASSUME read' = NoRead, pc' \notin {"skip", "cluster", "next"}
    PROVE  ReadInv'
<1>1. NoRead \in Reads
  BY DEF NoRead, Reads
<1>2. NoRead.file = 0 /\ NoRead.count = 0 /\ Len(NoRead.bytes) = 0
  BY DEF NoRead
<1>3. ReadOf(NoRead)'
  BY <1>2 DEF ReadOf
<1> QED
  BY <1>1, <1>3 DEF ReadInv

\* The read is left as it is.
LEMMA ReadSame ==
    ASSUME ReadInv, UNCHANGED <<volume, pc, read, result>>, faults' >= faults, faults \in Nat, faults' \in Nat
    PROVE  ReadInv'
<1>1. SUFFICES ASSUME NEW r, r = read PROVE ReadOf(r)'
  BY DEF ReadInv
<1>2. ReadOf(r)
  BY <1>1 DEF ReadInv
<1>3. AtCluster(r)' = AtCluster(r) /\ AtNext(r)' = AtNext(r) /\ Complete(r)' = Complete(r)
      /\ Plain(r)' = Plain(r) /\ SectorOf(r.cluster)' = SectorOf(r.cluster)
      /\ Wrapped(volume)' = Wrapped(volume)
  BY SameProgress
<1>4. ReadFails(r) => ReadFails(r)'
  BY DEF ReadFails
<1> QED
  BY <1>2, <1>3, <1>4 DEF ReadOf

\* A read begins: nothing has been read, and the first cluster is the next one.
LEMMA ReadBegins ==
    ASSUME Inv, NEW f \in DOMAIN Entries, NEW count \in 0 .. Entries[f].file_size,
           NEW offset \in 0 .. Entries[f].file_size, Read(f, count, offset)
    PROVE  ReadInv' /\ read'.file # 0 /\ pc' \in {"skip", "cluster"}
<1>1. Entries[f] \in [cluster : Nat, file_size : Nat] /\ f \in Nat \ {0}
  BY FileEntry
<1>2. count \in Nat /\ offset \in Nat /\ cluster_size \in Nat \ {0} /\ Entries[f].cluster \in Nat
  BY <1>1, Numbers
<1> DEFINE q == offset \div cluster_size
           b == q * cluster_size
<1>3. q \in Nat /\ offset = b + (offset % cluster_size) /\ offset % cluster_size \in 0 .. (cluster_size - 1)
      /\ b \in Nat
  BY <1>2, DivMod
<1>4. q > 0 => b >= cluster_size
  BY <1>2, <1>3, TimesAtLeast, 1 \in Nat, 1 * cluster_size = cluster_size
<1>5. q > 0 => offset >= cluster_size
  <2> HIDE DEF b
  <2> QED
    BY <1>2, <1>3, <1>4
<1>6. SUFFICES ASSUME NEW s, s = read'
               PROVE  /\ s \in Reads
                      /\ ReadOf(s)' /\ read'.file # 0 /\ pc' \in {"skip", "cluster"}
  BY DEF ReadInv
<1>7. /\ s = [file |-> f, asked |-> offset, count |-> count, offset |-> offset, skip |-> q,
              cluster |-> Entries[f].cluster, bytes |-> <<>>]
      /\ pc' = (IF q > 0 THEN "skip" ELSE "cluster") /\ result' = "none" /\ volume' = volume
      /\ count + offset <= Entries[f].file_size
  BY <1>6 DEF Read
<1> HIDE DEF q
<1>8. /\ s \in Reads
      /\ s.file = f /\ s.asked = offset /\ s.count = count /\ s.offset = offset /\ s.skip = q
      /\ s.cluster = Entries[f].cluster /\ s.bytes = <<>>
  BY <1>1, <1>2, <1>3, <1>7 DEF Reads
<1>9. Len(s.bytes) = 0
  BY <1>8
<1>10. AtCluster(s)'
  <2>1. s.cluster = ClusterOf(s.file, 0)
    BY <1>8, Clusters, 0 \in Nat
  <2>2. s.offset = OffsetIn(0, s.asked)
    BY <1>8 DEF OffsetIn
  <2>3. HasRead(0, s.file, s.asked, s.count, s.bytes)
    BY <1>9 DEF HasRead, SizeAfter, FromFile
  <2>4. AtCluster(s)
    BY <2>1, <2>2, <2>3, 0 \in Nat DEF AtCluster
  <2> QED
    BY <1>7, <2>4, SameProgress
<1>11. ReadOf(s)'
  BY <1>1, <1>2, <1>5, <1>7, <1>8, <1>9, <1>10 DEF ReadOf
<1>12. read'.file # 0 /\ pc' \in {"skip", "cluster"}
  BY <1>1, <1>6, <1>7, <1>8
<1> QED
  BY <1>8, <1>11, <1>12

\* The next cluster of the chain.
LEMMA FollowInv ==
    ASSUME ReadInv, volume \in Volumes, volume' = volume, pc \in {"skip", "next"}, NEW next \in Nat, Follow(next),
           volume.format # 12 /\ ~Wrapped(volume) /\ pc = "next" => next = DiskFat[read.cluster]
    PROVE  ReadInv' /\ read'.file # 0 /\ pc' \in {"skip", "cluster", "idle"} /\ result' \in {"none", "ok"}
<1>1. SUFFICES ASSUME NEW r, r = read, NEW s, s = read'
               PROVE  /\ s \in Reads
                      /\ ReadOf(s)' /\ read'.file # 0
                      /\ pc' \in {"skip", "cluster", "idle"} /\ result' \in {"none", "ok"}
  BY DEF ReadInv
<1>2. /\ ReadOf(r)
      /\ r \in Reads
  BY <1>1 DEF ReadInv
<1>3. /\ r.file \in DOMAIN Entries /\ result = "none" /\ r.count + r.asked <= Entries[r.file].file_size
      /\ pc = "skip" => r.skip > 0 /\ r.asked >= cluster_size
      /\ Len(r.bytes) <= r.count
      /\ pc = "next" /\ Plain(r) => AtNext(r)
  BY <1>2 DEF ReadOf
<1>4. s = [r EXCEPT !.cluster = next, !.skip = IF pc = "skip" THEN r.skip - 1 ELSE r.skip]
  BY <1>1 DEF Follow
<1>5. r.file \in Nat /\ r.asked \in Nat /\ r.count \in Nat /\ r.skip \in Nat
  BY <1>2, ReadFields
<1>6. PICK k \in Nat : k = IF pc = "skip" THEN r.skip - 1 ELSE r.skip
  BY <1>3, <1>5
<1>7. /\ s \in Reads /\ s.file = r.file /\ s.asked = r.asked /\ s.count = r.count
      /\ s.offset = r.offset /\ s.cluster = next /\ s.bytes = r.bytes /\ s.skip = k
  <2>1. MovesTo(r, next, k, s)
    BY <1>4, <1>6 DEF MovesTo
  <2>2. r \in Reads
    BY <1>2
  <2> QED
    BY <2>1, <2>2, ReadMoves
<1>8. r.file # 0 /\ cluster_size \in Nat
  BY <1>3, FileEntry, Numbers
<1>9. Plain(s)' = Plain(r) /\ (Plain(r) => volume.format # 12 /\ ~Wrapped(volume) /\ r.asked < cluster_size)
  BY <1>7, SameProgress DEF Plain
<1>10. CASE pc = "skip"
  <2>1. ~Plain(r)
    BY <1>3, <1>5, <1>8, <1>9, <1>10
  <2>2. pc' = (IF r.skip = 1 THEN "cluster" ELSE "skip") /\ result' = "none"
    BY <1>1, <1>3, <1>10 DEF Follow
  <2>3. pc' = "skip" => s.skip > 0
    BY <1>3, <1>5, <1>6, <1>7, <1>10, <2>2
  <2> QED
    BY <1>1, <1>2, <1>3, <1>7, <1>8, <1>9, <1>10, <2>1, <2>2, <2>3 DEF ReadOf
<1>11. CASE pc = "next"
  <2>1. \/ next >= EOC /\ pc' = "idle" /\ result' = "ok"
        \/ next < EOC /\ pc' = "cluster" /\ result' = "none"
    BY <1>3, <1>11 DEF Follow, Return, EOC
  <2>2. ASSUME Plain(r)
        PROVE  AtCluster(s)' /\ (next >= EOC => Complete(s)')
    <3>1. PICK n \in Nat : /\ r.cluster = ClusterOf(r.file, n) /\ r.offset = 0
                           /\ HasRead(n + 1, r.file, r.asked, r.count, r.bytes)
      BY <1>3, <1>11, <2>2 DEF AtNext
    <3>2. next = ClusterOf(r.file, n + 1)
      BY <1>1, <1>9, <1>11, <2>2, <3>1, Clusters
    <3>3. s.offset = OffsetIn(n + 1, s.asked)
      <4>1. n + 1 # 0
        OBVIOUS
      <4> QED
        BY <1>7, <3>1, <4>1 DEF OffsetIn
    <3>4. AtCluster(s)
      BY <1>7, <3>1, <3>2, <3>3, n + 1 \in Nat DEF AtCluster
    <3>5. ASSUME next >= EOC PROVE Complete(s)
      <4>1. SizeAfter(n + 1, r.asked, r.count) = r.count
        BY <1>3, <1>5, <3>2, <3>5, ReadComplete
      <4> QED
        BY <1>7, <3>1, <4>1 DEF Complete, HasRead
    <3> QED
      BY <3>4, <3>5, SameProgress
  <2> QED
    BY <1>1, <1>2, <1>3, <1>7, <1>8, <1>9, <1>11, <2>1, <2>2 DEF ReadOf
<1> QED
  BY <1>10, <1>11

\* A read ends without more bytes: the drive failed, or the kernel panics.
LEMMA ReadStops ==
    ASSUME ReadInv, pc \in {"skip", "cluster", "next"}, volume' = volume, faults' = faults, read' = read,
           NEW r, r = read,
           \/ /\ result' = "err" /\ pc' = "idle"
              /\ ~Wrapped(volume) => faults > 0 \/ SectorOf(r.cluster) + sectors_per_cluster > end_sector
           \/ /\ result' = "panic" /\ pc' = "panic"
              /\ volume.format # 12 /\ ~Wrapped(volume) => ReadFails(r)
    PROVE  ReadInv' /\ read'.file # 0
<1>1. ReadOf(r) /\ r \in Reads
  BY DEF ReadInv
<1>2. r.file \in DOMAIN Entries /\ Len(r.bytes) <= r.count
  BY <1>1 DEF ReadOf
<1>3. r.file # 0
  BY <1>2, FileEntry
<1>4. SectorOf(r.cluster)' = SectorOf(r.cluster) /\ Wrapped(volume)' = Wrapped(volume)
  BY SameProgress
<1>5. ReadFails(r)' = ReadFails(r)
  BY DEF ReadFails
<1>6. ReadOf(r)'
  BY <1>2, <1>4, <1>5 DEF ReadOf
<1> QED
  BY <1>1, <1>3, <1>6 DEF ReadInv

\* The FAT has an entry for a cluster that was read, and get_next_cluster can read it.
LEMMA ClusterInFat ==
    ASSUME Inv, pc \in {"skip", "next"}, NEW r, r = read, NEW c \in Nat, c = r.cluster, ~Wrapped(volume)
    PROVE  /\ pc = "next" => /\ c < sectors_per_fat * SectorEntries
                             /\ start_sector + reserved_sectors + c \div SectorEntries + 2 <= end_sector
           /\ pc = "skip" => ReadFails(r)
<1>1. ReadOf(r) /\ volume \in Volumes
  BY DEF Inv, ReadInv, MountInv
<1>2. pc = "skip" => ReadFails(r)
  BY <1>1 DEF ReadOf, ReadFails
<1>3. pc = "next" => SectorOf(c) + sectors_per_cluster <= end_sector
  BY <1>1 DEF ReadOf
<1> QED
  BY <1>1, <1>2, <1>3, InFat

\* get_next_cluster has found the entry of the cluster.
LEMMA FoundNext ==
    ASSUME Inv, pc \in {"skip", "next"}, volume' = volume, NEW r, r = read, NEW next, next = ReadEntry(r.cluster),
           Follow(next)
    PROVE  ReadInv' /\ read'.file # 0 /\ pc' \in {"skip", "cluster", "idle"} /\ result' \in {"none", "ok"}
<1>1. ReadInv /\ volume \in Volumes /\ r \in Reads
  BY DEF Inv, ReadInv, MountInv
<1>2. r.cluster \in Nat
  BY <1>1, ReadFields
<1>3. fat_type = volume.format
  BY DEF Inv, MountInv, Mounted
<1>4. next \in Nat /\ (fat_type # 12 /\ r.cluster < sectors_per_fat * SectorEntries => next = DiskFat[r.cluster])
  BY <1>2, EntryRead
<1>5. ~Wrapped(volume) /\ pc = "next" => r.cluster < sectors_per_fat * SectorEntries
  BY <1>2, ClusterInFat
<1> QED
  BY <1>1, <1>3, <1>4, <1>5, FollowInv

\* get_next_cluster, from memory.
LEMMA NextInMemoryInv ==
    ASSUME Inv, NextInMemory
    PROVE  /\ ReadInv' /\ read'.file # 0 /\ pc' \in {"skip", "cluster", "idle", "panic"}
           /\ pc' # "panic" => result' \in {"none", "ok"}
<1>1. /\ pc \in {"skip", "next"} /\ volume.fat_in_mem /\ volume' = volume /\ faults' = faults
      /\ IF read.cluster < Len(fat) THEN Follow(fat[read.cluster + 1])
         ELSE Return("panic") /\ UNCHANGED read
  BY DEF NextInMemory, ataVars
<1>2. ReadInv /\ MountInv /\ volume \in Volumes
  BY DEF Inv, MountInv
<1>3. SUFFICES ASSUME NEW r, r = read
               PROVE  /\ ReadInv' /\ read'.file # 0 /\ pc' \in {"skip", "cluster", "idle", "panic"}
                      /\ pc' # "panic" => result' \in {"none", "ok"}
  OBVIOUS
<1>4. r.cluster \in Nat
  BY <1>2, <1>3, ReadFields DEF ReadInv
<1>5. PICK m \in Nat : m = FatRead /\ fat = FatOf(m)
  BY <1>2 DEF MountInv
<1>6. m = sectors_per_fat
  <2>1. probe = ProbeReads
    BY <1>1, <1>2 DEF MountInv, Mounted
  <2>2. NewReads \in {4, 5} /\ ProbeReads = NewReads + sectors_per_fat /\ sectors_per_fat \in Nat
    BY <1>1, <1>2, VolumeNumbers, Numbers DEF ProbeReads
  <2> QED
    BY <1>5, <2>1, <2>2 DEF FatRead
<1>7. Len(fat) = sectors_per_fat * SectorEntries
  BY <1>5, <1>6, FatGrows
<1>8. CASE r.cluster < Len(fat)
  <2>1. Follow(fat[r.cluster + 1])
    BY <1>1, <1>3, <1>8
  <2>2. fat[r.cluster + 1] = ReadEntry(r.cluster)
    <3>1. r.cluster + 1 \in 1 .. (m * SectorEntries) /\ (r.cluster + 1) - 1 = r.cluster
      BY <1>4, <1>6, <1>7, <1>8, Numbers
    <3>2. FatOf(m)[r.cluster + 1] = ReadEntry((r.cluster + 1) - 1)
      BY <3>1 DEF FatOf
    <3> QED
      BY <1>5, <3>1, <3>2
  <2> QED
    BY <1>1, <1>3, <2>1, <2>2, FoundNext
<1>9. CASE ~(r.cluster < Len(fat))
  <2>1. Return("panic") /\ UNCHANGED read
    BY <1>1, <1>3, <1>9
  <2>2. result' = "panic" /\ pc' = "panic" /\ read' = read
    BY <2>1 DEF Return
  <2>3. ~Wrapped(volume) => ReadFails(r)
    BY <1>1, <1>3, <1>4, <1>7, <1>9, ClusterInFat
  <2> QED
    BY <1>1, <1>2, <1>3, <2>2, <2>3, ReadStops
<1> QED
  BY <1>8, <1>9

\* get_next_cluster, from the drive.
LEMMA NextReadInv ==
    ASSUME Inv, NextRead
    PROVE  /\ ReadInv' /\ read'.file # 0 /\ pc' \in {"skip", "cluster", "idle", "panic"}
           /\ pc' # "panic" => result' \in {"none", "ok"}
<1>1. /\ pc \in {"skip", "next"} /\ io.pc \in {"ok", "err"} /\ volume' = volume /\ faults' = faults
      /\ IF io.pc = "ok" THEN Follow(EntriesOf(io.buffer[1])[(read.cluster % SectorEntries) + 1])
         ELSE Return("panic") /\ UNCHANGED read
  BY DEF NextRead
<1>2. ReadInv /\ MountInv /\ CallInv /\ volume \in Volumes
  BY DEF Inv, MountInv
<1>3. SUFFICES ASSUME NEW r, r = read
               PROVE  /\ ReadInv' /\ read'.file # 0 /\ pc' \in {"skip", "cluster", "idle", "panic"}
                      /\ pc' # "panic" => result' \in {"none", "ok"}
  OBVIOUS
<1>4. r.cluster \in Nat
  BY <1>2, <1>3, ReadFields DEF ReadInv
<1>5. ~volume.fat_in_mem
  BY <1>1, <1>2 DEF CallInv
<1>6. /\ AskedSector = start_sector + reserved_sectors + r.cluster \div SectorEntries
      /\ AskedCount = 2 /\ AskedLimit = end_sector
  BY <1>1, <1>3 DEF AskedSector, AskedCount, AskedLimit
<1>7. CASE io.pc = "ok"
  <2>1. io.buffer[1] = AskedSector
    BY <1>1, <1>7, Brought DEF Mounted
  <2> DEFINE q == r.cluster \div SectorEntries
             k == r.cluster % SectorEntries
  <2>2. SectorEntries \in Nat /\ SectorEntries > 0
    BY Numbers
  <2>3. q \in Nat /\ k \in 0 .. (SectorEntries - 1) /\ r.cluster = q * SectorEntries + k
    BY <1>4, <2>2, DivMod
  <2> HIDE DEF q, k
  <2>4. EntriesOf(start_sector + reserved_sectors + q)[k + 1] = ReadEntry(q * SectorEntries + k)
    BY <2>3, SectorEntry
  <2>5. Follow(EntriesOf(start_sector + reserved_sectors + q)[k + 1])
    BY <1>1, <1>3, <1>6, <1>7, <2>1 DEF q, k
  <2>6. Follow(ReadEntry(r.cluster))
    BY <2>3, <2>4, <2>5
  <2> QED
    BY <1>1, <1>3, <2>6, FoundNext
<1>8. CASE io.pc = "err"
  <2>1. Return("panic") /\ UNCHANGED read
    BY <1>1, <1>8
  <2>2. result' = "panic" /\ pc' = "panic" /\ read' = read
    BY <2>1 DEF Return
  <2>3. faults > 0 \/ AskedSector + AskedCount > AskedLimit
    BY <1>1, <1>2, <1>8 DEF CallInv, Mounted
  <2>4. r.cluster \div SectorEntries \in Nat
    BY <1>4, Numbers, DivMod
  <2>5. ASSUME ~Wrapped(volume) PROVE ReadFails(r)
    <3>1. CASE faults > 0
      BY <1>5, <3>1 DEF ReadFails
    <3>2. CASE AskedSector + AskedCount > AskedLimit
      <4>1. start_sector + reserved_sectors + r.cluster \div SectorEntries + 2 > end_sector
        BY <1>6, <3>2
      <4>2. pc # "next"
        BY <1>1, <1>3, <1>4, <2>4, <2>5, <4>1, Numbers, ClusterInFat
      <4> QED
        BY <1>1, <1>3, <1>4, <2>5, <4>2, ClusterInFat
    <3> QED
      BY <2>3, <3>1, <3>2
  <2> QED
    BY <1>1, <1>2, <1>3, <2>2, <2>5, ReadStops
<1> QED
  BY <1>1, <1>7, <1>8

\* The numbers of a copy that stays inside the cluster.
Fitting(count, size, offset, copy) ==
    /\ count \in Nat /\ offset \in Nat /\ size \in Nat /\ copy = CopyOf(count, size, offset)
    /\ size <= count /\ ~(copy < 0 \/ offset + copy > cluster_size)

\* What is copied is bytes, and no more than were asked for.
LEMMA CopyFits ==
    ASSUME volume \in Volumes, NEW c \in Nat, NEW s, ClusterBuffer(s, c), NEW b \in Seq(Nat),
           NEW count, NEW offset, NEW copy, Fitting(count, Len(b), offset, copy),
           NEW t, t = b \o Piece(s, offset, copy)
    PROVE  copy \in Nat /\ t \in Seq(Nat) /\ Len(t) <= count
<1> DEFINE p == Piece(s, offset, copy)
           first == start_sector + cluster_to_sector(c)
           size == Len(b)
<1>1. count \in Nat /\ offset \in Nat /\ size \in Nat /\ copy = CopyOf(count, size, offset)
      /\ size <= count /\ ~(copy < 0 \/ offset + copy > cluster_size)
  BY DEF Fitting
<1> HIDE DEF size
<1>2. cluster_size \in Nat /\ first \in Nat
  BY Numbers, ClusterSector
<1>3. copy \in Nat /\ offset + copy <= cluster_size /\ size + copy <= count
  BY <1>1, <1>2 DEF CopyOf
<1>4. ASSUME NEW k \in 1 .. copy
      PROVE  ByteOf(s, offset + (k - 1)) \in Nat
  <2>1. offset + (k - 1) \in 0 .. (cluster_size - 1)
    BY <1>1, <1>2, <1>3
  <2>2. Len(s) = sectors_per_cluster /\ \A j \in 1 .. Len(s) : s[j] = first + (j - 1)
    BY DEF ClusterBuffer
  <2>3. s \in Seq(Nat)
    BY DEF ClusterBuffer
  <2> HIDE DEF first
  <2> QED
    BY <1>2, <2>1, <2>2, <2>3, BufferByte
<1>5. p \in [1 .. copy -> Nat]
  BY <1>4 DEF Piece
<1>6. p \in Seq(Nat) /\ Len(p) = copy
  BY <1>3, <1>5, SequenceOf
<1>7. t \in Seq(Nat) /\ Len(t) = Len(b) + Len(p)
  BY <1>6, Concat
<1>8. Len(t) <= count
  BY <1>3, <1>6, <1>7 DEF size
<1> QED
  BY <1>3, <1>7, <1>8

\* The sectors of a cluster have been read.
LEMMA ClusterBrought ==
    ASSUME Inv, pc = "cluster", io.pc = "ok", NEW c \in Nat, c = read.cluster
    PROVE  /\ ClusterBuffer(io.buffer, c)
           /\ ~Wrapped(volume) => SectorOf(c) + sectors_per_cluster <= end_sector
<1>1. /\ Len(io.buffer) = AskedCount
      /\ \A k \in 1 .. Len(io.buffer) : io.buffer[k] = AskedSector + (k - 1)
      /\ AskedSector + AskedCount <= AskedLimit
  BY Brought DEF Mounted
<1>2. io.buffer \in Seq(Nat)
  BY Brought DEF Mounted
<1>3. AskedSector = start_sector + cluster_to_sector(c) /\ AskedCount = sectors_per_cluster
      /\ AskedLimit = end_sector
  BY DEF AskedSector, AskedCount, AskedLimit
<1>4. ~Wrapped(volume) => SectorOf(c) = start_sector + cluster_to_sector(c)
  BY ClusterSector DEF Inv, MountInv
<1>5. /\ Len(io.buffer) = sectors_per_cluster
      /\ ~Wrapped(volume) => SectorOf(c) + sectors_per_cluster <= end_sector
      /\ \A k \in 1 .. Len(io.buffer) : io.buffer[k] = (start_sector + cluster_to_sector(c)) + (k - 1)
  BY <1>1, <1>3, <1>4
<1> QED
  BY <1>2, <1>5 DEF ClusterBuffer

\* The cluster is copied.
LEMMA CopyInv ==
    ASSUME Inv, pc = "cluster", io.pc = "ok", volume' = volume, NEW r, r = read, NEW copy,
           copy = CopyOf(r.count, Len(r.bytes), r.offset),
           ~(copy < 0 \/ r.offset + copy > cluster_size),
           NEW t, t = r.bytes \o Piece(io.buffer, r.offset, copy), NEW s, s = read', GrowsTo(r, t, s),
           pc' = "next", result' = result
    PROVE  ReadInv' /\ read'.file # 0 /\ result' = "none"
<1>1. volume \in Volumes /\ r \in Reads /\ ReadOf(r)
  BY DEF Inv, MountInv, ReadInv
<1>2. r.file \in Nat /\ r.asked \in Nat /\ r.count \in Nat /\ r.offset \in Nat /\ r.cluster \in Nat
  BY <1>1, ReadFields
<1>3. r.bytes \in Seq(Nat) /\ Len(r.bytes) \in Nat
  BY <1>1, ReadBytes
<1>4. /\ r.file \in DOMAIN Entries /\ result = "none" /\ r.count + r.asked <= Entries[r.file].file_size
      /\ Len(r.bytes) <= r.count
      /\ Plain(r) => AtCluster(r)
  BY <1>1 DEF ReadOf
<1>5. /\ ClusterBuffer(io.buffer, r.cluster)
      /\ ~Wrapped(volume) => SectorOf(r.cluster) + sectors_per_cluster <= end_sector
  BY <1>2, ClusterBrought
<1>6. copy \in Nat /\ t \in Seq(Nat) /\ Len(t) <= r.count
  <2>1. Fitting(r.count, Len(r.bytes), r.offset, copy)
    BY <1>2, <1>3, <1>4 DEF Fitting
  <2>2. volume \in Volumes /\ r.cluster \in Nat /\ ClusterBuffer(io.buffer, r.cluster)
    BY <1>1, <1>2, <1>5
  <2>3. r.bytes \in Seq(Nat)
    BY <1>3
  <2> QED
    BY <2>1, <2>2, <2>3, CopyFits, ZenonT(30)
<1>7. PICK u \in Seq(Nat) : u = t
  BY <1>6
<1>8. /\ s \in Reads /\ s.file = r.file /\ s.asked = r.asked /\ s.count = r.count
      /\ s.offset = 0 /\ s.cluster = r.cluster /\ s.bytes = u /\ s.skip = r.skip
  <2>1. r \in Reads
    BY <1>1
  <2>2. GrowsTo(r, u, s)
    BY <1>7
  <2> QED
    BY <2>1, <2>2, ReadGrows
<1>9. Plain(s)' = Plain(r) /\ (Plain(r) => ~Wrapped(volume) /\ r.asked < cluster_size)
  BY <1>8, SameProgress DEF Plain
<1>10. ASSUME Plain(r) PROVE AtNext(s)'
  <2>1. PICK n \in Nat : /\ r.cluster = ClusterOf(r.file, n) /\ r.offset = OffsetIn(n, r.asked)
                         /\ HasRead(n, r.file, r.asked, r.count, r.bytes)
    BY <1>4, <1>10 DEF AtCluster
  <2>2. Len(r.bytes) = SizeAfter(n, r.asked, r.count)
    BY <2>1 DEF HasRead
  <2>3. copy \in Nat /\ r.offset + copy <= cluster_size
    BY <1>2, <1>6, Numbers
  <2>4. Copying(n, r.asked, r.count, Len(r.bytes), r.offset, copy)
    BY <1>2, <1>3, <1>9, <1>10, <2>1, <2>2, <2>3 DEF Copying
  <2>5. HasRead(n + 1, r.file, r.asked, r.count, t)
    <3>1. volume \in Volumes /\ ~Wrapped(volume) /\ r.cluster \in Nat /\ ClusterBuffer(io.buffer, r.cluster)
      BY <1>1, <1>2, <1>5, <1>9, <1>10
    <3>2. r.bytes \in Seq(Nat)
      BY <1>3
    <3>3. r.cluster = ClusterOf(r.file, n) /\ HasRead(n, r.file, r.asked, r.count, r.bytes)
      BY <2>1
    <3> QED
      BY <2>4, <3>1, <3>2, <3>3, CopyBytes, ZenonT(30)
  <2>6. AtNext(s)
    BY <1>7, <1>8, <2>1, <2>5 DEF AtNext
  <2> QED
    BY <2>6, SameProgress
<1>11. SectorOf(s.cluster)' = SectorOf(s.cluster) /\ Wrapped(volume)' = Wrapped(volume)
  BY SameProgress
<1>12. r.file # 0
  BY <1>4, FileEntry
<1>13. ReadOf(s)'
  BY <1>4, <1>5, <1>6, <1>7, <1>8, <1>9, <1>10, <1>11, <1>12 DEF ReadOf
<1>14. s \in Reads /\ s.file # 0
  BY <1>8, <1>12
<1> QED
  BY <1>4, <1>13, <1>14 DEF ReadInv

\* The slice is not inside the cluster.
LEMMA CopyPanics ==
    ASSUME Inv, pc = "cluster", NEW r, r = read, NEW copy,
           copy = CopyOf(r.count, Len(r.bytes), r.offset),
           copy < 0 \/ r.offset + copy > cluster_size, volume.format # 12, ~Wrapped(volume)
    PROVE  ReadFails(r)
<1>1. r \in Reads /\ ReadOf(r)
  BY DEF Inv, ReadInv
<1>2. r.asked \in Nat /\ r.count \in Nat /\ r.offset \in Nat /\ cluster_size \in Nat
  BY <1>1, ReadFields, Numbers
<1>3. Len(r.bytes) \in Nat
  BY <1>1, ReadBytes
<1>4. Plain(r) => AtCluster(r)
  BY <1>1 DEF ReadOf
<1>5. CASE r.asked < cluster_size
  <2>1. PICK n \in Nat : /\ r.cluster = ClusterOf(r.file, n) /\ r.offset = OffsetIn(n, r.asked)
                         /\ HasRead(n, r.file, r.asked, r.count, r.bytes)
    BY <1>4, <1>5 DEF AtCluster, Plain
  <2>2. Len(r.bytes) = SizeAfter(n, r.asked, r.count)
    BY <2>1 DEF HasRead
  <2>3. /\ copy \in Nat
        /\ r.offset + copy > cluster_size => r.count <= cluster_size /\ r.asked + r.count > cluster_size
    BY <1>2, <1>3, <1>5, <2>1, <2>2, CopySize
  <2> QED
    BY <1>2, <2>3 DEF ReadFails
<1>6. CASE ~(r.asked < cluster_size)
  BY <1>2, <1>6 DEF ReadFails
<1> QED
  BY <1>5, <1>6

\* read_cluster.
LEMMA ClusterReadInv ==
    ASSUME Inv, ClusterRead
    PROVE  /\ ReadInv' /\ read'.file # 0 /\ pc' \in {"next", "idle", "panic"}
           /\ pc' # "panic" => result' \in {"none", "err"}
<1>1. pc = "cluster" /\ io.pc \in {"ok", "err"} /\ volume' = volume /\ faults' = faults
  BY DEF ClusterRead
<1>2. ReadInv /\ CallInv /\ volume \in Volumes
  BY DEF Inv, MountInv
<1>3. SUFFICES ASSUME NEW r, r = read, NEW s, s = read'
               PROVE  /\ ReadInv' /\ read'.file # 0 /\ pc' \in {"next", "idle", "panic"}
                      /\ pc' # "panic" => result' \in {"none", "err"}
  OBVIOUS
<1>4. r.cluster \in Nat
  BY <1>2, <1>3, ReadFields DEF ReadInv
<1> DEFINE copy == CopyOf(r.count, Len(r.bytes), r.offset)
<1>5. to_copy = copy
  BY <1>3 DEF to_copy, CopyOf
<1>6. CASE io.pc = "err"
  <2>1. result' = "err" /\ pc' = "idle" /\ read' = read
    BY <1>6 DEF ClusterRead, Return
  <2>2. faults > 0 \/ AskedSector + AskedCount > AskedLimit
    BY <1>1, <1>2, <1>6 DEF CallInv, Mounted
  <2>3. AskedSector = start_sector + cluster_to_sector(r.cluster) /\ AskedCount = sectors_per_cluster
        /\ AskedLimit = end_sector
    BY <1>1, <1>3 DEF AskedSector, AskedCount, AskedLimit
  <2>4. ~Wrapped(volume) => SectorOf(r.cluster) = start_sector + cluster_to_sector(r.cluster)
    BY <1>2, <1>4, ClusterSector
  <2>5. ~Wrapped(volume) => faults > 0 \/ SectorOf(r.cluster) + sectors_per_cluster > end_sector
    BY <2>2, <2>3, <2>4
  <2> QED
    BY <1>1, <1>2, <1>3, <2>1, <2>5, ReadStops
<1>7. CASE io.pc = "ok" /\ (copy < 0 \/ r.offset + copy > cluster_size)
  <2>1. result' = "panic" /\ pc' = "panic" /\ read' = read
    BY <1>3, <1>5, <1>7 DEF ClusterRead, Return
  <2>2. volume.format # 12 /\ ~Wrapped(volume) => ReadFails(r)
    BY <1>1, <1>3, <1>7, CopyPanics
  <2> QED
    BY <1>1, <1>2, <1>3, <2>1, <2>2, ReadStops
<1>8. CASE io.pc = "ok" /\ ~(copy < 0 \/ r.offset + copy > cluster_size)
  <2> DEFINE t == r.bytes \o Piece(io.buffer, r.offset, copy)
  <2>1. /\ s = [r EXCEPT !.offset = 0, !.bytes = r.bytes \o
                   [k \in 1 .. copy |-> ByteOf(io.buffer, r.offset + k - 1)]]
        /\ pc' = "next" /\ result' = result
    BY <1>3, <1>5, <1>8 DEF ClusterRead
  <2>2. [k \in 1 .. copy |-> ByteOf(io.buffer, r.offset + k - 1)] = Piece(io.buffer, r.offset, copy)
    BY DEF Piece
  <2>3. GrowsTo(r, t, s)
    BY <2>1, <2>2 DEF GrowsTo
  <2> HIDE DEF t
  <2>4. ReadInv' /\ read'.file # 0 /\ result' = "none"
    BY <1>1, <1>3, <1>8, <2>1, <2>3, CopyInv DEF t
  <2> QED
    BY <2>1, <2>4
<1> QED
  BY <1>1, <1>6, <1>7, <1>8

-----------------------------------------------------------------------------
(* Searching a directory.                                                  *)

\* The least member of a set is the one that is not above the others.
LEMMA MinIs ==
    ASSUME NEW S, S \subseteq Nat, NEW x \in S, \A y \in S : x <= y
    PROVE  Min(S) = x
<1>1. \A z \in S : (\A y \in S : z <= y) => z = x
  OBVIOUS
<1> QED
  BY <1>1 DEF Min

\* The same of the greatest.
LEMMA MaxIs ==
    ASSUME NEW S, S \subseteq Nat, NEW x \in S, \A y \in S : x >= y
    PROVE  Max(S) = x
<1>1. \A z \in S : (\A y \in S : z >= y) => z = x
  OBVIOUS
<1> QED
  BY <1>1 DEF Max

\* The long name directly before an entry are the parts that have been gathered.
LEMMA LongBeforeIs ==
    ASSUME NEW dir, NEW i \in Nat, NEW from, LongRun(dir, i, from)
    PROVE  LongBefore(dir, i) = Reverse(PartsOf(dir, i, from))
<1> DEFINE S == {0} \union {j \in 1 .. (i - 1) : dir[j].kind # "long"}
<1>1. from \in 1 .. i /\ from - 1 \in Nat
  BY DEF LongRun
<1>2. S \subseteq Nat
  OBVIOUS
<1>3. from - 1 \in S
  BY <1>1 DEF LongRun
<1>4. \A y \in S : from - 1 >= y
  BY <1>1 DEF LongRun
<1>5. Max(S) = from - 1
  BY <1>2, <1>3, <1>4, MaxIs
<1>6. Max(S) + 1 = from
  BY <1>1, <1>5
<1> QED
  BY <1>6 DEF LongBefore, PartsOf

\* Only the empty sequence is empty backwards.
LEMMA ReverseEmpty ==
    ASSUME NEW T, NEW s \in Seq(T)
    PROVE  Reverse(s) = <<>> <=> s = <<>>
<1> DEFINE u == [i \in 1 .. Len(s) |-> s[(Len(s) - i) + 1]]
<1>1. DOMAIN u = 1 .. Len(s) /\ Len(s) \in Nat /\ DOMAIN <<>> = {}
  OBVIOUS
<1>2. ASSUME s = <<>> PROVE u = <<>>
  <2>1. 1 .. Len(s) = {} /\ <<>> = [i \in {} |-> s[(Len(s) - i) + 1]]
    BY <1>2
  <2> QED
    BY <2>1
<1>3. ASSUME s # <<>> PROVE u # <<>>
  <2>1. Len(s) > 0
    BY <1>3
  <2>2. 1 \in DOMAIN u
    BY <1>1, <2>1
  <2> QED
    BY <1>1, <2>2
<1> QED
  BY <1>2, <1>3 DEF Reverse

\* The parts gathered so far: as many as entries, and one more.
LEMMA PartsAre ==
    ASSUME NEW dir, NEW i \in Nat, NEW from \in 1 .. i
    PROVE  /\ PartsOf(dir, i, from) = <<>> <=> from = i
           /\ Reverse(PartsOf(dir, i, from)) = <<>> <=> from = i
           /\ Append(PartsOf(dir, i, from), dir[i].part) = PartsOf(dir, i + 1, from)
<1> DEFINE p == PartsOf(dir, i, from)
           n == i - from
           T == {dir[j].part : j \in 1 .. i}
<1>1. n \in Nat /\ (n = 0 <=> from = i) /\ (i + 1) - from = n + 1 /\ from + n = i
  OBVIOUS
<1>2. p \in [1 .. n -> T]
  <2>1. ASSUME NEW j \in 1 .. n PROVE from + j - 1 \in 1 .. i
    BY <1>1
  <2> QED
    BY <2>1 DEF PartsOf
<1>3. p \in Seq(T) /\ Len(p) = n
  BY <1>1, <1>2, SequenceOf
<1>4. (p = <<>>) <=> (n = 0)
  BY <1>1, <1>3
<1>5. (Reverse(p) = <<>>) <=> (n = 0)
  BY <1>3, <1>4, ReverseEmpty
<1>6. Append(p, dir[i].part) = PartsOf(dir, i + 1, from)
  <2> DEFINE q == PartsOf(dir, i + 1, from)
             a == Append(p, dir[i].part)
  <2>1. dir[i].part \in T
    BY <1>1
  <2>2. a \in Seq(T) /\ Len(a) = n + 1 /\ a[n + 1] = dir[i].part /\ \A j \in 1 .. n : a[j] = p[j]
    BY <1>1, <1>3, <2>1
  <2>3. q = [j \in 1 .. (n + 1) |-> dir[from + j - 1].part]
    BY <1>1 DEF PartsOf
  <2>4. \A j \in 1 .. n : p[j] = dir[from + j - 1].part
    BY DEF PartsOf
  <2>5. from + (n + 1) - 1 = i
    BY <1>1
  <2>6. a = [j \in 1 .. (n + 1) |-> a[j]]
    BY <1>1, <2>2
  <2>7. \A j \in 1 .. (n + 1) : a[j] = dir[from + j - 1].part
    <3>1. \A j \in 1 .. (n + 1) : j \in 1 .. n \/ j = n + 1
      BY <1>1
    <3> HIDE DEF a, n
    <3> QED
      BY <2>2, <2>4, <2>5, <3>1
  <2> HIDE DEF a, n, q
  <2> QED
    BY <2>3, <2>6, <2>7 DEF a, q
<1> QED
  BY <1>1, <1>4, <1>5, <1>6

\* The step over an entry of a long name, and over another one.
LEMMA RunGoesOn ==
    ASSUME NEW dir, NEW i \in Nat, NEW from, LongRun(dir, i, from)
    PROVE  /\ dir[i].kind = "long" => LongRun(dir, i + 1, from)
           /\ dir[i].kind # "long" => LongRun(dir, i + 1, i + 1)
<1>1. from \in 1 .. i /\ from \in 1 .. (i + 1) /\ i + 1 \in 1 .. (i + 1) /\ (i + 1) - 1 = i
  BY DEF LongRun
<1>2. \A j \in (i + 1) .. i : FALSE
  OBVIOUS
<1>3. \A j \in from .. i : j \in from .. (i - 1) \/ j = i
  BY <1>1
<1> QED
  BY <1>1, <1>2, <1>3 DEF LongRun

\* The entries of a directory.
LEMMA EntryOf ==
    ASSUME NEW dir \in Directories, NEW i \in 1 .. ClusterEntries
    PROVE  /\ DOMAIN dir = 1 .. ClusterEntries
           /\ dir[i].kind \in {"end", "unused", "long", "file"}
           /\ i > 1 /\ dir[i].kind = "unused" => dir[i - 1].kind # "long"
<1>1. ClusterEntries \in Nat
  BY Numbers
<1>2. ASSUME i > 1, dir[i].kind = "unused"
      PROVE  dir[i - 1].kind # "long"
  <2>1. i - 1 \in 1 .. (ClusterEntries - 1) /\ (i - 1) + 1 = i
    BY <1>1, <1>2
  <2> QED
    BY <1>2, <2>1, DirectoryAssumption
<1> QED
  BY <1>2, DirectoryAssumption

\* An entry that has been looked at and is not the one: the search goes on behind it.
LEMMA PassedEntry ==
    ASSUME NEW r, InDir(r), Searching(r), r.i <= ClusterEntries, r.dir[r.i].kind # "end",
           NEW s, s.dir = r.dir, s.name = r.name, s.i = r.i + 1,
           Gathered(s), Forgotten(s), s.string # s.name,
           r.i \in Matches(r.dir, r.name) => r.i \in Missed(r.dir), r.i \notin NoText(r.dir)
    PROVE  Searching(s)
<1>1. r.i \in 1 .. (ClusterEntries + 1) /\ NotBefore(r) /\ ClusterEntries \in Nat
  BY Numbers DEF Searching
<1>2. s.i \in 1 .. (ClusterEntries + 1) /\ s.i - 1 = r.i
  BY <1>1
<1>3. \A j \in 1 .. r.i : j \in 1 .. (r.i - 1) \/ j = r.i
  BY <1>1
<1>4. \A j \in 1 .. (s.i - 1) : s.dir[j].kind # "end"
  BY <1>1, <1>2, <1>3 DEF NotBefore
<1>5. Matches(r.dir, r.name) \subseteq 1 .. ClusterEntries
  BY EntryOf, DirectoryAssumption DEF Matches, InUse, InDir, ForName
<1>6. \A j \in Matches(r.dir, r.name) : j < s.i => j < r.i \/ j = r.i
  BY <1>1, <1>2, <1>5
<1>7. NoText(r.dir) \subseteq 1 .. ClusterEntries
  BY EntryOf, DirectoryAssumption DEF NoText, InUse, InDir, ForName
<1>8. \A j \in NoText(r.dir) : ~(j < s.i)
  BY <1>1, <1>2, <1>7 DEF NotBefore
<1>9. NotBefore(s)
  BY <1>1, <1>4, <1>6, <1>8 DEF NotBefore
<1> QED
  BY <1>2, <1>9 DEF Searching

\* An entry that is not in use is not the one, and has no long name to remember.
LEMMA NotInUse ==
    ASSUME NEW r, InDir(r), Searching(r), r.i <= ClusterEntries, r.dir[r.i].kind \in {"long", "unused"},
           NEW s, s.dir = r.dir, s.name = r.name, s.i = r.i + 1, s.string = r.string, Gathered(s)
    PROVE  Searching(s)
<1>1. r.i \in 1 .. (ClusterEntries + 1) /\ Forgotten(r) /\ r.string # r.name /\ ClusterEntries \in Nat
  BY Numbers DEF Searching
<1>2. r.i \notin InUse(r.dir)
  BY DEF InUse
<1>3. r.i \notin Matches(r.dir, r.name) /\ r.i \notin NoText(r.dir)
  BY <1>2 DEF Matches, NoText
<1>4. InUse(r.dir) \subseteq 1 .. ClusterEntries
  BY DirectoryAssumption DEF InUse, InDir, ForName
<1>5. \A j \in InUse(r.dir) : j < s.i <=> j < r.i
  BY <1>1, <1>2, <1>4
<1>6. Forgotten(s)
  BY <1>1, <1>5 DEF Forgotten
<1> QED
  BY <1>1, <1>3, <1>6, PassedEntry

\* The parts of a long name are gathered, and the unused entries passed over.
LEMMA NotInUseStep ==
    ASSUME NEW r, InDir(r), Searching(r), r.i <= ClusterEntries,
           NEW s, s.dir = r.dir, s.name = r.name, s.i = r.i + 1, s.string = r.string,
           \/ r.dir[r.i].kind = "long" /\ s.long = Append(r.long, r.dir[r.i].part)
           \/ r.dir[r.i].kind = "unused" /\ s.long = r.long
    PROVE  Searching(s)
<1>1. r.i \in 1 .. (ClusterEntries + 1) /\ r.i \in Nat /\ Gathered(r) /\ ClusterEntries \in Nat
  BY Numbers DEF Searching
<1>2. PICK from \in 1 .. r.i : LongRun(r.dir, r.i, from) /\ r.long = PartsOf(r.dir, r.i, from)
  BY <1>1 DEF Gathered
<1>3. CASE r.dir[r.i].kind = "long"
  <2>1. LongRun(r.dir, r.i + 1, from)
    BY <1>1, <1>2, <1>3, RunGoesOn
  <2>2. s.long = PartsOf(r.dir, r.i + 1, from)
    <3>1. Append(PartsOf(r.dir, r.i, from), r.dir[r.i].part) = PartsOf(r.dir, r.i + 1, from)
      BY <1>1, <1>2, PartsAre
    <3> QED
      BY <1>2, <1>3, <3>1
  <2>3. from \in 1 .. s.i
    BY <1>1
  <2> QED
    BY <1>3, <2>1, <2>2, <2>3, NotInUse DEF Gathered
<1>4. CASE r.dir[r.i].kind = "unused"
  <2>1. LongRun(r.dir, r.i + 1, r.i + 1)
    BY <1>1, <1>2, <1>4, RunGoesOn
  <2>2. from = r.i
    <3>1. ASSUME from # r.i PROVE FALSE
      <4>1. r.i - 1 \in from .. (r.i - 1) /\ r.i > 1 /\ r.i \in 1 .. ClusterEntries
        BY <1>1, <1>2, <3>1
      <4>2. r.dir[r.i - 1].kind = "long"
        BY <1>2, <4>1 DEF LongRun
      <4> QED
        BY <1>4, <4>1, <4>2, EntryOf DEF InDir, ForName
    <3> QED
      BY <3>1
  <2>3. r.long = <<>>
    BY <1>1, <1>2, <2>2, PartsAre
  <2>4. PartsOf(r.dir, r.i + 1, r.i + 1) = <<>>
    BY <1>1, PartsAre, r.i + 1 \in Nat, r.i + 1 \in 1 .. (r.i + 1)
  <2>5. s.i \in 1 .. s.i
    BY <1>1
  <2> QED
    BY <1>4, <2>1, <2>3, <2>4, <2>5, NotInUse DEF Gathered
<1> QED
  BY <1>3, <1>4

\* What find_entry_in_directory compares at a file or a directory, if that is text.
StringAt(r) == IF r.long # <<>> THEN Reverse(r.long) ELSE r.string
TextAt(r) == Reverse(r.long) \notin NotUtf16 /\ r.dir[r.i].short \notin NotUtf8
MatchAt(r) == IF StringAt(r) # <<>> THEN StringAt(r) = r.name ELSE ToUpper[r.name] = r.dir[r.i].short

\* It is the name looked for exactly if the entry has it and is not missed.
LEMMA MatchIs ==
    ASSUME NEW r, InDir(r), Searching(r), r.i <= ClusterEntries, r.dir[r.i].kind = "file"
    PROVE  /\ r.i \in InUse(r.dir)
           /\ MatchAt(r) <=> r.i \in Matches(r.dir, r.name) \ Missed(r.dir)
           /\ TextAt(r) <=> r.i \notin NoText(r.dir)
           /\ LongBefore(r.dir, r.i) # <<>> => StringAt(r) = LongBefore(r.dir, r.i)
           /\ LongBefore(r.dir, r.i) = <<>> => StringAt(r) = r.string
<1>1. r.i \in 1 .. (ClusterEntries + 1) /\ r.i \in Nat /\ Gathered(r) /\ Forgotten(r) /\ NotBefore(r)
      /\ r.string # r.name /\ ClusterEntries \in Nat
  BY Numbers DEF Searching
<1>2. PICK from \in 1 .. r.i : LongRun(r.dir, r.i, from) /\ r.long = PartsOf(r.dir, r.i, from)
  BY <1>1 DEF Gathered
<1>3. LongBefore(r.dir, r.i) = Reverse(r.long)
  BY <1>1, <1>2, LongBeforeIs
<1>4. r.long = <<>> <=> Reverse(r.long) = <<>>
  BY <1>1, <1>2, PartsAre
<1>5. r.i \in InUse(r.dir)
  <2>1. r.i \in DOMAIN r.dir
    BY <1>1, DirectoryAssumption DEF InDir, ForName
  <2>2. \A j \in 1 .. r.i : j \in 1 .. (r.i - 1) \/ j = r.i
    BY <1>1
  <2>3. \A j \in 1 .. r.i : r.dir[j].kind # "end"
    BY <1>1, <2>2 DEF NotBefore
  <2> QED
    BY <2>1, <2>3 DEF InUse
<1>6. r.i \in Matches(r.dir, r.name) <=>
         IF LongBefore(r.dir, r.i) # <<>> THEN LongBefore(r.dir, r.i) = r.name
         ELSE ToUpper[r.name] = r.dir[r.i].short
  BY <1>5 DEF Matches
<1>7. r.i \in Missed(r.dir) <=> LongBefore(r.dir, r.i) = <<>> /\ r.string # <<>>
  BY <1>1, <1>5 DEF Missed, Forgotten
<1>8. TextAt(r) <=> r.i \notin NoText(r.dir)
  BY <1>3, <1>5 DEF TextAt, NoText
<1>9. CASE LongBefore(r.dir, r.i) # <<>>
  BY <1>3, <1>4, <1>5, <1>6, <1>7, <1>8, <1>9 DEF StringAt, MatchAt
<1>10. CASE LongBefore(r.dir, r.i) = <<>>
  BY <1>1, <1>3, <1>4, <1>5, <1>6, <1>7, <1>8, <1>10 DEF StringAt, MatchAt
<1> QED
  BY <1>9, <1>10

\* A file or a directory that is the one looked for.
LEMMA EntryFound ==
    ASSUME NEW r, InDir(r), Searching(r), r.i <= ClusterEntries, r.dir[r.i].kind = "file", MatchAt(r),
           TextAt(r), NEW s, s.held = r.held, s.name = r.name, s.found = r.i
    PROVE  Found(s)
<1> DEFINE S == Matches(r.dir, r.name) \ Missed(r.dir)
<1>1. r.i \in S /\ r.i \notin NoText(r.dir) /\ r.dir = s.held
  BY MatchIs DEF InDir
<1>2. r.i \in 1 .. (ClusterEntries + 1) /\ NotBefore(r) /\ ClusterEntries \in Nat
  BY Numbers DEF Searching
<1>3. S \subseteq 1 .. ClusterEntries
  BY DirectoryAssumption DEF Matches, InUse, InDir, ForName
<1>4. \A y \in S : ~(y < r.i)
  BY <1>2 DEF NotBefore
<1>5. \A y \in S : r.i <= y
  BY <1>2, <1>3, <1>4
<1>6. S \subseteq Nat
  BY <1>3
<1>7. Min(S) = r.i
  BY <1>1, <1>5, <1>6, MinIs
<1>8. NoText(r.dir) \subseteq 1 .. ClusterEntries
  BY DirectoryAssumption DEF NoText, InUse, InDir, ForName
<1>9. \A y \in NoText(r.dir) : y > r.i
  BY <1>1, <1>2, <1>8 DEF NotBefore
<1> QED
  BY <1>1, <1>7, <1>9 DEF Found

\* One that is not: the long name it has is remembered.
LEMMA EntryPassed ==
    ASSUME NEW r, InDir(r), Searching(r), r.i <= ClusterEntries, r.dir[r.i].kind = "file", ~MatchAt(r),
           TextAt(r), NEW s, s.dir = r.dir, s.name = r.name, s.i = r.i + 1, s.long = <<>>, s.string = StringAt(r)
    PROVE  Searching(s)
<1> DEFINE L == LongBefore(r.dir, r.i)
<1>1. /\ r.i \in InUse(r.dir)
      /\ r.i \in Matches(r.dir, r.name) => r.i \in Missed(r.dir)
      /\ L # <<>> => StringAt(r) = L
      /\ L = <<>> => StringAt(r) = r.string
      /\ r.i \notin NoText(r.dir)
  BY MatchIs
<1>2. r.i \in 1 .. (ClusterEntries + 1) /\ r.i \in Nat /\ Gathered(r) /\ Forgotten(r)
      /\ r.string # r.name /\ ClusterEntries \in Nat
  BY Numbers DEF Searching
<1>3. PICK from \in 1 .. r.i : LongRun(r.dir, r.i, from) /\ r.long = PartsOf(r.dir, r.i, from)
  BY <1>2 DEF Gathered
<1>4. Gathered(s)
  <2>1. LongRun(r.dir, r.i + 1, r.i + 1)
    BY <1>2, <1>3, RunGoesOn
  <2>2. PartsOf(r.dir, r.i + 1, r.i + 1) = <<>>
    BY <1>2, PartsAre, r.i + 1 \in Nat, r.i + 1 \in 1 .. (r.i + 1)
  <2>3. s.i \in 1 .. s.i
    BY <1>2
  <2> QED
    BY <2>1, <2>2, <2>3 DEF Gathered
<1>5. InUse(r.dir) \subseteq 1 .. ClusterEntries
  BY DirectoryAssumption DEF InUse, InDir, ForName
<1>6. \A j \in InUse(r.dir) : j < s.i <=> j < r.i \/ j = r.i
  BY <1>2, <1>5
<1> HIDE DEF L
<1>7. Forgotten(s)
  BY <1>1, <1>2, <1>6 DEF Forgotten, L
<1>8. s.string # s.name
  <2>1. r.name \in Names /\ r.name # <<>>
    BY DirectoryAssumption DEF InDir, ForName
  <2>2. CASE StringAt(r) # <<>>
    BY <2>2 DEF MatchAt
  <2> QED
    BY <2>1, <2>2
<1> QED
  BY <1>1, <1>4, <1>7, <1>8, PassedEntry

\* One with a name that is no text.
LEMMA EntryStuck ==
    ASSUME NEW r, InDir(r), Searching(r), r.i <= ClusterEntries, r.dir[r.i].kind = "file", ~TextAt(r)
    PROVE  Stuck(r)
<1> DEFINE S == Matches(r.dir, r.name) \ Missed(r.dir)
<1>1. r.i \in NoText(r.dir) /\ r.dir = r.held
  BY MatchIs DEF InDir
<1>2. r.i \in 1 .. (ClusterEntries + 1) /\ NotBefore(r) /\ ClusterEntries \in Nat
  BY Numbers DEF Searching
<1>3. S \subseteq 1 .. ClusterEntries
  BY DirectoryAssumption DEF Matches, InUse, InDir, ForName
<1>4. \A y \in S : ~(y < r.i)
  BY <1>2 DEF NotBefore
<1>5. \A y \in S : r.i <= y
  BY <1>2, <1>3, <1>4
<1> QED
  BY <1>1, <1>5 DEF Stuck

\* At the end mark there is nothing more to find, and behind the cluster there was none.
LEMMA SearchEnds ==
    ASSUME NEW r, InDir(r), Searching(r)
    PROVE  /\ r.i <= ClusterEntries /\ r.dir[r.i].kind = "end" => NotFound(r)
           /\ r.i > ClusterEntries => Stuck(r)
<1>1. r.i \in 1 .. (ClusterEntries + 1) /\ NotBefore(r) /\ ClusterEntries \in Nat
  BY Numbers DEF Searching
<1>2. DOMAIN r.dir = 1 .. ClusterEntries /\ r.dir = r.held
  BY DirectoryAssumption DEF InDir, ForName
<1>3. ASSUME r.i <= ClusterEntries, r.dir[r.i].kind = "end"
      PROVE  NotFound(r)
  <2>1. ASSUME NEW j \in InUse(r.dir) PROVE j < r.i
    <3>1. j \in 1 .. ClusterEntries /\ \A k \in 1 .. j : r.dir[k].kind # "end"
      BY <1>2 DEF InUse
    <3>2. r.i \notin 1 .. j
      BY <1>3, <3>1
    <3> QED
      BY <1>1, <3>1, <3>2
  <2>2. Matches(r.dir, r.name) \subseteq InUse(r.dir) /\ NoText(r.dir) \subseteq InUse(r.dir)
    BY DEF Matches, NoText
  <2> QED
    BY <1>1, <1>2, <2>1, <2>2 DEF NotFound, NotBefore
<1>4. ASSUME r.i > ClusterEntries
      PROVE  Stuck(r)
  <2>1. r.i - 1 = ClusterEntries
    BY <1>1, <1>4
  <2>2. Matches(r.dir, r.name) \subseteq 1 .. ClusterEntries
    BY <1>2 DEF Matches, InUse
  <2>3. \A j \in Matches(r.dir, r.name) : j < r.i
    BY <1>1, <1>4, <2>2
  <2>4. Matches(r.dir, r.name) \ Missed(r.dir) = {}
    BY <1>1, <2>3 DEF NotBefore
  <2>5. \A i \in DOMAIN r.dir : r.dir[i].kind # "end"
    BY <1>1, <1>2, <2>1 DEF NotBefore
  <2> QED
    BY <1>2, <2>4, <2>5 DEF Stuck
<1> QED
  BY <1>3, <1>4

\* A search begins: nothing has been looked at.
LEMMA SearchBegins ==
    ASSUME NEW r, InDir(r), r.i = 1, r.long = <<>>, r.string = <<>>
    PROVE  Searching(r)
<1>1. ClusterEntries \in Nat \ {0}
  BY Numbers
<1>2. 1 \in 1 .. 1 /\ 1 \in Nat
  OBVIOUS
<1>3. LongRun(r.dir, 1, 1)
  BY DEF LongRun
<1>4. PartsOf(r.dir, 1, 1) = <<>>
  BY <1>2, PartsAre, ZenonT(30)
<1>5. Gathered(r)
  BY <1>2, <1>3, <1>4 DEF Gathered
<1>6. InUse(r.dir) \subseteq 1 .. ClusterEntries
  BY DirectoryAssumption DEF InUse, InDir, ForName
<1>7. \A j \in InUse(r.dir) : ~(j < 1)
  BY <1>1, <1>6
<1>8. Matches(r.dir, r.name) \subseteq InUse(r.dir) /\ NoText(r.dir) \subseteq InUse(r.dir)
  BY DEF Matches, NoText
<1>9. Forgotten(r) /\ NotBefore(r)
  BY <1>7, <1>8 DEF Forgotten, NotBefore
<1>10. r.string # r.name
  BY DirectoryAssumption DEF InDir, ForName
<1> QED
  BY <1>1, <1>5, <1>9, <1>10 DEF Searching

\* The sectors of a directory hold its entries.
LEMMA EntriesAre ==
    ASSUME NEW held \in Directories, NEW stray, NEW first \in Nat, NEW b \in Seq(Nat),
           Len(b) = sectors_per_cluster, \A k \in 1 .. Len(b) : b[k] = first + (k - 1)
    PROVE  EntriesAt(b, first, held, stray) = held
<1>1. SectorSlots \in Nat \ {0} /\ sectors_per_cluster \in Nat \ {0} /\ ClusterEntries \in Nat
      /\ ClusterEntries = sectors_per_cluster * SectorSlots
  BY Numbers DEF ClusterEntries
<1>2. held = [i \in 1 .. ClusterEntries |-> held[i]]
  BY DirectoryAssumption
<1>3. ASSUME NEW i \in 1 .. ClusterEntries
      PROVE  LET j == b[(i - 1) \div SectorSlots + 1] - first
             IN  (IF j \in 0 .. (sectors_per_cluster - 1)
                  THEN held[j * SectorSlots + ((i - 1) % SectorSlots) + 1] ELSE stray[i]) = held[i]
  <2>1. i - 1 \in Nat /\ i - 1 < ClusterEntries
    BY <1>1
  <2>2. PICK n \in Nat : n = i - 1
    BY <2>1
  <2> DEFINE q == n \div SectorSlots
             r == n % SectorSlots
  <2>3. SectorSlots \in Nat /\ SectorSlots > 0
    BY <1>1
  <2>4. q \in Nat /\ r \in 0 .. (SectorSlots - 1) /\ n = q * SectorSlots + r
    BY <2>3, DivMod
  <2>5. /\ q = (i - 1) \div SectorSlots /\ r = (i - 1) % SectorSlots
        /\ q \in Nat /\ r \in 0 .. (SectorSlots - 1) /\ i - 1 = q * SectorSlots + r
    BY <2>2, <2>4
  <2> HIDE DEF q, r
  <2>6. q < sectors_per_cluster
    <3>1. ASSUME q >= sectors_per_cluster PROVE FALSE
      <4>1. sectors_per_cluster * SectorSlots <= q * SectorSlots /\ q * SectorSlots \in Nat
        BY <1>1, <2>5, <3>1, TimesAtLeast
      <4> QED
        BY <1>1, <2>1, <2>5, <4>1
    <3> QED
      BY <1>1, <2>5, <3>1
  <2>7. q + 1 \in 1 .. Len(b) /\ (q + 1) - 1 = q
    BY <1>1, <2>5, <2>6
  <2>8. b[q + 1] = first + q
    BY <2>7
  <2>9. b[q + 1] - first = q /\ q \in 0 .. (sectors_per_cluster - 1)
    BY <1>1, <2>5, <2>6, <2>8
  <2>10. q * SectorSlots + r + 1 = i
    <3> DEFINE p == q * SectorSlots
    <3>1. p \in Nat /\ i - 1 = p + r /\ r \in Nat /\ i \in Nat
      BY <1>1, <2>5
    <3> HIDE DEF p
    <3>2. p + r + 1 = i
      BY <3>1
    <3> QED
      BY <3>2 DEF p
  <2>11. held[(b[q + 1] - first) * SectorSlots + r + 1] = held[i]
    BY <2>9, <2>10
  <2> QED
    BY <2>5, <2>9, <2>11
<1> QED
  BY <1>2, <1>3 DEF EntriesAt

\* What the record of a search is with the entries of the directory, and behind an
\* entry that was looked at.
LEMMA EntriesTaken ==
    ASSUME NEW r, IsFind(r), ForName(r), NEW d, NEW s, s = [r EXCEPT !.dir = d]
    PROVE  /\ IsFind(s) /\ ForName(s) /\ s.root = r.root /\ s.cluster = r.cluster /\ s.held = r.held
           /\ s.dir = d /\ s.name = r.name /\ s.i = r.i /\ s.long = r.long /\ s.string = r.string
<1>1. s = [root |-> r.root, cluster |-> r.cluster, held |-> r.held, dir |-> d, name |-> r.name,
           i |-> r.i, long |-> r.long, string |-> r.string, found |-> r.found]
  BY DEF IsFind
<1>2. /\ s.root = r.root /\ s.cluster = r.cluster /\ s.held = r.held /\ s.dir = d /\ s.name = r.name
      /\ s.i = r.i /\ s.long = r.long /\ s.string = r.string /\ s.found = r.found
  BY <1>1
<1>3. s = [root |-> s.root, cluster |-> s.cluster, held |-> s.held, dir |-> s.dir, name |-> s.name,
           i |-> s.i, long |-> s.long, string |-> s.string, found |-> s.found]
  BY <1>1
<1> QED
  BY <1>2, <1>3 DEF IsFind, ForName

\* The search goes on.
LEMMA FindGoesOn ==
    ASSUME pc' = "find", result' = "none", volume' = volume, NEW s, s = find', IsFind(s), ForName(s),
           s.i \in 1 .. (ClusterEntries + 1), InPlace(s.root) => InDir(s) /\ Searching(s)
    PROVE  FindInv'
<1>1. InPlace(s.root)' = InPlace(s.root)
  BY SameVolume
<1>2. FindOf(s)'
  BY <1>1 DEF FindOf
<1> QED
  BY <1>2 DEF FindInv

\* The search ends.
LEMMA FindStops ==
    ASSUME pc' \in {"idle", "panic"}, volume' = volume, NEW s, s = find', IsFind(s), ForName(s),
           faults' = 0 /\ InPlace(s.root) =>
             \/ result' = "ok" /\ Found(s)
             \/ result' = "err" /\ (NotFound(s) \/ AtEnd(s))
             \/ result' = "panic" /\ Stuck(s)
    PROVE  FindInv'
<1>1. InPlace(s.root)' = InPlace(s.root) /\ AtEnd(s)' = AtEnd(s)
  BY SameVolume DEF AtEnd
<1>2. FindOf(s)'
  BY <1>1 DEF FindOf
<1> QED
  BY <1>2 DEF FindInv

\* No search is under way.
LEMMA NoFindInv ==
    ASSUME find' = NoFind, pc' \notin {"dir", "find"}
    PROVE  FindInv'
<1>1. IsFind(NoFind)
  BY Numbers DEF NoFind, IsFind
<1>2. FindOf(NoFind)'
  BY <1>1 DEF FindOf
<1> QED
  BY <1>2 DEF FindInv

\* The search is left as it is.
LEMMA FindSame ==
    ASSUME FindInv, UNCHANGED <<volume, pc, find, result>>, faults' >= faults, faults \in Nat, faults' \in Nat
    PROVE  FindInv'
<1>1. SUFFICES ASSUME NEW r, r = find PROVE FindOf(r)'
  BY DEF FindInv
<1>2. FindOf(r)
  BY <1>1 DEF FindInv
<1>3. faults' = 0 => faults = 0
  OBVIOUS
<1>4. InPlace(r.root)' = InPlace(r.root) /\ AtEnd(r)' = AtEnd(r) /\ Located(r)' = Located(r)
  BY SameVolume DEF AtEnd, Located
<1> QED
  BY <1>2, <1>3, <1>4 DEF FindOf

\* A search has been called for.
LEMMA LookupInv ==
    ASSUME Inv, NEW root \in BOOLEAN, NEW c, NEW held \in Directories, NEW name \in Names,
           Lookup(root, c, held, name), IF root THEN c = root_cluster ELSE c \in Nat
    PROVE  FindInv'
<1>1. SUFFICES ASSUME NEW s, s = find' PROVE FindOf(s)'
  BY DEF FindInv
<1>2. /\ s = [NoFind EXCEPT !.root = root, !.cluster = c, !.held = held, !.name = name]
      /\ pc' = "dir" /\ result' = "none" /\ volume' = volume
  BY <1>1 DEF Lookup
<1>3. s = [root |-> root, cluster |-> c, held |-> held, dir |-> <<>>, name |-> name, i |-> 1,
           long |-> <<>>, string |-> <<>>, found |-> 0]
  BY <1>2 DEF NoFind
<1>4. /\ s.root = root /\ s.cluster = c /\ s.held = held /\ s.name = name
      /\ s.i = 1 /\ s.long = <<>> /\ s.string = <<>> /\ s.found = 0
      /\ 0 \in 0 .. ClusterEntries
  BY <1>3, Numbers
<1>5. IsFind(s) /\ ForName(s)
  <2>1. s = [root |-> s.root, cluster |-> s.cluster, held |-> s.held, dir |-> s.dir, name |-> s.name,
             i |-> s.i, long |-> s.long, string |-> s.string, found |-> s.found]
    BY <1>3
  <2> QED
    BY <1>4, <2>1 DEF IsFind, ForName
<1>6. volume \in Volumes /\ fat_type = volume.format
  BY DEF Inv, MountInv, Lookup, Mounted
<1>7. Located(s)
  BY <1>4, <1>6, DirPlace DEF Located
<1>8. Located(s)'
  BY <1>2, <1>7, SameVolume DEF Located
<1> QED
  BY <1>2, <1>4, <1>5, <1>8 DEF FindOf

\* The cluster of the directory has been read, or the drive failed.
LEMMA LookupReadInv ==
    ASSUME Inv, LookupRead
    PROVE  FindInv' /\ pc' \in {"find", "idle"} /\ result' \in {"none", "err"}
<1>1. pc = "dir" /\ io.pc \in {"ok", "err"} /\ faults' = faults /\ volume' = volume
  BY DEF LookupRead
<1>2. SUFFICES ASSUME NEW r, r = find, NEW s, s = find'
               PROVE  FindInv' /\ pc' \in {"find", "idle"} /\ result' \in {"none", "err"}
  OBVIOUS
<1>3. /\ IsFind(r) /\ ForName(r) /\ Located(r) /\ result = "none"
      /\ r.i = 1 /\ r.long = <<>> /\ r.string = <<>>
  <2>1. FindOf(r)
    BY <1>2 DEF Inv, FindInv
  <2> QED
    BY <1>1, <2>1 DEF FindOf
<1>4. AskedSector = start_sector + cluster_to_sector(r.cluster) /\ AskedCount = sectors_per_cluster
      /\ AskedLimit = end_sector
  BY <1>1, <1>2 DEF AskedSector, AskedCount, AskedLimit
<1>5. CASE io.pc = "ok"
  <2>1. pc' = "find" /\ result' = "none"
    BY <1>3, <1>5 DEF LookupRead
  <2>2. PICK stray \in Strays :
           s = [r EXCEPT !.dir = EntriesAt(io.buffer, DirSector(r.root, r.cluster), r.held, stray)]
    BY <1>2, <1>5 DEF LookupRead
  <2>3. PICK d : d = EntriesAt(io.buffer, DirSector(r.root, r.cluster), r.held, stray)
    OBVIOUS
  <2>4. s = [r EXCEPT !.dir = d]
    BY <2>2, <2>3
  <2>5. IsFind(s) /\ ForName(s) /\ s.root = r.root /\ s.held = r.held /\ s.dir = d /\ s.name = r.name
        /\ s.i = 1 /\ s.long = <<>> /\ s.string = <<>>
    BY <1>3, <2>4, EntriesTaken
  <2>6. s.i \in 1 .. (ClusterEntries + 1)
    BY <2>5, Numbers
  <2>7. ASSUME InPlace(s.root) PROVE InDir(s) /\ Searching(s)
    <3>1. DirSector(r.root, r.cluster) = AskedSector /\ AskedSector \in Nat
      BY <1>3, <1>4, <2>5, <2>7 DEF Located
    <3>2. Len(io.buffer) = sectors_per_cluster
          /\ \A k \in 1 .. Len(io.buffer) : io.buffer[k] = AskedSector + (k - 1)
      BY <1>1, <1>4, <1>5, Brought DEF Mounted
    <3>3. io.buffer \in Seq(Nat)
      BY <1>1, <1>5, Brought DEF Mounted
    <3>4. r.held \in Directories
      BY <1>3 DEF ForName
    <3>5. EntriesAt(io.buffer, AskedSector, r.held, stray) = r.held
      BY <3>1, <3>2, <3>3, <3>4, EntriesAre
    <3>6. InDir(s)
      BY <2>3, <2>5, <3>1, <3>5 DEF InDir
    <3> QED
      BY <2>5, <3>6, SearchBegins
  <2> QED
    BY <1>1, <1>2, <2>1, <2>5, <2>6, <2>7, FindGoesOn
<1>6. CASE io.pc = "err"
  <2>1. pc' = "idle" /\ result' = "err" /\ s = r
    BY <1>2, <1>6 DEF LookupRead, Return
  <2>2. faults > 0 \/ AskedSector + AskedCount > AskedLimit
    BY <1>1, <1>6 DEF Inv, CallInv, Mounted
  <2>3. faults' = 0 /\ InPlace(r.root) => AtEnd(r)
    BY <1>1, <1>3, <1>4, <2>2 DEF Located, AtEnd
  <2> QED
    BY <1>1, <1>2, <1>3, <2>1, <2>3, FindStops
<1> QED
  BY <1>1, <1>5, <1>6

\* What a search that is under way is about.
LEMMA UnderWay ==
    ASSUME Inv, pc = "find", NEW r, r = find
    PROVE  /\ IsFind(r) /\ ForName(r) /\ result = "none" /\ r # NoFind
           /\ r.i \in 1 .. (ClusterEntries + 1) /\ (InPlace(r.root) => InDir(r) /\ Searching(r))
<1>1. FindOf(r)
  BY DEF Inv, FindInv
<1>2. IsFind(r) /\ ForName(r) /\ result = "none"
      /\ r.i \in 1 .. (ClusterEntries + 1) /\ (InPlace(r.root) => InDir(r) /\ Searching(r))
  BY <1>1 DEF FindOf
<1>3. r # NoFind
  BY <1>2, DirectoryAssumption DEF ForName, NoFind
<1> QED
  BY <1>2, <1>3

\* The end mark, the end of the cluster, and a name that is no text.
LEMMA FindEndInv ==
    ASSUME Inv, FindEnd \/ FindOverrun \/ FindNoText
    PROVE  /\ FindInv' /\ pc' \in {"idle", "panic"} /\ result' \in {"err", "panic"}
           /\ find' # NoFind /\ (pc' = "idle" => result' = "err")
<1>1. pc = "find" /\ find' = find /\ volume' = volume
  BY DEF FindEnd, FindOverrun, FindNoText, Finding
<1>2. SUFFICES ASSUME NEW r, r = find, r = find'
               PROVE  /\ FindInv' /\ pc' \in {"idle", "panic"} /\ result' \in {"err", "panic"}
                      /\ r # NoFind /\ (pc' = "idle" => result' = "err")
  BY <1>1
<1>3. IsFind(r) /\ ForName(r) /\ r # NoFind /\ (InPlace(r.root) => InDir(r) /\ Searching(r))
  BY <1>1, <1>2, UnderWay
<1>4. CASE FindEnd
  <2>1. result' = "err" /\ pc' = "idle" /\ r.i <= ClusterEntries /\ r.dir[r.i].kind = "end"
    BY <1>2, <1>4 DEF FindEnd, Return, Finding, Entry
  <2>2. InPlace(r.root) => NotFound(r)
    BY <1>3, <2>1, SearchEnds
  <2> QED
    BY <1>1, <1>2, <1>3, <2>1, <2>2, FindStops
<1>5. CASE FindOverrun
  <2>1. result' = "panic" /\ pc' = "panic" /\ r.i > ClusterEntries
    BY <1>2, <1>5 DEF FindOverrun, Return
  <2>2. InPlace(r.root) => Stuck(r)
    BY <1>3, <2>1, SearchEnds
  <2> QED
    BY <1>1, <1>2, <1>3, <2>1, <2>2, FindStops
<1>6. CASE FindNoText
  <2>1. result' = "panic" /\ pc' = "panic" /\ r.i <= ClusterEntries /\ r.dir[r.i].kind = "file" /\ ~TextAt(r)
    BY <1>2, <1>6 DEF FindNoText, Return, Finding, Entry, Readable, TextAt
  <2>2. InPlace(r.root) => Stuck(r)
    BY <1>3, <2>1, EntryStuck
  <2> QED
    BY <1>1, <1>2, <1>3, <2>1, <2>2, FindStops
<1> QED
  BY <1>4, <1>5, <1>6

\* An entry that is not in use.
LEMMA FindUnusedInv ==
    ASSUME Inv, FindUnused \/ FindLong
    PROVE  FindInv' /\ pc' = "find" /\ result' = "none"
<1>1. pc = "find" /\ pc' = pc /\ result' = result /\ volume' = volume
  BY DEF FindUnused, FindLong, Finding
<1>2. SUFFICES ASSUME NEW r, r = find, NEW s, s = find'
               PROVE  FindInv' /\ pc' = "find" /\ result' = "none"
  OBVIOUS
<1>3. /\ IsFind(r) /\ ForName(r) /\ result = "none" /\ r.i \in 1 .. (ClusterEntries + 1)
      /\ InPlace(r.root) => InDir(r) /\ Searching(r)
  BY <1>1, <1>2, UnderWay
<1>4. /\ r.i <= ClusterEntries
      /\ \/ r.dir[r.i].kind = "long" /\ s = [r EXCEPT !.i = r.i + 1, !.long = Append(r.long, r.dir[r.i].part)]
         \/ r.dir[r.i].kind = "unused" /\ s = [r EXCEPT !.i = r.i + 1]
  BY <1>2 DEF FindUnused, FindLong, Finding, Entry
<1>5. /\ IsFind(s) /\ s.root = r.root /\ s.held = r.held /\ s.dir = r.dir /\ s.name = r.name
      /\ s.i = r.i + 1 /\ s.string = r.string
      /\ \/ r.dir[r.i].kind = "long" /\ s.long = Append(r.long, r.dir[r.i].part)
         \/ r.dir[r.i].kind = "unused" /\ s.long = r.long
  BY <1>3, <1>4 DEF IsFind
<1>6. ForName(s) /\ s.i \in 1 .. (ClusterEntries + 1)
  <2>1. ForName(s)
    BY <1>3, <1>5 DEF ForName
  <2>2. r.i \in Nat /\ ClusterEntries \in Nat /\ r.i >= 1 /\ r.i <= ClusterEntries
    BY <1>3, <1>4, Numbers
  <2>3. s.i \in 1 .. (ClusterEntries + 1)
    BY <1>5, <2>2
  <2> QED
    BY <2>1, <2>3
<1>7. InPlace(s.root) => InDir(s) /\ Searching(s)
  BY <1>3, <1>4, <1>5, <1>6, NotInUseStep DEF InDir
<1> QED
  BY <1>1, <1>2, <1>3, <1>5, <1>6, <1>7, FindGoesOn

\* A file or a directory.
LEMMA FindEntryInv ==
    ASSUME Inv, FindEntry
    PROVE  FindInv' /\ pc' \in {"find", "idle"} /\ result' \in {"none", "ok"}
<1>1. pc = "find" /\ volume' = volume
  BY DEF FindEntry, Finding
<1>2. SUFFICES ASSUME NEW r, r = find, NEW s, s = find'
               PROVE  FindInv' /\ pc' \in {"find", "idle"} /\ result' \in {"none", "ok"}
  OBVIOUS
<1>3. /\ IsFind(r) /\ ForName(r) /\ result = "none" /\ r.i \in 1 .. (ClusterEntries + 1)
      /\ InPlace(r.root) => InDir(r) /\ Searching(r)
  BY <1>1, <1>2, UnderWay
<1>4. r.i <= ClusterEntries /\ r.dir[r.i].kind = "file" /\ TextAt(r) /\ ClusterEntries \in Nat
  BY <1>2, Numbers DEF FindEntry, Finding, Entry, Readable, TextAt
<1>5. /\ s = [r EXCEPT !.string = StringAt(r), !.long = <<>>, !.i = IF MatchAt(r) THEN r.i ELSE r.i + 1,
                       !.found = IF MatchAt(r) THEN r.i ELSE 0]
      /\ IF MatchAt(r) THEN Return("ok") ELSE UNCHANGED <<pc, result>>
  BY <1>2 DEF FindEntry, Entry, StringAt, MatchAt
<1>6. PICK i, found : i = (IF MatchAt(r) THEN r.i ELSE r.i + 1) /\ found = (IF MatchAt(r) THEN r.i ELSE 0)
  OBVIOUS
<1>7. i \in 1 .. (ClusterEntries + 1) /\ found \in 0 .. ClusterEntries
  BY <1>3, <1>4, <1>6
<1>8. PICK string : string = StringAt(r)
  OBVIOUS
<1>9. s = [r EXCEPT !.string = string, !.long = <<>>, !.i = i, !.found = found]
  BY <1>5, <1>6, <1>8
<1>10. /\ IsFind(s) /\ ForName(s) /\ s.root = r.root /\ s.held = r.held /\ s.dir = r.dir /\ s.name = r.name
      /\ s.string = StringAt(r) /\ s.long = <<>> /\ s.i = i /\ s.found = found
  <2>1. IsFind(r) /\ ForName(r) /\ found \in 0 .. ClusterEntries
    BY <1>3, <1>7
  <2>2. s = [root |-> r.root, cluster |-> r.cluster, held |-> r.held, dir |-> r.dir, name |-> r.name,
             i |-> i, long |-> <<>>, string |-> string, found |-> found]
    BY <1>9, <2>1 DEF IsFind
  <2>3. /\ s.root = r.root /\ s.held = r.held /\ s.dir = r.dir /\ s.name = r.name
        /\ s.string = string /\ s.long = <<>> /\ s.i = i /\ s.found = found
    BY <2>2
  <2>4. s = [root |-> s.root, cluster |-> s.cluster, held |-> s.held, dir |-> s.dir, name |-> s.name,
             i |-> s.i, long |-> s.long, string |-> s.string, found |-> s.found]
    BY <2>2
  <2>5. IsFind(s) /\ ForName(s)
    BY <2>1, <2>3, <2>4 DEF IsFind, ForName
  <2> QED
    BY <1>8, <2>3, <2>5
<1>11. CASE MatchAt(r)
  <2>1. pc' = "idle" /\ result' = "ok"
    BY <1>5, <1>11 DEF Return
  <2>2. s.found = r.i
    BY <1>6, <1>10, <1>11
  <2>3. InPlace(s.root) => Found(s)
    BY <1>3, <1>4, <1>10, <1>11, <2>2, EntryFound
  <2> QED
    BY <1>1, <1>2, <1>10, <2>1, <2>3, FindStops
<1>12. CASE ~MatchAt(r)
  <2>1. pc' = "find" /\ result' = "none"
    BY <1>1, <1>3, <1>5, <1>12
  <2>2. s.i = r.i + 1 /\ s.i \in 1 .. (ClusterEntries + 1)
    BY <1>6, <1>7, <1>10, <1>12
  <2>3. InPlace(s.root) => InDir(s) /\ Searching(s)
    BY <1>3, <1>4, <1>10, <1>12, <2>2, EntryPassed DEF InDir
  <2> QED
    BY <1>1, <1>2, <1>10, <2>1, <2>2, <2>3, FindGoesOn
<1> QED
  BY <1>11, <1>12

-----------------------------------------------------------------------------
(* The invariant is inductive.                                             *)

\* It holds before anything has been read.
LEMMA InitInv ==
    ASSUME Init
    PROVE  Inv
<1>1. /\ io = IoIdle /\ count0 = 0 /\ drive = [state |-> "idle", at |-> 0, left |-> 0] /\ faults = 0
      /\ volume \in Volumes /\ fat = <<>> /\ pc = "probe" /\ probe = 0 /\ find = NoFind /\ read = NoRead
      /\ result = "none"
  BY DEF Init, AtaInit
<1>2. AtaInv
  <2>1. /\ io \in [pc : {"idle", "reset", "await", "poll", "ok", "err"}, sector : Nat, count : Nat,
                   buffer : Seq(Nat)]
        /\ io.pc = "idle" /\ io.count = 0 /\ io.buffer = <<>>
    BY <1>1 DEF IoIdle
  <2>2. Len(io.buffer) = 0 /\ 1 .. Len(io.buffer) = {}
    BY <2>1
  <2>3. count0 \in 0 .. (CountMod - 1) /\ faults \in 0 .. Faults
    BY <1>1, AtaAssumption
  <2>4. drive \in [state : {"idle", "busy", "data", "error"}, at : Nat, left : 0 .. CountMod]
        /\ drive.state = "idle"
    BY <1>1, AtaAssumption
  <2> QED
    BY <2>1, <2>2, <2>3, <2>4 DEF AtaInv
<1>3. CallInv
  BY <1>1 DEF CallInv, IoIdle
<1>4. MountInv
  <2>1. NewReads \in {4, 5} /\ ProbeReads \in Nat
    BY <1>1, VolumeNumbers
  <2>2. 0 = FatRead /\ 0 \in 0 .. ProbeReads
    BY <1>1, <2>1 DEF FatRead
  <2>3. fat = FatOf(0)
    <3>1. 0 * SectorEntries = 0 /\ 1 .. 0 = {}
      BY Numbers
    <3> QED
      BY <1>1, <3>1 DEF FatOf
  <2> QED
    BY <1>1, <2>2, <2>3, 0 \in Nat DEF MountInv, Mounted
<1>5. ReadInv
  <2>1. NoRead \in Reads
    BY DEF NoRead, Reads
  <2>2. NoRead.file = 0 /\ NoRead.count = 0 /\ Len(NoRead.bytes) = 0
    BY DEF NoRead
  <2>3. ReadOf(NoRead)
    BY <1>1, <2>2 DEF ReadOf
  <2> QED
    BY <1>1, <2>1, <2>3 DEF ReadInv
<1>6. FindInv
  <2>1. IsFind(NoFind)
    BY Numbers DEF NoFind, IsFind
  <2>2. FindOf(NoFind)
    BY <1>1, <2>1 DEF FindOf
  <2> QED
    BY <1>1, <2>2 DEF FindInv
<1> QED
  BY <1>2, <1>3, <1>4, <1>5, <1>6 DEF Inv

\* The number of faults that have happened.
LEMMA FaultsInNat ==
    ASSUME AtaInv
    PROVE  faults \in Nat
BY AtaAssumption DEF AtaInv

\* A step of the driver or of the drive, and one that changes nothing.
LEMMA BusInv ==
    ASSUME Inv, Bus \/ UNCHANGED vars
    PROVE  Inv'
<1>1. UNCHANGED fatVars
  BY DEF Bus, vars
<1>2. AtaInv' /\ CallInv' /\ faults' >= faults /\ faults \in Nat /\ faults' \in Nat
  <2>1. CASE Bus
    BY <1>1, <2>1, BusCall DEF Bus
  <2>2. CASE UNCHANGED vars
    <3>1. io' = io /\ count0' = count0 /\ drive' = drive /\ faults' = faults /\ volume' = volume
          /\ pc' = pc /\ probe' = probe
      BY <2>2 DEF vars, ataVars, fatVars
    <3>2. AtaInv /\ CallInv /\ faults \in Nat
      BY FaultsInNat DEF Inv
    <3>3. AskedSector' = AskedSector /\ AskedCount' = AskedCount /\ AskedLimit' = AskedLimit
      BY <1>1, SameAsked
    <3>4. ProbeReads' = ProbeReads
      BY <3>1, SameVolume
    <3> QED
      BY <3>1, <3>2, <3>3, <3>4 DEF AtaInv, CallInv
  <2> QED
    BY <2>1, <2>2
<1>3. MountInv'
  BY <1>1, <1>2, MountSame
<1>4. ReadInv'
  BY <1>1, <1>2, ReadSame DEF Inv, fatVars
<1>5. FindInv'
  BY <1>1, <1>2, FindSame DEF Inv, fatVars
<1> QED
  BY <1>2, <1>3, <1>4, <1>5 DEF Inv

\* A step of ide_initialize or of mount.
LEMMA ProbeInv ==
    ASSUME Inv, Probe
    PROVE  Inv'
<1>1. pc = "probe"
  BY DEF Probe, ProbeCall, ProbeOk, ProbePanic, ProbeDone
<1>2. find = NoFind /\ read = NoRead /\ faults \in Nat
  BY <1>1, FaultsInNat DEF Inv, MountInv
<1>3. CASE ProbeCall
  <2>1. AtaInv' /\ CallInv'
    BY <1>3, ProbeCallInv
  <2>2. UNCHANGED fatVars /\ faults' = faults
    BY <1>3 DEF ProbeCall
  <2>3. MountInv'
    BY <1>2, <2>2, MountSame
  <2>4. ReadInv'
    BY <1>2, <2>2, ReadSame DEF Inv, fatVars
  <2>5. FindInv'
    BY <1>2, <2>2, FindSame DEF Inv, fatVars
  <2> QED
    BY <2>1, <2>3, <2>4, <2>5 DEF Inv
<1>4. CASE ProbeOk \/ ProbePanic \/ ProbeDone
  <2>1. AtaInv' /\ CallInv'
    BY <1>4, QuietCall DEF Quiet
  <2>2. MountInv'
    BY <1>4, ProbeOkMount, ProbeEndMount
  <2>3. find' = NoFind /\ read' = NoRead
    BY <1>2, <1>4 DEF ProbeOk, ProbePanic, ProbeDone
  <2>4. Judged \in {"probe", "panic", "unmounted"}
    BY DEF Judged
  <2>5. pc' \notin {"skip", "cluster", "next", "dir", "find"}
    BY <1>4, <2>4 DEF ProbeOk, ProbePanic, ProbeDone
  <2>6. ReadInv' /\ FindInv'
    BY <2>3, <2>5, NoReadInv, NoFindInv
  <2> QED
    BY <2>1, <2>2, <2>6 DEF Inv
<1> QED
  BY <1>3, <1>4 DEF Probe

\* A step of the search.
LEMMA FindStepInv ==
    ASSUME Inv, Find
    PROVE  Inv'
<1>1. pc \in {"dir", "find"} /\ volume' = volume /\ fat' = fat /\ probe' = probe /\ read' = read
  BY DEF Find, LookupRead, FindOverrun, FindEnd, FindUnused, FindLong, FindNoText, FindEntry, Finding
<1>2. AtaInv' /\ CallInv' /\ faults' = faults /\ faults \in Nat
  BY QuietCall, FaultsInNat DEF Find, Quiet, Inv
<1>3. /\ FindInv' /\ pc' \in {"find", "idle", "panic"} /\ result' \in {"none", "ok", "err", "panic"}
      /\ pc' = "panic" => find' # NoFind
      /\ pc' # "panic" => result' # "panic"
  <2>1. CASE LookupRead
    BY <2>1, LookupReadInv
  <2>2. CASE FindEnd \/ FindOverrun \/ FindNoText
    BY <2>2, FindEndInv
  <2>3. CASE FindUnused \/ FindLong
    BY <2>3, FindUnusedInv
  <2>4. CASE FindEntry
    BY <2>4, FindEntryInv
  <2> QED
    BY <2>1, <2>2, <2>3, <2>4 DEF Find
<1>4. MountInv'
  BY <1>1, <1>2, <1>3, LaterSteps DEF Mounted
<1>5. read' = NoRead
  <2>1. \E r \in {read} : ReadOf(r)
    BY DEF Inv, ReadInv
  <2> QED
    BY <1>1, <2>1 DEF ReadOf
<1>6. ReadInv'
  BY <1>3, <1>5, NoReadInv
<1> QED
  BY <1>2, <1>3, <1>4, <1>6 DEF Inv

\* A step of a read.
LEMMA CopyStepInv ==
    ASSUME Inv, Copy
    PROVE  Inv'
<1>1. pc \in {"skip", "cluster", "next"} /\ volume' = volume /\ fat' = fat /\ probe' = probe /\ find' = find
  BY DEF Copy, NextInMemory, NextCall, NextRead, ClusterCall, ClusterRead, fatVars
<1>2. faults \in Nat
  BY FaultsInNat DEF Inv
<1>3. CASE NextCall \/ ClusterCall
  <2>1. AtaInv' /\ CallInv'
    BY <1>3, NextCallInv, ClusterCallInv
  <2>2. UNCHANGED fatVars /\ faults' = faults
    BY <1>3 DEF NextCall, ClusterCall
  <2>3. MountInv'
    BY <1>2, <2>2, MountSame
  <2>4. ReadInv'
    BY <1>2, <2>2, ReadSame DEF Inv, fatVars
  <2>5. FindInv'
    BY <1>2, <2>2, FindSame DEF Inv, fatVars
  <2> QED
    BY <2>1, <2>3, <2>4, <2>5 DEF Inv
<1>4. CASE NextInMemory \/ NextRead \/ ClusterRead
  <2>1. AtaInv' /\ CallInv' /\ faults' = faults
    BY <1>4, QuietCall DEF Quiet
  <2>2. /\ ReadInv' /\ read'.file # 0 /\ pc' \in {"skip", "cluster", "next", "idle", "panic"}
        /\ pc' # "panic" => result' \in {"none", "ok", "err"}
    BY <1>4, NextInMemoryInv, NextReadInv, ClusterReadInv
  <2>3. result' \in {"none", "ok", "err", "panic"}
    BY <1>4 DEF NextInMemory, NextRead, ClusterRead, Follow, Return, Inv, MountInv
  <2>4. read' # NoRead
    BY <2>2 DEF NoRead
  <2>5. MountInv'
    BY <1>1, <1>2, <2>1, <2>2, <2>3, <2>4, LaterSteps DEF Mounted
  <2>6. find = NoFind
    <3>1. \E r \in {find} : FindOf(r)
      BY DEF Inv, FindInv
    <3> QED
      BY <1>1, <3>1 DEF FindOf
  <2>7. FindInv'
    BY <1>1, <2>2, <2>6, NoFindInv
  <2> QED
    BY <2>1, <2>2, <2>5, <2>7 DEF Inv
<1> QED
  BY <1>3, <1>4 DEF Copy

\* A call.
LEMMA CallStepInv ==
    ASSUME Inv, Call
    PROVE  Inv'
<1>1. faults \in Nat
  BY FaultsInNat DEF Inv
<1>2. ASSUME NEW root \in BOOLEAN, NEW c, NEW held \in Directories, NEW name \in Names,
             Lookup(root, c, held, name), IF root THEN c = root_cluster ELSE c \in Nat
      PROVE  Inv'
  <2>1. AtaInv' /\ CallInv'
    BY <1>2, LookupCallInv
  <2>2. /\ pc = "idle" /\ pc' = "dir" /\ read' = NoRead /\ result' = "none" /\ volume' = volume
        /\ fat' = fat /\ probe' = probe /\ faults' = faults
    BY <1>2 DEF Lookup
  <2>3. MountInv'
    BY <1>1, <2>2, LaterSteps DEF Mounted
  <2>4. ReadInv' /\ FindInv'
    BY <1>2, <2>2, NoReadInv, LookupInv
  <2> QED
    BY <2>1, <2>3, <2>4 DEF Inv
<1>3. ASSUME NEW f \in DOMAIN Entries, NEW count \in 0 .. Entries[f].file_size,
             NEW offset \in 0 .. Entries[f].file_size, Read(f, count, offset)
      PROVE  Inv'
  <2>1. AtaInv' /\ CallInv' /\ faults' = faults
    BY <1>3, QuietCall DEF Quiet
  <2>2. ReadInv' /\ pc' \in {"skip", "cluster"}
    BY <1>3, ReadBegins
  <2>3. pc = "idle" /\ find' = NoFind /\ result' = "none" /\ volume' = volume /\ fat' = fat /\ probe' = probe
    BY <1>3 DEF Read
  <2>4. MountInv'
    BY <1>1, <2>1, <2>2, <2>3, LaterSteps DEF Mounted
  <2>5. FindInv'
    BY <2>2, <2>3, NoFindInv
  <2> QED
    BY <2>1, <2>2, <2>4, <2>5 DEF Inv
<1>4. SubDirs \subseteq Nat
  BY DirectoryAssumption
<1> QED
  BY <1>2, <1>3, <1>4 DEF Call

\* Every step preserves the invariant.
LEMMA NextInv ==
    ASSUME Inv, [Next]_vars
    PROVE  Inv'
BY BusInv, ProbeInv, FindStepInv, CopyStepInv, CallStepInv DEF Next

\* The invariant holds in every state of every behaviour.
THEOREM InvHolds == Spec => []Inv
<1>1. Init => Inv
  BY InitInv
<1>2. Inv /\ [Next]_vars => Inv'
  BY NextInv
<1> QED
  BY <1>1, <1>2, PTL DEF Spec

-----------------------------------------------------------------------------
(* What follows from it.                                                   *)

\* A read that is complete has the bytes asked for.
LEMMA BytesAreRead ==
    ASSUME Inv
    PROVE  ReadExact
<1>1. SUFFICES ASSUME NEW r, r = read, Reading, result = "ok", r.asked < cluster_size
               PROVE  r.bytes = [k \in 1 .. r.count |-> FileByte(r.file, r.asked + k - 1)]
  BY DEF ReadExact
<1>2. r \in Reads /\ ReadOf(r)
  BY <1>1 DEF Inv, ReadInv
<1>3. Complete(r)
  BY <1>1, <1>2 DEF ReadOf, Reading, Plain
<1>4. r.bytes \in Seq(Nat)
  BY <1>2, ReadBytes
<1>5. r.bytes = [k \in 1 .. Len(r.bytes) |-> r.bytes[k]]
  BY <1>4
<1>6. Len(r.bytes) = r.count /\ \A k \in 1 .. Len(r.bytes) : r.bytes[k] = FileByte(r.file, r.asked + (k - 1))
  BY <1>3 DEF Complete, FromFile
<1> QED
  BY <1>5, <1>6

\* What a panic and an error of a read come from.
LEMMA FailuresAreExplained ==
    ASSUME Inv
    PROVE  ReadPanicsOnlyAcrossClusters /\ ErrorsAreReal
<1>1. SUFFICES ASSUME NEW r, r = read PROVE ReadPanicsOnlyAcrossClusters /\ ErrorsAreReal
  OBVIOUS
<1>2. ReadOf(r)
  BY <1>1 DEF Inv, ReadInv
<1>3. Reading /\ result = "panic" => ReadFails(r)
  BY <1>1, <1>2 DEF ReadOf, Reading
<1>4. ReadPanicsOnlyAcrossClusters
  BY <1>1, <1>3 DEF ReadPanicsOnlyAcrossClusters, ReadFails
<1>5. ErrorsAreReal
  BY <1>1, <1>2 DEF ReadOf, Reading, ErrorsAreReal
<1> QED
  BY <1>4, <1>5

\* What a search has found.
LEMMA SearchIsExact ==
    ASSUME Inv
    PROVE  FindExact
<1>1. SUFFICES ASSUME NEW r, r = find PROVE FindExact
  OBVIOUS
<1>2. FindOf(r)
  BY <1>1 DEF Inv, FindInv
<1>3. r.name # <<>> => r # NoFind
  BY DEF NoFind
<1>4. r.name # <<>> /\ faults = 0 /\ InPlace(r.root) =>
        /\ result = "ok" => Found(r)
        /\ result = "err" => NotFound(r) \/ AtEnd(r)
        /\ result = "panic" => Stuck(r)
  BY <1>2, <1>3 DEF FindOf
<1> QED
  BY <1>1, <1>4 DEF FindExact, Found, NotFound, AtEnd, Stuck

\* What the volume is taken for, and the types.
LEMMA MountIsExact ==
    ASSUME Inv
    PROVE  MountExact
<1>1. AtaTypeOK
  BY DEF Inv, AtaInv, AtaTypeOK
<1>2. Len(read.bytes) <= read.count
  BY DEF Inv, ReadInv, ReadOf
<1>3. find.found \in 0 .. ClusterEntries
  BY DEF Inv, FindInv, FindOf, IsFind
<1>4. io.pc # "idle" => pc \notin {"idle", "find"}
  BY DEF Inv, CallInv
<1>5. /\ pc \in {"probe", "idle", "dir", "find", "skip", "cluster", "next", "panic", "unmounted"}
      /\ result \in {"none", "ok", "err", "panic"}
  BY DEF Inv, MountInv, Mounted
<1>6. TypeOK
  BY <1>1, <1>2, <1>3, <1>4, <1>5 DEF TypeOK
<1>7. pc \in {"idle", "dir", "find", "skip", "cluster", "next"} => fat_type = volume.format
  BY DEF Inv, MountInv, Mounted
<1>8. (pc = "unmounted" => PassedOver) /\ (pc = "panic" /\ read = NoRead /\ find = NoFind => ProbeFails)
  BY DEF Inv, MountInv
<1> QED
  BY <1>6, <1>7, <1>8 DEF MountExact, PassedOver, ProbeFails, Misread

\* A read that starts in the first cluster of a file and returns has returned the
\* bytes asked for: for every chain of clusters, wherever the FAT is kept, whatever
\* the size of the sectors, of the clusters and of the read (File::read).
THEOREM ReadsAreExact == Spec => []ReadExact
<1>1. Inv => ReadExact
  BY BytesAreRead
<1> QED
  BY <1>1, InvHolds, PTL

\* File::read panics only when the drive fails under get_next_cluster, or when the
\* read starts behind the first cluster or asks for a cluster or less that does not
\* end in it: the slice of the cluster's buffer and the index into the FAT are in
\* bounds in every other case.
THEOREM ReadPanics == Spec => []ReadPanicsOnlyAcrossClusters
<1>1. Inv => ReadPanicsOnlyAcrossClusters
  BY FailuresAreExplained
<1> QED
  BY <1>1, InvHolds, PTL

\* File::read returns an error only when the drive failed or the chain leads to the
\* last sector of the partition or beyond it.
THEOREM ReadErrors == Spec => []ErrorsAreReal
<1>1. Inv => ErrorsAreReal
  BY FailuresAreExplained
<1> QED
  BY <1>1, InvHolds, PTL

\* find_entry_in_directory finds the first entry of the name that is not missed, ends
\* without one only if there is none or the directory is at the end of the partition,
\* and panics only at a name that is no text or behind a cluster without an end mark:
\* for every name, whatever the directory holds and in whatever cluster it is, and for
\* the root directory of every FAT32 and of every FAT12 and FAT16 that gives it a number
\* of whole clusters.
THEOREM SearchesAreExact == Spec => []FindExact
<1>1. Inv => FindExact
  BY SearchIsExact
<1> QED
  BY <1>1, InvHolds, PTL

\* FatFs::new takes a volume for what it is, passes over only those it may pass over,
\* and panics only because of the drive, but for FAT12 and FAT16 with 2^16 sectors
\* or more, or with a root directory whose size does not fit in 16 bits.
THEOREM MountsAreExact == Spec => []MountExact
<1>1. Inv => MountExact
  BY MountIsExact
<1> QED
  BY <1>1, InvHolds, PTL

=============================================================================
