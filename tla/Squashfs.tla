------------------------------ MODULE Squashfs ------------------------------
(***************************************************************************)
(* The initramfs: lookups and reads of src/src/drivers/fs/initramfs/mod.rs *)
(* in a squashfs image.  Every slice of a table that the code takes is one *)
(* step, since it may decompress chunks and so change what later slices    *)
(* find.                                                                   *)
(*                                                                         *)
(* An image gives its superblock, the chunks of all its metadata by their  *)
(* place on the disk, the blocks of its data area, and what is stored at   *)
(* the positions of its tables: inodes, directory headers and entries.     *)
(* Sizes are those of the format; the size of a chunk, 8192 bytes in the   *)
(* kernel, is up to the image, and so is the number of fragments.          *)
(***************************************************************************)
EXTENDS ChunkReader, FiniteSets

CONSTANTS
    Images,     \* the images, see Init
    Names,      \* the names callers look up
    MaxRead     \* bound on the offset and length of a read

VARIABLES
    image,              \* the module the boot loader placed in memory
    inode_table,        \* the two tables, whose chunks get decompressed
    directory_table,
    pc,                 \* "idle", or the next slice of the call under way
    call,               \* its arguments and locals
    known,              \* the positions of the inodes callers hold
    result              \* how the last call ended: "none", "ok", "err", "panic", "hang"

vars == <<image, inode_table, directory_table, pc, call, known, result>>

\* size_of the structures that are read.
InodeSize(type) == IF type = "extended_directory" THEN 40 ELSE 32
DirectoryTableHeader == 12
EntryFields == 8
NoFragment == -1
SuperblockSize == 96
IsDirectory(inode) == inode.type \in {"directory", "extended_directory"}

\* What the code takes from an inode, in the widths of the format.  The position
\* of the listing and what its names stand for are for the properties.
BasicDirectoryInode(i) ==
    /\ i.type = "directory"
    /\ i.block_index \in Nat /\ i.block_offset \in 0 .. (2^16 - 1)
    /\ i.file_size \in 0 .. (2^16 - 1)
ExtendedDirectoryInode(i) ==
    /\ i.type = "extended_directory"
    /\ i.block_index \in Nat /\ i.block_offset \in 0 .. (2^16 - 1)
    /\ i.file_size \in Nat
BasicFileInode(i) ==
    /\ i.type = "file"
    /\ i.frag_idx \in Nat \union {NoFragment} /\ i.block_offset \in Nat /\ i.file_size \in Nat

\* What the code looks at in a superblock: a magic number that is there or not,
\* the numbers that must agree, two flags and where on the disk the tables begin;
\* u64::MAX is for a table that there is not.
Absent == -1
OptionalTable == Nat \union {Absent}
Superblock ==
    [magic : BOOLEAN, ver_major : 0 .. (2^16 - 1), ver_minor : 0 .. (2^16 - 1),
     block_size : Nat, block_log : 0 .. (2^16 - 1), compressor : 1 .. 6,
     uncompressed_data_blocks : BOOLEAN, uncompressed_fragments : BOOLEAN,
     inode_table : Nat, dir_table : Nat, id_table : Nat,
     frag_table : OptionalTable, export_table : OptionalTable, xattr_table : OptionalTable]

Gzip == 1

\* The block log is bounded before 1 is shifted by it; that the size is a power
\* of two, and not zero, the code asks again.
ValidSuperblock(sb) ==
    /\ sb.magic
    /\ sb.ver_major = 4 /\ sb.ver_minor = 0
    /\ sb.block_size <= 2^20
    /\ sb.block_log <= 20
    /\ sb.block_size = 2^sb.block_log

ASSUME ImageAssumption ==
    \A img \in Images :
      /\ img.superblock \in Superblock
      /\ IsDirectory(img.inodes[img.root.at])
      /\ img.superblock.inode_table \in DOMAIN img.metadata
      /\ img.superblock.inode_table =
           FoldLeft(LAMBDA at, b : at + b.stored, SuperblockSize, img.blocks)
      /\ img.fragment \in 0 .. Len(img.blocks)
      /\ \A p \in DOMAIN img.inodes :
           LET i == img.inodes[p] IN
           /\ i.type \in {"directory", "extended_directory", "file", "symlink"}
           /\ i.type = "directory" => BasicDirectoryInode(i)
           /\ i.type = "extended_directory" => ExtendedDirectoryInode(i)
           /\ i.type = "file" => BasicFileInode(i)

NoCall == [op |-> "none", dir |-> 0, name |-> "", block |-> 0, offset |-> 0,
           at |-> 0, i |-> 0, header |-> [count |-> 0, start |-> 0],
           entry |-> 0, bytes |-> << >>, count |-> 0]

\* Bytes that are not what they are read for: behind a listing lies whatever the
\* image has next.  A count or a length is at least 1, as it is stored less one.
HeaderAt(p) == IF p \in DOMAIN image.headers THEN image.headers[p]
               ELSE [count |-> 1, start |-> 0]
EntryAt(p) == IF p \in DOMAIN image.entries THEN image.entries[p]
              ELSE [name |-> "", utf8 |-> TRUE, length |-> 1, offset |-> 0]
TypeAt(p) == IF p \in DOMAIN image.inodes THEN image.inodes[p].type ELSE "unknown"

Init ==
    /\ image \in Images
    /\ inode_table = << >> /\ directory_table = << >>
    /\ pc = "new"
    /\ call = [NoCall EXCEPT !.op = "new"]
    /\ known = {}
    /\ result = "none"

Return(how) ==
    /\ pc' = IF how \in {"ok", "err"} THEN "idle" ELSE "stopped"
    /\ result' = how

\* A slice of the inode table or of the directory table that failed, or that is
\* too short for the structure read from it.
InodeSlice(size) == get_slice(inode_table, call.block, call.offset, size)

ListingSlice(at, size) ==
    get_slice(directory_table, image.inodes[call.dir].block_index,
              image.inodes[call.dir].block_offset + at, size)

Stops(slice, size) ==
    /\ slice.how # "ok" \/ Len(slice.bytes) < size
    /\ Return(IF slice.how = "hang" THEN "hang" ELSE "panic")
    /\ UNCHANGED <<image, inode_table, directory_table, call, known>>

Gets(slice, size) == slice.how = "ok" /\ Len(slice.bytes) >= size

\* The tables that there are, in the order in which Squashfs::new takes them to
\* lie on the disk, and the bytes of one: up to where the next begins.
Tables(sb) ==
    SelectSeq(<<sb.inode_table, sb.dir_table, sb.frag_table, sb.export_table, sb.id_table,
                sb.xattr_table>>, LAMBDA at : at # Absent)

WholeTable(i) ==
    LET at == Tables(image.superblock) IN chunks_of(image.metadata, at[i], at[i + 1])

\* Squashfs::new, and root, which mounting it calls.  The metadata of the table
\* behind the directories lies before what its pointer in the superblock points
\* to, so it is part of the directory table.  A kernel without a usable initramfs
\* panics.
New ==
    /\ pc = "new"
    /\ \/ /\ ~ValidSuperblock(image.superblock) \/ image.superblock.compressor # Gzip
          /\ Return("panic")
          /\ UNCHANGED <<inode_table, directory_table, call>>
       \/ /\ ValidSuperblock(image.superblock) /\ image.superblock.compressor = Gzip
          /\ pc' = "type"
          /\ call' = [NoCall EXCEPT !.op = "root", !.block = image.root.block,
                                    !.offset = image.root.offset]
          /\ inode_table' = WholeTable(1)
          /\ directory_table' = WholeTable(2)
          /\ UNCHANGED result
    /\ UNCHANGED <<image, known>>

-----------------------------------------------------------------------------
(* read_inode: first the type, then as many bytes as that type has.        *)

ReadType ==
    /\ pc = "type"
    /\ LET s == InodeSlice(2) IN
       \/ Stops(s, 2)
       \/ /\ Gets(s, 2)
          /\ inode_table' = s.table
          /\ call' = [call EXCEPT !.entry = s.bytes[1]]
          /\ pc' = "inode"
          /\ UNCHANGED <<image, directory_table, known, result>>

ReadInode ==
    /\ pc = "inode"
    /\ LET type == TypeAt(call.entry)
           size == InodeSize(type)
           s    == InodeSlice(size)
       IN IF type \notin {"directory", "extended_directory", "file"}
          THEN /\ Return("panic")
               /\ UNCHANGED <<image, inode_table, directory_table, call, known>>
          ELSE \/ Stops(s, size)
               \/ /\ Gets(s, size)
                  /\ inode_table' = s.table
                  /\ known' = known \union {call.entry}
                  /\ Return("ok")
                  /\ UNCHANGED <<image, directory_table, call>>

-----------------------------------------------------------------------------
(* find_entry_in_directory.  Callers look names up in directories only: a  *)
(* lookup in a file is a panic of the VFS, see Vfs.tla.                     *)

Dir == image.inodes[call.dir]

Lookup(d, name) ==
    /\ pc = "idle" /\ d \in known
    /\ IsDirectory(image.inodes[d])
    /\ call' = [NoCall EXCEPT !.op = "lookup", !.dir = d, !.name = name]
    /\ pc' = IF image.inodes[d].file_size = 0 THEN "end" ELSE "header"
    /\ result' = "none"
    /\ UNCHANGED <<image, inode_table, directory_table, known>>

\* The header of a run of entries, or what lies behind the last run: file_size
\* is three more than the listing has bytes, so the loop always looks for a
\* further header when a name is missing.
ReadHeader ==
    /\ pc = "header"
    /\ LET s == ListingSlice(call.at, DirectoryTableHeader) IN
       \/ Stops(s, DirectoryTableHeader)
       \/ /\ Gets(s, DirectoryTableHeader)
          /\ directory_table' = s.table
          /\ call' = [call EXCEPT !.header = HeaderAt(s.bytes[1]), !.i = 0,
                                  !.at = @ + DirectoryTableHeader]
          /\ pc' = "loop"
          /\ UNCHANGED <<image, inode_table, known, result>>

\* Mutant: the end of the listing is looked for first.
LoopEndFirst ==
    /\ pc = "loop"
    /\ pc' = IF call.at >= Dir.file_size \/ call.i = call.header.count THEN "end" ELSE "name"
    /\ UNCHANGED <<image, inode_table, directory_table, call, known, result>>

\* Mutant: the end of the listing is not looked for.
LoopForever ==
    /\ pc = "loop"
    /\ pc' = IF call.i = call.header.count /\ call.at # Dir.file_size THEN "header" ELSE "name"
    /\ UNCHANGED <<image, inode_table, directory_table, call, known, result>>

Loop ==
    /\ pc = "loop"
    /\ pc' = IF call.i = call.header.count /\ call.at # Dir.file_size THEN "header"
             ELSE IF call.at >= Dir.file_size THEN "end"
             ELSE "name"
    /\ UNCHANGED <<image, inode_table, directory_table, call, known, result>>

\* The length of the name, two bytes of the entry, and then the entry, whose name
\* must be UTF-8 whether or not it is the one that is looked for.
ReadName ==
    /\ pc = "name"
    /\ LET s == ListingSlice(call.at + 6, 2) IN
       \/ Stops(s, 2)
       \/ /\ Gets(s, 2)
          /\ directory_table' = s.table
          /\ call' = [call EXCEPT !.entry = s.bytes[1] - 6]
          /\ pc' = "entry"
          /\ UNCHANGED <<image, inode_table, known, result>>

ReadEntry ==
    /\ pc = "entry"
    /\ LET e    == EntryAt(call.entry)
           size == EntryFields + e.length
           s    == ListingSlice(call.at, size)
       IN \/ Stops(s, size)
          \/ /\ Gets(s, size) /\ ~e.utf8
             /\ directory_table' = s.table
             /\ Return("panic")
             /\ UNCHANGED <<image, inode_table, call, known>>
          \/ /\ Gets(s, size) /\ e.utf8
             /\ directory_table' = s.table
             /\ IF e.name = call.name
                THEN /\ call' = [call EXCEPT !.block = call.header.start, !.offset = e.offset]
                     /\ pc' = "type"
                ELSE /\ call' = [call EXCEPT !.i = @ + 1, !.at = @ + size]
                     /\ pc' = "loop"
             /\ UNCHANGED <<image, inode_table, known, result>>

LookupFails ==
    /\ pc = "end"
    /\ Return("err")
    /\ UNCHANGED <<image, inode_table, directory_table, call, known>>

-----------------------------------------------------------------------------
(* Inode::read.  A byte of file data is its position in what the blocks of  *)
(* the data area decompress to; the blocks of files come first, fragments   *)
(* last.  A byte of a compressed block is no byte of a file.                *)

Garbage == -1
Plain(b) == [k \in 1 .. b.size |-> b.base + k - 1]
Stored(b) == IF b.compressed THEN [k \in 1 .. b.stored |-> Garbage] ELSE Plain(b)
Raw(blocks) == FlattenSeq([k \in DOMAIN blocks |-> Stored(blocks[k])])

Ok(bytes) == [how |-> "ok", bytes |-> bytes]
Panic == [how |-> "panic", bytes |-> << >>]

\* What uncompress_data may return for a run of blocks, and what unwrap_or makes
\* of it.  The checksum is the last four bytes of the input, so a compressed block
\* with anything behind it fails, and its bytes are taken for the data as they are.
\* Bytes that were not compressed mostly fail at once, but may pass for the
\* beginning of a stream (the decoder then fails or panics), or be one.
Uncompressed(blocks) ==
    IF Len(Raw(blocks)) <= 2 THEN {Panic}
    ELSE IF ~blocks[1].compressed
         THEN {Ok(Raw(blocks)), Panic, Ok([k \in DOMAIN Raw(blocks) |-> Garbage])}
    ELSE IF Len(blocks) = 1 THEN {Ok(Plain(blocks[1]))}
    ELSE {Ok(Raw(blocks))}

\* The first two bytes are looked at before anything else.
get_decompressed_table(blocks, is_compressed) ==
    IF Len(Raw(blocks)) < 2 THEN {Panic}
    ELSE IF is_compressed THEN Uncompressed(blocks)
    ELSE {Ok(Raw(blocks))}

\* Whether two bytes pass for the head of a zlib stream: method 8, a window of at
\* most 32 KiB, the check, and no dictionary.
ZlibHead(cmf, flags) ==
    /\ cmf % 16 = 8 /\ cmf \div 16 <= 7
    /\ (cmf * 256 + flags) % 31 = 0
    /\ (flags \div 32) % 2 = 0

\* The fragment table itself, pointers that are never compressed, is decompressed
\* too unless fragments are flagged as uncompressed.  It fails, and is used as it
\* is, but for a first pointer that passes for the head of a stream.
PointerDecodes ==
    /\ ~image.superblock.uncompressed_fragments
    /\ ZlibHead(image.fragment_pointer % 256, (image.fragment_pointer \div 256) % 256)

\* The data_table of Inode::read: the whole data area for a file without a
\* fragment, or the first fragment, which is a block with a flag of its own.
DataTable(f) ==
    IF f.frag_idx = NoFragment
    THEN get_decompressed_table(image.blocks, ~image.superblock.uncompressed_data_blocks)
    ELSE IF image.superblock.frag_table = Absent THEN {Panic}
    ELSE LET b == image.blocks[image.fragment] IN
         get_decompressed_table(<<b>>, b.compressed) \union (IF PointerDecodes THEN {Panic} ELSE {})

\* Mutant: the place of the file in its fragment is not added.
PlaceFirst(f, offset) == offset

\* Where in it a read begins: block_start is not used.
Place(f, offset) == f.block_offset + offset

Read(p, count, offset) ==
    /\ pc = "idle" /\ p \in known
    /\ image.inodes[p].type = "file" /\ image.inodes[p].frag_idx <= 0
    /\ \E data_table \in DataTable(image.inodes[p]) :
         LET at   == Place(image.inodes[p], offset)
             fits == data_table.how = "ok" /\ at + count <= Len(data_table.bytes)
         IN  /\ call' = [NoCall EXCEPT !.op = "read", !.entry = p, !.at = offset, !.count = count,
                            !.bytes = IF fits THEN SubSeq(data_table.bytes, at + 1, at + count)
                                      ELSE << >>]
             /\ Return(IF fits THEN "ok" ELSE "panic")
    /\ UNCHANGED <<image, inode_table, directory_table, known>>

\* frag_idx, the number of a fragment, is taken for the position of a byte in
\* the fragment table: but for the first one, the eight bytes there are parts of
\* two numbers, and the pointer made of them points anywhere in or behind the
\* image.  What is found there is returned, or is the end of the kernel.
ReadAstray(p, count, offset) ==
    /\ pc = "idle" /\ p \in known
    /\ image.inodes[p].type = "file" /\ image.inodes[p].frag_idx > 0
    /\ call' = [NoCall EXCEPT !.op = "read", !.entry = p, !.at = offset, !.count = count,
                              !.bytes = [k \in 1 .. count |-> Garbage]]
    /\ \E how \in {"ok", "panic"} : Return(how)
    /\ UNCHANGED <<image, inode_table, directory_table, known>>

\* A panic, or a search that never ends.
Stopped == pc = "stopped" /\ UNCHANGED vars

Next ==
    \/ New
    \/ ReadType
    \/ ReadInode
    \/ \E d \in known, name \in Names : Lookup(d, name)
    \/ ReadHeader
    \/ Loop
    \/ ReadName
    \/ ReadEntry
    \/ LookupFails
    \/ \E p \in known, count \in 0 .. MaxRead, offset \in 0 .. MaxRead :
         Read(p, count, offset) \/ ReadAstray(p, count, offset)
    \/ Stopped

Spec == Init /\ [][Next]_vars

-----------------------------------------------------------------------------
(* Properties.                                                             *)

Done(op) == call.op = op /\ pc \in {"idle", "stopped"}

\* Whatever was looked up and decompressed before, a lookup that returns has
\* found the inode that the directory gives the name, and one that fails has
\* been for a name that is not there: over several headers, inodes across two
\* chunks, and the bytes behind the listing that are taken for a header.
FindExact ==
    Done("lookup") =>
      /\ result = "ok" => call.name \in DOMAIN Dir.names /\ call.entry = Dir.names[call.name]
      /\ result = "err" => call.name \notin DOMAIN Dir.names

\* The n bytes from position p on go beyond the chunk they begin in, by some
\* number of bytes in `over`.
Beyond(table, p, n, over) ==
    \E k \in DOMAIN table :
      /\ p >= table[k].base /\ p < table[k].base + table[k].size
      /\ p + n - (table[k].base + table[k].size) \in over

\* The inode that a call is to find, if there is one.
Sought == IF call.op = "root" THEN {image.root.at}
          ELSE {Dir.names[x] : x \in {call.name} \intersect DOMAIN Dir.names}

\* A name that is not UTF-8 is listed, and not behind the one looked for.
Illegible ==
    LET listed == {q \in DOMAIN image.entries :
                     q \in Dir.listing .. (Dir.listing + Dir.file_size - 3)}
    IN  \E q \in listed :
          /\ ~image.entries[q].utf8
          /\ \A r \in listed : image.entries[r].name = call.name => q < r

\* No missing name, empty directory or second header makes a lookup panic: a
\* panic is for an inode of a type that is not supported, for an inode, or its
\* type, that ends one or two bytes behind its chunk, for a listing that goes on
\* behind its chunk (with the 12 bytes that are taken for one more header), or for
\* a name before the one looked for that is not UTF-8.
LookupPanicsHaveCause ==
    result = "panic" /\ call.op \in {"root", "lookup"} =>
      \/ \E p \in Sought :
           \/ image.inodes[p].type \notin {"directory", "extended_directory", "file"}
           \/ \E n \in {2, InodeSize(image.inodes[p].type)} : Beyond(inode_table, p, n, 1 .. 2)
      \/ /\ call.op = "lookup"
         /\ LET n == Dir.file_size - 3 + DirectoryTableHeader
            IN  Beyond(directory_table, Dir.listing, n, 1 .. n)
      \/ call.op = "lookup" /\ Illegible

\* The search for a chunk comes to an end, also when chunks are compressed and so
\* of different lengths, as get_slice says it handles.
SearchEnds == result # "hang"

\* Where it does not end: the first chunk of the table was stored compressed, and
\* what is looked for lies behind that chunk.  Tables of one chunk, structures in
\* the first and tables that are not compressed are found.
HangsOnlyBehindCompressed ==
    result = "hang" =>
      \/ /\ image.metadata[image.superblock.inode_table].compressed
         /\ \E p \in Sought : p >= inode_table[1].base + inode_table[1].size
      \/ /\ image.metadata[image.superblock.dir_table].compressed
         /\ call.op = "lookup" /\ Dir.listing >= directory_table[1].base + directory_table[1].size

\* The bytes of file f that a read asked for.
Asked(f) == [k \in 1 .. call.count |-> f.data + call.at + k - 1]
WithinFile(f) == Done("read") /\ call.at + call.count <= f.file_size

\* A read within a file that is packed in the first fragment returns its bytes,
\* whatever is compressed and whatever other fragments there are (a file in one of
\* those is read astray); it panics for a fragment of a single byte, and may if
\* the pointer to the fragments passes for a stream.  A read of a file with blocks
\* of its own returns its bytes if the file is the first of the image (the code
\* does not use block_start) and either data is not compressed or that one block
\* is all the data there is.
ReadExact ==
    LET f == image.inodes[call.entry] IN
    WithinFile(f) =>
      /\ f.frag_idx = 0 =>
           \/ result = "ok" /\ call.bytes = Asked(f)
           \/ result = "panic" /\ (PointerDecodes \/ image.blocks[image.fragment].stored = 1)
      /\ /\ f.frag_idx = NoFragment /\ f.data = 0
         /\ image.superblock.uncompressed_data_blocks
              \/ (Len(image.blocks) = 1 /\ image.blocks[1].compressed)
         => result = "ok" /\ call.bytes = Asked(f)
=============================================================================
