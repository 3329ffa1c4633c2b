----------------------------- MODULE MCSquashfs -----------------------------
(* Images of one tree: a directory "a" with a file "f", an empty directory   *)
(* "b", a file "c" with blocks of its own, a symbolic link "l" and a packed  *)
(* file "p".  What varies is the size of a chunk, where the structures fall  *)
(* in it (the inode of "c" grows with its blocks), and what is compressed.   *)
EXTENDS Squashfs

\* The bytes from 0 to n in chunks of `chunk` bytes, which take half of that on
\* the disk when they are compressed.
Chunks(n, chunk, compressed) ==
    [k \in 1 .. ((n + chunk - 1) \div chunk) |->
       LET base == (k - 1) * chunk
           size == IF n - base < chunk THEN n - base ELSE chunk
       IN  Chunk(base, size, IF compressed THEN size \div 2 ELSE size, compressed)]

\* Where the chunk of position p begins on the disk.
Start(p, chunk, compressed) ==
    (p \div chunk) * ((IF compressed THEN chunk \div 2 ELSE chunk) + HEADER_SIZE)

MCSuperblock == [magic |-> TRUE, ver_major |-> 4, ver_minor |-> 0, block_size |-> 2^17,
                 block_log |-> 17, compressor |-> Gzip]

\* Chunks one behind the other from disk position `from` on, and where they end.
Begin(cs, from, k) ==
    FoldLeft(LAMBDA at, c : at + HEADER_SIZE + c.stored, from, SubSeq(cs, 1, k - 1))
Laid(cs, from) ==
    [at \in {Begin(cs, from, k) : k \in DOMAIN cs} |->
       cs[CHOOSE k \in DOMAIN cs : at = Begin(cs, from, k)]]
End(cs, from) == Begin(cs, from, Len(cs) + 1)

-----------------------------------------------------------------------------
(* Data areas: the blocks, the first fragment among them (0 if there is     *)
(* none), the flags, and the files c, f and p.  mksquashfs stores a block    *)
(* that does not get shorter as it is.                                      *)

Block(base, size, compress) ==
    LET shorter == compress /\ size > 3
    IN  Chunk(base, size, IF shorter THEN size - 1 ELSE size, shorter)

File(idx, offset, data, size) ==
    [type |-> "file", frag_idx |-> idx, block_offset |-> offset, data |-> data,
     file_size |-> size]

\* A file c of 6 bytes, in blocks of 4, before or behind one of 4 bytes that is
\* not looked up, then the fragment with f, and p in the same or in the next.
Packed(first, frag, noD, noF) ==
    [blocks |-> (IF first THEN <<Block(0, 4, ~noD), Block(4, 2, ~noD), Block(6, 4, ~noD)>>
                 ELSE <<Block(0, 4, ~noD), Block(4, 4, ~noD), Block(8, 2, ~noD)>>)
                \o (IF frag = 0 THEN <<Block(10, 5, ~noF)>>
                    ELSE <<Block(10, 3, ~noF), Block(13, 2, ~noF)>>),
     fragment |-> 4, noD |-> noD, noF |-> noF,
     c |-> File(NoFragment, 0, IF first THEN 0 ELSE 4, 6),
     f |-> File(0, 0, 10, 3), p |-> File(frag, IF frag = 0 THEN 3 ELSE 0, 13, 2)]

\* The first block could not be compressed.
RawFirst == [Packed(TRUE, 0, FALSE, FALSE) EXCEPT !.blocks[1] = Block(0, 4, FALSE)]

\* c has the only block, and the other files are empty.
Alone(noD) ==
    [blocks |-> <<Block(0, 4, ~noD)>>, fragment |-> 0, noD |-> noD, noF |-> FALSE,
     c |-> File(NoFragment, 0, 0, 4), f |-> File(NoFragment, 0, 0, 0),
     p |-> File(NoFragment, 0, 0, 0)]

\* A fragment of one byte; and a data area of 7 bytes, which in an image with one
\* chunk a table puts the fragments at 376, whose first bytes pass for a stream.
Tiny ==
    [blocks |-> <<Block(0, 3, FALSE), Block(3, 1, FALSE)>>, fragment |-> 2, noD |-> TRUE,
     noF |-> FALSE, c |-> File(NoFragment, 0, 0, 3), f |-> File(0, 0, 3, 1),
     p |-> File(NoFragment, 0, 0, 0)]
Streamlike(noF) ==
    [blocks |-> <<Block(0, 3, FALSE), Chunk(3, 5, 4, TRUE)>>, fragment |-> 2, noD |-> TRUE,
     noF |-> noF, c |-> File(NoFragment, 0, 0, 3), f |-> File(0, 0, 3, 3),
     p |-> File(0, 3, 6, 2)]

-----------------------------------------------------------------------------
\* mksquashfs writes what a directory holds before the directory.  A name is one
\* byte long, an entry nine; last in the root there may be a name, of one more
\* link to p, that is not UTF-8.  Behind the directories lie the fragments, the
\* export table and the ids, each with the chunk it has and then the pointer to it.
Image(chunk, blocks, link, compressed, data, export, foreign) ==
    LET at == [c |-> 0, f |-> 32 + 4 * blocks, a |-> 64 + 4 * blocks, b |-> 96 + 4 * blocks,
               l |-> 136 + 4 * blocks, p |-> 136 + 4 * blocks + link,
               z |-> 136 + 4 * blocks + link, root |-> 168 + 4 * blocks + link]
        root == <<"a", "b", "c">> \o (IF link > 0 THEN <<"l">> ELSE << >>) \o <<"p">>
                \o (IF foreign THEN <<"z">> ELSE << >>)
        disk(p) == Start(p, chunk, compressed)
        \* A run of entries has a header and ends where the inodes come from
        \* another chunk than those before.
        begins(names, k) == k = 1 \/ disk(at[names[k]]) # disk(at[names[k - 1]])
        begun(names, k) == {j \in 1 .. k : begins(names, j)}
        place(names, k) == 9 * (k - 1) + DirectoryTableHeader * Cardinality(begun(names, k))
        bytes(names) == 9 * Len(names) + DirectoryTableHeader * Cardinality(begun(names, Len(names)))
        run(names, k) == CHOOSE n \in 1 .. Len(names) :
                            /\ \A j \in (k + 1) .. (k + n - 1) : ~begins(names, j)
                            /\ k + n > Len(names) \/ begins(names, k + n)
        entries(names, from) ==
            [q \in {from + place(names, k) : k \in DOMAIN names} |->
               LET k == CHOOSE k \in DOMAIN names : q = from + place(names, k)
               IN  [name |-> names[k], utf8 |-> names[k] # "z", length |-> 1,
                    offset |-> at[names[k]] % chunk]]
        headers(names, from) ==
            [q \in {from + place(names, k) - DirectoryTableHeader : k \in begun(names, Len(names))} |->
               LET k == CHOOSE k \in begun(names, Len(names)) :
                              q = from + place(names, k) - DirectoryTableHeader
               IN  [count |-> run(names, k), start |-> disk(at[names[k]])]]
        dir(type, names, from) ==
            [type |-> type, block_index |-> disk(from), block_offset |-> from % chunk,
             listing |-> from, file_size |-> 3 + (IF names = << >> THEN 0 ELSE bytes(names)),
             names |-> [x \in Range(names) |-> at[x]]]
        second  == bytes(<<"f">>)
        inodes  == Chunks(at.root + 32, chunk, compressed)
        dirs    == Chunks(second + bytes(root), chunk, compressed)
        \* What a table behind the directories has: one chunk or none.
        behind(size) == IF size = 0 THEN << >> ELSE <<Chunk(second + bytes(root), size, size, FALSE)>>
        pointer(size) == IF size = 0 THEN 0 ELSE 8
        frags   == IF data.fragment = 0 THEN 0 ELSE 16 * (Len(data.blocks) + 1 - data.fragment)
        exports == IF export THEN 8 * 7 ELSE 0
        inode0  == SuperblockSize + FoldLeft(LAMBDA n, b : n + b.stored, 0, data.blocks)
        dir0    == End(inodes, inode0)
        frag0   == End(dirs, dir0)
        frag1   == End(behind(frags), frag0)
        export0 == frag1 + pointer(frags)
        export1 == End(behind(exports), export0)
        id0     == export1 + pointer(exports)
        id1     == End(behind(4), id0)
    IN  [superblock |-> MCSuperblock @@
           [uncompressed_data_blocks |-> data.noD, uncompressed_fragments |-> data.noF,
            inode_table |-> inode0, dir_table |-> dir0, id_table |-> id1,
            frag_table |-> IF frags = 0 THEN Absent ELSE frag1,
            export_table |-> IF export THEN export1 ELSE Absent, xattr_table |-> Absent],
         blocks |-> data.blocks, fragment |-> data.fragment, fragment_pointer |-> frag0,
         root |-> [block |-> disk(at.root), offset |-> at.root % chunk, at |-> at.root],
         metadata |-> Laid(inodes, inode0) @@ Laid(dirs, dir0) @@ Laid(behind(frags), frag0)
                      @@ Laid(behind(exports), export0) @@ Laid(behind(4), id0),
         headers |-> headers(<<"f">>, 0) @@ headers(root, second),
         entries |-> entries(<<"f">>, 0) @@ entries(root, second),
         inodes |-> (at.c :> data.c) @@ (at.f :> data.f) @@ (at.p :> data.p)
                 @@ (at.a :> dir("directory", <<"f">>, 0))
                 @@ (at.b :> dir("extended_directory", << >>, second))
                 @@ (IF link > 0 THEN at.l :> [type |-> "symlink"] ELSE << >>)
                 @@ (at.root :> dir("directory", root, second))]

\* Chunks of 48, 64 and 100 bytes divide the tables, one of 1000 does not; 27 or
\* 29 bytes of a link put the inodes behind it at odd places.
MCImages ==
    { Image(chunk, blocks, link, compressed, Packed(first, 0, ~compressed, ~compressed), TRUE, FALSE) :
        chunk \in {48, 64, 100, 1000}, blocks \in 0 .. 3, link \in {0, 27, 29},
        compressed \in BOOLEAN, first \in BOOLEAN }
    \union
    { Image(1000, 0, 0, FALSE, data, export, FALSE) :
        export \in BOOLEAN,
        data \in { Packed(TRUE, frag, noD, noF) : frag \in 0 .. 1, noD \in BOOLEAN, noF \in BOOLEAN }
                 \union { Alone(noD) : noD \in BOOLEAN } \union { Streamlike(noF) : noF \in BOOLEAN }
                 \union {RawFirst, Tiny} }
    \union
    { Image(chunk, 0, link, compressed, Packed(TRUE, 1, TRUE, TRUE), FALSE, TRUE) :
        chunk \in {100, 1000}, link \in {0, 27}, compressed \in BOOLEAN }
    \union
    { [Image(1000, 0, 0, FALSE, Tiny, TRUE, FALSE) EXCEPT !.superblock = sb @@ @] :
        sb \in { [ver_major |-> 3], [block_log |-> 16], [compressor |-> 6] } }

MCNames == {"a", "b", "c", "f", "l", "p"}
=============================================================================
