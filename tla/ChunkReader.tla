---------------------------- MODULE ChunkReader ----------------------------
(***************************************************************************)
(* The metadata tables of a squashfs image,                                *)
(* src/src/drivers/fs/initramfs/chunk_reader.rs.  A table is a sequence of *)
(* chunks, each stored behind a header of two bytes, compressed or not, and *)
(* decompressed in place the first time it is read.                        *)
(*                                                                         *)
(* A byte of a table is its position in the decompressed table, so a slice *)
(* is right when it is the run of positions that was asked for.            *)
(***************************************************************************)
EXTENDS Integers, Sequences, SequencesExt

HEADER_SIZE == 2

\* A chunk: the bytes it takes on the disk, the bytes it decompresses to, the
\* position of the first one, and whether it is still compressed.
Chunk(base, size, stored, compressed) ==
    [base |-> base, size |-> size, stored |-> stored, compressed |-> compressed]

\* The length its header gives, which decompress replaces.
len(c) == IF c.compressed THEN c.stored ELSE c.size

decompress(c) == [c EXCEPT !.compressed = FALSE]

\* ChunkReader::new: the chunks from one place on the disk to another, each found
\* by the length of the one before.
chunks_of(disk, from, to) ==
    LET next[at \in from .. to] ==
          IF at = to THEN << >> ELSE <<disk[at]>> \o next[at + HEADER_SIZE + disk[at].stored]
    IN  next[from]

\* Mutant: the header of a chunk is not counted.
LocatedData(t, chunk) ==
    LET step == len(t[1]) IN IF chunk % step = 0 THEN (chunk \div step) + 1 ELSE 0

\* Where get_slice looks for the chunk that begins `chunk` bytes into the table:
\* it counts in steps of the length of the first chunk, and never ends (0) when
\* it does not hit that number.
Located(t, chunk) ==
    LET step == len(t[1]) + HEADER_SIZE
    IN  IF chunk % step = 0 THEN (chunk \div step) + 1 ELSE 0

\* The bytes get_slice believes to have in n chunks from the k-th on: those of
\* the first one include its header.
Available(t, k, n, offset) ==
    FoldLeft(+, t[k].size + HEADER_SIZE - offset, [j \in 1 .. (n - 1) |-> t[k + j].size])

\* What chunk c contributes from `start` on to a slice of `size` bytes.
Part(c, start, size) ==
    LET end == IF c.size - start > size THEN start + size ELSE c.size
    IN  [j \in 1 .. (end - start) |-> c.base + start + j - 1]

\* get_slice: "ok" with the bytes and the table, in which chunks have been
\* decompressed; "panic" past the end of the table or of the first chunk; "hang".
get_slice(t, chunk, offset, size) ==
    LET k      == Located(t, chunk)
        Enough == {n \in 1 .. (Len(t) - k + 1) : Available(t, k, n, offset) >= size}
        n      == CHOOSE n \in Enough : \A m \in Enough : n <= m
        used   == k .. (k + n - 1)
        Fails(how) == [how |-> how, bytes |-> << >>, table |-> t]
    IN  IF k = 0 THEN Fails("hang")
        ELSE IF k > Len(t) \/ Enough = {} \/ offset > t[k].size THEN Fails("panic")
        ELSE [how   |-> "ok",
              bytes |-> FlattenSeq([j \in 1 .. n |->
                            Part(t[k + j - 1], IF j = 1 THEN offset ELSE 0, size)]),
              table |-> [j \in DOMAIN t |-> IF j \in used THEN decompress(t[j]) ELSE t[j]]]
=============================================================================
