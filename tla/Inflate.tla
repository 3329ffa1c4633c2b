------------------------------ MODULE Inflate ------------------------------
(***************************************************************************)
(* uncompress_data of src/src/libs/gzip.rs, which unpacks every compressed *)
(* part of the initramfs: the zlib frame (RFC 1950) and the blocks of      *)
(* DEFLATE (RFC 1951).  A step reads one header, one symbol or one byte;   *)
(* the tables are the ones of the code, only the size of the ring buffer   *)
(* is a parameter.                                                         *)
(*                                                                         *)
(* The input is a sequence of bytes.  input_buf and bit_index together are *)
(* `pos`, the number of bits read so far.                                  *)
(***************************************************************************)
EXTENDS Integers, Sequences, FiniteSets, SequencesExt

CONSTANTS
    Window,     \* bytes in the ring buffer, 32768 in the kernel
    Streams     \* the inputs [bytes, data, kind], see Init

\* wrapping_sub goes round at 2^64, a multiple of the ring's size.
ASSUME WindowAssumption ==
    Window \in {1, 2, 4, 8, 16, 32, 64, 128, 256, 512, 1024, 2048, 4096, 8192, 16384, 32768}

VARIABLES
    stream,         \* the input and, for the properties, what it was made from
    phase,          \* what is read next; at last "ok", "err", "panic" or "wild"
    pos,            \* bits of the body read so far
    is_final,       \* the block under way is the last one
    output_buf,
    ring,           \* [pointer, data]; what was never written reads 0
    huff,           \* the two codes of the block, [len, dist]
    dyn,            \* locals of decode_huffman
    copy            \* bytes of a stored block or a match still to be emitted

vars == <<stream, phase, pos, is_final, output_buf, ring, huff, dyn, copy>>

-----------------------------------------------------------------------------
(* Bits.                                                                   *)

body == SubSeq(stream.bytes, 3, Len(stream.bytes) - 4)

\* Bit n of the body, from right to left in each byte.
get_bit(n) == (body[(n \div 8) + 1] \div 2 ^ (n % 8)) % 2

\* A read past the end panics ("Not enough data!").
Enough(from, n) == from + n <= 8 * Len(body)

get_bits(from, n) ==
    LET value[k \in 0 .. n] ==
            IF k = 0 THEN 0 ELSE value[k - 1] + get_bit(from + k - 1) * 2 ^ (k - 1)
    IN  value[n]

-----------------------------------------------------------------------------
(* Canonical Huffman codes.                                                *)

\* build_huffman: how many symbols have a code of each length, and the symbols
\* in the order of their codes.
build_huffman(lengths, size) ==
    LET symbols == [s \in 1 .. size |-> s - 1]
        OfLength(l) == SelectSeq(symbols, LAMBDA s : lengths[s] = l)
    IN  [counts  |-> [l \in 0 .. 15 |-> IF l = 0 THEN 0 ELSE Len(OfLength(l))],
         symbols |-> FlattenSeq([l \in 1 .. 15 |-> OfLength(l)])]

\* build_fixed
FixedLengths == [s \in 0 .. 287 |-> CASE s < 144 -> 8 [] s \in 144 .. 255 -> 9
                                      [] s \in 256 .. 279 -> 7 [] OTHER -> 8]
Fixed == [len  |-> build_huffman(FixedLengths, 288),
          dist |-> build_huffman([s \in 0 .. 29 |-> 5], 30)]

NoSymbol == [symbol |-> -1, next |-> 0]

\* decode: one bit at a time, the code of i bits is offs[i] above the first code
\* of that length.  It panics after 15 bits, or when there are no more bits.
decode(h, from) ==
    LET offs[i \in 0 .. 15] == IF i = 0 THEN 0
                               ELSE 2 * (offs[i - 1] - h.counts[i - 1]) + get_bit(from + i - 1)
        base[i \in 0 .. 15] == IF i = 0 THEN 0 ELSE base[i - 1] + h.counts[i - 1]
        ends == {i \in 1 .. 15 : Enough(from, i) /\ offs[i] < h.counts[i]}
        i    == CHOOSE i \in ends : \A j \in ends : i <= j
    IN  IF ends = {} \/ base[i] + offs[i] < 0 THEN NoSymbol
        ELSE [symbol |-> h.symbols[base[i] + offs[i] + 1], next |-> from + i]

-----------------------------------------------------------------------------
(* The tables of inflate and decode_huffman.                               *)

length_bits == <<0, 0, 0, 0, 0, 0, 0, 0, 1, 1, 1, 1, 2, 2, 2, 2, 3, 3, 3, 3,
                 4, 4, 4, 4, 5, 5, 5, 5, 0, 127>>
length_base == <<3, 4, 5, 6, 7, 8, 9, 10, 11, 13, 15, 17, 19, 23, 27, 31, 35, 43, 51, 59,
                 67, 83, 99, 115, 131, 163, 195, 227, 258, 0>>
dist_bits == <<0, 0, 0, 0, 1, 1, 2, 2, 3, 3, 4, 4, 5, 5, 6, 6, 7, 7, 8, 8,
               9, 9, 10, 10, 11, 11, 12, 12, 13, 13>>
dist_base == <<1, 2, 3, 4, 5, 7, 9, 13, 17, 25, 33, 49, 65, 97, 129, 193, 257, 385, 513, 769,
               1025, 1537, 2049, 3073, 4097, 6145, 8193, 12289, 16385, 24577>>
clens == <<16, 17, 18, 0, 8, 7, 9, 6, 10, 5, 11, 4, 12, 3, 13, 2, 14, 1, 15>>

\* Bits and base of the repeat counts of code length symbols 16, 17 and 18.
RepeatBits(symbol) == CASE symbol = 16 -> 2 [] symbol = 17 -> 3 [] symbol = 18 -> 7
RepeatBase(symbol) == IF symbol = 18 THEN 11 ELSE 3

\* adler32, as the four bytes that end the stream.
adler32(data) ==
    LET sums[n \in 0 .. Len(data)] ==
            IF n = 0 THEN <<1, 0>>
            ELSE LET s == sums[n - 1]
                     a == (s[1] + data[n]) % 65521
                 IN  <<a, (s[2] + a) % 65521>>
        s == sums[Len(data)]
    IN  <<s[2] \div 256, s[2] % 256, s[1] \div 256, s[1] % 256>>

-----------------------------------------------------------------------------
(* The ring.                                                               *)

\* Mutant: the pointer goes round one byte early.
emit_early(r, byte) ==
    LET at == IF r.pointer = Window - 1 THEN 0 ELSE r.pointer
    IN  [pointer |-> at + 1,
         data    |-> [k \in {at} \union DOMAIN r.data |-> IF k = at THEN byte ELSE r.data[k]]]

emit(r, byte) ==
    LET at == IF r.pointer = Window THEN 0 ELSE r.pointer
    IN  [pointer |-> at + 1,
         data    |-> [k \in {at} \union DOMAIN r.data |-> IF k = at THEN byte ELSE r.data[k]]]

peek(r, offset) ==
    LET index == (r.pointer - offset) % Window
    IN  IF index \in DOMAIN r.data THEN r.data[index] ELSE 0

Emit(byte) == ring' = emit(ring, byte) /\ output_buf' = Append(output_buf, byte)
EmitNothing == UNCHANGED <<ring, output_buf>>

-----------------------------------------------------------------------------
NoCopy == [left |-> 0, offset |-> 0]
NoDyn == [literals |-> 0, distances |-> 0, count |-> 0, lengths |-> << >>, codes |-> << >>]
Ends == {"ok", "err", "panic", "wild"}

Init ==
    /\ stream \in Streams
    /\ phase = "frame"
    /\ pos = 0 /\ is_final = FALSE
    /\ output_buf = << >>
    /\ ring = [pointer |-> 0, data |-> << >>]
    /\ huff = << >> /\ dyn = NoDyn /\ copy = NoCopy

End(how) == phase' = how /\ UNCHANGED <<stream, pos, is_final, output_buf, ring, huff, dyn, copy>>

\* The checks of uncompress_data before it slices the body, which takes six bytes.
Frame ==
    /\ phase = "frame"
    /\ LET cmf   == stream.bytes[1]
           flags == stream.bytes[2]
       IN  IF Len(stream.bytes) <= 2 THEN End("panic")
           ELSE IF \/ cmf % 16 # 8                          \* NotDeflate
                   \/ cmf \div 16 > 7                       \* UnsupportedWindowSize
                   \/ (cmf * 256 + flags) % 31 # 0          \* FCheckFailed
                   \/ (flags \div 32) % 2 = 1               \* UnsupportedDictionary
           THEN End("err")
           ELSE IF Len(stream.bytes) < 6 THEN End("panic")
           ELSE End("block")

\* The loop of decompress: the header of a block.
Block ==
    /\ phase = "block"
    /\ IF ~Enough(pos, 3) THEN End("panic")
       ELSE LET type == get_bits(pos + 1, 2) IN
            IF type = 3 THEN End("err")
            ELSE /\ is_final' = (get_bit(pos) = 1)
                 /\ pos' = pos + 3
                 /\ phase' = CASE type = 0 -> "stored" [] type = 1 -> "symbol" [] type = 2 -> "dynamic"
                 /\ huff' = IF type = 1 THEN Fixed ELSE << >>
                 /\ UNCHANGED <<stream, output_buf, ring, dyn, copy>>

\* Where decompress goes when a block is over.
AfterBlock == IF is_final THEN "check" ELSE "block"

\* uncompressed: the two lengths, from the next bit on.
StoredLength ==
    /\ phase = "stored"
    /\ IF ~Enough(pos, 32) THEN End("panic")
       ELSE LET len == get_bits(pos, 16) IN
            IF get_bits(pos + 16, 16) # 65535 - len THEN End("err")
            ELSE /\ pos' = pos + 32
                 /\ copy' = [NoCopy EXCEPT !.left = len]
                 /\ phase' = "bytes"
                 /\ UNCHANGED <<stream, is_final, output_buf, ring, huff, dyn>>

StoredByte ==
    /\ phase = "bytes" /\ copy.left > 0
    /\ IF ~Enough(pos, 8) THEN End("panic")
       ELSE /\ Emit(get_bits(pos, 8))
            /\ pos' = pos + 8
            /\ copy' = [copy EXCEPT !.left = @ - 1]
            /\ UNCHANGED <<stream, phase, is_final, huff, dyn>>

StoredDone ==
    /\ phase = "bytes" /\ copy.left = 0
    /\ phase' = AfterBlock
    /\ UNCHANGED <<stream, pos, is_final, output_buf, ring, huff, dyn, copy>>

\* inflate: a literal, the end of the block, or a match, whose length and
\* distance are read in the same turn of the loop.  Symbols without an entry in
\* the tables panic.  Of the one with 127 extra bits, whose value is shifted out
\* of 32 bits, nothing is claimed where that many bits follow.
Symbol ==
    /\ phase = "symbol"
    /\ LET d == decode(huff.len, pos)
           k == d.symbol - 256
           length == length_base[k] + get_bits(d.next, length_bits[k])
           e == decode(huff.dist, d.next + length_bits[k])
           offset == dist_base[e.symbol + 1] + get_bits(e.next, dist_bits[e.symbol + 1])
       IN
       IF d = NoSymbol THEN End("panic")
       ELSE IF d.symbol < 256
       THEN /\ Emit(d.symbol)
            /\ pos' = d.next
            /\ UNCHANGED <<stream, phase, is_final, huff, dyn, copy>>
       ELSE IF d.symbol = 256
       THEN /\ pos' = d.next
            /\ phase' = AfterBlock
            /\ UNCHANGED <<stream, is_final, output_buf, ring, huff, dyn, copy>>
       ELSE IF k \notin DOMAIN length_bits \/ ~Enough(d.next, length_bits[k]) THEN End("panic")
       ELSE IF length_bits[k] = 127 THEN End("wild")
       ELSE IF e = NoSymbol \/ e.symbol + 1 \notin DOMAIN dist_bits THEN End("panic")
       ELSE IF ~Enough(e.next, dist_bits[e.symbol + 1]) THEN End("panic")
       ELSE /\ pos' = e.next + dist_bits[e.symbol + 1]
            /\ copy' = [left |-> length, offset |-> offset]
            /\ phase' = "match"
            /\ UNCHANGED <<stream, is_final, output_buf, ring, huff, dyn>>

\* The loop that copies a match, which may overlap what it writes.
CopyByte ==
    /\ phase = "match" /\ copy.left > 0
    /\ Emit(peek(ring, copy.offset))
    /\ copy' = [copy EXCEPT !.left = @ - 1]
    /\ UNCHANGED <<stream, phase, pos, is_final, huff, dyn>>

CopyDone ==
    /\ phase = "match" /\ copy.left = 0
    /\ phase' = "symbol"
    /\ UNCHANGED <<stream, pos, is_final, output_buf, ring, huff, dyn, copy>>

\* decode_huffman: the three counts and the code of the code lengths, whose
\* lengths share an array of 320 bytes with the lengths read by it.
Dynamic ==
    /\ phase = "dynamic"
    /\ LET clengths == 4 + get_bits(pos + 10, 4) IN
       IF ~Enough(pos, 14) \/ ~Enough(pos, 14 + 3 * clengths) THEN End("panic")
       ELSE LET lengths == [s \in 0 .. 319 |->
                              IF \E i \in 1 .. clengths : clens[i] = s
                              THEN LET i == CHOOSE i \in 1 .. clengths : clens[i] = s
                                   IN  get_bits(pos + 14 + 3 * (i - 1), 3)
                              ELSE 0]
            IN  /\ dyn' = [literals  |-> 257 + get_bits(pos, 5),
                           distances |-> 1 + get_bits(pos + 5, 5),
                           count |-> 0, lengths |-> lengths,
                           codes |-> build_huffman(lengths, 19)]
                /\ pos' = pos + 14 + 3 * clengths
                /\ phase' = "lengths"
                /\ UNCHANGED <<stream, is_final, output_buf, ring, huff, copy>>

\* n lengths from dyn.count on become v; past the end of the array is a panic.
Fill(v, n, next) ==
    IF dyn.count + n > 320 THEN End("panic")
    ELSE /\ dyn' = [dyn EXCEPT !.count = @ + n,
                               !.lengths = [s \in 0 .. 319 |->
                                   IF s \in dyn.count .. (dyn.count + n - 1) THEN v ELSE @[s]]]
         /\ pos' = next
         /\ UNCHANGED <<stream, phase, is_final, output_buf, ring, huff, copy>>

\* Mutant: a run repeats zero, not the length before it.
CodeLengthZero ==
    /\ phase = "lengths" /\ dyn.count < dyn.literals + dyn.distances
    /\ LET d == decode(dyn.codes, pos) IN
       IF d = NoSymbol THEN End("panic")
       ELSE IF d.symbol < 16 THEN Fill(d.symbol, 1, d.next)
       ELSE IF ~Enough(d.next, RepeatBits(d.symbol)) THEN End("panic")
       ELSE Fill(0, RepeatBase(d.symbol) + get_bits(d.next, RepeatBits(d.symbol)),
                 d.next + RepeatBits(d.symbol))

\* One symbol of the code lengths: a length, or a run of the one before (which
\* panics when there is none) or of zeros.
CodeLength ==
    /\ phase = "lengths" /\ dyn.count < dyn.literals + dyn.distances
    /\ LET d == decode(dyn.codes, pos) IN
       IF d = NoSymbol THEN End("panic")
       ELSE IF d.symbol < 16 THEN Fill(d.symbol, 1, d.next)
       ELSE IF (d.symbol = 16 /\ dyn.count = 0) \/ ~Enough(d.next, RepeatBits(d.symbol))
       THEN End("panic")
       ELSE Fill(IF d.symbol = 16 THEN dyn.lengths[dyn.count - 1] ELSE 0,
                 RepeatBase(d.symbol) + get_bits(d.next, RepeatBits(d.symbol)),
                 d.next + RepeatBits(d.symbol))

\* The two codes are built and the block's symbols follow.
CodesDone ==
    /\ phase = "lengths" /\ dyn.count >= dyn.literals + dyn.distances
    /\ huff' = [len  |-> build_huffman(dyn.lengths, dyn.literals),
                dist |-> build_huffman([s \in 0 .. (dyn.distances - 1) |->
                                          dyn.lengths[dyn.literals + s]], dyn.distances)]
    /\ dyn' = NoDyn
    /\ phase' = "symbol"
    /\ UNCHANGED <<stream, pos, is_final, output_buf, ring, copy>>

\* Mutant: the checksum is not compared.
CheckNothing == phase = "check" /\ End("ok")

\* The last block is over: the checksum decides.
Check ==
    /\ phase = "check"
    /\ End(IF adler32(output_buf) = SubSeq(stream.bytes, Len(stream.bytes) - 3, Len(stream.bytes))
           THEN "ok" ELSE "err")

Returned == phase \in Ends /\ UNCHANGED vars

Next ==
    \/ Frame \/ Block
    \/ StoredLength \/ StoredByte \/ StoredDone
    \/ Symbol \/ CopyByte \/ CopyDone
    \/ Dynamic \/ CodeLength \/ CodesDone
    \/ Check \/ Returned

Spec == Init /\ [][Next]_vars

-----------------------------------------------------------------------------
(* Properties.                                                             *)

\* A stream the encoder made comes back whole: no panic, no error, every byte.
\* The exception is a stream with a stored block whose header ends inside a byte:
\* uncompressed() goes on with the next bit where RFC 1951 goes on with the next
\* byte ("TODO: is this right?").
InflateExact ==
    stream.kind = "intact" /\ phase \in Ends => phase = "ok" /\ output_buf = stream.data

\* A stream with one bit changed, one that was cut short, or one the decoder
\* reads differently than it was written never passes for other data: it panics,
\* it is refused, or it gives what went in.
DamageCaught ==
    phase = "ok" => output_buf = stream.data

\* At every byte, the ring holds the last Window bytes of the output, wherever
\* its pointer went round: peek(d) is the byte d places back.
WindowExact ==
    \A d \in 1 .. Window :
        d <= Len(output_buf) => peek(ring, d) = output_buf[Len(output_buf) - d + 1]
=============================================================================
