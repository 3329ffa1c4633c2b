------------------------------ MODULE Deflate ------------------------------
(***************************************************************************)
(* The reference for Inflate.tla: what a zlib stream stands for, written   *)
(* from the rules of RFC 1950 and RFC 1951 as an encoder writes them, and  *)
(* not from the decoder.  A block is a sequence of tokens, a literal <<b>> *)
(* or a match <<length, distance>>, in one of the three block types.       *)
(***************************************************************************)
EXTENDS Integers, Sequences, FiniteSets, SequencesExt

\* The sequences f[1], ..., f[n] one behind the other.
Concat(f, n) ==
    LET upto[k \in 0 .. n] == IF k = 0 THEN << >> ELSE upto[k - 1] \o f[k] IN upto[n]

\* The data that tokens stand for.
Expand(tokens) ==
    LET upto[k \in 0 .. Len(tokens)] ==
            IF k = 0 THEN << >>
            ELSE LET out == upto[k - 1]
                     t   == tokens[k]
                 IN  IF Len(t) = 1 THEN out \o t
                     ELSE out \o [j \in 1 .. t[1] |-> out[Len(out) - t[2] + 1 + ((j - 1) % t[2])]]
    IN  upto[Len(tokens)]

\* Every distance stays within the data so far and the window.
Sound(tokens, window) ==
    \A k \in 1 .. Len(tokens) :
        Len(tokens[k]) = 2 =>
            /\ tokens[k][2] <= Len(Expand(SubSeq(tokens, 1, k - 1)))
            /\ tokens[k][2] <= window

-----------------------------------------------------------------------------
(* Bits: numbers are packed from their lowest bit, codes from their highest *)

Lowest(v, n) == [k \in 1 .. n |-> (v \div 2 ^ (k - 1)) % 2]
Highest(v, n) == [k \in 1 .. n |-> (v \div 2 ^ (n - k)) % 2]

Padding(bits) == [k \in 1 .. ((8 - (Len(bits) % 8)) % 8) |-> 0]

Pack(bits) ==
    LET all == bits \o Padding(bits)
    IN  [n \in 1 .. (Len(all) \div 8) |->
           LET value[k \in 0 .. 8] ==
                   IF k = 0 THEN 0 ELSE value[k - 1] + all[8 * (n - 1) + k] * 2 ^ (k - 1)
           IN  value[8]]

\* The code of symbol s in an alphabet whose code lengths are given (RFC 1951,
\* 3.2.2): codes of one length follow each other in the order of the symbols, and
\* shorter codes come before longer ones.
Code(lengths, s) ==
    LET number(l) == Cardinality({t \in DOMAIN lengths : lengths[t] = l})
        first[l \in 0 .. 15] == IF l <= 1 THEN 0 ELSE 2 * (first[l - 1] + number(l - 1))
        before == Cardinality({t \in DOMAIN lengths : t < s /\ lengths[t] = lengths[s]})
    IN  Highest(first[lengths[s]] + before, lengths[s])

-----------------------------------------------------------------------------
(* Lengths and distances (RFC 1951, 3.2.5): groups of codes, four to a     *)
(* number of extra bits for lengths and two for distances.                 *)

LengthExtra(k) == IF k < 8 \/ k = 28 THEN 0 ELSE (k \div 4) - 1
LengthFirst(k) == IF k = 28 THEN 258 ELSE IF k < 8 THEN 3 + k
                  ELSE 3 + (4 + (k % 4)) * 2 ^ LengthExtra(k)
DistExtra(k) == IF k < 4 THEN 0 ELSE (k \div 2) - 1
DistFirst(k) == IF k < 4 THEN 1 + k ELSE 1 + (2 + (k % 2)) * 2 ^ DistExtra(k)

LengthCode(n) == CHOOSE k \in 0 .. 28 : LengthFirst(k) <= n /\ \A j \in (k + 1) .. 28 : LengthFirst(j) > n
DistCode(d) == CHOOSE k \in 0 .. 29 : DistFirst(k) <= d /\ \A j \in (k + 1) .. 29 : DistFirst(j) > d

TokenBits(t, lit, dist) ==
    IF Len(t) = 1 THEN Code(lit, t[1])
    ELSE LET k == LengthCode(t[1])
             j == DistCode(t[2])
         IN  Code(lit, 257 + k) \o Lowest(t[1] - LengthFirst(k), LengthExtra(k))
               \o Code(dist, j) \o Lowest(t[2] - DistFirst(j), DistExtra(j))

\* The symbols of a block, with the end of block behind them.
SymbolBits(tokens, lit, dist) ==
    Concat([k \in 1 .. Len(tokens) |-> TokenBits(tokens[k], lit, dist)], Len(tokens)) \o Code(lit, 256)

-----------------------------------------------------------------------------
(* The three types of block.                                               *)

FixedLit == [s \in 0 .. 287 |-> IF s < 144 \/ s > 279 THEN 8 ELSE IF s < 256 THEN 9 ELSE 7]
FixedDist == [s \in 0 .. 29 |-> 5]

\* Code lengths that fit the tokens: the symbols that occur get a code, those in
\* `short` a shorter one than the others.
Symbols(tokens) == {256} \union {IF Len(t) = 1 THEN t[1] ELSE 257 + LengthCode(t[1]) : t \in Range(tokens)}
Dists(tokens) == {DistCode(t[2]) : t \in {t \in Range(tokens) : Len(t) = 2}}

DynamicLit(tokens, short) ==
    LET used == Symbols(tokens)
        top  == CHOOSE s \in used : \A r \in used : r <= s
    IN  [s \in 0 .. top |-> IF s \notin used THEN 0 ELSE IF s = short THEN 1 ELSE 4]
DynamicDist(tokens) ==
    LET used == Dists(tokens)
        top  == IF used = {} THEN 0 ELSE CHOOSE s \in used : \A r \in used : r <= s
    IN  [s \in 0 .. top |-> IF s \in used THEN 3 ELSE 0]

\* The code lengths as symbols with their extra bits, runs shortened.
RunLengths(ls) ==
    LET n == Len(ls)
        run[i \in 1 .. (n + 1)] ==
            IF i > n THEN 0 ELSE IF i < n /\ ls[i + 1] = ls[i] THEN 1 + run[i + 1] ELSE 1
        Least(a, b) == IF a < b THEN a ELSE b
        items[i \in 1 .. (n + 1)] ==
            IF i > n THEN << >>
            ELSE LET r == run[i] IN
                 IF ls[i] = 0 /\ r >= 11
                 THEN <<<<18, Lowest(Least(r, 138) - 11, 7)>>>> \o items[i + Least(r, 138)]
                 ELSE IF ls[i] = 0 /\ r >= 3
                 THEN <<<<17, Lowest(Least(r, 10) - 3, 3)>>>> \o items[i + Least(r, 10)]
                 ELSE IF i > 1 /\ ls[i - 1] = ls[i] /\ r >= 3
                 THEN <<<<16, Lowest(Least(r, 6) - 3, 2)>>>> \o items[i + Least(r, 6)]
                 ELSE <<<<ls[i], << >>>>>> \o items[i + 1]
    IN  items[1]

\* The order in which the lengths of the code length code are sent: the three
\* repeats, zero, then from the middle outwards.
ClenOrder == [k \in 1 .. 19 |-> IF k <= 3 THEN 15 + k ELSE IF k = 4 THEN 0
                                ELSE IF k % 2 = 1 THEN 8 + ((k - 5) \div 2) ELSE 8 - ((k - 4) \div 2)]

DynamicHeader(lit, dist) ==
    LET ls    == [k \in 1 .. (Cardinality(DOMAIN lit) + Cardinality(DOMAIN dist)) |->
                    IF k <= Cardinality(DOMAIN lit) THEN lit[k - 1]
                    ELSE dist[k - 1 - Cardinality(DOMAIN lit)]]
        items == RunLengths(ls)
        used  == {items[k][1] : k \in DOMAIN items}
        clen  == [s \in 0 .. 18 |-> IF s \notin used THEN 0 ELSE IF s = 18 THEN 1 ELSE 5]
        last  == CHOOSE k \in 4 .. 19 : (k = 4 \/ clen[ClenOrder[k]] # 0)
                                        /\ \A j \in (k + 1) .. 19 : clen[ClenOrder[j]] = 0
    IN  Lowest(Cardinality(DOMAIN lit) - 257, 5) \o Lowest(Cardinality(DOMAIN dist) - 1, 5)
          \o Lowest(last - 4, 4)
          \o Concat([k \in 1 .. last |-> Lowest(clen[ClenOrder[k]], 3)], last)
          \o Concat([k \in 1 .. Len(items) |-> Code(clen, items[k][1]) \o items[k][2]], Len(items))

\* The bits of a block behind the bits of those before it. A stored
\* block holds literals only.
BlockBits(before, b, final) ==
    LET start == before \o <<final>> \o Lowest(b.type, 2)
        lit   == DynamicLit(b.tokens, b.short)
        dist  == DynamicDist(b.tokens)
        n     == Len(b.tokens)
    IN  CASE b.type = 0 -> start \o Padding(start) \o Lowest(n, 16) \o Lowest(65535 - n, 16)
                             \o Concat([k \in 1 .. n |-> Lowest(b.tokens[k][1], 8)], n)
          [] b.type = 1 -> start \o SymbolBits(b.tokens, FixedLit, FixedDist)
          [] b.type = 2 -> start \o DynamicHeader(lit, dist) \o SymbolBits(b.tokens, lit, dist)

\* The bits of the first n blocks.
StreamBits(blocks, n) ==
    LET upto[k \in 0 .. n] ==
            IF k = 0 THEN << >>
            ELSE BlockBits(upto[k - 1], blocks[k], IF k = Len(blocks) THEN 1 ELSE 0)
    IN  upto[n]

AllTokens(blocks) == Concat([k \in 1 .. Len(blocks) |-> blocks[k].tokens], Len(blocks))

\* Some stored block's header does not end on a byte boundary.
Misaligned(blocks) ==
    \E k \in 1 .. Len(blocks) :
        blocks[k].type = 0 /\ Len(StreamBits(blocks, k - 1)) % 8 # 5

\* The checksum of RFC 1950: the sum of the bytes, from 1, and the sum of those
\* sums, highest byte first.  (For data short enough not to need the modulus.)
Checksum(data) ==
    LET a[n \in 0 .. Len(data)] == IF n = 0 THEN 1 ELSE a[n - 1] + data[n]
        b[n \in 0 .. Len(data)] == IF n = 0 THEN 0 ELSE b[n - 1] + a[n]
        High(v) == v \div 256
    IN  LET s == a[Len(data)]
            t == b[Len(data)] % 65521
        IN  <<High(t), t % 256, High(s), s % 256>>

\* The zlib frame: a 32 KiB window and the default level.
Stream(blocks) ==
    <<120, 156>> \o Pack(StreamBits(blocks, Len(blocks))) \o Checksum(Expand(AllTokens(blocks)))
=============================================================================
