----------------------------- MODULE MCInflate -----------------------------
(* Streams the encoder of Deflate.tla makes, and damaged copies of some.    *)
EXTENDS Inflate

CONSTANT MaxTokens      \* bound on the tokens of a block

D == INSTANCE Deflate

\* Literals with codes of 8 and of 9 bits, and matches: shorter and longer than
\* their distance, without and with extra bits, and as far back as the ring goes.
Tokens == {<<65>>, <<200>>} \union {<<3, 1>>, <<4, 2>>, <<12, 3>>, <<3, Window>>}

Sequences == UNION {[1 .. n -> Tokens] : n \in 0 .. MaxTokens}
Short == {ts \in Sequences : D!Sound(ts, Window)}

\* Three literals and every length code at its first and last length.
Long == {<<<<65>>, <<200>>, <<7>>, <<n, 2>>, <<5, Window>>>> :
            n \in UNION {{D!LengthFirst(k), D!LengthFirst(k) + 2 ^ D!LengthExtra(k) - 1} : k \in 8 .. 28}}

Block1(type, tokens) == [type |-> type, tokens |-> tokens, short |-> 65]

FixedStreams == {<<Block1(1, ts)>> : ts \in Short \union Long}
DynamicStreams == {<<Block1(2, ts)>> : ts \in Short}

\* Nine neighbouring literals; several blocks, whose matches reach into the block before; stored blocks on a
\* byte boundary (a literal of 9 bits and 10 bits around it) and off it.
Nines(n) == [k \in 1 .. n |-> <<200>>]
MixedStreams ==
    {<<Block1(a, <<<<65>>, <<200>>, <<65>>>>), Block1(b, <<<<4, 3>>, <<7>>>>), Block1(c, <<<<3, 5>>>>)>> :
        a, b, c \in {1, 2}}
    \union {<<Block1(1, Nines(n)), Block1(0, <<<<1>>, <<2>>, <<255>>>>), Block1(1, <<<<3, 2>>>>)>> :
        n \in 0 .. 7}
    \union {<<Block1(2, [k \in 1 .. 9 |-> <<65 + k>>])>>}
    \union {<<Block1(0, <<>>)>>, <<Block1(0, <<<<65>>, <<66>>>>)>>}

Known(blocks) ==
    [bytes |-> D!Stream(blocks), data |-> D!Expand(D!AllTokens(blocks)),
     kind |-> IF D!Misaligned(blocks) THEN "misaligned" ELSE "intact"]

Flip(byte, bit) == IF (byte \div 2 ^ bit) % 2 = 1 THEN byte - 2 ^ bit ELSE byte + 2 ^ bit

\* One bit changed, or the end cut off.
Damaged(s) ==
    {[s EXCEPT !.bytes = [s.bytes EXCEPT ![n] = Flip(@, bit)], !.kind = "damaged"] :
        n \in 1 .. Len(s.bytes), bit \in 0 .. 7}
    \union {[s EXCEPT !.bytes = SubSeq(s.bytes, 1, n), !.kind = "damaged"] :
        n \in 0 .. (Len(s.bytes) - 1)}

MCStreams ==
    LET Sound == {Known(b) : b \in FixedStreams \union DynamicStreams \union MixedStreams}
        Victims == {Known(<<Block1(type, <<<<65>>, <<200>>, <<12, 2>>, <<65>>, <<3, 8>>>>)>>) : type \in {1, 2}}
                   \union {Known(<<Block1(1, Nines(1)), Block1(2, <<<<3, 1>>, <<66>>>>)>>)}
    IN  Sound \union UNION {Damaged(s) : s \in Victims}
=============================================================================
