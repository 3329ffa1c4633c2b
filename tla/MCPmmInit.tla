------------------------------ MODULE MCPmmInit ------------------------------
(* pmm_init on every memory map of an unusable page 0 and three entries of  *)
(* up to MaxLength pages, each usable or not.                               *)
EXTENDS PmmInit

CONSTANT MaxLength

Entry(base, length, type) == [base |-> base, length |-> length, type |-> type]

AllMaps ==
    { <<Entry(0, 1, "reserved"), Entry(1, a, t), Entry(1 + a, b, u), Entry(1 + a + b, c, v)>> :
        a, b, c \in 1 .. MaxLength, t, u, v \in {"usable", "reserved"} }

\* The end of the highest usable entry of a map, or 0.
Top(m) ==
    LET ends == {m[k].base + m[k].length : k \in {k \in 1 .. Len(m) : Usable(m[k])}}
    IN  IF ends = {} THEN 0 ELSE CHOOSE x \in ends : \A y \in ends : y <= x

\* The maps with a bitmap at all: more pages than bits in a byte.
TailMaps == {m \in AllMaps : BitmapSize(Top(m)) > 0}
=============================================================================
