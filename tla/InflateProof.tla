---------------------------- MODULE InflateProof ----------------------------
(***************************************************************************)
(* Proofs about Inflate: for every size of the ring and every stream, the  *)
(* ring of gzip.rs is the end of the output.                               *)
(***************************************************************************)
EXTENDS Inflate, TLAPS

(* The inductive invariant.  WindowExact only speaks of the bytes that were *)
(* written; that the pointer stays in the ring is what says where the next  *)
(* one goes.  What a byte is does not matter, so the output is a sequence   *)
(* of anything.                                                             *)
RingInv ==
    /\ \E S : output_buf \in Seq(S)
    /\ ring.pointer \in 0 .. Window
    /\ WindowExact

\* The ring has room.
LEMMA WindowPositive == Window \in Nat /\ Window > 0
BY WindowAssumption

(* The place in the ring of an index that wrapping_sub may have made        *)
(* negative.                                                                *)
LEMMA Wrap ==
    ASSUME NEW W \in Nat, W > 0, NEW x \in Int, -W <= x, x < W
    PROVE  x % W = IF x < 0 THEN x + W ELSE x
OBVIOUS

(* One byte written: it is the last one, and the others are one place       *)
(* further back than they were.                                             *)
LEMMA EmitInv ==
    ASSUME RingInv, NEW byte, Emit(byte)
    PROVE  RingInv'
<1> DEFINE at == IF ring.pointer = Window THEN 0 ELSE ring.pointer
<1> USE WindowPositive
<1>1. PICK S : output_buf \in Seq(S)
  BY DEF RingInv
<1>2. output_buf' = Append(output_buf, byte) /\ ring' = emit(ring, byte)
  BY DEF Emit
<1>3. /\ ring.pointer \in 0 .. Window
      /\ at \in 0 .. (Window - 1)
      /\ ring'.pointer = at + 1
      /\ ring'.data = [k \in {at} \union DOMAIN ring.data |-> IF k = at THEN byte ELSE ring.data[k]]
  BY <1>2 DEF RingInv, emit
<1>4. output_buf \in Seq(S \union {byte}) /\ byte \in S \union {byte}
  BY <1>1
<1>5. /\ output_buf' \in Seq(S \union {byte})
      /\ Len(output_buf) \in Nat
      /\ Len(output_buf') = Len(output_buf) + 1
      /\ output_buf'[Len(output_buf) + 1] = byte
      /\ \A k \in 1 .. Len(output_buf) : output_buf'[k] = output_buf[k]
  BY <1>2, <1>4
<1>6. /\ DOMAIN ring'.data = {at} \union DOMAIN ring.data
      /\ ring'.data[at] = byte
      /\ \A k \in DOMAIN ring.data : k # at => ring'.data[k] = ring.data[k]
  BY <1>3
<1>7. WindowExact'
  <2> SUFFICES ASSUME NEW d \in 1 .. Window, d <= Len(output_buf')
               PROVE  peek(ring', d) = output_buf'[Len(output_buf') - d + 1]
    BY DEF WindowExact
  <2>1. CASE d = 1
    <3>1. (ring'.pointer - d) % Window = at
      <4>1. ring'.pointer - d = at /\ at \in Int /\ -Window <= at /\ at < Window /\ ~(at < 0)
        BY <1>3, <2>1
      <4> HIDE DEF at
      <4> QED
        BY <4>1, Wrap
    <3> QED
      BY <1>5, <1>6, <2>1, <3>1 DEF peek
  <2>2. CASE d > 1
    <3> DEFINE index == (ring.pointer - (d - 1)) % Window
    <3>1. d - 1 \in 1 .. Window /\ d - 1 <= Len(output_buf)
      BY <1>5, <2>2
    <3>2. peek(ring, d - 1) = output_buf[Len(output_buf) - (d - 1) + 1]
      BY <3>1 DEF RingInv, WindowExact
    <3>3. (ring'.pointer - d) % Window = index /\ index # at
      <4>1. ring'.pointer - d = at - (d - 1)
        BY <1>3
      <4> DEFINE x == at - (d - 1)
                 y == ring.pointer - (d - 1)
      <4>2. /\ x \in Int /\ -Window <= x /\ x < Window
            /\ y \in Int /\ -Window <= y /\ y < Window
        BY <1>3, <2>2
      <4> HIDE DEF x, y
      <4>3. x % Window = IF x < 0 THEN x + Window ELSE x
        BY <4>2, Wrap
      <4>4. y % Window = IF y < 0 THEN y + Window ELSE y
        BY <4>2, Wrap
      <4> QED
        BY <1>3, <2>2, <4>1, <4>3, <4>4 DEF x, y
    <3>4. peek(ring', d) = peek(ring, d - 1)
      BY <1>6, <3>3 DEF peek
    <3> QED
      BY <1>5, <3>1, <3>2, <3>4
  <2> QED
    BY <2>1, <2>2
<1> QED
  BY <1>3, <1>5, <1>7 DEF RingInv

\* A call that delivers no byte leaves the ring alone.
LEMMA EmitNothingInv ==
    ASSUME RingInv, EmitNothing
    PROVE  RingInv'
BY DEF RingInv, EmitNothing, WindowExact, peek

(* Only three actions write: a byte of a stored block, a literal, and a     *)
(* byte of a match.                                                         *)
LEMMA NextEmits ==
    ASSUME [Next]_vars
    PROVE  EmitNothing \/ \E byte : Emit(byte)
<1> USE DEF EmitNothing, End
<1>1. CASE UNCHANGED vars
  BY <1>1 DEF vars
<1>2. CASE Frame \/ Block \/ StoredLength \/ StoredDone
  BY <1>2 DEF Frame, Block, StoredLength, StoredDone
<1>3. CASE StoredByte
  BY <1>3 DEF StoredByte
<1>4. CASE Symbol
  BY <1>4 DEF Symbol
<1>5. CASE CopyByte
  BY <1>5 DEF CopyByte
<1>6. CASE CopyDone \/ Dynamic \/ CodesDone \/ Check \/ Returned
  BY <1>6 DEF CopyDone, Dynamic, CodesDone, Check, Returned, vars
<1>7. CASE CodeLength
  BY <1>7 DEF CodeLength, Fill
<1> QED
  BY <1>1, <1>2, <1>3, <1>4, <1>5, <1>6, <1>7 DEF Next

(* Whatever the stream, peek(d) is the byte d places back: the ring never   *)
(* loses a byte that a match may still ask for, and the pointer never       *)
(* leaves it.                                                               *)
THEOREM WindowIsExact == Spec => []WindowExact
<1>1. Init => RingInv
  <2> SUFFICES ASSUME Init PROVE RingInv
    OBVIOUS
  <2>1. output_buf \in Seq({}) /\ Len(output_buf) = 0
    BY DEF Init
  <2>2. WindowExact
    BY <2>1, WindowPositive DEF WindowExact
  <2>3. ring.pointer \in 0 .. Window
    BY WindowPositive DEF Init
  <2> QED
    BY <2>1, <2>2, <2>3 DEF RingInv
<1>2. RingInv /\ [Next]_vars => RingInv'
  BY NextEmits, EmitInv, EmitNothingInv
<1>3. RingInv => WindowExact
  BY DEF RingInv
<1> QED
  BY <1>1, <1>2, <1>3, PTL DEF Spec
=============================================================================
