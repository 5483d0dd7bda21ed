----------------------------- MODULE NalUnitBytes -----------------------------
(***************************************************************************)
(* What the bytes of a NAL unit look like in the stream: what NalUnit      *)
(* guarantees of every unit it writes is what ByteStream assumes of the    *)
(* units it puts behind one another.                                       *)
(***************************************************************************)
EXTENDS Integers, Sequences

Byte == 0..255

(* None of the sequences 000000, 000001 and 000002 occurs, and 000003 is   *)
(* followed by a byte up to 3 or by nothing.                               *)
Legal(s) ==
  \A k \in 1..Len(s) - 2 :
    s[k] = 0 /\ s[k + 1] = 0 =>
      /\ s[k + 2] > 2
      /\ s[k + 2] = 3 /\ k + 3 <= Len(s) => s[k + 3] <= 3

(* The last byte is not zero: a zero byte behind it would be taken for     *)
(* padding.                                                                *)
EndsInNonZero(s) == s[Len(s)] # 0
=============================================================================
