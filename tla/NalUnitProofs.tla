---------------------------- MODULE NalUnitProofs ----------------------------
(***************************************************************************)
(* Theorems about NalUnit, for every payload and every number of           *)
(* cabac_zero_words.                                                       *)
(*                                                                         *)
(* The inductive invariant relates the bytes of the unit to the bytes of   *)
(* the message (header and payload) they were written for: w[i] is the     *)
(* position of the unit at which message byte i begins, with the emulation *)
(* prevention byte when it has one.  The decoder's loop is always at such  *)
(* a position, or in the cabac_zero_words behind the last one.             *)
(***************************************************************************)
EXTENDS NalUnit, SequenceTheorems, WellFoundedInduction, TLAPS

LEMMA BytesAreNumbers == 0 \in Byte /\ \A b \in Byte : b \in Nat
BY DEF Byte

(* A header is two bytes, the second of which is never zero. *)
LEMMA HeaderIsBytes ==
  ASSUME NEW h \in Header
  PROVE  /\ HeaderBytes(h) \in Seq(Byte)
         /\ Len(HeaderBytes(h)) = 2
         /\ HeaderBytes(h)[2] # 0
<1>1. /\ h.type \in 0..63 /\ h.layer \in 0..63 /\ h.tid \in 0..6
  BY DEF Header
<1>2. /\ h.layer \div 32 \in 0..1
      /\ h.layer % 32 \in 0..31
  BY <1>1, Z3
<1>3. /\ h.type * 2 + h.layer \div 32 \in Byte
      /\ (h.layer % 32) * 8 + h.tid + 1 \in Byte \ {0}
  BY <1>1, <1>2 DEF Byte
<1>4. QED
  BY <1>3 DEF HeaderBytes

(* The cabac_zero_words are bytes. *)
LEMMA ZeroWordsAreBytes ==
  ASSUME NEW n \in Nat
  PROVE  /\ ZeroWords(n) \in Seq(Byte)
         /\ Len(ZeroWords(n)) = 3 * n
         /\ \A k \in 1..3 * n : ZeroWords(n)[k] = IF k % 3 = 0 THEN 3 ELSE 0
<1>1. ZeroWords(n) \in [1..3 * n -> Byte]
  BY DEF ZeroWords, Byte
<1>2. 3 * n \in Nat
  OBVIOUS
<1>3. ZeroWords(n) \in Seq(Byte)
  BY <1>1, <1>2
<1>4. Len(ZeroWords(n)) = 3 * n
  BY <1>2, <1>3, <1>1 DEF ZeroWords
<1>5. QED
  BY <1>3, <1>4 DEF ZeroWords

(* A set of natural numbers that is not empty has a least element. *)
LEMMA LeastNumber ==
  ASSUME NEW T, T \subseteq Nat, T # {}
  PROVE  \E x \in T : \A y \in T : x <= y
<1> DEFINE R == OpToRel(<, Nat)
<1>1. IsWellFoundedOn(R, Nat)
  BY NatLessThanWellFounded
<1> HIDE DEF R
<1>2. PICK x \in T : \A y \in T : ~ (<<y, x>> \in R)
  BY <1>1, WFMin
<1>3. \A y \in Nat : y < x => <<y, x>> \in R
  BY DEF R, OpToRel
<1>4. \A y \in T : ~ (y < x)
  BY <1>2, <1>3
<1>5. QED
  BY <1>4

(* What LastNonZero finds: the last byte that is not zero, if there is one. *)
LEMMA LastNonZeroFound ==
  ASSUME NEW s \in Seq(Byte)
  PROVE  /\ LastNonZero(s) \in 0..Len(s)
         /\ \A n \in 1..Len(s) :
              s[n] # 0 /\ (\A k \in n + 1..Len(s) : s[k] = 0) => LastNonZero(s) = n
<1> DEFINE S == {0} \cup {k \in DOMAIN s : s[k] # 0}
           T == {Len(s) - k : k \in S}
<1>1. S \subseteq 0..Len(s)
  OBVIOUS
<1>2. T \subseteq Nat /\ T # {}
  BY <1>1
<1>3. PICK t \in T : \A y \in T : t <= y
  BY <1>2, LeastNumber
<1>4. PICK m \in S : t = Len(s) - m
  BY <1>3
<1>5. \A k \in S : m >= k
  <2>1. TAKE k \in S
  <2>2. Len(s) - m <= Len(s) - k
    BY <1>3, <1>4, <2>1
  <2>3. QED
    BY <2>2, <1>1, <1>4
<1>6. Max(S) \in S /\ \A k \in S : Max(S) >= k
  BY <1>5, Zenon DEF Max
<1>7. LastNonZero(s) = Max(S)
  BY DEF LastNonZero
<1>8. ASSUME NEW n \in 1..Len(s), s[n] # 0, \A k \in n + 1..Len(s) : s[k] = 0
      PROVE  Max(S) = n
  <2>1. n \in S /\ \A k \in S : k <= n
    BY <1>8
  <2>2. QED
    BY <1>1, <1>6, <2>1
<1>9. QED
  BY <1>1, <1>6, <1>7, <1>8

(* The part of the state that never changes. *)
Sending == nalu \in Units

(* Every variable keeps its type, for every payload: the bytes of the unit *)
(* stay bytes, the zero counter of write stays below three.                *)
THEOREM TypeCorrect == Spec => [](TypeOK /\ Sending)
<1>1. Init => TypeOK /\ Sending
  <2> SUFFICES ASSUME Init PROVE TypeOK /\ Sending
    OBVIOUS
  <2>1. nalu \in UnitType
    BY UnitsAssumption DEF Init
  <2>2. Len(rbsp) \in Nat
    BY <2>1 DEF UnitType, rbsp
  <2>3. ReadStart \in ReadState
    BY DEF ReadStart, ReadState
  <2>4. QED
    <3>1. it \in 1..Len(rbsp) + 1 /\ zeroCount \in 0..2
      BY <2>2 DEF Init
    <3>2. unit \in Seq(Byte)
      BY DEF Init
    <3>3. QED
      BY <2>1, <2>3, <3>1, <3>2 DEF Init, TypeOK, Sending
<1>2. TypeOK /\ Sending /\ [Next]_vars => (TypeOK /\ Sending)'
  <2> SUFFICES ASSUME TypeOK, Sending, [Next]_vars
               PROVE  TypeOK' /\ Sending'
    OBVIOUS
  <2> USE DEF TypeOK, UnitType, Sending, rbsp
  <2>1. CASE WriteHeader
    BY <2>1, HeaderIsBytes DEF WriteHeader
  <2>2. CASE WriteByte
    <3>1. rbsp[it] \in Byte
      BY <2>2 DEF WriteByte
    <3>2. zeroCount' \in 0..2
      BY <2>2, <3>1 DEF WriteByte, Escape, ZerosAfter, Byte
    <3>3. unit' \in Seq(Byte)
      <4> DEFINE bytes == IF Escape(zeroCount, rbsp[it]) THEN <<3, rbsp[it]>> ELSE <<rbsp[it]>>
      <4>1. bytes \in Seq(Byte)
        <5>1. <<3, rbsp[it]>> \in Seq(Byte) /\ <<rbsp[it]>> \in Seq(Byte)
          BY <3>1 DEF Byte
        <5>2. QED
          BY <5>1
      <4> HIDE DEF bytes
      <4>2. unit' = unit \o bytes
        BY <2>2 DEF WriteByte, bytes
      <4>3. QED
        BY <4>1, <4>2
    <3>4. QED
      BY <2>2, <3>2, <3>3 DEF WriteByte
  <2>3. CASE EndWrite
    BY <2>3 DEF EndWrite, Byte
  <2>4. CASE PadWithCabacZeroWords
    <3>1. PICK n \in Nat : unit' = unit \o ZeroWords(n)
      <4>1. (IF IsVcl(unit) THEN 0..MaxCabacZeroWords ELSE {0}) \subseteq Nat
        BY PaddingAssumption
      <4>2. QED
        BY <2>4, <4>1 DEF PadWithCabacZeroWords
    <3>2. unit' \in Seq(Byte)
      BY <3>1, ZeroWordsAreBytes
    <3>3. QED
      BY <2>4, <3>2 DEF PadWithCabacZeroWords
  <2>5. CASE ReadByte
    <3>1. unit[read.it] \in Byte
      BY <2>5 DEF ReadByte, ReadState
    <3>2. read' \in ReadState
      BY SMTT(20), <2>5, <3>1 DEF ReadByte, ReadState, ZerosAfter
    <3>3. QED
      BY <2>5, <3>2 DEF ReadByte
  <2>6. CASE ReadBehindEscape
    <3>1. unit[read.it + 1] \in Byte /\ read.it - 1 \in Nat
      BY SMTT(20), <2>6 DEF ReadBehindEscape, ReadState
    <3>2. read' \in ReadState
      BY SMTT(20), <2>6, <3>1 DEF ReadBehindEscape, ReadState, ZerosAfter
    <3>3. QED
      BY <2>6, <3>2 DEF ReadBehindEscape
  <2>7. CASE DropLastEscape
    <3>1. read.it - 1 \in Nat
      BY DEF ReadState
    <3>2. read' \in ReadState
      BY <2>7, <3>1 DEF DropLastEscape, ReadState
    <3>3. QED
      BY <2>7, <3>2 DEF DropLastEscape
  <2>8. CASE EndRead
    <3> DEFINE n == LastNonZero(read.out)
    <3>1. read.out \in Seq(Byte) /\ n \in 0..Len(read.out)
      BY LastNonZeroFound DEF ReadState
    <3> HIDE DEF n
    <3>2. SubSeq(read.out, 1, n) \in Seq(Byte)
      BY <3>1
    <3>3. read' \in ReadState
      BY <2>8, <3>2 DEF EndRead, ReadState, n
    <3>4. QED
      BY <2>8, <3>3 DEF EndRead
  <2>9. CASE ParseEntryPoints
    BY <2>9 DEF ParseEntryPoints
  <2>10. CASE UNCHANGED vars
    BY <2>10 DEF vars
  <2>11. QED
    BY <2>1, <2>2, <2>3, <2>4, <2>5, <2>6, <2>7, <2>8, <2>9, <2>10 DEF Next, Done
<1>3. QED
  BY <1>1, <1>2, PTL DEF Spec

-----------------------------------------------------------------------------
(* The number of zero bytes at the end of the first n bytes of s, counted  *)
(* up to two.                                                              *)
Zeros(s, n) ==
  IF n = 0 \/ s[n] # 0 THEN 0
  ELSE IF n = 1 \/ s[n - 1] # 0 THEN 1 ELSE 2

(* Byte i of the message m is where w says in the unit u. *)
Atom(u, m, w, i) ==
  IF Zeros(u, w[i] - 1) = 2 /\ m[i] <= 3
  THEN w[i + 1] = w[i] + 2 /\ u[w[i]] = 3 /\ u[w[i] + 1] = m[i]
  ELSE w[i + 1] = w[i] + 1 /\ u[w[i]] = m[i]

(* The first n bytes of m fill the first L bytes of u. *)
Aligned(u, m, w, n, L) ==
  /\ w \in [1..n + 1 -> Nat \ {0}]
  /\ L \in 0..Len(u)
  /\ w[1] = 1 /\ w[n + 1] = L + 1
  /\ \A i \in 1..n : w[i] <= L /\ Atom(u, m, w, i)

LEMMA ZerosOfPrefix ==
  ASSUME NEW u \in Seq(Byte), NEW v \in Seq(Byte), NEW L \in Nat,
         \A k \in 1..L : u[k] = v[k]
  PROVE  \A n \in 0..L : Zeros(u, n) = Zeros(v, n)
BY DEF Zeros

LEMMA ZerosStep ==
  ASSUME NEW u \in Seq(Byte), NEW k \in 1..Len(u)
  PROVE  /\ Zeros(u, k - 1) \in 0..2
         /\ u[k] # 0 => Zeros(u, k) = 0
         /\ u[k] = 0 /\ Zeros(u, k - 1) < 2 => Zeros(u, k) = Zeros(u, k - 1) + 1
BY DEF Zeros

LEMMA AlignedInLongerUnit ==
  ASSUME NEW u \in Seq(Byte), NEW v \in Seq(Byte), NEW m, NEW w,
         NEW n \in Nat, NEW L \in Nat, Aligned(u, m, w, n, L),
         Len(v) >= L, \A k \in 1..L : u[k] = v[k]
  PROVE  Aligned(v, m, w, n, L)
<1>1. ASSUME NEW i \in 1..n
      PROVE  Atom(v, m, w, i)
  <2>1. /\ w[i] \in 1..L /\ w[i + 1] <= L + 1
        /\ Atom(u, m, w, i)
    <3>1. i + 1 = n + 1 \/ i + 1 \in 1..n
      OBVIOUS
    <3>2. QED
      BY <3>1 DEF Aligned
  <2>2. Zeros(u, w[i] - 1) = Zeros(v, w[i] - 1)
    <3>1. \A j \in 0..L : Zeros(u, j) = Zeros(v, j)
      BY ZerosOfPrefix
    <3>2. w[i] - 1 \in 0..L
      BY <2>1
    <3>3. QED
      BY <3>1, <3>2
  <2>3. u[w[i]] = v[w[i]]
    BY <2>1
  <2>4. w[i + 1] = w[i] + 2 => u[w[i] + 1] = v[w[i] + 1]
    BY <2>1
  <2>5. QED
    BY <2>1, <2>2, <2>3, <2>4 DEF Atom
<1>2. QED
  BY <1>1 DEF Aligned

(* Writing one more byte of the message, as WriteByte does. *)
LEMMA AlignedGrows ==
  ASSUME NEW u \in Seq(Byte), NEW m \in Seq(Byte), NEW w, NEW n \in Nat,
         n < Len(m), Aligned(u, m, w, n, Len(u)),
         NEW b \in Byte, b = m[n + 1],
         NEW v,
         v = u \o (IF Zeros(u, Len(u)) = 2 /\ b <= 3 THEN <<3, b>> ELSE <<b>>)
  PROVE  /\ v \in Seq(Byte)
         /\ \E w2 : Aligned(v, m, w2, n + 1, Len(v))
<1> DEFINE escape == Zeros(u, Len(u)) = 2 /\ b <= 3
           more == IF escape THEN <<3, b>> ELSE <<b>>
           w2 == [i \in 1..n + 2 |-> IF i = n + 2 THEN Len(v) + 1 ELSE w[i]]
<1>2. /\ more \in Seq(Byte)
      /\ Len(more) = IF escape THEN 2 ELSE 1
      /\ escape => more[1] = 3 /\ more[2] = b
      /\ ~escape => more[1] = b
  <2>1. CASE escape
    <3>1. <<3, b>> \in Seq(Byte) /\ Len(<<3, b>>) = 2 /\ <<3, b>>[1] = 3 /\ <<3, b>>[2] = b
      BY DEF Byte
    <3>2. QED
      BY <2>1, <3>1
  <2>2. CASE ~escape
    <3>1. <<b>> \in Seq(Byte) /\ Len(<<b>>) = 1 /\ <<b>>[1] = b
      OBVIOUS
    <3>2. QED
      BY <2>2, <3>1
  <2>3. QED
    BY <2>1, <2>2
<1> HIDE DEF more
<1>3. /\ v \in Seq(Byte)
      /\ Len(v) = Len(u) + Len(more)
      /\ \A k \in 1..Len(u) : v[k] = u[k]
      /\ \A k \in 1..Len(more) : v[Len(u) + k] = more[k]
  <2>1. v = u \o more
    BY DEF more
  <2>2. QED
    BY <2>1, <1>2
<1>4. Aligned(v, m, w, n, Len(u))
  <2>1. Len(v) >= Len(u) /\ Len(u) \in Nat
    BY <1>2, <1>3
  <2>2. QED
    BY <1>3, <2>1, AlignedInLongerUnit
<1>5. /\ w \in [1..n + 1 -> Nat \ {0}] /\ w[1] = 1 /\ w[n + 1] = Len(u) + 1
      /\ \A i \in 1..n : w[i] <= Len(u) /\ Atom(v, m, w, i)
  BY <1>4 DEF Aligned
<1>6. /\ w2 \in [1..n + 2 -> Nat \ {0}]
      /\ \A i \in 1..n + 1 : w2[i] = w[i]
      /\ w2[n + 2] = Len(v) + 1
  BY <1>3, <1>5
<1> HIDE DEF w2
<1>7. ASSUME NEW i \in 1..n
      PROVE  w2[i] <= Len(v) /\ Atom(v, m, w2, i)
  <2>1. w2[i] = w[i] /\ w2[i + 1] = w[i + 1]
    BY <1>6
  <2>2. w[i] <= Len(u) /\ Atom(v, m, w, i)
    BY <1>5
  <2>3. Atom(v, m, w2, i)
    BY <2>1, <2>2 DEF Atom
  <2>4. w[i] \in Nat /\ Len(u) \in Nat /\ Len(v) \in Nat /\ Len(u) <= Len(v)
    BY <1>2, <1>3, <1>5
  <2>5. QED
    BY <2>1, <2>2, <2>3, <2>4
<1>8. w2[n + 1] = Len(u) + 1
  BY <1>5, <1>6
<1>9. Zeros(v, Len(u)) = Zeros(u, Len(u))
  <2>1. \A j \in 0..Len(u) : Zeros(u, j) = Zeros(v, j)
    <3>1. Len(u) \in Nat /\ \A k \in 1..Len(u) : u[k] = v[k]
      BY <1>3
    <3>2. QED
      BY <1>3, <3>1, ZerosOfPrefix
  <2>2. Len(u) \in 0..Len(u)
    OBVIOUS
  <2>3. QED
    BY <2>1, <2>2
<1>10. w2[n + 1] <= Len(v) /\ Atom(v, m, w2, n + 1)
  <2>1. w2[n + 1] - 1 = Len(u) /\ (n + 1) + 1 = n + 2
    BY <1>8
  <2>2. v[w2[n + 1]] = more[1] /\ (escape => v[w2[n + 1] + 1] = more[2])
    <3>1. v[Len(u) + 1] = more[1] /\ (escape => v[Len(u) + 2] = more[2])
      BY <1>2, <1>3
    <3>2. w2[n + 1] + 1 = Len(u) + 2
      BY <1>8
    <3>3. QED
      BY <1>8, <3>1, <3>2
  <2>3. escape <=> Zeros(v, w2[n + 1] - 1) = 2 /\ m[n + 1] <= 3
    BY <1>9, <2>1
  <2>4. w2[(n + 1) + 1] = w2[n + 1] + Len(more)
    BY <1>2, <1>3, <1>6, <1>8
  <2>5. ASSUME escape PROVE Atom(v, m, w2, n + 1)
    <3>1. /\ Zeros(v, w2[n + 1] - 1) = 2 /\ m[n + 1] <= 3
          /\ w2[(n + 1) + 1] = w2[n + 1] + 2
          /\ v[w2[n + 1]] = 3 /\ v[w2[n + 1] + 1] = m[n + 1]
      <4>1. Len(more) = 2 /\ more[1] = 3 /\ more[2] = m[n + 1]
        BY <1>2, <2>5
      <4>2. QED
        BY <2>2, <2>3, <2>4, <2>5, <4>1
    <3>2. QED
      BY <3>1 DEF Atom
  <2>6. ASSUME ~escape PROVE Atom(v, m, w2, n + 1)
    <3>1. /\ ~ (Zeros(v, w2[n + 1] - 1) = 2 /\ m[n + 1] <= 3)
          /\ w2[(n + 1) + 1] = w2[n + 1] + 1
          /\ v[w2[n + 1]] = m[n + 1]
      <4>1. Len(more) = 1 /\ more[1] = m[n + 1]
        BY <1>2, <2>6
      <4>2. QED
        BY <2>2, <2>3, <2>4, <2>6, <4>1
    <3>2. QED
      BY <3>1 DEF Atom
  <2>7. w2[n + 1] <= Len(v)
    BY <1>2, <1>3, <1>8
  <2>8. QED
    BY <2>5, <2>6, <2>7
<1>11. Aligned(v, m, w2, n + 1, Len(v))
  <2>1. w2 \in [1..(n + 1) + 1 -> Nat \ {0}] /\ w2[1] = 1
    BY <1>5, <1>6
  <2>2. w2[(n + 1) + 1] = Len(v) + 1 /\ Len(v) \in 0..Len(v)
    BY <1>3, <1>6
  <2>3. \A i \in 1..n + 1 : w2[i] <= Len(v) /\ Atom(v, m, w2, i)
    <3>1. TAKE i \in 1..n + 1
    <3>2. i \in 1..n \/ i = n + 1
      OBVIOUS
    <3>3. QED
      BY <1>7, <1>10, <3>2
  <2>4. QED
    BY <2>1, <2>2, <2>3 DEF Aligned
<1>12. QED
  BY <1>3, <1>11

(* The last byte written is the last byte of the message, and a byte 3     *)
(* behind two zero bytes is never the last one written.                    *)
LEMMA AlignedEnd ==
  ASSUME NEW u \in Seq(Byte), NEW m \in Seq(Byte), NEW w, NEW n \in 1..Len(m),
         NEW L \in Nat, Aligned(u, m, w, n, L)
  PROVE  /\ L \in 1..Len(u)
         /\ u[L] = m[n]
         /\ ~ (Zeros(u, L - 1) = 2 /\ u[L] = 3)
<1>1. Atom(u, m, w, n) /\ w[n] \in 1..L /\ w[n + 1] = L + 1 /\ L \in 1..Len(u)
  BY DEF Aligned
<1>2. CASE Zeros(u, w[n] - 1) = 2 /\ m[n] <= 3
  <2>1. w[n] = L - 1 /\ u[L - 1] = 3 /\ u[L] = m[n]
    BY SMTT(20), <1>1, <1>2 DEF Atom
  <2>2. QED
    BY <1>1, <2>1 DEF Zeros
<1>3. CASE ~ (Zeros(u, w[n] - 1) = 2 /\ m[n] <= 3)
  <2>1. w[n] = L /\ u[L] = m[n]
    BY <1>1, <1>3 DEF Atom
  <2>2. QED
    BY <1>1, <1>3, <2>1
<1>4. QED
  BY <1>2, <1>3

(* What is written stays legal and the zero bytes are counted, byte by     *)
(* byte ...                                                                *)
LEMMA LegalGrows ==
  ASSUME NEW u \in Seq(Byte), NEW b \in Byte, Legal(u),
         ~ (Len(u) >= 1 /\ Zeros(u, Len(u) - 1) = 2 /\ u[Len(u)] = 3),
         NEW v,
         v = u \o (IF Zeros(u, Len(u)) = 2 /\ b <= 3 THEN <<3, b>> ELSE <<b>>)
  PROVE  /\ Legal(v)
         /\ Zeros(v, Len(v)) =
              ZerosAfter(IF Zeros(u, Len(u)) = 2 /\ b <= 3 THEN 0 ELSE Zeros(u, Len(u)), b)
<1>1. CASE Zeros(u, Len(u)) = 2 /\ b <= 3
  <2>1. /\ <<3, b>> \in Seq(Byte) /\ Len(<<3, b>>) = 2
        /\ <<3, b>>[1] = 3 /\ <<3, b>>[2] = b
    BY DEF Byte
  <2>2. v = u \o <<3, b>>
    BY <1>1
  <2>3. /\ v \in Seq(Byte) /\ Len(v) = Len(u) + 2
        /\ \A k \in 1..Len(u) : v[k] = u[k]
        /\ v[Len(u) + 1] = 3 /\ v[Len(u) + 2] = b
    BY <2>1, <2>2
  <2>4. Len(u) >= 2 /\ u[Len(u)] = 0 /\ u[Len(u) - 1] = 0
    BY <1>1 DEF Zeros
  <2>5. Legal(v)
    BY <1>1, <2>3, <2>4 DEF Legal
  <2>6. Zeros(v, Len(v)) = ZerosAfter(0, b)
    <3>1. Len(v) # 0 /\ Len(v) # 1 /\ v[Len(v)] = b /\ v[Len(v) - 1] = 3
      BY <2>3
    <3>2. QED
      BY <3>1 DEF Zeros, ZerosAfter
  <2>7. QED
    BY <1>1, <2>5, <2>6
<1>2. CASE ~ (Zeros(u, Len(u)) = 2 /\ b <= 3)
  <2>1. v = u \o <<b>>
    BY <1>2
  <2>2. /\ v \in Seq(Byte) /\ Len(v) = Len(u) + 1
        /\ \A k \in 1..Len(u) : v[k] = u[k]
        /\ v[Len(u) + 1] = b
    BY <2>1
  <2>3. Len(u) >= 2 /\ u[Len(u)] = 0 /\ u[Len(u) - 1] = 0 => b > 3
    BY <1>2 DEF Zeros, Byte
  <2>4. Len(u) >= 3 /\ u[Len(u) - 1] = 0 /\ u[Len(u) - 2] = 0 => u[Len(u)] # 3
    <3>1. SUFFICES ASSUME Len(u) >= 3, u[Len(u) - 1] = 0, u[Len(u) - 2] = 0
                   PROVE  u[Len(u)] # 3
      OBVIOUS
    <3>2. (Len(u) - 1) - 1 = Len(u) - 2 /\ Len(u) - 1 # 0 /\ Len(u) - 1 # 1
      BY <3>1
    <3>3. Zeros(u, Len(u) - 1) = 2
      BY <3>1, <3>2 DEF Zeros
    <3>4. QED
      BY <3>1, <3>3
  <2>5. Legal(v)
    <3>1. SUFFICES ASSUME NEW k \in 1..Len(v) - 2, v[k] = 0, v[k + 1] = 0
                   PROVE  v[k + 2] > 2 /\ (v[k + 2] = 3 /\ k + 3 <= Len(v) => v[k + 3] <= 3)
      BY DEF Legal
    <3>2. u[k] = 0 /\ u[k + 1] = 0 /\ k \in 1..Len(u) - 1
      BY <2>2, <3>1
    <3>3. CASE k = Len(u) - 1
      <4>1. Len(u) >= 2 /\ u[Len(u)] = 0 /\ u[Len(u) - 1] = 0
        BY <3>2, <3>3
      <4>2. b > 3 /\ v[k + 2] = b
        BY <2>2, <2>3, <3>3, <4>1
      <4>3. b \in Nat
        BY BytesAreNumbers
      <4>4. QED
        BY <4>2, <4>3
    <3>4. CASE k + 2 = Len(u)
      <4>1. u[k + 2] > 2 /\ u[k + 2] # 3
        <5> DEFINE n == Len(u)
        <5>1. n \in Nat /\ k = n - 2 /\ k + 1 = n - 1 /\ n >= 3
          BY <3>2, <3>4
        <5>2. u[n - 1] = 0 /\ u[n - 2] = 0
          BY <3>2, <5>1, Zenon
        <5>3. Len(u) >= 3 /\ u[Len(u) - 1] = 0 /\ u[Len(u) - 2] = 0
          BY <5>1, <5>2
        <5>4. k \in 1..Len(u) - 2
          BY <3>2, <3>4
        <5>5. QED
          BY <2>4, <3>2, <3>4, <5>3, <5>4 DEF Legal
      <4>2. QED
        BY <2>2, <3>4, <4>1
    <3>5. CASE k + 2 < Len(u)
      <4>1. k \in 1..Len(u) - 2 /\ k + 3 <= Len(u)
        BY <3>2, <3>5
      <4>2. u[k + 2] > 2 /\ (u[k + 2] = 3 => u[k + 3] <= 3)
        BY <3>2, <4>1 DEF Legal
      <4>3. v[k + 2] = u[k + 2] /\ v[k + 3] = u[k + 3]
        BY <2>2, <4>1
      <4>4. QED
        BY <4>2, <4>3
    <3>6. QED
      BY <3>2, <3>3, <3>4, <3>5
  <2>6. Zeros(v, Len(v)) = ZerosAfter(Zeros(u, Len(u)), b)
    <3>1. Len(v) - 1 = Len(u) /\ v[Len(v)] = b /\ Len(v) \in 1..Len(v)
      BY <2>2
    <3>2. \A j \in 0..Len(u) : Zeros(u, j) = Zeros(v, j)
      <4>1. \A k \in 1..Len(u) : u[k] = v[k]
        BY <2>2
      <4>2. Len(u) \in Nat /\ v \in Seq(Byte)
        BY <2>2
      <4>3. QED
        BY <4>1, <4>2, ZerosOfPrefix
    <3>3. Zeros(v, Len(v) - 1) = Zeros(u, Len(u))
      <4>1. Len(u) \in 0..Len(u)
        OBVIOUS
      <4>2. QED
        BY <3>1, <3>2, <4>1
    <3>4. Zeros(u, Len(u)) = 2 => b # 0
      BY <1>2
    <3>5. /\ Zeros(v, Len(v) - 1) \in 0..2
          /\ b # 0 => Zeros(v, Len(v)) = 0
          /\ b = 0 /\ Zeros(v, Len(v) - 1) < 2 => Zeros(v, Len(v)) = Zeros(v, Len(v) - 1) + 1
      BY <2>2, <3>1, ZerosStep
    <3>6. QED
      BY <3>3, <3>4, <3>5 DEF ZerosAfter
  <2>7. QED
    BY <1>2, <2>5, <2>6
<1>3. QED
  BY <1>1, <1>2

Padded(u, L, n) ==
  /\ Len(u) = L + 3 * n
  /\ \A k \in 1..3 * n : u[L + k] = IF k % 3 = 0 THEN 3 ELSE 0

(* ... and with cabac_zero_words behind it. *)
LEMMA LegalPadded ==
  ASSUME NEW u \in Seq(Byte), Legal(u), Len(u) >= 1, u[Len(u)] # 0,
         ~ (Zeros(u, Len(u) - 1) = 2 /\ u[Len(u)] = 3),
         NEW n \in Nat, NEW v, v = u \o ZeroWords(n)
  PROVE  /\ v \in Seq(Byte) /\ Legal(v) /\ v[Len(v)] # 0
         /\ Padded(v, Len(u), n)
         /\ \A k \in 1..Len(u) : v[k] = u[k]
<1> DEFINE L == Len(u)
<1>1. /\ v \in Seq(Byte) /\ Len(v) = L + 3 * n
      /\ \A k \in 1..L : v[k] = u[k]
      /\ \A k \in 1..3 * n : v[L + k] = IF k % 3 = 0 THEN 3 ELSE 0
  <2>1. /\ ZeroWords(n) \in Seq(Byte) /\ Len(ZeroWords(n)) = 3 * n
        /\ \A k \in 1..3 * n : ZeroWords(n)[k] = IF k % 3 = 0 THEN 3 ELSE 0
    BY ZeroWordsAreBytes
  <2> DEFINE z == ZeroWords(n)
  <2> HIDE DEF z
  <2>2. v = u \o z /\ z \in Seq(Byte) /\ Len(z) = 3 * n
    BY <2>1 DEF z
  <2>3. /\ v \in Seq(Byte) /\ Len(v) = L + 3 * n
        /\ \A k \in 1..L : v[k] = u[k]
        /\ \A k \in 1..3 * n : v[L + k] = z[k]
    <3>1. /\ v \in Seq(Byte) /\ Len(v) = Len(u) + Len(z)
          /\ \A i \in 1..Len(u) + Len(z) : v[i] = IF i <= Len(u) THEN u[i] ELSE z[i - Len(u)]
      <4>1. /\ u \o z \in Seq(Byte) /\ Len(u \o z) = Len(u) + Len(z)
            /\ \A i \in 1..Len(u) + Len(z) :
                 (u \o z)[i] = IF i <= Len(u) THEN u[i] ELSE z[i - Len(u)]
        BY <2>2, ConcatProperties, Zenon
      <4>2. QED
        BY <2>2, <4>1
    <3>2. ASSUME NEW k \in 1..3 * n PROVE v[L + k] = z[k]
      <4>1. L + k \in 1..Len(u) + Len(z) /\ ~ (L + k <= Len(u)) /\ (L + k) - Len(u) = k
        BY <2>2
      <4>2. QED
        BY <3>1, <4>1
    <3>3. QED
      BY <2>2, <3>1, <3>2
  <2>4. QED
    BY <2>1, <2>3 DEF z
<1>2. v[Len(v)] # 0
  <2>1. CASE n = 0
    BY <1>1, <2>1
  <2>2. CASE n > 0
    <3>1. 3 * n \in 1..3 * n /\ (3 * n) % 3 = 0
      BY <2>2
    <3>2. QED
      BY <1>1, <3>1
  <2>3. QED
    BY <2>1, <2>2
<1>3. ASSUME NEW k \in 1..Len(v) - 2, v[k] = 0, v[k + 1] = 0
      PROVE  v[k + 2] > 2 /\ (v[k + 2] = 3 /\ k + 3 <= Len(v) => v[k + 3] <= 3)
  <2>1. CASE k + 3 <= L
    BY <1>1, <1>3, <2>1 DEF Legal
  <2>2. CASE k + 2 = L
    <3>1. u[k] = 0 /\ u[k + 1] = 0
      BY <1>1, <1>3, <2>2
    <3>2. u[k + 2] > 2 /\ v[k + 2] = u[k + 2]
      BY <1>1, <2>2, <3>1 DEF Legal
    <3>3. Zeros(u, L - 1) = 2
      BY <2>2, <3>1 DEF Zeros
    <3>4. QED
      BY <2>2, <3>2, <3>3
  <2>3. CASE k + 1 = L \/ k = L
    BY <1>1, <1>3, <2>3
  <2>4. CASE k > L
    <3>1. PICK j \in 1..3 * n : k = L + j
      <4>1. k - L \in 1..3 * n /\ k = L + (k - L)
        BY <1>1, <2>4
      <4>2. QED
        BY <4>1
    <3>2. j + 1 \in 1..3 * n /\ j + 2 \in 1..3 * n
      BY <1>1, <3>1
    <3>3. j % 3 # 0 /\ (j + 1) % 3 # 0
      <4>1. v[L + j] = 0 /\ v[L + (j + 1)] = 0
        BY <1>3, <3>1
      <4>2. QED
        BY SMTT(20), <1>1, <3>1, <3>2, <4>1
    <3>4. (j + 2) % 3 = 0 /\ (j + 3) % 3 # 0
      BY SMTT(20), <3>3
    <3>5. v[L + (j + 2)] = 3
      BY <1>1, <3>2, <3>4
    <3>6. j + 3 <= 3 * n => v[L + (j + 3)] = 0
      <4>1. j + 3 <= 3 * n => j + 3 \in 1..3 * n
        OBVIOUS
      <4>2. QED
        BY <1>1, <3>4, <4>1
    <3>7. QED
      BY SMTT(20), <1>1, <3>1, <3>5, <3>6
  <2>5. QED
    BY <2>1, <2>2, <2>3, <2>4
<1>4. QED
  BY <1>1, <1>2, <1>3 DEF Legal, Padded

-----------------------------------------------------------------------------
(* The bytes that are to arrive. *)
Msg == HeaderBytes(nalu.header) \o rbsp

LEMMA MsgFacts ==
  ASSUME TypeOK, Sending
  PROVE  /\ Msg \in Seq(Byte) /\ rbsp \in Seq(Byte)
         /\ Len(rbsp) \in Nat \ {0} /\ Len(Msg) = Len(rbsp) + 2
         /\ Msg[1] = HeaderBytes(nalu.header)[1]
         /\ Msg[2] = HeaderBytes(nalu.header)[2] /\ Msg[2] # 0
         /\ Msg[Len(Msg)] # 0
         /\ \A i \in 1..Len(rbsp) : Msg[i + 2] = rbsp[i]
<1>1. /\ nalu \in UnitType /\ nalu.ends # << >>
      /\ nalu.ends[Len(nalu.ends)] = Len(nalu.rbsp)
      /\ \A k \in DOMAIN nalu.ends : nalu.rbsp[nalu.ends[k]] # 0
  BY UnitsAssumption DEF Sending
<1>2. rbsp \in Seq(Byte) /\ Len(rbsp) \in Nat \ {0} /\ rbsp[Len(rbsp)] # 0
  <2>1. nalu.rbsp \in Seq(Byte) /\ nalu.ends \in Seq(Nat \ {0})
    BY <1>1 DEF UnitType
  <2>2. Len(nalu.ends) \in DOMAIN nalu.ends
    BY <1>1, <2>1
  <2>3. nalu.ends[Len(nalu.ends)] \in Nat \ {0}
    BY <2>1, <2>2
  <2>4. QED
    BY <1>1, <2>1, <2>2, <2>3 DEF rbsp
<1> DEFINE h == HeaderBytes(nalu.header)
<1>3. h \in Seq(Byte) /\ Len(h) = 2 /\ h[2] # 0
  BY <1>1, HeaderIsBytes DEF UnitType
<1> HIDE DEF h
<1>4. /\ h \o rbsp \in Seq(Byte) /\ Len(h \o rbsp) = Len(rbsp) + 2
      /\ \A i \in 1..Len(h) + Len(rbsp) :
           (h \o rbsp)[i] = IF i <= Len(h) THEN h[i] ELSE rbsp[i - Len(h)]
  <2>1. /\ h \o rbsp \in Seq(Byte) /\ Len(h \o rbsp) = Len(h) + Len(rbsp)
        /\ \A i \in 1..Len(h) + Len(rbsp) :
             (h \o rbsp)[i] = IF i <= Len(h) THEN h[i] ELSE rbsp[i - Len(h)]
    BY <1>2, <1>3, ConcatProperties, Zenon
  <2>2. QED
    BY <1>2, <1>3, <2>1
<1>5. \A i \in 1..Len(rbsp) : (h \o rbsp)[i + 2] = rbsp[i]
  <2>1. TAKE i \in 1..Len(rbsp)
  <2>2. i + 2 \in 1..Len(h) + Len(rbsp) /\ ~ (i + 2 <= Len(h)) /\ (i + 2) - Len(h) = i
    BY <1>2, <1>3
  <2>3. QED
    BY <1>4, <2>2
<1>6. (h \o rbsp)[1] = h[1] /\ (h \o rbsp)[2] = h[2]
  BY <1>2, <1>3, <1>4
<1>7. QED
  BY <1>2, <1>3, <1>4, <1>5, <1>6 DEF Msg, h

(* The unit holds the message as far as it is written, then perhaps        *)
(* cabac_zero_words; zeroCount is what write counts it for.                *)
WriterInv ==
  /\ phase = "header" => unit = << >> /\ it = 1 /\ zeroCount = 0
  /\ phase = "write" =>
       /\ zeroCount = Zeros(unit, Len(unit))
       /\ \E w : Aligned(unit, Msg, w, it + 1, Len(unit))
  /\ phase = "written" => \E w : Aligned(unit, Msg, w, Len(Msg), Len(unit))
  /\ phase = "read" =>
       \E w, L, n : /\ Aligned(unit, Msg, w, Len(Msg), L)
                    /\ n \in Nat /\ Padded(unit, L, n)
                    /\ n > 0 => IsVcl(unit)

(* The header is in place before the payload. *)
LEMMA HeaderAligned ==
  ASSUME TypeOK, Sending, NEW u, u = HeaderBytes(nalu.header)
  PROVE  /\ u \in Seq(Byte) /\ Len(u) = 2 /\ Zeros(u, Len(u)) = 0
         /\ Legal(u) /\ \E w : Aligned(u, Msg, w, 2, Len(u))
<1>1. u \in Seq(Byte) /\ Len(u) = 2 /\ u[2] # 0
  BY HeaderIsBytes DEF TypeOK, UnitType
<1>2. Msg[1] = u[1] /\ Msg[2] = u[2]
  BY MsgFacts
<1> DEFINE w == [i \in 1..3 |-> i]
<1>3. w \in [1..2 + 1 -> Nat \ {0}] /\ w[1] = 1 /\ w[2] = 2 /\ w[3] = 3
  OBVIOUS
<1> HIDE DEF w
<1>4. Zeros(u, 0) = 0 /\ Zeros(u, 1) # 2
  BY DEF Zeros
<1>5. Atom(u, Msg, w, 1) /\ Atom(u, Msg, w, 2)
  BY <1>2, <1>3, <1>4 DEF Atom
<1>6. Aligned(u, Msg, w, 2, Len(u))
  <2>1. \A i \in 1..2 : i = 1 \/ i = 2
    OBVIOUS
  <2>2. QED
    BY <1>1, <1>3, <1>5, <2>1 DEF Aligned
<1>7. QED
  BY <1>1, <1>6 DEF Zeros, Legal

LEMMA WriterStep ==
  ASSUME TypeOK, Sending, WriterInv, UnitIsLegal, [Next]_vars, TypeOK'
  PROVE  WriterInv' /\ UnitIsLegal'
<1>1. /\ Msg \in Seq(Byte) /\ rbsp \in Seq(Byte)
      /\ Len(rbsp) \in Nat \ {0} /\ Len(Msg) = Len(rbsp) + 2
      /\ Msg[Len(Msg)] # 0
      /\ \A i \in 1..Len(rbsp) : Msg[i + 2] = rbsp[i]
  BY MsgFacts
<1>2. unit \in Seq(Byte) /\ it \in 1..Len(rbsp) + 1
  BY DEF TypeOK
<1>3. nalu' = nalu => Msg' = Msg /\ rbsp' = rbsp
  BY DEF Msg, rbsp
<1>4. CASE WriteHeader
  <2>1. unit' = HeaderBytes(nalu.header) /\ phase' = "write" /\ it' = 1 /\ zeroCount' = 0
    BY <1>4 DEF WriteHeader, WriterInv
  <2>2. Msg' = Msg
    BY <1>3, <1>4 DEF WriteHeader
  <2>3. /\ Zeros(unit', Len(unit')) = 0 /\ Legal(unit')
        /\ \E w : Aligned(unit', Msg, w, 2, Len(unit'))
    BY <2>1, HeaderAligned
  <2>4. QED
    BY <2>1, <2>2, <2>3 DEF WriterInv, UnitIsLegal, EndsInNonZero
<1>5. CASE WriteByte
  <2> DEFINE escape == Zeros(unit, Len(unit)) = 2 /\ rbsp[it] <= 3
  <2>1. /\ phase = "write" /\ phase' = "write" /\ it <= Len(rbsp) /\ it' = it + 1
        /\ nalu' = nalu
    BY <1>5 DEF WriteByte
  <2>2. zeroCount = Zeros(unit, Len(unit))
    BY <2>1 DEF WriterInv
  <2>3. unit' = unit \o (IF escape THEN <<3, rbsp[it]>> ELSE <<rbsp[it]>>)
    BY <1>5, <2>2 DEF WriteByte, Escape
  <2>4. PICK w : Aligned(unit, Msg, w, it + 1, Len(unit))
    BY <2>1 DEF WriterInv
  <2>5. Msg[(it + 1) + 1] = rbsp[it] /\ it + 1 < Len(Msg) /\ it + 1 \in 1..Len(Msg)
    BY <1>1, <1>2, <2>1
  <2>6. unit' \in Seq(Byte) /\ \E w2 : Aligned(unit', Msg, w2, (it + 1) + 1, Len(unit'))
    <3>1. rbsp[it] \in Byte /\ it + 1 \in Nat
      BY <1>1, <1>2, <2>1
    <3>2. rbsp[it] = Msg[(it + 1) + 1] /\ it + 1 < Len(Msg)
      BY <2>5
    <3> DEFINE n == it + 1
               b == rbsp[it]
               v == unit'
    <3>3. /\ n \in Nat /\ n < Len(Msg) /\ Aligned(unit, Msg, w, n, Len(unit))
          /\ b \in Byte /\ b = Msg[n + 1]
          /\ v = unit \o (IF Zeros(unit, Len(unit)) = 2 /\ b <= 3 THEN <<3, b>> ELSE <<b>>)
      BY <2>3, <2>4, <3>1, <3>2
    <3> HIDE DEF n, b, v
    <3>4. v \in Seq(Byte) /\ \E w2 : Aligned(v, Msg, w2, n + 1, Len(v))
      BY <1>1, <1>2, <3>3, AlignedGrows, Zenon
    <3>5. QED
      BY <3>4 DEF n, v
  <2>7. ~ (Len(unit) >= 1 /\ Zeros(unit, Len(unit) - 1) = 2 /\ unit[Len(unit)] = 3)
    BY <1>1, <1>2, <2>4, <2>5, AlignedEnd
  <2>8. /\ Legal(unit')
        /\ Zeros(unit', Len(unit')) = ZerosAfter(IF escape THEN 0 ELSE Zeros(unit, Len(unit)), rbsp[it])
    <3>1. rbsp[it] \in Byte /\ Legal(unit)
      BY <1>1, <1>2, <2>1 DEF UnitIsLegal, EndsInNonZero
    <3>2. QED
      BY <1>2, <2>3, <2>7, <3>1, LegalGrows
  <2>9. zeroCount' = Zeros(unit', Len(unit'))
    BY <1>5, <2>2, <2>8 DEF WriteByte, Escape
  <2>10. QED
    BY <1>3, <2>1, <2>6, <2>8, <2>9 DEF WriterInv, UnitIsLegal, EndsInNonZero
<1>6. CASE EndWrite
  <2>1. phase = "write" /\ phase' = "written" /\ it = Len(rbsp) + 1 /\ nalu' = nalu
    BY <1>2, <1>6 DEF EndWrite
  <2>2. PICK w : Aligned(unit, Msg, w, Len(Msg), Len(unit))
    <3>1. it + 1 = Len(Msg)
      BY <1>1, <2>1
    <3>2. QED
      BY <2>1, <3>1 DEF WriterInv
  <2>3. unit[Len(unit)] # 0 /\ Len(unit) >= 1
    BY <1>1, <1>2, <2>2, AlignedEnd
  <2>4. zeroCount = 0
    BY <2>1, <2>3 DEF WriterInv, Zeros
  <2>5. unit' = unit
    BY <1>6, <2>4 DEF EndWrite
  <2>6. QED
    BY <1>3, <2>1, <2>2, <2>3, <2>5 DEF WriterInv, UnitIsLegal, EndsInNonZero
<1>7. CASE PadWithCabacZeroWords
  <2>1. phase = "written" /\ phase' = "read" /\ nalu' = nalu
    BY <1>7 DEF PadWithCabacZeroWords
  <2>2. PICK w : Aligned(unit, Msg, w, Len(Msg), Len(unit))
    BY <2>1 DEF WriterInv
  <2>3. /\ Len(unit) >= 1 /\ unit[Len(unit)] # 0
        /\ ~ (Zeros(unit, Len(unit) - 1) = 2 /\ unit[Len(unit)] = 3)
    BY <1>1, <1>2, <2>2, AlignedEnd
  <2>4. PICK n \in Nat : unit' = unit \o ZeroWords(n) /\ (n > 0 => IsVcl(unit))
    <3>1. PICK n \in IF IsVcl(unit) THEN 0..MaxCabacZeroWords ELSE {0} :
            unit' = unit \o ZeroWords(n)
      BY <1>7 DEF PadWithCabacZeroWords
    <3>2. n \in Nat /\ (n > 0 => IsVcl(unit))
      <4>1. CASE IsVcl(unit)
        BY <3>1, <4>1, PaddingAssumption
      <4>2. CASE ~IsVcl(unit)
        BY <3>1, <4>2
      <4>3. QED
        BY <4>1, <4>2
    <3>3. QED
      BY <3>1, <3>2
  <2>5. /\ unit' \in Seq(Byte) /\ Legal(unit') /\ unit'[Len(unit')] # 0
        /\ Padded(unit', Len(unit), n)
        /\ \A k \in 1..Len(unit) : unit'[k] = unit[k]
    BY <1>2, <2>3, <2>4, LegalPadded DEF UnitIsLegal, EndsInNonZero
  <2>6. Aligned(unit', Msg, w, Len(Msg), Len(unit))
    <3>1. Len(unit') >= Len(unit) /\ Len(unit) \in Nat /\ Len(Msg) \in Nat
      BY <1>1, <1>2, <2>5 DEF Padded
    <3>2. QED
      BY <1>2, <2>2, <2>5, <3>1, AlignedInLongerUnit
  <2>7. n > 0 => IsVcl(unit')
    BY <2>3, <2>4, <2>5, <1>2 DEF IsVcl
  <2>8. QED
    BY <1>3, <2>1, <2>5, <2>6, <2>7 DEF WriterInv, UnitIsLegal, EndsInNonZero
<1>8. CASE ReadByte \/ ReadBehindEscape \/ DropLastEscape
  BY <1>3, <1>8 DEF ReadByte, ReadBehindEscape, DropLastEscape, WriterInv, UnitIsLegal, EndsInNonZero
<1>9. CASE EndRead \/ ParseEntryPoints
  BY <1>3, <1>9 DEF EndRead, ParseEntryPoints, WriterInv, UnitIsLegal, EndsInNonZero
<1>10. CASE UNCHANGED vars
  BY <1>3, <1>10 DEF vars, WriterInv, UnitIsLegal, EndsInNonZero
<1>11. QED
  BY <1>4, <1>5, <1>6, <1>7, <1>8, <1>9, <1>10 DEF Next, Done

(* Every unit that is written is legal: no emulated start code in it, and  *)
(* no zero byte at its end, for every payload (write, 7.4.1).              *)
THEOREM UnitsAreLegal == Spec => []UnitIsLegal
<1>1. Init => WriterInv /\ UnitIsLegal
  BY DEF Init, WriterInv, UnitIsLegal, EndsInNonZero, Legal
<1>2. /\ TypeOK /\ Sending /\ WriterInv /\ UnitIsLegal /\ [Next]_vars
      /\ TypeOK'
      => (WriterInv /\ UnitIsLegal)'
  BY WriterStep
<1>3. QED
  BY <1>1, <1>2, TypeCorrect, PTL DEF Spec

-----------------------------------------------------------------------------
(* Reading one byte of the message, whatever it took to write it.          *)
LEMMA ReadAtom ==
  ASSUME NEW u \in Seq(Byte), NEW m \in Seq(Byte), NEW w, NEW L \in Nat,
         Aligned(u, m, w, Len(m), L), NEW i \in 1..Len(m),
         NEW k, k = w[i], NEW z, z = Zeros(u, k - 1)
  PROVE  /\ k \in 1..L /\ L <= Len(u) /\ z \in 0..2
         /\ z = 2 /\ u[k] = 3 =>
              /\ k < Len(u) /\ u[k + 1] = m[i] /\ m[i] <= 3 /\ w[i + 1] = k + 2
              /\ ZerosAfter(0, m[i]) = Zeros(u, k + 1)
         /\ ~ (z = 2 /\ u[k] = 3) =>
              /\ ~ (z >= 2 /\ u[k] < 3) /\ u[k] = m[i] /\ w[i + 1] = k + 1
              /\ ZerosAfter(z, m[i]) = Zeros(u, k)
<1>1. /\ k \in 1..L /\ L \in 0..Len(u) /\ Atom(u, m, w, i)
      /\ w[i + 1] \in Nat /\ w[i + 1] <= L + 1
  <2>1. i + 1 = Len(m) + 1 \/ i + 1 \in 1..Len(m)
    OBVIOUS
  <2>2. /\ w \in [1..Len(m) + 1 -> Nat \ {0}] /\ L \in 0..Len(u) /\ w[Len(m) + 1] = L + 1
        /\ \A j \in 1..Len(m) : w[j] <= L /\ Atom(u, m, w, j)
    BY DEF Aligned
  <2>3. w[i + 1] \in Nat /\ w[i + 1] <= L + 1
    <3> DEFINE j == i + 1
    <3>1. j \in 1..Len(m) + 1 /\ (j = Len(m) + 1 \/ j \in 1..Len(m))
      OBVIOUS
    <3> HIDE DEF j
    <3>2. w[j] \in Nat
      BY <2>2, <3>1
    <3>3. w[j] = L + 1 \/ w[j] <= L
      BY <2>2, <3>1
    <3>4. QED
      BY <3>2, <3>3 DEF j
  <2>4. w[i] \in 1..L
    BY SMTT(20), <2>2
  <2>5. QED
    BY <2>2, <2>3, <2>4
<1>2. /\ z \in 0..2
      /\ u[k] # 0 => Zeros(u, k) = 0
      /\ u[k] = 0 /\ z < 2 => Zeros(u, k) = z + 1
  BY <1>1, ZerosStep
<1>3. m[i] \in Byte
  OBVIOUS
<1>4. CASE z = 2 /\ m[i] <= 3
  <2>1. w[i + 1] = k + 2 /\ u[k] = 3 /\ u[k + 1] = m[i]
    BY <1>1, <1>4 DEF Atom
  <2>2. k + 1 \in 1..L
    <3>1. k \in Nat /\ k + 2 <= L + 1
      BY <1>1, <2>1, Z3
    <3>2. QED
      BY <3>1, Z3
  <2>3. Zeros(u, k + 1) = ZerosAfter(0, m[i])
    <3>1. k + 1 # 0 /\ k + 1 # 1 /\ (k + 1) - 1 = k
      BY <1>1
    <3>2. QED
      BY <2>1, <3>1 DEF Zeros, ZerosAfter
  <2>4. QED
    BY <1>1, <1>2, <1>4, <2>1, <2>2, <2>3
<1>5. CASE ~ (z = 2 /\ m[i] <= 3)
  <2>1. w[i + 1] = k + 1 /\ u[k] = m[i]
    BY <1>1, <1>5 DEF Atom
  <2>2. z = 2 => m[i] > 3
    <3>1. z = 2 => ~ (m[i] <= 3)
      BY <1>5
    <3>2. m[i] \in Int
      BY <1>3, BytesAreNumbers
    <3>3. QED
      BY <3>1, <3>2, Z3
  <2>3. Zeros(u, k) = ZerosAfter(z, m[i])
    BY <1>2, <2>1, <2>2 DEF ZerosAfter
  <2>4. ~ (z = 2 /\ u[k] = 3) /\ ~ (z >= 2 /\ u[k] < 3)
    <3>1. z \in 0..2 /\ u[k] \in Int
      BY <1>2, <1>3, <2>1, BytesAreNumbers
    <3>2. z = 2 => u[k] > 3
      BY <2>1, <2>2
    <3>3. QED
      BY <3>1, <3>2, Z3
  <2>5. QED
    BY <1>1, <1>2, <2>1, <2>3, <2>4
<1>6. QED
  BY <1>4, <1>5

(* A whole unit: the message m, then n cabac_zero_words. *)
Layout(u, m, w, L, n) ==
  /\ u \in Seq(Byte) /\ m \in Seq(Byte)
  /\ Len(m) \in Nat \ {0} /\ m[Len(m)] # 0
  /\ L \in Nat /\ Aligned(u, m, w, Len(m), L)
  /\ n \in Nat /\ Padded(u, L, n)

(* The decoder's loop r is in front of byte i of the message, or it has    *)
(* taken k bytes of the cabac_zero_words.                                  *)
AtByte(r, u, m, w, i) ==
  /\ r.it = w[i]
  /\ r.out = SubSeq(m, 1, i - 1)
  /\ r.zeroCount = Zeros(u, w[i] - 1)

InPadding(r, m, L, n, k) ==
  /\ r.it = L + k + 1
  /\ Len(r.out) >= Len(m)
  /\ \A j \in 1..Len(r.out) : r.out[j] = IF j <= Len(m) THEN m[j] ELSE 0
  /\ IF k = 3 * n THEN r.zeroCount = 0 ELSE k % 3 # 0 /\ r.zeroCount = k % 3

Position(r, u, m, w, L, n) ==
  \/ \E i \in 1..Len(m) + 1 : AtByte(r, u, m, w, i)
  \/ \E k \in 1..3 * n : InPadding(r, m, L, n, k)

LEMMA LayoutFacts ==
  ASSUME NEW u, NEW m, NEW w, NEW L, NEW n, Layout(u, m, w, L, n)
  PROVE  /\ L \in 1..Len(u) /\ Len(u) = L + 3 * n
         /\ w[1] = 1 /\ w[Len(m) + 1] = L + 1
         /\ Zeros(u, L) = 0
         /\ \A k \in 1..3 * n : u[L + k] = IF k % 3 = 0 THEN 3 ELSE 0
<1>1. L \in 1..Len(u) /\ u[L] = m[Len(m)]
  <2>1. Len(m) \in 1..Len(m)
    BY DEF Layout
  <2>2. QED
    BY <2>1, AlignedEnd DEF Layout
<1>2. QED
  BY <1>1 DEF Layout, Aligned, Padded, Zeros

(* One more byte of the message, or one more zero byte behind it. *)
LEMMA AppendByte ==
  ASSUME NEW m \in Seq(Byte), NEW i \in 1..Len(m)
  PROVE  Append(SubSeq(m, 1, i - 1), m[i]) = SubSeq(m, 1, i)
<1>1. SubSeq(m, 1, i) = SubSeq(m, 1, i - 1) \o <<m[i]>>
  BY SubSeqRecursiveSecond
<1>2. SubSeq(m, 1, i - 1) \in Seq(Byte) /\ m[i] \in Byte
  OBVIOUS
<1>3. QED
  BY <1>1, <1>2

LEMMA AppendZero ==
  ASSUME NEW m \in Seq(Byte), NEW o \in Seq(Byte), Len(o) >= Len(m),
         \A j \in 1..Len(o) : o[j] = IF j <= Len(m) THEN m[j] ELSE 0
  PROVE  /\ Len(Append(o, 0)) >= Len(m)
         /\ \A j \in 1..Len(Append(o, 0)) :
              Append(o, 0)[j] = IF j <= Len(m) THEN m[j] ELSE 0
<1> DEFINE p == Append(o, 0)
<1>1. Len(p) = Len(o) + 1 /\ p[Len(o) + 1] = 0 /\ \A j \in 1..Len(o) : p[j] = o[j]
  BY BytesAreNumbers, AppendProperties
<1> HIDE DEF p
<1>2. Len(p) >= Len(m)
  BY <1>1
<1>3. ASSUME NEW j \in 1..Len(p)
      PROVE  p[j] = IF j <= Len(m) THEN m[j] ELSE 0
  <2>1. j \in 1..Len(o) \/ (j = Len(o) + 1 /\ ~ (j <= Len(m)))
    BY <1>1
  <2>2. QED
    BY <1>1, <2>1
<1>4. QED
  BY <1>2, <1>3 DEF p

LEMMA ReadPlain ==
  ASSUME NEW u, NEW m, NEW w, NEW L, NEW n, Layout(u, m, w, L, n),
         NEW r \in ReadState, Position(r, u, m, w, L, n),
         r.it <= Len(u), ~ (r.zeroCount = 2 /\ u[r.it] = 3),
         NEW s, s.it = r.it + 1, s.out = Append(r.out, u[r.it]),
         s.zeroCount = ZerosAfter(r.zeroCount, u[r.it])
  PROVE  /\ ~ (r.zeroCount >= 2 /\ u[r.it] < 3)
         /\ Position(s, u, m, w, L, n)
<1>1. /\ L \in 1..Len(u) /\ Len(u) = L + 3 * n
      /\ w[Len(m) + 1] = L + 1 /\ Zeros(u, L) = 0
      /\ \A k \in 1..3 * n : u[L + k] = IF k % 3 = 0 THEN 3 ELSE 0
  BY LayoutFacts
<1>2. n \in Nat /\ u \in Seq(Byte) /\ m \in Seq(Byte) /\ Len(m) \in Nat \ {0} /\ L \in Nat
  BY DEF Layout
<1>3. s.it = r.it + 1 /\ s.out = Append(r.out, u[r.it])
      /\ s.zeroCount = ZerosAfter(r.zeroCount, u[r.it])
  OBVIOUS
<1>4. ASSUME NEW i \in 1..Len(m), AtByte(r, u, m, w, i)
      PROVE  /\ ~ (r.zeroCount >= 2 /\ u[r.it] < 3)
             /\ AtByte(s, u, m, w, i + 1)
  <2>1. r.it = w[i] /\ r.zeroCount = Zeros(u, r.it - 1) /\ r.out = SubSeq(m, 1, i - 1)
    BY <1>4 DEF AtByte
  <2>2. /\ r.it \in 1..L
        /\ ~ (r.zeroCount >= 2 /\ u[r.it] < 3) /\ u[r.it] = m[i] /\ w[i + 1] = r.it + 1
        /\ ZerosAfter(r.zeroCount, m[i]) = Zeros(u, r.it)
    BY SMTT(20), <1>2, <2>1, ReadAtom DEF Layout
  <2>3. s.out = SubSeq(m, 1, i)
    BY <1>2, <1>3, <2>1, <2>2, AppendByte
  <2>4. w[i + 1] - 1 = r.it /\ (i + 1) - 1 = i
    BY <2>2
  <2>5. QED
    BY <1>3, <2>2, <2>3, <2>4 DEF AtByte
<1>5. ASSUME AtByte(r, u, m, w, Len(m) + 1)
      PROVE  /\ ~ (r.zeroCount >= 2 /\ u[r.it] < 3)
             /\ 1 \in 1..3 * n /\ InPadding(s, m, L, n, 1)
  <2>1. r.it = L + 1 /\ r.zeroCount = 0 /\ r.out = m
    <3>1. SubSeq(m, 1, (Len(m) + 1) - 1) = m
      BY <1>2, SubSeqFull
    <3>2. (L + 1) - 1 = L
      BY <1>2
    <3>3. QED
      BY <1>1, <1>5, <3>1, <3>2 DEF AtByte
  <2>2. n >= 1
    BY <1>1, <1>2, <2>1
  <2>3. 1 \in 1..3 * n /\ u[L + 1] = 0 /\ 1 # 3 * n
    BY <1>1, <1>2, <2>2
  <2>4. s.zeroCount = 1 /\ s.out = Append(m, 0) /\ s.it = L + 1 + 1
    BY <1>3, <2>1, <2>3 DEF ZerosAfter
  <2>5. /\ Len(s.out) >= Len(m)
        /\ \A j \in 1..Len(s.out) : s.out[j] = IF j <= Len(m) THEN m[j] ELSE 0
    <3>1. m \in Seq(Byte) /\ Len(m) >= Len(m)
          /\ \A j \in 1..Len(m) : m[j] = IF j <= Len(m) THEN m[j] ELSE 0
      BY <1>2
    <3>2. QED
      BY <2>4, <3>1, AppendZero
  <2>6. QED
    BY <1>2, <2>1, <2>3, <2>4, <2>5 DEF InPadding
<1>6. ASSUME NEW k \in 1..3 * n, InPadding(r, m, L, n, k)
      PROVE  /\ ~ (r.zeroCount >= 2 /\ u[r.it] < 3)
             /\ k + 1 \in 1..3 * n /\ InPadding(s, m, L, n, k + 1)
  <2>1. r.it = L + k + 1 /\ k < 3 * n /\ k + 1 \in 1..3 * n
    BY <1>1, <1>2, <1>6 DEF InPadding
  <2>2. u[r.it] = IF (k + 1) % 3 = 0 THEN 3 ELSE 0
    <3>1. L + k + 1 = L + (k + 1)
      BY <1>2
    <3>2. QED
      BY <1>1, <2>1, <3>1
  <2>3. k % 3 # 0 /\ r.zeroCount = k % 3
    BY <1>6, <2>1 DEF InPadding
  <2>4. k % 3 = 1 /\ (k + 1) % 3 = 2 /\ k + 1 # 3 * n
    <3>1. k \in Int /\ k % 3 \in 0..2
      BY <1>2
    <3>2. k % 3 # 2
      <4>1. k % 3 = 2 => (k + 1) % 3 = 0
        BY <3>1, Z3
      <4>2. QED
        BY <2>2, <2>3, <4>1
    <3>3. k % 3 = 1
      BY <2>3, <3>1, <3>2
    <3>4. (k + 1) % 3 = 2
      BY <3>1, <3>3, Z3
    <3>5. QED
      BY <1>2, <3>3, <3>4, Z3T(20)
  <2>5. u[r.it] = 0 /\ r.zeroCount = 1
    BY <2>2, <2>3, <2>4
  <2>6. s.zeroCount = 2 /\ s.out = Append(r.out, 0) /\ s.it = L + (k + 1) + 1
    BY <1>2, <1>3, <2>1, <2>5 DEF ZerosAfter
  <2>7. /\ Len(s.out) >= Len(m)
        /\ \A j \in 1..Len(s.out) : s.out[j] = IF j <= Len(m) THEN m[j] ELSE 0
    <3>1. r.out \in Seq(Byte) /\ Len(r.out) >= Len(m)
          /\ \A j \in 1..Len(r.out) : r.out[j] = IF j <= Len(m) THEN m[j] ELSE 0
      BY <1>6 DEF InPadding, ReadState
    <3>2. QED
      BY <1>2, <2>6, <3>1, AppendZero
  <2>8. QED
    BY SMTT(20), <2>1, <2>4, <2>5, <2>6, <2>7 DEF InPadding
<1>7. CASE \E i \in 1..Len(m) + 1 : AtByte(r, u, m, w, i)
  <2>1. PICK i \in 1..Len(m) + 1 : AtByte(r, u, m, w, i)
    BY <1>7
  <2>2. CASE i = Len(m) + 1
    BY <1>5, <2>1, <2>2 DEF Position
  <2>3. CASE i # Len(m) + 1
    <3>1. i \in 1..Len(m) /\ i + 1 \in 1..Len(m) + 1
      BY <1>2, <2>3
    <3>2. QED
      BY <1>4, <2>1, <3>1 DEF Position
  <2>4. QED
    BY <2>2, <2>3
<1>8. CASE \E k \in 1..3 * n : InPadding(r, m, L, n, k)
  BY <1>6, <1>8 DEF Position
<1>9. QED
  BY <1>7, <1>8 DEF Position

LEMMA ReadEscape ==
  ASSUME NEW u, NEW m, NEW w, NEW L, NEW n, Layout(u, m, w, L, n),
         NEW r \in ReadState, Position(r, u, m, w, L, n),
         r.it <= Len(u), r.zeroCount = 2, u[r.it] = 3
  PROVE  /\ r.it < Len(u) =>
              /\ ~ (u[r.it + 1] > 3)
              /\ \A s : /\ s.it = r.it + 2 /\ s.out = Append(r.out, u[r.it + 1])
                        /\ s.zeroCount = ZerosAfter(0, u[r.it + 1])
                        => Position(s, u, m, w, L, n)
         /\ r.it = Len(u) =>
              \A s : s.it = r.it + 1 /\ s.out = r.out /\ s.zeroCount = 0
                     => Position(s, u, m, w, L, n)
<1>1. /\ L \in 1..Len(u) /\ Len(u) = L + 3 * n
      /\ w[Len(m) + 1] = L + 1 /\ Zeros(u, L) = 0
      /\ \A k \in 1..3 * n : u[L + k] = IF k % 3 = 0 THEN 3 ELSE 0
  BY LayoutFacts
<1>2. n \in Nat /\ u \in Seq(Byte) /\ m \in Seq(Byte) /\ Len(m) \in Nat \ {0} /\ L \in Nat
  BY DEF Layout
<1>3. ASSUME NEW i \in 1..Len(m), AtByte(r, u, m, w, i)
      PROVE  /\ r.it < Len(u) /\ ~ (u[r.it + 1] > 3)
             /\ \A s : /\ s.it = r.it + 2 /\ s.out = Append(r.out, u[r.it + 1])
                       /\ s.zeroCount = ZerosAfter(0, u[r.it + 1])
                       => AtByte(s, u, m, w, i + 1)
  <2>1. r.it = w[i] /\ r.zeroCount = Zeros(u, r.it - 1) /\ r.out = SubSeq(m, 1, i - 1)
    BY <1>3 DEF AtByte
  <2>2. /\ r.it \in 1..L
        /\ r.it < Len(u) /\ u[r.it + 1] = m[i] /\ m[i] <= 3 /\ w[i + 1] = r.it + 2
        /\ ZerosAfter(0, m[i]) = Zeros(u, r.it + 1)
    BY SMTT(20), <1>2, <2>1, ReadAtom DEF Layout
  <2>3. Append(r.out, u[r.it + 1]) = SubSeq(m, 1, i)
    BY <1>2, <2>1, <2>2, AppendByte
  <2>4. w[i + 1] - 1 = r.it + 1 /\ (i + 1) - 1 = i
    BY <2>2
  <2>5. m[i] \in Nat
    BY <1>2, BytesAreNumbers
  <2>6. QED
    BY <2>2, <2>3, <2>4, <2>5 DEF AtByte
<1>4. ~ AtByte(r, u, m, w, Len(m) + 1)
  <2>1. (L + 1) - 1 = L
    BY <1>2
  <2>2. QED
    BY <1>1, <2>1 DEF AtByte
<1>5. ASSUME NEW k \in 1..3 * n, InPadding(r, m, L, n, k)
      PROVE  /\ r.it = L + k + 1 /\ k < 3 * n /\ k % 3 = 2
             /\ r.out \in Seq(Byte) /\ Len(r.out) >= Len(m)
             /\ \A j \in 1..Len(r.out) : r.out[j] = IF j <= Len(m) THEN m[j] ELSE 0
  <2>1. r.it = L + k + 1 /\ k < 3 * n
    BY <1>1, <1>2, <1>5 DEF InPadding
  <2>2. k % 3 = 2
    BY <1>5, <2>1 DEF InPadding
  <2>3. QED
    BY <1>5, <2>1, <2>2 DEF InPadding, ReadState
<1>6. ASSUME NEW k \in 1..3 * n, InPadding(r, m, L, n, k), r.it < Len(u)
      PROVE  /\ ~ (u[r.it + 1] > 3)
             /\ k + 2 \in 1..3 * n
             /\ \A s : /\ s.it = r.it + 2 /\ s.out = Append(r.out, u[r.it + 1])
                       /\ s.zeroCount = ZerosAfter(0, u[r.it + 1])
                       => InPadding(s, m, L, n, k + 2)
  <2>1. r.it = L + k + 1 /\ k % 3 = 2
    BY <1>5, <1>6
  <2>2. k + 2 \in 1..3 * n /\ r.it + 1 = L + (k + 2) /\ r.it + 2 = L + (k + 2) + 1
    BY <1>1, <1>2, <1>6, <2>1
  <2>3. (k + 2) % 3 = 1
    BY <2>1, Z3
  <2>4. u[r.it + 1] = 0
    BY <1>1, <2>2, <2>3
  <2>5. k + 2 # 3 * n
    BY <1>2, <2>3, Z3
  <2>6. ZerosAfter(0, 0) = 1
    BY DEF ZerosAfter
  <2>7. /\ Len(Append(r.out, 0)) >= Len(m)
        /\ \A j \in 1..Len(Append(r.out, 0)) :
             Append(r.out, 0)[j] = IF j <= Len(m) THEN m[j] ELSE 0
    BY <1>2, <1>5, <1>6, AppendZero
  <2>8. ASSUME NEW s, s.it = r.it + 2, s.out = Append(r.out, u[r.it + 1]),
               s.zeroCount = ZerosAfter(0, u[r.it + 1])
        PROVE  InPadding(s, m, L, n, k + 2)
    <3>1. s.out = Append(r.out, 0) /\ s.zeroCount = 1 /\ s.it = L + (k + 2) + 1
      BY <2>2, <2>4, <2>6, <2>8
    <3>2. QED
      BY <2>3, <2>5, <2>7, <3>1 DEF InPadding
  <2>9. QED
    BY <2>2, <2>4, <2>8
<1>7. ASSUME NEW k \in 1..3 * n, InPadding(r, m, L, n, k), r.it = Len(u),
             NEW s, s.it = r.it + 1, s.out = r.out, s.zeroCount = 0
      PROVE  3 * n \in 1..3 * n /\ InPadding(s, m, L, n, 3 * n)
  <2>1. 3 * n \in 1..3 * n /\ s.it = L + 3 * n + 1
    BY <1>1, <1>2, <1>7
  <2>2. QED
    BY <1>5, <1>7, <2>1 DEF InPadding
<1>8. CASE \E i \in 1..Len(m) + 1 : AtByte(r, u, m, w, i)
  <2>1. PICK i \in 1..Len(m) + 1 : AtByte(r, u, m, w, i)
    BY <1>8
  <2>2. i \in 1..Len(m) /\ i + 1 \in 1..Len(m) + 1
    BY <1>2, <1>4, <2>1
  <2>3. r.it # Len(u)
    BY <1>3, <2>1, <2>2
  <2>4. QED
    BY <1>3, <2>1, <2>2, <2>3 DEF Position
<1>9. CASE \E k \in 1..3 * n : InPadding(r, m, L, n, k)
  BY <1>6, <1>7, <1>9 DEF Position
<1>10. QED
  BY <1>8, <1>9 DEF Position

LEMMA ReadToEnd ==
  ASSUME NEW u, NEW m, NEW w, NEW L, NEW n, Layout(u, m, w, L, n),
         NEW r \in ReadState, Position(r, u, m, w, L, n), r.it > Len(u)
  PROVE  /\ r.zeroCount = 0
         /\ n = 0 => r.out = m
         /\ SubSeq(r.out, 1, LastNonZero(r.out)) = m
<1>1. /\ L \in 1..Len(u) /\ Len(u) = L + 3 * n
      /\ w[Len(m) + 1] = L + 1 /\ Zeros(u, L) = 0
  BY LayoutFacts
<1>2. /\ n \in Nat /\ u \in Seq(Byte) /\ m \in Seq(Byte) /\ Len(m) \in Nat \ {0} /\ L \in Nat
      /\ m[Len(m)] # 0 /\ \A i \in 1..Len(m) : w[i] <= L
  BY DEF Layout, Aligned
<1>3. /\ r.zeroCount = 0 /\ r.out \in Seq(Byte) /\ Len(r.out) >= Len(m)
      /\ \A j \in 1..Len(r.out) : r.out[j] = IF j <= Len(m) THEN m[j] ELSE 0
      /\ n = 0 => r.out = m
  <2>1. CASE \E i \in 1..Len(m) + 1 : AtByte(r, u, m, w, i)
    <3>1. PICK i \in 1..Len(m) + 1 : AtByte(r, u, m, w, i)
      BY <2>1
    <3>2. i = Len(m) + 1
      <4>1. ASSUME i # Len(m) + 1 PROVE FALSE
        <5>1. i \in 1..Len(m)
          BY <1>2, <4>1
        <5>2. r.it = w[i] /\ w[i] <= L
          BY <1>2, <3>1, <5>1 DEF AtByte
        <5>3. QED
          BY <1>1, <1>2, <5>2 DEF ReadState
      <4>2. QED
        BY <4>1
    <3>3. SubSeq(m, 1, (Len(m) + 1) - 1) = m /\ (L + 1) - 1 = L
      BY <1>2, SubSeqFull
    <3>4. r.zeroCount = 0 /\ r.out = m
      BY <1>1, <3>1, <3>2, <3>3 DEF AtByte
    <3>5. QED
      BY <1>2, <3>4
  <2>2. CASE \E k \in 1..3 * n : InPadding(r, m, L, n, k)
    <3>1. PICK k \in 1..3 * n : InPadding(r, m, L, n, k)
      BY <2>2
    <3>2. k = 3 * n /\ n # 0
      BY <1>1, <1>2, <3>1 DEF InPadding
    <3>3. QED
      BY <3>1, <3>2 DEF InPadding, ReadState
  <2>3. QED
    BY <2>1, <2>2 DEF Position
<1>4. LastNonZero(r.out) = Len(m)
  <2>1. Len(m) \in 1..Len(r.out)
    BY <1>2, <1>3
  <2>2. r.out[Len(m)] # 0 /\ \A k \in Len(m) + 1..Len(r.out) : r.out[k] = 0
    <3>1. r.out[Len(m)] = m[Len(m)]
      BY <1>2, <1>3, <2>1
    <3>2. ASSUME NEW k \in Len(m) + 1..Len(r.out) PROVE r.out[k] = 0
      <4>1. k \in 1..Len(r.out) /\ ~ (k <= Len(m))
        BY <1>2
      <4>2. QED
        BY <1>3, <4>1
    <3>3. QED
      BY <1>2, <3>1, <3>2
  <2>3. QED
    BY <1>3, <2>1, <2>2, LastNonZeroFound
<1>5. SubSeq(r.out, 1, Len(m)) = m
  <2> DEFINE t == SubSeq(r.out, 1, Len(m))
  <2>1. t \in Seq(Byte) /\ Len(t) = Len(m) /\ \A i \in 1..Len(m) : t[i] = r.out[i]
    BY <1>2, <1>3
  <2> HIDE DEF t
  <2>2. \A i \in 1..Len(t) : t[i] = m[i]
    BY <1>2, <1>3, <2>1
  <2>3. t = m
    BY <1>2, <2>1, <2>2, SeqEqual
  <2>4. QED
    BY <2>3 DEF t
<1>6. QED
  BY <1>3, <1>4, <1>5

(* In the reading phase the decoder's loop is at a position of the layout; *)
(* afterwards it has the message.                                          *)
ReaderInv ==
  /\ ~failed
  /\ phase \in {"header", "write", "written"} => read = ReadStart
  /\ phase = "read" =>
       \E w, L, n : /\ Layout(unit, Msg, w, L, n)
                    /\ n > 0 => IsVcl(unit)
                    /\ Position(read, unit, Msg, w, L, n)
  /\ phase \in {"parse", "done"} => read.out = Msg

LEMMA ReaderStarts ==
  ASSUME NEW u, NEW m, NEW w, NEW L, NEW n, Layout(u, m, w, L, n)
  PROVE  Position(ReadStart, u, m, w, L, n)
<1>1. w[1] = 1
  BY LayoutFacts
<1>2. m \in Seq(Byte) /\ 1 \in 1..Len(m) + 1
  BY DEF Layout
<1>3. SubSeq(m, 1, 1 - 1) = << >>
  BY <1>2
<1>4. AtByte(ReadStart, u, m, w, 1)
  BY <1>1, <1>3 DEF AtByte, ReadStart, Zeros
<1>5. QED
  BY <1>2, <1>4 DEF Position

LEMMA ReaderStep ==
  ASSUME TypeOK, Sending, WriterInv, ReaderInv, [Next]_vars, TypeOK', WriterInv'
  PROVE  ReaderInv'
<1>1. Msg \in Seq(Byte) /\ Len(Msg) \in Nat \ {0} /\ Msg[Len(Msg)] # 0
  BY MsgFacts
<1>2. nalu' = nalu => Msg' = Msg
  BY DEF Msg, rbsp
<1>3. ~failed /\ read \in ReadState
  BY DEF ReaderInv, TypeOK
<1>4. CASE WriteHeader \/ WriteByte \/ EndWrite
  BY <1>4 DEF WriteHeader, WriteByte, EndWrite, ReaderInv
<1>5. CASE PadWithCabacZeroWords
  <2>1. /\ phase = "written" /\ phase' = "read" /\ nalu' = nalu
        /\ read' = read /\ failed' = failed
    BY <1>5 DEF PadWithCabacZeroWords
  <2>2. PICK w, L, n : /\ Aligned(unit', Msg, w, Len(Msg), L)
                       /\ n \in Nat /\ Padded(unit', L, n)
                       /\ n > 0 => IsVcl(unit')
    BY <1>2, <2>1 DEF WriterInv
  <2>3. Layout(unit', Msg, w, L, n)
    BY <1>1, <2>2 DEF Layout, Aligned, TypeOK
  <2>4. Position(read', unit', Msg, w, L, n)
    BY <2>1, <2>3, ReaderStarts DEF ReaderInv
  <2>5. QED
    BY <1>2, <1>3, <2>1, <2>2, <2>3, <2>4 DEF ReaderInv
<1>6. ASSUME phase = "read"
      PROVE  \E w, L, n : /\ Layout(unit, Msg, w, L, n)
                          /\ n > 0 => IsVcl(unit)
                          /\ Position(read, unit, Msg, w, L, n)
  BY <1>6 DEF ReaderInv
<1>7. CASE ReadByte
  <2>1. /\ phase = "read" /\ phase' = "read" /\ nalu' = nalu /\ unit' = unit
        /\ read.it <= Len(unit) /\ ~ (read.zeroCount = 2 /\ unit[read.it] = 3)
        /\ failed' = (read.zeroCount >= 2 /\ unit[read.it] < 3)
        /\ read'.it = read.it + 1 /\ read'.out = Append(read.out, unit[read.it])
        /\ read'.zeroCount = ZerosAfter(read.zeroCount, unit[read.it])
    BY <1>7 DEF ReadByte, AtEscape
  <2>2. PICK w, L, n : /\ Layout(unit, Msg, w, L, n)
                       /\ n > 0 => IsVcl(unit)
                       /\ Position(read, unit, Msg, w, L, n)
    BY <1>6, <2>1
  <2>3. /\ ~ (read.zeroCount >= 2 /\ unit[read.it] < 3)
        /\ Position(read', unit, Msg, w, L, n)
    BY <1>3, <2>1, <2>2, ReadPlain
  <2>4. QED
    BY <1>2, <2>1, <2>2, <2>3 DEF ReaderInv
<1>8. CASE ReadBehindEscape
  <2>1. /\ phase = "read" /\ phase' = "read" /\ nalu' = nalu /\ unit' = unit
        /\ read.it < Len(unit) /\ read.zeroCount = 2 /\ unit[read.it] = 3
        /\ failed' = (unit[read.it + 1] > 3)
        /\ read'.it = read.it + 2 /\ read'.out = Append(read.out, unit[read.it + 1])
        /\ read'.zeroCount = ZerosAfter(0, unit[read.it + 1])
    BY <1>8 DEF ReadBehindEscape, AtEscape
  <2>2. PICK w, L, n : /\ Layout(unit, Msg, w, L, n)
                       /\ n > 0 => IsVcl(unit)
                       /\ Position(read, unit, Msg, w, L, n)
    BY <1>6, <2>1
  <2>3. read.it <= Len(unit)
    BY <2>1, <1>3 DEF ReadState, TypeOK
  <2>4. /\ ~ (unit[read.it + 1] > 3)
        /\ Position(read', unit, Msg, w, L, n)
    BY <1>3, <2>1, <2>2, <2>3, ReadEscape
  <2>5. QED
    BY <1>2, <2>1, <2>2, <2>4 DEF ReaderInv
<1>9. CASE DropLastEscape
  <2>1. /\ phase = "read" /\ phase' = "read" /\ nalu' = nalu /\ unit' = unit
        /\ read.it = Len(unit) /\ read.zeroCount = 2 /\ unit[read.it] = 3
        /\ failed' = failed
        /\ read'.it = read.it + 1 /\ read'.out = read.out /\ read'.zeroCount = 0
    BY <1>9 DEF DropLastEscape, AtEscape
  <2>2. PICK w, L, n : /\ Layout(unit, Msg, w, L, n)
                       /\ n > 0 => IsVcl(unit)
                       /\ Position(read, unit, Msg, w, L, n)
    BY <1>6, <2>1
  <2>3. read.it <= Len(unit)
    BY <2>1, <1>3 DEF ReadState, TypeOK
  <2>4. Position(read', unit, Msg, w, L, n)
    BY <1>3, <2>1, <2>2, <2>3, ReadEscape
  <2>5. QED
    BY <1>2, <1>3, <2>1, <2>2, <2>4 DEF ReaderInv
<1>10. CASE EndRead
  <2>1. /\ phase = "read" /\ phase' = "parse" /\ nalu' = nalu
        /\ read.it > Len(unit) /\ failed' = (read.zeroCount # 0)
        /\ read' = IF IsVcl(unit)
                   THEN [read EXCEPT !.out = SubSeq(@, 1, LastNonZero(@))]
                   ELSE read
    BY <1>10 DEF EndRead
  <2>2. PICK w, L, n : /\ Layout(unit, Msg, w, L, n)
                       /\ n > 0 => IsVcl(unit)
                       /\ Position(read, unit, Msg, w, L, n)
    BY <1>6, <2>1
  <2>3. /\ read.zeroCount = 0
        /\ n = 0 => read.out = Msg
        /\ SubSeq(read.out, 1, LastNonZero(read.out)) = Msg
    BY <1>3, <2>1, <2>2, ReadToEnd
  <2>4. read'.out = Msg
    <3>1. CASE IsVcl(unit)
      BY <1>3, <2>1, <2>3, <3>1 DEF ReadState
    <3>2. CASE ~IsVcl(unit)
      <4>1. n \in Nat
        BY <2>2 DEF Layout
      <4>2. n = 0
        BY <2>2, <3>2, <4>1
      <4>3. QED
        BY <2>1, <2>3, <3>2, <4>2
    <3>3. QED
      BY <3>1, <3>2
  <2>5. QED
    BY <1>2, <2>1, <2>3, <2>4 DEF ReaderInv
<1>11. CASE ParseEntryPoints
  BY <1>2, <1>11 DEF ParseEntryPoints, ReaderInv
<1>12. CASE UNCHANGED vars
  BY <1>2, <1>12 DEF vars, ReaderInv
<1>13. QED
  BY <1>4, <1>5, <1>7, <1>8, <1>9, <1>10, <1>11, <1>12 DEF Next, Done

LEMMA ReaderInvHolds == Spec => []ReaderInv
<1>1. Init => WriterInv /\ UnitIsLegal /\ ReaderInv
  BY DEF Init, WriterInv, UnitIsLegal, Legal, ReaderInv
<1>2. /\ TypeOK /\ Sending /\ WriterInv /\ UnitIsLegal /\ [Next]_vars
      /\ TypeOK'
      => (WriterInv /\ UnitIsLegal)'
  BY WriterStep
<1>3. /\ TypeOK /\ Sending /\ WriterInv /\ ReaderInv /\ [Next]_vars
      /\ TypeOK' /\ WriterInv'
      => ReaderInv'
  BY ReaderStep
<1>4. QED
  BY <1>1, <1>2, <1>3, TypeCorrect, PTL DEF Spec

(* No assertion of convertPayloadToRBSP fails on a unit that write and     *)
(* cabac_zero_word_padding produced, for every payload and every number    *)
(* of cabac_zero_words.                                                    *)
THEOREM AssertionsHold == Spec => []ReaderAccepts
<1>1. ReaderInv => ReaderAccepts
  BY DEF ReaderInv, ReaderAccepts
<1>2. QED
  BY <1>1, ReaderInvHolds, PTL

(* convertPayloadToRBSP undoes write and the padding: what the decoder     *)
(* parses is what the encoder sent, byte for byte, for every payload.      *)
THEOREM ReaderInvertsWriter == Spec => []PayloadArrives
<1>1. ReaderInv => PayloadArrives
  BY DEF ReaderInv, PayloadArrives, Msg
<1>2. QED
  BY <1>1, ReaderInvHolds, PTL
=============================================================================
