--------------------------- MODULE ByteStreamProofs ---------------------------
(***************************************************************************)
(* Theorems about ByteStream, for any units, of any number and length, and *)
(* any padding: what the start codes separate is what was written, and no  *)
(* byte is counted twice or not at all, although the reader looks ahead    *)
(* and the main loop goes back in the file.                                *)
(*                                                                         *)
(* The inductive invariant says where the reader is in the file.  The file *)
(* is described by a function c: c[k] bytes stand in front of the bytes    *)
(* 000001 of unit k, and c of one more than the last unit is the length.   *)
(* Behind the data of a unit there are only zero bytes up to there.        *)
(***************************************************************************)
EXTENDS ByteStream, SequenceTheorems, TLAPS

LEMMA MaxOfTwo ==
  ASSUME NEW a \in Int, NEW b \in Int
  PROVE  Max({a, b}) = IF a >= b THEN a ELSE b
BY DEF Max

LEMMA MinOfTwo ==
  ASSUME NEW a \in Int, NEW b \in Int
  PROVE  Min({a, b}) = IF a <= b THEN a ELSE b
BY DEF Min

-----------------------------------------------------------------------------
(* The file.                                                               *)

Code3(p) == p + 3 <= Len(file) /\ file[p + 1] = 0 /\ file[p + 2] = 0 /\ file[p + 3] = 1
Code4(p) == p + 4 <= Len(file) /\ file[p + 1] = 0 /\ Code3(p + 1)

ZerosBetween(p, q) == \A j \in p + 1..q : file[j] = 0

DataEnd(c, k) == c[k] + 3 + Len(stream[k].data)

UnitAt(c, k) ==
  /\ Code3(c[k])
  /\ \A j \in 1..Len(stream[k].data) : file[c[k] + 3 + j] = stream[k].data[j]
  /\ DataEnd(c, k) <= c[k + 1]
  /\ ZerosBetween(DataEnd(c, k), c[k + 1])

Layout(c) ==
  /\ c \in [1..written + 1 -> Nat]
  /\ c[written + 1] = Len(file)
  /\ ZerosBetween(0, c[1])
  /\ \A k \in 1..written : UnitAt(c, k)
  /\ written > 0 => DataEnd(c, written) + padding[written] = Len(file)

WriterOK ==
  /\ stream \in Streams
  /\ written \in 0..Len(stream)
  /\ padding \in Seq(Nat) /\ Len(padding) = written
  /\ file \in Seq(Byte)

-----------------------------------------------------------------------------
(* The input.                                                              *)

Position(r) == r.tellg - Len(r.future)

InputOK(r) ==
  /\ r \in [tellg : Nat, future : Seq(Byte), good : BOOLEAN]
  /\ Len(r.future) <= r.tellg /\ r.tellg <= Len(file)
  /\ \A j \in 1..Len(r.future) : r.future[j] = file[Position(r) + j]
  /\ ~r.good => r.tellg = Len(file)

(* Four bytes are there only when they were needed: they are a start code. *)
LittleAhead(r) == Len(r.future) <= 3 \/ (Len(r.future) = 4 /\ Code4(Position(r)))

-----------------------------------------------------------------------------
(* The reader, in each phase.                                              *)

Units == IF stream = << >> THEN 1 ELSE Len(stream)
Counts == [leadingZero : Nat, zeroByte : Nat, startCodePrefix : Nat,
           bytesInNALUnit : Nat, trailingZero : Nat]

(* Only zero bytes stand between p and the unit that is read next.         *)
InFrontOf(c, k, p) == p \in 0..c[k] /\ ZerosBetween(p, c[k])

(* The input failed only in the last unit, and the main loop knows where   *)
(* the start code of a unit begins that is read for the first time.        *)
Located(c) ==
  /\ taken < Units
  /\ InFrontOf(c, taken + 1, begin)
  /\ ~in.good => taken + 1 >= Len(stream)
  /\ taken > 0 /\ ~again => location = c[taken + 1] + 3

InTurn(c) ==
  IF taken = Units THEN ~in.good
  ELSE /\ taken < Units
       /\ in.good
       /\ InFrontOf(c, taken + 1, Position(in))
       /\ LittleAhead(in)
       /\ taken > 0 /\ ~again => in.tellg = c[taken + 1] + 3

InLeading(c) ==
  /\ Located(c)
  /\ InFrontOf(c, taken + 1, Position(in))
  /\ LittleAhead(in)
  /\ nalUnit = << >>
  /\ begin + stats.leadingZero = Position(in)
  /\ stats.zeroByte = 0 /\ stats.startCodePrefix = 0 /\ stats.trailingZero = 0

(* What was read of the unit, and its start code counted.                  *)
HasRead(c) ==
  /\ Located(c) /\ taken < Len(stream)
  /\ stats.startCodePrefix = 3
  /\ begin + stats.leadingZero + stats.zeroByte = c[taken + 1]
  /\ c[taken + 1] + 3 + Len(nalUnit) + stats.trailingZero = Position(in)
  /\ \A j \in 1..Len(nalUnit) : nalUnit[j] = file[c[taken + 1] + 3 + j]
  /\ Len(in.future) <= 3

InPayload(c) ==
  /\ HasRead(c)
  /\ stats.trailingZero = 0
  /\ \/ Len(nalUnit) <= Len(stream[taken + 1].data)
     \/ taken + 1 = Len(stream) /\ padding[taken + 1] < 3

InTrailing(c) ==
  /\ HasRead(c)
  /\ Len(nalUnit) = Len(stream[taken + 1].data)
  /\ Position(in) <= c[taken + 2]
  /\ taken + 1 = Len(stream) => padding[taken + 1] >= 3

InDecode(c) ==
  /\ Located(c)
  /\ UnitsArrive /\ BytesCounted
  /\ IF taken + 1 = Units THEN ~in.good
     ELSE /\ in.good
          /\ InFrontOf(c, taken + 2, Position(in))
          /\ LittleAhead(in)
          /\ in.tellg = c[taken + 2] + 3

Reading(c) ==
  /\ written = Len(stream)
  /\ InputOK(in)
  /\ ~failed
  /\ taken \in Nat /\ begin \in Nat /\ location \in Nat
  /\ nalUnit \in Seq(Byte) /\ stats \in Counts
  /\ again \in BOOLEAN
  /\ phase = "turn"     => InTurn(c)
  /\ phase = "leading"  => InLeading(c)
  /\ phase = "payload"  => InPayload(c)
  /\ phase = "trailing" => InTrailing(c)
  /\ phase = "decode"   => InDecode(c)
  /\ phase = "end"      => taken = Units

Writing ==
  /\ in = Reset(0)
  /\ taken = 0 /\ again = FALSE /\ failed = FALSE
  /\ begin = 0 /\ location = 0 /\ nalUnit = << >> /\ stats = NoStats

IInv ==
  /\ WriterOK
  /\ phase \in {"write", "turn", "leading", "payload", "trailing", "decode", "end"}
  /\ \E c : Layout(c) /\ IF phase = "write" THEN Writing ELSE Reading(c)

-----------------------------------------------------------------------------
(* What looking ahead and skipping do to the input.                        *)

LEMMA InputFacts ==
  ASSUME file \in Seq(Byte), NEW r, InputOK(r)
  PROVE  /\ r.tellg \in Nat /\ r.future \in Seq(Byte) /\ r.good \in BOOLEAN
         /\ Len(r.future) \in Nat /\ Len(file) \in Nat
         /\ Position(r) \in Nat /\ Position(r) + Len(r.future) = r.tellg
         /\ Position(r) <= Len(file)
<1>1. r.tellg \in Nat /\ r.future \in Seq(Byte) /\ r.good \in BOOLEAN
  BY DEF InputOK
<1>2. Len(r.future) \in Nat /\ Len(file) \in Nat
  BY <1>1
<1>3. QED
  BY <1>1, <1>2 DEF InputOK, Position

(* eofBeforeNBytes looks at n bytes, or at all there are.                  *)
LEMMA FetchFacts ==
  ASSUME file \in Seq(Byte), NEW r, InputOK(r), NEW n \in Nat
  PROVE  LET f == Fetch(r, n)
             rest == Len(file) - Position(r)
         IN  /\ InputOK(f)
             /\ Position(f) = Position(r)
             /\ Len(f.future) = IF Len(r.future) >= n THEN Len(r.future)
                                ELSE IF rest < n THEN rest ELSE n
             /\ f.good = (r.good /\ n <= rest)
<1> DEFINE want == Max({0, n - Len(r.future)})
           got  == IF r.good THEN Min({want, Len(file) - r.tellg}) ELSE 0
           f    == Fetch(r, n)
<1>1. /\ r.tellg \in Nat /\ r.future \in Seq(Byte) /\ r.good \in BOOLEAN
      /\ Len(r.future) \in Nat /\ Len(file) \in Nat
      /\ Position(r) \in Nat /\ Position(r) + Len(r.future) = r.tellg
      /\ r.tellg <= Len(file)
  BY InputFacts DEF InputOK
<1>2. want = IF n > Len(r.future) THEN n - Len(r.future) ELSE 0
  BY <1>1, MaxOfTwo
<1>3. got = IF ~r.good THEN 0
            ELSE IF want <= Len(file) - r.tellg THEN want ELSE Len(file) - r.tellg
  <2>1. want \in Int /\ Len(file) - r.tellg \in Int
    BY <1>1, <1>2
  <2> HIDE DEF want
  <2>2. QED
    BY <2>1, MinOfTwo
<1> HIDE DEF want, got
<1>4. got \in Nat /\ r.tellg + got <= Len(file)
  BY Z3T(60), <1>1, <1>2, <1>3
<1> DEFINE more == SubSeq(file, r.tellg + 1, r.tellg + got)
<1>5. f = [tellg |-> r.tellg + got, future |-> r.future \o more, good |-> r.good /\ got = want]
  BY Zenon DEF Fetch, want, got
<1> HIDE DEF f
<1>6. /\ more \in Seq(Byte) /\ Len(more) = got
      /\ \A j \in 1..got : more[j] = file[r.tellg + j]
  BY Z3T(60), <1>1, <1>4
<1> HIDE DEF more
<1>7. /\ r.future \o more \in Seq(Byte)
      /\ Len(r.future \o more) = Len(r.future) + got
      /\ \A j \in 1..Len(r.future) + got :
           (r.future \o more)[j] = IF j <= Len(r.future) THEN r.future[j] ELSE more[j - Len(r.future)]
  BY <1>1, <1>4, <1>6, ConcatProperties, SMTT(60), ZenonT(60)
<1>8. /\ f.tellg = r.tellg + got
      /\ f.future \in Seq(Byte) /\ Len(f.future) = Len(r.future) + got
      /\ f.good = (r.good /\ got = want)
      /\ Position(f) = Position(r)
  BY <1>1, <1>4, <1>5, <1>7 DEF Position
<1>9. ASSUME NEW j \in 1..Len(f.future) PROVE f.future[j] = file[Position(f) + j]
  <2>1. CASE j <= Len(r.future)
    BY <1>1, <1>4, <1>5, <1>7, <1>8, <2>1 DEF InputOK
  <2>2. CASE j > Len(r.future)
    <3>1. f.future[j] = more[j - Len(r.future)] /\ j - Len(r.future) \in 1..got
      BY <1>1, <1>4, <1>5, <1>7, <1>8, <2>2
    <3>2. QED
      BY <1>1, <1>4, <1>6, <1>8, <3>1
  <2>3. QED
    BY <1>1, <1>8, <2>1, <2>2
<1>10. /\ f.tellg <= Len(file)
       /\ ~f.good => f.tellg = Len(file)
       /\ Len(f.future) = IF Len(r.future) >= n THEN Len(r.future)
                          ELSE IF Len(file) - Position(r) < n THEN Len(file) - Position(r) ELSE n
       /\ f.good = (r.good /\ n <= Len(file) - Position(r))
  <2>1. Len(file) - Position(r) = Len(file) - r.tellg + Len(r.future)
    BY <1>1
  <2>2. CASE r.good
    <3> DEFINE rest == Len(file) - r.tellg
    <3>1. rest \in Nat /\ want \in Nat
      BY <1>1, <1>2
    <3>2. got = IF want <= rest THEN want ELSE rest
      BY <1>3, <2>2
    <3>3. got = want <=> n <= rest + Len(r.future)
      BY <1>1, <1>2, <3>1, <3>2
    <3>4. f.good = (n <= Len(file) - Position(r))
      BY <1>8, <2>1, <2>2, <3>3
    <3>5. ~f.good => f.tellg = Len(file)
      <4>1. ASSUME ~f.good PROVE got = rest
        BY <1>8, <2>2, <3>2, <4>1
      <4>2. f.tellg = r.tellg + got
        BY <1>8
      <4>3. QED
        BY <1>1, <4>1, <4>2
    <3>6. Len(f.future) = IF Len(r.future) >= n THEN Len(r.future)
                          ELSE IF rest + Len(r.future) < n THEN rest + Len(r.future) ELSE n
      <4> HIDE DEF rest
      <4>1. PICK a \in Nat : a = Len(r.future)
        BY <1>1
      <4>2. Len(f.future) = a + got /\ want = IF n > a THEN n - a ELSE 0
        BY <1>2, <1>8, <4>1
      <4>3. a + got = IF a >= n THEN a ELSE IF rest + a < n THEN rest + a ELSE n
        BY <3>1, <3>2, <4>2
      <4>4. QED
        BY <4>1, <4>2, <4>3
    <3>7. QED
      BY <1>1, <1>4, <1>8, <2>1, <2>2, <3>4, <3>5, <3>6
  <2>3. CASE ~r.good
    <3>1. r.tellg = Len(file) /\ got = 0
      BY <1>3, <2>3 DEF InputOK
    <3>2. QED
      BY <1>1, <1>2, <1>8, <2>1, <2>3, <3>1
  <2>4. QED
    BY <2>2, <2>3
<1>11. InputOK(f)
  <2>1. f \in [tellg : Nat, future : Seq(Byte), good : BOOLEAN]
    BY <1>1, <1>4, <1>5, <1>7
  <2>2. Len(f.future) <= f.tellg /\ f.tellg <= Len(file)
    BY <1>1, <1>4, <1>8
  <2>3. QED
    BY <1>9, <1>10, <2>1, <2>2 DEF InputOK
<1>12. QED
  BY <1>8, <1>10, <1>11 DEF f

(* peekBytes compares with what is in the file, if enough was looked at or *)
(* there is no more.                                                       *)
Enough(r, n) == Len(r.future) >= n \/ Len(r.future) = Len(file) - Position(r)

LEMMA FirstBytes ==
  ASSUME NEW s \in Seq(Byte)
  PROVE  /\ Len(s) >= 3 => SubSeq(s, 1, 3) = <<s[1], s[2], s[3]>>
         /\ Len(s) >= 4 => SubSeq(s, 1, 4) = <<s[1], s[2], s[3], s[4]>>
<1>1. ASSUME Len(s) >= 3 PROVE SubSeq(s, 1, 3) = <<s[1], s[2], s[3]>>
  <2> DEFINE t == SubSeq(s, 1, 3)  u == <<s[1], s[2], s[3]>>
  <2>1. /\ t \in Seq(Byte) /\ Len(t) = 3
        /\ t[1] = s[1] /\ t[2] = s[2] /\ t[3] = s[3]
    BY <1>1
  <2>2. u \in Seq(Byte) /\ Len(u) = 3 /\ u[1] = s[1] /\ u[2] = s[2] /\ u[3] = s[3]
    BY <1>1
  <2> HIDE DEF t, u
  <2>3. \A i \in 1..Len(t) : t[i] = u[i]
    BY <2>1, <2>2
  <2>4. t = u
    BY <2>1, <2>2, <2>3, SeqEqual
  <2>5. QED
    BY <2>4 DEF t, u
<1>2. ASSUME Len(s) >= 4 PROVE SubSeq(s, 1, 4) = <<s[1], s[2], s[3], s[4]>>
  <2> DEFINE t == SubSeq(s, 1, 4)  u == <<s[1], s[2], s[3], s[4]>>
  <2>1. /\ t \in Seq(Byte) /\ Len(t) = 4
        /\ t[1] = s[1] /\ t[2] = s[2] /\ t[3] = s[3] /\ t[4] = s[4]
    BY <1>2
  <2>2. /\ u \in Seq(Byte) /\ Len(u) = 4
        /\ u[1] = s[1] /\ u[2] = s[2] /\ u[3] = s[3] /\ u[4] = s[4]
    BY <1>2
  <2> HIDE DEF t, u
  <2>3. \A i \in 1..Len(t) : t[i] = u[i]
    BY <2>1, <2>2
  <2>4. t = u
    BY <2>1, <2>2, <2>3, SeqEqual
  <2>5. QED
    BY <2>4 DEF t, u
<1>3. QED
  BY <1>1, <1>2

LEMMA Starts3 ==
  ASSUME file \in Seq(Byte), NEW r, InputOK(r), Enough(r, 3), NEW b
  PROVE  Starts(r, <<0, 0, b>>) <=>
           LET p == Position(r)
           IN  p + 3 <= Len(file) /\ file[p + 1] = 0 /\ file[p + 2] = 0 /\ file[p + 3] = b
<1> DEFINE p == Position(r)
<1>1. PICK a \in Nat : a = Len(r.future)
  BY InputFacts
<1>2. p \in Nat /\ p + a <= Len(file) /\ Len(file) \in Nat /\ r.future \in Seq(Byte)
  BY <1>1, InputFacts DEF InputOK
<1>3. EofBefore(r, 3) <=> a < 3
  BY <1>1 DEF EofBefore
<1>4. a < 3 => p + 3 > Len(file)
  BY <1>1, <1>2 DEF Enough
<1>5. CASE a < 3
  BY <1>2, <1>3, <1>4, <1>5 DEF Starts
<1>6. CASE a >= 3
  <2>1. /\ r.future[1] = file[p + 1] /\ r.future[2] = file[p + 2] /\ r.future[3] = file[p + 3]
    BY <1>1, <1>6 DEF InputOK
  <2>2. SubSeq(r.future, 1, 3) = <<r.future[1], r.future[2], r.future[3]>>
    BY <1>1, <1>2, <1>6, FirstBytes
  <2>3. Starts(r, <<0, 0, b>>) <=> SubSeq(r.future, 1, 3) = <<0, 0, b>>
    BY <1>1, <1>6 DEF Starts, EofBefore
  <2>4. QED
    BY <1>2, <1>6, <2>1, <2>2, <2>3
<1>7. QED
  BY <1>1, <1>5, <1>6

LEMMA Starts4 ==
  ASSUME file \in Seq(Byte), NEW r, InputOK(r), Enough(r, 4)
  PROVE  Starts(r, <<0, 0, 0, 1>>) <=> Code4(Position(r))
<1> DEFINE p == Position(r)
<1>1. PICK a \in Nat : a = Len(r.future)
  BY InputFacts
<1>2. p \in Nat /\ p + a <= Len(file) /\ Len(file) \in Nat /\ r.future \in Seq(Byte)
  BY <1>1, InputFacts DEF InputOK
<1>3. EofBefore(r, 4) <=> a < 4
  BY <1>1 DEF EofBefore
<1>4. a < 4 => p + 4 > Len(file)
  BY <1>1, <1>2 DEF Enough
<1>5. CASE a < 4
  BY <1>2, <1>3, <1>4, <1>5 DEF Starts, Code4
<1>6. CASE a >= 4
  <2>1. /\ r.future[1] = file[p + 1] /\ r.future[2] = file[p + 2]
        /\ r.future[3] = file[p + 3] /\ r.future[4] = file[p + 4]
    BY <1>1, <1>6 DEF InputOK
  <2>2. SubSeq(r.future, 1, 4) = <<r.future[1], r.future[2], r.future[3], r.future[4]>>
    BY <1>1, <1>2, <1>6, FirstBytes
  <2>3. Starts(r, <<0, 0, 0, 1>>) <=> SubSeq(r.future, 1, 4) = <<0, 0, 0, 1>>
    BY <1>1, <1>6 DEF Starts, EofBefore
  <2>4. Code4(p) <=> file[p + 1] = 0 /\ file[p + 2] = 0 /\ file[p + 3] = 0 /\ file[p + 4] = 1
    BY <1>2, <1>6, SMTT(60), ZenonT(60) DEF Code4, Code3
  <2>5. QED
    BY <2>1, <2>2, <2>3, <2>4
<1>7. QED
  BY <1>1, <1>5, <1>6

LEMMA SkipFacts ==
  ASSUME file \in Seq(Byte), NEW r, InputOK(r), NEW n \in Nat, n <= Len(r.future)
  PROVE  /\ InputOK(Skip(r, n))
         /\ Position(Skip(r, n)) = Position(r) + n
         /\ Len(Skip(r, n).future) = Len(r.future) - n
         /\ Skip(r, n).good = r.good
         /\ Skip(r, n).tellg = r.tellg
<1> DEFINE s == Skip(r, n)
<1>1. PICK a \in Nat : a = Len(r.future)
  BY InputFacts
<1>2. /\ r.tellg \in Nat /\ r.future \in Seq(Byte) /\ r.good \in BOOLEAN
      /\ Position(r) \in Nat /\ Position(r) + a = r.tellg
  BY <1>1, InputFacts
<1>3. /\ s.tellg = r.tellg /\ s.future = SubSeq(r.future, n + 1, a) /\ s.good = r.good
      /\ s \in [tellg : Nat, future : {SubSeq(r.future, n + 1, a)}, good : BOOLEAN]
  BY <1>1 DEF Skip, InputOK
<1>4. /\ SubSeq(r.future, n + 1, a) \in Seq(Byte)
      /\ Len(SubSeq(r.future, n + 1, a)) = a - n
      /\ \A j \in 1..a - n : SubSeq(r.future, n + 1, a)[j] = r.future[n + j]
  BY <1>1, <1>2
<1> HIDE DEF s
<1>5. /\ Len(s.future) = a - n /\ s.future \in Seq(Byte)
      /\ s.tellg = r.tellg /\ s.good = r.good
      /\ Position(s) = Position(r) + n
  <2>1. Len(s.future) = a - n /\ s.future \in Seq(Byte)
    BY <1>3, <1>4, ZenonT(60)
  <2>2. PICK q \in Nat, t \in Nat : q = Position(r) /\ t = r.tellg
    BY <1>2, ZenonT(60)
  <2>3. Position(s) = t - (a - n)
    BY <1>3, <2>1, <2>2, ZenonT(60) DEF Position
  <2>4. t - (a - n) = q + n
    <3>1. q + a = t
      BY <1>2, <2>2, ZenonT(60)
    <3> QED
      BY <2>2, <3>1
  <2>5. Position(s) = Position(r) + n
    BY <2>2, <2>3, <2>4, ZenonT(60)
  <2> QED
    BY <1>3, <2>1, <2>5, ZenonT(60)
<1>6. \A j \in 1..a - n : s.future[j] = file[Position(s) + j]
  <2>1. TAKE j \in 1..a - n
  <2>2. s.future[j] = r.future[n + j] /\ n + j \in 1..a
    BY <1>1, <1>3, <1>4
  <2>3. r.future[n + j] = file[Position(r) + n + j]
    BY <1>1, <1>2, <2>2 DEF InputOK
  <2>4. QED
    BY <1>5, <2>2, <2>3
<1>7. InputOK(s)
  <2>1. s \in [tellg : Nat, future : Seq(Byte), good : BOOLEAN]
    BY <1>2, <1>3, <1>4
  <2>2. Len(s.future) <= s.tellg /\ s.tellg <= Len(file)
    BY <1>1, <1>2, <1>5 DEF InputOK
  <2>3. ~s.good => s.tellg = Len(file)
    BY <1>5 DEF InputOK
  <2>4. QED
    BY <1>5, <1>6, <2>1, <2>2, <2>3 DEF InputOK
<1>8. QED
  BY <1>1, <1>5, <1>7 DEF s

(* The loops over zero bytes look at three bytes or at four: enough to     *)
(* tell both start codes, and never four when a start code of three bytes  *)
(* is there.                                                               *)
LEMMA LookFacts ==
  ASSUME file \in Seq(Byte), NEW r, InputOK(r), LittleAhead(r)
  PROVE  LET l == Look(r)
             p == Position(r)
         IN  /\ InputOK(l) /\ Position(l) = p
             /\ Starts(l, <<0, 0, 1>>) <=> Code3(p)
             /\ AtStartCode(l) <=> Code3(p) \/ Code4(p)
             /\ HasByte(l) <=> p < Len(file)
             /\ HasByte(l) => NextByte(l) = file[p + 1]
             /\ Len(l.future) <= 4
             /\ Code3(p) => Len(l.future) = 3
             /\ Code4(p) => Len(l.future) = 4
             /\ Code3(p) \/ Code4(p) => l.good = r.good
             /\ ~HasByte(l) => ~l.good
             /\ ~l.good => ~r.good \/ (p + 4 > Len(file) /\ ~Code3(p))
<1> DEFINE l == Look(r)
           p == Position(r)
           f == Fetch(r, 3)
           g == Fetch(f, 4)
<1>1. PICK a \in Nat : a = Len(r.future)
  BY InputFacts
<1>2. PICK e \in Nat : e = Len(file)
  OBVIOUS
<1>3. p \in Nat /\ p + a <= e /\ (~r.good => p + a = e)
  BY <1>1, <1>2, InputFacts DEF InputOK
<1>4. PICK b \in Nat : b = Len(f.future)
  BY FetchFacts, InputFacts
<1>5. /\ InputOK(f) /\ Position(f) = p
      /\ b = IF a >= 3 THEN a ELSE IF e - p < 3 THEN e - p ELSE 3
      /\ f.good = (r.good /\ 3 <= e - p)
  BY <1>1, <1>2, <1>4, FetchFacts
<1>6. PICK d \in Nat : d = Len(g.future)
  BY <1>5, FetchFacts, InputFacts
<1>7. /\ InputOK(g) /\ Position(g) = p
      /\ d = IF b >= 4 THEN b ELSE IF e - p < 4 THEN e - p ELSE 4
      /\ g.good = (f.good /\ 4 <= e - p)
  BY <1>2, <1>4, <1>5, <1>6, FetchFacts
<1> HIDE DEF f, g, p
<1>8. Code3(p) => p + 3 <= e /\ file[p + 3] = 1
  BY <1>2 DEF Code3
<1>9. Code4(p) => p + 4 <= e /\ file[p + 1] = 0 /\ file[p + 3] = 0
  BY <1>2, <1>3 DEF Code4, Code3
<1>10. a <= 3 \/ (a = 4 /\ Code4(p))
  BY <1>1 DEF LittleAhead, p
<1>11. Starts(f, <<0, 0, 1>>) <=> Code3(p)
  <2>1. Enough(f, 3)
    BY <1>2, <1>4, <1>5 DEF Enough
  <2>2. QED
    BY <1>5, <2>1, Starts3 DEF Code3
<1>12. ASSUME NEW r0, r0 \in {f, g}
       PROVE  /\ HasByte(r0) <=> Len(r0.future) > 0
              /\ HasByte(r0) => NextByte(r0) = file[p + 1]
  <2>1. InputOK(r0) /\ Position(r0) = p
    BY <1>5, <1>7, <1>12
  <2>2. r0.future \in Seq(Byte)
    BY <2>1 DEF InputOK
  <2>3. HasByte(r0) <=> Len(r0.future) > 0
    BY <2>2 DEF HasByte
  <2>4. ASSUME Len(r0.future) > 0 PROVE Head(r0.future) = file[p + 1]
    <3>1. Head(r0.future) = r0.future[1] /\ 1 \in 1..Len(r0.future)
      BY <2>2, <2>4
    <3>2. QED
      BY <2>1, <3>1 DEF InputOK
  <2>5. QED
    BY <2>3, <2>4 DEF NextByte
<1> DEFINE free == e - p
<1>13. free \in Int /\ (3 <= e - p <=> p + 3 <= e) /\ (4 <= e - p <=> p + 4 <= e)
  BY <1>3
<1>14. r.good \in BOOLEAN /\ f.good \in BOOLEAN /\ g.good \in BOOLEAN
  BY <1>5, <1>7 DEF InputOK
<1>15. /\ f.good <=> r.good /\ p + 3 <= e
       /\ g.good <=> r.good /\ p + 4 <= e
  <2>1. f.good <=> r.good /\ p + 3 <= e
    BY <1>5, <1>13, <1>14
  <2>2. g.good <=> f.good /\ p + 4 <= e
    BY <1>7, <1>13, <1>14
  <2>3. p + 4 <= e => p + 3 <= e
    BY <1>3
  <2>4. QED
    BY <2>1, <2>2, <2>3, <1>14
<1>16. CASE Code3(p)
  <2>1. l = f
    BY <1>11, <1>16 DEF Look, f
  <2>2. b = 3
    BY <1>3, <1>5, <1>8, <1>9, <1>10, <1>16
  <2>3. f.good = r.good
    BY <1>8, <1>14, <1>15, <1>16
  <2>4. p < e
    BY <1>3, <1>8, <1>16
  <2>5. HasByte(f)
    <3>1. Len(f.future) > 0
      BY <1>4, <2>2
    <3>2. QED
      BY <1>12, <3>1
  <2>6. ~Code4(p)
    BY <1>8, <1>9, <1>16
  <2>7. NextByte(f) = file[p + 1]
    BY <1>12, <2>5
  <2>8. AtStartCode(f) /\ Starts(f, <<0, 0, 1>>)
    BY <1>11, <1>16 DEF AtStartCode
  <2>9. InputOK(f) /\ Position(f) = p /\ Len(f.future) = 3
    BY <1>4, <1>5, <2>2
  <2>10. ~f.good => ~r.good
    BY <2>3
  <2> HIDE DEF l
  <2>11. QED
    BY <1>2, <1>16, <2>1, <2>3, <2>4, <2>5, <2>6, <2>7, <2>8, <2>9, <2>10
    DEF l, p
<1>17. CASE ~Code3(p)
  <2>1. l = g
    BY <1>11, <1>17 DEF Look, f, g
  <2>2. d = IF e - p < 4 THEN e - p ELSE 4
    BY <1>3, <1>5, <1>7, <1>9, <1>10
  <2>3. Enough(g, 3) /\ Enough(g, 4)
    BY <1>2, <1>3, <1>6, <1>7, <2>2 DEF Enough
  <2>4. /\ Starts(g, <<0, 0, 1>>) <=> Code3(p)
        /\ Starts(g, <<0, 0, 0, 1>>) <=> Code4(p)
    BY <1>7, <2>3, Starts3, Starts4 DEF Code3
  <2>5. d > 0 <=> p < e
    BY <1>3, <2>2
  <2>6. HasByte(g) <=> p < e
    BY <1>6, <1>12, <2>5
  <2>7. Code4(p) => d = 4
    BY <1>3, <1>9, <2>2
  <2>8. Code4(p) => g.good = r.good
    BY <1>9, <1>14, <1>15
  <2>9. ~(p < e) => ~(p + 4 <= e)
    BY <1>3
  <2>10. ~(p + 4 <= e) => p + 4 > e
    BY <1>3
  <2>11. d <= 4
    BY <1>3, <2>2
  <2>12. ~HasByte(g) => ~g.good
    BY <1>15, <2>6, <2>9
  <2>13. ~g.good => ~r.good \/ p + 4 > e
    BY <1>15, <2>10
  <2>14. QED
    BY <1>2, <1>6, <1>7, <1>12, <1>17, <2>1, <2>4, <2>6, <2>7, <2>8, <2>11, <2>12, <2>13
    DEF AtStartCode, p
<1>18. QED
  BY <1>16, <1>17 DEF l, p

-----------------------------------------------------------------------------
(* What is in the file.                                                    *)

(* In front of a unit, the start code is seen where it is and not before.  *)
LEMMA CodeInFront ==
  ASSUME file \in Seq(Byte), NEW c, NEW k, c[k] \in Nat, NEW p \in Nat, InFrontOf(c, k, p)
  PROVE  /\ Code3(c[k]) => (Code3(p) <=> p = c[k]) /\ (Code4(p) <=> p + 1 = c[k])
         /\ c[k] = Len(file) => ~Code3(p) /\ ~Code4(p)
<1>1. PICK e \in Nat : e = Len(file)
  OBVIOUS
<1>2. PICK q \in Nat : q = c[k]
  OBVIOUS
<1>3. p <= q /\ \A j \in p + 1..q : file[j] = 0
  BY <1>2 DEF InFrontOf, ZerosBetween
<1>4. ASSUME Code3(q) PROVE (Code3(p) <=> p = q) /\ (Code4(p) <=> p + 1 = q)
  <2>1. file[q + 1] = 0 /\ file[q + 2] = 0 /\ file[q + 3] = 1 /\ q + 3 <= e
    BY <1>1, <1>4 DEF Code3
  <2>2. ASSUME NEW o \in Nat, p <= o, Code3(o), o <= q PROVE o = q
    <3>1. file[o + 3] = 1
      BY <2>2 DEF Code3
    <3>2. CASE o + 3 <= q
      BY <1>3, <2>2, <3>1, <3>2
    <3>3. CASE o + 2 = q
      BY <2>1, <3>1, <3>3
    <3>4. CASE o + 1 = q
      BY <2>1, <3>1, <3>4
    <3>5. QED
      BY <2>2, <3>2, <3>3, <3>4
  <2>3. Code3(p) <=> p = q
    BY <1>3, <1>4, <2>2
  <2>4. ASSUME Code4(p) PROVE p + 1 = q
    <3>1. p # q
      BY <2>1, <2>4 DEF Code4, Code3
    <3>2. p + 1 <= q /\ Code3(p + 1)
      BY <1>3, <2>4, <3>1 DEF Code4
    <3>3. QED
      BY <2>2, <3>2
  <2>5. ASSUME p + 1 = q PROVE Code4(p)
    BY <1>1, <1>3, <1>4, <2>1, <2>5 DEF Code4
  <2>6. QED
    BY <2>3, <2>4, <2>5
<1>5. ASSUME q = e PROVE ~Code3(p) /\ ~Code4(p)
  BY <1>1, <1>3, <1>5 DEF Code3, Code4
<1>6. QED
  BY <1>1, <1>2, <1>4, <1>5

(* One unit in the file, and what follows it.                              *)
LEMMA UnitFacts ==
  ASSUME WriterOK, NEW c, Layout(c), written = Len(stream), NEW k \in 1..Len(stream)
  PROVE  /\ c[k] \in Nat /\ c[k + 1] \in Nat /\ Len(file) \in Nat
         /\ UnitAt(c, k)
         /\ stream[k].data \in Seq(Byte) /\ Len(stream[k].data) \in Nat
         /\ Legal(stream[k].data)
         /\ stream[k].data # << >> => EndsInNonZero(stream[k].data)
         /\ padding[k] \in Nat
         /\ c[k] + 3 <= DataEnd(c, k) /\ DataEnd(c, k) \in Nat
         /\ c[k + 1] <= Len(file)
         /\ IF k = Len(stream)
            THEN c[k + 1] = Len(file) /\ DataEnd(c, k) + padding[k] = Len(file)
            ELSE Code3(c[k + 1])
<1>1. stream \in Seq(Unit) /\ Len(stream) \in Nat /\ k \in Nat /\ k <= Len(stream)
  BY StreamsAssumption DEF WriterOK
<1>2. stream[k] \in Unit /\ k \in DOMAIN stream
  BY <1>1
<1>3. /\ stream[k].data \in Seq(Byte)
      /\ Legal(stream[k].data)
      /\ stream[k].data # << >> => EndsInNonZero(stream[k].data)
  BY <1>2, StreamsAssumption DEF Unit, WriterOK
<1>4. Len(stream[k].data) \in Nat
  BY <1>3
<1>5. c[k] \in Nat /\ c[k + 1] \in Nat /\ Len(file) \in Nat
  <2>1. k \in 1..written + 1 /\ k + 1 \in 1..written + 1
    BY <1>1
  <2>2. c \in [1..written + 1 -> Nat] /\ file \in Seq(Byte)
    BY DEF Layout, WriterOK
  <2>3. QED
    BY <2>1, <2>2
<1>6. UnitAt(c, k)
  BY DEF Layout
<1>7. padding[k] \in Nat
  BY <1>1 DEF WriterOK
<1>8. DataEnd(c, k) \in Nat /\ c[k] + 3 <= DataEnd(c, k)
  BY <1>4, <1>5 DEF DataEnd
<1>9. CASE k = Len(stream)
  <2>1. c[k + 1] = Len(file) /\ DataEnd(c, k) + padding[k] = Len(file)
    BY <1>1, <1>9 DEF Layout
  <2>2. QED
    BY <1>3, <1>4, <1>5, <1>6, <1>7, <1>8, <1>9, <2>1
<1>10. CASE k # Len(stream)
  <2>1. k + 1 \in 1..written
    BY <1>1, <1>10
  <2>2. UnitAt(c, k + 1)
    BY <2>1 DEF Layout
  <2>3. Code3(c[k + 1])
    BY <2>2 DEF UnitAt
  <2>4. c[k + 1] <= Len(file)
    BY <1>5, <2>3 DEF Code3
  <2>5. QED
    BY <1>3, <1>4, <1>5, <1>6, <1>7, <1>8, <1>10, <2>3, <2>4
<1>11. QED
  BY <1>9, <1>10

(* The unit that is read, or the end of a file without units.              *)
LEMMA HereFacts ==
  ASSUME WriterOK, NEW c, Layout(c), written = Len(stream), taken \in Nat, taken < Units
  PROVE  /\ c[taken + 1] \in Nat /\ c[taken + 1] <= Len(file) /\ Len(file) \in Nat
         /\ IF stream = << >> THEN taken = 0 /\ c[taken + 1] = Len(file)
            ELSE taken + 1 \in 1..Len(stream) /\ Code3(c[taken + 1])
<1>1. stream \in Seq(Unit) /\ Len(stream) \in Nat /\ Len(file) \in Nat
  BY StreamsAssumption DEF WriterOK
<1>2. CASE stream = << >>
  <2>1. taken = 0 /\ written = 0
    BY <1>2 DEF Units
  <2>2. c[1] \in Nat /\ c[1] = Len(file)
    BY <1>1, <2>1 DEF Layout
  <2>3. QED
    BY <1>1, <1>2, <2>1, <2>2
<1>3. CASE stream # << >>
  <2>1. taken + 1 \in 1..Len(stream)
    BY <1>1, <1>3 DEF Units
  <2>2. c[taken + 1] \in Nat /\ UnitAt(c, taken + 1)
    BY <2>1, UnitFacts
  <2>3. Code3(c[taken + 1])
    BY <2>2 DEF UnitAt
  <2>4. c[taken + 1] <= Len(file)
    BY <1>1, <2>2, <2>3 DEF Code3
  <2>5. QED
    BY <1>1, <1>3, <2>1, <2>2, <2>3, <2>4
<1>4. QED
  BY <1>2, <1>3

(* The three bytes behind p end the unit.                                  *)
EndsAt(p) == p + 3 <= Len(file) /\ file[p + 1] = 0 /\ file[p + 2] = 0 /\ file[p + 3] \in 0..2

LEMMA EndsUnitFacts ==
  ASSUME file \in Seq(Byte), NEW r, InputOK(r)
  PROVE  LET f == Fetch(r, 3)
             p == Position(r)
         IN  /\ InputOK(f) /\ Position(f) = p
             /\ EndsUnit(f) <=> EndsAt(p)
             /\ HasByte(f) <=> p < Len(file)
             /\ HasByte(f) => NextByte(f) = file[p + 1]
             /\ Len(r.future) <= 3 => Len(f.future) <= 3
             /\ ~HasByte(f) => ~f.good
             /\ ~f.good => ~r.good \/ p + 3 > Len(file)
<1> DEFINE f == Fetch(r, 3)
           p == Position(r)
<1>1. PICK a \in Nat : a = Len(r.future)
  BY InputFacts
<1>2. PICK e \in Nat : e = Len(file)
  OBVIOUS
<1>3. p \in Nat /\ p + a <= e
  BY <1>1, <1>2, InputFacts DEF InputOK
<1>4. PICK b \in Nat : b = Len(f.future)
  BY FetchFacts, InputFacts
<1>5. /\ InputOK(f) /\ Position(f) = p
      /\ b = IF a >= 3 THEN a ELSE IF e - p < 3 THEN e - p ELSE 3
      /\ f.good = (r.good /\ 3 <= e - p)
  BY <1>1, <1>2, <1>4, FetchFacts
<1> HIDE DEF f, p
<1>6. Enough(f, 3)
  BY <1>2, <1>4, <1>5 DEF Enough
<1>7. EndsUnit(f) <=> EndsAt(p)
  <2>1. \A b0 \in 0..2 : Starts(f, <<0, 0, b0>>) <=>
          p + 3 <= e /\ file[p + 1] = 0 /\ file[p + 2] = 0 /\ file[p + 3] = b0
    BY <1>2, <1>5, <1>6, Starts3
  <2>2. QED
    BY <1>2, <2>1 DEF EndsUnit, EndsAt
<1>8. b > 0 <=> p < e
  BY <1>3, <1>5
<1>9. /\ HasByte(f) <=> p < e
      /\ HasByte(f) => NextByte(f) = file[p + 1]
  <2>1. f.future \in Seq(Byte)
    BY <1>5 DEF InputOK
  <2>2. HasByte(f) <=> b > 0
    BY <1>4, <2>1 DEF HasByte
  <2>3. ASSUME b > 0 PROVE Head(f.future) = file[p + 1]
    <3>1. Head(f.future) = f.future[1] /\ 1 \in 1..Len(f.future)
      BY <1>4, <2>1, <2>3
    <3>2. QED
      BY <1>5, <3>1 DEF InputOK
  <2>4. QED
    BY <1>8, <2>2, <2>3 DEF NextByte
<1>10. f.good <=> r.good /\ p + 3 <= e
  <2>1. f.good \in BOOLEAN /\ r.good \in BOOLEAN
    BY <1>5 DEF InputOK
  <2>2. 3 <= e - p <=> p + 3 <= e
    BY <1>3
  <2>3. QED
    BY <1>5, <2>1, <2>2
<1>11. ~(p < e) => ~(p + 3 <= e)
  BY <1>3
<1>12. ~(p + 3 <= e) => p + 3 > e
  BY <1>3
<1>13. a <= 3 => b <= 3
  BY <1>3, <1>5
<1>14. QED
  BY <1>1, <1>2, <1>4, <1>5, <1>7, <1>9, <1>10, <1>11, <1>12, <1>13 DEF f, p

(* Within the data of a unit nothing ends it; behind the data everything   *)
(* does, unless the file ends first.                                       *)
LEMMA EndOfData ==
  ASSUME WriterOK, NEW c, Layout(c), written = Len(stream),
         NEW k \in 1..Len(stream), NEW n \in Nat
  PROVE  LET d == Len(stream[k].data)
             p == c[k] + 3 + n
         IN  /\ n < d => ~EndsAt(p)
             /\ n = d => (EndsAt(p) <=> (k = Len(stream) => padding[k] >= 3))
             /\ n > d /\ k = Len(stream) /\ padding[k] < 3 => ~EndsAt(p)
<1> DEFINE data == stream[k].data
<1>1. PICK d \in Nat : d = Len(data)
  BY UnitFacts
<1>2. PICK q \in Nat : q = c[k]
  BY UnitFacts
<1>3. PICK next \in Nat : next = c[k + 1]
  BY UnitFacts
<1>4. PICK e \in Nat : e = Len(file)
  BY UnitFacts
<1>5. PICK z \in Nat : z = padding[k]
  BY UnitFacts
<1>6. /\ \A j \in 1..d : file[q + 3 + j] = data[j]
      /\ DataEnd(c, k) = q + 3 + d
      /\ q + 3 + d <= next
      /\ \A j \in q + 3 + d + 1..next : file[j] = 0
  BY <1>1, <1>2, <1>3, UnitFacts DEF UnitAt, DataEnd, ZerosBetween
<1>7. /\ data \in Seq(Byte)
      /\ Legal(data)
      /\ d > 0 => data[d] # 0
  BY <1>1, UnitFacts DEF EndsInNonZero
<1>8. k = Len(stream) => next = e /\ q + 3 + d + z = e
  BY <1>3, <1>4, <1>5, <1>6, UnitFacts
<1>9. k # Len(stream) => next + 3 <= e /\ file[next + 1] = 0 /\ file[next + 2] = 0 /\ file[next + 3] = 1
  BY <1>3, <1>4, UnitFacts DEF Code3
<1> DEFINE p == q + 3 + n
<1> HIDE DEF data
<1>10. ASSUME n < d, EndsAt(p) PROVE FALSE
  <2>1. file[p + 1] = 0 /\ file[p + 2] = 0 /\ file[p + 3] \in 0..2
    BY <1>10 DEF EndsAt
  <2> HIDE DEF p
  <2>1a. ASSUME NEW i \in 1..3, n + i <= d PROVE file[p + i] = data[n + i]
    <3>1. n + i \in 1..d /\ q + 3 + (n + i) = p + i
      BY <2>1a DEF p
    <3>2. QED
      BY <1>6, <3>1
  <2>2. CASE n + 1 = d
    BY <1>7, <2>1, <2>2, <2>1a
  <2>3. CASE n + 2 = d
    BY <1>7, <2>1, <2>3, <2>1a
  <2>4. CASE n + 3 <= d
    <3>1. data[n + 1] = 0 /\ data[n + 2] = 0 /\ data[n + 3] \in 0..2
      BY <2>1, <2>4, <2>1a
    <3>2. n + 1 \in 1..Len(data) - 2
      BY <1>1, <2>4 DEF data
    <3>3. data[n + 3] > 2
      <4>1. data[n + 1] = 0 /\ data[n + 1 + 1] = 0 => data[n + 1 + 2] > 2
        BY <1>7, <3>2 DEF Legal
      <4>2. QED
        BY <3>1, <4>1
    <3>4. QED
      BY <3>1, <3>3
  <2>5. QED
    BY <1>10, <2>2, <2>3, <2>4
<1>11. ASSUME n = d, k # Len(stream) PROVE EndsAt(p)
  <2>1. p <= next /\ p + 3 <= e
    BY <1>6, <1>9, <1>11
  <2>2. CASE p = next
    BY <1>4, <1>9, <1>11, <2>1, <2>2 DEF EndsAt
  <2>3. CASE p + 1 = next
    BY <1>4, <1>6, <1>9, <1>11, <2>1, <2>3 DEF EndsAt
  <2>4. CASE p + 2 = next
    BY <1>4, <1>6, <1>9, <1>11, <2>1, <2>4 DEF EndsAt
  <2>5. CASE p + 3 <= next
    BY <1>4, <1>6, <1>11, <2>1, <2>5 DEF EndsAt
  <2>6. QED
    BY <2>1, <2>2, <2>3, <2>4, <2>5
<1>12. ASSUME n = d, k = Len(stream) PROVE EndsAt(p) <=> z >= 3
  <2>1. p + z = e /\ next = e
    BY <1>8, <1>12
  <2>2. ASSUME z >= 3 PROVE EndsAt(p)
    BY <1>4, <1>6, <1>12, <2>1, <2>2 DEF EndsAt
  <2>3. ASSUME EndsAt(p) PROVE z >= 3
    BY <1>4, <2>1, <2>3 DEF EndsAt
  <2>4. QED
    BY <2>2, <2>3
<1>13. ASSUME n > d, k = Len(stream), z < 3, EndsAt(p) PROVE FALSE
  BY <1>4, <1>8, <1>13 DEF EndsAt
<1>14. QED
  BY <1>1, <1>2, <1>5, <1>10, <1>11, <1>12, <1>13 DEF data

LEMMA ZerosFacts ==
  ASSUME NEW n \in Nat
  PROVE  /\ Zeros(n) \in Seq(Byte) /\ Len(Zeros(n)) = n
         /\ \A j \in 1..n : Zeros(n)[j] = 0
BY DEF Zeros, Byte

IsJoined(all, s, t, m, n) ==
  /\ all \in Seq(Byte) /\ Len(all) = m + n
  /\ \A j \in 1..m : all[j] = s[j]
  /\ \A j \in 1..n : all[m + j] = t[j]

LEMMA Joined ==
  ASSUME NEW s \in Seq(Byte), NEW t \in Seq(Byte), NEW m \in Nat, NEW n \in Nat,
         Len(s) = m, Len(t) = n
  PROVE  IsJoined(s \o t, s, t, m, n)
<1>1. s \o t \in Seq(Byte) /\ Len(s \o t) = m + n
  OBVIOUS
<1>2. \A j \in 1..m : (s \o t)[j] = s[j]
  OBVIOUS
<1>3. ASSUME NEW j \in 1..n PROVE (s \o t)[m + j] = t[j]
  <2>1. m + j \in 1..m + n /\ ~(m + j <= m) /\ m + j - m = j
    OBVIOUS
  <2>2. QED
    BY <2>1
<1>4. QED
  BY <1>1, <1>2, <1>3 DEF IsJoined

(* Four sequences behind one another.                                      *)
AreJoined(all, s1, s2, s3, s4, n1, n2, n3, n4) ==
  /\ all \in Seq(Byte) /\ Len(all) = n1 + n2 + n3 + n4
  /\ \A j \in 1..n1 : all[j] = s1[j]
  /\ \A j \in 1..n2 : all[n1 + j] = s2[j]
  /\ \A j \in 1..n3 : all[n1 + n2 + j] = s3[j]
  /\ \A j \in 1..n4 : all[n1 + n2 + n3 + j] = s4[j]

LEMMA FourJoined ==
  ASSUME NEW s1 \in Seq(Byte), NEW s2 \in Seq(Byte), NEW s3 \in Seq(Byte), NEW s4 \in Seq(Byte),
         NEW n1 \in Nat, NEW n2 \in Nat, NEW n3 \in Nat, NEW n4 \in Nat,
         Len(s1) = n1, Len(s2) = n2, Len(s3) = n3, Len(s4) = n4
  PROVE  AreJoined(s1 \o s2 \o s3 \o s4, s1, s2, s3, s4, n1, n2, n3, n4)
<1> DEFINE x == s1 \o s2
           y == x \o s3
           all == y \o s4
<1>1. IsJoined(x, s1, s2, n1, n2)
  BY Joined
<1> HIDE DEF x
<1>2. x \in Seq(Byte) /\ Len(x) = n1 + n2 /\ n1 + n2 \in Nat
  BY <1>1 DEF IsJoined
<1>3. IsJoined(y, x, s3, n1 + n2, n3)
  BY <1>2, Joined
<1> HIDE DEF y
<1>4. y \in Seq(Byte) /\ Len(y) = n1 + n2 + n3 /\ n1 + n2 + n3 \in Nat
  BY <1>3 DEF IsJoined
<1>5. IsJoined(all, y, s4, n1 + n2 + n3, n4)
  BY <1>4, Joined
<1> HIDE DEF all
<1>6. \A j \in 1..n1 : all[j] = s1[j]
  BY <1>1, <1>3, <1>5 DEF IsJoined
<1>7. \A j \in 1..n2 : all[n1 + j] = s2[j]
  BY <1>1, <1>3, <1>5 DEF IsJoined
<1>8. ASSUME NEW j \in 1..n3 PROVE all[n1 + n2 + j] = s3[j]
  <2>1. n1 + n2 + j \in 1..n1 + n2 + n3
    OBVIOUS
  <2>2. all[n1 + n2 + j] = y[n1 + n2 + j] /\ y[n1 + n2 + j] = s3[j]
    BY <1>3, <1>5, <2>1 DEF IsJoined
  <2>3. QED
    BY <2>2
<1>9. AreJoined(all, s1, s2, s3, s4, n1, n2, n3, n4)
  BY <1>5, <1>6, <1>7, <1>8 DEF IsJoined, AreJoined
<1>10. QED
  BY <1>9 DEF all, y, x

(* A stretch of the file behind b and up to p, in parts.                   *)
HasParts(b, p, zeros, prefix, data, behind) ==
  /\ p <= Len(file)
  /\ b + zeros + prefix + Len(data) + behind = p
  /\ ZerosBetween(b, b + zeros)
  /\ prefix = 3 => Code3(b + zeros)
  /\ \A j \in 1..Len(data) : data[j] = file[b + zeros + prefix + j]
  /\ ZerosBetween(b + zeros + prefix + Len(data), p)

MadeOf(b, p, zeros, prefix, data, behind) ==
  SubSeq(file, b + 1, p)
    = Zeros(zeros) \o SubSeq(<<0, 0, 1>>, 1, prefix) \o data \o Zeros(behind)

LEMMA PartsOfFile ==
  ASSUME file \in Seq(Byte), NEW b \in Nat, NEW p \in Nat,
         NEW zeros \in Nat, NEW prefix \in {0, 3}, NEW data \in Seq(Byte), NEW behind \in Nat,
         HasParts(b, p, zeros, prefix, data, behind)
  PROVE  MadeOf(b, p, zeros, prefix, data, behind)
<1> DEFINE code == SubSeq(<<0, 0, 1>>, 1, prefix)
           all == Zeros(zeros) \o code \o data \o Zeros(behind)
           part == SubSeq(file, b + 1, p)
<1>1. PICK n \in Nat : n = Len(data)
  OBVIOUS
<1>2. /\ Zeros(zeros) \in Seq(Byte) /\ Len(Zeros(zeros)) = zeros
      /\ \A j \in 1..zeros : Zeros(zeros)[j] = 0
      /\ Zeros(behind) \in Seq(Byte) /\ Len(Zeros(behind)) = behind
      /\ \A j \in 1..behind : Zeros(behind)[j] = 0
  BY ZerosFacts
<1>3. /\ code \in Seq(Byte) /\ Len(code) = prefix
      /\ prefix = 3 => code[1] = 0 /\ code[2] = 0 /\ code[3] = 1
  <2>1. <<0, 0, 1>> \in Seq(Byte) /\ Len(<<0, 0, 1>>) = 3
    BY DEF Byte
  <2>2. CASE prefix = 0
    BY <2>1, <2>2
  <2>3. CASE prefix = 3
    BY <2>1, <2>3
  <2>4. QED
    BY <2>2, <2>3
<1> HIDE DEF code
<1>4. /\ all \in Seq(Byte) /\ Len(all) = zeros + prefix + n + behind
      /\ \A j \in 1..zeros : all[j] = 0
      /\ \A j \in 1..prefix : all[zeros + j] = code[j]
      /\ \A j \in 1..n : all[zeros + prefix + j] = data[j]
      /\ \A j \in 1..behind : all[zeros + prefix + n + j] = 0
  <2>1. prefix \in Nat
    OBVIOUS
  <2>2. /\ all \in Seq(Byte) /\ Len(all) = zeros + prefix + n + behind
        /\ \A j \in 1..zeros : all[j] = Zeros(zeros)[j]
        /\ \A j \in 1..prefix : all[zeros + j] = code[j]
        /\ \A j \in 1..n : all[zeros + prefix + j] = data[j]
        /\ \A j \in 1..behind : all[zeros + prefix + n + j] = Zeros(behind)[j]
    <3>1. AreJoined(all, Zeros(zeros), code, data, Zeros(behind), zeros, prefix, n, behind)
      BY <1>1, <1>2, <1>3, <2>1, FourJoined
    <3> HIDE DEF all
    <3>2. QED
      BY <3>1 DEF AreJoined
  <2> HIDE DEF all
  <2>3. QED
    BY <1>2, <2>2
<1> HIDE DEF all
<1>5. /\ p <= Len(file)
      /\ zeros + prefix + n + behind = p - b
      /\ \A j \in b + 1..b + zeros : file[j] = 0
      /\ prefix = 3 => Code3(b + zeros)
      /\ \A j \in 1..n : data[j] = file[b + zeros + prefix + j]
      /\ \A j \in b + zeros + prefix + n + 1..p : file[j] = 0
  BY <1>1 DEF HasParts, ZerosBetween
<1>6. /\ part \in Seq(Byte) /\ Len(part) = p - b
      /\ \A j \in 1..p - b : part[j] = file[b + j]
  BY <1>5
<1> HIDE DEF part
<1>7. ASSUME NEW j \in 1..p - b PROVE part[j] = all[j]
  <2>1. j \in Nat /\ j >= 1 /\ j <= zeros + prefix + n + behind
    BY <1>5
  <2>2. part[j] = file[b + j]
    BY <1>6
  <2>3. CASE j <= zeros
    BY <1>4, <1>5, <2>1, <2>2, <2>3
  <2>4. CASE j > zeros /\ j <= zeros + prefix
    <3>1. PICK i \in {1, 2, 3} : j = zeros + i /\ prefix = 3
      BY <2>1, <2>4
    <3>2. all[j] = code[i]
      BY <1>4, <3>1
    <3>3. file[b + zeros + i] = code[i]
      BY <1>3, <1>5, <3>1 DEF Code3
    <3>4. b + j = b + zeros + i
      BY <3>1
    <3>5. QED
      BY <2>2, <3>2, <3>3, <3>4
  <2>5. CASE j > zeros + prefix /\ j <= zeros + prefix + n
    <3>1. PICK i \in 1..n : j = zeros + prefix + i
      BY <2>1, <2>5
    <3>2. all[j] = data[i]
      BY <1>4, <3>1
    <3>3. b + zeros + prefix + i = b + j
      BY <3>1
    <3>4. data[i] = file[b + zeros + prefix + i]
      BY <1>5
    <3>5. QED
      BY <2>2, <3>2, <3>3, <3>4
  <2>6. CASE j > zeros + prefix + n
    <3>1. PICK i \in 1..behind : j = zeros + prefix + n + i
      BY <2>1, <2>6
    <3>2. all[j] = 0
      BY <1>4, <3>1
    <3>3. b + j \in b + zeros + prefix + n + 1..p
      BY <1>5, <2>1, <2>6
    <3>4. QED
      BY <1>5, <2>2, <3>2, <3>3
  <2>7. QED
    BY <2>1, <2>3, <2>4, <2>5, <2>6
<1>8. part = all
  <2>1. Len(part) = Len(all)
    BY <1>4, <1>5, <1>6
  <2>2. \A j \in 1..Len(part) : part[j] = all[j]
    BY <1>6, <1>7
  <2>3. QED
    BY <1>4, <1>6, <2>1, <2>2, SeqEqual
<1>9. QED
  BY <1>8 DEF MadeOf, part, all, code

-----------------------------------------------------------------------------
(* The steps of the reader.                                                *)

LEMMA StartTurnReads ==
  ASSUME WriterOK, NEW c, Layout(c), Reading(c), StartTurn
  PROVE  Reading(c)'
<1> USE DEF writerVars
<1>1. /\ phase = "turn" /\ phase' = "leading" /\ in.good /\ in' = in
      /\ UNCHANGED <<stream, written, padding, file, taken, again, failed>>
      /\ location' = in.tellg /\ begin' = Position(in)
      /\ nalUnit' = << >> /\ stats' = NoStats
  BY DEF StartTurn, Position
<1>2. /\ taken < Units
      /\ InFrontOf(c, taken + 1, Position(in))
      /\ LittleAhead(in)
      /\ taken > 0 /\ ~again => in.tellg = c[taken + 1] + 3
  BY <1>1 DEF Reading, InTurn
<1>3. InputOK(in) /\ taken \in Nat /\ again \in BOOLEAN /\ ~failed /\ written = Len(stream)
  BY DEF Reading
<1>4. in.tellg \in Nat /\ Position(in) \in Nat
  BY <1>3, InputFacts DEF WriterOK
<1>5. InputOK(in)'
  BY <1>1, <1>3 DEF InputOK, Position
<1>6. Located(c)'
  BY <1>1, <1>2 DEF Located, InFrontOf, ZerosBetween, Units
<1>7. InFrontOf(c, taken + 1, Position(in))' /\ LittleAhead(in)'
  BY <1>1, <1>2 DEF InFrontOf, ZerosBetween, LittleAhead, Position, Code4, Code3
<1>8. /\ (begin + stats.leadingZero = Position(in))'
      /\ (stats.zeroByte = 0 /\ stats.startCodePrefix = 0 /\ stats.trailingZero = 0)'
  <2>1. Position(in)' = Position(in)
    BY <1>1 DEF Position
  <2>2. Position(in) + 0 = Position(in)
    BY <1>4
  <2>3. QED
    BY <1>1, <2>1, <2>2 DEF NoStats
<1>9. InLeading(c)'
  BY <1>1, <1>6, <1>7, <1>8 DEF InLeading
<1>10. (stats \in Counts)'
  BY <1>1 DEF NoStats, Counts
<1>11. QED
  BY <1>1, <1>3, <1>4, <1>5, <1>9, <1>10 DEF Reading

LEMMA SkipLeadingZeroReads ==
  ASSUME WriterOK, NEW c, Layout(c), Reading(c), SkipLeadingZero
  PROVE  Reading(c)'
<1> DEFINE l == Look(in)
           p == Position(in)
<1>1. /\ phase = "leading" /\ phase' = "leading"
      /\ UNCHANGED <<stream, written, padding, file, taken, again, nalUnit, location, begin>>
      /\ ~AtStartCode(l) /\ HasByte(l)
      /\ failed' = (NextByte(l) # 0)
      /\ in' = Skip(l, 1)
      /\ stats' = [stats EXCEPT !.leadingZero = @ + 1]
  BY DEF SkipLeadingZero, Count, writerVars
<1>2. /\ InputOK(in) /\ taken \in Nat /\ again \in BOOLEAN /\ ~failed /\ written = Len(stream)
      /\ begin \in Nat /\ location \in Nat /\ nalUnit \in Seq(Byte) /\ stats \in Counts
      /\ InLeading(c) /\ file \in Seq(Byte)
  BY <1>1 DEF Reading, WriterOK
<1>3. Located(c) /\ taken < Units /\ LittleAhead(in) /\ InFrontOf(c, taken + 1, p)
  BY <1>2 DEF InLeading, Located
<1>4. /\ c[taken + 1] \in Nat /\ c[taken + 1] <= Len(file) /\ Len(file) \in Nat
      /\ IF stream = << >> THEN taken = 0 /\ c[taken + 1] = Len(file)
         ELSE taken + 1 \in 1..Len(stream) /\ Code3(c[taken + 1])
  BY <1>2, <1>3, HereFacts
<1>5. /\ InputOK(l) /\ Position(l) = p
      /\ AtStartCode(l) <=> Code3(p) \/ Code4(p)
      /\ HasByte(l) <=> p < Len(file)
      /\ HasByte(l) => NextByte(l) = file[p + 1]
      /\ Len(l.future) <= 4
      /\ ~l.good => ~in.good \/ (p + 4 > Len(file) /\ ~Code3(p))
  BY <1>2, <1>3, LookFacts
<1>6. p \in Nat /\ Len(l.future) \in Nat /\ begin \in Nat /\ l.good \in BOOLEAN
  BY <1>2, <1>5, InputFacts
<1> HIDE DEF l, p
<1>7. p < c[taken + 1]
  <2>1. p <= c[taken + 1]
    BY <1>3, <1>4 DEF InFrontOf
  <2>2. ASSUME p = c[taken + 1] PROVE FALSE
    BY <1>1, <1>4, <1>5, <2>2
  <2>3. QED
    BY <1>4, <1>6, <2>1, <2>2
<1>8. file[p + 1] = 0 /\ InFrontOf(c, taken + 1, p + 1)
  BY <1>3, <1>4, <1>6, <1>7 DEF InFrontOf, ZerosBetween
<1>9. failed' = FALSE
  BY <1>1, <1>5, <1>8
<1>10. 1 <= Len(l.future)
  <2>1. l.future \in Seq(Byte) /\ l.future # << >>
    BY <1>1, <1>5 DEF HasByte, InputOK
  <2>2. QED
    BY <2>1
<1>11. /\ InputOK(Skip(l, 1)) /\ Position(Skip(l, 1)) = p + 1
       /\ Len(Skip(l, 1).future) = Len(l.future) - 1
       /\ Skip(l, 1).good = l.good
  BY <1>2, <1>5, <1>10, SkipFacts
<1>12. ~l.good => taken + 1 >= Len(stream)
  <2>1. ASSUME ~l.good, in.good, taken + 1 < Len(stream) PROVE FALSE
    <3>1. taken + 1 \in 1..Len(stream) /\ taken + 1 # Len(stream)
      BY <1>2, <1>4, <2>1
    <3>2. /\ Code3(c[taken + 1 + 1]) /\ c[taken + 1] + 3 <= DataEnd(c, taken + 1)
          /\ DataEnd(c, taken + 1) <= c[taken + 1 + 1]
          /\ DataEnd(c, taken + 1) \in Nat /\ c[taken + 1 + 1] \in Nat
      BY <1>2, <3>1, UnitFacts DEF UnitAt
    <3>3. c[taken + 1 + 1] + 3 <= Len(file)
      BY <3>2 DEF Code3
    <3>4. p + 4 > Len(file)
      BY <1>5, <2>1
    <3>5. QED
      BY <1>4, <1>6, <1>7, <3>2, <3>3, <3>4
  <2>2. CASE in.good
    <3>1. Len(stream) \in Nat
      BY StreamsAssumption DEF WriterOK
    <3>2. QED
      BY <1>2, <2>1, <2>2, <3>1
  <2>3. CASE ~in.good
    BY <1>3, <2>3 DEF Located
  <2>4. QED
    BY <2>2, <2>3
<1>13. InputOK(in)'
  BY <1>1, <1>11 DEF InputOK, Position
<1>14. Located(c)'
  BY <1>1, <1>3, <1>11, <1>12 DEF Located, InFrontOf, ZerosBetween, Units
<1>15. (Position(in))' = p + 1
  BY <1>1, <1>11 DEF Position
<1>16. InFrontOf(c, taken + 1, Position(in))'
  BY <1>1, <1>8, <1>15 DEF InFrontOf, ZerosBetween
<1>17. LittleAhead(in)'
  <2>1. Len(in'.future) <= 3
    BY <1>1, <1>5, <1>6, <1>11
  <2>2. QED
    BY <2>1 DEF LittleAhead
<1>18. /\ (begin + stats.leadingZero = Position(in))'
       /\ (stats.zeroByte = 0 /\ stats.startCodePrefix = 0 /\ stats.trailingZero = 0)'
  <2>1. /\ begin + stats.leadingZero = p /\ stats.leadingZero \in Nat
        /\ stats.zeroByte = 0 /\ stats.startCodePrefix = 0 /\ stats.trailingZero = 0
    BY <1>2 DEF InLeading, p, Counts
  <2>2. /\ begin' = begin /\ stats'.leadingZero = stats.leadingZero + 1
        /\ stats'.zeroByte = 0 /\ stats'.startCodePrefix = 0 /\ stats'.trailingZero = 0
    BY <1>1, <1>2, <2>1 DEF Counts
  <2>3. begin + (stats.leadingZero + 1) = p + 1
    BY <1>6, <2>1
  <2>4. QED
    BY <1>15, <2>2, <2>3
<1>19. InLeading(c)'
  BY <1>1, <1>2, <1>14, <1>16, <1>17, <1>18 DEF InLeading
<1>20. (stats \in Counts)'
  BY <1>1, <1>2, SMTT(60), ZenonT(60) DEF Counts
<1>21. QED
  BY <1>1, <1>2, <1>9, <1>13, <1>19, <1>20 DEF Reading

LEMMA ReadStartCodeReads ==
  ASSUME WriterOK, NEW c, Layout(c), Reading(c), ReadStartCode
  PROVE  Reading(c)'
<1> DEFINE l == Look(in)
           p == Position(in)
           z == IF Starts(l, <<0, 0, 1>>) THEN 0 ELSE 1
<1>1. /\ phase = "leading" /\ phase' = "payload"
      /\ UNCHANGED <<stream, written, padding, file, taken, again, nalUnit, location, begin, failed>>
      /\ AtStartCode(l)
      /\ in' = Skip(l, z + 3)
      /\ stats' = [stats EXCEPT !.zeroByte = z, !.startCodePrefix = 3]
  BY DEF ReadStartCode, writerVars
<1>2. /\ InputOK(in) /\ taken \in Nat /\ again \in BOOLEAN /\ ~failed /\ written = Len(stream)
      /\ begin \in Nat /\ location \in Nat /\ nalUnit \in Seq(Byte) /\ stats \in Counts
      /\ InLeading(c) /\ file \in Seq(Byte)
  BY <1>1 DEF Reading, WriterOK
<1>3. Located(c) /\ taken < Units /\ LittleAhead(in) /\ InFrontOf(c, taken + 1, p)
  BY <1>2 DEF InLeading, Located
<1>4. /\ c[taken + 1] \in Nat /\ c[taken + 1] <= Len(file) /\ Len(file) \in Nat
      /\ IF stream = << >> THEN taken = 0 /\ c[taken + 1] = Len(file)
         ELSE taken + 1 \in 1..Len(stream) /\ Code3(c[taken + 1])
  BY <1>2, <1>3, HereFacts
<1>5. /\ InputOK(l) /\ Position(l) = p
      /\ Starts(l, <<0, 0, 1>>) <=> Code3(p)
      /\ AtStartCode(l) <=> Code3(p) \/ Code4(p)
      /\ Code3(p) => Len(l.future) = 3
      /\ Code4(p) => Len(l.future) = 4
      /\ Code3(p) \/ Code4(p) => l.good = in.good
  BY <1>2, <1>3, LookFacts
<1>6. p \in Nat /\ begin \in Nat /\ stats.leadingZero = p - begin
  <2>1. p \in Nat
    BY <1>2, InputFacts
  <2>2. begin + stats.leadingZero = p /\ stats.leadingZero \in Nat
    BY <1>2 DEF InLeading, Counts
  <2> HIDE DEF p
  <2>3. QED
    BY <1>2, <2>1, <2>2
<1> HIDE DEF l, p
<1>7. stream # << >> /\ Code3(c[taken + 1])
  BY <1>1, <1>3, <1>4, <1>5, <1>6, CodeInFront, <1>2
<1>8. (Code3(p) <=> p = c[taken + 1]) /\ (Code4(p) <=> p + 1 = c[taken + 1])
  BY <1>2, <1>3, <1>4, <1>6, <1>7, CodeInFront
<1>9. z \in {0, 1} /\ p + z = c[taken + 1] /\ Len(l.future) = z + 3 /\ l.good = in.good
  <2>1. CASE Code3(p)
    <3>1. z = 0
      BY <1>5, <2>1
    <3> HIDE DEF z
    <3>2. QED
      BY <1>5, <1>6, <1>8, <2>1, <3>1
  <2>2. CASE ~Code3(p)
    <3>1. z = 1 /\ Code4(p)
      BY <1>1, <1>5, <2>2
    <3> HIDE DEF z
    <3>2. QED
      BY <1>5, <1>6, <1>8, <2>2, <3>1
  <2>3. QED
    BY <2>1, <2>2
<1> HIDE DEF z
<1>10. z + 3 \in Nat /\ z + 3 <= Len(l.future)
  BY <1>9
<1>11. /\ InputOK(Skip(l, z + 3)) /\ Position(Skip(l, z + 3)) = p + (z + 3)
       /\ Len(Skip(l, z + 3).future) = 0
       /\ Skip(l, z + 3).good = l.good
  <2>1. /\ InputOK(Skip(l, z + 3)) /\ Position(Skip(l, z + 3)) = Position(l) + (z + 3)
        /\ Len(Skip(l, z + 3).future) = Len(l.future) - (z + 3)
        /\ Skip(l, z + 3).good = l.good
    BY <1>2, <1>5, <1>10, SkipFacts
  <2>2. QED
    BY <1>5, <1>9, <2>1
<1>12. InputOK(in)'
  BY <1>1, <1>11 DEF InputOK, Position
<1>13. Located(c)'
  BY <1>1, <1>3, <1>9, <1>11 DEF Located, InFrontOf, ZerosBetween, Units
<1>14. /\ (Position(in))' = c[taken + 1] + 3 /\ in'.good = in.good
       /\ Len(in'.future) = 0
  <2>1. (Position(in))' = p + (z + 3)
    BY <1>1, <1>11 DEF Position
  <2>2. QED
    BY <1>1, <1>6, <1>9, <1>11, <2>1
<1>15. /\ nalUnit' = << >> /\ Len(nalUnit') = 0
       /\ stats' = [stats EXCEPT !.zeroByte = z, !.startCodePrefix = 3]
       /\ stats.leadingZero = p - begin /\ stats.trailingZero = 0
  BY <1>1, <1>2, <1>6 DEF InLeading
<1>16. /\ stats'.startCodePrefix = 3 /\ stats'.zeroByte = z
       /\ stats'.leadingZero = p - begin /\ stats'.trailingZero = 0
  BY <1>2, <1>15 DEF Counts
<1>17. begin + stats'.leadingZero + stats'.zeroByte = c[taken + 1]
  BY <1>6, <1>9, <1>16
<1>18. taken < Len(stream)
  <2>1. taken + 1 \in 1..Len(stream)
    BY <1>4, <1>7
  <2>2. QED
    BY <1>2, <2>1
<1>19. HasRead(c)'
  <2>1. (c[taken + 1] + 3 + Len(nalUnit) + stats.trailingZero = Position(in))'
    BY <1>1, <1>4, <1>14, <1>15, <1>16
  <2>2. (\A j \in 1..Len(nalUnit) : nalUnit[j] = file[c[taken + 1] + 3 + j])'
    BY <1>15
  <2>3. QED
    BY <1>1, <1>13, <1>14, <1>16, <1>17, <1>18, <2>1, <2>2 DEF HasRead
<1>20. (Len(nalUnit) <= Len(stream[taken + 1].data))'
  <2>1. Len(stream[taken + 1].data) \in Nat
    BY <1>2, <1>4, <1>7, UnitFacts
  <2>2. QED
    BY <1>1, <1>15, <2>1
<1>21. InPayload(c)'
  BY <1>16, <1>19, <1>20 DEF InPayload
<1>22. (stats \in Counts)'
  <2>1. z \in Nat /\ stats \in Counts
    BY <1>2, <1>9
  <2>2. QED
    BY <1>1, <2>1 DEF Counts
<1>23. QED
  BY <1>1, <1>2, <1>12, <1>21, <1>22 DEF Reading

LEMMA ReadPayloadByteReads ==
  ASSUME WriterOK, NEW c, Layout(c), Reading(c), ReadPayloadByte
  PROVE  Reading(c)'
<1> DEFINE f == Fetch(in, 3)
           p == Position(in)
           k == taken + 1
           n == Len(nalUnit)
<1>1. /\ phase = "payload" /\ phase' = "payload"
      /\ UNCHANGED <<stream, written, padding, file, taken, again, stats, location, begin, failed>>
      /\ ~EndsUnit(f) /\ HasByte(f)
      /\ nalUnit' = Append(nalUnit, NextByte(f))
      /\ in' = Skip(f, 1)
  BY DEF ReadPayloadByte, writerVars
<1>2. /\ InputOK(in) /\ taken \in Nat /\ again \in BOOLEAN /\ ~failed /\ written = Len(stream)
      /\ begin \in Nat /\ location \in Nat /\ nalUnit \in Seq(Byte) /\ stats \in Counts
      /\ InPayload(c) /\ file \in Seq(Byte) /\ Len(stream) \in Nat
  BY <1>1, StreamsAssumption DEF Reading, WriterOK
<1>3. /\ Located(c) /\ taken < Len(stream)
      /\ stats.trailingZero = 0
      /\ c[k] + 3 + n + stats.trailingZero = p
      /\ \A j \in 1..n : nalUnit[j] = file[c[k] + 3 + j]
      /\ Len(in.future) <= 3
      /\ n <= Len(stream[k].data) \/ (k = Len(stream) /\ padding[k] < 3)
  BY <1>2 DEF InPayload, HasRead
<1>4. k \in 1..Len(stream) /\ n \in Nat
  BY <1>2, <1>3
<1>5. /\ c[k] \in Nat /\ c[k + 1] \in Nat /\ Len(file) \in Nat
      /\ Len(stream[k].data) \in Nat /\ padding[k] \in Nat
      /\ DataEnd(c, k) <= c[k + 1]
      /\ k # Len(stream) => Code3(c[k + 1])
  BY <1>2, <1>4, UnitFacts DEF UnitAt
<1>6. /\ InputOK(f) /\ Position(f) = p
      /\ EndsUnit(f) <=> EndsAt(p)
      /\ HasByte(f) <=> p < Len(file)
      /\ HasByte(f) => NextByte(f) = file[p + 1]
      /\ Len(f.future) <= 3
      /\ ~f.good => ~in.good \/ p + 3 > Len(file)
  BY <1>2, <1>3, EndsUnitFacts
<1>7. p \in Nat /\ Len(f.future) \in Nat /\ f.good \in BOOLEAN
  BY <1>2, <1>6, InputFacts
<1> HIDE DEF f, p
<1>8. p = c[k] + 3 + n
  BY <1>3, <1>4, <1>5
<1>9. /\ n = Len(stream[k].data) => k = Len(stream) /\ padding[k] < 3
      /\ ~EndsAt(p)
  <2>1. ~EndsAt(p)
    BY <1>1, <1>6
  <2>2. n = Len(stream[k].data) => (EndsAt(p) <=> (k = Len(stream) => padding[k] >= 3))
    BY <1>2, <1>4, <1>8, EndOfData
  <2>3. QED
    BY <1>5, <2>1, <2>2
<1>10. n + 1 <= Len(stream[k].data) \/ (k = Len(stream) /\ padding[k] < 3)
  BY <1>3, <1>4, <1>5, <1>9
<1>11. ~f.good => taken + 1 >= Len(stream)
  <2>1. ASSUME ~f.good, in.good, k # Len(stream) PROVE FALSE
    <3>1. n <= Len(stream[k].data) /\ c[k + 1] + 3 <= Len(file)
      BY <1>3, <1>5, <2>1 DEF Code3
    <3>2. p <= c[k + 1]
      BY <1>4, <1>5, <1>8, <3>1, SMTT(60), ZenonT(60) DEF DataEnd
    <3>3. p + 3 > Len(file)
      BY <1>6, <2>1
    <3> HIDE DEF k
    <3>4. QED
      BY <1>5, <1>7, <3>1, <3>2, <3>3
  <2>2. CASE in.good
    BY <1>2, <1>4, <2>1, <2>2
  <2>3. CASE ~in.good
    BY <1>3, <2>3 DEF Located
  <2>4. QED
    BY <2>2, <2>3
<1>12. 1 <= Len(f.future)
  <2>1. f.future \in Seq(Byte) /\ f.future # << >>
    BY <1>1, <1>6 DEF HasByte, InputOK
  <2>2. QED
    BY <2>1
<1>13. /\ InputOK(Skip(f, 1)) /\ Position(Skip(f, 1)) = p + 1
       /\ Len(Skip(f, 1).future) = Len(f.future) - 1
       /\ Skip(f, 1).good = f.good
  BY <1>2, <1>6, <1>12, SkipFacts
<1>14. InputOK(in)'
  BY <1>1, <1>13 DEF InputOK, Position
<1>15. Located(c)'
  BY <1>1, <1>3, <1>11, <1>13 DEF Located, InFrontOf, ZerosBetween, Units
<1>16. /\ (Position(in))' = p + 1 /\ in'.good = f.good
       /\ Len(in'.future) <= 3
  <2>1. (Position(in))' = p + 1 /\ in'.good = f.good /\ Len(in'.future) = Len(f.future) - 1
    BY <1>1, <1>13 DEF Position
  <2>2. QED
    BY <1>6, <1>7, <2>1
<1>17. NextByte(f) = file[p + 1] /\ file[p + 1] \in Byte
  <2>1. p < Len(file) /\ NextByte(f) = file[p + 1]
    BY <1>1, <1>6
  <2>2. QED
    BY <1>2, <1>5, <1>7, <2>1
<1>18. /\ nalUnit' \in Seq(Byte) /\ Len(nalUnit') = n + 1
       /\ \A j \in 1..n : nalUnit'[j] = nalUnit[j]
       /\ nalUnit'[n + 1] = file[p + 1]
  BY <1>1, <1>2, <1>4, <1>17
<1>19. \A j \in 1..n + 1 : nalUnit'[j] = file[c[k] + 3 + j]
  <2> HIDE DEF k, n
  <2>1. nalUnit'[n + 1] = file[c[k] + 3 + (n + 1)]
    <3> DEFINE q == c[k]
    <3>1. q \in Nat /\ n \in Nat /\ p = q + 3 + n
      BY <1>4, <1>5, <1>8
    <3> HIDE DEF q
    <3>2. q + 3 + (n + 1) = p + 1
      BY <3>1
    <3>3. c[k] + 3 + (n + 1) = p + 1
      BY <3>2 DEF q
    <3>4. QED
      BY <1>18, <3>3
  <2>2. QED
    BY <1>3, <1>4, <1>18, <2>1
<1>20. HasRead(c)'
  <2>1. (c[taken + 1] + 3 + Len(nalUnit) + stats.trailingZero = Position(in))'
    <3> DEFINE q == c[k]
    <3> HIDE DEF n
    <3>1. q \in Nat /\ n \in Nat /\ p = q + 3 + n
      BY <1>4, <1>5, <1>8
    <3> HIDE DEF q
    <3>2. q + 3 + (n + 1) + 0 = p + 1
      BY <3>1
    <3>3. (c[taken + 1])' = q /\ (stats.trailingZero)' = 0
      BY <1>1, <1>3 DEF q
    <3>4. QED
      BY <1>16, <1>18, <3>2, <3>3
  <2>2. (\A j \in 1..Len(nalUnit) : nalUnit[j] = file[c[taken + 1] + 3 + j])'
    BY <1>1, <1>18, <1>19
  <2>3. (begin + stats.leadingZero + stats.zeroByte = c[taken + 1] /\ stats.startCodePrefix = 3)'
    BY <1>1, <1>2 DEF InPayload, HasRead
  <2>4. QED
    BY <1>1, <1>3, <1>15, <1>16, <2>1, <2>2, <2>3 DEF HasRead
<1>21. InPayload(c)'
  BY <1>1, <1>3, <1>10, <1>18, <1>20 DEF InPayload
<1>22. (stats \in Counts)'
  BY <1>1, <1>2 DEF Counts
<1>23. QED
  BY <1>1, <1>2, <1>14, <1>18, <1>21, <1>22 DEF Reading

LEMMA EndPayloadReads ==
  ASSUME WriterOK, NEW c, Layout(c), Reading(c), EndPayload
  PROVE  Reading(c)'
<1> DEFINE f == Fetch(in, 3)
           p == Position(in)
           k == taken + 1
           n == Len(nalUnit)
<1>1. /\ phase = "payload" /\ phase' = "trailing"
      /\ UNCHANGED <<stream, written, padding, file, taken, again, nalUnit, stats, location, begin, failed>>
      /\ EndsUnit(f) /\ in' = f
  BY DEF EndPayload, writerVars
<1>2. /\ InputOK(in) /\ taken \in Nat /\ again \in BOOLEAN /\ ~failed /\ written = Len(stream)
      /\ begin \in Nat /\ location \in Nat /\ nalUnit \in Seq(Byte) /\ stats \in Counts
      /\ InPayload(c) /\ file \in Seq(Byte) /\ Len(stream) \in Nat
  BY <1>1, StreamsAssumption DEF Reading, WriterOK
<1>3. /\ Located(c) /\ taken < Len(stream)
      /\ stats.trailingZero = 0
      /\ c[k] + 3 + n + stats.trailingZero = p
      /\ Len(in.future) <= 3
      /\ n <= Len(stream[k].data) \/ (k = Len(stream) /\ padding[k] < 3)
  BY <1>2 DEF InPayload, HasRead
<1>4. k \in 1..Len(stream) /\ n \in Nat
  BY <1>2, <1>3
<1>5. /\ c[k] \in Nat /\ c[k + 1] \in Nat /\ Len(file) \in Nat
      /\ Len(stream[k].data) \in Nat /\ padding[k] \in Nat
      /\ DataEnd(c, k) <= c[k + 1]
  BY <1>2, <1>4, UnitFacts DEF UnitAt
<1>6. /\ InputOK(f) /\ Position(f) = p
      /\ EndsUnit(f) <=> EndsAt(p)
      /\ Len(f.future) <= 3
      /\ ~f.good => ~in.good \/ p + 3 > Len(file)
  BY <1>2, <1>3, EndsUnitFacts
<1>7. p \in Nat
  BY <1>2, InputFacts
<1> HIDE DEF f, p
<1>8. p = c[k] + 3 + n
  BY <1>3, <1>4, <1>5
<1>9. EndsAt(p) /\ ~(p + 3 > Len(file))
  BY <1>1, <1>5, <1>6, <1>7 DEF EndsAt
<1>10. n = Len(stream[k].data) /\ (k = Len(stream) => padding[k] >= 3)
  <2>1. /\ n < Len(stream[k].data) => ~EndsAt(p)
        /\ n = Len(stream[k].data) => (EndsAt(p) <=> (k = Len(stream) => padding[k] >= 3))
        /\ n > Len(stream[k].data) /\ k = Len(stream) /\ padding[k] < 3 => ~EndsAt(p)
    BY <1>2, <1>4, <1>8, EndOfData
  <2>2. n = Len(stream[k].data)
    BY <1>3, <1>4, <1>5, <1>9, <2>1
  <2>3. QED
    BY <1>9, <2>1, <2>2
<1>11. p <= c[k + 1]
  BY <1>5, <1>8, <1>10 DEF DataEnd
<1>12. InputOK(in)' /\ (Position(in))' = p
  BY <1>1, <1>6 DEF InputOK, Position
<1>13. Located(c)'
  BY <1>1, <1>3, <1>6, <1>9 DEF Located, InFrontOf, ZerosBetween, Units
<1>14. HasRead(c)'
  BY <1>1, <1>2, <1>3, <1>6, <1>12, <1>13 DEF InPayload, HasRead
<1>15. InTrailing(c)'
  <2>1. k + 1 = taken + 2
    BY <1>2
  <2>2. QED
    BY <1>1, <1>10, <1>11, <1>12, <1>14, <2>1 DEF InTrailing
<1>16. (stats \in Counts)'
  BY <1>1, <1>2 DEF Counts
<1>17. QED
  BY <1>1, <1>2, <1>12, <1>15, <1>16 DEF Reading

LEMMA SkipTrailingZeroReads ==
  ASSUME WriterOK, NEW c, Layout(c), Reading(c), SkipTrailingZero
  PROVE  Reading(c)'
<1> DEFINE l == Look(in)
           p == Position(in)
           k == taken + 1
           n == Len(nalUnit)
<1>1. /\ phase = "trailing" /\ phase' = "trailing"
      /\ UNCHANGED <<stream, written, padding, file, taken, again, nalUnit, location, begin>>
      /\ ~AtStartCode(l) /\ HasByte(l)
      /\ failed' = (NextByte(l) # 0)
      /\ in' = Skip(l, 1)
      /\ stats' = [stats EXCEPT !.trailingZero = @ + 1]
  BY DEF SkipTrailingZero, Count, writerVars
<1>2. /\ InputOK(in) /\ taken \in Nat /\ again \in BOOLEAN /\ ~failed /\ written = Len(stream)
      /\ begin \in Nat /\ location \in Nat /\ nalUnit \in Seq(Byte) /\ stats \in Counts
      /\ InTrailing(c) /\ file \in Seq(Byte) /\ Len(stream) \in Nat
  BY <1>1, StreamsAssumption DEF Reading, WriterOK
<1>3. /\ Located(c) /\ taken < Len(stream)
      /\ c[k] + 3 + n + stats.trailingZero = p
      /\ Len(in.future) <= 3
      /\ n = Len(stream[k].data)
      /\ p <= c[taken + 2]
      /\ stats.trailingZero \in Nat
  BY <1>2 DEF InTrailing, HasRead, Counts
<1>4. k \in 1..Len(stream) /\ n \in Nat /\ taken + 2 = k + 1
  BY <1>2, <1>3
<1>5. /\ c[k] \in Nat /\ c[k + 1] \in Nat /\ Len(file) \in Nat
      /\ c[k + 1] <= Len(file)
      /\ ZerosBetween(DataEnd(c, k), c[k + 1])
      /\ DataEnd(c, k) = c[k] + 3 + n
      /\ IF k = Len(stream) THEN c[k + 1] = Len(file) ELSE Code3(c[k + 1])
  BY <1>2, <1>3, <1>4, UnitFacts DEF UnitAt, DataEnd
<1>6. LittleAhead(in)
  BY <1>3 DEF LittleAhead
<1>7. /\ InputOK(l) /\ Position(l) = p
      /\ AtStartCode(l) <=> Code3(p) \/ Code4(p)
      /\ HasByte(l) <=> p < Len(file)
      /\ HasByte(l) => NextByte(l) = file[p + 1]
      /\ Len(l.future) <= 4
      /\ ~l.good => ~in.good \/ (p + 4 > Len(file) /\ ~Code3(p))
  BY <1>2, <1>6, LookFacts
<1>8. p \in Nat /\ Len(l.future) \in Nat /\ l.good \in BOOLEAN
  BY <1>2, <1>7, InputFacts
<1> HIDE DEF l, p, k, n
<1>9. p < c[k + 1]
  <2>1. ASSUME p = c[k + 1] PROVE FALSE
    BY <1>1, <1>5, <1>7, <2>1
  <2>2. QED
    BY <1>3, <1>4, <1>5, <1>8, <2>1
<1>10. file[p + 1] = 0
  <2> DEFINE q == c[k]  r == c[k + 1]  t == stats.trailingZero
  <2>1. q \in Nat /\ r \in Nat /\ n \in Nat /\ t \in Nat /\ p = q + 3 + n + t /\ p < r
    BY <1>3, <1>4, <1>5, <1>9
  <2>2. \A j \in q + 3 + n + 1..r : file[j] = 0
    BY <1>5 DEF ZerosBetween
  <2> HIDE DEF q, r, t
  <2>3. QED
    BY <2>1, <2>2
<1>11. failed' = FALSE
  BY <1>1, <1>7, <1>10
<1>12. 1 <= Len(l.future)
  <2>1. l.future \in Seq(Byte) /\ l.future # << >>
    BY <1>1, <1>7 DEF HasByte, InputOK
  <2>2. QED
    BY <2>1
<1>13. /\ InputOK(Skip(l, 1)) /\ Position(Skip(l, 1)) = p + 1
       /\ Len(Skip(l, 1).future) = Len(l.future) - 1
       /\ Skip(l, 1).good = l.good
  BY <1>2, <1>7, <1>12, SkipFacts
<1>14. ~l.good => taken + 1 >= Len(stream)
  <2>1. ASSUME ~l.good, in.good, k # Len(stream) PROVE FALSE
    <3>1. c[k + 1] + 3 <= Len(file) /\ p + 4 > Len(file)
      BY <1>5, <1>7, <2>1 DEF Code3
    <3>2. QED
      BY <1>5, <1>8, <1>9, <3>1
  <2>2. CASE in.good
    BY <1>2, <1>4, <2>1, <2>2 DEF k
  <2>3. CASE ~in.good
    BY <1>3, <2>3 DEF Located
  <2>4. QED
    BY <2>2, <2>3
<1>15. InputOK(in)' /\ (Position(in))' = p + 1
  BY <1>1, <1>13 DEF InputOK, Position
<1>16. Len(in'.future) <= 3
  BY <1>1, <1>7, <1>8, <1>13
<1>17. Located(c)'
  BY <1>1, <1>3, <1>13, <1>14 DEF Located, InFrontOf, ZerosBetween, Units
<1>18. stats'.trailingZero = stats.trailingZero + 1
  BY <1>1, <1>2 DEF Counts
<1>19. HasRead(c)'
  <2>1. (c[taken + 1] + 3 + Len(nalUnit) + stats.trailingZero = Position(in))'
    <3> DEFINE q == c[k]  t == stats.trailingZero
    <3>1. q \in Nat /\ n \in Nat /\ t \in Nat /\ p = q + 3 + n + t
      BY <1>3, <1>4, <1>5
    <3> HIDE DEF q, t
    <3>2. q + 3 + n + (t + 1) = p + 1
      BY <3>1
    <3>3. (c[taken + 1])' = q /\ (Len(nalUnit))' = n /\ (stats.trailingZero)' = t + 1
      BY <1>1, <1>18 DEF q, t, k, n
    <3>4. QED
      BY <1>15, <3>2, <3>3
  <2>2. (\A j \in 1..Len(nalUnit) : nalUnit[j] = file[c[taken + 1] + 3 + j])'
    BY <1>1, <1>2 DEF InTrailing, HasRead
  <2>3. (begin + stats.leadingZero + stats.zeroByte = c[taken + 1] /\ stats.startCodePrefix = 3)'
    BY <1>1, <1>2 DEF InTrailing, HasRead, Counts
  <2>4. QED
    BY <1>1, <1>3, <1>16, <1>17, <2>1, <2>2, <2>3 DEF HasRead
<1>20. InTrailing(c)'
  <2>1. p + 1 <= c[taken + 2]
    BY <1>4, <1>5, <1>8, <1>9
  <2>2. QED
    BY <1>1, <1>2, <1>15, <1>19, <2>1 DEF InTrailing
<1>21. (stats \in Counts)'
  BY <1>1, <1>2, SMTT(60), ZenonT(60) DEF Counts
<1>22. QED
  BY <1>1, <1>2, <1>11, <1>15, <1>20, <1>21 DEF Reading

(* What the unit is, when the reader is behind it.                         *)
LEMMA ExpectedFacts ==
  ASSUME WriterOK, written = Len(stream), NEW k \in 1..Len(stream), NEW nal \in Seq(Byte),
         NEW z \in Nat, z = IF k = Len(stream) /\ padding[k] < 3 THEN padding[k] ELSE 0,
         Len(nal) = Len(stream[k].data) + z,
         \A j \in 1..Len(stream[k].data) : nal[j] = stream[k].data[j],
         \A j \in 1..z : nal[Len(stream[k].data) + j] = 0
  PROVE  nal = Expected(k)
<1> DEFINE data == stream[k].data
           all == data \o Zeros(z)
<1>1. data \in Seq(Byte) /\ stream # << >>
  <2>1. stream \in Seq(Unit)
    BY StreamsAssumption DEF WriterOK
  <2>2. stream[k] \in Unit
    BY <2>1
  <2>3. QED
    BY <2>1, <2>2 DEF Unit
<1>2. PICK d \in Nat : d = Len(data)
  BY <1>1
<1>3. Zeros(z) \in Seq(Byte) /\ Len(Zeros(z)) = z /\ \A j \in 1..z : Zeros(z)[j] = 0
  BY ZerosFacts
<1>4. IsJoined(all, data, Zeros(z), d, z)
  <2> HIDE DEF data
  <2>1. QED
    BY <1>1, <1>2, <1>3, Joined
<1>5. Expected(k) = all
  <2>1. CASE k = Len(stream) /\ padding[k] < 3
    BY <1>1, <2>1 DEF Expected
  <2>2. CASE ~(k = Len(stream) /\ padding[k] < 3)
    <3>1. Zeros(0) = << >>
      BY DEF Zeros
    <3>2. QED
      BY <1>1, <2>2, <3>1 DEF Expected
  <2>3. QED
    BY <2>1, <2>2
<1> HIDE DEF all
<1>6. /\ Len(nal) = d + z
      /\ \A j \in 1..d : nal[j] = data[j]
      /\ \A j \in 1..z : nal[d + j] = 0
  BY <1>2
<1> HIDE DEF data
<1>7. all \in Seq(Byte) /\ Len(all) = d + z
  BY <1>4 DEF IsJoined
<1>8. ASSUME NEW j \in 1..d + z PROVE nal[j] = all[j]
  <2>1. CASE j <= d
    BY <1>4, <1>6, <2>1 DEF IsJoined
  <2>2. CASE j > d
    <3>1. PICK i \in 1..z : j = d + i
      BY <2>2
    <3>2. nal[d + i] = 0 /\ all[d + i] = Zeros(z)[i]
      BY <1>4, <1>6 DEF IsJoined
    <3>3. QED
      BY <1>3, <3>1, <3>2
  <2>3. QED
    BY <2>1, <2>2
<1>9. nal = all
  BY <1>6, <1>7, <1>8, SeqEqual
<1>10. QED
  BY <1>5, <1>9

(* What was read since the last unit, in parts.                            *)
LEMMA PartsCounted ==
  ASSUME file \in Seq(Byte), InputOK(in), begin \in Nat, taken \in Nat,
         nalUnit \in Seq(Byte), stats \in Counts,
         NEW c, HasRead(c), c[taken + 1] \in Nat, Code3(c[taken + 1]),
         ZerosBetween(c[taken + 1] + 3 + Len(nalUnit), Position(in))
  PROVE  SubSeq(file, begin + 1, Position(in))
           = Zeros(stats.leadingZero + stats.zeroByte)
               \o SubSeq(<<0, 0, 1>>, 1, stats.startCodePrefix)
               \o nalUnit \o Zeros(stats.trailingZero)
<1>1. PICK p \in Nat : p = Position(in) /\ p <= Len(file)
  BY InputFacts
<1>2. PICK n \in Nat : n = Len(nalUnit)
  OBVIOUS
<1>3. PICK q \in Nat : q = c[taken + 1]
  OBVIOUS
<1>4. PICK lead \in Nat, byte \in Nat, behind \in Nat :
        lead = stats.leadingZero /\ byte = stats.zeroByte /\ behind = stats.trailingZero
  BY DEF Counts
<1>5. /\ begin + lead + byte = q
      /\ q + 3 + n + behind = p
      /\ \A j \in 1..n : nalUnit[j] = file[q + 3 + j]
      /\ stats.startCodePrefix = 3
      /\ ZerosBetween(begin, q)
  BY <1>1, <1>2, <1>3, <1>4 DEF HasRead, Located, InFrontOf
<1>6. Code3(q) /\ ZerosBetween(q + 3 + n, p)
  BY <1>1, <1>2, <1>3
<1>7. PICK b \in Nat : b = begin
  OBVIOUS
<1>8. PICK zeros \in Nat : zeros = lead + byte
  OBVIOUS
<1>9. b + zeros = q /\ b + zeros + 3 + n + behind = p
  BY <1>5, <1>7, <1>8
<1>10. HasParts(b, p, zeros, 3, nalUnit, behind)
  BY <1>1, <1>2, <1>5, <1>6, <1>7, <1>9 DEF HasParts
<1>11. MadeOf(b, p, zeros, 3, nalUnit, behind)
  <2>1. 3 \in {0, 3}
    OBVIOUS
  <2>2. QED
    BY <1>10, <2>1, PartsOfFile
<1>12. QED
  BY <1>1, <1>4, <1>5, <1>7, <1>8, <1>11 DEF MadeOf

LEMMA EndUnitReads ==
  ASSUME WriterOK, NEW c, Layout(c), Reading(c), EndUnit
  PROVE  Reading(c)'
<1> DEFINE l == Look(in)
           p == Position(in)
           k == taken + 1
           n == Len(nalUnit)
<1>1. /\ phase = "trailing" /\ phase' = "decode"
      /\ UNCHANGED <<stream, written, padding, file, taken, again, nalUnit, location, begin, failed>>
      /\ AtStartCode(l) /\ in' = l
      /\ stats' = [stats EXCEPT !.bytesInNALUnit = Len(nalUnit)]
  BY DEF EndUnit, Return, writerVars
<1>2. /\ InputOK(in) /\ taken \in Nat /\ again \in BOOLEAN /\ ~failed /\ written = Len(stream)
      /\ begin \in Nat /\ location \in Nat /\ nalUnit \in Seq(Byte) /\ stats \in Counts
      /\ InTrailing(c) /\ file \in Seq(Byte) /\ Len(stream) \in Nat
  BY <1>1, StreamsAssumption DEF Reading, WriterOK
<1>3. /\ HasRead(c) /\ Located(c) /\ taken < Len(stream)
      /\ c[k] + 3 + n + stats.trailingZero = p
      /\ \A j \in 1..n : nalUnit[j] = file[c[k] + 3 + j]
      /\ Len(in.future) <= 3
      /\ n = Len(stream[k].data)
      /\ p <= c[taken + 2]
      /\ stats.trailingZero \in Nat
  BY <1>2 DEF InTrailing, HasRead, Counts
<1>4. k \in 1..Len(stream) /\ n \in Nat /\ taken + 2 = k + 1
  BY <1>2, <1>3
<1>5. /\ c[k] \in Nat /\ c[k + 1] \in Nat /\ Len(file) \in Nat
      /\ c[k + 1] <= Len(file) /\ Code3(c[k])
      /\ ZerosBetween(DataEnd(c, k), c[k + 1])
      /\ \A j \in 1..n : file[c[k] + 3 + j] = stream[k].data[j]
      /\ DataEnd(c, k) = c[k] + 3 + n
      /\ IF k = Len(stream) THEN c[k + 1] = Len(file) ELSE Code3(c[k + 1])
  BY <1>2, <1>3, <1>4, UnitFacts DEF UnitAt, DataEnd
<1>6. LittleAhead(in)
  BY <1>3 DEF LittleAhead
<1>7. /\ InputOK(l) /\ Position(l) = p
      /\ AtStartCode(l) <=> Code3(p) \/ Code4(p)
      /\ Code3(p) => Len(l.future) = 3
      /\ Code4(p) => Len(l.future) = 4
      /\ Code3(p) \/ Code4(p) => l.good = in.good
  BY <1>2, <1>6, LookFacts
<1>8. p \in Nat /\ l.tellg = p + Len(l.future)
  BY <1>2, <1>7, InputFacts
<1> HIDE DEF l, p, k, n
<1>9. c[k] + 3 + n <= p /\ p <= c[k + 1]
  <2> DEFINE q == c[k]  t == stats.trailingZero
  <2>1. q \in Nat /\ t \in Nat /\ q + 3 + n + t = p
    BY <1>3, <1>5
  <2> HIDE DEF q, t
  <2>2. q + 3 + n <= p
    BY <1>4, <2>1
  <2>3. QED
    BY <1>3, <1>4, <2>2 DEF q
<1>10. /\ ZerosBetween(c[k] + 3 + n, p)
       /\ InFrontOf(c, k + 1, p)
  <2> DEFINE q == c[k] + 3 + n  r == c[k + 1]
  <2>1. q \in Nat /\ r \in Nat /\ q <= p /\ p <= r
    BY <1>4, <1>5, <1>9
  <2>2. \A j \in q + 1..r : file[j] = 0
    BY <1>5 DEF ZerosBetween
  <2> HIDE DEF q, r
  <2>3. (\A j \in q + 1..p : file[j] = 0) /\ (\A j \in p + 1..r : file[j] = 0) /\ p \in 0..r
    BY <1>8, <2>1, <2>2
  <2>4. QED
    BY <2>3 DEF ZerosBetween, InFrontOf, q, r
<1>11. k # Len(stream) /\ Code3(c[k + 1])
  <2>1. c[k + 1] = Len(file) => ~Code3(p) /\ ~Code4(p)
    BY <1>2, <1>5, <1>8, <1>10, CodeInFront
  <2>2. QED
    BY <1>1, <1>5, <1>7, <2>1
<1>12. (Code3(p) <=> p = c[k + 1]) /\ (Code4(p) <=> p + 1 = c[k + 1])
  BY <1>2, <1>5, <1>8, <1>10, <1>11, CodeInFront
<1>13. /\ in.good = l.good
       /\ l.tellg = c[k + 1] + 3
       /\ LittleAhead(l)
  <2>1. CASE Code3(p)
    <3>1. Len(l.future) = 3 /\ p = c[k + 1] /\ l.tellg = p + 3
      BY <1>7, <1>8, <1>12, <2>1
    <3>2. LittleAhead(l)
      BY <3>1 DEF LittleAhead
    <3>3. QED
      BY <1>7, <2>1, <3>1, <3>2
  <2>2. CASE Code4(p)
    <3>1. Len(l.future) = 4 /\ p + 1 = c[k + 1] /\ l.tellg = p + 4
      BY <1>7, <1>8, <1>12, <2>2
    <3>2. LittleAhead(l)
      BY <1>7, <2>2, <3>1 DEF LittleAhead
    <3>3. l.tellg = p + 1 + 3
      BY <1>8, <3>1
    <3>4. QED
      BY <1>7, <2>2, <3>1, <3>2, <3>3
  <2>3. QED
    BY <1>1, <1>7, <2>1, <2>2
<1>14. k < Len(stream) /\ in.good
  <2>1. k < Len(stream)
    BY <1>2, <1>4, <1>11
  <2>2. ~in.good => k >= Len(stream)
    BY <1>3 DEF Located, k
  <2>3. QED
    BY <1>2, <1>4, <2>1, <2>2
<1>15. nalUnit = Expected(k)
  <2>1. Len(nalUnit) = Len(stream[k].data) + 0
    BY <1>3, <1>4 DEF n
  <2>2. \A j \in 1..Len(stream[k].data) : nalUnit[j] = stream[k].data[j]
    BY <1>3, <1>5
  <2>3. 0 = IF k = Len(stream) /\ padding[k] < 3 THEN padding[k] ELSE 0
    BY <1>11
  <2>4. \A j \in 1..0 : nalUnit[Len(stream[k].data) + j] = 0
    OBVIOUS
  <2>5. 0 \in Nat
    OBVIOUS
  <2>6. QED
    BY <1>2, <1>4, <2>1, <2>2, <2>3, <2>4, <2>5, ExpectedFacts, Zenon
<1>16. UnitsArrive'
  <2>1. Units \in Nat /\ Units = Len(stream) /\ Max({1, Len(stream)}) = Len(stream)
    <3>1. stream # << >> /\ Len(stream) >= 1
      BY <1>2, <1>4
    <3>2. QED
      BY <1>2, <3>1, MaxOfTwo DEF Units
  <2>2. Expected(k)' = Expected(k)'
    OBVIOUS
  <2>3. (nalUnit = Expected(taken + 1))'
    BY <1>1, <1>15 DEF k, Expected
  <2>4. (taken < Max({1, Len(stream)}))'
    BY <1>1, <1>3, <2>1
  <2>5. QED
    BY <2>3, <2>4 DEF UnitsArrive
<1>17. BytesCounted'
  <2>1. SubSeq(file, begin + 1, p)
          = Zeros(stats.leadingZero + stats.zeroByte)
               \o SubSeq(<<0, 0, 1>>, 1, stats.startCodePrefix)
               \o nalUnit \o Zeros(stats.trailingZero)
    BY <1>2, <1>3, <1>5, <1>10, PartsCounted DEF p, k, n
  <2>2. /\ stats'.leadingZero = stats.leadingZero
        /\ stats'.zeroByte = stats.zeroByte
        /\ stats'.startCodePrefix = stats.startCodePrefix
        /\ stats'.trailingZero = stats.trailingZero
    BY <1>1, <1>2 DEF Counts
  <2>3. (in.tellg - Len(in.future))' = p
    BY <1>1, <1>7 DEF Position
  <2>4. QED
    BY <1>1, <2>1, <2>2, <2>3 DEF BytesCounted, Zeros
<1>18. Located(c)'
  BY <1>1, <1>3, <1>13, <1>14 DEF Located, InFrontOf, ZerosBetween, Units
<1>19. InDecode(c)'
  <2>1. taken' + 1 = k /\ taken' + 2 = k + 1
    BY <1>1, <1>4 DEF k
  <2>2. Units' = Len(stream)
    BY <1>1, <1>4 DEF Units
  <2>3. in'.good /\ LittleAhead(in)'
    BY <1>1, <1>13, <1>14 DEF LittleAhead, Code4, Code3, Position
  <2>4. in'.tellg = c[taken' + 2] + 3
    BY <1>1, <1>13, <2>1
  <2>5. InFrontOf(c, taken + 2, Position(in))'
    BY <1>1, <1>4, <1>7, <1>10 DEF InFrontOf, ZerosBetween, Position
  <2>6. QED
    BY <1>14, <1>16, <1>17, <1>18, <2>1, <2>2, <2>3, <2>4, <2>5 DEF InDecode
<1>20. InputOK(in)'
  BY <1>1, <1>7 DEF InputOK, Position
<1>21. (stats \in Counts)'
  BY <1>1, <1>2, SMTT(60), ZenonT(60) DEF Counts
<1>22. QED
  BY <1>1, <1>2, <1>19, <1>20, <1>21 DEF Reading

(* A file without units ends while the reader looks for one.               *)
LEMMA EndsInLeading ==
  ASSUME WriterOK, NEW c, Layout(c), Reading(c), EndOfFile, phase = "leading"
  PROVE  Reading(c)'
<1> DEFINE l == Look(in)
           p == Position(in)
<1>1. /\ phase' = "decode"
      /\ UNCHANGED <<stream, written, padding, file, taken, again, nalUnit, location, begin, failed>>
      /\ ~HasByte(l) /\ in' = l
      /\ stats' = [stats EXCEPT !.bytesInNALUnit = Len(nalUnit)]
  BY DEF EndOfFile, Return, writerVars
<1>2. /\ InputOK(in) /\ taken \in Nat /\ again \in BOOLEAN /\ ~failed /\ written = Len(stream)
      /\ begin \in Nat /\ location \in Nat /\ nalUnit \in Seq(Byte) /\ stats \in Counts
      /\ InLeading(c) /\ file \in Seq(Byte)
  BY DEF Reading, WriterOK
<1>3. /\ Located(c) /\ taken < Units /\ LittleAhead(in) /\ InFrontOf(c, taken + 1, p)
      /\ nalUnit = << >> /\ begin + stats.leadingZero = p
      /\ stats.zeroByte = 0 /\ stats.startCodePrefix = 0 /\ stats.trailingZero = 0
      /\ InFrontOf(c, taken + 1, begin)
      /\ stats.leadingZero \in Nat
  BY <1>2 DEF InLeading, Located, Counts
<1>4. /\ c[taken + 1] \in Nat /\ c[taken + 1] <= Len(file) /\ Len(file) \in Nat
      /\ IF stream = << >> THEN taken = 0 /\ c[taken + 1] = Len(file)
         ELSE taken + 1 \in 1..Len(stream) /\ Code3(c[taken + 1])
  BY <1>2, <1>3, HereFacts
<1>5. /\ InputOK(l) /\ Position(l) = p
      /\ HasByte(l) <=> p < Len(file)
      /\ ~HasByte(l) => ~l.good
  BY <1>2, <1>3, LookFacts
<1>6. p \in Nat /\ p <= Len(file)
  BY <1>2, InputFacts
<1> HIDE DEF l, p
<1>7. p = Len(file) /\ c[taken + 1] = Len(file) /\ ~l.good
  BY <1>1, <1>3, <1>4, <1>5, <1>6 DEF InFrontOf
<1>8. stream = << >> /\ taken = 0 /\ Len(stream) = 0
  BY <1>4, <1>7 DEF Code3
<1>9. UnitsArrive'
  <2>1. Max({1, 0}) = 1
    BY MaxOfTwo
  <2>2. (taken < Max({1, Len(stream)}))'
    BY <1>1, <1>8, <2>1
  <2>3. (nalUnit = Expected(taken + 1))'
    BY <1>1, <1>3, <1>8 DEF Expected
  <2>4. QED
    BY <2>2, <2>3 DEF UnitsArrive
<1>10. BytesCounted'
  <2>1. PICK b \in Nat, lead \in Nat : b = begin /\ lead = stats.leadingZero
    BY <1>2, <1>3
  <2>2. b + lead = p
    BY <1>3, <2>1
  <2>3. \A j \in b + 1..p : file[j] = 0
    BY <1>3, <1>7, <2>1 DEF InFrontOf, ZerosBetween
  <2>4. HasParts(b, p, lead, 0, << >>, 0)
    BY <1>6, <1>7, <2>2, <2>3 DEF HasParts, ZerosBetween
  <2>5. MadeOf(b, p, lead, 0, << >>, 0)
    <3>1. << >> \in Seq(Byte) /\ 0 \in {0, 3} /\ 0 \in Nat
      OBVIOUS
    <3>2. QED
      BY <1>2, <1>6, <2>1, <2>4, <3>1, PartsOfFile
  <2>6. /\ stats'.leadingZero + stats'.zeroByte = lead
        /\ stats'.startCodePrefix = 0 /\ stats'.trailingZero = 0
    BY <1>1, <1>2, <1>3, <2>1 DEF Counts
  <2>7. (in.tellg - Len(in.future))' = p
    BY <1>1, <1>5 DEF Position
  <2>8. begin' = b /\ nalUnit' = << >> /\ file' = file
    BY <1>1, <1>3, <2>1
  <2>9. QED
    BY <2>5, <2>6, <2>7, <2>8 DEF BytesCounted, MadeOf, Zeros
<1>11. InputOK(in)'
  BY <1>1, <1>5 DEF InputOK, Position
<1>12. Located(c)'
  <2>1. (taken + 1 >= Len(stream))'
    BY <1>1, <1>8
  <2>2. QED
    BY <1>1, <1>3, <2>1 DEF Located, InFrontOf, ZerosBetween, Units
<1>13. (taken + 1 = Units)' /\ ~in'.good
  BY <1>1, <1>7, <1>8 DEF Units
<1>14. InDecode(c)'
  BY <1>9, <1>10, <1>12, <1>13 DEF InDecode
<1>15. (stats \in Counts)'
  BY <1>1, <1>2, <1>3 DEF Counts
<1>16. QED
  BY <1>1, <1>2, <1>11, <1>14, <1>15 DEF Reading

(* The end of the file ends the last unit: what is left behind its data    *)
(* belongs to it, if this is less than three bytes.                        *)
LEMMA EndsInUnit ==
  ASSUME WriterOK, NEW c, Layout(c), Reading(c), EndOfFile, phase \in {"payload", "trailing"}
  PROVE  Reading(c)'
<1> DEFINE l == IF phase = "payload" THEN Fetch(in, 3) ELSE Look(in)
           p == Position(in)
           k == taken + 1
           n == Len(nalUnit)
<1>1. /\ phase' = "decode"
      /\ UNCHANGED <<stream, written, padding, file, taken, again, nalUnit, location, begin, failed>>
      /\ ~HasByte(l) /\ in' = l
      /\ stats' = [stats EXCEPT !.bytesInNALUnit = Len(nalUnit)]
  BY DEF EndOfFile, Return, writerVars
<1>2. /\ InputOK(in) /\ taken \in Nat /\ again \in BOOLEAN /\ ~failed /\ written = Len(stream)
      /\ begin \in Nat /\ location \in Nat /\ nalUnit \in Seq(Byte) /\ stats \in Counts
      /\ IF phase = "payload" THEN InPayload(c) ELSE InTrailing(c)
      /\ file \in Seq(Byte) /\ Len(stream) \in Nat
  BY StreamsAssumption DEF Reading, WriterOK
<1>3. /\ HasRead(c) /\ Located(c) /\ taken < Len(stream)
      /\ c[k] + 3 + n + stats.trailingZero = p
      /\ \A j \in 1..n : nalUnit[j] = file[c[k] + 3 + j]
      /\ Len(in.future) <= 3
      /\ stats.trailingZero \in Nat
  BY <1>2 DEF InPayload, InTrailing, HasRead, Counts
<1>4. k \in 1..Len(stream) /\ n \in Nat /\ taken + 2 = k + 1
  BY <1>2, <1>3
<1>5. /\ c[k] \in Nat /\ c[k + 1] \in Nat /\ Len(file) \in Nat
      /\ c[k + 1] <= Len(file) /\ Code3(c[k])
      /\ ZerosBetween(DataEnd(c, k), c[k + 1])
      /\ \A j \in 1..Len(stream[k].data) : file[c[k] + 3 + j] = stream[k].data[j]
      /\ DataEnd(c, k) = c[k] + 3 + Len(stream[k].data) /\ DataEnd(c, k) <= c[k + 1]
      /\ Len(stream[k].data) \in Nat /\ padding[k] \in Nat
      /\ IF k = Len(stream) THEN c[k + 1] = Len(file) /\ DataEnd(c, k) + padding[k] = Len(file)
         ELSE Code3(c[k + 1])
  BY <1>2, <1>4, UnitFacts DEF UnitAt, DataEnd
<1>6. LittleAhead(in)
  BY <1>3 DEF LittleAhead
<1>7. /\ InputOK(l) /\ Position(l) = p
      /\ HasByte(l) <=> p < Len(file)
      /\ ~HasByte(l) => ~l.good
  BY <1>2, <1>6, LookFacts, EndsUnitFacts
<1>8. p \in Nat /\ p <= Len(file)
  BY <1>2, InputFacts
<1>9. phase = "payload" => /\ stats.trailingZero = 0
                           /\ n <= Len(stream[k].data) \/ (k = Len(stream) /\ padding[k] < 3)
  BY <1>2 DEF InPayload
<1>10. phase # "payload" => /\ n = Len(stream[k].data) /\ p <= c[k + 1]
                            /\ k = Len(stream) => padding[k] >= 3
  BY <1>2, <1>4 DEF InTrailing
<1> HIDE DEF l, p, k, n
<1>11. p = Len(file) /\ ~l.good
  BY <1>1, <1>5, <1>7, <1>8
<1>12. PICK d \in Nat, q \in Nat, next \in Nat, z \in Nat, t \in Nat :
         d = Len(stream[k].data) /\ q = c[k] /\ next = c[k + 1] /\ z = padding[k]
         /\ t = stats.trailingZero
  BY <1>3, <1>5
<1>13. /\ q + 3 + n + t = p /\ q + 3 + d <= next /\ next <= p
       /\ k = Len(stream) => next = p /\ q + 3 + d + z = p
       /\ k # Len(stream) => next + 3 <= p
       /\ \A j \in q + 3 + d + 1..next : file[j] = 0
       /\ \A j \in 1..d : file[q + 3 + j] = stream[k].data[j]
       /\ \A j \in 1..n : nalUnit[j] = file[q + 3 + j]
       /\ phase = "payload" => t = 0 /\ (n <= d \/ (k = Len(stream) /\ z < 3))
       /\ phase # "payload" => n = d /\ p <= next /\ (k = Len(stream) => z >= 3)
  BY <1>3, <1>5, <1>9, <1>10, <1>11, <1>12 DEF Code3, ZerosBetween
<1>14. /\ k = Len(stream)
       /\ n = d + (IF z < 3 THEN z ELSE 0)
       /\ next = p /\ q + 3 + d + z = p
       /\ z < 3 => t = 0
  <2>1. CASE phase = "payload"
    <3>1. CASE k # Len(stream)
      BY <1>4, <1>8, <1>13, <2>1, <3>1
    <3>2. CASE k = Len(stream)
      BY <1>4, <1>8, <1>13, <2>1, <3>2
    <3>3. QED
      BY <3>1, <3>2
  <2>2. CASE phase # "payload"
    <3>1. k = Len(stream)
      BY <1>8, <1>13, <2>2
    <3>2. QED
      BY <1>4, <1>8, <1>13, <2>2, <3>1
  <2>3. QED
    BY <2>1, <2>2
<1>15. nalUnit = Expected(k)
  <2>1. PICK y \in Nat : y = IF z < 3 THEN z ELSE 0
    OBVIOUS
  <2>2. y = IF k = Len(stream) /\ padding[k] < 3 THEN padding[k] ELSE 0
    <3>1. k = Len(stream) /\ padding[k] = z
      BY <1>12, <1>14
    <3>2. QED
      BY <2>1, <3>1
  <2>3. Len(nalUnit) = d + y
    BY <1>14, <2>1 DEF n
  <2>4. ASSUME NEW j \in 1..d PROVE nalUnit[j] = stream[k].data[j]
    <3>1. j \in 1..n
      BY <1>4, <1>14
    <3>2. QED
      BY <1>13, <3>1
  <2>5. ASSUME NEW j \in 1..y PROVE nalUnit[d + j] = 0
    <3>1. d + j \in 1..n /\ q + 3 + d + j \in q + 3 + d + 1..next
      BY <1>4, <1>8, <1>14, <2>1
    <3>2. nalUnit[d + j] = file[q + 3 + (d + j)] /\ q + 3 + (d + j) = q + 3 + d + j
      BY <1>13, <3>1
    <3>3. QED
      BY <1>13, <3>1, <3>2
  <2>6. QED
    BY <1>2, <1>4, <1>12, <2>2, <2>3, <2>4, <2>5, ExpectedFacts
<1>16. Units = Len(stream) /\ Max({1, Len(stream)}) = Len(stream)
  <2>1. stream # << >> /\ Len(stream) >= 1
    BY <1>2, <1>4
  <2>2. QED
    BY <1>2, <2>1, MaxOfTwo DEF Units
<1>17. UnitsArrive'
  <2>1. (nalUnit = Expected(taken + 1))'
    BY <1>1, <1>15 DEF k, Expected
  <2>2. (taken < Max({1, Len(stream)}))'
    BY <1>1, <1>3, <1>16
  <2>3. QED
    BY <2>1, <2>2 DEF UnitsArrive
<1>18. ZerosBetween(c[k] + 3 + n, p)
  <2>1. ASSUME NEW j \in q + 3 + n + 1..p PROVE file[j] = 0
    <3>1. d <= n
      BY <1>4, <1>14
    <3>2. j \in q + 3 + d + 1..next
      BY <1>4, <1>8, <1>14, <3>1
    <3>3. QED
      BY <1>13, <3>2
  <2>2. QED
    BY <1>12, <2>1 DEF ZerosBetween
<1>19. BytesCounted'
  <2>1. SubSeq(file, begin + 1, p)
          = Zeros(stats.leadingZero + stats.zeroByte)
               \o SubSeq(<<0, 0, 1>>, 1, stats.startCodePrefix)
               \o nalUnit \o Zeros(stats.trailingZero)
    BY <1>2, <1>3, <1>5, <1>18, PartsCounted DEF p, k, n
  <2>2. /\ stats'.leadingZero = stats.leadingZero
        /\ stats'.zeroByte = stats.zeroByte
        /\ stats'.startCodePrefix = stats.startCodePrefix
        /\ stats'.trailingZero = stats.trailingZero
    BY <1>1, <1>2 DEF Counts
  <2>3. (in.tellg - Len(in.future))' = p
    BY <1>1, <1>7 DEF Position
  <2>4. QED
    BY <1>1, <2>1, <2>2, <2>3 DEF BytesCounted, Zeros
<1>20. Located(c)'
  <2>1. (taken + 1 >= Len(stream))'
    BY <1>1, <1>2, <1>14 DEF k
  <2>2. QED
    BY <1>1, <1>3, <2>1 DEF Located, InFrontOf, ZerosBetween, Units
<1>21. InDecode(c)'
  <2>1. (taken + 1 = Units)' /\ ~in'.good
    BY <1>1, <1>11, <1>14, <1>16 DEF k, Units
  <2>2. QED
    BY <1>17, <1>19, <1>20, <2>1 DEF InDecode
<1>22. InputOK(in)'
  BY <1>1, <1>7 DEF InputOK, Position
<1>23. (stats \in Counts)'
  BY <1>1, <1>2, <1>4 DEF Counts, n
<1>24. QED
  BY <1>1, <1>2, <1>21, <1>22, <1>23 DEF Reading

LEMMA DecodeReads ==
  ASSUME WriterOK, NEW c, Layout(c), Reading(c), Decode
  PROVE  Reading(c)'
<1>1. /\ phase = "decode" /\ phase' = "turn"
      /\ UNCHANGED <<stream, written, padding, file, in, nalUnit, stats, location, begin, failed>>
      /\ taken' = taken + 1 /\ again' = FALSE
  BY DEF Decode, writerVars
<1>2. /\ InputOK(in) /\ taken \in Nat /\ ~failed /\ written = Len(stream)
      /\ begin \in Nat /\ location \in Nat /\ nalUnit \in Seq(Byte) /\ stats \in Counts
      /\ InDecode(c) /\ Len(stream) \in Nat
  BY <1>1, StreamsAssumption DEF Reading, WriterOK
<1>3. taken < Units /\ Units \in Nat /\ Units' = Units
  BY <1>1, <1>2 DEF InDecode, Located, Units
<1>4. taken' \in Nat /\ taken' + 1 = taken + 2
  BY <1>1, <1>2
<1>5. InputOK(in)'
  BY <1>1, <1>2 DEF InputOK, Position
<1>6. InTurn(c)'
  <2>1. CASE taken + 1 = Units
    BY <1>1, <1>2, <1>3, <2>1 DEF InDecode, InTurn
  <2>2. CASE taken + 1 # Units
    <3>1. taken' < Units' /\ taken' # Units'
      BY <1>1, <1>2, <1>3, <2>2
    <3>2. in.good /\ InFrontOf(c, taken + 2, Position(in)) /\ LittleAhead(in) /\ in.tellg = c[taken + 2] + 3
      BY <1>2, <2>2 DEF InDecode
    <3>3. InFrontOf(c, taken + 1, Position(in))' /\ LittleAhead(in)'
      BY <1>1, <1>4, <3>2 DEF InFrontOf, ZerosBetween, LittleAhead, Position, Code4, Code3
    <3>4. QED
      BY <1>1, <1>4, <3>1, <3>2, <3>3 DEF InTurn
  <2>3. QED
    BY <2>1, <2>2
<1>7. (stats \in Counts)'
  BY <1>1, <1>2 DEF Counts
<1>8. QED
  BY <1>1, <1>2, <1>4, <1>5, <1>6, <1>7 DEF Reading

(* The main loop goes back to the start code of the unit that was read.    *)
LEMMA FindNewPictureReads ==
  ASSUME WriterOK, NEW c, Layout(c), Reading(c), FindNewPicture
  PROVE  Reading(c)'
<1>1. /\ phase = "decode" /\ phase' = "turn"
      /\ UNCHANGED <<stream, written, padding, file, nalUnit, stats, location, begin, taken, failed>>
      /\ taken > 0 /\ ~again
      /\ in' = Reset(location - 3) /\ again' = TRUE
  BY DEF FindNewPicture, ReadAgainAt, writerVars
<1>2. /\ InputOK(in) /\ taken \in Nat /\ ~failed /\ written = Len(stream)
      /\ begin \in Nat /\ location \in Nat /\ nalUnit \in Seq(Byte) /\ stats \in Counts
      /\ InDecode(c)
  BY <1>1 DEF Reading
<1>3. taken < Units /\ location = c[taken + 1] + 3
  BY <1>1, <1>2 DEF InDecode, Located
<1>4. c[taken + 1] \in Nat /\ c[taken + 1] <= Len(file) /\ Len(file) \in Nat
  BY <1>2, <1>3, HereFacts
<1>5. PICK q \in Nat : q = c[taken + 1] /\ q <= Len(file)
  BY <1>4
<1>6. location - 3 = q
  BY <1>3, <1>5
<1>7. in' = [tellg |-> q, future |-> << >>, good |-> TRUE]
  BY <1>1, <1>6 DEF Reset
<1>8. /\ in'.tellg = q /\ in'.future = << >> /\ in'.good = TRUE
      /\ Len(in'.future) = 0 /\ (Position(in))' = q
      /\ in' \in [tellg : Nat, future : Seq(Byte), good : BOOLEAN]
  BY <1>7 DEF Position
<1>9. InputOK(in)'
  BY <1>1, <1>4, <1>5, <1>8 DEF InputOK
<1>10. InFrontOf(c, taken + 1, Position(in))'
  BY <1>1, <1>5, <1>8 DEF InFrontOf, ZerosBetween
<1>11. LittleAhead(in)'
  BY <1>8 DEF LittleAhead
<1>12. InTurn(c)'
  <2>1. taken' < Units' /\ taken' # Units'
    <3>1. Units \in Nat
      BY StreamsAssumption DEF WriterOK, Units
    <3>2. QED
      BY <1>1, <1>2, <1>3, <3>1 DEF Units
  <2>2. QED
    BY <1>1, <1>8, <1>10, <1>11, <2>1 DEF InTurn
<1>13. (stats \in Counts)'
  BY <1>1, <1>2 DEF Counts
<1>14. QED
  BY <1>1, <1>2, <1>9, <1>12, <1>13 DEF Reading

LEMMA FinishReads ==
  ASSUME WriterOK, NEW c, Layout(c), Reading(c), Finish
  PROVE  Reading(c)'
<1>1. /\ phase = "turn" /\ phase' = "end" /\ ~in.good
      /\ UNCHANGED <<stream, written, padding, file, in, nalUnit, stats, location, begin, taken, again, failed>>
  BY DEF Finish, writerVars
<1>2. taken = Units
  BY <1>1 DEF Reading, InTurn
<1>3. (taken = Units)'
  BY <1>1, <1>2 DEF Units
<1>4. InputOK(in)' /\ (stats \in Counts)'
  BY <1>1 DEF Reading, InputOK, Position, Counts
<1>5. QED
  BY <1>1, <1>3, <1>4 DEF Reading

-----------------------------------------------------------------------------
(* The steps of the writer.                                                *)

LEMMA WriterStarts ==
  ASSUME Init
  PROVE  IInv
<1>1. PICK n \in 0..MaxPadding : file = Zeros(n)
  BY DEF Init
<1>2. /\ stream \in Streams /\ written = 0 /\ padding = << >> /\ phase = "write"
      /\ in = Reset(0) /\ nalUnit = << >> /\ stats = NoStats
      /\ location = 0 /\ begin = 0 /\ taken = 0 /\ again = FALSE /\ failed = FALSE
  BY DEF Init
<1>3. n \in Nat /\ file \in Seq(Byte) /\ Len(file) = n /\ \A j \in 1..n : file[j] = 0
  BY <1>1, ZerosFacts, MaxPaddingAssumption
<1>4. WriterOK
  <2>1. Len(stream) \in Nat
    BY <1>2, StreamsAssumption
  <2>2. padding \in Seq(Nat) /\ Len(padding) = 0
    BY <1>2
  <2>3. QED
    BY <1>2, <1>3, <2>1, <2>2 DEF WriterOK
<1>5. PICK c : c = [k \in 1..1 |-> n]
  OBVIOUS
<1>6. Layout(c)
  <2>1. c \in [1..written + 1 -> Nat] /\ c[written + 1] = Len(file) /\ c[1] = n
    BY <1>2, <1>3, <1>5
  <2>2. ZerosBetween(0, c[1])
    BY <1>3, <2>1 DEF ZerosBetween
  <2>3. QED
    BY <1>2, <2>1, <2>2 DEF Layout
<1>7. QED
  BY <1>2, <1>4, <1>6 DEF IInv, Writing

LEMMA CloseReads ==
  ASSUME WriterOK, NEW c, Layout(c), Writing, Close
  PROVE  Reading(c)'
<1>1. /\ phase' = "turn" /\ written = Len(stream)
      /\ UNCHANGED <<stream, written, padding, file, in, nalUnit, stats, location, begin, taken, again, failed>>
  BY DEF Close, writerVars
<1>2. /\ in = [tellg |-> 0, future |-> << >>, good |-> TRUE]
      /\ taken = 0 /\ again = FALSE /\ failed = FALSE
      /\ begin = 0 /\ location = 0 /\ nalUnit = << >> /\ stats = NoStats
  BY DEF Writing, Reset
<1>3. taken < Units /\ Units \in Nat /\ taken # Units /\ Units' = Units
  <2>1. stream \in Seq(Unit)
    BY StreamsAssumption DEF WriterOK
  <2>2. Units \in Nat /\ Units > 0
    BY <2>1 DEF Units
  <2>3. Units' = Units
    BY <1>1 DEF Units
  <2>4. QED
    BY <1>2, <2>2, <2>3
<1>4. c[1] \in Nat /\ ZerosBetween(0, c[1]) /\ Len(file) \in Nat
  <2>1. 1 \in 1..written + 1 /\ Len(file) \in Nat
    BY DEF WriterOK
  <2>2. QED
    BY <2>1 DEF Layout
<1>5. /\ in' = in /\ in.tellg = 0 /\ in.future = << >> /\ in.good = TRUE
      /\ Len(in.future) = 0 /\ Position(in) = 0 /\ (Position(in))' = 0
      /\ in \in [tellg : Nat, future : Seq(Byte), good : BOOLEAN]
  BY <1>1, <1>2 DEF Position
<1>6. InputOK(in)'
  BY <1>1, <1>4, <1>5 DEF InputOK
<1>7. InFrontOf(c, taken + 1, Position(in))'
  BY <1>1, <1>2, <1>4, <1>5 DEF InFrontOf, ZerosBetween
<1>8. LittleAhead(in)'
  BY <1>5 DEF LittleAhead
<1>9. InTurn(c)'
  BY <1>1, <1>2, <1>3, <1>5, <1>7, <1>8 DEF InTurn
<1>10. (stats \in Counts)'
  BY <1>1, <1>2 DEF NoStats, Counts
<1>11. /\ taken' \in Nat /\ begin' \in Nat /\ location' \in Nat
       /\ nalUnit' \in Seq(Byte) /\ again' \in BOOLEAN /\ ~failed' /\ written' = Len(stream')
  <2>1. nalUnit' = << >> /\ << >> \in Seq(Byte)
    BY <1>1, <1>2
  <2>2. taken' = 0 /\ begin' = 0 /\ location' = 0 /\ again' = FALSE /\ failed' = FALSE
    BY <1>1, <1>2
  <2>3. written' = Len(stream')
    BY <1>1
  <2>4. QED
    BY <2>1, <2>2, <2>3
<1>12. QED
  BY <1>1, <1>6, <1>9, <1>10, <1>11 DEF Reading

LEMMA UnitIsWritten ==
  ASSUME WriterOK, NEW c, Layout(c), WriteUnit
  PROVE  WriterOK' /\ \E x : Layout(x)'
<1> DEFINE w == written
           u == stream[w + 1]
<1>1. PICK n \in 0..MaxPadding :
        /\ file' = file \o StartCode(u) \o u.data \o Zeros(n)
        /\ padding' = Append(padding, n)
  BY DEF WriteUnit
<1>2. /\ stream' = stream /\ written' = w + 1 /\ w < Len(stream)
      /\ stream \in Seq(Unit) /\ w \in Nat /\ n \in Nat /\ Len(stream) \in Nat
      /\ file \in Seq(Byte) /\ padding \in Seq(Nat) /\ Len(padding) = w
  BY StreamsAssumption, MaxPaddingAssumption DEF WriteUnit, WriterOK
<1>3. u.data \in Seq(Byte)
  <2>1. u \in Unit
    BY <1>2
  <2>2. QED
    BY <2>1 DEF Unit
<1> HIDE DEF u
<1>4. PICK z \in Nat : /\ z <= 1
                       /\ Len(StartCode(u)) = z + 3
                       /\ StartCode(u) \in Seq(Byte)
                       /\ z = 1 => StartCode(u)[1] = 0
                       /\ StartCode(u)[z + 1] = 0 /\ StartCode(u)[z + 2] = 0 /\ StartCode(u)[z + 3] = 1
  <2>1. CASE u.first \/ u.type \in {"VPS", "SPS", "PPS"}
    <3>1. StartCode(u) = <<0, 0, 0, 1>>
      BY <2>1 DEF StartCode
    <3>2. QED
      BY <3>1 DEF Byte
  <2>2. CASE ~(u.first \/ u.type \in {"VPS", "SPS", "PPS"})
    <3>1. StartCode(u) = <<0, 0, 1>>
      BY <2>2 DEF StartCode
    <3>2. QED
      BY <3>1 DEF Byte
  <2>3. QED
    BY <2>1, <2>2
<1>5. PICK e \in Nat, d \in Nat, s \in Nat : e = Len(file) /\ d = Len(u.data) /\ s = z + 3
  BY <1>2, <1>3
<1>5a. z + 3 = s
  BY <1>5
<1>6. AreJoined(file', file, StartCode(u), u.data, Zeros(n), e, s, d, n)
  BY <1>1, <1>2, <1>3, <1>4, <1>5, ZerosFacts, FourJoined
<1>7. /\ file' \in Seq(Byte) /\ Len(file') = e + s + d + n
      /\ \A j \in 1..e : file'[j] = file[j]
      /\ \A j \in 1..s : file'[e + j] = StartCode(u)[j]
      /\ \A j \in 1..d : file'[e + s + j] = u.data[j]
      /\ \A j \in 1..n : file'[e + s + d + j] = 0
  <2>1. \A j \in 1..n : Zeros(n)[j] = 0
    BY <1>2, ZerosFacts
  <2>2. QED
    BY <1>6, <2>1 DEF AreJoined
<1>8. WriterOK'
  <2>1. padding' \in Seq(Nat) /\ Len(padding') = w + 1
    BY <1>1, <1>2
  <2>2. stream' \in Streams /\ written' \in 0..Len(stream')
    BY <1>2 DEF WriterOK
  <2>3. QED
    BY <1>2, <1>7, <2>1, <2>2 DEF WriterOK
<1>9. PICK m \in Nat : m = w
  BY <1>2
<1>10. PICK x : x = [k \in 1..m + 2 |-> IF k <= m THEN c[k] ELSE IF k = m + 1 THEN e + z ELSE e + s + d + n]
  OBVIOUS
<1>11. /\ c \in [1..m + 1 -> Nat] /\ c[m + 1] = e
       /\ \A j \in 1..c[1] : file[j] = 0
       /\ m > 0 => DataEnd(c, m) + padding[m] = e
  BY <1>5, <1>9 DEF Layout, ZerosBetween
<1>12. /\ x \in [1..m + 2 -> Nat] /\ x[m + 1] = e + z /\ x[m + 2] = e + s + d + n
       /\ \A k \in 1..m : x[k] = c[k]
  BY <1>10, <1>11
<1>13. ASSUME NEW k \in 1..m
       PROVE  /\ c[k] \in Nat /\ c[k + 1] \in Nat /\ c[k] + 3 <= e /\ c[k + 1] <= e
              /\ file[c[k] + 1] = 0 /\ file[c[k] + 2] = 0 /\ file[c[k] + 3] = 1
              /\ Len(stream[k].data) \in Nat
              /\ \A j \in 1..Len(stream[k].data) : file[c[k] + 3 + j] = stream[k].data[j]
              /\ DataEnd(c, k) = c[k] + 3 + Len(stream[k].data)
              /\ DataEnd(c, k) <= c[k + 1]
              /\ \A j \in DataEnd(c, k) + 1..c[k + 1] : file[j] = 0
  <2>1. UnitAt(c, k)
    BY <1>9 DEF Layout
  <2>2. c[k] \in Nat /\ c[k + 1] \in Nat
    BY <1>11
  <2>3. Len(stream[k].data) \in Nat
    <3>1. k \in 1..Len(stream)
      BY <1>2, <1>9
    <3>2. stream[k] \in Unit
      BY <1>2, <3>1
    <3>3. QED
      BY <3>2 DEF Unit
  <2>4. c[k + 1] <= e
    <3>1. CASE k = m
      BY <1>11, <3>1
    <3>2. CASE k # m
      <4>1. k + 1 \in 1..written
        BY <1>9, <3>2
      <4>2. Code3(c[k + 1])
        BY <4>1 DEF Layout, UnitAt
      <4>3. QED
        BY <1>5, <2>2, <4>2 DEF Code3
    <3>3. QED
      BY <3>1, <3>2
  <2>5. QED
    BY <1>5, <2>1, <2>2, <2>3, <2>4 DEF UnitAt, Code3, ZerosBetween, DataEnd
<1>14. z = 1 => file'[e + 1] = 0
  <2>1. 1 \in 1..s
    BY <1>5a
  <2>2. file'[e + 1] = StartCode(u)[1]
    BY <1>7, <2>1
  <2>3. QED
    BY <1>4, <2>2
<1>15. ASSUME NEW k \in 1..m PROVE UnitAt(x, k)'
  <2>1. x[k] = c[k] /\ (k # m => x[k + 1] = c[k + 1]) /\ (k = m => c[k + 1] = e /\ x[k + 1] = e + z)
    BY <1>11, <1>12
  <2>2. PICK q \in Nat, l \in Nat, next \in Nat, new \in Nat :
          q = c[k] /\ l = Len(stream[k].data) /\ next = c[k + 1] /\ new = x[k + 1]
    <3>1. c[k] \in Nat /\ Len(stream[k].data) \in Nat /\ c[k + 1] \in Nat
      BY <1>13
    <3>2. x[k + 1] \in Nat
      BY <1>12
    <3>3. QED
      BY <3>1, <3>2
  <2>3. /\ q + 3 <= e /\ next <= e /\ q + 3 + l <= next
        /\ file[q + 1] = 0 /\ file[q + 2] = 0 /\ file[q + 3] = 1
        /\ \A j \in 1..l : file[q + 3 + j] = stream[k].data[j]
        /\ \A j \in q + 3 + l + 1..next : file[j] = 0
        /\ new = next \/ (new = next + 1 /\ z = 1 /\ next = e)
    <3>1. z = 0 \/ z = 1
      BY <1>4
    <3>2. new = next \/ (new = next + 1 /\ z = 1 /\ next = e)
      BY <2>1, <2>2, <3>1
    <3>3. DataEnd(c, k) = q + 3 + l
      BY <1>13, <2>2
    <3>4. QED
      BY <1>13, <2>2, <3>2, <3>3
  <2>4. file'[q + 1] = 0 /\ file'[q + 2] = 0 /\ file'[q + 3] = 1
    BY <1>7, <2>3
  <2>5. \A j \in 1..l : file'[q + 3 + j] = stream[k].data[j]
    <3>1. TAKE j \in 1..l
    <3>2. q + 3 + j \in 1..e
      BY <2>3
    <3>3. QED
      BY <1>7, <2>3, <3>2
  <2>6. \A j \in q + 3 + l + 1..new : file'[j] = 0
    <3>1. TAKE j \in q + 3 + l + 1..new
    <3>2. CASE j <= next
      <4>1. j \in 1..e /\ j \in q + 3 + l + 1..next
        BY <2>3, <3>2
      <4>2. QED
        BY <1>7, <2>3, <4>1
    <3>3. CASE j > next
      <4>1. j = e + 1 /\ z = 1
        BY <2>3, <3>3
      <4>2. QED
        BY <1>14, <4>1
    <3>4. QED
      BY <3>2, <3>3
  <2>7. q + 3 <= Len(file') /\ q + 3 + l <= new
    BY <1>7, <2>3
  <2>8. (DataEnd(x, k))' = q + 3 + l
    BY <1>2, <2>1, <2>2 DEF DataEnd
  <2>9. QED
    BY <1>2, <2>1, <2>2, <2>4, <2>5, <2>6, <2>7, <2>8 DEF UnitAt, Code3, ZerosBetween
<1>16. UnitAt(x, m + 1)'
  <2>1. file'[e + z + 1] = 0 /\ file'[e + z + 2] = 0 /\ file'[e + z + 3] = 1
    <3>1. z + 1 \in 1..s /\ z + 2 \in 1..s /\ z + 3 \in 1..s
      BY <1>5
    <3>2. file'[e + (z + 1)] = 0 /\ file'[e + (z + 2)] = 0 /\ file'[e + (z + 3)] = 1
      BY <1>4, <1>7, <3>1
    <3>3. e + (z + 1) = e + z + 1 /\ e + (z + 2) = e + z + 2 /\ e + (z + 3) = e + z + 3
      OBVIOUS
    <3>4. QED
      BY <3>2, <3>3
  <2>2. stream'[m + 1] = u
    BY <1>2, <1>9 DEF u
  <2>3. (DataEnd(x, m + 1))' = e + s + d
    <3>1. (DataEnd(x, m + 1))' = e + z + 3 + d
      BY <1>5, <1>12, <2>2 DEF DataEnd
    <3>2. e + z + 3 + d = e + s + d
      BY <1>5a
    <3>3. QED
      BY <3>1, <3>2
  <2>4. \A j \in 1..d : file'[e + z + 3 + j] = u.data[j]
    <3>1. e + z + 3 = e + s
      BY <1>5
    <3>2. QED
      BY <1>7, <3>1
  <2>5. \A j \in e + s + d + 1..e + s + d + n : file'[j] = 0
    <3>1. TAKE j \in e + s + d + 1..e + s + d + n
    <3>2. PICK i \in 1..n : j = e + s + d + i
      BY <1>2
    <3>3. QED
      BY <1>7, <3>2
  <2>6. e + z + 3 <= Len(file') /\ e + s + d <= e + s + d + n
    <3>1. e + z + 3 <= e + s + d + n /\ e + s + d <= e + s + d + n
      BY <1>2, <1>5a
    <3>2. QED
      BY <1>7, <3>1
  <2>7. x[m + 1 + 1] = e + s + d + n /\ x[m + 1] = e + z
    BY <1>12
  <2>8. QED
    BY <1>5, <2>1, <2>2, <2>3, <2>4, <2>5, <2>6, <2>7 DEF UnitAt, Code3, ZerosBetween
<1>17. Layout(x)'
  <2>1. written' = m + 1 /\ m + 1 + 1 = m + 2
    BY <1>2, <1>9
  <2>2. x \in [1..written' + 1 -> Nat] /\ x[written' + 1] = Len(file')
    BY <1>7, <1>12, <2>1
  <2>3. ZerosBetween(0, x[1])'
    <3>1. CASE m = 0
      <4>1. x[1] = e + z /\ c[1] = e
        BY <1>11, <1>12, <3>1
      <4>2. ASSUME NEW j \in 1..e + z PROVE file'[j] = 0
        <5>1. CASE j <= e
          BY <1>7, <1>11, <4>1, <5>1
        <5>2. CASE j > e
          <6>1. j = e + 1 /\ z = 1
            BY <1>4, <5>2
          <6>2. QED
            BY <1>14, <6>1
        <5>3. QED
          BY <5>1, <5>2
      <4>3. QED
        BY <4>1, <4>2 DEF ZerosBetween
    <3>2. CASE m # 0
      <4>1. 1 \in 1..m
        BY <3>2
      <4>2. x[1] = c[1] /\ c[1] \in Nat /\ c[1] + 3 <= e
        BY <1>12, <1>13, <4>1
      <4>3. ASSUME NEW j \in 1..c[1] PROVE file'[j] = 0
        <5>1. PICK q \in Nat : q = c[1] /\ q + 3 <= e
          BY <4>2
        <5>2. j \in 1..e
          BY <5>1
        <5>3. QED
          BY <1>7, <1>11, <5>2
      <4>4. QED
        BY <4>2, <4>3 DEF ZerosBetween
    <3>3. QED
      BY <3>1, <3>2
  <2>4. \A k \in 1..m + 1 : UnitAt(x, k)'
    BY <1>15, <1>16
  <2>5. (DataEnd(x, written) + padding[written])' = Len(file')
    <3>1. padding'[m + 1] = n
      BY <1>1, <1>2, <1>9
    <3>2. stream'[m + 1] = u
      BY <1>2, <1>9 DEF u
    <3>3. (DataEnd(x, written))' = e + s + d
      <4>1. (DataEnd(x, written))' = e + z + 3 + d
        BY <1>5, <1>12, <2>1, <3>2 DEF DataEnd
      <4>2. e + z + 3 + d = e + s + d
        BY <1>5a
      <4>3. QED
        BY <4>1, <4>2
    <3>4. QED
      BY <1>7, <2>1, <3>1, <3>3
  <2>6. QED
    BY <2>1, <2>2, <2>3, <2>4, <2>5 DEF Layout
<1>18. QED
  BY <1>8, <1>17

-----------------------------------------------------------------------------
(* The invariant is inductive.                                             *)

LEMMA ReaderStep ==
  ASSUME WriterOK, NEW c, Layout(c), Reading(c), phase # "write", Next
  PROVE  Reading(c)' \/ UNCHANGED vars
<1>1. CASE StartTurn
  BY <1>1, StartTurnReads
<1>2. CASE SkipLeadingZero
  BY <1>2, SkipLeadingZeroReads
<1>3. CASE ReadStartCode
  BY <1>3, ReadStartCodeReads
<1>4. CASE ReadPayloadByte
  BY <1>4, ReadPayloadByteReads
<1>5. CASE EndPayload
  BY <1>5, EndPayloadReads
<1>6. CASE SkipTrailingZero
  BY <1>6, SkipTrailingZeroReads
<1>7. CASE EndUnit
  BY <1>7, EndUnitReads
<1>8. CASE EndOfFile
  <2>1. phase \in {"leading", "payload", "trailing"}
    BY <1>8 DEF EndOfFile
  <2>2. QED
    BY <1>8, <2>1, EndsInLeading, EndsInUnit
<1>9. CASE Decode
  BY <1>9, DecodeReads
<1>10. CASE FindNewPicture
  BY <1>10, FindNewPictureReads
<1>11. CASE Finish
  BY <1>11, FinishReads
<1>12. CASE Done
  BY <1>12 DEF Done
<1>13. CASE WriteUnit \/ Close
  BY <1>13 DEF WriteUnit, Close
<1>14. QED
  BY <1>1, <1>2, <1>3, <1>4, <1>5, <1>6, <1>7, <1>8, <1>9, <1>10, <1>11, <1>12, <1>13 DEF Next

LEMMA WriterStep ==
  ASSUME IInv, phase = "write", Next
  PROVE  IInv'
<1>1. PICK c : Layout(c) /\ Writing
  BY DEF IInv
<1>2. WriterOK
  BY DEF IInv
<1>3. CASE WriteUnit
  <2>1. WriterOK' /\ \E x : Layout(x)'
    BY <1>1, <1>2, <1>3, UnitIsWritten
  <2>2. Writing' /\ phase' = "write"
    BY <1>1, <1>3 DEF WriteUnit, Writing, Reset, NoStats
  <2>3. QED
    BY <2>1, <2>2 DEF IInv
<1>4. CASE Close
  <2>1. Reading(c)'
    BY <1>1, <1>2, <1>4, CloseReads
  <2>2. phase' = "turn" /\ UNCHANGED writerVars
    BY <1>4 DEF Close
  <2>3. WriterOK' /\ Layout(c)'
    BY <1>1, <1>2, <2>2
    DEF WriterOK, Layout, UnitAt, DataEnd, Code3, ZerosBetween, writerVars
  <2>4. QED
    BY <2>1, <2>2, <2>3 DEF IInv
<1>5. CASE Done
  <2>1. failed /\ Writing
    BY <1>1, <1>5 DEF Done
  <2>2. QED
    BY <2>1 DEF Writing
<1>6. ~(StartTurn \/ SkipLeadingZero \/ ReadStartCode \/ ReadPayloadByte \/ EndPayload
        \/ SkipTrailingZero \/ EndUnit \/ EndOfFile \/ Decode \/ FindNewPicture \/ Finish)
  BY DEF StartTurn, SkipLeadingZero, ReadStartCode, ReadPayloadByte, EndPayload,
         SkipTrailingZero, EndUnit, EndOfFile, Decode, FindNewPicture, Finish
<1>7. QED
  BY <1>3, <1>4, <1>5, <1>6 DEF Next

LEMMA Inductive ==
  ASSUME IInv, [Next]_vars
  PROVE  IInv'
<1>1. CASE UNCHANGED vars
  <2>1. WriterOK' /\ phase' = phase
    BY <1>1 DEF IInv, WriterOK, vars
  <2>2. PICK c : Layout(c) /\ IF phase = "write" THEN Writing ELSE Reading(c)
    BY DEF IInv
  <2>3. Layout(c)'
    BY <1>1, <2>2 DEF vars, Layout, UnitAt, DataEnd, Code3, ZerosBetween
  <2>4. phase = "write" => Writing'
    BY <1>1, <2>2 DEF vars, Writing, Reset, NoStats
  <2>5. phase # "write" => Reading(c)'
    BY <1>1, <2>2
    DEF vars, Reading, InputOK, Position, Counts, InTurn, InLeading, InPayload, InTrailing,
        InDecode, Located, HasRead, Units, InFrontOf, ZerosBetween, LittleAhead, Code4, Code3,
        UnitsArrive, BytesCounted, Expected, Zeros
  <2>6. QED
    BY <2>1, <2>2, <2>3, <2>4, <2>5 DEF IInv
<1>2. CASE Next /\ phase = "write"
  BY <1>2, WriterStep
<1>3. CASE Next /\ phase # "write" /\ ~(UNCHANGED vars)
  <2>1. PICK c : Layout(c) /\ Reading(c)
    BY <1>3 DEF IInv
  <2>2. WriterOK
    BY DEF IInv
  <2>3. Reading(c)'
    BY <1>3, <2>1, <2>2, ReaderStep
  <2>4. UNCHANGED writerVars
    BY <1>3
    DEF Next, WriteUnit, Close, StartTurn, SkipLeadingZero, ReadStartCode, ReadPayloadByte,
        EndPayload, SkipTrailingZero, EndUnit, EndOfFile, Decode, FindNewPicture, Finish, Done,
        vars, writerVars
  <2>5. phase' \in {"turn", "leading", "payload", "trailing", "decode", "end"}
    BY <1>3
    DEF IInv, Next, WriteUnit, Close, StartTurn, SkipLeadingZero, ReadStartCode, ReadPayloadByte,
        EndPayload, SkipTrailingZero, EndUnit, EndOfFile, Return, Decode, FindNewPicture, Finish,
        Done, vars
  <2>6. WriterOK' /\ Layout(c)'
    BY <2>1, <2>2, <2>4
    DEF WriterOK, Layout, UnitAt, DataEnd, Code3, ZerosBetween, writerVars
  <2>7. QED
    BY <2>3, <2>5, <2>6 DEF IInv
<1>4. QED
  BY <1>1, <1>2, <1>3

LEMMA InvariantHolds == Spec => []IInv
<1>1. Init => IInv
  BY WriterStarts
<1>2. IInv /\ [Next]_vars => IInv'
  BY Inductive
<1>3. QED
  BY <1>1, <1>2, PTL DEF Spec

(* Whatever the units and the zero bytes around them: what decode is given *)
(* is the next unit, byte by byte as writeAnnexB was given it, also when   *)
(* the main loop has gone back for it, and it is never given one more than *)
(* there are.                                                              *)
THEOREM UnitsArriveAlways == Spec => []UnitsArrive
<1>1. IInv => UnitsArrive
  BY DEF IInv, Reading, InDecode, UnitsArrive
<1>2. QED
  BY <1>1, InvariantHolds, PTL

(* The statistics of byteStreamNALUnit count every byte between two units  *)
(* once and under what it is, although up to four bytes are looked at      *)
(* ahead and are looked at again by the next unit.                         *)
THEOREM BytesCountedAlways == Spec => []BytesCounted
<1>1. IInv => BytesCounted
  BY DEF IInv, Reading, InDecode, BytesCounted
<1>2. QED
  BY <1>1, InvariantHolds, PTL

(* The assertions that the bytes skipped are zero bytes never fail, and    *)
(* the main loop does not end before it has taken every unit: the stream   *)
(* fails in the last unit and not while it looks ahead of an earlier one.  *)
(* That it ends is AllUnitsTaken, which needs fairness.                    *)
THEOREM NoUnitLeft ==
  Spec => [](~failed /\ (phase = "end" => taken = Max({1, Len(stream)})))
<1>1. ASSUME IInv PROVE ~failed /\ (phase = "end" => taken = Max({1, Len(stream)}))
  <2>1. ~failed /\ (phase = "end" => taken = Units)
    BY <1>1 DEF IInv, Writing, Reading
  <2>2. Units = Max({1, Len(stream)})
    <3>1. stream \in Seq(Unit) /\ Len(stream) \in Nat
      BY <1>1, StreamsAssumption DEF IInv, WriterOK
    <3>2. stream = << >> => Len(stream) = 0
      OBVIOUS
    <3>3. stream # << >> => Len(stream) >= 1
      BY <3>1
    <3>4. QED
      BY <3>1, <3>2, <3>3, MaxOfTwo DEF Units
  <2>3. QED
    BY <2>1, <2>2
<1>2. QED
  BY <1>1, InvariantHolds, PTL

=============================================================================
