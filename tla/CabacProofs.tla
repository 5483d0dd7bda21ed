----------------------------- MODULE CabacProofs -----------------------------
(***************************************************************************)
(* The encoder of Cabac never fails, and the size of a substream is known  *)
(* before it is finished, for every set of contexts, context states and    *)
(* symbols.                                                                *)
(*                                                                         *)
(* The inductive invariant is Ready.  Between two calls the range is 256   *)
(* to 510 and bitsLeft 12 to 23, so that low has 9 to 20 bits behind the   *)
(* bytes held back.  low + range exceeds these bits by one carry at most,  *)
(* and by none when the byte held back is 0xff or there is no such byte:   *)
(* that byte can take the carry, and the 0xff after it are counted because *)
(* they would pass it on.  Every call first moves low up (at most 8 bits,  *)
(* bitsLeft stays 4 or more) and then lets testAndWriteOut send a byte.    *)
(***************************************************************************)
EXTENDS Cabac, SequenceTheorems, TLAPS

-----------------------------------------------------------------------------
(* Powers of 2.  The provers know the value of 2^k only where k is written *)
(* as a number.                                                            *)

Power == [k \in 0..28 |-> 2^k]

LEMMA PowerValues ==
  /\ Power[0] = 1 /\ Power[1] = 2 /\ Power[2] = 4 /\ Power[3] = 8 /\ Power[4] = 16
  /\ Power[5] = 32 /\ Power[6] = 64 /\ Power[7] = 128 /\ Power[8] = 256
  /\ Power[9] = 512 /\ Power[10] = 1024 /\ Power[11] = 2048 /\ Power[12] = 4096
  /\ Power[13] = 8192 /\ Power[14] = 16384 /\ Power[15] = 32768 /\ Power[16] = 65536
  /\ Power[17] = 131072 /\ Power[18] = 262144 /\ Power[19] = 524288 /\ Power[20] = 1048576
  /\ Power[21] = 2097152 /\ Power[22] = 4194304 /\ Power[23] = 8388608 /\ Power[24] = 16777216
  /\ Power[25] = 33554432 /\ Power[26] = 67108864 /\ Power[27] = 134217728 /\ Power[28] = 268435456
  BY DEF Power

LEMMA PowersOf2 ==
  /\ \A k \in 0..28 : 2^k = Power[k] /\ 2^k \in Nat /\ 2^k >= 1
  /\ \A k \in 0..20 : 2^(k + 8) = 256 * 2^k
  /\ \A k \in 0..27 : 2^(k + 1) = 2 * 2^k
<1>1. \A k \in 0..28 : 2^k = Power[k]
  BY DEF Power
<1>2. \A k \in 0..28 : Power[k] \in Nat /\ Power[k] >= 1
  BY PowerValues, SMTT(30)
<1>3. \A k \in 0..20 : 2^(k + 8) = 256 * 2^k
  <2> TAKE k \in 0..20
  <2>1. k \in 0..28 /\ k + 8 \in 0..28
    OBVIOUS
  <2>2. Power[k + 8] = 256 * Power[k]
    BY PowerValues, SMTT(30)
  <2> QED
    BY <2>1, <2>2, <1>1
<1>4. \A k \in 0..27 : 2^(k + 1) = 2 * 2^k
  <2> TAKE k \in 0..27
  <2>1. k \in 0..28 /\ k + 1 \in 0..28
    OBVIOUS
  <2>2. Power[k + 1] = 2 * Power[k]
    BY PowerValues, SMTT(30)
  <2> QED
    BY <2>1, <2>2, <1>1
<1> QED
  BY <1>1, <1>2, <1>3, <1>4

LEMMA PowerSum == ASSUME NEW n \in 0..8, NEW k \in 0..20 PROVE 2^(k + n) = 2^n * 2^k
<1>1. Power[k + n] = Power[n] * Power[k]
  BY PowerValues, SMTT(60)
<1>2. k + n \in 0..28 /\ n \in 0..28 /\ k \in 0..28
  OBVIOUS
<1>3. 2^(k + n) = Power[k + n] /\ 2^n = Power[n] /\ 2^k = Power[k]
  BY <1>2, PowersOf2, Zenon
<1> QED
  BY <1>1, <1>3, Zenon

-----------------------------------------------------------------------------
(* The tables *)

LEMMA LPSWidth == \A i \in 1..63, j \in 1..4 : LPSTable[i][j] \in 6..(64 + 64 * j) /\ LPSTable[i][j] <= 240
  BY DEF LPSTable

LEMMA NextIndex == \A i \in 1..63 : NextIndexLPS[i] \in 0..62
  BY SMTT(60) DEF NextIndexLPS

LEMMA StatesStay ==
  ASSUME NEW s \in States
  PROVE  updateMPS(s) \in States /\ updateLPS(s) \in States /\ getState(s) \in 0..62 /\ getMps(s) \in 0..1
<1>1. s \in 0..125
  BY DEF States
<1>2. s \div 2 \in 0..62 /\ s % 2 \in 0..1
  BY <1>1
<1>3. NextIndexLPS[(s \div 2) + 1] \in 0..62
  BY <1>2, NextIndex
<1> QED
  BY <1>1, <1>2, <1>3 DEF updateMPS, updateLPS, getState, getMps, States

(* Either part of the range can be brought back to 256 or more.            *)
LEMMA RangeSplits ==
  ASSUME NEW s \in States, NEW range \in 256..510
  PROVE  LPSRange(s, range) \in 6..(range - 128) /\ LPSRange(s, range) <= 240
<1>1. getState(s) + 1 \in 1..63
  BY StatesStay
<1>2. PICK j \in 1..4 : j = ((range \div 64) % 4) + 1 /\ 64 + 64 * j <= range - 128 
  OBVIOUS
<1>3. LPSTable[getState(s) + 1][j] \in 6..(64 + 64 * j) /\ LPSTable[getState(s) + 1][j] <= 240
  BY <1>1, LPSWidth
<1> QED
  BY <1>2, <1>3 DEF LPSRange

LEMMA RenormTableValues ==
  /\ RenormTable[1] = 6 /\ RenormTable[2] = 5
  /\ \A i \in 3..4 : RenormTable[i] = 4
  /\ \A i \in 5..8 : RenormTable[i] = 3
  /\ \A i \in 9..16 : RenormTable[i] = 2
  /\ \A i \in 17..32 : RenormTable[i] = 1
  BY DEF RenormTable

LEMMA Renormalised ==
  ASSUME NEW lps \in 6..240
  PROVE  RenormShift(lps) \in 1..6 /\ lps * 2^RenormShift(lps) \in 256..510
<1>1. CASE lps \in 6..7
  <2>1. RenormShift(lps) = 6
    BY <1>1, RenormTableValues DEF RenormShift
  <2> QED
    BY <1>1, <2>1
<1>2. CASE lps \in 8..15
  <2>1. RenormShift(lps) = 5
    BY <1>2, RenormTableValues DEF RenormShift
  <2> QED
    BY <1>2, <2>1
<1>3. CASE lps \in 16..31
  <2>1. RenormShift(lps) = 4
    BY <1>3, RenormTableValues DEF RenormShift
  <2> QED
    BY <1>3, <2>1
<1>4. CASE lps \in 32..63
  <2>1. RenormShift(lps) = 3
    BY <1>4, RenormTableValues DEF RenormShift
  <2> QED
    BY <1>4, <2>1
<1>5. CASE lps \in 64..127
  <2>1. RenormShift(lps) = 2
    BY <1>5, RenormTableValues DEF RenormShift
  <2> QED
    BY <1>5, <2>1
<1>6. CASE lps \in 128..240
  <2>1. RenormShift(lps) = 1
    BY <1>6, RenormTableValues DEF RenormShift
  <2> QED
    BY <1>6, <2>1
<1> QED
  BY <1>1, <1>2, <1>3, <1>4, <1>5, <1>6

-----------------------------------------------------------------------------
(* What is written.  Writes leave the registers alone.                     *)

Encoder == [low : Nat, range : Nat, bitsLeft : Int, numBufferedBytes : Nat, bufferedByte : Nat,
            bits : Seq(Int), fits : BOOLEAN, carryOk : BOOLEAN, ctx : [Contexts -> States]]

Accepted(s) == s.fits /\ s.carryOk

SameRegisters(s, t) ==
  /\ t.low = s.low /\ t.range = s.range /\ t.bitsLeft = s.bitsLeft
  /\ t.numBufferedBytes = s.numBufferedBytes /\ t.bufferedByte = s.bufferedByte
  /\ t.ctx = s.ctx

(* t is s with n more bits.                                                *)
MoreBits(s, t, n) ==
  t \in Encoder /\ Accepted(t) /\ Len(t.bits) = Len(s.bits) + n /\ SameRegisters(s, t)

LEMMA BitsOfFacts ==
  ASSUME NEW v \in Nat, NEW n \in 1..12
  PROVE  BitsOf(v, n) \in [1..n -> Int]
<1> SUFFICES ASSUME NEW i \in 1..n PROVE (v \div 2^(n - i)) % 2 \in Int
  BY DEF BitsOf
<1>1. PICK k \in 0..28 : k = n - i
  OBVIOUS
<1>2. 2^k \in Nat /\ 2^k >= 1
  BY PowersOf2
<1>3. PICK p \in Nat : p = 2^k /\ p >= 1
  BY <1>2
<1>4. (v \div p) % 2 \in Int
  BY <1>3
<1> QED
  BY <1>1, <1>3, <1>4

(* Any n bits put behind those of s.                                       *)
LEMMA Extended ==
  ASSUME NEW s \in Encoder, Accepted(s), NEW n \in Nat, NEW f \in [1..n -> Int], NEW ok, ok = TRUE
  PROVE  MoreBits(s, [s EXCEPT !.bits = @ \o f, !.fits = @ /\ ok], n)
<1> DEFINE t == [s EXCEPT !.bits = @ \o f, !.fits = @ /\ ok]
<1>1. s.bits \in Seq(Int) /\ f \in Seq(Int) /\ Len(f) = n
  BY DEF Encoder
<1>2. s.bits \o f \in Seq(Int) /\ Len(s.bits \o f) = Len(s.bits) + n
  BY <1>1, ConcatProperties
<1>3. t.bits = s.bits \o f /\ SameRegisters(s, t)
  BY DEF Encoder, SameRegisters
<1>4. t.fits = TRUE /\ t.carryOk
  BY Zenon DEF Encoder, Accepted
<1>5. t \in Encoder
  BY <1>2, <1>3, <1>4 DEF Encoder
<1> QED
  BY <1>2, <1>3, <1>4, <1>5 DEF MoreBits, Accepted

LEMMA WriteFacts ==
  ASSUME NEW s \in Encoder, Accepted(s), NEW v \in Nat, NEW n \in 1..12, v < 2^n
  PROVE  MoreBits(s, Write(s, v, n), n)
<1>1. n \in Nat /\ BitsOf(v, n) \in [1..n -> Int]
  <2>1. n \in Nat
    OBVIOUS
  <2> QED
    BY <2>1, BitsOfFacts, Zenon
<1>2. (v < 2^n) = TRUE
  OBVIOUS
<1>3. MoreBits(s, [s EXCEPT !.bits = @ \o BitsOf(v, n), !.fits = @ /\ (v < 2^n)], n)
  BY <1>1, <1>2, Extended, Zenon
<1> QED
  BY <1>3, Zenon DEF Write

(* The same byte count times; for a count below 0, not at all.             *)
LEMMA WriteBytesFacts ==
  ASSUME NEW s \in Encoder, Accepted(s), NEW byte \in 0..255, NEW count \in Int, count >= -1
  PROVE  /\ count >= 0 => MoreBits(s, WriteBytes(s, byte, count), 8 * count)
         /\ count < 0 => MoreBits(s, WriteBytes(s, byte, count), 0)
<1> DEFINE f == [i \in 1..(8 * count) |-> BitsOf(byte, 8)[((i - 1) % 8) + 1]]
<1>1. PICK n \in Nat : (count >= 0 => n = 8 * count) /\ (count < 0 => n = 0) /\ 1..(8 * count) = 1..n
  <2>1. CASE count >= 0
    BY <2>1
  <2>2. CASE count < 0
    BY <2>2
  <2> QED
    BY <2>1, <2>2
<1>2. BitsOf(byte, 8) \in [1..8 -> Int]
  BY BitsOfFacts, SMTT(60), ZenonT(60)
<1>3. f \in [1..n -> Int]
  <2>1. \A i \in 1..n : ((i - 1) % 8) + 1 \in 1..8
    BY <1>1
  <2>2. \A i \in 1..n : BitsOf(byte, 8)[((i - 1) % 8) + 1] \in Int
    BY <1>2, <2>1
  <2> QED
    BY <1>1, <2>2
<1>4. (count > 0 => byte < 256) <=> TRUE
  OBVIOUS
<1>5. WriteBytes(s, byte, count) = [s EXCEPT !.bits = @ \o f, !.fits = @ /\ TRUE]
  BY <1>4, Zenon DEF WriteBytes
<1> HIDE DEF f
<1>6. MoreBits(s, WriteBytes(s, byte, count), n)
  BY <1>3, <1>5, Extended, ZenonT(60)
<1> QED
  BY <1>1, <1>6, Zenon

(* The stop bit and what completes the byte.                               *)
LEMMA AlignmentFacts ==
  ASSUME NEW s \in Encoder, Accepted(s)
  PROVE  /\ WriteByteAlignment(s) \in Encoder
         /\ Accepted(WriteByteAlignment(s))
         /\ Len(WriteByteAlignment(s).bits) = 8 * ((Len(s.bits) + 8) \div 8)
<1> DEFINE t     == Write(s, 1, 1)
           n     == (-Len(t.bits)) % 8
           zeros == [i \in 1..n |-> 0]
<1>1. MoreBits(s, t, 1)
  BY WriteFacts
<1> HIDE DEF t
<1>2. t \in Encoder /\ Accepted(t) /\ Len(t.bits) = Len(s.bits) + 1
  BY <1>1 DEF MoreBits
<1>3. Len(s.bits) \in Nat
  BY DEF Encoder
<1>4. n \in Nat /\ Len(t.bits) + n = 8 * ((Len(s.bits) + 8) \div 8)
  <2>1. PICK l \in Nat : l = Len(s.bits)
    BY <1>3
  <2>2. (-(l + 1)) % 8 \in Nat /\ l + 1 + ((-(l + 1)) % 8) = 8 * ((l + 8) \div 8)
    OBVIOUS
  <2> QED
    BY <1>2, <2>1, <2>2
<1>5. zeros \in [1..n -> Int]
  OBVIOUS
<1>6. WriteByteAlignment(s) = [t EXCEPT !.bits = @ \o zeros]
  BY Zenon DEF WriteByteAlignment, t
<1> HIDE DEF zeros, n
<1>7. [t EXCEPT !.bits = @ \o zeros] = [t EXCEPT !.bits = @ \o zeros, !.fits = @ /\ TRUE]
  <2>1. t.fits /\ TRUE <=> t.fits
    OBVIOUS
  <2>2. t = [t EXCEPT !.fits = @]
    BY <1>2 DEF Encoder
  <2> QED
    BY <1>2, <2>1, <2>2 DEF Encoder
<1>8. MoreBits(t, WriteByteAlignment(s), n)
  <2>1. MoreBits(t, [t EXCEPT !.bits = @ \o zeros, !.fits = @ /\ TRUE], n)
    BY <1>2, <1>4, <1>5, Extended, Zenon
  <2> QED
    BY <1>6, <1>7, <2>1, Zenon
<1> QED
  BY <1>2, <1>4, <1>8 DEF MoreBits

-----------------------------------------------------------------------------
(* The registers.  low has 32 - bitsLeft bits behind the buffered bytes.   *)
(* Its sum with range is at most twice what these bits hold: a carry of    *)
(* one, at most, goes into the bytes.  If the first of them is 255, which  *)
(* it also is as long as there is none, they can take none: the sum stays  *)
(* within the bits.                                                        *)

InReach(low, range, bitsLeft, buffered) ==
  low + range <= (IF buffered = 255 THEN 1 ELSE 2) * 2^(32 - bitsLeft)

Coding(s) ==
  /\ s.range \in 256..510
  /\ s.bitsLeft \in 4..23
  /\ s.bufferedByte \in 0..255
  /\ s.numBufferedBytes = 0 => s.bufferedByte = 255
  /\ InReach(s.low, s.range, s.bitsLeft, s.bufferedByte)

Ready(s) == Coding(s) /\ s.bitsLeft >= 12

(* The byte in front of the p values low may have left.                    *)
LEMMA LeadByte ==
  ASSUME NEW low \in Nat, NEW range \in 256..510, NEW p \in Nat, p >= 512,
         NEW c \in 1..2, low + range <= c * (256 * p)
  PROVE  /\ low \div p \in 0..511 /\ low % p \in Nat /\ (low % p) + range <= 2 * p
         /\ (low \div p = 511 \/ (c = 1 /\ low \div p = 255)) => (low % p) + range <= p
         /\ c = 1 => low \div p <= 255
<1>1. PICK q \in Int, r \in Nat : low = p * q + r /\ r < p /\ q = low \div p /\ r = low % p
  <2>1. low = p * (low \div p) + (low % p)
    OBVIOUS
  <2>2. low \div p \in Int /\ low % p \in 0..(p - 1)
    OBVIOUS
  <2> QED
    BY <2>1, <2>2
<1>2. q >= 0
  <2>1. SUFFICES ASSUME q <= -1 PROVE FALSE
    BY <1>1
  <2>2. p * q <= p * (-1)
    BY <2>1
  <2> QED
    BY <1>1, <2>2
<1>3. c = 2 => q <= 511
  <2>1. SUFFICES ASSUME c = 2, q >= 512 PROVE FALSE
    BY <1>1
  <2>2. p * q >= p * 512
    BY <2>1
  <2> QED
    BY <1>1, <2>1, <2>2
<1>4. c = 1 => q <= 255
  <2>1. SUFFICES ASSUME c = 1, q >= 256 PROVE FALSE
    BY <1>1
  <2>2. p * q >= p * 256
    BY <2>1
  <2> QED
    BY <1>1, <2>1, <2>2
<1>5. q = 511 => r + range <= p
  BY <1>1, <1>4
<1>6. c = 1 /\ q = 255 => r + range <= p
  BY <1>1
<1> QED
  BY <1>1, <1>2, <1>3, <1>4, <1>5, <1>6

LEMMA IsCoding ==
  ASSUME NEW s, s.low \in Nat, s.range \in 256..510, s.bitsLeft \in 4..23, s.bufferedByte \in 0..255,
         s.numBufferedBytes = 0 => s.bufferedByte = 255,
         NEW p \in Nat, p = 2^(32 - s.bitsLeft), s.low + s.range <= 2 * p,
         s.bufferedByte = 255 => s.low + s.range <= p
  PROVE  Coding(s)
<1>1. s.low + s.range <= (IF s.bufferedByte = 255 THEN 1 ELSE 2) * p
  BY Z3
<1>2. InReach(s.low, s.range, s.bitsLeft, s.bufferedByte)
  BY <1>1, Zenon DEF InReach
<1> QED
  BY <1>2, Zenon DEF Coding

(* What a call of the coder promises: that it is ready for the next one,   *)
(* and has counted n bits.                                                 *)
Advanced(s, t, n) ==
  t \in Encoder /\ Accepted(t) /\ Ready(t) /\ NumWrittenBits(t) = NumWrittenBits(s) + n

LEMMA WriteOutFacts ==
  ASSUME NEW s \in Encoder, Accepted(s), Coding(s), s.bitsLeft < 12
  PROVE  Advanced(s, WriteOut(s), 0)
<1> DEFINE lead == s.low \div 2^(24 - s.bitsLeft)
           t    == [s EXCEPT !.bitsLeft = @ + 8, !.low = @ % 2^(24 - s.bitsLeft)]
           w    == Write(t, s.bufferedByte + lead \div 256, 8)
           sent == WriteBytes(w, RunByte(lead \div 256), s.numBufferedBytes - 1)
<1>1. PICK p \in Nat : /\ p >= 512 /\ p = 2^(24 - s.bitsLeft)
                       /\ 256 * p = 2^(32 - s.bitsLeft) /\ p = 2^(32 - (s.bitsLeft + 8))
  <2>1. PICK k \in 13..20 : k = 24 - s.bitsLeft /\ k + 8 = 32 - s.bitsLeft /\ k = 32 - (s.bitsLeft + 8)
    BY DEF Coding
  <2>2. 2^k = Power[k] /\ 2^k \in Nat /\ 2^(k + 8) = 256 * 2^k
    <3>1. k \in 0..28 /\ k \in 0..20
      OBVIOUS
    <3> QED
      BY <3>1, PowersOf2, Zenon
  <2>3. Power[k] >= 512
    BY PowerValues, SMTT(30)
  <2> QED
    BY <2>1, <2>2, <2>3
<1>2. PICK low \in Nat, n \in Nat : low = s.low /\ n = s.numBufferedBytes
  BY DEF Encoder
<1>3. PICK range \in 256..510, bl \in 4..11, b \in 0..255 :
        range = s.range /\ bl = s.bitsLeft /\ b = s.bufferedByte
  <2>1. s.range \in 256..510 /\ s.bitsLeft \in 4..23 /\ s.bufferedByte \in 0..255
    BY Zenon DEF Coding
  <2>2. s.bitsLeft \in 4..11
    BY <2>1
  <2> QED
    BY <2>1, <2>2, Zenon
<1>4. PICK c \in 1..2 : (b = 255 <=> c = 1) /\ low + range <= c * (256 * p)
  <2>1. low + range <= (IF b = 255 THEN 1 ELSE 2) * (256 * p)
    BY <1>1, <1>2, <1>3, Zenon DEF Coding, InReach
  <2>2. CASE b = 255
    BY <2>1, <2>2
  <2>3. CASE b # 255
    BY <2>1, <2>3
  <2> QED
    BY <2>2, <2>3
<1>5. n = 0 => b = 255
  BY <1>2, <1>3, Zenon DEF Coding
<1>6. PICK l \in 0..511, r \in Nat :
        /\ l = low \div p /\ r = low % p /\ r + range <= 2 * p
        /\ (l = 511 \/ (c = 1 /\ l = 255)) => r + range <= p
        /\ c = 1 => l <= 255
  <2>1. p >= 512 /\ low + range <= c * (256 * p)
    BY <1>1, <1>4
  <2>2. /\ low \div p \in 0..511 /\ low % p \in Nat /\ (low % p) + range <= 2 * p
        /\ (low \div p = 511 \/ (c = 1 /\ low \div p = 255)) => (low % p) + range <= p
        /\ c = 1 => low \div p <= 255
    BY <2>1, LeadByte, SMTT(60), ZenonT(60)
  <2> QED
    BY <2>2, Zenon
<1>8. lead = l
  BY <1>1, <1>2, <1>6, Zenon
<1>9. /\ t \in Encoder /\ Accepted(t)
      /\ t.low = r /\ t.range = range /\ t.bitsLeft = bl + 8 /\ t.bits = s.bits
      /\ t.numBufferedBytes = n /\ t.bufferedByte = b
  <2>1. t = [s EXCEPT !.bitsLeft = bl + 8, !.low = r]
    BY <1>1, <1>2, <1>3, <1>6, Zenon
  <2>2. bl + 8 \in Int
    OBVIOUS
  <2> HIDE DEF t
  <2>3. t \in Encoder
    BY <2>1, <2>2 DEF Encoder
  <2>4. Accepted(t)
    BY <2>1 DEF Encoder, Accepted
  <2> QED
    BY <1>2, <1>3, <2>1, <2>3, <2>4 DEF Encoder
<1> HIDE DEF lead, t
<1>10. PICK room \in 12..23 : room = bl + 8 /\ p = 2^(32 - room)
  <2>1. bl + 8 \in 12..23
    OBVIOUS
  <2>2. p = 2^(32 - (bl + 8))
    BY <1>1, <1>3, Zenon
  <2> QED
    BY <2>1, <2>2, Zenon
<1>11. CASE l = 255
  <2> DEFINE out == WriteOut(s)
  <2>1. out = [t EXCEPT !.numBufferedBytes = n + 1]
    BY <1>8, <1>9, <1>11, Zenon DEF WriteOut, lead, t
  <2> HIDE DEF out
  <2>2. n + 1 \in Nat /\ (n + 1 = 0 => b = 255) /\ (b = 255 => r + range <= p)
    BY <1>4, <1>6, <1>11
  <2>3. out \in Encoder
    BY <1>9, <2>1, <2>2, SMTT(60), ZenonT(60) DEF Encoder
  <2>4. Accepted(out)
    BY <1>9, <2>1 DEF Encoder, Accepted
  <2>5. /\ out.low = r /\ out.range = range /\ out.bitsLeft = room
        /\ out.numBufferedBytes = n + 1 /\ out.bufferedByte = b
    BY <1>9, <1>10, <2>1 DEF Encoder
  <2>6. Len(out.bits) = Len(s.bits)
    BY <1>9, <2>1 DEF Encoder
  <2>7. Ready(out)
    <3>1. /\ out.low \in Nat /\ out.range \in 256..510 /\ out.bitsLeft \in 4..23
          /\ out.bufferedByte \in 0..255 /\ out.bitsLeft >= 12
          /\ out.low + out.range <= 2 * p
      BY <1>6, <2>2, <2>5
    <3>2. /\ p = 2^(32 - out.bitsLeft)
          /\ out.numBufferedBytes = 0 => out.bufferedByte = 255
          /\ out.bufferedByte = 255 => out.low + out.range <= p
      BY <1>10, <2>2, <2>5, Zenon
    <3> QED
      BY <3>1, <3>2, IsCoding, Zenon DEF Ready
  <2>8. NumWrittenBits(out) = NumWrittenBits(s) + 0
    <3>1. PICK len \in Nat : len = Len(s.bits)
      BY DEF Encoder
    <3>2. NumWrittenBits(out) = len + 8 * (n + 1) + 23 - (bl + 8)
      BY <1>10, <2>5, <2>6, <3>1 DEF NumWrittenBits
    <3>3. NumWrittenBits(s) = len + 8 * n + 23 - bl
      BY <1>2, <1>3, <3>1 DEF NumWrittenBits
    <3> QED
      BY <3>2, <3>3
  <2> QED
    BY <2>3, <2>4, <2>7, <2>8 DEF Advanced, out
<1>12. CASE l # 255 /\ n > 0
  <2> DEFINE out   == WriteOut(s)
             carry == l \div 256
             last  == l % 256
  <2>1. /\ carry \in 0..1 /\ last \in 0..255
        /\ b + carry \in 0..255 /\ RunByte(carry) \in 0..255
        /\ last = 255 => r + range <= p
    <3>1. l \div 256 \in 0..1 /\ l % 256 \in 0..255
      OBVIOUS
    <3>2. b + l \div 256 \in 0..255
      BY <1>4, <1>6
    <3>3. l % 256 = 255 => r + range <= p
      BY <1>6, <1>12, SMTT(30)
    <3>4. RunByte(l \div 256) \in 0..255
      BY <3>1 DEF RunByte
    <3> QED
      BY <3>1, <3>2, <3>3, <3>4, Zenon
  <2> HIDE DEF carry, last
  <2>2. MoreBits(t, w, 8)
    <3>1. w = Write(t, b + carry, 8)
      BY <1>3, <1>8, Zenon DEF w, carry
    <3>2. 8 \in 1..12 /\ b + carry \in Nat
      BY <2>1
    <3>3. b + carry < 2^8
      BY <2>1
    <3> QED
      BY <1>9, <3>1, <3>2, <3>3, WriteFacts, Zenon
  <2>3. MoreBits(w, sent, 8 * (n - 1))
    <3>1. sent = WriteBytes(w, RunByte(carry), n - 1)
      BY <1>2, <1>8, Zenon DEF sent, carry
    <3>2. n - 1 \in Int /\ n - 1 >= -1 /\ n - 1 >= 0
      BY <1>12
    <3>3. w \in Encoder /\ Accepted(w)
      BY <2>2, Zenon DEF MoreBits
    <3> QED
      BY <2>1, <3>1, <3>2, <3>3, WriteBytesFacts, ZenonT(60)
  <2>4. out = [sent EXCEPT !.numBufferedBytes = 1, !.bufferedByte = last]
    BY <1>2, <1>8, <1>12, Zenon DEF WriteOut, lead, t, w, sent, last
  <2> HIDE DEF out, w, sent
  <2>5. sent \in Encoder /\ Accepted(sent)
    BY <2>3 DEF MoreBits
  <2>6. out \in Encoder
    <3>1. last \in Nat
      BY <2>1
    <3> QED
      BY <2>4, <2>5, <3>1 DEF Encoder
  <2>7. Accepted(out)
    BY <2>4, <2>5 DEF Encoder, Accepted
  <2>8. /\ out.low = r /\ out.range = range /\ out.bitsLeft = room
        /\ out.numBufferedBytes = 1 /\ out.bufferedByte = last
    <3>1. sent.low = r /\ sent.range = range /\ sent.bitsLeft = room
      BY <1>9, <1>10, <2>2, <2>3, Zenon DEF MoreBits, SameRegisters
    <3> QED
      BY <2>4, <2>5, <3>1 DEF Encoder
  <2>9. Len(out.bits) = Len(s.bits) + 8 * n
    <3>1. out.bits = sent.bits
      BY <2>4, <2>5 DEF Encoder
    <3>2. Len(sent.bits) = Len(w.bits) + 8 * (n - 1) /\ Len(w.bits) = Len(t.bits) + 8
      BY <2>2, <2>3, Zenon DEF MoreBits
    <3>3. PICK len \in Nat : len = Len(s.bits) /\ Len(t.bits) = len
      BY <1>9 DEF Encoder
    <3>4. Len(w.bits) = len + 8
      BY <3>2, <3>3
    <3>5. Len(sent.bits) = len + 8 + 8 * (n - 1)
      BY <3>2, <3>4, Zenon
    <3>6. Len(out.bits) = len + 8 + 8 * (n - 1)
      BY <3>1, <3>5, Zenon
    <3>7. len + 8 + 8 * (n - 1) = len + 8 * n
      OBVIOUS
    <3> QED
      BY <3>3, <3>6, <3>7, Zenon
  <2>10. Ready(out)
    <3>1. /\ out.low \in Nat /\ out.range \in 256..510 /\ out.bitsLeft \in 4..23
          /\ out.bufferedByte \in 0..255 /\ out.bitsLeft >= 12
          /\ out.low + out.range <= 2 * p
      BY <1>6, <2>1, <2>8
    <3>2. p = 2^(32 - out.bitsLeft) /\ (out.bufferedByte = 255 => out.low + out.range <= p)
      BY <1>10, <2>1, <2>8, Zenon
    <3>3. out.numBufferedBytes # 0
      BY <2>8
    <3> QED
      BY <3>1, <3>2, <3>3, IsCoding, Zenon DEF Ready
  <2>11. NumWrittenBits(out) = NumWrittenBits(s) + 0
    <3>1. PICK len \in Nat : len = Len(s.bits)
      BY DEF Encoder
    <3>2. NumWrittenBits(out) = len + 8 * n + 8 * 1 + 23 - (bl + 8)
      BY <1>10, <2>8, <2>9, <3>1 DEF NumWrittenBits
    <3>3. NumWrittenBits(s) = len + 8 * n + 23 - bl
      BY <1>2, <1>3, <3>1 DEF NumWrittenBits
    <3> QED
      BY <3>2, <3>3
  <2> QED
    BY <2>6, <2>7, <2>10, <2>11 DEF Advanced, out
<1>13. CASE l # 255 /\ n = 0
  <2> DEFINE out == WriteOut(s)
  <2>1. out = [t EXCEPT !.numBufferedBytes = 1, !.bufferedByte = l]
    <3>1. ~(n > 0)
      BY <1>13
    <3> QED
      BY <1>2, <1>8, <1>9, <1>13, <3>1, ZenonT(60) DEF WriteOut, lead, t
  <2> HIDE DEF out
  <2>2. l \in 0..255 /\ l \in Nat /\ (l = 255 => r + range <= p)
    BY <1>4, <1>5, <1>6, <1>13
  <2>3. out \in Encoder
    BY <1>9, <2>1, <2>2, SMTT(60), ZenonT(60) DEF Encoder
  <2>4. Accepted(out)
    BY <1>9, <2>1 DEF Encoder, Accepted
  <2>5. /\ out.low = r /\ out.range = range /\ out.bitsLeft = room
        /\ out.numBufferedBytes = 1 /\ out.bufferedByte = l
    BY <1>9, <1>10, <2>1 DEF Encoder
  <2>6. Len(out.bits) = Len(s.bits)
    BY <1>9, <2>1 DEF Encoder
  <2>7. Ready(out)
    <3>1. /\ out.low \in Nat /\ out.range \in 256..510 /\ out.bitsLeft \in 4..23
          /\ out.bufferedByte \in 0..255 /\ out.bitsLeft >= 12
          /\ out.low + out.range <= 2 * p
      BY <1>6, <2>2, <2>5
    <3>2. p = 2^(32 - out.bitsLeft) /\ (out.bufferedByte = 255 => out.low + out.range <= p)
      BY <1>10, <2>2, <2>5, Zenon
    <3>3. out.numBufferedBytes # 0
      BY <2>5
    <3> QED
      BY <3>1, <3>2, <3>3, IsCoding, Zenon DEF Ready
  <2>8. NumWrittenBits(out) = NumWrittenBits(s) + 0
    <3>1. PICK len \in Nat : len = Len(s.bits)
      BY DEF Encoder
    <3>2. NumWrittenBits(out) = len + 8 * 1 + 23 - (bl + 8)
      BY <1>10, <2>5, <2>6, <3>1 DEF NumWrittenBits
    <3>3. NumWrittenBits(s) = len + 8 * n + 23 - bl
      BY <1>2, <1>3, <3>1 DEF NumWrittenBits
    <3> QED
      BY <1>13, <3>2, <3>3
  <2> QED
    BY <2>3, <2>4, <2>7, <2>8 DEF Advanced, out
<1> QED
  BY <1>11, <1>12, <1>13

LEMMA TestAndWriteOutFacts ==
  ASSUME NEW s \in Encoder, Accepted(s), Coding(s)
  PROVE  Advanced(s, TestAndWriteOut(s), 0)
<1>1. CASE s.bitsLeft < 12
  BY <1>1, WriteOutFacts, Zenon DEF TestAndWriteOut
<1>2. CASE ~(s.bitsLeft < 12)
  <2>1. TestAndWriteOut(s) = s
    BY <1>2, Zenon DEF TestAndWriteOut
  <2>2. s.bitsLeft >= 12
    <3>1. s.bitsLeft \in 4..23
      BY Zenon DEF Coding
    <3> QED
      BY <1>2, <3>1
  <2>3. NumWrittenBits(s) = NumWrittenBits(s) + 0
    <3>1. PICK len \in Nat, n \in Nat, bl \in Int : len = Len(s.bits) /\ n = s.numBufferedBytes /\ bl = s.bitsLeft
      BY DEF Encoder
    <3>2. NumWrittenBits(s) = len + 8 * n + 23 - bl
      BY <3>1, Zenon DEF NumWrittenBits
    <3> QED
      BY <3>2
  <2> QED
    BY <2>1, <2>2, <2>3, Zenon DEF Advanced, Ready
<1> QED
  BY <1>1, <1>2, Zenon

(* A call that moves low and range n bits up, into a part of the range or  *)
(* into all of it.                                                         *)
LEMMA Consumes ==
  ASSUME NEW s \in Encoder, Ready(s), NEW u \in Encoder, Accepted(u),
         NEW n \in 0..8,
         u.range \in 256..510, u.low + u.range <= (s.low + s.range) * 2^n,
         u.bitsLeft = s.bitsLeft - n,
         u.numBufferedBytes = s.numBufferedBytes, u.bufferedByte = s.bufferedByte,
         u.bits = s.bits
  PROVE  Advanced(s, TestAndWriteOut(u), n)
<1>1. Coding(s) /\ s.bitsLeft \in 12..23
  <2>1. Coding(s) /\ s.bitsLeft \in 4..23 /\ s.bitsLeft >= 12
    BY Zenon DEF Ready, Coding
  <2> QED
    BY <2>1
<1>2. PICK k \in 9..20 : k = 32 - s.bitsLeft /\ 32 - u.bitsLeft = k + n
  <2>1. PICK bl \in 12..23 : bl = s.bitsLeft
    BY <1>1
  <2> QED
    BY <2>1
<1>3. PICK a \in Nat, p \in Nat : a = 2^n /\ p = 2^k /\ a >= 1 /\ p >= 1 /\ 2^(k + n) = a * p
  <2>1. n \in 0..28 /\ k \in 0..28 /\ k \in 0..20
    OBVIOUS
  <2> QED
    BY <2>1, PowersOf2, PowerSum, ZenonT(60)
<1>4. PICK low \in Nat, range \in 256..510, low2 \in Nat, range2 \in 256..510 :
        low = s.low /\ range = s.range /\ low2 = u.low /\ range2 = u.range
  BY <1>1 DEF Encoder, Coding
<1>5. low2 + range2 <= (low + range) * a
  BY <1>3, <1>4, Zenon
<1>6. InReach(u.low, u.range, u.bitsLeft, u.bufferedByte)
  <2>1. CASE s.bufferedByte = 255
    <3>1. low + range <= p
      BY <1>1, <1>2, <1>3, <1>4, <2>1 DEF Coding, InReach
    <3>2. (low + range) * a <= a * p
      BY <3>1
    <3>3. low2 + range2 <= 1 * (a * p)
      BY <1>5, <3>2
    <3> QED
      BY <1>2, <1>3, <1>4, <2>1, <3>3, Zenon DEF InReach
  <2>2. CASE s.bufferedByte # 255
    <3>1. low + range <= 2 * p
      BY <1>1, <1>2, <1>3, <1>4, <2>2 DEF Coding, InReach
    <3>2. (low + range) * a <= 2 * (a * p)
      BY <3>1
    <3>3. low2 + range2 <= 2 * (a * p)
      BY <1>5, <3>2
    <3> QED
      BY <1>2, <1>3, <1>4, <2>2, <3>3, Zenon DEF InReach
  <2> QED
    BY <2>1, <2>2, Zenon
<1>7. Coding(u)
  <2>1. u.bitsLeft \in 4..23
    BY <1>1
  <2>2. s.bufferedByte \in 0..255 /\ (s.numBufferedBytes = 0 => s.bufferedByte = 255)
    BY <1>1, Zenon DEF Coding
  <2>3. u.bufferedByte \in 0..255
    BY <2>2, Zenon
  <2>4. u.numBufferedBytes = 0 => u.bufferedByte = 255
    BY <2>2, Zenon
  <2> QED
    BY <1>6, <2>1, <2>3, <2>4, Zenon DEF Coding
<1>8. Advanced(u, TestAndWriteOut(u), 0)
  BY <1>7, TestAndWriteOutFacts, Zenon
<1>9. NumWrittenBits(u) + 0 = NumWrittenBits(s) + n
  <2>1. PICK len \in Nat, m \in Nat, bl \in Int : len = Len(s.bits) /\ m = s.numBufferedBytes /\ bl = s.bitsLeft
    BY DEF Encoder
  <2>2. NumWrittenBits(s) = len + 8 * m + 23 - bl /\ NumWrittenBits(u) = len + 8 * m + 23 - (bl - n)
    BY <2>1, Zenon DEF NumWrittenBits
  <2> QED
    BY <2>2
<1> QED
  BY <1>8, <1>9, Zenon DEF Advanced

-----------------------------------------------------------------------------
(* The calls.  Each leaves the coder ready for the next.                   *)

Encoding(s) == s \in Encoder /\ Accepted(s) /\ Ready(s)

LEMMA ReadyFacts ==
  ASSUME NEW s, Encoding(s)
  PROVE  /\ s \in Encoder /\ Accepted(s) /\ Ready(s) /\ Coding(s)
         /\ s.low \in Nat /\ s.range \in 256..510 /\ s.bitsLeft \in 12..23
         /\ s.bufferedByte \in 0..255 /\ s.numBufferedBytes \in Nat
<1>1. s \in Encoder /\ Accepted(s) /\ Ready(s)
  BY Zenon DEF Encoding
<1>2. Coding(s) /\ s.bitsLeft >= 12
  BY <1>1, Zenon DEF Ready
<1>3. s.range \in 256..510 /\ s.bitsLeft \in 4..23 /\ s.bufferedByte \in 0..255
  BY <1>2, Zenon DEF Coding
<1>4. s.bitsLeft \in 12..23
  BY <1>2, <1>3
<1>5. s.low \in Nat /\ s.numBufferedBytes \in Nat
  BY <1>1 DEF Encoder
<1> QED
  BY <1>1, <1>2, <1>3, <1>4, <1>5, Zenon

LEMMA ShiftFacts ==
  ASSUME NEW s, Encoding(s), NEW low \in Nat, NEW range \in Nat, NEW n \in 0..8,
         range * 2^n \in 256..510, low + range <= s.low + s.range
  PROVE  Advanced(s, Shift(s, low, range, n), n)
<1> DEFINE u == [s EXCEPT !.low = low * 2^n, !.range = range * 2^n, !.bitsLeft = @ - n]
<1>1. s \in Encoder /\ Accepted(s) /\ Ready(s) /\ s.low \in Nat /\ s.range \in 256..510 /\ s.bitsLeft \in 12..23
  BY ReadyFacts
<1>2. PICK a \in Nat : a = 2^n
  <2>1. n \in 0..28
    OBVIOUS
  <2> QED
    BY <2>1, PowersOf2, Zenon
<1>3. PICK low2 \in Nat, range2 \in Nat, bl2 \in Int :
        low2 = low * a /\ range2 = range * a /\ range2 \in 256..510 /\ bl2 = s.bitsLeft - n
  <2>1. low * a \in Nat /\ range * a \in Nat
    BY Z3
  <2>2. range * a \in 256..510
    BY <1>2, Zenon
  <2>3. s.bitsLeft - n \in Int
    BY <1>1
  <2> QED
    BY <2>1, <2>2, <2>3, ZenonT(60)
<1>4. u = [s EXCEPT !.low = low2, !.range = range2, !.bitsLeft = bl2]
  BY <1>2, <1>3, Zenon
<1>5. TestAndWriteOut(u) = Shift(s, low, range, n)
  BY Zenon DEF Shift
<1> HIDE DEF u
<1>6. u \in Encoder
  BY <1>1, <1>4 DEF Encoder
<1>7. Accepted(u)
  BY <1>1, <1>4 DEF Encoder, Accepted
<1>8. /\ u.low = low2 /\ u.range = range2 /\ u.bitsLeft = bl2 /\ u.bits = s.bits
      /\ u.numBufferedBytes = s.numBufferedBytes /\ u.bufferedByte = s.bufferedByte
  BY <1>1, <1>4 DEF Encoder
<1>9. u.low + u.range <= (s.low + s.range) * 2^n
  <2>1. PICK sum \in Nat : sum = s.low + s.range /\ low + range <= sum
    BY <1>1
  <2>2. (low + range) * a <= sum * a
    BY <2>1
  <2>3. low2 + range2 = (low + range) * a
    BY <1>3
  <2>4. low2 + range2 <= sum * a
    BY <2>2, <2>3, Zenon
  <2> QED
    BY <1>2, <1>8, <2>1, <2>4, Zenon
<1>10. u.range \in 256..510 /\ u.bitsLeft = s.bitsLeft - n
  BY <1>3, <1>8, ZenonT(60)
<1> QED
  BY <1>1, <1>5, <1>6, <1>7, <1>8, <1>9, <1>10, Consumes, Zenon

LEMMA AdvancedIsEncoding == ASSUME NEW s, NEW t, NEW n, Advanced(s, t, n) PROVE Encoding(t)
  BY Zenon DEF Advanced, Encoding

(* Only the state of a context changes.                                    *)
LEMMA ContextFacts ==
  ASSUME NEW s, Encoding(s), NEW c \in Contexts, NEW state \in States
  PROVE  /\ Encoding([s EXCEPT !.ctx[c] = state])
         /\ [s EXCEPT !.ctx[c] = state].low = s.low
         /\ [s EXCEPT !.ctx[c] = state].range = s.range
<1> DEFINE u == [s EXCEPT !.ctx[c] = state]
<1>1. s \in Encoder /\ Accepted(s) /\ Ready(s)
  BY ReadyFacts
<1>2. u \in Encoder
  BY <1>1 DEF Encoder
<1>3. Accepted(u)
  BY <1>1 DEF Encoder, Accepted
<1>4. /\ u.low = s.low /\ u.range = s.range /\ u.bitsLeft = s.bitsLeft
      /\ u.numBufferedBytes = s.numBufferedBytes /\ u.bufferedByte = s.bufferedByte
  BY <1>1 DEF Encoder
<1> HIDE DEF u
<1>5. Ready(u)
  <2>1. Coding(s) /\ s.bitsLeft >= 12
    BY <1>1, Zenon DEF Ready
  <2>2. InReach(u.low, u.range, u.bitsLeft, u.bufferedByte)
    BY <1>4, <2>1, Zenon DEF Coding
  <2>3. u.range \in 256..510 /\ u.bitsLeft \in 4..23 /\ u.bufferedByte \in 0..255
    <3>1. s.range \in 256..510 /\ s.bitsLeft \in 4..23 /\ s.bufferedByte \in 0..255
      BY <2>1, Zenon DEF Coding
    <3> QED
      BY <1>4, <3>1
  <2>4. u.numBufferedBytes = 0 => u.bufferedByte = 255
    <3>1. s.numBufferedBytes = 0 => s.bufferedByte = 255
      BY <2>1, Zenon DEF Coding
    <3> QED
      BY <1>4, <3>1
  <2>5. u.bitsLeft >= 12
    BY <1>4, <2>1, Zenon
  <2> QED
    BY <2>2, <2>3, <2>4, <2>5, Zenon DEF Ready, Coding
<1>6. Encoding(u) /\ u.low = s.low /\ u.range = s.range
  BY <1>2, <1>3, <1>4, <1>5, Zenon DEF Encoding
<1> QED
  BY <1>6 DEF u

(* A bin with a context: the less probable symbol has the upper part of    *)
(* the range.                                                              *)
LEMMA EncodeBinFacts ==
  ASSUME NEW s, Encoding(s), NEW c \in Contexts, NEW bin
  PROVE  Encoding(EncodeBin(s, c, bin))
<1> DEFINE state == s.ctx[c]
           lps   == LPSRange(state, s.range)
           mps   == s.range - lps
           asLPS == [s EXCEPT !.ctx[c] = updateLPS(state)]
           asMPS == [s EXCEPT !.ctx[c] = updateMPS(state)]
           up    == IF mps < 256 THEN 1 ELSE 0
<1>1. s.ctx[c] \in States /\ s.low \in Nat /\ s.range \in 256..510
  BY ReadyFacts DEF Encoder
<1>2. PICK low \in Nat, range \in 256..510 : low = s.low /\ range = s.range
  BY <1>1
<1>3. LPSRange(state, range) \in 6..(range - 128) /\ LPSRange(state, range) <= 240
  BY <1>1, RangeSplits
<1>4. PICK l \in 6..240 : l = lps /\ l <= range - 128
  BY <1>2, <1>3
<1>5. Encoding(asLPS) /\ asLPS.low = low /\ asLPS.range = range
  BY <1>1, <1>2, StatesStay, ContextFacts, ZenonT(60)
<1>6. Encoding(asMPS) /\ asMPS.low = low /\ asMPS.range = range
  BY <1>1, <1>2, StatesStay, ContextFacts, ZenonT(60)
<1> HIDE DEF asLPS, asMPS, lps, state
<1>7. Encoding(Shift(asLPS, low + mps, lps, RenormShift(lps)))
  <2>1. mps = range - l /\ low + mps \in Nat /\ l \in Nat /\ low + mps + l = low + range
    BY <1>2, <1>4
  <2>2. RenormShift(l) \in 1..6 /\ l * 2^RenormShift(l) \in 256..510
    BY Renormalised, Zenon
  <2>3. RenormShift(l) \in 0..8
    BY <2>2
  <2>4. low + mps + l <= asLPS.low + asLPS.range
    BY <1>5, <2>1
  <2>5. Advanced(asLPS, Shift(asLPS, low + mps, l, RenormShift(l)), RenormShift(l))
    BY <1>5, <2>1, <2>2, <2>3, <2>4, ShiftFacts, Zenon
  <2> QED
    BY <1>4, <2>5, AdvancedIsEncoding, Zenon
<1>8. Encoding(Shift(asMPS, low, mps, up))
  <2>1. mps = range - l /\ mps \in 128..510 /\ mps \in Nat
    BY <1>2, <1>4, SMTT(60), ZenonT(60)
  <2>2. low + mps <= asMPS.low + asMPS.range
    BY <1>6, <2>1
  <2>3. up \in 0..8 /\ mps * 2^up \in 256..510
    <3>1. CASE mps < 256
      <4>1. up = 1 /\ mps * 2 \in 256..510
        BY <2>1, <3>1
      <4> QED
        BY <2>1, <4>1
    <3>2. CASE ~(mps < 256)
      <4>1. up = 0 /\ mps * 1 \in 256..510
        BY <2>1, <3>2
      <4> QED
        BY <2>1, <4>1
    <3> QED
      BY <3>1, <3>2, Zenon
  <2>4. Advanced(asMPS, Shift(asMPS, low, mps, up), up)
    BY <1>6, <2>1, <2>2, <2>3, ShiftFacts, Zenon
  <2> QED
    BY <2>4, AdvancedIsEncoding, Zenon
<1> QED
  BY <1>2, <1>7, <1>8, Zenon DEF EncodeBin, asLPS, asMPS, lps, state

(* Equiprobable bins move low up and add a multiple of the range.          *)
LEMMA LowMoves ==
  ASSUME NEW s, Encoding(s), NEW n \in 0..8, NEW low \in Nat, low + s.range <= (s.low + s.range) * 2^n
  PROVE  Encoding(TestAndWriteOut([s EXCEPT !.low = low, !.bitsLeft = @ - n]))
<1> DEFINE u == [s EXCEPT !.low = low, !.bitsLeft = @ - n]
<1>1. s \in Encoder /\ Accepted(s) /\ Ready(s) /\ s.range \in 256..510 /\ s.bitsLeft \in 12..23
  BY ReadyFacts
<1>2. PICK bl \in Int : bl = s.bitsLeft - n
  BY <1>1
<1>3. u = [s EXCEPT !.low = low, !.bitsLeft = bl]
  BY <1>2, Zenon
<1> HIDE DEF u
<1>4. u \in Encoder
  BY <1>1, <1>3 DEF Encoder
<1>5. Accepted(u)
  BY <1>1, <1>3 DEF Encoder, Accepted
<1>6. /\ u.low = low /\ u.range = s.range /\ u.bitsLeft = bl /\ u.bits = s.bits
      /\ u.numBufferedBytes = s.numBufferedBytes /\ u.bufferedByte = s.bufferedByte
  BY <1>1, <1>3 DEF Encoder
<1>7. /\ u.range \in 256..510 /\ u.low + u.range <= (s.low + s.range) * 2^n
      /\ u.bitsLeft = s.bitsLeft - n
  BY <1>1, <1>2, <1>6, ZenonT(60)
<1>8. Advanced(s, TestAndWriteOut(u), n)
  BY <1>1, <1>4, <1>5, <1>6, <1>7, Consumes, Zenon
<1> QED
  BY <1>8, AdvancedIsEncoding, Zenon DEF u

LEMMA UpperPart ==
  ASSUME NEW low \in Nat, NEW range \in 256..510, NEW a \in Nat, NEW val \in Nat, val < a,
         NEW add \in Nat, add <= range * val
  PROVE  low * a + add \in Nat /\ low * a + add + range <= (low + range) * a
<1>1. low * a \in Nat /\ range * val \in Nat /\ range * a \in Nat
  BY Z3
<1>2. range * (val + 1) <= range * a
  BY Z3
<1>3. range * (val + 1) = range * val + range
  BY Z3
<1>4. (low + range) * a = low * a + range * a
  BY Z3
<1> QED
  BY <1>1, <1>2, <1>3, <1>4

IsChunk(chunk) == chunk.size \in 1..8 /\ chunk.val \in Nat /\ chunk.val < 2^chunk.size

LEMMA EncodeChunkFacts ==
  ASSUME NEW s, Encoding(s), NEW chunk, IsChunk(chunk)
  PROVE  Encoding(EncodeChunk(s, chunk)) /\ Encoding(EncodeAlignedChunk(s, chunk))
<1>1. s.low \in Nat /\ s.range \in 256..510
  BY ReadyFacts
<1>2. PICK low \in Nat, range \in 256..510 : low = s.low /\ range = s.range
  BY <1>1
<1>3. PICK n \in 1..8, val \in Nat : n = chunk.size /\ val = chunk.val /\ val < 2^n
  BY Zenon DEF IsChunk
<1>4. PICK a \in Nat : a = 2^n /\ val < a
  <2>1. n \in 0..28
    OBVIOUS
  <2> QED
    BY <1>3, <2>1, PowersOf2, Zenon
<1>5. n \in 0..8
  OBVIOUS
<1>6. Encoding(EncodeChunk(s, chunk))
  <2>1. range * val \in Nat /\ range * val <= range * val
    BY Z3
  <2>2. low * a + range * val \in Nat /\ low * a + range * val + range <= (low + range) * a
    BY <1>4, <2>1, UpperPart, Zenon
  <2>3. Encoding(TestAndWriteOut([s EXCEPT !.low = low * a + range * val, !.bitsLeft = @ - n]))
    BY <1>2, <1>4, <1>5, <2>2, LowMoves, Zenon
  <2> QED
    BY <1>2, <1>3, <1>4, <2>3, Zenon DEF EncodeChunk
<1>7. Encoding(EncodeAlignedChunk(s, chunk))
  <2>1. val * 256 \in Nat /\ val * 256 <= range * val
    BY Z3
  <2>2. low * a + val * 256 \in Nat /\ low * a + val * 256 + range <= (low + range) * a
    BY <1>4, <2>1, UpperPart, ZenonT(60)
  <2>3. Encoding(TestAndWriteOut([s EXCEPT !.low = low * a + val * 256, !.bitsLeft = @ - n]))
    BY <1>2, <1>4, <1>5, <2>2, LowMoves, Zenon
  <2> QED
    BY <1>2, <1>3, <1>4, <2>3, Zenon DEF EncodeAlignedChunk
<1> QED
  BY <1>6, <1>7

LEMMA EncodeBinEPFacts ==
  ASSUME NEW s, Encoding(s), NEW bin \in 0..1
  PROVE  Encoding(EncodeBinEP(s, bin))
<1>1. s.low \in Nat /\ s.range \in 256..510
  BY ReadyFacts
<1>2. CASE s.range = 256
  <2> DEFINE chunk == [size |-> 1, val |-> bin]
  <2>1. chunk.size = 1 /\ chunk.val = bin /\ bin < 2^1
    OBVIOUS
  <2>2. IsChunk(chunk)
    <3>1. 1 \in 1..8 /\ bin \in Nat
      OBVIOUS
    <3> HIDE DEF chunk
    <3> QED
      BY <2>1, <3>1, Zenon DEF IsChunk
  <2>3. Encoding(EncodeAlignedChunk(s, chunk))
    BY <2>2, EncodeChunkFacts
  <2> QED
    BY <1>2, <2>3, Zenon DEF EncodeBinEP
<1>3. CASE s.range # 256
  <2>1. PICK low \in Nat, range \in 256..510 : low = s.low /\ range = s.range
    BY <1>1
  <2>2. 2 * low + bin * range \in Nat /\ 2 * low + bin * range + range <= (low + range) * 2
    <3>1. CASE bin = 0
      BY <3>1
    <3>2. CASE bin = 1
      BY <3>2
    <3> QED
      BY <3>1, <3>2
  <2>3. 2 * low + bin * range + s.range <= (s.low + s.range) * 2^1
    BY <2>1, <2>2
  <2>4. Encoding(TestAndWriteOut([s EXCEPT !.low = 2 * low + bin * range, !.bitsLeft = @ - 1]))
    <3>1. 1 \in 0..8
      OBVIOUS
    <3> QED
      BY <2>2, <2>3, <3>1, LowMoves, Zenon
  <2> QED
    BY <1>3, <2>1, <2>4, Zenon DEF EncodeBinEP
<1> QED
  BY <1>2, <1>3

(* At most four chunks, each of them a value that fits in its bins.        *)
LEMMA ChunksFacts ==
  ASSUME NEW num \in 0..32, NEW val \in Nat
  PROVE  /\ Len(Chunks(val, num)) \in Nat
         /\ \A i \in 1..Len(Chunks(val, num)) : IsChunk(Chunks(val, num)[i])
<1> DEFINE sizes == ChunkSizes(num)
           last  == (num + 7) \div 8
           Value(i) == (val \div 2^(num - 8 * (i - 1) - sizes[i])) % 2^sizes[i]
<1>1. last \in 0..4
  OBVIOUS
<1>2. sizes = [i \in 1..last |-> IF 8 * i <= num THEN 8 ELSE num % 8]
  BY DEF ChunkSizes
<1>3. \A i \in 1..last : sizes[i] \in 1..8 /\ num - 8 * (i - 1) - sizes[i] \in 0..24
  <2> TAKE i \in 1..last
  <2>1. CASE 8 * i <= num
    BY <1>1, <1>2, <2>1
  <2>2. CASE ~(8 * i <= num)
    <3>1. i = last /\ num % 8 \in 1..7 /\ num - 8 * (i - 1) = num % 8
      BY <1>1, <2>2
    <3>2. sizes[i] = num % 8
      BY <1>2, <2>2
    <3> QED
      BY <3>1, <3>2
  <2> QED
    BY <2>1, <2>2
<1> HIDE DEF sizes, last
<1>4. \A i \in 1..last : Value(i) \in Nat /\ Value(i) < 2^sizes[i]
  <2> TAKE i \in 1..last
  <2>1. PICK n \in 1..8, k \in 0..24 : n = sizes[i] /\ k = num - 8 * (i - 1) - sizes[i]
    BY <1>3
  <2>2. PICK a \in Nat, p \in Nat : a = 2^n /\ p = 2^k /\ a >= 1 /\ p >= 1
    <3>1. n \in 0..28 /\ k \in 0..28
      OBVIOUS
    <3> QED
      BY <3>1, PowersOf2, ZenonT(60)
  <2>3. (val \div p) % a \in Nat /\ (val \div p) % a < a
    BY <2>2
  <2> QED
    BY <2>1, <2>2, <2>3, Zenon
<1>5. Chunks(val, num) = [i \in 1..last |-> [size |-> sizes[i], val |-> Value(i)]]
  <2>1. DOMAIN sizes = 1..last
    BY <1>2
  <2> QED
    BY <2>1, Zenon DEF Chunks, sizes
<1> HIDE DEF Value
<1>6. Len(Chunks(val, num)) = last
  BY <1>1, <1>5
<1>7. \A i \in 1..last : IsChunk(Chunks(val, num)[i])
  <2> TAKE i \in 1..last
  <2>1. Chunks(val, num)[i] = [size |-> sizes[i], val |-> Value(i)]
    BY <1>5
  <2>2. Chunks(val, num)[i].size = sizes[i] /\ Chunks(val, num)[i].val = Value(i)
    BY <2>1
  <2> QED
    BY <1>3, <1>4, <2>2, Zenon DEF IsChunk
<1> QED
  BY <1>1, <1>6, <1>7

LEMMA EncodeBinsEPFacts ==
  ASSUME NEW s, Encoding(s), NEW num \in 0..32, NEW val \in Nat
  PROVE  Encoding(EncodeBinsEP(s, val, num))
<1> DEFINE chunks == Chunks(val, num)
           Coded(t, i) == IF i > Len(chunks) THEN t
                          ELSE IF s.range = 256 THEN EncodeAlignedChunk(t, chunks[i])
                          ELSE EncodeChunk(t, chunks[i])
<1>1. ASSUME NEW t, Encoding(t), NEW i \in 1..4
      PROVE  Encoding(Coded(t, i))
  <2>1. CASE i > Len(chunks)
    BY <1>1, <2>1, Zenon
  <2>2. CASE ~(i > Len(chunks))
    <3>1. i \in 1..Len(chunks)
      <4>1. Len(chunks) \in Nat
        BY ChunksFacts
      <4> HIDE DEF chunks
      <4> QED
        BY <2>2, <4>1
    <3>2. IsChunk(chunks[i])
      BY <3>1, ChunksFacts, Zenon
    <3>3. Encoding(EncodeChunk(t, chunks[i])) /\ Encoding(EncodeAlignedChunk(t, chunks[i]))
      BY <1>1, <3>2, EncodeChunkFacts
    <3> QED
      BY <2>2, <3>3, Zenon
  <2> QED
    BY <2>1, <2>2, Zenon
<1>2. EncodeBinsEP(s, val, num) = Coded(Coded(Coded(Coded(s, 1), 2), 3), 4)
  BY Zenon DEF EncodeBinsEP
<1>3. 1 \in 1..4 /\ 2 \in 1..4 /\ 3 \in 1..4 /\ 4 \in 1..4
  OBVIOUS
<1> HIDE DEF Coded
<1>4. Encoding(Coded(s, 1))
  BY <1>1, <1>3, Zenon
<1>5. Encoding(Coded(Coded(s, 1), 2))
  BY <1>1, <1>3, <1>4, Zenon
<1>6. Encoding(Coded(Coded(Coded(s, 1), 2), 3))
  BY <1>1, <1>3, <1>5, Zenon
<1>7. Encoding(Coded(Coded(Coded(Coded(s, 1), 2), 3), 4))
  BY <1>1, <1>3, <1>6, Zenon
<1> QED
  BY <1>2, <1>7, Zenon

(* The range alone becomes smaller.                                        *)
LEMMA RangeShrinks ==
  ASSUME NEW s, Encoding(s), NEW range \in 256..510, range <= s.range
  PROVE  Encoding([s EXCEPT !.range = range])
<1> DEFINE u == [s EXCEPT !.range = range]
<1>1. /\ s \in Encoder /\ Accepted(s) /\ Ready(s) /\ Coding(s)
      /\ s.low \in Nat /\ s.range \in 256..510 /\ s.bitsLeft \in 12..23
      /\ s.bufferedByte \in 0..255 /\ s.numBufferedBytes \in Nat
  BY ReadyFacts
<1>2. u \in Encoder
  <2>1. range \in Nat
    OBVIOUS
  <2> QED
    BY <1>1, <2>1 DEF Encoder
<1>3. Accepted(u)
  BY <1>1 DEF Encoder, Accepted
<1>4. /\ u.low = s.low /\ u.range = range /\ u.bitsLeft = s.bitsLeft
      /\ u.numBufferedBytes = s.numBufferedBytes /\ u.bufferedByte = s.bufferedByte
  BY <1>1 DEF Encoder
<1> HIDE DEF u
<1>5. PICK p \in Nat : p = 2^(32 - s.bitsLeft)
  <2>1. PICK k \in 9..20 : k = 32 - s.bitsLeft
    BY <1>1
  <2>2. k \in 0..28
    OBVIOUS
  <2> QED
    BY <2>1, <2>2, PowersOf2, Zenon
<1>6. /\ s.low + s.range <= 2 * p
      /\ s.bufferedByte = 255 => s.low + s.range <= p
      /\ s.numBufferedBytes = 0 => s.bufferedByte = 255
  BY <1>1, <1>5 DEF Coding, InReach
<1>7. /\ u.low \in Nat /\ u.range \in 256..510 /\ u.bitsLeft \in 4..23 /\ u.bufferedByte \in 0..255
      /\ u.bitsLeft >= 12 /\ u.low + u.range <= 2 * p
  <2>1. s.bitsLeft \in 4..23 /\ s.bitsLeft >= 12 /\ s.low + range <= 2 * p
    BY <1>1, <1>6
  <2> QED
    BY <1>1, <1>4, <2>1
<1>8. u.bufferedByte = 255 => u.low + u.range <= p
  BY <1>1, <1>4, <1>6
<1>9. (u.numBufferedBytes = 0 => u.bufferedByte = 255) /\ p = 2^(32 - u.bitsLeft)
  BY <1>4, <1>5, <1>6, Zenon
<1>10. Ready(u)
  BY <1>7, <1>8, <1>9, IsCoding, Zenon DEF Ready
<1> QED
  BY <1>2, <1>3, <1>10, Zenon DEF Encoding, u

LEMMA EncodeBinTrmFacts ==
  ASSUME NEW s, Encoding(s)
  PROVE  Encoding(EncodeBinTrm(s, 0)) /\ Advanced(s, EncodeBinTrm(s, 1), 7)
<1>1. s.low \in Nat /\ s.range \in 256..510
  BY ReadyFacts
<1>2. PICK low \in Nat, range \in 254..508 : low = s.low /\ range = s.range - 2
  BY <1>1
<1>3. Encoding(EncodeBinTrm(s, 0))
  <2>1. CASE range >= 256
    <3>1. range \in 256..510 /\ range <= s.range
      BY <1>2, <2>1
    <3>2. Encoding([s EXCEPT !.range = range])
      BY <3>1, RangeShrinks
    <3>3. EncodeBinTrm(s, 0) = [s EXCEPT !.range = range]
      <4>1. 0 # 1
        OBVIOUS
      <4> QED
        BY <1>2, <2>1, <4>1, Zenon DEF EncodeBinTrm
    <3> QED
      BY <3>2, <3>3, Zenon
  <2>2. CASE ~(range >= 256)
    <3>1. range \in Nat /\ 1 \in 0..8 /\ range * 2^1 \in 256..510 /\ low + range <= s.low + s.range
      BY <1>2, <2>2
    <3>2. Advanced(s, Shift(s, low, range, 1), 1)
      BY <3>1, ShiftFacts, Zenon
    <3>3. EncodeBinTrm(s, 0) = Shift(s, low, range, 1)
      <4>1. 0 # 1
        OBVIOUS
      <4> QED
        BY <1>2, <2>2, <4>1, Zenon DEF EncodeBinTrm
    <3> QED
      BY <3>2, <3>3, AdvancedIsEncoding, Zenon
  <2> QED
    BY <2>1, <2>2
<1>4. Advanced(s, EncodeBinTrm(s, 1), 7)
  <2>1. low + range \in Nat /\ 2 \in Nat /\ 7 \in 0..8 /\ 2 * 2^7 \in 256..510 /\ low + range + 2 <= s.low + s.range
    BY <1>2
  <2>2. Advanced(s, Shift(s, low + range, 2, 7), 7)
    BY <2>1, ShiftFacts, Zenon
  <2>3. EncodeBinTrm(s, 1) = Shift(s, low + range, 2, 7)
    BY <1>2, Zenon DEF EncodeBinTrm
  <2> QED
    BY <2>2, <2>3, Zenon
<1> QED
  BY <1>3, <1>4

-----------------------------------------------------------------------------
(* The end of a substream, or of what precedes PCM samples.                *)

(* The bits of low, but for the last eight, which hold nothing.            *)
LEMMA LastBits ==
  ASSUME NEW s \in Encoder, Accepted(s), NEW n \in 1..12, s.low < 256 * 2^n
  PROVE  MoreBits(s, Write([s EXCEPT !.carryOk = @ /\ TRUE], s.low \div 256, n), n)
<1> DEFINE u == [s EXCEPT !.carryOk = @ /\ TRUE]
<1>1. u \in Encoder
  BY DEF Encoder
<1>2. Accepted(u)
  BY DEF Encoder, Accepted
<1>3. u.bits = s.bits /\ SameRegisters(s, u)
  BY DEF Encoder, SameRegisters
<1> HIDE DEF u
<1>4. s.low \div 256 \in Nat /\ s.low \div 256 < 2^n
  <2>1. PICK q \in Nat : q = 2^n
    <3>1. n \in 0..28
      OBVIOUS
    <3> QED
      BY <3>1, PowersOf2, Zenon
  <2>2. PICK low \in Nat : low = s.low
    BY DEF Encoder
  <2>3. low < 256 * q
    BY <2>1, <2>2, Zenon
  <2>4. low \div 256 \in Nat /\ low \div 256 < q
    BY <2>3
  <2> QED
    BY <2>1, <2>2, <2>4, Zenon
<1>5. MoreBits(u, Write(u, s.low \div 256, n), n)
  BY <1>1, <1>2, <1>4, WriteFacts, Zenon
<1> QED
  BY <1>3, <1>5, ZenonT(60) DEF MoreBits, SameRegisters, u

(* What is known of the registers when the substream ends.                 *)
LEMMA EndFacts ==
  ASSUME NEW s, Encoding(s)
  PROVE  \E q \in Nat :
           /\ q = 2^(24 - s.bitsLeft) /\ 256 * q = 2^(32 - s.bitsLeft) /\ s.low < 512 * q
           /\ s.bufferedByte = 255 => s.low < 256 * q
           /\ s.numBufferedBytes = 0 => s.bufferedByte = 255
<1>1. PICK low \in Nat, n \in Nat, bl \in 12..23, b \in 0..255, range \in 256..510 :
        /\ low = s.low /\ n = s.numBufferedBytes /\ bl = s.bitsLeft /\ b = s.bufferedByte
        /\ range = s.range
  <2>1. /\ s.low \in Nat /\ s.range \in 256..510 /\ s.bitsLeft \in 12..23
        /\ s.bufferedByte \in 0..255 /\ s.numBufferedBytes \in Nat
    BY ReadyFacts
  <2> QED
    BY <2>1, Zenon
<1>2. PICK q \in Nat : q = 2^(24 - bl) /\ 256 * q = 2^(32 - bl)
  <2>1. PICK k \in 1..12 : k = 24 - bl /\ k + 8 = 32 - bl
    OBVIOUS
  <2>2. 2^k \in Nat /\ 2^(k + 8) = 256 * 2^k
    <3>1. k \in 0..28 /\ k \in 0..20
      OBVIOUS
    <3> QED
      BY <3>1, PowersOf2, Zenon
  <2> QED
    BY <2>1, <2>2
<1>3. Coding(s)
  BY ReadyFacts
<1>4. /\ low + range <= 2 * (256 * q)
      /\ b = 255 => low + range <= 256 * q
      /\ n = 0 => b = 255
  <2>1. low + range <= (IF b = 255 THEN 1 ELSE 2) * (256 * q)
    BY <1>1, <1>2, <1>3, Zenon DEF Coding, InReach
  <2>2. CASE b = 255
    BY <2>1, <2>2
  <2>3. CASE b # 255
    <3>1. n # 0
      BY <1>1, <1>3, <2>3, Zenon DEF Coding
    <3> QED
      BY <2>1, <2>3, <3>1
  <2> QED
    BY <2>2, <2>3
<1>5. low < 512 * q /\ (b = 255 => low < 256 * q)
  BY <1>4
<1>6. /\ q = 2^(24 - s.bitsLeft) /\ 256 * q = 2^(32 - s.bitsLeft) /\ s.low < 512 * q
      /\ s.bufferedByte = 255 => s.low < 256 * q
      /\ s.numBufferedBytes = 0 => s.bufferedByte = 255
  BY <1>1, <1>2, <1>4, <1>5, ZenonT(60)
<1> QED
  BY <1>6, Zenon

LEMMA FinishFacts ==
  ASSUME NEW s, Encoding(s)
  PROVE  /\ Finish(s) \in Encoder /\ Accepted(Finish(s))
         /\ Len(Finish(s).bits) = NumWrittenBits(s) + 1
<1> DEFINE held   == [s EXCEPT !.numBufferedBytes = IF @ > 1 THEN 1 ELSE @]
           taken  == [held EXCEPT !.low = @ - 2^(32 - s.bitsLeft)]
           first  == Write(taken, s.bufferedByte + 1, 8)
           zeros  == WriteBytes(first, 0, s.numBufferedBytes - 1)
           same   == WriteBytes(held, s.bufferedByte, IF s.numBufferedBytes > 0 THEN 1 ELSE 0)
           ones   == WriteBytes(same, 255, s.numBufferedBytes - 1)
<1>1. s \in Encoder /\ Accepted(s)
  BY ReadyFacts
<1>2. PICK low \in Nat, n \in Nat, bl \in 12..23, b \in 0..255 :
        low = s.low /\ n = s.numBufferedBytes /\ bl = s.bitsLeft /\ b = s.bufferedByte
  <2>1. s.low \in Nat /\ s.bitsLeft \in 12..23 /\ s.bufferedByte \in 0..255 /\ s.numBufferedBytes \in Nat
    BY ReadyFacts
  <2> QED
    BY <2>1, Zenon
<1>3. PICK q \in Nat : /\ q = 2^(24 - bl) /\ 256 * q = 2^(32 - bl) /\ low < 512 * q
                       /\ b = 255 => low < 256 * q
                       /\ n = 0 => b = 255
  <2>1. PICK q \in Nat : /\ q = 2^(24 - s.bitsLeft) /\ 256 * q = 2^(32 - s.bitsLeft) /\ s.low < 512 * q
                         /\ s.bufferedByte = 255 => s.low < 256 * q
                         /\ s.numBufferedBytes = 0 => s.bufferedByte = 255
    BY EndFacts
  <2> QED
    BY <1>2, <2>1, ZenonT(60)
<1>4. CarryOut(s) <=> low >= 256 * q
  BY <1>2, <1>3, ZenonT(60) DEF CarryOut
<1>5. held \in Encoder /\ Accepted(held) /\ held.low = low /\ held.bits = s.bits
  <2>1. PICK m \in Nat : m = IF n > 1 THEN 1 ELSE n
    OBVIOUS
  <2>2. held = [s EXCEPT !.numBufferedBytes = m]
    BY <1>2, <2>1, Zenon
  <2> HIDE DEF held
  <2>3. held \in Encoder /\ held.low = low /\ held.bits = s.bits
    BY <1>1, <1>2, <2>2 DEF Encoder
  <2>4. Accepted(held)
    BY <1>1, <2>2 DEF Encoder, Accepted
  <2> QED
    BY <2>3, <2>4
<1> HIDE DEF held
<1>6. 24 - bl \in 1..12
  OBVIOUS
<1>7. PICK len \in Nat : len = Len(s.bits) /\ NumWrittenBits(s) + 1 = len + 8 * n + (24 - bl)
  <2>1. PICK len \in Nat : len = Len(s.bits)
    BY <1>1 DEF Encoder
  <2>2. NumWrittenBits(s) = len + 8 * n + 23 - bl
    BY <1>2, <2>1, Zenon DEF NumWrittenBits
  <2>3. NumWrittenBits(s) + 1 = len + 8 * n + (24 - bl)
    BY <2>2
  <2> QED
    BY <2>1, <2>3
(* Whichever bytes are sent, what is left of low fits in its bits.         *)
<1>8. ASSUME NEW all \in Encoder, Accepted(all), Len(all.bits) = len + 8 * n, all.low < 256 * q,
             Finish(s) = Write([all EXCEPT !.carryOk = @ /\ TRUE], all.low \div 256, 24 - bl)
      PROVE  /\ Finish(s) \in Encoder /\ Accepted(Finish(s))
             /\ Len(Finish(s).bits) = NumWrittenBits(s) + 1
  <2>1. all.low < 256 * 2^(24 - bl)
    BY <1>3, <1>8, Zenon
  <2>2. MoreBits(all, Finish(s), 24 - bl)
    BY <1>6, <1>8, <2>1, LastBits, Zenon
  <2>3. Len(Finish(s).bits) = len + 8 * n + (24 - bl)
    BY <1>8, <2>2, Zenon DEF MoreBits
  <2> QED
    BY <1>7, <2>2, <2>3, Zenon DEF MoreBits
<1>9. CASE low >= 256 * q
  <2>1. CarryOut(s) /\ b # 255 /\ n > 0 /\ b + 1 \in Nat
    BY <1>3, <1>4, <1>9
  <2>2. PICK rest \in Nat : rest = low - 256 * q /\ rest < 256 * q
    BY <1>3, <1>9
  <2>3. taken \in Encoder /\ Accepted(taken) /\ taken.low = rest /\ taken.bits = s.bits
    <3>1. taken = [held EXCEPT !.low = rest]
      BY <1>2, <1>3, <1>5, <2>2, Zenon
    <3> HIDE DEF taken
    <3>2. taken \in Encoder /\ taken.low = rest /\ taken.bits = s.bits
      BY <1>5, <3>1 DEF Encoder
    <3>3. Accepted(taken)
      BY <1>5, <3>1 DEF Encoder, Accepted
    <3> QED
      BY <3>2, <3>3
  <2> HIDE DEF taken
  <2>4. MoreBits(taken, first, 8)
    <3>1. 8 \in 1..12 /\ b + 1 < 2^8
      BY <2>1
    <3>2. MoreBits(taken, Write(taken, b + 1, 8), 8)
      BY <2>1, <2>3, <3>1, WriteFacts, Zenon
    <3> QED
      BY <1>2, <3>2, Zenon
  <2> HIDE DEF first
  <2>5. MoreBits(first, zeros, 8 * (n - 1))
    <3>1. n - 1 \in Int /\ n - 1 >= -1 /\ n - 1 >= 0 /\ 0 \in 0..255
      BY <2>1
    <3>2. first \in Encoder /\ Accepted(first)
      BY <2>4, Zenon DEF MoreBits
    <3>3. MoreBits(first, WriteBytes(first, 0, n - 1), 8 * (n - 1))
      BY <3>1, <3>2, WriteBytesFacts, Zenon
    <3> QED
      BY <1>2, <3>3, Zenon
  <2> HIDE DEF zeros
  <2>6. zeros \in Encoder /\ Accepted(zeros) /\ zeros.low < 256 * q
    <3>1. zeros.low = rest
      BY <2>3, <2>4, <2>5, Zenon DEF MoreBits, SameRegisters
    <3> QED
      BY <2>2, <2>5, <3>1, Zenon DEF MoreBits
  <2>7. Len(zeros.bits) = len + 8 * n
    <3>1. Len(zeros.bits) = (len + 8) + 8 * (n - 1)
      BY <1>7, <2>3, <2>4, <2>5, Zenon DEF MoreBits
    <3>2. (len + 8) + 8 * (n - 1) = len + 8 * n
      OBVIOUS
    <3> QED
      BY <3>1, <3>2, Zenon
  <2>8. Finish(s) = Write([zeros EXCEPT !.carryOk = @ /\ TRUE], zeros.low \div 256, 24 - bl)
    <3>1. (CarryOut(s) => s.numBufferedBytes > 0 /\ s.bufferedByte # 255) <=> TRUE
      BY <1>2, <2>1, Zenon
    <3> QED
      BY <1>2, <2>1, <3>1, Zenon DEF Finish, zeros, first, taken, held
  <2> QED
    BY <1>8, <2>6, <2>7, <2>8, Zenon
<1>10. CASE ~(low >= 256 * q)
  <2>1. ~CarryOut(s) /\ low < 256 * q
    BY <1>3, <1>4, <1>10
  <2>4. Finish(s) = Write([ones EXCEPT !.carryOk = @ /\ TRUE], ones.low \div 256, 24 - bl)
    <3>1. (CarryOut(s) => s.numBufferedBytes > 0 /\ s.bufferedByte # 255) <=> TRUE
      BY <2>1, Zenon
    <3>2. Finish(s) = Write([ones EXCEPT !.carryOk = @ /\ TRUE], ones.low \div 256, 24 - s.bitsLeft)
      BY <2>1, <3>1, SMTT(60) DEF Finish, ones, same, held
    <3> QED
      BY <1>2, <3>2, ZenonT(60)
  <2>2. CASE n > 0
    <3>1. same = WriteBytes(held, b, 1)
      BY <1>2, <2>2, Zenon
    <3>2. 1 \in Int /\ 1 >= -1 /\ 1 >= 0
      OBVIOUS
    <3>3. MoreBits(held, same, 8 * 1)
      BY <1>5, <3>1, <3>2, WriteBytesFacts, Zenon
    <3> HIDE DEF same
    <3>4. n - 1 \in Int /\ n - 1 >= -1 /\ n - 1 >= 0 /\ 255 \in 0..255
      BY <2>2
    <3>5. same \in Encoder /\ Accepted(same)
      BY <3>3, Zenon DEF MoreBits
    <3>6. MoreBits(same, WriteBytes(same, 255, n - 1), 8 * (n - 1))
      BY <3>4, <3>5, WriteBytesFacts, Zenon
    <3>7. MoreBits(same, ones, 8 * (n - 1))
      BY <1>2, <3>6, Zenon
    <3> HIDE DEF ones
    <3>8. ones.low = low
      BY <1>5, <3>3, <3>7, Zenon DEF MoreBits, SameRegisters
    <3>9. Len(ones.bits) = (len + 8 * 1) + 8 * (n - 1)
      BY <1>5, <1>7, <3>3, <3>7, Zenon DEF MoreBits
    <3>10. (len + 8 * 1) + 8 * (n - 1) = len + 8 * n
      OBVIOUS
    <3>11. ones \in Encoder /\ Accepted(ones)
      BY <3>7, Zenon DEF MoreBits
    <3> QED
      BY <1>8, <2>1, <2>4, <3>8, <3>9, <3>10, <3>11, Zenon
  <2>3. CASE n = 0
    <3>1. same = WriteBytes(held, b, 0)
      <4>1. ~(n > 0)
        BY <2>3
      <4> QED
        BY <1>2, <4>1, Zenon
    <3>2. 0 \in Int /\ 0 >= -1 /\ 0 >= 0
      OBVIOUS
    <3>3. MoreBits(held, same, 8 * 0)
      BY <1>5, <3>1, <3>2, WriteBytesFacts, Zenon
    <3> HIDE DEF same
    <3>4. n - 1 \in Int /\ n - 1 >= -1 /\ n - 1 < 0 /\ 255 \in 0..255
      BY <2>3
    <3>5. same \in Encoder /\ Accepted(same)
      BY <3>3, Zenon DEF MoreBits
    <3>6. MoreBits(same, WriteBytes(same, 255, n - 1), 0)
      BY <3>4, <3>5, WriteBytesFacts, Zenon
    <3>7. MoreBits(same, ones, 0)
      BY <1>2, <3>6, Zenon
    <3> HIDE DEF ones
    <3>8. ones.low = low
      BY <1>5, <3>3, <3>7, Zenon DEF MoreBits, SameRegisters
    <3>9. Len(ones.bits) = (len + 8 * 0) + 0
      BY <1>5, <1>7, <3>3, <3>7, Zenon DEF MoreBits
    <3>10. (len + 8 * 0) + 0 = len + 8 * n
      BY <2>3
    <3>11. ones \in Encoder /\ Accepted(ones)
      BY <3>7, Zenon DEF MoreBits
    <3> QED
      BY <1>8, <2>1, <2>4, <3>8, <3>9, <3>10, <3>11, Zenon
  <2> QED
    BY <2>2, <2>3
<1> QED
  BY <1>9, <1>10

(* start: nothing is counted, and the whole interval is left.              *)
LEMMA StartIsEncoding ==
  ASSUME NEW u \in Encoder, Accepted(u), u.low = 0, u.range = 510, u.bitsLeft = 23,
         u.numBufferedBytes = 0, u.bufferedByte = 255
  PROVE  Encoding(u)
<1>1. PICK p \in Nat : p = 512 /\ p = 2^(32 - u.bitsLeft)
  <2>1. 32 - u.bitsLeft = 9
    OBVIOUS
  <2>2. 2^9 = 512
    OBVIOUS
  <2>3. 2^(32 - u.bitsLeft) = 512
    BY <2>1, <2>2, Zenon
  <2> QED
    BY <2>3
<1>2. /\ u.low \in Nat /\ u.range \in 256..510 /\ u.bitsLeft \in 4..23 /\ u.bufferedByte \in 0..255
      /\ u.bitsLeft >= 12 /\ u.low + u.range <= 2 * p
      /\ (u.numBufferedBytes = 0 => u.bufferedByte = 255)
      /\ (u.bufferedByte = 255 => u.low + u.range <= p)
  BY <1>1
<1>3. Coding(u)
  BY <1>1, <1>2 DEF Coding, InReach
<1>4. Ready(u)
  BY <1>2, <1>3, Zenon DEF Ready
<1> QED
  BY <1>4, Zenon DEF Encoding

LEMMA EncStartFacts ==
  ASSUME NEW s \in Encoder, Accepted(s)
  PROVE  Encoding(EncStart(s))
<1> DEFINE u == EncStart(s)
<1>1. u = [s EXCEPT !.low = 0, !.range = 510, !.bitsLeft = 23, !.numBufferedBytes = 0, !.bufferedByte = 255]
  BY Zenon DEF EncStart
<1> HIDE DEF u
<1>2. /\ u.low = 0 /\ u.range = 510 /\ u.bitsLeft = 23 /\ u.numBufferedBytes = 0 /\ u.bufferedByte = 255
  BY <1>1 DEF Encoder
<1>3. u \in Encoder
  <2>1. PICK low \in Nat, range \in Nat, bitsLeft \in Int, n \in Nat, byte \in Nat :
          low = 0 /\ range = 510 /\ bitsLeft = 23 /\ n = 0 /\ byte = 255
    OBVIOUS
  <2>2. u = [s EXCEPT !.low = low, !.range = range, !.bitsLeft = bitsLeft,
                      !.numBufferedBytes = n, !.bufferedByte = byte]
    BY <1>1, <2>1, Zenon
  <2> QED
    BY <2>2 DEF Encoder
<1>4. Accepted(u)
  BY <1>1 DEF Encoder, Accepted
<1>5. Encoding(u)
  BY <1>2, <1>3, <1>4, StartIsEncoding, Zenon
<1> QED
  BY <1>5, Zenon DEF u

LEMMA EndSubstreamFacts ==
  ASSUME NEW s, Encoding(s)
  PROVE  /\ EndSubstream(s) \in Encoder /\ Accepted(EndSubstream(s))
         /\ Len(EndSubstream(s).bits) = 8 * ((NumWrittenBits(s) + 9 + 7) \div 8)
<1> DEFINE t == EncodeBinTrm(s, 1)
           f == Finish(t)
<1>1. Encoding(t) /\ NumWrittenBits(t) = NumWrittenBits(s) + 7
  <2>1. Advanced(s, t, 7)
    BY EncodeBinTrmFacts
  <2> QED
    BY <2>1, Zenon DEF Advanced, Encoding
<1> HIDE DEF t
<1>2. f \in Encoder /\ Accepted(f) /\ Len(f.bits) = NumWrittenBits(t) + 1
  BY <1>1, FinishFacts
<1> HIDE DEF f
<1>3. EndSubstream(s) = WriteByteAlignment(f)
  BY Zenon DEF EndSubstream, f, t
<1>4. /\ WriteByteAlignment(f) \in Encoder /\ Accepted(WriteByteAlignment(f))
      /\ Len(WriteByteAlignment(f).bits) = 8 * ((Len(f.bits) + 8) \div 8)
  BY <1>2, AlignmentFacts, Zenon
<1>5. Len(f.bits) + 8 = NumWrittenBits(s) + 9 + 7
  <2>1. PICK n \in Int : n = NumWrittenBits(s)
    <3>1. PICK len \in Nat, m \in Nat, bl \in Int : len = Len(s.bits) /\ m = s.numBufferedBytes /\ bl = s.bitsLeft
      BY ReadyFacts DEF Encoder
    <3>2. NumWrittenBits(s) = len + 8 * m + 23 - bl
      BY <3>1, Zenon DEF NumWrittenBits
    <3>3. len + 8 * m + 23 - bl \in Int
      OBVIOUS
    <3> QED
      BY <3>2, <3>3, Zenon
  <2>2. Len(f.bits) = n + 7 + 1
    BY <1>1, <1>2, <2>1, Zenon
  <2> QED
    BY <2>1, <2>2
<1> QED
  BY <1>3, <1>4, <1>5, Zenon

LEMMA CodePCMFacts ==
  ASSUME NEW s, Encoding(s), NEW sample \in 0..255
  PROVE  Encoding(CodePCM(s, sample))
<1> DEFINE e == EndSubstream(s)
           w == Write(e, sample, 8)
<1>1. e \in Encoder /\ Accepted(e)
  BY EndSubstreamFacts
<1>2. CodePCM(s, sample) = EncStart(w)
  BY Zenon DEF CodePCM, EndSubstream
<1> HIDE DEF e
<1>3. sample \in Nat /\ 8 \in 1..12 /\ sample < 2^8
  OBVIOUS
<1>4. MoreBits(e, w, 8)
  BY <1>1, <1>3, WriteFacts, Zenon
<1> HIDE DEF w
<1>5. w \in Encoder /\ Accepted(w)
  BY <1>4, Zenon DEF MoreBits
<1> QED
  BY <1>2, <1>5, EncStartFacts, Zenon

-----------------------------------------------------------------------------
(* The encoder can go on as long as it is asked to, and what it has        *)
(* written fits.                                                           *)
EncoderInv ==
  /\ enc \in Encoder /\ Accepted(enc)
  /\ phase = "encode" => Ready(enc)

LEMMA InitEncoder == Init => EncoderInv
<1> SUFFICES ASSUME Init PROVE EncoderInv
  OBVIOUS
<1>1. PICK init \in [Contexts -> States] :
        enc = [low |-> 0, range |-> 510, bitsLeft |-> 23, numBufferedBytes |-> 0,
               bufferedByte |-> 255, bits |-> << >>, fits |-> TRUE, carryOk |-> TRUE,
               ctx |-> init]
  BY InitStatesAssumption, ZenonT(60) DEF Init
<1>2. enc \in Encoder
  BY <1>1 DEF Encoder
<1>3. Accepted(enc)
  BY <1>1 DEF Accepted
<1>4. /\ enc.low = 0 /\ enc.range = 510 /\ enc.bitsLeft = 23
      /\ enc.numBufferedBytes = 0 /\ enc.bufferedByte = 255
  BY <1>1
<1>5. Encoding(enc)
  BY <1>2, <1>3, <1>4, StartIsEncoding, Zenon
<1> QED
  BY <1>2, <1>3, <1>5, Zenon DEF EncoderInv, Encoding

(* A call of the encoder that leaves it able to go on.                     *)
LEMMA CallFacts ==
  ASSUME NEW y, NEW next, Encode(y, next), Encoding(next)
  PROVE  EncoderInv'
<1>1. enc' = next
  BY Zenon DEF Encode
<1>2. Encoding(enc')
  BY <1>1, Zenon
<1> QED
  BY <1>2, Zenon DEF EncoderInv, Encoding

LEMMA NextEncoder == ASSUME EncoderInv, [Next]_vars PROVE EncoderInv'
<1>1. phase = "encode" => Encoding(enc)
  BY Zenon DEF EncoderInv, Encoding
<1>2. ASSUME NEW y, NEW next, Encode(y, next) PROVE Encoding(enc)
  BY <1>1, <1>2, Zenon DEF Encode
<1>3. CASE CodeBin
  <2>1. PICK y \in Symbols : y.kind = "bin" /\ Encode(y, EncodeBin(enc, y.ctx, y.val))
    BY <1>3, Zenon DEF CodeBin, Calls
  <2>2. y.ctx \in Contexts
    BY <2>1, SymbolsAssumption, Zenon
  <2>3. Encoding(enc)
    BY <1>2, <2>1, Zenon
  <2>4. Encoding(EncodeBin(enc, y.ctx, y.val))
    BY <2>2, <2>3, EncodeBinFacts, Zenon
  <2> QED
    BY <2>1, <2>4, CallFacts, Zenon
<1>4. CASE CodeBypass
  <2>1. PICK y \in Symbols : y.kind = "bypass" /\ Encode(y, EncodeBinEP(enc, y.val))
    BY <1>4, Zenon DEF CodeBypass, Calls
  <2>2. y.val \in 0..1
    BY <2>1, SymbolsAssumption
  <2>3. Encoding(enc)
    BY <1>2, <2>1, Zenon
  <2>4. Encoding(EncodeBinEP(enc, y.val))
    BY <2>2, <2>3, EncodeBinEPFacts, Zenon
  <2> QED
    BY <2>1, <2>4, CallFacts, Zenon
<1>5. CASE CodeBypasses
  <2>1. PICK y \in Symbols : y.kind = "bypasses" /\ Encode(y, EncodeBinsEP(enc, y.val, y.num))
    BY <1>5, Zenon DEF CodeBypasses, Calls
  <2>2. y.num \in 0..32 /\ y.val \in 0..(2^y.num - 1)
    BY <2>1, SymbolsAssumption, Zenon
  <2>3. y.val \in Nat
    BY <2>2
  <2>4. Encoding(enc)
    BY <1>2, <2>1, Zenon
  <2>5. Encoding(EncodeBinsEP(enc, y.val, y.num))
    BY <2>2, <2>3, <2>4, EncodeBinsEPFacts, Zenon
  <2> QED
    BY <2>1, <2>5, CallFacts, Zenon
<1>6. CASE CodeTerminate
  <2>1. PICK y \in Symbols : Encode(y, EncodeBinTrm(enc, 0))
    BY <1>6, Zenon DEF CodeTerminate, Calls
  <2>2. Encoding(EncodeBinTrm(enc, 0))
    BY <1>2, <2>1, EncodeBinTrmFacts, Zenon
  <2> QED
    BY <2>1, <2>2, CallFacts, Zenon
<1>7. CASE CodeAlign
  <2>1. PICK y \in Symbols : Encode(y, [enc EXCEPT !.range = 256])
    BY <1>7, Zenon DEF CodeAlign, Calls
  <2>2. Encoding(enc)
    BY <1>2, <2>1, Zenon
  <2>3. 256 \in 256..510 /\ 256 <= enc.range
    BY <2>2, ReadyFacts
  <2>4. Encoding([enc EXCEPT !.range = 256])
    BY <2>2, <2>3, RangeShrinks, Zenon
  <2> QED
    BY <2>1, <2>4, CallFacts, Zenon
<1>8. CASE CodeSample
  <2>1. PICK y \in Symbols : y.kind = "pcm" /\ Encode(y, CodePCM(enc, y.val))
    BY <1>8, Zenon DEF CodeSample, Calls
  <2>2. y.val \in 0..255
    BY <2>1, SymbolsAssumption, Zenon
  <2>3. Encoding(enc)
    BY <1>2, <2>1, Zenon
  <2>4. Encoding(CodePCM(enc, y.val))
    BY <2>2, <2>3, CodePCMFacts, Zenon
  <2> QED
    BY <2>1, <2>4, CallFacts, Zenon
<1>9. CASE CodeEnd
  <2>1. Encoding(enc) /\ enc' = EndSubstream(enc) /\ phase' = "start"
    BY <1>1, <1>9, Zenon DEF CodeEnd
  <2>2. enc' \in Encoder /\ Accepted(enc')
    BY <2>1, EndSubstreamFacts, Zenon
  <2>3. phase' # "encode"
    BY <2>1
  <2> QED
    BY <2>2, <2>3, Zenon DEF EncoderInv
<1>10. ASSUME enc' = enc, phase' = phase \/ phase' # "encode" PROVE EncoderInv'
  BY <1>10, Zenon DEF EncoderInv
<1>11. CASE StartDecoding
  BY <1>10, <1>11 DEF StartDecoding
<1>12. CASE ParseBin \/ ParseBypass \/ ParseBypasses \/ ParseTerminate \/ ParseAlign \/ ParseSample
  <2>1. enc' = enc /\ phase' = phase
    BY <1>12, Zenon DEF ParseBin, ParseBypass, ParseBypasses, ParseTerminate, ParseAlign, ParseSample, Decode
  <2> QED
    BY <1>10, <2>1, Zenon
<1>13. CASE ParseEnd
  BY <1>10, <1>13 DEF ParseEnd
<1>14. CASE UNCHANGED vars
  <2>1. enc' = enc /\ phase' = phase
    BY <1>14, Zenon DEF vars
  <2> QED
    BY <1>10, <2>1, Zenon
<1> QED
  BY <1>3, <1>4, <1>5, <1>6, <1>7, <1>8, <1>9, <1>11, <1>12, <1>13, <1>14, Zenon DEF Next

LEMMA EncoderInvAlways == Spec => []EncoderInv
  BY InitEncoder, NextEncoder, PTL DEF Spec

(* Whatever bins are coded, in whatever order and with whatever context    *)
(* states, every value the encoder writes fits in the bits it is written   *)
(* with (the assertion of TComOutputBitstream::write), and a carry that is *)
(* left at finish finds a byte held back that can take it (the assertions  *)
(* of TEncBinCABAC::finish).                                               *)
THEOREM EncoderNeverFails == Spec => []EncoderAsserts
<1>1. EncoderInv => EncoderAsserts
  BY Zenon DEF EncoderInv, Accepted, EncoderAsserts
<1> QED
  BY <1>1, EncoderInvAlways, PTL

(* The finished substream has the length that getNumWrittenBits gave       *)
(* before it was finished, with the bytes held back for a carry in it: the *)
(* nine bits of the end are added and the last byte is completed.          *)
THEOREM SizeIsPredictedAlways == Spec => SizeIsPredicted
<1>1. ASSUME EncoderInv, CodeEnd
      PROVE  Len(enc'.bits) = 8 * ((NumWrittenBits(enc) + 9 + 7) \div 8)
  <2>1. Encoding(enc) /\ enc' = EndSubstream(enc)
    BY <1>1, Zenon DEF EncoderInv, Encoding, CodeEnd
  <2> QED
    BY <2>1, EndSubstreamFacts, Zenon
<1>2. EncoderInv => [CodeEnd => Len(enc'.bits) = 8 * ((NumWrittenBits(enc) + 9 + 7) \div 8)]_vars
  BY <1>1, Zenon
<1> QED
  BY <1>2, EncoderInvAlways, PTL DEF SizeIsPredicted

=============================================================================
