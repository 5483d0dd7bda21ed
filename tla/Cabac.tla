-------------------------------- MODULE Cabac --------------------------------
(***************************************************************************)
(* The arithmetic coder of the slice data.  The encoder (TLibEncoder/      *)
(* TEncBinCoderCABAC.cpp) turns bins into the bits of a substream and has  *)
(* to send a byte only when no later carry can change it; the decoder      *)
(* (TLibDecoder/TDecBinCoderCABAC.cpp) starts when the substream is        *)
(* complete and asks for the same kinds of bins in the same order.  It     *)
(* never aligns: the encoder's finish leaves exactly the bytes the decoder *)
(* has taken, so that PCM samples and the next substream begin where its   *)
(* byte pointer stands.                                                    *)
(*                                                                         *)
(* The bitstream is the sequence of its bits.  A symbol is a call of the   *)
(* bin coder: "bin" with a context, "bypass" (one equiprobable bin),       *)
(* "bypasses" (num of them), "terminate" (a terminating bin 0), "align"    *)
(* and "pcm" (pcm_flag 1 and a sample of 8 bits).                          *)
(***************************************************************************)
EXTENDS Integers, Sequences, SequencesExt

CONSTANTS Contexts,
          InitStates,   \* functions that give every context its first state
          Symbols,      \* the calls: [kind, ctx, num, val]
          MaxSymbols

VARIABLES phase,        \* "encode", "start", "decode", "done"
          coded,        \* the symbols the encoder was given
          enc,          \* the encoder and its TComOutputBitstream
          dec,          \* the decoder and its TComInputBitstream
          decoded       \* the values the decoder has returned

vars == <<phase, coded, enc, dec, decoded>>

-----------------------------------------------------------------------------
(* The adaptive binary probability of one context (ContextModel) and the   *)
(* tables of the coder (TComCABACTables).  A state is twice the probability*)
(* index 0..62 plus the more probable symbol.                              *)

States == 0..125

ASSUME InitStatesAssumption == InitStates \subseteq [Contexts -> States]

(* Bins are 0 or 1 and values fit in the bins they are coded with.         *)
ASSUME SymbolsAssumption ==
  \A y \in Symbols :
    /\ y.kind = "bin" => y.ctx \in Contexts
    /\ y.kind \in {"bin", "bypass"} => y.val \in 0..1
    /\ y.kind = "bypasses" => y.num \in 0..32 /\ y.val \in 0..(2^y.num - 1)
    /\ y.kind = "pcm" => y.val \in 0..255

getState(s) == s \div 2
getMps(s)   == s % 2

(* sm_aucLPSTable: the width of the less probable symbol's part of the     *)
(* range, by the state and two bits of the range.                          *)
LPSTable == <<
  <<128, 176, 208, 240>>, <<128, 167, 197, 227>>, <<128, 158, 187, 216>>, <<123, 150, 178, 205>>,
  <<116, 142, 169, 195>>, <<111, 135, 160, 185>>, <<105, 128, 152, 175>>, <<100, 122, 144, 166>>,
  << 95, 116, 137, 158>>, << 90, 110, 130, 150>>, << 85, 104, 123, 142>>, << 81,  99, 117, 135>>,
  << 77,  94, 111, 128>>, << 73,  89, 105, 122>>, << 69,  85, 100, 116>>, << 66,  80,  95, 110>>,
  << 62,  76,  90, 104>>, << 59,  72,  86,  99>>, << 56,  69,  81,  94>>, << 53,  65,  77,  89>>,
  << 51,  62,  73,  85>>, << 48,  59,  69,  80>>, << 46,  56,  66,  76>>, << 43,  53,  63,  72>>,
  << 41,  50,  59,  69>>, << 39,  48,  56,  65>>, << 37,  45,  54,  62>>, << 35,  43,  51,  59>>,
  << 33,  41,  48,  56>>, << 32,  39,  46,  53>>, << 30,  37,  43,  50>>, << 29,  35,  41,  48>>,
  << 27,  33,  39,  45>>, << 26,  31,  37,  43>>, << 24,  30,  35,  41>>, << 23,  28,  33,  39>>,
  << 22,  27,  32,  37>>, << 21,  26,  30,  35>>, << 20,  24,  29,  33>>, << 19,  23,  27,  31>>,
  << 18,  22,  26,  30>>, << 17,  21,  25,  28>>, << 16,  20,  23,  27>>, << 15,  19,  22,  25>>,
  << 14,  18,  21,  24>>, << 14,  17,  20,  23>>, << 13,  16,  19,  22>>, << 12,  15,  18,  21>>,
  << 12,  14,  17,  20>>, << 11,  14,  16,  19>>, << 11,  13,  15,  18>>, << 10,  12,  15,  17>>,
  << 10,  12,  14,  16>>, <<  9,  11,  13,  15>>, <<  9,  11,  12,  14>>, <<  8,  10,  12,  14>>,
  <<  8,   9,  11,  13>>, <<  7,   9,  11,  12>>, <<  7,   9,  10,  12>>, <<  7,   8,  10,  11>>,
  <<  6,   8,   9,  11>>, <<  6,   7,   9,  10>>, <<  6,   7,   8,   9>>, <<  2,   2,   2,   2>> >>

LPSRange(s, range) == LPSTable[getState(s) + 1][((range \div 64) % 4) + 1]

(* sm_aucRenormTable: the shift that brings a less probable symbol's range *)
(* back to 256 or more.                                                    *)
RenormTable == <<6, 5, 4, 4, 3, 3, 3, 3, 2, 2, 2, 2, 2, 2, 2, 2,
                 1, 1, 1, 1, 1, 1, 1, 1, 1, 1, 1, 1, 1, 1, 1, 1>>

RenormShift(lps) == RenormTable[lps \div 8 + 1]

updateMPS(s) == IF s < 124 THEN s + 2 ELSE s

(* m_aucNextStateLPS, by the probability index; at index 0 the symbols     *)
(* change places.                                                          *)
NextIndexLPS == <<
   0,  0,  1,  2,  2,  4,  4,  5,  6,  7,  8,  9,  9, 11, 11, 12,
  13, 13, 15, 15, 16, 16, 18, 18, 19, 19, 21, 21, 22, 22, 23, 24,
  24, 25, 26, 26, 27, 27, 28, 29, 29, 30, 30, 30, 31, 32, 32, 33,
  33, 33, 34, 34, 35, 35, 35, 36, 36, 36, 37, 37, 37, 38, 38, 63 >>

updateLPS(s) == IF s < 2 THEN 1 - s ELSE 2 * NextIndexLPS[getState(s) + 1] + getMps(s)

(* ContextModel::init: from the slice QP and the initialisation value.     *)
InitState(sliceQP, initValue) ==
  LET qp     == IF sliceQP < 0 THEN 0 ELSE IF sliceQP > 51 THEN 51 ELSE sliceQP
      slope  == (initValue \div 16) * 5 - 45
      offset == 8 * (initValue % 16) - 16
      wanted == (slope * qp) \div 16 + offset
      init   == IF wanted < 1 THEN 1 ELSE IF wanted > 126 THEN 126 ELSE wanted
  IN  IF init >= 64 THEN 2 * (init - 64) + 1 ELSE 2 * (63 - init)

-----------------------------------------------------------------------------
(* The encoder *)

EncStart(s) ==
  [s EXCEPT !.low = 0, !.range = 510, !.bitsLeft = 23,
            !.numBufferedBytes = 0, !.bufferedByte = 255]

BitsOf(v, n) == [i \in 1..n |-> (v \div 2^(n - i)) % 2]

(* TComOutputBitstream::write; the second assertion of it may fail.        *)
Write(s, v, n) ==
  [s EXCEPT !.bits = @ \o BitsOf(v, n), !.fits = @ /\ v < 2^n]

(* count times the same byte.                                              *)
WriteBytes(s, byte, count) ==
  [s EXCEPT !.bits = @ \o [i \in 1..(8 * count) |-> BitsOf(byte, 8)[((i - 1) % 8) + 1]],
            !.fits = @ /\ (count > 0 => byte < 256)]

(* writeByteAlignment, and the end of encodePCMAlignBits.                  *)
WriteByteAlignment(s) ==
  LET t == Write(s, 1, 1)
  IN  [t EXCEPT !.bits = @ \o [i \in 1..((-Len(@)) % 8) |-> 0]]

\* Mutant: the carry stops at the buffered byte.
RunByte_NoCarry(carry) == 255

(* What becomes of a byte 0xff that was held back.                         *)
RunByte(carry) == (255 + carry) % 256

(* A byte 0xff is only counted: a carry may still run through it.          *)
WriteOut(s) ==
  LET leadByte == s.low \div 2^(24 - s.bitsLeft)
      carry    == leadByte \div 256
      t        == [s EXCEPT !.bitsLeft = @ + 8, !.low = @ % 2^(24 - s.bitsLeft)]
      sent     == WriteBytes(Write(t, s.bufferedByte + carry, 8),
                             RunByte(carry), s.numBufferedBytes - 1)
  IN  IF leadByte = 255
      THEN [t EXCEPT !.numBufferedBytes = @ + 1]
      ELSE IF s.numBufferedBytes > 0
      THEN [sent EXCEPT !.numBufferedBytes = 1, !.bufferedByte = leadByte % 256]
      ELSE [t EXCEPT !.numBufferedBytes = 1, !.bufferedByte = leadByte]

TestAndWriteOut(s) == IF s.bitsLeft < 12 THEN WriteOut(s) ELSE s

(* low and range move up n bits.                                           *)
Shift(s, low, range, n) ==
  TestAndWriteOut([s EXCEPT !.low = low * 2^n, !.range = range * 2^n, !.bitsLeft = @ - n])

EncodeBin(s, c, bin) ==
  LET state == s.ctx[c]
      lps   == LPSRange(state, s.range)
      mps   == s.range - lps
  IN  IF bin # getMps(state)
      THEN Shift([s EXCEPT !.ctx[c] = updateLPS(state)], s.low + mps, lps, RenormShift(lps))
      ELSE Shift([s EXCEPT !.ctx[c] = updateMPS(state)], s.low, mps, IF mps < 256 THEN 1 ELSE 0)

(* num bins are coded eight at a time, the first ones first.               *)
ChunkSizes(num) ==
  [i \in 1..((num + 7) \div 8) |-> IF 8 * i <= num THEN 8 ELSE num % 8]

Chunks(val, num) ==
  LET sizes == ChunkSizes(num)
  IN  [i \in DOMAIN sizes |->
         [size |-> sizes[i], val |-> (val \div 2^(num - 8 * (i - 1) - sizes[i])) % 2^sizes[i]]]

EncodeAlignedChunk(s, chunk) ==
  TestAndWriteOut([s EXCEPT !.low = @ * 2^chunk.size + chunk.val * 256,
                            !.bitsLeft = @ - chunk.size])

EncodeChunk(s, chunk) ==
  TestAndWriteOut([s EXCEPT !.low = @ * 2^chunk.size + s.range * chunk.val,
                            !.bitsLeft = @ - chunk.size])

EncodeBinEP(s, bin) ==
  IF s.range = 256 THEN EncodeAlignedChunk(s, [size |-> 1, val |-> bin])
  ELSE TestAndWriteOut([s EXCEPT !.low = 2 * @ + bin * s.range, !.bitsLeft = @ - 1])

(* The bins are in a word of 32 bits: there are four chunks at most.       *)
EncodeBinsEP(s, val, num) ==
  LET chunks      == Chunks(val, num)
      Coded(t, i) == IF i > Len(chunks) THEN t
                     ELSE IF s.range = 256 THEN EncodeAlignedChunk(t, chunks[i])
                     ELSE EncodeChunk(t, chunks[i])
  IN  Coded(Coded(Coded(Coded(s, 1), 2), 3), 4)

EncodeBinTrm(s, bin) ==
  LET range == s.range - 2
  IN  IF bin = 1 THEN Shift(s, s.low + range, 2, 7)
      ELSE IF range >= 256 THEN [s EXCEPT !.range = range]
      ELSE Shift(s, s.low, range, 1)

\* Mutant: looks one bit too far up.
CarryOut_OneBitUp(s) == s.low >= 2^(33 - s.bitsLeft)

CarryOut(s) == s.low >= 2^(32 - s.bitsLeft)

(* The last bytes: a carry out of low goes into the buffered byte.         *)
Finish(s) ==
  LET carry == CarryOut(s)
      held  == [s EXCEPT !.numBufferedBytes = IF @ > 1 THEN 1 ELSE @]
      sent  == IF carry
               THEN WriteBytes(Write([held EXCEPT !.low = @ - 2^(32 - s.bitsLeft)], s.bufferedByte + 1, 8),
                               0, s.numBufferedBytes - 1)
               ELSE WriteBytes(held, s.bufferedByte, IF s.numBufferedBytes > 0 THEN 1 ELSE 0)
      all   == IF carry THEN sent ELSE WriteBytes(sent, 255, s.numBufferedBytes - 1)
  IN  Write([all EXCEPT !.carryOk = @ /\ (carry => s.numBufferedBytes > 0 /\ s.bufferedByte # 255)],
            all.low \div 256, 24 - s.bitsLeft)

(* TEncSbac::codeIPCMInfo with the flag set; resetBac calls start.         *)
CodePCM(s, sample) ==
  EncStart(Write(WriteByteAlignment(Finish(EncodeBinTrm(s, 1))), sample, 8))

(* TEncSlice at the end of a substream: the terminating bin, finish and    *)
(* writeByteAlignment.                                                     *)
EndSubstream(s) == WriteByteAlignment(Finish(EncodeBinTrm(s, 1)))

\* Mutant: forgets the bytes that are held back.
NumWrittenBits_Sent(s) == Len(s.bits) + 23 - s.bitsLeft

(* getNumWrittenBits *)
NumWrittenBits(s) == Len(s.bits) + 8 * s.numBufferedBytes + 23 - s.bitsLeft

-----------------------------------------------------------------------------
(* The decoder.  A call leaves the bins it returns in the field bin.       *)

Bytes == [i \in 1..(Len(enc.bits) \div 8) |->
            FoldLeft(LAMBDA v, b : 2 * v + b, 0, SubSeq(enc.bits, 8 * i - 7, 8 * i))]

(* readByte, with its assertion; the byte is added to value in its place.  *)
ReadByte(s, place) ==
  IF s.idx < Len(Bytes)
  THEN [s EXCEPT !.idx = @ + 1, !.value = @ + Bytes[s.idx + 1] * place]
  ELSE [s EXCEPT !.hasByte = FALSE]

DecStart(s) ==
  ReadByte(ReadByte([s EXCEPT !.range = 510, !.bitsNeeded = -8, !.value = 0], 256), 1)

(* n bits of the window are used; a byte is read when none are left over.  *)
Take(s, value, n) ==
  LET t == [s EXCEPT !.value = value * 2^n, !.bitsNeeded = @ + n]
  IN  IF t.bitsNeeded < 0 THEN t
      ELSE ReadByte([t EXCEPT !.bitsNeeded = @ - 8], 2^t.bitsNeeded)

DecodeBin(s, c) ==
  LET state  == s.ctx[c]
      lps    == LPSRange(state, s.range)
      mps    == s.range - lps
      scaled == mps * 128
      asMPS  == [s EXCEPT !.ctx[c] = updateMPS(state), !.bin = getMps(state)]
      asLPS  == [s EXCEPT !.ctx[c] = updateLPS(state), !.bin = 1 - getMps(state)]
      n      == RenormShift(lps)
  IN  IF s.value < scaled
      THEN IF mps < 256 THEN Take([asMPS EXCEPT !.range = 2 * mps], s.value, 1)
                        ELSE [asMPS EXCEPT !.range = mps]
      ELSE Take([asLPS EXCEPT !.range = lps * 2^n], s.value - scaled, n)

(* The comparisons of the loop take out of value the greatest multiple of  *)
(* the scaled range that size bins can express.                            *)
DecodeChunk(s, size) ==
  LET t       == Take(s, s.value, size)
      scaled  == t.range * 128
      fitting == t.value \div scaled
      bins    == IF fitting < 2^size THEN fitting ELSE 2^size - 1
  IN  [t EXCEPT !.value = @ - bins * scaled, !.bin = @ * 2^size + bins]

(* With a range of 256 the bins are the top bits of value.                 *)
DecodeAlignedChunk(s, size) ==
  LET bins == (s.value \div 2^(15 - size)) % 2^size
      t    == [s EXCEPT !.bin = @ * 2^size + bins]
  IN  Take(t, s.value % 2^(15 - size), size)

DecodeBinEP(s) ==
  LET t      == Take(s, s.value, 1)
      scaled == t.range * 128
  IN  IF s.range = 256 THEN DecodeAlignedChunk([s EXCEPT !.bin = 0], 1)
      ELSE IF t.value >= scaled THEN [t EXCEPT !.value = @ - scaled, !.bin = 1]
      ELSE [t EXCEPT !.bin = 0]

DecodeBinsEP(s, num) ==
  LET t == [s EXCEPT !.bin = 0]
  IN  IF s.range = 256 THEN FoldLeft(DecodeAlignedChunk, t, ChunkSizes(num))
                       ELSE FoldLeft(DecodeChunk, t, ChunkSizes(num))

DecodeBinTrm(s) ==
  LET range == s.range - 2
  IN  IF s.value >= range * 128 THEN [s EXCEPT !.range = range, !.bin = 1]
      ELSE IF range < 256 THEN Take([s EXCEPT !.range = 2 * range, !.bin = 0], s.value, 1)
      ELSE [s EXCEPT !.range = range, !.bin = 0]

(* parseIPCMInfo, which takes the sample where the byte pointer stands.    *)
NoSample == 256

DecodePCM(s) ==
  LET t == DecodeBinTrm(s)
      u == ReadByte([t EXCEPT !.value = 0], 1)
  IN  IF t.bin = 1 THEN DecStart([u EXCEPT !.bin = u.value]) ELSE [t EXCEPT !.bin = NoSample]

(* parseTerminatingBit at the end of the substream; finish looks for the   *)
(* stop bit in the byte read last.                                         *)
StopBitInPlace(s) == (Bytes[s.idx] * 2^(8 + s.bitsNeeded)) % 256 = 128

DecodeEnd(s) ==
  LET t == DecodeBinTrm(s)
  IN  IF t.bin = 1 THEN [t EXCEPT !.stopBit = StopBitInPlace(t)] ELSE t

-----------------------------------------------------------------------------
Init ==
  /\ phase = "encode"
  /\ coded = << >>
  /\ \E init \in InitStates :
       /\ enc = [low |-> 0, range |-> 510, bitsLeft |-> 23, numBufferedBytes |-> 0,
                 bufferedByte |-> 255, bits |-> << >>, fits |-> TRUE, carryOk |-> TRUE,
                 ctx |-> init]
       /\ dec = [range |-> 510, value |-> 0, bitsNeeded |-> -8, idx |-> 0, bin |-> 0,
                 hasByte |-> TRUE, stopBit |-> TRUE, ctx |-> init]
  /\ decoded = << >>

(* After align only equiprobable bins follow (codeCoeffNxN).               *)
Follows(symbol) ==
  coded # << >> /\ Last(coded).kind = "align" => symbol.kind \in {"bypass", "bypasses"}

Encode(symbol, next) ==
  /\ phase = "encode" /\ Len(coded) < MaxSymbols
  /\ Follows(symbol)
  /\ enc' = next
  /\ coded' = Append(coded, symbol)
  /\ UNCHANGED <<phase, dec, decoded>>

Calls(kind) == {y \in Symbols : y.kind = kind}

CodeBin       == \E y \in Calls("bin") : Encode(y, EncodeBin(enc, y.ctx, y.val))
CodeBypass    == \E y \in Calls("bypass") : Encode(y, EncodeBinEP(enc, y.val))
CodeBypasses  == \E y \in Calls("bypasses") : Encode(y, EncodeBinsEP(enc, y.val, y.num))
CodeTerminate == \E y \in Calls("terminate") : Encode(y, EncodeBinTrm(enc, 0))
CodeAlign     == \E y \in Calls("align") : Encode(y, [enc EXCEPT !.range = 256])
CodeSample    == \E y \in Calls("pcm") : Encode(y, CodePCM(enc, y.val))

CodeEnd ==
  /\ phase = "encode"
  /\ coded # << >> => Last(coded).kind # "align"
  /\ phase' = "start"
  /\ enc' = EndSubstream(enc)
  /\ UNCHANGED <<coded, dec, decoded>>

(* resetEntropy at the start of the substream.                             *)
StartDecoding ==
  /\ phase = "start"
  /\ phase' = "decode"
  /\ dec' = DecStart(dec)
  /\ UNCHANGED <<coded, enc, decoded>>

NextSymbol == coded[Len(decoded) + 1]

Decode(kind, next) ==
  /\ phase = "decode" /\ dec.hasByte /\ Len(decoded) < Len(coded)
  /\ NextSymbol.kind = kind
  /\ dec' = next
  /\ decoded' = Append(decoded, dec'.bin)
  /\ UNCHANGED <<phase, coded, enc>>

ParseBin       == Decode("bin", DecodeBin(dec, NextSymbol.ctx))
ParseBypass    == Decode("bypass", DecodeBinEP(dec))
ParseBypasses  == Decode("bypasses", DecodeBinsEP(dec, NextSymbol.num))
ParseTerminate == Decode("terminate", DecodeBinTrm(dec))
ParseAlign     == Decode("align", [dec EXCEPT !.range = 256, !.bin = 0])
ParseSample    == Decode("pcm", DecodePCM(dec))

ParseEnd ==
  /\ phase = "decode" /\ dec.hasByte /\ Len(decoded) = Len(coded)
  /\ phase' = "done"
  /\ dec' = DecodeEnd(dec)
  /\ UNCHANGED <<coded, enc, decoded>>

Next ==
  \/ CodeBin \/ CodeBypass \/ CodeBypasses \/ CodeTerminate \/ CodeAlign \/ CodeSample
  \/ CodeEnd \/ StartDecoding
  \/ ParseBin \/ ParseBypass \/ ParseBypasses \/ ParseTerminate \/ ParseAlign \/ ParseSample
  \/ ParseEnd

Spec == Init /\ [][Next]_vars

-----------------------------------------------------------------------------
(* The assertions of the encoder hold: every value written fits in its     *)
(* bits (TComBitStream.cpp:113), and a carry at the end finds a buffered   *)
(* byte that can take it (TEncBinCoderCABAC.cpp:85, commented out).        *)
EncoderAsserts == enc.fits /\ enc.carryOk

(* The decoder returns what was coded, through carries, aligned groups and *)
(* PCM samples.  It never runs out of bytes (TComBitStream.h:191); at the  *)
(* end it gets the terminating bin, finds the stop bit where the last byte *)
(* it read must have it (TDecBinCoderCABAC.cpp:88), has taken every byte   *)
(* of the substream and holds the encoder's context states.                *)
SubstreamSurvives ==
  /\ dec.hasByte /\ dec.stopBit
  /\ \A i \in DOMAIN decoded : decoded[i] = coded[i].val
  /\ phase = "done" =>
       dec.bin = 1 /\ dec.idx = Len(Bytes) /\ dec.ctx = enc.ctx

(* What getNumWrittenBits counts during coding, bytes held back for a      *)
(* carry included, determines the size of the finished substream: seven    *)
(* bits for the terminating bin, one from finish, one stop bit, alignment. *)
SizeIsPredicted ==
  [][CodeEnd => Len(enc'.bits) = 8 * ((NumWrittenBits(enc) + 9 + 7) \div 8)]_vars
=============================================================================
