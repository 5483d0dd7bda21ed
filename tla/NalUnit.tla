------------------------------- MODULE NalUnit -------------------------------
(***************************************************************************)
(* One NAL unit on its way from the encoder to the decoder.                *)
(*                                                                         *)
(* The encoder lays the slice header and the substreams (tiles, wavefront  *)
(* rows) behind one another, writes the unit with emulation prevention     *)
(* bytes (TLibEncoder/NALwrite.cpp) and may append cabac_zero_words to the *)
(* written bytes (TEncGOP.cpp).  The decoder takes the emulation           *)
(* prevention bytes out again (TLibDecoder/NALread.cpp) and corrects the   *)
(* entry points of the slice header, which count the bytes of the written  *)
(* unit, to find the substreams (TDecCAVLC.cpp).                           *)
(*                                                                         *)
(* A payload is given with the positions where its parts end: the slice    *)
(* header (for other units the whole payload) and the substreams.  Every   *)
(* part ends in rbsp_trailing_bits or byte_alignment, so never in a zero   *)
(* byte.                                                                   *)
(***************************************************************************)
EXTENDS NalUnitBytes, Integers, Sequences, SequencesExt, FiniteSetsExt

CONSTANTS Units,              \* the units to send: [header, rbsp, ends]
          MaxCabacZeroWords

Header == [type : 0..63, layer : 0..63, tid : 0..6]

UnitType == [header : Header, rbsp : Seq(Byte), ends : Seq(Nat \ {0})]

ASSUME UnitsAssumption ==
  \A u \in Units :
    /\ u \in UnitType
    /\ u.ends # << >> /\ u.ends[Len(u.ends)] = Len(u.rbsp)
    /\ \A k \in DOMAIN u.ends : u.rbsp[u.ends[k]] # 0
    /\ \A k \in 2..Len(u.ends) : u.ends[k - 1] < u.ends[k]
ASSUME PaddingAssumption == MaxCabacZeroWords \in Nat

VARIABLES nalu,          \* what the encoder sends
          phase,
          it, zeroCount, \* the loop of write
          unit,          \* the bytes of the unit: m_nalUnitData, later nalUnitBuf
          read,          \* the loop of convertPayloadToRBSP
          sizes,         \* the substream sizes the decoder ends with
          failed         \* an assertion of the decoder has fired

vars == <<nalu, phase, it, zeroCount, unit, read, sizes, failed>>

rbsp      == nalu.rbsp
HeaderEnd == nalu.ends[1]
NumSubstr == Len(nalu.ends) - 1

Substream(k) == SubSeq(rbsp, nalu.ends[k] + 1, nalu.ends[k + 1])

(* nal_unit_header() as two bytes. *)
HeaderBytes(h) == <<h.type * 2 + h.layer \div 32, (h.layer % 32) * 8 + h.tid + 1>>

ReadStart == [it |-> 1, out |-> << >>, zeroCount |-> 0, locations |-> << >>]

Init ==
  /\ nalu \in Units
  /\ phase = "header"
  /\ it = 1 /\ zeroCount = 0
  /\ unit = << >>
  /\ read = ReadStart
  /\ sizes = << >>
  /\ failed = FALSE

-----------------------------------------------------------------------------
(* The encoder.                                                            *)

WriteHeader ==
  /\ phase = "header"
  /\ unit' = HeaderBytes(nalu.header)
  /\ phase' = "write"
  /\ UNCHANGED <<nalu, it, zeroCount, read, sizes, failed>>

\* Mutant: the escape comes one zero byte too late.
Escape_AtThree(zeros, v) == zeros = 3 /\ v <= 3

\* Mutant: the byte 3 itself is not protected.
Escape_NotThree(zeros, v) == zeros = 2 /\ v < 3

(* Whether an emulation prevention byte goes before v. *)
Escape(zeros, v) == zeros = 2 /\ v <= 3

ZerosAfter(zeros, v) == IF v = 0 THEN zeros + 1 ELSE 0

WriteByte ==
  /\ phase = "write"
  /\ it <= Len(rbsp)
  /\ LET v      == rbsp[it]
         escape == Escape(zeroCount, v)
     IN  /\ unit' = unit \o (IF escape THEN <<3, v>> ELSE <<v>>)
         /\ zeroCount' = ZerosAfter(IF escape THEN 0 ELSE zeroCount, v)
  /\ it' = it + 1
  /\ UNCHANGED <<nalu, phase, read, sizes, failed>>

EndWrite ==
  /\ phase = "write"
  /\ it > Len(rbsp)
  /\ unit' = IF zeroCount > 0 THEN Append(unit, 3) ELSE unit
  /\ phase' = "written"
  /\ UNCHANGED <<nalu, it, zeroCount, read, sizes, failed>>

IsVcl(buf) == (buf[1] \div 64) % 2 = 0

ZeroWords(n) == [k \in 1..3 * n |-> IF k % 3 = 0 THEN 3 ELSE 0]

(* cabac_zero_word_padding writes to m_nalUnitData, behind write.  How many *)
(* words it appends depends on the number of bins.                          *)
PadWithCabacZeroWords ==
  /\ phase = "written"
  /\ \E n \in IF IsVcl(unit) THEN 0..MaxCabacZeroWords ELSE {0} :
       unit' = unit \o ZeroWords(n)
  /\ phase' = "read"
  /\ UNCHANGED <<nalu, it, zeroCount, read, sizes, failed>>

(* countStartCodeEmulations: from position i of s on.  The search for two  *)
(* zero bytes leaves out the last byte, so a third byte always follows.    *)
StartCodeEmulations(s) ==
  LET Found(i) == {j \in i..Len(s) - 2 : s[j] = 0 /\ s[j + 1] = 0}
      count[i \in 1..Len(s) + 1] ==
        IF Found(i) = {} THEN 0
        ELSE LET j == Min(Found(i))
             IN  (IF s[j + 2] <= 3 THEN 1 ELSE 0) + count[j + 2]
  IN  count[1]

(* The sizes of all substreams but the last, in written bytes. *)
SubstreamSizes ==
  [k \in 1..NumSubstr - 1 |-> Len(Substream(k)) + StartCodeEmulations(Substream(k))]

(* codeTilesWPPEntryPoint and its counterpart in parseSliceHeader: the      *)
(* offsets minus 1 in as many bits as the largest offset needs.             *)
OffsetBits == 
  LET maxOffset == Max({0} \cup Range(SubstreamSizes))
  IN  CHOOSE n \in 1..31 : maxOffset < 2^n /\ \A m \in 1..n - 1 : maxOffset >= 2^m

EntryPointOffsets ==
  [k \in DOMAIN SubstreamSizes |-> ((SubstreamSizes[k] - 1) % 2^OffsetBits) + 1]

-----------------------------------------------------------------------------
(* The decoder.                                                            *)

(* The loop of convertPayloadToRBSP; positions count from 0.  An emulation *)
(* prevention byte is dropped together with reading the byte behind it.    *)
AtEscape == read.zeroCount = 2 /\ unit[read.it] = 3

ReadByte ==
  /\ phase = "read" /\ ~failed
  /\ read.it <= Len(unit)
  /\ ~AtEscape
  /\ failed' = (read.zeroCount >= 2 /\ unit[read.it] < 3)
  /\ read' = [it        |-> read.it + 1,
              out       |-> Append(read.out, unit[read.it]),
              zeroCount |-> ZerosAfter(read.zeroCount, unit[read.it]),
              locations |-> read.locations]
  /\ UNCHANGED <<nalu, phase, it, zeroCount, unit, sizes>>

ReadBehindEscape ==
  /\ phase = "read" /\ ~failed
  /\ read.it < Len(unit)
  /\ AtEscape
  /\ failed' = (unit[read.it + 1] > 3)
  /\ read' = [it        |-> read.it + 2,
              out       |-> Append(read.out, unit[read.it + 1]),
              zeroCount |-> ZerosAfter(0, unit[read.it + 1]),
              locations |-> Append(read.locations, read.it - 1)]
  /\ UNCHANGED <<nalu, phase, it, zeroCount, unit, sizes>>

DropLastEscape ==
  /\ phase = "read" /\ ~failed
  /\ read.it = Len(unit)
  /\ AtEscape
  /\ read' = [it        |-> read.it + 1,
              out       |-> read.out,
              zeroCount |-> 0,
              locations |-> Append(read.locations, read.it - 1)]
  /\ UNCHANGED <<nalu, phase, it, zeroCount, unit, sizes, failed>>

\* Mutant: only one cabac_zero_word is taken away.
LastNonZero_OneWord(s) ==
  LET n == Len(s)
  IN  IF n > 1 /\ s[n] = 0 /\ s[n - 1] = 0 THEN n - 2 ELSE n

(* The bytes without the zero bytes at their end. *)
LastNonZero(s) == Max({0} \cup {k \in DOMAIN s : s[k] # 0})

EndRead ==
  /\ phase = "read" /\ ~failed
  /\ read.it > Len(unit)
  /\ failed' = (read.zeroCount # 0)
  /\ read' = IF IsVcl(unit)
             THEN [read EXCEPT !.out = SubSeq(@, 1, LastNonZero(@))]
             ELSE read
  /\ phase' = "parse"
  /\ UNCHANGED <<nalu, it, zeroCount, unit, sizes>>

\* Mutant: the location is not corrected.
EndOfSliceHeader_Raw == 2 + HeaderEnd

(* The end of the slice header in written bytes: the location moves by one *)
(* for every emulation prevention byte before it, the ones it moves past   *)
(* included.                                                               *)
EndOfSliceHeader ==
  LET Moved(end, loc) == IF loc < end THEN end + 1 ELSE end
  IN  FoldLeft(Moved, 2 + HeaderEnd, read.locations)

(* parseSliceHeader: the sizes of the substreams in payload bytes. *)
ParseEntryPoints ==
  /\ phase = "parse" /\ ~failed
  /\ LET CurOffset(k) == FoldLeft(+, 0, SubSeq(EntryPointOffsets, 1, k))
         Emulations(k) == {i \in DOMAIN read.locations :
                             /\ read.locations[i] >= CurOffset(k - 1) + EndOfSliceHeader
                             /\ read.locations[i] < CurOffset(k) + EndOfSliceHeader}
     IN  sizes' = [k \in DOMAIN EntryPointOffsets |->
                     EntryPointOffsets[k] - Cardinality(Emulations(k))]
  /\ phase' = "done"
  /\ UNCHANGED <<nalu, it, zeroCount, unit, read, failed>>

Done == (phase = "done" \/ failed) /\ UNCHANGED vars

Next ==
  \/ WriteHeader \/ WriteByte \/ EndWrite \/ PadWithCabacZeroWords
  \/ ReadByte \/ ReadBehindEscape \/ DropLastEscape \/ EndRead
  \/ ParseEntryPoints
  \/ Done

Spec == Init /\ [][Next]_vars

-----------------------------------------------------------------------------
(* Properties.                                                             *)

ReadState == [it : Nat \ {0}, out : Seq(Byte), zeroCount : Nat, locations : Seq(Nat)]

(* Every variable has its type; the encoder never counts more than two     *)
(* zero bytes.  (SubstreamsFound says what sizes is at the end.)           *)
TypeOK ==
  /\ nalu \in UnitType
  /\ phase \in {"header", "write", "written", "read", "parse", "done"}
  /\ it \in 1..Len(rbsp) + 1
  /\ zeroCount \in 0..2
  /\ unit \in Seq(Byte)
  /\ read \in ReadState
  /\ phase # "done" => sizes = << >>
  /\ failed \in BOOLEAN

(* What 7.4.1, quoted in NALwrite.cpp, asks of a NAL unit: none of the     *)
(* sequences 000000, 000001 and 000002 occurs in it, 000003 is followed by *)
(* a byte up to 3 or by nothing, and the last byte of a unit that goes     *)
(* into the stream is not zero.                                            *)
UnitIsLegal ==
  /\ Legal(unit)
  /\ phase \in {"written", "read", "parse", "done"} => EndsInNonZero(unit)

(* The assertions of convertPayloadToRBSP hold for every unit that write   *)
(* and cabac_zero_word_padding produce.                                    *)
ReaderAccepts == ~failed

(* The decoder gets the header and the payload the encoder sent, whatever  *)
(* emulation prevention bytes and cabac_zero_words came in between.        *)
PayloadArrives ==
  phase \in {"parse", "done"} => read.out = HeaderBytes(nalu.header) \o rbsp

(* The decoder cuts the slice data where the encoder joined it: the sizes  *)
(* it computes from the entry points are those of the encoder's substreams.*)
SubstreamsFound ==
  phase = "done" => sizes = [k \in 1..NumSubstr - 1 |-> Len(Substream(k))]

=============================================================================
