------------------------------ MODULE ByteStream ------------------------------
(***************************************************************************)
(* NAL units behind one another in a file (Annex B of the standard): the   *)
(* encoder puts start codes between them (TLibEncoder/AnnexBwrite.h), the  *)
(* decoder looks for the start codes (TLibDecoder/AnnexBread.h and .cpp),  *)
(* and its main loop (App/TAppDecoder/TAppDecTop.cpp) goes back in the     *)
(* file when decode has found a new picture, to read a unit again.         *)
(*                                                                         *)
(* The reader looks at most four bytes ahead of what it has taken.  The    *)
(* position of the file is thus not the position of the reader, and the    *)
(* main loop corrects it by the three bytes of a start code.               *)
(***************************************************************************)
EXTENDS NalUnitBytes, Integers, Sequences, SequencesExt, FiniteSetsExt

CONSTANTS Streams,    \* sequences of units [first, type, data], first: of its access unit
          MaxPadding  \* zero bytes in front of and behind a unit

Unit == [first : BOOLEAN, type : {"VPS", "SPS", "PPS", "other"}, data : Seq(Byte)]

ASSUME StreamsAssumption ==
  \A s \in Streams : s \in Seq(Unit) /\ \A k \in DOMAIN s :
    /\ Legal(s[k].data)
    /\ s[k].data # << >> => EndsInNonZero(s[k].data)
ASSUME MaxPaddingAssumption == MaxPadding \in Nat

VARIABLES stream,    \* the units to write
          written,   \* how many of them are written
          padding,   \* the zero bytes behind each of them
          file,
          phase,
          in,        \* the input: position, bytes looked at ahead, state
          nalUnit,
          stats,
          location,  \* tellg at the start of the turn
          begin,     \* where the reader really was
          taken,     \* how many units the decoder has taken
          again,     \* the unit is read for the second time
          failed

vars == <<stream, written, padding, file, phase, in, nalUnit, stats, location, begin,
          taken, again, failed>>
writerVars == <<stream, written, padding, file>>

Zeros(n) == [k \in 1..n |-> 0]

NoStats == [leadingZero |-> 0, zeroByte |-> 0, startCodePrefix |-> 0,
            bytesInNALUnit |-> 0, trailingZero |-> 0]

(* InputByteStream after reset. *)
Reset(position) == [tellg |-> position, future |-> << >>, good |-> TRUE]

Init ==
  /\ stream \in Streams
  /\ written = 0 /\ padding = << >>
  /\ \E n \in 0..MaxPadding : file = Zeros(n)
  /\ phase = "write"
  /\ in = Reset(0)
  /\ nalUnit = << >> /\ stats = NoStats
  /\ location = 0 /\ begin = 0
  /\ taken = 0 /\ again = FALSE
  /\ failed = FALSE

-----------------------------------------------------------------------------
(* The encoder.                                                            *)

StartCode(u) ==
  IF u.first \/ u.type \in {"VPS", "SPS", "PPS"} THEN <<0, 0, 0, 1>> ELSE <<0, 0, 1>>

(* writeAnnexB: the next unit.  It writes no padding itself. *)
WriteUnit ==
  /\ phase = "write"
  /\ written < Len(stream)
  /\ \E n \in 0..MaxPadding :
       /\ file' = file \o StartCode(stream[written + 1]) \o stream[written + 1].data \o Zeros(n)
       /\ padding' = Append(padding, n)
  /\ written' = written + 1
  /\ UNCHANGED <<stream, phase, in, nalUnit, stats, location, begin, taken, again, failed>>

Close ==
  /\ phase = "write"
  /\ written = Len(stream)
  /\ phase' = "turn"
  /\ UNCHANGED <<writerVars, in, nalUnit, stats, location, begin, taken, again, failed>>

-----------------------------------------------------------------------------
(* The input of the decoder.                                               *)

(* eofBeforeNBytes: as many of the next n bytes as the file has are looked *)
(* at; an attempt to read past the end leaves the stream failed.           *)
Fetch(r, n) ==
  LET want == Max({0, n - Len(r.future)})
      got  == IF r.good THEN Min({want, Len(file) - r.tellg}) ELSE 0
  IN  [tellg  |-> r.tellg + got,
       future |-> r.future \o SubSeq(file, r.tellg + 1, r.tellg + got),
       good   |-> r.good /\ got = want]

EofBefore(r, n) == Len(r.future) < n

(* peekBytes of three or four bytes. *)
Starts(r, bytes) == ~EofBefore(r, Len(bytes)) /\ SubSeq(r.future, 1, Len(bytes)) = bytes

(* The condition of the loops over zero bytes looks at three bytes, and    *)
(* unless these are a start code at four.                                  *)
Look(r) == IF Starts(Fetch(r, 3), <<0, 0, 1>>) THEN Fetch(r, 3) ELSE Fetch(Fetch(r, 3), 4)

AtStartCode(r) == Starts(r, <<0, 0, 1>>) \/ Starts(r, <<0, 0, 0, 1>>)

(* readByte; it throws if there is no byte. *)
HasByte(r)  == r.future # << >>
NextByte(r) == Head(r.future)
Skip(r, n)  == [r EXCEPT !.future = SubSeq(@, n + 1, Len(@))]

\* Mutant: the count is assigned.
Count_Assigned(field, n) == stats' = [stats EXCEPT ![field] = n]

Count(field, n) == stats' = [stats EXCEPT ![field] = @ + n]

(* byteStreamNALUnit returns with what it has. *)
Return(r) ==
  /\ in' = r
  /\ stats' = [stats EXCEPT !.bytesInNALUnit = Len(nalUnit)]
  /\ phase' = "decode"

-----------------------------------------------------------------------------
(* One turn of the main loop.                                              *)

StartTurn ==
  /\ phase = "turn" /\ ~failed
  /\ in.good
  /\ location' = in.tellg
  /\ begin' = in.tellg - Len(in.future)
  /\ nalUnit' = << >> /\ stats' = NoStats
  /\ phase' = "leading"
  /\ UNCHANGED <<writerVars, in, taken, again, failed>>

SkipLeadingZero ==
  /\ phase = "leading" /\ ~failed
  /\ \E r \in {Look(in)} :
       /\ ~AtStartCode(r) /\ HasByte(r)
       /\ failed' = (NextByte(r) # 0)
       /\ in' = Skip(r, 1)
  /\ Count("leadingZero", 1)
  /\ UNCHANGED <<writerVars, phase, nalUnit, location, begin, taken, again>>

ReadStartCode ==
  /\ phase = "leading" /\ ~failed
  /\ \E r \in {Look(in)} :
       LET zeroByte == IF Starts(r, <<0, 0, 1>>) THEN 0 ELSE 1
       IN  /\ AtStartCode(r)
           /\ in' = Skip(r, zeroByte + 3)
           /\ stats' = [stats EXCEPT !.zeroByte = zeroByte, !.startCodePrefix = 3]
  /\ phase' = "payload"
  /\ UNCHANGED <<writerVars, nalUnit, location, begin, taken, again, failed>>

(* The next three bytes are 000000, 000001 or 000002. *)
EndsUnit(r) == \E b \in 0..2 : Starts(r, <<0, 0, b>>)

ReadPayloadByte ==
  /\ phase = "payload" /\ ~failed
  /\ \E r \in {Fetch(in, 3)} :
       /\ ~EndsUnit(r) /\ HasByte(r)
       /\ nalUnit' = Append(nalUnit, NextByte(r))
       /\ in' = Skip(r, 1)
  /\ UNCHANGED <<writerVars, phase, stats, location, begin, taken, again, failed>>

EndPayload ==
  /\ phase = "payload" /\ ~failed
  /\ \E r \in {Fetch(in, 3)} : EndsUnit(r) /\ in' = r
  /\ phase' = "trailing"
  /\ UNCHANGED <<writerVars, nalUnit, stats, location, begin, taken, again, failed>>

SkipTrailingZero ==
  /\ phase = "trailing" /\ ~failed
  /\ \E r \in {Look(in)} :
       /\ ~AtStartCode(r) /\ HasByte(r)
       /\ failed' = (NextByte(r) # 0)
       /\ in' = Skip(r, 1)
  /\ Count("trailingZero", 1)
  /\ UNCHANGED <<writerVars, phase, nalUnit, location, begin, taken, again>>

EndUnit ==
  /\ phase = "trailing" /\ ~failed
  /\ \E r \in {Look(in)} : AtStartCode(r) /\ Return(r)
  /\ UNCHANGED <<writerVars, nalUnit, location, begin, taken, again, failed>>

(* A byte is wanted and there is none: readByte throws, wherever it is. *)
EndOfFile ==
  /\ phase \in {"leading", "payload", "trailing"} /\ ~failed
  /\ \E r \in {IF phase = "payload" THEN Fetch(in, 3) ELSE Look(in)} :
       ~HasByte(r) /\ Return(r)
  /\ UNCHANGED <<writerVars, nalUnit, location, begin, taken, again, failed>>

(* decode takes the unit; an empty one it is not given. *)
Decode ==
  /\ phase = "decode"
  /\ taken' = taken + 1
  /\ again' = FALSE
  /\ phase' = "turn"
  /\ UNCHANGED <<writerVars, in, nalUnit, stats, location, begin, failed>>

\* Mutants: the stream is not cleared, the bytes looked at ahead stay.
ReadAgainAt_NoClear == [Reset(location - 3) EXCEPT !.good = in.good]
ReadAgainAt_NoReset == [in EXCEPT !.tellg = location - 3, !.good = TRUE]

(* seekg(location - 3), and reset. *)
ReadAgainAt == Reset(location - 3)

\* Mutant: the unit is a new picture every time it is read.
FindNewPicture_EveryTime ==
  /\ phase = "decode"
  /\ nalUnit # << >> /\ taken > 0
  /\ in' = Reset(begin)
  /\ again' = TRUE
  /\ phase' = "turn"
  /\ UNCHANGED <<writerVars, nalUnit, stats, location, begin, taken, failed>>

(* decode has found a new picture: the unit will be read again.  This does *)
(* not happen with the first unit, nor twice with the same one (Decoder).  *)
FindNewPicture ==
  /\ phase = "decode"
  /\ nalUnit # << >> /\ taken > 0 /\ ~again
  /\ in' = ReadAgainAt
  /\ again' = TRUE
  /\ phase' = "turn"
  /\ UNCHANGED <<writerVars, nalUnit, stats, location, begin, taken, failed>>

Finish ==
  /\ phase = "turn"
  /\ ~in.good
  /\ phase' = "end"
  /\ UNCHANGED <<writerVars, in, nalUnit, stats, location, begin, taken, again, failed>>

Done == (phase = "end" \/ failed) /\ UNCHANGED vars

Next ==
  \/ WriteUnit \/ Close
  \/ StartTurn \/ SkipLeadingZero \/ ReadStartCode \/ ReadPayloadByte \/ EndPayload
  \/ SkipTrailingZero \/ EndUnit \/ EndOfFile
  \/ Decode \/ FindNewPicture \/ Finish
  \/ Done

(* The main loop is a while that takes another turn until the stream has   *)
(* failed; nothing in it waits.                                            *)
Spec == Init /\ [][Next]_vars /\ WF_vars(Next)

-----------------------------------------------------------------------------
(* Properties.                                                             *)

(* What the decoder must get as its k-th unit: one or two zero bytes at    *)
(* the end of the file are part of the last unit, as the table of tests in *)
(* annexBbytecount.cpp has it, and a file without units has one empty unit.*)
Expected(k) ==
  IF stream = << >> THEN << >>
  ELSE stream[k].data
         \o (IF k = Len(stream) /\ padding[k] < 3 THEN Zeros(padding[k]) ELSE << >>)

(* The units arrive as they were written, in their order, whatever the     *)
(* padding, and a unit read for the second time is the same as before.     *)
UnitsArrive ==
  phase = "decode" =>
    /\ taken < Max({1, Len(stream)})
    /\ nalUnit = Expected(taken + 1)

(* Every byte is accounted for once: what was read since the last unit is  *)
(* made of the parts that the statistics count, in this order, and the     *)
(* next unit begins behind it.                                             *)
BytesCounted ==
  phase = "decode" =>
    SubSeq(file, begin + 1, in.tellg - Len(in.future))
      = Zeros(stats.leadingZero + stats.zeroByte)
          \o SubSeq(<<0, 0, 1>>, 1, stats.startCodePrefix)
          \o nalUnit \o Zeros(stats.trailingZero)

(* The loop ends, although it goes back in the file: no assertion that what *)
(* is skipped are zero bytes fails, no unit is read again for ever, and     *)
(* none is lost or read once too often by then.                             *)
AllUnitsTaken == <>(phase = "end" /\ taken = Max({1, Len(stream)}))
=============================================================================
