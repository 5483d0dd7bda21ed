-------------------------------- MODULE Headers --------------------------------
(***************************************************************************)
(* The encoder writes its parameter sets, SEI messages and slice headers;  *)
(* the decoder, another program run later, reads them.                     *)
(*                                                                         *)
(* The two share the coded stream and, besides it, the file of the         *)
(* reference picture sets, which the encoder appends to and the decoder    *)
(* reads from its beginning for every SPS: here it does not exist when the  *)
(* encoder starts.                                                          *)
(***************************************************************************)
EXTENDS SliceSettings, SEISyntax

CONSTANT Setups        \* what the encoder is run with: options, pictures and messages

VARIABLES phase,       \* "check", "write", "read", or how the program that ran has ended
          setup,       \* the run's options, pictures and messages
          written,     \* the objects written so far
          stream,      \* their coded form
          rpsFile,     \* shortTermRefPicSetInfo.bin
          parsed,      \* the objects read so far
          prevTid0POC  \* m_prevTid0POC of the decoder

vars == <<phase, setup, written, stream, rpsFile, parsed, prevTid0POC>>

-----------------------------------------------------------------------------
(* The units of a run.                                                     *)

VPS == 32
SPS == 33
PPS == 34
TRAIL_R == 1
CRA == 21

Unit(type, object) == [type |-> type, object |-> object]

SliceUnit(c, s) ==
  Unit(CASE s.kind = "IDR" -> IDR_W_RADL [] s.kind = "CRA" -> CRA [] OTHER -> TRAIL_R,
       SliceFields(c, xInitRPS(c) @@ xInitSPS(c), xInitPPS(c), s))

IsMessage(unit) == unit.type \in {PREFIX_SEI, SUFFIX_SEI}
IsSlice(unit)   == unit.type \in {TRAIL_R, CRA, IDR_W_RADL}

(* TEncGOP writes the parameter sets before the first picture.             *)
UnitsOf(run) ==
  <<Unit(VPS, xInitVPS(run.config)), Unit(SPS, xInitRPS(run.config) @@ xInitSPS(run.config)),
    Unit(PPS, xInitPPS(run.config))>>
  \o [i \in DOMAIN run.messages |->
        Unit(IF run.messages[i] $ "suffix" = 1 THEN SUFFIX_SEI ELSE PREFIX_SEI, run.messages[i])]
  \o [i \in DOMAIN run.pictures |-> SliceUnit(run.config, run.pictures[i])]

SpsOf(units) == units[2].object
PpsOf(units) == units[3].object

WriterTable(unit) ==
  CASE unit.type = VPS -> codeVPS(unit.object)
    [] unit.type = SPS -> codeSPS(unit.object)
    [] unit.type = PPS -> codePPS(unit.object)
    [] IsMessage(unit) -> writeSEImessages(unit.object, SpsOf(UnitsOf(setup)))
    [] OTHER           -> codeSliceHeader(unit.object, SpsOf(UnitsOf(setup)), PpsOf(UnitsOf(setup)))

-----------------------------------------------------------------------------
(* The objects as the decoder makes them.                                  *)

VuiDefaults ==
  [VideoFormat |-> 5, ColourPrimaries |-> 2, TransferCharacteristics |-> 2, MatrixCoefficients |-> 2,
   MotionVectorsOverPicBoundariesFlag |-> 1, RestrictedRefPicListsFlag |-> 1, MaxBytesPerPicDenom |-> 2,
   MaxBitsPerMinCuDenom |-> 1, Log2MaxMvLengthHorizontal |-> 15, Log2MaxMvLengthVertical |-> 15]

New(type) ==
  CASE type = VPS -> Fields([MaxTLayers |-> 1])
    [] type = SPS -> Fields(VuiDefaults) @@ Fields([ChromaFormatIdc |-> CHROMA_420, MaxTLayers |-> 1, PCMLog2MaxSize |-> 5,
                                                    PCMLog2MinSize |-> 7, BitsForPOC |-> 8])
    [] type = PPS -> Fields([NumRefIdxL0DefaultActive |-> 1, NumRefIdxL1DefaultActive |-> 1,
                             LoopFilterAcrossTilesEnabledFlag |-> 1, Log2MaxTransformSkipBlockSize |-> 2])
    [] type \in {PREFIX_SEI, SUFFIX_SEI} -> << >>
    [] OTHER -> Fields([RapPicFlag |-> Bool(type \in {CRA, IDR_W_RADL}), IdrPicFlag |-> Bool(type = IDR_W_RADL),
                        ColFromL0Flag |-> 1])

ReaderTable(type, p) ==
  CASE type = VPS -> parseVPS(p)
    [] type = SPS -> parseSPS(p)
    [] type = PPS -> parsePPS(p)
    [] type \in {PREFIX_SEI, SUFFIX_SEI} -> parseSEImessage(p, parsed[2].object, type)
    [] OTHER -> parseSliceHeader(p, parsed[2].object, parsed[3].object, prevTid0POC)

(* The elements of a table, one after the other, until one cannot be read;  *)
(* halves of the table, to keep the recursion shallow.                      *)
RECURSIVE ReadElements(_, _, _, _, _, _)
ReadElements(s, table, from, to, items, file) ==
  IF s.failed \/ from > to THEN s
  ELSE IF from = to THEN ReadElement(s, table[from], items, file)
  ELSE LET half == (from + to) \div 2
           left == CHOOSE l \in {ReadElements(s, table, from, half, items, file)} : TRUE
       IN  ReadElements(left, table, half + 1, to, items, file)

(* The reader's table depends on what has been read.  Knowing the fields of *)
(* known it gets one element further, at the least, than it has got before; *)
(* when it learns nothing more it has done what reading them one by one     *)
(* does.                                                                    *)
Learn(unit, known, file) ==
  LET table == ReaderTable(unit.type, known.o)
  IN  [known EXCEPT !.s = ReadElements(Start(New(unit.type)), table, 1, Len(table), unit.items, file)]

RECURSIVE LearnMore(_, _, _, _)
LearnMore(rounds, unit, known, file) ==
  IF known.s.o = known.o THEN known
  ELSE IF rounds = 0 THEN CHOOSE k \in {Learn(unit, [known EXCEPT !.o = known.s.o], file)} : TRUE
  ELSE LET first == CHOOSE k \in {LearnMore(rounds - 1, unit, known, file)} : TRUE
       IN  LearnMore(rounds - 1, unit, first, file)

ReadUnit(unit, file) ==
  LET s == LearnMore(10, unit, Learn(unit, [o |-> New(unit.type), s |-> << >>], file), file).s
  IN  [type   |-> unit.type,
       object |-> [key \in {k \in DOMAIN s.o : k[1] # "syntax"} |-> s.o[key]],
       read   |-> ~s.failed /\ s.next = Len(unit.items) + 1]

-----------------------------------------------------------------------------
(* The programs.                                                           *)

Init ==
  /\ phase = "check"
  /\ setup \in Setups
  /\ written = << >> /\ stream = << >> /\ parsed = << >>
  /\ rpsFile = << >>
  /\ prevTid0POC = 0

CheckParameters ==
  /\ phase = "check"
  /\ phase' = IF xCheckParameter(setup.config) THEN "write" ELSE "refused"
  /\ UNCHANGED <<setup, written, stream, rpsFile, parsed, prevTid0POC>>

(* An assertion of the writer ends the encoder.                            *)
WriteUnit ==
  /\ phase = "write" /\ Len(written) < Len(UnitsOf(setup))
  /\ \E unit \in {UnitsOf(setup)[Len(written) + 1]} : \E table \in {WriterTable(unit)} :
       /\ written' = Append(written, unit)
       /\ IF CanWrite(unit.object, table)
          THEN /\ stream' = Append(stream, [type |-> unit.type, items |-> Items(unit.object, table)])
               /\ rpsFile' = rpsFile \o FileItems(unit.object, table)
               /\ UNCHANGED phase
          ELSE phase' = "aborted" /\ UNCHANGED <<stream, rpsFile>>
  /\ UNCHANGED <<setup, parsed, prevTid0POC>>

EndOfEncoder ==
  /\ phase = "write" /\ Len(written) = Len(UnitsOf(setup))
  /\ phase' = "read"
  /\ UNCHANGED <<setup, written, stream, rpsFile, parsed, prevTid0POC>>

(* The pictures of these runs are all of the lowest sub-layer.              *)
ParseUnit ==
  /\ phase = "read" /\ Len(parsed) < Len(stream)
  /\ \E unit \in {stream[Len(parsed) + 1]} : \E result \in {ReadUnit(unit, rpsFile)} :
       /\ parsed' = Append(parsed, result)
       /\ prevTid0POC' = IF IsSlice(unit) /\ result.read THEN result.object $ "POC" ELSE prevTid0POC
       /\ phase' = IF result.read THEN "read" ELSE "crashed"
  /\ UNCHANGED <<setup, written, stream, rpsFile>>

Next == CheckParameters \/ WriteUnit \/ EndOfEncoder \/ ParseUnit

Spec == Init /\ [][Next]_vars

-----------------------------------------------------------------------------
(* Properties.                                                             *)

(* The fields that say something only when all of these flags are set.     *)
Needs ==
  LET usedBy(flags, names) == [n \in names |-> flags]
  IN  usedBy({"UsePCM"}, {"PCMLog2MinSize", "PCMLog2MaxSize", "PCMBitDepth", "PCMFilterDisableFlag"})
      @@ usedBy({"VuiParametersPresentFlag"}, DOMAIN VuiDefaults)
      @@ usedBy({"AspectRatioInfoPresentFlag"}, {"AspectRatioIdc", "SarWidth", "SarHeight"})
      @@ usedBy({"VideoSignalTypePresentFlag"}, {"VideoFullRangeFlag", "ColourDescriptionPresentFlag"})
      @@ usedBy({"HrdParametersPresentFlag", "NalHrdParametersPresentFlag"},
                {"BitRateScale", "CpbSizeScale", "InitialCpbRemovalDelayLengthMinus1", "CpbRemovalDelayLengthMinus1",
                 "DpbOutputDelayLengthMinus1", "BitRateValueMinus1", "CpbSizeValueMinus1", "FixedPicRateFlag"})
      @@ usedBy({"HrdParametersPresentFlag", "SubPicCpbParamsPresentFlag"},
                {"TickDivisorMinus2", "DuCpbRemovalDelayLengthMinus1", "SubPicCpbParamsInPicTimingSEIFlag", "DuCpbSizeScale",
                 "DpbOutputDelayDuLengthMinus1", "DuCpbSizeValueMinus1", "DuBitRateValueMinus1"})
      @@ usedBy({"ScalingListPresentFlag"}, {"Coef", "DC"})

(* How a set, a list or a message is coded, not what it is.                *)
HowCoded == {"DeltaRPS", "NumRefIdc", "RefIdc", "InterRPSPrediction", "PredMode", "RefMatrixId", "RPSidx", "suffix"}

(* The colours of a video signal that is not described are the default, and *)
(* a general picture rate that is fixed is so within a sequence.            *)
SignalFields == {"VideoFormat", "ColourPrimaries", "TransferCharacteristics", "MatrixCoefficients"}

Used(o, key) ==
  /\ key[1] \notin HowCoded
  /\ key[1] \in DOMAIN Needs => \A f \in Needs[key[1]] : o $ f = 1
  /\ key[1] \in SignalFields => o $ "VideoSignalTypePresentFlag" = 1
  /\ key[1] = "DC" => key[2] >= SCALING_LIST_16x16
  /\ key = <<"PCMBitDepth", CHROMA>> => o $ "ChromaFormatIdc" # CHROMA_400
  /\ key[1] = "FixedPicRateWithinCvsFlag" => o $$ <<"FixedPicRateFlag", key[2]>> = 0
  /\ Len(key) > 1 /\ key[1] \in DOMAIN Needs /\ "HrdParametersPresentFlag" \in Needs[key[1]] => key[2] < o $ "MaxTLayers"

Arrives(sent, received, Relevant(_)) ==
  \A key \in {k \in DOMAIN sent \cup DOMAIN received : Relevant(k)} : sent $$ key = received $$ key

(* The encoder does not fail an assertion while it writes: the options that *)
(* xCheckParameter accepts lead to parameter sets, messages and slices in   *)
(* which every value fits its syntax element.                               *)
EncoderNeverAborts == phase # "aborted"

(* The decoder reads what the encoder has written without an assertion      *)
(* failing, a read outside the stream or the use of a null pointer.  The    *)
(* comments it is about: an offset difference of the weights is a "signed   *)
(* 10bit" number (WeightPredAnalysis), and the reader of slice headers can  *)
(* "use short-term reference picture set explicitly signalled in slice      *)
(* header" (TDecCAVLC).                                                     *)
DecoderNeverAborts == phase # "crashed"

(* The parameter sets the decoder reads are those the encoder made of its   *)
(* options: every field that is in use has arrived, none was invented, and  *)
(* the two agree on where each set ends, its extensions included.           *)
ParametersArrive ==
  \A i \in DOMAIN parsed :
    written[i].type \in {VPS, SPS, PPS} =>
      /\ parsed[i].read
      /\ Arrives(written[i].object, parsed[i].object, LAMBDA key : Used(written[i].object, key))

(* What a slice does not use.                                              *)
UsedBySlice(o, key) ==
  /\ key[1] # "RPSidx"
  /\ key \in {<<"SaoEnabledFlag", CHROMA>>, <<"Log2WeightDenom", CHROMA>>} =>
       SpsOf(UnitsOf(setup)) $ "ChromaFormatIdc" # CHROMA_400
  /\ o $ "IdrPicFlag" = 1 => key[1] # "EnableTMVPFlag"
  /\ Slice(o, I_SLICE) => key[1] \notin {"NumRefIdx", "MaxNumMergeCand", "MvdL1ZeroFlag", "ColFromL0Flag"}
  /\ Slice(o, P_SLICE) => key \notin {<<"NumRefIdx", 1>>, <<"MvdL1ZeroFlag">>}
  /\ key[1] = "ColFromL0Flag" => o $ "EnableTMVPFlag" = 1
  /\ o $ "IdrPicFlag" = 1 => key[1] \notin {"DeltaPOC", "Used", "NumberOfNegativePictures", "NumberOfPositivePictures"}
  /\ o $ "DeblockingFilterDisable" = 1 =>
       key[1] \notin {"DeblockingFilterBetaOffsetDiv2", "DeblockingFilterTcOffsetDiv2"}
  /\ o $ "DependentSliceSegmentFlag" = 1 => key[1] \in {"SliceSegmentAddress", "SubstreamSize", "NumberOfSubstreamSizes"}

(* A slice is decoded with the parameters it was coded with: its picture    *)
(* order count, however far it is from the last one's, its reference        *)
(* pictures and their weights, quantiser, filters and entry points, whether *)
(* they are coded in the slice, in the PPS or derived by both sides.        *)
SlicesArrive ==
  \A i \in DOMAIN parsed :
    IsSlice(written[i]) =>
      /\ parsed[i].read
      /\ Arrives(written[i].object, parsed[i].object, LAMBDA key : UsedBySlice(written[i].object, key))

(* Fields the reader of a message overwrites or inverts.                    *)
KnownLost == {"sopDescTemporalId", "sopDescStRpsIdx", "display_tile_set_flag"}

(* The tables of a colour remapping that are not coded are two points.      *)
UsedByMessage(o, key) ==
  /\ key[1] \notin KnownLost \cup HowCoded
  /\ key[1] \in {"preLut", "preLutNumValMinus1"} => o $$ <<"preLutNumValMinus1", key[2]>> > 0
  /\ key[1] \in {"postLut", "postLutNumValMinus1"} => o $$ <<"postLutNumValMinus1", key[2]>> > 0

(* An SEI message is read as it was written, whatever its length and its    *)
(* alignment to bytes, but for the fields of KnownLost.                     *)
MessagesArrive ==
  \A i \in DOMAIN parsed :
    IsMessage(written[i]) =>
      /\ parsed[i].read
      /\ Arrives(written[i].object, parsed[i].object, LAMBDA key : UsedByMessage(written[i].object, key))
=============================================================================
