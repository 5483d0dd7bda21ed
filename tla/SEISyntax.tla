----------------------------- MODULE SEISyntax -----------------------------
(***************************************************************************)
(* The syntax of the SEI messages: what SEIWriter writes and SEIReader     *)
(* parses.  Where the two functions list the same elements one table       *)
(* stands for both, and the reader's operator adds what only it does.      *)
(* A message is an object; its field PayloadType says which one it is.     *)
(***************************************************************************)
EXTENDS Syntax

BUFFERING_PERIOD == 0
PICTURE_TIMING == 1
USER_DATA_UNREGISTERED == 5
RECOVERY_POINT == 6
TONE_MAPPING_INFO == 23
FRAME_PACKING == 45
DISPLAY_ORIENTATION == 47
SOP_DESCRIPTION == 128
ACTIVE_PARAMETER_SETS == 129
DECODING_UNIT_INFO == 130
TEMPORAL_LEVEL0_INDEX == 131
DECODED_PICTURE_HASH == 132
SCALABLE_NESTING == 133
REGION_REFRESH_INFO == 134
NO_DISPLAY == 135
TIME_CODE == 136
MASTERING_DISPLAY_COLOUR_VOLUME == 137
SEGM_RECT_FRAME_PACKING == 138
TEMP_MOTION_CONSTRAINED_TILE_SETS == 139
CHROMA_RESAMPLING_FILTER_HINT == 140
KNEE_FUNCTION_INFO == 141
COLOUR_REMAPPING_INFO == 142
ALTERNATIVE_TRANSFER_CHARACTERISTICS == 182

PREFIX_SEI == 39
SUFFIX_SEI == 40

Times(n, Table(_)) == FlattenSeq([i \in 1..n |-> Table(i - 1)])

(* A value of depth bits takes whole bytes.                                *)
InBytes(depth) == ((depth + 7) \div 8) * 8

(* Parts of a payload that are written up to the next byte.                *)
align == Element("align", 0, << >>, 0)

-----------------------------------------------------------------------------
(* Messages whose elements the object alone determines.                    *)

ISO_IEC_11578_LEN == 16

SEIUserDataUnregistered(o, length) ==
  Times(ISO_IEC_11578_LEN, LAMBDA i : <<u(8, "uuid_iso_iec_11578") ** i>>)
  \o [i \in 1..length |-> u(8, "userData") ** (i - 1)]

xWriteSEIuserDataUnregistered(o) == SEIUserDataUnregistered(o, o $ "userDataLength")

xParseSEIuserDataUnregistered(p, payloadSize) ==
  <<check(payloadSize >= ISO_IEC_11578_LEN), assign("userDataLength", payloadSize - ISO_IEC_11578_LEN)>>
  \o SEIUserDataUnregistered(p, payloadSize - ISO_IEC_11578_LEN)

(* The writer knows how long the hash is, the reader takes what is left.   *)
SEIDecodedPictureHash(o, length) ==
  <<u(8, "method"), check(o $ "method" \in 0..2)>>
  \o Times(length, LAMBDA i : <<u(8, "hash") ** i>>)
  \o <<assign("hashSize", length)>>

xWriteSEIDecodedPictureHash(o) == SEIDecodedPictureHash(o, o $ "hashSize")
xParseSEIDecodedPictureHash(p, payloadSize) == SEIDecodedPictureHash(p, payloadSize - 1)

SEIActiveParameterSets(o) ==
  <<u(4, "activeVPSId"), flag("selfContainedCvsFlag"), flag("noParameterSetUpdateFlag"), ue("numSpsIdsMinus1")>>
  \o Times((o $ "numSpsIdsMinus1") + 1, LAMBDA i : <<ue("activeSeqParameterSetId") ** i>>)

(* Writer and reader of this message, and of those below whose reader is    *)
(* defined as their table, list the same elements.                          *)
xParseSEIActiveParameterSets(p) == SEIActiveParameterSets(p)

SEIRecoveryPoint == <<se("recoveryPocCnt"), flag("exactMatchingFlag"), flag("brokenLinkFlag")>>

SEIFramePacking(o) ==
  <<ue("arrangementId"), flag("arrangementCancelFlag")>>
  \o When(o $ "arrangementCancelFlag" = 0,
       <<u(7, "arrangementType"), flag("quincunxSamplingFlag"), u(6, "contentInterpretationType")>>
       \o Flags(<<"spatialFlippingFlag", "frame0FlippedFlag", "fieldViewsFlag", "currentFrameIsFrame0Flag",
                  "frame0SelfContainedFlag", "frame1SelfContainedFlag">>)
       \o When(o $ "quincunxSamplingFlag" = 0 /\ o $ "arrangementType" # 5,
               <<u(4, "frame0GridPositionX"), u(4, "frame0GridPositionY"),
                 u(4, "frame1GridPositionX"), u(4, "frame1GridPositionY")>>)
       \o <<u(8, "arrangementReservedByte"), flag("arrangementPersistenceFlag")>>)
  \o <<flag("upsampledAspectRatio")>>

xParseSEIFramePacking(p) ==
  SEIFramePacking(p) \o <<check(p $ "arrangementCancelFlag" = 0 => p $ "arrangementType" \in 3..5)>>

SEISegmentedRectFramePacking(o) ==
  <<flag("arrangementCancelFlag")>>
  \o When(o $ "arrangementCancelFlag" = 0,
          <<u(2, "contentInterpretationType"), flag("arrangementPersistenceFlag")>>)

SEIDisplayOrientation(o) ==
  <<flag("cancelFlag")>>
  \o When(o $ "cancelFlag" = 0,
          <<flag("horFlip"), flag("verFlip"), u(16, "anticlockwiseRotation"), flag("persistenceFlag")>>)

xParseSEIDisplayOrientation(p) == SEIDisplayOrientation(p)

SEITemporalLevel0Index == <<u(8, "tl0Idx"), u(8, "rapIdx")>>
SEIGradualDecodingRefreshInfo == <<flag("gdrForegroundFlag")>>
SEIAlternativeTransferCharacteristics == <<u(8, "preferredTransferCharacteristics")>>

SEIMasteringDisplayColourVolume ==
  Times(3, LAMBDA c : <<u(16, "primaries") ** c ** 0, u(16, "primaries") ** c ** 1>>)
  \o <<u(16, "whitePoint") ** 0, u(16, "whitePoint") ** 1, u(32, "maxLuminance"), u(32, "minLuminance")>>

xParseSEIMasteringDisplayColourVolume == SEIMasteringDisplayColourVolume

-----------------------------------------------------------------------------
(* Tone mapping.                                                           *)

ToneMapIso(o, idc, value) == <<u(8, idc)>> \o When(o $ idc = 255, <<u(32, value)>>)

ToneMapModel(o) ==
  LET coded  == InBytes(o $ "codedDataBitDepth")
      target == InBytes(o $ "targetBitDepth")
  IN  CASE o $ "modelId" = 0 -> <<u(32, "minValue"), u(32, "maxValue")>>
        [] o $ "modelId" = 1 -> <<u(32, "sigmoidMidpoint"), u(32, "sigmoidWidth")>>
        [] o $ "modelId" = 2 -> Times(2^(o $ "targetBitDepth"), LAMBDA i : <<u(coded, "startOfCodedInterval") ** i>>)
        [] o $ "modelId" = 3 ->
             <<u(16, "numPivots")>>
             \o Times(o $ "numPivots", LAMBDA i : <<u(coded, "codedPivotValue") ** i, u(target, "targetPivotValue") ** i>>)
        [] o $ "modelId" = 4 ->
             ToneMapIso(o, "cameraIsoSpeedIdc", "cameraIsoSpeedValue")
             \o ToneMapIso(o, "exposureIndexIdc", "exposureIndexValue")
             \o <<flag("exposureCompensationValueSignFlag"), u(16, "exposureCompensationValueNumerator"),
                  u(16, "exposureCompensationValueDenomIdc"), u(32, "refScreenLuminanceWhite"),
                  u(32, "extendedRangeWhiteLevel"), u(16, "nominalBlackLevelLumaCodeValue"),
                  u(16, "nominalWhiteLevelLumaCodeValue"), u(16, "extendedWhiteLevelLumaCodeValue")>>
        [] OTHER -> <<check(FALSE)>>

SEIToneMappingInfo(o) ==
  <<ue("toneMapId"), flag("toneMapCancelFlag")>>
  \o When(o $ "toneMapCancelFlag" = 0,
       <<flag("toneMapPersistenceFlag"), u(8, "codedDataBitDepth"), u(8, "targetBitDepth"), ue("modelId")>>
       \o ToneMapModel(o))

(* The reader closes the list of intervals.                                *)
xParseSEIToneMappingInfo(p) ==
  SEIToneMappingInfo(p)
  \o When(p $ "toneMapCancelFlag" = 0 /\ p $ "modelId" = 2,
          <<set(<<"startOfCodedInterval", 2^(p $ "targetBitDepth")>> :> 2^(p $ "codedDataBitDepth"))>>)

-----------------------------------------------------------------------------
(* Structure of pictures.                                                  *)

IDR_W_RADL == 19
IDR_N_LP == 20

SOPEntry(o, i) ==
  LET type == o $$ <<"sopDescVclNaluType", i>>
  IN  <<u(6, "sopDescVclNaluType") ** i, u(3, "sopDescTemporalId") ** i>>
      \o When(type \notin {IDR_W_RADL, IDR_N_LP}, <<ue("sopDescStRpsIdx") ** i>>)
      \o When(i > 0, <<se("sopDescPocDelta") ** i>>)

xWriteSEISOPDescription(o) ==
  <<ue("sopSeqParameterSetId"), ue("numPicsInSopMinus1")>>
  \o Times((o $ "numPicsInSopMinus1") + 1, LAMBDA i : SOPEntry(o, i))

(* The reader puts the type of the picture where it has just read the      *)
(* temporal sub-layer and the index of the reference picture set.          *)
TypeInPlaceOf(p, i) ==
  LET type == p $$ <<"sopDescVclNaluType", i>>
  IN  (<<"sopDescTemporalId", i>> :> type)
      @@ (IF type \in {IDR_W_RADL, IDR_N_LP} THEN << >> ELSE <<"sopDescStRpsIdx", i>> :> type)

xParseSEISOPDescription(p) ==
  <<ue("sopSeqParameterSetId"), ue("numPicsInSopMinus1")>>
  \o Times((p $ "numPicsInSopMinus1") + 1, LAMBDA i : SOPEntry(p, i) \o <<set(TypeInPlaceOf(p, i))>>)

-----------------------------------------------------------------------------
(* Tiles that are coded independently of the others in time.               *)

TileSet(o, i) ==
  Times(o $$ <<"numberOfTileRects", i>>, LAMBDA j :
    <<ue("topLeftTileIndex") ** i ** j, ue("bottomRightTileIndex") ** i ** j>>)
  \o When(o $ "mc_all_tiles_exact_sample_value_match_flag" = 0, <<flag("exact_sample_value_match_flag") ** i>>)
  \o <<flag("mcts_tier_level_idc_present_flag") ** i>>
  \o When(o $$ <<"mcts_tier_level_idc_present_flag", i>> = 1,
          <<flag("mcts_tier_flag") ** i, u(8, "mcts_level_idc") ** i>>)

(* displayed(i) is the flag of set i, with what is done with it.            *)
TileSets(o, displayed) ==
  Flags(<<"mc_all_tiles_exact_sample_value_match_flag", "each_tile_one_tile_set_flag">>)
  \o IF o $ "each_tile_one_tile_set_flag" = 0
     THEN <<flag("limited_tile_set_display_flag"), ue("numberOfTileSets") -- 1>>
          \o Times(o $ "numberOfTileSets", LAMBDA i :
               <<ue("mcts_id") ** i>>
               \o When(o $ "limited_tile_set_display_flag" = 1, displayed[i])
               \o <<(ue("numberOfTileRects") ** i) -- 1>>
               \o TileSet(o, i))
     ELSE <<flag("max_mcs_tier_level_idc_present_flag")>>
          \o When(o $ "max_mcs_tier_level_idc_present_flag" = 1,
                  <<flag("max_mcts_tier_flag"), u(8, "max_mcts_level_idc")>>)

xWriteSEITempMotionConstrainedTileSets(o) ==
  TileSets(o, [i \in 0..(o $ "numberOfTileSets") - 1 |-> <<flag("display_tile_set_flag") ** i>>])

(* The reader inverts display_tile_set_flag.                               *)
xParseSEITempMotionConstraintsTileSets(p) ==
  TileSets(p, [i \in 0..(p $ "numberOfTileSets") - 1 |->
                 <<syntax(flag("display_tile_set_flag") ** i),
                   set(<<"display_tile_set_flag", i>> :> 1 - (p $$ <<"syntax", "display_tile_set_flag", i>>))>>])

-----------------------------------------------------------------------------
(* Time code: a set of times per field.                                    *)

TimesOfDay(o, i) ==
  LET Optional(name, e, then) == <<flag(name) ** i>> \o When(o $$ <<name, i>> = 1, <<e ** i>> \o then)
  IN  IF o $$ <<"fullTimeStampFlag", i>> = 1
      THEN <<u(6, "secondsValue") ** i, u(6, "minutesValue") ** i, u(5, "hoursValue") ** i>>
      ELSE Optional("secondsFlag", u(6, "secondsValue"),
             Optional("minutesFlag", u(6, "minutesValue"),
               Optional("hoursFlag", u(5, "hoursValue"), << >>)))

TimeSet(o, i, offset) ==
  <<flag("clockTimeStampFlag") ** i>>
  \o When(o $$ <<"clockTimeStampFlag", i>> = 1,
       <<flag("numUnitFieldBasedFlag") ** i, u(5, "countingType") ** i, flag("fullTimeStampFlag") ** i,
         flag("discontinuityFlag") ** i, flag("cntDroppedFlag") ** i, u(9, "numberOfFrames") ** i>>
       \o TimesOfDay(o, i)
       \o <<u(5, "timeOffsetLength") ** i>>
       \o When(o $$ <<"timeOffsetLength", i>> > 0, offset))

(* A negative offset is written as its magnitude with the top bit set.     *)
TimeOffset(value, length) == IF value >= 0 THEN value ELSE -value + 2^(length - 1)

\* Mutant: the top bit stays in the magnitude.
TimeOffsetRead_TopBit(code, length) == IF code < 2^(length - 1) THEN code ELSE -code

TimeOffsetRead(code, length) == IF code < 2^(length - 1) THEN code ELSE -(code - 2^(length - 1))

xWriteSEITimeCode(o) ==
  <<u(2, "numClockTs")>>
  \o Times(o $ "numClockTs", LAMBDA i :
       LET length == o $$ <<"timeOffsetLength", i>>
       IN  TimeSet(o, i, <<uOf(length, TimeOffset(o $$ <<"timeOffsetValue", i>>, length))>>))

xParseSEITimeCode(p) ==
  <<u(2, "numClockTs")>>
  \o Times(p $ "numClockTs", LAMBDA i :
       LET length == p $$ <<"timeOffsetLength", i>>
       IN  TimeSet(p, i, <<syntax(u(length, "time_offset_value") ** i),
                           set(<<"timeOffsetValue", i>> :>
                                 IF length = 0 THEN 0
                                 ELSE TimeOffsetRead(p $$ <<"syntax", "time_offset_value", i>>, length))>>))

-----------------------------------------------------------------------------
(* Colour.                                                                 *)

FilterHint(o, number, taps, coeff) ==
  <<ue(number)>>
  \o Times(o $ number, LAMBDA i :
       <<(ue(taps) ** i) -- 1>> \o Times(o $$ <<taps, i>>, LAMBDA j : <<se(coeff) ** i ** j>>))

SEIChromaResamplingFilterHint(o) ==
  LET vertical   == o $ "verChromaFilterIdc" = 1
      horizontal == o $ "horChromaFilterIdc" = 1
  IN  <<u(8, "verChromaFilterIdc"), u(8, "horChromaFilterIdc"), flag("verFilteringFieldProcessingFlag")>>
      \o When(vertical \/ horizontal,
           <<ue("targetFormatIdc")>>
           \o When(vertical, FilterHint(o, "numVerticalFilters", "verTapLength", "verFilterCoeff"))
           \o When(horizontal, FilterHint(o, "numHorizontalFilters", "horTapLength", "horFilterCoeff")))

xParseSEIChromaResamplingFilterHint(p) == SEIChromaResamplingFilterHint(p)

SEIKneeFunctionInfo(o) ==
  <<ue("kneeId"), flag("kneeCancelFlag")>>
  \o When(o $ "kneeCancelFlag" = 0,
       <<flag("kneePersistenceFlag"), u(32, "kneeInputDrange"), u(32, "kneeInputDispLuminance"),
         u(32, "kneeOutputDrange"), u(32, "kneeOutputDispLuminance"), ue("kneeNumKneePointsMinus1")>>
       \o Times((o $ "kneeNumKneePointsMinus1") + 1, LAMBDA i :
            <<u(10, "kneeInputKneePoint") ** i, u(10, "kneeOutputKneePoint") ** i>>))

xParseSEIKneeFunctionInfo(p) ==
  SEIKneeFunctionInfo(p) \o <<check(p $ "kneeCancelFlag" = 0 => p $ "kneeNumKneePointsMinus1" > 0)>>

(* A lookup table of component c.                                          *)
Lut(o, name, number, c, codedDepth, targetDepth) ==
  Times(number + 1, LAMBDA i :
    <<u(InBytes(codedDepth), name) ** c ** i ** 0, u(InBytes(targetDepth), name) ** c ** i ** 1>>)

ColourRemapStart(o) ==
  Flags(<<"colourRemapPersistenceFlag", "colourRemapVideoSignalInfoPresentFlag">>)
  \o When(o $ "colourRemapVideoSignalInfoPresentFlag" = 1,
          <<flag("colourRemapFullRangeFlag"), u(8, "colourRemapPrimaries"), u(8, "colourRemapTransferFunction"),
            u(8, "colourRemapMatrixCoefficients")>>)
  \o <<u(8, "colourRemapInputBitDepth"), u(8, "colourRemapBitDepth")>>

ColourRemapCoeffs ==
  <<u(4, "log2MatrixDenom")>> \o Times(9, LAMBDA n : <<se("colourRemapCoeffs") ** (n \div 3) ** (n % 3)>>)

xWriteSEIColourRemappingInfo(o) ==
  LET Luts(name, numbers, inDepth) ==
        Times(3, LAMBDA c :
          <<u(8, numbers) ** c>>
          \o When(o $$ <<numbers, c>> > 0,
                  Lut(o, name, o $$ <<numbers, c>>, c, inDepth, o $ "colourRemapBitDepth")))
  IN  <<ue("colourRemapId"), flag("colourRemapCancelFlag")>>
      \o When(o $ "colourRemapCancelFlag" = 0,
           ColourRemapStart(o)
           \o Luts("preLut", "preLutNumValMinus1", o $ "colourRemapInputBitDepth")
           \o <<flag("colourRemapMatrixPresentFlag")>>
           \o When(o $ "colourRemapMatrixPresentFlag" = 1, ColourRemapCoeffs)
           \o Luts("postLut", "postLutNumValMinus1", o $ "colourRemapBitDepth"))

(* The straight line that stands for a table that is not sent.             *)
DefaultLut(name, numbers, c, codedDepth, targetDepth) ==
  (<<numbers, c>> :> 1)
  @@ (<<name, c, 0, 0>> :> 0) @@ (<<name, c, 0, 1>> :> 0)
  @@ (<<name, c, 1, 0>> :> 2^codedDepth - 1) @@ (<<name, c, 1, 1>> :> 2^targetDepth - 1)

IdentityMatrix ==
  (<<"log2MatrixDenom">> :> 10)
  @@ [key \in {"colourRemapCoeffs"} \X (0..2) \X (0..2) |-> IF key[2] = key[3] THEN 2^10 ELSE 0]

xParseSEIColourRemappingInfo(p) ==
  LET target == p $ "colourRemapBitDepth"
      Luts(name, numbers, inDepth) ==
        Times(3, LAMBDA c :
          LET number == p $$ <<"syntax", numbers, c>>
          IN  <<syntax(u(8, numbers) ** c)>>
              \o (IF number = 0 THEN <<set(DefaultLut(name, numbers, c, inDepth, target))>>
                  ELSE <<set(<<numbers, c>> :> number)>> \o Lut(p, name, number, c, inDepth, target)))
  IN  <<ue("colourRemapId"), flag("colourRemapCancelFlag")>>
      \o When(p $ "colourRemapCancelFlag" = 0,
           ColourRemapStart(p)
           \o Luts("preLut", "preLutNumValMinus1", p $ "colourRemapInputBitDepth")
           \o <<flag("colourRemapMatrixPresentFlag")>>
           \o (IF p $ "colourRemapMatrixPresentFlag" = 1 THEN ColourRemapCoeffs ELSE <<set(IdentityMatrix)>>)
           \o Luts("postLut", "postLutNumValMinus1", target))

-----------------------------------------------------------------------------
(* Messages of the hypothetical reference decoder: the active SPS has the  *)
(* widths of their fields.                                                 *)

SEIDecodingUnitInfo(o, sps) ==
  <<ue("decodingUnitIdx")>>
  \o When(sps $ "SubPicCpbParamsInPicTimingSEIFlag" = 1,
          <<u((sps $ "DuCpbRemovalDelayLengthMinus1") + 1, "duSptCpbRemovalDelay")>>)
  \o <<flag("dpbOutputDuDelayPresentFlag")>>
  \o When(o $ "dpbOutputDuDelayPresentFlag" = 1,
          <<u((sps $ "DpbOutputDelayDuLengthMinus1") + 1, "picSptDpbOutputDuDelay")>>)

xParseSEIDecodingUnitInfo(p, sps) == SEIDecodingUnitInfo(p, sps)

InitialDelays(o, sps, i, nalOrVcl) ==
  LET w == (sps $ "InitialCpbRemovalDelayLengthMinus1") + 1
      alternative == sps $ "SubPicCpbParamsPresentFlag" = 1 \/ o $ "rapCpbParamsPresentFlag" = 1
  IN  <<u(w, "initialCpbRemovalDelay") ** i ** nalOrVcl, u(w, "initialCpbRemovalDelayOffset") ** i ** nalOrVcl>>
      \o When(alternative, <<u(w, "initialAltCpbRemovalDelay") ** i ** nalOrVcl,
                             u(w, "initialAltCpbRemovalDelayOffset") ** i ** nalOrVcl>>)

SEIBufferingPeriod(o, sps) ==
  LET cpb == (sps $ "CpbRemovalDelayLengthMinus1") + 1
      dpb == (sps $ "DpbOutputDelayLengthMinus1") + 1
      present == <<"NalHrdParametersPresentFlag", "VclHrdParametersPresentFlag">>
  IN  <<ue("bpSeqParameterSetId")>>
      \o When(sps $ "SubPicCpbParamsPresentFlag" = 0, <<flag("rapCpbParamsPresentFlag")>>)
      \o When(o $ "rapCpbParamsPresentFlag" = 1, <<u(cpb, "cpbDelayOffset"), u(dpb, "dpbDelayOffset")>>)
      \o <<flag("concatenationFlag"), u(cpb, "auCpbRemovalDelayDelta") -- 1>>
      \o Times(2, LAMBDA nalOrVcl :
           When(sps $ present[nalOrVcl + 1] = 1,
                Times((sps $$ <<"CpbCntMinus1", 0>>) + 1, LAMBDA i : InitialDelays(o, sps, i, nalOrVcl))))

xParseSEIBufferingPeriod(p, sps) == SEIBufferingPeriod(p, sps)

DecodingUnitsOfPicture(o, sps) ==
  LET w      == (sps $ "DuCpbRemovalDelayLengthMinus1") + 1
      last   == o $ "numDecodingUnitsMinus1"
      common == o $ "duCommonCpbRemovalDelayFlag" = 1
  IN  <<ue("numDecodingUnitsMinus1"), flag("duCommonCpbRemovalDelayFlag")>>
      \o When(common, <<u(w, "duCommonCpbRemovalDelayMinus1")>>)
      \o Times(last + 1, LAMBDA i :
           <<ue("numNalusInDuMinus1") ** i>>
           \o When(~common /\ i < last, <<u(w, "duCpbRemovalDelayMinus1") ** i>>))

SEIPictureTiming(o, sps) ==
  LET delays == sps $ "NalHrdParametersPresentFlag" = 1 \/ sps $ "VclHrdParametersPresentFlag" = 1
      subPic == sps $ "SubPicCpbParamsPresentFlag" = 1
  IN  When(sps $ "FrameFieldInfoPresentFlag" = 1,
           <<u(4, "picStruct"), u(2, "sourceScanType"), flag("duplicateFlag")>>)
      \o When(delays,
           <<u((sps $ "CpbRemovalDelayLengthMinus1") + 1, "auCpbRemovalDelay") -- 1,
             u((sps $ "DpbOutputDelayLengthMinus1") + 1, "picDpbOutputDelay")>>
           \o When(subPic, <<u((sps $ "DpbOutputDelayDuLengthMinus1") + 1, "picDpbOutputDuDelay")>>)
           \o When(subPic /\ sps $ "SubPicCpbParamsInPicTimingSEIFlag" = 1, DecodingUnitsOfPicture(o, sps)))

xParseSEIPictureTiming(p, sps) == SEIPictureTiming(p, sps)

-----------------------------------------------------------------------------
(* Messages in a unit: type, size and payload.  A nesting message holds    *)
(* another one, whose type is NestedType and whose fields are those of the *)
(* object too.                                                             *)

SEIScalableNesting(o) ==
  Flags(<<"bitStreamSubsetFlag", "nestingOpFlag">>)
  \o (IF o $ "nestingOpFlag" = 1
      THEN <<flag("defaultOpFlag"), ue("nestingNumOpsMinus1")>>
           \o LET first == o $ "defaultOpFlag"
              IN  Times((o $ "nestingNumOpsMinus1") + 1 - first, LAMBDA i :
                    <<u(3, "nestingMaxTemporalIdPlus1") ** (i + first), ue("nestingOpIdx") ** (i + first)>>)
      ELSE <<flag("allLayersFlag")>>
           \o When(o $ "allLayersFlag" = 0,
                <<u(3, "nestingNoOpMaxTemporalIdPlus1"), ue("nestingNumLayersMinus1")>>
                \o Times((o $ "nestingNumLayersMinus1") + 1, LAMBDA i : <<u(6, "nestingLayerId") ** i>>)))
  \o <<align>>

xParseSEIScalableNesting(p) == SEIScalableNesting(p)

PayloadWritten(o, sps, type) ==
  (CASE type = USER_DATA_UNREGISTERED               -> xWriteSEIuserDataUnregistered(o)
     [] type = ACTIVE_PARAMETER_SETS                -> SEIActiveParameterSets(o)
     [] type = DECODING_UNIT_INFO                   -> SEIDecodingUnitInfo(o, sps)
     [] type = DECODED_PICTURE_HASH                 -> xWriteSEIDecodedPictureHash(o)
     [] type = BUFFERING_PERIOD                     -> SEIBufferingPeriod(o, sps)
     [] type = PICTURE_TIMING                       -> SEIPictureTiming(o, sps)
     [] type = RECOVERY_POINT                       -> SEIRecoveryPoint
     [] type = FRAME_PACKING                        -> SEIFramePacking(o)
     [] type = SEGM_RECT_FRAME_PACKING              -> SEISegmentedRectFramePacking(o)
     [] type = DISPLAY_ORIENTATION                  -> SEIDisplayOrientation(o)
     [] type = TEMPORAL_LEVEL0_INDEX                -> SEITemporalLevel0Index
     [] type = REGION_REFRESH_INFO                  -> SEIGradualDecodingRefreshInfo
     [] type = NO_DISPLAY                           -> << >>
     [] type = TONE_MAPPING_INFO                    -> SEIToneMappingInfo(o)
     [] type = SOP_DESCRIPTION                      -> xWriteSEISOPDescription(o)
     [] type = CHROMA_RESAMPLING_FILTER_HINT        -> SEIChromaResamplingFilterHint(o)
     [] type = TEMP_MOTION_CONSTRAINED_TILE_SETS    -> xWriteSEITempMotionConstrainedTileSets(o)
     [] type = TIME_CODE                            -> xWriteSEITimeCode(o)
     [] type = KNEE_FUNCTION_INFO                   -> SEIKneeFunctionInfo(o)
     [] type = COLOUR_REMAPPING_INFO                -> xWriteSEIColourRemappingInfo(o)
     [] type = MASTERING_DISPLAY_COLOUR_VOLUME      -> SEIMasteringDisplayColourVolume
     [] type = ALTERNATIVE_TRANSFER_CHARACTERISTICS -> SEIAlternativeTransferCharacteristics
     [] OTHER                                       -> <<check(FALSE)>>)
  \o <<align>>

PayloadRead(p, sps, type, size) ==
  (CASE type = USER_DATA_UNREGISTERED               -> xParseSEIuserDataUnregistered(p, size)
     [] type = ACTIVE_PARAMETER_SETS                -> xParseSEIActiveParameterSets(p)
     [] type = DECODING_UNIT_INFO                   -> xParseSEIDecodingUnitInfo(p, sps)
     [] type = DECODED_PICTURE_HASH                 -> xParseSEIDecodedPictureHash(p, size)
     [] type = BUFFERING_PERIOD                     -> xParseSEIBufferingPeriod(p, sps)
     [] type = PICTURE_TIMING                       -> xParseSEIPictureTiming(p, sps)
     [] type = RECOVERY_POINT                       -> SEIRecoveryPoint
     [] type = FRAME_PACKING                        -> xParseSEIFramePacking(p)
     [] type = SEGM_RECT_FRAME_PACKING              -> SEISegmentedRectFramePacking(p)
     [] type = DISPLAY_ORIENTATION                  -> xParseSEIDisplayOrientation(p)
     [] type = TEMPORAL_LEVEL0_INDEX                -> SEITemporalLevel0Index
     [] type = REGION_REFRESH_INFO                  -> SEIGradualDecodingRefreshInfo
     [] type = NO_DISPLAY                           -> <<assign("noDisplay", 1)>>
     [] type = TONE_MAPPING_INFO                    -> xParseSEIToneMappingInfo(p)
     [] type = SOP_DESCRIPTION                      -> xParseSEISOPDescription(p)
     [] type = CHROMA_RESAMPLING_FILTER_HINT        -> xParseSEIChromaResamplingFilterHint(p)
     [] type = TEMP_MOTION_CONSTRAINED_TILE_SETS    -> xParseSEITempMotionConstraintsTileSets(p)
     [] type = TIME_CODE                            -> xParseSEITimeCode(p)
     [] type = KNEE_FUNCTION_INFO                   -> xParseSEIKneeFunctionInfo(p)
     [] type = COLOUR_REMAPPING_INFO                -> xParseSEIColourRemappingInfo(p)
     [] type = MASTERING_DISPLAY_COLOUR_VOLUME      -> xParseSEIMasteringDisplayColourVolume
     [] type = ALTERNATIVE_TRANSFER_CHARACTERISTICS -> SEIAlternativeTransferCharacteristics
     [] OTHER                                       -> [i \in 1..size |-> syntax(u(8, "unknown"))])
  \o <<align>>

BitLength(n) == CHOOSE b \in 1..31 : n < 2^b /\ (b = 1 \/ n >= 2^(b - 1))

BitsAfter(bits, item) ==
  CASE item.kind = "u"     -> bits + item.w
    [] item.kind = "ue"    -> bits + 2 * BitLength(item.code + 1) - 1
    [] item.kind = "align" -> InBytes(bits)

(* The bits of items from..to, written behind so many bits; by halves, to   *)
(* keep the recursion shallow.                                              *)
RECURSIVE CountBits(_, _, _, _)
CountBits(bits, items, from, to) ==
  IF from > to THEN bits
  ELSE IF from = to THEN BitsAfter(bits, items[from])
  ELSE LET half == (from + to) \div 2
       IN  CHOOSE total \in {CountBits(left, items, half + 1, to) : left \in {CountBits(bits, items, from, half)}} : TRUE

(* The bytes of a sequence of items.                                       *)
PayloadSize(items) == CountBits(0, items, 1, Len(items)) \div 8

(* A number in bytes: as many 0xff as it takes, then what is left.         *)
InFFs(n) == [i \in 1..(n \div 255) + 1 |-> uOf(8, IF i <= n \div 255 THEN 255 ELSE n % 255)]

writeSEImessage(o, type, payload) == InFFs(type) \o InFFs(PayloadSize(Items(o, payload))) \o payload

writeSEImessages(o, sps) ==
  LET type   == o $ "PayloadType"
      nested == o $ "NestedType"
  IN  writeSEImessage(o, type,
        IF type = SCALABLE_NESTING
        THEN SEIScalableNesting(o) \o writeSEImessage(o, nested, PayloadWritten(o, sps, nested)) \o <<align>>
        ELSE PayloadWritten(o, sps, type))

MaxFFs == 3

FFsRead(p, name, level) ==
  CHOOSE n \in 0..MaxFFs : /\ p $$ <<"syntax", name, level, n>> # 255
                           /\ \A i \in 0..n - 1 : p $$ <<"syntax", name, level, i>> = 255

ReadInFFs(p, name, level) ==
  Times(FFsRead(p, name, level) + 1, LAMBDA i : <<syntax(u(8, name) ** level ** i)>>)

ValueInFFs(p, name, level) ==
  LET n == FFsRead(p, name, level)
  IN  n * 255 + (p $$ <<"syntax", name, level, n>>)

(* level is 1 in the message that is nested.                               *)
xReadSEImessage(p, field, level, payload) ==
  ReadInFFs(p, "payload_type", level)
  \o <<assign(field, ValueInFFs(p, "payload_type", level))>>
  \o ReadInFFs(p, "payload_size", level)
  \o payload

(* In a suffix unit only user data and hashes are known.                   *)
parseSEImessage(p, sps, nalUnitType) ==
  LET type        == p $ "PayloadType"
      size(level) == ValueInFFs(p, "payload_size", level)
      nested      == PayloadRead(p, sps, p $ "NestedType", size(1))
      unknown     == [i \in 1..size(0) |-> syntax(u(8, "unknown"))]
  IN  xReadSEImessage(p, "PayloadType", 0,
        CASE nalUnitType = SUFFIX_SEI /\ type \notin {USER_DATA_UNREGISTERED, DECODED_PICTURE_HASH} -> unknown
          [] nalUnitType = PREFIX_SEI /\ type = DECODED_PICTURE_HASH -> unknown
          [] type = SCALABLE_NESTING ->
               xParseSEIScalableNesting(p) \o xReadSEImessage(p, "NestedType", 1, nested) \o <<align>>
          [] OTHER -> PayloadRead(p, sps, type, size(0)))
=============================================================================
