------------------------------ MODULE MCHeaders ------------------------------
(***************************************************************************)
(* Runs of the encoder: options that differ from the default ones in a     *)
(* feature or two, pictures that go with them, and SEI messages.           *)
(***************************************************************************)
EXTENDS Headers

Entry(poc, type, pictures) ==
  [POC |-> poc, sliceType |-> type, chromaQpOffset |-> <<0, 0>>, betaOffsetDiv2 |-> 0, tcOffsetDiv2 |-> 0,
   numRefPicsActive |-> 2, pictures |-> [i \in DOMAIN pictures |-> [deltaPOC |-> pictures[i], used |-> 1]],
   interRPSPrediction |-> 0, deltaRPS |-> 0, refIdc |-> << >>]

LowDelay == <<Entry(1, B_SLICE, <<-1, -5>>), Entry(2, P_SLICE, <<-1, -2, -6>>)>>

RandomAccess ==
  <<Entry(4, B_SLICE, <<-4, -6>>),
    [Entry(2, B_SLICE, <<-2, -4, 2>>) EXCEPT !.interRPSPrediction = 2],
    [Entry(1, B_SLICE, <<-1, 1, 3>>) EXCEPT !.interRPSPrediction = 1, !.deltaRPS = 1, !.refIdc = <<1, 0, 2, 1>>,
       !.chromaQpOffset = <<3, -2>>, !.betaOffsetDiv2 = 2, !.tcOffsetDiv2 = -1]>>

NoVui == [f \in {} |-> 0]

Default ==
  [profile |-> MAIN, level |-> 123, levelTier |-> 0, sourceFlags |-> <<1, 0, 0, 1>>, bitDepthConstraint |-> 0,
   chromaFormatConstraint |-> NUM_CHROMA_FORMAT, intraConstraintFlag |-> 0, onePictureOnlyConstraintFlag |-> 0,
   lowerBitRateConstraintFlag |-> 1, chromaFormatIDC |-> CHROMA_420, internalBitDepth |-> <<8, 8>>,
   inputBitDepth |-> <<8, 8>>, MSBExtendedBitDepth |-> <<8, 8>>, log2SaoOffsetScale |-> <<0, 0>>,
   PCMInputBitDepthFlag |-> TRUE,
   rext |-> [transformSkipRotationEnabledFlag |-> 0, transformSkipContextEnabledFlag |-> 0, rdpcmImplicit |-> 0,
             rdpcmExplicit |-> 0, intraSmoothingDisabledFlag |-> 0, persistentRiceAdaptationEnabledFlag |-> 0,
             extendedPrecisionProcessingFlag |-> 0, highPrecisionOffsetsEnabledFlag |-> 0,
             cabacBypassAlignmentEnabledFlag |-> 0],
   log2MaxTransformSkipBlockSize |-> 2, crossComponentPredictionEnabledFlag |-> 0, diffCuChromaQpOffsetDepth |-> -1,
   framesToBeEncoded |-> 8, frameRate |-> 30, temporalSubsampleRatio |-> 1, decodingRefreshType |-> 0,
   recoveryPointSEIEnabled |-> FALSE, bufferingPeriodSEIEnabled |-> FALSE, pictureTimingSEIEnabled |-> FALSE,
   decodingUnitInfoSEIEnabled |-> FALSE, QP |-> 30, maxDeltaQP |-> 0, maxCuDQPDepth |-> 0, maxCUDepth |-> 3,
   cbQpOffset |-> 0, crQpOffset |-> 0, maxNumMergeCand |-> 5, usePCM |-> 0, PCMLog2MinSize |-> 3,
   PCMLog2MaxSize |-> 5, PCMFilterDisableFlag |-> 0, tileColumns |-> 1, tileRows |-> 1, tileUniformSpacingFlag |-> 0,
   tileColumnWidth |-> << >>, tileRowHeight |-> << >>, LFCrossTileBoundaryFlag |-> TRUE,
   LFCrossSliceBoundaryFlag |-> TRUE, entropyCodingSyncEnabledFlag |-> FALSE, quadtreeTULog2MinSize |-> 2,
   quadtreeTULog2MaxSize |-> 5, quadtreeTUMaxDepthInter |-> 3, quadtreeTUMaxDepthIntra |-> 3, maxCUWidth |-> 32,
   maxCUHeight |-> 32, sourceWidth |-> 96, sourceHeight |-> 64, conformanceWindow |-> <<0, 0, 0, 0>>,
   defaultDisplayWindowFlag |-> FALSE, defaultDisplayWindow |-> <<0, 0, 0, 0>>, vuiParametersPresentFlag |-> 0,
   vui |-> NoVui, sliceChromaQpOffsetIntraOrPeriodic |-> <<0, 0>>, sliceChromaQpOffsetPeriodicity |-> 0,
   deblockingFilterMetric |-> 0, loopFilterDisable |-> FALSE, loopFilterOffsetInPPS |-> FALSE,
   loopFilterBetaOffsetDiv2 |-> 0, loopFilterTcOffsetDiv2 |-> 0, intraPeriod |-> 32, GOPList |-> LowDelay,
   isField |-> FALSE, maxTempLayer |-> 1, maxDecPicBuffering |-> <<4>>, numReorderPics |-> <<1>>,
   useScalingListId |-> 0, scalingLists |-> << >>, TMVPModeId |-> 1, useAMP |-> 1, useSAO |-> 1,
   useStrongIntraSmoothing |-> 1, sliceMode |-> 0, sliceSegmentMode |-> 0, RCTargetBitrate |-> 0, RCCpbSize |-> 0,
   RCEnableRateControl |-> FALSE, RCCpbSaturationEnabled |-> FALSE, costMode |-> "lossy", useAdaptiveQP |-> FALSE,
   useConstrainedIntraPred |-> 0, useWeightedPred |-> 0, useWeightedBiPred |-> 0, signHideFlag |-> 1,
   log2ParallelMergeLevel |-> 2, transquantBypassEnableFlag |-> 0, useTransformSkip |-> 1]

Rext(c, format, tools) ==
  [c EXCEPT !.profile = MAINREXT, !.chromaFormatIDC = format, !.rext = tools @@ @]

-----------------------------------------------------------------------------
(* Options.                                                                *)

Structure ==
  {[Default EXCEPT !.GOPList = RandomAccess],
   [Default EXCEPT !.GOPList = RandomAccess, !.maxTempLayer = 3, !.maxDecPicBuffering = <<3, 4, 5>>,
                   !.numReorderPics = <<0, 1, 2>>, !.TMVPModeId = 2],
   [Default EXCEPT !.intraPeriod = 1, !.GOPList = <<Entry(-1, I_SLICE, << >>)>>],
   [Default EXCEPT !.maxCUWidth = 64, !.maxCUHeight = 64, !.maxCUDepth = 4, !.sourceWidth = 72, !.sourceHeight = 120,
                   !.conformanceWindow = <<0, 6, 0, 2>>],
   [Default EXCEPT !.maxCUWidth = 16, !.maxCUHeight = 16, !.maxCUDepth = 1, !.quadtreeTULog2MaxSize = 4],
   [Default EXCEPT !.profile = MAIN10, !.internalBitDepth = <<10, 9>>, !.usePCM = 1, !.log2ParallelMergeLevel = 4],
   [Default EXCEPT !.log2ParallelMergeLevel = 1],
   [Default EXCEPT !.usePCM = 1, !.PCMInputBitDepthFlag = FALSE, !.PCMLog2MaxSize = 4, !.PCMFilterDisableFlag = 1]}

Tiles ==
  {[Default EXCEPT !.tileColumns = 3, !.tileRows = 2, !.tileUniformSpacingFlag = 1, !.LFCrossTileBoundaryFlag = FALSE],
   [Default EXCEPT !.tileColumns = 2, !.tileColumnWidth = <<2>>, !.sliceMode = 1, !.LFCrossSliceBoundaryFlag = FALSE],
   [Default EXCEPT !.entropyCodingSyncEnabledFlag = TRUE, !.sliceSegmentMode = 1]}

Filters ==
  {[Default EXCEPT !.loopFilterDisable = TRUE],
   [Default EXCEPT !.loopFilterOffsetInPPS = TRUE, !.loopFilterBetaOffsetDiv2 = 2, !.loopFilterTcOffsetDiv2 = -3],
   [Default EXCEPT !.loopFilterOffsetInPPS = TRUE, !.loopFilterDisable = TRUE, !.useSAO = 0],
   [Default EXCEPT !.loopFilterOffsetInPPS = TRUE],
   [Default EXCEPT !.loopFilterBetaOffsetDiv2 = -4, !.GOPList = RandomAccess],
   [Default EXCEPT !.deblockingFilterMetric = 1],
   [Default EXCEPT !.deblockingFilterMetric = 2, !.loopFilterBetaOffsetDiv2 = 2, !.loopFilterTcOffsetDiv2 = 2]}

Quantisation ==
  {[Default EXCEPT !.cbQpOffset = 5, !.crQpOffset = -6, !.maxCuDQPDepth = 2, !.sliceChromaQpOffsetIntraOrPeriodic = <<7, -8>>],
   [Default EXCEPT !.sliceChromaQpOffsetIntraOrPeriodic = <<-30, 12>>, !.sliceChromaQpOffsetPeriodicity = 2],
   [Default EXCEPT !.GOPList = RandomAccess, !.maxDeltaQP = 3],
   [Rext(Default, CHROMA_444, [f \in {} |-> 0]) EXCEPT !.diffCuChromaQpOffsetDepth = 2, !.crossComponentPredictionEnabledFlag = 1],
   [Default EXCEPT !.useScalingListId = 1],
   [Default EXCEPT !.useScalingListId = 2,
      !.scalingLists = <<0, 1>> :> <<16, 16, 250, 3>> @@ <<1, 3>> :> <<16, 9, 9, 200>> @@ <<2, 0>> :> <<40, 16, 115, 1>>
                       @@ <<2, 2>> :> <<40, 16, 115, 1>> @@ <<2, 5>> :> <<0, 1, 1, 1>> @@ <<3, 3>> :> <<255, 1, 255, 1>>]}

RangeExtensions ==
  {Rext(Default, CHROMA_444, [rdpcmImplicit |-> 1, cabacBypassAlignmentEnabledFlag |-> 0]),
   Rext([Default EXCEPT !.log2SaoOffsetScale = <<2, 0>>, !.internalBitDepth = <<12, 12>>, !.useTransformSkip = 0],
        CHROMA_422, [highPrecisionOffsetsEnabledFlag |-> 1]),
   Rext([Default EXCEPT !.log2MaxTransformSkipBlockSize = 4, !.sourceWidth = 64], CHROMA_444,
        [transformSkipRotationEnabledFlag |-> 1]),
   Rext([Default EXCEPT !.quadtreeTULog2MinSize = 3, !.maxCUDepth = 2], CHROMA_422, [f \in {} |-> 0]),
   Rext([Default EXCEPT !.usePCM = 1], CHROMA_400, [f \in {} |-> 0]),
   Rext([Default EXCEPT !.bitDepthConstraint = 12, !.chromaFormatConstraint = CHROMA_400], CHROMA_400, [f \in {} |-> 0]),
   [Default EXCEPT !.profile = MAIN10, !.crossComponentPredictionEnabledFlag = 1]}

Usability ==
  [AspectRatioInfoPresentFlag |-> 1, AspectRatioIdc |-> 255, SarWidth |-> 3, SarHeight |-> 4,
   OverscanInfoPresentFlag |-> 1, OverscanAppropriateFlag |-> 1, VideoSignalTypePresentFlag |-> 1, VideoFormat |-> 2,
   VideoFullRangeFlag |-> 1, ColourDescriptionPresentFlag |-> 1, ColourPrimaries |-> 9, TransferCharacteristics |-> 4,
   MatrixCoefficients |-> 0, ChromaLocInfoPresentFlag |-> 1, ChromaSampleLocTypeTopField |-> 2,
   ChromaSampleLocTypeBottomField |-> 3, NeutralChromaIndicationFlag |-> 1, FrameFieldInfoPresentFlag |-> 1,
   BitstreamRestrictionFlag |-> 1, TilesFixedStructureFlag |-> 1, MotionVectorsOverPicBoundariesFlag |-> 0,
   RestrictedRefPicListsFlag |-> 1, MinSpatialSegmentationIdc |-> 100, MaxBytesPerPicDenom |-> 7,
   MaxBitsPerMinCuDenom |-> 3, Log2MaxMvLengthHorizontal |-> 9, Log2MaxMvLengthVertical |-> 11]

WithVui == [Default EXCEPT !.vuiParametersPresentFlag = 1, !.vui = Usability]

WithHrd ==
  [WithVui EXCEPT !.pictureTimingSEIEnabled = TRUE, !.bufferingPeriodSEIEnabled = TRUE, !.RCTargetBitrate = 1000000,
                  !.RCCpbSize = 1500000]

Hrd ==
  {WithVui,
   [WithVui EXCEPT !.vui.AspectRatioInfoPresentFlag = 0, !.vui.VideoSignalTypePresentFlag = 0,
                   !.defaultDisplayWindowFlag = TRUE, !.defaultDisplayWindow = <<2, 4, 6, 8>>],
   [WithVui EXCEPT !.bufferingPeriodSEIEnabled = TRUE],
   [WithVui EXCEPT !.pictureTimingSEIEnabled = TRUE],
   WithHrd,
   [WithHrd EXCEPT !.sliceMode = 1, !.intraPeriod = -1, !.frameRate = 7, !.temporalSubsampleRatio = 2,
                   !.maxTempLayer = 2, !.maxDecPicBuffering = <<3, 4>>, !.numReorderPics = <<0, 1>>]}

-----------------------------------------------------------------------------
(* Pictures.                                                               *)

Statistics(ac, dc, refAc, refDc, keep, weighted, moved) ==
  [cur |-> [c \in 0..2 |-> [ac |-> ac, dc |-> dc]], ref |-> [c \in 0..2 |-> [ac |-> refAc, dc |-> refDc]],
   keep |-> keep, weighted |-> weighted, moved |-> moved]

Plain == Statistics(10, 100, 10, 100, {}, {}, 0)

Picture(kind, poc, entry) ==
  [kind |-> kind, poc |-> poc, lastIDR |-> 0, entry |-> entry, available |-> TRUE, qp |-> 30, sao |-> <<1, 1>>,
   colDir |-> 0, cabacInit |-> 0, stats |-> Plain, address |-> 0, dependent |-> 0, sizes |-> << >>, filter |-> 0]

Idr == Picture("IDR", 0, 1)

PicturesFor(c) ==
  LET entries == Len(c.GOPList)
      last    == entries
  IN  <<Idr, [Picture("TRAIL", 100, 1) EXCEPT !.sao = <<0, 1>>, !.cabacInit = 1],
        [Picture("TRAIL", 200, last) EXCEPT !.qp = 51, !.sao = <<0, 0>>, !.colDir = 1, !.filter = 2],
        [Picture("TRAIL", 198, last) EXCEPT !.filter = 5, !.qp = -6 * (c.internalBitDepth[1] - 8)],
        [Picture("TRAIL", 326, 1) EXCEPT !.filter = -1]>>

Segments(c) ==
  <<Idr, [Idr EXCEPT !.address = 2, !.dependent = IF c.sliceSegmentMode # 0 THEN 1 ELSE 0, !.sizes = <<100, 3, 1>>],
    [Picture("TRAIL", 1, 1) EXCEPT !.address = 5, !.sizes = <<256>>]>>

Weighted(c, ac, dc, refAc, refDc) ==
  [config   |-> [c EXCEPT !.useWeightedPred = 1, !.useWeightedBiPred = 1],
   pictures |-> <<Idr>> \o [i \in 1..6 |-> [Picture("TRAIL", i, 1 + (i % 2)) EXCEPT !.stats =
                   Statistics(ac, dc, refAc, refDc, <<{0}, {1}, {0, 1, 2}, {2}, {}, {0, 2}>>[i],
                              IF i = 3 THEN {0, 1} ELSE {i % 2}, <<0, 7, -9, 0, 0, 10>>[i])]],
   messages |-> << >>]

Run(c) == [config |-> c, pictures |-> PicturesFor(c), messages |-> << >>]

-----------------------------------------------------------------------------
(* Messages.                                                               *)

Message(type, rec) == Fields([PayloadType |-> type] @@ rec)
Suffix(message) == (<<"suffix">> :> 1) @@ message

SimpleMessages ==
  <<Message(USER_DATA_UNREGISTERED, [userDataLength |-> 2]) @@ Array("uuid_iso_iec_11578", <<1, 2, 3>>) @@ Array("userData", <<7, 255>>),
    Suffix(Message(DECODED_PICTURE_HASH, [method |-> 0, hashSize |-> 3]) @@ Array("hash", <<1, 2, 3>>)),
    Suffix(Message(USER_DATA_UNREGISTERED, [userDataLength |-> 250])),
    Suffix(Message(USER_DATA_UNREGISTERED, [userDataLength |-> 239])),
    Message(ACTIVE_PARAMETER_SETS, [activeVPSId |-> 2, selfContainedCvsFlag |-> 1, numSpsIdsMinus1 |-> 1])
      @@ Array("activeSeqParameterSetId", <<3, 5>>),
    Message(RECOVERY_POINT, [recoveryPocCnt |-> -7, exactMatchingFlag |-> 1, brokenLinkFlag |-> 1]),
    Message(FRAME_PACKING, [arrangementId |-> 4, arrangementType |-> 3, frame0GridPositionX |-> 9, upsampledAspectRatio |-> 1]),
    Message(FRAME_PACKING, [arrangementId |-> 4, arrangementType |-> 5, fieldViewsFlag |-> 1]),
    Message(FRAME_PACKING, [arrangementCancelFlag |-> 1]),
    Message(SEGM_RECT_FRAME_PACKING, [contentInterpretationType |-> 2, arrangementPersistenceFlag |-> 1]),
    Message(DISPLAY_ORIENTATION, [horFlip |-> 1, anticlockwiseRotation |-> 1000, persistenceFlag |-> 1]),
    Message(TEMPORAL_LEVEL0_INDEX, [tl0Idx |-> 5, rapIdx |-> 6]),
    Message(REGION_REFRESH_INFO, [gdrForegroundFlag |-> 1]),
    Message(NO_DISPLAY, [noDisplay |-> 1]),
    Message(ALTERNATIVE_TRANSFER_CHARACTERISTICS, [preferredTransferCharacteristics |-> 18])>>

ColourMessages ==
  <<Message(TONE_MAPPING_INFO, [codedDataBitDepth |-> 8, targetBitDepth |-> 1, modelId |-> 2])
      @@ Array("startOfCodedInterval", <<0, 128, 256>>),
    Message(TONE_MAPPING_INFO, [codedDataBitDepth |-> 12, targetBitDepth |-> 8, modelId |-> 3, numPivots |-> 2])
      @@ Array("codedPivotValue", <<1, 4000>>) @@ Array("targetPivotValue", <<2, 250>>),
    Message(TONE_MAPPING_INFO, [modelId |-> 4, cameraIsoSpeedIdc |-> 255, cameraIsoSpeedValue |-> 100, exposureIndexIdc |-> 1]),
    Message(TONE_MAPPING_INFO, [modelId |-> 1, sigmoidMidpoint |-> 9, sigmoidWidth |-> 3]),
    Message(TONE_MAPPING_INFO, [toneMapCancelFlag |-> 1, toneMapId |-> 6]),
    Message(CHROMA_RESAMPLING_FILTER_HINT, [verChromaFilterIdc |-> 1, horChromaFilterIdc |-> 1, targetFormatIdc |-> 2,
                                            numVerticalFilters |-> 2, numHorizontalFilters |-> 1])
      @@ Array("verTapLength", <<1, 2>>) @@ Array("horTapLength", <<1>>)
      @@ (<<"verFilterCoeff", 0, 0>> :> -3) @@ (<<"verFilterCoeff", 1, 1>> :> 4) @@ (<<"horFilterCoeff", 0, 0>> :> 8),
    Message(KNEE_FUNCTION_INFO, [kneeInputDrange |-> 1000, kneeNumKneePointsMinus1 |-> 1])
      @@ Array("kneeInputKneePoint", <<600, 800>>) @@ Array("kneeOutputKneePoint", <<100, 250>>),
    Message(MASTERING_DISPLAY_COLOUR_VOLUME, [maxLuminance |-> 10000, minLuminance |-> 1]) @@ (<<"primaries", 1, 1>> :> 33),
    Message(COLOUR_REMAPPING_INFO, [colourRemapVideoSignalInfoPresentFlag |-> 1, colourRemapPrimaries |-> 9,
                                    colourRemapInputBitDepth |-> 8, colourRemapBitDepth |-> 10,
                                    colourRemapMatrixPresentFlag |-> 1, log2MatrixDenom |-> 3])
      @@ (<<"preLutNumValMinus1", 0>> :> 1) @@ (<<"preLut", 0, 1, 0>> :> 255) @@ (<<"preLut", 0, 1, 1>> :> 1023)
      @@ (<<"colourRemapCoeffs", 1, 1>> :> -9),
    Message(COLOUR_REMAPPING_INFO, [colourRemapCancelFlag |-> 1, colourRemapId |-> 3])>>

StructureMessages ==
  <<Message(SOP_DESCRIPTION, [numPicsInSopMinus1 |-> 1]) @@ Array("sopDescVclNaluType", <<IDR_W_RADL, TRAIL_R>>)
      @@ Array("sopDescTemporalId", <<0, 2>>) @@ Array("sopDescStRpsIdx", <<0, 3>>) @@ Array("sopDescPocDelta", <<0, -4>>),
    Message(TEMP_MOTION_CONSTRAINED_TILE_SETS, [limited_tile_set_display_flag |-> 1, numberOfTileSets |-> 2])
      @@ Array("mcts_id", <<0, 9>>) @@ Array("display_tile_set_flag", <<1, 0>>) @@ Array("numberOfTileRects", <<1, 2>>)
      @@ (<<"topLeftTileIndex", 1, 0>> :> 3) @@ (<<"bottomRightTileIndex", 1, 1>> :> 5)
      @@ Array("mcts_tier_level_idc_present_flag", <<1, 0>>) @@ Array("mcts_level_idc", <<90>>),
    Message(TEMP_MOTION_CONSTRAINED_TILE_SETS, [each_tile_one_tile_set_flag |-> 1, max_mcs_tier_level_idc_present_flag |-> 1,
                                                max_mcts_level_idc |-> 60]),
    Message(TIME_CODE, [numClockTs |-> 3]) @@ Array("clockTimeStampFlag", <<1, 1, 0>>)
      @@ Array("fullTimeStampFlag", <<1, 0, 0>>) @@ Array("secondsValue", <<30, 20, 0>>) @@ Array("minutesValue", <<5, 10, 0>>)
      @@ Array("hoursValue", <<23, 0, 0>>) @@ Array("secondsFlag", <<0, 1, 0>>) @@ Array("minutesFlag", <<0, 1, 0>>)
      @@ Array("timeOffsetLength", <<6, 5, 0>>) @@ Array("timeOffsetValue", <<-17, 9, 0>>) @@ Array("numberOfFrames", <<300, 1, 0>>),
    Message(SCALABLE_NESTING, [bitStreamSubsetFlag |-> 1, nestingOpFlag |-> 1, defaultOpFlag |-> 1, nestingNumOpsMinus1 |-> 1,
                               NestedType |-> RECOVERY_POINT, recoveryPocCnt |-> 3])
      @@ (<<"nestingOpIdx", 1>> :> 4),
    Message(SCALABLE_NESTING, [allLayersFlag |-> 0, nestingNoOpMaxTemporalIdPlus1 |-> 2, NestedType |-> DISPLAY_ORIENTATION,
                               cancelFlag |-> 1]) @@ Array("nestingLayerId", <<5>>)>>

HrdMessages ==
  <<Message(BUFFERING_PERIOD, [concatenationFlag |-> 1, auCpbRemovalDelayDelta |-> 1, rapCpbParamsPresentFlag |-> 0])
      @@ (<<"initialCpbRemovalDelay", 0, 0>> :> 45000) @@ (<<"initialCpbRemovalDelayOffset", 0, 1>> :> 45000),
    Message(PICTURE_TIMING, [picStruct |-> 1, sourceScanType |-> 1, auCpbRemovalDelay |-> 12, picDpbOutputDelay |-> 3])>>

SubPictureMessages ==
  <<HrdMessages[1],
    Message(PICTURE_TIMING, [picStruct |-> 1, sourceScanType |-> 1, auCpbRemovalDelay |-> 12, picDpbOutputDelay |-> 3,
                             picDpbOutputDuDelay |-> 9, numDecodingUnitsMinus1 |-> 1])
      @@ Array("numNalusInDuMinus1", <<2, 3>>) @@ Array("duCpbRemovalDelayMinus1", <<6>>),
    Message(DECODING_UNIT_INFO, [decodingUnitIdx |-> 2, duSptCpbRemovalDelay |-> 9])>>

WithMessages(c, messages) == [config |-> c, pictures |-> <<Idr>>, messages |-> messages]

AllSetups ==
  {Run(c) : c \in {Default} \cup Structure \cup Filters \cup Quantisation \cup RangeExtensions \cup Hrd}
  \cup {[Run(c) EXCEPT !.pictures = Segments(c)] : c \in Tiles}
  \cup {Weighted(Default, 1000, 120, ac, dc) : ac \in {0, 200, 5000}, dc \in {0, 250}}
  \cup {Weighted([GOPList |-> RandomAccess] @@ Rext(Default, format, [f \in {} |-> 0]), 300, 120, 77, 200) : format \in {0, 2, 3}}
  \cup {WithMessages(Default, m) : m \in {SimpleMessages, ColourMessages, StructureMessages}}
  \cup {WithMessages(c, IF c.sliceMode = 0 THEN HrdMessages ELSE SubPictureMessages) : c \in {h \in Hrd : h.RCTargetBitrate > 0}}

MCSetups == AllSetups

(* A picture that fades in: its samples differ 50 times as much as those of *)
(* its reference.                                                           *)
MCFades == {Weighted(Default, 1000, 120, 20, 120)}

(* A second random access point.                                           *)
MCRefreshes ==
  {[config |-> [Default EXCEPT !.decodingRefreshType = 1], pictures |-> <<Idr, Picture("CRA", 32, 1)>>, messages |-> << >>]}
=============================================================================
