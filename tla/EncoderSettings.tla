--------------------------- MODULE EncoderSettings ---------------------------
(***************************************************************************)
(* From the options of the encoder to its parameter sets.                  *)
(*                                                                         *)
(* A configuration is a record c whose fields carry the names of the       *)
(* options' members in TAppEncCfg.  xCheckParameter says which             *)
(* configurations the program goes on with; xInitVPS, xInitSPS and         *)
(* xInitPPS are what TEncTop makes of them, as objects of the syntax.      *)
(***************************************************************************)
EXTENDS ParameterSetSyntax

Larger(a, b)  == IF a >= b THEN a ELSE b
Smaller(a, b) == IF a <= b THEN a ELSE b

NUM_CHROMA_FORMAT == 4   \* no format given
MAINSTILLPICTURE == 3
MaxTLayer == 7

NO_SLICES == 0

CostLossless == {"sequence_level_lossless", "lossless"}

-----------------------------------------------------------------------------
(* Profile and constraints.                                                *)

maxBitDepth(c) ==
  IF c.chromaFormatIDC = CHROMA_400 THEN c.internalBitDepth[1] ELSE Larger(c.internalBitDepth[1], c.internalBitDepth[2])

UsingGeneralRExtTools(c) ==
  \/ \E name \in {"transformSkipRotationEnabledFlag", "transformSkipContextEnabledFlag", "rdpcmImplicit",
                  "rdpcmExplicit", "intraSmoothingDisabledFlag", "persistentRiceAdaptationEnabledFlag"} : c.rext[name] = 1
  \/ c.log2MaxTransformSkipBlockSize # 2

UsingChromaQPAdjustment(c) == c.diffCuChromaQpOffsetDepth >= 0
UsingExtendedPrecision(c)  == c.rext.extendedPrecisionProcessingFlag = 1

trialBitDepthConstraint(depth) ==
  IF depth > 12 THEN 16 ELSE IF depth < 8 THEN 8 ELSE IF depth \in {9, 11} THEN depth + 1 ELSE depth

Constraint(bitDepth, format) == [bitDepth |-> bitDepth, format |-> format]

(* The smallest profile of the range extensions that has the tools.        *)
automaticallySelectRExtProfile(c) ==
  LET trial  == trialBitDepthConstraint(maxBitDepth(c))
      intra  == c.intraConstraintFlag = 1
      gray   == c.chromaFormatIDC = CHROMA_400
      format == IF UsingChromaQPAdjustment(c) /\ c.chromaFormatIDC = CHROMA_420 THEN CHROMA_422 ELSE c.chromaFormatIDC
  IN  CASE UsingExtendedPrecision(c) \/ trial = 16 ->
             Constraint(16, IF ~intra /\ gray THEN CHROMA_400 ELSE CHROMA_444)
        [] UsingGeneralRExtTools(c) ->
             IF gray /\ ~intra THEN Constraint(16, CHROMA_400) ELSE Constraint(trial, CHROMA_444)
        [] gray ->
             IF intra THEN Constraint(trial, CHROMA_420) ELSE Constraint(IF trial = 8 THEN 8 ELSE 12, CHROMA_400)
        [] OTHER ->
             Constraint(IF format = CHROMA_422 /\ trial = 8 THEN 10
                        ELSE IF format = CHROMA_420 /\ ~intra THEN 12 ELSE trial, format)

(* What the options leave open; NUM_CHROMA_FORMAT and 0 where they must not. *)
Constraints(c) ==
  LET given    == c.chromaFormatConstraint # NUM_CHROMA_FORMAT
      format   == IF given THEN c.chromaFormatConstraint ELSE CHROMA_444
      bitDepth == IF c.bitDepthConstraint = 0 THEN 16 ELSE c.bitDepthConstraint
  IN  CASE c.profile = HIGHTHROUGHPUTREXT -> Constraint(bitDepth, format)
        [] c.profile = MAINREXT ->
             IF given \/ c.bitDepthConstraint # 0 THEN Constraint(c.bitDepthConstraint, c.chromaFormatConstraint)
             ELSE IF c.onePictureOnlyConstraintFlag = 1 THEN Constraint(IF maxBitDepth(c) > 8 THEN 16 ELSE 8, CHROMA_444)
             ELSE automaticallySelectRExtProfile(c)
        [] OTHER -> Constraint(IF c.profile = MAIN10 THEN 10 ELSE 8, IF given THEN format ELSE c.chromaFormatIDC)

(* The bit depths of a profile, by intra flag and chroma format.           *)
validRExtProfileNames ==
  <<[bitDepths |-> <<{8, 12, 16}, {12}, {10, 12}, {8, 10, 12, 16}>>],
    [bitDepths |-> <<{}, {8, 10, 12}, {10, 12}, {8, 10, 12, 16}>>]>>

xCheckRExtProfile(c) ==
  LET k == Constraints(c)
  IN  /\ c.lowerBitRateConstraintFlag = 1 \/ c.intraConstraintFlag = 1
      /\ c.rext.cabacBypassAlignmentEnabledFlag = 1 => c.profile = HIGHTHROUGHPUTREXT
      /\ IF c.profile = HIGHTHROUGHPUTREXT
         THEN k.format = CHROMA_444 /\ k.bitDepth = 16 /\ c.intraConstraintFlag = 1
         ELSE /\ k.format < NUM_CHROMA_FORMAT
              /\ k.bitDepth \in validRExtProfileNames[c.intraConstraintFlag + 1].bitDepths[k.format + 1]
              /\ UsingChromaQPAdjustment(c) => k.format \notin {CHROMA_420, CHROMA_400}
              /\ UsingExtendedPrecision(c) => k.bitDepth = 16
              /\ UsingGeneralRExtTools(c) => k.format = CHROMA_444 \/ (k.format = CHROMA_400 /\ k.bitDepth = 16)
              /\ c.onePictureOnlyConstraintFlag = 1 =>
                   k.format = CHROMA_444 /\ k.bitDepth \in {8, 16} /\ c.framesToBeEncoded <= 1
                   /\ c.intraConstraintFlag = 1

xCheckVersion1Profile(c) ==
  LET k == Constraints(c)
  IN  /\ k.format = CHROMA_420
      /\ c.intraConstraintFlag = 0
      /\ c.lowerBitRateConstraintFlag = 1
      /\ c.profile = MAINSTILLPICTURE => c.framesToBeEncoded <= 1
      /\ c.crossComponentPredictionEnabledFlag = 0
      /\ c.log2MaxTransformSkipBlockSize = 2
      /\ \A name \in DOMAIN c.rext : c.rext[name] = 0

xCheckProfile(c) ==
  /\ Constraints(c).bitDepth >= maxBitDepth(c)
  /\ Constraints(c).format >= c.chromaFormatIDC
  /\ IF c.profile \in {MAINREXT, HIGHTHROUGHPUTREXT} THEN xCheckRExtProfile(c) ELSE xCheckVersion1Profile(c)

-----------------------------------------------------------------------------
(* Ranges.                                                                 *)

xCheckTools(c) ==
  /\ \A ch \in {1, 2} :
       /\ c.inputBitDepth[ch] >= 8
       /\ c.internalBitDepth[ch] <= IF UsingExtendedPrecision(c) THEN 8 ELSE 12
       /\ c.MSBExtendedBitDepth[ch] >= c.inputBitDepth[ch]
       /\ c.log2SaoOffsetScale[ch] <= Larger(0, c.internalBitDepth[ch] - 10)
       /\ c.usePCM = 1 /\ c.PCMInputBitDepthFlag => c.MSBExtendedBitDepth[ch] <= c.internalBitDepth[ch]
  /\ c.frameRate > 0 /\ c.temporalSubsampleRatio >= 1 /\ c.framesToBeEncoded > 0
  /\ c.decodingRefreshType \in 0..3
  /\ c.decodingRefreshType = 3 => c.recoveryPointSEIEnabled
  /\ c.log2MaxTransformSkipBlockSize >= 2
  /\ c.QP \in (-6 * (c.internalBitDepth[1] - 8))..51
  /\ c.maxDeltaQP <= 7 /\ c.maxCuDQPDepth <= c.maxCUDepth - 1
  /\ c.cbQpOffset \in -12..12 /\ c.crQpOffset \in -12..12
  /\ c.maxNumMergeCand \in 1..5
  /\ c.usePCM = 1 => c.PCMLog2MinSize \in 3..5 /\ c.PCMLog2MaxSize \in c.PCMLog2MinSize..5
  /\ c.tileColumns > 1 \/ c.tileRows > 1 => ~c.entropyCodingSyncEnabledFlag \/ c.profile = HIGHTHROUGHPUTREXT

Power(size) == \E k \in 0..31 : size = 2^k

xCheckBlockSizes(c) ==
  LET minTU == 2^c.quadtreeTULog2MinSize
      minCU(size) == size \div 2^(c.maxCUDepth - 1)
  IN  /\ c.maxCUDepth >= 1
      /\ \A size \in {c.maxCUWidth, c.maxCUHeight} :
           size >= 16 /\ Power(size) /\ size \div 2^c.maxCUDepth >= 4 /\ minTU < minCU(size)
      /\ c.sourceWidth % minCU(c.maxCUWidth) = 0 /\ c.sourceHeight % minCU(c.maxCUHeight) = 0
      /\ c.quadtreeTULog2MinSize >= 2 /\ c.quadtreeTULog2MaxSize \in c.quadtreeTULog2MinSize..5
      /\ 2^c.quadtreeTULog2MaxSize <= c.maxCUWidth
      /\ \A depth \in {c.quadtreeTUMaxDepthInter, c.quadtreeTUMaxDepthIntra} :
           depth >= 1 /\ c.maxCUWidth >= 2^(c.quadtreeTULog2MinSize + depth - 1)

WindowFits(c, window) ==
  \A i \in 1..4 : window[i] % (IF i <= 2 THEN WinUnitX(c.chromaFormatIDC) ELSE WinUnitY(c.chromaFormatIDC)) = 0

xCheckWindows(c) ==
  /\ c.sourceWidth % WinUnitX(c.chromaFormatIDC) = 0 /\ c.sourceHeight % WinUnitY(c.chromaFormatIDC) = 0
  /\ WindowFits(c, c.conformanceWindow)
  /\ c.defaultDisplayWindowFlag => c.vuiParametersPresentFlag = 1 /\ WindowFits(c, c.defaultDisplayWindow)

(* A picture's chroma offsets are coded on top of those of the PPS.  For    *)
(* the intra or periodic offsets the program compares before it takes the   *)
(* absolute value, so only the upper limit is checked.                      *)
xCheckChromaQp(c) ==
  LET pps == <<c.cbQpOffset, c.crQpOffset>>
  IN  \A i \in {1, 2} :
        /\ \A n \in DOMAIN c.GOPList : LET q == c.GOPList[n].chromaQpOffset[i] IN {q, q + pps[i]} \subseteq -12..12
        /\ c.sliceChromaQpOffsetIntraOrPeriodic[i] <= 12
        /\ c.sliceChromaQpOffsetIntraOrPeriodic[i] + pps[i] <= 12

xCheckLoopFilter(c) ==
  /\ c.deblockingFilterMetric # 0 => ~c.loopFilterDisable /\ ~c.loopFilterOffsetInPPS
  /\ c.loopFilterBetaOffsetDiv2 \in -6..6 /\ c.loopFilterTcOffsetDiv2 \in -6..6
  /\ c.intraPeriod # 1 /\ ~c.loopFilterOffsetInPPS /\ ~c.loopFilterDisable =>
       \A n \in DOMAIN c.GOPList :
         /\ c.GOPList[n].betaOffsetDiv2 + c.loopFilterBetaOffsetDiv2 \in -6..6
         /\ c.GOPList[n].tcOffsetDiv2 + c.loopFilterTcOffsetDiv2 \in -6..6

(* An intra-only sequence needs no list of pictures.                        *)
IntraOnly(c) == c.intraPeriod = 1 /\ c.GOPList[1].POC = -1

\* Mutant: any level is accepted.
xCheckMergeLevel_Any(c) == c.log2ParallelMergeLevel >= 0

xCheckMergeLevel(c) == c.log2ParallelMergeLevel >= 2

(* The list of pictures is checked in the module of the encoder's GOPs.    *)
xCheckParameter(c) ==
  /\ xCheckProfile(c)
  /\ xCheckTools(c)
  /\ xCheckBlockSizes(c)
  /\ xCheckWindows(c)
  /\ xCheckLoopFilter(c)
  /\ xCheckChromaQp(c)
  /\ xCheckMergeLevel(c)
  /\ c.intraPeriod # 0
  /\ IntraOnly(c) \/ c.intraConstraintFlag = 0

(* What the encoder is set up with that the options do not say themselves. *)
xInitLibCfg(c) ==
  [PCMBitDepth |-> IF c.PCMInputBitDepthFlag THEN c.MSBExtendedBitDepth ELSE c.internalBitDepth,
   LFCrossSliceBoundary |-> Bool(c.sliceMode = NO_SLICES \/ c.LFCrossSliceBoundaryFlag),
   LFCrossTileBoundary  |-> Bool((c.tileColumns = 1 /\ c.tileRows = 1) \/ c.LFCrossTileBoundaryFlag)]

-----------------------------------------------------------------------------
(* The hypothetical reference decoder.                                     *)

(* The number of trailing zeros; no bit is set in 0, so the mask runs out.  *)
calcScale(x) == IF x = 0 THEN 32 ELSE CHOOSE k \in 0..30 : x % 2^k = 0 /\ x % 2^(k + 1) # 0

(* Number of units in a tick and time scale.                               *)
Timing(frameRate) ==
  CASE frameRate = 24 -> <<1125000, 27000000>>
    [] frameRate = 25 -> <<1080000, 27000000>>
    [] frameRate = 30 -> <<900900, 27000000>>
    [] frameRate = 50 -> <<540000, 27000000>>
    [] frameRate = 60 -> <<450450, 27000000>>
    [] OTHER          -> <<1001, 60000>>

HrdNeeded(c) == c.pictureTimingSEIEnabled \/ c.decodingUnitInfoSEIEnabled \/ c.RCCpbSaturationEnabled

(* 0 less one is the largest number of 32 bits, which no element can hold,  *)
(* as it cannot hold -1 here.                                               *)
MinusOne(v) == v - 1

CpbValues(c, bitRateScale, cpbSizeScale) ==
  LET bitrateValue == IF bitRateScale > 24 THEN 0 ELSE c.RCTargetBitrate \div 2^(6 + bitRateScale)
      cpbSizeValue == IF cpbSizeScale > 24 THEN 0 ELSE c.RCCpbSize \div 2^(4 + cpbSizeScale)
  IN  [BitRateValueMinus1   |-> MinusOne(bitrateValue), CpbSizeValueMinus1   |-> MinusOne(cpbSizeValue),
       DuCpbSizeValueMinus1 |-> MinusOne(bitrateValue), DuBitRateValueMinus1 |-> MinusOne(cpbSizeValue), CbrFlag |-> 0]

xInitHrdParameters(c) ==
  LET present   == Bool(c.RCTargetBitrate > 0)
      subPic    == c.sliceMode # NO_SLICES \/ c.sliceSegmentMode # NO_SLICES
      bitRate   == Larger(0, calcScale(c.RCTargetBitrate) - 6)
      cpbSize   == Larger(0, calcScale(c.RCCpbSize) - 4)
      delay     == IF c.intraPeriod > 0 THEN 5 ELSE 9
      values    == CpbValues(c, bitRate, cpbSize)
      timing    == Timing(c.frameRate)
  IN  IF c.vuiParametersPresentFlag = 0 /\ ~c.RCCpbSaturationEnabled THEN << >>
      ELSE Fields([TimingInfoPresentFlag |-> 1, TimeScale |-> timing[2],
                   NumUnitsInTick |-> timing[1] * c.temporalSubsampleRatio,
                   NalHrdParametersPresentFlag |-> present, VclHrdParametersPresentFlag |-> present,
                   SubPicCpbParamsPresentFlag |-> Bool(subPic), SubPicCpbParamsInPicTimingSEIFlag |-> Bool(subPic),
                   TickDivisorMinus2 |-> 98 * Bool(subPic), DuCpbRemovalDelayLengthMinus1 |-> 7 * Bool(subPic),
                   DpbOutputDelayDuLengthMinus1 |-> 12 * Bool(subPic),
                   BitRateScale |-> bitRate, CpbSizeScale |-> cpbSize, DuCpbSizeScale |-> 6,
                   InitialCpbRemovalDelayLengthMinus1 |-> 15,
                   CpbRemovalDelayLengthMinus1 |-> delay, DpbOutputDelayLengthMinus1 |-> delay])
           @@ [key \in {"FixedPicRateFlag", "PicDurationInTcMinus1", "LowDelayHrdFlag", "CpbCntMinus1"} \X (0..MaxTLayer - 1) |->
                 Bool(key[1] = "FixedPicRateFlag")]
           @@ [key \in (DOMAIN values) \X (0..MaxTLayer - 1) \X {0} \X {0, 1} |-> values[key[1]]]

-----------------------------------------------------------------------------
(* Scaling lists.  c.scalingLists gives the lists of the file that are not  *)
(* the default ones: <<size, list>> to the coefficients, the DC first.      *)

SCALING_LIST_OFF == 0
SCALING_LIST_DEFAULT == 1
SCALING_LIST_FILE_READ == 2

AllLists == (0..SCALING_LIST_32x32) \X (0..SCALING_LIST_NUM - 1)

(* The 32x32 chroma lists are those of the size below.                      *)
InFile(list) == IF list[2] % Step(list[1]) = 0 THEN list ELSE <<list[1] - 1, list[2]>>

(* A list with a DC of 0, or a first coefficient of 0 if it has no DC, is   *)
(* replaced by the default one.                                             *)
OfFile(c, list) ==
  /\ c.useScalingListId = SCALING_LIST_FILE_READ
  /\ InFile(list) \in DOMAIN c.scalingLists
  /\ c.scalingLists[InFile(list)][IF list[1] >= SCALING_LIST_16x16 THEN 1 ELSE 2] # 0

ListCoef(c, list, i) ==
  IF OfFile(c, list) THEN c.scalingLists[InFile(list)][i + 2] ELSE DefaultCoef(list[1], list[2], i)

ListDC(c, list) == IF OfFile(c, list) THEN c.scalingLists[InFile(list)][1] ELSE 16

ScalingLists(c) ==
  [key \in {"Coef"} \X (0..SCALING_LIST_32x32) \X (0..SCALING_LIST_NUM - 1) \X (0..CoefNum - 1) |->
     ListCoef(c, <<key[2], key[3]>>, key[4])]
  @@ [key \in {"DC"} \X (0..SCALING_LIST_32x32) \X (0..SCALING_LIST_NUM - 1) |-> ListDC(c, <<key[2], key[3]>>)]

(* Whether a list of the file differs from the default one.                *)
checkDefaultScalingList(lists) ==
  \E list \in AllLists :
    \/ \E i \in 0..CoefNum - 1 : lists $$ <<"Coef", list[1], list[2], i>> # DefaultCoef(list[1], list[2], i)
    \/ list[1] >= SCALING_LIST_16x16 /\ lists $$ <<"DC", list[1], list[2]>> # 16

(* A list is copied from the nearest that is the same; the search begins    *)
(* with the list itself, which stands for the default one.                  *)
RefMatrix(lists, list) ==
  LET same == checkPredMode(lists, list[1], list[2])
  IN  IF same = {} THEN [mode |-> 1, ref |-> list[2]]
      ELSE [mode |-> 0, ref |-> CHOOSE r \in same : \A q \in same : q <= r]

xInitScalingLists(c) ==
  LET lists == ScalingLists(c)
      own(name, f(_)) == [key \in {name} \X (0..SCALING_LIST_32x32) \X (0..SCALING_LIST_NUM - 1) |->
                            f(RefMatrix(lists, <<key[2], key[3]>>))]
  IN  IF c.useScalingListId = SCALING_LIST_OFF THEN << >>
      ELSE lists
           @@ own("PredMode", LAMBDA r : r.mode) @@ own("RefMatrixId", LAMBDA r : r.ref)
           @@ (<<"ScalingListPresentFlag">> :>
                 Bool(c.useScalingListId = SCALING_LIST_FILE_READ /\ checkDefaultScalingList(lists)))

-----------------------------------------------------------------------------
(* Parameter sets.                                                         *)

(* An array of rec's fields at index i.                                    *)
At(i, rec) == [key \in (DOMAIN rec) \X {i} |-> rec[key[1]]]
PerChannel(name, pair) == Array(name, pair)

Layers(c) ==
  Array("MaxDecPicBuffering", c.maxDecPicBuffering) @@ Array("NumReorderPics", c.numReorderPics)
  @@ Fields([MaxTLayers |-> c.maxTempLayer])

xInitProfileTierLevel(c) ==
  LET k == Constraints(c)
      compatible == {c.profile}
        \cup (IF c.profile = MAIN10 /\ c.internalBitDepth = <<8, 8>> THEN {MAIN} ELSE {})
        \cup (IF c.profile = MAIN THEN {MAIN10} ELSE {})
  IN  At(General, [ProfileIdc |-> c.profile, LevelIdc |-> c.level, TierFlag |-> c.levelTier,
                   ProgressiveSourceFlag |-> c.sourceFlags[1], InterlacedSourceFlag |-> c.sourceFlags[2],
                   NonPackedConstraintFlag |-> c.sourceFlags[3], FrameOnlyConstraintFlag |-> c.sourceFlags[4],
                   BitDepthConstraint |-> k.bitDepth, ChromaFormatConstraint |-> k.format,
                   IntraConstraintFlag |-> c.intraConstraintFlag,
                   OnePictureOnlyConstraintFlag |-> c.onePictureOnlyConstraintFlag,
                   LowerBitRateConstraintFlag |-> c.lowerBitRateConstraintFlag])
      @@ [key \in {"ProfileCompatibilityFlag"} \X {General} \X compatible |-> 1]

xInitVPS(c) ==
  xInitProfileTierLevel(c) @@ Layers(c)
  @@ Fields([TemporalNestingFlag |-> Bool(c.maxTempLayer = 1), MaxOpSets |-> 1, TimingInfoPresentFlag |-> 0,
             NumHrdParameters |-> 0])

Log2(n) == CHOOSE k \in 0..31 : n \in 2^k..2^(k + 1) - 1

(* The parts of a coding tree unit go down to the smallest transform, and   *)
(* one further when a 4:2:2 chroma block is two squares.                    *)
MaxTotalCUDepth(c) ==
  LET partition == c.maxCUWidth \div 2^c.maxCUDepth
      add       == Larger(0, Log2(partition) - c.quadtreeTULog2MinSize)
  IN  c.maxCUDepth + add + Bool(c.chromaFormatIDC = CHROMA_422 /\ c.quadtreeTULog2MinSize > 2)

BlockSizes(c) ==
  LET diff == c.maxCUDepth - 1
  IN  Fields([MaxCUWidth |-> c.maxCUWidth, MaxCUHeight |-> c.maxCUHeight, MaxTotalCUDepth |-> MaxTotalCUDepth(c),
              Log2DiffMaxMinCodingBlockSize |-> diff, Log2MinCodingBlockSize |-> Log2(c.maxCUWidth \div 2^diff),
              QuadtreeTULog2MaxSize |-> c.quadtreeTULog2MaxSize, QuadtreeTULog2MinSize |-> c.quadtreeTULog2MinSize,
              QuadtreeTUMaxDepthInter |-> c.quadtreeTUMaxDepthInter,
              QuadtreeTUMaxDepthIntra |-> c.quadtreeTUMaxDepthIntra, MaxTrSize |-> 2^c.quadtreeTULog2MaxSize])

(* The usability information, c.vui with the fields the options name.      *)
xInitVUI(c) ==
  IF c.vuiParametersPresentFlag = 0 THEN << >>
  ELSE Fields(c.vui) @@ Array("DefaultDisplayWindow", c.defaultDisplayWindow)
       @@ Fields([DefaultDisplayWindowEnabled |-> Bool(c.defaultDisplayWindowFlag), FieldSeqFlag |-> 0])

HrdInSPS(c) == c.bufferingPeriodSEIEnabled \/ c.pictureTimingSEIEnabled \/ c.decodingUnitInfoSEIEnabled

SpsRangeExtension(c) ==
  Fields([TransformSkipRotationEnabledFlag |-> c.rext.transformSkipRotationEnabledFlag,
          TransformSkipContextEnabledFlag |-> c.rext.transformSkipContextEnabledFlag,
          RdpcmImplicitEnabledFlag |-> c.rext.rdpcmImplicit, RdpcmExplicitEnabledFlag |-> c.rext.rdpcmExplicit,
          ExtendedPrecisionProcessingFlag |-> c.rext.extendedPrecisionProcessingFlag,
          IntraSmoothingDisabledFlag |-> c.rext.intraSmoothingDisabledFlag,
          HighPrecisionOffsetsEnabledFlag |-> c.rext.highPrecisionOffsetsEnabledFlag,
          PersistentRiceAdaptationEnabledFlag |-> c.rext.persistentRiceAdaptationEnabledFlag,
          CabacBypassAlignmentEnabledFlag |-> c.rext.cabacBypassAlignmentEnabledFlag])

ToolsOfSPS(c) ==
  Fields([TMVPFlagsPresent |-> Bool(c.TMVPModeId \in {1, 2}), UseAMP |-> c.useAMP, UseSAO |-> c.useSAO,
          UsePCM |-> c.usePCM, PCMLog2MinSize |-> c.PCMLog2MinSize, PCMLog2MaxSize |-> c.PCMLog2MaxSize,
          PCMFilterDisableFlag |-> c.PCMFilterDisableFlag, UseStrongIntraSmoothing |-> c.useStrongIntraSmoothing,
          VuiParametersPresentFlag |-> c.vuiParametersPresentFlag, NumLongTermRefPicSPS |-> 0,
          ScalingListFlag |-> Bool(c.useScalingListId # SCALING_LIST_OFF)])

(* The initial number of bits of the picture order count is that of the     *)
(* constructor.                                                             *)
xInitSPS(c) ==
  xInitScalingLists(c) @@ xInitProfileTierLevel(c) @@ Layers(c) @@ BlockSizes(c) @@ ToolsOfSPS(c)
  @@ SpsRangeExtension(c)
  @@ Fields([PicWidthInLumaSamples |-> c.sourceWidth, PicHeightInLumaSamples |-> c.sourceHeight,
             ConformanceWindowEnabled |-> Bool(\E i \in 1..4 : c.conformanceWindow[i] # 0),
             ChromaFormatIdc |-> c.chromaFormatIDC, BitsForPOC |-> 8,
             TemporalIdNestingFlag |-> Bool(c.maxTempLayer = 1)])
  @@ Array("ConformanceWindow", c.conformanceWindow)
  @@ PerChannel("BitDepth", c.internalBitDepth) @@ PerChannel("PCMBitDepth", xInitLibCfg(c).PCMBitDepth)
  @@ PerChannel("QpBDOffset", [ch \in {1, 2} |-> 6 * (c.internalBitDepth[ch] - 8)])
  @@ (IF HrdInSPS(c) THEN <<"HrdParametersPresentFlag">> :> 1 ELSE << >>)
  @@ (IF HrdNeeded(c) THEN xInitHrdParameters(c) ELSE << >>)
  @@ xInitVUI(c)

UseDQP(c) ==
  \/ c.RCEnableRateControl
  \/ c.costMode \notin CostLossless /\ (c.maxCuDQPDepth > 0 \/ c.maxDeltaQP # 0 \/ c.useAdaptiveQP)

ChromaQpOfSlices(c) ==
  \/ \E i \in {1, 2} : c.sliceChromaQpOffsetIntraOrPeriodic[i] # 0
  \/ \E n \in DOMAIN c.GOPList : c.GOPList[n].chromaQpOffset # <<0, 0>>

(* A list for the parts' chroma offsets has one entry.                     *)
PpsRangeExtension(c) ==
  LET chroma == UsingChromaQPAdjustment(c)
  IN  Fields([DiffCuChromaQpOffsetDepth |-> IF chroma THEN c.diffCuChromaQpOffsetDepth ELSE 0,
              ChromaQpOffsetListLen |-> Bool(chroma),
              CrossComponentPredictionEnabledFlag |->
                Bool(c.crossComponentPredictionEnabledFlag = 1 /\ c.chromaFormatIDC = CHROMA_444),
              Log2MaxTransformSkipBlockSize |-> c.log2MaxTransformSkipBlockSize])
      @@ (IF chroma THEN At(1, [CbOffset |-> 6, CrOffset |-> 6]) ELSE << >>)
      @@ PerChannel("Log2SaoOffsetScale", c.log2SaoOffsetScale)

DeblockingFilterOfPPS(c) ==
  LET metric   == c.deblockingFilterMetric # 0
      override == metric \/ ~c.loopFilterOffsetInPPS
      disable  == ~metric /\ c.loopFilterDisable
      beta     == IF disable THEN 0 ELSE c.loopFilterBetaOffsetDiv2
      tc       == IF disable THEN 0 ELSE c.loopFilterTcOffsetDiv2
  IN  Fields([DeblockingFilterOverrideEnabledFlag |-> Bool(override), PicDisableDeblockingFilterFlag |-> Bool(disable),
              DeblockingFilterBetaOffsetDiv2 |-> beta, DeblockingFilterTcOffsetDiv2 |-> tc,
              DeblockingFilterControlPresentFlag |-> Bool(override \/ disable \/ beta # 0 \/ tc # 0)])

(* The most frequent number of references, the smallest of those.          *)
NumRefIdxDefault(c) ==
  LET Often(n) == Cardinality({i \in DOMAIN c.GOPList : c.GOPList[i].numRefPicsActive = n})
  IN  CHOOSE n \in 0..16 : \A k \in 0..16 : Often(k) < Often(n) \/ (Often(k) = Often(n) /\ k >= n)

xInitPPSforTiles(c) ==
  Fields([TilesEnabledFlag |-> Bool(c.tileColumns > 1 \/ c.tileRows > 1), NumTileColumnsMinus1 |-> c.tileColumns - 1,
          NumTileRowsMinus1 |-> c.tileRows - 1, TileUniformSpacingFlag |-> c.tileUniformSpacingFlag,
          LoopFilterAcrossTilesEnabledFlag |-> xInitLibCfg(c).LFCrossTileBoundary])
  @@ (IF c.tileUniformSpacingFlag = 1 THEN << >>
      ELSE Array("TileColumnWidth", c.tileColumnWidth) @@ Array("TileRowHeight", c.tileRowHeight))

xInitPPS(c) ==
  Fields([ConstrainedIntraPred |-> c.useConstrainedIntraPred, UseDQP |-> Bool(UseDQP(c)),
          MaxCuDQPDepth |-> IF UseDQP(c) /\ ~c.RCEnableRateControl THEN c.maxCuDQPDepth ELSE 0,
          QpOffsetCb |-> c.cbQpOffset, QpOffsetCr |-> c.crQpOffset, SliceChromaQpFlag |-> Bool(ChromaQpOfSlices(c)),
          EntropyCodingSyncEnabledFlag |-> Bool(c.entropyCodingSyncEnabledFlag), UseWP |-> c.useWeightedPred,
          WPBiPred |-> c.useWeightedBiPred, OutputFlagPresentFlag |-> 0, SignHideFlag |-> c.signHideFlag,
          Log2ParallelMergeLevelMinus2 |-> c.log2ParallelMergeLevel - 2, CabacInitPresentFlag |-> 1,
          LoopFilterAcrossSlicesEnabledFlag |-> xInitLibCfg(c).LFCrossSliceBoundary,
          NumRefIdxL0DefaultActive |-> NumRefIdxDefault(c), NumRefIdxL1DefaultActive |-> NumRefIdxDefault(c),
          TransquantBypassEnableFlag |-> c.transquantBypassEnableFlag, UseTransformSkip |-> c.useTransformSkip,
          DependentSliceSegmentsEnabledFlag |-> Bool(c.sliceSegmentMode # NO_SLICES), ScalingListPresentFlag |-> 0])
  @@ PpsRangeExtension(c) @@ DeblockingFilterOfPPS(c) @@ xInitPPSforTiles(c)

-----------------------------------------------------------------------------
(* Reference picture sets: one per entry of the list of pictures.          *)

RPSFields(i, pictures, fields) ==
  LET negative == Cardinality({j \in DOMAIN pictures : pictures[j].deltaPOC <= 0})
  IN  At(i, [NumberOfNegativePictures |-> negative, NumberOfPositivePictures |-> Len(pictures) - negative])
      @@ At(i, fields)
      @@ [key \in {"DeltaPOC"} \X {i} \X (0..Len(pictures) - 1) |-> pictures[key[3] + 1].deltaPOC]
      @@ [key \in {"Used"} \X {i} \X (0..Len(pictures) - 1) |-> pictures[key[3] + 1].used]

(* Which pictures of the set before this one (the last of them the picture  *)
(* itself) it has again: 1 in use, 2 kept, 0 not.                           *)
RefIdcOf(before, pictures, deltaRPS) ==
  [j \in 1..Len(before) + 1 |->
     LET poc  == deltaRPS + (IF j <= Len(before) THEN before[j].deltaPOC ELSE 0)
         same == {k \in DOMAIN pictures : pictures[k].deltaPOC = poc}
     IN  IF same = {} THEN 0 ELSE IF pictures[Min(same)].used = 1 THEN 1 ELSE 2]

(* With interRPSPrediction 1 the entries say which; the set is made of them. *)
PicturesOfRefIdc(before, entry) ==
  LET all == [j \in DOMAIN entry.refIdc |->
                [deltaPOC |-> entry.deltaRPS + (IF j <= Len(before) THEN before[j].deltaPOC ELSE 0),
                 used     |-> Bool(entry.refIdc[j] = 1), idc |-> entry.refIdc[j]]]
  IN  sortDeltaPOC(SelectSeq(all, LAMBDA x : x.idc # 0))

RECURSIVE PicturesOf(_, _)
PicturesOf(c, n) ==
  IF c.GOPList[n].interRPSPrediction = 1 THEN PicturesOfRefIdc(PicturesOf(c, n - 1), c.GOPList[n])
  ELSE c.GOPList[n].pictures

(* The fields of entry n.                                                  *)
xInitRPSOf(c, n) ==
  LET entry    == c.GOPList[n]
      pictures == PicturesOf(c, n)
      deltaRPS == IF entry.interRPSPrediction = 2 THEN c.GOPList[n - 1].POC - entry.POC ELSE entry.deltaRPS
      refIdc   == IF entry.interRPSPrediction = 2 THEN RefIdcOf(PicturesOf(c, n - 1), pictures, deltaRPS)
                  ELSE entry.refIdc
      found    == Cardinality({j \in DOMAIN refIdc : refIdc[j] # 0})
      predict  == entry.interRPSPrediction = 1 \/ (entry.interRPSPrediction = 2 /\ found = Len(pictures))
  IN  RPSFields(n - 1, pictures, [InterRPSPrediction |-> Bool(predict), DeltaRIdxMinus1 |-> 0,
                                  DeltaRPS |-> deltaRPS, NumRefIdc |-> Len(refIdc)])
      @@ [key \in {"RefIdc"} \X {n - 1} \X (0..Len(refIdc) - 1) |-> refIdc[key[3] + 1]]

(* One set more than entries, for the first bottom field: empty in a        *)
(* sequence of frames.                                                      *)
FirstBottomField(c) ==
  RPSFields(Len(c.GOPList), IF c.isField THEN <<[deltaPOC |-> -1, used |-> 1]>> ELSE << >>,
            [InterRPSPrediction |-> 0, DeltaRIdxMinus1 |-> 0, DeltaRPS |-> 0, NumRefIdc |-> 0])

xInitRPS(c) ==
  LET Add(fields, n) == xInitRPSOf(c, n) @@ fields
      start == FirstBottomField(c) @@ Fields([NumberOfReferencePictureSets |-> Len(c.GOPList) + 1])
  IN  FoldLeft(Add, start, [n \in DOMAIN c.GOPList |-> n])
=============================================================================
