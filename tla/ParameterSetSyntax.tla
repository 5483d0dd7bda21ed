------------------------- MODULE ParameterSetSyntax -------------------------
(***************************************************************************)
(* The syntax of the parameter sets: what TEncCavlc writes of a VPS, an    *)
(* SPS and a PPS and what TDecCavlc parses.  Fields carry the names of the *)
(* setters of TComVPS, TComSPS, TComPPS and of the objects inside them.    *)
(*                                                                         *)
(* With RM_OPTIMIZE_REF_SAIS the short-term reference picture sets are not *)
(* in the SPS: the encoder appends them to shortTermRefPicSetInfo.bin and  *)
(* the decoder reads that file.                                            *)
(***************************************************************************)
EXTENDS Syntax

CONSTANT CoefNum  \* coefficients of a scaling list that are told apart

CHROMA_400 == 0
CHROMA_420 == 1
CHROMA_422 == 2
CHROMA_444 == 3

MAIN == 1
MAIN10 == 2
MAINREXT == 4
HIGHTHROUGHPUTREXT == 5

WinUnitX(format) == <<1, 2, 2, 1>>[format + 1]
WinUnitY(format) == <<1, 2, 1, 1>>[format + 1]

Bool(b) == IF b THEN 1 ELSE 0

-----------------------------------------------------------------------------
(* Reference picture sets.  The set idx of the list has DeltaPOC[idx][j]   *)
(* and so on; a slice with a set of its own has it behind those of the SPS. *)

Sign(n) == IF n >= 0 THEN 0 ELSE 1
Magnitude(n) == IF n >= 0 THEN n ELSE -n

NumberOfPictures(r, idx) ==
  (r $$ <<"NumberOfNegativePictures", idx>>) + (r $$ <<"NumberOfPositivePictures", idx>>)

codeRefIdc(refIdc) == <<intOf(Bool(refIdc = 1))>> \o When(refIdc # 1, <<intOf(refIdc \div 2)>>)

(* The distance of entry j from the one before it; first begins a new sign. *)
DeltaFrom(r, idx, j, first) ==
  Magnitude((r $$ <<"DeltaPOC", idx, j>>) - (IF j = first THEN 0 ELSE r $$ <<"DeltaPOC", idx, j - 1>>))

codeShortTermRefPicSet(r, calledFromSliceHeader, idx) ==
  LET numNegative == r $$ <<"NumberOfNegativePictures", idx>>
      deltaRPS    == r $$ <<"DeltaRPS", idx>>
      Entry(j)    == <<intOf(DeltaFrom(r, idx, j, IF j < numNegative THEN 0 ELSE numNegative) - 1),
                       int("Used") ** idx ** j>>
  IN  When(idx > 0, <<int("InterRPSPrediction") ** idx>>)
      \o IF r $$ <<"InterRPSPrediction", idx>> = 1
         THEN When(calledFromSliceHeader, <<int("DeltaRIdxMinus1") ** idx>>)
              \o <<intOf(Sign(deltaRPS)), intOf(Magnitude(deltaRPS) - 1)>>
              \o FlattenSeq([j \in 1..(r $$ <<"NumRefIdc", idx>>) |->
                               codeRefIdc(r $$ <<"RefIdc", idx, j - 1>>)])
         ELSE <<int("NumberOfNegativePictures") ** idx, int("NumberOfPositivePictures") ** idx>>
              \o FlattenSeq([j \in 1..NumberOfPictures(r, idx) |-> Entry(j - 1)])

(* Nearest first: the negative entries in decreasing order, then the others *)
(* in increasing order.                                                     *)
sortDeltaPOC(entries) ==
  LET sorted   == SortSeq(entries, LAMBDA x, y : x.deltaPOC < y.deltaPOC)
      negative == SelectSeq(sorted, LAMBDA x : x.deltaPOC < 0)
  IN  Reverse(negative) \o SubSeq(sorted, Len(negative) + 1, Len(sorted))

(* The fields of set idx, predicted with deltaRPS from the set rIdx.       *)
InterRPS(p, idx, rIdx) ==
  LET deltaRPS  == (1 - 2 * (p $$ <<"syntax", "delta_rps_sign", idx>>))
                     * ((p $$ <<"syntax", "abs_delta_rps_minus1", idx>>) + 1)
      numRef    == NumberOfPictures(p, rIdx)
      refIdc    == [j \in 0..numRef |->
                      IF p $$ <<"syntax", "used_by_curr_pic_flag", idx, j>> = 1 THEN 1
                      ELSE 2 * (p $$ <<"syntax", "use_delta_flag", idx, j>>)]
      all       == [j \in 1..numRef + 1 |->
                      [deltaPOC |-> deltaRPS + (IF j <= numRef THEN p $$ <<"DeltaPOC", rIdx, j - 1>> ELSE 0),
                       idc      |-> refIdc[j - 1]]]
      entries   == sortDeltaPOC(SelectSeq(all, LAMBDA x : x.idc \in {1, 2}))
      negative  == SelectSeq(entries, LAMBDA x : x.deltaPOC < 0)
  IN  [key \in {<<"NumberOfNegativePictures", idx>>} |-> Len(negative)]
      @@ (<<"NumberOfPositivePictures", idx>> :> (Len(entries) - Len(negative)))
      @@ [key \in {<<"DeltaPOC", idx, j - 1>> : j \in DOMAIN entries} |-> entries[key[3] + 1].deltaPOC]
      @@ [key \in {<<"Used", idx, j - 1>> : j \in DOMAIN entries} |-> Bool(entries[key[3] + 1].idc = 1)]

parseRefIdc(p, idx, j) ==
  <<syntax(int("used_by_curr_pic_flag") ** idx ** j)>>
  \o When(p $$ <<"syntax", "used_by_curr_pic_flag", idx, j>> = 0,
          <<syntax(int("use_delta_flag") ** idx ** j)>>)

DeltaPOCRead(p, idx, j, numNegative) ==
  LET first == IF j < numNegative THEN 0 ELSE numNegative
      prev  == IF j = first THEN 0 ELSE p $$ <<"DeltaPOC", idx, j - 1>>
      delta == (p $$ <<"syntax", "delta_poc_minus1", idx, j>>) + 1
  IN  <<"DeltaPOC", idx, j>> :> (IF j < numNegative THEN prev - delta ELSE prev + delta)

parseShortTermRefPicSet(p, idx) ==
  LET numRef      == NumberOfPictures(p, idx - 1)
      numNegative == p $$ <<"NumberOfNegativePictures", idx>>
  IN  When(idx > 0, <<int("InterRPSPrediction") ** idx>>)
      \o IF p $$ <<"InterRPSPrediction", idx>> = 1
         THEN <<syntax(int("delta_rps_sign") ** idx), syntax(int("abs_delta_rps_minus1") ** idx)>>
              \o FlattenSeq([j \in 1..numRef + 1 |-> parseRefIdc(p, idx, j - 1)])
              \o <<set(InterRPS(p, idx, idx - 1))>>
         ELSE <<int("NumberOfNegativePictures") ** idx, int("NumberOfPositivePictures") ** idx>>
              \o FlattenSeq([j \in 1..NumberOfPictures(p, idx) |->
                   <<syntax(int("delta_poc_minus1") ** idx ** (j - 1)),
                     set(DeltaPOCRead(p, idx, j - 1, numNegative)),
                     int("Used") ** idx ** (j - 1)>>])

-----------------------------------------------------------------------------
(* Profile, tier and level; ptl is General or the number of a sub-layer.   *)

General == -1

Each(from, to, Table(_)) == FlattenSeq([i \in 1..(to - from + 1) |-> Table(from + i - 1)])

codeProfileTier(o, ptl) ==
  LET Is(b)      == flagOf(Bool(b))
      bitDepth   == o $$ <<"BitDepthConstraint", ptl>>
      format     == o $$ <<"ChromaFormatConstraint", ptl>>
      constraint == <<"IntraConstraintFlag", "OnePictureOnlyConstraintFlag", "LowerBitRateConstraintFlag">>
  IN  <<u(2, "ProfileSpace") ** ptl, flag("TierFlag") ** ptl, u(5, "ProfileIdc") ** ptl>>
      \o Each(0, 31, LAMBDA j : <<flag("ProfileCompatibilityFlag") ** ptl ** j>>)
      \o <<flag("ProgressiveSourceFlag") ** ptl, flag("InterlacedSourceFlag") ** ptl,
           flag("NonPackedConstraintFlag") ** ptl, flag("FrameOnlyConstraintFlag") ** ptl>>
      \o (IF o $$ <<"ProfileIdc", ptl>> \in {MAINREXT, HIGHTHROUGHPUTREXT}
          THEN <<Is(bitDepth <= 12), Is(bitDepth <= 10), Is(bitDepth <= 8),
                 Is(format \in {CHROMA_422, CHROMA_420, CHROMA_400}),
                 Is(format \in {CHROMA_420, CHROMA_400}), Is(format = CHROMA_400)>>
               \o [i \in 1..3 |-> flag(constraint[i]) ** ptl]
               \o <<uOf(16, 0), uOf(16, 0), uOf(2, 0)>>
          ELSE <<uOf(16, 0), uOf(16, 0), uOf(11, 0)>>)
      \o <<flagOf(0)>>

codePTL(o, profilePresentFlag, maxNumSubLayersMinus1) ==
  LET last == maxNumSubLayersMinus1 - 1
  IN  When(profilePresentFlag, codeProfileTier(o, General))
      \o <<u(8, "LevelIdc") ** General>>
      \o Each(0, last, LAMBDA i : <<flag("SubLayerProfilePresentFlag") ** i, flag("SubLayerLevelPresentFlag") ** i>>)
      \o When(last >= 0, Each(last + 1, 7, LAMBDA i : <<uOf(2, 0)>>))
      \o Each(0, last, LAMBDA i :
           When(o $$ <<"SubLayerProfilePresentFlag", i>> = 1, codeProfileTier(o, i))
           \o When(o $$ <<"SubLayerLevelPresentFlag", i>> = 1, <<u(8, "LevelIdc") ** i>>))

(* A limit is given by flags that get stricter: the last that is set holds. *)
LimitRead(p, ptl, flags, limits, none) ==
  LET isSet(i) == p $$ <<"syntax", flags[i], ptl>> = 1
  IN  IF \E i \in DOMAIN flags : isSet(i)
      THEN limits[CHOOSE i \in DOMAIN flags : isSet(i) /\ \A k \in DOMAIN flags : isSet(k) => i >= k]
      ELSE none

parseProfileTier(p, ptl) ==
  LET Profile(i)     == p $$ <<"ProfileIdc", ptl>> = i \/ p $$ <<"ProfileCompatibilityFlag", ptl, i>> = 1
      bitDepthFlags  == <<"max_12bit_constraint_flag", "max_10bit_constraint_flag", "max_8bit_constraint_flag">>
      chromaFlags    == <<"max_422chroma_constraint_flag", "max_420chroma_constraint_flag", "max_monochrome_constraint_flag">>
      Temporary(all) == [i \in DOMAIN all |-> syntax(flag(all[i]) ** ptl)]
  IN  <<u(2, "ProfileSpace") ** ptl, flag("TierFlag") ** ptl, u(5, "ProfileIdc") ** ptl>>
      \o Each(0, 31, LAMBDA j : <<flag("ProfileCompatibilityFlag") ** ptl ** j>>)
      \o <<flag("ProgressiveSourceFlag") ** ptl, flag("InterlacedSourceFlag") ** ptl,
           flag("NonPackedConstraintFlag") ** ptl, flag("FrameOnlyConstraintFlag") ** ptl>>
      \o (IF Profile(MAINREXT) \/ Profile(HIGHTHROUGHPUTREXT)
          THEN Temporary(bitDepthFlags)
               \o <<set(<<"BitDepthConstraint", ptl>> :> LimitRead(p, ptl, bitDepthFlags, <<12, 10, 8>>, 16))>>
               \o Temporary(chromaFlags)
               \o <<set(<<"ChromaFormatConstraint", ptl>>
                          :> LimitRead(p, ptl, chromaFlags, <<CHROMA_422, CHROMA_420, CHROMA_400>>, CHROMA_444)),
                    flag("IntraConstraintFlag") ** ptl, flag("OnePictureOnlyConstraintFlag") ** ptl,
                    flag("LowerBitRateConstraintFlag") ** ptl,
                    syntax(u(16, "reserved")), syntax(u(16, "reserved")), syntax(u(2, "reserved"))>>
          ELSE <<set((<<"BitDepthConstraint", ptl>> :> (IF p $$ <<"ProfileIdc", ptl>> = MAIN10 THEN 10 ELSE 8))
                     @@ (<<"ChromaFormatConstraint", ptl>> :> CHROMA_420)
                     @@ (<<"IntraConstraintFlag", ptl>> :> 0)
                     @@ (<<"LowerBitRateConstraintFlag", ptl>> :> 1)),
                 syntax(u(16, "reserved")), syntax(u(16, "reserved")), syntax(u(11, "reserved"))>>)
      \o <<syntax(flag("inbld_flag"))>>
      \o When(\E i \in MAIN..HIGHTHROUGHPUTREXT : Profile(i), <<check(p $$ <<"syntax", "inbld_flag">> = 0)>>)

parsePTL(p, profilePresentFlag, maxNumSubLayersMinus1) ==
  LET last == maxNumSubLayersMinus1 - 1
  IN  When(profilePresentFlag, parseProfileTier(p, General))
      \o <<u(8, "LevelIdc") ** General>>
      \o Each(0, last, LAMBDA i : <<flag("SubLayerProfilePresentFlag") ** i, flag("SubLayerLevelPresentFlag") ** i>>)
      \o When(last >= 0, Each(last + 1, 7, LAMBDA i :
           <<syntax(u(2, "reserved_zero_2bits")), check(p $$ <<"syntax", "reserved_zero_2bits">> = 0)>>))
      \o Each(0, last, LAMBDA i :
           When(p $$ <<"SubLayerProfilePresentFlag", i>> = 1, parseProfileTier(p, i))
           \o When(p $$ <<"SubLayerLevelPresentFlag", i>> = 1, <<u(8, "LevelIdc") ** i>>))

-----------------------------------------------------------------------------
(* Scaling lists.  A list has a size and a number; its first and last      *)
(* coefficients in scan order are told apart, and a DC for the large sizes. *)

SCALING_LIST_8x8 == 1
SCALING_LIST_16x16 == 2
SCALING_LIST_32x32 == 3
SCALING_LIST_NUM == 6

Step(sizeId) == IF sizeId = SCALING_LIST_32x32 THEN 3 ELSE 1

DefaultCoef(sizeId, listId, i) ==
  IF sizeId = 0 \/ i = 0 THEN 16 ELSE IF listId < 3 THEN 115 ELSE 91

(* processRefMatrix: a list that refers to itself is the default one.      *)
RefCoef(p, sizeId, listId, refListId, i) ==
  IF refListId = listId THEN DefaultCoef(sizeId, listId, i) ELSE p $$ <<"Coef", sizeId, refListId, i>>

SameList(p, sizeId, listId, refListId) ==
  /\ \A i \in 0..CoefNum - 1 : p $$ <<"Coef", sizeId, listId, i>> = RefCoef(p, sizeId, listId, refListId, i)
  /\ sizeId >= SCALING_LIST_16x16 => p $$ <<"DC", sizeId, listId>> = p $$ <<"DC", sizeId, refListId>>

(* The lists that a list can be signalled as a copy of.                    *)
checkPredMode(p, sizeId, listId) ==
  {ref \in 0..listId : (listId - ref) % Step(sizeId) = 0 /\ SameList(p, sizeId, listId, ref)}

(* The field, of 8 bits with a sign, that leads from one coefficient to the *)
(* next.                                                                    *)
CoefDelta(data) == IF data > 127 THEN data - 256 ELSE IF data < -128 THEN data + 256 ELSE data

xCodeScalingList(o, sizeId, listId) ==
  LET coef(i) == o $$ <<"Coef", sizeId, listId, i>>
      dc      == o $$ <<"DC", sizeId, listId>>
      start   == IF sizeId > SCALING_LIST_8x8 THEN dc ELSE 8
  IN  When(sizeId > SCALING_LIST_8x8, <<seOf(dc - 8)>>)
      \o Each(0, CoefNum - 1, LAMBDA i : <<seOf(CoefDelta(coef(i) - (IF i = 0 THEN start ELSE coef(i - 1))))>>)

codeScalingList(o) ==
  Each(0, SCALING_LIST_32x32, LAMBDA sizeId :
    Each(0, (SCALING_LIST_NUM \div Step(sizeId)) - 1, LAMBDA n :
      LET listId == n * Step(sizeId)
      IN  <<flag("PredMode") ** sizeId ** listId>>
          \o IF o $$ <<"PredMode", sizeId, listId>> = 0
             THEN <<ueOf((listId - (o $$ <<"RefMatrixId", sizeId, listId>>)) \div Step(sizeId))>>
             ELSE xCodeScalingList(o, sizeId, listId)))

\* Mutant: the difference is added without reduction to eight bits.
NextCoef_Unreduced(previous, data) == previous + data

NextCoef(previous, data) == (previous + data + 256) % 256

xDecodeScalingList(p, sizeId, listId) ==
  LET start == IF sizeId > SCALING_LIST_8x8 THEN p $$ <<"DC", sizeId, listId>> ELSE 8
      coef(i) == p $$ <<"Coef", sizeId, listId, i>>
  IN  When(sizeId > SCALING_LIST_8x8, <<(se("DC") ** sizeId ** listId) -- 8>>)
      \o Each(0, CoefNum - 1, LAMBDA i :
           <<syntax(se("delta_coef") ** sizeId ** listId ** i),
             set(<<"Coef", sizeId, listId, i>> :>
                   NextCoef(IF i = 0 THEN start ELSE coef(i - 1), p $$ <<"syntax", "delta_coef", sizeId, listId, i>>))>>)

(* Copy mode: another list of the size, or the default list.               *)
CopiedList(p, sizeId, listId) ==
  LET ref == listId - (p $$ <<"syntax", "pred_matrix_id_delta", sizeId, listId>>) * Step(sizeId)
  IN  (<<"RefMatrixId", sizeId, listId>> :> ref)
      @@ (<<"DC", sizeId, listId>> :>
            IF sizeId <= SCALING_LIST_8x8 THEN p $$ <<"DC", sizeId, listId>>
            ELSE IF ref = listId THEN 16 ELSE p $$ <<"DC", sizeId, ref>>)
      @@ [key \in {<<"Coef", sizeId, listId, i>> : i \in 0..CoefNum - 1} |->
            RefCoef(p, sizeId, listId, ref, key[4])]

(* The 32x32 chroma lists are those of the size below.                     *)
ListOfSmallerSize(p, sizeId, listId) ==
  (<<"DC", sizeId, listId>> :> (p $$ <<"DC", sizeId - 1, listId>>))
  @@ [key \in {<<"Coef", sizeId, listId, i>> : i \in 0..CoefNum - 1} |->
        p $$ <<"Coef", sizeId - 1, listId, key[4]>>]

parseScalingList(p) ==
  Each(0, SCALING_LIST_32x32, LAMBDA sizeId :
    Each(0, SCALING_LIST_NUM - 1, LAMBDA listId :
      IF listId % Step(sizeId) # 0 THEN <<set(ListOfSmallerSize(p, sizeId, listId))>>
      ELSE <<flag("PredMode") ** sizeId ** listId>>
           \o IF p $$ <<"PredMode", sizeId, listId>> = 0
              THEN <<syntax(ue("pred_matrix_id_delta") ** sizeId ** listId), set(CopiedList(p, sizeId, listId))>>
              ELSE xDecodeScalingList(p, sizeId, listId)))

-----------------------------------------------------------------------------
(* Hypothetical reference decoder and video usability information.         *)

CpbEntry(subPic, i, j, nalOrVcl) ==
  <<ue("BitRateValueMinus1") ** i ** j ** nalOrVcl, ue("CpbSizeValueMinus1") ** i ** j ** nalOrVcl>>
  \o When(subPic, <<ue("DuCpbSizeValueMinus1") ** i ** j ** nalOrVcl,
                    ue("DuBitRateValueMinus1") ** i ** j ** nalOrVcl>>)
  \o <<flag("CbrFlag") ** i ** j ** nalOrVcl>>

(* nal_hrd and vcl_hrd of sub-layer i.                                     *)
CpbEntries(o, i) ==
  LET present == <<"NalHrdParametersPresentFlag", "VclHrdParametersPresentFlag">>
      subPic  == o $ "SubPicCpbParamsPresentFlag" = 1
  IN  Each(0, 1, LAMBDA nalOrVcl :
        When(o $ present[nalOrVcl + 1] = 1,
             Each(0, o $$ <<"CpbCntMinus1", i>>, LAMBDA j : CpbEntry(subPic, i, j, nalOrVcl))))

HrdCommon(o) ==
  LET subPic == o $ "SubPicCpbParamsPresentFlag" = 1
  IN  Flags(<<"NalHrdParametersPresentFlag", "VclHrdParametersPresentFlag">>)
      \o When(o $ "NalHrdParametersPresentFlag" = 1 \/ o $ "VclHrdParametersPresentFlag" = 1,
           <<flag("SubPicCpbParamsPresentFlag")>>
           \o When(subPic, <<u(8, "TickDivisorMinus2"), u(5, "DuCpbRemovalDelayLengthMinus1"),
                             flag("SubPicCpbParamsInPicTimingSEIFlag"), u(5, "DpbOutputDelayDuLengthMinus1")>>)
           \o <<u(4, "BitRateScale"), u(4, "CpbSizeScale")>>
           \o When(subPic, <<u(4, "DuCpbSizeScale")>>)
           \o <<u(5, "InitialCpbRemovalDelayLengthMinus1"), u(5, "CpbRemovalDelayLengthMinus1"),
                u(5, "DpbOutputDelayLengthMinus1")>>)

codeHrdParameters(o, commonInfPresentFlag, maxNumSubLayersMinus1) ==
  LET Layer(i) ==
        LET fixed  == o $$ <<"FixedPicRateFlag", i>> = 1
            within == fixed \/ o $$ <<"FixedPicRateWithinCvsFlag", i>> = 1
        IN  <<flag("FixedPicRateFlag") ** i>>
            \o When(~fixed, <<flag("FixedPicRateWithinCvsFlag") ** i>>)
            \o (IF within THEN <<ue("PicDurationInTcMinus1") ** i>> ELSE <<flag("LowDelayHrdFlag") ** i>>)
            \o When(o $$ <<"LowDelayHrdFlag", i>> = 0, <<ue("CpbCntMinus1") ** i>>)
            \o CpbEntries(o, i)
  IN  When(commonInfPresentFlag, HrdCommon(o)) \o Each(0, maxNumSubLayersMinus1, LAMBDA i : Layer(i))

(* The reader gives the fields that may be absent their inferred values.   *)
parseHrdParameters(p, commonInfPresentFlag, maxNumSubLayersMinus1) ==
  LET Layer(i) ==
        <<flag("FixedPicRateFlag") ** i>>
        \o (IF p $$ <<"FixedPicRateFlag", i>> = 0 THEN <<flag("FixedPicRateWithinCvsFlag") ** i>>
            ELSE <<set(<<"FixedPicRateWithinCvsFlag", i>> :> 1)>>)
        \o <<set((<<"LowDelayHrdFlag", i>> :> 0) @@ (<<"CpbCntMinus1", i>> :> 0))>>
        \o (IF p $$ <<"FixedPicRateWithinCvsFlag", i>> = 1 THEN <<ue("PicDurationInTcMinus1") ** i>>
            ELSE <<flag("LowDelayHrdFlag") ** i>>)
        \o When(p $$ <<"LowDelayHrdFlag", i>> = 0, <<ue("CpbCntMinus1") ** i>>)
        \o CpbEntries(p, i)
  IN  When(commonInfPresentFlag, HrdCommon(p)) \o Each(0, maxNumSubLayersMinus1, LAMBDA i : Layer(i))

TimingInfo(o) ==
  <<flag("TimingInfoPresentFlag")>>
  \o When(o $ "TimingInfoPresentFlag" = 1,
       <<u(32, "NumUnitsInTick"), u(32, "TimeScale"), flag("PocProportionalToTimingFlag")>>
       \o When(o $ "PocProportionalToTimingFlag" = 1, <<ue("NumTicksPocDiffOneMinus1")>>))

WindowOffsets(o, name) ==
  LET unitX == WinUnitX(o $ "ChromaFormatIdc")
      unitY == WinUnitY(o $ "ChromaFormatIdc")
  IN  <<(ue(name) ** 0) // unitX, (ue(name) ** 1) // unitX, (ue(name) ** 2) // unitY, (ue(name) ** 3) // unitY>>

(* The flags and numbers up to the display window, the same in the writer  *)
(* and the reader.                                                         *)
VideoSignal(o) ==
  <<flag("AspectRatioInfoPresentFlag")>>
  \o When(o $ "AspectRatioInfoPresentFlag" = 1,
       <<u(8, "AspectRatioIdc")>> \o When(o $ "AspectRatioIdc" = 255, <<u(16, "SarWidth"), u(16, "SarHeight")>>))
  \o <<flag("OverscanInfoPresentFlag")>>
  \o When(o $ "OverscanInfoPresentFlag" = 1, <<flag("OverscanAppropriateFlag")>>)
  \o <<flag("VideoSignalTypePresentFlag")>>
  \o When(o $ "VideoSignalTypePresentFlag" = 1,
       <<u(3, "VideoFormat"), flag("VideoFullRangeFlag"), flag("ColourDescriptionPresentFlag")>>
       \o When(o $ "ColourDescriptionPresentFlag" = 1,
               <<u(8, "ColourPrimaries"), u(8, "TransferCharacteristics"), u(8, "MatrixCoefficients")>>))
  \o <<flag("ChromaLocInfoPresentFlag")>>
  \o When(o $ "ChromaLocInfoPresentFlag" = 1,
       <<ue("ChromaSampleLocTypeTopField"), ue("ChromaSampleLocTypeBottomField")>>)
  \o Flags(<<"NeutralChromaIndicationFlag", "FieldSeqFlag", "FrameFieldInfoPresentFlag">>)

BitstreamRestriction ==
  Flags(<<"TilesFixedStructureFlag", "MotionVectorsOverPicBoundariesFlag", "RestrictedRefPicListsFlag">>)
  \o <<ue("MinSpatialSegmentationIdc"), ue("MaxBytesPerPicDenom"), ue("MaxBitsPerMinCuDenom"),
       ue("Log2MaxMvLengthHorizontal"), ue("Log2MaxMvLengthVertical")>>

codeVUI(o) ==
  VideoSignal(o)
  \o <<flag("DefaultDisplayWindowEnabled")>>
  \o When(o $ "DefaultDisplayWindowEnabled" = 1, WindowOffsets(o, "DefaultDisplayWindow"))
  \o TimingInfo(o)
  \o <<flag("HrdParametersPresentFlag")>>
  \o When(o $ "HrdParametersPresentFlag" = 1, codeHrdParameters(o, TRUE, (o $ "MaxTLayers") - 1))
  \o <<flag("BitstreamRestrictionFlag")>>
  \o When(o $ "BitstreamRestrictionFlag" = 1, BitstreamRestriction)

parseVUI(p) ==
  VideoSignal(p)
  \o <<syntax(flag("default_display_window_flag"))>>
  \o When(p $$ <<"syntax", "default_display_window_flag">> = 1,
          WindowOffsets(p, "DefaultDisplayWindow") \o <<assign("DefaultDisplayWindowEnabled", 1)>>)
  \o TimingInfo(p)
  \o <<flag("HrdParametersPresentFlag")>>
  \o When(p $ "HrdParametersPresentFlag" = 1, parseHrdParameters(p, TRUE, (p $ "MaxTLayers") - 1))
  \o <<flag("BitstreamRestrictionFlag")>>
  \o When(p $ "BitstreamRestrictionFlag" = 1,
          BitstreamRestriction \o <<check(p $ "MinSpatialSegmentationIdc" < 4096)>>)

-----------------------------------------------------------------------------
(* Video parameter set.                                                    *)

SubLayerOrderingInfo(o, latency) ==
  Each(0, (o $ "MaxTLayers") - 1, LAMBDA i :
    <<(ue("MaxDecPicBuffering") ** i) -- 1, ue("NumReorderPics") ** i, ue(latency) ** i>>)

LayerSets(o) ==
  <<u(6, "MaxNuhReservedZeroLayerId"), ue("MaxOpSets") -- 1>>
  \o Each(1, (o $ "MaxOpSets") - 1, LAMBDA ops :
       Each(0, o $ "MaxNuhReservedZeroLayerId", LAMBDA i : <<flag("LayerIdIncludedFlag") ** ops ** i>>))

codeVPS(o) ==
  <<u(4, "VPSId"), flagOf(1), flagOf(1), uOf(6, 0), u(3, "MaxTLayers") -- 1, flag("TemporalNestingFlag"),
    check(o $ "MaxTLayers" > 1 \/ o $ "TemporalNestingFlag" = 1), uOf(16, 65535)>>
  \o codePTL(o, TRUE, (o $ "MaxTLayers") - 1)
  \o <<flagOf(1)>>
  \o SubLayerOrderingInfo(o, "MaxLatencyIncrease")
  \o <<check(o $ "NumHrdParameters" <= 1)>>
  \o LayerSets(o)
  \o TimingInfo(o)
  \o When(o $ "TimingInfoPresentFlag" = 1,
       <<ue("NumHrdParameters")>>
       \o Each(0, (o $ "NumHrdParameters") - 1, LAMBDA i :
            <<ue("HrdOpSetIdx") ** i>>
            \o When(i > 0, <<flag("CprmsPresentFlag") ** i>>)
            \o codeHrdParameters(o, o $$ <<"CprmsPresentFlag", i>> = 1, (o $ "MaxTLayers") - 1)))
  \o <<flagOf(0)>>

(* When the stream has the numbers of one sub-layer only, all have them.   *)
OrderingInfoOfAllLayers(p, layers) ==
  LET names == {"MaxDecPicBuffering", "NumReorderPics", "MaxLatencyIncrease", "MaxLatencyIncreasePlus1"}
  IN  [key \in {<<name, i>> : name \in names, i \in layers} |-> p $$ <<key[1], 0>>]

parseOrderingInfo(p, latency) ==
  LET all  == p $$ <<"syntax", "sub_layer_ordering_info_present_flag">> = 1
      last == (p $ "MaxTLayers") - 1
  IN  <<syntax(flag("sub_layer_ordering_info_present_flag"))>>
      \o Each(0, IF all THEN last ELSE 0, LAMBDA i :
           <<(ue("MaxDecPicBuffering") ** i) -- 1, ue("NumReorderPics") ** i, ue(latency) ** i>>)
      \o When(~all, <<set(OrderingInfoOfAllLayers(p, 1..last))>>)

parseVPS(p) ==
  LET Value(name) == p $$ <<"syntax", name>>
  IN  <<u(4, "VPSId"),
        syntax(flag("base_layer_internal_flag")), check(Value("base_layer_internal_flag") = 1),
        syntax(flag("base_layer_available_flag")), check(Value("base_layer_available_flag") = 1),
        syntax(u(6, "max_layers_minus1")),
        u(3, "MaxTLayers") -- 1, check(p $ "MaxTLayers" <= 7), flag("TemporalNestingFlag"),
        check(p $ "MaxTLayers" > 1 \/ p $ "TemporalNestingFlag" = 1),
        syntax(u(16, "reserved_0xffff")), check(Value("reserved_0xffff") = 65535)>>
      \o parsePTL(p, TRUE, (p $ "MaxTLayers") - 1)
      \o parseOrderingInfo(p, "MaxLatencyIncrease")
      \o LayerSets(p)
      \o TimingInfo(p)
      \o When(p $ "TimingInfoPresentFlag" = 1,
           <<ue("NumHrdParameters")>>
           \o Each(0, (p $ "NumHrdParameters") - 1, LAMBDA i :
                <<ue("HrdOpSetIdx") ** i>>
                \o (IF i > 0 THEN <<flag("CprmsPresentFlag") ** i>> ELSE <<set(<<"CprmsPresentFlag", i>> :> 1)>>)
                \o parseHrdParameters(p, p $$ <<"CprmsPresentFlag", i>> = 1, (p $ "MaxTLayers") - 1)))
      \o <<syntax(flag("extension_flag"))>> \o When(Value("extension_flag") = 1, <<rest>>)

-----------------------------------------------------------------------------
(* Sequence parameter set.                                                 *)

LUMA == 0
CHROMA == 1

RangeExtensionOfSPS ==
  Flags(<<"TransformSkipRotationEnabledFlag", "TransformSkipContextEnabledFlag", "RdpcmImplicitEnabledFlag",
          "RdpcmExplicitEnabledFlag", "ExtendedPrecisionProcessingFlag", "IntraSmoothingDisabledFlag",
          "HighPrecisionOffsetsEnabledFlag", "PersistentRiceAdaptationEnabledFlag",
          "CabacBypassAlignmentEnabledFlag">>)

LongTermPictures(o) ==
  <<flag("LongTermRefsPresent")>>
  \o When(o $ "LongTermRefsPresent" = 1,
       <<ue("NumLongTermRefPicSPS")>>
       \o Each(0, (o $ "NumLongTermRefPicSPS") - 1, LAMBDA k :
            <<u(o $ "BitsForPOC", "LtRefPicPocLsbSps") ** k, flag("UsedByCurrPicLtSPSFlag") ** k>>))

codeSPSTools(o) ==
  <<flag("ScalingListFlag")>>
  \o When(o $ "ScalingListFlag" = 1,
       <<flag("ScalingListPresentFlag")>> \o When(o $ "ScalingListPresentFlag" = 1, codeScalingList(o)))
  \o Flags(<<"UseAMP", "UseSAO", "UsePCM">>)
  \o When(o $ "UsePCM" = 1,
       <<(u(4, "PCMBitDepth") ** LUMA) -- 1,
         IF o $ "ChromaFormatIdc" # CHROMA_400 THEN (u(4, "PCMBitDepth") ** CHROMA) -- 1 ELSE uOf(4, 0),
         ue("PCMLog2MinSize") -- 3, ueOf((o $ "PCMLog2MaxSize") - (o $ "PCMLog2MinSize")),
         flag("PCMFilterDisableFlag")>>)

codeSPS(o) ==
  LET format  == o $ "ChromaFormatIdc"
      differs == \E i \in DOMAIN RangeExtensionOfSPS : o $$ RangeExtensionOfSPS[i].key = 1
  IN  <<u(4, "VPSId"), u(3, "MaxTLayers") -- 1, flag("TemporalIdNestingFlag")>>
      \o codePTL(o, TRUE, (o $ "MaxTLayers") - 1)
      \o <<ue("SPSId"), ue("ChromaFormatIdc")>>
      \o When(format = CHROMA_444, <<flagOf(0)>>)
      \o <<ue("PicWidthInLumaSamples"), ue("PicHeightInLumaSamples"), flag("ConformanceWindowEnabled")>>
      \o When(o $ "ConformanceWindowEnabled" = 1, WindowOffsets(o, "ConformanceWindow"))
      \o <<(ue("BitDepth") ** LUMA) -- 8,
           IF format # CHROMA_400 THEN (ue("BitDepth") ** CHROMA) -- 8 ELSE ueOf(0),
           ue("BitsForPOC") -- 4, flagOf(1)>>
      \o SubLayerOrderingInfo(o, "MaxLatencyIncreasePlus1")
      \o <<check(o $ "MaxCUWidth" = o $ "MaxCUHeight"),
           ue("Log2MinCodingBlockSize") -- 3, ue("Log2DiffMaxMinCodingBlockSize"),
           ue("QuadtreeTULog2MinSize") -- 2, ueOf((o $ "QuadtreeTULog2MaxSize") - (o $ "QuadtreeTULog2MinSize")),
           ue("QuadtreeTUMaxDepthInter") -- 1, ue("QuadtreeTUMaxDepthIntra") -- 1>>
      \o codeSPSTools(o)
      \o <<check(o $ "MaxTLayers" > 0), ue("NumberOfReferencePictureSets")>>
      \o Each(0, (o $ "NumberOfReferencePictureSets") - 1, LAMBDA i : codeShortTermRefPicSet(o, FALSE, i))
      \o LongTermPictures(o)
      \o Flags(<<"TMVPFlagsPresent", "UseStrongIntraSmoothing", "VuiParametersPresentFlag">>)
      \o When(o $ "VuiParametersPresentFlag" = 1, codeVUI(o))
      \o <<flagOf(Bool(differs))>>
      \o When(differs, <<flagOf(1)>> \o [i \in 1..7 |-> flagOf(0)] \o RangeExtensionOfSPS)

(* Level 5 asks for coding tree blocks of at least 32x32.                  *)
LEVEL5 == 150

parseSPSStart(p) ==
  LET Depth(channel) == p $$ <<"BitDepth", channel>>
  IN  <<u(4, "VPSId"), u(3, "MaxTLayers") -- 1, check(p $ "MaxTLayers" <= 7), flag("TemporalIdNestingFlag"),
        check(p $ "MaxTLayers" = 1 => p $ "TemporalIdNestingFlag" = 1)>>
      \o parsePTL(p, TRUE, (p $ "MaxTLayers") - 1)
      \o <<ue("SPSId"), check(p $ "SPSId" <= 15), ue("ChromaFormatIdc"), check(p $ "ChromaFormatIdc" <= 3)>>
      \o When(p $ "ChromaFormatIdc" = CHROMA_444,
              <<syntax(flag("separate_colour_plane_flag")),
                check(p $$ <<"syntax", "separate_colour_plane_flag">> = 0)>>)
      \o <<ue("PicWidthInLumaSamples"), ue("PicHeightInLumaSamples"), syntax(flag("conformance_window_flag"))>>
      \o When(p $$ <<"syntax", "conformance_window_flag">> = 1,
              WindowOffsets(p, "ConformanceWindow") \o <<assign("ConformanceWindowEnabled", 1)>>)
      \o <<(ue("BitDepth") ** LUMA) -- 8, check(Depth(LUMA) <= 16),
           set(<<"QpBDOffset", LUMA>> :> 6 * (Depth(LUMA) - 8)),
           (ue("BitDepth") ** CHROMA) -- 8, check(Depth(CHROMA) <= 16),
           set(<<"QpBDOffset", CHROMA>> :> 6 * (Depth(CHROMA) - 8)),
           ue("BitsForPOC") -- 4, check(p $ "BitsForPOC" <= 16)>>
      \o parseOrderingInfo(p, "MaxLatencyIncreasePlus1")

(* How often a coding tree unit is divided down to the parts information   *)
(* is kept for.                                                             *)
DepthOfParts(p) ==
  LET below == (p $ "Log2MinCodingBlockSize") - (p $ "QuadtreeTULog2MinSize")
  IN  (p $ "Log2DiffMaxMinCodingBlockSize") + (IF below > 0 THEN below ELSE 0)
      + Bool(p $ "ChromaFormatIdc" = CHROMA_422 /\ p $ "QuadtreeTULog2MinSize" > 2)

parseBlockSizes(p) ==
  LET log2MaxCU == (p $ "Log2MinCodingBlockSize") + (p $ "Log2DiffMaxMinCodingBlockSize")
      log2Diff  == p $$ <<"syntax", "log2_diff_max_min_luma_transform_block_size">>
  IN  <<ue("Log2MinCodingBlockSize") -- 3, ue("Log2DiffMaxMinCodingBlockSize"),
        check(p $$ <<"LevelIdc", General>> >= LEVEL5 => log2MaxCU >= 5),
        set(Fields([MaxCUWidth |-> 2^log2MaxCU, MaxCUHeight |-> 2^log2MaxCU])),
        ue("QuadtreeTULog2MinSize") -- 2, syntax(ue("log2_diff_max_min_luma_transform_block_size")),
        set(Fields([QuadtreeTULog2MaxSize |-> log2Diff + (p $ "QuadtreeTULog2MinSize"),
                    MaxTrSize |-> 2^(log2Diff + (p $ "QuadtreeTULog2MinSize"))])),
        ue("QuadtreeTUMaxDepthInter") -- 1, ue("QuadtreeTUMaxDepthIntra") -- 1,
        assign("MaxTotalCUDepth", DepthOfParts(p))>>

parseSPSTools(p) ==
  <<flag("ScalingListFlag")>>
  \o When(p $ "ScalingListFlag" = 1,
       <<flag("ScalingListPresentFlag")>> \o When(p $ "ScalingListPresentFlag" = 1, parseScalingList(p)))
  \o Flags(<<"UseAMP", "UseSAO", "UsePCM">>)
  \o When(p $ "UsePCM" = 1,
       <<(u(4, "PCMBitDepth") ** LUMA) -- 1, (u(4, "PCMBitDepth") ** CHROMA) -- 1, ue("PCMLog2MinSize") -- 3,
         syntax(ue("log2_diff_max_min_pcm")),
         assign("PCMLog2MaxSize", (p $$ <<"syntax", "log2_diff_max_min_pcm">>) + (p $ "PCMLog2MinSize")),
         flag("PCMFilterDisableFlag")>>)

(* The eight extension flags; after an extension that is not known the rest *)
(* of the set is extension data.                                            *)
parseExtensions(p, present, rangeExtension) ==
  LET Extension(i) == p $$ <<"syntax", "extension_flag", i>> = 1
  IN  <<syntax(flag(present))>>
      \o When(p $$ <<"syntax", present>> = 1,
           Each(0, 7, LAMBDA i : <<syntax(flag("extension_flag") ** i)>>)
           \o When(Extension(0), rangeExtension)
           \o When(\E i \in 1..7 : Extension(i), <<rest>>))

parseSPS(p) ==
  parseSPSStart(p)
  \o parseBlockSizes(p)
  \o parseSPSTools(p)
  \o <<ue("NumberOfReferencePictureSets")>>
  \o Each(0, (p $ "NumberOfReferencePictureSets") - 1, LAMBDA i : parseShortTermRefPicSet(p, i))
  \o LongTermPictures(p)
  \o Flags(<<"TMVPFlagsPresent", "UseStrongIntraSmoothing", "VuiParametersPresentFlag">>)
  \o When(p $ "VuiParametersPresentFlag" = 1, parseVUI(p))
  \o parseExtensions(p, "sps_extension_present_flag", RangeExtensionOfSPS)

-----------------------------------------------------------------------------
(* Picture parameter set.                                                  *)

(* The elements before the chroma offsets that do not depend on anything.  *)
StartOfPPS ==
  <<flag("DependentSliceSegmentsEnabledFlag"), flag("OutputFlagPresentFlag"), u(3, "NumExtraSliceHeaderBits"),
    flag("SignHideFlag"), flag("CabacInitPresentFlag")>>

ToolsOfPPS ==
  Flags(<<"SliceChromaQpFlag", "UseWP", "WPBiPred", "TransquantBypassEnableFlag", "TilesEnabledFlag",
          "EntropyCodingSyncEnabledFlag">>)

TileSizes(o) ==
  When(o $ "TileUniformSpacingFlag" = 0,
       Each(0, (o $ "NumTileColumnsMinus1") - 1, LAMBDA i : <<(ue("TileColumnWidth") ** i) -- 1>>)
       \o Each(0, (o $ "NumTileRowsMinus1") - 1, LAMBDA i : <<(ue("TileRowHeight") ** i) -- 1>>))

TilesOfPPS(o) ==
  <<ue("NumTileColumnsMinus1"), ue("NumTileRowsMinus1"), flag("TileUniformSpacingFlag")>>
  \o TileSizes(o)
  \o When((o $ "NumTileColumnsMinus1") + (o $ "NumTileRowsMinus1") # 0, <<flag("LoopFilterAcrossTilesEnabledFlag")>>)

DeblockingOfPPS(o) ==
  <<flag("DeblockingFilterControlPresentFlag")>>
  \o When(o $ "DeblockingFilterControlPresentFlag" = 1,
       Flags(<<"DeblockingFilterOverrideEnabledFlag", "PicDisableDeblockingFilterFlag">>)
       \o When(o $ "PicDisableDeblockingFilterFlag" = 0,
               <<se("DeblockingFilterBetaOffsetDiv2"), se("DeblockingFilterTcOffsetDiv2")>>))

(* The list of chroma offsets has ChromaQpOffsetListLen entries, from 1.   *)
codeRangeExtensionOfPPS(o) ==
  When(o $ "UseTransformSkip" = 1, <<ue("Log2MaxTransformSkipBlockSize") -- 2>>)
  \o <<flag("CrossComponentPredictionEnabledFlag"), flagOf(Bool(o $ "ChromaQpOffsetListLen" > 0))>>
  \o When(o $ "ChromaQpOffsetListLen" > 0,
       <<ue("DiffCuChromaQpOffsetDepth"), ue("ChromaQpOffsetListLen") -- 1>>
       \o Each(1, o $ "ChromaQpOffsetListLen", LAMBDA i : <<se("CbOffset") ** i, se("CrOffset") ** i>>))
  \o <<ue("Log2SaoOffsetScale") ** LUMA, ue("Log2SaoOffsetScale") ** CHROMA>>

settingsDifferFromDefaults(o) ==
  \/ o $ "UseTransformSkip" = 1 /\ o $ "Log2MaxTransformSkipBlockSize" # 2
  \/ o $ "CrossComponentPredictionEnabledFlag" = 1
  \/ o $ "ChromaQpOffsetListLen" > 0
  \/ \E channel \in {LUMA, CHROMA} : o $$ <<"Log2SaoOffsetScale", channel>> # 0

codePPS(o) ==
  LET differs == settingsDifferFromDefaults(o)
  IN  <<ue("PPSId"), ue("SPSId")>>
      \o StartOfPPS
      \o <<ue("NumRefIdxL0DefaultActive") -- 1, ue("NumRefIdxL1DefaultActive") -- 1, se("PicInitQPMinus26"),
           flag("ConstrainedIntraPred"), flag("UseTransformSkip"), flag("UseDQP")>>
      \o When(o $ "UseDQP" = 1, <<ue("MaxCuDQPDepth")>>)
      \o <<se("QpOffsetCb"), se("QpOffsetCr")>>
      \o ToolsOfPPS
      \o When(o $ "TilesEnabledFlag" = 1, TilesOfPPS(o))
      \o <<flag("LoopFilterAcrossSlicesEnabledFlag")>>
      \o DeblockingOfPPS(o)
      \o <<flag("ScalingListPresentFlag")>>
      \o When(o $ "ScalingListPresentFlag" = 1, codeScalingList(o))
      \o <<flag("ListsModificationPresentFlag"), ue("Log2ParallelMergeLevelMinus2"),
           flag("SliceHeaderExtensionPresentFlag"), flagOf(Bool(differs))>>
      \o When(differs, <<flagOf(1)>> \o [i \in 1..7 |-> flagOf(0)] \o codeRangeExtensionOfPPS(o))

parseRangeExtensionOfPPS(p) ==
  LET last == (p $$ <<"syntax", "chroma_qp_offset_list_len_minus1">>) + 1
  IN  When(p $ "UseTransformSkip" = 1, <<ue("Log2MaxTransformSkipBlockSize") -- 2>>)
      \o <<flag("CrossComponentPredictionEnabledFlag"), syntax(flag("chroma_qp_offset_list_enabled_flag"))>>
      \o (IF p $$ <<"syntax", "chroma_qp_offset_list_enabled_flag">> = 0
          THEN <<set(Fields([ChromaQpOffsetListLen |-> 0, DiffCuChromaQpOffsetDepth |-> 0]))>>
          ELSE <<ue("DiffCuChromaQpOffsetDepth"), syntax(ue("chroma_qp_offset_list_len_minus1")), check(last <= 6)>>
               \o Each(1, last, LAMBDA i :
                    <<se("CbOffset") ** i, check((p $$ <<"CbOffset", i>>) \in -12..12),
                      se("CrOffset") ** i, check((p $$ <<"CrOffset", i>>) \in -12..12),
                      assign("ChromaQpOffsetListLen", i)>>))
      \o <<ue("Log2SaoOffsetScale") ** LUMA, ue("Log2SaoOffsetScale") ** CHROMA>>

parsePPSStart(p) ==
  <<ue("PPSId"), check(p $ "PPSId" <= 63), ue("SPSId"), check(p $ "SPSId" <= 15)>>
  \o StartOfPPS
  \o <<ue("NumRefIdxL0DefaultActive") -- 1, check(p $ "NumRefIdxL0DefaultActive" <= 15),
       ue("NumRefIdxL1DefaultActive") -- 1, check(p $ "NumRefIdxL1DefaultActive" <= 15), se("PicInitQPMinus26"),
       flag("ConstrainedIntraPred"), flag("UseTransformSkip"), flag("UseDQP")>>
  \o (IF p $ "UseDQP" = 1 THEN <<ue("MaxCuDQPDepth")>> ELSE <<assign("MaxCuDQPDepth", 0)>>)
  \o <<se("QpOffsetCb"), check((p $ "QpOffsetCb") \in -12..12), se("QpOffsetCr"), check((p $ "QpOffsetCr") \in -12..12)>>
  \o ToolsOfPPS
  \o When(p $ "TilesEnabledFlag" = 1, TilesOfPPS(p))

parsePPS(p) ==
  parsePPSStart(p)
  \o <<flag("LoopFilterAcrossSlicesEnabledFlag")>>
  \o DeblockingOfPPS(p)
  \o <<flag("ScalingListPresentFlag")>>
  \o When(p $ "ScalingListPresentFlag" = 1, parseScalingList(p))
  \o <<flag("ListsModificationPresentFlag"), ue("Log2ParallelMergeLevelMinus2"),
       flag("SliceHeaderExtensionPresentFlag")>>
  \o parseExtensions(p, "pps_extension_present_flag", parseRangeExtensionOfPPS(p))
=============================================================================
