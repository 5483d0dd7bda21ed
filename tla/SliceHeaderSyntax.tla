-------------------------- MODULE SliceHeaderSyntax --------------------------
(***************************************************************************)
(* The slice segment header: what TEncCavlc writes of a TComSlice and what *)
(* TDecCavlc parses into one, given the SPS and the PPS that the slice     *)
(* refers to.  The type of the NAL unit comes before the header, so the    *)
(* reader knows RapPicFlag, IdrPicFlag and BlaPicFlag.                     *)
(*                                                                         *)
(* Long-term pictures are left out: the encoder never sets                 *)
(* LongTermRefsPresent.                                                    *)
(***************************************************************************)
EXTENDS ParameterSetSyntax

B_SLICE == 0
P_SLICE == 1
I_SLICE == 2

Slice(o, type) == o $ "SliceType" = type

SliceUsesWeights(o, pps) ==
  \/ pps $ "UseWP" = 1 /\ Slice(o, P_SLICE)
  \/ pps $ "WPBiPred" = 1 /\ Slice(o, B_SLICE)

CeilLog2(n) == CHOOSE bits \in 0..31 : 2^bits >= n /\ (bits = 0 \/ 2^(bits - 1) < n)

InCtus(samples, ctu) == (samples + ctu - 1) \div ctu

NumberOfCtus(sps) ==
  InCtus(sps $ "PicWidthInLumaSamples", sps $ "MaxCUWidth") * InCtus(sps $ "PicHeightInLumaSamples", sps $ "MaxCUHeight")

Lists(o) == IF Slice(o, B_SLICE) THEN <<0, 1>> ELSE <<0>>

-----------------------------------------------------------------------------
(* Weighted prediction: component 0 is luma, 1 and 2 are chroma.           *)

Components(sps) == IF sps $ "ChromaFormatIdc" = CHROMA_400 THEN {} ELSE {1, 2}

OffsetRange(sps, channel) ==
  IF sps $ "HighPrecisionOffsetsEnabledFlag" = 1 THEN 2^((sps $$ <<"BitDepth", channel>>) - 1) ELSE 128

(* The offset of a chroma component is coded as the difference from what   *)
(* its weight does to the middle of the range.                              *)
OffsetPrediction(range, weight, log2Denom) == range - ((range * weight) \div 2^log2Denom)

WeightElements(o, sps, list, i, c) ==
  LET denom  == o $$ <<"Log2WeightDenom", IF c = 0 THEN LUMA ELSE CHROMA>>
      weight == o $$ <<"Weight", list, i, c>>
      offset == o $$ <<"Offset", list, i, c>>
  IN  <<seOf(weight - 2^denom),
        IF c = 0 THEN se("Offset") ** list ** i ** c
        ELSE seOf(offset - OffsetPrediction(OffsetRange(sps, CHROMA), weight, denom))>>

SignalledWeights(o, sps) ==
  LET refs == {<<list, i>> \in {0, 1} \X (0..15) : list < Len(Lists(o)) /\ i < o $$ <<"NumRefIdx", list>>}
      of(c) == {r \in refs : o $$ <<"WeightPresent", r[1], r[2], c>> = 1}
  IN  Cardinality(of(0)) + 2 * Cardinality(of(1))

xCodePredWeightTable(o, sps) ==
  LET chroma        == Components(sps) # {}
      lumaDenom     == o $$ <<"Log2WeightDenom", LUMA>>
      last(list)    == (o $$ <<"NumRefIdx", list>>) - 1
      Present(list, i, c) == o $$ <<"WeightPresent", list, i, c>> = 1
      List(list) ==
        Each(0, last(list), LAMBDA i : <<flag("WeightPresent") ** list ** i ** 0>>)
        \o When(chroma, Each(0, last(list), LAMBDA i :
             <<check(Present(list, i, 1) <=> Present(list, i, 2)), flag("WeightPresent") ** list ** i ** 1>>))
        \o Each(0, last(list), LAMBDA i :
             When(Present(list, i, 0), WeightElements(o, sps, list, i, 0))
             \o When(chroma /\ Present(list, i, 1),
                     WeightElements(o, sps, list, i, 1) \o WeightElements(o, sps, list, i, 2)))
  IN  <<ueOf(lumaDenom)>>
      \o When(chroma, <<seOf((o $$ <<"Log2WeightDenom", CHROMA>>) - lumaDenom)>>)
      \o FlattenSeq([n \in DOMAIN Lists(o) |-> List(Lists(o)[n])])
      \o <<check(SignalledWeights(o, sps) <= 24)>>

Clip3(low, high, v) == IF v < low THEN low ELSE IF v > high THEN high ELSE v

(* A weight that is not signalled is 1, its offset 0.                      *)
WeightRead(p, sps, list, i, c) ==
  LET denom  == p $$ <<"Log2WeightDenom", IF c = 0 THEN LUMA ELSE CHROMA>>
      weight == (p $$ <<"syntax", "delta_weight", list, i, c>>) + 2^denom
      delta  == p $$ <<"syntax", "delta_offset", list, i, c>>
      range  == OffsetRange(sps, CHROMA)
      offset == IF c = 0 THEN delta
                ELSE Clip3(-range, range - 1, delta + OffsetPrediction(range, weight, denom))
      present == p $$ <<"WeightPresent", list, i, IF c = 0 THEN 0 ELSE 1>> = 1
  IN  (<<"Weight", list, i, c>> :> IF present THEN weight ELSE 2^denom)
      @@ (<<"Offset", list, i, c>> :> IF present THEN offset ELSE 0)

ParsedWeight(p, sps, list, i, c) ==
  LET range == IF c = 0 THEN OffsetRange(sps, LUMA) ELSE 4 * OffsetRange(sps, CHROMA)
  IN  When(p $$ <<"WeightPresent", list, i, IF c = 0 THEN 0 ELSE 1>> = 1,
           <<syntax(se("delta_weight") ** list ** i ** c),
             check((p $$ <<"syntax", "delta_weight", list, i, c>>) \in -128..127),
             syntax(se("delta_offset") ** list ** i ** c),
             check((p $$ <<"syntax", "delta_offset", list, i, c>>) \in -range..range - 1)>>)
      \o <<set(WeightRead(p, sps, list, i, c))>>

xParsePredWeightTable(p, sps) ==
  LET chroma     == Components(sps) # {}
      denoms     == p $$ <<"Log2WeightDenom", LUMA>>
      delta      == p $$ <<"syntax", "delta_chroma_log2_weight_denom">>
      last(list) == (p $$ <<"NumRefIdx", list>>) - 1
      List(list) ==
        Each(0, last(list), LAMBDA i : <<flag("WeightPresent") ** list ** i ** 0>>)
        \o When(chroma, Each(0, last(list), LAMBDA i :
             <<flag("WeightPresent") ** list ** i ** 1,
               set(<<"WeightPresent", list, i, 2>> :> (p $$ <<"WeightPresent", list, i, 1>>))>>))
        \o Each(0, last(list), LAMBDA i :
             ParsedWeight(p, sps, list, i, 0)
             \o When(chroma, ParsedWeight(p, sps, list, i, 1) \o ParsedWeight(p, sps, list, i, 2)))
  IN  <<ue("Log2WeightDenom") ** LUMA, check(denoms <= 7)>>
      \o When(chroma, <<syntax(se("delta_chroma_log2_weight_denom")), check(delta + denoms \in 0..7),
                        set(<<"Log2WeightDenom", CHROMA>> :> delta + denoms)>>)
      \o FlattenSeq([n \in DOMAIN Lists(p) |-> List(Lists(p)[n])])
      \o <<check(SignalledWeights(p, sps) <= 24)>>

-----------------------------------------------------------------------------
(* The writer.                                                             *)

PicOrderCntLsb(o, sps) == ((o $ "POC") - (o $ "LastIDR") + 2^(sps $ "BitsForPOC")) % 2^(sps $ "BitsForPOC")

codeReferencePictures(o, sps) ==
  LET numSets == sps $ "NumberOfReferencePictureSets"
      bits    == CeilLog2(numSets)
  IN  <<uOf(sps $ "BitsForPOC", PicOrderCntLsb(o, sps)),
        check(o $ "RapPicFlag" = 1 => \A j \in 0..NumberOfPictures(o, numSets) - 1 : o $$ <<"Used", numSets, j>> = 0)>>
      \o IF o $ "RPSidx" < 0
         THEN <<flagOf(0)>> \o codeShortTermRefPicSet(o, TRUE, numSets)
         ELSE <<flagOf(1)>> \o When(bits > 0, <<u(bits, "RPSidx")>>)

codeNumRefIdx(o, pps) ==
  LET active(list) == o $$ <<"NumRefIdx", list>>
      override     == \/ active(0) # pps $ "NumRefIdxL0DefaultActive"
                      \/ Slice(o, B_SLICE) /\ active(1) # pps $ "NumRefIdxL1DefaultActive"
  IN  <<flagOf(Bool(override))>>
      \o When(override, FlattenSeq([n \in DOMAIN Lists(o) |-> <<(ue("NumRefIdx") ** Lists(o)[n]) -- 1>>]))

ColRefIdxCoded(o) ==
  LET from == IF o $ "ColFromL0Flag" = 1 THEN 0 ELSE 1
  IN  ~Slice(o, I_SLICE) /\ o $$ <<"NumRefIdx", from>> > 1

SaoEnabled(o, sps) ==
  /\ sps $ "UseSAO" = 1
  /\ \/ o $$ <<"SaoEnabledFlag", LUMA>> = 1
     \/ sps $ "ChromaFormatIdc" # CHROMA_400 /\ o $$ <<"SaoEnabledFlag", CHROMA>> = 1

LoopFilterFlagCoded(o, sps, pps) ==
  /\ pps $ "LoopFilterAcrossSlicesEnabledFlag" = 1
  /\ SaoEnabled(o, sps) \/ o $ "DeblockingFilterDisable" = 0

codeInter(o, sps, pps) ==
  codeNumRefIdx(o, pps)
  \o When(Slice(o, B_SLICE), <<flag("MvdL1ZeroFlag")>>)
  \o When(pps $ "CabacInitPresentFlag" = 1, <<flag("CabacInitFlag")>>)
  \o When(o $ "EnableTMVPFlag" = 1,
          When(Slice(o, B_SLICE), <<flag("ColFromL0Flag")>>)
          \o When(ColRefIdxCoded(o), <<ue("ColRefIdx")>>))
  \o When(SliceUsesWeights(o, pps), xCodePredWeightTable(o, sps))
  \o <<check(o $ "MaxNumMergeCand" <= 5), ueOf(5 - (o $ "MaxNumMergeCand"))>>

codeDeblocking(o, pps) ==
  When(pps $ "DeblockingFilterControlPresentFlag" = 1,
       When(pps $ "DeblockingFilterOverrideEnabledFlag" = 1, <<flag("DeblockingFilterOverrideFlag")>>)
       \o When(o $ "DeblockingFilterOverrideFlag" = 1,
            <<flag("DeblockingFilterDisable")>>
            \o When(o $ "DeblockingFilterDisable" = 0,
                 <<se("DeblockingFilterBetaOffsetDiv2"), se("DeblockingFilterTcOffsetDiv2")>>)))

(* The offsets are written in as many bits as the largest needs.           *)
codeTilesWPPEntryPoint(o, pps) ==
  LET number == o $ "NumberOfSubstreamSizes"
      sizes  == {o $$ <<"SubstreamSize", i>> : i \in 0..number - 1} \cup {0}
      bits   == CHOOSE b \in 1..31 : (\A s \in sizes : s < 2^b) /\ (b = 1 \/ \E s \in sizes : s >= 2^(b - 1))
  IN  When(pps $ "TilesEnabledFlag" = 1 \/ pps $ "EntropyCodingSyncEnabledFlag" = 1,
           <<check(bits < 32), ue("NumberOfSubstreamSizes")>>
           \o When(number > 0, <<ueOf(bits - 1)>>
                \o Each(0, number - 1, LAMBDA i : <<(u(bits, "SubstreamSize") ** i) -- 1>>)))

codeSlice(o, sps, pps) ==
  LET chroma == sps $ "ChromaFormatIdc" # CHROMA_400
  IN  Each(1, pps $ "NumExtraSliceHeaderBits", LAMBDA i : <<flagOf(0)>>)
      \o <<ue("SliceType")>>
      \o When(pps $ "OutputFlagPresentFlag" = 1, <<flag("PicOutputFlag")>>)
      \o When(o $ "IdrPicFlag" = 0,
           codeReferencePictures(o, sps)
           \o When(sps $ "TMVPFlagsPresent" = 1, <<flag("EnableTMVPFlag")>>))
      \o When(sps $ "UseSAO" = 1,
           <<flag("SaoEnabledFlag") ** LUMA>> \o When(chroma, <<flag("SaoEnabledFlag") ** CHROMA>>))
      \o When(~Slice(o, I_SLICE), codeInter(o, sps, pps))
      \o <<seOf((o $ "SliceQp") - ((pps $ "PicInitQPMinus26") + 26))>>
      \o When(pps $ "SliceChromaQpFlag" = 1 /\ chroma, <<se("SliceChromaQpDelta") ** 1, se("SliceChromaQpDelta") ** 2>>)
      \o When(pps $ "ChromaQpOffsetListLen" > 0, <<flag("UseChromaQpAdj")>>)
      \o codeDeblocking(o, pps)
      \o When(LoopFilterFlagCoded(o, sps, pps), <<flag("LFCrossSliceBoundaryFlag")>>)

codeSliceHeader(o, sps, pps) ==
  LET address == o $ "SliceSegmentAddress"
  IN  <<flagOf(Bool(address = 0))>>
      \o When(o $ "RapPicFlag" = 1, <<flag("NoOutputPriorPicsFlag")>>)
      \o <<ueOf(pps $ "PPSId")>>
      \o When(pps $ "DependentSliceSegmentsEnabledFlag" = 1 /\ address # 0, <<flag("DependentSliceSegmentFlag")>>)
      \o When(address > 0, <<uOf(CeilLog2(NumberOfCtus(sps)), address)>>)
      \o When(o $ "DependentSliceSegmentFlag" = 0, codeSlice(o, sps, pps))
      \o When(pps $ "SliceHeaderExtensionPresentFlag" = 1, <<ueOf(0)>>)
      \o codeTilesWPPEntryPoint(o, pps)

-----------------------------------------------------------------------------
(* The reader.                                                             *)

\* Mutant: half the range counts as a step forward, not back.
PicOrderCnt_Forward(lsb, prevTid0POC, bits, bla) ==
  LET max     == 2^bits
      prevLsb == prevTid0POC % max
      prevMsb == prevTid0POC - prevLsb
      msb     == IF bla THEN 0
                 ELSE IF lsb < prevLsb /\ prevLsb - lsb > max \div 2 THEN prevMsb + max
                 ELSE IF lsb > prevLsb /\ lsb - prevLsb > max \div 2 THEN prevMsb - max
                 ELSE prevMsb
  IN  msb + lsb

(* The picture order count from its low bits and the last picture of the   *)
(* lowest sub-layer.                                                        *)
PicOrderCnt(lsb, prevTid0POC, bits, bla) ==
  LET max     == 2^bits
      prevLsb == prevTid0POC % max
      prevMsb == prevTid0POC - prevLsb
      msb     == IF bla THEN 0
                 ELSE IF lsb < prevLsb /\ prevLsb - lsb >= max \div 2 THEN prevMsb + max
                 ELSE IF lsb > prevLsb /\ lsb - prevLsb > max \div 2 THEN prevMsb - max
                 ELSE prevMsb
  IN  msb + lsb

(* The fields of set idx of sps, as set own of the slice.                  *)
SetOfSPS(sps, idx, own) ==
  LET number == NumberOfPictures(sps, idx)
  IN  [key \in {<<"NumberOfNegativePictures", own>>, <<"NumberOfPositivePictures", own>>} |-> sps $$ <<key[1], idx>>]
      @@ [key \in {<<name, own, j>> : name \in {"DeltaPOC", "Used"}, j \in 0..number - 1} |->
            sps $$ <<key[1], idx, key[3]>>]

NoPictures(own) ==
  [key \in {<<"NumberOfNegativePictures", own>>, <<"NumberOfPositivePictures", own>>} |-> 0]

(* A set of the slice's own is parsed with no byte counter: the program     *)
(* reads through a null pointer.                                            *)
parseReferencePictures(p, sps, prevTid0POC) ==
  LET numSets == sps $ "NumberOfReferencePictureSets"
      bits    == CeilLog2(numSets)
      index   == IF bits > 0 THEN p $$ <<"syntax", "short_term_ref_pic_set_idx">> ELSE 0
      bla     == p $ "BlaPicFlag" = 1
  IN  <<syntax(u(sps $ "BitsForPOC", "pic_order_cnt_lsb")),
        assign("POC", PicOrderCnt(p $$ <<"syntax", "pic_order_cnt_lsb">>, prevTid0POC, sps $ "BitsForPOC", bla)),
        syntax(flag("short_term_ref_pic_set_sps_flag"))>>
      \o (IF p $$ <<"syntax", "short_term_ref_pic_set_sps_flag">> = 0 THEN <<check(FALSE)>>
          ELSE When(bits > 0, <<syntax(u(bits, "short_term_ref_pic_set_idx"))>>)
               \o <<set(SetOfSPS(sps, index, numSets))>>)
      \o When(bla, <<set(NoPictures(numSets))>>)

parseNumRefIdx(p, pps) ==
  IF p $$ <<"syntax", "num_ref_idx_active_override_flag">> = 1
  THEN <<(ue("NumRefIdx") ** 0) -- 1>>
       \o (IF Slice(p, B_SLICE) THEN <<(ue("NumRefIdx") ** 1) -- 1>> ELSE <<set(<<"NumRefIdx", 1>> :> 0)>>)
  ELSE <<set(<<"NumRefIdx", 0>> :> pps $ "NumRefIdxL0DefaultActive"),
         set(<<"NumRefIdx", 1>> :> IF Slice(p, B_SLICE) THEN pps $ "NumRefIdxL1DefaultActive" ELSE 0)>>

parseInter(p, sps, pps) ==
  <<syntax(flag("num_ref_idx_active_override_flag"))>>
  \o parseNumRefIdx(p, pps)
  \o When(Slice(p, B_SLICE), <<flag("MvdL1ZeroFlag")>>)
  \o <<assign("CabacInitFlag", 0)>>
  \o When(pps $ "CabacInitPresentFlag" = 1, <<flag("CabacInitFlag")>>)
  \o When(p $ "EnableTMVPFlag" = 1,
          (IF Slice(p, B_SLICE) THEN <<flag("ColFromL0Flag")>> ELSE <<assign("ColFromL0Flag", 1)>>)
          \o (IF ColRefIdxCoded(p) THEN <<ue("ColRefIdx")>> ELSE <<assign("ColRefIdx", 0)>>))
  \o When(SliceUsesWeights(p, pps), xParsePredWeightTable(p, sps))
  \o <<syntax(ue("five_minus_max_num_merge_cand")),
       assign("MaxNumMergeCand", 5 - (p $$ <<"syntax", "five_minus_max_num_merge_cand">>))>>

parseChromaQp(p, pps) ==
  LET Both(c, name) == <<check((p $$ <<"SliceChromaQpDelta", c>>) \in -12..12),
                         check((p $$ <<"SliceChromaQpDelta", c>>) + (pps $ name) \in -12..12)>>
  IN  <<se("SliceChromaQpDelta") ** 1>> \o Both(1, "QpOffsetCb")
      \o <<se("SliceChromaQpDelta") ** 2>> \o Both(2, "QpOffsetCr")

DeblockingSettings(disable, beta, tc) ==
  Fields([DeblockingFilterDisable |-> disable, DeblockingFilterBetaOffsetDiv2 |-> beta,
          DeblockingFilterTcOffsetDiv2 |-> tc])

DeblockingOfPictureParameters(pps) ==
  DeblockingSettings(pps $ "PicDisableDeblockingFilterFlag", pps $ "DeblockingFilterBetaOffsetDiv2",
                   pps $ "DeblockingFilterTcOffsetDiv2")

parseDeblocking(p, pps) ==
  IF pps $ "DeblockingFilterControlPresentFlag" = 0 THEN <<set(DeblockingSettings(0, 0, 0))>>
  ELSE (IF pps $ "DeblockingFilterOverrideEnabledFlag" = 1 THEN <<flag("DeblockingFilterOverrideFlag")>>
        ELSE <<assign("DeblockingFilterOverrideFlag", 0)>>)
       \o (IF p $ "DeblockingFilterOverrideFlag" = 1
           THEN <<flag("DeblockingFilterDisable")>>
                \o When(p $ "DeblockingFilterDisable" = 0,
                     <<se("DeblockingFilterBetaOffsetDiv2"), check((p $ "DeblockingFilterBetaOffsetDiv2") \in -6..6),
                       se("DeblockingFilterTcOffsetDiv2"), check((p $ "DeblockingFilterTcOffsetDiv2") \in -6..6)>>)
           ELSE <<set(DeblockingOfPictureParameters(pps))>>)

parseEntryPoints(p, pps) ==
  LET bits == (p $$ <<"syntax", "offset_len_minus1">>) + 1
  IN  When(pps $ "TilesEnabledFlag" = 1 \/ pps $ "EntropyCodingSyncEnabledFlag" = 1,
           <<ue("NumberOfSubstreamSizes")>>
           \o When(p $ "NumberOfSubstreamSizes" > 0,
                <<syntax(ue("offset_len_minus1"))>>
                \o Each(0, (p $ "NumberOfSubstreamSizes") - 1, LAMBDA i : <<(u(bits, "SubstreamSize") ** i) -- 1>>)))

parseSlice(p, sps, pps, prevTid0POC) ==
  LET chroma == sps $ "ChromaFormatIdc" # CHROMA_400
  IN  Each(1, pps $ "NumExtraSliceHeaderBits", LAMBDA i : <<syntax(flag("slice_reserved_flag"))>>)
      \o <<ue("SliceType")>>
      \o (IF pps $ "OutputFlagPresentFlag" = 1 THEN <<flag("PicOutputFlag")>> ELSE <<assign("PicOutputFlag", 1)>>)
      \o (IF p $ "IdrPicFlag" = 1
          THEN <<assign("POC", 0), set(NoPictures(sps $ "NumberOfReferencePictureSets"))>>
          ELSE parseReferencePictures(p, sps, prevTid0POC)
               \o (IF sps $ "TMVPFlagsPresent" = 1 THEN <<flag("EnableTMVPFlag")>> ELSE <<assign("EnableTMVPFlag", 0)>>))
      \o When(sps $ "UseSAO" = 1,
           <<flag("SaoEnabledFlag") ** LUMA>> \o When(chroma, <<flag("SaoEnabledFlag") ** CHROMA>>))
      \o When(p $ "IdrPicFlag" = 1, <<assign("EnableTMVPFlag", 0)>>)
      \o When(~Slice(p, I_SLICE), parseInter(p, sps, pps))
      \o <<syntax(se("slice_qp_delta")),
           assign("SliceQp", 26 + (pps $ "PicInitQPMinus26") + (p $$ <<"syntax", "slice_qp_delta">>)),
           check((p $ "SliceQp") \in -(sps $$ <<"QpBDOffset", LUMA>>)..51)>>
      \o When(pps $ "SliceChromaQpFlag" = 1 /\ chroma, parseChromaQp(p, pps))
      \o (IF pps $ "ChromaQpOffsetListLen" > 0 THEN <<flag("UseChromaQpAdj")>> ELSE <<assign("UseChromaQpAdj", 0)>>)
      \o parseDeblocking(p, pps)
      \o (IF LoopFilterFlagCoded(p, sps, pps) THEN <<flag("LFCrossSliceBoundaryFlag")>>
          ELSE <<assign("LFCrossSliceBoundaryFlag", pps $ "LoopFilterAcrossSlicesEnabledFlag")>>)

parseSliceHeader(p, sps, pps, prevTid0POC) ==
  LET first == p $$ <<"syntax", "first_slice_segment_in_pic_flag">> = 1
  IN  <<syntax(flag("first_slice_segment_in_pic_flag"))>>
      \o When(p $ "RapPicFlag" = 1, <<flag("NoOutputPriorPicsFlag")>>)
      \o <<ue("PPSId")>>
      \o (IF pps $ "DependentSliceSegmentsEnabledFlag" = 1 /\ ~first THEN <<flag("DependentSliceSegmentFlag")>>
          ELSE <<assign("DependentSliceSegmentFlag", 0)>>)
      \o (IF first THEN <<assign("SliceSegmentAddress", 0)>>
          ELSE <<u(CeilLog2(NumberOfCtus(sps)), "SliceSegmentAddress")>>)
      \o When(p $ "DependentSliceSegmentFlag" = 0, parseSlice(p, sps, pps, prevTid0POC))
      \o parseEntryPoints(p, pps)
      \o When(pps $ "SliceHeaderExtensionPresentFlag" = 1,
           <<syntax(ue("extension_length"))>>
           \o Each(1, p $$ <<"syntax", "extension_length">>, LAMBDA i : <<syntax(u(8, "extension_data_byte"))>>))
=============================================================================
