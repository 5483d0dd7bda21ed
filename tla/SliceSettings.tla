----------------------------- MODULE SliceSettings -----------------------------
(***************************************************************************)
(* What the encoder puts into the header of a slice: TEncSlice::           *)
(* initEncSlice, and the part of TEncGOP::compressGOP that completes it.   *)
(*                                                                         *)
(* A picture s is a record: its poc, lastIDR and entry of the list of      *)
(* pictures; kind, which is "IDR", "CRA" or "TRAIL"; available, whether    *)
(* all pictures of its set are in the buffer; what coding the picture      *)
(* finds out: qp, sao, colDir, cabacInit and stats, the statistics the     *)
(* weights come from; address and sizes, the part of the picture that the  *)
(* slice is and the sizes of its substreams.                               *)
(*                                                                         *)
(* The weights of a slice come from WeightPredAnalysis.                    *)
(***************************************************************************)
EXTENDS SliceHeaderSyntax, EncoderSettings

(* The weights.  A picture has a statistic per component: dc, the mean of  *)
(* its samples, and ac, the sum of their distances from it.  The weight    *)
(* that leads from a reference to the picture is the quotient of the ac's, *)
(* the offset what is then missing in the dc's.                            *)

HighPrecision(sps) == sps $ "HighPrecisionOffsetsEnabledFlag" = 1
DepthOf(sps, c)    == sps $$ <<"BitDepth", IF c = 0 THEN LUMA ELSE CHROMA>>
RangeOf(sps, c)    == OffsetRange(sps, IF c = 0 THEN LUMA ELSE CHROMA)

AllComponents(sps) == {0} \cup Components(sps)

(* The quotient of the ac's, at most 15, in units of 2^-log2Denom.          *)
WeightOf(cur, ref, log2Denom) ==
  IF ref.ac = 0 THEN 2^log2Denom
  ELSE IF cur.ac >= 15 * ref.ac THEN 15 * 2^log2Denom
  ELSE (2 * cur.ac * 2^log2Denom + ref.ac) \div (2 * ref.ac)

ChromaOffset(range, weight, offset, log2Denom) ==
  LET pred == OffsetPrediction(range, weight, log2Denom)
  IN  Clip3(-range, range - 1, Clip3(-4 * range, 4 * range - 1, offset - pred) + pred)

OffsetOf(sps, c, cur, ref, weight, log2Denom) ==
  LET real   == log2Denom + IF HighPrecision(sps) THEN 0 ELSE DepthOf(sps, c) - 8
      offset == ((cur.dc * 2^log2Denom) - (weight * ref.dc) + 2^(real - 1)) \div 2^real
      range  == RangeOf(sps, c)
  IN  IF c = 0 THEN Clip3(-range, range - 1, offset) ELSE ChromaOffset(range, weight, offset, log2Denom)

InRange(delta, range) == delta < range /\ delta >= -range

(* Whether all weights can be given with this denominator.                 *)
xUpdatingWPParameters(sps, cur, ref, log2Denom) ==
  \A c \in AllComponents(sps) : InRange(WeightOf(cur[c], ref[c], log2Denom) - 2^log2Denom, RangeOf(sps, c))

(* Finer weights for many references; coarser ones until they are in range. *)
Log2Denom(sps, numRefIdx, cur, ref) ==
  CHOOSE d \in 0..7 : /\ d <= IF numRefIdx > 3 THEN 7 ELSE 6
                      /\ xUpdatingWPParameters(sps, cur, ref, d)
                      /\ \A e \in d + 1..(IF numRefIdx > 3 THEN 7 ELSE 6) : ~xUpdatingWPParameters(sps, cur, ref, e)

(* The search in the histograms moves a weight and an offset a little.      *)
WeightRange == 10
OffsetRangeOfSearch == 10

xSearchHistogram(sps, c, log2Denom, wp, moved) ==
  LET range  == RangeOf(sps, c)
      weight == Clip3(2^log2Denom - range, 2^log2Denom + range - 1,
                      wp.weight + Clip3(-WeightRange, WeightRange, moved))
      offset == wp.offset + Clip3(-OffsetRangeOfSearch, OffsetRangeOfSearch, moved)
  IN  [weight |-> weight,
       offset |-> IF c = 0 THEN Clip3(-range, range - 1, offset) ELSE ChromaOffset(range, weight, offset, log2Denom)]

(* What the comparison of the distortions does, for a reference: the        *)
(* components in keep have a weight, moved by the search or not.  The flag  *)
(* of chroma is for both components.                                        *)
WeightsOf(sps, cur, ref, log2Denom, keep, moved) ==
  [c \in AllComponents(sps) |->
     LET found == [weight |-> WeightOf(cur[c], ref[c], log2Denom),
                   offset |-> OffsetOf(sps, c, cur[c], ref[c], WeightOf(cur[c], ref[c], log2Denom), log2Denom)]
         wp    == IF moved = 0 THEN found ELSE xSearchHistogram(sps, c, log2Denom, found, moved)
     IN  [present |-> IF c = 0 THEN 0 \in keep ELSE keep \cap {1, 2} # {},
          weight  |-> IF c \in keep THEN wp.weight ELSE 2^log2Denom,
          offset  |-> IF c \in keep THEN wp.offset ELSE 0]]

(* The table of a slice.  Reference i is alike the first in all lists; the  *)
(* references in weighted have weights.  When none has, the table is reset. *)
xEstimateWPParamSlice(sps, lists, numRefIdx, stats) ==
  LET log2Denom == Log2Denom(sps, numRefIdx, stats.cur, stats.ref)
      table     == WeightsOf(sps, stats.cur, stats.ref, log2Denom, stats.keep, stats.moved)
      none      == numRefIdx = 0 \/ stats.keep = {} \/ stats.weighted \cap 0..numRefIdx - 1 = {}
      wp(i, c)  == IF none THEN [present |-> FALSE, weight |-> 1, offset |-> 0]
                   ELSE IF i \in stats.weighted THEN table[c]
                   ELSE [present |-> FALSE, weight |-> 2^log2Denom, offset |-> 0]
      keys(f)   == {f} \X lists \X (0..numRefIdx - 1) \X AllComponents(sps)
  IN  [key \in keys("WeightPresent") |-> Bool(wp(key[3], key[4]).present)]
      @@ [key \in keys("Weight") |-> wp(key[3], key[4]).weight]
      @@ [key \in keys("Offset") |-> wp(key[3], key[4]).offset]
      @@ [key \in {"Log2WeightDenom"} \X {LUMA, CHROMA} |-> IF none THEN 0 ELSE log2Denom]

-----------------------------------------------------------------------------
(* The header.                                                             *)

Irap(s) == s.kind \in {"IDR", "CRA"}

(* The set of the SPS that the picture refers to; entry 0 stands for none.  *)
selectReferencePictureSet(s) == s.entry - 1

(* An IRAP picture, or one whose pictures are not all there, has a set of   *)
(* its own: here the same pictures, none in use by an IRAP picture.         *)
OwnSet(s) == Irap(s) \/ ~s.available

createExplicitReferencePictureSet(sps, s) ==
  LET idx    == selectReferencePictureSet(s)
      own    == sps $ "NumberOfReferencePictureSets"
      number == IF s.available THEN NumberOfPictures(sps, idx) ELSE 0
  IN  At(own, [NumberOfNegativePictures |-> IF number = 0 THEN 0 ELSE sps $$ <<"NumberOfNegativePictures", idx>>,
               NumberOfPositivePictures |-> IF number = 0 THEN 0 ELSE sps $$ <<"NumberOfPositivePictures", idx>>,
               InterRPSPrediction |-> 0])
      @@ [key \in {"DeltaPOC"} \X {own} \X (0..number - 1) |-> sps $$ <<"DeltaPOC", idx, key[3]>>]
      @@ [key \in {"Used"} \X {own} \X (0..number - 1) |-> IF Irap(s) THEN 0 ELSE sps $$ <<"Used", idx, key[3]>>]

ReferenceSet(sps, s) ==
  IF OwnSet(s) THEN createExplicitReferencePictureSet(sps, s) @@ (<<"RPSidx">> :> -1)
  ELSE SetOfSPS(sps, selectReferencePictureSet(s), sps $ "NumberOfReferencePictureSets")
       @@ (<<"RPSidx">> :> selectReferencePictureSet(s))

(* The pictures of a list: those before the picture first in list 0, those  *)
(* after it first in list 1, as often as it takes.                          *)
RefPOCs(r, own, poc, list, numRefIdx) ==
  LET used    == SelectSeq([j \in 1..NumberOfPictures(r, own) |-> j - 1], LAMBDA j : r $$ <<"Used", own, j>> = 1)
      of(neg) == SelectSeq(used, LAMBDA j : (r $$ <<"DeltaPOC", own, j>> < 0) = neg)
      order   == of(list = 0) \o of(list # 0)
  IN  [i \in 1..numRefIdx |-> poc + (r $$ <<"DeltaPOC", own, order[((i - 1) % Len(order)) + 1]>>)]

SliceTypeOf(c, s, numRefIdx) ==
  CASE Irap(s) \/ c.GOPList[s.entry].sliceType = I_SLICE -> I_SLICE
    [] c.GOPList[s.entry].sliceType = P_SLICE            -> P_SLICE
    [] OTHER                                             -> IF numRefIdx = 0 THEN P_SLICE ELSE B_SLICE

(* The first picture of a GOP does not use the motion of another, when the  *)
(* mode says so.                                                            *)
EnableTMVP(c, s) == c.TMVPModeId = 1 \/ (c.TMVPModeId = 2 /\ s.entry # 1)

InterFields(c, sps, pps, s, type, numRefIdx) ==
  LET own   == sps $ "NumberOfReferencePictureSets"
      r     == ReferenceSet(sps, s)
      same  == type = B_SLICE /\ RefPOCs(r, own, s.poc, 0, numRefIdx) = RefPOCs(r, own, s.poc, 1, numRefIdx)
      lists == IF type = B_SLICE THEN {0, 1} ELSE {0}
      object == Fields([SliceType |-> type])
  IN  [key \in {"NumRefIdx"} \X {0, 1} |-> numRefIdx]
      @@ Fields([MvdL1ZeroFlag |-> Bool(same), ColFromL0Flag |-> IF type = B_SLICE THEN 1 - s.colDir ELSE 1,
                 ColRefIdx |-> 0, MaxNumMergeCand |-> c.maxNumMergeCand,
                 CabacInitFlag |-> IF type = I_SLICE THEN 0 ELSE s.cabacInit])
      @@ (IF SliceUsesWeights(object, pps) THEN xEstimateWPParamSlice(sps, lists, numRefIdx, s.stats) ELSE << >>)

(* The offset of a picture and that of the PPS are clipped together.        *)
ChromaQpDelta(offset, pps) == Clip3(-12, 12, Clip3(-12, 12, offset + pps) - pps)

ChromaFields(c, pps, s, type) ==
  LET periodic == c.sliceChromaQpOffsetPeriodicity # 0 /\ s.poc % c.sliceChromaQpOffsetPeriodicity = 0
      offset   == IF type = I_SLICE \/ periodic THEN c.sliceChromaQpOffsetIntraOrPeriodic
                  ELSE c.GOPList[s.entry].chromaQpOffset
      of(i, name) == IF pps $ "SliceChromaQpFlag" = 1 THEN ChromaQpDelta(offset[i], pps $ name) ELSE 0
  IN  (<<"SliceChromaQpDelta", 1>> :> of(1, "QpOffsetCb")) @@ (<<"SliceChromaQpDelta", 2>> :> of(2, "QpOffsetCr"))
      @@ Fields([UseChromaQpAdj |-> Bool(pps $ "ChromaQpOffsetListLen" > 0)])

Deblocking(override, disable, beta, tc) ==
  Fields([DeblockingFilterOverrideFlag |-> override, DeblockingFilterDisable |-> disable,
          DeblockingFilterBetaOffsetDiv2 |-> beta, DeblockingFilterTcOffsetDiv2 |-> tc])

FilterOfPictureParameters(pps) ==
  Deblocking(0, pps $ "PicDisableDeblockingFilterFlag", pps $ "DeblockingFilterBetaOffsetDiv2",
             pps $ "DeblockingFilterTcOffsetDiv2")

\* Other metrics: the blocking artifacts of the picture, 0 if there are none to speak of.
applyDeblockingFilterMetric(pps, artifacts) ==
  IF artifacts = 0 THEN FilterOfPictureParameters(pps)
  ELSE LET offset == Clip3(2, 6, artifacts) IN Deblocking(1, 0, offset, offset)

\* Metric 2: the offsets with the least distortion.
applyDeblockingFilterParameterSelection(pps, best) ==
  LET offset == Clip3(-3, 3, best)
  IN  IF /\ offset = pps $ "DeblockingFilterBetaOffsetDiv2"
         /\ offset = pps $ "DeblockingFilterTcOffsetDiv2"
      THEN FilterOfPictureParameters(pps)
      ELSE Deblocking(1, 0, offset, offset)

DeblockingFields(c, pps, s, type) ==
  LET override == pps $ "DeblockingFilterOverrideEnabledFlag"
      entry    == c.GOPList[s.entry]
      own      == override = 1 /\ type # I_SLICE
      beta     == c.loopFilterBetaOffsetDiv2 + (IF own THEN entry.betaOffsetDiv2 ELSE 0)
      tc       == c.loopFilterTcOffsetDiv2 + (IF own THEN entry.tcOffsetDiv2 ELSE 0)
  IN  CASE c.deblockingFilterMetric \notin {0, 2} -> applyDeblockingFilterMetric(pps, s.filter)
        [] c.deblockingFilterMetric = 2 -> applyDeblockingFilterParameterSelection(pps, s.filter)
        [] c.deblockingFilterMetric = 0 /\ pps $ "DeblockingFilterControlPresentFlag" = 1 ->
             Deblocking(override, pps $ "PicDisableDeblockingFilterFlag", beta, tc)
        [] OTHER -> Deblocking(0, 0, 0, 0)

SliceFields(c, sps, pps, s) ==
  LET refs      == ReferenceSet(sps, s)
      own       == sps $ "NumberOfReferencePictureSets"
      numRefIdx == Smaller(c.GOPList[s.entry].numRefPicsActive, NumberOfPictures(refs, own))
      type      == SliceTypeOf(c, s, numRefIdx)
  IN  Fields([SliceType |-> type, POC |-> s.poc, LastIDR |-> s.lastIDR,
              RapPicFlag |-> Bool(Irap(s)), IdrPicFlag |-> Bool(s.kind = "IDR"), BlaPicFlag |-> 0,
              NoOutputPriorPicsFlag |-> 0, PicOutputFlag |-> 1, PPSId |-> 0, SliceQp |-> s.qp,
              EnableTMVPFlag |-> Bool(EnableTMVP(c, s)),
              LFCrossSliceBoundaryFlag |-> pps $ "LoopFilterAcrossSlicesEnabledFlag",
              SliceSegmentAddress |-> s.address, DependentSliceSegmentFlag |-> s.dependent,
              NumberOfSubstreamSizes |-> Len(s.sizes)])
      @@ Array("SubstreamSize", s.sizes)
      @@ [key \in {"SaoEnabledFlag"} \X {LUMA, CHROMA} |-> IF c.useSAO = 1 THEN s.sao[key[2] + 1] ELSE 0]
      @@ refs @@ InterFields(c, sps, pps, s, type, numRefIdx)
      @@ ChromaFields(c, pps, s, type) @@ DeblockingFields(c, pps, s, type)
=============================================================================
