-------------------------- MODULE CodingTreeWriter --------------------------
(***************************************************************************)
(* Writing the coding units of a CTU: TEncCu::xEncodeCU with the functions *)
(* of TEncEntropy and TEncSbac it calls.                                   *)
(*                                                                         *)
(* e holds what is written (see TransformTree) and w what has been.        *)
(***************************************************************************)
EXTENDS SampleAdaptiveOffset

CodedUnit(e, z) == e.d[e.ctu][z]
IsIntra(unit)   == unit.mode = "intra"
AtMinCu(s, depth) == depth = s.minCuDepth
AllowsNxN(s, depth) == AtMinCu(s, depth) /\ CuSize(s, depth) # 8   \* of inter CUs

(* The z-scan addresses of the partitions of an intra CU.                  *)
IntraParts(s, unit, z, depth) ==
  IF unit.part = "SIZE_NxN" THEN [k \in 1..4 |-> z + (k - 1) * NumParts(s, depth + 1)] ELSE <<z>>

PcmAllowed(s, depth) == /\ s.usePcm
                        /\ CuSize(s, depth) <= 2^s.pcmLog2Max
                        /\ CuSize(s, depth) >= 2^s.pcmLog2Min

InsidePicture(s, ctu, z, depth) ==
  /\ PelX(s, ctu, z) + CuSize(s, depth) <= s.width
  /\ PelY(s, ctu, z) + CuSize(s, depth) <= s.height
BeginsInPicture(s, ctu, z) == PelX(s, ctu, z) < s.width /\ PelY(s, ctu, z) < s.height

-----------------------------------------------------------------------------
(* Flags of a CU.                                                          *)

SkipCtx(s, d, ctu, z)  == <<"skip", getCtxSkipFlag(s, d, ctu, z)>>
SplitCtx(s, d, ctu, z, depth) == <<"split", getCtxSplitFlag(s, d, ctu, z, depth)>>
PartCtx(k) == <<"part size", k>>

codeSplitFlag(e, z, depth) ==
  If(~AtMinCu(e.s, depth),
     Coded(SplitCtx(e.s, e.d, e.ctu, z, depth), Bit(CodedUnit(e, z).depth > depth)))

codeSkipFlag(e, z) == Coded(SkipCtx(e.s, e.d, e.ctu, z), Bit(CodedUnit(e, z).skip))

codePredMode(unit) == Coded(<<"pred mode", 0>>, Bit(IsIntra(unit)))

codePartSize(s, unit, depth) ==
  LET horizontal == {"SIZE_2NxN", "SIZE_2NxnU", "SIZE_2NxnD"}
      vertical   == {"SIZE_Nx2N", "SIZE_nLx2N", "SIZE_nRx2N"}
      amp        == If(s.amp /\ ~AtMinCu(s, depth),
                       IF unit.part \in {"SIZE_2NxN", "SIZE_Nx2N"} THEN Coded(PartCtx(3), 1)
                       ELSE Coded(PartCtx(3), 0)
                            \o Coded(Bypass, Bit(unit.part \in {"SIZE_2NxnD", "SIZE_nRx2N"})))
  IN  CASE IsIntra(unit) -> If(AtMinCu(s, depth), Coded(PartCtx(0), Bit(unit.part = "SIZE_2Nx2N")))
        [] ~IsIntra(unit) /\ unit.part = "SIZE_2Nx2N" -> Coded(PartCtx(0), 1)
        [] ~IsIntra(unit) /\ unit.part \in horizontal -> Coded(PartCtx(0), 0) \o Coded(PartCtx(1), 1) \o amp
        [] ~IsIntra(unit) /\ unit.part \in vertical ->
             Coded(PartCtx(0), 0) \o Coded(PartCtx(1), 0)
             \o If(AllowsNxN(s, depth), Coded(PartCtx(2), 1)) \o amp
        [] OTHER -> If(AllowsNxN(s, depth),
                       Coded(PartCtx(0), 0) \o Coded(PartCtx(1), 0) \o Coded(PartCtx(2), 0))

(* The samples of a component of a PCM unit are one bin, of the width the  *)
(* SPS gives them; sampleBits * samples bits of the bitstream.             *)
PcmCtx(s, comp, depth) == <<"pcm", s.pcmBits[Channel(comp) + 1], CuSize(s, depth)>>

RECURSIVE PcmSamples(_, _, _, _)
PcmSamples(e, z, depth, comp) ==
  If(comp \in Components(e.s),
     Coded(PcmCtx(e.s, comp, depth), e.coef[<<comp, z>>][0]) \o PcmSamples(e, z, depth, comp + 1))

codeIPCMInfo(e, z, depth) ==
  LET unit == CodedUnit(e, z)
  IN  Coded(Terminate, Bit(unit.ipcm))
      \o If(unit.ipcm, Coded(Aligned, 0) \o PcmSamples(e, z, depth, 0))

-----------------------------------------------------------------------------
(* Intra modes.                                                            *)

Ascending(predictors) == SetToSortSeq({predictors[k] : k \in DOMAIN predictors}, <)

(* A mode that is none of the predictors is coded without counting them.   *)
WithoutPredictors(mode, predictors) ==
  FoldRight(LAMBDA p, m : IF m > p THEN m - 1 ELSE m, Ascending(predictors), mode)

(* The index of the predictor that a mode is, or the mode.                 *)
codeLumaMode(mode, preds) ==
  LET predIdx == {i \in 0..2 : preds[i + 1] = mode}
  IN  IF predIdx = {} THEN encodeBinsEP(WithoutPredictors(mode, preds), 5)
      ELSE LET i == CHOOSE i \in predIdx : TRUE
           IN  Coded(Bypass, Bit(i > 0)) \o If(i > 0, Coded(Bypass, i - 1))

(* The modes of the parts, after the flags of all of them.                 *)
codeLumaModes(modes, preds) ==
  [k \in DOMAIN modes |-> <<(<<"luma mode", 0>>), Bit(\E i \in 1..3 : preds[k][i] = modes[k])>>]
  \o FlattenSeq([k \in DOMAIN modes |-> codeLumaMode(modes[k], preds[k])])

codeIntraDirLumaAng(e, z, depth) ==
  LET parts == IntraParts(e.s, CodedUnit(e, z), z, depth)
  IN  codeLumaModes([k \in DOMAIN parts |-> CodedUnit(e, parts[k]).intraDir[1]],
                    Table([k \in DOMAIN parts |-> getIntraDirPredictor(e.s, e.d, e.ctu, parts[k])]))

codeIntraDirChroma(e, z) ==
  LET unit    == CodedUnit(e, z)
      allowed == getAllowedChromaDir(unit.intraDir[1])
      index   == CHOOSE k \in 1..5 : allowed[k] = unit.intraDir[2]
  IN  IF unit.intraDir[2] = DM_CHROMA_IDX THEN Coded(<<"chroma mode", 0>>, 0)
      ELSE Coded(<<"chroma mode", 0>>, 1) \o encodeBinsEP(index - 1, 2)

(* The units whose chroma mode is coded.                                   *)
ChromaParts(s, unit, z, depth) ==
  CASE s.chroma = "400" -> << >>
    [] s.chroma = "444" -> IntraParts(s, unit, z, depth)
    [] OTHER -> <<z>>

-----------------------------------------------------------------------------
(* Inter prediction.                                                       *)

codeMergeIndex(s, unit) ==
  xWriteUnaryMaxSymbol(unit.mergeIdx, <<"merge idx", 0>>, Bypass, s.maxMergeCand - 1)

InterDirCtx(k) == <<"inter dir", k>>
codeInterDir(e, z, depth) ==
  LET unit == CodedUnit(e, z)
  IN  If(unit.part = "SIZE_2Nx2N" \/ CuSize(e.s, depth) # 8,
         Coded(InterDirCtx(getCtxInterDir(e.d, e.ctu, z)), Bit(unit.dir = 3)))
      \o If(unit.dir < 3, Coded(InterDirCtx(4), unit.dir - 1))

NumRefIdx(s, list) == IF list = 1 \/ s.isB THEN Len(s.refPOC[list]) ELSE 0

RefCtx(k) == <<"ref idx", k>>
codeRefFrmIdx(s, ref, numRef) ==
  Coded(RefCtx(0), Bit(ref # 0))
  \o If(ref > 0, xWriteUnaryMaxSymbol(ref - 1, RefCtx(1), Bypass, numRef - 2))

MvdLeftOut(s, list, dir) == s.mvdL1Zero /\ list = 2 /\ dir = 3

codeMvd(s, mvd) ==
  LET Size(v) == If(v # 0, If(Abs(v) > 1, xWriteEpExGolomb(Abs(v) - 2, 1)) \o Coded(Bypass, Bit(v < 0)))
  IN  Coded(<<"mvd", 0>>, Bit(mvd[1] # 0)) \o Coded(<<"mvd", 0>>, Bit(mvd[2] # 0))
      \o If(mvd[1] # 0, Coded(<<"mvd", 1>>, Bit(Abs(mvd[1]) > 1)))
      \o If(mvd[2] # 0, Coded(<<"mvd", 1>>, Bit(Abs(mvd[2]) > 1)))
      \o Size(mvd[1]) \o Size(mvd[2])

codeMVPIdx(idx) == xWriteUnaryMaxSymbol(idx, <<"mvp idx", 0>>, <<"mvp idx", 0>>, AMVP_MAX_NUM_CANDS - 1)

(* Reference, vector difference and predictor of one list.                 *)
codeMotion(s, unit, list) ==
  If(NumRefIdx(s, list) > 0 /\ UsesList(unit.dir, list),
     If(NumRefIdx(s, list) # 1, codeRefFrmIdx(s, unit.ref[list], NumRefIdx(s, list)))
     \o If(~MvdLeftOut(s, list, unit.dir), codeMvd(s, unit.mvd[list]))
     \o codeMVPIdx(unit.mvp[list]))

encodePU(e, z, depth) ==
  LET unit == CodedUnit(e, z)
  IN  Coded(<<"merge flag", 0>>, Bit(unit.merge))
      \o IF unit.merge THEN codeMergeIndex(e.s, unit)
         ELSE If(e.s.isB, codeInterDir(e, z, depth))
              \o codeMotion(e.s, unit, 1) \o codeMotion(e.s, unit, 2)

RECURSIVE encodePUWise(_, _, _, _)
encodePUWise(e, z, depth, idx) ==
  LET part == CodedUnit(e, z).part
  IN  If(idx < NumPartitions(part),
         encodePU(e, PartIdxLT(e.s, z, depth, part, idx), depth) \o encodePUWise(e, z, depth, idx + 1))

encodePredInfo(e, z, depth) ==
  LET chroma == ChromaParts(e.s, CodedUnit(e, z), z, depth)
  IN  IF IsIntra(CodedUnit(e, z))
        THEN codeIntraDirLumaAng(e, z, depth)
             \o FlattenSeq([k \in DOMAIN chroma |-> codeIntraDirChroma(e, chroma[k])])
        ELSE encodePUWise(e, z, depth, 0)

-----------------------------------------------------------------------------
(* Coding units.                                                           *)

(* A bin that says that the slice segment goes on.                         *)
finishCU(e, z, depth, w) ==
  Written(w, If(/\ isLastSubCUOfCtu(e.s, e.ctu, z, depth)
                /\ e.s.segment[e.ctu].end # e.s.rsToTs[e.ctu] + 1,
                Coded(Terminate, 0)))

(* A delta QP and a chroma QP adjustment may come once in every CU of the  *)
(* depths the PPS gives them, and in every larger one.                     *)
Reopened(s, w, depth, split) ==
  LET Begins(groupDepth) == IF split THEN depth = groupDepth ELSE depth <= groupDepth
  IN  [w EXCEPT !.dqp = @ \/ (s.useDqp /\ Begins(s.dqpDepth)),
                !.adj = @ \/ (s.useChromaQpAdj /\ Begins(s.chromaQpAdjDepth))]

(* What is coded before the prediction of a CU.                            *)
codeHead(e, s, unit, z, depth) ==
  If(s.bypassEnabled, Coded(<<"cu bypass", 0>>, Bit(unit.bypass)))
  \o If(~s.isI, codeSkipFlag(e, z))
  \o IF unit.skip THEN codeMergeIndex(s, unit)
     ELSE If(~s.isI, codePredMode(unit))
          \o codePartSize(s, unit, depth)
          \o If(IsIntra(unit) /\ unit.part = "SIZE_2Nx2N" /\ PcmAllowed(s, depth), codeIPCMInfo(e, z, depth))

(* Prediction and residual follow unless it is skipped or PCM.             *)
encodeBody(e, unit, z, depth, w) ==
  IF unit.skip \/ unit.ipcm THEN w
  ELSE encodeCoeff(e, z, depth, Written(w, encodePredInfo(e, z, depth)))

encodeLeaf(e, z, depth, w) ==
  LET unit == CodedUnit(e, z)
  IN  finishCU(e, z, depth,
               encodeBody(e, unit, z, depth,
                          Written(Reopened(e.s, w, depth, FALSE), codeHead(e, e.s, unit, z, depth))))

RECURSIVE xEncodeCU(_, _, _, _)
xEncodeCU(e, z, depth, w) ==
  LET s      == e.s
      inside == InsidePicture(s, e.ctu, z, depth)
      split  == ~inside \/ (depth < CodedUnit(e, z).depth /\ depth < s.minCuDepth)
      head   == Written(w, If(inside, codeSplitFlag(e, z, depth)))
      Part(k, before) == LET u == z + k * NumParts(s, depth + 1)
                         IN  IF BeginsInPicture(s, e.ctu, u) THEN xEncodeCU(e, u, depth + 1, before) ELSE before
  IN  After(w, IF split THEN InTurn(Part, Reopened(s, head, depth, TRUE))
               ELSE encodeLeaf(e, z, depth, head))

encodeCtu(e, w) == xEncodeCU(e, 0, 0, [w EXCEPT !.dqp = @ \/ e.s.useDqp, !.adj = @ \/ e.s.useChromaQpAdj])
=============================================================================
