-------------------------- MODULE CodingTreeReader --------------------------
(***************************************************************************)
(* Reading the coding units of a CTU: TDecCu::xDecodeCU with the functions *)
(* of TDecEntropy and TDecSbac it calls.                                   *)
(*                                                                         *)
(* r is what has been read (see TransformTree), with end: whether the CTU  *)
(* is the last one of its slice segment.                                   *)
(***************************************************************************)
EXTENDS CodingTreeWriter

ReadUnit(r, ctu, z) == r.d[ctu][z]

(* Several fields of the units.                                            *)
PutAll(r, ctu, units, values) ==
  [r EXCEPT !.d[ctu] = Table([z \in DOMAIN @ |-> IF z \in units THEN values @@ @[z] ELSE @[z]])]

-----------------------------------------------------------------------------
(* Flags of a CU.                                                          *)

parseSplitFlag(r, s, ctu, z, depth) ==
  LET flag == Bin(r.c, SplitCtx(s, r.d, ctu, z, depth))
  IN  IF AtMinCu(s, depth) THEN Put(r, ctu, CuUnits(s, z, depth), "depth", depth)
      ELSE Put(At1(r, flag), ctu, CuUnits(s, z, depth), "depth", depth + flag.v)

parseCUTransquantBypassFlag(r, s, ctu, z, depth) ==
  LET flag == Bin(r.c, <<"cu bypass", 0>>)
  IN  IF s.bypassEnabled THEN Put(At1(r, flag), ctu, CuUnits(s, z, depth), "bypass", flag.v = 1) ELSE r

parseSkipFlag(r, s, ctu, z, depth) ==
  LET flag == Bin(r.c, SkipCtx(s, r.d, ctu, z))
  IN  CASE s.isI -> r
        [] ~s.isI /\ flag.v = 0 -> At1(r, flag)
        [] OTHER -> PutAll(At1(r, flag), ctu, CuUnits(s, z, depth),
                           [skip |-> TRUE, mode |-> "inter", part |-> "SIZE_2Nx2N", merge |-> TRUE])

parsePredMode(r, s, ctu, z, depth) ==
  LET flag == Bin(r.c, <<"pred mode", 0>>)
  IN  IF s.isI THEN Put(r, ctu, CuUnits(s, z, depth), "mode", "intra")
      ELSE Put(At1(r, flag), ctu, CuUnits(s, z, depth), "mode", IF flag.v = 1 THEN "intra" ELSE "inter")

parsePartSize(r, s, ctu, z, depth) ==
  LET intra == ReadUnit(r, ctu, z).mode = "intra"
      b0 == Bin(r.c, PartCtx(0))
      b1 == Bin(b0, PartCtx(1))
      b2 == Bin(b1, PartCtx(2))
      whole == CASE b0.v = 1 -> [c |-> b0, v |-> "SIZE_2Nx2N"]
                 [] b0.v = 0 /\ b1.v = 1 -> [c |-> b1, v |-> "SIZE_2NxN"]
                 [] b0.v = 0 /\ b1.v = 0 /\ ~AllowsNxN(s, depth) -> [c |-> b1, v |-> "SIZE_Nx2N"]
                 [] OTHER -> [c |-> b2, v |-> IF b2.v = 1 THEN "SIZE_Nx2N" ELSE "SIZE_NxN"]
      asymmetric == [SIZE_2NxN |-> <<"SIZE_2NxnU", "SIZE_2NxnD">>,
                     SIZE_Nx2N |-> <<"SIZE_nLx2N", "SIZE_nRx2N">>]
      Which(size, second) == [c |-> second, v |-> asymmetric[size.v][second.v + 1]]
      IfAsymmetric(size, symmetric) ==
        IF symmetric.v = 1 THEN [size EXCEPT !.c = symmetric] ELSE Which(size, Bin(symmetric, Bypass))
      Amp(size) == IF s.amp /\ ~AtMinCu(s, depth) /\ size.v \in DOMAIN asymmetric
                     THEN IfAsymmetric(size, Bin(size.c, PartCtx(3))) ELSE size
      ofIntra == IF AtMinCu(s, depth) THEN [c |-> b0, v |-> IF b0.v = 1 THEN "SIZE_2Nx2N" ELSE "SIZE_NxN"]
                 ELSE [c |-> r.c, v |-> "SIZE_2Nx2N"]
      TrIdx(part)  == Larger(0, s.totalDepth + s.log2Unit - depth - s.log2MaxTu) + Bit(part = "SIZE_NxN")
      Parted(size) == Put(At1(r, size.c), ctu, CuUnits(s, z, depth), "part", size.v)
      Set(size)    == IF intra THEN Put(Parted(size), ctu, CuUnits(s, z, depth), "trIdx", TrIdx(size.v)) ELSE Parted(size)
  IN  Set(IF intra THEN ofIntra ELSE Amp(whole))

RECURSIVE ReadPcm(_, _, _, _, _)
ReadPcm(r, s, z, depth, comp) ==
  LET sample == Bin(r.c, PcmCtx(s, comp, depth))
  IN  IF comp \notin Components(s) THEN r
      ELSE ReadPcm([At1(r, sample) EXCEPT !.coef = (<<comp, z>> :> (0 :> sample.v)) @@ @],
                   s, z, depth, comp + 1)

parseIPCMInfo(r, s, ctu, z, depth) ==
  LET flag == Bin(r.c, Terminate)
      pcm  == PutAll(At1(r, align(flag)), ctu, CuUnits(s, z, depth),
                     [part |-> "SIZE_2Nx2N", trIdx |-> 0, ipcm |-> TRUE])
  IN  CASE ~PcmAllowed(s, depth) -> r
        [] PcmAllowed(s, depth) /\ flag.v = 0 -> At1(r, flag)
        [] OTHER -> ReadPcm(pcm, s, z, depth, 0)

-----------------------------------------------------------------------------
(* Intra modes.                                                            *)

(* The mode of each part, after the flags of all of them.                  *)
RECURSIVE ReadLumaModes(_, _, _, _, _, _, _)
ReadLumaModes(r, s, ctu, parts, flags, depth, k) ==
  LET preds == getIntraDirPredictor(s, r.d, ctu, parts[k])
      first == Bin(r.c, Bypass)
      index == IF first.v = 0 THEN first ELSE LET more == Bin(first, Bypass) IN Yields(more, 1 + more.v)
      coded == BinsEP(r.c, 5)
      mode  == IF flags[k] = 1 THEN preds[index.v + 1]
               ELSE FoldLeft(LAMBDA m, p : m + Bit(m >= p), coded.v, Ascending(preds))
      read  == PutOf(At1(r, IF flags[k] = 1 THEN index ELSE coded),
                     ctu, CuUnits(s, parts[k], depth), "intraDir", 0, LAMBDA old : mode)
  IN  IF k > Len(parts) THEN r ELSE ReadLumaModes(read, s, ctu, parts, flags, depth, k + 1)

parseIntraDirLumaAng(r, s, ctu, z, depth) ==
  LET parts == IntraParts(s, ReadUnit(r, ctu, z), z, depth)
      flags == BinsRead(r.c, Len(parts), LAMBDA values, k : <<"luma mode", 0>>)
  IN  ReadLumaModes(At1(r, flags), s, ctu, parts, flags.v, depth + Bit(Len(parts) = 4), 1)

parseIntraDirChroma(r, s, ctu, z, depth) ==
  LET flag  == Bin(r.c, <<"chroma mode", 0>>)
      index == BinsEP(flag, 2)
      mode  == getAllowedChromaDir(ReadUnit(r, ctu, z).intraDir[1])[index.v + 1]
      units == CuUnits(s, z, depth)
  IN  IF flag.v = 0 THEN PutOf(At1(r, flag), ctu, units, "intraDir", 1, LAMBDA old : DM_CHROMA_IDX)
      ELSE PutOf(At1(r, index), ctu, units, "intraDir", 1, LAMBDA old : mode)

(* The first chroma mode is given to the whole CU.                         *)
RECURSIVE ReadChromaModes(_, _, _, _, _, _)
ReadChromaModes(r, s, ctu, parts, depth, k) ==
  IF k > Len(parts) THEN r
  ELSE ReadChromaModes(parseIntraDirChroma(r, s, ctu, parts[k], depth + Bit(k > 1)), s, ctu, parts, depth, k + 1)

-----------------------------------------------------------------------------
(* Inter prediction.                                                       *)

parseMergeIndex(c, s) == xReadUnaryMaxSymbol(c, <<"merge idx", 0>>, Bypass, s.maxMergeCand - 1)

parseInterDir(c, r, s, ctu, z, depth) ==
  LET both == Bin(c, InterDirCtx(getCtxInterDir(r.d, ctu, z)))
      tried == ReadUnit(r, ctu, z).part = "SIZE_2Nx2N" \/ CuSize(s, depth) # 8
      one  == Bin(IF tried THEN both ELSE c, InterDirCtx(4))
  IN  CASE ~s.isB -> Yields(c, 1)
        [] s.isB /\ tried /\ both.v = 1 -> Yields(both, 3)
        [] OTHER -> Yields(one, one.v + 1)

parseRefFrmIdx(c, numRef) ==
  LET first == Bin(c, RefCtx(0))
      rest  == xReadUnaryMaxSymbol(first, RefCtx(1), Bypass, numRef - 2)
  IN  IF first.v = 0 THEN first ELSE Yields(rest, rest.v + 1)

decodeRefFrmIdxPU(c, s, list, dir) ==
  CASE ~UsesList(dir, list) -> Yields(c, NOT_VALID)
    [] UsesList(dir, list) /\ NumRefIdx(s, list) > 1 -> parseRefFrmIdx(c, NumRefIdx(s, list))
    [] OTHER -> Yields(c, 0)

(* The size of a component of a vector difference and its sign.            *)
parseMvdSign(c, size) == LET sign == Bin(c, Bypass) IN Yields(sign, IF sign.v = 1 THEN -size ELSE size)

parseMvdSize(c, some, more) ==
  LET Added(rest) == Yields(rest, rest.v + 2)
      Signed(rest) == parseMvdSign(rest, rest.v)
  IN  IF some = 0 THEN Yields(c, 0)
      ELSE Signed(IF more = 1 THEN Added(xReadEpExGolomb(c, 1)) ELSE Yields(c, 1))

parseMvdVer(hor, v0, v1) ==
  LET Vector(ver) == Yields(ver, <<hor.v, ver.v>>)
  IN  Vector(parseMvdSize(hor, v0, v1))

parseMvd(c, s, list, dir) ==
  LET h0 == Bin(c, <<"mvd", 0>>)
      v0 == Bin(h0, <<"mvd", 0>>)
      h1 == IF h0.v = 1 THEN Bin(v0, <<"mvd", 1>>) ELSE Yields(v0, 0)
      v1 == IF v0.v = 1 THEN Bin(h1, <<"mvd", 1>>) ELSE Yields(h1, 0)
  IN  IF ~UsesList(dir, list) \/ MvdLeftOut(s, list, dir) THEN Yields(c, ZeroMv)
      ELSE parseMvdVer(parseMvdSize(v1, h0.v, h1.v), v0.v, v1.v)

(* Reference, vector difference and predictor of one list.                 *)
WithMvp(mvd, ref, list, dir) ==
  LET mvp == IF UsesList(dir, list) THEN Bin(mvd, <<"mvp idx", 0>>) ELSE Yields(mvd, -1)
  IN  Yields(mvp, [ref |-> ref, mvd |-> mvd.v, mvp |-> mvp.v])
WithMvd(ref, s, list, dir) == WithMvp(parseMvd(ref, s, list, dir), ref.v, list, dir)
parseMotion(c, s, list, dir) == WithMvd(decodeRefFrmIdxPU(c, s, list, dir), s, list, dir)

(* A field of one list of the units.                                       *)
PutList(r, ctu, units, field, list, value) == PutOf(r, ctu, units, field, list - 1, LAMBDA old : value)

(* They give the vector.                                                   *)
PutMotion(r, ctu, units, list, motion, mv) ==
  PutList(PutList(PutList(PutList(r, ctu, units, "ref", list, motion.ref),
                          ctu, units, "mvd", list, motion.mvd),
                  ctu, units, "mvp", list, motion.mvp),
          ctu, units, "mv", list, mv)

MotionTaken(r, s, col, ctu, z, depth, idx, units, list, read) ==
  LET Sum(pred) == <<pred[1] + read.v.mvd[1], pred[2] + read.v.mvd[2]>>
  IN  PutMotion(At1(r, read), ctu, units, list, read.v,
                IF read.v.ref < 0 THEN ZeroMv
                ELSE Sum(fillMvpCand(s, r.d, col, ctu, z, depth, ReadUnit(r, ctu, z).part, idx,
                                     list, read.v.ref)[read.v.mvp + 1]))

ReadMotion(r, s, col, ctu, z, depth, idx, units, dir, list) ==
  IF NumRefIdx(s, list) = 0 THEN r
  ELSE MotionTaken(r, s, col, ctu, z, depth, idx, units, list, parseMotion(r.c, s, list, dir))

(* The motion of a merge candidate.                                        *)
TakeMotion(r, s, ctu, units, motion) ==
  LET Of(before, list) ==
        IF NumRefIdx(s, list) = 0 THEN before
        ELSE PutList(PutList(PutList(PutList(before, ctu, units, "mvp", list, 0),
                                     ctu, units, "mvd", list, ZeroMv),
                             ctu, units, "mv", list, motion.mv[list]),
                     ctu, units, "ref", list, motion.ref[list])
  IN  Of(Of(Put(r, ctu, units, "dir", motion.dir), 1), 2)

(* The partition that a merge candidate is derived for: small CUs share    *)
(* one list when merging is parallel.                                      *)
MergePart(s, depth, part, idx) ==
  IF s.parMrgLevel > 2 /\ part # "SIZE_2Nx2N" /\ CuSize(s, depth) <= 8
    THEN <<"SIZE_2Nx2N", 0>> ELSE <<part, idx>>

MergeMotion(s, d, col, ctu, z, depth, part, idx, mergeIdx) ==
  LET of == MergePart(s, depth, part, idx)
  IN  getInterMergeCandidates(s, d, col, ctu, z, depth, of[1], of[2])[mergeIdx + 1]

(* The merge index and the motion of its candidate.                        *)
decodeMerged(r, s, col, ctu, z, depth, part, idx, units, index) ==
  TakeMotion(Put(At1(r, index), ctu, units, "mergeIdx", index.v), s, ctu, units,
             MergeMotion(s, r.d, col, ctu, z, depth, part, idx, index.v))

(* The direction, and the motion of both lists.                            *)
decodeMoved(r, s, col, ctu, z, depth, idx, units, dir) ==
  LET opened == Put(At1(r, dir), ctu, units, "dir", dir.v)
  IN  ReadMotion(ReadMotion(opened, s, col, ctu, z, depth, idx, units, dir.v, 1),
                 s, col, ctu, z, depth, idx, units, dir.v, 2)

decodeFlagged(r, s, col, ctu, z, depth, part, idx, units, flag) ==
  LET flagged == Put(At1(r, flag), ctu, units, "merge", flag.v = 1)
      first   == PartIdxLT(s, z, depth, part, idx)
  IN  IF flag.v = 1
        THEN decodeMerged(flagged, s, col, ctu, z, depth, part, idx, units, parseMergeIndex(flag, s))
        ELSE decodeMoved(flagged, s, col, ctu, z, depth, idx, units,
                         parseInterDir(flag, flagged, s, ctu, first, depth))

(* No bidirectional prediction of the smallest partitions.                 *)
RestrictedPU(r, s, ctu, z, depth, part, idx, units) ==
  IF ReadUnit(r, ctu, PartIdxLT(s, z, depth, part, idx)).dir = 3 /\ isBipredRestriction(s, depth, part, idx)
    THEN PutList(PutList(Put(r, ctu, units, "dir", 1), ctu, units, "mv", 2, ZeroMv),
                 ctu, units, "ref", 2, NOT_VALID)
    ELSE r

decodePU(r, s, col, ctu, z, depth, idx) ==
  LET part  == ReadUnit(r, ctu, z).part
      units == PartUnits(s, z, depth, part, idx)
  IN  RestrictedPU(decodeFlagged(r, s, col, ctu, z, depth, part, idx, units, Bin(r.c, <<"merge flag", 0>>)),
                   s, ctu, z, depth, part, idx, units)

RECURSIVE decodePUWise(_, _, _, _, _, _, _)
decodePUWise(r, s, col, ctu, z, depth, idx) ==
  IF idx = NumPartitions(ReadUnit(r, ctu, z).part) THEN r
  ELSE decodePUWise(decodePU(r, s, col, ctu, z, depth, idx), s, col, ctu, z, depth, idx + 1)

decodePredInfo(r, s, col, ctu, z, depth) ==
  LET unit == ReadUnit(r, ctu, z)
  IN  IF IsIntra(unit)
        THEN ReadChromaModes(parseIntraDirLumaAng(r, s, ctu, z, depth),
                             s, ctu, ChromaParts(s, unit, z, depth), depth, 1)
        ELSE decodePUWise(r, s, col, ctu, z, depth, 0)

-----------------------------------------------------------------------------
(* Coding units.                                                           *)

(* The QP that a CU has unless it codes another.                           *)
DefaultQP(r, s, ctu, z, depth) ==
  Put(r, ctu, CuUnits(s, z, depth), "qp", getRefQP(s, r.d, ctu, z))

xDecodeSliceEnd(r, s, ctu, z, depth) ==
  LET flag == Bin(r.c, Terminate)
  IN  IF isLastSubCUOfCtu(s, ctu, z, depth) THEN [At1(r, flag) EXCEPT !.end = flag.v = 1]
      ELSE [r EXCEPT !.end = FALSE]

(* A CU that coded no delta QP gets the QP it is predicted to have.        *)
setdQPs(r, s, ctu, z, depth) ==
  CASE ~s.useDqp -> r
    [] s.useDqp /\ r.dqp -> DefaultQP(r, s, ctu, z, depth)
    [] OTHER -> Put(r, ctu, CuUnits(s, z, depth), "qp", r.codedQP)

setChromaQpAdj(r, s, ctu, z, depth) ==
  IF s.useChromaQpAdj /\ ~r.adj THEN Put(r, ctu, CuUnits(s, z, depth), "chromaQpAdj", r.codedAdj) ELSE r

xFinishDecodeCU(r, s, ctu, z, depth) ==
  xDecodeSliceEnd(setChromaQpAdj(setdQPs(r, s, ctu, z, depth), s, ctu, z, depth), s, ctu, z, depth)

(* A CU that is skipped only has a merge index.                            *)
decodeSkipped(r, s, col, ctu, z, depth) ==
  decodeMerged(r, s, col, ctu, z, depth, "SIZE_2Nx2N", 0, CuUnits(s, z, depth), parseMergeIndex(r.c, s))

(* Prediction and residual follow unless it is PCM.                        *)
decodeBody(r, s, col, ctu, z, depth) ==
  IF ReadUnit(r, ctu, z).ipcm THEN r
  ELSE decodeCoeff(s, ctu, z, depth, decodePredInfo(r, s, col, ctu, z, depth))

decodePcm(r, s, ctu, z, depth) ==
  IF IsIntra(ReadUnit(r, ctu, z)) /\ ReadUnit(r, ctu, z).part = "SIZE_2Nx2N"
    THEN parseIPCMInfo(r, s, ctu, z, depth) ELSE r

decodeSkipFlag(r, s, ctu, z, depth) ==
  parseSkipFlag(parseCUTransquantBypassFlag(r, s, ctu, z, depth), s, ctu, z, depth)

decodeOpened(r, s, col, ctu, z, depth) ==
  IF ReadUnit(r, ctu, z).skip THEN decodeSkipped(r, s, col, ctu, z, depth)
  ELSE decodeBody(decodePcm(parsePartSize(parsePredMode(r, s, ctu, z, depth), s, ctu, z, depth),
                            s, ctu, z, depth), s, col, ctu, z, depth)

decodeLeaf(r, s, col, ctu, z, depth) ==
  LET opened == Reopened(s, r, depth, FALSE)
  IN  xFinishDecodeCU(
        decodeOpened(
          decodeSkipFlag(IF s.useDqp /\ depth <= s.dqpDepth THEN DefaultQP(opened, s, ctu, z, depth) ELSE opened,
                         s, ctu, z, depth),
          s, col, ctu, z, depth),
        s, ctu, z, depth)

\* Mutant: it does not even get that.
setOutsideCUPart_Nothing(r, s, ctu, z, depth) == r

(* A part that is not decoded only gets its depth.                         *)
setOutsideCUPart(r, s, ctu, z, depth) == Put(r, ctu, CuUnits(s, z, depth), "depth", depth)

(* The units that a quantization group codes no QP for.                    *)
QpOfGroup(r, s, ctu, z, depth, needed) ==
  IF s.useDqp /\ depth = s.dqpDepth /\ needed THEN DefaultQP(r, s, ctu, z, depth) ELSE r

RECURSIVE xDecodeCU(_, _, _, _, _, _), xDecodeParts(_, _, _, _, _, _)
xDecodeParts(r, s, col, ctu, z, depth) ==
  LET Part(k, before) ==
        LET u == z + k * NumParts(s, depth + 1)
        IN  IF ~before.end /\ BeginsInPicture(s, ctu, u) THEN xDecodeCU(before, s, col, ctu, u, depth + 1)
            ELSE setOutsideCUPart(before, s, ctu, u, depth + 1)
      Ended(parts) == QpOfGroup(parts, s, ctu, z, depth, parts.dqp)
  IN  Ended(InTurn(Part, QpOfGroup(Reopened(s, r, depth, TRUE), s, ctu, z, depth, TRUE)))

xDecodeSplit(r, s, col, ctu, z, depth, inside) ==
  IF ~inside \/ (depth < ReadUnit(r, ctu, z).depth /\ depth < s.minCuDepth)
    THEN xDecodeParts(r, s, col, ctu, z, depth)
    ELSE decodeLeaf(r, s, col, ctu, z, depth)

xDecodeCU(r, s, col, ctu, z, depth) ==
  LET inside == InsidePicture(s, ctu, z, depth)
  IN  xDecodeSplit(IF inside THEN parseSplitFlag(r, s, ctu, z, depth) ELSE r, s, col, ctu, z, depth, inside)

decodeCtu(r, s, col, ctu) ==
  xDecodeCU([r EXCEPT !.dqp = @ \/ s.useDqp, !.adj = @ \/ s.useChromaQpAdj], s, col, ctu, 0, 0)
=============================================================================
