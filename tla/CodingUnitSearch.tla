-------------------------- MODULE CodingUnitSearch --------------------------
(***************************************************************************)
(* The encoder's choices for a CTU: TEncCu::xCompressCU and the functions  *)
(* of TEncCu and TEncSearch that fill a coding unit.                       *)
(*                                                                         *)
(* Which of the allowed choices is the cheapest depends on the samples, so *)
(* every choice is drawn: Draw(x, k, n) is the k-th one at the point x,    *)
(* among n.  What follows from a choice is what the code makes of it.  b   *)
(* is what has been chosen: the data d and the coefficients coef; e holds  *)
(* the settings s, the CTU, the collocated picture col and a seed, that    *)
(* with s.content makes the choices.                                       *)
(*                                                                         *)
(* With s.samples, there are samples: e also holds the original and the    *)
(* predicted planes, and the levels of a block are what transform and      *)
(* quantization make of the difference.  b then has the residual resi that *)
(* has been reconstructed, in planes of the CTU, and its blocks.  Without, *)
(* the levels are drawn.                                                   *)
(***************************************************************************)
EXTENDS CodingTreeReader, Transform

Point(e, z, k) == Hash(Hash(Hash(Hash(e.seed, e.s.content), e.ctu), z), k)

-----------------------------------------------------------------------------
(* initCtu and initSubCU: what a unit is before it is coded.               *)

initCtu(s) ==
  [z \in 0..(UnitsOfCtu(s) - 1) |->
     [depth |-> 0, mode |-> "none", part |-> "none", skip |-> FALSE, bypass |-> FALSE,
      qp |-> s.sliceQp, chromaQpAdj |-> 0, merge |-> FALSE, mergeIdx |-> 0, dir |-> 0,
      mv |-> <<ZeroMv, ZeroMv>>, ref |-> <<NOT_VALID, NOT_VALID>>, mvd |-> <<ZeroMv, ZeroMv>>,
      mvp |-> <<(-1), (-1)>>, intraDir |-> <<DC_IDX, 0>>, ipcm |-> FALSE, trIdx |-> 0,
      cbf |-> <<0, 0, 0>>, tskip |-> <<FALSE, FALSE, FALSE>>, rdpcm |-> <<0, 0, 0>>,
      alpha |-> <<0, 0, 0>>]]

-----------------------------------------------------------------------------
(* Residual.                                                               *)

(* Transformed and quantized samples, and the errors of the quantization.  *)
Quantized(s, t, x) ==
  LET sparse == 1 + Draw(x, 1, 9)
      last   == Draw(x, 2, 4^t.log2) + 1
      size   == <<2, 6, 6, 40, 4000>>[Draw(x, 3, 5) + 1]
      coef   == Table([p \in 0..(4^t.log2 - 1) |->
                         IF p < last /\ (Draw(x, 10 + p, sparse) = 0 \/ p = last - 1)
                           THEN 8 * Draw(x, 10 + 2 * p, size) + Draw(x, 11 + 3 * p, 8) - 4 * size
                           ELSE 0])
      q      == Table([p \in DOMAIN coef |-> IF coef[p] < 0 THEN -((3 - coef[p]) \div 8) ELSE (coef[p] + 3) \div 8])
      deltaU == Table([p \in DOMAIN coef |-> Abs(coef[p]) - 8 * Abs(q[p])])
  IN  IF SignHidingCoded(s, t) THEN Table(signBitHidingHDQ(t, q, coef, deltaU)) ELSE q

(* The tools a block is coded with: transform skip, RDPCM of inter blocks. *)
BlockTools(s, t, x) ==
  LET skip == s.transformSkip /\ HasTransformSkipFlag(s, t) /\ Draw(x, 4, 2) = 0
      rdpcm == ~t.intra /\ isRDPCMEnabled(s, t) /\ (t.bypass \/ skip)
  IN  [t EXCEPT !.skip = skip, !.rdpcm = IF rdpcm THEN Draw(x, 5, 3) ELSE 0]

DrawnBlock(s, t, x) ==
  [t |-> t, q |-> IF Draw(x, 7, 3) = 0 THEN Table([p \in {0} |-> 0]) ELSE Quantized(s, t, x)]

(* Where the block of a node is: in its picture, in its CTU.               *)
BlockOfPicture(e, n, comp, plane) ==
  LET z == BlockZ(e.s, n, comp)
  IN  Square(plane, PlaneWidth(e.s, comp), CuX(e.s, comp, e.ctu, z), CuY(e.s, comp, e.ctu, z),
           2^BlockLog2(e.s, n, comp))
BlockOfCtu(s, n, comp, plane) ==
  LET z == BlockZ(s, n, comp)
  IN  Square(plane, CuWidth(s, comp, 0), X(z) * UnitWidth(s, comp), Y(z) * UnitWidth(s, comp), 2^BlockLog2(s, n, comp))
WithBlockOfCtu(s, n, comp, plane, block) ==
  LET z == BlockZ(s, n, comp)
  IN  WithSquare(plane, CuWidth(s, comp, 0), X(z) * UnitWidth(s, comp), Y(z) * UnitWidth(s, comp),
               2^BlockLog2(s, n, comp), block)

(* xIntraCodingTUBlock, and a block of xEstimateInterResidualQT: chroma is *)
(* predicted from the residual that luma will have.                        *)
CrossedResidual(e, n, comp, t, b, r, reverse) ==
  LET alpha == b.d[e.ctu][n.z].alpha[comp + 1]
  IN  IF alpha = 0 THEN r
      ELSE crossComponentPrediction(e.s, t, alpha, BlockOfCtu(e.s, n, 0, b.resi[0]), r, reverse)

DifferenceOf(e, n, comp, t) ==
  LET Minus(org, pred) == BlockOf(t.log2, LAMBDA p : org[p] - pred[p])
  IN  Minus(BlockOfPicture(e, n, comp, e.original[comp]), BlockOfPicture(e, n, comp, e.predicted[comp]))

BlockBack(s, t, qp, q) ==
  IF \A p \in DOMAIN q : q[p] = 0 THEN BlockOf(t.log2, LAMBDA p : 0) ELSE invTransformNxN(s, t, qp, q)

WithBack(s, t, qp, r, coded) ==
  LET tools == [t EXCEPT !.rdpcm = IF t.intra THEN RDPCM_OFF ELSE coded.rdpcm]
  IN  [t |-> tools, rdpcm |-> coded.rdpcm, qp |-> qp, r |-> r, q |-> coded.q,
       back |-> BlockBack(s, tools, qp, coded.q)]

BlockOfResidual(s, t, qp, r) == WithBack(s, t, qp, r, transformNxN(s, t, qp, r))

WithResidual(e, n, comp, t, b, block) ==
  [resi |-> CrossedResidual(e, n, comp, t, b, block.back, TRUE)] @@ block

CodedBlock(e, n, comp, t, b) ==
  WithResidual(e, n, comp, t, b,
               BlockOfResidual(e.s, t, QpParam(e.s, b.d[e.ctu][n.cu], comp),
                               CrossedResidual(e, n, comp, t, b, DifferenceOf(e, n, comp, t), FALSE)))

(* A block with the coefficients, at a transform unit or, for chroma that  *)
(* four of them share, at their parent.                                    *)
WithLevels(e, n, comp, b, block) ==
  LET units == BlockUnits(e.s, n, comp)
      Bits(cbf) == cbf + (IF SharesBlock(e.s, n, comp) THEN 2^n.tr + 2^(n.tr - 1) ELSE 2^n.tr)
  IN  IF \A p \in DOMAIN block.q : block.q[p] = 0 THEN b
      ELSE [PutOf(PutOf(PutOf(b, e.ctu, units, "tskip", comp, LAMBDA old : block.t.skip),
                        e.ctu, units, "rdpcm", comp, LAMBDA old : block.t.rdpcm),
                  e.ctu, units, "cbf", comp, LAMBDA cbf : Bits(cbf))
              EXCEPT !.coef = (<<comp, BlockZ(e.s, n, comp)>> :> block.q) @@ @]

WithAlpha(e, n, comp, b) ==
  LET unit == b.d[e.ctu][n.z]
      x    == Point(e, n.z, 16 * TotalDepth(n) + comp)
  IN  IF ~CrossComponentTried(e.s, unit, comp) \/ CbfAt(unit, 0, n.tr) = 0 THEN b
      ELSE PutOf(b, e.ctu, BlockUnits(e.s, n, comp), "alpha", comp,
                 LAMBDA old : <<0, 1, 2, 4, 8, -1, -2, -4, -8>>[Draw(x, 6, 9) + 1])

WithSearched(e, n, comp, b, block) ==
  IF e.s.samples THEN [WithLevels(e, n, comp, b, block) EXCEPT
                         !.resi[comp] = WithBlockOfCtu(e.s, n, comp, @, block.resi),
                         !.blocks = (<<comp, BlockZ(e.s, n, comp)>> :> block) @@ @]
  ELSE WithLevels(e, n, comp, b, block)

searchTools(e, n, comp, x, t, b) ==
  WithSearched(e, n, comp, b, IF e.s.samples THEN CodedBlock(e, n, comp, t, b) ELSE DrawnBlock(e.s, t, x))

searchCrossed(e, n, comp, b) ==
  LET x == Point(e, n.z, 16 * TotalDepth(n) + comp)
  IN  searchTools(e, n, comp, x, BlockTools(e.s, Block(e.s, b.d[e.ctu], n, comp), x), b)

searchBlock(e, n, comp, b) == searchCrossed(e, n, comp, WithAlpha(e, n, comp, b))

RECURSIVE searchBlocks(_, _, _, _, _)
searchBlocks(e, n, comps, comp, b) ==
  IF comp = 3 THEN b
  ELSE After(b, searchBlocks(e, n, comps, comp + 1, IF comp \in comps THEN searchBlock(e, n, comp, b) ELSE b))

(* xRecurTransformNxN, xRecurIntraCodingQT, xEstimateInterResidualQT: a    *)
(* node is divided or coded; its flags are those of its children.          *)
Divided(e, n, b) ==
  LET tried == Subdivisions(e.s, b.d[e.ctu][n.z], n)
  IN  IF tried = {0, 1} THEN Draw(Point(e, n.z, 16 * TotalDepth(n) + 3), 1, 2) = 1 ELSE 1 \in tried

CbfOfChildren(e, n, b) ==
  LET s == e.s
      Combined(comp, before) ==
        IF comp \notin Components(s) THEN before
        ELSE OrCbf(before, e.ctu, CuUnits(s, n.z, TotalDepth(n)), comp, n.tr,
                   Bit(\E k \in 0..3 : CbfAt(before.d[e.ctu][Child(s, n, k).z], comp, n.tr + 1) = 1))
  IN  ComponentsInTurn(Combined, b)

RECURSIVE searchTransform(_, _, _)
searchTransform(e, n, b) ==
  LET s == e.s
      Section(k, before) == searchTransform(e, Child(s, n, k), before)
      Shared == {comp \in Components(s) : SharesBlock(s, Child(s, n, 0), comp)}
      Own    == {comp \in Components(s) : ~SharesBlock(s, n, comp)}
  IN  IF Divided(e, n, b) THEN CbfOfChildren(e, n, searchBlocks(e, Child(s, n, 0), Shared, 0, InTurn(Section, b)))
      ELSE searchBlocks(e, n, Own, 0, Put(b, e.ctu, CuUnits(s, n.z, TotalDepth(n)), "trIdx", n.tr))

-----------------------------------------------------------------------------
(* Intra CUs: xCheckRDCostIntra and xCheckIntraPCM.                        *)

RECURSIVE searchIntraModes(_, _, _, _, _)
searchIntraModes(e, parts, depth, k, b) ==
  LET z     == parts[k]
      units == CuUnits(e.s, z, depth)
      preds == getIntraDirPredictor(e.s, b.d, e.ctu, z)
      x     == Point(e, z, 128 + depth)
      luma  == IF Draw(x, 1, 3) = 0 THEN Draw(x, 2, 35) ELSE preds[Draw(x, 3, 3) + 1]
      chroma == getAllowedChromaDir(luma)[(IF Draw(x, 4, 2) = 0 THEN 4 ELSE Draw(x, 5, 4)) + 1]
  IN  IF k > Len(parts) THEN b
      ELSE searchIntraModes(e, parts, depth, k + 1, Put(b, e.ctu, units, "intraDir", <<luma, chroma>>))

(* The samples with the bits that PCM has.                                 *)
xEncPCM(e, z, depth, comp) ==
  LET org == CuOfPicture(e.s, comp, e.original[comp], e.ctu, z, depth)
  IN  Table([p \in DOMAIN org |-> org[p] \div 2^(BitDepth(e.s, comp) - e.s.pcmBits[Channel(comp) + 1])])

PcmCoded(e, z, depth, x) ==
  [k \in {<<comp, z>> : comp \in Components(e.s)} |->
     IF e.s.samples THEN xEncPCM(e, z, depth, k[1])
     ELSE (0 :> Draw(x, 3 + k[1], 2^e.s.pcmBits[Channel(k[1]) + 1]))]

(* One chroma mode for the CU, that of its first part, unless chroma is as *)
(* large as luma.                                                          *)
WithChromaMode(e, units, z, b) ==
  IF e.s.chroma = "444" THEN b
  ELSE PutOf(b, e.ctu, units, "intraDir", 1, LAMBDA old : b.d[e.ctu][z].intraDir[2])

searchIntra(e, z, depth, b) ==
  LET s      == e.s
      x      == Point(e, z, 144 + depth)
      nxn    == AtMinCu(s, depth) /\ CuSize(s, depth) > 2^s.log2MinTu /\ Draw(x, 1, 2) = 0
      pcm    == ~nxn /\ PcmAllowed(s, depth) /\ Draw(x, 2, 3) = 0
      units  == CuUnits(s, z, depth)
      begun  == PutAll(b, e.ctu, units, [mode |-> "intra", part |-> IF nxn THEN "SIZE_NxN" ELSE "SIZE_2Nx2N",
                                         ipcm |-> pcm])
  IN  IF pcm THEN [begun EXCEPT !.coef = PcmCoded(e, z, depth, x) @@ @]
      ELSE searchTransform(e, Root(z, depth),
             WithChromaMode(e, units, z,
               searchIntraModes(e, IntraParts(s, begun.d[e.ctu][z], z, depth), depth + Bit(nxn), 1, begun)))

-----------------------------------------------------------------------------
(* Inter CUs: predInterSearch, xMergeEstimation.                           *)

(* xRestrictBipredMergeCand, as decodePU has it.                           *)
Restricted(e, z, depth, idx, b) ==
  LET part  == b.d[e.ctu][z].part
      units == PartUnits(e.s, z, depth, part, idx)
      first == PartIdxLT(e.s, z, depth, part, idx)
  IN  IF b.d[e.ctu][first].dir = 3 /\ isBipredRestriction(e.s, depth, part, idx)
        THEN PutList(PutList(Put(b, e.ctu, units, "dir", 1), e.ctu, units, "mv", 2, ZeroMv),
                     e.ctu, units, "ref", 2, NOT_VALID)
        ELSE b

searchMerge(e, z, depth, idx, b) ==
  LET part  == b.d[e.ctu][z].part
      units == PartUnits(e.s, z, depth, part, idx)
      index == Draw(Point(e, z, 160 + 4 * depth + idx), 1, e.s.maxMergeCand)
  IN  Restricted(e, z, depth, idx,
                 TakeMotion(PutAll(b, e.ctu, units, [merge |-> TRUE, mergeIdx |-> index]), e.s, e.ctu, units,
                            MergeMotion(e.s, b.d, e.col, e.ctu, z, depth, part, idx, index)))

(* A vector near its predictor or far from it, and what is put of it.      *)
DrawnVector(s, x, dir, list, pred) ==
  LET Vector(k) == LET size == <<16, 256, 4000>>[Draw(x, k, 3) + 1] IN Draw(x, k + 1, size) - size \div 2
  IN  IF MvdLeftOut(s, list, dir) THEN pred
      ELSE <<Vector(10 + 4 * list), IF Draw(x, 6 + list, 3) = 0 THEN pred[2] ELSE Vector(12 + 4 * list)>>

PutVector(b, ctu, units, list, ref, mvp, pred, mv) ==
  PutMotion(b, ctu, units, list, [ref |-> ref, mvp |-> mvp, mvd |-> <<mv[1] - pred[1], mv[2] - pred[2]>>], mv)

PutPredicted(e, x, units, dir, list, ref, mvp, pred, b) ==
  PutVector(b, e.ctu, units, list, ref, mvp, pred, DrawnVector(e.s, x, dir, list, pred))

searchList(e, z, depth, part, idx, x, dir, list, b) ==
  LET ref == Draw(x, 2 + list, NumRefIdx(e.s, list))
      mvp == Draw(x, 4 + list, AMVP_MAX_NUM_CANDS)
  IN  IF ~UsesList(dir, list) THEN b
      ELSE PutPredicted(e, x, PartUnits(e.s, z, depth, part, idx), dir, list, ref, mvp,
                        fillMvpCand(e.s, b.d, e.col, e.ctu, z, depth, part, idx, list, ref)[mvp + 1], b)

searchMotion(e, z, depth, idx, b) ==
  LET s     == e.s
      part  == b.d[e.ctu][z].part
      x     == Point(e, z, 200 + 4 * depth + idx)
      both  == s.isB /\ ~isBipredRestriction(s, depth, part, idx)
      dir   == IF s.isB THEN 1 + Draw(x, 1, IF both THEN 3 ELSE 2) ELSE 1
  IN  searchList(e, z, depth, part, idx, x, dir, 2,
                 searchList(e, z, depth, part, idx, x, dir, 1,
                            Put(b, e.ctu, PartUnits(s, z, depth, part, idx), "dir", dir)))

RECURSIVE predInterSearch(_, _, _, _, _)
predInterSearch(e, z, depth, idx, b) ==
  LET merge == Draw(Point(e, z, 240 + 4 * depth + idx), 1, 2) = 0
  IN  IF idx = NumPartitions(b.d[e.ctu][z].part) THEN b
      ELSE predInterSearch(e, z, depth, idx + 1,
                           IF merge THEN searchMerge(e, z, depth, idx, b) ELSE searchMotion(e, z, depth, idx, b))

InterSizes(s, depth) ==
  <<"SIZE_2Nx2N", "SIZE_2NxN", "SIZE_Nx2N">>
  \o If(AllowsNxN(s, depth), <<"SIZE_NxN">>)
  \o If(s.amp /\ ~AtMinCu(s, depth), <<"SIZE_2NxnU", "SIZE_2NxnD", "SIZE_nLx2N", "SIZE_nRx2N">>)

(* encodeResAndCalcRdInterCU: a CU without residual is one transform unit, *)
(* and if it is merged as a whole it is skipped.                           *)
ResidualIfWanted(e, z, depth, x, motion, coded) ==
  LET unit == motion.d[e.ctu][z]
  IN  IF Draw(x, 2, 3) # 0 /\ \E comp \in Components(e.s) : CbfAt(coded.d[e.ctu][z], comp, 0) = 1
        THEN coded
        ELSE Put(motion, e.ctu, CuUnits(e.s, z, depth), "skip", unit.merge /\ unit.part = "SIZE_2Nx2N")

searchInterResidual(e, z, depth, x, motion) ==
  ResidualIfWanted(e, z, depth, x, motion, searchTransform(e, Root(z, depth), motion))

searchInter(e, z, depth, b) ==
  LET x     == Point(e, z, 150 + depth)
      sizes == InterSizes(e.s, depth)
      part  == sizes[Draw(x, 1, Len(sizes)) + 1]
  IN  searchInterResidual(e, z, depth, x,
        predInterSearch(e, z, depth, 0, PutAll(b, e.ctu, CuUnits(e.s, z, depth), [mode |-> "inter", part |-> part])))

-----------------------------------------------------------------------------
(* Coding units.                                                           *)

HasResidual(s, unit) == \E comp \in Components(s) : unit.cbf[comp + 1] # 0

(* xCheckDQP, and its like after the four parts of a quantization group:   *)
(* the CUs before the first one with a residual have the predicted QP.     *)
withRefQP(e, z, depth, b) ==
  LET units == CuUnits(e.s, z, depth)
      before == {u \in units : \A v \in z..u : ~HasResidual(e.s, b.d[e.ctu][v])}
  IN  IF e.s.useDqp THEN Put(b, e.ctu, before, "qp", getRefQP(e.s, b.d, e.ctu, z)) ELSE b

chromaQpAdjIdx(e, z) ==
  LET s == e.s
      lgMinCuSize == s.totalDepth + s.log2Unit - Smaller(s.chromaQpAdjDepth, s.minCuDepth)
  IN  IF s.useChromaQpAdj
        THEN (PelX(s, e.ctu, z) \div 2^lgMinCuSize + PelY(s, e.ctu, z) \div 2^lgMinCuSize) % (s.chromaQpAdjLen + 1)
        ELSE 0

QpOfLeaf(e, z, depth, b) == IF depth <= e.s.dqpDepth THEN withRefQP(e, z, depth, b) ELSE b

searchMode(e, z, depth, x, b) ==
  IF e.s.isI \/ Draw(x, 2, 4) = 0 THEN searchIntra(e, z, depth, b) ELSE searchInter(e, z, depth, b)

searchLeaf(e, z, depth, qp, b) ==
  LET s      == e.s
      x      == Point(e, z, 130 + depth)
      bypass == s.bypassEnabled /\ Draw(x, 1, 3) = 0
  IN  QpOfLeaf(e, z, depth,
               searchMode(e, z, depth, x,
                          PutAll(b, e.ctu, CuUnits(s, z, depth),
                                 [depth |-> depth, qp |-> qp, bypass |-> bypass,
                                  chromaQpAdj |-> IF bypass THEN 0 ELSE chromaQpAdjIdx(e, z)])))

(* qp is the QP of the quantization group the CU belongs to, if it is      *)
(* smaller than one.                                                       *)
RECURSIVE xCompressCU(_, _, _, _, _)
xCompressCU(e, z, depth, qp, b) ==
  LET s      == e.s
      x      == Point(e, z, 120 + depth)
      split  == ~InsidePicture(s, e.ctu, z, depth) \/ (~AtMinCu(s, depth) /\ Draw(x, 1, 3) # 0)
      drawn  == Clip3(-s.qpBdOffset, 51, s.sliceQp + Draw(x, 2, 2 * s.qpRange + 1) - s.qpRange)
      own    == IF s.useDqp /\ depth <= s.dqpDepth THEN drawn ELSE qp
      Part(k, before) ==
        LET u == z + k * NumParts(s, depth + 1)
        IN  IF BeginsInPicture(s, e.ctu, u) THEN xCompressCU(e, u, depth + 1, own, before)
            ELSE Put(before, e.ctu, CuUnits(s, u, depth + 1), "depth", depth + 1)
      parts  == InTurn(Part, b)
  IN  After(b, CASE ~split -> searchLeaf(e, z, depth, own, b)
                 [] split /\ depth = s.dqpDepth -> withRefQP(e, z, depth, parts)
                 [] OTHER -> parts)

compressCtu(e, b) ==
  LET resi == Table([comp \in Components(e.s) |-> Table([p \in 0..(CuWidth(e.s, comp, 0)^2 - 1) |-> 0])])
  IN  xCompressCU(e, 0, 0, e.s.sliceQp, [b EXCEPT !.d[e.ctu] = Table(initCtu(e.s)), !.coef = << >>,
                                                  !.resi = IF e.s.samples THEN resi ELSE << >>,
                                                  !.blocks = << >>])

-----------------------------------------------------------------------------
(* Sample adaptive offset: what a CTU chooses, to merge with a neighbour,  *)
(* or new parameters.                                                      *)

ChosenOffsets(s, x, comp) ==
  LET size(k) == Draw(x, 10 * comp + k, s.saoOffsets + 1)
      sign(k) == 1 - 2 * Draw(x, 10 * comp + 4 + k, 2)
      type    == Draw(x, 8 + (comp + 1) \div 2, 5)
  IN  IF type = BAND THEN SaoNew(BAND, Draw(x, 40 + comp, 32), [k \in 1..4 |-> sign(k) * size(k)])
      ELSE SaoNew(type, 0, <<size(1), size(2), -size(3), -size(4)>>)

ChosenSao(s, x, ctu) ==
  LET neighbours == {from \in {"left", "above"} : SaoNeighbour(s, ctu, from) # {}}
      wanted == IF Draw(x, 1, 2) = 0 THEN "left" ELSE "above"
      merge  == Draw(x, 2, 2) = 0 /\ wanted \in neighbours
      off(comp) == ~SaoEnabled(s, comp) \/ Draw(x, 3 + (comp + 1) \div 2, 3) = 0
  IN  [k \in 1..3 |-> CASE merge /\ k - 1 \in Components(s) -> SaoMerge(wanted)
                        [] ~merge /\ ~off(k - 1) -> ChosenOffsets(s, x, k - 1)
                        [] OTHER -> SaoOff]

(* The CTUs in raster order; chosen holds their params as they are coded,  *)
(* and sao as they are used.                                               *)
RECURSIVE decideBlkParams(_, _, _, _)
decideBlkParams(s, seed, ctu, chosen) ==
  LET params == IF SaoCoded(s) THEN ChosenSao(s, Hash(Hash(Hash(seed, s.content), ctu), 7), ctu) ELSE SaoAllOff
  IN  IF ctu \notin DOMAIN s.tile THEN chosen
      ELSE decideBlkParams(s, seed, ctu + 1,
             [chosen EXCEPT !.params[ctu] = params,
                            !.sao[ctu] = reconstructBlkSAOParam(s, chosen.sao, ctu, params)])
=============================================================================
