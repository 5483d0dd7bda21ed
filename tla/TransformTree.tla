--------------------------- MODULE TransformTree ---------------------------
(***************************************************************************)
(* The residual of a coding unit: TEncEntropy::encodeCoeff and             *)
(* TDecEntropy::decodeCoeff with the functions of TEncSbac and TDecSbac    *)
(* they call, and the shape of the tree of transform units (TComTU).       *)
(*                                                                         *)
(* A node n is the unit z where it begins, at transform depth tr of the    *)
(* coding unit cu at depth depth, the section-th child of its parent.  A   *)
(* writer w is what has been written: bins, stats (Golomb-Rice statistics) *)
(* and the flags dqp and adj: a delta QP, a chroma QP adjustment, may      *)
(* still come.  e holds what it writes: settings s, the data d of the      *)
(* picture, the CTU, the coefficients coef of its blocks.                  *)
(***************************************************************************)
EXTENDS MotionPrediction, TLC

-----------------------------------------------------------------------------
(* Shape.                                                                  *)

Root(cu, depth) == [cu |-> cu, depth |-> depth, z |-> cu, tr |-> 0, section |-> 0]

TotalDepth(n)  == n.depth + n.tr
Child(s, n, k) == [n EXCEPT !.z = @ + k * NumParts(s, TotalDepth(n) + 1), !.tr = @ + 1, !.section = k]
Log2Size(s, n) == s.totalDepth + s.log2Unit - TotalDepth(n)
CuUnits(s, cu, depth) == cu..(cu + NumParts(s, depth) - 1)

NumComponents(s) == IF s.chroma = "400" THEN 1 ELSE 3
Components(s)    == 0..(NumComponents(s) - 1)

(* Four 4 x 4 blocks of luma share one of chroma, which comes with the     *)
(* last of them (TComTU's mCodeAll).                                       *)
SharesBlock(s, n, comp)  == comp # 0 /\ s.chroma = "420" /\ Log2Size(s, n) = 2
ProcessingAllQuadrants(s, n, comp)  == ~SharesBlock(s, n, comp)
ProcessComponentSection(s, n, comp) == SharesBlock(s, n, comp) => n.section = 3

BlockDepth(s, n, comp) == TotalDepth(n) - Bit(SharesBlock(s, n, comp))
BlockZ(s, n, comp)     == IF SharesBlock(s, n, comp) THEN n.z - n.section * NumParts(s, TotalDepth(n)) ELSE n.z
BlockUnits(s, n, comp) == CuUnits(s, BlockZ(s, n, comp), BlockDepth(s, n, comp))
BlockLog2(s, n, comp)  == IF comp # 0 /\ s.chroma = "420" THEN Larger(2, Log2Size(s, n) - 1) ELSE Log2Size(s, n)

CbfAt(unit, comp, tr) == (unit.cbf[comp + 1] \div 2^tr) % 2

getQuadtreeTULog2MinSizeInCU(s, unit, depth) ==
  LET log2   == s.totalDepth + s.log2Unit - depth
      inter  == unit.mode = "inter"
      splits == IF inter THEN s.maxDepthInter - 1 + Bit(s.maxDepthInter = 1 /\ unit.part # "SIZE_2Nx2N")
                ELSE s.maxDepthIntra - 1 + Bit(unit.part = "SIZE_NxN")
  IN  IF log2 < s.log2MinTu + splits THEN s.log2MinTu ELSE Smaller(s.log2MaxTu, log2 - splits)

(* What the flag that divides a transform unit may be: one value, where it *)
(* is not coded.                                                           *)
Subdivisions(s, unit, n) ==
  LET log2 == Log2Size(s, n)
      min  == getQuadtreeTULog2MinSizeInCU(s, unit, n.depth)
  IN  CASE n.tr = 0 /\ unit.mode = "intra" /\ unit.part = "SIZE_NxN" -> {1}
        [] /\ n.tr = 0 /\ unit.mode = "inter" /\ unit.part # "SIZE_2Nx2N"
           /\ s.maxDepthInter = 1 -> {Bit(log2 > min)}
        [] OTHER -> IF log2 > s.log2MaxTu THEN {1}
                    ELSE IF log2 \in {s.log2MinTu, min} THEN {0} ELSE {0, 1}

(* The intra mode of a block; a chroma block that derives its mode takes   *)
(* that of luma, of the first partition unless chroma is as large.         *)
IntraMode(s, units, z, comp) ==
  LET chroma == units[z].intraDir[2]
      perMinCU == NumParts(s, s.minCuDepth)
      luma   == IF s.chroma = "444" THEN z ELSE (z \div perMinCU) * perMinCU
  IN  CASE comp = 0 -> units[z].intraDir[1]
        [] comp # 0 /\ chroma = DM_CHROMA_IDX -> units[luma].intraDir[1]
        [] OTHER -> chroma

(* The block of a component, for Residual.                                 *)
Block(s, units, n, comp) ==
  LET z     == BlockZ(s, n, comp)
      unit  == units[z]
      intra == unit.mode = "intra"
      mode  == IntraMode(s, units, z, comp)
      log2  == BlockLog2(s, n, comp)
  IN  [log2 |-> log2, comp |-> comp, intra |-> intra, mode |-> mode, bypass |-> unit.bypass,
       scanType |-> getCoefScanIdx(s, intra, mode, log2, comp),
       skip |-> unit.tskip[comp + 1], rdpcm |-> unit.rdpcm[comp + 1], range |-> s.range]

(* A picture without chroma residual and one transform unit of an inter CU *)
(* has a luma residual: there is no flag for it.                           *)
LumaInferred(s, unit, n) ==
  /\ unit.mode # "intra"
  /\ n.tr = 0
  /\ \A comp \in Components(s) \ {0} : CbfAt(unit, comp, 0) = 0

(* An unsplittable chroma block is coded with the parent's transform unit. *)
LowestTUDepth(s, n, comp, subdiv) == n.tr + Bit(subdiv = 1 /\ BlockLog2(s, n, comp) < 3)

CrossComponentTried(s, unit, comp) ==
  /\ comp # 0
  /\ s.crossComponent
  /\ unit.mode # "intra" \/ unit.intraDir[2] = DM_CHROMA_IDX

-----------------------------------------------------------------------------
(* Writing.                                                                *)

Written(w, bins) == [w EXCEPT !.bins = @ \o bins]

CbfCtx(comp, tr) == <<"cbf", Channel(comp), getCtxQtCbf(comp, tr)>>

CU_DQP_TU_CMAX == 5
CU_DQP_EG_k    == 0

codeDeltaQP(s, delta) ==
  LET half == s.qpBdOffset \div 2
      dqp  == ((delta + 78 + s.qpBdOffset + half) % (52 + s.qpBdOffset)) - 26 - half
      abs  == Abs(dqp)
  IN  xWriteUnaryMaxSymbol(Smaller(abs, CU_DQP_TU_CMAX), <<"delta qp", 0>>, <<"delta qp", 1>>, CU_DQP_TU_CMAX)
      \o If(abs >= CU_DQP_TU_CMAX, xWriteEpExGolomb(abs - CU_DQP_TU_CMAX, CU_DQP_EG_k))
      \o If(abs > 0, Coded(Bypass, Bit(dqp < 0)))

codeChromaQpAdjustment(s, idc) ==
  Coded(<<"chroma qp adj", 0>>, Bit(idc > 0))
  \o If(idc > 0 /\ s.chromaQpAdjLen > 1,
        xWriteUnaryMaxSymbol(idc - 1, <<"chroma qp idc", 0>>, <<"chroma qp idc", 0>>, s.chromaQpAdjLen - 1))

(* alpha is 0, or 1, 2, 4 or 8 of either sign.                             *)
CrossCtx(comp, k) == <<"cross", 5 * (comp - 1) + k>>
Log2Abs(alpha)    == CHOOSE k \in 0..3 : 2^k = Abs(alpha)

codeCrossComponentPrediction(s, unit, comp) ==
  LET alpha == unit.alpha[comp + 1]
      log2  == Log2Abs(alpha)
      coded == Coded(CrossCtx(comp, 0), Bit(alpha # 0))
               \o If(alpha # 0,
                     Coded(CrossCtx(comp, 1), Bit(log2 > 0))
                     \o If(log2 > 0, xWriteUnaryMaxSymbol(log2 - 1, CrossCtx(comp, 2), CrossCtx(comp, 3), 2))
                     \o Coded(CrossCtx(comp, 4), Bit(alpha < 0)))
  IN  If(CrossComponentTried(s, unit, comp), coded)

codeBlock(e, n, comp, w) ==
  LET s     == e.s
      units == e.d[e.ctu]
      unit  == units[n.z]
      crossed == If(comp # 0 /\ CbfAt(unit, 0, n.tr) = 1, codeCrossComponentPrediction(s, unit, comp))
      WithResidual(residual) == [Written(w, crossed \o residual.bins) EXCEPT !.stats = residual.stats]
  IN  CASE ~ProcessComponentSection(s, n, comp) -> w
        [] ProcessComponentSection(s, n, comp) /\ CbfAt(unit, comp, n.tr) = 0 -> Written(w, crossed)
        [] OTHER -> WithResidual(codeCoeffNxN(s, Block(s, units, n, comp),
                                              e.coef[<<comp, BlockZ(s, n, comp)>>], w.stats))

RECURSIVE codeBlocks(_, _, _, _)
codeBlocks(e, n, comp, w) ==
  IF comp \in Components(e.s) THEN After(w, codeBlocks(e, n, comp + 1, codeBlock(e, n, comp, w))) ELSE w

(* One transform unit: luma flag, delta QP, chroma QP adjustment, blocks.  *)
encodeTransformUnit(e, n, w) ==
  LET s     == e.s
      unit  == e.d[e.ctu][n.z]
      some  == \E comp \in Components(s) : CbfAt(unit, comp, n.tr) = 1
      someChroma == \E comp \in Components(s) \ {0} : CbfAt(unit, comp, n.tr) = 1
      luma  == IF LumaInferred(s, unit, n) THEN Asserted(CbfAt(unit, 0, 0) = 1)
               ELSE Coded(CbfCtx(0, n.tr), CbfAt(unit, 0, n.tr))
      dqp   == some /\ s.useDqp /\ w.dqp
      adj   == someChroma /\ s.useChromaQpAdj /\ w.adj /\ ~unit.bypass
      head  == [Written(w, luma
                           \o If(dqp, codeDeltaQP(s, e.d[e.ctu][n.cu].qp - getRefQP(s, e.d, e.ctu, n.cu)))
                           \o If(adj, codeChromaQpAdjustment(s, e.d[e.ctu][n.cu].chromaQpAdj)))
                  EXCEPT !.dqp = @ /\ ~dqp, !.adj = @ /\ ~adj]
  IN  IF some THEN codeBlocks(e, n, 0, head) ELSE head

RECURSIVE xEncodeTransform(_, _, _)
xEncodeTransform(e, n, w) ==
  LET s      == e.s
      unit   == e.d[e.ctu][n.z]
      subdiv == Bit(unit.trIdx > n.tr)
      tried  == Subdivisions(s, unit, n)
      Cbf(comp) == CASE n.tr > 0 /\ SharesBlock(s, n, comp) ->
                          Asserted(CbfAt(unit, comp, n.tr) = CbfAt(unit, comp, n.tr - 1))
                     [] n.tr > 0 /\ ~SharesBlock(s, n, comp) /\ CbfAt(unit, comp, n.tr - 1) = 0 -> << >>
                     [] OTHER -> Coded(CbfCtx(comp, n.tr), CbfAt(unit, comp, LowestTUDepth(s, n, comp, subdiv)))
      head   == Written(w, Asserted(subdiv \in tried)
                           \o If(tried = {0, 1}, Coded(<<"subdiv", 5 - Log2Size(s, n)>>, subdiv))
                           \o If(s.chroma # "400", Cbf(1) \o Cbf(2)))
      Section(k, before) == xEncodeTransform(e, Child(s, n, k), before)
  IN  After(w, IF subdiv = 1 THEN InTurn(Section, head)
               ELSE encodeTransformUnit(e, n, head))

encodeCoeff(e, cu, depth, w) ==
  LET unit   == e.d[e.ctu][cu]
      rooted == unit.mode = "intra" \/ (unit.merge /\ unit.part = "SIZE_2Nx2N")
      cbf    == \E comp \in Components(e.s) : CbfAt(unit, comp, 0) = 1
      head   == IF rooted THEN w ELSE Written(w, Coded(<<"root cbf", 0>>, Bit(cbf)))
  IN  IF rooted \/ cbf THEN xEncodeTransform(e, Root(cu, depth), head) ELSE head

-----------------------------------------------------------------------------
(* Reading.  r is what has been read: a cursor c in the bins, the data d,  *)
(* the coefficients, the statistics; the flags dqp and adj, the values     *)
(* codedQP and codedAdj of the delta QP and the adjustment coded last.     *)

(* set...SubParts: a field of the units.                                   *)
Put(r, ctu, units, field, value) ==
  [r EXCEPT !.d[ctu] = Table([z \in DOMAIN @ |-> IF z \in units THEN [@[z] EXCEPT ![field] = value]
                                                 ELSE @[z]])]

(* A field that has a value for every component.                           *)
PutOf(r, ctu, units, field, comp, Value(_)) ==
  [r EXCEPT !.d[ctu] = Table([z \in DOMAIN @ |->
     IF z \in units THEN [@[z] EXCEPT ![field][comp + 1] = Value(@)] ELSE @[z]])]

At1(r, c) == [r EXCEPT !.c = c]

OrCbf(r, ctu, units, comp, tr, value) ==
  PutOf(r, ctu, units, "cbf", comp,
        LAMBDA cbf : IF (cbf \div 2^tr) % 2 = 0 THEN cbf + value * 2^tr ELSE cbf)

parseDeltaQP(c, s, refQP) ==
  LET prefix == xReadUnaryMaxSymbol(c, <<"delta qp", 0>>, <<"delta qp", 1>>, CU_DQP_TU_CMAX)
      Summed(above, suffix) == Yields(suffix, suffix.v + above.v)
      Size(read) == IF read.v >= CU_DQP_TU_CMAX THEN Summed(read, xReadEpExGolomb(read, CU_DQP_EG_k)) ELSE read
      Qp(dqp)    == ((refQP + dqp + 52 + 2 * s.qpBdOffset) % (52 + s.qpBdOffset)) - s.qpBdOffset
      Signed(abs, sign) == Yields(sign, Qp(IF sign.v = 1 THEN -abs.v ELSE abs.v))
      Delta(abs) == IF abs.v = 0 THEN Yields(abs, refQP) ELSE Signed(abs, Bin(abs, Bypass))
  IN  Delta(Size(prefix))

parseChromaQpAdjustment(c, s) ==
  LET flag == Bin(c, <<"chroma qp adj", 0>>)
      Idc(idc) == Yields(idc, idc.v + 1)
  IN  IF flag.v = 1 /\ s.chromaQpAdjLen > 1
        THEN Idc(xReadUnaryMaxSymbol(flag, <<"chroma qp idc", 0>>, <<"chroma qp idc", 0>>, s.chromaQpAdjLen - 1))
        ELSE flag

parseCrossComponentPrediction(c, comp) ==
  LET flag  == Bin(c, CrossCtx(comp, 0))
      Rest(rest) == Yields(rest, rest.v + 1)
      Log2(more) == IF more.v = 1 THEN Rest(xReadUnaryMaxSymbol(more, CrossCtx(comp, 2), CrossCtx(comp, 3), 2))
                    ELSE more
      Signed(log2, sign) == Yields(sign, (1 - 2 * sign.v) * 2^log2.v)
      Alpha(log2) == Signed(log2, Bin(log2, CrossCtx(comp, 4)))
  IN  IF flag.v = 0 THEN flag ELSE Alpha(Log2(Bin(flag, CrossCtx(comp, 1))))

parseQtCbf(r, s, ctu, n, comp, subdiv) ==
  LET lowest == LowestTUDepth(s, n, comp, subdiv)
      units  == BlockUnits(s, n, comp)
      Read(flag) == PutOf(At1(r, flag), ctu, units, "cbf", comp, LAMBDA cbf : flag.v * 2^lowest)
      Both(read) == IF lowest > n.tr THEN OrCbf(read, ctu, units, comp, n.tr, read.c.v) ELSE read
  IN  Both(Read(Bin(r.c, CbfCtx(comp, n.tr))))

(* What is read of a block, and the tools it turns out to have.            *)
BlockTaken(s, ctu, n, comp, r, read) ==
  LET units == BlockUnits(s, n, comp)
  IN  [PutOf(PutOf(At1(r, read.c), ctu, units, "tskip", comp, LAMBDA old : read.t.skip),
             ctu, units, "rdpcm", comp, LAMBDA old : read.t.rdpcm)
         EXCEPT !.stats = read.stats,
                !.coef = (<<comp, BlockZ(s, n, comp)>> :> read.q) @@ @]

CrossComponentRead(s, ctu, n, comp, r) ==
  LET unit == r.d[ctu][n.z]
      Read(alpha) == PutOf(At1(r, alpha), ctu, BlockUnits(s, n, comp), "alpha", comp, LAMBDA old : alpha.v)
  IN  IF comp # 0 /\ CbfAt(unit, 0, n.tr) = 1 /\ CrossComponentTried(s, unit, comp)
        THEN Read(parseCrossComponentPrediction(r.c, comp)) ELSE r

LevelsRead(s, ctu, n, comp, r) ==
  IF CbfAt(r.d[ctu][n.z], comp, n.tr) = 0 THEN r
  ELSE BlockTaken(s, ctu, n, comp, r, parseCoeffNxN(r.c, s, Block(s, r.d[ctu], n, comp), r.stats))

parseBlock(s, ctu, n, comp, r) ==
  IF ProcessComponentSection(s, n, comp)
    THEN LevelsRead(s, ctu, n, comp, CrossComponentRead(s, ctu, n, comp, r)) ELSE r

RECURSIVE parseBlocks(_, _, _, _, _)
parseBlocks(s, ctu, n, comp, r) ==
  IF comp \in Components(s)
    THEN After(r, parseBlocks(s, ctu, n, comp + 1, parseBlock(s, ctu, n, comp, r))) ELSE r

decodeQP(r, s, ctu, n) ==
  LET WithQp(qp) ==
        [Put(At1(r, qp), ctu, CuUnits(s, n.cu, n.depth), "qp", qp.v) EXCEPT !.codedQP = qp.v, !.dqp = FALSE]
  IN  WithQp(parseDeltaQP(r.c, s, getRefQP(s, r.d, ctu, n.cu)))

decodeChromaQpAdjustment(r, s, ctu, n) ==
  LET WithIdc(idc) == [Put(At1(r, idc), ctu, CuUnits(s, n.cu, n.depth), "chromaQpAdj", idc.v)
                         EXCEPT !.codedAdj = idc.v, !.adj = FALSE]
  IN  WithIdc(parseChromaQpAdjustment(r.c, s))

(* The luma flag of a transform unit, read or inferred.                    *)
LumaCbfRead(s, ctu, n, r) ==
  LET units == CuUnits(s, n.z, TotalDepth(n))
      Luma(cleared) == IF LumaInferred(s, cleared.d[ctu][n.z], n)
                         THEN PutOf(cleared, ctu, units, "cbf", 0, LAMBDA cbf : 1)
                         ELSE parseQtCbf(cleared, s, ctu, n, 0, 0)
  IN  Luma(PutOf(Put(r, ctu, units, "trIdx", n.tr), ctu, units, "cbf", 0, LAMBDA cbf : 0))

(* The delta QP and the chroma QP adjustment of a transform unit.          *)
QpRead(s, ctu, n, r) ==
  LET someChroma == \E comp \in Components(s) \ {0} : CbfAt(r.d[ctu][n.z], comp, n.tr) = 1
      WithAdj(before) ==
        IF s.useChromaQpAdj /\ someChroma /\ before.adj /\ ~before.d[ctu][n.z].bypass
          THEN decodeChromaQpAdjustment(before, s, ctu, n) ELSE before
  IN  WithAdj(IF s.useDqp /\ r.dqp THEN decodeQP(r, s, ctu, n) ELSE r)

ResidualOfUnit(s, ctu, n, r) ==
  IF \E comp \in Components(s) : CbfAt(r.d[ctu][n.z], comp, n.tr) = 1
    THEN parseBlocks(s, ctu, n, 0, QpRead(s, ctu, n, r)) ELSE r

decodeTransformUnit(s, ctu, n, r) == ResidualOfUnit(s, ctu, n, LumaCbfRead(s, ctu, n, r))

(* The subdivision of a node, r.v, and its chroma flags.                   *)
SubdivisionRead(s, ctu, n, r) ==
  LET tried == Subdivisions(s, r.d[ctu][n.z], n)
  IN  IF tried = {0, 1} THEN At1(r, Bin(r.c, <<"subdiv", 5 - Log2Size(s, n)>>))
      ELSE At1(r, Yields(r.c, CHOOSE v \in tried : TRUE))

ChromaCbfRead(s, ctu, n, comp, subdiv, r) ==
  LET Read(reset) ==
        IF n.tr = 0 \/ (~SharesBlock(s, n, comp) /\ CbfAt(reset.d[ctu][n.z], comp, n.tr - 1) = 1)
          THEN parseQtCbf(reset, s, ctu, n, comp, subdiv) ELSE reset
  IN  CASE comp \notin Components(s) -> r
        [] comp \in Components(s) /\ n.tr = 0 ->
             Read(PutOf(r, ctu, CuUnits(s, n.z, TotalDepth(n)), "cbf", comp, LAMBDA cbf : 0))
        [] OTHER -> Read(r)

(* The head of a node: its subdivision and its chroma flags.               *)
NodeHead(s, ctu, n, r) ==
  [subdiv |-> r.c.v,
   r |-> ChromaCbfRead(s, ctu, n, 2, r.c.v, ChromaCbfRead(s, ctu, n, 1, r.c.v, r))]

RECURSIVE xDecodeTransform(_, _, _, _)

xDecodeSections(s, ctu, n, r) ==
  LET Section(k, before) == xDecodeTransform(s, ctu, Child(s, n, k), before)
      Combined(comp, before) ==
        IF comp \notin Components(s) THEN before
        ELSE OrCbf(before, ctu, CuUnits(s, n.z, TotalDepth(n)), comp, n.tr,
                   Bit(\E k \in 0..3 : CbfAt(before.d[ctu][Child(s, n, k).z], comp, n.tr + 1) = 1))
  IN  ComponentsInTurn(Combined, InTurn(Section, r))

xDecodeNode(s, ctu, n, head) ==
  IF head.subdiv = 1 THEN xDecodeSections(s, ctu, n, head.r) ELSE decodeTransformUnit(s, ctu, n, head.r)

xDecodeTransform(s, ctu, n, r) == xDecodeNode(s, ctu, n, NodeHead(s, ctu, n, SubdivisionRead(s, ctu, n, r)))

decodeCoeff(s, ctu, cu, depth, r) ==
  LET unit   == r.d[ctu][cu]
      rooted == unit.mode = "intra" \/ (unit.merge /\ unit.part = "SIZE_2Nx2N")
      flag   == Bin(r.c, <<"root cbf", 0>>)
      units  == CuUnits(s, cu, depth)
  IN  IF rooted \/ flag.v = 1
        THEN xDecodeTransform(s, ctu, Root(cu, depth), IF rooted THEN r ELSE At1(r, flag))
        ELSE Put(Put(At1(r, flag), ctu, units, "cbf", <<0, 0, 0>>), ctu, units, "trIdx", 0)
=============================================================================
