--------------------------- MODULE Reconstruction ---------------------------
(***************************************************************************)
(* The samples of one picture, from the encoder's residual to the picture  *)
(* that is put out: the encoder codes its CTUs, the decoder reconstructs   *)
(* them, the deblocking filter goes over all of them, once for vertical    *)
(* and once for horizontal edges, the sample adaptive offset is added, and *)
(* samples that must not be filtered are restored (TEncCu, TDecCu,         *)
(* TComLoopFilter, TComSampleAdaptiveOffset; TDecGop::filterPicture).      *)
(***************************************************************************)
EXTENDS CodingUnitSearch, Deblocking

(***************************************************************************)
(* How the decoder reconstructs the coding units of a CTU (TDecCu's        *)
(* xDecompressCU and TComTrQuant's invRecurTransformNxN).                  *)
(*                                                                         *)
(* e holds the settings s, the CTU, the data d, the levels coef and the    *)
(* predicted planes.  A reconstruction r is                                *)
(*   resi   m_ppcYuvResi: for every depth the residual of a CU, in planes  *)
(*          that every CU of this depth uses in turn,                      *)
(*   reco   m_ppcYuvReco: the samples of the current CU,                   *)
(*   pcm    the PCM samples of the CTU, by component and first unit of the *)
(*          CU, and                                                        *)
(*   pic    the planes of the picture.                                     *)
(***************************************************************************)

NoResidual(s, depth) ==
  Table([comp \in Components(s) |-> Table([p \in 0..(CuWidth(s, comp, depth)^2 - 1) |-> 0])])

(* The levels as they have been read: where signs are hidden, they come    *)
(* from the parity of the sums.                                            *)
WithHiddenSigns(s, t, bins) == parseCoeffNxN(CursorAt(bins), s, t, <<0, 0, 0, 0>>).q

Received(s, t, q) ==
  IF SignHidingCoded(s, t) THEN WithHiddenSigns(s, t, codeCoeffNxN(s, t, q, <<0, 0, 0, 0>>).bins) ELSE q

(* Where a block is in the planes of its CU.                               *)
BlockX(s, n, comp) == (X(BlockZ(s, n, comp)) - X(n.cu)) * UnitWidth(s, comp)
BlockY(s, n, comp) == (Y(BlockZ(s, n, comp)) - Y(n.cu)) * UnitWidth(s, comp)
BlockOfCu(s, n, comp, plane) ==
  Square(plane, CuWidth(s, comp, n.depth), BlockX(s, n, comp), BlockY(s, n, comp), 2^BlockLog2(s, n, comp))
WithBlockOfCu(s, n, comp, plane, block) ==
  WithSquare(plane, CuWidth(s, comp, n.depth), BlockX(s, n, comp), BlockY(s, n, comp),
             2^BlockLog2(s, n, comp), block)

(* The residual of a block whose coefficients are coded, or zeros.         *)
ReadBlock(e, n, comp) ==
  LET t == Block(e.s, e.d[e.ctu], n, comp)
  IN  invTransformNxN(e.s, t, QpParam(e.s, e.d[e.ctu][n.cu], comp),
                      Received(e.s, t, e.coef[<<comp, BlockZ(e.s, n, comp)>>]))

OwnResidual(e, n, comp) ==
  IF CbfAt(e.d[e.ctu][n.z], comp, n.tr) = 1 THEN ReadBlock(e, n, comp)
  ELSE BlockOf(BlockLog2(e.s, n, comp), LAMBDA p : 0)

(* Of four luma blocks that share one of chroma, it comes with the first.  *)
WithFirstOfShared(s, n, comp) == SharesBlock(s, n, comp) => n.section = 0

(* The block of chroma with what luma predicts of it.                      *)
WithLuma(e, n, comp, r, block) ==
  LET s == e.s
  IN  crossComponentPrediction(s, Block(s, e.d[e.ctu], n, comp), e.d[e.ctu][n.z].alpha[comp + 1],
                               BlockOfCu(s, n, 0, r.resi[n.depth][0]), block, TRUE)

-----------------------------------------------------------------------------
(* Intra CUs.                                                              *)

IfCrossed(e, n, comp, r, block) ==
  IF comp # 0 /\ e.d[e.ctu][n.z].alpha[comp + 1] # 0 THEN WithLuma(e, n, comp, r, block) ELSE block

WithSum(e, n, comp, r, resi) ==
  LET s == e.s
      Sum(pred) == BlockOf(BlockLog2(s, n, comp), LAMBDA p : ClipBD(s, comp, pred[p] + resi[p]))
  IN  [r EXCEPT !.resi[n.depth][comp] = WithBlockOfCu(s, n, comp, @, resi),
                !.reco[comp] = WithBlockOfCu(s, n, comp, @, Sum(BlockOfCu(s, n, comp, @)))]

xIntraRecBlk(e, n, comp, r) ==
  IF ~WithFirstOfShared(e.s, n, comp) THEN r
  ELSE WithSum(e, n, comp, r, IfCrossed(e, n, comp, r, OwnResidual(e, n, comp)))

(* The components from comp to last, in a unit.                            *)
RECURSIVE xIntraRecBlks(_, _, _, _, _)
xIntraRecBlks(e, n, comp, last, r) ==
  IF comp > last THEN r ELSE After(r, xIntraRecBlks(e, n, comp + 1, last, xIntraRecBlk(e, n, comp, r)))

RECURSIVE xIntraRecQT(_, _, _, _)
xIntraRecQT(e, channel, n, r) ==
  LET Section(k, before) == xIntraRecQT(e, channel, Child(e.s, n, k), before)
  IN  After(r, IF e.d[e.ctu][n.z].trIdx = n.tr THEN xIntraRecBlks(e, n, channel, 2 * channel, r)
               ELSE InTurn(Section, r))

(* Luma, then chroma.                                                      *)
RECURSIVE IntraChannels(_, _, _, _)
IntraChannels(e, channel, n, r) ==
  IF channel = (IF e.s.chroma = "400" THEN 1 ELSE 2) THEN r
  ELSE After(r, IntraChannels(e, channel + 1, n, xIntraRecQT(e, channel, n, r)))

(* PCM samples are as wide as they have been coded.                        *)
xDecodePCMTexture(s, comp, samples) ==
  Table([p \in DOMAIN samples |-> samples[p] * 2^(BitDepth(s, comp) - s.pcmBits[Channel(comp) + 1])])

xReconPCM(e, n, r) ==
  [r EXCEPT !.reco = Table([comp \in Components(e.s) |-> xDecodePCMTexture(e.s, comp, r.pcm[<<comp, n.cu>>])])]

xReconIntraQT(e, n, r) ==
  IF e.d[e.ctu][n.cu].ipcm THEN xReconPCM(e, n, r) ELSE IntraChannels(e, 0, n, r)

-----------------------------------------------------------------------------
(* Inter CUs.                                                              *)

(* The residual of a unit with what luma predicts of it, unless luma has   *)
(* none.                                                                   *)
CrossedUnit(e, n, comp, r) ==
  LET s    == e.s
      unit == e.d[e.ctu][n.z]
  IN  IF comp = 0 \/ unit.alpha[comp + 1] = 0 \/ CbfAt(unit, 0, n.tr) = 0 THEN r
      ELSE [r EXCEPT !.resi[n.depth][comp] =
              WithBlockOfCu(s, n, comp, @, WithLuma(e, n, comp, r, BlockOfCu(s, n, comp, @)))]

InverseUnit(e, n, comp, r) ==
  IF CbfAt(e.d[e.ctu][n.z], comp, n.tr) = 0 THEN r
  ELSE [r EXCEPT !.resi[n.depth][comp] = WithBlockOfCu(e.s, n, comp, @, ReadBlock(e, n, comp))]

RECURSIVE invRecurTransformNxN(_, _, _, _)
invRecurTransformNxN(e, comp, n, r) ==
  LET s     == e.s
      unit  == e.d[e.ctu][n.z]
      tried == WithFirstOfShared(s, n, comp) /\ (CbfAt(unit, comp, n.tr) = 1 \/ (comp # 0 /\ s.crossComponent))
      Section(k, before) == invRecurTransformNxN(e, comp, Child(s, n, k), before)
  IN  After(r, CASE ~tried -> r
                 [] tried /\ unit.trIdx = n.tr -> CrossedUnit(e, n, comp, InverseUnit(e, n, comp, r))
                 [] OTHER -> InTurn(Section, r))

RECURSIVE InterComponents(_, _, _, _)
InterComponents(e, comp, n, r) ==
  IF comp \notin Components(e.s) THEN r
  ELSE After(r, InterComponents(e, comp + 1, n, invRecurTransformNxN(e, comp, n, r)))

xDecodeInterTexture(e, n, r) == InterComponents(e, 0, n, r)

(* Samples are added and clipped only if the CU has a residual.            *)
WithResidualOfCu(e, n, r) ==
  IF \E comp \in Components(e.s) : CbfAt(e.d[e.ctu][n.cu], comp, 0) = 1
    THEN [r EXCEPT !.reco = Table([comp \in Components(e.s) |->
                              Table([p \in DOMAIN @[comp] |->
                                       ClipBD(e.s, comp, @[comp][p] + r.resi[n.depth][comp][p])])])]
    ELSE r

xReconInter(e, n, r) == WithResidualOfCu(e, n, xDecodeInterTexture(e, n, r))

-----------------------------------------------------------------------------
(* The CTU.                                                                *)

isLosslessCoded(s, unit) == s.bypassEnabled /\ unit.bypass

(* A lossless CU keeps its samples where PCM samples are kept.             *)
xFillPCMBuffer(e, n, r) ==
  [r EXCEPT !.pcm = [key \in {<<comp, n.cu>> : comp \in Components(e.s)} |-> r.reco[key[1]]] @@ @]

xReconCU(e, n, r) == IF e.d[e.ctu][n.cu].mode = "inter" THEN xReconInter(e, n, r) ELSE xReconIntraQT(e, n, r)

KeptIfLossless(e, n, r) ==
  LET unit == e.d[e.ctu][n.cu]
  IN  IF isLosslessCoded(e.s, unit) /\ ~unit.ipcm THEN xFillPCMBuffer(e, n, r) ELSE r

xCopyToPic(e, n, r) ==
  [r EXCEPT !.pic = Table([comp \in Components(e.s) |->
                       copyToPicYuv(e.s, comp, @[comp], e.ctu, n.cu, n.depth, r.reco[comp])])]

PredictedCu(e, n) ==
  Table([comp \in Components(e.s) |-> CuOfPicture(e.s, comp, e.predicted[comp], e.ctu, n.cu, n.depth)])

\* Mutant: a CU without residual finds that of the CU before.
reconLeaf_Stale(e, n, r) ==
  xCopyToPic(e, n, KeptIfLossless(e, n, xReconCU(e, n, [r EXCEPT !.reco = PredictedCu(e, n)])))

reconLeaf(e, n, r) ==
  xCopyToPic(e, n, KeptIfLossless(e, n, xReconCU(e, n,
    [r EXCEPT !.resi[n.depth] = NoResidual(e.s, n.depth), !.reco = PredictedCu(e, n)])))

RECURSIVE xDecompressCU(_, _, _, _)
xDecompressCU(e, z, depth, r) ==
  LET s == e.s
      Inside(u) == PelX(s, e.ctu, u) < s.width /\ PelY(s, e.ctu, u) < s.height
      boundary  == \/ PelX(s, e.ctu, z) + CuSize(s, depth) > s.width
                   \/ PelY(s, e.ctu, z) + CuSize(s, depth) > s.height
      divided   == (depth < e.d[e.ctu][z].depth /\ depth < s.minCuDepth) \/ boundary
      Section(k, before) ==
        LET u == z + k * NumParts(s, depth + 1)
        IN  IF Inside(u) THEN xDecompressCU(e, u, depth + 1, before) ELSE before
  IN  After(r, IF divided THEN InTurn(Section, r) ELSE reconLeaf(e, Root(z, depth), r))

(* The PCM samples that have been read are those among the levels.         *)
PcmOf(e) ==
  LET cus == {z \in DOMAIN e.d[e.ctu] : e.d[e.ctu][z].ipcm /\ z % NumParts(e.s, e.d[e.ctu][z].depth) = 0}
  IN  [key \in Components(e.s) \X cus |-> e.coef[key]]

decompressCtu(e, r) == xDecompressCU(e, 0, 0, [r EXCEPT !.pcm = PcmOf(e)])
-----------------------------------------------------------------------------
(* The picture.                                                            *)

CONSTANTS Pictures,     \* what is coded: settings of a picture
          Seeds         \* of the encoder's choices

VARIABLES s,            \* the settings
          seed,
          input,        \* [original, predicted]: planes
          phase,        \* compress, decode; ver, hor; sao, restore; done
          at,           \* the CTU it has come to
          encoder,      \* [d, coefs, blocks, pic]: data, levels of the CTUs; the blocks of the last
                        \* CTU; reconstructed planes
          decoder,      \* [resi, pcm, pic]: residual buffers, PCM samples of the CTUs, planes
          planes,       \* the picture that is filtered
          before        \* what it was when the filter began

vars == <<s, seed, input, phase, at, encoder, decoder, planes, before>>

Total == Cardinality(DOMAIN s.tile)

(* One more CTU, or the first one in the next phase.                       *)
Advance(next) == IF at + 1 < Total THEN phase' = phase /\ at' = at + 1 ELSE phase' = next /\ at' = 0

-----------------------------------------------------------------------------
(* The encoder.  It reconstructs what the decoder will.                    *)

ReconstructedSample(ctu, b, comp, x, y) ==
  LET z     == Z(x \div UnitWidth(s, comp), y \div UnitWidth(s, comp))
      unit  == b.d[ctu][z]
      cu    == z - (z % NumParts(s, unit.depth))
      n     == CuWidth(s, comp, unit.depth)
      pcm   == b.coef[<<comp, cu>>][(y - Y(cu) * UnitWidth(s, comp)) * n + x - X(cu) * UnitWidth(s, comp)]
      place == (CtuY(s, ctu) \div Scale(s, comp) + y) * PlaneWidth(s, comp) + CtuX(s, ctu) \div Scale(s, comp) + x
  IN  IF unit.ipcm THEN pcm * 2^(BitDepth(s, comp) - s.pcmBits[Channel(comp) + 1])
      ELSE ClipBD(s, comp, input.predicted[comp][place] + b.resi[comp][y * CuWidth(s, comp, 0) + x])

(* The samples of the CTU; there are none beyond the border of the picture.*)
ReconstructedCtu(ctu, b, comp) ==
  LET n == CuWidth(s, comp, 0)
      Inside(x, y) == /\ CtuX(s, ctu) \div Scale(s, comp) + x < PlaneWidth(s, comp)
                      /\ CtuY(s, ctu) \div Scale(s, comp) + y < PlaneHeight(s, comp)
  IN  Table([p \in 0..(n * n - 1) |-> IF Inside(p % n, p \div n)
                                       THEN ReconstructedSample(ctu, b, comp, p % n, p \div n) ELSE 0])

Compress ==
  /\ phase = "compress"
  /\ LET ctu == s.tsToRs[at]
         e   == [s |-> s, d |-> encoder.d, ctu |-> ctu, coef |-> << >>, col |-> << >>, seed |-> seed,
                 original |-> input.original, predicted |-> input.predicted]
     IN  \E b \in {compressCtu(e, [d |-> encoder.d, coef |-> << >>, resi |-> << >>, blocks |-> << >>])} :
           encoder' = [d |-> b.d, coefs |-> [encoder.coefs EXCEPT ![ctu] = b.coef], blocks |-> b.blocks,
                       pic |-> Table([comp \in Components(s) |->
                                 copyToPicYuv(s, comp, encoder.pic[comp], ctu, 0, 0, ReconstructedCtu(ctu, b, comp))])]
  /\ Advance("decode")
  /\ UNCHANGED <<s, seed, input, decoder, planes, before>>

-----------------------------------------------------------------------------
(* The decoder.                                                            *)

Decode ==
  /\ phase = "decode"
  /\ LET ctu == s.tsToRs[at]
         e   == [s |-> s, d |-> encoder.d, ctu |-> ctu, coef |-> encoder.coefs[ctu], predicted |-> input.predicted]
     IN  \E r \in {decompressCtu(e, [resi |-> decoder.resi, reco |-> << >>, pcm |-> << >>, pic |-> decoder.pic])} :
           /\ decoder' = [resi |-> r.resi, pcm |-> [decoder.pcm EXCEPT ![ctu] = r.pcm], pic |-> r.pic]
           /\ planes' = r.pic
           /\ before' = r.pic
  /\ Advance("ver")
  /\ UNCHANGED <<s, seed, input, encoder>>

(* executeLoopFilters: loopFilterPic, one CTU of one of its two passes.    *)
DeblockVertical ==
  /\ phase = "ver"
  /\ planes' = DeblockCtu(s, encoder.d, at, "ver", planes, << >>)
  /\ Advance("hor")
  /\ before' = IF phase' = phase THEN before ELSE planes'
  /\ UNCHANGED <<s, seed, input, encoder, decoder>>

DeblockHorizontal ==
  /\ phase = "hor"
  /\ planes' = DeblockCtu(s, encoder.d, at, "hor", planes, << >>)
  /\ Advance(IF s.useSao THEN "sao" ELSE "done")
  /\ before' = IF phase' = phase THEN before ELSE planes'
  /\ UNCHANGED <<s, seed, input, encoder, decoder>>

SaoParams ==
  LET off == [ctu \in DOMAIN s.tile |-> SaoAllOff]
  IN  decideBlkParams(s, seed, 0, [params |-> off, sao |-> off]).sao

SAOProcess ==
  /\ phase = "sao"
  /\ planes' = offsetCTU(s, at, before, SaoParams[at], planes)
  /\ Advance("restore")
  /\ UNCHANGED <<s, seed, input, encoder, decoder, before>>

PCMLFDisableProcess ==
  /\ phase = "restore"
  /\ planes' = xPCMRestoration(s, encoder.d[at], decoder.pcm[at], at, planes)
  /\ Advance("done")
  /\ UNCHANGED <<s, seed, input, encoder, decoder, before>>

Init ==
  /\ s \in Pictures
  /\ seed \in Seeds
  /\ input = [original |-> Originals(s), predicted |-> Predictions(s)]
  /\ phase = "compress"
  /\ at = 0
  /\ encoder = [d |-> [ctu \in DOMAIN s.tile |-> << >>], coefs |-> [ctu \in DOMAIN s.tile |-> << >>],
                blocks |-> << >>, pic |-> Blank(s)]
  /\ decoder = [resi |-> Table([depth \in 0..s.minCuDepth |-> NoResidual(s, depth)]),
                pcm |-> [ctu \in DOMAIN s.tile |-> << >>], pic |-> Blank(s)]
  /\ planes = Blank(s)
  /\ before = Blank(s)

Next == Compress \/ Decode \/ DeblockVertical \/ DeblockHorizontal \/ SAOProcess \/ PCMLFDisableProcess

Spec == Init /\ [][Next]_vars

-----------------------------------------------------------------------------
(* The decoder reconstructs the samples the encoder has: neither a tool    *)
(* (transform skip, RDPCM, hidden signs, prediction from luma, PCM) nor a  *)
(* buffer left over from another CU makes them differ.                     *)
NoDrift == phase \notin {"compress", "decode"} => decoder.pic = encoder.pic

(* What the residual of a block loses in quantization.  A level is wrong   *)
(* by at most one, by two where signs are hidden, by half in RDPCM; in a   *)
(* block that is not transformed that bounds the error of every sample, as *)
(* errors do not add up in RDPCM, and with a transform, that changes no    *)
(* lengths, the mean of the squares.  A lossless block arrives as it was.  *)
Step(t, qp) ==
  LET list == IF getUseScalingList(s, t) THEN Max({ListValue(s, t, p) : p \in 0..(4^t.log2 - 1)}) ELSE 16
  IN  (g_invQuantScales[(qp % 6) + 1] * 2^(qp \div 6) * list) \div 1024 + 1

ArrivesNearly(k) ==
  LET error == Table([p \in DOMAIN k.r |-> Abs(k.back[p] - k.r[p])])
      bound == 2 + (CASE k.rdpcm # RDPCM_OFF -> Step(k.t, k.qp) \div 2
                      [] k.rdpcm = RDPCM_OFF /\ s.signHide -> 2 * Step(k.t, k.qp)
                      [] OTHER -> Step(k.t, k.qp))
      n     == 2^k.t.log2
      squares == Dot(Table([y \in 0..(n - 1) |-> Dot(Line(n, error, y), Line(n, error, y), n)]),
                     [y \in 0..(n - 1) |-> 1], n)
  IN  CASE k.t.bypass -> k.back = k.r
        [] ~k.t.bypass /\ k.t.skip -> \A p \in DOMAIN error : error[p] <= bound + Abs(k.r[p]) \div 256
        [] OTHER -> (\A p \in DOMAIN error : error[p] <= bound) \/ squares \div (n * n) <= bound * bound

Clipped(k) == \E p \in DOMAIN k.q : k.q[p] \in {-(2^s.range), 2^s.range - 1}

ResidualArrives ==
  phase \in {"compress", "decode"} =>
    \A place \in DOMAIN encoder.blocks :
      LET k == encoder.blocks[place] IN Clipped(k) \/ ArrivesNearly(k)

(* The butterflies are the transform: what they make of the blocks coded   *)
(* is what products with its matrix make of them (MATRIX_MULT).            *)
ButterfliesMatchMatrices ==
  phase \in {"compress", "decode"} =>
    \A place \in DOMAIN encoder.blocks :
      LET k    == encoder.blocks[place]
          coef == xDeQuant(s, k.t, k.qp, k.q)
      IN  ~k.t.skip /\ ~k.t.bypass =>
            xTrMxN(s, k.t, k.r) = xTr(s, k.t, k.r) /\ xITrMxN(s, k.t, coef) = xITr(s, k.t, coef)

(* All edges of one direction could be filtered at the same time: no edge  *)
(* reads a sample another one changes, and no two change the same one.     *)
RECURSIVE AtOnce(_, _, _)
AtOnce(dir, ctu, result) ==
  IF ctu = Total THEN result ELSE AtOnce(dir, ctu + 1, DeblockCtu(s, encoder.d, ctu, dir, result, before))

PassEnds == phase \in {"ver", "hor"} /\ phase' # phase

DeblockedInParallel == [][PassEnds => planes' = AtOnce(phase, 0, before)]_vars

(* The edge offset of a sample is that of its two neighbours in the        *)
(* direction of the class, and a sample is left alone if one of them may   *)
(* not be used: the signs carried from line to line, and the first and the *)
(* last lines, come to the same.                                           *)
Direction(type) == (<<(<<1, 0>>), <<0, 1>>, <<1, 1>>, <<1, -1>>>>)[type + 1]

MayUse(b, x, y) ==
  LET left == x < 0  right == x >= b.width  above == y < 0  below == y >= b.height
  IN  CASE above -> IF left THEN b.avail.aboveLeft ELSE IF right THEN b.avail.aboveRight ELSE b.avail.above
        [] below -> IF left THEN b.avail.belowLeft ELSE IF right THEN b.avail.belowRight ELSE b.avail.below
        [] OTHER -> (left => b.avail.left) /\ (right => b.avail.right)

OffsetOf(b, param, x, y) ==
  LET dx == Direction(param.type)[1]
      dy == Direction(param.type)[2]
      Sign(u, v) == sgn(Src(b, x, y) - Src(b, u, v))
  IN  IF MayUse(b, x - dx, y - dy) /\ MayUse(b, x + dx, y + dy)
        THEN EdgeOffset(param, Sign(x - dx, y - dy) + Sign(x + dx, y + dy)) ELSE 0

OffsetsFollowNeighbours ==
  [][phase = "sao" =>
       \A comp \in Components(s) :
         LET param == SaoParams[at][comp + 1]
             b     == BlockOfPlane(s, comp, at, before[comp])
         IN  param.mode # "off" /\ param.type # BAND =>
               \A x \in 0..(b.width - 1), y \in 0..(b.height - 1) :
                 Src([b EXCEPT !.src = planes'[comp]], x, y)
                   = ClipBD(s, comp, Src(b, x, y) + OffsetOf(b, invertQuantOffsets(s, comp, param), x, y))]_vars

(* The samples of lossless CUs, and of PCM CUs where they are not to be    *)
(* filtered, come out as they have been reconstructed.                     *)
LosslessSurvives ==
  phase = "done" =>
    \A ctu \in DOMAIN s.tile : \A z \in DOMAIN encoder.d[ctu] :
      LET unit == encoder.d[ctu][z]
          kept == isLosslessCoded(s, unit) \/ (unit.ipcm /\ s.pcmFilterOff)
      IN  unit.mode # "none" /\ z % NumParts(s, unit.depth) = 0 /\ kept =>
            \A comp \in Components(s) :
              CuOfPicture(s, comp, planes[comp], ctu, z, unit.depth)
                = CuOfPicture(s, comp, decoder.pic[comp], ctu, z, unit.depth)
=============================================================================
