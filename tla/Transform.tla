----------------------------- MODULE Transform -----------------------------
(***************************************************************************)
(* TComTrQuant: a block of the residual is transformed and quantized by    *)
(* the encoder, dequantized and transformed back by both sides; with       *)
(* transform skip and RDPCM instead of a transform, and the prediction of  *)
(* the chroma residual from that of luma.                                  *)
(*                                                                         *)
(* A block is a function of the raster position; t is a transform unit of  *)
(* Residual, qp its quantization parameter (QpParam).  Of s are used       *)
(* bitDepth (for luma and chroma), range (15: without extended precision), *)
(* isI, signHide, the RDPCM flags, rotation (transform_skip_rotation),     *)
(* scalingLists (empty, or a function of size and list), the QP offsets of *)
(* the PPS (qpOffset), of the slice (sliceQpDelta) and of the list for     *)
(* chroma QP adjustments (qpAdjOffset).  Quantization is the one without   *)
(* rate distortion optimization.                                           *)
(***************************************************************************)
EXTENDS TransformTree

BitDepth(s, comp)   == s.bitDepth[Channel(comp) + 1]
QpBDOffset(s, comp) == 6 * (BitDepth(s, comp) - 8)

BlockOf(log2, Value(_)) == Table([p \in 0..(4^log2 - 1) |-> Value(p)])

(* An integer stored as a Pel, 16 bits wide; clipped to one.               *)
Pel(v)     == ((v + 32768) % 65536) - 32768
ClipPel(v) == Clip3(-32768, 32767, v)

(* The range of coefficients and levels.                                   *)
ClipRange(s, v) == Clip3(-(2^s.range), 2^s.range - 1, v)

Rounded(v, shift) == IF shift > 0 THEN (v + 2^(shift - 1)) \div 2^shift ELSE v

-----------------------------------------------------------------------------
(* The matrices: every entry is one of the first column's, by the symmetry *)
(* of the cosine.                                                          *)

FirstColumn == <<64, 90, 90, 90, 89, 88, 87, 85, 83, 82, 80, 78, 75, 73, 70, 67,
                 64, 61, 57, 54, 50, 46, 43, 38, 36, 31, 25, 22, 18, 13, 9, 4>>

Cosine(m) == CASE m <= 31 -> FirstColumn[m + 1]
               [] m \in {32, 96} -> 0
               [] m \in 33..64 -> -FirstColumn[64 - m + 1]
               [] m \in 65..95 -> -FirstColumn[m - 64 + 1]
               [] OTHER -> FirstColumn[128 - m + 1]

g_aiT == Table([log2 \in 1..5 |->
           Table([k \in 0..(2^log2 - 1) |->
             Table([j \in 0..(2^log2 - 1) |-> Cosine(((2 * j + 1) * k * 2^(5 - log2)) % 128)])])])

g_as_DST_MAT_4 == Table([k \in 0..3 |-> Table([j \in 0..3 |->
  <<(<<29, 55, 74, 84>>), <<74, 74, 0, -74>>, <<84, -29, -74, 55>>, <<55, -84, 74, -29>>>>[k + 1][j + 1]])])

(* The sum of the first n products.                                        *)
RECURSIVE Dot(_, _, _)
Dot(a, b, n) == IF n = 0 THEN 0 ELSE a[n - 1] * b[n - 1] + Dot(a, b, n - 1)

Line(n, block, j)   == Table([i \in 0..(n - 1) |-> block[j * n + i]])
Column(n, block, j) == Table([i \in 0..(n - 1) |-> block[i * n + j]])

(* partialButterfly4, 8, 16 and 32: one line; its even coefficients are    *)
(* those of the half of the size.                                          *)
RECURSIVE Butterfly(_, _)
Butterfly(log2, x) ==
  LET n    == 2^log2
      h    == 0..(n \div 2 - 1)
      even == Butterfly(log2 - 1, Table([j \in h |-> x[j] + x[n - 1 - j]]))
      odd  == Table([j \in h |-> x[j] - x[n - 1 - j]])
  IN  IF log2 = 0 THEN [k \in {0} |-> 64 * x[0]]
      ELSE Table([k \in 0..(n - 1) |->
                    IF k % 2 = 0 THEN even[k \div 2] ELSE Dot(g_aiT[log2][k], odd, n \div 2)])

RECURSIVE InverseButterfly(_, _)
InverseButterfly(log2, y) ==
  LET n    == 2^log2
      h    == 0..(n \div 2 - 1)
      even == InverseButterfly(log2 - 1, Table([k \in h |-> y[2 * k]]))
      odd  == Table([k \in h |-> y[2 * k + 1]])
      O    == Table([j \in h |-> Dot(Table([k \in h |-> g_aiT[log2][2 * k + 1][j]]), odd, n \div 2)])
  IN  IF log2 = 0 THEN [k \in {0} |-> 64 * y[0]]
      ELSE Table([j \in 0..(n - 1) |->
                    IF j \in h THEN even[j] + O[j] ELSE even[n - 1 - j] - O[n - 1 - j]])

DSTLine(x)        == Table([k \in 0..3 |-> Dot(g_as_DST_MAT_4[k], x, 4)])
InverseDSTLine(y) == Table([j \in 0..3 |-> Dot(Table([k \in 0..3 |-> g_as_DST_MAT_4[k][j]]), y, 4)])

(* One pass: the lines of a block become the columns of the next.          *)
ForwardPass(log2, dst, block, shift) ==
  LET n     == 2^log2
      lines == Table([j \in 0..(n - 1) |->
                        IF dst THEN DSTLine(Line(n, block, j)) ELSE Butterfly(log2, Line(n, block, j))])
  IN  BlockOf(log2, LAMBDA p : Rounded(lines[p % n][p \div n], shift))

InversePass(log2, dst, coeff, shift, lo, hi) ==
  LET n     == 2^log2
      lines == Table([j \in 0..(n - 1) |->
                        IF dst THEN InverseDSTLine(Column(n, coeff, j))
                        ELSE InverseButterfly(log2, Column(n, coeff, j))])
  IN  BlockOf(log2, LAMBDA p : Clip3(lo, hi, Rounded(lines[p \div n][p % n], shift)))

TRANSFORM_MATRIX_SHIFT == 6

(* The transform has a range of s.range bits beside the sign.              *)
FirstShift(s, t)  == t.log2 + BitDepth(s, t.comp) + TRANSFORM_MATRIX_SHIFT - s.range
SecondShift(s, t) == TRANSFORM_MATRIX_SHIFT + s.range - 1 - BitDepth(s, t.comp)

useDST(t) == t.comp = 0 /\ t.intra

xTrMxN(s, t, block) ==
  LET dst == t.log2 = 2 /\ useDST(t)
  IN  ForwardPass(t.log2, dst, ForwardPass(t.log2, dst, block, FirstShift(s, t)),
                  t.log2 + TRANSFORM_MATRIX_SHIFT)

\* Mutant: the shift is the one for samples of 8 bits.
xITrMxN_8Bit(s, t, coeff) ==
  LET dst == t.log2 = 2 /\ useDST(t)
  IN  InversePass(t.log2, dst,
                  InversePass(t.log2, dst, coeff, TRANSFORM_MATRIX_SHIFT + 1, -(2^s.range), 2^s.range - 1),
                  TRANSFORM_MATRIX_SHIFT + s.range - 9, -32768, 32767)

xITrMxN(s, t, coeff) ==
  LET dst == t.log2 = 2 /\ useDST(t)
  IN  InversePass(t.log2, dst,
                  InversePass(t.log2, dst, coeff, TRANSFORM_MATRIX_SHIFT + 1, -(2^s.range), 2^s.range - 1),
                  SecondShift(s, t), -32768, 32767)

-----------------------------------------------------------------------------
(* The same as products of matrices (MATRIX_MULT).                         *)

Matrix(t) == IF t.log2 = 2 /\ useDST(t) THEN g_as_DST_MAT_4 ELSE g_aiT[t.log2]

xTr(s, t, block) ==
  LET n   == 2^t.log2
      tmp == BlockOf(t.log2, LAMBDA p :
               Rounded(Dot(Matrix(t)[p \div n], Line(n, block, p % n), n), FirstShift(s, t)))
  IN  BlockOf(t.log2, LAMBDA p :
        Rounded(Dot(Matrix(t)[p \div n], Line(n, tmp, p % n), n), t.log2 + TRANSFORM_MATRIX_SHIFT))

xITr(s, t, coeff) ==
  LET n   == 2^t.log2
      T   == Table([j \in 0..(n - 1) |-> Table([k \in 0..(n - 1) |-> Matrix(t)[k][j]])])
      tmp == BlockOf(t.log2, LAMBDA p :
               ClipRange(s, Rounded(Dot(T[p \div n], Column(n, coeff, p % n), n), TRANSFORM_MATRIX_SHIFT + 1)))
  IN  BlockOf(t.log2, LAMBDA p :
        ClipPel(Rounded(Dot(T[p % n], Line(n, tmp, p \div n), n), SecondShift(s, t))))

-----------------------------------------------------------------------------
(* Quantization.                                                           *)

(* The QP of chroma in the scale of luma (g_aucChromaScale).               *)
ChromaScale420 == <<29, 30, 31, 32, 33, 33, 34, 34, 35, 35, 36, 36, 37>>
getScaledChromaQP(s, qp) ==
  CASE s.chroma # "420" -> Smaller(qp, 51)
    [] s.chroma = "420" /\ qp \in 30..42 -> ChromaScale420[qp - 29]
    [] OTHER -> IF qp < 30 THEN qp ELSE qp - 6

QpOfChroma(s, comp, qpy, offset) ==
  LET base == Clip3(-QpBDOffset(s, comp), 57, qpy + offset)
  IN  (IF base < 0 THEN base ELSE getScaledChromaQP(s, base)) + QpBDOffset(s, comp)

QpParam(s, unit, comp) ==
  IF comp = 0 THEN unit.qp + QpBDOffset(s, 0)
  ELSE QpOfChroma(s, comp, unit.qp, s.qpOffset[comp] + s.sliceQpDelta[comp]
                                    + (IF unit.chromaQpAdj = 0 THEN 0 ELSE s.qpAdjOffset[unit.chromaQpAdj][comp]))

g_quantScales    == <<26214, 23302, 20560, 18396, 16384, 14564>>
g_invQuantScales == <<40, 45, 51, 57, 64, 72>>
QUANT_SHIFT  == 14
IQUANT_SHIFT == 6
LOG2_SCALING_LIST_NEUTRAL_VALUE == 4
SCALING_LIST_BITS == 8

getTransformShift(s, t) == s.range - BitDepth(s, t.comp) - t.log2

(* Scaling lists, of at most 8 x 8 values and one for the first            *)
(* coefficient of larger blocks.                                           *)
getUseScalingList(s, t) == s.scalingLists # << >> /\ (t.skip => t.log2 = 2)
getScalingListType(t)   == (IF t.intra THEN 0 ELSE 3) + t.comp
ListValue(s, t, p) ==
  LET list  == s.scalingLists[t.log2 - 2, getScalingListType(t)]
      n     == 2^t.log2
      size  == Smaller(n, 8)
      ratio == n \div size
  IN  IF ratio > 1 /\ p = 0 THEN list.dc
      ELSE list.coef[size * ((p \div n) \div ratio) + (p % n) \div ratio]

getQuantCoeff(s, t, qp, p) ==
  LET scale == g_quantScales[(qp % 6) + 1]
  IN  IF getUseScalingList(s, t) THEN (scale * 2^LOG2_SCALING_LIST_NEUTRAL_VALUE) \div ListValue(s, t, p)
      ELSE scale
getDequantCoeff(s, t, qp, p) ==
  g_invQuantScales[(qp % 6) + 1] * (IF getUseScalingList(s, t) THEN ListValue(s, t, p) ELSE 1)

WithSign(magnitude, v) == IF v < 0 THEN -magnitude ELSE magnitude
QBits(s, t, qp) == QUANT_SHIFT + qp \div 6 + getTransformShift(s, t)

(* The level of a coefficient: rounding in units of 1/512 level.           *)
Magnitude(s, t, qp, p, v, rounding) ==
  LET bits == QBits(s, t, qp)
  IN  (Abs(v) * getQuantCoeff(s, t, qp, p) + rounding * 2^(bits - 9)) \div 2^bits
QuantRounding(s) == IF s.isI THEN 171 ELSE 85

(* Where the picture says so, the signs of some levels are hidden in the   *)
(* parity of the others.                                                   *)
xQuant(s, t, qp, coef) ==
  LET bits   == QBits(s, t, qp)
      size   == BlockOf(t.log2, LAMBDA p : Magnitude(s, t, qp, p, coef[p], QuantRounding(s)))
      deltaU == BlockOf(t.log2, LAMBDA p :
                  (Abs(coef[p]) * getQuantCoeff(s, t, qp, p) - size[p] * 2^bits) \div 2^(bits - 8))
      q      == BlockOf(t.log2, LAMBDA p : ClipRange(s, WithSign(size[p], coef[p])))
      several == \E p \in DOMAIN size : size[p] >= 2 \/ \E o \in DOMAIN size \ {p} : size[p] + size[o] >= 2
  IN  IF s.signHide /\ several THEN Table(signBitHidingHDQ(t, q, coef, deltaU)) ELSE q

(* One level, of the position p: what the product may be wide decides      *)
(* to how many bits the level is clipped first.                            *)
DequantShift(s, t, qp) ==
  IQUANT_SHIFT - (getTransformShift(s, t) + qp \div 6)
  + (IF getUseScalingList(s, t) THEN LOG2_SCALING_LIST_NEUTRAL_VALUE ELSE 0)

Dequantized(s, t, qp, p, level) ==
  LET right == DequantShift(s, t, qp)
      bits  == Smaller(s.range + 1,
                       32 + right - (1 + IQUANT_SHIFT + (IF getUseScalingList(s, t) THEN SCALING_LIST_BITS ELSE 0)))
      clip  == Clip3(-(2^(bits - 1)), 2^(bits - 1) - 1, level)
      v     == clip * getDequantCoeff(s, t, qp, p)
  IN  ClipRange(s, IF right > 0 THEN Rounded(v, right) ELSE v * 2^(-right))

xDeQuant(s, t, qp, q) == BlockOf(t.log2, LAMBDA p : Dequantized(s, t, qp, p, q[p]))

-----------------------------------------------------------------------------
(* Transform skip, lossless blocks, RDPCM.                                 *)

(* 4 x 4 intra blocks that are not transformed may be stored backwards.    *)
isNonTransformedResidualRotated(s, t) == s.rotation /\ t.log2 = 2 /\ t.intra
Place(s, t, p) == IF isNonTransformedResidualRotated(s, t) THEN 4^t.log2 - 1 - p ELSE p

xTransformSkip(s, t, r)     == BlockOf(t.log2, LAMBDA p : r[Place(s, t, p)] * 2^getTransformShift(s, t))
xITransformSkip(s, t, coef) == BlockOf(t.log2, LAMBDA p : Pel(Rounded(coef[Place(s, t, p)], getTransformShift(s, t))))

(* One sample of a block that is not transformed: what the decoder makes   *)
(* of the level.                                                           *)
transformSkipQuantOneSample(s, t, qp, p, v, half) ==
  ClipRange(s, WithSign(Magnitude(s, t, qp, p, v * 2^getTransformShift(s, t), IF half THEN 256 ELSE QuantRounding(s)), v))
invTrSkipDeQuantOneSample(s, t, qp, p, level) ==
  Pel(Rounded(Dequantized(s, t, qp, p, level), getTransformShift(s, t)))

(* The sample before p in the direction of the mode, if there is one.      *)
Previous(t, mode, p) ==
  LET n == 2^t.log2
  IN  CASE mode = RDPCM_HOR /\ p % n # 0    -> {p - 1}
        [] mode = RDPCM_VER /\ p \div n # 0 -> {p - n}
        [] OTHER -> {}

\* Mutant: every sample is the difference to the original of the one before it.
applyForwardRDPCM_Original(s, t, qp, r, mode) ==
  LET level(p) ==
        LET delta == r[p] - (IF Previous(t, mode, p) = {} THEN 0 ELSE r[CHOOSE o \in Previous(t, mode, p) : TRUE])
        IN  IF t.bypass THEN delta
            ELSE transformSkipQuantOneSample(s, t, qp, Place(s, t, p), delta, mode # RDPCM_OFF)
  IN  BlockOf(t.log2, LAMBDA p : level(Place(s, t, p)))

(* The level of a difference, and with it the sample as it will have been  *)
(* reconstructed.                                                          *)
RdpcmSample(s, t, qp, mode, place, level, before) ==
  [level |-> level,
   sum   |-> IF mode = RDPCM_OFF THEN 0
             ELSE before + (IF t.bypass THEN Pel(level) ELSE invTrSkipDeQuantOneSample(s, t, qp, place, level))]

RdpcmDelta(s, t, qp, mode, place, delta, before) ==
  RdpcmSample(s, t, qp, mode, place,
              IF t.bypass THEN delta
              ELSE transformSkipQuantOneSample(s, t, qp, place, delta, mode # RDPCM_OFF), before)

(* Every sample is the difference to the one before it, reconstructed.     *)
applyForwardRDPCM(s, t, qp, r, mode) ==
  LET coded[p \in DOMAIN r] ==
        LET before == IF Previous(t, mode, p) = {} THEN 0 ELSE coded[CHOOSE o \in Previous(t, mode, p) : TRUE].sum
        IN  RdpcmDelta(s, t, qp, mode, Place(s, t, p), r[p] - before, before)
      Levels(done) == BlockOf(t.log2, LAMBDA p : done[Place(s, t, p)].level)
  IN  Levels(Table([p \in DOMAIN r |-> coded[p]]))

AbsSum(t, q) == SumTo([y \in 1..2^t.log2 |-> SumTo([x \in 1..2^t.log2 |-> Abs(q[(y - 1) * 2^t.log2 + x - 1])], 2^t.log2)],
                      2^t.log2)

NotTransformed(t) == t.skip \/ t.bypass
ImplicitMode(t) == CASE t.mode = VER_IDX -> RDPCM_VER [] t.mode = HOR_IDX -> RDPCM_HOR [] OTHER -> RDPCM_OFF

(* The mode, and the levels unless it is RDPCM_OFF.  Inter blocks take the *)
(* mode with the smallest levels.                                          *)
RdpcmModes(s, t) ==
  CASE ~isRDPCMEnabled(s, t) \/ ~NotTransformed(t) -> {RDPCM_OFF}
    [] isRDPCMEnabled(s, t) /\ NotTransformed(t) /\ t.intra -> {ImplicitMode(t)}
    [] OTHER -> {RDPCM_OFF, RDPCM_HOR, RDPCM_VER}

BestRdpcm(levels, sum) ==
  LET best == CHOOSE mode \in DOMAIN sum : \A other \in DOMAIN sum :
                sum[mode] < sum[other] \/ (sum[mode] = sum[other] /\ mode <= other)
  IN  [mode |-> best, q |-> levels[best]]

SmallestRdpcm(t, levels) == BestRdpcm(levels, Table([mode \in DOMAIN levels |-> AbsSum(t, levels[mode])]))

rdpcmNxN(s, t, qp, r) ==
  IF RdpcmModes(s, t) = {RDPCM_OFF} THEN [mode |-> RDPCM_OFF, q |-> << >>]
  ELSE SmallestRdpcm(t, Table([mode \in RdpcmModes(s, t) |-> applyForwardRDPCM(s, t, qp, r, mode)]))

invRdpcmNxN(s, t, r) ==
  LET mode == IF t.intra THEN ImplicitMode(t) ELSE t.rdpcm
      sum[p \in DOMAIN r] ==
        r[p] + (IF Previous(t, mode, p) = {} THEN 0 ELSE sum[CHOOSE o \in Previous(t, mode, p) : TRUE])
      sums == Table([p \in DOMAIN r |-> sum[p]])
  IN  IF isRDPCMEnabled(s, t) /\ NotTransformed(t) /\ mode # RDPCM_OFF
        THEN BlockOf(t.log2, LAMBDA p : IF Previous(t, mode, p) = {} THEN r[p] ELSE ClipPel(sums[p]))
        ELSE r

-----------------------------------------------------------------------------
(* A block of the residual r.                                              *)

(* The levels q, and the RDPCM mode that goes with them.                   *)
PlainLevels(s, t, qp, r) ==
  IF t.bypass THEN BlockOf(t.log2, LAMBDA p : r[Place(s, t, p)])
  ELSE xQuant(s, t, qp, IF t.skip THEN xTransformSkip(s, t, r) ELSE xTrMxN(s, t, r))

LevelsOfMode(s, t, qp, r, rdpcm) ==
  [rdpcm |-> rdpcm.mode, q |-> IF rdpcm.mode = RDPCM_OFF THEN PlainLevels(s, t, qp, r) ELSE rdpcm.q]

transformNxN(s, t, qp, r) == LevelsOfMode(s, t, qp, r, rdpcmNxN(s, t, qp, r))

Untransformed(s, t, coef) == IF t.skip THEN xITransformSkip(s, t, coef) ELSE xITrMxN(s, t, coef)

invTransformNxN(s, t, qp, q) ==
  invRdpcmNxN(s, t, IF t.bypass THEN BlockOf(t.log2, LAMBDA p : Pel(q[Place(s, t, p)]))
                    ELSE Untransformed(s, t, xDeQuant(s, t, qp, q)))

(* What luma predicts of a sample of chroma: alpha eighths of it, at the   *)
(* bit depth of chroma.                                                    *)
CrossPrediction(s, alpha, luma) ==
  LET diff == s.bitDepth[1] - s.bitDepth[2]
  IN  (alpha * (IF diff >= 0 THEN luma \div 2^diff ELSE luma * 2^(-diff))) \div 8

crossComponentPrediction(s, t, alpha, luma, r, reverse) ==
  BlockOf(t.log2, LAMBDA p : IF reverse THEN ClipPel(r[p] + CrossPrediction(s, alpha, luma[p]))
                             ELSE r[p] - CrossPrediction(s, alpha, luma[p]))
-----------------------------------------------------------------------------
(* The samples of pictures (TComPicYuv) and of coding units (TComYuv): a   *)
(* plane is a function of the raster position, for one component.          *)
(*                                                                         *)
(* What the encoder is given and what prediction makes of other samples    *)
(* are drawn, from s.content: regions that are predicted exactly, nearly,  *)
(* or not at all, flat or noisy, dark or bright.                           *)

(* A number that looks like chance, and the k-th one at x, among n.        *)
Hash(a, b) == LET y == (a * 167 + b * 251 + 13) % 40009 IN (y * y + 3 * y + 5) % 40009
Draw(x, k, n) == Hash(x, k) % n

ClipBD(s, comp, v) == Clip3(0, 2^BitDepth(s, comp) - 1, v)

-----------------------------------------------------------------------------
(* Sizes.                                                                  *)

Scale(s, comp)       == IF comp # 0 /\ s.chroma = "420" THEN 2 ELSE 1
PlaneWidth(s, comp)  == s.width \div Scale(s, comp)
PlaneHeight(s, comp) == s.height \div Scale(s, comp)
CuWidth(s, comp, depth) == CuSize(s, depth) \div Scale(s, comp)
UnitWidth(s, comp)   == UnitSize(s) \div Scale(s, comp)

(* A square of n x n samples that begins at <<x, y>> of a plane that is    *)
(* width wide.                                                             *)
Square(plane, width, x, y, n) == Table([p \in 0..(n * n - 1) |-> plane[(y + p \div n) * width + x + (p % n)]])

WithSquare(plane, width, x, y, n, part) ==
  Table([p \in DOMAIN plane |->
           IF (p % width) \in x..(x + n - 1) /\ (p \div width) \in y..(y + n - 1)
             THEN part[((p \div width) - y) * n + (p % width) - x] ELSE plane[p]])

(* The same, of a CU at z of a CTU in a picture; the picture may end       *)
(* within the CTU, not within a CU.                                        *)
CuX(s, comp, ctu, z) == PelX(s, ctu, z) \div Scale(s, comp)
CuY(s, comp, ctu, z) == PelY(s, ctu, z) \div Scale(s, comp)

copyToPicYuv(s, comp, plane, ctu, z, depth, cu) ==
  WithSquare(plane, PlaneWidth(s, comp), CuX(s, comp, ctu, z), CuY(s, comp, ctu, z), CuWidth(s, comp, depth), cu)
CuOfPicture(s, comp, plane, ctu, z, depth) ==
  Square(plane, PlaneWidth(s, comp), CuX(s, comp, ctu, z), CuY(s, comp, ctu, z), CuWidth(s, comp, depth))

-----------------------------------------------------------------------------
(* Drawn samples.                                                          *)

Region(s, comp, x, y) ==
  Hash(Hash(Hash(s.content, comp), (x * Scale(s, comp)) \div 8), (y * Scale(s, comp)) \div 8)

Noise(h, k, size) == Draw(h, k, 2 * size + 1) - size

PredictedSample(s, comp, x, y) ==
  LET r    == Region(s, comp, x, y)
      top  == 2^BitDepth(s, comp) - 1
      base == CASE Draw(r, 1, 8) = 0 -> 0
                [] Draw(r, 1, 8) = 1 -> top
                [] OTHER -> top \div 2 + Noise(r, 2, 12) * 2^(BitDepth(s, comp) - 8)
  IN  ClipBD(s, comp, base + Noise(Hash(r, x), y, IF Draw(r, 3, 2) = 0 THEN 0 ELSE 2))

OriginalSample(s, comp, x, y) ==
  LET r    == Region(s, comp, x, y)
      size == <<0, 1, 3, 12, 2^(BitDepth(s, comp) - 1)>>[Draw(r, 4, 5) + 1]
      step == IF Draw(r, 5, 2) = 0 THEN 0 ELSE Noise(r, 6, 6)
  IN  ClipBD(s, comp, PredictedSample(s, comp, x, y) + step + Noise(Hash(r, y), x, size))

PlaneOf(s, comp, Sample(_, _)) ==
  Table([p \in 0..(PlaneWidth(s, comp) * PlaneHeight(s, comp) - 1) |->
           Sample(p % PlaneWidth(s, comp), p \div PlaneWidth(s, comp))])

(* The planes of a picture.                                                *)
Originals(s)   == Table([comp \in Components(s) |-> PlaneOf(s, comp, LAMBDA x, y : OriginalSample(s, comp, x, y))])
Predictions(s) == Table([comp \in Components(s) |-> PlaneOf(s, comp, LAMBDA x, y : PredictedSample(s, comp, x, y))])
Blank(s)       == Table([comp \in Components(s) |-> PlaneOf(s, comp, LAMBDA x, y : 0)])
=============================================================================
