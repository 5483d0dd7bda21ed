--------------------------- MODULE CodingUnitData ---------------------------
(***************************************************************************)
(* TComDataCU: what is known of the coding units of a picture, and what    *)
(* the coding of the next one derives from its neighbours: contexts, QP    *)
(* and intra mode predictors, merge candidates, motion vector predictors.  *)
(*                                                                         *)
(* The data d of a picture give for every CTU, and every unit of it in     *)
(* z-scan order, a record: depth, mode ("none" before the unit is coded),  *)
(* part, skip, bypass, qp, chromaQpAdj, merge, mergeIdx, dir, mv, ref,     *)
(* mvd, mvp, intraDir, ipcm, trIdx, cbf, tskip, rdpcm, alpha.  A place is  *)
(* <<CTU, unit>>; None is the pointer that is NULL.  s holds what the SPS, *)
(* the PPS and the slice header say, and the layout of the picture.        *)
(***************************************************************************)
EXTENDS Residual

None  == <<(-1), (-1)>>
NoCtu == -1

At(d, place) == d[place[1]][place[2]]

-----------------------------------------------------------------------------
(* Units: z-scan and raster order (initZscanToRaster).  A CTU has          *)
(* Across(s) units in each direction.                                      *)

X(z) == (z % 2) + 2 * ((z \div 4) % 2) + 4 * ((z \div 16) % 2) + 8 * ((z \div 64) % 2)
Y(z) == X(z \div 2)
Spread(n) == (n % 2) + 4 * ((n \div 2) % 2) + 16 * ((n \div 4) % 2) + 64 * ((n \div 8) % 2)
Z(x, y) == Spread(x) + 2 * Spread(y)

Across(s)     == 2^s.totalDepth
UnitsOfCtu(s) == 4^s.totalDepth
UnitSize(s)   == 2^s.log2Unit
CtuSize(s)    == Across(s) * UnitSize(s)

NumParts(s, depth) == 4^(s.totalDepth - depth)     \* units of a CU
CuAcross(s, depth) == 2^(s.totalDepth - depth)
CuSize(s, depth)   == CtuSize(s) \div 2^depth

CtuX(s, ctu)     == (ctu % s.ctusAcross) * CtuSize(s)
CtuY(s, ctu)     == (ctu \div s.ctusAcross) * CtuSize(s)
PelX(s, ctu, z)  == CtuX(s, ctu) + UnitSize(s) * X(z)
PelY(s, ctu, z)  == CtuY(s, ctu) + UnitSize(s) * Y(z)

CtuLeft(s, ctu)  == IF ctu % s.ctusAcross # 0 THEN ctu - 1 ELSE NoCtu
CtuAbove(s, ctu) == IF ctu >= s.ctusAcross THEN ctu - s.ctusAcross ELSE NoCtu
CtuAboveLeft(s, ctu) ==
  IF CtuLeft(s, ctu) # NoCtu /\ CtuAbove(s, ctu) # NoCtu THEN ctu - s.ctusAcross - 1 ELSE NoCtu
CtuAboveRight(s, ctu) ==
  IF CtuAbove(s, ctu) # NoCtu /\ (ctu + 1) % s.ctusAcross # 0 THEN ctu - s.ctusAcross + 1 ELSE NoCtu

CUIsFromSameSlice(s, ctu, other) == other # NoCtu /\ s.slice[other] = s.slice[ctu]
CUIsFromSameTile(s, ctu, other)  == other # NoCtu /\ s.tile[other] = s.tile[ctu]
CUIsFromSameSliceAndTile(s, ctu, other) ==
  CUIsFromSameSlice(s, ctu, other) /\ CUIsFromSameTile(s, ctu, other)
CUIsFromSameSliceTileAndWavefrontRow(s, ctu, other) ==
  /\ CUIsFromSameSliceAndTile(s, ctu, other)
  /\ ~s.wavefront \/ CtuY(s, ctu) = CtuY(s, other)

(* The last CU of its CTU: at the right and at the lower border of the CTU *)
(* or of the picture.                                                      *)
isLastSubCUOfCtu(s, ctu, z, depth) ==
  LET right == PelX(s, ctu, z) + CuSize(s, depth)
      lower == PelY(s, ctu, z) + CuSize(s, depth)
  IN  /\ right % CtuSize(s) = 0 \/ right = s.width
      /\ lower % CtuSize(s) = 0 \/ lower = s.height

-----------------------------------------------------------------------------
(* Neighbours of a unit.                                                   *)

InCtu(place, condition) == IF condition THEN place ELSE None

getPULeft(s, ctu, z, enforceSlice, enforceTile) ==
  LET left == CtuLeft(s, ctu)
  IN  IF X(z) # 0 THEN <<ctu, Z(X(z) - 1, Y(z))>>
      ELSE InCtu(<<left, Z(Across(s) - 1, Y(z))>>,
                 /\ left # NoCtu
                 /\ enforceSlice => CUIsFromSameSlice(s, ctu, left)
                 /\ enforceTile => CUIsFromSameTile(s, ctu, left))

getPUAbove(s, ctu, z, enforceSlice, planarAtCtuBoundary, enforceTile) ==
  LET above == CtuAbove(s, ctu)
  IN  IF Y(z) # 0 THEN <<ctu, Z(X(z), Y(z) - 1)>>
      ELSE InCtu(<<above, Z(X(z), Across(s) - 1)>>,
                 /\ above # NoCtu
                 /\ ~planarAtCtuBoundary
                 /\ enforceSlice => CUIsFromSameSlice(s, ctu, above)
                 /\ enforceTile => CUIsFromSameTile(s, ctu, above))

Left(s, ctu, z)  == getPULeft(s, ctu, z, TRUE, TRUE)
Above(s, ctu, z) == getPUAbove(s, ctu, z, TRUE, FALSE, TRUE)

getPUAboveLeft(s, ctu, z) ==
  LET last == Across(s) - 1
      In(other, x, y) == InCtu(<<other, Z(x, y)>>, CUIsFromSameSliceAndTile(s, ctu, other))
  IN  CASE X(z) # 0 /\ Y(z) # 0 -> <<ctu, Z(X(z) - 1, Y(z) - 1)>>
        [] X(z) # 0 /\ Y(z) = 0 -> In(CtuAbove(s, ctu), X(z) - 1, last)
        [] X(z) = 0 /\ Y(z) # 0 -> In(CtuLeft(s, ctu), last, Y(z) - 1)
        [] X(z) = 0 /\ Y(z) = 0 -> In(CtuAboveLeft(s, ctu), last, last)

(* Below left of the unit z, the lowest one of a block.                    *)
getPUBelowLeft(s, ctu, z) ==
  LET inside == /\ PelY(s, ctu, z) + UnitSize(s) < s.height
                /\ Y(z) < Across(s) - 1
      left   == CtuLeft(s, ctu)
  IN  CASE inside /\ X(z) # 0 ->
             InCtu(<<ctu, Z(X(z) - 1, Y(z) + 1)>>, z > Z(X(z) - 1, Y(z) + 1))
        [] inside /\ X(z) = 0 ->
             InCtu(<<left, Z(Across(s) - 1, Y(z) + 1)>>, CUIsFromSameSliceAndTile(s, ctu, left))
        [] OTHER -> None

(* Above right of the unit z, the rightmost one of a block.                *)
getPUAboveRight(s, ctu, z) ==
  LET inPicture == PelX(s, ctu, z) + UnitSize(s) < s.width
      last      == Across(s) - 1
      In(other, x) == InCtu(<<other, Z(x, last)>>, CUIsFromSameSliceAndTile(s, ctu, other))
  IN  CASE inPicture /\ X(z) < last /\ Y(z) # 0 ->
             InCtu(<<ctu, Z(X(z) + 1, Y(z) - 1)>>, z > Z(X(z) + 1, Y(z) - 1))
        [] inPicture /\ X(z) < last /\ Y(z) = 0 -> In(CtuAbove(s, ctu), X(z) + 1)
        [] inPicture /\ X(z) = last /\ Y(z) = 0 -> In(CtuAboveRight(s, ctu), 0)
        [] OTHER -> None

-----------------------------------------------------------------------------
(* Contexts.                                                               *)

Count(d, places, Holds(_)) == Bit(places[1] # None /\ Holds(places[1]))
                              + Bit(places[2] # None /\ Holds(places[2]))

getCtxSplitFlag(s, d, ctu, z, depth) ==
  Count(d, <<Left(s, ctu, z), Above(s, ctu, z)>>, LAMBDA place : At(d, place).depth > depth)

getCtxSkipFlag(s, d, ctu, z) ==
  Count(d, <<Left(s, ctu, z), Above(s, ctu, z)>>, LAMBDA place : At(d, place).skip)

getCtxInterDir(d, ctu, z) == d[ctu][z].depth

getCtxQtCbf(comp, trDepth) == IF comp = 0 THEN Bit(trDepth = 0) ELSE trDepth

-----------------------------------------------------------------------------
(* Quantization parameters.  A quantization group is a CU of the depth     *)
(* dqpDepth; QpGroup(s, z) is its first unit.                              *)

QpGroup(s, z) == (z \div 4^(s.totalDepth - s.dqpDepth)) * 4^(s.totalDepth - s.dqpDepth)

getQpMinCuLeft(s, ctu, z) ==
  LET group == QpGroup(s, z)
  IN  InCtu(<<ctu, Z(X(group) - 1, Y(group))>>, X(group) # 0)
getQpMinCuAbove(s, ctu, z) ==
  LET group == QpGroup(s, z)
  IN  InCtu(<<ctu, Z(X(group), Y(group) - 1)>>, Y(group) # 0)

(* The unit before z that belongs to a coded CU, or a negative number:     *)
(* what lies outside the picture is skipped one CU at a time.              *)
RECURSIVE getLastValidPartIdx(_, _, _)
getLastValidPartIdx(s, units, z) ==
  LET last == z - 1
  IN  IF last < 0 \/ units[last].mode # "none" THEN last
      ELSE getLastValidPartIdx(s, units, last + 1 - NumParts(s, units[last].depth))

RECURSIVE getLastCodedQP(_, _, _, _)
getLastCodedQP(s, d, ctu, z) ==
  LET last     == getLastValidPartIdx(s, d[ctu], QpGroup(s, z))
      ts       == s.rsToTs[ctu]
      previous == IF ts > 0 THEN s.tsToRs[ts - 1] ELSE NoCtu
  IN  CASE s.tsToRs[s.slice[ctu]] = ctu /\ last < 0 -> s.sliceQp
        [] last >= 0 -> d[ctu][last].qp
        [] /\ s.tsToRs[s.slice[ctu]] # ctu /\ last < 0
           /\ CUIsFromSameSliceTileAndWavefrontRow(s, ctu, previous) ->
             getLastCodedQP(s, d, previous, UnitsOfCtu(s))
        [] OTHER -> s.sliceQp

getRefQP(s, d, ctu, z) ==
  LET Of(place) == IF place # None THEN At(d, place).qp ELSE getLastCodedQP(s, d, ctu, z)
  IN  (Of(getQpMinCuLeft(s, ctu, z)) + Of(getQpMinCuAbove(s, ctu, z)) + 1) \div 2

-----------------------------------------------------------------------------
(* Intra modes.                                                            *)

PLANAR_IDX == 0
DC_IDX     == 1
DM_CHROMA_IDX == 36

(* The modes a chroma block may choose from, the last one that of luma.    *)
getAllowedChromaDir(luma) ==
  [k \in 1..5 |-> LET mode == <<PLANAR_IDX, VER_IDX, HOR_IDX, DC_IDX, DM_CHROMA_IDX>>[k]
                  IN  IF mode = luma THEN 34 ELSE mode]

(* The three most probable modes.                                          *)
getIntraDirPredictor(s, d, ctu, z) ==
  LET Mode(place) == IF place # None /\ At(d, place).mode = "intra"
                     THEN At(d, place).intraDir[1] ELSE DC_IDX
      left  == Mode(Left(s, ctu, z))
      above == Mode(getPUAbove(s, ctu, z, TRUE, TRUE, TRUE))
  IN  CASE left = above /\ left > 1 -> <<left, ((left + 29) % 32) + 2, ((left - 1) % 32) + 2>>
        [] left = above /\ left <= 1 -> <<PLANAR_IDX, DC_IDX, VER_IDX>>
        [] OTHER -> <<left, above,
                      IF left # 0 /\ above # 0 THEN PLANAR_IDX
                      ELSE IF left + above < 2 THEN VER_IDX ELSE DC_IDX>>

(* The scan of the coefficients of a block with the intra mode mode, which *)
(* is 2^log2 wide.                                                         *)
MDCS_ANGLE_LIMIT == 4
MDCS_MAXIMUM_LOG2 == 3

getCoefScanIdx(s, intra, mode, log2, comp) ==
  LET scaled == comp # 0 /\ s.chroma = "420"
      tried  == intra /\ log2 <= MDCS_MAXIMUM_LOG2 - Bit(scaled)
  IN  CASE tried /\ Abs(mode - VER_IDX) <= MDCS_ANGLE_LIMIT -> SCAN_HOR
        [] tried /\ Abs(mode - HOR_IDX) <= MDCS_ANGLE_LIMIT -> SCAN_VER
        [] OTHER -> SCAN_DIAG
=============================================================================
