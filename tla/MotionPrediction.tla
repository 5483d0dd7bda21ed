-------------------------- MODULE MotionPrediction --------------------------
(***************************************************************************)
(* Motion of prediction units: TComDataCU's partitions of a coding unit,   *)
(* merge candidates and motion vector predictors.                          *)
(*                                                                         *)
(* Of the slice s gives poc, isB, refPOC and longTerm (for each list, by   *)
(* reference index from 0), maxMergeCand, parMrgLevel, tmvp, colFromL0 and *)
(* checkLDC; col holds the collocated picture: poc, refPOC, longTerm, and  *)
(* its data after compressMV.                                              *)
(***************************************************************************)
EXTENDS CodingUnitData

Lists     == 1..2                   \* REF_PIC_LIST_0 and REF_PIC_LIST_1
NOT_VALID == -1
ZeroMv    == <<0, 0>>
Other(list) == 3 - list
UsesList(dir, list) == (dir \div list) % 2 = 1

Motion(dir, mv, ref) == [dir |-> dir, mv |-> mv, ref |-> ref]
MotionOf(unit)       == Motion(unit.dir, unit.mv, unit.ref)
NoMotion == Motion(0, <<ZeroMv, ZeroMv>>, <<NOT_VALID, NOT_VALID>>)

-----------------------------------------------------------------------------
(* Partitions.  Addresses in a CU are counted in sixteenths of its units.  *)

NumPartitions(part) == CASE part = "SIZE_2Nx2N" -> 1
                         [] part = "SIZE_NxN" -> 4
                         [] OTHER -> 2

Sixteenths(s, depth, n) == (n * NumParts(s, depth)) \div 16

(* getPartIndexAndSize: the address of a partition, and its size in        *)
(* quarters of the CU's.                                                   *)
PartAddr(part, idx) ==
  CASE idx = 0 -> 0
    [] idx # 0 /\ part = "SIZE_NxN" -> 4 * idx
    [] OTHER -> [SIZE_2NxN |-> 8, SIZE_Nx2N |-> 4, SIZE_2NxnU |-> 2, SIZE_2NxnD |-> 10,
                 SIZE_nLx2N |-> 1, SIZE_nRx2N |-> 5][part]
PartQuarters(part, idx) ==
  CASE part = "SIZE_2Nx2N" -> <<4, 4>>
    [] part = "SIZE_2NxN"  -> <<4, 2>>
    [] part = "SIZE_Nx2N"  -> <<2, 4>>
    [] part = "SIZE_NxN"   -> <<2, 2>>
    [] part = "SIZE_2NxnU" -> <<4, IF idx = 0 THEN 1 ELSE 3>>
    [] part = "SIZE_2NxnD" -> <<4, IF idx = 0 THEN 3 ELSE 1>>
    [] part = "SIZE_nLx2N" -> <<(IF idx = 0 THEN 1 ELSE 3), 4>>
    [] part = "SIZE_nRx2N" -> <<(IF idx = 0 THEN 3 ELSE 1), 4>>

PartWidth(s, depth, part, idx)  == (PartQuarters(part, idx)[1] * CuSize(s, depth)) \div 4
PartHeight(s, depth, part, idx) == (PartQuarters(part, idx)[2] * CuSize(s, depth)) \div 4

(* The units of a partition (TComCUMvField::setAll), in sixteenths.        *)
FirstPart == [SIZE_2Nx2N |-> 0..15, SIZE_2NxN |-> 0..7, SIZE_Nx2N |-> (0..3) \cup (8..11),
              SIZE_2NxnU |-> {0, 1, 4, 5}, SIZE_2NxnD |-> (0..9) \cup {12, 13},
              SIZE_nLx2N |-> {0, 2, 8, 10},
              SIZE_nRx2N |-> (0..4) \cup {6} \cup (8..12) \cup {14}]
PartUnits(s, z, depth, part, idx) ==
  LET n    == NumParts(s, depth)
      Part == CASE part = "SIZE_NxN" -> (4 * idx)..(4 * idx + 3)
                [] part # "SIZE_NxN" /\ idx = 0 -> FirstPart[part]
                [] OTHER -> (0..15) \ FirstPart[part]
  IN  {u \in z..(z + n - 1) : (16 * (u - z)) \div n \in Part}

(* Corners of a partition: deriveLeftRightTopIdx, deriveLeftBottomIdx and  *)
(* deriveRightBottomIdx step from a unit at the border of the CU.          *)
RightTop == [SIZE_2Nx2N |-> <<0>>, SIZE_2NxN |-> <<0, 8>>, SIZE_Nx2N |-> <<(-4), 0>>,
             SIZE_NxN |-> <<(-4), 0, 4, 8>>, SIZE_2NxnU |-> <<0, 2>>, SIZE_2NxnD |-> <<0, 10>>,
             SIZE_nLx2N |-> <<(-5), 0>>, SIZE_nRx2N |-> <<(-1), 0>>]
LeftBottom == [SIZE_2Nx2N |-> <<8>>, SIZE_2NxN |-> <<0, 8>>, SIZE_Nx2N |-> <<8, 12>>,
               SIZE_NxN |-> <<0, 4, 8, 12>>, SIZE_2NxnU |-> <<(-2), 8>>, SIZE_2NxnD |-> <<6, 8>>,
               SIZE_nLx2N |-> <<8, 9>>, SIZE_nRx2N |-> <<8, 13>>]
RightBottom == [SIZE_2Nx2N |-> <<8>>, SIZE_2NxN |-> <<0, 8>>, SIZE_Nx2N |-> <<4, 8>>,
                SIZE_NxN |-> <<(-4), 0, 4, 8>>, SIZE_2NxnU |-> <<(-2), 8>>, SIZE_2NxnD |-> <<6, 8>>,
                SIZE_nLx2N |-> <<3, 8>>, SIZE_nRx2N |-> <<7, 8>>]

LastColumn(s, depth) == CuAcross(s, depth) - 1
MiddleRow(s, depth)  == CuAcross(s, depth) \div 2 - 1

PartIdxLT(s, z, depth, part, idx) == z + Sixteenths(s, depth, PartAddr(part, idx))
PartIdxRT(s, z, depth, part, idx) ==
  z + Z(LastColumn(s, depth), 0) + Sixteenths(s, depth, RightTop[part][idx + 1])
PartIdxLB(s, z, depth, part, idx) ==
  z + Z(0, MiddleRow(s, depth)) + Sixteenths(s, depth, LeftBottom[part][idx + 1])
PartIdxRB(s, z, depth, part, idx) ==
  z + Z(LastColumn(s, depth), MiddleRow(s, depth)) + Sixteenths(s, depth, RightBottom[part][idx + 1])

(* deriveLeftRightTopIdxGeneral and deriveLeftBottomIdxGeneral: from the   *)
(* upper left unit and the size of the partition.                          *)
GeneralRT(s, z, width)  == Z(X(z) + width \div UnitSize(s) - 1, Y(z))
GeneralLB(s, z, height) == Z(X(z), Y(z) + height \div UnitSize(s) - 1)

xDeriveCenterIdx(s, z, depth, part, idx) ==
  LET lt == PartIdxLT(s, z, depth, part, idx)
      Half(size) == (size \div UnitSize(s)) \div 2
  IN  Z(X(lt) + Half(PartWidth(s, depth, part, idx)), Y(lt) + Half(PartHeight(s, depth, part, idx)))

isBipredRestriction(s, depth, part, idx) ==
  /\ CuSize(s, depth) = 8
  /\ PartWidth(s, depth, part, idx) < 8 \/ PartHeight(s, depth, part, idx) < 8

-----------------------------------------------------------------------------
(* Temporal prediction.                                                    *)

DivTruncated(a, b) == IF (a < 0) = (b < 0) THEN Abs(a) \div Abs(b) ELSE -(Abs(a) \div Abs(b))

xGetDistScaleFactor(currPOC, currRefPOC, colPOC, colRefPOC) ==
  LET diffD == colPOC - colRefPOC
      diffB == currPOC - currRefPOC
      tdb   == Clip3(-128, 127, diffB)
      tdd   == Clip3(-128, 127, diffD)
      x     == DivTruncated(16384 + Abs(DivTruncated(tdd, 2)), tdd)
  IN  IF diffD = diffB THEN 4096 ELSE Clip3(-4096, 4095, (tdb * x + 32) \div 64)

ScaledMv(mv, scale) ==
  LET Scaled(v) == Clip3(-32768, 32767, (scale * v + 127 + Bit(scale * v < 0)) \div 256)
  IN  IF scale = 4096 THEN mv ELSE <<Scaled(mv[1]), Scaled(mv[2])>>

(* The unit below and right of the unit rb, unless it is outside the       *)
(* picture or in the next row of CTUs.                                     *)
BottomRight(s, ctu, rb) ==
  LET inPicture == /\ PelX(s, ctu, rb) + UnitSize(s) < s.width
                   /\ PelY(s, ctu, rb) + UnitSize(s) < s.height
      last      == Across(s) - 1
  IN  CASE inPicture /\ X(rb) < last /\ Y(rb) < last -> <<ctu, Z(X(rb) + 1, Y(rb) + 1)>>
        [] inPicture /\ X(rb) = last /\ Y(rb) < last -> <<ctu + 1, Z(0, Y(rb) + 1)>>
        [] OTHER -> None

(* The motion vector of the collocated picture at a place, scaled for the  *)
(* reference ref of the list, or nothing.                                  *)
ColVector(s, col, list, unit, colList, ref) ==
  LET scale == xGetDistScaleFactor(s.poc, s.refPOC[list][ref + 1],
                                   col.poc, col.refPOC[colList][unit.ref[colList] + 1])
  IN  IF s.longTerm[list][ref + 1] THEN unit.mv[colList] ELSE ScaledMv(unit.mv[colList], scale)

xGetColMVP(s, col, list, place, ref) ==
  LET unit    == At(col.data, place)
      first   == IF s.checkLDC THEN list ELSE s.colFromL0 + 1
      colList == IF unit.ref[first] < 0 THEN Other(first) ELSE first
      colRef  == unit.ref[colList]
  IN  If(/\ place # None
         /\ unit.mode = "inter"
         /\ colRef >= 0
         /\ s.longTerm[list][ref + 1] = col.longTerm[colList][colRef + 1],
         <<ColVector(s, col, list, unit, colList, ref)>>)

FirstOf(options) ==
  IF \E k \in DOMAIN options : options[k] # << >>
    THEN options[CHOOSE k \in DOMAIN options :
                   options[k] # << >> /\ \A j \in 1..(k - 1) : options[j] = << >>]
    ELSE << >>

(* Below right of the partition, or else in its middle.                    *)
TemporalPlaces(s, ctu, z, depth, part, idx) ==
  <<BottomRight(s, ctu, PartIdxRB(s, z, depth, part, idx)),
    <<ctu, xDeriveCenterIdx(s, z, depth, part, idx)>> >>

VectorAt(s, col, list, ref, places) ==
  FirstOf([k \in DOMAIN places |-> xGetColMVP(s, col, list, places[k], ref)])

TemporalMv(s, col, list, ctu, z, depth, part, idx, ref) ==
  VectorAt(s, col, list, ref, TemporalPlaces(s, ctu, z, depth, part, idx))

-----------------------------------------------------------------------------
(* Merge candidates.                                                       *)

\* Mutant: regions told apart by their column only.
isDiffMER_Columns(s, xN, yN, xP, yP) == xN \div 2^s.parMrgLevel # xP \div 2^s.parMrgLevel

isDiffMER(s, xN, yN, xP, yP) ==
  \/ xN \div 2^s.parMrgLevel # xP \div 2^s.parMrgLevel
  \/ yN \div 2^s.parMrgLevel # yP \div 2^s.parMrgLevel

hasEqualMotion(a, b) ==
  /\ a.dir = b.dir
  /\ \A list \in Lists : UsesList(a.dir, list) => a.mv[list] = b.mv[list] /\ a.ref[list] = b.ref[list]

BesideFirst == {"SIZE_Nx2N", "SIZE_nLx2N", "SIZE_nRx2N"}
BelowFirst  == {"SIZE_2NxN", "SIZE_2NxnU", "SIZE_2NxnD"}

(* The five neighbours of a partition, and a sample of each.               *)
MergePlaces(s, ctu, addr, rt, lb) ==
  [a1 |-> Left(s, ctu, lb), b1 |-> Above(s, ctu, rt), b0 |-> getPUAboveRight(s, ctu, rt),
   a0 |-> getPUBelowLeft(s, ctu, lb), b2 |-> getPUAboveLeft(s, ctu, addr)]

MergeSamples(x, y, w, h) ==
  [a1 |-> <<x - 1, y + h - 1>>, b1 |-> <<x + w - 1, y - 1>>, b0 |-> <<x + w, y - 1>>,
   a0 |-> <<x - 1, y + h>>, b2 |-> <<x - 1, y - 1>>]

NeighboursOf(s, ctu, addr, w, h) ==
  [places  |-> MergePlaces(s, ctu, addr, GeneralRT(s, addr, w), GeneralLB(s, addr, h)),
   samples |-> MergeSamples(PelX(s, ctu, addr), PelY(s, ctu, addr), w, h),
   xP      |-> PelX(s, ctu, addr),
   yP      |-> PelY(s, ctu, addr)]

(* The motion of those that are available: the second partition does not   *)
(* merge with the first.                                                   *)
AvailableMotion(s, d, part, idx, near) ==
  [n \in DOMAIN near.places |->
     If(/\ near.places[n] # None
        /\ ~(n = "a1" /\ idx = 1 /\ part \in BesideFirst)
        /\ ~(n = "b1" /\ idx = 1 /\ part \in BelowFirst)
        /\ isDiffMER(s, near.samples[n][1], near.samples[n][2], near.xP, near.yP)
        /\ At(d, near.places[n]).mode = "inter",
        <<MotionOf(At(d, near.places[n]))>>)]

(* Without some duplicates, the fifth only if one of the others is missing. *)
DistinctMotion(m) ==
  LET New(n, other) == n # << >> /\ (other = << >> \/ ~hasEqualMotion(other[1], n[1]))
      four == m.a1 \o If(New(m.b1, m.a1), m.b1) \o If(New(m.b0, m.b1), m.b0)
              \o If(New(m.a0, m.a1), m.a0)
  IN  four \o If(Len(four) < 4 /\ New(m.b2, m.a1) /\ New(m.b2, m.b1), m.b2)

(* A slice of type P leaves list 1 of a candidate alone.                   *)
OfSlice(s, candidate) ==
  IF s.isB THEN candidate
  ELSE [candidate EXCEPT !.mv[2] = ZeroMv, !.ref[2] = NOT_VALID]
OfSlices(s, candidates) == [k \in DOMAIN candidates |-> OfSlice(s, candidates[k])]

SpatialCandidates(s, d, ctu, z, depth, part, idx) ==
  OfSlices(s, DistinctMotion(AvailableMotion(s, d, part, idx,
    NeighboursOf(s, ctu, PartIdxLT(s, z, depth, part, idx),
                 PartWidth(s, depth, part, idx), PartHeight(s, depth, part, idx)))))

(* The candidate of the temporal vectors of both lists.                    *)
TemporalMotion(mv) ==
  LET Has(list) == mv[list] # << >>
  IN  If(Has(1) \/ Has(2),
         <<Motion(Bit(Has(1)) + 2 * Bit(Has(2)),
                  [list \in Lists |-> IF Has(list) THEN mv[list][1] ELSE ZeroMv],
                  [list \in Lists |-> IF Has(list) THEN 0 ELSE NOT_VALID])>>)

TemporalCandidate(s, col, ctu, z, depth, part, idx) ==
  TemporalMotion([list \in Lists |->
                    If(s.tmvp /\ (list = 1 \/ s.isB),
                       TemporalMv(s, col, list, ctu, z, depth, part, idx, 0))])

(* List 0 of one candidate and list 1 of another, in the order of the      *)
(* priority lists.                                                         *)
uiPriorityList0 == <<0, 1, 0, 2, 1, 2, 0, 3, 1, 3, 2, 3>>
uiPriorityList1 == <<1, 0, 2, 0, 2, 1, 3, 0, 3, 1, 3, 2>>

CombinedCandidates(s, candidates) ==
  LET cutoff == Len(candidates)
      pairs  == [k \in 1..Smaller(cutoff * (cutoff - 1), 12) |->
                   <<candidates[uiPriorityList0[k] + 1], candidates[uiPriorityList1[k] + 1]>>]
      Useful(pair) ==
        /\ UsesList(pair[1].dir, 1)
        /\ UsesList(pair[2].dir, 2)
        /\ \/ s.refPOC[1][pair[1].ref[1] + 1] # s.refPOC[2][pair[2].ref[2] + 1]
           \/ pair[1].mv[1] # pair[2].mv[2]
      Combined(pair) == Motion(3, <<pair[1].mv[1], pair[2].mv[2]>>, <<pair[1].ref[1], pair[2].ref[2]>>)
      useful == SelectSeq(pairs, Useful)
  IN  If(s.isB, [k \in DOMAIN useful |-> Combined(useful[k])])

ZeroCandidates(s) ==
  LET numRef == IF s.isB THEN Smaller(Len(s.refPOC[1]), Len(s.refPOC[2])) ELSE Len(s.refPOC[1])
  IN  [k \in 1..s.maxMergeCand |->
         LET r == IF k <= numRef THEN k - 1 ELSE 0
         IN  OfSlice(s, Motion(IF s.isB THEN 3 ELSE 1, <<ZeroMv, ZeroMv>>, <<r, r>>))]

(* getInterMergeCandidates: maxMergeCand candidates.  The code stops after *)
(* the one it is asked for, if it is asked for one.                        *)
AtMostMerge(s, candidates) == SubSeq(candidates, 1, Smaller(Len(candidates), s.maxMergeCand))

WithCombined(s, found) == AtMostMerge(s, found \o CombinedCandidates(s, found))

getInterMergeCandidates(s, d, col, ctu, z, depth, part, idx) ==
  AtMostMerge(s, WithCombined(s, AtMostMerge(s, SpatialCandidates(s, d, ctu, z, depth, part, idx)
                                                \o TemporalCandidate(s, col, ctu, z, depth, part, idx)))
                 \o ZeroCandidates(s))

-----------------------------------------------------------------------------
(* Motion vector predictors.                                               *)

(* The vector of a neighbour that refers to the same picture.              *)
xAddMVPCandUnscaled(s, d, list, ref, place) ==
  LET unit == At(d, place)
      Same(l) == unit.ref[l] >= 0 /\ s.refPOC[l][unit.ref[l] + 1] = s.refPOC[list][ref + 1]
  IN  CASE place # None /\ Same(list) -> <<unit.mv[list]>>
        [] place # None /\ ~Same(list) /\ Same(Other(list)) -> <<unit.mv[Other(list)]>>
        [] OTHER -> << >>

(* Or to another one, scaled by the distances.                             *)
xAddMVPCandWithScaling(s, d, list, ref, place) ==
  LET unit == At(d, place)
      long == s.longTerm[list][ref + 1]
      Fits(l) == unit.ref[l] >= 0 /\ s.longTerm[l][unit.ref[l] + 1] = long
      of == IF Fits(list) THEN list ELSE Other(list)
      Scaled(scale) == IF long THEN unit.mv[of] ELSE ScaledMv(unit.mv[of], scale)
  IN  If(place # None /\ Fits(of),
         <<Scaled(xGetDistScaleFactor(s.poc, s.refPOC[list][ref + 1],
                                      s.poc, s.refPOC[of][unit.ref[of] + 1]))>>)

AMVP_MAX_NUM_CANDS == 2

(* Where the predictors come from: left of the partition, and above it.    *)
MvpPlaces(s, ctu, lt, rt, lb) ==
  [left  |-> <<getPUBelowLeft(s, ctu, lb), Left(s, ctu, lb)>>,
   above |-> <<getPUAboveRight(s, ctu, rt), Above(s, ctu, rt), getPUAboveLeft(s, ctu, lt)>>]

(* Above, a vector is scaled only if no inter unit is on the left.         *)
SpatialPredictors(s, d, list, ref, places) ==
  LET Unscaled(side) == [k \in DOMAIN places[side] |-> xAddMVPCandUnscaled(s, d, list, ref, places[side][k])]
      Scaled(side)   == [k \in DOMAIN places[side] |-> xAddMVPCandWithScaling(s, d, list, ref, places[side][k])]
      isScaledFlagLX == \E k \in DOMAIN places.left : /\ places.left[k] # None
                                                     /\ At(d, places.left[k]).mode = "inter"
  IN  If(isScaledFlagLX, FirstOf(Unscaled("left") \o Scaled("left")))
      \o FirstOf(Unscaled("above"))
      \o If(~isScaledFlagLX, FirstOf(Scaled("above")))

DistinctPredictors(mvs) == IF Len(mvs) = 2 /\ mvs[1] = mvs[2] THEN <<mvs[1]>> ELSE mvs

WithTemporal(s, col, list, ctu, z, depth, part, idx, ref, mvs) ==
  mvs \o If(Len(mvs) < AMVP_MAX_NUM_CANDS /\ s.tmvp,
            TemporalMv(s, col, list, ctu, z, depth, part, idx, ref))

fillMvpCand(s, d, col, ctu, z, depth, part, idx, list, ref) ==
  SubSeq(WithTemporal(s, col, list, ctu, z, depth, part, idx, ref,
           DistinctPredictors(SpatialPredictors(s, d, list, ref,
             MvpPlaces(s, ctu, PartIdxLT(s, z, depth, part, idx), PartIdxRT(s, z, depth, part, idx),
                       PartIdxLB(s, z, depth, part, idx)))))
         \o <<ZeroMv, ZeroMv>>, 1, AMVP_MAX_NUM_CANDS)

-----------------------------------------------------------------------------
(* TComDataCU::compressMV of the units of a CTU: one motion vector for     *)
(* every 16 x 16 samples.                                                  *)

compressMV(s, units) ==
  LET kept == 4^(4 - s.log2Unit)
  IN  Table([z \in DOMAIN units |->
               LET unit == units[(z \div kept) * kept]
               IN  [mode |-> unit.mode, mv |-> unit.mv, ref |-> unit.ref]])
=============================================================================
