--------------------------- MODULE PictureLayout ---------------------------
(***************************************************************************)
(* How a picture is divided: TComPicSym's coding tree units (CTUs), tiles  *)
(* and the order in which they are coded, TEncSlice's slices and slice     *)
(* segments, TComPic's substreams.                                         *)
(*                                                                         *)
(* A CTU has a raster address (rs), which names it, and an address in the  *)
(* order of coding (ts).  The settings p give ctusAcross and ctusDown, the *)
(* tiles (columns, rows, uniform, columnWidth and rowHeight of all but the *)
(* last), wavefront, sliceMode, sliceArgument, segmentMode and             *)
(* segmentArgument; l is what follows from them (Layout).                  *)
(***************************************************************************)
EXTENDS Integers, Sequences, FiniteSetsExt

FIXED_NUMBER_OF_CTU   == 1
FIXED_NUMBER_OF_TILES == 3

CtusInFrame(p) == p.ctusAcross * p.ctusDown

-----------------------------------------------------------------------------
(* Tiles (xInitTiles).  Columns and rows are counted from 0.               *)

(* Where the k-th column or row begins: number of them divide total CTUs.  *)
TileBegin(uniform, given, number, total, k) ==
  CASE uniform -> (k * total) \div number
    [] ~uniform /\ k < number -> SumFunctionOnSet(given, 1..k)
    [] OTHER -> total

ColumnBegin(p, col) == TileBegin(p.uniform, p.columnWidth, p.columns, p.ctusAcross, col)
RowBegin(p, row)    == TileBegin(p.uniform, p.rowHeight, p.rows, p.ctusDown, row)

RightEdgePosInCtus(p, tile)  == ColumnBegin(p, (tile % p.columns) + 1) - 1
BottomEdgePosInCtus(p, tile) == RowBegin(p, (tile \div p.columns) + 1) - 1
TileXInCtus(p, tile)         == ColumnBegin(p, tile % p.columns)
TileYInCtus(p, tile)         == RowBegin(p, tile \div p.columns)
TileWidthInCtus(p, tile)     == RightEdgePosInCtus(p, tile) + 1 - TileXInCtus(p, tile)
TileHeightInCtus(p, tile)    == BottomEdgePosInCtus(p, tile) + 1 - TileYInCtus(p, tile)
FirstCtuRsAddr(p, tile)      == TileYInCtus(p, tile) * p.ctusAcross + TileXInCtus(p, tile)

NumTiles(p) == p.columns * p.rows

(* xInitTiles asserts that no tile is empty (profiles other than Main      *)
(* and Main 10).                                                           *)
TilesRight(p) ==
  \A tile \in 0..(NumTiles(p) - 1) : TileWidthInCtus(p, tile) >= 1 /\ TileHeightInCtus(p, tile) >= 1

TileIdxMap(p, ctu) ==
  CHOOSE tile \in 0..(NumTiles(p) - 1) :
    /\ (ctu % p.ctusAcross) \in TileXInCtus(p, tile)..RightEdgePosInCtus(p, tile)
    /\ (ctu \div p.ctusAcross) \in TileYInCtus(p, tile)..BottomEdgePosInCtus(p, tile)

xCalculateNextCtuRSAddr(p, ctu) ==
  LET tile   == TileIdxMap(p, ctu)
      right  == ctu % p.ctusAcross = RightEdgePosInCtus(p, tile)
      bottom == ctu \div p.ctusAcross = BottomEdgePosInCtus(p, tile)
  IN  CASE right /\ bottom /\ tile + 1 = NumTiles(p) -> CtusInFrame(p)
        [] right /\ bottom /\ tile + 1 # NumTiles(p) -> FirstCtuRsAddr(p, tile + 1)
        [] right /\ ~bottom -> ctu + p.ctusAcross - TileWidthInCtus(p, tile) + 1
        [] OTHER -> ctu + 1

CtuTsToRsAddrMap(p) ==
  LET rs[ts \in 0..CtusInFrame(p)] == IF ts = 0 THEN 0 ELSE xCalculateNextCtuRSAddr(p, rs[ts - 1])
  IN  [ts \in 0..CtusInFrame(p) |-> rs[ts]]

-----------------------------------------------------------------------------
(* Slices.  The end of a slice, or of a slice segment, that begins at the  *)
(* CTU start in the order of coding.                                       *)

calculateBoundingCtuTsAddrForSlice(p, tsToRs, start, mode, argument) ==
  LET total    == CtusInFrame(p)
      tile     == TileIdxMap(p, tsToRs[start])
      first    == CHOOSE ts \in 0..total : tsToRs[ts] = FirstCtuRsAddr(p, tile)
      width    == TileWidthInCtus(p, tile)
      column   == (start - first) % width
      tileEnd  == first + width * TileHeightInCtus(p, tile)
      ofTiles  == MapThenSumSet(LAMBDA k : TileWidthInCtus(p, k) * TileHeightInCtus(p, k),
                                tile..(Min({tile + argument, NumTiles(p)}) - 1))
      wanted   == CASE mode = FIXED_NUMBER_OF_CTU   -> Min({total, start + argument})
                    [] mode = FIXED_NUMBER_OF_TILES -> Min({total, start + ofTiles})
                    [] OTHER -> total
      rowEnd   == IF p.wavefront /\ column # 0 THEN start + width - column ELSE total
  IN  IF mode = FIXED_NUMBER_OF_CTU THEN Min({wanted, rowEnd, tileEnd}) ELSE wanted

(* The loop of compressGOP over slice segments, from the segment that      *)
(* begins at start in the slice that begins at slice.                      *)
Segment(start, slice, sliceEnd, segmentEnd) ==
  [start |-> start, end |-> Min({sliceEnd, segmentEnd}), slice |-> slice, dependent |-> start # slice,
   sliceEnd |-> sliceEnd]

RECURSIVE SegmentsFrom(_, _, _, _), SegmentsAfter(_, _, _)
SegmentsAfter(p, tsToRs, segment) ==
  IF segment.end = CtusInFrame(p) THEN <<segment>>
  ELSE <<segment>> \o SegmentsFrom(p, tsToRs, IF segment.end < segment.sliceEnd THEN segment.slice ELSE segment.end,
                                   segment.end)
SegmentsFrom(p, tsToRs, slice, start) ==
  SegmentsAfter(p, tsToRs,
    Segment(start, slice,
            calculateBoundingCtuTsAddrForSlice(p, tsToRs, slice, p.sliceMode, p.sliceArgument),
            calculateBoundingCtuTsAddrForSlice(p, tsToRs, start, p.segmentMode, p.segmentArgument)))

-----------------------------------------------------------------------------
(* All of it.                                                              *)

SegmentOf(segments, rsToTs) ==
  [ctu \in DOMAIN rsToTs |-> segments[CHOOSE k \in DOMAIN segments :
                               rsToTs[ctu] \in segments[k].start..(segments[k].end - 1)]]

OfCtus(p, tsToRs, segments, segment, rsToTs, tile) ==
  [ctusAcross |-> p.ctusAcross, tsToRs |-> tsToRs, rsToTs |-> rsToTs, tile |-> tile,
   tileX |-> [ctu \in DOMAIN tile |-> TileXInCtus(p, tile[ctu])],
   tileY |-> [ctu \in DOMAIN tile |-> TileYInCtus(p, tile[ctu])],
   tileWidth |-> [ctu \in DOMAIN tile |-> TileWidthInCtus(p, tile[ctu])],
   tileHeight |-> [ctu \in DOMAIN tile |-> TileHeightInCtus(p, tile[ctu])],
   segments |-> segments, segment |-> segment,
   slice |-> [ctu \in DOMAIN tile |-> segment[ctu].slice], wavefront |-> p.wavefront]

WithSegments(p, tsToRs, rsToTs, segments) ==
  OfCtus(p, tsToRs, segments, SegmentOf(segments, rsToTs), rsToTs, [ctu \in DOMAIN rsToTs |-> TileIdxMap(p, ctu)])

Ordered(p, tsToRs) ==
  LET ctus == 0..(CtusInFrame(p) - 1)
  IN  WithSegments(p, tsToRs, [ctu \in ctus |-> CHOOSE ts \in ctus : tsToRs[ts] = ctu], SegmentsFrom(p, tsToRs, 0, 0))

Layout(p) == Ordered(p, CtuTsToRsAddrMap(p))

FirstOfTile(l, ctu) == ctu = l.tileY[ctu] * l.ctusAcross + l.tileX[ctu]
ColumnInTile(l, ctu) == (ctu % l.ctusAcross) - l.tileX[ctu]

(* The last CTU of a substream that is not the last of its segment.        *)
EndsSubstream(l, ctu) ==
  /\ ColumnInTile(l, ctu) + 1 = l.tileWidth[ctu]
  /\ l.wavefront \/ ctu \div l.ctusAcross + 1 = l.tileY[ctu] + l.tileHeight[ctu]

(* The substream a CTU is coded in.                                        *)
getSubstreamForCtuAddr(p, l, ctu) ==
  CASE p.wavefront /\ (p.ctusDown > 1 \/ NumTiles(p) > 1) ->
         l.tileY[ctu] * p.columns + l.tileHeight[ctu] * (l.tile[ctu] % p.columns)
         + ctu \div p.ctusAcross - l.tileY[ctu]
    [] ~p.wavefront /\ NumTiles(p) > 1 -> l.tile[ctu]
    [] OTHER -> 0

(* A CTU may take the SAO parameters of its left or upper neighbour.       *)
getSAOMergeAvailability(l, ctu, other) ==
  /\ other >= l.tsToRs[l.slice[ctu]]
  /\ l.tile[other] = l.tile[ctu]

-----------------------------------------------------------------------------
(* Whether the loop filters of a CTU cross its border to a neighbour       *)
(* (deriveLoopFilterBoundaryAvailibility).  acrossSlices is a flag of each *)
(* slice, by its first CTU; acrossTiles one of the PPS.                    *)

Neighbour(p, ctu, dx, dy) ==
  IF /\ (ctu % p.ctusAcross) + dx \in 0..(p.ctusAcross - 1)
     /\ (ctu \div p.ctusAcross) + dy \in 0..(p.ctusDown - 1)
    THEN {ctu + dx + dy * p.ctusAcross} ELSE {}

(* The flag taken is that of the CTU itself for its neighbours left, above *)
(* and above left, that of the neighbour for those right, below and below  *)
(* right, and that of the later slice for the two others.                  *)
deriveLoopFilterBoundaryAvailibility(p, l, acrossSlices, acrossTiles, ctu, dx, dy) ==
  \E other \in Neighbour(p, ctu, dx, dy) :
    /\ l.slice[other] # l.slice[ctu] =>
         CASE dx + dy < 0 -> acrossSlices[l.slice[ctu]]
           [] dx + dy > 0 -> acrossSlices[l.slice[other]]
           [] OTHER -> acrossSlices[Max({l.slice[ctu], l.slice[other]})]
    /\ acrossTiles \/ l.tile[other] = l.tile[ctu]
=============================================================================
