----------------------------- MODULE Deblocking -----------------------------
(***************************************************************************)
(* TComLoopFilter: the deblocking filter.  First all edges are filtered    *)
(* that are vertical (dir = "ver"), CTU after CTU, in the planes           *)
(* themselves, then those that are horizontal ("hor").                     *)
(*                                                                         *)
(* e holds the settings s, the data d of the picture, the CTU and dir.  Of *)
(* s are used deblockingOff and acrossSlices (for each slice), acrossTiles,*)
(* betaOffsetDiv2, tcOffsetDiv2, the QP offsets of the PPS and             *)
(* pcmFilterOff.  A filter r is                                            *)
(*   edge, bs  m_aapbEdgeFilter and m_aapucBS of the units of the CTU,     *)
(*   planes    the planes of the picture,                                  *)
(*   from      << >>, or the planes that are read instead of planes.       *)
(***************************************************************************)
EXTENDS Transform

DEBLOCK_SMALLEST_BLOCK  == 8
DEFAULT_INTRA_TC_OFFSET == 2
MAX_QP == 51

sm_tcTable ==
  <<0,0,0,0,0,0,0,0,0,0,0,0,0,0,0,0,0,0,1,1,1,1,1,1,1,1,1,2,2,2,2,3,3,3,3,4,4,4,
    5,5,6,6,7,8,9,10,11,13,14,16,18,20,22,24>>
sm_betaTable ==
  <<0,0,0,0,0,0,0,0,0,0,0,0,0,0,0,0,6,7,8,9,10,11,12,13,14,15,16,17,18,20,22,24,26,28,
    30,32,34,36,38,40,42,44,46,48,50,52,54,56,58,60,62,64>>

Source(r) == IF r.from = << >> THEN r.planes ELSE r.from

-----------------------------------------------------------------------------
(* Which edges there are.                                                  *)

(* The k-th unit along the edge that lies edge units into a block at z.    *)
xCalcBsIdx(dir, z, edge, k) ==
  IF dir = "ver" THEN Z(X(z) + edge, Y(z) + k) ELSE Z(X(z) + k, Y(z) + edge)

(* The units n along an edge become one, or none; bs first says which of   *)
(* them are edges of transform units.                                      *)
xSetEdgefilterMultiple(e, z, edge, value, n, r) ==
  LET units == {xCalcBsIdx(e.dir, z, edge, k) : k \in 0..(n - 1)}
  IN  [r EXCEPT !.edge = Table([u \in DOMAIN @ |-> IF u \in units THEN value ELSE @[u]]),
                !.bs   = Table([u \in DOMAIN @ |-> IF u \in units /\ edge = 0 THEN Bit(value) ELSE @[u]])]

InternalEdge(e) == ~e.s.deblockingOff[e.s.slice[e.ctu]]

RECURSIVE xSetEdgefilterTU(_, _, _)
xSetEdgefilterTU(e, n, r) ==
  LET Section(k, before) == xSetEdgefilterTU(e, Child(e.s, n, k), before)
  IN  After(r, IF e.d[e.ctu][n.z].trIdx > n.tr THEN InTurn(Section, r)
               ELSE xSetEdgefilterMultiple(e, n.z, 0, InternalEdge(e), CuAcross(e.s, TotalDepth(n)), r))

(* The unit on the other side of an edge, if the filter may cross it.      *)
PartP(e, z) ==
  LET slice == ~e.s.acrossSlices[e.s.slice[e.ctu]]
      tile  == ~e.s.acrossTiles
  IN  IF e.dir = "ver" THEN getPULeft(e.s, e.ctu, z, slice, tile)
      ELSE getPUAbove(e.s, e.ctu, z, slice, FALSE, tile)

(* xSetLoopfilterParam: the first edge of a CU.                            *)
FirstEdge(e, z) ==
  /\ InternalEdge(e)
  /\ (IF e.dir = "ver" THEN PelX(e.s, e.ctu, z) ELSE PelY(e.s, e.ctu, z)) # 0
  /\ PartP(e, z) # None

(* Where the second prediction unit begins, in a CU of n units.            *)
InnerEdge(dir, part, n) ==
  CASE part \in {"SIZE_NxN", IF dir = "ver" THEN "SIZE_Nx2N" ELSE "SIZE_2NxN"} -> {n \div 2}
    [] part = (IF dir = "ver" THEN "SIZE_nLx2N" ELSE "SIZE_2NxnU") -> {n \div 4}
    [] part = (IF dir = "ver" THEN "SIZE_nRx2N" ELSE "SIZE_2NxnD") -> {n - n \div 4}
    [] OTHER -> {}

xSetEdgefilterPU(e, z, depth, r) ==
  LET n     == CuAcross(e.s, depth)
      first == xSetEdgefilterMultiple(e, z, 0, FirstEdge(e, z), n, r)
      inner == InnerEdge(e.dir, e.d[e.ctu][z].part, n)
  IN  IF inner = {} THEN first
      ELSE xSetEdgefilterMultiple(e, z, CHOOSE k \in inner : TRUE, InternalEdge(e), n, first)

-----------------------------------------------------------------------------
(* Boundary strength.                                                      *)

(* The pictures and vectors a unit is predicted from; 0 is no picture.     *)
Reference(e, unit, list) ==
  IF unit.ref[list] < 0 THEN [poc |-> << >>, mv |-> <<0, 0>>]
  ELSE [poc |-> <<e.s.refPOC[list][unit.ref[list] + 1]>>, mv |-> unit.mv[list]]

Far(a, b) == Abs(a.mv[1] - b.mv[1]) >= 4 \/ Abs(a.mv[2] - b.mv[2]) >= 4

DifferentMotion(e, p, q) ==
  LET P(list) == Reference(e, p, list)
      Q(list) == Reference(e, q, list)
      straight == P(1).poc = Q(1).poc /\ P(2).poc = Q(2).poc
      crossed  == P(1).poc = Q(2).poc /\ P(2).poc = Q(1).poc
  IN  CASE ~e.s.isB -> P(1).poc # Q(1).poc \/ Far(P(1), Q(1))
        [] e.s.isB /\ ~straight /\ ~crossed -> TRUE
        [] e.s.isB /\ (straight \/ crossed) /\ P(1).poc # P(2).poc ->
             IF P(1).poc = Q(1).poc THEN Far(P(1), Q(1)) \/ Far(P(2), Q(2))
             ELSE Far(P(1), Q(2)) \/ Far(P(2), Q(1))
        [] OTHER -> /\ Far(P(1), Q(1)) \/ Far(P(2), Q(2))
                    /\ Far(P(1), Q(2)) \/ Far(P(2), Q(1))

StrengthOf(e, p, q, bs) ==
  LET coded(unit) == CbfAt(unit, 0, unit.trIdx) = 1
  IN  CASE "intra" \in {p.mode, q.mode} -> 2
        [] "intra" \notin {p.mode, q.mode} /\ bs # 0 /\ (coded(p) \/ coded(q)) -> 1
        [] OTHER -> Bit(DifferentMotion(e, p, q))

xGetBoundaryStrengthSingle(e, z, bs) == StrengthOf(e, At(e.d, PartP(e, z)), e.d[e.ctu][z], bs)

(* Edges lie 8 samples apart.                                              *)
OnGrid(e, z) == UnitSize(e.s) = 4 => (IF e.dir = "ver" THEN X(z) ELSE Y(z)) % 2 = 0

WithStrengths(e, units, r) ==
  [r EXCEPT !.bs = Table([u \in DOMAIN @ |->
     IF u \in units /\ r.edge[u] /\ OnGrid(e, u) THEN xGetBoundaryStrengthSingle(e, u, @[u]) ELSE @[u]])]

-----------------------------------------------------------------------------
(* Filters.  m are the samples of a line across the edge, from -4 to 3;    *)
(* those from 0 are on its own side.                                       *)

xPelFilterLuma(s, m, tc, strong, second) ==
  LET Near(k, v) == Clip3(m[k] - 2 * tc, m[k] + 2 * tc, v)
      delta  == (9 * (m[0] - m[-1]) - 3 * (m[1] - m[-2]) + 8) \div 16
      change == Clip3(-tc, tc, delta)
      half   == tc \div 2
      changeP == Clip3(-half, half, ((m[-3] + m[-1] + 1) \div 2 - m[-2] + change) \div 2)
      changeQ == Clip3(-half, half, ((m[2] + m[0] + 1) \div 2 - m[1] - change) \div 2)
      Strong(k) ==
        CASE k = -3 -> Near(k, (2 * m[-4] + 3 * m[-3] + m[-2] + m[-1] + m[0] + 4) \div 8)
          [] k = -2 -> Near(k, (m[-3] + m[-2] + m[-1] + m[0] + 2) \div 4)
          [] k = -1 -> Near(k, (m[-3] + 2 * m[-2] + 2 * m[-1] + 2 * m[0] + m[1] + 4) \div 8)
          [] k = 0  -> Near(k, (m[-2] + 2 * m[-1] + 2 * m[0] + 2 * m[1] + m[2] + 4) \div 8)
          [] k = 1  -> Near(k, (m[-1] + m[0] + m[1] + m[2] + 2) \div 4)
          [] k = 2  -> Near(k, (m[-1] + m[0] + m[1] + 3 * m[2] + 2 * m[3] + 4) \div 8)
      Weak(k) ==
        CASE k = -1 -> ClipBD(s, 0, m[-1] + change)
          [] k = 0  -> ClipBD(s, 0, m[0] - change)
          [] k = -2 /\ second.p -> ClipBD(s, 0, m[-2] + changeP)
          [] k = 1 /\ second.q  -> ClipBD(s, 0, m[1] + changeQ)
          [] OTHER -> m[k]
  IN  [k \in -3..2 |-> CASE strong -> Strong(k)
                         [] ~strong /\ Abs(delta) < 10 * tc -> Weak(k)
                         [] OTHER -> m[k]]

xPelFilterChroma(s, m, tc) ==
  LET delta == Clip3(-tc, tc, (4 * (m[0] - m[-1]) + m[-2] - m[1] + 4) \div 8)
  IN  [k \in {-1, 0} |-> ClipBD(s, 1, IF k = 0 THEN m[0] - delta ELSE m[-1] + delta)]

xCalcDP(m) == Abs(m[-3] - 2 * m[-2] + m[-1])
xCalcDQ(m) == Abs(m[0] - 2 * m[1] + m[2])
xUseStrongFiltering(m, d, beta, tc) ==
  /\ Abs(m[-4] - m[-1]) + Abs(m[3] - m[0]) < beta \div 8
  /\ d < beta \div 4
  /\ Abs(m[-1] - m[0]) < (5 * tc + 1) \div 2

-----------------------------------------------------------------------------
(* Edges of one unit.                                                      *)

(* Where the k-th sample of the i-th line across the edge of the unit z    *)
(* is, and such a line.                                                    *)
SamplePlace(e, comp, z, i, k) ==
  LET x == CuX(e.s, comp, e.ctu, z)
      y == CuY(e.s, comp, e.ctu, z)
  IN  IF e.dir = "ver" THEN (y + i) * PlaneWidth(e.s, comp) + x + k
      ELSE (y + k) * PlaneWidth(e.s, comp) + x + i
Across8(e, comp, r, z, i) == Table([k \in -4..3 |-> Source(r)[comp][SamplePlace(e, comp, z, i, k)]])

(* The sides of an edge that are not filtered.                             *)
NoFilter(e, unit) == \/ e.s.usePcm /\ e.s.pcmFilterOff /\ unit.ipcm
                     \/ e.s.bypassEnabled /\ unit.bypass
SideOf(e, z, k) == IF k < 0 THEN At(e.d, PartP(e, z)) ELSE e.d[e.ctu][z]

(* line(i) are the samples of the line i, as far as they change.           *)
WithLines(e, comp, z, line, r) ==
  LET places == UNION {{<<i, k>> : k \in {j \in DOMAIN line[i] : ~NoFilter(e, SideOf(e, z, j))}} : i \in DOMAIN line}
      change == [p \in {SamplePlace(e, comp, z, at[1], at[2]) : at \in places} |->
                   LET at == CHOOSE q \in places : SamplePlace(e, comp, z, q[1], q[2]) = p IN line[at[1]][at[2]]]
      table  == Table(change)
  IN  [r EXCEPT !.planes[comp] = Table([p \in DOMAIN @ |-> IF p \in DOMAIN table THEN table[p] ELSE @[p]])]

AverageQP(e, z) == (At(e.d, PartP(e, z)).qp + e.d[e.ctu][z].qp + 1) \div 2
Tc(e, comp, qp, bs) ==
  sm_tcTable[Clip3(0, MAX_QP + DEFAULT_INTRA_TC_OFFSET, qp + DEFAULT_INTRA_TC_OFFSET * (bs - 1) + 2 * e.s.tcOffsetDiv2) + 1]
  * 2^(BitDepth(e.s, comp) - 8)

(* Four lines at a time are filtered or not, by the first and the last.    *)
LumaDecision(beta, tc, m0, m3) ==
  LET d0   == xCalcDP(m0) + xCalcDQ(m0)
      d3   == xCalcDP(m3) + xCalcDQ(m3)
      side == (beta + beta \div 2) \div 8
  IN  [on     |-> d0 + d3 < beta,
       second |-> [p |-> xCalcDP(m0) + xCalcDP(m3) < side, q |-> xCalcDQ(m0) + xCalcDQ(m3) < side],
       strong |-> xUseStrongFiltering(m0, 2 * d0, beta, tc) /\ xUseStrongFiltering(m3, 2 * d3, beta, tc)]

Beta(e, qp) == sm_betaTable[Clip3(0, MAX_QP, qp + 2 * e.s.betaOffsetDiv2) + 1] * 2^(BitDepth(e.s, 0) - 8)

LumaDecisions(e, z, tc, r) ==
  LET beta == Beta(e, AverageQP(e, z))
  IN  Table([four \in 0..(UnitSize(e.s) \div 4 - 1) |->
               LumaDecision(beta, tc, Across8(e, 0, r, z, 4 * four), Across8(e, 0, r, z, 4 * four + 3))])

FilteredLuma(e, z, tc, decisions, r) ==
  Table([i \in {k \in 0..(UnitSize(e.s) - 1) : decisions[k \div 4].on} |->
           xPelFilterLuma(e.s, Across8(e, 0, r, z, i), tc, decisions[i \div 4].strong, decisions[i \div 4].second)])

FilterLuma(e, z, r) ==
  LET tc == Tc(e, 0, AverageQP(e, z), r.bs[z])
  IN  IF r.bs[z] = 0 THEN r
      ELSE WithLines(e, 0, z, FilteredLuma(e, z, tc, LumaDecisions(e, z, tc, r), r), r)

ChromaEdgeQP(e, comp, z) ==
  LET qp == AverageQP(e, z) + e.s.qpOffset[comp]
  IN  CASE qp > 57 -> IF e.s.chroma = "420" THEN qp - 6 ELSE 51
        [] qp \in 0..57 -> getScaledChromaQP(e.s, qp)
        [] OTHER -> qp

FilterChroma(e, comp, z, r) ==
  LET tc == Tc(e, comp, ChromaEdgeQP(e, comp, z), r.bs[z])
  IN  IF r.bs[z] <= 1 THEN r
      ELSE WithLines(e, comp, z, Table([i \in 0..(UnitWidth(e.s, comp) - 1) |->
                                          xPelFilterChroma(e.s, Across8(e, comp, r, z, i), tc)]), r)

-----------------------------------------------------------------------------
(* Edges of a CU.                                                          *)

RECURSIVE xEdgeFilterLuma(_, _, _, _, _)
xEdgeFilterLuma(e, z, edge, units, r) ==
  IF units = 0 THEN r
  ELSE After(r, FilterLuma(e, xCalcBsIdx(e.dir, z, edge, units - 1), xEdgeFilterLuma(e, z, edge, units - 1, r)))

RECURSIVE ChromaAlongEdge(_, _, _, _, _, _)
ChromaAlongEdge(e, comp, z, edge, units, r) ==
  IF units = 0 THEN r
  ELSE After(r, FilterChroma(e, comp, xCalcBsIdx(e.dir, z, edge, units - 1),
                             ChromaAlongEdge(e, comp, z, edge, units - 1, r)))

(* Chroma edges lie 8 samples of chroma apart.                             *)
xEdgeFilterChroma(e, z, edge, units, r) ==
  LET width  == UnitWidth(e.s, 1)
      number == (IF e.dir = "ver" THEN X(z) ELSE Y(z)) + edge
      off    == width < DEBLOCK_SMALLEST_BLOCK /\ number % (DEBLOCK_SMALLEST_BLOCK \div width) # 0
  IN  IF off THEN r ELSE ChromaAlongEdge(e, 2, z, edge, units, ChromaAlongEdge(e, 1, z, edge, units, r))

ChromaTried(s, edge) ==
  /\ s.chroma # "400"
  /\ \/ s.chroma = "444"
     \/ UnitSize(s) > DEBLOCK_SMALLEST_BLOCK
     \/ edge % ((2 * DEBLOCK_SMALLEST_BLOCK) \div UnitSize(s)) = 0

\* Mutant: every edge of a unit, also where units are of 4 x 4 samples.
PartIdxIncr_Unit(s) == 1

PartIdxIncr(s) == Larger(1, DEBLOCK_SMALLEST_BLOCK \div UnitSize(s))

EdgeFilters(e, z, edge, units, r) ==
  LET Chroma(luma) == IF ChromaTried(e.s, edge) THEN xEdgeFilterChroma(e, z, edge, units, luma) ELSE luma
  IN  Chroma(xEdgeFilterLuma(e, z, edge, units, r))

RECURSIVE FilterEdges(_, _, _, _, _)
FilterEdges(e, z, edge, units, r) ==
  After(r, IF edge >= units THEN r
           ELSE FilterEdges(e, z, edge + PartIdxIncr(e.s), units, EdgeFilters(e, z, edge, units, r)))

FlaggedEdges(e, z, depth, r) ==
  WithStrengths(e, CuUnits(e.s, z, depth),
                xSetEdgefilterPU(e, z, depth, xSetEdgefilterTU(e, Root(z, depth), r)))

RECURSIVE xDeblockCU(_, _, _, _)
xDeblockCU(e, z, depth, r) ==
  LET s == e.s
      Section(k, before) ==
        LET u == z + k * NumParts(s, depth + 1)
        IN  IF PelX(s, e.ctu, u) < s.width /\ PelY(s, e.ctu, u) < s.height
              THEN xDeblockCU(e, u, depth + 1, before) ELSE before
  IN  After(r, IF e.d[e.ctu][z].depth > depth THEN InTurn(Section, r)
               ELSE FilterEdges(e, z, 0, CuAcross(s, depth), FlaggedEdges(e, z, depth, r)))

(* loopFilterPic, one CTU in one direction: the planes.                    *)
DeblockCtu(s, d, ctu, dir, planes, from) ==
  xDeblockCU([s |-> s, d |-> d, ctu |-> ctu, dir |-> dir], 0, 0,
             [edge |-> Table([z \in 0..(UnitsOfCtu(s) - 1) |-> FALSE]),
              bs   |-> Table([z \in 0..(UnitsOfCtu(s) - 1) |-> 0]),
              planes |-> planes, from |-> from]).planes
=============================================================================
