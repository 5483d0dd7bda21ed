------------------------ MODULE SampleAdaptiveOffset ------------------------
(***************************************************************************)
(* The parameters of the sample adaptive offset of a CTU: how TEncSbac     *)
(* writes them, TDecSbac reads them, and TComSampleAdaptiveOffset resolves *)
(* the ones merged with those of a neighbour.                              *)
(*                                                                         *)
(* The parameters of a CTU give one for each component: off, merged with   *)
(* the CTU to the left or above, or new: BAND or an edge class 0..3, the   *)
(* first band, and four offsets.  Of s are used sao (the flags of the      *)
(* slice for luma and chroma), chroma, saoOffsets (the largest offset) and *)
(* the layout.                                                             *)
(***************************************************************************)
EXTENDS Transform, PictureLayout

BAND == 4
SaoOff == [mode |-> "off"]
SaoMerge(from) == [mode |-> "merge", from |-> from]
SaoNew(type, band, offsets) == [mode |-> "new", type |-> type, band |-> band, offset |-> offsets]

SaoAllOff  == [k \in 1..3 |-> SaoOff]
SaoEnabled(s, comp) == s.sao[Channel(comp) + 1] /\ comp \in Components(s)
SaoCoded(s) == \E comp \in 0..2 : SaoEnabled(s, comp)

FirstOfChannel(comp) == comp # 2

(* The neighbours whose parameters may be taken.                           *)
SaoNeighbour(s, ctu, from) ==
  LET other == IF from = "left" THEN CtuLeft(s, ctu) ELSE CtuAbove(s, ctu)
  IN  IF other # NoCtu /\ getSAOMergeAvailability(s, ctu, other) THEN {other} ELSE {}

-----------------------------------------------------------------------------
(* Writing.                                                                *)

SaoTypeCtx == <<"sao type", 0>>
SaoMergeCtx == <<"sao merge", 0>>

NUM_SAO_BO_CLASSES_LOG2 == 5
NUM_SAO_EO_TYPES_LOG2   == 2

codeSaoTypeIdx(code) ==
  Coded(SaoTypeCtx, Bit(code # 0)) \o If(code # 0, Coded(Bypass, Bit(code # 1)))

codeSAOOffsetParam(s, comp, param) ==
  LET type == CASE param.mode = "off" -> 0
                [] param.mode = "new" /\ param.type = BAND -> 1
                [] OTHER -> 2
      offset(k) == param.offset[k]
      sizes == xWriteUnaryMaxSymbol(Abs(offset(1)), Bypass, Bypass, s.saoOffsets)
               \o xWriteUnaryMaxSymbol(Abs(offset(2)), Bypass, Bypass, s.saoOffsets)
               \o xWriteUnaryMaxSymbol(Abs(offset(3)), Bypass, Bypass, s.saoOffsets)
               \o xWriteUnaryMaxSymbol(Abs(offset(4)), Bypass, Bypass, s.saoOffsets)
      signs == encodeFlagsEP([k \in DOMAIN SelectSeq(param.offset, LAMBDA v : v # 0) |->
                                Bit(SelectSeq(param.offset, LAMBDA v : v # 0)[k] < 0)])
  IN  IF ~SaoEnabled(s, comp) THEN Asserted(param.mode = "off")
      ELSE If(FirstOfChannel(comp), codeSaoTypeIdx(type))
           \o If(param.mode = "new", sizes)
           \o If(type = 1, signs \o encodeBinsEP(param.band, NUM_SAO_BO_CLASSES_LOG2))
           \o If(type = 2 /\ FirstOfChannel(comp), encodeBinsEP(param.type, NUM_SAO_EO_TYPES_LOG2))

codeSAOBlkParam(s, ctu, params) ==
  LET merged(from) == params[1].mode = "merge" /\ params[1].from = from
      left  == SaoNeighbour(s, ctu, "left") # {}
      above == SaoNeighbour(s, ctu, "above") # {}
      isLeftMerge  == left /\ merged("left")
      isAboveMerge == above /\ ~isLeftMerge /\ merged("above")
  IN  If(left, Coded(SaoMergeCtx, Bit(isLeftMerge)))
      \o If(above /\ ~isLeftMerge, Coded(SaoMergeCtx, Bit(isAboveMerge)))
      \o If(~isLeftMerge /\ ~isAboveMerge,
            codeSAOOffsetParam(s, 0, params[1]) \o codeSAOOffsetParam(s, 1, params[2])
            \o codeSAOOffsetParam(s, 2, params[3]))

-----------------------------------------------------------------------------
(* Reading.  A reader r is [c, v]: the cursor and the parameters read.     *)

parseSaoTypeIdx(c) ==
  LET coded == Bin(c, SaoTypeCtx)
      edge  == Bin(coded, Bypass)
  IN  IF coded.v = 0 THEN coded ELSE Yields(edge, 1 + edge.v)

parseSaoMaxUvlc(c, max) == xReadUnaryMaxSymbol(c, Bypass, Bypass, max)

(* n offsets after those that the cursor has already read.                 *)
RECURSIVE ReadOffsets(_, _, _)
ReadOffsets(c, max, n) ==
  LET Appended(one) == Yields(one, Append(c.v, one.v))
  IN  IF n = 0 THEN c ELSE ReadOffsets(Appended(parseSaoMaxUvlc(c, max)), max, n - 1)

(* Signs of those that are not zero, and the first band.                   *)
WithBand(c, sizes) == [c |-> c, v |-> SaoNew(BAND, c.v, sizes)]

WithSigns(signs, sizes, nonzero) ==
  WithBand(BinsEP(signs, NUM_SAO_BO_CLASSES_LOG2),
           [k \in 1..4 |-> IF \E j \in DOMAIN nonzero : nonzero[j] = k /\ signs.v[j] = 1
                           THEN -sizes[k] ELSE sizes[k]])

ReadBand(c, sizes) ==
  LET nonzero == SelectSeq(<<1, 2, 3, 4>>, LAMBDA k : sizes[k] # 0)
  IN  WithSigns(FlagsEP(c, Len(nonzero)), sizes, nonzero)

(* The class of edges is that of the channel's first component, whose      *)
(* parameter is first.                                                     *)
ReadEdge(c, sizes, comp, first) ==
  LET class == IF FirstOfChannel(comp) THEN BinsEP(c, NUM_SAO_EO_TYPES_LOG2) ELSE Yields(c, first.type)
  IN  [c |-> class, v |-> SaoNew(class.v, 0, <<sizes[1], sizes[2], -sizes[3], -sizes[4]>>)]

ReadSized(c, type, comp, first) ==
  IF type = 1 THEN ReadBand(c, c.v) ELSE ReadEdge(c, c.v, comp, first)

ReadParam(c, s, comp, first) ==
  IF c.v = 0 THEN [c |-> c, v |-> SaoOff]
  ELSE ReadSized(ReadOffsets(Yields(c, << >>), s.saoOffsets, 4), c.v, comp, first)

(* The parameter of a component, whose type is that of the channel's first *)
(* one.                                                                    *)
parseSAOOffsetParam(c, s, comp, first) ==
  IF ~SaoEnabled(s, comp) THEN [c |-> c, v |-> SaoOff]
  ELSE ReadParam(IF FirstOfChannel(comp) THEN parseSaoTypeIdx(c)
                 ELSE Yields(c, CASE first.mode = "off" -> 0
                                  [] first.mode # "off" /\ first.type = BAND -> 1
                                  [] OTHER -> 2),
                 s, comp, first)

(* Those of the components after the ones that r has read.                 *)
RECURSIVE parseSAOOffsetParams(_, _)
parseSAOOffsetParams(r, s) ==
  LET comp == Len(r.v)
      Appended(one) == [c |-> one.c, v |-> Append(r.v, one.v)]
  IN  IF comp = 3 THEN r
      ELSE parseSAOOffsetParams(
             Appended(parseSAOOffsetParam(r.c, s, comp, IF comp = 2 THEN r.v[2] ELSE SaoOff)), s)

parseSAOBlkParam(c, s, ctu) ==
  LET flag(before, from) == IF SaoNeighbour(s, ctu, from) # {} THEN Bin(before, SaoMergeCtx) ELSE Yields(before, 0)
      Merged(read, from) ==
        [c |-> read, v |-> [k \in 1..3 |-> IF SaoEnabled(s, k - 1) THEN SaoMerge(from) ELSE SaoOff]]
      left  == flag(c, "left")
      above == flag(left, "above")
  IN  CASE left.v = 1 -> Merged(left, "left")
        [] left.v = 0 /\ above.v = 1 -> Merged(above, "above")
        [] OTHER -> parseSAOOffsetParams([c |-> above, v |-> << >>], s)

-----------------------------------------------------------------------------
(* reconstructBlkSAOParam: sao holds the resolved parameters of the CTUs   *)
(* before.                                                                 *)

reconstructBlkSAOParam(s, sao, ctu, params) ==
  [k \in 1..3 |->
     IF params[k].mode = "merge" /\ k - 1 \in Components(s)
       THEN sao[CHOOSE other \in SaoNeighbour(s, ctu, params[k].from) : TRUE][k]
       ELSE params[k]]

-----------------------------------------------------------------------------
(* Offsets are added to the samples of a CTU, read from a copy of the      *)
(* deblocked picture; then samples that must not be filtered are restored. *)
(*                                                                         *)
(* A block b is what offsetBlock sees of a CTU: its width and height, the  *)
(* neighbours that may be read (avail), and Src(b, x, y), the samples of   *)
(* the copy, x and y relative to the CTU.                                  *)

Src(b, x, y) == b.src[(b.y + y) * b.stride + b.x + x]
sgn(v) == IF v > 0 THEN 1 ELSE IF v < 0 THEN -1 ELSE 0

StartX(b) == IF b.avail.left THEN 0 ELSE 1
EndX(b)   == IF b.avail.right THEN b.width ELSE b.width - 1

-----------------------------------------------------------------------------
(* Edge offsets.  The type of a sample is the sum of the signs of its      *)
(* differences to two neighbours.  A line of types is a function on the    *)
(* samples that are changed; the signs up of the differences to the line   *)
(* above are kept from one line to the next.                               *)

Line_EO_0(b, y) ==
  [x \in StartX(b)..(EndX(b) - 1) |->
     sgn(Src(b, x, y) - Src(b, x - 1, y)) + sgn(Src(b, x, y) - Src(b, x + 1, y))]

RECURSIVE Lines_EO_90(_, _, _)

\* Mutant: the signs are carried to the next line as they are.
Lines_EO_90_Unturned(b, y, up) ==
  LET end  == IF b.avail.below THEN b.height ELSE b.height - 1
      down == Table([x \in 0..(b.width - 1) |-> sgn(Src(b, x, y) - Src(b, x, y + 1))])
  IN  IF y = end THEN << >>
      ELSE (y :> Table([x \in DOMAIN down |-> down[x] + up[x]])) @@ Lines_EO_90(b, y + 1, down)

Lines_EO_90(b, y, up) ==
  LET end  == IF b.avail.below THEN b.height ELSE b.height - 1
      down == Table([x \in 0..(b.width - 1) |-> sgn(Src(b, x, y) - Src(b, x, y + 1))])
  IN  IF y = end THEN << >>
      ELSE (y :> Table([x \in DOMAIN down |-> down[x] + up[x]]))
           @@ Lines_EO_90(b, y + 1, Table([x \in DOMAIN down |-> -down[x]]))
EO_90(b) ==
  LET start == IF b.avail.above THEN 0 ELSE 1
  IN  Lines_EO_90(b, start, Table([x \in 0..(b.width - 1) |-> sgn(Src(b, x, start) - Src(b, x, start - 1))]))

(* The lines between the first and the last one.                           *)
RECURSIVE Lines_EO_135(_, _, _)
Lines_EO_135(b, y, up) ==
  LET inner == StartX(b)..(EndX(b) - 1)
      down  == Table([x \in inner |-> sgn(Src(b, x, y) - Src(b, x + 1, y + 1))])
      next  == Table([x \in StartX(b)..EndX(b) |->
                        IF x = StartX(b) THEN sgn(Src(b, x, y + 1) - Src(b, x - 1, y)) ELSE -down[x - 1]])
      last  == (IF b.avail.below THEN StartX(b) ELSE b.width - 1)
                 ..(IF b.avail.belowRight THEN b.width - 1 ELSE b.width - 2)
  IN  IF y = b.height - 1
        THEN y :> [x \in last |-> sgn(Src(b, x, y) - Src(b, x + 1, y + 1)) + up[x]]
        ELSE (y :> Table([x \in inner |-> down[x] + up[x]])) @@ Lines_EO_135(b, y + 1, next)
EO_135(b) ==
  LET up    == Table([x \in StartX(b)..EndX(b) |-> sgn(Src(b, x, 1) - Src(b, x - 1, 0))])
      first == (IF b.avail.aboveLeft THEN 0 ELSE 1)..(IF b.avail.above THEN EndX(b) - 1 ELSE 0)
  IN  (0 :> Table([x \in first |-> sgn(Src(b, x, 0) - Src(b, x - 1, -1)) - up[x + 1]])) @@ Lines_EO_135(b, 1, up)

RECURSIVE Lines_EO_45(_, _, _)
Lines_EO_45(b, y, up) ==
  LET inner == StartX(b)..(EndX(b) - 1)
      down  == Table([x \in inner |-> sgn(Src(b, x, y) - Src(b, x - 1, y + 1))])
      next  == Table([x \in (StartX(b) - 1)..(EndX(b) - 1) |->
                        IF x = EndX(b) - 1 THEN sgn(Src(b, x, y + 1) - Src(b, x + 1, y)) ELSE -down[x + 1]])
      last  == (IF b.avail.belowLeft THEN 0 ELSE 1)..(IF b.avail.below THEN EndX(b) - 1 ELSE 0)
  IN  IF y = b.height - 1
        THEN y :> [x \in last |-> sgn(Src(b, x, y) - Src(b, x - 1, y + 1)) + up[x]]
        ELSE (y :> Table([x \in inner |-> down[x] + up[x]])) @@ Lines_EO_45(b, y + 1, next)
EO_45(b) ==
  LET up    == Table([x \in (StartX(b) - 1)..(EndX(b) - 1) |-> sgn(Src(b, x, 1) - Src(b, x + 1, 0))])
      first == (IF b.avail.above THEN StartX(b) ELSE b.width - 1)
                 ..(IF b.avail.aboveRight THEN b.width - 1 ELSE b.width - 2)
  IN  (0 :> Table([x \in first |-> sgn(Src(b, x, 0) - Src(b, x + 1, -1)) - up[x - 1]])) @@ Lines_EO_45(b, 1, up)

EdgeTypes(b, type) ==
  CASE type = 0 -> [y \in 0..(b.height - 1) |-> Line_EO_0(b, y)]
    [] type = 1 -> EO_90(b)
    [] type = 2 -> EO_135(b)
    [] type = 3 -> EO_45(b)

(* The offsets of a valley, a half valley, a half peak, a peak.            *)
EdgeOffset(param, type) ==
  CASE type = -2 -> param.offset[1] [] type = -1 -> param.offset[2] [] type = 0 -> 0
    [] type = 1 -> param.offset[3]  [] type = 2 -> param.offset[4]

-----------------------------------------------------------------------------
(* Band offsets: four of 32 bands of sample values, the first of them      *)
(* after the last.                                                         *)
BandOffset(s, comp, param, v) ==
  LET band == v \div 2^(BitDepth(s, comp) - NUM_SAO_BO_CLASSES_LOG2)
      k    == (band - param.band) % 32
  IN  IF k < 4 THEN param.offset[k + 1] ELSE 0

-----------------------------------------------------------------------------
(* A CTU.                                                                  *)

(* invertQuantOffsets: offsets are coded in steps.                         *)
invertQuantOffsets(s, comp, param) ==
  [param EXCEPT !.offset = [k \in 1..4 |-> @[k] * 2^s.saoOffsetShift[Channel(comp) + 1]]]

offsetBlock(s, comp, b, param) ==
  LET types == EdgeTypes(b, param.type)
      At2(x, y) == IF param.type = BAND THEN BandOffset(s, comp, param, Src(b, x, y))
                   ELSE IF y \in DOMAIN types /\ x \in DOMAIN types[y] THEN EdgeOffset(param, types[y][x]) ELSE 0
  IN  Table([p \in 0..(b.width * b.height - 1) |->
               LET x == p % b.width
                   y == p \div b.width
               IN  ClipBD(s, comp, Src(b, x, y) + At2(x, y))])

BlockOfPlane(s, comp, ctu, src) ==
  LET n == CtuSize(s)
      Avail(dx, dy) == deriveLoopFilterBoundaryAvailibility(s.picture, s, s.acrossSlices, s.acrossTiles, ctu, dx, dy)
  IN  [src |-> src, stride |-> PlaneWidth(s, comp),
       x |-> CtuX(s, ctu) \div Scale(s, comp), y |-> CtuY(s, ctu) \div Scale(s, comp),
       width |-> Smaller(n, s.width - CtuX(s, ctu)) \div Scale(s, comp),
       height |-> Smaller(n, s.height - CtuY(s, ctu)) \div Scale(s, comp),
       avail |-> [left |-> Avail(-1, 0), right |-> Avail(1, 0), above |-> Avail(0, -1), below |-> Avail(0, 1),
                  aboveLeft |-> Avail(-1, -1), aboveRight |-> Avail(1, -1),
                  belowLeft |-> Avail(-1, 1), belowRight |-> Avail(1, 1)]]

(* The plane with the samples of a block, which may be cut by the border   *)
(* of the picture.                                                         *)
WithBlock(b, plane, samples) ==
  Table([p \in DOMAIN plane |->
           LET x == (p % b.stride) - b.x
               y == (p \div b.stride) - b.y
           IN  IF x \in 0..(b.width - 1) /\ y \in 0..(b.height - 1) THEN samples[y * b.width + x] ELSE plane[p]])

offsetCTU(s, ctu, src, params, planes) ==
  Table([comp \in DOMAIN planes |->
           LET b     == BlockOfPlane(s, comp, ctu, src[comp])
               param == params[comp + 1]
           IN  IF param.mode = "off" THEN planes[comp]
               ELSE WithBlock(b, planes[comp], offsetBlock(s, comp, b, invertQuantOffsets(s, comp, param)))])

-----------------------------------------------------------------------------
(* xPCMRestoration: what PCM CUs, where they are not filtered, and         *)
(* lossless CUs were reconstructed as.                                     *)

xPCMSampleRestoration(s, unit, comp, samples) ==
  LET shift == IF s.bypassEnabled /\ unit.bypass /\ ~unit.ipcm THEN 0
               ELSE BitDepth(s, comp) - s.pcmBits[Channel(comp) + 1]
  IN  Table([p \in DOMAIN samples |-> samples[p] * 2^shift])

RECURSIVE xPCMCURestoration(_, _, _, _, _, _)
xPCMCURestoration(s, units, pcm, ctu, place, planes) ==
  LET z     == place[1]
      depth == place[2]
      unit  == units[z]
      Section(k, before) ==
        LET u == z + k * NumParts(s, depth + 1)
        IN  IF PelX(s, ctu, u) < s.width /\ PelY(s, ctu, u) < s.height
              THEN xPCMCURestoration(s, units, pcm, ctu, <<u, depth + 1>>, before) ELSE before
      restored == Table([comp \in Components(s) |->
                           copyToPicYuv(s, comp, planes[comp], ctu, z, depth,
                                        xPCMSampleRestoration(s, unit, comp, pcm[<<comp, z>>]))])
  IN  After(planes, CASE unit.depth > depth -> InTurn(Section, planes)
                      [] unit.depth = depth /\ ((unit.ipcm /\ s.pcmFilterOff) \/ (s.bypassEnabled /\ unit.bypass)) -> restored
                      [] OTHER -> planes)

\* Mutant: only for PCM.
RestorationTried_Pcm(s) == s.usePcm /\ s.pcmFilterOff

RestorationTried(s) == (s.usePcm /\ s.pcmFilterOff) \/ s.bypassEnabled

xPCMRestoration(s, units, pcm, ctu, planes) ==
  IF RestorationTried(s) THEN xPCMCURestoration(s, units, pcm, ctu, <<0, 0>>, planes) ELSE planes
=============================================================================
