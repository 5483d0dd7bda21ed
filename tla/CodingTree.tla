----------------------------- MODULE CodingTree -----------------------------
(***************************************************************************)
(* The slice data of pictures: the encoder compresses every CTU, decides   *)
(* the parameters of the sample adaptive offset, and encodes one slice     *)
(* segment after the other, into one substream for each tile or row; the   *)
(* decoder decodes them (TEncSlice, TDecSlice).                            *)
(*                                                                         *)
(* Each side keeps the data of the picture, the parameters of the sample   *)
(* adaptive offset, and the state of its entropy coder: statistics, what   *)
(* was stored for the next row of CTUs (sync) and at the end of a slice    *)
(* segment (last).  The statistics stand for all of that state: they are   *)
(* saved, restored and reset with the context models.                      *)
(***************************************************************************)
EXTENDS CodingUnitSearch

CONSTANTS Videos,       \* what is coded: sequences of settings, one for each picture
          Seeds         \* of the encoder's choices

VARIABLES video,        \* the settings of this picture and of the ones to come
          phase,        \* compress, encode or decode; done
          at,           \* the CTU it has come to, in the order of coding
          coefs,        \* the encoder's coefficients of the CTUs of the picture
          encoder,      \* [d, sao, params, stats, sync, last, dqp, adj, col, seed]
          decoder,      \* [d, sao, coef, stats, sync, last, dqp, adj, codedQP, codedAdj, col, next]
          substreams,   \* of the slice segment: the bins of its CTUs
          right         \* the CTU decoded last is the one encoded

vars == <<video, phase, at, coefs, encoder, decoder, substreams, right>>

s       == video[1]
Ctus    == DOMAIN s.tile
CtuAt(ts) == s.tsToRs[ts]
Total   == Cardinality(Ctus)
ZeroStats == <<0, 0, 0, 0>>

-----------------------------------------------------------------------------
(* The state of an entropy coder before a CTU.                             *)

EntersRow(ctu) == s.wavefront /\ ColumnInTile(s, ctu) = 0

(* The upper right neighbour has been coded: what was stored after it is   *)
(* loaded.                                                                 *)
SyncAvailable(ctu) ==
  /\ CtuAbove(s, ctu) # NoCtu
  /\ (ctu + 1) % s.ctusAcross # 0
  /\ CUIsFromSameSliceAndTile(s, ctu, ctu - s.ctusAcross + 1)

StatsBefore(coder, ctu, start) ==
  LET first   == s.rsToTs[ctu] = start
      initial == CASE ~first -> coder.stats
                   [] /\ first /\ s.segment[ctu].dependent /\ ~FirstOfTile(s, ctu)
                      /\ s.tileWidth[ctu] >= 2 \/ ~s.wavefront -> coder.last
                   [] OTHER -> ZeroStats
  IN  CASE FirstOfTile(s, ctu) -> ZeroStats
        [] ~FirstOfTile(s, ctu) /\ EntersRow(ctu) ->
             IF SyncAvailable(ctu) THEN coder.sync ELSE IF first THEN initial ELSE ZeroStats
        [] OTHER -> initial

SyncAfter(coder, ctu, stats) ==
  IF s.wavefront /\ ColumnInTile(s, ctu) = 1 THEN stats ELSE coder.sync

LastAfter(coder, stats, ends) == IF ends THEN stats ELSE coder.last

-----------------------------------------------------------------------------
(* The encoder.                                                            *)

Setting(coder, ctu) == [s |-> s, d |-> coder.d, ctu |-> ctu, coef |-> coefs[ctu], col |-> coder.col,
                        seed |-> coder.seed]

Compress ==
  /\ phase = "compress"
  /\ at < Total
  /\ LET ctu == CtuAt(at)
     IN  \E b \in {compressCtu(Setting(encoder, ctu), [d |-> encoder.d, coef |-> << >>, resi |-> << >>,
                                                              blocks |-> << >>])} :
           /\ encoder' = [encoder EXCEPT !.d = b.d]
           /\ coefs' = [coefs EXCEPT ![ctu] = b.coef]
  /\ at' = at + 1
  /\ UNCHANGED <<video, phase, decoder, substreams, right>>

AllOff(set) == [ctu \in DOMAIN set.tile |-> SaoAllOff]

SAOProcess ==
  /\ phase = "compress"
  /\ at = Total
  /\ encoder' = LET decided == decideBlkParams(s, encoder.seed, 0, [params |-> AllOff(s), sao |-> AllOff(s)])
                IN  [encoder EXCEPT !.params = decided.params, !.sao = decided.sao]
  /\ phase' = "encode"
  /\ at' = 0
  /\ UNCHANGED <<video, coefs, decoder, substreams, right>>

substreamOf(ctu) == getSubstreamForCtuAddr(s.picture, s, ctu)

(* encodeSlice, one CTU.                                                   *)
Encode ==
  /\ phase = "encode"
  /\ at < Total
  /\ LET ctu   == CtuAt(at)
         first == at = s.segment[ctu].start
         ends  == at + 1 = s.segment[ctu].end
         begun == [bins |-> If(SaoCoded(s), codeSAOBlkParam(s, ctu, encoder.params[ctu])),
                   stats |-> StatsBefore(encoder, ctu, s.segment[ctu].start),
                   dqp |-> encoder.dqp, adj |-> encoder.adj]
         queue == IF first THEN << >> ELSE substreams
         own   == substreamOf(ctu)
     IN  \E w \in {encodeCtu(Setting(encoder, ctu), begun)} :
         \E bins \in {Table(w.bins \o If(ends \/ EndsSubstream(s, ctu), Coded(Terminate, 1)))} :
           /\ encoder' = [encoder EXCEPT !.stats = w.stats, !.dqp = w.dqp, !.adj = w.adj,
                                         !.sync = SyncAfter(encoder, ctu, w.stats),
                                         !.last = LastAfter(encoder, w.stats, ends)]
           /\ substreams' = (own :> Append(IF own \in DOMAIN queue THEN queue[own] ELSE << >>, bins)) @@ queue
           /\ phase' = IF ends THEN "decode" ELSE "encode"
           /\ at' = IF ends THEN s.segment[ctu].start ELSE at + 1
  /\ UNCHANGED <<video, coefs, decoder, right>>

-----------------------------------------------------------------------------
(* The decoder.  It knows the settings of the slice header; where a slice  *)
(* segment ends, it finds out.                                             *)

(* A CTU has been decoded as it was encoded: nothing in its data that      *)
(* prediction, reconstruction and the loop filters use is different.       *)
SameUnit(a, b) ==
  LET inter == a.mode = "inter"
      coded(comp) == CbfAt(a, comp, a.trIdx) = 1
      flags(unit) == [comp \in Components(s) |-> [tr \in 0..a.trIdx |-> CbfAt(unit, comp, tr)]]
      tools(unit) == [comp \in {k \in Components(s) : coded(k)} |->
                        <<unit.tskip[comp + 1], unit.rdpcm[comp + 1]>>]
      general(unit) == <<unit.depth, unit.mode>>
      ofCoded(unit) == <<unit.part, unit.skip, unit.bypass, unit.qp, unit.ipcm, unit.trIdx, unit.alpha>>
      motion(unit)  == <<unit.merge, unit.dir, [k \in Lists |-> <<unit.ref[k], unit.mv[k]>>]>>
      modes(unit)   == <<unit.intraDir[1], If(s.chroma # "400", <<unit.intraDir[2]>>)>>
  IN  /\ general(a) = general(b)
      /\ a.mode # "none" => ofCoded(a) = ofCoded(b) /\ flags(a) = flags(b) /\ tools(a) = tools(b)
      /\ inter => motion(a) = motion(b)
      /\ a.mode = "intra" /\ ~a.ipcm => modes(a) = modes(b)
      /\ s.useChromaQpAdj /\ ~a.bypass /\ a.mode # "none" /\ (coded(1) \/ coded(2)) =>
           a.chromaQpAdj = b.chromaQpAdj

SameCtu(ctu, dec, coef) ==
  /\ \A z \in DOMAIN dec.d[ctu] : SameUnit(encoder.d[ctu][z], dec.d[ctu][z])
  /\ coef = coefs[ctu]
  /\ \A comp \in Components(s) : dec.sao[ctu][comp + 1] = encoder.sao[ctu][comp + 1]

(* The bins of the CTU: the next ones of its substream.                    *)
BinsFor(ctu) ==
  LET own == substreamOf(ctu)
  IN  IF own \in DOMAIN substreams /\ substreams[own] # << >> THEN Head(substreams[own]) ELSE << >>

(* decompressSlice, one CTU; it ends as the encoder's segment does, or the *)
(* bit after the last CTU of a substream is missing.                       *)
Decode ==
  /\ phase = "decode"
  /\ LET ctu   == CtuAt(at)
         own   == substreamOf(ctu)
         c0    == CursorAt(BinsFor(ctu))
         Begun(c) == [c |-> c, d |-> [decoder.d EXCEPT ![ctu] = Table(initCtu(s))], coef |-> << >>,
                   stats |-> StatsBefore(decoder, ctu, s.segment[ctu].start),
                   dqp |-> decoder.dqp, adj |-> decoder.adj,
                   codedQP |-> decoder.codedQP, codedAdj |-> decoder.codedAdj, end |-> FALSE]
     IN  \E sao \in {IF SaoCoded(s) THEN parseSAOBlkParam(c0, s, ctu) ELSE [c |-> c0, v |-> SaoAllOff]} :
         \E r \in {decodeCtu(Begun(sao.c), s, decoder.col, ctu)} :
         \E bit \in {IF r.end \/ ~EndsSubstream(s, ctu) THEN r.c ELSE Bin(r.c, Terminate)} :
         \E final \in {[decoder EXCEPT
              !.d = r.d, !.stats = r.stats, !.dqp = r.dqp, !.adj = r.adj,
              !.codedQP = r.codedQP, !.codedAdj = r.codedAdj,
              !.sao[ctu] = reconstructBlkSAOParam(s, decoder.sao, ctu, sao.v),
              !.sync = SyncAfter(decoder, ctu, r.stats),
              !.last = LastAfter(decoder, r.stats, r.end)]} :
           /\ decoder' = final
           /\ right' = /\ Consumed(bit)
                       /\ r.end \/ EndsSubstream(s, ctu) => bit.v = 1 \/ r.end
                       /\ r.end = (at + 1 = s.segment[ctu].end)
                       /\ SameCtu(ctu, final, r.coef)
           /\ substreams' = IF own \in DOMAIN substreams /\ substreams[own] # << >>
                            THEN [substreams EXCEPT ![own] = Tail(@)] ELSE substreams
           /\ at' = at + 1
           /\ phase' = CASE ~right' -> "done"
                         [] right' /\ ~r.end -> "decode"
                         [] OTHER -> "encode"
  /\ UNCHANGED <<video, coefs, encoder>>

-----------------------------------------------------------------------------
(* The next picture: this one, its motion compressed, is the collocated    *)
(* one.                                                                    *)

NoData(set) == [ctu \in DOMAIN set.tile |-> << >>]

Collocated(d) == [poc |-> s.poc, refPOC |-> s.refPOC, longTerm |-> s.longTerm,
                  data |-> Table([ctu \in Ctus |-> compressMV(s, d[ctu])])]

FreshEncoder(set, col, seed) ==
  [d |-> NoData(set), sao |-> AllOff(set), params |-> AllOff(set), stats |-> ZeroStats,
   sync |-> ZeroStats, last |-> ZeroStats, dqp |-> FALSE, adj |-> FALSE, col |-> col, seed |-> seed]
FreshDecoder(set, col) ==
  [d |-> NoData(set), sao |-> AllOff(set), stats |-> ZeroStats,
   sync |-> ZeroStats, last |-> ZeroStats, dqp |-> FALSE, adj |-> FALSE,
   codedQP |-> set.sliceQp, codedAdj |-> 0, col |-> col]

compressMotion ==
  /\ phase = "encode"
  /\ at = Total
  /\ Len(video) > 1
  /\ video' = Tail(video)
  /\ encoder' = FreshEncoder(video[2], Collocated(encoder.d), Hash(encoder.seed, 5))
  /\ decoder' = FreshDecoder(video[2], Collocated(decoder.d))
  /\ coefs' = NoData(video[2])
  /\ phase' = "compress"
  /\ at' = 0
  /\ substreams' = << >>
  /\ UNCHANGED right

Finish ==
  /\ phase = "encode"
  /\ at = Total
  /\ Len(video) = 1
  /\ phase' = "done"
  /\ UNCHANGED <<video, at, coefs, encoder, decoder, substreams, right>>

Init ==
  /\ video \in Videos
  /\ \E seed \in Seeds : encoder = FreshEncoder(video[1], << >>, seed)
  /\ decoder = FreshDecoder(video[1], << >>)
  /\ coefs = NoData(video[1])
  /\ phase = "compress"
  /\ at = 0
  /\ substreams = << >>
  /\ right = TRUE

Next == Compress \/ SAOProcess \/ Encode \/ Decode \/ compressMotion \/ Finish

Spec == Init /\ [][Next]_vars

-----------------------------------------------------------------------------
(* What the encoder codes arrives: the decoder reads every bin of a CTU as *)
(* what it was written as, and ends with the same coding units, the same   *)
(* coefficients and parameters of the sample adaptive offset; it finds the *)
(* end of each slice segment where it is.                                  *)
CodingTreeArrives == right

(* The prediction units of a merge estimation region can be merged in      *)
(* parallel: what one of them takes over is the same whatever the others   *)
(* of its region are (getInterMergeCandidates, isDiffMER).                 *)
OutsideRegion(d, ctu, z) ==
  [d EXCEPT ![ctu] =
     [u \in DOMAIN d[ctu] |->
        IF isDiffMER(s, PelX(s, ctu, u), PelY(s, ctu, u), PelX(s, ctu, z), PelY(s, ctu, z))
          THEN d[ctu][u] ELSE [d[ctu][u] EXCEPT !.mode = "none"]]]

MergeInParallel ==
  phase = "compress" /\ at > 0 =>
    LET ctu == CtuAt(at - 1)
        d   == encoder.d
        InterCUs == {z \in DOMAIN d[ctu] : d[ctu][z].mode = "inter" /\ z % NumParts(s, d[ctu][z].depth) = 0}
    IN  \A z \in InterCUs : \A idx \in 0..(NumPartitions(d[ctu][z].part) - 1) :
          LET cu    == d[ctu][z]
              first == PartIdxLT(s, z, cu.depth, cu.part, idx)
              Taken(data) == MergeMotion(s, data, encoder.col, ctu, z, cu.depth, cu.part, idx, d[ctu][first].mergeIdx)
          IN  d[ctu][first].merge => Taken(d) = Taken(OutsideRegion(d, ctu, first))
=============================================================================
