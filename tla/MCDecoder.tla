------------------------------ MODULE MCDecoder ------------------------------
(*****************************************************************************)
(* The decoder on bitstreams with every coding order, with starts and restarts*)
(* in the middle, with temporal layers, slices, long-term references, and     *)
(* with lost pictures; and on those it does not treat as its comments say.    *)
(*                                                                            *)
(* The bitstreams are sets of sequences of NAL units that a conforming encoder*)
(* may produce, and what is left of them when pictures are lost.  A coded     *)
(* picture is a record with type, poc, rps (the POCs it keeps), used (those it*)
(* predicts from), lts (those it keeps as long-term), near (POCs its long-term*)
(* LSBs must be told from), slices (how each is coded) and the NAL unit's     *)
(* fields; a coded video sequence is a sequence of them.                      *)
(*****************************************************************************)
EXTENDS Decoder, TLC
LOCAL INSTANCE SequencesExt
LOCAL INSTANCE FiniteSetsExt

Picture(type, poc, rps, used) ==
  [type |-> type, poc |-> poc, rps |-> rps, used |-> used, lts |-> {}, near |-> {}, ref |-> TRUE, tid |-> 0,
   out |-> TRUE, noPrior |-> FALSE, slices |-> <<"whole">>]
IRAP(type, poc) == Picture(type, poc, {}, {})

Sorted(S) == SetToSortSeq(S, <)

ShortTerm(p) ==
  LET pocs == Sorted(p.rps \ p.lts)
  IN  <<>> \o [i \in DOMAIN pocs |-> [delta |-> pocs[i] - p.poc, used |-> pocs[i] \in p.used]]

(* Long-term entries carry MSBs if another picture has the same LSBs. *)
LongTerm(p, lsbs) ==
  LET pocs == Sorted(p.lts)
  IN  <<>> \o [i \in DOMAIN pocs |->
         [lsb |-> pocs[i] % lsbs, msb |-> \E q \in (p.rps \cup p.near) \ {pocs[i]} : q % lsbs = pocs[i] % lsbs,
          cycle |-> (p.poc \div lsbs) - (pocs[i] \div lsbs),
          poc |-> pocs[i], used |-> pocs[i] \in p.used]]

NAL(p, i, lsbs, pic, cvs) ==
  [type |-> p.type, tid |-> p.tid, ref |-> p.ref, first |-> i = 1, dep |-> p.slices[i] = "dependent",
   poc |-> p.poc, st |-> ShortTerm(p), lt |-> LongTerm(p, lsbs), out |-> p.out,
   noPrior |-> p.noPrior, pic |-> pic, cvs |-> cvs]

PictureNALs(p, lsbs, pic, cvs) == <<>> \o [i \in DOMAIN p.slices |-> NAL(p, i, lsbs, pic, cvs)]
SequenceNALs(s, lsbs, cvs) ==
  FlattenSeq([i \in DOMAIN s |-> PictureNALs(s[i], lsbs, 100 * cvs + i, cvs)])

EOS   == [type |-> "EOS", tid |-> 0]
Other == [type |-> "OTHER", tid |-> 0]

-----------------------------------------------------------------------------
(* Coded video sequences that start with an IDR picture *)

(* The pictures that may follow: each POC once, and not more pictures        *)
(* reordered than allowed.                                                   *)
Follows(s, poc, reorder) ==
  /\ \A i \in DOMAIN s : s[i].poc # poc
  /\ Cardinality({i \in DOMAIN s : s[i].poc > poc}) <= reorder

(* All orders of n pictures after the IDR picture, with all choices of at    *)
(* most r pictures each of them keeps.  A picture predicts from all it keeps *)
(* but the oldest of several.                                                *)
Predicts(rps) == IF Cardinality(rps) > 1 THEN rps \ {Min(rps)} ELSE rps
Orders(n, r, reorder) ==
  LET Extend(s) == {Append(s, Picture("TRAIL", poc, rps, Predicts(rps))) :
                      poc \in {q \in 1..n : Follows(s, q, reorder)},
                      rps \in {R \in SUBSET (Last(s).rps \cup {Last(s).poc}) : Cardinality(R) <= r}}
  IN  FoldLeft(LAMBDA S, i : UNION {Extend(s) : s \in S}, {<<IRAP("IDR", 0)>>}, [i \in 1..n |-> i])

(* Pictures no other picture keeps are non-reference pictures; with layers,  *)
(* they form the temporal layer 1.                                           *)
Kept(s, i) == i = 1 \/ \E j \in (i + 1)..Len(s) : s[i].poc \in s[j].rps
NonReference(s, layers) ==
  <<>> \o [i \in DOMAIN s |->
     IF Kept(s, i) THEN s[i]
     ELSE [s[i] EXCEPT !.ref = FALSE, !.tid = IF layers THEN 1 ELSE 0,
                       !.type = IF layers THEN "TSA" ELSE @]]

(* Each picture coded as these slices. *)
Sliced(s, slices) == <<>> \o [i \in DOMAIN s |-> [s[i] EXCEPT !.slices = slices]]

(* All choices of at most r pictures kept, as short-term or from then on as  *)
(* long-term, by each of the n pictures after an IDR picture, whose POCs are  *)
(* this step apart.                                                          *)
LongTermOrders(n, r, step) ==
  LET Extend(s) ==
        LET last == Last(s)
            held == last.rps \cup {last.poc}
        IN  UNION {{Append(s, [Picture("TRAIL", last.poc + step, R, R) EXCEPT !.lts = L, !.near = held]) :
                      L \in {M \in SUBSET R : last.lts \cap R \subseteq M}} :
                    R \in {Q \in SUBSET held : Cardinality(Q) <= r /\ Q # {}}}
  IN  FoldLeft(LAMBDA S, i : UNION {Extend(s) : s \in S}, {<<IRAP("IDR", 0)>>}, [i \in 1..n |-> i])

(* The decoder can derive each POC from its LSBs.                            *)
Derivable(s, lsbs) ==
  \A i \in 2..Len(s) :
    LET Anchor(j) == s[j].ref /\ s[j].tid = 0 /\ s[j].type \notin {"RASL", "RADL"}
        last == Max({j \in 1..(i - 1) : Anchor(j)})
    IN  s[i].type \in {"IDR", "BLA"} \/ s[i].poc - s[last].poc \in (1 - lsbs \div 2)..(lsbs \div 2)

-----------------------------------------------------------------------------
(* Random access: an IRAP picture at POC 4 with leading pictures at POC 2    *)
(* (RASL, predicting from POC 1 before the IRAP picture) and 3 (RADL), then  *)
(* a trailing picture.                                                       *)

RASL == Picture("RASL", 2, {1, 4}, {1, 4})
RADL == Picture("RADL", 3, {4}, {4})
Leading == {<<>>, <<RASL>>, <<RADL>>, <<RASL, RADL>>, <<[RADL EXCEPT !.rps = {1, 4}], RASL>>}
LeadingRASL == {<<>>, <<RASL>>}
Trailing == <<Picture("TRAIL", 5, {4}, {4})>>

Before4 == <<IRAP("IDR", 0), Picture("TRAIL", 1, {0}, {0})>>
Within4(leading) == Before4 \o <<Picture("CRA", 4, {1}, {})>> \o leading \o Trailing
At4(type, leading, noPrior) ==
  <<[IRAP(type, 4) EXCEPT !.noPrior = noPrior]>> \o leading \o Trailing
AtIDR(noPrior) ==
  <<[IRAP("IDR", 0) EXCEPT !.noPrior = noPrior], Picture("TRAIL", 1, {0}, {0})>>
AtCRA(poc) == <<IRAP("CRA", poc), Picture("TRAIL", poc + 1, {poc}, {poc})>>

Join(first, between, second, lsbs) ==
  {SequenceNALs(a, lsbs, 1) \o between \o SequenceNALs(b, lsbs, 2) : a \in first, b \in second}

(* What is left of a sequence when the pictures at these places are lost.    *)
Without(s, lost) ==
  LET kept == SelectSeq([i \in DOMAIN s |-> i], LAMBDA i : i \notin lost)
  IN  <<>> \o [k \in DOMAIN kept |-> s[kept[k]]]

-----------------------------------------------------------------------------
AllLayers(n) == (0 :> n) @@ (1 :> n)

(* A bitstream with LSBs modulo lsbs, buffers pictures held, reorder of them  *)
(* reordered, of which the layers up to top are decoded.                      *)
Stream(nals, lsbs, buffers, reorder, top) ==
  [nals |-> nals,
   settings |-> [maxPocLsb |-> lsbs, maxDecPicBuffering |-> AllLayers(buffers),
                 numReorderPics |-> AllLayers(reorder), maxTemporalLayer |-> top, skipFrame |-> 0]]

(* A second coded video sequence. *)
Second == <<IRAP("IDR", 0), Picture("TRAIL", 1, {0}, {0})>>

-----------------------------------------------------------------------------
(* An IDR picture and five more, in every coding order that reorders one     *)
(* picture, with every choice of at most two pictures kept by each, and LSBs *)
(* that wrap; then a second sequence.                                        *)
OrderStreams ==
  {Stream(SequenceNALs(s, 4, 1) \o SequenceNALs(Second, 4, 2), 4, 4, 1, -1) :
     s \in {t \in {NonReference(o, FALSE) : o \in Orders(5, 2, 1)} : Derivable(t, 4)}}

-----------------------------------------------------------------------------
(* Random access: sequences that start with a CRA or BLA picture, and what   *)
(* follows them, with or without an end of sequence in between.              *)
IDRStarts == {Within4(l) : l \in Leading}
RandomStarts == {At4(type, l, FALSE) : type \in {"CRA", "BLA"}, l \in LeadingRASL}
BLARestarts(leading) == {At4("BLA", l, f) : l \in leading, f \in BOOLEAN}
InTwoSlices(sequences) == {Sliced(s, <<"whole", "whole">>) : s \in sequences}
IDRRestarts == {AtIDR(f) : f \in BOOLEAN}

RandomAccessStreams ==
  {Stream(nals, 8, 5, 2, -1) : nals \in
     Join(IDRStarts, <<>>, IDRRestarts \cup BLARestarts(Leading), 8)
     \cup Join(IDRStarts, <<Other>>, IDRRestarts, 8)
     \cup Join(RandomStarts, <<>>, BLARestarts(LeadingRASL), 8)
     \cup Join({Before4}, <<EOS>>, {AtCRA(6)}, 8)
     \cup Join(IDRStarts \cup RandomStarts, <<EOS>>,
                 IDRRestarts \cup BLARestarts(LeadingRASL) \cup {AtCRA(6)}, 8)
     \cup Join(InTwoSlices(RandomStarts), <<EOS>>, InTwoSlices({AtCRA(6)}), 8)}

-----------------------------------------------------------------------------
(* Streams with temporal layers, of which the lowest is decoded, with several*)
(* slices in a picture, with long-term references, or without some of their  *)
(* pictures.                                                                 *)

(* Each picture is coded as one slice, as two, or as two slice segments.      *)
Slicings == {<<"whole">>, <<"whole", "whole">>, <<"whole", "dependent">>}
LayerStreams ==
  {SequenceNALs(Sliced(s, slices), 8, 1) \o SequenceNALs(Sliced(Second, slices), 8, 2) :
     s \in {NonReference(o, TRUE) : o \in Orders(3, 2, 1)},
     slices \in Slicings}

LongTermStreams == {SequenceNALs(s, 8, 1) : s \in LongTermOrders(4, 2, 4)}

(* One or two pictures are lost, but none that starts a sequence.            *)
Losses == {{2}, {3}, {2, 4}, {5}}
LossStreams ==
  {SequenceNALs(Without(s, lost), 8, 1) \o SequenceNALs(Second, 8, 2) :
     s \in {NonReference(o, FALSE) : o \in Orders(4, 2, 1)}, lost \in Losses}

FeatureStreams ==
  {Stream(nals, 8, 4, 1, 0) : nals \in LayerStreams \cup LongTermStreams \cup LossStreams}

MCStreams == OrderStreams \cup RandomAccessStreams \cup FeatureStreams

(* The bitstreams that are not in the reach of the theorems about the decoder *)
(* are those with long-term references and with losses.                      *)
ASSUME TheoremsApply ==
  \A s \in MCStreams :
    \/ s.nals \in LongTermStreams \cup LossStreams
    \/ /\ Conforming(s.nals, s.settings) /\ OutputConforming(s.nals, s.settings)
       /\ PicturesLabelled(s.nals) /\ LastNotAlone(s.nals, s.settings.maxTemporalLayer)

-----------------------------------------------------------------------------
(* Streams the decoder does not treat as its comments say; the README tells  *)
(* which property each of them violates.                                     *)

(* What follows has lower POCs than the random access point.                 *)
MCLowerPOCStreams ==
  {Stream(nals, 8, 4, 1, -1) : nals \in
     Join({At4("CRA", <<>>, FALSE)}, <<>>, {AtIDR(FALSE)}, 8)
     \cup Join({At4("CRA", <<RADL>>, FALSE)}, <<>>, {At4("BLA", <<>>, FALSE)}, 8)}
(* A CRA picture after an end of sequence has the POC of a picture before.   *)
MCSamePOCStreams ==
  {Stream(nals, 8, 4, 1, -1) : nals \in Join({Within4(<<>>)}, <<EOS>>, {AtCRA(4)}, 8)}
(* It has a lower POC than pictures written before. *)
MCEarlierPOCStreams ==
  {Stream(nals, 8, 4, 1, -1) : nals \in
     Join({Within4(<<>>)}, <<EOS>>, {AtCRA(2) \o <<Picture("TRAIL", 4, {2}, {2})>>}, 8)}
(* The stream ends with the only picture of a sequence. *)
MCSinglePictureStreams ==
  {Stream(nals, 8, 4, 1, -1) : nals \in
     Join({Within4(<<>>)}, <<EOS>>, {<<IRAP("IDR", 0)>>}, 8)}

(* The pictures that follow an IDR picture, POC 0, precede it in the output.  *)
(* The one with POC -2 is lost; the next predicts from it.                    *)
MCNegativePOCStreams ==
  {Stream(SequenceNALs(<<IRAP("IDR", 0), Picture("RADL", -1, {-2}, {-2})>>, 8, 1), 8, 4, 1, -1)}

(* Pictures of layer 1 have used all buffers when POC 6, of layer 0, is lost. *)
Layer1(poc, rps, used) == [Picture("TSA", poc, rps, used) EXCEPT !.tid = 1, !.ref = FALSE]
MCLossLayerStreams ==
  {Stream(SequenceNALs(<<IRAP("IDR", 0)>> \o [poc \in 1..4 |-> Layer1(poc, {0}, {0})]
                           \o <<Layer1(5, {0, 6}, {6})>>, 16, 1), 16, 5, 2, -1)}

(* Two slices in each picture; the first frame is to be skipped. *)
MCSkipFrameStreams ==
  {[Stream(SequenceNALs(Sliced(Second, <<"whole", "whole">>), 8, 1)
           \o SequenceNALs(Sliced(Second, <<"whole", "whole">>), 8, 2), 8, 4, 1, -1)
      EXCEPT !.settings.skipFrame = 1]}
==============================================================================
