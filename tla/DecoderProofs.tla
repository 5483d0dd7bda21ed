----------------------------- MODULE DecoderProofs -----------------------------
(***************************************************************************)
(* The theorems about the decoder.  For every bitstream that conforms      *)
(* (Conforming), whatever the settings, the number of pictures and their   *)
(* references: a picture buffer holds one picture, with the POC the        *)
(* encoder meant, what a slice uses is what the encoder meant, and         *)
(* pictures are written whole.                                             *)
(*                                                                         *)
(* The inductive invariant is Inv, at the end.  It is about Past, the      *)
(* slices decoded so far: every picture of the list holds those of its     *)
(* picture (PictureInv), what all pictures since have kept is in the list  *)
(* and marked (ReferencesHeld) and reconstructed (Reconstructed), and the  *)
(* registers of the decoder are those of the last slices of the stream     *)
(* that matter to them (Registers, of DecoderLemmas).                      *)
(***************************************************************************)
EXTENDS DecoderLemmas
LOCAL INSTANCE SequencesExt
LOCAL INSTANCE FiniteSetsExt

-----------------------------------------------------------------------------
(* Searches in the list of pictures.                                       *)

(* Where the buffer for a picture is taken: where one is free, or after all *)
(* others when the list may grow or has no free buffer.                     *)
PlaceFor(l, tid, i) ==
  \/ i \in DOMAIN l /\ IsReusable(l[i])
  \/ /\ i = Len(l) + 1
     /\ Len(l) < MaxDecPicBuffering[tid] \/ \A j \in DOMAIN l : ~IsReusable(l[j])

(* The buffer chosen is a new one, or one that is free.                    *)
LEMMA NewBufferIndexFacts ==
  ASSUME NEW l \in Seq(Pictures), NEW tid
  PROVE  PlaceFor(l, tid, NewBufferIndex(l, tid))
<1> DEFINE T == {i \in 1..Len(l) : IsReusable(l[i])}
           first == SelectInSeq(l, IsReusable)
<1>1. first = IF T # {} THEN Min(T) ELSE 0
  BY DEF SelectInSeq
<1>2. DOMAIN l = 1..Len(l) /\ Len(l) \in Nat
  BY PicturesIn
<1>3. T # {} => Min(T) \in T
  <2>1. T \in SUBSET (1..Len(l))
    OBVIOUS
  <2> HIDE DEF T
  <2>2. T # {} => \E x \in T : \A y \in T : x <= y
    BY <1>2, <2>1, Extremes
  <2> QED
    BY <2>2 DEF Min
<1>4. \/ /\ NewBufferIndex(l, tid) = Len(l) + 1
         /\ Len(l) < MaxDecPicBuffering[tid] \/ first = 0
      \/ first # 0 /\ NewBufferIndex(l, tid) = first
  BY DEF NewBufferIndex
<1> HIDE DEF first
<1>5. first = 0 => \A j \in DOMAIN l : ~IsReusable(l[j])
  BY <1>1, <1>2, <1>3
<1>6. first # 0 => first \in DOMAIN l /\ IsReusable(l[first])
  BY <1>1, <1>2, <1>3
<1> QED
  BY <1>4, <1>5, <1>6 DEF PlaceFor

(* xGetRefPic finds a picture with the POC, if there is one.               *)
LEMMA RefPicIndexFacts ==
  ASSUME NEW l \in Seq(Pictures), NEW poc, \E q \in Pics(l) : q.poc = poc
  PROVE  RefPicIndex(l, poc) \in DOMAIN l /\ l[RefPicIndex(l, poc)].poc = poc
<1> DEFINE T == {i \in 1..Len(l) : l[i].poc = poc}
<1>1. RefPicIndex(l, poc) = IF T # {} THEN Min(T) ELSE 0
  BY DEF SelectInSeq, RefPicIndex
<1>2. DOMAIN l = 1..Len(l) /\ Len(l) \in Nat
  BY PicturesIn
<1>3. T # {} /\ T \in SUBSET (1..Len(l))
  BY <1>2 DEF Pics
<1>4. Min(T) \in T
  <2> HIDE DEF T
  <2>1. \E x \in T : \A y \in T : x <= y
    BY <1>2, <1>3, Extremes
  <2> QED
    BY <2>1 DEF Min
<1> QED
  BY <1>1, <1>2, <1>3, <1>4

-----------------------------------------------------------------------------
(* Without long-term entries and with all references there, nothing is     *)
(* concealed.                                                              *)

LEMMA NoMarks ==
  ASSUME NEW l, NEW s, s.lt = <<>>
  PROVE  MarkLongTerms(l, s) = l
<1> DEFINE F(f) == [i \in 0..Len(s.lt) |-> IF i = 0 THEN l ELSE MarkLongTerm(f[i - 1], s.lt[i])]
           marked == CHOOSE f : f = F(f)
           g == [i \in 0..0 |-> l]
<1>1. MarkLongTerms(l, s) = marked[Len(s.lt)]
  BY DEF MarkLongTerms
<1>2. Len(s.lt) = 0 /\ \A i \in 0..0 : i = 0
  OBVIOUS
<1>3. g = F(g)
  BY <1>2
<1>4. marked = F(marked)
  <2> HIDE DEF F, g
  <2> QED
    BY <1>3
<1>5. F(marked)[0] = l
  <2> HIDE DEF marked
  <2> QED
    BY <1>2
<1> HIDE DEF marked, F
<1> QED
  BY <1>1, <1>2, <1>4, <1>5

LEMMA InOrderOfNone ==
  ASSUME NEW l
  PROVE  InOrder(l, {}) = <<>>
<1> DEFINE f == [k \in 1..Cardinality({}) |->
                   l[CHOOSE i \in {} : Cardinality({j \in {} : j <= i}) = k]]
<1>1. Cardinality({}) = 0
  BY FS_EmptySet
<1>2. InOrder(l, {}) = <<>> \o f
  BY DEF InOrder
<1>3. f \in [1..0 -> {f[i] : i \in 1..0}]
  BY <1>1
<1> HIDE DEF f
<1>4. <<>> \o f = f /\ f \in Seq({f[i] : i \in 1..0}) /\ Len(f) = 0
  BY <1>3, ListOf
<1>5. f = <<>>
  BY <1>4, EmptySeq
<1> QED
  BY <1>2, <1>4, <1>5

(* Every entry that is used has its picture in the list.                   *)
Available(l, s) ==
  \A i \in DOMAIN s.st : s.st[i].used =>
    \E q \in Pics(l) : q.referenced /\ ~q.longTerm /\ q.poc = s.poc + s.st[i].delta

(* No POC is lost if what is used is in the list.                          *)
LEMMA NothingLostFacts ==
  ASSUME NEW l \in Seq(Pictures), NEW s, s.lt = <<>>, Available(l, s), NEW poc
  PROVE  LostPOCs(l, s, poc) = <<>>
<1> DEFINE lost(e) == e.used /\ e.poc >= poc
           short == [i \in DOMAIN s.st |-> [poc |-> RefPOC(s, s.st[i]), used |-> s.st[i].used]]
           lt == InOrder(s.lt, {i \in DOMAIN s.lt : lost(s.lt[i]) /\ ~HasLongTerm(l, s.lt[i])})
           gone == {i \in DOMAIN short : lost(short[i]) /\ ~HasShortTerm(l, short[i].poc)}
           st == InOrder(short, gone)
           all == lt \o st
<1>1. MarkLongTerms(l, s) = l
  BY NoMarks
<1>2. LostPOCs(l, s, poc) = [i \in DOMAIN all |-> all[i].poc]
  BY <1>1 DEF LostPOCs
<1>3. lt = <<>>
  <2>1. {i \in DOMAIN s.lt : lost(s.lt[i]) /\ ~HasLongTerm(l, s.lt[i])} = {}
    OBVIOUS
  <2> QED
    BY <2>1, InOrderOfNone
<1>4. gone = {}
  <2>1. ASSUME NEW i \in DOMAIN s.st, s.st[i].used PROVE HasShortTerm(l, RefPOC(s, s.st[i]))
    BY <2>1 DEF Available, HasShortTerm, RefPOC, Pics
  <2>2. \A i \in DOMAIN short : i \in DOMAIN s.st /\ short[i].used = s.st[i].used
                                /\ short[i].poc = RefPOC(s, s.st[i])
    OBVIOUS
  <2> QED
    BY <2>1, <2>2
<1>5. st = <<>>
  <2> HIDE DEF short, gone
  <2> QED
    BY <1>4, InOrderOfNone
<1> HIDE DEF lt, st
<1>6. all = <<>>
  BY <1>3, <1>5
<1> HIDE DEF all
<1> DEFINE f == [i \in DOMAIN all |-> all[i].poc]
<1>7. f \in [1..0 -> {f[i] : i \in 1..0}]
  BY <1>6
<1>8. LostPOCs(l, s, poc) = f
  BY <1>2
<1> HIDE DEF f
<1>9. f \in Seq({f[i] : i \in 1..0}) /\ Len(f) = 0
  BY <1>7, ListOf
<1>10. f = <<>>
  BY <1>9, EmptySeq
<1> QED
  BY <1>8, <1>10

(* Nothing is concealed if what is used is in the list.                    *)
LEMMA NothingConcealed ==
  ASSUME NEW l \in Seq(Pictures), NEW s, s.lt = <<>>, Available(l, s), NEW poc
  PROVE  /\ Concealed(l, s, poc) = <<>>
         /\ ConcealLostPictures(l, s, poc) = l
<1>1. Concealed(l, s, poc) = <<>>
  <2>1. Reverse(LostPOCs(l, s, poc)) = <<>>
    BY NothingLostFacts DEF Reverse
  <2>2. SelectInSeq(<<>>, LAMBDA x : x < 0) = 0
    BY DEF SelectInSeq
  <2> QED
    BY <2>1, <2>2 DEF Concealed
<1> DEFINE lost == Concealed(l, s, poc)
           F(f) == [i \in 0..Len(lost) |-> IF i = 0 THEN MarkLongTerms(l, s)
                                           ELSE CreateLostPicture(f[i - 1], lost[i])]
           list == CHOOSE f : f = F(f)
           g == [i \in 0..0 |-> MarkLongTerms(l, s)]
<1>2. ConcealLostPictures(l, s, poc) = MarkLongTerms(list[Len(lost)], s)
  BY DEF ConcealLostPictures
<1>3. Len(lost) = 0 /\ \A i \in 0..0 : i = 0
  BY <1>1
<1> HIDE DEF lost
<1>4. g = F(g)
  BY <1>3
<1>5. list = F(list)
  <2> HIDE DEF F, g
  <2> QED
    BY <1>4
<1>6. F(list)[0] = MarkLongTerms(l, s)
  <2> HIDE DEF list
  <2> QED
    BY <1>3
<1> HIDE DEF list, F
<1>7. MarkLongTerms(l, s) = l
  BY NoMarks
<1> QED
  BY <1>1, <1>2, <1>3, <1>5, <1>6, <1>7 DEF lost

-----------------------------------------------------------------------------
(* The list when a slice is decoded.                                       *)

(* Without long-term pictures there are no marks to take away.             *)
LEMMA MarkReferencesFacts ==
  ASSUME NEW l \in Seq(Pictures), \A q \in Pics(l) : ~q.longTerm, NEW s, s.lt = <<>>
  PROVE  MarkReferences(l, s) = l
<1> DEFINE Mark(i) == IF i \in LongTermRefs(l, s) THEN [l[i] EXCEPT !.longTerm = TRUE]
                      ELSE IF i \in ShortTermRefs(l, s) THEN [l[i] EXCEPT !.longTerm = FALSE]
                      ELSE l[i]
           f == [i \in DOMAIN l |-> Mark(i)]
<1>1. MarkReferences(l, s) = <<>> \o f
  BY DEF MarkReferences
<1>2. LongTermRefs(l, s) = {}
  BY DEF LongTermRefs, UsedLongTerm
<1>3. DOMAIN l = 1..Len(l) /\ Len(l) \in Nat
      /\ \A i \in DOMAIN l : l[i] \in Pictures /\ l[i] \in Pics(l)
  BY PicturesIn
<1>4. \A q \in Pictures : ~q.longTerm => [q EXCEPT !.longTerm = FALSE] = q
  BY DEF Pictures
<1>5. \A i \in DOMAIN l : Mark(i) = l[i]
  BY <1>2, <1>3, <1>4
<1> HIDE DEF Mark
<1>6. f = [i \in DOMAIN l |-> l[i]]
  BY <1>5
<1>7. f = l
  BY <1>3, <1>6
<1>8. <<>> \o l = l
  BY ConcatEmptySeq
<1> QED
  BY <1>1, <1>7, <1>8

(* r is the picture q after the reference picture set of s was applied.    *)
Marked(r, q, s) ==
  /\ r.nals = q.nals /\ r.poc = q.poc /\ r.output = q.output /\ r.recon = q.recon
  /\ r.picOutput = q.picOutput /\ ~r.longTerm /\ ~r.current
  /\ r.referenced => /\ q.referenced
                     /\ q.poc = s.poc \/ \E i \in DOMAIN s.st : q.poc = s.poc + s.st[i].delta
  /\ q.referenced /\ (\E i \in DOMAIN s.st : q.poc = s.poc + s.st[i].delta) => r.referenced

IsNew(r, s, p) ==
  /\ r.nals = {p} /\ r.poc = s.poc /\ r.picOutput = s.picOutput
  /\ r.current /\ r.referenced /\ ~r.output /\ ~r.longTerm

(* The list k is l with a buffer for the picture of the slice s.           *)
WithPicture(k, l, s) ==
  \E i \in 1..(Len(l) + 1) :
    /\ PlaceFor(l, nal.tid, i) /\ DOMAIN k = DOMAIN l \cup {i} /\ IsNew(k[i], s, pos)
    /\ \A j \in DOMAIN k : j # i => j \in DOMAIN l /\ Marked(k[j], l[j], s)

NotCurrent(q) == [q EXCEPT !.current = FALSE]
NewBuffer(q) == [FreshPicture EXCEPT !.longTerm = q.longTerm, !.tid = q.tid, !.current = TRUE]
Started(q, s) ==
  IF ~q.current THEN q
  ELSE [q EXCEPT !.poc = s.poc, !.type = s.type, !.tid = s.tid, !.nonRef = s.nonRef,
                 !.assocPOC = s.assocPOC, !.picOutput = s.picOutput,
                 !.referenced = TRUE, !.nals = {pos}]

(* applyReferencePictureSet keeps a picture marked that the set names.     *)
LEMMA MarkPictureFacts ==
  ASSUME NEW q \in Pictures, ~q.longTerm, NEW s \in HeaderSlices
  PROVE  /\ MarkPicture(q, s) \in Pictures
         /\ LET r == MarkPicture(q, s)
            IN  /\ r.nals = q.nals /\ r.poc = q.poc /\ r.output = q.output /\ r.recon = q.recon
                /\ r.picOutput = q.picOutput /\ ~r.longTerm /\ r.current = q.current
                /\ r.referenced =>
                     /\ q.referenced
                     /\ q.poc = s.poc \/ \E i \in DOMAIN s.st : q.poc = s.poc + s.st[i].delta
                /\ q.referenced /\ (\E i \in DOMAIN s.st : q.poc = s.poc + s.st[i].delta) => r.referenced
         /\ ~q.referenced => MarkPicture(q, s) = q
<1> DEFINE st == ShortTermEntries(q, s)
           lt == LongTermEntries(q, s)
<1>1. s.lt = <<>> /\ s.st \in Seq(Entries)
  BY DEF HeaderSlices
<1>2. lt = {} /\ st = {i \in DOMAIN s.st : q.poc = s.poc + s.st[i].delta}
  BY <1>1 DEF LongTermEntries, ShortTermEntries, RefPOC
<1>3. CASE ~q.referenced
  BY <1>3 DEF MarkPicture
<1>4. CASE q.referenced /\ st # {}
  <2>1. Max(st) \in st
    <3>1. Len(s.st) \in Nat /\ st \in SUBSET (1..Len(s.st)) /\ \A i \in st : i \in Nat
      BY <1>1, <1>2
    <3> HIDE DEF st
    <3>2. \E x \in st : \A y \in st : y <= x
      BY <1>4, <3>1, Extremes
    <3>3. \E x \in st : \A y \in st : x >= y
      BY <3>1, <3>2
    <3> QED
      BY <3>3 DEF Max
  <2>2. s.st[Max(st)].used \in BOOLEAN
    <3> HIDE DEF st
    <3>1. \A i \in DOMAIN s.st : s.st[i].used \in BOOLEAN
      <4>1. \A i \in DOMAIN s.st : s.st[i] \in Entries
        BY <1>1
      <4> QED
        BY <4>1 DEF Entries
    <3> QED
      BY <1>2, <2>1, <3>1
  <2>3. MarkPicture(q, s) = [q EXCEPT !.usedByCurr = s.st[Max(st)].used]
    <3> HIDE DEF st, lt
    <3>1. st \cup lt # {} /\ ~(lt # {})
      BY <1>2, <1>4
    <3> QED
      BY <1>4, <3>1 DEF MarkPicture, st, lt
  <2> DEFINE u == s.st[Max(st)].used
  <2> HIDE DEF u
  <2>4. MarkPicture(q, s) = [q EXCEPT !.usedByCurr = u] /\ u \in BOOLEAN
    BY <2>2, <2>3 DEF u
  <2>5. \E i \in DOMAIN s.st : q.poc = s.poc + s.st[i].delta
    BY <1>2, <1>4
  <2> QED
    BY <1>4, <2>4, <2>5 DEF Pictures
<1>5. CASE q.referenced /\ st = {} /\ q.poc # s.poc
  <2>1. MarkPicture(q, s) = [q EXCEPT !.referenced = FALSE, !.usedByCurr = FALSE, !.longTerm = FALSE]
    BY <1>2, <1>5 DEF MarkPicture
  <2>2. ~\E i \in DOMAIN s.st : q.poc = s.poc + s.st[i].delta
    BY <1>2, <1>5
  <2> QED
    BY <1>5, <2>1, <2>2 DEF Pictures
<1>6. CASE q.referenced /\ st = {} /\ q.poc = s.poc
  BY <1>2, <1>6 DEF MarkPicture
<1> QED
  BY <1>3, <1>4, <1>5, <1>6

(* The new buffer holds the first slice of the picture.                    *)
LEMMA StartedFacts ==
  ASSUME NEW q \in Pictures, NEW s \in HeaderSlices, pos \in Nat
  PROVE  /\ Started(q, s) \in Pictures
         /\ ~q.current => Started(q, s) = q
         /\ q.current /\ ~q.output /\ ~q.longTerm => IsNew(Started(q, s), s, pos)
<1>1. CASE ~q.current
  BY <1>1 DEF Started
<1>2. CASE q.current
  <2>1. /\ s.poc \in Int /\ s.type \in SliceTypes /\ s.tid \in Nat /\ s.nonRef \in BOOLEAN
        /\ s.assocPOC \in Int /\ s.picOutput \in BOOLEAN /\ {pos} \in SUBSET Nat
    BY DEF HeaderSlices
  <2> DEFINE a == s.poc
             b == s.type
             c == s.tid
             d == s.nonRef
             e == s.assocPOC
             f == s.picOutput
             g == {pos}
  <2>2. Started(q, s) = [q EXCEPT !.poc = a, !.type = b, !.tid = c, !.nonRef = d, !.assocPOC = e,
                                  !.picOutput = f, !.referenced = TRUE, !.nals = g]
    BY <1>2 DEF Started
  <2> HIDE DEF a, b, c, d, e, f, g
  <2>3. /\ a \in Int /\ b \in SliceTypes /\ c \in Nat /\ d \in BOOLEAN /\ e \in Int /\ f \in BOOLEAN
        /\ g \in SUBSET Nat
    BY <2>1 DEF a, b, c, d, e, f, g
  <2>4. Started(q, s) \in Pictures
    BY <2>2, <2>3 DEF Pictures
  <2>5. /\ Started(q, s).nals = g /\ Started(q, s).poc = a /\ Started(q, s).current = q.current
        /\ Started(q, s).referenced /\ Started(q, s).output = q.output /\ Started(q, s).longTerm = q.longTerm
        /\ Started(q, s).picOutput = f
    BY <2>2 DEF Pictures
  <2> QED
    BY <1>2, <2>4, <2>5 DEF IsNew, a, f, g
<1> QED
  BY <1>1, <1>2

(* The list with a buffer for the new picture.                             *)
LEMMA WithNewBufferFacts ==
  ASSUME NEW l \in Seq(Pictures), \A q \in Pics(l) : ~q.longTerm
  PROVE  \E i \in 1..(Len(l) + 1) : \E new \in Pictures :
           /\ PlaceFor(l, nal.tid, i)
           /\ new.current /\ ~new.referenced /\ ~new.output /\ ~new.longTerm
           /\ WithNewBuffer(l) \in Seq(Pictures)
           /\ DOMAIN WithNewBuffer(l) = 1..(IF i = Len(l) + 1 THEN Len(l) + 1 ELSE Len(l))
           /\ \A j \in DOMAIN WithNewBuffer(l) :
                WithNewBuffer(l)[j] = IF j = i THEN new ELSE NotCurrent(l[j])
<1> DEFINE f == [j \in DOMAIN l |-> NotCurrent(l[j])]
           i == NewBufferIndex(l, nal.tid)
           new == [NewPicture(l, i) EXCEPT !.current = TRUE]
           N == IF i = Len(l) + 1 THEN Len(l) + 1 ELSE Len(l)
<1>1. DOMAIN l = 1..Len(l) /\ Len(l) \in Nat
      /\ \A j \in DOMAIN l : l[j] \in Pictures /\ l[j] \in Pics(l)
  BY PicturesIn
<1>2. \A q \in Pictures : NotCurrent(q) \in Pictures
  BY DEF Pictures, NotCurrent
<1>3. f \in [1..Len(l) -> Pictures] /\ \A j \in DOMAIN l : f[j] = NotCurrent(l[j])
  BY <1>1, <1>2
<1>4. WithNewBuffer(l) = PutPicture(<<>> \o f, i, new)
  BY DEF WithNewBuffer, MapPictures, NotCurrent
<1>5. /\ PlaceFor(l, nal.tid, i)
      /\ \/ i = Len(l) + 1
         \/ i \in DOMAIN l /\ IsReusable(l[i])
  BY NewBufferIndexFacts DEF PlaceFor
<1>6. new \in Pictures /\ new.current /\ ~new.referenced /\ ~new.output /\ ~new.longTerm
  <2>0. FreshPicture \in Pictures
    BY DEF FreshPicture, Pictures, SliceTypes, IRAPTypes
  <2>1. CASE i = Len(l) + 1
    <3>1. NewPicture(l, i) = FreshPicture
      BY <1>1, <2>1 DEF NewPicture
    <3> QED
      BY <2>0, <3>1 DEF Pictures, FreshPicture
  <2>2. CASE i \in DOMAIN l
    <3>1. l[i] \in Pictures /\ ~l[i].longTerm
      BY <1>1, <2>2
    <3>2. l[i].longTerm \in BOOLEAN /\ l[i].tid \in Nat
      BY <3>1 DEF Pictures
    <3>3. ~(i > Len(l))
      BY <1>1, <2>2
    <3> DEFINE q == l[i]
    <3>4. NewPicture(l, i) = [FreshPicture EXCEPT !.longTerm = q.longTerm, !.tid = q.tid]
      BY <3>3 DEF NewPicture
    <3> HIDE DEF i, q
    <3>5. new = NewBuffer(q) /\ q \in Pictures /\ ~q.longTerm
      BY <3>1, <3>4 DEF NewBuffer, FreshPicture, q
    <3>6. NewBuffer(q) \in Pictures
      BY <2>0, <3>5 DEF NewBuffer, Pictures
    <3>7. /\ NewBuffer(q).current /\ ~NewBuffer(q).referenced /\ ~NewBuffer(q).output
          /\ ~NewBuffer(q).longTerm
      BY <3>5 DEF NewBuffer, FreshPicture
    <3> QED
      BY <3>5, <3>6, <3>7
  <2> QED
    BY <1>5, <2>1, <2>2
<1> HIDE DEF f, i, new
<1>7. <<>> \o f = f /\ f \in Seq(Pictures) /\ Len(f) = Len(l) /\ DOMAIN f = 1..Len(l)
  BY <1>1, <1>3, ListOf
<1>8. CASE i = Len(l) + 1
  <2>0. i > Len(f)
    BY <1>1, <1>7, <1>8
  <2>1. WithNewBuffer(l) = Append(f, new)
    BY <1>4, <1>7, <2>0 DEF PutPicture
  <2>2. /\ Append(f, new) \in Seq(Pictures)
        /\ DOMAIN Append(f, new) = 1..(Len(l) + 1)
        /\ \A j \in 1..(Len(l) + 1) : Append(f, new)[j] = IF j = i THEN new ELSE f[j]
    BY <1>1, <1>6, <1>7, <1>8
  <2>3. \A j \in 1..(Len(l) + 1) : j # i => j \in DOMAIN l
    BY <1>1, <1>8
  <2> QED
    BY <1>1, <1>3, <1>5, <1>6, <1>8, <2>1, <2>2, <2>3
<1>9. CASE i \in DOMAIN l /\ IsReusable(l[i])
  <2>1. ~(i > Len(f)) /\ i # Len(l) + 1 /\ i \in 1..(Len(l) + 1)
    BY <1>1, <1>7, <1>9
  <2>2. WithNewBuffer(l) = [f EXCEPT ![i] = new]
    BY <1>4, <1>7, <2>1 DEF PutPicture
  <2> DEFINE g == [f EXCEPT ![i] = new]
  <2>3. g \in [1..Len(l) -> Pictures]
    BY <1>3, <1>6
  <2>4. \A j \in 1..Len(l) : g[j] = IF j = i THEN new ELSE f[j]
    BY <1>3
  <2>5. WithNewBuffer(l) = g
    BY <2>2
  <2> HIDE DEF g
  <2>6. g \in Seq(Pictures) /\ DOMAIN g = 1..Len(l)
    BY <1>1, <2>3, ListOf
  <2>7. \A j \in DOMAIN g : g[j] = IF j = i THEN new ELSE NotCurrent(l[j])
    BY <1>1, <1>3, <2>4, <2>6
  <2> QED
    BY <1>1, <1>5, <1>6, <1>9, <2>1, <2>5, <2>6, <2>7
<1> QED
  BY <1>5, <1>8, <1>9

(* The list of pictures for the first slice of a picture.                  *)
LEMMA StartPictureFacts ==
  ASSUME NEW l \in Seq(Pictures), \A q \in Pics(l) : ~q.longTerm, NEW s \in HeaderSlices, pos \in Nat
  PROVE  LET k == StartPicture(ApplyReferencePictureSet(WithNewBuffer(l), s), s)
         IN  /\ k \in Seq(Pictures) /\ WithPicture(k, l, s)
             /\ \E r \in Pics(k) : IsNew(r, s, pos)
             /\ \A r \in Pics(k) : IsNew(r, s, pos) \/ \E q \in Pics(l) : Marked(r, q, s)
             /\ \A q \in Pics(l) : IsReusable(q) \/ \E r \in Pics(k) : Marked(r, q, s)
<1>1. PICK i \in 1..(Len(l) + 1) : \E new \in Pictures :
           /\ PlaceFor(l, nal.tid, i)
           /\ new.current /\ ~new.referenced /\ ~new.output /\ ~new.longTerm
           /\ WithNewBuffer(l) \in Seq(Pictures)
           /\ DOMAIN WithNewBuffer(l) = 1..(IF i = Len(l) + 1 THEN Len(l) + 1 ELSE Len(l))
           /\ \A j \in DOMAIN WithNewBuffer(l) :
                WithNewBuffer(l)[j] = IF j = i THEN new ELSE NotCurrent(l[j])
  BY WithNewBufferFacts
<1>2. PICK new \in Pictures :
           /\ PlaceFor(l, nal.tid, i)
           /\ new.current /\ ~new.referenced /\ ~new.output /\ ~new.longTerm
           /\ WithNewBuffer(l) \in Seq(Pictures)
           /\ DOMAIN WithNewBuffer(l) = 1..(IF i = Len(l) + 1 THEN Len(l) + 1 ELSE Len(l))
           /\ \A j \in DOMAIN WithNewBuffer(l) :
                WithNewBuffer(l)[j] = IF j = i THEN new ELSE NotCurrent(l[j])
  BY <1>1
<1>3. PICK n \in Nat : n = Len(l) /\ DOMAIN l = 1..n
  BY PicturesIn
<1>4. \A j \in DOMAIN l : l[j] \in Pictures /\ l[j] \in Pics(l) /\ ~l[j].longTerm
  BY PicturesIn
<1> DEFINE N == IF i = n + 1 THEN n + 1 ELSE n
           old(j) == NotCurrent(l[j])
           f == [j \in 1..N |-> IF j = i THEN new ELSE old(j)]
           fresh == WithNewBuffer(l)
<1>5. /\ N \in Nat /\ i \in 1..N /\ DOMAIN l \subseteq 1..N
      /\ \A j \in 1..N : j # i => j \in DOMAIN l
      /\ i \in DOMAIN l => IsReusable(l[i])
  BY <1>1, <1>2, <1>3 DEF PlaceFor
<1>6. /\ fresh \in Seq(Pictures) /\ DOMAIN fresh = 1..N
      /\ \A j \in 1..N : fresh[j] = IF j = i THEN new ELSE old(j)
  BY <1>2, <1>3
<1> HIDE DEF N, fresh
<1>7. \A j \in DOMAIN l :
        /\ old(j) \in Pictures /\ ~old(j).current /\ ~old(j).longTerm
        /\ old(j).nals = l[j].nals /\ old(j).poc = l[j].poc /\ old(j).output = l[j].output
        /\ old(j).recon = l[j].recon /\ old(j).referenced = l[j].referenced
        /\ old(j).picOutput = l[j].picOutput
  <2>1. \A q \in Pictures :
          /\ NotCurrent(q) \in Pictures /\ ~NotCurrent(q).current
          /\ NotCurrent(q).longTerm = q.longTerm
          /\ NotCurrent(q).nals = q.nals /\ NotCurrent(q).poc = q.poc /\ NotCurrent(q).output = q.output
          /\ NotCurrent(q).recon = q.recon /\ NotCurrent(q).referenced = q.referenced
          /\ NotCurrent(q).picOutput = q.picOutput
    BY DEF NotCurrent, Pictures
  <2> QED
    BY <1>4, <2>1
<1> HIDE DEF old
<1> DEFINE g == [j \in 1..N |-> Started(MarkPicture(fresh[j], s), s)]
           m == [j \in 1..N |-> MarkPicture(fresh[j], s)]
           k == StartPicture(ApplyReferencePictureSet(fresh, s), s)
<1>8. \A j \in 1..N : fresh[j] \in Pictures /\ ~fresh[j].longTerm
  BY <1>2, <1>5, <1>6, <1>7
<1>9. \A j \in 1..N : MarkPicture(fresh[j], s) \in Pictures /\ Started(MarkPicture(fresh[j], s), s) \in Pictures
  BY <1>8, MarkPictureFacts, StartedFacts
<1>10. m \in [1..N -> Pictures] /\ g \in [1..N -> Pictures]
  BY <1>9
<1>11. ApplyReferencePictureSet(fresh, s) = m
  <2>1. ApplyReferencePictureSet(fresh, s) = <<>> \o m
    BY <1>6 DEF ApplyReferencePictureSet, MapPictures
  <2> HIDE DEF m
  <2> QED
    BY <1>5, <1>10, <2>1, ListOf
<1>12. DOMAIN m = 1..N
  OBVIOUS
<1>13. k = g /\ g \in Seq(Pictures) /\ DOMAIN g = 1..N
  <2>1. StartPicture(m, s) = <<>> \o [j \in DOMAIN m |-> Started(m[j], s)]
    BY DEF StartPicture, MapPictures, Started
  <2>2. [j \in DOMAIN m |-> Started(m[j], s)] = g
    BY <1>12
  <2> HIDE DEF m, g
  <2> QED
    BY <1>5, <1>10, <1>11, <2>1, <2>2, ListOf
<1>14. IsNew(g[i], s, pos)
  <2>1. fresh[i] = new
    BY <1>5, <1>6
  <2>2. MarkPicture(new, s) = new
    BY <1>2, MarkPictureFacts
  <2>3. IsNew(Started(new, s), s, pos)
    BY <1>2, StartedFacts
  <2> QED
    BY <1>5, <2>1, <2>2, <2>3
<1>15. ASSUME NEW j \in 1..N, j # i PROVE j \in DOMAIN l /\ Marked(g[j], l[j], s)
  <2>1. j \in DOMAIN l /\ fresh[j] = old(j)
    BY <1>5, <1>6, <1>15
  <2> DEFINE r == MarkPicture(old(j), s)
  <2>2. /\ r.nals = l[j].nals /\ r.poc = l[j].poc /\ r.output = l[j].output /\ r.recon = l[j].recon
        /\ r.picOutput = l[j].picOutput /\ ~r.longTerm /\ ~r.current /\ r \in Pictures
        /\ r.referenced =>
             /\ l[j].referenced
             /\ l[j].poc = s.poc \/ \E e \in DOMAIN s.st : l[j].poc = s.poc + s.st[e].delta
        /\ l[j].referenced /\ (\E e \in DOMAIN s.st : l[j].poc = s.poc + s.st[e].delta) => r.referenced
    BY <1>7, <2>1, MarkPictureFacts
  <2>3. g[j] = Started(r, s)
    BY <2>1
  <2> HIDE DEF r
  <2>4. g[j] = r
    BY <2>2, <2>3, StartedFacts
  <2> QED
    BY <2>1, <2>2, <2>4 DEF Marked
<1> HIDE DEF g
<1>16. Pics(g) = {g[j] : j \in 1..N} /\ Pics(l) = {l[j] : j \in DOMAIN l}
  BY <1>13 DEF Pics
<1>17. \E r \in Pics(g) : IsNew(r, s, pos)
  BY <1>5, <1>14, <1>16
<1>18. \A r \in Pics(g) : IsNew(r, s, pos) \/ \E q \in Pics(l) : Marked(r, q, s)
  BY <1>14, <1>15, <1>16
<1>19. \A q \in Pics(l) : IsReusable(q) \/ \E r \in Pics(g) : Marked(r, q, s)
  BY <1>5, <1>15, <1>16
<1>20. WithPicture(g, l, s)
  <2>1. DOMAIN g = DOMAIN l \cup {i}
    BY <1>2, <1>3, <1>5, <1>13 DEF PlaceFor, N
  <2>2. \A j \in DOMAIN g : j # i => j \in DOMAIN l /\ Marked(g[j], l[j], s)
    BY <1>13, <1>15
  <2> QED
    BY <1>2, <1>14, <2>1, <2>2 DEF WithPicture
<1> QED
  BY <1>13, <1>17, <1>18, <1>19, <1>20 DEF fresh

(* The list of pictures for a further slice of the current picture.        *)
Added(r, q, p) ==
  /\ r.nals = IF q.current THEN q.nals \cup {p} ELSE q.nals
  /\ r.poc = q.poc /\ r.output = q.output /\ r.recon = q.recon /\ r.referenced = q.referenced
  /\ r.longTerm = q.longTerm /\ r.current = q.current /\ r.picOutput = q.picOutput

(* A further slice is added to the current picture only.                   *)
LEMMA AddSliceFacts ==
  ASSUME NEW l \in Seq(Pictures), pos \in Nat, nal.tid \in Nat
  PROVE  /\ AddSlice(l) \in Seq(Pictures) /\ DOMAIN AddSlice(l) = DOMAIN l
         /\ \A i \in DOMAIN l : Added(AddSlice(l)[i], l[i], pos)
         /\ \A r \in Pics(AddSlice(l)) : \E q \in Pics(l) : Added(r, q, pos)
         /\ \A q \in Pics(l) : \E r \in Pics(AddSlice(l)) : Added(r, q, pos)
<1> DEFINE Plus(q, v, t) == IF q.current THEN [q EXCEPT !.nals = v, !.tid = t] ELSE q
           f == [i \in DOMAIN l |-> Plus(l[i], l[i].nals \cup {pos}, nal.tid)]
<1>1. AddSlice(l) = <<>> \o f
  BY DEF AddSlice, MapPictures
<1>2. PICK n \in Nat : DOMAIN l = 1..n
  BY PicturesIn
<1>3. \A i \in DOMAIN l : l[i] \in Pictures
  BY PicturesIn
<1>4. ASSUME NEW q \in Pictures, NEW t \in Nat
      PROVE  Plus(q, q.nals \cup {pos}, t) \in Pictures /\ Added(Plus(q, q.nals \cup {pos}, t), q, pos)
  <2>1. q.nals \cup {pos} \in SUBSET Nat
    BY DEF Pictures
  <2> DEFINE v == q.nals \cup {pos}
  <2> HIDE DEF v
  <2>2. v \in SUBSET Nat
    BY <2>1 DEF v
  <2>3. Plus(q, v, t) \in Pictures
    BY <2>2 DEF Pictures
  <2>4. /\ Plus(q, v, t).nals = IF q.current THEN v ELSE q.nals
        /\ Plus(q, v, t).poc = q.poc /\ Plus(q, v, t).output = q.output
        /\ Plus(q, v, t).recon = q.recon /\ Plus(q, v, t).referenced = q.referenced
        /\ Plus(q, v, t).longTerm = q.longTerm /\ Plus(q, v, t).current = q.current
        /\ Plus(q, v, t).picOutput = q.picOutput
    BY DEF Pictures
  <2> HIDE DEF Plus
  <2> QED
    BY <2>3, <2>4 DEF v, Added
<1> HIDE DEF Plus
<1>5. f \in [1..n -> Pictures] /\ \A i \in DOMAIN l : Added(f[i], l[i], pos)
  BY <1>2, <1>3, <1>4
<1> HIDE DEF f
<1>6. AddSlice(l) = f /\ f \in Seq(Pictures) /\ DOMAIN f = DOMAIN l
  BY <1>1, <1>2, <1>5, ListOf
<1> QED
  BY <1>5, <1>6 DEF Pics

-----------------------------------------------------------------------------
(* The invariant: what the list of pictures holds when the slices P of the *)
(* stream n have been decoded.                                             *)

Past(n, p) == {k \in Decoded(n) : k < p}
SlicesOfPicture(n, k) == {m \in SlicesIn(n) : n[m].pic = n[k].pic}

(* A buffer holds the slices decoded of one picture, which come out when   *)
(* they are all there; no IDR or BLA picture was decoded since.            *)
PictureInv(n, P, q) ==
  /\ q.nals # {} /\ q.nals \subseteq P /\ ~q.longTerm
  /\ \A k \in q.nals :
       /\ q.poc = n[k].poc
       /\ q.nals = {m \in P : n[m].pic = n[k].pic}
       /\ \A m \in P : k < m /\ Restarts(n[m]) => n[m].pic = n[k].pic
       /\ q.output => q.nals = SlicesOfPicture(n, k)
  /\ q.current <=> \E m \in q.nals : \A k \in P : k <= m

(* A picture that all pictures since have kept is held for reference.      *)
ReferencesHeld(n, P, l) ==
  l # <<>> =>
    \A j \in P : 
      /\ n[j].first
      /\ \A i \in P : n[i].first /\ j < i => Keeps(n[i], n[j].poc)
      => \E q \in Pics(l) : j \in q.nals /\ q.referenced

(* What is held for reference is reconstructed, but for the picture whose  *)
(* slices are being decoded.                                               *)
Reconstructed(l, d) ==
  \A q \in Pics(l) :
    q.referenced => q.recon \/ (q.current /\ ~d.firstSliceInPicture /\ ~d.firstSliceInSequence)

ListInv(n, P, l) == (\A q \in Pics(l) : PictureInv(n, P, q)) /\ ReferencesHeld(n, P, l)

(* What is written or discarded may as well be in the list.                *)
LEMMA SameInv ==
  ASSUME NEW n, NEW P, NEW l \in Seq(Pictures), NEW k \in Seq(Pictures), SamePictures(k, l),
         ListInv(n, P, l)
  PROVE  /\ ListInv(n, P, k)
         /\ k = <<>> <=> l = <<>>
         /\ \A d : Reconstructed(l, d) => Reconstructed(k, d)
<1>1. k = <<>> <=> l = <<>>
  BY PicturesIn DEF SamePictures
<1>2. \A r, q : Agrees(r, q) /\ PictureInv(n, P, q) => PictureInv(n, P, r)
  BY DEF Agrees, PictureInv
<1>3. \A r \in Pics(k) : PictureInv(n, P, r)
  BY <1>2 DEF ListInv, SamePictures
<1>4. ReferencesHeld(n, P, k)
  <2>1. \A q \in Pics(l) : \A j : j \in q.nals /\ q.referenced =>
          \E r \in Pics(k) : j \in r.nals /\ r.referenced
    BY DEF SamePictures, Agrees
  <2> QED
    BY <1>1, <2>1 DEF ReferencesHeld, ListInv
<1>5. ASSUME NEW d, Reconstructed(l, d) PROVE Reconstructed(k, d)
  BY <1>5 DEF Reconstructed, SamePictures, Agrees
<1> QED
  BY <1>1, <1>3, <1>4, <1>5 DEF ListInv

(* All slices of the pictures decoded are there.                           *)
Whole(n, P) == \A k \in P : SlicesOfPicture(n, k) \subseteq P

WrittenWhole(n, w) == \A j \in DOMAIN w : \A k \in w[j].nals : w[j].nals = SlicesOfPicture(n, k)

(* The invariant of the list survives filterPicture when the pictures are  *)
(* whole.                                                                  *)
LEMMA FilteredInv ==
  ASSUME NEW n, NEW P \in SUBSET SlicesIn(n), Whole(n, P), NEW l \in Seq(Pictures), ListInv(n, P, l)
  PROVE  /\ FilterPicture(l) \in Seq(Pictures)
         /\ ListInv(n, P, FilterPicture(l))
         /\ FilterPicture(l) = <<>> <=> l = <<>>
         /\ \A d, e : Reconstructed(l, d) => Reconstructed(FilterPicture(l), e)
<1> DEFINE k == FilterPicture(l)
<1>1. /\ k \in Seq(Pictures) /\ DOMAIN k = DOMAIN l
      /\ \A i \in DOMAIN l : k[i] = Filtered(l[i])
  BY FilteredList
<1> HIDE DEF k
<1>2. \A i \in DOMAIN l : l[i] \in Pictures
  BY PicturesIn
<1>3. ASSUME NEW q \in Pictures
      PROVE  LET r == Filtered(q)
             IN  /\ r.nals = q.nals /\ r.poc = q.poc /\ r.referenced = q.referenced
                 /\ r.longTerm = q.longTerm /\ r.current = q.current
                 /\ r.recon <=> q.recon \/ q.current
  BY DEF Filtered, Pictures
<1>4. ASSUME NEW q \in Pictures, PictureInv(n, P, q) PROVE PictureInv(n, P, Filtered(q))
  <2> DEFINE r == Filtered(q)
  <2>1. /\ r.nals = q.nals /\ r.poc = q.poc /\ r.longTerm = q.longTerm /\ r.current = q.current
    BY <1>3
  <2>2. \A m \in q.nals : q.nals = SlicesOfPicture(n, m)
    BY <1>4 DEF PictureInv, Whole, SlicesOfPicture
  <2> HIDE DEF r
  <2>3. PictureInv(n, P, r)
    BY <1>4, <2>1, <2>2 DEF PictureInv
  <2> QED
    BY <2>3 DEF r
<1>5. \A r \in Pics(k) : PictureInv(n, P, r)
  BY <1>1, <1>2, <1>4 DEF ListInv, Pics
<1>6. k = <<>> <=> l = <<>>
  BY <1>1
<1>7. ReferencesHeld(n, P, k)
  <2>1. \A q \in Pics(l) : \E r \in Pics(k) : r.nals = q.nals /\ r.referenced = q.referenced
    BY <1>1, <1>2, <1>3 DEF Pics
  <2> QED
    BY <1>6, <2>1 DEF ListInv, ReferencesHeld
<1>8. ASSUME NEW d, NEW e, Reconstructed(l, d) PROVE Reconstructed(k, e)
  BY <1>1, <1>2, <1>3, <1>8 DEF Reconstructed, Pics
<1> QED
  BY <1>1, <1>5, <1>6, <1>7, <1>8 DEF k, ListInv

(* One turn of the main loop.                                              *)
LEMMA LoopInv ==
  ASSUME NEW newPicture \in BOOLEAN, NEW atEnd \in BOOLEAN,
         NEW l \in Seq(Pictures), NEW d \in Decs, NEW a \in Apps,
         written \in Seq(WrittenPictures), Loop(newPicture, atEnd, l, d, a),
         NEW n, NEW P \in SUBSET SlicesIn(n), ListInv(n, P, l), WrittenWhole(n, written),
         newPicture \/ atEnd \/ nal.type = "EOS" => Whole(n, P)
  PROVE  /\ ListInv(n, P, dpb') /\ WrittenWhole(n, written')
         /\ IF app'.listKnown /\ newPicture /\ nal.type \in {"IDR", "BLA"} THEN dpb' = <<>>
            ELSE dpb' = <<>> <=> l = <<>>
         /\ ~atEnd /\ Reconstructed(l, d) => Reconstructed(dpb', dec')
<1> DEFINE C == Completed(newPicture, atEnd, l, d, a)
           flush == app'.listKnown /\ newPicture /\ nal.type \in {"IDR", "BLA"}
<1>1. /\ dpb' \in Seq(Pictures) /\ dec' \in Decs
      /\ WrittenFrom(written', written, C)
      /\ IF flush THEN dpb' = <<>> ELSE SamePictures(dpb', C)
      /\ dec'.firstSliceInSequence <=> d.firstSliceInSequence \/ nal.type = "EOS"
      /\ dec'.firstSliceInPicture <=>
              /\ ~(nal.type = "EOS" /\ app'.listKnown)
              /\ \/ d.firstSliceInPicture
                 \/ /\ newPicture \/ atEnd \/ nal.type = "EOS"
                    /\ d.firstSliceInSequence \/ ~(a.loopFiltered /\ atEnd)
  BY LoopFacts
<1>2. /\ C \in Seq(Pictures) /\ ListInv(n, P, C)
      /\ C = <<>> <=> l = <<>>
  <2>1. CASE Completes(newPicture, atEnd, d, a)
    <3>1. Whole(n, P) /\ C = FilterPicture(l)
      BY <2>1 DEF Completes, Completed
    <3> HIDE DEF C
    <3> QED
      BY <3>1, FilteredInv
  <2>2. CASE ~Completes(newPicture, atEnd, d, a)
    BY <2>2 DEF Completed
  <2> QED
    BY <2>1, <2>2
<1>3. ASSUME ~atEnd, Reconstructed(l, d) PROVE Reconstructed(C, dec')
  <2>1. CASE Completes(newPicture, atEnd, d, a)
    <3>1. Whole(n, P) /\ C = FilterPicture(l)
      BY <2>1 DEF Completes, Completed
    <3> HIDE DEF C
    <3> QED
      BY <1>3, <3>1, FilteredInv
  <2>2. CASE ~Completes(newPicture, atEnd, d, a) /\ d.firstSliceInSequence
    BY <1>3, <2>2 DEF Completed, Reconstructed
  <2>3. CASE ~Completes(newPicture, atEnd, d, a) /\ ~d.firstSliceInSequence
    <3>1. ~newPicture /\ nal.type # "EOS"
      BY <1>3, <2>3 DEF Completes
    <3>2. /\ dec'.firstSliceInSequence <=> d.firstSliceInSequence
          /\ dec'.firstSliceInPicture <=> d.firstSliceInPicture
      BY <1>1, <1>3, <3>1
    <3> QED
      BY <1>3, <2>3, <3>2 DEF Completed, Reconstructed
  <2> QED
    BY <2>1, <2>2, <2>3
<1> HIDE DEF C
<1>4. WrittenWhole(n, written')
  <2>1. \A q \in Pics(C) : q.output => \A k \in q.nals : q.nals = SlicesOfPicture(n, k)
    BY <1>2 DEF ListInv, PictureInv
  <2> QED
    BY <1>1, <2>1 DEF WrittenFrom, WrittenWhole
<1>5. CASE flush
  <2>1. dpb' = <<>> /\ Pics(dpb') = {}
    BY <1>1, <1>5 DEF Pics
  <2> QED
    BY <1>4, <1>5, <2>1 DEF ListInv, ReferencesHeld, Reconstructed
<1>6. CASE ~flush
  <2>1. SamePictures(dpb', C)
    BY <1>1, <1>6
  <2> QED
    BY <1>1, <1>2, <1>3, <1>4, <1>6, <2>1, SameInv
<1> QED
  BY <1>5, <1>6

-----------------------------------------------------------------------------
(* The slices decoded so far.                                              *)

(* The slices decoded so far, one NAL unit later.                          *)
LEMMA PastFacts ==
  ASSUME NEW n, Conforming(n, settings), NEW p \in Nat
  PROVE  /\ Past(n, p) \subseteq SlicesIn(n)
         /\ \A k \in Past(n, p) : k \in Decoded(n) /\ k \in Nat /\ k < p
         /\ p \in Decoded(n) => Past(n, p + 1) = Past(n, p) \cup {p}
         /\ p \notin Decoded(n) => Past(n, p + 1) = Past(n, p)
<1>1. \A k \in Decoded(n) : k \in SlicesIn(n) /\ k \in Nat
  BY ConformingNALs DEF Decoded, Decodable
<1>2. \A k \in Nat : k < p + 1 <=> k < p \/ k = p
  OBVIOUS
<1> QED
  BY <1>1, <1>2 DEF Past

(* Where the decoder finishes a picture, those decoded are whole.          *)
LEMMA PastIsWhole ==
  ASSUME NEW n, Conforming(n, settings), NEW p \in Nat,
         \/ p > Len(n)
         \/ p \in SlicesIn(n) /\ n[p].first
         \/ p > 1 /\ n[p - 1].type = "EOS"
  PROVE  Whole(n, Past(n, p))
<1>1. SUFFICES ASSUME NEW k \in Past(n, p), NEW x \in SlicesIn(n), n[x].pic = n[k].pic, ~(x < p)
               PROVE  FALSE
  <2>1. \A k \in Past(n, p), x \in SlicesIn(n) : n[x].pic = n[k].pic => x \in Decoded(n)
    BY PastFacts, PicturesAreDecodable DEF Decoded
  <2> QED
    BY <2>1 DEF Whole, SlicesOfPicture, Past
<1>2. k \in SlicesIn(n) /\ k \in Nat /\ x \in Nat /\ k < p /\ x \in 1..Len(n) /\ Len(n) \in Nat
  BY <1>1, PastFacts, ConformingNALs
<1>3. CASE p > Len(n)
  BY <1>1, <1>2, <1>3
<1>4. CASE p \in SlicesIn(n) /\ n[p].first
  <2>1. p <= x
    BY <1>1, <1>2
  <2> QED
    BY <1>1, <1>2, <1>4, <2>1, FirstSliceSeparates
<1>5. CASE p > 1 /\ n[p - 1].type = "EOS"
  <2>1. NoEOS(n, k, x)
    BY <1>1, <1>2, SlicesAgree
  <2>2. p - 1 \in k..x
    BY <1>1, <1>2
  <2> QED
    BY <1>5, <2>1, <2>2 DEF NoEOS
<1> QED
  BY <1>3, <1>4, <1>5

-----------------------------------------------------------------------------
(* The first slice of a picture.                                           *)

(* The first slice of a picture keeps the invariant of the list.           *)
LEMMA FirstSliceInv ==
  ASSUME NEW n, Conforming(n, settings), NEW p \in Decoded(n), n[p].first,
         NEW l \in Seq(Pictures), ListInv(n, Past(n, p), l),
         NEW d, Reconstructed(l, d), d.firstSliceInPicture,
         Restarts(n[p]) => l = <<>>, l = <<>> /\ Past(n, p) # {} => Restarts(n[p]),
         NEW s \in HeaderSlices, s.poc = n[p].poc, s.st = IF Restarts(n[p]) THEN <<>> ELSE n[p].st,
         NEW k \in Seq(Pictures),
         \E r \in Pics(k) : IsNew(r, s, p),
         \A r \in Pics(k) : IsNew(r, s, p) \/ \E q \in Pics(l) : Marked(r, q, s),
         \A q \in Pics(l) : IsReusable(q) \/ \E r \in Pics(k) : Marked(r, q, s)
  PROVE  /\ ListInv(n, Past(n, p + 1), k) /\ k # <<>>
         /\ \A e : ~e.firstSliceInPicture /\ ~e.firstSliceInSequence => Reconstructed(k, e)
<1> DEFINE P == Past(n, p)
           R == P \cup {p}
<1>1. p \in SlicesIn(n) /\ p \in Nat
  BY ConformingNALs DEF Decoded, Decodable
<1>2. /\ P \subseteq SlicesIn(n) /\ Past(n, p + 1) = R
      /\ \A x \in P : x \in Nat /\ x < p
  BY <1>1, PastFacts
<1>3. \A x \in P : n[x].pic # n[p].pic
  BY <1>1, <1>2, FirstSlice
<1>4. \A x \in R : x <= p
  BY <1>1, <1>2
<1>5. \A r \in Pics(k) : IsNew(r, s, p) => PictureInv(n, R, r)
  <2>1. SUFFICES ASSUME NEW r, IsNew(r, s, p) PROVE PictureInv(n, R, r)
    OBVIOUS
  <2>2. r.nals = {p} /\ r.poc = n[p].poc /\ ~r.longTerm /\ ~r.output /\ r.current
    BY <2>1 DEF IsNew
  <2>3. {p} = {m \in R : n[m].pic = n[p].pic}
    BY <1>3
  <2>4. \A m \in R : ~(p < m)
    BY <1>1, <1>2, <1>4
  <2> HIDE DEF P
  <2> QED
    BY <1>4, <2>2, <2>3, <2>4 DEF PictureInv
<1>6. ASSUME NEW r, NEW q \in Pics(l), Marked(r, q, s) PROVE PictureInv(n, R, r)
  <2>1. PictureInv(n, P, q)
    BY DEF ListInv
  <2>2. ~Restarts(n[p])
    BY DEF Pics
  <2>3. r.nals = q.nals /\ r.poc = q.poc /\ ~r.longTerm /\ r.output = q.output /\ ~r.current
    BY <1>6 DEF Marked
  <2>4. \A x \in q.nals : x \in P /\ x < p
    BY <1>2, <2>1 DEF PictureInv
  <2>5. \A x \in q.nals : q.nals = {m \in R : n[m].pic = n[x].pic}
    <3>1. \A x \in q.nals : q.nals = {m \in P : n[m].pic = n[x].pic}
      BY <2>1 DEF PictureInv
    <3>2. \A x \in q.nals : n[x].pic # n[p].pic
      BY <1>3, <2>4
    <3> HIDE DEF P
    <3> QED
      BY <3>1, <3>2
  <2>6. ~\E m \in q.nals : \A x \in R : x <= m
    <3>1. \A m \in q.nals : ~(p <= m)
      BY <1>1, <1>2, <2>4
    <3> QED
      BY <3>1
  <2> HIDE DEF P
  <2> QED
    BY <2>1, <2>2, <2>3, <2>4, <2>5, <2>6 DEF PictureInv
<1>7. ReferencesHeld(n, R, k)
  <2>1. SUFFICES ASSUME NEW j \in R, n[j].first,
                        \A i \in R : n[i].first /\ j < i => Keeps(n[i], n[j].poc)
                 PROVE  \E r \in Pics(k) : j \in r.nals /\ r.referenced
    BY DEF ReferencesHeld
  <2>2. CASE j = p
    BY <2>2 DEF IsNew
  <2>3. CASE j \in P
    <3>1. Keeps(n[p], n[j].poc)
      BY <1>2, <2>1, <2>3
    <3>2. ~Restarts(n[p]) /\ l # <<>>
      BY <2>3, <3>1 DEF Keeps, Restarts
    <3>3. PICK q \in Pics(l) : j \in q.nals /\ q.referenced
      BY <2>1, <2>3, <3>2 DEF ListInv, ReferencesHeld
    <3>4. q.recon
      BY <3>3 DEF Reconstructed
    <3>5. PICK r \in Pics(k) : Marked(r, q, s)
      BY <3>3, <3>4 DEF IsReusable
    <3>6. q.poc = n[j].poc
      BY <3>3 DEF ListInv, PictureInv
    <3>7. \E e \in DOMAIN s.st : q.poc = s.poc + s.st[e].delta
      BY <3>1, <3>2, <3>6 DEF Keeps
    <3> QED
      BY <3>3, <3>5, <3>7 DEF Marked
  <2> QED
    BY <2>2, <2>3
<1>8. ASSUME NEW e, ~e.firstSliceInPicture, ~e.firstSliceInSequence PROVE Reconstructed(k, e)
  <2>1. \A r \in Pics(k) : IsNew(r, s, p) => r.current
    BY DEF IsNew
  <2>2. ASSUME NEW r, NEW q \in Pics(l), Marked(r, q, s), r.referenced PROVE r.recon
    BY <2>2 DEF Marked, Reconstructed
  <2> QED
    BY <1>8, <2>1, <2>2 DEF Reconstructed
<1> HIDE DEF P, R
<1> QED
  BY <1>2, <1>5, <1>6, <1>7, <1>8 DEF ListInv, Pics

-----------------------------------------------------------------------------
(* A further slice of a picture.                                           *)

(* A further slice of a picture keeps the invariant of the list.           *)
LEMMA FurtherSliceInv ==
  ASSUME NEW n, Conforming(n, settings), NEW p \in Decoded(n), ~n[p].first,
         NEW l \in Seq(Pictures), l # <<>>, ListInv(n, Past(n, p), l), NEW d, Reconstructed(l, d),
         NEW k \in Seq(Pictures),
         \A r \in Pics(k) : \E q \in Pics(l) : Added(r, q, p),
         \A q \in Pics(l) : \E r \in Pics(k) : Added(r, q, p)
  PROVE  /\ ListInv(n, Past(n, p + 1), k) /\ k # <<>>
         /\ \A e : ~e.firstSliceInPicture /\ ~e.firstSliceInSequence => Reconstructed(k, e)
<1> DEFINE P == Past(n, p)
           R == P \cup {p}
<1>1. p \in SlicesIn(n) /\ p \in Nat /\ p \in Decodable(n, settings.maxTemporalLayer)
  BY ConformingNALs DEF Decoded, Decodable
<1>2. /\ P \subseteq SlicesIn(n) /\ Past(n, p + 1) = R /\ p \notin P
      /\ \A x \in P : x \in Nat /\ x < p /\ ~(p < x) /\ ~(p <= x) /\ x <= p
  BY <1>1, PastFacts
<1>3. \E f \in P : n[f].pic = n[p].pic
  <2>1. PICK f \in SlicesIn(n) : f <= p /\ n[f].pic = n[p].pic /\ n[f].first
    BY <1>1, FirstSlice
  <2>2. f < p /\ f \in Nat
    <3>1. f \in Nat /\ f # p
      BY <2>1, ConformingNALs
    <3> QED
      BY <1>1, <2>1, <3>1
  <2>3. f \in Decodable(n, settings.maxTemporalLayer)
    BY <1>1, <2>1, PicturesAreDecodable
  <2> QED
    BY <2>1, <2>2, <2>3 DEF Past, Decoded
<1>4. PICK f \in P : n[f].pic = n[p].pic
  BY <1>3
<1>5. \A m \in P : (\A x \in P : x <= m) => n[m].pic = n[p].pic
  <2>1. SUFFICES ASSUME NEW m \in P, f <= m PROVE n[m].pic = n[p].pic
    OBVIOUS
  <2> QED
    BY <1>1, <1>2, <1>4, <2>1, SlicesAgree
<1>6. ASSUME NEW q \in Pics(l), NEW r, Added(r, q, p) PROVE PictureInv(n, R, r)
  <2>1. PictureInv(n, P, q)
    BY DEF ListInv
  <2>2. /\ r.poc = q.poc /\ r.longTerm = q.longTerm /\ r.output = q.output /\ r.current = q.current
        /\ r.nals = IF q.current THEN q.nals \cup {p} ELSE q.nals
    BY <1>6 DEF Added
  <2>3. \A x \in q.nals : x \in P /\ n[x].poc = q.poc
    BY <2>1 DEF PictureInv
  <2>4. \A x \in q.nals : q.nals = {m \in P : n[m].pic = n[x].pic}
    BY <2>1 DEF PictureInv
  <2>5. CASE q.current
    <3>1. PICK m \in q.nals : \A x \in P : x <= m
      BY <2>1, <2>5 DEF PictureInv
    <3>2. n[m].pic = n[p].pic
      BY <1>5, <2>3, <3>1
    <3>3. \A x \in q.nals : n[x].pic = n[p].pic
      BY <2>4, <3>1, <3>2
    <3>4. r.nals = q.nals \cup {p}
      BY <2>2, <2>5
    <3>5. q.nals = {x \in P : n[x].pic = n[p].pic}
      BY <2>4, <3>1, <3>2
    <3>6. n[p].poc = q.poc
      BY <1>1, <1>2, <2>3, <3>1, <3>2, SlicesAgree
    <3>7. ~q.output
      <4>1. p \in SlicesOfPicture(n, m)
        BY <1>1, <3>2 DEF SlicesOfPicture
      <4> QED
        BY <1>2, <2>1, <2>3, <3>1, <4>1 DEF PictureInv
    <3>8. \A x \in q.nals : \A y \in P : x < y /\ Restarts(n[y]) => n[y].pic = n[x].pic
      BY <2>1 DEF PictureInv
    <3>9. ~q.longTerm
      BY <2>1 DEF PictureInv
    <3>10. r.nals # {} /\ r.nals \subseteq R /\ ~r.longTerm /\ ~r.output
      BY <2>2, <2>3, <3>4, <3>7, <3>9
    <3>11. \A x \in r.nals : r.poc = n[x].poc /\ n[x].pic = n[p].pic
      BY <2>2, <2>3, <3>3, <3>4, <3>6
    <3>12. r.nals = {x \in R : n[x].pic = n[p].pic}
      BY <3>4, <3>5
    <3>13. \A x \in r.nals : r.nals = {y \in R : n[y].pic = n[x].pic}
      BY <3>11, <3>12
    <3>14. \A x \in r.nals : \A y \in R : x < y /\ Restarts(n[y]) => n[y].pic = n[x].pic
      <4>1. ~(p < p)
        BY <1>1
      <4> QED
        BY <1>2, <3>3, <3>4, <3>8, <4>1
    <3>15. r.current /\ p \in r.nals /\ \A x \in R : x <= p
      BY <1>1, <1>2, <2>2, <2>5, <3>4
    <3> HIDE DEF P, R
    <3> QED
      BY <3>10, <3>11, <3>13, <3>14, <3>15 DEF PictureInv
  <2>6. CASE ~q.current
    <3>1. ~\E m \in q.nals : \A x \in P : x <= m
      BY <2>1, <2>6 DEF PictureInv
    <3>2. \A x \in q.nals : n[x].pic # n[p].pic
      <4>1. Len(n) \in Nat /\ P \in SUBSET (1..Len(n)) /\ P # {}
        BY <1>2, <1>3, ConformingNALs
      <4> HIDE DEF P
      <4>2. PICK m \in P : \A x \in P : x <= m
        BY <4>1, Extremes
      <4>3. n[m].pic = n[p].pic /\ m \notin q.nals
        BY <1>5, <3>1, <4>2
      <4> QED
        BY <2>4, <4>3
    <3>3. r.nals = q.nals
      BY <2>2, <2>6
    <3>4. \A x \in q.nals : q.nals = {y \in R : n[y].pic = n[x].pic}
      <4> HIDE DEF P
      <4> QED
        BY <2>4, <3>2
    <3>5. \A x \in q.nals : Restarts(n[p]) => n[p].pic = n[x].pic
      <4>1. n[f].type = n[p].type /\ \A x \in P : x < f \/ f <= x
        BY <1>1, <1>2, <1>4, SlicesAgree
      <4>2. SUFFICES ASSUME NEW x \in q.nals, Restarts(n[p]) PROVE n[p].pic = n[x].pic
        OBVIOUS
      <4>3. x < f => n[f].pic = n[x].pic
        BY <2>1, <4>1, <4>2 DEF PictureInv, Restarts
      <4>4. f <= x => n[x].pic = n[p].pic
        BY <1>1, <1>2, <1>4, <2>3, <4>2, SlicesAgree
      <4> QED
        BY <1>4, <2>3, <4>1, <4>2, <4>3, <4>4
    <3>6. ~\E m \in q.nals : \A x \in R : x <= m
      BY <1>2, <2>3
    <3>7. q.nals # {} /\ q.nals \subseteq R /\ ~q.longTerm
      BY <2>1 DEF PictureInv
    <3>8. \A x \in q.nals : /\ q.poc = n[x].poc
                            /\ \A m \in P : x < m /\ Restarts(n[m]) => n[m].pic = n[x].pic
                            /\ q.output => q.nals = SlicesOfPicture(n, x)
      BY <2>1 DEF PictureInv
    <3>9. \A x \in q.nals : \A m \in R : x < m /\ Restarts(n[m]) => n[m].pic = n[x].pic
      <4> HIDE DEF P
      <4> QED
        BY <3>5, <3>8
    <3> HIDE DEF P, R
    <3> QED
      BY <2>2, <2>6, <3>3, <3>4, <3>6, <3>7, <3>8, <3>9 DEF PictureInv
  <2>7. q.current \/ ~q.current
    OBVIOUS
  <2> QED
    BY <2>5, <2>6, <2>7
<1>7. l # <<>> /\ k # <<>>
  BY PicturesIn
<1>8. ReferencesHeld(n, R, k)
  <2>1. SUFFICES ASSUME NEW j \in R, n[j].first,
                        \A i \in R : n[i].first /\ j < i => Keeps(n[i], n[j].poc)
                 PROVE  \E r \in Pics(k) : j \in r.nals /\ r.referenced
    BY DEF ReferencesHeld
  <2>2. j \in P
    BY <2>1
  <2>3. PICK q \in Pics(l) : j \in q.nals /\ q.referenced
    BY <1>7, <2>1, <2>2 DEF ListInv, ReferencesHeld
  <2> QED
    BY <2>3 DEF Added
<1>9. ASSUME NEW e, ~e.firstSliceInPicture, ~e.firstSliceInSequence PROVE Reconstructed(k, e)
  <2>1. SUFFICES ASSUME NEW r \in Pics(k), r.referenced PROVE r.recon \/ r.current
    BY <1>9 DEF Reconstructed
  <2>2. PICK q \in Pics(l) : Added(r, q, p)
    OBVIOUS
  <2>3. r.referenced = q.referenced /\ r.recon = q.recon /\ r.current = q.current
    BY <2>2 DEF Added
  <2>4. q.recon \/ q.current
    BY <2>1, <2>2, <2>3 DEF Reconstructed
  <2> QED
    BY <2>3, <2>4
<1> HIDE DEF P, R
<1> QED
  BY <1>2, <1>6, <1>7, <1>8, <1>9 DEF ListInv

-----------------------------------------------------------------------------
(* References                                                              *)

(* The first slice j of the picture that an entry with this POC stands for.*)
StandsFor(n, p, j, poc) ==
  /\ j \in Past(n, p) /\ n[j].first /\ n[j].cvs = n[p].cvs /\ n[j].poc = poc
  /\ \A i \in Decoded(n) : n[i].first /\ j < i /\ i <= p => Keeps(n[i], poc)
  /\ \A x \in SlicesIn(n) : n[x].pic = n[j].pic => x \in Past(n, p)

(* An entry that is used stands for a picture that was decoded and kept    *)
(* since.                                                                  *)
LEMMA EntryStandsFor ==
  ASSUME NEW n, Conforming(n, settings), NEW p \in Decoded(n), ~Restarts(n[p]),
         NEW e \in DOMAIN n[p].st, n[p].st[e].used
  PROVE  \E j \in SlicesIn(n) : StandsFor(n, p, j, n[p].poc + n[p].st[e].delta)
<1> DEFINE poc == n[p].poc + n[p].st[e].delta
           first == {k \in Decodable(n, settings.maxTemporalLayer) : n[k].first}
<1>1. p \in SlicesIn(n) /\ p \in Nat /\ p \in Decodable(n, settings.maxTemporalLayer)
      /\ \A x \in SlicesIn(n) : x \in Nat
  BY ConformingNALs DEF Decoded, Decodable
<1>2. PICK f \in SlicesIn(n) : f <= p /\ n[f].pic = n[p].pic /\ n[f].first
  BY <1>1, FirstSlice
<1>3. f \in first /\ f \in Nat
  BY <1>1, <1>2, PicturesAreDecodable
<1>4. /\ n[f].type = n[p].type /\ n[f].st = n[p].st /\ n[f].poc = n[p].poc /\ n[f].cvs = n[p].cvs
  BY <1>1, <1>2, SlicesAgree
<1>5. n[f].type \notin {"IDR", "BLA"} /\ e \in DOMAIN n[f].st /\ n[f].st[e].used
  BY <1>4 DEF Restarts
<1>6. \E j \in first :
        /\ j < f /\ n[j].cvs = n[f].cvs
        /\ n[j].poc = n[f].poc + n[f].st[e].delta
        /\ \A i \in first : j < i /\ i <= f => Keeps(n[i], n[j].poc)
  BY <1>3, <1>5 DEF Conforming, ReferencesKept
<1>7. PICK j \in first :
        /\ j < f /\ n[j].cvs = n[f].cvs
        /\ n[j].poc = n[f].poc + n[f].st[e].delta
        /\ \A i \in first : j < i /\ i <= f => Keeps(n[i], n[j].poc)
  BY <1>6
<1>8. j \in SlicesIn(n) /\ j \in Nat /\ j < p /\ j \in Past(n, p) /\ n[j].first
  <2>1. j \in SlicesIn(n) /\ j \in Decoded(n) /\ n[j].first
    BY DEF Decoded, Decodable
  <2>2. j \in Nat /\ f \in Nat /\ p \in Nat /\ j < f /\ f <= p
    BY <1>1, <1>2, <1>3, <1>7, <2>1
  <2>3. j < p
    BY <2>2
  <2> QED
    BY <2>1, <2>2, <2>3 DEF Past
<1>9. n[j].poc = poc /\ n[j].cvs = n[p].cvs
  BY <1>4, <1>7
<1>10. ASSUME NEW i \in Decoded(n), n[i].first, j < i, i <= p PROVE Keeps(n[i], poc)
  <2>1. i \in SlicesIn(n) /\ i \in Nat /\ i \in first
    BY <1>1, <1>10 DEF Decoded, Decodable
  <2>2. i <= f
    <3>1. SUFFICES ASSUME f < i PROVE FALSE
      BY <1>3, <2>1
    <3> QED
      BY <1>1, <1>2, <1>10, <2>1, <3>1, FirstSliceSeparates
  <2> HIDE DEF first
  <2> QED
    BY <1>7, <1>9, <1>10, <2>1, <2>2
<1>11. ASSUME NEW x \in SlicesIn(n), n[x].pic = n[j].pic PROVE x \in Past(n, p)
  <2>1. x \in Decoded(n) /\ x \in Nat
    BY <1>1, <1>8, <1>11, PicturesAreDecodable DEF Past, Decoded
  <2>2. x < f
    <3>1. SUFFICES ASSUME f <= x PROVE FALSE
      BY <1>3, <2>1
    <3> QED
      BY <1>2, <1>7, <1>8, <1>11, <3>1, FirstSliceSeparates
  <2>3. x < p
    BY <1>1, <1>2, <1>3, <2>1, <2>2
  <2> QED
    BY <2>1, <2>3 DEF Past
<1> QED
  BY <1>8, <1>9, <1>10, <1>11 DEF StandsFor

(* The picture an entry stands for is in the list.                         *)
LEMMA HeldForEntry ==
  ASSUME NEW n, Conforming(n, settings), NEW p \in Decoded(n), NEW m \in {p, p + 1}, NEW poc,
         NEW j, StandsFor(n, p, j, poc), NEW l, l # <<>>, ListInv(n, Past(n, m), l)
  PROVE  \E q \in Pics(l) : q.referenced /\ ~q.longTerm /\ q.poc = poc
<1>1. p \in SlicesIn(n) /\ p \in Nat
  BY ConformingNALs DEF Decoded, Decodable
<1>2. Past(n, m) = Past(n, p) \/ Past(n, m) = Past(n, p) \cup {p}
  BY <1>1, PastFacts
<1>3. \A i \in Past(n, m) : i \in Decoded(n) /\ i <= p
  <2>1. \A i \in Past(n, p) : i \in Decoded(n) /\ i <= p
    BY <1>1, PastFacts
  <2>2. p <= p
    BY <1>1
  <2> QED
    BY <1>2, <2>1, <2>2
<1>4. /\ j \in Past(n, m) /\ n[j].first /\ n[j].poc = poc
      /\ \A i \in Past(n, m) : n[i].first /\ j < i => Keeps(n[i], n[j].poc)
  BY <1>2, <1>3 DEF StandsFor
<1>5. PICK q \in Pics(l) : j \in q.nals /\ q.referenced
  BY <1>4 DEF ListInv, ReferencesHeld
<1>6. q.poc = n[j].poc /\ ~q.longTerm
  BY <1>5 DEF ListInv, PictureInv
<1> QED
  BY <1>4, <1>5, <1>6

(* No other picture of the list has its POC.                               *)
LEMMA RightForEntry ==
  ASSUME NEW n, Conforming(n, settings), NEW p \in Decoded(n), NEW m \in {p, p + 1}, NEW poc,
         NEW j, StandsFor(n, p, j, poc), NEW q, PictureInv(n, Past(n, m), q), q.poc = poc
  PROVE  q.nals = {x \in SlicesIn(n) : n[x].cvs = n[p].cvs /\ n[x].poc = poc}
<1>1. p \in SlicesIn(n) /\ p \in Nat /\ \A x \in SlicesIn(n) : x \in Nat
  BY ConformingNALs DEF Decoded, Decodable
<1>2. Past(n, m) = Past(n, p) \/ Past(n, m) = Past(n, p) \cup {p}
  BY <1>1, PastFacts
<1>3. \A x \in Past(n, m) : x \in SlicesIn(n) /\ x \in Decodable(n, settings.maxTemporalLayer) /\ x <= p
  <2>1. \A x \in Past(n, p) : x \in Decoded(n) /\ x <= p
    BY <1>1, PastFacts
  <2>2. p <= p
    BY <1>1
  <2> QED
    BY <1>2, <2>1, <2>2 DEF Decoded, Decodable
<1>4. /\ j \in Past(n, m) /\ j \in SlicesIn(n) /\ j \in Nat /\ j < p
      /\ n[j].first /\ n[j].poc = poc /\ n[j].cvs = n[p].cvs
  BY <1>1, <1>2, <1>3, PastFacts DEF StandsFor
<1>5. PICK k \in q.nals : k \in Past(n, m)
  BY DEF PictureInv
<1>6. /\ k \in SlicesIn(n) /\ k \in Nat /\ k <= p /\ n[k].poc = poc
      /\ q.nals = {x \in Past(n, m) : n[x].pic = n[k].pic}
      /\ \A x \in Past(n, m) : k < x /\ Restarts(n[x]) => n[x].pic = n[k].pic
  BY <1>1, <1>3, <1>5 DEF PictureInv
<1>7. \A a, b \in SlicesIn(n) :
        a < b /\ n[a].poc = n[b].poc /\ n[a].pic # n[b].pic =>
          /\ n[a].cvs # n[b].cvs
          /\ {a, b} \subseteq Decodable(n, settings.maxTemporalLayer) =>
               \E x \in SlicesIn(n) :
                 a < x /\ x <= b /\ n[x].type \in {"IDR", "BLA"} /\ n[x].pic # n[a].pic
  BY DEF Conforming, POCsUnique
<1>8. n[k].pic = n[j].pic
  <2>1. SUFFICES ASSUME n[k].pic # n[j].pic PROVE FALSE
    OBVIOUS
  <2>2. CASE j < k
    <3>1. PICK x \in SlicesIn(n) :
            j < x /\ x <= k /\ n[x].type \in {"IDR", "BLA"} /\ n[x].pic # n[j].pic
      BY <1>3, <1>4, <1>5, <1>6, <1>7, <2>1, <2>2
    <3>2. x \in Decodable(n, settings.maxTemporalLayer)
      BY <3>1, BeginsIsDecodable DEF IRAPTypes
    <3>3. PICK f \in SlicesIn(n) : f <= x /\ n[f].pic = n[x].pic /\ n[f].first
      BY FirstSlice
    <3>4. f \in Decoded(n) /\ n[f].type = n[x].type
      BY <3>2, <3>3, PicturesAreDecodable, SlicesAgree DEF Decoded
    <3>5. j < f
      <4>1. f \in Nat /\ x \in Nat /\ j \in Nat
        BY <1>1, <1>4
      <4>2. SUFFICES ASSUME f <= j PROVE FALSE
        BY <4>1
      <4>3. j <= x
        BY <3>1, <4>1
      <4>4. n[j].pic = n[f].pic
        BY <1>4, <3>1, <3>3, <4>2, <4>3, SlicesAgree
      <4> QED
        BY <3>1, <3>3, <4>4
    <3>6. f <= p
      <4>1. f \in Nat /\ x \in Nat /\ k \in Nat /\ p \in Nat
        BY <1>1, <1>6
      <4> QED
        BY <1>6, <3>1, <3>3, <4>1
    <3>7. Keeps(n[f], poc)
      BY <3>3, <3>4, <3>5, <3>6 DEF StandsFor
    <3> QED
      BY <3>1, <3>4, <3>7 DEF Keeps
  <2>3. CASE k < j
    <3>1. PICK x \in SlicesIn(n) :
            k < x /\ x <= j /\ n[x].type \in {"IDR", "BLA"} /\ n[x].pic # n[k].pic
      BY <1>3, <1>4, <1>5, <1>6, <1>7, <2>1, <2>3
    <3>2. x \in Decoded(n)
      BY <3>1, BeginsIsDecodable DEF IRAPTypes, Decoded
    <3>3. x \in Nat /\ x < p
      <4>1. x \in Nat /\ j \in Nat /\ p \in Nat
        BY <1>1, <1>4
      <4> QED
        BY <1>4, <3>1, <4>1
    <3>4. x \in Past(n, m)
      BY <1>2, <3>2, <3>3 DEF Past
    <3> QED
      BY <1>6, <3>1, <3>4 DEF Restarts
  <2>4. j < k \/ k < j \/ j = k
    BY <1>4, <1>6
  <2> QED
    BY <2>1, <2>2, <2>3, <2>4
<1>9. q.nals = {x \in SlicesIn(n) : n[x].pic = n[j].pic}
  BY <1>2, <1>3, <1>6, <1>8 DEF StandsFor
<1>10. ASSUME NEW x \in SlicesIn(n)
       PROVE  n[x].pic = n[j].pic <=> n[x].cvs = n[p].cvs /\ n[x].poc = poc
  <2>1. n[x].pic = n[j].pic => n[x].cvs = n[p].cvs /\ n[x].poc = poc
    BY <1>4, SlicesAgree
  <2>2. x \in Nat /\ j \in Nat
    BY <1>1, <1>4
  <2>3. x < j \/ j < x \/ x = j
    BY <2>2
  <2> QED
    BY <1>4, <1>7, <2>1, <2>3
<1> QED
  BY <1>9, <1>10

-----------------------------------------------------------------------------
(* A slice finds its references.                                           *)

(* The pictures a slice uses are in the list, and are those meant.         *)
LEMMA ReferencesThere ==
  ASSUME NEW n, Conforming(n, settings), NEW p \in Decoded(n), NEW m \in {p, p + 1},
         NEW l \in Seq(Pictures), ListInv(n, Past(n, m), l),
         l = <<>> /\ Past(n, p) # {} => Restarts(n[p]),
         NEW s, s.poc = n[p].poc, s.st = IF Restarts(n[p]) THEN <<>> ELSE n[p].st
  PROVE  /\ Available(l, s)
         /\ \A e \in UsedShortTerm(s) :
              LET i == RefPicIndex(l, RefPOC(s, s.st[e]))
              IN  /\ i \in DOMAIN l
                  /\ e \in DOMAIN n[p].st
                  /\ l[i].nals = {x \in SlicesIn(n) : /\ n[x].cvs = n[p].cvs
                                                      /\ n[x].poc = n[p].poc + n[p].st[e].delta}
<1>1. ASSUME NEW e \in DOMAIN s.st, s.st[e].used
      PROVE  /\ \E q \in Pics(l) : q.referenced /\ ~q.longTerm /\ q.poc = s.poc + s.st[e].delta
             /\ LET i == RefPicIndex(l, RefPOC(s, s.st[e]))
                IN  /\ i \in DOMAIN l
                    /\ e \in DOMAIN n[p].st
                    /\ l[i].nals = {x \in SlicesIn(n) : /\ n[x].cvs = n[p].cvs
                                                        /\ n[x].poc = n[p].poc + n[p].st[e].delta}
  <2> DEFINE poc == n[p].poc + n[p].st[e].delta
  <2>1. ~Restarts(n[p]) /\ s.st = n[p].st
    BY <1>1, EmptySeq
  <2>2. e \in DOMAIN n[p].st /\ n[p].st[e].used /\ poc = s.poc + s.st[e].delta
    BY <1>1, <2>1
  <2> HIDE DEF poc
  <2>3. PICK j \in SlicesIn(n) : StandsFor(n, p, j, poc)
    BY <2>1, <2>2, EntryStandsFor DEF poc
  <2>4. l # <<>>
    BY <2>1, <2>3 DEF StandsFor
  <2>5. \E q \in Pics(l) : q.referenced /\ ~q.longTerm /\ q.poc = poc
    BY <2>3, <2>4, HeldForEntry
  <2> DEFINE i == RefPicIndex(l, poc)
  <2>6. i \in DOMAIN l /\ l[i].poc = poc
    BY <2>5, RefPicIndexFacts
  <2>7. RefPOC(s, s.st[e]) = poc
    BY <2>2 DEF RefPOC
  <2> HIDE DEF i
  <2>8. l[i] \in Pics(l)
    BY <2>6 DEF Pics
  <2> DEFINE q == l[i]
  <2>9. PictureInv(n, Past(n, m), q) /\ q.poc = poc
    BY <2>6, <2>8 DEF ListInv
  <2> HIDE DEF q
  <2>10. q.nals = {x \in SlicesIn(n) : n[x].cvs = n[p].cvs /\ n[x].poc = poc}
    BY <2>3, <2>9, RightForEntry
  <2> QED
    BY <2>2, <2>5, <2>6, <2>7, <2>10 DEF i, q, poc
<1> QED
  BY <1>1 DEF Available, UsedShortTerm

-----------------------------------------------------------------------------
(* The inductive invariant.                                                *)

(* Until a slice is decoded there is no picture.  After that, the decoder  *)
(* waits for a picture only when it has found one; it deletes all others   *)
(* before an IDR or BLA picture, and then only.                            *)
StartInv(n, p, l, d, a) ==
  /\ Past(n, p) = {} => l = <<>> /\ d.firstSliceInPicture /\ ~a.listKnown
  /\ p <= Len(n) /\ Past(n, p) # {} =>
       /\ d.firstSliceInPicture => p \in Decoded(n) /\ n[p].first /\ (Restarts(n[p]) => l = <<>>)
       /\ l = <<>> => p \in Decoded(n) /\ Restarts(n[p]) /\ d.firstSliceInPicture
       /\ l # <<>> /\ (d.firstSliceInPicture \/ d.firstSliceInSequence) => a.listKnown

DecoderInv(n, p, l, d, a, w) ==
  /\ p \in Nat \ {0} /\ l \in Seq(Pictures) /\ d \in Decs /\ a \in Apps /\ w \in Seq(WrittenPictures)
  /\ ListInv(n, Past(n, p), l) /\ WrittenWhole(n, w) /\ StartInv(n, p, l, d, a)
  /\ p <= Len(n) => Reconstructed(l, d) /\ Registers(n, p, d)

Now == DecoderInv(stream, pos, dpb, dec, app, written)
Then == DecoderInv(stream, pos', dpb', dec', app', written')

Given == ValidSettings(settings) /\ Conforming(stream, settings)

(* Before the first slice decoded there is no slice at all.                *)
LEMMA NothingYet ==
  ASSUME NEW n, Conforming(n, settings), NEW p \in Nat, Past(n, p) = {}
  PROVE  (\A k \in SlicesIn(n) : ~(k < p)) /\ NoneSince(n, p)
<1>1. \A k \in Decodable(n, settings.maxTemporalLayer) : ~(k < p)
  BY DEF Past, Decoded
<1>2. \A k \in SlicesIn(n) : ~(k < p)
  BY <1>1, NothingBefore
<1> QED
  BY <1>2 DEF NoneSince

(* After a NAL unit that is not decoded the decoder waits for a picture    *)
(* only before the first one.                                              *)
StillWaits == dec'.firstSliceInPicture /\ pos' <= Len(stream) => dpb' = <<>>

(* A NAL unit that is not decoded adds nothing to the list.                *)
LEMMA PassedInv ==
  ASSUME Given, Now, pos <= Len(stream), pos \notin Decoded(stream),
         NEW d \in Decs, d.firstSliceInPicture = dec.firstSliceInPicture,
         d.firstSliceInSequence = dec.firstSliceInSequence,
         Loop(FALSE, AtEnd, dpb, d, app), pos' = pos + 1, Registers(stream, pos + 1, dec')
  PROVE  Then /\ StillWaits
<1> DEFINE n == stream
           P == Past(n, pos)
<1>1. /\ Conforming(n, settings) /\ pos \in Nat \ {0} /\ dpb \in Seq(Pictures) /\ app \in Apps
      /\ written \in Seq(WrittenPictures) /\ ListInv(n, P, dpb) /\ WrittenWhole(n, written)
      /\ Reconstructed(dpb, dec) /\ Registers(n, pos, dec) /\ StartInv(n, pos, dpb, dec, app)
      /\ Len(n) \in Nat
  BY ConformingNALs DEF Now, DecoderInv, Given
<1>2. Past(n, pos + 1) = P /\ P \in SUBSET SlicesIn(n)
  BY <1>1, PastFacts
<1>3. AtEnd \/ nal.type = "EOS" => Whole(n, P)
  <2>1. AtEnd => pos + 1 > Len(n)
    BY <1>1 DEF AtEnd
  <2>2. nal.type = "EOS" => pos + 1 > 1 /\ n[pos + 1 - 1].type = "EOS"
    BY <1>1 DEF nal
  <2>3. pos + 1 \in Nat
    BY <1>1
  <2> QED
    BY <1>1, <1>2, <2>1, <2>2, <2>3, PastIsWhole
<1>4. FALSE \in BOOLEAN /\ AtEnd \in BOOLEAN
  BY DEF AtEnd
<1> HIDE DEF P, n
<1>5. /\ dpb' \in Seq(Pictures) /\ dec' \in Decs /\ app' \in Apps
      /\ written' \in Seq(WrittenPictures)
      /\ app'.listKnown <=> app.listKnown \/ Completes(FALSE, AtEnd, d, app)
      /\ dec'.firstSliceInSequence <=> d.firstSliceInSequence \/ nal.type = "EOS"
      /\ dec'.firstSliceInPicture <=>
              /\ ~(nal.type = "EOS" /\ app'.listKnown)
              /\ \/ d.firstSliceInPicture
                 \/ /\ FALSE \/ AtEnd \/ nal.type = "EOS"
                    /\ d.firstSliceInSequence \/ ~(app.loopFiltered /\ AtEnd)
  BY <1>1, <1>4, LoopFacts
<1>6. /\ ListInv(n, P, dpb') /\ WrittenWhole(n, written')
      /\ dpb' = <<>> <=> dpb = <<>>
      /\ ~AtEnd /\ Reconstructed(dpb, d) => Reconstructed(dpb', dec')
  BY ZenonT(40), <1>1, <1>2, <1>3, <1>4, LoopInv
<1>7. Reconstructed(dpb, d)
  <2>1. \A q \in Pics(dpb) : q.referenced =>
          q.recon \/ (q.current /\ ~dec.firstSliceInPicture /\ ~dec.firstSliceInSequence)
    BY <1>1 DEF Reconstructed
  <2> QED
    BY <2>1 DEF Reconstructed
<1>8. pos' \in Nat \ {0} /\ (pos' <= Len(n) => ~AtEnd)
  BY <1>1 DEF AtEnd, n
<1>9. StartInv(n, pos', dpb', dec', app') /\ StillWaits
  <2>1. CASE P = {}
    <3>1. dpb = <<>> /\ dec.firstSliceInPicture /\ ~app.listKnown
      BY <1>1, <2>1 DEF StartInv, P
    <3>2. dec.firstSliceInSequence
      BY <1>1, <2>1, NothingYet DEF Registers, P
    <3>3. ~app'.listKnown /\ dec'.firstSliceInPicture
      BY <1>5, <3>1, <3>2 DEF Completes
    <3> QED
      BY <1>2, <1>6, <2>1, <3>1, <3>3 DEF StartInv, StillWaits
  <2>2. CASE P # {}
    <3>1. SUFFICES ASSUME pos' <= Len(n)
                   PROVE  /\ ~dec'.firstSliceInPicture /\ dpb' # <<>>
                          /\ dec'.firstSliceInSequence => app'.listKnown
      BY <1>2, <2>2 DEF StartInv, StillWaits, n
    <3>2. ~dec.firstSliceInPicture /\ dpb # <<>> /\ (dec.firstSliceInSequence => app.listKnown)
      BY <1>1, <2>2 DEF StartInv, P, n
    <3>3. ~AtEnd
      BY <1>8, <3>1
    <3>4. nal.type = "EOS" => app'.listKnown
      BY <1>5, <3>2, <3>3 DEF Completes
    <3> QED
      BY <1>5, <1>6, <3>2, <3>3, <3>4
  <2> QED
    BY <2>1, <2>2
<1> QED
  BY <1>2, <1>5, <1>6, <1>7, <1>8, <1>9 DEF Then, DecoderInv, n, P

(* The turn of the main loop for a NAL unit that is not decoded.           *)
Passes ==
  /\ pos <= Len(stream) /\ pos \notin Decoded(stream) /\ pos' = pos + 1 /\ StillWaits
  /\ \E d \in Decs : /\ d.firstSliceInPicture = dec.firstSliceInPicture
                     /\ d.firstSliceInSequence = dec.firstSliceInSequence
                     /\ Loop(FALSE, AtEnd, dpb, d, app)

(* A NAL unit that decode() ignores keeps the invariant.                   *)
LEMMA IgnoreNalInv ==
  ASSUME Given, Now, IgnoreNal PROVE Then /\ Passes
<1>1. /\ Conforming(stream, settings) /\ ValidSettings(settings) /\ pos \in Nat \ {0} /\ pos <= Len(stream)
      /\ dpb \in Seq(Pictures) /\ app \in Apps /\ dec \in Decs /\ written \in Seq(WrittenPictures)
      /\ Registers(stream, pos, dec)
      /\ Loop(FALSE, AtEnd, dpb, dec, app) /\ pos' = pos + 1
      /\ Ignored \/ nal.type = "OTHER"
  BY DEF Given, Now, DecoderInv, IgnoreNal, Reading
<1>2. pos \in DOMAIN stream
  BY <1>1, ConformingNALs
<1>3. settings.maxTemporalLayer \in Int
  BY <1>1 DEF ValidSettings
<1>4. pos \in SlicesIn(stream) =>
        /\ settings.maxTemporalLayer >= 0 /\ ~(nal.tid <= settings.maxTemporalLayer) /\ nal.tid # 0
  <2>1. SUFFICES ASSUME pos \in SlicesIn(stream)
                 PROVE  /\ settings.maxTemporalLayer >= 0
                        /\ ~(nal.tid <= settings.maxTemporalLayer) /\ nal.tid # 0
    OBVIOUS
  <2>2. nal.tid \in Nat
    BY <1>1, <2>1, ConformingNALs DEF nal, SliceNALs
  <2>3. nal.type # "OTHER"
    BY <2>1 DEF nal, SlicesIn, SliceTypes, LeadingTypes, IRAPTypes
  <2> QED
    BY <1>1, <1>3, <2>2, <2>3 DEF Ignored, MaxTemporalLayer
<1>5. nal.type # "EOS"
  <2>1. CASE pos \in SlicesIn(stream)
    BY <1>1, <2>1, ConformingNALs DEF nal
  <2>2. CASE pos \notin SlicesIn(stream)
    <3>1. nal.tid = 0
      BY <1>1, <1>2, <2>2, ConformingNALs DEF nal
    <3> QED
      BY <1>1, <1>3, <3>1 DEF Ignored, MaxTemporalLayer
  <2> QED
    BY <2>1, <2>2
<1>6. pos \notin Decoded(stream)
  BY <1>4 DEF Decoded, Decodable, nal
<1>7. FALSE \in BOOLEAN /\ AtEnd \in BOOLEAN
  BY DEF AtEnd
<1>8. /\ SameRegisters(dec', dec)
      /\ dec'.firstSliceInSequence <=> dec.firstSliceInSequence
      /\ dec.firstSliceInPicture => dec'.firstSliceInPicture
  BY <1>1, <1>5, <1>7, LoopFacts
<1>9. Registers(stream, pos + 1, dec')
  BY <1>1, <1>4, <1>5, <1>8, RegistersIgnored DEF nal
<1>10. Then /\ StillWaits
  BY <1>1, <1>6, <1>9, PassedInv
<1> QED
  BY <1>1, <1>6, <1>10 DEF Passes

(* An end of sequence keeps the invariant.                                 *)
LEMMA EndOfSequenceInv ==
  ASSUME Given, Now, EndOfSequence PROVE Then /\ Passes
<1> DEFINE d == [dec EXCEPT !.associatedIRAPType = "INVALID", !.pocCRA = 0, !.pocRandomAccess = MAX_INT,
                            !.prevPOC = MAX_INT, !.prevSliceSkipped = FALSE, !.skippedPOC = 0]
<1>1. /\ Conforming(stream, settings) /\ pos \in Nat \ {0} /\ pos <= Len(stream)
      /\ dpb \in Seq(Pictures) /\ app \in Apps /\ dec \in Decs /\ written \in Seq(WrittenPictures)
      /\ Loop(FALSE, AtEnd, dpb, d, app) /\ pos' = pos + 1
      /\ nal.type = "EOS"
  BY DEF Given, Now, DecoderInv, EndOfSequence, Reading
<1>2. /\ d \in Decs
      /\ d.firstSliceInPicture = dec.firstSliceInPicture
      /\ d.firstSliceInSequence = dec.firstSliceInSequence
      /\ d.pocRandomAccess = MAX_INT /\ d.prevPOC = MAX_INT /\ d.associatedIRAPType = "INVALID"
  <2> DEFINE a == "INVALID"
             z == 0
             e == [dec EXCEPT !.associatedIRAPType = a, !.pocCRA = z, !.pocRandomAccess = MAX_INT]
  <2>1. MAX_INT \in Int /\ z \in Int /\ a \in IRAPTypes \cup {"INVALID"} /\ dec \in Decs
    BY <1>1 DEF MAX_INT
  <2>2. d = [e EXCEPT !.prevPOC = MAX_INT, !.prevSliceSkipped = FALSE, !.skippedPOC = z]
    OBVIOUS
  <2> HIDE DEF a, z, d
  <2>3. e \in Decs
    BY <2>1 DEF Decs
  <2>4. /\ e.firstSliceInPicture = dec.firstSliceInPicture
        /\ e.firstSliceInSequence = dec.firstSliceInSequence
        /\ e.pocRandomAccess = MAX_INT /\ e.associatedIRAPType = a
    BY <2>1 DEF Decs
  <2> HIDE DEF e
  <2>5. d \in Decs
    BY <2>1, <2>2, <2>3 DEF Decs
  <2>6. /\ d.firstSliceInPicture = e.firstSliceInPicture
        /\ d.firstSliceInSequence = e.firstSliceInSequence
        /\ d.pocRandomAccess = e.pocRandomAccess /\ d.prevPOC = MAX_INT
        /\ d.associatedIRAPType = e.associatedIRAPType
    BY <2>2, <2>3 DEF Decs
  <2> QED
    BY <2>4, <2>5, <2>6 DEF a
<1> HIDE DEF d
<1>3. FALSE \in BOOLEAN /\ AtEnd \in BOOLEAN
  BY DEF AtEnd
<1>4. SameRegisters(dec', d) /\ dec'.firstSliceInSequence
  BY <1>1, <1>2, <1>3, LoopFacts
<1>5. pos \notin Decoded(stream)
  BY <1>1, ConformingNALs DEF Decoded, Decodable, nal
<1>6. Registers(stream, pos + 1, dec')
  <2>1. dec'.pocRandomAccess = MAX_INT /\ dec'.prevPOC = MAX_INT /\ dec'.associatedIRAPType = "INVALID"
    BY <1>2, <1>4 DEF SameRegisters
  <2> QED
    BY <1>1, <1>4, <2>1, RegistersAfterEOS DEF nal
<1>7. Then /\ StillWaits
  BY <1>1, <1>2, <1>5, <1>6, PassedInv
<1> QED
  BY <1>1, <1>2, <1>5, <1>7 DEF Passes

(* A slice that is read.                                                   *)
LEMMA ReadingSlice ==
  ASSUME Given, Now, ReadsSlice
  PROVE  /\ AtSlice(stream, pos, dec) /\ nal = stream[pos]
         /\ pos <= Len(stream) /\ nal.type # "EOS" /\ nal \in SliceNALs
         /\ Header \in Decs
         /\ HeaderSlice(nal, dec, Header) \in HeaderSlices
<1>1. /\ Conforming(stream, settings) /\ ValidSettings(settings) /\ pos \in Nat \ {0} /\ pos <= Len(stream)
      /\ dec \in Decs /\ Registers(stream, pos, dec) /\ StartInv(stream, pos, dpb, dec, app)
      /\ nal.type \in SliceTypes /\ ~Ignored /\ nal = stream[pos]
  BY DEF Given, Now, DecoderInv, ReadsSlice, Reading, nal
<1>2. pos \in SlicesIn(stream)
  BY <1>1, ConformingNALs DEF SlicesIn
<1>3. nal \in SliceNALs /\ nal.type # "EOS"
  BY <1>1, <1>2, ConformingNALs
<1>4. settings.maxTemporalLayer >= 0 => nal.tid <= settings.maxTemporalLayer
  <2>1. nal.tid \in Nat /\ settings.maxTemporalLayer \in Int
    BY <1>1, <1>3 DEF SliceNALs, ValidSettings
  <2> QED
    BY <1>1, <2>1 DEF Ignored, MaxTemporalLayer
<1>5. dec.firstSliceInPicture => nal.first
  <2>1. CASE Past(stream, pos) = {}
    BY <1>1, <1>2, <2>1, NothingYet, FirstSlice
  <2>2. CASE Past(stream, pos) # {}
    BY <1>1, <2>2 DEF StartInv
  <2> QED
    BY <2>1, <2>2
<1>6. AtSlice(stream, pos, dec)
  <2>1. /\ settings.maxTemporalLayer >= 0 => stream[pos].tid <= settings.maxTemporalLayer
        /\ dec.firstSliceInPicture => stream[pos].first
    BY <1>1, <1>4, <1>5
  <2>2. ValidSettings(settings) /\ Conforming(stream, settings) /\ dec \in Decs /\ Registers(stream, pos, dec)
    BY <1>1
  <2> QED
    BY <1>2, <2>1, <2>2 DEF AtSlice
<1>7. HeaderDec(stream[pos], dec) \in Decs
  BY <1>6, HeaderDecFacts
<1>8. HeaderSlice(stream[pos], dec, HeaderDec(stream[pos], dec)) \in HeaderSlices
  BY <1>6, HeaderSliceFacts
<1>9. Header = HeaderDec(stream[pos], dec)
  BY <1>1 DEF Header
<1> QED
  BY <1>1, <1>3, <1>6, <1>7, <1>8, <1>9

Pilots == [poc : Int, st : Seq(Entries), lt : {<<>>}, out : BOOLEAN]

(* The decoder after a slice header.                                       *)
LEMMA SliceDecs ==
  ASSUME NEW s \in HeaderSlices, NEW d \in Decs, app \in Apps
  PROVE  /\ RandomAccessPOC(s, d) \in Int /\ SliceFields(s) \in Pilots
         /\ SliceFields(s).poc = s.poc /\ SliceFields(s).st = s.st
         /\ SkipApp = app
         /\ SkipDec(s, d) \in Decs /\ KeepDec(s, d) \in Decs
         /\ SkipDec(s, d).prevSliceSkipped /\ SkipDec(s, d).skippedPOC = s.poc
         /\ SkipDec(s, d).pocRandomAccess = RandomAccessPOC(s, d)
         /\ ~KeepDec(s, d).prevSliceSkipped /\ KeepDec(s, d).pocRandomAccess = RandomAccessPOC(s, d)
         /\ \A e \in {SkipDec(s, d), KeepDec(s, d)} :
              /\ e.firstSliceInPicture = d.firstSliceInPicture
              /\ e.firstSliceInSequence = d.firstSliceInSequence
              /\ e.prevPOC = d.prevPOC /\ e.prevTid0POC = d.prevTid0POC
              /\ e.associatedIRAPType = d.associatedIRAPType /\ e.pocCRA = d.pocCRA
              /\ e.craNoRaslOutputFlag = d.craNoRaslOutputFlag
<1>1. app.skipFrame = 0
  BY DEF Apps
<1>2. s.poc \in Int /\ s.st \in Seq(Entries) /\ s.lt \in {<<>>} /\ s.picOutput \in BOOLEAN
  BY DEF HeaderSlices
<1>3. d.pocRandomAccess \in Int /\ d.slice \in Pilots
  BY DEF Decs, Pilots
<1> DEFINE r == RandomAccessPOC(s, d)
           f == SliceFields(s)
           g == IF d.firstSliceInPicture THEN f ELSE d.slice
<1>4. r \in Int
  BY <1>2, <1>3 DEF RandomAccessPOC, MAX_INT
<1>5. f \in Pilots /\ f.poc = s.poc /\ f.st = s.st
  BY <1>2 DEF SliceFields, Pilots
<1>6. g \in Pilots
  BY <1>3, <1>5
<1>7. SkipDec(s, d) = [d EXCEPT !.prevSliceSkipped = TRUE, !.skippedPOC = s.poc,
                                !.pocRandomAccess = r, !.slice = g]
  BY <1>1 DEF SkipDec
<1>8. KeepDec(s, d) = [d EXCEPT !.prevSliceSkipped = FALSE, !.pocRandomAccess = r]
  BY DEF KeepDec
<1>9. SkipApp = app
  BY <1>1 DEF SkipApp
<1> HIDE DEF r, f, g
<1>10. /\ SkipDec(s, d) \in Decs
       /\ SkipDec(s, d).prevSliceSkipped /\ SkipDec(s, d).skippedPOC = s.poc
       /\ SkipDec(s, d).pocRandomAccess = r
       /\ SkipDec(s, d).firstSliceInPicture = d.firstSliceInPicture
       /\ SkipDec(s, d).firstSliceInSequence = d.firstSliceInSequence
       /\ SkipDec(s, d).prevPOC = d.prevPOC /\ SkipDec(s, d).prevTid0POC = d.prevTid0POC
       /\ SkipDec(s, d).associatedIRAPType = d.associatedIRAPType /\ SkipDec(s, d).pocCRA = d.pocCRA
       /\ SkipDec(s, d).craNoRaslOutputFlag = d.craNoRaslOutputFlag
  <2> DEFINE x == s.poc
             e == [d EXCEPT !.prevSliceSkipped = TRUE, !.skippedPOC = x, !.pocRandomAccess = r, !.slice = g]
  <2>1. x \in Int /\ SkipDec(s, d) = e
    BY <1>2, <1>7
  <2>2. g \in [poc : Int, st : Seq(Entries), lt : {<<>>}, out : BOOLEAN]
    BY <1>6 DEF Pilots
  <2> HIDE DEF x
  <2>3. e \in Decs
    BY <1>4, <2>1, <2>2 DEF Decs
  <2>4. /\ e.prevSliceSkipped /\ e.skippedPOC = x /\ e.pocRandomAccess = r
        /\ e.firstSliceInPicture = d.firstSliceInPicture
        /\ e.firstSliceInSequence = d.firstSliceInSequence
        /\ e.prevPOC = d.prevPOC /\ e.prevTid0POC = d.prevTid0POC
        /\ e.associatedIRAPType = d.associatedIRAPType /\ e.pocCRA = d.pocCRA
        /\ e.craNoRaslOutputFlag = d.craNoRaslOutputFlag
    BY DEF Decs
  <2> HIDE DEF e
  <2> QED
    BY <2>1, <2>3, <2>4 DEF x
<1>11. /\ KeepDec(s, d) \in Decs
       /\ ~KeepDec(s, d).prevSliceSkipped
       /\ KeepDec(s, d).pocRandomAccess = r
       /\ KeepDec(s, d).firstSliceInPicture = d.firstSliceInPicture
       /\ KeepDec(s, d).firstSliceInSequence = d.firstSliceInSequence
       /\ KeepDec(s, d).prevPOC = d.prevPOC /\ KeepDec(s, d).prevTid0POC = d.prevTid0POC
       /\ KeepDec(s, d).associatedIRAPType = d.associatedIRAPType /\ KeepDec(s, d).pocCRA = d.pocCRA
       /\ KeepDec(s, d).craNoRaslOutputFlag = d.craNoRaslOutputFlag
  BY <1>4, <1>8 DEF Decs
<1> QED
  BY <1>4, <1>5, <1>9, <1>10, <1>11 DEF r, f

(* What the header and the skipping of pictures say of a slice that is read.*)
LEMMA SliceRead ==
  ASSUME Given, Now, ReadsSlice, NEW h, h = Header, NEW s, s = HeaderSlice(nal, dec, h)
  PROVE  /\ AtSlice(stream, pos, dec) /\ nal = stream[pos] /\ pos <= Len(stream)
         /\ nal.type # "EOS" /\ nal \in SliceNALs
         /\ h \in Decs /\ s \in HeaderSlices
         /\ s.poc = nal.poc /\ s.type = nal.type
         /\ pos \in Decoded(stream) => s.st = IF Restarts(nal) THEN <<>> ELSE nal.st
         /\ h.firstSliceInPicture = dec.firstSliceInPicture
         /\ h.firstSliceInSequence = dec.firstSliceInSequence
         /\ h.prevPOC = dec.prevPOC /\ h.pocRandomAccess = dec.pocRandomAccess
         /\ h.prevTid0POC = IF Counts(nal) THEN nal.poc ELSE dec.prevTid0POC
         /\ h.associatedIRAPType = dec.associatedIRAPType /\ h.pocCRA = dec.pocCRA
         /\ h.craNoRaslOutputFlag = IF nal.type = "CRA" THEN dec.firstSliceInSequence ELSE dec.craNoRaslOutputFlag
         /\ IsSkipped(s, h) <=> pos \notin Decoded(stream)
<1>1. /\ AtSlice(stream, pos, dec) /\ nal = stream[pos] /\ pos <= Len(stream)
      /\ nal.type # "EOS" /\ nal \in SliceNALs /\ h \in Decs /\ s \in HeaderSlices
  BY ReadingSlice
<1>2. h = HeaderDec(stream[pos], dec) /\ s = HeaderSlice(stream[pos], dec, HeaderDec(stream[pos], dec))
  BY <1>1 DEF Header
<1>3. \A f \in {"firstSliceInPicture", "firstSliceInSequence", "firstSliceInBitstream",
                "prevPOC", "pocRandomAccess", "pocCRA", "associatedIRAPType",
                "prevSliceSkipped", "skippedPOC", "slice"} : h[f] = dec[f]
  BY <1>1, <1>2, HeaderDecFacts
<1>4. /\ h.firstSliceInPicture = dec.firstSliceInPicture
      /\ h.firstSliceInSequence = dec.firstSliceInSequence
      /\ h.prevPOC = dec.prevPOC /\ h.pocRandomAccess = dec.pocRandomAccess
      /\ h.associatedIRAPType = dec.associatedIRAPType /\ h.pocCRA = dec.pocCRA
  BY <1>3
<1>5. /\ h.prevTid0POC = IF Counts(nal) THEN nal.poc ELSE dec.prevTid0POC
      /\ h.craNoRaslOutputFlag = IF nal.type = "CRA" THEN dec.firstSliceInSequence ELSE dec.craNoRaslOutputFlag
  BY <1>1, <1>2, HeaderDecFacts
<1>6. /\ s.poc = nal.poc /\ s.type = nal.type
      /\ pos \in Decoded(stream) => s.st = IF Restarts(nal) THEN <<>> ELSE nal.st
  BY <1>1, <1>2, HeaderSliceFacts
<1>7. IsSkipped(s, h) <=> pos \notin Decoded(stream)
  BY <1>1, <1>4, <1>6, SkippingRight DEF Now, DecoderInv
<1> QED
  BY <1>1, <1>4, <1>5, <1>6, <1>7

(* A slice that is skipped keeps the invariant.                            *)
LEMMA SkipSliceInv ==
  ASSUME Given, Now, SkipSlice PROVE Then /\ Passes
<1>1. PICK h, s : /\ h = Header /\ s = HeaderSlice(nal, dec, h) /\ ReadsSlice /\ IsSkipped(s, h)
                  /\ Loop(FALSE, AtEnd, dpb, SkipDec(s, h), SkipApp) /\ pos' = pos + 1
  BY DEF SkipSlice
<1>2. /\ AtSlice(stream, pos, dec) /\ nal = stream[pos] /\ pos <= Len(stream)
      /\ nal.type # "EOS" /\ h \in Decs /\ s \in HeaderSlices
      /\ s.poc = nal.poc /\ s.type = nal.type
      /\ h.firstSliceInPicture = dec.firstSliceInPicture
      /\ h.firstSliceInSequence = dec.firstSliceInSequence
      /\ h.prevPOC = dec.prevPOC /\ h.pocRandomAccess = dec.pocRandomAccess
      /\ h.prevTid0POC = IF Counts(nal) THEN nal.poc ELSE dec.prevTid0POC
      /\ h.associatedIRAPType = dec.associatedIRAPType /\ h.pocCRA = dec.pocCRA
      /\ h.craNoRaslOutputFlag = IF nal.type = "CRA" THEN dec.firstSliceInSequence ELSE dec.craNoRaslOutputFlag
      /\ pos \notin Decoded(stream)
  BY <1>1, SliceRead
<1>3. /\ dpb \in Seq(Pictures) /\ app \in Apps /\ written \in Seq(WrittenPictures) /\ pos \in Nat
  BY DEF Now, DecoderInv
<1> DEFINE d == SkipDec(s, h)
<1>4. /\ d \in Decs /\ SkipApp = app
      /\ d.prevSliceSkipped /\ d.skippedPOC = nal.poc
      /\ d.pocRandomAccess = RandomAccessPOC(s, h)
      /\ d.firstSliceInPicture = dec.firstSliceInPicture
      /\ d.firstSliceInSequence = dec.firstSliceInSequence
      /\ d.prevPOC = dec.prevPOC /\ d.prevTid0POC = h.prevTid0POC
      /\ d.associatedIRAPType = dec.associatedIRAPType /\ d.pocCRA = dec.pocCRA
      /\ d.craNoRaslOutputFlag = h.craNoRaslOutputFlag
  BY <1>2, <1>3, SliceDecs
<1>5. d.pocRandomAccess = dec.pocRandomAccess
  BY <1>2, <1>4, RandomAccessPOCRight
<1>6. Loop(FALSE, AtEnd, dpb, d, app)
  BY <1>1, <1>4
<1> HIDE DEF d
<1>7. FALSE \in BOOLEAN /\ AtEnd \in BOOLEAN
  BY DEF AtEnd
<1>8. /\ SameRegisters(dec', d)
      /\ dec'.firstSliceInSequence <=> d.firstSliceInSequence
  BY <1>2, <1>3, <1>4, <1>6, <1>7, LoopFacts
<1>9. Registers(stream, pos + 1, dec')
  <2>1. stream[pos].type # "CRA"
    BY <1>2 DEF AtSlice, Decoded, Decodable, CannotBeDecoded
  <2>2. /\ dec'.firstSliceInSequence <=> dec.firstSliceInSequence
        /\ dec'.pocRandomAccess = dec.pocRandomAccess /\ dec'.prevPOC = dec.prevPOC
        /\ dec'.prevTid0POC = IF Counts(stream[pos]) THEN stream[pos].poc ELSE dec.prevTid0POC
        /\ dec'.associatedIRAPType = dec.associatedIRAPType /\ dec'.pocCRA = dec.pocCRA
        /\ dec'.prevSliceSkipped /\ dec'.skippedPOC = stream[pos].poc
        /\ dec'.craNoRaslOutputFlag = dec.craNoRaslOutputFlag
    BY <1>2, <1>4, <1>5, <1>8, <2>1 DEF SameRegisters
  <2> QED
    BY <1>2, <1>3, <2>2, RegistersSkipped
<1>10. Then /\ StillWaits
  BY <1>1, <1>2, <1>4, <1>6, <1>9, PassedInv
<1> QED
  BY <1>1, <1>2, <1>4, <1>6, <1>10 DEF Passes

(* The turn of the main loop that finds a new picture.                     *)
Finds ==
  /\ pos <= Len(stream) /\ pos \in Decoded(stream) /\ stream[pos].first /\ pos' = pos
  /\ dec'.firstSliceInPicture /\ app'.listKnown
  /\ \E d \in Decs : /\ d.firstSliceInPicture = dec.firstSliceInPicture
                     /\ d.firstSliceInSequence = dec.firstSliceInSequence
                     /\ ~d.firstSliceInPicture
                     /\ Loop(TRUE, FALSE, dpb, d, app)

(* Finding a new picture, which finishes the one before, keeps the         *)
(* invariant.                                                              *)
LEMMA FindNewPictureInv ==
  ASSUME Given, Now, FindNewPicture PROVE Then /\ Finds
<1>1. PICK h, s : /\ h = Header /\ s = HeaderSlice(nal, dec, h) /\ ReadsSlice /\ ~IsSkipped(s, h)
                  /\ NewPictureFound(nal, KeepDec(s, h))
                  /\ Loop(TRUE, FALSE, dpb, [KeepDec(s, h) EXCEPT !.prevPOC = s.poc], app) /\ pos' = pos
  BY DEF FindNewPicture
<1>2. /\ AtSlice(stream, pos, dec) /\ nal = stream[pos] /\ pos <= Len(stream)
      /\ nal.type # "EOS" /\ h \in Decs /\ s \in HeaderSlices
      /\ s.poc = nal.poc /\ s.type = nal.type
      /\ h.firstSliceInPicture = dec.firstSliceInPicture
      /\ h.firstSliceInSequence = dec.firstSliceInSequence
      /\ h.prevPOC = dec.prevPOC /\ h.pocRandomAccess = dec.pocRandomAccess
      /\ h.prevTid0POC = IF Counts(nal) THEN nal.poc ELSE dec.prevTid0POC
      /\ h.associatedIRAPType = dec.associatedIRAPType /\ h.pocCRA = dec.pocCRA
      /\ h.craNoRaslOutputFlag = IF nal.type = "CRA" THEN dec.firstSliceInSequence ELSE dec.craNoRaslOutputFlag
      /\ pos \in Decoded(stream)
  BY <1>1, SliceRead
<1>3. /\ dpb \in Seq(Pictures) /\ app \in Apps /\ written \in Seq(WrittenPictures) /\ pos \in Nat \ {0}
      /\ ListInv(stream, Past(stream, pos), dpb) /\ WrittenWhole(stream, written)
      /\ StartInv(stream, pos, dpb, dec, app) /\ Reconstructed(dpb, dec)
      /\ Conforming(stream, settings)
  BY <1>2 DEF Now, DecoderInv, Given
<1> DEFINE g == KeepDec(s, h)
           d == [g EXCEPT !.prevPOC = s.poc]
<1>4. /\ g \in Decs
      /\ g.pocRandomAccess = RandomAccessPOC(s, h)
      /\ g.firstSliceInPicture = dec.firstSliceInPicture
      /\ g.firstSliceInSequence = dec.firstSliceInSequence
      /\ g.prevPOC = dec.prevPOC /\ g.prevTid0POC = h.prevTid0POC
      /\ g.associatedIRAPType = dec.associatedIRAPType /\ g.pocCRA = dec.pocCRA
      /\ g.craNoRaslOutputFlag = h.craNoRaslOutputFlag
  BY <1>2, <1>3, SliceDecs
<1>5. nal.first /\ ~dec.firstSliceInPicture
  BY <1>1, <1>2, <1>4, NewPictureRight
<1>6. s.poc \in Int
  BY <1>2 DEF HeaderSlices
<1>7. Loop(TRUE, FALSE, dpb, d, app)
  BY <1>1
<1> HIDE DEF g
<1>8. /\ d \in Decs
      /\ d.pocRandomAccess = RandomAccessPOC(s, h)
      /\ d.firstSliceInPicture = dec.firstSliceInPicture
      /\ d.firstSliceInSequence = dec.firstSliceInSequence
      /\ d.prevPOC = nal.poc /\ d.prevTid0POC = h.prevTid0POC
      /\ d.associatedIRAPType = dec.associatedIRAPType /\ d.pocCRA = dec.pocCRA
      /\ d.craNoRaslOutputFlag = h.craNoRaslOutputFlag
  BY <1>2, <1>4, <1>6 DEF Decs
<1> HIDE DEF d
<1>9. FALSE \in BOOLEAN /\ TRUE \in BOOLEAN
  OBVIOUS
<1>10. /\ dpb' \in Seq(Pictures) /\ dec' \in Decs /\ app' \in Apps
       /\ written' \in Seq(WrittenPictures) /\ SameRegisters(dec', d)
       /\ app'.listKnown <=> app.listKnown \/ Completes(TRUE, FALSE, d, app)
       /\ dec'.firstSliceInSequence <=> d.firstSliceInSequence
       /\ dec'.firstSliceInPicture
  BY <1>2, <1>3, <1>7, <1>8, <1>9, LoopFacts
<1>11. Past(stream, pos) \in SUBSET SlicesIn(stream) /\ Whole(stream, Past(stream, pos))
  BY <1>2, <1>3, <1>5, PastFacts, PastIsWhole DEF AtSlice
<1>12. Reconstructed(dpb, d)
  <2>1. \A q \in Pics(dpb) : q.referenced =>
          q.recon \/ (q.current /\ ~dec.firstSliceInPicture /\ ~dec.firstSliceInSequence)
    BY <1>3 DEF Reconstructed
  <2> QED
    BY <1>8, <2>1 DEF Reconstructed
<1>13. /\ ListInv(stream, Past(stream, pos), dpb') /\ WrittenWhole(stream, written')
       /\ IF app'.listKnown /\ nal.type \in {"IDR", "BLA"} THEN dpb' = <<>>
          ELSE dpb' = <<>> <=> dpb = <<>>
       /\ Reconstructed(dpb', dec')
  BY <1>3, <1>7, <1>8, <1>9, <1>11, <1>12, LoopInv
<1>14. Past(stream, pos) # {} /\ dpb # <<>>
  BY <1>2, <1>3, <1>5 DEF StartInv
<1>15. app'.listKnown
  BY <1>2, <1>3, <1>8, <1>10, <1>14 DEF StartInv, Completes
<1>16. StartInv(stream, pos, dpb', dec', app')
  <2>1. pos \in Decoded(stream) /\ stream[pos].first
    BY <1>2, <1>5
  <2>2. Restarts(stream[pos]) <=> dpb' = <<>>
    BY <1>2, <1>13, <1>14, <1>15 DEF Restarts
  <2> QED
    BY <1>10, <1>14, <1>15, <2>1, <2>2 DEF StartInv
<1>17. Registers(stream, pos, dec')
  <2>1. \E b \in Decoded(stream) :
              /\ Begins(stream, b) /\ b <= pos /\ NoEOS(stream, b, pos)
              /\ RandomAccessPOC(s, h) = IF stream[b].type = "IDR" THEN -MAX_INT ELSE stream[b].poc
    BY <1>2, RandomAccessPOCRight
  <2>2. /\ dec'.firstSliceInSequence <=> dec.firstSliceInSequence
        /\ dec'.pocRandomAccess = RandomAccessPOC(s, h) /\ dec'.prevPOC = stream[pos].poc
        /\ dec'.prevTid0POC = IF Counts(stream[pos]) THEN stream[pos].poc ELSE dec.prevTid0POC
        /\ dec'.associatedIRAPType = dec.associatedIRAPType /\ dec'.pocCRA = dec.pocCRA
        /\ dec'.craNoRaslOutputFlag = IF stream[pos].type = "CRA" THEN dec.firstSliceInSequence
                                     ELSE dec.craNoRaslOutputFlag
    BY <1>2, <1>8, <1>10 DEF SameRegisters
  <2> QED
    BY <1>2, <1>3, <1>10, <2>1, <2>2, RegistersFound
<1>18. Finds
  BY <1>1, <1>2, <1>5, <1>7, <1>8, <1>10, <1>15 DEF Finds
<1> QED
  BY <1>1, <1>3, <1>10, <1>13, <1>16, <1>17, <1>18 DEF Then, DecoderInv

(* The decoder after a slice.                                              *)
LEMMA DecodedDecs ==
  ASSUME NEW s \in HeaderSlices, NEW d \in Decs, app \in Apps, NEW e, e = DecodedDec(d, s)
  PROVE  /\ e \in Decs
         /\ ~e.firstSliceInPicture /\ ~e.firstSliceInSequence
         /\ e.pocRandomAccess = d.pocRandomAccess /\ e.prevTid0POC = d.prevTid0POC
         /\ e.prevPOC = IF nal.dep THEN d.prevPOC ELSE s.poc
         /\ e.prevSliceSkipped = d.prevSliceSkipped
         /\ e.craNoRaslOutputFlag = d.craNoRaslOutputFlag
         /\ e.slice.poc = s.poc /\ e.slice.st = s.st
         /\ IF nal.dep \/ s.type \notin IRAPTypes
            THEN e.associatedIRAPType = d.associatedIRAPType /\ e.pocCRA = d.pocCRA
            ELSE e.associatedIRAPType = s.type /\ e.pocCRA = s.poc
<1> DEFINE c == CheckCRA(d, s)
<1>1. s.poc \in Int
  BY DEF HeaderSlices
<1>2. /\ c \in Decs /\ c.pocRandomAccess = d.pocRandomAccess /\ c.prevTid0POC = d.prevTid0POC
      /\ c.prevPOC = d.prevPOC /\ c.prevSliceSkipped = d.prevSliceSkipped
      /\ c.craNoRaslOutputFlag = d.craNoRaslOutputFlag
      /\ IF nal.dep \/ s.type \notin IRAPTypes
         THEN c.associatedIRAPType = d.associatedIRAPType /\ c.pocCRA = d.pocCRA
         ELSE c.associatedIRAPType = s.type /\ c.pocCRA = s.poc
  <2>1. CASE nal.dep \/ s.type \notin IRAPTypes
    BY <2>1 DEF CheckCRA
  <2>2. CASE ~(nal.dep \/ s.type \notin IRAPTypes)
    <3> DEFINE x == s.poc
               t == s.type
               k == [d EXCEPT !.pocCRA = x, !.associatedIRAPType = t]
    <3>1. x \in Int /\ t \in IRAPTypes \cup {"INVALID"} /\ c = k
      BY <1>1, <2>2 DEF CheckCRA
    <3> HIDE DEF x, t
    <3>2. k \in Decs
      BY <3>1 DEF Decs
    <3>3. /\ k.pocRandomAccess = d.pocRandomAccess /\ k.prevTid0POC = d.prevTid0POC
          /\ k.prevPOC = d.prevPOC /\ k.prevSliceSkipped = d.prevSliceSkipped
          /\ k.craNoRaslOutputFlag = d.craNoRaslOutputFlag
          /\ k.associatedIRAPType = t /\ k.pocCRA = x
      BY DEF Decs
    <3> HIDE DEF k, c
    <3> QED
      BY <2>2, <3>1, <3>2, <3>3 DEF x, t
  <2> QED
    BY <2>1, <2>2
<1> DEFINE v == IF nal.dep THEN c.prevPOC ELSE s.poc
           f == SliceFields(s)
           g == [c EXCEPT !.prevPOC = v, !.firstSliceInPicture = FALSE, !.firstSliceInSequence = FALSE]
<1>3. f \in Pilots /\ f.poc = s.poc /\ f.st = s.st
  BY SliceDecs
<1>4. e = [g EXCEPT !.firstSliceInBitstream = FALSE, !.slice = f]
  BY DEF DecodedDec
<1> HIDE DEF c
<1>5. v \in Int /\ v = IF nal.dep THEN d.prevPOC ELSE s.poc
  BY <1>1, <1>2 DEF Decs
<1> HIDE DEF v, f
<1>6. g \in Decs
  BY <1>2, <1>5 DEF Decs
<1>7. /\ ~g.firstSliceInPicture /\ ~g.firstSliceInSequence
      /\ g.pocRandomAccess = c.pocRandomAccess /\ g.prevTid0POC = c.prevTid0POC
      /\ g.prevPOC = v /\ g.prevSliceSkipped = c.prevSliceSkipped
      /\ g.craNoRaslOutputFlag = c.craNoRaslOutputFlag
      /\ g.associatedIRAPType = c.associatedIRAPType /\ g.pocCRA = c.pocCRA
  BY <1>2 DEF Decs
<1> HIDE DEF g
<1>8. f \in [poc : Int, st : Seq(Entries), lt : {<<>>}, out : BOOLEAN]
  BY <1>3 DEF Pilots
<1>9. e \in Decs
  BY <1>4, <1>6, <1>8 DEF Decs
<1>10. /\ e.firstSliceInPicture = g.firstSliceInPicture
       /\ e.firstSliceInSequence = g.firstSliceInSequence
       /\ e.pocRandomAccess = g.pocRandomAccess /\ e.prevTid0POC = g.prevTid0POC
       /\ e.prevPOC = g.prevPOC /\ e.prevSliceSkipped = g.prevSliceSkipped
       /\ e.craNoRaslOutputFlag = g.craNoRaslOutputFlag
       /\ e.associatedIRAPType = g.associatedIRAPType /\ e.pocCRA = g.pocCRA
       /\ e.slice = f
  BY <1>4, <1>6 DEF Decs
<1> QED
  BY <1>2, <1>3, <1>5, <1>7, <1>9, <1>10

(* The list with the slice added.                                          *)
ListOfSlice(s) ==
  IF dec.firstSliceInPicture
  THEN StartPicture(ApplyReferencePictureSet(WithNewBuffer(dpb), s), s) ELSE AddSlice(dpb)

(* The list with the slice keeps the invariant.                            *)
LEMMA ListOfSliceInv ==
  ASSUME Given, Now, AtSlice(stream, pos, dec), pos <= Len(stream), pos \in Decoded(stream),
         nal = stream[pos], nal \in SliceNALs, dec.firstSliceInPicture <=> nal.first,
         NEW s \in HeaderSlices, s.poc = nal.poc, s.st = IF Restarts(nal) THEN <<>> ELSE nal.st
  PROVE  /\ ListOfSlice(s) \in Seq(Pictures) /\ ListOfSlice(s) # <<>>
         /\ ListInv(stream, Past(stream, pos + 1), ListOfSlice(s))
         /\ \A e : ~e.firstSliceInPicture /\ ~e.firstSliceInSequence => Reconstructed(ListOfSlice(s), e)
         /\ dpb = <<>> /\ Past(stream, pos) # {} => Restarts(nal)
<1>1. /\ Conforming(stream, settings) /\ pos \in Nat /\ dpb \in Seq(Pictures)
      /\ ListInv(stream, Past(stream, pos), dpb) /\ Reconstructed(dpb, dec)
      /\ StartInv(stream, pos, dpb, dec, app)
  BY DEF Given, Now, DecoderInv
<1>2. dpb = <<>> /\ Past(stream, pos) # {} => Restarts(nal)
  BY <1>1 DEF StartInv
<1>3. \A q \in Pics(dpb) : ~q.longTerm
  BY <1>1 DEF ListInv, PictureInv
<1> DEFINE k == ListOfSlice(s)
<1>4. CASE dec.firstSliceInPicture
  <2>1. k = StartPicture(ApplyReferencePictureSet(WithNewBuffer(dpb), s), s)
    BY <1>4 DEF ListOfSlice
  <2> HIDE DEF k
  <2>2. /\ k \in Seq(Pictures)
        /\ \E r \in Pics(k) : IsNew(r, s, pos)
        /\ \A r \in Pics(k) : IsNew(r, s, pos) \/ \E q \in Pics(dpb) : Marked(r, q, s)
        /\ \A q \in Pics(dpb) : IsReusable(q) \/ \E r \in Pics(k) : Marked(r, q, s)
    BY <1>1, <1>3, <2>1, StartPictureFacts
  <2>3. Restarts(stream[pos]) => dpb = <<>>
    BY <1>1, <1>4 DEF StartInv
  <2>4. /\ dpb = <<>> /\ Past(stream, pos) # {} => Restarts(stream[pos])
        /\ stream[pos].first /\ s.poc = stream[pos].poc
        /\ s.st = IF Restarts(stream[pos]) THEN <<>> ELSE stream[pos].st
    BY <1>2, <1>4
  <2>5. /\ ListInv(stream, Past(stream, pos + 1), k) /\ k # <<>>
        /\ \A e : ~e.firstSliceInPicture /\ ~e.firstSliceInSequence => Reconstructed(k, e)
    BY <1>1, <1>4, <2>2, <2>3, <2>4, FirstSliceInv
  <2> QED
    BY <1>2, <2>2, <2>5 DEF k
<1>5. CASE ~dec.firstSliceInPicture
  <2>1. k = AddSlice(dpb)
    BY <1>5 DEF ListOfSlice
  <2>2. nal.tid \in Nat
    BY DEF SliceNALs
  <2> HIDE DEF k
  <2>3. /\ k \in Seq(Pictures)
        /\ \A r \in Pics(k) : \E q \in Pics(dpb) : Added(r, q, pos)
        /\ \A q \in Pics(dpb) : \E r \in Pics(k) : Added(r, q, pos)
    BY <1>1, <2>1, <2>2, AddSliceFacts
  <2>4. dpb # <<>>
    BY <1>1, <1>5 DEF StartInv
  <2>5. ~stream[pos].first
    BY <1>5
  <2>6. /\ ListInv(stream, Past(stream, pos + 1), k) /\ k # <<>>
        /\ \A e : ~e.firstSliceInPicture /\ ~e.firstSliceInSequence => Reconstructed(k, e)
    BY <1>1, <2>3, <2>4, <2>5, FurtherSliceInv
  <2> QED
    BY <1>2, <2>3, <2>6 DEF k
<1> QED
  BY <1>4, <1>5

(* The turn of the main loop for a slice that is decoded: its references   *)
(* fail an assertion, or it is added to the list.                          *)
Adds(s) ==
  /\ s = HeaderSlice(nal, dec, Header)
  /\ s.poc = stream[pos].poc /\ s.st = IF Restarts(stream[pos]) THEN <<>> ELSE stream[pos].st
  /\ ListOfSlice(s) \in Seq(Pictures) /\ ListOfSlice(s) # <<>>
  /\ ListInv(stream, Past(stream, pos + 1), ListOfSlice(s))
  /\ \E e \in Decs : /\ ~e.firstSliceInPicture /\ ~e.firstSliceInSequence
                     /\ Loop(FALSE, AtEnd, ListOfSlice(s), e, app)

Decodes ==
  /\ pos <= Len(stream) /\ pos \in Decoded(stream) /\ AtSlice(stream, pos, dec)
  /\ dec.firstSliceInPicture <=> stream[pos].first
  /\ dpb = <<>> /\ Past(stream, pos) # {} => Restarts(stream[pos])
  /\ \/ /\ status' = "aborted" /\ pos' = pos
        /\ dpb' = dpb /\ dec' = dec /\ app' = app /\ written' = written
     \/ /\ status' = status /\ pos' = pos + 1
        /\ dec'.firstSliceInPicture => AtEnd
        /\ \E s \in HeaderSlices : Adds(s)

(* Decoding a slice: nothing is concealed, the search for references does  *)
(* not fail, and finds the pictures meant.                                 *)
LEMMA DecodeSliceInv ==
  ASSUME Given, Now, DecodeSlice, ReferencesRight, status = "running"
  PROVE  /\ Then /\ Decodes
         /\ \A r \in refs' : r.nals = Meant(r.slice, r.entry)
         /\ status' \in {"running", "aborted"}
<1>0. PICK h, s : /\ h = Header /\ s = HeaderSlice(nal, dec, h) /\ ReadsSlice /\ ~IsSkipped(s, h)
                  /\ ~NewPictureFound(nal, KeepDec(s, h)) /\ Decode(s, KeepDec(s, h))
  BY DEF DecodeSlice
<1> DEFINE g == KeepDec(s, h)
<1>1. PICK kept, fresh, marked, l, cd, failure :
        /\ kept = ConcealLostPictures(dpb, s, g.pocRandomAccess)
        /\ fresh = WithNewBuffer(kept) /\ marked = ApplyReferencePictureSet(fresh, s)
        /\ l = IF dec.firstSliceInPicture THEN StartPicture(marked, s) ELSE AddSlice(kept)
        /\ cd = ConcealDec(g, s)
        /\ failure = Failure(s, kept, fresh, marked, l, g, cd)
        /\ IF failure # "none" THEN Stops(failure) ELSE Continues(s, l, DecodedDec(cd, s))
  BY <1>0 DEF Decode
<1>2. /\ AtSlice(stream, pos, dec) /\ nal = stream[pos] /\ pos <= Len(stream)
      /\ nal.type # "EOS" /\ nal \in SliceNALs /\ h \in Decs /\ s \in HeaderSlices
      /\ s.poc = nal.poc /\ s.type = nal.type
      /\ h.firstSliceInPicture = dec.firstSliceInPicture
      /\ h.prevPOC = dec.prevPOC /\ h.pocRandomAccess = dec.pocRandomAccess
      /\ h.prevTid0POC = IF Counts(nal) THEN nal.poc ELSE dec.prevTid0POC
      /\ h.associatedIRAPType = dec.associatedIRAPType /\ h.pocCRA = dec.pocCRA
      /\ h.craNoRaslOutputFlag = IF nal.type = "CRA" THEN dec.firstSliceInSequence ELSE dec.craNoRaslOutputFlag
      /\ pos \in Decoded(stream)
      /\ s.st = IF Restarts(nal) THEN <<>> ELSE nal.st
  BY <1>0, SliceRead
<1>3. /\ dpb \in Seq(Pictures) /\ app \in Apps /\ dec \in Decs /\ written \in Seq(WrittenPictures)
      /\ pos \in Nat \ {0} /\ Conforming(stream, settings)
      /\ ListInv(stream, Past(stream, pos), dpb) /\ WrittenWhole(stream, written)
      /\ Len(stream) \in Nat
  BY <1>2, ConformingNALs DEF Now, DecoderInv, Given
<1>4. s.lt = <<>>
  BY <1>2 DEF HeaderSlices
<1>5. /\ g \in Decs /\ ~g.prevSliceSkipped
      /\ g.pocRandomAccess = RandomAccessPOC(s, h)
      /\ g.firstSliceInPicture = dec.firstSliceInPicture
      /\ g.prevPOC = dec.prevPOC /\ g.prevTid0POC = h.prevTid0POC
      /\ g.associatedIRAPType = dec.associatedIRAPType /\ g.pocCRA = dec.pocCRA
      /\ g.craNoRaslOutputFlag = h.craNoRaslOutputFlag
  BY <1>2, <1>3, SliceDecs
<1>6. dec.firstSliceInPicture <=> nal.first
  <2>1. ~NewPictureFound(stream[pos], g)
    BY <1>0, <1>2
  <2>2. ~(stream[pos].first /\ ~dec.firstSliceInPicture)
    BY <1>2, <1>5, <2>1, NewPictureRight
  <2>3. dec.firstSliceInPicture => stream[pos].first
    BY <1>2 DEF AtSlice
  <2> QED
    BY <1>2, <2>2, <2>3
<1> DEFINE k == ListOfSlice(s)
<1>7. /\ k \in Seq(Pictures) /\ k # <<>>
      /\ ListInv(stream, Past(stream, pos + 1), k)
      /\ \A e : ~e.firstSliceInPicture /\ ~e.firstSliceInSequence => Reconstructed(k, e)
      /\ dpb = <<>> /\ Past(stream, pos) # {} => Restarts(stream[pos])
  BY <1>2, <1>3, <1>6, ListOfSliceInv
<1>8. Available(dpb, s)
  <2>1. pos \in {pos, pos + 1}
    OBVIOUS
  <2> QED
    BY <1>2, <1>3, <1>7, <2>1, ReferencesThere
<1>9. /\ Concealed(dpb, s, g.pocRandomAccess) = <<>>
      /\ ConcealLostPictures(dpb, s, g.pocRandomAccess) = dpb
  BY <1>3, <1>4, <1>8, NothingConcealed
<1>10. kept = dpb /\ l = k /\ cd = g
  BY <1>1, <1>9 DEF ListOfSlice, ConcealDec
<1>11. \A e \in UsedShortTerm(s) :
         LET i == RefPicIndex(k, RefPOC(s, s.st[e]))
         IN  /\ i \in DOMAIN k
             /\ e \in DOMAIN stream[pos].st
             /\ k[i].nals = {x \in SlicesIn(stream) :
                               /\ stream[x].cvs = stream[pos].cvs
                               /\ stream[x].poc = stream[pos].poc + stream[pos].st[e].delta}
  <2>1. pos + 1 \in {pos, pos + 1}
    OBVIOUS
  <2>2. /\ s.poc = stream[pos].poc /\ s.st = IF Restarts(stream[pos]) THEN <<>> ELSE stream[pos].st
        /\ k = <<>> /\ Past(stream, pos) # {} => Restarts(stream[pos])
    BY <1>2, <1>7
  <2> HIDE DEF k
  <2> QED
    BY <1>2, <1>3, <1>7, <2>1, <2>2, ReferencesThere
<1> HIDE DEF k, g
<1>12. failure \in {"none", "aborted"}
  <2>1. 0 \notin ShortTermRefs(k, s)
    <3>1. DOMAIN k = 1..Len(k)
      BY <1>7, PicturesIn
    <3> QED
      BY <1>11, <3>1 DEF ShortTermRefs
  <2> QED
    BY <1>1, <1>9, <1>10, <2>1 DEF Failure
<1>13. CASE failure # "none"
  <2>1. /\ status' = "aborted" /\ pos' = pos /\ dpb' = dpb /\ dec' = dec /\ app' = app
        /\ written' = written /\ refs' = refs
    BY <1>1, <1>12, <1>13 DEF Stops
  <2>2. Decodes
    BY <1>2, <1>6, <1>7, <2>1 DEF Decodes
  <2> QED
    BY <2>1, <2>2 DEF Now, Then, ReferencesRight
<1>14. CASE failure = "none"
  <2> DEFINE e == DecodedDec(g, s)
  <2>2. MarkReferences(k, s) = k
    <3>1. \A q \in Pics(k) : ~q.longTerm
      BY <1>7 DEF ListInv, PictureInv
    <3> QED
      BY <1>4, <1>7, <3>1, MarkReferencesFacts
  <2>3. /\ Loop(FALSE, AtEnd, k, e, app) /\ pos' = pos + 1 /\ status' = status
        /\ refs' = IF nal.dep THEN refs ELSE refs \cup References(k, s)
    BY <1>1, <1>10, <1>14, <2>2 DEF Continues
  <2>4. /\ e \in Decs
        /\ ~e.firstSliceInPicture /\ ~e.firstSliceInSequence
        /\ e.pocRandomAccess = g.pocRandomAccess /\ e.prevTid0POC = g.prevTid0POC
        /\ e.prevPOC = IF nal.dep THEN g.prevPOC ELSE s.poc
        /\ e.prevSliceSkipped = g.prevSliceSkipped
        /\ e.craNoRaslOutputFlag = g.craNoRaslOutputFlag
        /\ e.slice.poc = s.poc /\ e.slice.st = s.st
        /\ IF nal.dep \/ s.type \notin IRAPTypes
           THEN e.associatedIRAPType = g.associatedIRAPType /\ e.pocCRA = g.pocCRA
           ELSE e.associatedIRAPType = s.type /\ e.pocCRA = s.poc
    BY <1>2, <1>3, <1>5, DecodedDecs
  <2> HIDE DEF e
  <2>5. FALSE \in BOOLEAN /\ AtEnd \in BOOLEAN
    BY DEF AtEnd
  <2>6. /\ dpb' \in Seq(Pictures) /\ dec' \in Decs /\ app' \in Apps
        /\ written' \in Seq(WrittenPictures) /\ SameRegisters(dec', e)
        /\ ~dec'.firstSliceInSequence
        /\ ~AtEnd => ~dec'.firstSliceInPicture
    BY <1>2, <1>3, <1>7, <2>3, <2>4, <2>5, LoopFacts
  <2>7. /\ Past(stream, pos + 1) \in SUBSET SlicesIn(stream) /\ Past(stream, pos + 1) # {}
        /\ AtEnd => Whole(stream, Past(stream, pos + 1))
    <3>1. pos + 1 \in Nat /\ (AtEnd => pos + 1 > Len(stream))
      BY <1>3 DEF AtEnd
    <3> QED
      BY <1>2, <1>3, <3>1, PastFacts, PastIsWhole
  <2>8. /\ ListInv(stream, Past(stream, pos + 1), dpb') /\ WrittenWhole(stream, written')
        /\ dpb' # <<>>
        /\ ~AtEnd => Reconstructed(dpb', dec')
    <3>1. Reconstructed(k, e)
      BY <1>7, <2>4
    <3> QED
      BY <1>2, <1>3, <1>7, <2>3, <2>4, <2>5, <2>7, <3>1, LoopInv
  <2>9. pos' \in Nat \ {0} /\ (pos' <= Len(stream) => ~AtEnd)
    BY <1>3, <2>3 DEF AtEnd
  <2>10. StartInv(stream, pos', dpb', dec', app')
    BY <2>3, <2>6, <2>7, <2>8, <2>9 DEF StartInv
  <2>11. Registers(stream, pos + 1, dec')
    <3>1. \E b \in Decoded(stream) :
              /\ Begins(stream, b) /\ b <= pos /\ NoEOS(stream, b, pos)
              /\ RandomAccessPOC(s, h) = IF stream[b].type = "IDR" THEN -MAX_INT ELSE stream[b].poc
      BY <1>2, RandomAccessPOCRight
    <3>2. /\ dec'.pocRandomAccess = RandomAccessPOC(s, h)
          /\ dec'.prevPOC = IF stream[pos].dep THEN dec.prevPOC ELSE stream[pos].poc
          /\ dec'.prevTid0POC = IF Counts(stream[pos]) THEN stream[pos].poc ELSE dec.prevTid0POC
          /\ IF stream[pos].dep \/ stream[pos].type \notin IRAPTypes
             THEN dec'.associatedIRAPType = dec.associatedIRAPType /\ dec'.pocCRA = dec.pocCRA
             ELSE dec'.associatedIRAPType = stream[pos].type /\ dec'.pocCRA = stream[pos].poc
          /\ ~dec'.prevSliceSkipped /\ dec'.slice.poc = stream[pos].poc
          /\ dec'.slice.st = IF Restarts(stream[pos]) THEN <<>> ELSE stream[pos].st
          /\ dec'.craNoRaslOutputFlag = IF stream[pos].type = "CRA" THEN dec.firstSliceInSequence
                                       ELSE dec.craNoRaslOutputFlag
      BY <1>2, <1>5, <2>4, <2>6 DEF SameRegisters
    <3> QED
      BY <1>2, <1>3, <2>6, <3>1, <3>2, RegistersDecoded
  <2>12. Then
    BY <2>3, <2>6, <2>8, <2>9, <2>10, <2>11 DEF Then, DecoderInv
  <2>13. ASSUME NEW r \in References(k, s) PROVE r.nals = Meant(r.slice, r.entry)
    <3>1. UsedLongTerm(s) = {}
      BY <1>4 DEF UsedLongTerm
    <3>2. PICK i \in UsedShortTerm(s) :
            r = [slice |-> pos, entry |-> i, nals |-> k[RefPicIndex(k, RefPOC(s, s.st[i]))].nals]
      BY <2>13, <3>1 DEF References
    <3>3. /\ i \in DOMAIN stream[pos].st
          /\ r.nals = {x \in SlicesIn(stream) :
                               /\ stream[x].cvs = stream[pos].cvs
                               /\ stream[x].poc = stream[pos].poc + stream[pos].st[i].delta}
          /\ r.slice = pos /\ r.entry = i
      BY <1>11, <3>2
    <3>4. i <= Len(stream[pos].st)
      <4>1. stream[pos].st \in Seq([delta : Int, used : BOOLEAN])
        BY <1>2 DEF SliceNALs
      <4> QED
        BY <3>3, <4>1
    <3>5. Meant(pos, i) = {x \in Slices : /\ stream[x].cvs = stream[pos].cvs
                                          /\ stream[x].poc = stream[pos].poc + stream[pos].st[i].delta}
      BY <3>4 DEF Meant
    <3>6. Slices = SlicesIn(stream)
      BY DEF Slices, SlicesIn
    <3> QED
      BY <3>3, <3>5, <3>6
  <2>14. Adds(s)
    BY <1>0, <1>2, <1>7, <2>3, <2>4 DEF Adds, k
  <2>15. Decodes
    BY <1>2, <1>6, <1>7, <2>3, <2>6, <2>14 DEF Decodes
  <2> QED
    BY <2>3, <2>12, <2>13, <2>15 DEF ReferencesRight
<1> QED
  BY <1>13, <1>14


(* What Finish leaves undone changes nothing: before the first picture,    *)
(* the list is empty.                                                      *)
LEMMA FinishInv ==
  ASSUME Given, Now, Finish PROVE Then
<1> DEFINE m == [dpb |-> dpb, app |-> app, written |-> written]
           v == WithWritten(written, InOrder(dpb, Waiting(dpb)))
<1>1. /\ pos > Len(stream) /\ pos' = pos /\ dec' = dec
      /\ \E f \in {IF app.listKnown THEN FlushOutput(m) ELSE m} :
           dpb' = f.dpb /\ app' = f.app /\ written' = f.written
  BY DEF Finish
<1>2. /\ pos \in Nat \ {0} /\ dpb \in Seq(Pictures) /\ dec \in Decs /\ app \in Apps
      /\ written \in Seq(WrittenPictures) /\ ListInv(stream, Past(stream, pos), dpb)
      /\ WrittenWhole(stream, written) /\ StartInv(stream, pos, dpb, dec, app)
      /\ Len(stream) \in Nat
  BY ConformingNALs DEF Now, DecoderInv, Given
<1>3. ~(pos <= Len(stream))
  BY <1>1, <1>2
<1>4. CASE app.listKnown
  <2> DEFINE y == IF dpb = <<>> THEN app.lastDisplay ELSE -MAX_INT
             b == [app EXCEPT !.lastDisplay = y]
  <2>1. FlushOutput(m).dpb = <<>> /\ FlushOutput(m).app = b /\ FlushOutput(m).written = v
    BY DEF FlushOutput
  <2>2. dpb' = <<>> /\ app' = b /\ written' = v
    BY <1>1, <1>4, <2>1
  <2>3. MAX_INT \in Int
    BY DEF MAX_INT
  <2>4. y \in Int
    BY <1>2, <2>3 DEF Apps
  <2> HIDE DEF y
  <2>5. b \in Apps
    BY <1>2, <2>4 DEF Apps
  <2> HIDE DEF b
  <2>6. v \in Seq(WrittenPictures) /\ WrittenFrom(v, written, dpb)
    BY <1>2, WithWrittenFacts
  <2> HIDE DEF v
  <2>7. WrittenWhole(stream, v)
    <3>1. \A q \in Pics(dpb) : q.output => \A k \in q.nals : q.nals = SlicesOfPicture(stream, k)
      BY <1>2 DEF ListInv, PictureInv
    <3> QED
      BY <1>2, <2>6, <3>1 DEF WrittenWhole, WrittenFrom
  <2>8. Pics(<<>>) = {}
    BY DEF Pics
  <2>9. ListInv(stream, Past(stream, pos), <<>>)
    BY <2>8 DEF ListInv, ReferencesHeld
  <2>10. StartInv(stream, pos, <<>>, dec, b)
    <3>1. Past(stream, pos) # {}
      BY <1>2, <1>4 DEF StartInv
    <3> QED
      BY <1>3, <3>1 DEF StartInv
  <2>11. <<>> \in Seq(Pictures)
    OBVIOUS
  <2> QED
    BY <1>1, <1>2, <1>3, <2>2, <2>5, <2>6, <2>7, <2>9, <2>10, <2>11 DEF Then, DecoderInv
<1>5. CASE ~app.listKnown
  <2>1. dpb' = dpb /\ app' = app /\ written' = written
    BY <1>1, <1>5
  <2> QED
    BY <1>1, <2>1 DEF Now, Then
<1> QED
  BY <1>4, <1>5
-----------------------------------------------------------------------------
(* The theorems.                                                           *)

Inv == /\ Given /\ Now /\ ReferencesRight
       /\ status \in {"running", "finished", "aborted"}

(* The decoder starts with nothing decoded.                                *)
LEMMA InitInv == ASSUME Init, Conforming(stream, settings) PROVE Inv
<1>1. /\ ValidSettings(settings) /\ pos = 1 /\ dpb = <<>> /\ dec = InitDec /\ app = InitApp
      /\ written = <<>> /\ refs = {} /\ status = "running"
  BY StreamsAssumption DEF Init
<1>2. MAX_INT \in Int /\ settings.skipFrame = 0
  BY DEF MAX_INT, Conforming
<1> HIDE DEF MAX_INT
<1>3. -MAX_INT + 0 \in Int
  BY <1>2
<1>4. app \in Apps /\ ~app.listKnown
  BY <1>1, <1>2, <1>3 DEF InitApp, Apps, SkipFrame
<1>5. dec \in Decs
  <2>1. <<>> \in Seq(Entries) /\ 0 \in Int /\ -1 \in Int
    OBVIOUS
  <2>2. NoSlice \in [poc : Int, st : Seq(Entries), lt : {<<>>}, out : BOOLEAN]
    BY <2>1 DEF NoSlice
  <2> HIDE DEF NoSlice
  <2> QED
    BY <1>1, <1>2, <2>1, <2>2 DEF InitDec, Decs
<1>6. \A k \in SlicesIn(stream) : ~(k < 1)
  BY ConformingNALs
<1>7. NoneSince(stream, 1)
  BY <1>6 DEF NoneSince
<1>8. Registers(stream, 1, dec)
  BY <1>1, <1>6, <1>7 DEF Registers, RandomAccessInv, PrevInv, Tid0Inv, IRAPInv, RASLInv, LastIRAP, InitDec
<1>9. Past(stream, 1) = {}
  BY <1>6 DEF Past, Decoded, Decodable
<1>10. Pics(<<>>) = {}
  BY DEF Pics
<1>11. ListInv(stream, {}, <<>>) /\ Reconstructed(<<>>, dec) /\ WrittenWhole(stream, <<>>)
  BY <1>10 DEF ListInv, ReferencesHeld, Reconstructed, WrittenWhole
<1>12. StartInv(stream, 1, <<>>, dec, app)
  BY <1>1, <1>4, <1>9 DEF StartInv, InitDec
<1>13. <<>> \in Seq(Pictures) /\ <<>> \in Seq(WrittenPictures) /\ 1 \in Nat \ {0}
  OBVIOUS
<1>14. Now
  BY <1>1, <1>4, <1>5, <1>8, <1>9, <1>11, <1>12, <1>13 DEF Now, DecoderInv
<1>15. ReferencesRight
  BY <1>1 DEF ReferencesRight
<1> QED
  BY <1>1, <1>14, <1>15 DEF Inv, Given


(* Every action keeps the invariant.                                       *)
LEMMA NextInv == ASSUME Inv, [Next]_vars PROVE Inv'
<1>1. Given /\ Now /\ ReferencesRight /\ status \in {"running", "finished", "aborted"}
  BY DEF Inv
<1>2. settings' = settings /\ stream' = stream
  BY DEF Next, vars, IgnoreNal, EndOfSequence, SkipSlice, FindNewPicture, DecodeSlice, Finish
<1>3. Given'
  BY <1>1, <1>2 DEF Given, ValidSettings, Conforming, PicturesContiguous, IRAPPicturesFirst, POCsDerivable,
     RandomAccessFirst, POCsUnique, ReferencesKept, SlicesIn, NoEOS, Begins, LastIRAP, Decodable,
     CannotBeDecoded
<1>4. Then => Now'
  <2> SUFFICES ASSUME Then PROVE Now'
    OBVIOUS
  <2>1. ListInv(stream, Past(stream, pos), dpb)'
    <3>1. ListInv(stream, Past(stream, pos'), dpb')
      BY DEF Then, DecoderInv
    <3>2. Past(stream, pos)' = Past(stream, pos')
      BY <1>2 DEF Past, Decoded, Decodable, SlicesIn, CannotBeDecoded, LastIRAP, Begins, NoEOS
    <3>3. SlicesIn(stream)' = SlicesIn(stream)
      BY <1>2 DEF SlicesIn
    <3>4. ReferencesHeld(stream, Past(stream, pos), dpb)'
      BY <1>2, <3>1, <3>2 DEF ListInv, ReferencesHeld, Pics
    <3>5. ASSUME NEW q \in Pics(dpb') PROVE PictureInv(stream, Past(stream, pos), q)'
      <4>1. PictureInv(stream, Past(stream, pos'), q)
        BY <3>1, <3>5 DEF ListInv
      <4> QED
        BY <1>2, <3>2, <3>3, <4>1 DEF PictureInv, SlicesOfPicture
    <3> QED
      BY <3>4, <3>5 DEF ListInv, Pics
  <2>2. WrittenWhole(stream, written)' /\ (pos <= Len(stream) => Reconstructed(dpb, dec))'
    BY <1>2 DEF Then, DecoderInv, WrittenWhole, SlicesOfPicture, SlicesIn, Reconstructed, Pics
  <2>3. StartInv(stream, pos, dpb, dec, app)'
    BY <1>2 DEF Then, DecoderInv, StartInv, Past,
       Decoded, Decodable, SlicesIn, CannotBeDecoded, LastIRAP, Begins, NoEOS
  <2>4. (pos <= Len(stream) => Registers(stream, pos, dec))'
    <3>1. pos' <= Len(stream) => Registers(stream, pos', dec')
      BY DEF Then, DecoderInv
    <3>2. NoneSince(stream, pos)' <=> NoneSince(stream, pos')
      BY <1>2 DEF NoneSince, SlicesIn, NoEOS
    <3>3. RandomAccessInv(stream, pos, dec)' <=> RandomAccessInv(stream, pos', dec')
      BY <1>2, <3>2 DEF RandomAccessInv, Decoded, Decodable, SlicesIn, CannotBeDecoded, LastIRAP, Begins, NoEOS
    <3>4. PrevInv(stream, pos, dec)' <=> PrevInv(stream, pos', dec')
      BY <1>2 DEF PrevInv, Decoded, Decodable, SlicesIn, CannotBeDecoded, LastIRAP, Begins, NoEOS
    <3>5. Tid0Inv(stream, pos, dec)' <=> Tid0Inv(stream, pos', dec')
      BY <1>2, <3>2 DEF Tid0Inv, SlicesIn
    <3>6. IRAPInv(stream, pos, dec)' <=> IRAPInv(stream, pos', dec')
      BY <1>2, <3>2 DEF IRAPInv, SlicesIn, LastIRAP, NoEOS
    <3>7. SliceInv(stream, pos, dec)' <=> SliceInv(stream, pos', dec')
      BY <1>2 DEF SliceInv, Decoded, Decodable, SlicesIn, CannotBeDecoded, LastIRAP, Begins, NoEOS
    <3>8. RASLInv(stream, pos, dec)' <=> RASLInv(stream, pos', dec')
      BY <1>2 DEF RASLInv, SlicesIn, LastIRAP, Begins, NoEOS
    <3> QED
      BY <1>2, <3>1, <3>2, <3>3, <3>4, <3>5, <3>6, <3>7, <3>8 DEF Registers
  <2> QED
    BY <1>2, <2>1, <2>2, <2>3, <2>4 DEF Now, Then, DecoderInv
<1>5. (\A r \in refs' : r.nals = Meant(r.slice, r.entry)) => ReferencesRight'
  BY <1>2 DEF ReferencesRight, Meant, Slices
<1>6. refs' = refs => \A r \in refs' : r.nals = Meant(r.slice, r.entry)
  BY <1>1 DEF ReferencesRight
<1>7. CASE IgnoreNal
  <2>1. refs' = refs /\ status' = status
    BY <1>7 DEF IgnoreNal
  <2> QED
    BY <1>1, <1>3, <1>4, <1>5, <1>6, <1>7, <2>1, IgnoreNalInv DEF Inv
<1>8. CASE EndOfSequence
  <2>1. refs' = refs /\ status' = status
    BY <1>8 DEF EndOfSequence
  <2> QED
    BY <1>1, <1>3, <1>4, <1>5, <1>6, <1>8, <2>1, EndOfSequenceInv DEF Inv
<1>9. CASE SkipSlice
  <2>1. refs' = refs /\ status' = status
    BY <1>9 DEF SkipSlice
  <2> QED
    BY <1>1, <1>3, <1>4, <1>5, <1>6, <1>9, <2>1, SkipSliceInv DEF Inv
<1>10. CASE FindNewPicture
  <2>1. refs' = refs /\ status' = status
    BY <1>10 DEF FindNewPicture
  <2> QED
    BY <1>1, <1>3, <1>4, <1>5, <1>6, <1>10, <2>1, FindNewPictureInv DEF Inv
<1>11. CASE DecodeSlice
  <2>1. status = "running"
    BY <1>11 DEF DecodeSlice, ReadsSlice, Reading
  <2> QED
    BY <1>1, <1>3, <1>4, <1>5, <1>11, <2>1, DecodeSliceInv DEF Inv
<1>12. CASE Finish
  <2>1. refs' = refs /\ status' = "finished"
    BY <1>12 DEF Finish
  <2> QED
    BY <1>1, <1>3, <1>4, <1>5, <1>6, <1>12, <2>1, FinishInv DEF Inv
<1>13. CASE UNCHANGED vars
  <2>1. /\ pos' = pos /\ dpb' = dpb /\ dec' = dec /\ app' = app /\ written' = written /\ refs' = refs
        /\ status' = status
    BY <1>13 DEF vars
  <2>2. Then
    BY <1>1, <2>1 DEF Now, Then
  <2> QED
    BY <1>1, <1>3, <1>4, <1>5, <1>6, <2>1, <2>2 DEF Inv
<1> QED
  BY <1>7, <1>8, <1>9, <1>10, <1>11, <1>12, <1>13 DEF Next

LEMMA InvHolds == Spec /\ Conforming(stream, settings) => []Inv
<1>1. Init /\ Conforming(stream, settings) => Inv
  BY InitInv
<1>2. Inv /\ [Next]_vars => Inv'
  BY NextInv
<1> QED
  BY <1>1, <1>2, PTL DEF Spec

(* What the properties ask of the decoder follows from the invariant.      *)
LEMMA InvImplies ==
  ASSUME Inv PROVE OnePicturePerBuffer /\ POCRight /\ WholePictures /\ ReferencesRight
<1>1. /\ ReferencesRight /\ dpb \in Seq(Pictures) /\ WrittenWhole(stream, written)
      /\ ListInv(stream, Past(stream, pos), dpb)
  BY DEF Inv, Now, DecoderInv
<1>2. ASSUME NEW i \in DOMAIN dpb, NEW a \in dpb[i].nals, NEW b \in dpb[i].nals
      PROVE  stream[a].pic = stream[b].pic /\ dpb[i].poc = stream[a].poc
  <2>1. PictureInv(stream, Past(stream, pos), dpb[i])
    BY <1>1, <1>2 DEF ListInv, Pics
  <2> QED
    BY <1>2, <2>1 DEF PictureInv
<1>3. \A k : PictureOf(k) = SlicesOfPicture(stream, k)
  BY DEF PictureOf, SlicesOfPicture, Slices, SlicesIn
<1> QED
  BY <1>1, <1>2, <1>3 DEF OnePicturePerBuffer, POCRight, WholePictures, WrittenWhole

(* No buffer of the decoder ever holds slices of two pictures of the       *)
(* stream: SkipSlice, FindNewPicture and DecodeSlice tell where a picture  *)
(* of a conforming bitstream ends, whatever is skipped.                    *)
THEOREM BuffersHoldOnePicture ==
  Spec /\ Conforming(stream, settings) => []OnePicturePerBuffer
<1>1. Inv => OnePicturePerBuffer
  BY InvImplies
<1> QED
  BY <1>1, InvHolds, PTL

(* The POC derived from the LSBs of the slice header is the POC the        *)
(* encoder meant, over all of the bitstream: m_prevTid0POC counts the      *)
(* slices the encoder counts, skipped ones too.                            *)
THEOREM POCIsTheEncoders ==
  Spec /\ Conforming(stream, settings) => []POCRight
<1>1. Inv => POCRight
  BY InvImplies
<1> QED
  BY <1>1, InvHolds, PTL

(* A picture is written when all of its slices were decoded, never before: *)
(* xWriteOutput runs when a picture is complete, with the next one not     *)
(* begun.                                                                  *)
THEOREM PicturesAreWrittenWhole ==
  Spec /\ Conforming(stream, settings) => []WholePictures
<1>1. Inv => WholePictures
  BY InvImplies
<1> QED
  BY <1>1, InvHolds, PTL

(* Every entry a slice uses finds, in the picture list, all slices of the  *)
(* picture the encoder meant: nothing is removed, replaced or mistaken for *)
(* another picture with the same POC.                                      *)
THEOREM ReferencesAreMeant ==
  Spec /\ Conforming(stream, settings) => []ReferencesRight
<1>1. Inv => ReferencesRight
  BY InvImplies
<1> QED
  BY <1>1, InvHolds, PTL

(* The search for references never leaves the picture list, and            *)
(* concealment of lost pictures ends (it is not begun).                    *)
SearchesSucceed == status \notin {"undefined", "hung"}

(* No bitstream that conforms makes the search for references leave the    *)
(* list, or starts a concealment that does not end.                        *)
THEOREM SearchesAlwaysSucceed ==
  Spec /\ Conforming(stream, settings) => []SearchesSucceed
<1>1. Inv => SearchesSucceed
  BY DEF Inv, SearchesSucceed
<1> QED
  BY <1>1, InvHolds, PTL
=============================================================================
