------------------------ MODULE DecodedPictureBuffer ------------------------
(***************************************************************************)
(* What TDecTop, TComSlice and TAppDecTop do with m_cListPic, the list of  *)
(* pictures the decoder holds: finding a buffer, sorting, marking by the   *)
(* reference picture set, concealing lost pictures, choosing references.   *)
(*                                                                         *)
(* The list is a sequence of picture records, in list order:               *)
(*   nals       the NAL units decoded into the buffer (empty: concealed)   *)
(*   poc, type, tid, assocPOC, picOutput, nonRef    of its slice 0         *)
(*   recon, output, referenced, usedByCurr, longTerm    its marks          *)
(*   current    m_pcPic points to it                                       *)
(* A slice is a record with its poc, type, tid and reference picture set:  *)
(* st, the short-term entries [delta, used], and lt, the                   *)
(* long-term entries [poc, msb, used], poc being only its LSBs if ~msb,    *)
(* both in the order of the arrays of TComReferencePictureSet.             *)
(***************************************************************************)
EXTENDS Integers, Sequences, FiniteSets
LOCAL INSTANCE SequencesExt
LOCAL INSTANCE FiniteSetsExt

VARIABLE settings   \* what the active SPS says, and the command line; it never changes

MaxPocLsb == settings.maxPocLsb                     \* 1 << log2_max_pic_order_cnt_lsb
MaxDecPicBuffering == settings.maxDecPicBuffering   \* per temporal layer, the current picture counted
NumReorderPics == settings.numReorderPics           \* per temporal layer

ValidSettings(s) ==
  /\ s.maxPocLsb \in Nat \ {0}
  /\ DOMAIN s.numReorderPics = DOMAIN s.maxDecPicBuffering
  /\ Cardinality(DOMAIN s.maxDecPicBuffering) \in Nat \ {0}
  /\ DOMAIN s.maxDecPicBuffering = 0..(Cardinality(DOMAIN s.maxDecPicBuffering) - 1)
  /\ \A t \in DOMAIN s.maxDecPicBuffering :
       s.maxDecPicBuffering[t] \in Nat \ {0} /\ s.numReorderPics[t] \in Nat
  /\ s.maxTemporalLayer \in Nat \cup {-1} /\ s.skipFrame \in Nat

MAX_INT == 2147483647

IRAPTypes    == {"IDR", "BLA", "CRA"}
LeadingTypes == {"RASL", "RADL"}

(* A picture after TComPic::TComPic and TComPic::create, with a new slice 0. *)
FreshPicture ==
  [nals |-> {}, poc |-> 0, type |-> "IDR", tid |-> 0, assocPOC |-> 0, picOutput |-> TRUE,
   nonRef |-> FALSE, recon |-> FALSE, output |-> FALSE, referenced |-> FALSE,
   usedByCurr |-> FALSE, longTerm |-> FALSE, current |-> FALSE]

(* The list with Op applied to each picture.  (Concatenation makes TLC       *)
(* evaluate it once, as a sequence.)                                         *)
MapPictures(dpb, Op(_)) == <<>> \o [i \in DOMAIN dpb |-> Op(dpb[i])]

(* The elements of l at these places, in order.                              *)
InOrder(l, places) ==
  <<>> \o [k \in 1..Cardinality(places) |->
             l[CHOOSE i \in places : Cardinality({j \in places : j <= i}) = k]]

-----------------------------------------------------------------------------
(* The pictures xGetNewPicBuffer may overwrite. *)
IsReusable(p) == ~p.output /\ (~p.recon \/ ~p.referenced)

(* xGetNewPicBuffer: the index of the buffer for a new picture; an index     *)
(* beyond the list means that the list grows, as it does when it is not full *)
(* and when nothing in it may be overwritten.                                *)
NewBufferIndex(dpb, tid) ==
  LET first == SelectInSeq(dpb, IsReusable)
  IN  IF Len(dpb) < MaxDecPicBuffering[tid] \/ first = 0 THEN Len(dpb) + 1 ELSE first

PutPicture(dpb, i, p) == IF i > Len(dpb) THEN Append(dpb, p) ELSE [dpb EXCEPT ![i] = p]

(* The picture in buffer i after xGetNewPicBuffer: create() does not reset   *)
(* the long-term mark and the temporal layer of a buffer that is used again.  *)
NewPicture(dpb, i) ==
  IF i > Len(dpb) THEN FreshPicture
  ELSE [FreshPicture EXCEPT !.longTerm = dpb[i].longTerm, !.tid = dpb[i].tid]

\* Mutant: the pictures are sorted the wrong way round.
Before_Backwards(dpb, i, j) == dpb[i].poc > dpb[j].poc \/ (dpb[i].poc = dpb[j].poc /\ i > j)

(* sortPicList is an insertion sort that puts a picture before the first one *)
(* whose POC is not smaller: pictures with the same POC change places.       *)
Before(dpb, i, j) == dpb[i].poc < dpb[j].poc \/ (dpb[i].poc = dpb[j].poc /\ i > j)

SortPicList(dpb) ==
  LET Rank(i) == 1 + Cardinality({j \in DOMAIN dpb : Before(dpb, j, i)})
  IN  <<>> \o [k \in DOMAIN dpb |-> dpb[CHOOSE i \in DOMAIN dpb : Rank(i) = k]]

-----------------------------------------------------------------------------
(* Reference picture sets *)

LongTermMatch(poc, e) ==
  IF e.msb THEN poc = e.poc ELSE poc % MaxPocLsb = e.poc % MaxPocLsb

RefPOC(s, e) == s.poc + e.delta

ShortTermEntries(p, s) == {i \in DOMAIN s.st : ~p.longTerm /\ p.poc = RefPOC(s, s.st[i])}
LongTermEntries(p, s)  == {i \in DOMAIN s.lt : p.longTerm /\ LongTermMatch(p.poc, s.lt[i])}

(* The marks applyReferencePictureSet gives to one picture. *)
\* Mutant: every picture stays marked as used for reference.
MarkPicture_KeepsAll(p, s) == p

MarkPicture(p, s) ==
  LET st == ShortTermEntries(p, s)
      lt == LongTermEntries(p, s)
  IN  IF ~p.referenced THEN p
      ELSE IF st \cup lt # {}
      THEN [p EXCEPT !.usedByCurr = IF lt # {} THEN s.lt[Max(lt)].used ELSE s.st[Max(st)].used]
      ELSE IF p.poc # s.poc
      THEN [p EXCEPT !.referenced = FALSE, !.usedByCurr = FALSE, !.longTerm = FALSE]
      ELSE p

ApplyReferencePictureSet(dpb, s) == MapPictures(dpb, LAMBDA p : MarkPicture(p, s))

(* The assertions of applyReferencePictureSet on a marked picture. *)
MarkingAllowed(p, s) ==
  p.referenced =>
    /\ p.usedByCurr => p.tid <= s.tid
    /\ s.type = "TSA" => p.tid < s.tid
    /\ p.poc # s.poc /\ p.tid = s.tid /\ p.usedByCurr => ~p.nonRef

(* checkLeadingPictureRestrictions, for a slice s and a picture of the list. *)
LeadingRestriction(p, s) ==
  p.recon /\ p.poc # s.poc =>
    /\ p.picOutput /\ ~s.noOutputPriorPics /\ s.type \in IRAPTypes => p.poc < s.poc
    /\ p.picOutput /\ s.type = "RADL" /\ s.assocPOC > p.assocPOC /\ s.assocPOC # p.poc
         => p.poc < s.poc
    /\ s.type \in LeadingTypes /\ p.assocPOC = s.assocPOC => p.poc <= s.assocPOC
    /\ s.type = "RASL" /\ s.assocType \in {"BLA", "CRA"} /\ s.assocPOC = p.assocPOC
         /\ p.type = "RADL" => p.poc > s.poc
    /\ s.type = "RASL" /\ s.assocType = "CRA" /\ p.poc < s.assocPOC /\ p.type \in IRAPTypes
         => s.poc > p.poc

LeadingRestrictions(dpb, s) ==
  /\ s.assocPOC > s.poc /\ s.type \notin IRAPTypes => s.type \in LeadingTypes
  /\ s.assocPOC < s.poc => s.type \notin LeadingTypes
  /\ s.type = "RASL" => s.assocType # "IDR"
  /\ \A i \in DOMAIN dpb : LeadingRestriction(dpb[i], s)

-----------------------------------------------------------------------------
(* Lost pictures *)

HasShortTerm(dpb, poc) ==
  \E i \in DOMAIN dpb : ~dpb[i].longTerm /\ dpb[i].poc = poc /\ dpb[i].referenced

(* A long-term entry is looked for among the long-term pictures, then among  *)
(* all; a picture found there is marked as long-term.  (TLC evaluates dpb    *)
(* once, because it is bound to l.)                                          *)
MarkLongTerm(dpb, e) ==
  LET Match(p) == p.referenced /\ LongTermMatch(p.poc, e)
      Marked(l) == LET first == SelectInSeq(l, Match)
                   IN  IF first = 0 \/ \E i \in DOMAIN l : l[i].longTerm /\ Match(l[i]) THEN l
                       ELSE [l EXCEPT ![first].longTerm = TRUE]
  IN  CHOOSE marked \in {Marked(l) : l \in {dpb}} : TRUE

HasLongTerm(dpb, e) ==
  \E i \in DOMAIN dpb : dpb[i].referenced /\ LongTermMatch(dpb[i].poc, e)

(* The list after checkThatAllRefPicsAreAvailable, which looks at the        *)
(* long-term entries first.                                                  *)
MarkLongTerms(dpb, s) ==
  LET marked[i \in 0..Len(s.lt)] == IF i = 0 THEN dpb ELSE MarkLongTerm(marked[i - 1], s.lt[i])
  IN  marked[Len(s.lt)]

(* The POCs it reports as lost, in the order it meets them: the pictures the *)
(* slice uses, that are not there and do not precede the random access point.*)
LostPOCs(dpb, s, pocRandomAccess) ==
  LET marked  == MarkLongTerms(dpb, s)
      lost(e) == e.used /\ e.poc >= pocRandomAccess
      short == [i \in DOMAIN s.st |-> [poc |-> RefPOC(s, s.st[i]), used |-> s.st[i].used]]
      lt == InOrder(s.lt, {i \in DOMAIN s.lt : lost(s.lt[i]) /\ ~HasLongTerm(dpb, s.lt[i])})
      st == InOrder(short, {i \in DOMAIN short : lost(short[i]) /\ ~HasShortTerm(marked, short[i].poc)})
      all == lt \o st
  IN  [i \in DOMAIN all |-> all[i].poc]

\* Mutant: the first buffer is taken, free or not.
CreateLostPicture_FirstBuffer(dpb, poc) ==
  PutPicture(dpb, 1, [NewPicture(dpb, 1) EXCEPT
                        !.poc = poc, !.referenced = TRUE, !.recon = TRUE, !.output = TRUE])

(* xCreateLostPicture: the list with a concealment picture for poc.  The     *)
(* samples come from the nearest picture; which one is not modelled.         *)
CreateLostPicture(dpb, poc) ==
  LET i == NewBufferIndex(dpb, 0)
  IN  PutPicture(dpb, i, [NewPicture(dpb, i) EXCEPT
                            !.poc = poc, !.referenced = TRUE, !.recon = TRUE, !.output = TRUE])

\* Mutant: pictures lost are reported but never replaced.
Concealed_None(dpb, s, pocRandomAccess) == <<>>

(* The POCs xDecodeSlice conceals, in this order: of those reported the last *)
(* one, again and again.  Its POC is returned plus one, and the loop ends at *)
(* a value that is not positive.                                             *)
Concealed(dpb, s, pocRandomAccess) ==
  LET lost == Reverse(LostPOCs(dpb, s, pocRandomAccess))
      end  == SelectInSeq(lost, LAMBDA poc : poc < 0)
  IN  IF end = 0 THEN lost ELSE SubSeq(lost, 1, end - 1)

ConcealLostPictures(dpb, s, pocRandomAccess) ==
  LET lost == Concealed(dpb, s, pocRandomAccess)
      list[i \in 0..Len(lost)] ==
        IF i = 0 THEN MarkLongTerms(dpb, s) ELSE CreateLostPicture(list[i - 1], lost[i])
  IN  MarkLongTerms(list[Len(lost)], s)

-----------------------------------------------------------------------------
(* References: setRefPicList looks the used entries up in the list. *)

(* xGetRefPic: the first picture with that POC; 0 if the search leaves the   *)
(* list.                                                                     *)
RefPicIndex(dpb, poc) == SelectInSeq(dpb, LAMBDA p : p.poc = poc)

(* xGetLongTermRefPic: the first picture of the list if there is no match. *)
LongTermRefPicIndex(dpb, s, e) ==
  LET found == SelectInSeq(dpb, LAMBDA p : p.poc # s.poc /\ p.referenced /\ LongTermMatch(p.poc, e))
  IN  IF found = 0 THEN 1 ELSE found

UsedShortTerm(s) == {i \in DOMAIN s.st : s.st[i].used}
UsedLongTerm(s)  == {i \in DOMAIN s.lt : s.lt[i].used}

ShortTermRefs(dpb, s) == {RefPicIndex(dpb, RefPOC(s, s.st[i])) : i \in UsedShortTerm(s)}
LongTermRefs(dpb, s)  == {LongTermRefPicIndex(dpb, s, s.lt[i]) : i \in UsedLongTerm(s)}

(* The list after setRefPicList set the long-term marks of the references. *)
MarkReferences(dpb, s) ==
  LET long  == LongTermRefs(dpb, s)
      short == ShortTermRefs(dpb, s)
      Mark(i) == IF i \in long THEN [dpb[i] EXCEPT !.longTerm = TRUE]
                 ELSE IF i \in short THEN [dpb[i] EXCEPT !.longTerm = FALSE]
                 ELSE dpb[i]
  IN  <<>> \o [i \in DOMAIN dpb |-> Mark(i)]
=============================================================================
