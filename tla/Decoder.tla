------------------------------ MODULE Decoder ------------------------------
(***************************************************************************)
(* The decoder: TDecTop (decode, xDecodeSlice, executeLoopFilters) driven  *)
(* by the main loop of TAppDecTop, which writes pictures in output order.  *)
(*                                                                         *)
(* The bitstream is a sequence of NAL units chosen when the decoder starts *)
(* and never changed; one step is one turn of the main loop.  A slice NAL  *)
(* unit is a record with                                                   *)
(*   type, tid, ref      nal_unit_type, its temporal id, a reference type? *)
(*   first, dep          slice address 0?  dependent slice segment?        *)
(*   poc                 its picture order count; only the LSBs are coded  *)
(*   st, lt              its reference picture set, lt with coded POCs     *)
(*   out, noPrior        pic_output_flag, no_output_of_prior_pics_flag     *)
(*   pic, cvs            the number of its picture and of its coded video  *)
(*                       sequence; these, poc beyond its LSBs and the POC  *)
(*                       meant by an entry of lt are known to the encoder  *)
(*                       and used by the properties, not by the decoder    *)
(* Other NAL units have type "EOS" (end of sequence) or "OTHER" (one that  *)
(* changes nothing modelled here).                                         *)
(***************************************************************************)
EXTENDS DecodedPictureBuffer
LOCAL INSTANCE SequencesExt

CONSTANT Streams              \* the bitstreams the decoder may be given, [nals, settings]

ASSUME StreamsAssumption == \A s \in Streams : ValidSettings(s.settings)

MaxTemporalLayer == settings.maxTemporalLayer   \* m_iMaxTemporalLayer, -1 for all
SkipFrame == settings.skipFrame                 \* the initial value of m_iSkipFrame

VARIABLES stream, pos,        \* the bitstream and the next NAL unit to read
          dpb,                \* m_cListPic
          dec,                \* the other members of TDecTop
          app,                \* the members and locals of TAppDecTop::decode
          written,            \* history: the pictures written, in order
          refs,               \* history: [slice, entry, nals]: what a used entry stood for
          discarded,          \* history: NAL units of pictures not to be output any more
          status              \* "running", "finished", "aborted" (an assertion),
                              \* "undefined" (a search left the picture list) or
                              \* "hung" (concealment does not end)

vars == <<settings, stream, pos, dpb, dec, app, written, refs, discarded, status>>

SliceTypes == {"TRAIL", "TSA"} \cup LeadingTypes \cup IRAPTypes
NoSlice == [poc |-> 0, st |-> <<>>, lt |-> <<>>, out |-> TRUE]

InitDec ==
  [firstSliceInPicture |-> TRUE, firstSliceInSequence |-> TRUE, firstSliceInBitstream |-> TRUE,
   prevPOC |-> MAX_INT, prevTid0POC |-> 0, pocRandomAccess |-> MAX_INT, pocCRA |-> 0,
   associatedIRAPType |-> "INVALID", craNoRaslOutputFlag |-> FALSE,
   isNoOutputPriorPics |-> FALSE, lastPOCNoOutputPriorPics |-> -1,
   prevSliceSkipped |-> FALSE, skippedPOC |-> 0, slice |-> NoSlice]

InitApp == [lastDisplay |-> -MAX_INT + SkipFrame, listKnown |-> FALSE,
            loopFiltered |-> FALSE, skipFrame |-> SkipFrame]

Init ==
  /\ \E s \in Streams : stream = s.nals /\ settings = s.settings
  /\ pos = 1
  /\ dpb = <<>> /\ dec = InitDec /\ app = InitApp
  /\ written = <<>> /\ refs = {} /\ discarded = {}
  /\ status = "running"

nal == stream[pos]
AtEnd == pos = Len(stream)
TargetLayer(s) ==                               \* iMaxTemporalLayer where pictures are written
  LET layers == Cardinality(DOMAIN s.maxDecPicBuffering)
  IN  IF s.maxTemporalLayer = -1 \/ s.maxTemporalLayer >= layers THEN layers - 1 ELSE s.maxTemporalLayer
SubLayer == TargetLayer(settings)

-----------------------------------------------------------------------------
(* The slice header: xDecodeSlice up to the skipping of pictures.           *)

(* parseSliceHeader: the POC with these LSBs nearest to the previous one. *)
DerivedPOC(lsb, prev, type) ==
  LET prevLsb == prev % MaxPocLsb
      prevMsb == prev - prevLsb
      msb == IF lsb < prevLsb /\ prevLsb - lsb >= MaxPocLsb \div 2 THEN prevMsb + MaxPocLsb
             ELSE IF lsb > prevLsb /\ lsb - prevLsb > MaxPocLsb \div 2 THEN prevMsb - MaxPocLsb
             ELSE prevMsb
  IN  IF type = "IDR" THEN 0 ELSE IF type = "BLA" THEN lsb ELSE msb + lsb

(* What a dependent slice inherits: the slice before it in the picture, or   *)
(* what a skipped one left in the slice pilot.                               *)
Inherited(d) == IF d.firstSliceInPicture /\ ~d.prevSliceSkipped THEN NoSlice ELSE d.slice

HeaderPOC(n, d) ==
  IF ~n.dep THEN DerivedPOC(n.poc % MaxPocLsb, d.prevTid0POC, n.type)
  ELSE IF d.prevSliceSkipped THEN d.skippedPOC
  ELSE Inherited(d).poc

(* NoRaslOutputFlag and NoOutputPriorPicsFlag, as xDecodeSlice infers them. *)
NoRaslOutput(n, d) == n.type \in {"IDR", "BLA"} \/ (n.type = "CRA" /\ d.firstSliceInSequence)
NoOutputPriorPics(n, d) ==
  /\ n.type \in IRAPTypes /\ ~d.firstSliceInBitstream /\ NoRaslOutput(n, d)
  /\ n.type = "CRA" \/ n.noPrior

UpdatesTid0POC(n) == n.tid = 0 /\ n.ref /\ n.type \notin LeadingTypes

\* Mutant: the POC of a CRA picture that starts a sequence keeps its MSBs.
HeaderDec_CRAKeepsMsb(n, d) ==
  LET poc == HeaderPOC(n, d)
  IN  [d EXCEPT !.prevTid0POC = IF UpdatesTid0POC(n) THEN poc ELSE @,
                !.isNoOutputPriorPics = NoOutputPriorPics(n, d),
                !.lastPOCNoOutputPriorPics = IF NoOutputPriorPics(n, d) THEN poc ELSE @]

(* The decoder after the header: a CRA picture that starts a sequence loses *)
(* the MSBs of its POC, after its POC was noted as the one not to discard.  *)
HeaderDec(n, d) ==
  LET poc == HeaderPOC(n, d)
      cra == IF n.type = "CRA" THEN NoRaslOutput(n, d) ELSE d.craNoRaslOutputFlag
      tid0 == IF n.type = "CRA" /\ cra THEN poc % MaxPocLsb ELSE poc
  IN  [d EXCEPT !.prevTid0POC = IF UpdatesTid0POC(n) THEN tid0 ELSE @,
                !.craNoRaslOutputFlag = cra,
                !.isNoOutputPriorPics = NoOutputPriorPics(n, d),
                !.lastPOCNoOutputPriorPics = IF NoOutputPriorPics(n, d) THEN poc ELSE @]

(* A long-term entry is coded as the LSBs of a POC and, with its MSBs, as a  *)
(* number of LSB cycles to go back from the POC of the slice.                *)
LongTermPOCs(n, poc) ==
  [i \in DOMAIN n.lt |->
     [poc |-> n.lt[i].lsb + IF n.lt[i].msb THEN (poc - (poc % MaxPocLsb)) - n.lt[i].cycle * MaxPocLsb ELSE 0,
      msb |-> n.lt[i].msb, used |-> n.lt[i].used]]

(* The slice the header describes; dh is the decoder after the header. *)
HeaderSlice(n, d, dh) ==
  LET poc == HeaderPOC(n, d)
      src == IF n.dep THEN Inherited(d) ELSE [n EXCEPT !.lt = LongTermPOCs(n, poc)]
  IN  [poc |-> IF n.type = "CRA" /\ dh.craNoRaslOutputFlag THEN poc % MaxPocLsb ELSE poc,
       type |-> n.type, tid |-> n.tid, nonRef |-> n.type \notin IRAPTypes /\ ~n.ref,
       st |-> IF n.type \in {"IDR", "BLA"} THEN <<>> ELSE src.st,
       lt |-> IF n.type \in {"IDR", "BLA"} THEN <<>> ELSE src.lt,
       picOutput |-> IF n.type = "RASL" /\ dh.craNoRaslOutputFlag THEN FALSE
                     ELSE src.out,
       noOutputPriorPics |-> NoOutputPriorPics(n, d),
       assocPOC |-> d.pocCRA, assocType |-> d.associatedIRAPType]

-----------------------------------------------------------------------------
(* Skipping: isRandomAccessSkipPicture and isSkipPictureForBLA. *)

(* The random access point, once the first picture that is one is met. *)
RandomAccessPOC(s, d) ==
  IF d.pocRandomAccess # MAX_INT THEN d.pocRandomAccess
  ELSE IF s.type \in {"CRA", "BLA"} THEN s.poc
  ELSE IF s.type = "IDR" THEN -MAX_INT ELSE MAX_INT

SkippedForRandomAccess(s, d) ==
  IF d.pocRandomAccess = MAX_INT THEN s.type \notin IRAPTypes
  ELSE s.poc < d.pocRandomAccess /\ s.type = "RASL"

SkippedForBLA(s, d) ==
  d.associatedIRAPType = "BLA" /\ s.poc < d.pocCRA /\ s.type = "RASL"

IsSkipped(s, d) == app.skipFrame > 0 \/ SkippedForRandomAccess(s, d) \/ SkippedForBLA(s, d)

SliceFields(s) == [poc |-> s.poc, st |-> s.st, lt |-> s.lt, out |-> s.picOutput]

(* The decoder after a slice that is skipped, and after one that is not. *)
SkipDec(s, d) ==
  [d EXCEPT !.prevSliceSkipped = TRUE, !.skippedPOC = s.poc,
            !.pocRandomAccess = IF app.skipFrame > 0 THEN @ ELSE RandomAccessPOC(s, d),
            !.slice = IF d.firstSliceInPicture THEN SliceFields(s) ELSE @]
KeepDec(s, d) ==
  [d EXCEPT !.prevSliceSkipped = FALSE, !.pocRandomAccess = RandomAccessPOC(s, d)]

\* Mutant: every independent slice segment starts a picture.
StartsPicture_AnySlice(n, d) == ~n.dep /\ ~d.firstSliceInPicture

(* "exit when a new picture is found" *)
StartsPicture(n, d) == ~n.dep /\ n.first /\ ~d.firstSliceInPicture
\* Mutant: the picture after the random access point is not told from it.
NewPictureFound_After(n, d) == StartsPicture(n, d) /\ d.prevPOC > d.pocRandomAccess

NewPictureFound(n, d) == StartsPicture(n, d) /\ d.prevPOC >= d.pocRandomAccess

-----------------------------------------------------------------------------
(* What the decoder and the application do after a NAL unit.  m is the      *)
(* record of the variables they change: dpb, dec, app, written, discarded.  *)

(* filterPicture: the current picture is reconstructed, and waits for output *)
(* if its first slice says so.                                               *)
Filtered(p) == IF p.current THEN [p EXCEPT !.output = p.picOutput, !.recon = TRUE] ELSE p
FilterPicture(l) == MapPictures(l, Filtered)

\* Mutant: the next slice is not taken for the first of its picture.
ExecuteLoopFilters_NotFirst(m) ==
  [m EXCEPT !.dpb = SortPicList(FilterPicture(@)), !.app.listKnown = TRUE]

\* Mutant: the list is not sorted for output.
ExecuteLoopFilters_Unsorted(m) ==
  [m EXCEPT !.dpb = FilterPicture(@),
            !.dec.firstSliceInPicture = TRUE, !.app.listKnown = TRUE]

(* The current picture is complete: filterPicture, sortPicList. *)
ExecuteLoopFilters(m) ==
  [m EXCEPT !.dpb = SortPicList(FilterPicture(@)),
            !.dec.firstSliceInPicture = TRUE, !.app.listKnown = TRUE]

Written(p) == [poc |-> p.poc, nals |-> p.nals]

(* A picture after it was written: its buffer is free if nothing refers to it.*)
AfterWriting(p) ==
  [p EXCEPT !.output = FALSE, !.recon = IF p.referenced THEN @ ELSE FALSE]

\* Mutant: one picture more than allowed may wait.
MayWait_OneMore(n) == n <= NumReorderPics[SubLayer] + 1

(* The pictures that may wait, by sps_max_num_reorder_pics.                  *)
MayWait(n) == n <= NumReorderPics[SubLayer]

(* What xWriteOutput writes: in list order, pictures are written while more  *)
(* of them wait than may be reordered, or while the buffer holds more than it*)
(* may.  Each must have a higher POC than those before it.                   *)
Bumped(l, lastDisplay) ==
  LET waiting == {i \in DOMAIN l : l[i].output /\ l[i].poc > lastDisplay}
      held == {i \in DOMAIN l : l[i].referenced} \cup waiting
      next == {i \in waiting : \A j \in waiting : j < i => l[j].poc < l[i].poc}
      bump(i) ==
        LET before == {j \in next : j < i}
            freed  == {j \in before : ~l[j].referenced}
        IN  \/ ~MayWait(Cardinality(waiting) - Cardinality(before))
            \/ Cardinality(held) - Cardinality(freed) > MaxDecPicBuffering[SubLayer]
  IN  {i \in next : bump(i)}

Release(l, places) ==
  <<>> \o [i \in DOMAIN l |-> IF i \in places THEN AfterWriting(l[i]) ELSE l[i]]
WithWritten(w, l) == w \o MapPictures(l, Written)

WritePictures(m, places) ==
  LET next == InOrder(m.dpb, places)
  IN  [m EXCEPT !.dpb = Release(@, places), !.written = WithWritten(@, next),
                !.app.lastDisplay = IF next = <<>> THEN @ ELSE Last(next).poc]

(* xWriteOutput.  (TLC evaluates the places once, because they are bound.)   *)
WriteOutput(m) ==
  CHOOSE r \in {WritePictures(m, places) : places \in {Bumped(m.dpb, m.app.lastDisplay)}} : TRUE

(* xFlushOutput: every picture that waits is written, then all are deleted. *)
Waiting(l) == {i \in DOMAIN l : l[i].output}
FlushOutput(m) ==
  [m EXCEPT !.written = WithWritten(@, InOrder(m.dpb, Waiting(m.dpb))), !.dpb = <<>>,
            !.app.lastDisplay = IF m.dpb = <<>> THEN @ ELSE -MAX_INT]

NotOutput(p) == [p EXCEPT !.output = FALSE]

\* Mutant: the picture with the IRAP picture's POC is not spared.
CheckNoOutputPriorPics_All(m) ==
  [m EXCEPT !.dpb = MapPictures(@, NotOutput), !.dec.isNoOutputPriorPics = FALSE]

(* checkNoOutputPriorPics, by the POC of the picture to keep. *)
KeepOnly(l, poc) == MapPictures(l, LAMBDA p : IF p.poc # poc THEN NotOutput(p) ELSE p)
CheckNoOutputPriorPics(m) ==
  LET l == m.dpb
      gone == {i \in Waiting(l) : l[i].poc # m.dec.lastPOCNoOutputPriorPics}
  IN  [m EXCEPT !.dpb = KeepOnly(@, m.dec.lastPOCNoOutputPriorPics),
                !.discarded = @ \cup UNION {l[i].nals : i \in gone},
                !.dec.isNoOutputPriorPics = FALSE]

(* The picture is completed when a new one is found, at the end of a sequence *)
(* and at the end of the file; reading the NAL unit n reached it if atEnd.    *)
FinishPicture(n, newPicture, atEnd, m) ==
  LET eos == n.type = "EOS"
      done == IF m.app.loopFiltered /\ atEnd THEN m ELSE ExecuteLoopFilters(m)
  IN  IF ~(newPicture \/ atEnd \/ eos) THEN m
      ELSE IF m.dec.firstSliceInSequence THEN [m EXCEPT !.dec.firstSliceInPicture = TRUE]
      ELSE [done EXCEPT !.app.loopFiltered = eos, !.dec.firstSliceInSequence = eos]

DiscardsPriorPics(n, newPicture, m) ==
  (newPicture \/ n.type = "CRA") /\ m.dec.isNoOutputPriorPics

(* The turn of the main loop from where decode() returned newPicture: the    *)
(* list is l, the decoder d, the application a.                              *)
Loop(newPicture, atEnd, l, d, a) ==
  LET eos   == nal.type = "EOS"
      slice == nal.type \in SliceTypes
  IN  \E m \in {[dpb |-> l, dec |-> d, app |-> a, written |-> written, discarded |-> discarded]} :
      \E f \in {FinishPicture(nal, newPicture, atEnd, m)} :
      \E known \in {f.app.listKnown} :
      \E o \in {IF known /\ newPicture THEN WriteOutput(f) ELSE f} :
      \E c \in {IF known /\ DiscardsPriorPics(nal, newPicture, o) THEN CheckNoOutputPriorPics(o) ELSE o} :
      \E e \in {IF known /\ newPicture /\ nal.type \in {"IDR", "BLA"} THEN FlushOutput(c) ELSE c} :
      \E w \in {IF known /\ (eos \/ (slice /\ ~newPicture)) THEN WriteOutput(e) ELSE e} :
        /\ dpb' = w.dpb /\ app' = w.app /\ written' = w.written /\ discarded' = w.discarded
        /\ dec' = IF known /\ eos THEN [w.dec EXCEPT !.firstSliceInPicture = FALSE] ELSE w.dec

-----------------------------------------------------------------------------
(* The actions: one turn of the main loop each. *)

Reading == status = "running" /\ pos <= Len(stream)
Ignored == MaxTemporalLayer >= 0 /\ nal.tid > MaxTemporalLayer
ReadsSlice == Reading /\ nal.type \in SliceTypes /\ ~Ignored

(* A NAL unit decode() does nothing with, or that is above the target layer. *)
IgnoreNal ==
  /\ Reading
  /\ Ignored \/ nal.type = "OTHER"
  /\ Loop(FALSE, AtEnd, dpb, dec, app)
  /\ pos' = pos + 1
  /\ UNCHANGED <<settings, stream, refs, status>>

(* NAL_UNIT_EOS *)
EndOfSequence ==
  /\ Reading /\ nal.type = "EOS" /\ ~Ignored
  /\ Loop(FALSE, AtEnd, dpb,
          [dec EXCEPT !.associatedIRAPType = "INVALID", !.pocCRA = 0, !.pocRandomAccess = MAX_INT,
                      !.prevPOC = MAX_INT, !.prevSliceSkipped = FALSE, !.skippedPOC = 0], app)
  /\ pos' = pos + 1
  /\ UNCHANGED <<settings, stream, refs, status>>

Header == HeaderDec(nal, dec)

(* The skipping of a slice is counted in m_iSkipFrame only: iPOCLastDisplay  *)
(* is passed to xDecodeSlice by value.                                       *)
SkipApp == IF app.skipFrame > 0 THEN [app EXCEPT !.skipFrame = @ - 1] ELSE app

SkipSlice ==
  /\ ReadsSlice
  /\ \E h \in {Header} : \E s \in {HeaderSlice(nal, dec, h)} :
       /\ IsSkipped(s, h)
       /\ Loop(FALSE, AtEnd, dpb, SkipDec(s, h), SkipApp)
  /\ pos' = pos + 1
  /\ UNCHANGED <<settings, stream, refs, status>>

(* The slice starts another picture: the one before is completed, and the   *)
(* same NAL unit is read again.                                             *)
FindNewPicture ==
  /\ ReadsSlice
  /\ \E h \in {Header} : \E s \in {HeaderSlice(nal, dec, h)} : \E d \in {KeepDec(s, h)} :
       /\ ~IsSkipped(s, h) /\ NewPictureFound(nal, d)
       /\ Loop(TRUE, FALSE, dpb, [d EXCEPT !.prevPOC = s.poc], app)
  /\ UNCHANGED <<settings, stream, pos, refs, status>>

(* The decoder after the concealment of lost pictures, which count as IDR    *)
(* pictures of the lowest layer for the derivation of the next POC.          *)
ConcealDec(d, s) ==
  LET lost == Concealed(dpb, s, d.pocRandomAccess)
  IN  IF lost = <<>> THEN d ELSE [d EXCEPT !.prevTid0POC = Last(lost)]

(* The list with a buffer for the new picture, its marks not yet applied. *)
WithNewBuffer(l) ==
  LET i == NewBufferIndex(l, nal.tid)
      others == MapPictures(l, LAMBDA p : [p EXCEPT !.current = FALSE])
  IN  PutPicture(others, i, [NewPicture(l, i) EXCEPT !.current = TRUE])

StartPicture(l, s) ==
  MapPictures(l, LAMBDA p :
    IF ~p.current THEN p
    ELSE [p EXCEPT !.poc = s.poc, !.type = s.type, !.tid = s.tid, !.nonRef = s.nonRef,
                   !.assocPOC = s.assocPOC, !.picOutput = s.picOutput,
                   !.referenced = TRUE, !.nals = {pos}])

AddSlice(l) ==
  MapPictures(l, LAMBDA p :
    IF p.current THEN [p EXCEPT !.nals = @ \cup {pos}, !.tid = nal.tid] ELSE p)

(* The pictures checkCRA and setRefPicList look at; their assertions. *)
FollowsCRA(s, l, poc) ==
  poc # -1 /\ s.poc > poc =>      \* pocCRA < MAX_UINT, as unsigned numbers
    /\ \A i \in DOMAIN s.st : RefPOC(s, s.st[i]) >= poc
    /\ \A i \in DOMAIN s.lt :
         IF s.lt[i].msb THEN s.lt[i].poc >= poc ELSE l[LongTermRefPicIndex(l, s, s.lt[i])].poc >= poc
IRAPUsesNothing(s) == s.type \in IRAPTypes => UsedShortTerm(s) \cup UsedLongTerm(s) = {}

CheckCRA(d, s) == IF nal.dep \/ s.type \notin IRAPTypes THEN d
                  ELSE [d EXCEPT !.pocCRA = s.poc, !.associatedIRAPType = s.type]

(* The NAL units each used entry of the reference picture set stood for. *)
References(l, s) ==
  {[slice |-> pos, entry |-> i, nals |-> l[RefPicIndex(l, RefPOC(s, s.st[i]))].nals] :
     i \in UsedShortTerm(s)}
  \cup {[slice |-> pos, entry |-> Len(s.st) + i, nals |-> l[LongTermRefPicIndex(l, s, s.lt[i])].nals] :
     i \in UsedLongTerm(s)}

(* What ends the decoding of a slice: a loop without end, an assertion, a    *)
(* reference that is not in the list.                                        *)
Failure(s, kept, fresh, marked, l, d0, cd) ==
  LET allowed == /\ dec.firstSliceInPicture =>
                      /\ LeadingRestrictions(fresh, s)
                      /\ \A i \in DOMAIN marked : ~marked[i].current => MarkingAllowed(marked[i], s)
                 /\ ~nal.dep => FollowsCRA(s, l, cd.pocCRA) /\ IRAPUsesNothing(s)
  IN  IF Concealed(kept, s, d0.pocRandomAccess) # <<>> THEN "hung"
      ELSE IF ~allowed THEN "aborted"
      ELSE IF 0 \in ShortTermRefs(l, s) THEN "undefined" ELSE "none"

(* The decoder after a slice was decoded. *)
DecodedDec(d, s) ==
  [CheckCRA(d, s) EXCEPT !.prevPOC = IF nal.dep THEN @ ELSE s.poc,
                         !.firstSliceInPicture = FALSE, !.firstSliceInSequence = FALSE,
                         !.firstSliceInBitstream = FALSE, !.slice = SliceFields(s)]

(* The search of a slice for its references ends the program. *)
Stops(failure) ==
  /\ status' = failure
  /\ UNCHANGED <<pos, dpb, dec, app, written, discarded, refs>>

(* The slice s has found its references in the list l. *)
Continues(s, l, d) ==
  /\ Loop(FALSE, AtEnd, IF nal.dep THEN l ELSE MarkReferences(l, s), d, app)
  /\ refs' = IF nal.dep THEN refs ELSE refs \cup References(l, s)
  /\ pos' = pos + 1
  /\ UNCHANGED status

(* The slice s is decoded by the decoder d: the first of its picture, or a   *)
(* further one.                                                              *)
Decode(s, d) ==
  \E kept \in {ConcealLostPictures(dpb, s, d.pocRandomAccess)} :
  \E fresh \in {WithNewBuffer(kept)} :
  \E marked \in {ApplyReferencePictureSet(fresh, s)} :
  \E l \in {IF dec.firstSliceInPicture THEN StartPicture(marked, s) ELSE AddSlice(kept)} :
  \E cd \in {ConcealDec(d, s)} :
  \E failure \in {Failure(s, kept, fresh, marked, l, d, cd)} :
    IF failure # "none" THEN Stops(failure) ELSE Continues(s, l, DecodedDec(cd, s))

DecodeSlice ==
  /\ ReadsSlice
  /\ \E h \in {Header} : \E s \in {HeaderSlice(nal, dec, h)} : \E d \in {KeepDec(s, h)} :
       ~IsSkipped(s, h) /\ ~NewPictureFound(nal, d) /\ Decode(s, d)
  /\ UNCHANGED <<settings, stream>>

(* The end of the file: what still waits is written. *)
Finish ==
  /\ status = "running" /\ pos > Len(stream)
  /\ \E m \in {[dpb |-> dpb, app |-> app, written |-> written]} :
     \E f \in {IF app.listKnown THEN FlushOutput(m) ELSE m} :
       dpb' = f.dpb /\ app' = f.app /\ written' = f.written
  /\ status' = "finished"
  /\ UNCHANGED <<settings, stream, pos, dec, refs, discarded>>

Next == IgnoreNal \/ EndOfSequence \/ SkipSlice \/ FindNewPicture \/ DecodeSlice \/ Finish

Spec == Init /\ [][Next]_vars /\ WF_vars(Next)
-----------------------------------------------------------------------------
(* Properties *)

Slices == {k \in DOMAIN stream : stream[k].type \in SliceTypes}
PictureOf(k) == {j \in Slices : stream[j].pic = stream[k].pic}
ComesBefore(a, b) ==
  \/ stream[a].cvs < stream[b].cvs
  \/ stream[a].cvs = stream[b].cvs /\ stream[a].poc < stream[b].poc

(* A picture buffer holds slices of one picture of the stream: the slices    *)
(* between two calls of executeLoopFilters are those of one access unit.     *)
OnePicturePerBuffer ==
  \A i \in DOMAIN dpb : \A a, b \in dpb[i].nals : stream[a].pic = stream[b].pic

(* The POC the decoder gives to a picture is the one the encoder meant.      *)
POCRight ==
  \A i \in DOMAIN dpb : \A k \in dpb[i].nals : dpb[i].poc = stream[k].poc

(* What an entry of a reference picture set stands for to the encoder: the   *)
(* slices of the picture of the same sequence with that POC.                 *)
Meant(k, i) ==
  LET n == stream[k]
      poc == IF i <= Len(n.st) THEN n.poc + n.st[i].delta ELSE n.lt[i - Len(n.st)].poc
  IN  {j \in Slices : stream[j].cvs = n.cvs /\ stream[j].poc = poc}

(* The stream has all pictures that those it has keep.                       *)
NothingLost ==
  \A k \in Slices : stream[k].type # "RASL" =>
    \A i \in 1..(Len(stream[k].st) + Len(stream[k].lt)) : Meant(k, i) # {}

(* Pictures are written in output order, a coded video sequence after the    *)
(* other, and none twice.  (A concealed picture counts as one that waits, so *)
(* pictures may be written too early when some are lost.)                    *)
OutputOrder ==
  NothingLost =>
  \A j \in DOMAIN written : \A i \in 1..(j - 1) :
    \A h \in written[i].nals, k \in written[j].nals : ComesBefore(h, k)

(* A picture is written with all of its slices.                              *)
WholePictures ==
  \A j \in DOMAIN written : \A k \in written[j].nals : written[j].nals = PictureOf(k)

(* What must come out: what has pic_output_flag, is in the layers decoded,   *)
(* and is not a RASL picture of an IRAP picture that starts a sequence.      *)
StartsSequence(k) ==
  \/ stream[k].type \in {"IDR", "BLA"}
  \/ stream[k].type = "CRA" /\ \A j \in Slices : stream[j].cvs = stream[k].cvs => stream[j].pic >= stream[k].pic
Undecodable(k) ==
  /\ stream[k].type = "RASL"
  /\ \E j \in Slices : /\ j < k /\ StartsSequence(j)
                       /\ \A i \in Slices : j < i /\ i < k /\ stream[i].type \in IRAPTypes =>
                                              stream[i].pic = stream[j].pic
MustComeOut(k) ==
  /\ stream[k].out /\ ~Undecodable(k)
  /\ MaxTemporalLayer = -1 \/ stream[k].tid <= MaxTemporalLayer

(* When the decoder has finished, every such picture was written, unless it  *)
(* was discarded for no_output_of_prior_pics_flag; and no other.             *)
EveryPictureComesOut ==
  status = "finished" =>
    LET out == UNION {written[i].nals : i \in DOMAIN written}
    IN  out \cap discarded = {} /\ out \cup discarded = {k \in Slices : MustComeOut(k)}

(* Every entry a slice uses stands for the complete picture, of the same     *)
(* sequence, that the encoder meant.                                         *)
ReferencesRight == \A r \in refs : r.nals = Meant(r.slice, r.entry)

(* Between two pictures, no more pictures wait than may be reordered, if     *)
(* none was concealed.  (After the last NAL unit all that wait are written   *)
(* by Finish; if that unit is no slice, the picture before it still waits.)  *)
OutputInTime ==
  NothingLost /\ dec.firstSliceInPicture /\ pos <= Len(stream) =>
    Cardinality({i \in DOMAIN dpb : dpb[i].output}) <= NumReorderPics[SubLayer]

(* xGetNewPicBuffer extends the list only when it must: "There is no room    *)
(* for this picture, either because of faulty encoder or dropped NAL."       *)
BufferWithinLimit ==
  Len(dpb) <= MaxDecPicBuffering[Cardinality(DOMAIN MaxDecPicBuffering) - 1]

(* The list is extended by one picture at most: the marks of the picture     *)
(* before are still in force when the buffer is chosen.                      *)
BufferAlmostWithinLimit ==
  Len(dpb) <= MaxDecPicBuffering[Cardinality(DOMAIN MaxDecPicBuffering) - 1] + 1

(* No assertion fails, no search leaves the list, concealment ends.          *)
NothingFails == status \in {"running", "finished"}

(* The decoder implements PictureOutput: the pictures marked as needed for   *)
(* output wait, those written were delivered.  With losses it does not.       *)
Key(nals) == LET k == CHOOSE j \in nals : TRUE IN [cvs |-> stream[k].cvs, poc |-> stream[k].poc]
OutputWaiting ==
  IF NothingLost THEN {Key(dpb[i].nals) : i \in {j \in DOMAIN dpb : dpb[j].output}} ELSE {}
OutputDelivered == IF NothingLost THEN MapPictures(written, LAMBDA p : Key(p.nals)) ELSE <<>>
Output == INSTANCE PictureOutput WITH waiting <- OutputWaiting, delivered <- OutputDelivered
ImplementsOutput == Output!Spec

(* Every stream is decoded to its end.                                       *)
Termination == <>(status = "finished")
-----------------------------------------------------------------------------
(* The bitstreams of the theorems: those an encoder that conforms may        *)
(* produce, from their start or from a random access point on, with no long- *)
(* term references, of which the temporal layers up to top are decoded.      *)

SlicesIn(nals) == {k \in DOMAIN nals : nals[k].type \in SliceTypes}
NoEOS(nals, j, k) == \A i \in j..k : nals[i].type # "EOS"

(* A slice of the first picture of the bitstream or after an end of sequence.*)
Begins(nals, k) ==
  \A j \in SlicesIn(nals) : j < k /\ NoEOS(nals, j, k) => nals[j].pic = nals[k].pic

LastIRAP(nals, a, k) ==
  /\ a \in SlicesIn(nals) /\ a < k /\ nals[a].type \in IRAPTypes
  /\ \A i \in SlicesIn(nals) : a < i /\ i < k => nals[i].type \notin IRAPTypes

(* A RASL picture of an IRAP picture before which nothing is decoded.        *)
CannotBeDecoded(nals, k) ==
  /\ nals[k].type = "RASL"
  /\ \E a \in SlicesIn(nals) :
       LastIRAP(nals, a, k) /\ (nals[a].type = "CRA" => Begins(nals, a))

Decodable(nals, top) ==
  {k \in SlicesIn(nals) : (top >= 0 => nals[k].tid <= top) /\ ~CannotBeDecoded(nals, k)}

SliceNALs ==
  [type : SliceTypes, tid : Nat, ref : BOOLEAN, first : BOOLEAN, dep : BOOLEAN,
   poc : -MAX_INT..(MAX_INT - 1), st : Seq([delta : Int, used : BOOLEAN]), lt : {<<>>},
   out : BOOLEAN, noPrior : BOOLEAN, pic : Nat, cvs : Nat]
OtherNALs == [type : {"EOS", "OTHER"}, tid : {0}]

(* The slices of a picture follow one another, the first of them first, and  *)
(* agree on what they say of the picture.                                    *)
PicturesContiguous(nals) ==
  \A k \in SlicesIn(nals) :
    /\ nals[k].first <=> \A j \in SlicesIn(nals) : j < k => nals[j].pic # nals[k].pic
    /\ nals[k].dep => ~nals[k].first
    /\ \A j \in SlicesIn(nals) : j < k /\ nals[j].pic = nals[k].pic =>
         /\ \A f \in {"type", "tid", "ref", "poc", "st", "cvs"} : nals[j][f] = nals[k][f]
         /\ NoEOS(nals, j, k)
         /\ \A i \in SlicesIn(nals) : j < i /\ i < k => nals[i].pic = nals[k].pic

(* A sequence begins with an IRAP picture, IRAP pictures are references of   *)
(* the lowest layer, and RASL pictures precede theirs, no IDR picture, in    *)
(* output order.                                                             *)
IRAPPicturesFirst(nals) ==
  \A k \in SlicesIn(nals) :
    /\ Begins(nals, k) => nals[k].type \in IRAPTypes
    /\ nals[k].type \in IRAPTypes => nals[k].tid = 0 /\ nals[k].ref
    /\ nals[k].type = "RASL" =>
         \A a \in SlicesIn(nals) :
           LastIRAP(nals, a, k) => nals[a].type # "IDR" /\ nals[k].poc < nals[a].poc

(* The POC of each picture can be derived from its LSBs: slices that start   *)
(* a new count have no MSBs, others are near the last slice that counts.     *)
Counts(n) == n.tid = 0 /\ n.ref /\ n.type \notin LeadingTypes
POCsDerivable(nals, lsbs) ==
  \A k \in SlicesIn(nals) :
    /\ nals[k].type = "IDR" => nals[k].poc = 0
    /\ nals[k].type = "BLA" \/ Begins(nals, k) => nals[k].poc \in 0..(lsbs - 1)
    /\ nals[k].type \notin {"IDR", "BLA"} /\ ~Begins(nals, k) =>
         \A a \in SlicesIn(nals) :
           /\ a < k /\ Counts(nals[a])
           /\ \A i \in SlicesIn(nals) : a < i /\ i < k => ~Counts(nals[i])
           => nals[k].poc - nals[a].poc \in (1 - lsbs \div 2)..(lsbs \div 2)

(* What is decoded after a random access at a CRA or BLA picture follows it  *)
(* in output order, until the sequence ends.                                 *)
RandomAccessFirst(nals, top) ==
  \A b, k \in Decodable(nals, top) :
    Begins(nals, b) /\ nals[b].type # "IDR" /\ b <= k /\ NoEOS(nals, b, k) =>
      nals[b].poc <= nals[k].poc

(* Pictures with the same POC are of different sequences, and an IDR or BLA  *)
(* picture came in between if both are decoded.                              *)
POCsUnique(nals, top) ==
  \A j, k \in SlicesIn(nals) :
    j < k /\ nals[j].poc = nals[k].poc /\ nals[j].pic # nals[k].pic =>
      /\ nals[j].cvs # nals[k].cvs
      /\ {j, k} \subseteq Decodable(nals, top) =>
           \E m \in SlicesIn(nals) :
             j < m /\ m <= k /\ nals[m].type \in {"IDR", "BLA"} /\ nals[m].pic # nals[j].pic

Keeps(n, poc) ==
  n.type \notin {"IDR", "BLA"} /\ \E e \in DOMAIN n.st : n.poc + n.st[e].delta = poc

(* A picture that is used was kept by all pictures decoded since.            *)
ReferencesKept(nals, top) ==
  LET first == {k \in Decodable(nals, top) : nals[k].first}
  IN  \A k \in first : nals[k].type \notin {"IDR", "BLA"} =>
        \A e \in DOMAIN nals[k].st : nals[k].st[e].used =>
          \E j \in first :
            /\ j < k /\ nals[j].cvs = nals[k].cvs
            /\ nals[j].poc = nals[k].poc + nals[k].st[e].delta
            /\ \A i \in first : j < i /\ i <= k => Keeps(nals[i], nals[j].poc)

Conforming(nals, s) ==
  /\ s.skipFrame = 0 /\ nals \in Seq(SliceNALs \cup OtherNALs)
  /\ PicturesContiguous(nals) /\ IRAPPicturesFirst(nals) /\ POCsDerivable(nals, s.maxPocLsb)
  /\ RandomAccessFirst(nals, s.maxTemporalLayer) /\ POCsUnique(nals, s.maxTemporalLayer)
  /\ ReferencesKept(nals, s.maxTemporalLayer)

(* The theorems about output ask more: that the encoder observes the limits   *)
(* it sends for the layers decoded, out of which the pictures first begin.    *)

FirstSlices(nals, top) == {k \in Decodable(nals, top) : nals[k].first}

(* No IDR or BLA picture begins after the slice j and up to k.               *)
Together(nals, top, j, k) ==
  \A m \in FirstSlices(nals, top) : j < m /\ m <= k => nals[m].type \notin {"IDR", "BLA"}

(* Sequences follow one another, and an IDR or BLA picture starts one.  One   *)
(* that starts with a CRA picture continues the POCs of the one before.       *)
SequencesInOrder(nals, top) ==
  \A j, k \in FirstSlices(nals, top) : j < k =>
    IF Together(nals, top, j, k)
    THEN /\ nals[j].cvs <= nals[k].cvs
         /\ nals[j].cvs < nals[k].cvs => nals[j].poc < nals[k].poc
    ELSE nals[j].cvs < nals[k].cvs

(* No more pictures precede one in decoding order and follow it in output     *)
(* order than sps_max_num_reorder_pics.                                       *)
Overtaken(nals, top, k) ==
  {j \in FirstSlices(nals, top) :
     j < k /\ nals[j].out /\ Together(nals, top, j, k) /\ nals[j].poc > nals[k].poc}

(* A picture needs its buffer while it is kept for reference, and while one   *)
(* that precedes it in output order is still to come; the buffer has room for *)
(* these and the one being decoded.                                           *)
Needed(nals, top, k) ==
  {j \in FirstSlices(nals, top) :
     /\ j < k /\ Together(nals, top, j, k)
     /\ \/ \A i \in FirstSlices(nals, top) : j < i /\ i <= k => Keeps(nals[i], nals[j].poc)
        \/ /\ nals[j].out
           /\ \E z \in FirstSlices(nals, top) :
                k <= z /\ nals[z].out /\ Together(nals, top, j, z) /\ nals[z].poc < nals[j].poc}

LimitsObserved(nals, s) ==
  LET top == s.maxTemporalLayer
  IN  \A k \in FirstSlices(nals, top) :
        /\ nals[k].out => Cardinality(Overtaken(nals, top, k)) <= s.numReorderPics[TargetLayer(s)]
        /\ Cardinality(Needed(nals, top, k)) < s.maxDecPicBuffering[TargetLayer(s)]
        /\ nals[k].tid \in DOMAIN s.maxDecPicBuffering /\ nals[k].poc # -MAX_INT

LayersNested(s) ==
  \A t, u \in DOMAIN s.maxDecPicBuffering : t <= u => s.maxDecPicBuffering[t] <= s.maxDecPicBuffering[u]

OutputConforming(nals, s) ==
  SequencesInOrder(nals, s.maxTemporalLayer) /\ LimitsObserved(nals, s) /\ LayersNested(s)

(* The theorem about the completeness of output asks that pic and cvs number  *)
(* the pictures and the sequences, that the slices of a picture agree on      *)
(* pic_output_flag, and that the stream does not end with the only picture of *)
(* a sequence that follows another one.                                       *)
PicturesLabelled(nals) ==
  \A j, k \in SlicesIn(nals) : j < k =>
    /\ nals[j].pic <= nals[k].pic /\ nals[j].cvs <= nals[k].cvs
    /\ nals[j].pic = nals[k].pic => nals[j].out = nals[k].out
    /\ nals[j].cvs < nals[k].cvs <=>
         \E m \in SlicesIn(nals) :
           /\ j < m /\ m <= k /\ nals[m].pic # nals[j].pic
           /\ nals[m].type \in {"IDR", "BLA"} \/ Begins(nals, m)

LastNotAlone(nals, top) ==
  \A j, k \in FirstSlices(nals, top) :
    j < k /\ Begins(nals, k) => \E m \in FirstSlices(nals, top) : k < m
=============================================================================
