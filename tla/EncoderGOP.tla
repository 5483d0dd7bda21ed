----------------------------- MODULE EncoderGOP -----------------------------
(***************************************************************************)
(* The order in which the encoder codes pictures, and the pictures it      *)
(* keeps: the loop of TAppEncTop::encode, TEncTop::encode and              *)
(* TEncGOP::compressGOP up to the reference picture lists, and what        *)
(* decoders that start at any random access point, leave out layers or     *)
(* take them up again hold when each picture arrives.                      *)
(*                                                                         *)
(* The list of pictures dpb is that of DecodedPictureBuffer, whose         *)
(* operators model the functions of TComSlice that encoder and decoder     *)
(* share; nals is the number of the video frame in the buffer.  settings   *)
(* is the configuration with its checked GOP structure.  Frames are not    *)
(* split into fields; of what the option EfficientFieldIRAPEnabled does,   *)
(* only the marking of pictures at a refresh is then left.                 *)
(***************************************************************************)
EXTENDS DecodedPictureBuffer
LOCAL INSTANCE SequencesExt
LOCAL INSTANCE FiniteSetsExt

CONSTANT Configs   \* [GOPList, intraPeriod, decodingRefreshType,
                   \*  efficientFieldIRAP, frames]

VARIABLES dpb,      \* TEncTop::m_cListPic
          encoder,  \* the counters and marks TAppEncTop, TEncTop and TEncGOP keep
          decoders, \* what decoders of the stream hold
          failed    \* what went wrong: "", "assertion", "array" or "division"

vars == <<settings, dpb, encoder, decoders, failed>>

GOPList == settings.list
GOPSize == settings.GOPSize
IntraPicture(poc) == poc = 0 \/ (settings.intraPeriod > 0 /\ poc % settings.intraPeriod = 0)

-----------------------------------------------------------------------------
(* The structure of a group of pictures: what TAppEncCfg::xCheckParameter  *)
(* makes of the list of pictures in the configuration file.                *)
(*                                                                         *)
(* An entry of the list has the POC of the picture within the GOP, its     *)
(* temporalId and sliceType, the pictures it refers to (POC differences),  *)
(* numRefPicsActive, and what the check works out: usedByCurrPic, one for  *)
(* each of the referencePics, refPic (a picture of the same layer refers   *)
(* to it), and interRPSPrediction, deltaRPS and refIdc.                    *)

MAX_TLAYER == 7

(* An entry as it is read from the file, with sets that are coded as they are. *)
ReadEntry(e) ==
  e @@ [usedByCurrPic |-> [i \in DOMAIN e.referencePics |-> FALSE], refPic |-> FALSE,
        interRPSPrediction |-> 0, deltaRPS |-> 0, refIdc |-> << >>]

-----------------------------------------------------------------------------
(* The check walks through the pictures in coding order, GOP after GOP,    *)
(* until it has seen each entry with all its pictures there.  It holds the *)
(* list with the sets added so far, the number n of the picture, the POCs  *)
(* that are there (refList) and the entries that are right (isOK).         *)

CurGOP(c) == ((c.n - 1) % c.GOPSize) + 1
PocOf(c, n) == (((n - 1) \div c.GOPSize) * c.GOPSize) + c.list[((n - 1) % c.GOPSize) + 1].POC

(* The entry of the picture with a POC.                                    *)
EntryOf(c, poc) == CHOOSE k \in 1..c.GOPSize : (poc - c.list[k].POC) % c.GOPSize = 0

(* What the entry of picture n finds out about the pictures it refers to.  *)
Found(c, poc) == {i \in DOMAIN c.list[CurGOP(c)].referencePics :
                    poc + c.list[CurGOP(c)].referencePics[i] \in c.refList}

\* Mutant: all pictures of the set are used for prediction.
UsedByCurrPic_All(c, k) == TRUE

UsedByCurrPic(c, k) == c.list[k].temporalId <= c.list[CurGOP(c)].temporalId

(* A picture of the layer refers to it.                                    *)
RefPic(c, k) == c.list[k].temporalId = c.list[CurGOP(c)].temporalId

MarkReferred(c, poc) ==
  LET cur   == CurGOP(c)
      refs  == c.list[cur].referencePics
      found == Found(c, poc)
      Mark(k) == [c.list[k] EXCEPT
                    !.refPic = @ \/ \E i \in found : EntryOf(c, poc + refs[i]) = k /\ RefPic(c, k),
                    !.usedByCurrPic = IF k # cur THEN @
                                      ELSE [i \in DOMAIN refs |-> IF i \in found THEN UsedByCurrPic(c, EntryOf(c, poc + refs[i]))
                                                                  ELSE @[i]]]
  IN  [c EXCEPT !.list = [k \in DOMAIN c.list |-> IF k <= c.GOPSize THEN Mark(k) ELSE c.list[k]]]

-----------------------------------------------------------------------------
(* A picture near the start of the sequence, whose pictures are not all    *)
(* there: a set of its own has those that are, and others that may do.     *)

(* The pictures coded before picture n are tried, the last one first, until *)
(* there are as many as the entry wants; at least one of them is tried.    *)
TryPicture(c, poc, x, n) ==
  LET k     == ((n - 1) % c.GOPSize) + 1
      delta == PocOf(c, n) - poc
      later == {j \in DOMAIN x.refs : x.refs[j] < delta \/ x.refs[j] > 0}
      at    == IF later = {} THEN Len(x.refs) + 1 ELSE Min(later)
      wanted == /\ c.list[k].temporalId <= c.list[CurGOP(c)].temporalId
                /\ PocOf(c, n) \in c.refList
                /\ delta \notin Range(x.refs)
      tried == IF wanted THEN [x EXCEPT !.refs = InsertAt(@, at, delta), !.used = InsertAt(@, at, TRUE),
                                        !.new = @ \cup {k}]
               ELSE x
  IN  IF x.full THEN x
      ELSE [tried EXCEPT !.full = Len(tried.refs) >= c.list[CurGOP(c)].numRefPicsActive]

Pictures(c, poc) ==
  LET cur  == c.list[CurGOP(c)]
      kept == SelectSeq([i \in DOMAIN cur.referencePics |-> i], LAMBDA i : poc + cur.referencePics[i] >= 0)
      known == [refs |-> [i \in DOMAIN kept |-> cur.referencePics[kept[i]]],
                used |-> [i \in DOMAIN kept |-> cur.usedByCurrPic[kept[i]]], new |-> {}, full |-> FALSE]
  IN  FoldLeft(LAMBDA x, n : TryPicture(c, poc, x, n), known, [o \in 1..c.n - 1 |-> c.n - o])

(* All sets added but the first are predicted from the one before them.    *)
refIdc(ref, refPOC, extra, poc) ==
  LET absPOC(i) == refPOC + (IF i > Len(ref) THEN 0 ELSE ref[i])
      of(i) == LET j == SelectInSeq(extra.refs, LAMBDA delta : poc + delta = absPOC(i))
               IN  IF j = 0 THEN 0 ELSE IF extra.used[j] THEN 1 ELSE 2
  IN  [i \in 1..Len(ref) + 1 |-> of(i)]

AddSet(c, poc) ==
  LET extra == Pictures(c, poc)
      last  == c.list[Len(c.list)]
      first == Len(c.list) = c.GOPSize
      entry == [c.list[CurGOP(c)] EXCEPT
                  !.POC = poc, !.referencePics = extra.refs, !.usedByCurrPic = extra.used,
                  !.interRPSPrediction = IF first THEN 0 ELSE 1,
                  !.deltaRPS = IF first THEN @ ELSE last.POC - poc,
                  !.refIdc = IF first THEN << >> ELSE refIdc(last.referencePics, last.POC, extra, poc)]
      Mark(k) == [c.list[k] EXCEPT !.refPic = @ \/ (k \in extra.new /\ RefPic(c, k))]
  IN  [c EXCEPT !.list = Append([k \in DOMAIN c.list |-> Mark(k)], entry)]

-----------------------------------------------------------------------------
CheckPicture(c) ==
  LET poc      == PocOf(c, c.n)
      marked   == MarkReferred(c, poc)
      absPOCs  == {poc + delta : delta \in Range(c.list[CurGOP(c)].referencePics)}
      beforeI  == \E p \in absPOCs : p < 0
      error    == \E p \in absPOCs : p >= 0 /\ p \notin c.refList
      checked  == IF beforeI \/ error THEN AddSet(marked, poc) ELSE [marked EXCEPT !.isOK = @ \cup {CurGOP(c)}]
      refs     == checked.list[IF beforeI \/ error THEN Len(checked.list) ELSE CurGOP(c)].referencePics
  IN  [checked EXCEPT !.n = @ + 1, !.errorGOP = error,
                      !.refList = {p \in {poc + delta : delta \in Range(refs)} : p >= 0} \cup {poc}]

RECURSIVE CheckGOP(_)
CheckGOP(c) == IF c.errorGOP \/ Cardinality(c.isOK) = c.GOPSize THEN c ELSE CheckGOP(CheckPicture(c))

xCheckGOP(entries) ==
  CheckGOP([list |-> [k \in DOMAIN entries |-> ReadEntry(entries[k])], GOPSize |-> Len(entries), n |-> 1,
            refList |-> {0}, isOK |-> {}, errorGOP |-> FALSE])

(* What the check asks of the periods and layers.                          *)
xCheckPeriods(c) ==
  /\ c.intraPeriod = -1 \/ (c.intraPeriod >= Len(c.GOPList) /\ c.intraPeriod % Len(c.GOPList) = 0)
  /\ c.decodingRefreshType \in 0..3
  /\ c.decodingRefreshType = 2 => c.intraPeriod = -1 \/ c.intraPeriod > Len(c.GOPList)
  /\ \A k \in DOMAIN c.GOPList : c.GOPList[k].POC = Len(c.GOPList) => c.GOPList[k].temporalId = 0

-----------------------------------------------------------------------------
(* The buffers the stream declares, for each layer.                        *)

Layers == 0..MAX_TLAYER - 1

\* Mutant: only the pictures coded before the picture itself are counted among its own layer.
NumReorder_SameLayer(list, i) ==
  Cardinality({j \in 1..i - 1 : list[j].temporalId = list[i].temporalId /\ list[j].POC > list[i].POC})

(* The pictures of its layer and below that are coded before the last      *)
(* picture with a lower POC, and have a higher one.                        *)
NumReorder(list, i) ==
  LET highest == Max({j \in DOMAIN list : list[j].POC <= list[i].POC})
  IN  Cardinality({j \in 1..highest - 1 : list[j].temporalId <= list[i].temporalId /\ list[j].POC > list[i].POC})

(* For the pictures of a layer; a layer needs no less than those below it. *)
LayerMax(list, t, atLeast, Value(_)) ==
  Max({atLeast} \cup {Value(i) : i \in {k \in DOMAIN list : list[k].temporalId <= t}})

ReorderOfLayers(list) == [t \in Layers |-> LayerMax(list, t, 0, LAMBDA i : NumReorder(list, i))]

BufferingOfLayers(list) ==
  [t \in Layers |-> Max({LayerMax(list, t, 1, LAMBDA i : Len(list[i].referencePics) + 1), ReorderOfLayers(list)[t] + 1})]

MaxTempLayer(list) == Max({1} \cup {list[i].temporalId + 1 : i \in DOMAIN list})

-----------------------------------------------------------------------------
(* The reference picture sets of the SPS: sequences of [delta, used].      *)

(* TEncTop::xInitRPS: a set predicted from the one before it is what the   *)
(* prediction gives, sorted.                                               *)
SortedSet(st) ==
  LET Closer(a, b) == IF (a.delta < 0) # (b.delta < 0) THEN a.delta < 0
                      ELSE IF a.delta < 0 THEN a.delta > b.delta ELSE a.delta < b.delta
  IN  SetToSortSeq(st, Closer)

Predicted(entry, ref) ==
  SortedSet({[delta |-> entry.deltaRPS + (IF j > Len(ref) THEN 0 ELSE ref[j].delta), used |-> entry.refIdc[j] = 1] :
               j \in {k \in DOMAIN entry.refIdc : entry.refIdc[k] # 0}})

xInitRPS(list) ==
  LET Plain(e) == [i \in DOMAIN e.referencePics |-> [delta |-> e.referencePics[i], used |-> e.usedByCurrPic[i]]]
      sets[k \in DOMAIN list] == IF list[k].interRPSPrediction = 0 THEN Plain(list[k]) ELSE Predicted(list[k], sets[k - 1])
  IN  sets

(* TEncTop::selectReferencePictureSet: the last set added for this POC, or *)
(* for its place in the intra period.                                      *)
selectReferencePictureSet(poc, GOPid) ==
  LET periodic == settings.intraPeriod > 0 /\ settings.decodingRefreshType > 0
      index == IF periodic /\ poc % settings.intraPeriod = 0 THEN settings.intraPeriod
               ELSE IF periodic THEN poc % settings.intraPeriod ELSE poc
      extra == {k \in GOPSize + 1..Len(GOPList) : GOPList[k].POC = index}
  IN  settings.sets[IF extra = {} THEN GOPid ELSE Max(extra)]

-----------------------------------------------------------------------------
(* The decoders: a record for each, with the highest layer it decodes now  *)
(* (top) and may decode later (layer), whether it leaves out the pictures  *)
(* of that layer no picture of the layer refers to (thin), the POC of the  *)
(* IRAP picture it started at, the POCs it holds as references and has not *)
(* put out, the last POC it put out, how many pictures it decoded, and     *)
(* whether it missed a reference or put out a picture late.                *)
NewDecoder(layer, top, thin, start) ==
  [layer |-> layer, top |-> top, thin |-> thin, start |-> start, refs |-> {}, waiting |-> {}, last |-> -1, count |-> 0,
   missing |-> FALSE, late |-> FALSE]

(* A coded picture has its poc, type, tid, nonRef and the set st.          *)
LeftOut(d, p) ==
  \/ p.tid > d.top
  \/ d.thin /\ p.tid = d.layer /\ p.nonRef
  \/ p.type = "RASL" /\ p.assocPOC = d.start /\ d.start > 0

RefsLost(d, p, held) == \E i \in DOMAIN p.st : p.st[i].used /\ p.poc + p.st[i].delta \notin held

(* TAppDecTop::xWriteOutput: the pictures in output order, as long as more *)
(* wait than the stream declares.                                          *)
RECURSIVE WriteOutput(_)
WriteOutput(d) ==
  IF Cardinality(d.waiting) <= settings.numReorderPics[d.layer] THEN d
  ELSE WriteOutput([d EXCEPT !.waiting = @ \ {Min(d.waiting)}, !.last = Min(d.waiting)])

Decode(d, p) ==
  LET held    == IF p.type = "IDR" THEN {} ELSE {q \in d.refs : \E i \in DOMAIN p.st : q = p.poc + p.st[i].delta}
      flushed == IF p.type = "IDR" /\ d.waiting # {} THEN [d EXCEPT !.waiting = {}, !.last = Max(d.waiting)] ELSE d
  IN  IF LeftOut(d, p) THEN d
      ELSE WriteOutput([flushed EXCEPT !.refs = held \cup {p.poc}, !.waiting = @ \cup {p.poc},
                                       !.missing = @ \/ RefsLost(d, p, held), !.late = @ \/ p.poc <= flushed.last,
                                       !.count = @ + 1])

(* At an IRAP picture a decoder may start; at a TSA picture one that left  *)
(* out the layer may take it up, with all above it, at an STSA picture     *)
(* that layer.                                                             *)
Starting(p) ==
  IF p.type \notin IRAPTypes THEN {}
  ELSE UNION {{NewDecoder(layer, top, thin, p.poc) : top \in 0..layer, thin \in BOOLEAN} : layer \in 0..settings.maxTempLayer - 1}

TakingUp(ds, p) ==
  IF p.type \notin {"TSA", "STSA"} THEN {}
  ELSE UNION {{[d EXCEPT !.top = top] : top \in p.tid..(IF p.type = "TSA" THEN d.layer ELSE p.tid)} :
                d \in {e \in ds : e.top = p.tid - 1 /\ e.layer >= p.tid}}

-----------------------------------------------------------------------------
(* Receiving a frame                                                       *)

(* TEncTop::xGetNewPicBuffer: a new buffer until the list is full, then    *)
(* the first that is no reference, or else the last.                       *)
ListSize == GOPSize + settings.maxDecPicBuffering[MAX_TLAYER - 1] + 2

xGetNewPicBuffer(poc) ==
  LET sorted == SortPicList(dpb)
      free   == SelectInSeq(sorted, LAMBDA p : ~p.referenced)
      i      == IF Len(dpb) < ListSize THEN Len(dpb) + 1 ELSE IF free = 0 THEN Len(dpb) ELSE free
      old    == IF i > Len(dpb) THEN FreshPicture ELSE sorted[i]
  IN  PutPicture(sorted, i, [old EXCEPT !.recon = FALSE, !.poc = poc, !.nals = {poc}])

(* TEncTop::encode goes on to compressGOP when a GOP is full, at the first *)
(* picture and at the end.                                                 *)
Compressing(numPicRcvd, POCLast, flush) == numPicRcvd > 0 /\ (flush \/ POCLast = 0 \/ numPicRcvd = GOPSize)

Receive ==
  /\ encoder.GOPid = 0 /\ ~encoder.bEos /\ failed = ""
  /\ LET poc   == encoder.POCLast + 1
         eos   == poc + 1 = encoder.framesToBeEncoded
     IN  /\ dpb' = xGetNewPicBuffer(poc)
         /\ encoder' = [encoder EXCEPT !.POCLast = poc, !.numPicRcvd = @ + 1, !.bEos = eos,
                          !.GOPid = IF Compressing(encoder.numPicRcvd + 1, poc, eos) THEN 1 ELSE 0]
  /\ UNCHANGED <<settings, decoders, failed>>

(* The video ends before the configured number of frames.                  *)
EndOfFile ==
  /\ encoder.GOPid = 0 /\ ~encoder.bEos /\ failed = ""
  /\ encoder' = [encoder EXCEPT !.bEos = TRUE, !.framesToBeEncoded = encoder.POCLast + 1,
                   !.GOPid = IF encoder.numPicRcvd > 0 THEN 1 ELSE 0]
  /\ UNCHANGED <<settings, dpb, decoders, failed>>

-----------------------------------------------------------------------------
(* Coding a picture                                                        *)

GopSizeNow == IF encoder.POCLast = 0 THEN 1 ELSE GOPSize     \* xInitGOP

PocCurr ==
  IF encoder.POCLast = 0 THEN 0
  ELSE encoder.POCLast - encoder.numPicRcvd + GOPList[encoder.GOPid].POC

getNalUnitType(poc) ==
  CASE poc = 0 -> "IDR"
    [] poc # 0 /\ settings.decodingRefreshType = 1 /\ IntraPicture(poc) -> "CRA"
    [] poc # 0 /\ settings.decodingRefreshType = 2 /\ IntraPicture(poc) -> "IDR"
    [] OTHER -> IF encoder.pocCRA > 0 /\ poc < encoder.pocCRA THEN "RASL"
                ELSE IF encoder.lastIDR > 0 /\ poc < encoder.lastIDR THEN "RADL"
                ELSE "TRAIL"

(* TEncSlice::initEncSlice and the slice type of the entry.                *)
InitSlice(poc, entry) ==
  LET type  == getNalUnitType(poc)
      intra == encoder.POCLast = 0 \/ IntraPicture(poc)
  IN  [poc |-> poc, type |-> type, tid |-> IF intra THEN 0 ELSE entry.temporalId,
       sliceType |-> IF intra THEN "I" ELSE entry.sliceType,
       layerNonRef |-> encoder.POCLast # 0 /\ ~entry.refPic,
       noOutputPriorPics |-> FALSE, lt |-> << >>,
       assocType |-> IF type \in IRAPTypes THEN type ELSE encoder.associatedIRAPType,
       assocPOC |-> IF type \in IRAPTypes THEN poc ELSE encoder.associatedIRAPPOC]

(* The type of a picture that is no reference within its layer.            *)
NonReference(s) == s.layerNonRef /\ s.type \notin IRAPTypes /\ ~(GopSizeNow = 1 /\ s.sliceType = "I" /\ s.type = "TRAIL")

(* TComSlice::decodingRefreshMarking: an IDR picture ends the use of all   *)
(* pictures.  The first picture put out after a CRA picture, and with      *)
(* EfficientFieldIRAPEnabled also after an IDR picture, ends that of all   *)
(* but this picture.                                                       *)
RefreshPOC(s) ==
  IF settings.efficientFieldIRAP /\ s.assocType = "IDR" THEN encoder.lastIDR ELSE encoder.pocCRA

Refreshing(s) == s.type # "IDR" /\ encoder.refreshPending /\ s.poc > RefreshPOC(s)

RefreshPending(s) ==
  CASE s.type = "IDR" -> encoder.refreshPending \/ settings.efficientFieldIRAP
    [] s.type = "CRA" -> TRUE
    [] OTHER          -> encoder.refreshPending /\ ~Refreshing(s)

RefreshMarking(pics, s) ==
  LET kept == IF s.type = "IDR" THEN {s.poc}
              ELSE IF Refreshing(s) THEN {s.poc, RefreshPOC(s)}
              ELSE {pics[i].poc : i \in DOMAIN pics}
  IN  MapPictures(pics, LAMBDA p : IF p.poc \in kept THEN p ELSE [p EXCEPT !.referenced = FALSE])

(* TComSlice::checkThatAllRefPicsAreAvailable.                             *)
AllAvailable(pics, s) ==
  \A i \in DOMAIN s.st :
    LET poc == RefPOC(s, s.st[i])
    IN  IF poc >= 0 THEN HasShortTerm(pics, poc)
        ELSE settings.decodingRefreshType # 3 \/ (s.poc <= 0 /\ s.assocType # "IDR")

(* TComSlice::createExplicitReferencePictureSetFromReference.              *)
createExplicitReferencePictureSet(pics, s) ==
  LET kept == SelectSeq(s.st, LAMBDA e : \E i \in DOMAIN pics : pics[i].poc = RefPOC(s, e) /\ pics[i].referenced)
  IN  [i \in DOMAIN kept |-> [kept[i] EXCEPT !.used = @ /\ s.type \notin IRAPTypes]]

ReferencePictureSet(pics, s) ==
  IF AllAvailable(pics, s) /\ s.type \notin IRAPTypes THEN s.st ELSE createExplicitReferencePictureSet(pics, s)

(* The temporal layer switching points, once the set is applied.           *)
\* Mutant: pictures of the layer itself are let through.
isTemporalLayerSwitchingPoint_Higher(pics, s) ==
  \A i \in DOMAIN pics : pics[i].referenced /\ pics[i].poc # s.poc => pics[i].tid <= s.tid

isTemporalLayerSwitchingPoint(pics, s) ==
  \A i \in DOMAIN pics : pics[i].referenced /\ pics[i].poc # s.poc => pics[i].tid < s.tid

isStepwiseTemporalLayerSwitchingPointCandidate(pics, s) ==
  \A i \in DOMAIN pics :
    pics[i].referenced /\ pics[i].usedByCurr /\ pics[i].poc # s.poc => pics[i].tid < s.tid

(* The layer of the entry with a POC in this GOP; for a picture of another *)
(* GOP that of the entry behind the last.                                  *)
TemporalIdOf(poc) ==
  LET k == SelectInSeq(GOPList, LAMBDA e : e.POC = poc)
  IN  IF k \in 1..GOPSize THEN GOPList[k].temporalId
      ELSE IF Len(GOPList) > GOPSize THEN GOPList[GOPSize + 1].temporalId ELSE 0

(* No later picture of the layer in the GOP predicts from the layer.       *)
LaterPicturesAllow(s) ==
  \A k \in encoder.GOPid + 1..GOPSize : GOPList[k].temporalId = s.tid =>
    \A i \in DOMAIN settings.sets[k] :
      settings.sets[k][i].used => TemporalIdOf(GOPList[k].POC + settings.sets[k][i].delta) < s.tid

SwitchingType(pics, s) ==
  IF s.tid = 0 \/ s.type \in LeadingTypes THEN s.type
  ELSE IF isTemporalLayerSwitchingPoint(pics, s) \/ settings.maxTempLayer = 1 THEN "TSA"
  ELSE IF isStepwiseTemporalLayerSwitchingPointCandidate(pics, s) /\ LaterPicturesAllow(s) THEN "STSA"
  ELSE s.type

-----------------------------------------------------------------------------
(* TComSlice::setRefPicList finds the pictures used in the list.           *)

MAX_NUM_NEGATIVE_PICTURES == 16

UsedEntries(s, negative) == {i \in DOMAIN s.st : s.st[i].used /\ (s.st[i].delta < 0) = negative}

(* They do not fit the arrays RefPicSetStCurr0 and RefPicSetStCurr1.       *)
ListsOverflow(s) ==
  s.sliceType # "I" /\ \E negative \in BOOLEAN : Cardinality(UsedEntries(s, negative)) > MAX_NUM_NEGATIVE_PICTURES

(* The entries of a list are taken in turn from none: rIdx % 0.            *)
ListsDivide(s, entry) ==
  /\ s.sliceType # "I"
  /\ Min({entry.numRefPicsActive, Len(s.st)}) > 0
  /\ UsedEntries(s, TRUE) \cup UsedEntries(s, FALSE) = {}

ListsMiss(pics, s) ==
  s.sliceType # "I" /\ \E i \in UsedEntries(s, TRUE) \cup UsedEntries(s, FALSE) : RefPicIndex(pics, RefPOC(s, s.st[i])) = 0

(* The picture in its buffer when it is coded.                             *)
CodedInto(p, s) ==
  [p EXCEPT !.type = s.type, !.tid = s.tid, !.assocPOC = s.assocPOC, !.picOutput = TRUE, !.nonRef = s.layerNonRef,
            !.referenced = TRUE]

CodePicture ==
  /\ encoder.GOPid > 0 /\ PocCurr < encoder.framesToBeEncoded /\ failed = ""
  /\ LET entry  == GOPList[encoder.GOPid]
         begun  == InitSlice(PocCurr, entry) @@ [st |-> selectReferencePictureSet(PocCurr, encoder.GOPid)]
         at     == RefPicIndex(dpb, PocCurr)
         listed == [dpb EXCEPT ![at] = CodedInto(@, begun)]
         fresh  == RefreshMarking(listed, begun)
         s      == [begun EXCEPT !.st = ReferencePictureSet(fresh, begun)]
         marked == ApplyReferencePictureSet(fresh, s)
         coded  == [s EXCEPT !.type = SwitchingType(marked, s)]
         joined == decoders \cup Starting(coded) \cup TakingUp(decoders, coded)
     IN  IF at = 0
         THEN failed' = "assertion" /\ UNCHANGED <<dpb, encoder, decoders>>
         ELSE /\ failed' = IF \/ dpb[at].nals # {PocCurr}
                              \/ ~LeadingRestrictions(fresh, s)
                              \/ \E i \in DOMAIN marked : ~MarkingAllowed(marked[i], s)
                              \/ ListsMiss(marked, coded) THEN "assertion"
                           ELSE IF ListsOverflow(coded) THEN "array"
                           ELSE IF ListsDivide(coded, entry) THEN "division"
                           ELSE ""
              /\ dpb' = [marked EXCEPT ![at] = [@ EXCEPT !.type = coded.type, !.recon = TRUE]]
              /\ decoders' = {Decode(d, coded @@ [nonRef |-> NonReference(s)]) : d \in joined}
              /\ encoder' = [encoder EXCEPT
                   !.GOPid = IF @ = GopSizeNow THEN 0 ELSE @ + 1,
                   !.numPicRcvd = IF encoder.GOPid = GopSizeNow THEN 0 ELSE @,
                   !.lastIDR = IF s.type = "IDR" THEN s.poc ELSE @,
                   !.pocCRA = IF s.type = "CRA" THEN s.poc ELSE @,
                   !.refreshPending = RefreshPending(s),
                   !.associatedIRAPType = s.assocType, !.associatedIRAPPOC = s.assocPOC]
  /\ UNCHANGED settings

(* A picture of the GOP that the video does not have any more.             *)
SkipPicture ==
  /\ encoder.GOPid > 0 /\ PocCurr >= encoder.framesToBeEncoded /\ failed = ""
  /\ encoder' = [encoder EXCEPT !.GOPid = IF @ = GopSizeNow THEN 0 ELSE @ + 1,
                                !.numPicRcvd = IF encoder.GOPid = GopSizeNow THEN 0 ELSE @]
  /\ UNCHANGED <<settings, dpb, decoders, failed>>

Finished == failed # "" \/ (encoder.bEos /\ encoder.GOPid = 0)

Done == Finished /\ UNCHANGED vars

-----------------------------------------------------------------------------
(* A configuration the check lets through, with what the check makes of it.  *)
Checked(c) ==
  LET g == xCheckGOP(c.GOPList)
  IN  [c EXCEPT !.GOPList = << >>] @@
      [ok |-> xCheckPeriods(c) /\ ~g.errorGOP, list |-> g.list, GOPSize |-> g.GOPSize, sets |-> xInitRPS(g.list),
       maxTempLayer |-> MaxTempLayer(c.GOPList),
       numReorderPics |-> ReorderOfLayers(c.GOPList), maxDecPicBuffering |-> BufferingOfLayers(c.GOPList)]

Init ==
  /\ settings \in {s \in {Checked(c) : c \in Configs} : s.ok}
  /\ dpb = << >>
  /\ encoder = [POCLast |-> -1, numPicRcvd |-> 0, GOPid |-> 0, framesToBeEncoded |-> settings.frames, bEos |-> FALSE,
                lastIDR |-> 0, pocCRA |-> 0, refreshPending |-> FALSE,
                associatedIRAPType |-> "IDR", associatedIRAPPOC |-> 0]
  /\ decoders = {} /\ failed = ""

Next == Receive \/ EndOfFile \/ CodePicture \/ SkipPicture \/ Done

Spec == Init /\ [][Next]_vars

-----------------------------------------------------------------------------
(* A decoder that starts at any random access point, whatever layers it    *)
(* leaves out, and wherever it takes a layer up again at a switching       *)
(* point, holds every picture the pictures it decodes are predicted from:  *)
(* what getNalUnitType, the sets and the switching types of the encoder    *)
(* promise.                                                                *)
DecodersHaveReferences == \A d \in decoders : ~d.missing

(* The pictures a decoder puts out, keeping no more of them waiting than   *)
(* the stream declares for its highest layer (numReorderPics), come out in *)
(* the order of the video.                                                 *)
OutputInOrder == \A d \in decoders : ~d.late

(* No assertion of the encoder fails, every frame is still in the buffer   *)
(* when its turn comes, and the reference lists find their pictures in     *)
(* arrays that hold them, and are never filled from none, wherever a       *)
(* refresh or the end of the video takes references away; at the end every *)
(* frame is coded.                                                         *)
NothingFails ==
  /\ failed = ""
  /\ Finished /\ encoder.POCLast >= 0 =>
       \E d \in decoders : d.start = 0 /\ d.count = encoder.POCLast + 1

(* CommonDef.h allows MAX_NUM_REF_PICS = 170 pictures to be used for       *)
(* reference: setRefPicList has room for them.                             *)
ReferencesFit == failed # "array"

(* setRefPicList says that when the current picture contains a P or B      *)
(* slice, the value of NumPocTotalCurr shall not be equal to 0.            *)
SomethingToPredictFrom == failed # "division"
=============================================================================
