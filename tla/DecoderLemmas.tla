----------------------------- MODULE DecoderLemmas -----------------------------
(***************************************************************************)
(* Lemmas about the decoder.  The first half is about the picture list and *)
(* the main loop: what the loop, which writes, discards and deletes        *)
(* pictures, leaves of the pictures, the registers and the pictures        *)
(* written.  The second half is about the bitstreams of the theorems: what *)
(* Conforming says of the slices of one picture, of the first pictures     *)
(* after a random access, and of the pictures that cannot be decoded.      *)
(***************************************************************************)
EXTENDS Decoder, FiniteSetTheorems, SequenceTheorems, TLAPS
LOCAL INSTANCE SequencesExt
LOCAL INSTANCE FiniteSetsExt

-----------------------------------------------------------------------------
(* Pictures and lists of pictures.                                         *)

Pictures ==
  [nals : SUBSET Nat, poc : Int, type : SliceTypes, tid : Nat, assocPOC : Int, picOutput : BOOLEAN,
   nonRef : BOOLEAN, recon : BOOLEAN, output : BOOLEAN, referenced : BOOLEAN, usedByCurr : BOOLEAN,
   longTerm : BOOLEAN, current : BOOLEAN]

Pics(l) == {l[i] : i \in DOMAIN l}

(* r is the picture q after some pictures were written or discarded.       *)
Agrees(r, q) ==
  /\ r.nals = q.nals /\ r.poc = q.poc /\ r.referenced = q.referenced
  /\ r.longTerm = q.longTerm /\ r.current = q.current
  /\ r.output => q.output
  /\ q.referenced /\ q.recon => r.recon

SamePictures(k, l) ==
  /\ \A r \in Pics(k) : \E q \in Pics(l) : Agrees(r, q)
  /\ \A q \in Pics(l) : \E r \in Pics(k) : Agrees(r, q)

LEMMA SameReflexive == ASSUME NEW l PROVE SamePictures(l, l)
  BY DEF SamePictures, Agrees

LEMMA SameTransitive ==
  ASSUME NEW k, NEW l, NEW m, SamePictures(k, l), SamePictures(l, m)
  PROVE  SamePictures(k, m)
<1>1. \A r, q, t : Agrees(r, q) /\ Agrees(q, t) => Agrees(r, t)
  BY DEF Agrees
<1> QED
  BY <1>1 DEF SamePictures

LEMMA ListOf ==
  ASSUME NEW S, NEW n \in Nat, NEW f \in [1..n -> S]
  PROVE  <<>> \o f = f /\ f \in Seq(S) /\ Len(f) = n /\ DOMAIN f = 1..n
<1>1. f \in Seq(S) /\ Len(f) = n /\ DOMAIN f = 1..n
  OBVIOUS
<1> QED
  BY <1>1, ConcatEmptySeq

(* What every list of pictures is made of.                                 *)
LEMMA PicturesIn ==
  ASSUME NEW l \in Seq(Pictures)
  PROVE  /\ Pics(l) \subseteq Pictures /\ DOMAIN l = 1..Len(l) /\ Len(l) \in Nat
         /\ l = <<>> <=> Pics(l) = {}
         /\ \A i \in DOMAIN l : l[i] \in Pictures /\ l[i] \in Pics(l)
  BY DEF Pics

(* A list made of one picture for each picture of another.                 *)
LEMMA SameIfEach ==
  ASSUME NEW l \in Seq(Pictures), NEW k \in Seq(Pictures), DOMAIN k = DOMAIN l,
         \A i \in DOMAIN l : Agrees(k[i], l[i])
  PROVE  SamePictures(k, l)
  BY DEF SamePictures, Pics

(* What the loop does to one picture: writing and discarding it only take  *)
(* its mark for output.                                                    *)
LEMMA PictureChanges ==
  ASSUME NEW q \in Pictures
  PROVE  /\ AfterWriting(q) \in Pictures /\ Agrees(AfterWriting(q), q)
         /\ NotOutput(q) \in Pictures /\ Agrees(NotOutput(q), q)
         /\ Filtered(q) \in Pictures
         /\ ~q.current => Filtered(q) = q
         /\ q.current => Filtered(q) = [q EXCEPT !.output = q.picOutput, !.recon = TRUE]
  BY DEF Pictures, AfterWriting, NotOutput, Filtered, Agrees

(* filterPicture, picture by picture.                                      *)
LEMMA FilteredList ==
  ASSUME NEW l \in Seq(Pictures)
  PROVE  /\ FilterPicture(l) \in Seq(Pictures)
         /\ DOMAIN FilterPicture(l) = DOMAIN l
         /\ \A i \in DOMAIN l : FilterPicture(l)[i] = Filtered(l[i])
<1> DEFINE f == [i \in DOMAIN l |-> Filtered(l[i])]
<1>1. f \in [1..Len(l) -> Pictures] /\ Len(l) \in Nat
  BY PicturesIn, PictureChanges
<1>2. FilterPicture(l) = <<>> \o f
  BY DEF FilterPicture, MapPictures
<1> HIDE DEF f
<1>3. FilterPicture(l) = f /\ f \in Seq(Pictures) /\ DOMAIN f = DOMAIN l
  BY <1>1, <1>2, ListOf, PicturesIn
<1> QED
  BY <1>3 DEF f

-----------------------------------------------------------------------------
(* Ranks.                                                                  *)

(* A part of a finite set has fewer elements.                              *)
LEMMA Fewer ==
  ASSUME NEW S, IsFiniteSet(S), NEW T \in SUBSET S
  PROVE  /\ IsFiniteSet(T) /\ Cardinality(T) \in Nat /\ Cardinality(S) \in Nat
         /\ Cardinality(T) <= Cardinality(S)
         /\ T # S => Cardinality(T) < Cardinality(S)
  BY FS_Subset, FS_CardinalityType

(* Different places for all elements of a set leave none free.             *)
LEMMA Pigeonhole ==
  ASSUME NEW C, IsFiniteSet(C), NEW f \in [C -> 1..Cardinality(C)],
         \A i, j \in C : f[i] = f[j] => i = j
  PROVE  \A k \in 1..Cardinality(C) : \E i \in C : f[i] = k
<1>1. SUFFICES ASSUME NEW k \in 1..Cardinality(C), \A i \in C : f[i] # k
               PROVE  FALSE
  OBVIOUS
<1> DEFINE n == Cardinality(C)
           T == (1..n) \ {k}
<1>2. n \in Nat
  BY FS_CardinalityType
<1>3. IsFiniteSet(1..n) /\ Cardinality(1..n) = n
  BY <1>2, FS_Interval
<1>4. IsFiniteSet(T) /\ Cardinality(T) = n - 1
  BY <1>1, <1>3, FS_RemoveElement
<1>5. f \in [C -> T]
  BY <1>1
<1>6. Cardinality(T) < Cardinality(C)
  BY <1>2, <1>4
<1>7. \E x, y \in C : x # y /\ f[x] = f[y]
  BY <1>4, <1>5, <1>6, FS_PigeonHole
<1> QED
  BY <1>7

(* The elements of a finite set of numbers have the places 1, 2, 3, ...    *)
LEMMA Places ==
  ASSUME NEW n \in Nat, NEW C \in SUBSET (1..n)
  PROVE  /\ Cardinality(C) \in Nat
         /\ \A k \in 1..Cardinality(C) : \E i \in C : Cardinality({j \in C : j <= i}) = k
<1> DEFINE Upto(i) == {j \in C : j <= i}
           f == [i \in C |-> Cardinality(Upto(i))]
<1>1. IsFiniteSet(C) /\ Cardinality(C) \in Nat /\ \A i \in C : i \in Nat
  <2>1. IsFiniteSet(1..n)
    BY FS_Interval
  <2>2. IsFiniteSet(C) /\ Cardinality(C) \in Nat
    BY <2>1, Fewer
  <2>3. \A i \in C : i \in Nat
    OBVIOUS
  <2> QED
    BY <2>2, <2>3
<1>2. \A i \in C : /\ IsFiniteSet(Upto(i)) /\ Cardinality(Upto(i)) \in Nat
                   /\ Cardinality(Upto(i)) <= Cardinality(C) /\ i \in Upto(i)
  <2> TAKE i \in C
  <2>1. Upto(i) \in SUBSET C /\ i \in Upto(i)
    OBVIOUS
  <2> HIDE DEF Upto
  <2> QED
    BY <1>1, <2>1, Fewer
<1>3. \A i \in C : Cardinality(Upto(i)) # 0
  BY <1>2, FS_EmptySet
<1>4. f \in [C -> 1..Cardinality(C)]
  BY <1>1, <1>2, <1>3
<1>5. ASSUME NEW i \in C, NEW j \in C, i < j PROVE f[i] # f[j]
  <2>1. Upto(i) \in SUBSET Upto(j) /\ Upto(i) # Upto(j)
    <3>1. \A h \in C : h <= i => h <= j
      BY <1>1, <1>5
    <3>2. j <= j /\ ~(j <= i)
      BY <1>1, <1>5
    <3>3. j \in Upto(j) /\ j \notin Upto(i)
      BY <3>2
    <3> QED
      BY <3>1, <3>3
  <2> HIDE DEF Upto
  <2>2. Cardinality(Upto(i)) < Cardinality(Upto(j))
    BY <1>2, <1>5, <2>1, Fewer
  <2> QED
    BY <1>2, <1>5, <2>2
<1>6. \A i, j \in C : f[i] = f[j] => i = j
  <2>1. \A i, j \in C : i = j \/ i < j \/ j < i
    OBVIOUS
  <2> QED
    BY <1>5, <2>1
<1>7. \A k \in 1..Cardinality(C) : \E i \in C : f[i] = k
  BY <1>1, <1>4, <1>6, Pigeonhole
<1> QED
  BY <1>1, <1>7

-----------------------------------------------------------------------------
(* sortPicList puts the same pictures in another order.                    *)

(* Before is a strict order of the places of the list.                     *)
LEMMA BeforeOrders ==
  ASSUME NEW l \in Seq(Pictures), NEW i \in DOMAIN l, NEW j \in DOMAIN l
  PROVE  /\ ~Before(l, i, i)
         /\ i # j => Before(l, i, j) \/ Before(l, j, i)
         /\ \A h \in DOMAIN l : Before(l, h, i) /\ Before(l, i, j) => Before(l, h, j)
<1>1. \A h \in DOMAIN l : h \in Nat /\ l[h].poc \in Int
  <2>1. \A h \in DOMAIN l : h \in Nat /\ l[h] \in Pictures
    BY PicturesIn
  <2> QED
    BY <2>1 DEF Pictures
<1> QED
  BY <1>1 DEF Before

(* Sorting the list keeps its pictures, each once, and leaves none after a *)
(* picture it should come before.                                          *)
LEMMA SortKeepsPictures ==
  ASSUME NEW l \in Seq(Pictures)
  PROVE  /\ SortPicList(l) \in Seq(Pictures) /\ SamePictures(SortPicList(l), l)
         /\ DOMAIN SortPicList(l) = DOMAIN l /\ Pics(SortPicList(l)) = Pics(l)
         /\ \A j, k \in DOMAIN l : j < k =>
              \E h, i \in DOMAIN l : /\ h # i /\ ~Before(l, i, h)
                                    /\ SortPicList(l)[j] = l[h] /\ SortPicList(l)[k] = l[i]
<1> DEFINE C == DOMAIN l
           Earlier(i) == {j \in C : Before(l, j, i)}
           Rank(i) == 1 + Cardinality(Earlier(i))
           f == [i \in C |-> Rank(i)]
           g == [k \in C |-> l[CHOOSE i \in C : Rank(i) = k]]
<1>1. C = 1..Len(l) /\ Len(l) \in Nat /\ IsFiniteSet(C) /\ Cardinality(C) = Len(l)
  <2>1. C = 1..Len(l) /\ Len(l) \in Nat
    BY PicturesIn
  <2>2. \A m \in Nat : IsFiniteSet(1..m) /\ Cardinality(1..m) = m
    BY FS_Interval
  <2> QED
    BY <2>1, <2>2
<1>2. \A i \in C : /\ IsFiniteSet(Earlier(i)) /\ Cardinality(Earlier(i)) \in Nat
                   /\ Cardinality(Earlier(i)) < Len(l)
  <2> TAKE i \in C
  <2>1. Earlier(i) \in SUBSET C /\ Earlier(i) # C
    BY BeforeOrders
  <2> HIDE DEF Earlier
  <2> QED
    BY <1>1, <2>1, Fewer
<1>4. f \in [C -> 1..Len(l)]
  <2>1. \A i \in C : Rank(i) \in 1..Len(l)
    <3> HIDE DEF Earlier
    <3> QED
      BY <1>1, <1>2
  <2> QED
    BY <2>1
<1>5. ASSUME NEW i \in C, NEW j \in C, Before(l, i, j) PROVE Rank(i) < Rank(j)
  <2>1. Earlier(i) \in SUBSET Earlier(j) /\ Earlier(i) # Earlier(j)
    BY <1>5, BeforeOrders
  <2> HIDE DEF Earlier
  <2>2. Cardinality(Earlier(i)) < Cardinality(Earlier(j))
    BY <1>2, <1>5, <2>1, Fewer
  <2> QED
    BY <1>2, <1>5, <2>2
<1>6. \A i, j \in C : Rank(i) = Rank(j) => i = j
  <2>1. \A i \in C : Rank(i) \in Nat
    <3> HIDE DEF Earlier
    <3> QED
      BY <1>2
  <2> HIDE DEF Rank
  <2> QED
    BY <1>5, <2>1, BeforeOrders
<1>7. \A k \in C : \E i \in C : Rank(i) = k
  <2> HIDE DEF Rank
  <2>1. \A i, j \in C : f[i] = f[j] => i = j
    BY <1>6
  <2>2. f \in [C -> 1..Cardinality(C)]
    BY <1>1, <1>4
  <2>3. \A k \in 1..Cardinality(C) : \E i \in C : f[i] = k
    <3> HIDE DEF f
    <3> QED
      BY <1>1, <2>1, <2>2, Pigeonhole
  <2> QED
    BY <1>1, <2>3
<1>8. SortPicList(l) = <<>> \o g
  BY DEF SortPicList
<1>9. \A i \in C : l[i] \in Pictures
  BY PicturesIn
<1> HIDE DEF Rank
<1>10. \A k \in C : \E i \in C : Rank(i) = k /\ g[k] = l[i]
  BY <1>7
<1>11. \A i \in C : Rank(i) \in C
  BY <1>1, <1>4
<1>12. \A i \in C : g[Rank(i)] = l[i]
  BY <1>6, <1>10, <1>11
<1>13. g \in [1..Len(l) -> Pictures]
  BY <1>1, <1>9, <1>10
<1> HIDE DEF g
<1>14. SortPicList(l) = g /\ g \in Seq(Pictures) /\ DOMAIN g = C
  BY <1>1, <1>8, <1>13, ListOf
<1>15. \A r : Agrees(r, r)
  BY DEF Agrees
<1>16. SamePictures(g, l) /\ Pics(g) = Pics(l)
  <2>1. \A k \in C : g[k] \in Pics(l)
    BY <1>10 DEF Pics
  <2>2. \A i \in C : l[i] \in Pics(g)
    BY <1>11, <1>12, <1>14 DEF Pics
  <2>3. Pics(g) = Pics(l)
    BY <1>14, <2>1, <2>2 DEF Pics
  <2> QED
    BY <1>15, <2>3 DEF SamePictures
<1>17. ASSUME NEW j \in C, NEW k \in C, j < k
       PROVE  \E h, i \in C : h # i /\ ~Before(l, i, h) /\ g[j] = l[h] /\ g[k] = l[i]
  <2>1. PICK h \in C : Rank(h) = j /\ g[j] = l[h]
    BY <1>10
  <2>2. PICK i \in C : Rank(i) = k /\ g[k] = l[i]
    BY <1>10
  <2>3. j \in Nat /\ k \in Nat
    BY <1>1
  <2>4. ~(Rank(i) < Rank(h)) /\ h # i
    BY <1>17, <2>1, <2>2, <2>3
  <2> QED
    BY <1>5, <2>1, <2>2, <2>4
<1> QED
  BY <1>14, <1>16, <1>17

(* A part of a list in order has no element the list has not.              *)
LEMMA InOrderFrom ==
  ASSUME NEW S, NEW l \in Seq(S), NEW C \in SUBSET DOMAIN l
  PROVE  /\ InOrder(l, C) \in Seq(S)
         /\ \A k \in DOMAIN InOrder(l, C) : \E i \in C : InOrder(l, C)[k] = l[i]
<1> DEFINE n == Cardinality(C)
           place(k) == CHOOSE i \in C : Cardinality({j \in C : j <= i}) = k
           f == [k \in 1..n |-> l[place(k)]]
<1>1. n \in Nat /\ \A k \in 1..n : place(k) \in C
  <2>1. C \in SUBSET (1..Len(l)) /\ Len(l) \in Nat
    OBVIOUS
  <2>2. n \in Nat /\ \A k \in 1..n : \E i \in C : Cardinality({j \in C : j <= i}) = k
    BY <2>1, Places
  <2> QED
    BY <2>2
<1> HIDE DEF place, n
<1>2. \A i \in C : l[i] \in S
  OBVIOUS
<1>3. f \in [1..n -> S] /\ \A k \in 1..n : \E i \in C : f[k] = l[i]
  BY <1>1, <1>2
<1>4. InOrder(l, C) = <<>> \o f
  BY DEF InOrder, place, n
<1> HIDE DEF f
<1>5. InOrder(l, C) = f /\ f \in Seq(S) /\ DOMAIN f = 1..n
  BY <1>1, <1>3, <1>4, ListOf
<1> QED
  BY <1>3, <1>5

-----------------------------------------------------------------------------
(* Output                                                                  *)

Apps == [lastDisplay : Int, listKnown : BOOLEAN, loopFiltered : BOOLEAN, skipFrame : {0}]
WrittenPictures == [poc : Int, nals : SUBSET Nat]

SameApp(c, b) == c.listKnown = b.listKnown /\ c.loopFiltered = b.loopFiltered

Turn(l, d, a, w, x) == [dpb |-> l, dec |-> d, app |-> a, written |-> w, discarded |-> x]

IsTurn(m, l, d, a, w) == \E x : m = Turn(l, d, a, w, x)

LEMMA TurnFields ==
  ASSUME NEW l, NEW d, NEW a, NEW w, NEW x
  PROVE  /\ Turn(l, d, a, w, x).dpb = l /\ Turn(l, d, a, w, x).dec = d
         /\ Turn(l, d, a, w, x).app = a /\ Turn(l, d, a, w, x).written = w
         /\ Turn(l, d, a, w, x).discarded = x
  BY DEF Turn

FirstInPicture(d) == [d EXCEPT !.firstSliceInPicture = TRUE]
WithFirstInPicture(m) == [m EXCEPT !.dec.firstSliceInPicture = TRUE]
FirstInSequence(d, v) == [d EXCEPT !.firstSliceInSequence = v]
WithFirstInSequence(m, v) == [m EXCEPT !.dec.firstSliceInSequence = v]
NoPriorPics(d) == [d EXCEPT !.isNoOutputPriorPics = FALSE]
WithNoPriorPics(m) == [m EXCEPT !.dec.isNoOutputPriorPics = FALSE]
ListKnown(a) == [a EXCEPT !.listKnown = TRUE]
WithListKnown(m) == [m EXCEPT !.app.listKnown = TRUE]
LoopFiltered(a, v) == [a EXCEPT !.loopFiltered = v]
WithLoopFiltered(m, v) == [m EXCEPT !.app.loopFiltered = v]

LEMMA TurnFirstInPicture ==
  ASSUME NEW l, NEW d, NEW a, NEW w, NEW x
  PROVE  WithFirstInPicture(Turn(l, d, a, w, x)) = Turn(l, FirstInPicture(d), a, w, x)
<1> DEFINE m == Turn(l, d, a, w, x)
<1>1. m.dec = d
  BY DEF Turn
<1>2. WithFirstInPicture(m) = [m EXCEPT !.dec = FirstInPicture(m.dec)]
  BY DEF WithFirstInPicture, FirstInPicture, Turn
<1>3. \A y : [m EXCEPT !.dec = y] = Turn(l, y, a, w, x)
  BY DEF Turn
<1> QED
  BY <1>1, <1>2, <1>3

LEMMA TurnFirstInSequence ==
  ASSUME NEW l, NEW d, NEW a, NEW w, NEW x, NEW v
  PROVE  WithFirstInSequence(Turn(l, d, a, w, x), v) = Turn(l, FirstInSequence(d, v), a, w, x)
  BY DEF Turn, WithFirstInSequence, FirstInSequence

LEMMA TurnNoPriorPics ==
  ASSUME NEW l, NEW d, NEW a, NEW w, NEW x
  PROVE  WithNoPriorPics(Turn(l, d, a, w, x)) = Turn(l, NoPriorPics(d), a, w, x)
<1> DEFINE m == Turn(l, d, a, w, x)
<1>1. m.dec = d
  BY DEF Turn
<1>2. WithNoPriorPics(m) = [m EXCEPT !.dec = NoPriorPics(m.dec)]
  BY DEF WithNoPriorPics, NoPriorPics, Turn
<1>3. \A y : [m EXCEPT !.dec = y] = Turn(l, y, a, w, x)
  BY DEF Turn
<1> QED
  BY <1>1, <1>2, <1>3

LEMMA TurnListKnown ==
  ASSUME NEW l, NEW d, NEW a, NEW w, NEW x
  PROVE  WithListKnown(Turn(l, d, a, w, x)) = Turn(l, d, ListKnown(a), w, x)
<1> DEFINE m == Turn(l, d, a, w, x)
<1>1. m.app = a
  BY DEF Turn
<1>2. WithListKnown(m) = [m EXCEPT !.app = ListKnown(m.app)]
  BY DEF WithListKnown, ListKnown, Turn
<1>3. \A y : [m EXCEPT !.app = y] = Turn(l, d, y, w, x)
  BY DEF Turn
<1> QED
  BY <1>1, <1>2, <1>3

LEMMA TurnLoopFiltered ==
  ASSUME NEW l, NEW d, NEW a, NEW w, NEW x, NEW v
  PROVE  WithLoopFiltered(Turn(l, d, a, w, x), v) = Turn(l, d, LoopFiltered(a, v), w, x)
  BY DEF Turn, WithLoopFiltered, LoopFiltered

Change(m, k, v, y) == [m EXCEPT !.dpb = k, !.written = v, !.app.lastDisplay = y]

LEMMA TurnAfterWriting ==
  ASSUME NEW l, NEW d, NEW a, NEW w, NEW x, NEW k, NEW v, NEW y
  PROVE  Change(Turn(l, d, a, w, x), k, v, y) = Turn(k, d, [a EXCEPT !.lastDisplay = y], v, x)
<1> DEFINE b == [a EXCEPT !.lastDisplay = y]
<1>1. [Turn(l, d, a, w, x) EXCEPT !.dpb = k] = Turn(k, d, a, w, x)
  BY DEF Turn
<1>2. [Turn(k, d, a, w, x) EXCEPT !.written = v] = Turn(k, d, a, v, x)
  BY DEF Turn
<1>3. [Turn(k, d, a, v, x) EXCEPT !.app.lastDisplay = y] = Turn(k, d, b, v, x)
  BY DEF Turn
<1>4. Change(Turn(l, d, a, w, x), k, v, y)
        = [[[Turn(l, d, a, w, x) EXCEPT !.dpb = k] EXCEPT !.written = v] EXCEPT !.app.lastDisplay = y]
  BY DEF Change
<1> QED
  BY <1>1, <1>2, <1>3, <1>4

(* What is in v was in w, or was a picture of l that waited.               *)
WrittenFrom(v, w, l) ==
  \A j \in DOMAIN v :
    \/ \E i \in DOMAIN w : v[j] = w[i]
    \/ \E q \in Pics(l) : q.output /\ v[j].nals = q.nals

(* What is put in order for writing waits in the list.                     *)
LEMMA WaitingPictures ==
  ASSUME NEW l \in Seq(Pictures), NEW C \in SUBSET Waiting(l)
  PROVE  /\ InOrder(l, C) \in Seq(Pictures)
         /\ \A k \in DOMAIN InOrder(l, C) : InOrder(l, C)[k] \in Pics(l) /\ InOrder(l, C)[k].output
<1>1. C \subseteq DOMAIN l /\ \A i \in C : l[i] \in Pics(l) /\ l[i].output
  BY DEF Waiting, Pics
<1> QED
  BY <1>1, InOrderFrom

(* What is written was in the list, and waited.                            *)
LEMMA WithWrittenFacts ==
  ASSUME NEW l \in Seq(Pictures), NEW w \in Seq(WrittenPictures), NEW C \in SUBSET Waiting(l)
  PROVE  /\ WithWritten(w, InOrder(l, C)) \in Seq(WrittenPictures)
         /\ WrittenFrom(WithWritten(w, InOrder(l, C)), w, l)
<1> DEFINE k == InOrder(l, C)
           h == [i \in DOMAIN k |-> Written(k[i])]
           v == <<>> \o h
<1>1. k \in Seq(Pictures) /\ \A i \in DOMAIN k : k[i] \in Pics(l) /\ k[i].output
  BY WaitingPictures
<1>2. WithWritten(w, k) = w \o v
  BY DEF WithWritten, MapPictures
<1> HIDE DEF k
<1>3. v \in Seq(WrittenPictures) /\ \A i \in DOMAIN v : \E q \in Pics(l) : q.output /\ v[i].nals = q.nals
  <2>1. \A q \in Pictures : Written(q) \in WrittenPictures /\ Written(q).nals = q.nals
    BY DEF Pictures, Written, WrittenPictures
  <2>2. DOMAIN k = 1..Len(k) /\ Len(k) \in Nat /\ \A i \in DOMAIN k : k[i] \in Pictures
    BY <1>1
  <2>3. h \in [1..Len(k) -> WrittenPictures] /\ \A i \in 1..Len(k) : h[i].nals = k[i].nals
    BY <2>1, <2>2
  <2> HIDE DEF h
  <2>4. <<>> \o h = h /\ h \in Seq(WrittenPictures) /\ DOMAIN h = 1..Len(k)
    BY <2>2, <2>3, ListOf
  <2> QED
    BY <1>1, <2>2, <2>3, <2>4
<1> HIDE DEF v
<1>4. w \o v \in Seq(WrittenPictures)
  BY <1>3
<1>5. \A j \in DOMAIN (w \o v) : \/ \E i \in DOMAIN w : (w \o v)[j] = w[i]
                                 \/ \E i \in DOMAIN v : (w \o v)[j] = v[i]
  BY <1>3
<1>6. WrittenFrom(w \o v, w, l)
  BY <1>3, <1>5 DEF WrittenFrom
<1> QED
  BY <1>2, <1>4, <1>6 DEF k

(* Writing pictures keeps the list.                                        *)
LEMMA ReleaseFacts ==
  ASSUME NEW l \in Seq(Pictures), NEW C
  PROVE  Release(l, C) \in Seq(Pictures) /\ SamePictures(Release(l, C), l)
<1> DEFINE g == [i \in DOMAIN l |-> IF i \in C THEN AfterWriting(l[i]) ELSE l[i]]
<1>1. DOMAIN l = 1..Len(l) /\ Len(l) \in Nat /\ \A i \in DOMAIN l : l[i] \in Pictures
  BY PicturesIn
<1>2. g \in [1..Len(l) -> Pictures]
  BY <1>1, PictureChanges
<1>3. \A i \in DOMAIN l : Agrees(g[i], l[i])
  <2>1. \A q : Agrees(q, q)
    BY DEF Agrees
  <2> QED
    BY <1>1, <2>1, PictureChanges
<1>4. Release(l, C) = <<>> \o g
  BY DEF Release
<1> HIDE DEF g
<1>5. Release(l, C) = g /\ g \in Seq(Pictures) /\ DOMAIN g = DOMAIN l
  BY <1>1, <1>2, <1>4, ListOf
<1> QED
  BY <1>3, <1>5, SameIfEach

(* Discarding pictures keeps the list.                                     *)
LEMMA KeepOnlyFacts ==
  ASSUME NEW l \in Seq(Pictures), NEW poc
  PROVE  KeepOnly(l, poc) \in Seq(Pictures) /\ SamePictures(KeepOnly(l, poc), l)
<1> DEFINE g == [i \in DOMAIN l |-> IF l[i].poc # poc THEN NotOutput(l[i]) ELSE l[i]]
<1>1. DOMAIN l = 1..Len(l) /\ Len(l) \in Nat /\ \A i \in DOMAIN l : l[i] \in Pictures
  BY PicturesIn
<1>2. g \in [1..Len(l) -> Pictures]
  BY <1>1, PictureChanges
<1>3. \A i \in DOMAIN l : Agrees(g[i], l[i])
  <2>1. \A q : Agrees(q, q)
    BY DEF Agrees
  <2> QED
    BY <1>1, <2>1, PictureChanges
<1>4. KeepOnly(l, poc) = <<>> \o g
  BY DEF KeepOnly, MapPictures
<1> HIDE DEF g
<1>5. KeepOnly(l, poc) = g /\ g \in Seq(Pictures) /\ DOMAIN g = DOMAIN l
  BY <1>1, <1>2, <1>4, ListOf
<1> QED
  BY <1>3, <1>5, SameIfEach

AfterWrite(l, a) ==
  LET o == InOrder(l, Bumped(l, a.lastDisplay))
  IN  [a EXCEPT !.lastDisplay = IF o = <<>> THEN @ ELSE Last(o).poc]

(* xWriteOutput, as a step from turn to turn.                              *)
LEMMA WriteOutputIs ==
  ASSUME NEW l, NEW d, NEW a, NEW w, NEW x
  PROVE  WriteOutput(Turn(l, d, a, w, x))
           = Turn(Release(l, Bumped(l, a.lastDisplay)), d, AfterWrite(l, a),
                  WithWritten(w, InOrder(l, Bumped(l, a.lastDisplay))), x)
<1> DEFINE C == Bumped(l, a.lastDisplay)
           next == InOrder(l, C)
           k == Release(l, C)
           v == WithWritten(w, next)
           m == Turn(l, d, a, w, x)
<1>1. m.dpb = l /\ m.app = a
  BY DEF Turn
<1>2. WriteOutput(m) = WritePictures(m, Bumped(m.dpb, m.app.lastDisplay))
  BY DEF WriteOutput
<1>3. WriteOutput(m) = WritePictures(m, C)
  BY <1>1, <1>2
<1> HIDE DEF C
<1>4. WritePictures(m, C)
        = Change(m, Release(m.dpb, C), WithWritten(m.written, InOrder(m.dpb, C)),
                 IF InOrder(m.dpb, C) = <<>> THEN m.app.lastDisplay ELSE Last(InOrder(m.dpb, C)).poc)
  BY DEF WritePictures, Change
<1>5. m.written = w
  BY DEF Turn
<1>6. WritePictures(m, C)
        = Change(m, k, v, IF next = <<>> THEN a.lastDisplay ELSE Last(next).poc)
  BY <1>1, <1>4, <1>5
<1>7. WriteOutput(m) = Turn(k, d, [a EXCEPT !.lastDisplay = IF next = <<>> THEN a.lastDisplay ELSE Last(next).poc], v, x)
  BY <1>3, <1>6, TurnAfterWriting
<1> HIDE DEF m
<1> QED
  BY <1>7 DEF C, m, AfterWrite

(* m has the pictures of l, of which some were written after w.             *)
Writes(m, l, d, a, w, x) ==
  \E k \in Seq(Pictures), b \in Apps, v \in Seq(WrittenPictures) :
    /\ m = Turn(k, d, b, v, x)
    /\ SamePictures(k, l) /\ WrittenFrom(v, w, l) /\ SameApp(b, a)

(* xWriteOutput keeps the pictures, and writes some that wait.             *)
LEMMA WriteOutputFacts ==
  ASSUME NEW l \in Seq(Pictures), NEW d, NEW a \in Apps, NEW w \in Seq(WrittenPictures), NEW x
  PROVE  Writes(WriteOutput(Turn(l, d, a, w, x)), l, d, a, w, x)
<1> DEFINE C == Bumped(l, a.lastDisplay)
           next == InOrder(l, C)
           b == AfterWrite(l, a)
           k == Release(l, C)
           v == WithWritten(w, next)
<1>1. C \in SUBSET Waiting(l)
  BY DEF Bumped, Waiting
<1>2. WriteOutput(Turn(l, d, a, w, x)) = Turn(k, d, b, v, x)
  BY WriteOutputIs
<1> HIDE DEF C
<1>3. v \in Seq(WrittenPictures) /\ WrittenFrom(v, w, l)
  BY <1>1, WithWrittenFacts
<1>4. next \in Seq(Pictures)
  BY <1>1, WaitingPictures
<1> HIDE DEF next
<1>5. b \in Apps /\ SameApp(b, a)
  <2>1. b = [a EXCEPT !.lastDisplay = IF next = <<>> THEN @ ELSE Last(next).poc]
    BY DEF AfterWrite, next, C
  <2>2. next # <<>> => Last(next) \in Pictures
    BY <1>4 DEF Last
  <2>3. next # <<>> => Last(next).poc \in Int
    BY <2>2 DEF Pictures
  <2> HIDE DEF b
  <2> QED
    BY <2>1, <2>3 DEF Apps, SameApp
<1>6. k \in Seq(Pictures) /\ SamePictures(k, l)
  BY ReleaseFacts
<1> HIDE DEF b, k, v
<1> QED
  BY <1>2, <1>3, <1>5, <1>6 DEF Writes

AfterFlush(l, a) == [a EXCEPT !.lastDisplay = IF l = <<>> THEN @ ELSE -MAX_INT]

(* xFlushOutput, as a step from turn to turn.                              *)
LEMMA FlushOutputIs ==
  ASSUME NEW l, NEW d, NEW a, NEW w, NEW x
  PROVE  FlushOutput(Turn(l, d, a, w, x))
           = Turn(<<>>, d, AfterFlush(l, a), WithWritten(w, InOrder(l, Waiting(l))), x)
<1> DEFINE v == WithWritten(w, InOrder(l, Waiting(l)))
           m == Turn(l, d, a, w, x)
<1>1. FlushOutput(m)
        = Change(m, <<>>, WithWritten(m.written, InOrder(m.dpb, Waiting(m.dpb))),
                 IF m.dpb = <<>> THEN m.app.lastDisplay ELSE -MAX_INT)
  BY DEF FlushOutput, Change
<1>2. m.dpb = l /\ m.app = a /\ m.written = w
  BY DEF Turn
<1>3. FlushOutput(m) = Change(m, <<>>, v, IF l = <<>> THEN a.lastDisplay ELSE -MAX_INT)
  BY <1>1, <1>2
<1> QED
  BY <1>3, TurnAfterWriting DEF AfterFlush

Flushes(m, l, d, a, w, x) ==
  \E b \in Apps, v \in Seq(WrittenPictures) :
    m = Turn(<<>>, d, b, v, x) /\ WrittenFrom(v, w, l) /\ SameApp(b, a)

(* xFlushOutput: the list is emptied.                                      *)
LEMMA FlushOutputFacts ==
  ASSUME NEW l \in Seq(Pictures), NEW d, NEW a \in Apps, NEW w \in Seq(WrittenPictures), NEW x
  PROVE  Flushes(FlushOutput(Turn(l, d, a, w, x)), l, d, a, w, x)
<1> DEFINE v == WithWritten(w, InOrder(l, Waiting(l)))
           b == AfterFlush(l, a)
<1>1. FlushOutput(Turn(l, d, a, w, x)) = Turn(<<>>, d, b, v, x)
  BY FlushOutputIs
<1>2. v \in Seq(WrittenPictures) /\ WrittenFrom(v, w, l)
  BY WithWrittenFacts
<1>3. b \in Apps /\ SameApp(b, a)
  BY DEF Apps, MAX_INT, AfterFlush, SameApp
<1> QED
  BY <1>1, <1>2, <1>3 DEF Flushes

-----------------------------------------------------------------------------
(* The members of the decoder.                                             *)
Entries == [delta : Int, used : BOOLEAN]
Decs ==
  [firstSliceInPicture : BOOLEAN, firstSliceInSequence : BOOLEAN, firstSliceInBitstream : BOOLEAN,
   prevPOC : Int, prevTid0POC : Int, pocRandomAccess : Int, pocCRA : Int,
   associatedIRAPType : IRAPTypes \cup {"INVALID"}, craNoRaslOutputFlag : BOOLEAN,
   isNoOutputPriorPics : BOOLEAN, lastPOCNoOutputPriorPics : Int,
   prevSliceSkipped : BOOLEAN, skippedPOC : Int,
   slice : [poc : Int, st : Seq(Entries), lt : {<<>>}, out : BOOLEAN]]

(* The main loop changes no member but three.                              *)
SameRegisters(e, d) ==
  /\ e.prevPOC = d.prevPOC /\ e.prevTid0POC = d.prevTid0POC
  /\ e.pocRandomAccess = d.pocRandomAccess /\ e.pocCRA = d.pocCRA
  /\ e.associatedIRAPType = d.associatedIRAPType /\ e.craNoRaslOutputFlag = d.craNoRaslOutputFlag
  /\ e.prevSliceSkipped = d.prevSliceSkipped /\ e.skippedPOC = d.skippedPOC /\ e.slice = d.slice

SameFlags(e, d) ==
  e.firstSliceInPicture = d.firstSliceInPicture /\ e.firstSliceInSequence = d.firstSliceInSequence

(* checkNoOutputPriorPics: only marks for output change.                   *)
LEMMA CheckNoOutputPriorPicsFacts ==
  ASSUME NEW l \in Seq(Pictures), NEW d \in Decs, NEW a, NEW w, NEW x
  PROVE  \E k \in Seq(Pictures), e \in Decs :
           /\ IsTurn(CheckNoOutputPriorPics(Turn(l, d, a, w, x)), k, e, a, w)
           /\ SamePictures(k, l) /\ SameRegisters(e, d) /\ SameFlags(e, d)
           /\ k = KeepOnly(l, d.lastPOCNoOutputPriorPics)
<1> DEFINE m == Turn(l, d, a, w, x)
           k == KeepOnly(l, d.lastPOCNoOutputPriorPics)
           e == NoPriorPics(d)
<1>1. \E y : CheckNoOutputPriorPics(m) = Turn(k, e, a, w, y)
  <2>1. PICK y : CheckNoOutputPriorPics(m)
                   = [m EXCEPT !.dpb = KeepOnly(m.dpb, m.dec.lastPOCNoOutputPriorPics),
                               !.discarded = y, !.dec.isNoOutputPriorPics = FALSE]
    BY DEF CheckNoOutputPriorPics
  <2>2. m.dpb = l /\ m.dec = d
    BY DEF Turn
  <2>3. CheckNoOutputPriorPics(m)
          = WithNoPriorPics([[m EXCEPT !.dpb = KeepOnly(m.dpb, m.dec.lastPOCNoOutputPriorPics)]
                               EXCEPT !.discarded = y])
    BY <2>1 DEF WithNoPriorPics
  <2>4. [m EXCEPT !.dpb = KeepOnly(m.dpb, m.dec.lastPOCNoOutputPriorPics)] = Turn(k, d, a, w, x)
    BY <2>2 DEF Turn
  <2>5. [Turn(k, d, a, w, x) EXCEPT !.discarded = y] = Turn(k, d, a, w, y)
    BY DEF Turn
  <2>6. WithNoPriorPics(Turn(k, d, a, w, y)) = Turn(k, e, a, w, y)
    BY TurnNoPriorPics
  <2> QED
    BY <2>3, <2>4, <2>5, <2>6
<1>2. k \in Seq(Pictures) /\ SamePictures(k, l)
  BY KeepOnlyFacts
<1>3. e \in Decs /\ SameRegisters(e, d) /\ SameFlags(e, d)
  BY DEF Decs, SameRegisters, SameFlags, NoPriorPics
<1>4. k = KeepOnly(l, d.lastPOCNoOutputPriorPics)
  OBVIOUS
<1> HIDE DEF e, k
<1> QED
  BY <1>1, <1>2, <1>3, <1>4 DEF IsTurn

(* executeLoopFilters: the pictures are filtered and sorted.               *)
LEMMA ExecuteLoopFiltersFacts ==
  ASSUME NEW l \in Seq(Pictures), NEW d \in Decs, NEW a \in Apps, NEW w, NEW x
  PROVE  \E k \in Seq(Pictures), e \in Decs, b \in Apps :
           /\ ExecuteLoopFilters(Turn(l, d, a, w, x)) = Turn(k, e, b, w, x)
           /\ SamePictures(k, FilterPicture(l)) /\ SameRegisters(e, d)
           /\ e.firstSliceInPicture /\ e.firstSliceInSequence = d.firstSliceInSequence
           /\ b.listKnown /\ b.loopFiltered = a.loopFiltered
           /\ k = SortPicList(FilterPicture(l)) /\ b.lastDisplay = a.lastDisplay
<1> DEFINE m == Turn(l, d, a, w, x)
           k == SortPicList(FilterPicture(l))
           e == FirstInPicture(d)
           b == ListKnown(a)
<1>1. ExecuteLoopFilters(m) = Turn(k, e, b, w, x)
  <2>1. ExecuteLoopFilters(m)
          = WithListKnown(WithFirstInPicture(
              [m EXCEPT !.dpb = SortPicList(FilterPicture(m.dpb))]))
    BY DEF ExecuteLoopFilters, WithListKnown, WithFirstInPicture
  <2>2. [m EXCEPT !.dpb = SortPicList(FilterPicture(m.dpb))] = Turn(k, d, a, w, x)
    BY DEF Turn
  <2>3. WithFirstInPicture(Turn(k, d, a, w, x)) = Turn(k, e, a, w, x)
    BY TurnFirstInPicture
  <2>4. WithListKnown(Turn(k, e, a, w, x)) = Turn(k, e, b, w, x)
    BY TurnListKnown
  <2> QED
    BY <2>1, <2>2, <2>3, <2>4
<1>2. k \in Seq(Pictures) /\ SamePictures(k, FilterPicture(l))
  BY FilteredList, SortKeepsPictures
<1>3. /\ e \in Decs /\ SameRegisters(e, d)
      /\ e.firstSliceInPicture /\ e.firstSliceInSequence = d.firstSliceInSequence
  BY DEF Decs, SameRegisters, FirstInPicture
<1>4. b \in Apps /\ b.listKnown /\ b.loopFiltered = a.loopFiltered /\ b.lastDisplay = a.lastDisplay
  BY DEF Apps, ListKnown
<1>5. k = SortPicList(FilterPicture(l))
  OBVIOUS
<1> HIDE DEF e, k, b
<1> QED
  BY <1>1, <1>2, <1>3, <1>4, <1>5

(* Whether this turn of the main loop completes the current picture.       *)
Completes(newPicture, atEnd, d, a) ==
  /\ newPicture \/ atEnd \/ nal.type = "EOS"
  /\ ~d.firstSliceInSequence /\ ~(a.loopFiltered /\ atEnd)

Completed(newPicture, atEnd, l, d, a) ==
  IF Completes(newPicture, atEnd, d, a) THEN FilterPicture(l) ELSE l
Finished(newPicture, atEnd, l, d, a) ==
  IF Completes(newPicture, atEnd, d, a) THEN SortPicList(FilterPicture(l)) ELSE l

(* m_loopFiltered after it.                                                *)
FilteredThen(newPicture, atEnd, d, a) ==
  IF (newPicture \/ atEnd \/ nal.type = "EOS") /\ ~d.firstSliceInSequence
  THEN nal.type = "EOS" ELSE a.loopFiltered

(* When a picture is finished, and what the flags are then.                *)
LEMMA FinishPictureFacts ==
  ASSUME NEW newPicture \in BOOLEAN, NEW atEnd \in BOOLEAN,
         NEW l \in Seq(Pictures), NEW d \in Decs, NEW a \in Apps, NEW w, NEW x
  PROVE  \E k \in Seq(Pictures), e \in Decs, b \in Apps :
           /\ FinishPicture(nal, newPicture, atEnd, Turn(l, d, a, w, x)) = Turn(k, e, b, w, x)
           /\ SamePictures(k, Completed(newPicture, atEnd, l, d, a)) /\ SameRegisters(e, d)
           /\ e.firstSliceInSequence <=> d.firstSliceInSequence \/ nal.type = "EOS"
           /\ e.firstSliceInPicture <=>
                \/ d.firstSliceInPicture
                \/ /\ newPicture \/ atEnd \/ nal.type = "EOS"
                   /\ d.firstSliceInSequence \/ ~(a.loopFiltered /\ atEnd)
           /\ b.listKnown <=> a.listKnown \/ Completes(newPicture, atEnd, d, a)
           /\ b.loopFiltered <=> FilteredThen(newPicture, atEnd, d, a)
           /\ k = Finished(newPicture, atEnd, l, d, a) /\ b.lastDisplay = a.lastDisplay
<1> DEFINE m == Turn(l, d, a, w, x)
           eos == nal.type = "EOS"
<1>1. m.dec = d /\ m.app = a
  BY DEF Turn
<1>2. SamePictures(l, l) /\ SameRegisters(d, d)
  BY SameReflexive DEF SameRegisters
<1>3. d.firstSliceInSequence \in BOOLEAN /\ d.firstSliceInPicture \in BOOLEAN
      /\ a.listKnown \in BOOLEAN /\ a.loopFiltered \in BOOLEAN
  BY DEF Decs, Apps
<1>4. CASE ~(newPicture \/ atEnd \/ eos)
  <2>1. FinishPicture(nal, newPicture, atEnd, m) = m
    BY <1>4 DEF FinishPicture
  <2> QED
    BY <1>2, <1>3, <1>4, <2>1 DEF Completed, Completes, Finished, FilteredThen
<1>5. CASE (newPicture \/ atEnd \/ eos) /\ d.firstSliceInSequence
  <2> DEFINE e == FirstInPicture(d)
  <2>1. FinishPicture(nal, newPicture, atEnd, m) = WithFirstInPicture(m)
    BY <1>1, <1>5 DEF FinishPicture, WithFirstInPicture
  <2>2. FinishPicture(nal, newPicture, atEnd, m) = Turn(l, e, a, w, x)
    BY <2>1, TurnFirstInPicture
  <2>3. /\ e \in Decs /\ SameRegisters(e, d)
        /\ e.firstSliceInPicture /\ e.firstSliceInSequence = d.firstSliceInSequence
    BY DEF Decs, SameRegisters, FirstInPicture
  <2> HIDE DEF e
  <2> QED
    BY <1>2, <1>3, <1>5, <2>2, <2>3 DEF Completed, Completes, Finished, FilteredThen
<1>6. CASE (newPicture \/ atEnd \/ eos) /\ ~d.firstSliceInSequence
  <2> DEFINE done == IF a.loopFiltered /\ atEnd THEN m ELSE ExecuteLoopFilters(m)
  <2>1. FinishPicture(nal, newPicture, atEnd, m)
          = WithFirstInSequence(WithLoopFiltered(done, eos), eos)
    BY <1>1, <1>6 DEF FinishPicture, WithFirstInSequence, WithLoopFiltered
  <2>2. \E k \in Seq(Pictures), f \in Decs, c \in Apps :
          /\ done = Turn(k, f, c, w, x)
          /\ SamePictures(k, Completed(newPicture, atEnd, l, d, a)) /\ SameRegisters(f, d)
          /\ f.firstSliceInPicture <=> d.firstSliceInPicture \/ ~(a.loopFiltered /\ atEnd)
          /\ c.listKnown <=> a.listKnown \/ ~(a.loopFiltered /\ atEnd)
          /\ k = Finished(newPicture, atEnd, l, d, a) /\ c.lastDisplay = a.lastDisplay
    <3>1. CASE a.loopFiltered /\ atEnd
      BY <1>2, <1>3, <1>6, <3>1 DEF Completed, Completes, Finished
    <3>2. CASE ~(a.loopFiltered /\ atEnd)
      BY <1>3, <1>6, <3>2, ExecuteLoopFiltersFacts DEF Completed, Completes, Finished
    <3> QED
      BY <3>1, <3>2
  <2>3. PICK k \in Seq(Pictures), f \in Decs, c \in Apps :
          /\ done = Turn(k, f, c, w, x)
          /\ SamePictures(k, Completed(newPicture, atEnd, l, d, a)) /\ SameRegisters(f, d)
          /\ f.firstSliceInPicture <=> d.firstSliceInPicture \/ ~(a.loopFiltered /\ atEnd)
          /\ c.listKnown <=> a.listKnown \/ ~(a.loopFiltered /\ atEnd)
          /\ k = Finished(newPicture, atEnd, l, d, a) /\ c.lastDisplay = a.lastDisplay
    BY <2>2
  <2> DEFINE e == FirstInSequence(f, eos)
             b == LoopFiltered(c, eos)
  <2>4. FinishPicture(nal, newPicture, atEnd, m) = Turn(k, e, b, w, x)
    <3>1. WithLoopFiltered(Turn(k, f, c, w, x), eos) = Turn(k, f, b, w, x)
      BY TurnLoopFiltered
    <3>2. WithFirstInSequence(Turn(k, f, b, w, x), eos) = Turn(k, e, b, w, x)
      BY TurnFirstInSequence
    <3> QED
      BY <2>1, <2>3, <3>1, <3>2
  <2>5. /\ e \in Decs /\ SameRegisters(e, d)
        /\ e.firstSliceInSequence = eos /\ e.firstSliceInPicture = f.firstSliceInPicture
    BY <2>3 DEF Decs, SameRegisters, FirstInSequence
  <2>6. b \in Apps /\ b.listKnown = c.listKnown /\ b.lastDisplay = c.lastDisplay /\ b.loopFiltered = eos
    BY DEF Apps, LoopFiltered
  <2> HIDE DEF e, b
  <2>7. SameRegisters(e, d) /\ b.lastDisplay = a.lastDisplay
    BY <2>3, <2>5, <2>6
  <2>8. e.firstSliceInSequence <=> d.firstSliceInSequence \/ nal.type = "EOS"
    BY <1>6, <2>5
  <2>9. e.firstSliceInPicture <=>
          \/ d.firstSliceInPicture
          \/ /\ newPicture \/ atEnd \/ nal.type = "EOS"
             /\ d.firstSliceInSequence \/ ~(a.loopFiltered /\ atEnd)
    BY <1>6, <2>3, <2>5
  <2>10. b.listKnown <=> a.listKnown \/ Completes(newPicture, atEnd, d, a)
    BY <1>6, <2>3, <2>6 DEF Completes
  <2>11. b.loopFiltered <=> FilteredThen(newPicture, atEnd, d, a)
    BY <1>6, <2>6 DEF FilteredThen
  <2> QED
    BY <2>3, <2>4, <2>5, <2>6, <2>7, <2>8, <2>9, <2>10, <2>11
<1> QED
  BY <1>4, <1>5, <1>6

-----------------------------------------------------------------------------
(* The rest of the turn of the main loop.                                  *)

(* m is what completing the picture left, C, e, b, with pictures written.  *)
Reached(m, C, e, b, w) ==
  \E l \in Seq(Pictures), g \in Decs, c \in Apps, v \in Seq(WrittenPictures) :
    /\ IsTurn(m, l, g, c, v)
    /\ SamePictures(l, C) /\ WrittenFrom(v, w, C)
    /\ SameRegisters(g, e) /\ SameFlags(g, e) /\ SameApp(c, b)

LEMMA WrittenBefore ==
  ASSUME NEW l, NEW C, NEW u, NEW v, NEW w, SamePictures(l, C), WrittenFrom(v, w, C), WrittenFrom(u, v, l)
  PROVE  WrittenFrom(u, w, C)
  BY DEF SamePictures, WrittenFrom, Agrees

LEMMA SameRegistersTransitive ==
  ASSUME NEW d, NEW e, NEW g
  PROVE  /\ SameRegisters(g, e) /\ SameRegisters(e, d) => SameRegisters(g, d)
         /\ SameFlags(g, e) /\ SameFlags(e, d) => SameFlags(g, d)
         /\ SameRegisters(d, d) /\ SameFlags(d, d)
  BY DEF SameRegisters, SameFlags

(* Reached is kept by what the loop does after a picture is finished.      *)
LEMMA ReachedByWriting ==
  ASSUME NEW m, NEW C, NEW e, NEW b, NEW w, Reached(m, C, e, b, w)
  PROVE  Reached(WriteOutput(m), C, e, b, w)
<1>1. PICK l \in Seq(Pictures), g \in Decs, c \in Apps, v \in Seq(WrittenPictures) :
        /\ IsTurn(m, l, g, c, v)
        /\ SamePictures(l, C) /\ WrittenFrom(v, w, C)
        /\ SameRegisters(g, e) /\ SameFlags(g, e) /\ SameApp(c, b)
  BY DEF Reached
<1>0. PICK x : m = Turn(l, g, c, v, x)
  BY <1>1 DEF IsTurn
<1>2. PICK k \in Seq(Pictures), h \in Apps, u \in Seq(WrittenPictures) :
        /\ WriteOutput(Turn(l, g, c, v, x)) = Turn(k, g, h, u, x)
        /\ SamePictures(k, l) /\ WrittenFrom(u, v, l) /\ SameApp(h, c)
  <2>1. Writes(WriteOutput(Turn(l, g, c, v, x)), l, g, c, v, x)
    BY WriteOutputFacts
  <2> QED
    BY <2>1 DEF Writes
<1>3. SamePictures(k, C) /\ WrittenFrom(u, w, C)
  BY <1>1, <1>2, SameTransitive, WrittenBefore
<1>4. SameApp(h, b)
  BY <1>1, <1>2 DEF SameApp
<1> QED
  BY <1>0, <1>1, <1>2, <1>3, <1>4 DEF Reached, IsTurn

LEMMA ReachedByDiscarding ==
  ASSUME NEW m, NEW C, NEW e, NEW b, NEW w, Reached(m, C, e, b, w)
  PROVE  Reached(CheckNoOutputPriorPics(m), C, e, b, w)
<1>1. PICK l \in Seq(Pictures), g \in Decs, c \in Apps, v \in Seq(WrittenPictures) :
        /\ IsTurn(m, l, g, c, v)
        /\ SamePictures(l, C) /\ WrittenFrom(v, w, C)
        /\ SameRegisters(g, e) /\ SameFlags(g, e) /\ SameApp(c, b)
  BY DEF Reached
<1>0. PICK x : m = Turn(l, g, c, v, x)
  BY <1>1 DEF IsTurn
<1>2. PICK k \in Seq(Pictures), h \in Decs :
        /\ IsTurn(CheckNoOutputPriorPics(Turn(l, g, c, v, x)), k, h, c, v)
        /\ SamePictures(k, l) /\ SameRegisters(h, g) /\ SameFlags(h, g)
  BY CheckNoOutputPriorPicsFacts
<1>3. SamePictures(k, C) /\ SameRegisters(h, e) /\ SameFlags(h, e)
  BY <1>1, <1>2, SameTransitive, SameRegistersTransitive
<1> QED
  BY <1>0, <1>1, <1>2, <1>3 DEF Reached, IsTurn

LEMMA ReachedByFlushing ==
  ASSUME NEW m, NEW C, NEW e, NEW b, NEW w, Reached(m, C, e, b, w)
  PROVE  \E g \in Decs, c \in Apps, v \in Seq(WrittenPictures) :
           /\ IsTurn(FlushOutput(m), <<>>, g, c, v) /\ WrittenFrom(v, w, C)
           /\ SameRegisters(g, e) /\ SameFlags(g, e) /\ SameApp(c, b)
<1>1. PICK l \in Seq(Pictures), g \in Decs, c \in Apps, v \in Seq(WrittenPictures) :
        /\ IsTurn(m, l, g, c, v)
        /\ SamePictures(l, C) /\ WrittenFrom(v, w, C)
        /\ SameRegisters(g, e) /\ SameFlags(g, e) /\ SameApp(c, b)
  BY DEF Reached
<1>0. PICK x : m = Turn(l, g, c, v, x)
  BY <1>1 DEF IsTurn
<1>2. PICK h \in Apps, u \in Seq(WrittenPictures) :
        /\ FlushOutput(Turn(l, g, c, v, x)) = Turn(<<>>, g, h, u, x)
        /\ WrittenFrom(u, v, l) /\ SameApp(h, c)
  <2>1. Flushes(FlushOutput(Turn(l, g, c, v, x)), l, g, c, v, x)
    BY FlushOutputFacts
  <2> QED
    BY <2>1 DEF Flushes
<1>3. WrittenFrom(u, w, C) /\ SameApp(h, b)
  BY <1>1, <1>2, WrittenBefore DEF SameApp
<1> QED
  BY <1>0, <1>1, <1>2, <1>3 DEF IsTurn

(* One turn of the main loop, from the list, the decoder and the           *)
(* application the call of decode left.                                    *)
LEMMA LoopFacts ==
  ASSUME NEW newPicture \in BOOLEAN, NEW atEnd \in BOOLEAN,
         NEW l \in Seq(Pictures), NEW d \in Decs, NEW a \in Apps,
         written \in Seq(WrittenPictures), Loop(newPicture, atEnd, l, d, a)
  PROVE  /\ dpb' \in Seq(Pictures) /\ dec' \in Decs /\ app' \in Apps
         /\ written' \in Seq(WrittenPictures) /\ SameRegisters(dec', d)
         /\ WrittenFrom(written', written, Completed(newPicture, atEnd, l, d, a))
         /\ app'.listKnown <=> a.listKnown \/ Completes(newPicture, atEnd, d, a)
         /\ app'.loopFiltered <=> FilteredThen(newPicture, atEnd, d, a)
         /\ IF app'.listKnown /\ newPicture /\ nal.type \in {"IDR", "BLA"} THEN dpb' = <<>>
            ELSE SamePictures(dpb', Completed(newPicture, atEnd, l, d, a))
         /\ dec'.firstSliceInSequence <=> d.firstSliceInSequence \/ nal.type = "EOS"
         /\ dec'.firstSliceInPicture <=>
              /\ ~(nal.type = "EOS" /\ app'.listKnown)
              /\ \/ d.firstSliceInPicture
                 \/ /\ newPicture \/ atEnd \/ nal.type = "EOS"
                    /\ d.firstSliceInSequence \/ ~(a.loopFiltered /\ atEnd)
<1> DEFINE C == Completed(newPicture, atEnd, l, d, a)
<1> DEFINE
      Ended(known, e) ==
        \E w \in {IF known /\ (nal.type = "EOS" \/ (nal.type \in SliceTypes /\ ~newPicture))
                THEN WriteOutput(e) ELSE e} :
          /\ dpb' = w.dpb /\ app' = w.app /\ written' = w.written /\ discarded' = w.discarded
          /\ dec' = IF known /\ nal.type = "EOS" THEN [w.dec EXCEPT !.firstSliceInPicture = FALSE] ELSE w.dec
      Flushed(known, c) ==
        \E e \in {IF known /\ newPicture /\ nal.type \in {"IDR", "BLA"} THEN FlushOutput(c) ELSE c} :
          Ended(known, e)
      Discarded(known, o) ==
        \E c \in {IF known /\ DiscardsPriorPics(nal, newPicture, o) THEN CheckNoOutputPriorPics(o) ELSE o} :
          Flushed(known, c)
      Output1(known, f) ==
        \E o \in {IF known /\ newPicture THEN WriteOutput(f) ELSE f} : Discarded(known, o)
      Turned(m) ==
        \E f \in {FinishPicture(nal, newPicture, atEnd, m)} :
        \E known \in {f.app.listKnown} : Output1(known, f)
<1>1. PICK m : m = Turn(l, d, a, written, discarded) /\ Turned(m)
  BY DEF Loop, Turn
<1> HIDE DEF Ended, Flushed, Discarded, Output1
<1>2. PICK f, known : /\ f = FinishPicture(nal, newPicture, atEnd, m)
                      /\ known = f.app.listKnown /\ Output1(known, f)
  BY <1>1
<1> HIDE DEF Turned
<1>3. PICK o : /\ o = IF known /\ newPicture THEN WriteOutput(f) ELSE f
               /\ Discarded(known, o)
  BY <1>2 DEF Output1
<1>4. PICK c : /\ c = IF known /\ DiscardsPriorPics(nal, newPicture, o) THEN CheckNoOutputPriorPics(o) ELSE o
               /\ Flushed(known, c)
  BY <1>3 DEF Discarded
<1>5. PICK e : /\ e = IF known /\ newPicture /\ nal.type \in {"IDR", "BLA"} THEN FlushOutput(c) ELSE c
               /\ Ended(known, e)
  BY <1>4 DEF Flushed
<1>6. PICK w : /\ w = IF known /\ (nal.type = "EOS" \/ (nal.type \in SliceTypes /\ ~newPicture))
                      THEN WriteOutput(e) ELSE e
               /\ dpb' = w.dpb /\ app' = w.app /\ written' = w.written
               /\ dec' = IF known /\ nal.type = "EOS" THEN [w.dec EXCEPT !.firstSliceInPicture = FALSE] ELSE w.dec
  BY <1>5 DEF Ended
<1>7. known = f.app.listKnown
  BY <1>2
<1> DEFINE flush == known /\ newPicture /\ nal.type \in {"IDR", "BLA"}
           last == known /\ (nal.type = "EOS" \/ (nal.type \in SliceTypes /\ ~newPicture))
<1>8. PICK k \in Seq(Pictures), g \in Decs, b \in Apps :
        /\ f = Turn(k, g, b, written, discarded)
        /\ SamePictures(k, C) /\ SameRegisters(g, d)
        /\ g.firstSliceInSequence <=> d.firstSliceInSequence \/ nal.type = "EOS"
        /\ g.firstSliceInPicture <=>
             \/ d.firstSliceInPicture
             \/ /\ newPicture \/ atEnd \/ nal.type = "EOS"
                /\ d.firstSliceInSequence \/ ~(a.loopFiltered /\ atEnd)
        /\ b.listKnown <=> a.listKnown \/ Completes(newPicture, atEnd, d, a)
        /\ b.loopFiltered <=> FilteredThen(newPicture, atEnd, d, a)
  BY <1>1, <1>2, FinishPictureFacts
<1>9. known = b.listKnown /\ Reached(f, C, g, b, written)
  <2>1. f.app = b
    BY <1>8, TurnFields
  <2>2. WrittenFrom(written, written, C)
    BY DEF WrittenFrom
  <2>3. Reached(f, C, g, b, written)
    BY <1>8, <2>2, SameRegistersTransitive DEF Reached, IsTurn, SameApp
  <2> QED
    BY <1>7, <2>1, <2>3
<1> HIDE DEF C
<1>10. Reached(o, C, g, b, written)
  BY <1>3, <1>9, ReachedByWriting
<1>11. Reached(c, C, g, b, written)
  BY <1>4, <1>10, ReachedByDiscarding
<1>12. PICK k2 \in Seq(Pictures), h \in Decs, b2 \in Apps, v \in Seq(WrittenPictures) :
        /\ IsTurn(w, k2, h, b2, v) /\ WrittenFrom(v, written, C)
        /\ IF flush THEN k2 = <<>> ELSE SamePictures(k2, C)
        /\ SameRegisters(h, g) /\ SameFlags(h, g) /\ SameApp(b2, b)
  <2>1. CASE flush
    <3>1. ~last
      BY <2>1
    <3>2. w = FlushOutput(c)
      BY <1>5, <1>6, <2>1, <3>1
    <3>3. <<>> \in Seq(Pictures)
      OBVIOUS
    <3> HIDE DEF flush
    <3>4. PICK h \in Decs, b2 \in Apps, v \in Seq(WrittenPictures) :
            /\ IsTurn(w, <<>>, h, b2, v) /\ WrittenFrom(v, written, C)
            /\ SameRegisters(h, g) /\ SameFlags(h, g) /\ SameApp(b2, b)
      BY <1>11, <3>2, ReachedByFlushing
    <3> QED
      BY <2>1, <3>3, <3>4
  <2>2. CASE ~flush
    <3>1. Reached(w, C, g, b, written)
      BY <1>5, <1>6, <1>11, <2>2, ReachedByWriting
    <3> HIDE DEF flush
    <3> QED
      BY <2>2, <3>1 DEF Reached
  <2> QED
    BY <2>1, <2>2
<1>13. w.dpb = k2 /\ w.dec = h /\ w.app = b2 /\ w.written = v
  BY <1>12, TurnFields DEF IsTurn
<1>14. dpb' = k2 /\ app' = b2 /\ written' = v
      /\ dec' = IF known /\ nal.type = "EOS" THEN [h EXCEPT !.firstSliceInPicture = FALSE] ELSE h
  BY <1>6, <1>13
<1>15. /\ dec' \in Decs /\ SameRegisters(dec', h) /\ dec'.firstSliceInSequence = h.firstSliceInSequence
      /\ dec'.firstSliceInPicture = IF known /\ nal.type = "EOS" THEN FALSE ELSE h.firstSliceInPicture
  BY <1>14 DEF Decs, SameRegisters
<1>16. SameRegisters(dec', d)
  BY <1>8, <1>12, <1>15, SameRegistersTransitive
<1>17. /\ h.firstSliceInPicture = g.firstSliceInPicture /\ h.firstSliceInSequence = g.firstSliceInSequence
       /\ app'.listKnown = known /\ known = b.listKnown /\ app'.loopFiltered = b.loopFiltered
  BY <1>9, <1>12, <1>14 DEF SameFlags, SameApp
<1>18. IF app'.listKnown /\ newPicture /\ nal.type \in {"IDR", "BLA"} THEN dpb' = <<>>
       ELSE SamePictures(dpb', C)
  BY <1>12, <1>14, <1>17
<1>19. dpb' \in Seq(Pictures) /\ app' \in Apps /\ written' \in Seq(WrittenPictures)
       /\ WrittenFrom(written', written, C)
  BY <1>12, <1>14
<1>20. h \in Decs /\ g \in Decs /\ b \in Apps /\ known \in BOOLEAN
  BY <1>9 DEF Apps
<1>21. g.firstSliceInPicture \in BOOLEAN /\ g.firstSliceInSequence \in BOOLEAN /\ b.listKnown \in BOOLEAN
  BY <1>20 DEF Apps, Decs
<1>22. /\ dec'.firstSliceInSequence = g.firstSliceInSequence
       /\ dec'.firstSliceInPicture = (~(nal.type = "EOS" /\ app'.listKnown) /\ g.firstSliceInPicture)
       /\ app'.listKnown = b.listKnown
  BY <1>15, <1>17, <1>20, <1>21
<1> QED
  BY <1>8, <1>15, <1>16, <1>17, <1>18, <1>19, <1>21, <1>22 DEF C

-----------------------------------------------------------------------------
(* Bitstreams that conform.                                                *)

(* A set of places has a first and a last element.                         *)
LEMMA Extremes ==
  ASSUME NEW n \in Nat, NEW T \in SUBSET (1..n), T # {}
  PROVE  /\ \E x \in T : \A y \in T : x <= y
         /\ \E x \in T : \A y \in T : y <= x
<1> DEFINE Upto(i) == {j \in T : j <= i}
<1>1. IsFiniteSet(T) /\ Cardinality(T) \in Nat /\ Cardinality(T) # 0 /\ \A i \in T : i \in Nat
  <2>1. IsFiniteSet(1..n)
    BY FS_Interval
  <2>2. IsFiniteSet(T) /\ Cardinality(T) \in Nat
    BY <2>1, Fewer
  <2>3. Cardinality(T) # 0
    BY <2>2, FS_EmptySet
  <2>4. \A i \in T : i \in Nat
    OBVIOUS
  <2> QED
    BY <2>2, <2>3, <2>4
<1>2. \A k \in 1..Cardinality(T) : \E i \in T : Cardinality(Upto(i)) = k
  BY Places
<1>3. \A i \in T : Upto(i) \in SUBSET T /\ i \in Upto(i)
  BY <1>1
<1>4. PICK x \in T : Cardinality(Upto(x)) = 1
  BY <1>1, <1>2
<1>5. ASSUME NEW y \in T, ~(x <= y) PROVE FALSE
  <2>1. Upto(y) \in SUBSET Upto(x) /\ x \notin Upto(y) /\ x \in Upto(x) /\ y \in Upto(y)
    <3>1. x \in Nat /\ y \in Nat /\ y < x
      BY <1>1, <1>5
    <3>2. \A j \in T : j <= y => j <= x
      BY <1>1, <3>1
    <3>3. ~(x <= y) /\ x <= x /\ y <= y
      BY <3>1
    <3> QED
      BY <3>2, <3>3
  <2> HIDE DEF Upto
  <2>2. IsFiniteSet(Upto(x)) /\ IsFiniteSet(Upto(y))
    BY <1>1, <1>3, Fewer
  <2>3. Cardinality(Upto(y)) < 1 /\ Cardinality(Upto(y)) \in Nat
    BY <1>4, <2>1, <2>2, Fewer
  <2>4. Upto(y) = {}
    BY <2>2, <2>3, FS_EmptySet
  <2> QED
    BY <2>1, <2>4
<1>6. PICK z \in T : Cardinality(Upto(z)) = Cardinality(T)
  BY <1>1, <1>2
<1>7. Upto(z) = T
  <2> HIDE DEF Upto
  <2> QED
    BY <1>1, <1>3, <1>6, Fewer
<1> QED
  BY <1>5, <1>7

-----------------------------------------------------------------------------
(* The slices of one picture.                                              *)

(* What a sequence of NAL units is made of.                                *)
LEMMA NALs ==
  ASSUME NEW n, n \in Seq(SliceNALs \cup OtherNALs)
  PROVE  /\ Len(n) \in Nat /\ DOMAIN n = 1..Len(n) /\ SlicesIn(n) \subseteq 1..Len(n)
         /\ \A k \in SlicesIn(n) : k \in Nat /\ n[k] \in SliceNALs /\ n[k].type # "EOS"
         /\ \A k \in DOMAIN n : k \notin SlicesIn(n) =>
              n[k] \in OtherNALs /\ n[k].type \in {"EOS", "OTHER"} /\ n[k].tid = 0
<1>1. Len(n) \in Nat /\ DOMAIN n = 1..Len(n) /\ \A k \in DOMAIN n : n[k] \in SliceNALs \cup OtherNALs
  OBVIOUS
<1>2. \A x \in SliceNALs : x.type \in SliceTypes
  BY DEF SliceNALs
<1>3. \A x \in OtherNALs : x.type \notin SliceTypes /\ x.type \in {"EOS", "OTHER"} /\ x.tid = 0
  BY DEF OtherNALs, SliceTypes, LeadingTypes, IRAPTypes
<1>4. "EOS" \notin SliceTypes
  BY DEF SliceTypes, LeadingTypes, IRAPTypes
<1> QED
  BY <1>1, <1>2, <1>3, <1>4 DEF SlicesIn

LEMMA ConformingNALs ==
  ASSUME NEW n, NEW s, Conforming(n, s)
  PROVE  /\ n \in Seq(SliceNALs \cup OtherNALs)
         /\ Len(n) \in Nat /\ DOMAIN n = 1..Len(n) /\ SlicesIn(n) \subseteq 1..Len(n)
         /\ \A k \in SlicesIn(n) : k \in Nat /\ n[k] \in SliceNALs /\ n[k].type # "EOS"
         /\ \A k \in DOMAIN n : k \notin SlicesIn(n) =>
              n[k] \in OtherNALs /\ n[k].type \in {"EOS", "OTHER"} /\ n[k].tid = 0
  BY NALs DEF Conforming

(* The slices of one picture agree and are contiguous.                     *)
LEMMA SlicesAgree ==
  ASSUME NEW n, NEW s, Conforming(n, s),
         NEW j \in SlicesIn(n), NEW k \in SlicesIn(n), n[j].pic = n[k].pic
  PROVE  /\ n[j].type = n[k].type /\ n[j].tid = n[k].tid /\ n[j].ref = n[k].ref
         /\ n[j].poc = n[k].poc /\ n[j].st = n[k].st /\ n[j].cvs = n[k].cvs
         /\ j <= k => NoEOS(n, j, k)
         /\ \A i \in SlicesIn(n) : j <= i /\ i <= k => n[i].pic = n[k].pic
<1>1. j \in Nat /\ k \in Nat
  BY ConformingNALs
<1>2. ASSUME NEW a \in SlicesIn(n), NEW b \in SlicesIn(n), a < b, n[a].pic = n[b].pic
      PROVE  /\ n[a].type = n[b].type /\ n[a].tid = n[b].tid /\ n[a].ref = n[b].ref
             /\ n[a].poc = n[b].poc /\ n[a].st = n[b].st /\ n[a].cvs = n[b].cvs
             /\ NoEOS(n, a, b)
             /\ \A i \in SlicesIn(n) : a < i /\ i < b => n[i].pic = n[b].pic
  BY <1>2 DEF Conforming, PicturesContiguous
<1>3. CASE j < k
  BY <1>1, <1>2, <1>3, ConformingNALs
<1>4. CASE k < j
  BY <1>1, <1>2, <1>4, ConformingNALs
<1>5. CASE j = k
  BY <1>1, <1>5, ConformingNALs DEF NoEOS
<1> QED
  BY <1>1, <1>3, <1>4, <1>5

(* Every picture has a first slice.                                        *)
LEMMA FirstSlice ==
  ASSUME NEW n, NEW s, Conforming(n, s), NEW k \in SlicesIn(n)
  PROVE  /\ n[k].first <=> \A j \in SlicesIn(n) : j < k => n[j].pic # n[k].pic
         /\ n[k].dep => ~n[k].first
         /\ \E f \in SlicesIn(n) : f <= k /\ n[f].pic = n[k].pic /\ n[f].first
<1>1. \A i \in SlicesIn(n) : /\ n[i].first <=> \A j \in SlicesIn(n) : j < i => n[j].pic # n[i].pic
                             /\ n[i].dep => ~n[i].first
  BY DEF Conforming, PicturesContiguous
<1> DEFINE T == {j \in SlicesIn(n) : n[j].pic = n[k].pic}
<1>2. Len(n) \in Nat /\ T \in SUBSET (1..Len(n)) /\ k \in T
  BY ConformingNALs
<1>3. PICK f \in T : \A y \in T : f <= y
  BY <1>2, Extremes
<1>4. \A j \in SlicesIn(n) : j < f => n[j].pic # n[f].pic
  <2>1. \A j \in SlicesIn(n) : j \in Nat
    BY ConformingNALs
  <2> QED
    BY <1>3, <2>1
<1> QED
  BY <1>1, <1>2, <1>3, <1>4

(* Slices with a slice of another picture between them are of different    *)
(* pictures; the first slice of a picture ends all those before.           *)
LEMMA FirstSliceSeparates ==
  ASSUME NEW n, NEW s, Conforming(n, s), NEW j \in SlicesIn(n), NEW i \in SlicesIn(n),
         NEW k \in SlicesIn(n), j < i, i <= k, n[i].first
  PROVE  n[j].pic # n[k].pic
<1>1. j \in Nat /\ i \in Nat /\ k \in Nat
  BY ConformingNALs
<1>2. SUFFICES ASSUME n[j].pic = n[k].pic PROVE FALSE
  OBVIOUS
<1>3. n[i].pic = n[k].pic
  BY <1>1, <1>2, SlicesAgree
<1> QED
  BY <1>2, <1>3, FirstSlice

-----------------------------------------------------------------------------
(* Which slices are decoded.                                               *)

(* What begins a sequence is an IRAP picture, and IRAP pictures are        *)
(* decoded.                                                                *)
LEMMA BeginsIsDecodable ==
  ASSUME NEW n, NEW s, Conforming(n, s), NEW k \in SlicesIn(n)
  PROVE  /\ Begins(n, k) => n[k].type \in IRAPTypes
         /\ n[k].type \in IRAPTypes => /\ n[k].tid = 0 /\ n[k].ref /\ Counts(n[k])
                                       /\ k \in Decodable(n, s.maxTemporalLayer)
<1>1. /\ Begins(n, k) => n[k].type \in IRAPTypes
      /\ n[k].type \in IRAPTypes => n[k].tid = 0 /\ n[k].ref
  BY DEF Conforming, IRAPPicturesFirst
<1>2. n[k].type \in IRAPTypes => n[k].type \notin LeadingTypes /\ n[k].type # "RASL"
  BY DEF IRAPTypes, LeadingTypes
<1> QED
  BY <1>1, <1>2 DEF Counts, Decodable, CannotBeDecoded

(* A picture is decoded whole or not at all.                               *)
LEMMA PicturesAreDecodable ==
  ASSUME NEW n, NEW s, Conforming(n, s),
         NEW j \in SlicesIn(n), NEW k \in SlicesIn(n), n[j].pic = n[k].pic,
         k \in Decodable(n, s.maxTemporalLayer)
  PROVE  j \in Decodable(n, s.maxTemporalLayer)
<1>1. n[j].type = n[k].type /\ n[j].tid = n[k].tid
  BY SlicesAgree
<1>2. SUFFICES ASSUME CannotBeDecoded(n, j) PROVE CannotBeDecoded(n, k)
  BY <1>1 DEF Decodable
<1>3. PICK a \in SlicesIn(n) : LastIRAP(n, a, j) /\ (n[a].type = "CRA" => Begins(n, a))
  BY <1>2 DEF CannotBeDecoded
<1>4. n[j].type = "RASL" /\ "RASL" \notin IRAPTypes
  BY <1>2 DEF CannotBeDecoded, IRAPTypes
<1>5. \A i \in SlicesIn(n) : (j <= i /\ i <= k) \/ (k <= i /\ i <= j) => n[i].type \notin IRAPTypes
  <2>1. \A i \in SlicesIn(n) : j <= i /\ i <= k => n[i].pic = n[k].pic
    BY SlicesAgree
  <2>2. \A i \in SlicesIn(n) : k <= i /\ i <= j => n[i].pic = n[j].pic
    BY SlicesAgree
  <2> QED
    BY <1>4, <2>1, <2>2, SlicesAgree
<1>6. j \in Nat /\ k \in Nat /\ \A i \in SlicesIn(n) : i \in Nat
  BY ConformingNALs
<1>7. a < j /\ n[a].type \in IRAPTypes /\ \A i \in SlicesIn(n) : a < i /\ i < j => n[i].type \notin IRAPTypes
  BY <1>3 DEF LastIRAP
<1>8. a < k
  BY <1>5, <1>6, <1>7
<1>9. ASSUME NEW i \in SlicesIn(n), a < i, i < k PROVE n[i].type \notin IRAPTypes
  <2>1. i < j \/ (j <= i /\ i <= k)
    BY <1>6, <1>9
  <2> QED
    BY <1>5, <1>7, <1>9, <2>1
<1>10. LastIRAP(n, a, k)
  BY <1>7, <1>8, <1>9 DEF LastIRAP
<1> QED
  BY <1>1, <1>3, <1>4, <1>10 DEF CannotBeDecoded

-----------------------------------------------------------------------------
(* Slices since the last end of sequence.                                  *)

NoneSince(n, p) == \A j \in SlicesIn(n) : j < p => ~NoEOS(n, j, p - 1)

LEMMA NoEOSParts ==
  ASSUME NEW n, NEW i \in Int, NEW j \in Int, NEW k \in Int, i <= j
  PROVE  /\ NoEOS(n, i, k) => NoEOS(n, j, k)
         /\ j <= k => (NoEOS(n, i, k) => NoEOS(n, i, j))
         /\ n[k].type # "EOS" => (NoEOS(n, i, k - 1) => NoEOS(n, i, k))
  BY DEF NoEOS

(* With none since the last end of sequence, the next slice begins.        *)
LEMMA NextBegins ==
  ASSUME NEW n, NEW s, Conforming(n, s), NEW p \in SlicesIn(n), NoneSince(n, p)
  PROVE  Begins(n, p)
<1>1. SUFFICES ASSUME NEW j \in SlicesIn(n), j < p, NoEOS(n, j, p) PROVE FALSE
  BY DEF Begins
<1>2. j \in Nat /\ p \in Nat
  BY ConformingNALs
<1>3. NoEOS(n, j, p - 1)
  BY <1>1, <1>2 DEF NoEOS
<1> QED
  BY <1>1, <1>3 DEF NoneSince

(* The slices that begin after the same end of sequence are of one picture,*)
(* and so is everything before them.                                       *)
LEMMA OneBegins ==
  ASSUME NEW n, NEW s, Conforming(n, s), NEW k \in SlicesIn(n), NEW b \in SlicesIn(n),
         Begins(n, b), k <= b, NoEOS(n, k, b)
  PROVE  n[k].pic = n[b].pic
<1>1. k \in Nat /\ b \in Nat
  BY ConformingNALs
<1> QED
  BY <1>1 DEF Begins

(* Before the first slice that is decoded there is no slice.               *)
LEMMA NothingBefore ==
  ASSUME NEW n, NEW s, Conforming(n, s), NEW p \in Nat,
         \A k \in Decodable(n, s.maxTemporalLayer) : ~(k < p)
  PROVE  \A k \in SlicesIn(n) : ~(k < p)
<1>1. SUFFICES ASSUME NEW k \in SlicesIn(n), k < p PROVE FALSE
  OBVIOUS
<1>2. Len(n) \in Nat /\ SlicesIn(n) \in SUBSET (1..Len(n)) /\ \A j \in SlicesIn(n) : j \in Nat
  BY ConformingNALs
<1>3. PICK x \in SlicesIn(n) : \A y \in SlicesIn(n) : x <= y
  BY <1>1, <1>2, Extremes
<1>4. Begins(n, x)
  BY <1>2, <1>3 DEF Begins
<1>5. x \in Decodable(n, s.maxTemporalLayer)
  BY <1>4, BeginsIsDecodable
<1>6. x < p
  BY <1>1, <1>2, <1>3
<1> QED
  BY <1>5, <1>6

-----------------------------------------------------------------------------
(* The derivation of the POC from its LSBs.                                *)

LEMMA DivMod ==
  ASSUME NEW x \in Int, NEW m \in Nat \ {0}
  PROVE  x % m \in 0..(m - 1) /\ \E q \in Int : x = m * q + (x % m)
<1>1. x = m * (x \div m) + (x % m) /\ x \div m \in Int /\ x % m \in 0..(m - 1)
  OBVIOUS
<1> QED
  BY <1>1

LEMMA ModOfMultiple ==
  ASSUME NEW q \in Int, NEW m \in Nat \ {0}, NEW r \in 0..(m - 1)
  PROVE  (m * q + r) % m = r
  OBVIOUS

LEMMA Multiples ==
  ASSUME NEW z \in Int, NEW m \in Nat \ {0}
  PROVE  /\ m * z \in Int
         /\ \/ m * z = 0 \/ m * z = m \/ m * z = -m
            \/ m * z >= 2 * m \/ m * z <= -2 * m
<1>1. CASE z >= 2
  <2>1. m * z >= m * 2
    BY <1>1
  <2> QED
    BY <2>1
<1>2. CASE z <= -2
  <2>1. m * z <= m * (-2)
    BY <1>2
  <2> QED
    BY <2>1
<1>3. CASE z \in {-1, 0, 1}
  <2>1. m * 0 = 0 /\ m * 1 = m /\ m * (-1) = -m
    OBVIOUS
  <2> QED
    BY <1>3, <2>1
<1> QED
  BY <1>1, <1>2, <1>3

(* A POC that is near the one before is derived right.                     *)
LEMMA DerivedPOCRight ==
  ASSUME ValidSettings(settings), NEW x \in Int, NEW prev \in Int, NEW type, type \notin {"IDR", "BLA"},
         x = prev \/ x - prev \in (1 - MaxPocLsb \div 2)..(MaxPocLsb \div 2)
  PROVE  DerivedPOC(x % MaxPocLsb, prev, type) = x
<1> DEFINE m == MaxPocLsb
           h == m \div 2
           r == prev % m
           y == x % m
           msb == IF y < r /\ r - y >= h THEN (prev - r) + m
                  ELSE IF y > r /\ y - r > h THEN (prev - r) - m ELSE prev - r
<1>1. m \in Nat \ {0}
  BY DEF ValidSettings, MaxPocLsb
<1>2. DerivedPOC(x % MaxPocLsb, prev, type) = msb + y
  BY DEF DerivedPOC
<1> HIDE DEF m
<1>3. h \in Nat /\ (2 * h = m \/ 2 * h = m - 1)
  BY <1>1
<1>4. r \in 0..(m - 1) /\ y \in 0..(m - 1)
  BY <1>1, DivMod
<1>5. PICK a \in Int : prev = m * a + r
  BY <1>1, DivMod
<1>6. PICK b \in Int : x = m * b + y
  BY <1>1, DivMod
<1>7. m * a \in Int /\ m * b \in Int /\ m * (b - a) = m * b - m * a
  BY <1>1
<1> DEFINE z == b - a
<1>8. /\ m * z \in Int
      /\ \/ m * z = 0 \/ m * z = m \/ m * z = -m \/ m * z >= 2 * m \/ m * z <= -2 * m
  BY <1>1, Multiples
<1>9. x - prev = m * z + y - r
  BY <1>4, <1>5, <1>6, <1>7
<1>10. x = prev \/ (1 - h <= x - prev /\ x - prev <= h)
  BY <1>3 DEF m
<1> DEFINE w == m * z
<1> HIDE DEF r, y, h, z
<1>11. w \in Int /\ x = prev + w + y - r
  BY <1>4, <1>8, <1>9
<1>12. w = 0 \/ w = m \/ w = -m \/ w >= 2 * m \/ w <= -2 * m
  BY <1>8
<1> HIDE DEF w
<1>13. w = IF y < r /\ r - y >= h THEN m ELSE IF y > r /\ y - r > h THEN -m ELSE 0
  BY <1>1, <1>3, <1>4, <1>10, <1>11, <1>12
<1>14. msb + y = x
  BY <1>1, <1>4, <1>11, <1>13
<1> QED
  BY <1>2, <1>14

(* The derived POC is a number with the LSBs that were sent.               *)
LEMMA DerivedPOCFacts ==
  ASSUME ValidSettings(settings), NEW y \in 0..(MaxPocLsb - 1), NEW prev \in Int, NEW type
  PROVE  /\ DerivedPOC(y, prev, type) \in Int
         /\ type \notin {"IDR", "BLA"} => DerivedPOC(y, prev, type) % MaxPocLsb = y
         /\ type = "IDR" => DerivedPOC(y, prev, type) = 0
         /\ type = "BLA" => DerivedPOC(y, prev, type) = y
<1> DEFINE m == MaxPocLsb
           r == prev % m
           msb == IF y < r /\ r - y >= m \div 2 THEN (prev - r) + m
                  ELSE IF y > r /\ y - r > m \div 2 THEN (prev - r) - m ELSE prev - r
<1>1. m \in Nat \ {0}
  BY DEF ValidSettings, MaxPocLsb
<1>2. DerivedPOC(y, prev, type) = IF type = "IDR" THEN 0 ELSE IF type = "BLA" THEN y ELSE msb + y
  BY DEF DerivedPOC
<1> HIDE DEF m
<1>3. y \in 0..(m - 1)
  BY DEF m
<1>4. PICK a \in Int : prev = m * a + r
  BY <1>1, DivMod
<1>5. r \in 0..(m - 1)
  BY <1>1, DivMod
<1>6. \E b \in Int : msb = m * b
  <2>1. prev - r = m * a
    BY <1>1, <1>4, <1>5
  <2>2. m * (a + 1) = m * a + m /\ m * (a - 1) = m * a - m
    BY <1>1
  <2> HIDE DEF r
  <2>3. msb \in {m * a, m * (a + 1), m * (a - 1)}
    BY <2>1, <2>2
  <2> QED
    BY <2>3
<1>7. PICK b \in Int : msb = m * b
  BY <1>6
<1> HIDE DEF msb
<1>8. (msb + y) % m = y /\ msb + y \in Int
  BY <1>1, <1>3, <1>7, ModOfMultiple
<1> QED
  BY <1>2, <1>3, <1>8 DEF m

-----------------------------------------------------------------------------
(* What the decoder knows of the slices before NAL unit p.                 *)

Decoded(n) == Decodable(n, settings.maxTemporalLayer)
Restarts(x) == x.type \in {"IDR", "BLA"}

(* The random access point is the picture that began after the last end of *)
(* sequence.                                                               *)
RandomAccessInv(n, p, d) ==
  \/ d.pocRandomAccess = MAX_INT /\ NoneSince(n, p)
  \/ \E b \in Decoded(n) :
       /\ Begins(n, b) /\ b <= p /\ NoEOS(n, b, p - 1)
       /\ d.pocRandomAccess = IF n[b].type = "IDR" THEN -MAX_INT ELSE n[b].poc

PrevInv(n, p, d) ==
  d.prevPOC = MAX_INT \/ \E k \in Decoded(n) : k <= p /\ NoEOS(n, k, p - 1) /\ d.prevPOC = n[k].poc

(* The last slice that counts for the POC: it may be the one read again.   *)
Tid0Inv(n, p, d) ==
  \/ NoneSince(n, p)
  \/ \E a \in SlicesIn(n) :
       /\ a <= p /\ Counts(n[a]) /\ d.prevTid0POC = n[a].poc
       /\ \A i \in SlicesIn(n) : a < i /\ i < p => ~Counts(n[i])

IRAPInv(n, p, d) ==
  \/ d.associatedIRAPType = "INVALID" /\ NoneSince(n, p)
  \/ \E a \in SlicesIn(n) : /\ LastIRAP(n, a, p) /\ NoEOS(n, a, p - 1)
                            /\ d.associatedIRAPType = n[a].type /\ d.pocCRA = n[a].poc

(* The RASL pictures of a CRA picture that does not begin are output.      *)
RASLInv(n, p, d) ==
  \A a \in SlicesIn(n) :
    /\ LastIRAP(n, a, p) /\ NoEOS(n, a, p - 1) /\ n[a].type = "CRA" /\ ~Begins(n, a)
    /\ p \in SlicesIn(n) => n[p].type \notin IRAPTypes
    => ~d.craNoRaslOutputFlag

(* What a dependent slice inherits is of the slice before it.              *)
SliceInv(n, p, d) ==
  \A k \in SlicesIn(n) :
    /\ k < p /\ NoEOS(n, k, p - 1)
    /\ settings.maxTemporalLayer >= 0 => n[k].tid <= settings.maxTemporalLayer
    /\ \A i \in SlicesIn(n) : ~(k < i /\ i < p)
    => IF k \in Decoded(n)
       THEN /\ ~d.prevSliceSkipped /\ d.slice.poc = n[k].poc
            /\ d.slice.st = IF Restarts(n[k]) THEN <<>> ELSE n[k].st
       ELSE d.prevSliceSkipped /\ d.skippedPOC = n[k].poc

Registers(n, p, d) ==
  /\ d.firstSliceInSequence <=> NoneSince(n, p)
  /\ RandomAccessInv(n, p, d) /\ PrevInv(n, p, d) /\ Tid0Inv(n, p, d) /\ IRAPInv(n, p, d)
  /\ RASLInv(n, p, d)
  /\ ~d.firstSliceInPicture => SliceInv(n, p, d)

(* NAL unit p is a slice of a layer that is decoded; a picture begins with *)
(* its first slice.                                                        *)
AtSlice(n, p, d) ==
  /\ ValidSettings(settings) /\ Conforming(n, settings) /\ p \in SlicesIn(n)
  /\ settings.maxTemporalLayer >= 0 => n[p].tid <= settings.maxTemporalLayer
  /\ d \in Decs /\ Registers(n, p, d)
  /\ d.firstSliceInPicture => n[p].first

(* The POC of a slice is less than half a cycle from that of the last      *)
(* slice that counts, which the decoder has kept.                          *)
LEMMA PreviousPOC ==
  ASSUME NEW n, NEW p, NEW d, AtSlice(n, p, d), n[p].type \notin {"IDR", "BLA"},
         ~(n[p].type = "CRA" /\ d.firstSliceInSequence)
  PROVE  \/ n[p].poc = d.prevTid0POC
         \/ n[p].poc - d.prevTid0POC \in (1 - MaxPocLsb \div 2)..(MaxPocLsb \div 2)
<1>1. /\ Conforming(n, settings) /\ p \in SlicesIn(n) /\ Tid0Inv(n, p, d)
      /\ d.firstSliceInSequence <=> NoneSince(n, p)
  BY DEF AtSlice, Registers
<1>2. /\ p \in Nat /\ \A k \in SlicesIn(n) : k \in Nat
      /\ n[p].type # "EOS"
  BY <1>1, ConformingNALs
<1>3. ~NoneSince(n, p)
  BY <1>1, NextBegins, BeginsIsDecodable DEF IRAPTypes
<1>4. PICK a \in SlicesIn(n) :
        /\ a <= p /\ Counts(n[a]) /\ d.prevTid0POC = n[a].poc
        /\ \A i \in SlicesIn(n) : a < i /\ i < p => ~Counts(n[i])
  BY <1>1, <1>3 DEF Tid0Inv
<1>5. CASE a = p
  BY <1>4, <1>5
<1>6. CASE a # p /\ ~Begins(n, p)
  <2>1. a < p
    BY <1>2, <1>4, <1>6
  <2> QED
    BY <1>1, <1>4, <1>6, <2>1 DEF Conforming, POCsDerivable, MaxPocLsb
<1>7. CASE a # p /\ Begins(n, p)
  <2>1. ~n[p].first
    <3>1. PICK j \in SlicesIn(n) : j < p /\ NoEOS(n, j, p - 1)
      BY <1>3 DEF NoneSince
    <3>2. NoEOS(n, j, p)
      BY <1>2, <3>1 DEF NoEOS
    <3>3. n[j].pic = n[p].pic
      BY <1>7, <3>1, <3>2 DEF Begins
    <3> QED
      BY <1>1, <3>1, <3>3, FirstSlice
  <2>2. PICK f \in SlicesIn(n) : f <= p /\ n[f].pic = n[p].pic /\ n[f].first
    BY <1>1, FirstSlice
  <2>3. f < p
    BY <1>2, <2>1, <2>2
  <2>4. n[f].type \in IRAPTypes
    BY <1>1, <1>7, <2>2, BeginsIsDecodable, SlicesAgree
  <2>5. f <= a
    <3>1. Counts(n[f])
      BY <1>1, <2>4, BeginsIsDecodable
    <3> QED
      BY <1>2, <1>4, <2>3, <3>1
  <2>6. n[a].pic = n[p].pic
    BY <1>1, <1>4, <2>2, <2>5, SlicesAgree
  <2> QED
    BY <1>1, <1>4, <2>6, SlicesAgree
<1> QED
  BY <1>5, <1>6, <1>7

(* The POC an independent slice is given, before the MSBs are dropped.     *)
LEMMA IndependentPOC ==
  ASSUME NEW n, NEW p, NEW d, AtSlice(n, p, d), ~n[p].dep
  PROVE  /\ HeaderPOC(n[p], d) \in Int
         /\ HeaderPOC(n[p], d) % MaxPocLsb = n[p].poc % MaxPocLsb
         /\ IF n[p].type = "CRA" /\ d.firstSliceInSequence
            THEN HeaderPOC(n[p], d) % MaxPocLsb = n[p].poc
            ELSE HeaderPOC(n[p], d) = n[p].poc
<1> DEFINE x == n[p].poc
           m == MaxPocLsb
           prev == d.prevTid0POC
           type == n[p].type
<1>1. HeaderPOC(n[p], d) = DerivedPOC(x % m, prev, type)
  BY DEF HeaderPOC
<1>2. /\ ValidSettings(settings) /\ Conforming(n, settings) /\ p \in SlicesIn(n)
      /\ d.firstSliceInSequence <=> NoneSince(n, p)
      /\ d \in Decs
  BY DEF AtSlice, Registers
<1>3. x \in Int /\ prev \in Int /\ m \in Nat \ {0}
  <2>1. n[p] \in SliceNALs
    BY <1>2, ConformingNALs
  <2>2. x \in Int
    BY <2>1 DEF SliceNALs
  <2>3. prev \in Int
    BY <1>2 DEF Decs
  <2>4. m \in Nat \ {0}
    BY <1>2 DEF ValidSettings, MaxPocLsb
  <2> QED
    BY <2>2, <2>3, <2>4
<1>4. x % m \in 0..(m - 1)
  BY <1>3
<1>5. /\ type = "IDR" => x = 0
      /\ type = "BLA" \/ Begins(n, p) => x \in 0..(m - 1)
  BY <1>2 DEF Conforming, POCsDerivable, MaxPocLsb
<1>6. x \in 0..(m - 1) => x % m = x
  BY <1>3
<1>7. type = "CRA" /\ d.firstSliceInSequence => x \in 0..(m - 1)
  BY <1>2, <1>5, NextBegins
<1>8. type \notin {"IDR", "BLA"} /\ ~(type = "CRA" /\ d.firstSliceInSequence)
        => DerivedPOC(x % m, prev, type) = x
  BY <1>2, <1>3, PreviousPOC, DerivedPOCRight
<1>9. /\ DerivedPOC(x % m, prev, type) \in Int
      /\ type \notin {"IDR", "BLA"} => DerivedPOC(x % m, prev, type) % m = x % m
      /\ type = "IDR" => DerivedPOC(x % m, prev, type) = 0
      /\ type = "BLA" => DerivedPOC(x % m, prev, type) = x % m
  BY <1>2, <1>3, <1>4, DerivedPOCFacts
<1>10. CASE type = "CRA" /\ d.firstSliceInSequence
  BY <1>1, <1>6, <1>7, <1>9, <1>10
<1>11. CASE type = "IDR"
  BY <1>1, <1>5, <1>9, <1>11
<1>12. CASE type = "BLA"
  BY <1>1, <1>5, <1>6, <1>9, <1>12
<1>13. CASE type \notin {"IDR", "BLA"} /\ ~(type = "CRA" /\ d.firstSliceInSequence)
  BY <1>1, <1>8, <1>9, <1>13
<1> QED
  BY <1>10, <1>11, <1>12, <1>13

(* A dependent slice segment finds what it inherits from the slice before  *)
(* it, which is of the same picture.                                       *)
LEMMA DependentSlice ==
  ASSUME NEW n, NEW p, NEW d, AtSlice(n, p, d), ~n[p].first
  PROVE  /\ ~d.firstSliceInPicture /\ ~d.firstSliceInSequence
         /\ p \in Decoded(n) => /\ ~d.prevSliceSkipped /\ d.slice.poc = n[p].poc
                                /\ d.slice.st = IF Restarts(n[p]) THEN <<>> ELSE n[p].st
         /\ p \notin Decoded(n) => d.prevSliceSkipped /\ d.skippedPOC = n[p].poc
<1>1. /\ Conforming(n, settings) /\ p \in SlicesIn(n)
      /\ settings.maxTemporalLayer >= 0 => n[p].tid <= settings.maxTemporalLayer
      /\ d.firstSliceInSequence <=> NoneSince(n, p)
      /\ d.firstSliceInPicture => n[p].first
      /\ ~d.firstSliceInPicture => SliceInv(n, p, d)
  BY DEF AtSlice, Registers
<1>2. /\ Len(n) \in Nat /\ p \in Nat /\ SlicesIn(n) \subseteq 1..Len(n)
      /\ \A k \in SlicesIn(n) : k \in Nat
  BY <1>1, ConformingNALs
<1>3. PICK f \in SlicesIn(n) : f <= p /\ n[f].pic = n[p].pic /\ n[f].first
  BY <1>1, FirstSlice
<1>4. f < p
  BY <1>2, <1>3
<1> DEFINE T == {k \in SlicesIn(n) : k < p}
<1>5. PICK k \in T : \A i \in T : i <= k
  BY <1>2, <1>4, Extremes
<1>6. k \in SlicesIn(n) /\ f <= k /\ k < p /\ k <= p /\ \A i \in SlicesIn(n) : ~(k < i /\ i < p)
  BY <1>2, <1>4, <1>5
<1>7. n[k].pic = n[p].pic
  BY <1>1, <1>3, <1>5, <1>6, SlicesAgree
<1>8. /\ n[k].type = n[p].type /\ n[k].tid = n[p].tid /\ n[k].poc = n[p].poc /\ n[k].st = n[p].st
      /\ NoEOS(n, k, p)
  BY <1>1, <1>5, <1>6, <1>7, SlicesAgree
<1>9. NoEOS(n, k, p - 1)
  BY <1>2, <1>5, <1>8 DEF NoEOS
<1>10. ~d.firstSliceInPicture /\ ~d.firstSliceInSequence
  BY <1>1, <1>5, <1>6, <1>9 DEF NoneSince
<1>11. k \in Decoded(n) <=> p \in Decoded(n)
  BY <1>1, <1>5, <1>7, PicturesAreDecodable DEF Decoded
<1>12. IF k \in Decoded(n)
       THEN /\ ~d.prevSliceSkipped /\ d.slice.poc = n[k].poc
            /\ d.slice.st = IF Restarts(n[k]) THEN <<>> ELSE n[k].st
       ELSE d.prevSliceSkipped /\ d.skippedPOC = n[k].poc
  BY <1>1, <1>5, <1>6, <1>8, <1>9, <1>10 DEF SliceInv
<1> QED
  BY <1>8, <1>10, <1>11, <1>12 DEF Restarts

(* The POC of every slice header.                                          *)
LEMMA HeaderPOCFacts ==
  ASSUME NEW n, NEW p, NEW d, AtSlice(n, p, d)
  PROVE  /\ HeaderPOC(n[p], d) \in Int
         /\ IF n[p].type = "CRA" /\ d.firstSliceInSequence
            THEN HeaderPOC(n[p], d) % MaxPocLsb = n[p].poc
            ELSE HeaderPOC(n[p], d) = n[p].poc
<1>1. CASE ~n[p].dep
  BY <1>1, IndependentPOC
<1>2. CASE n[p].dep
  <2>1. Conforming(n, settings) /\ p \in SlicesIn(n) /\ d \in Decs
    BY DEF AtSlice
  <2>2. ~n[p].first /\ n[p].poc \in Int
    <3>1. n[p] \in SliceNALs
      BY <2>1, ConformingNALs
    <3>2. n[p].poc \in Int
      BY <3>1 DEF SliceNALs
    <3> QED
      BY <1>2, <2>1, <3>2, FirstSlice
  <2>3. /\ ~d.firstSliceInPicture /\ ~d.firstSliceInSequence
        /\ p \in Decoded(n) => ~d.prevSliceSkipped /\ d.slice.poc = n[p].poc
        /\ p \notin Decoded(n) => d.prevSliceSkipped /\ d.skippedPOC = n[p].poc
    BY <2>2, DependentSlice
  <2>4. HeaderPOC(n[p], d) = n[p].poc
    BY <1>2, <2>3 DEF HeaderPOC, Inherited
  <2> QED
    BY <2>2, <2>3, <2>4
<1> QED
  BY <1>1, <1>2

(* The decoder after the header.                                           *)
LEMMA HeaderDecFacts ==
  ASSUME NEW n, NEW p, NEW d, AtSlice(n, p, d)
  PROVE  /\ HeaderDec(n[p], d) \in Decs
         /\ \A f \in {"firstSliceInPicture", "firstSliceInSequence", "firstSliceInBitstream",
                      "prevPOC", "pocRandomAccess", "pocCRA", "associatedIRAPType",
                      "prevSliceSkipped", "skippedPOC", "slice"} : HeaderDec(n[p], d)[f] = d[f]
         /\ HeaderDec(n[p], d).prevTid0POC = IF Counts(n[p]) THEN n[p].poc ELSE d.prevTid0POC
         /\ HeaderDec(n[p], d).craNoRaslOutputFlag
              = IF n[p].type = "CRA" THEN d.firstSliceInSequence ELSE d.craNoRaslOutputFlag
<1> DEFINE poc == HeaderPOC(n[p], d)
           cra == IF n[p].type = "CRA" THEN NoRaslOutput(n[p], d) ELSE d.craNoRaslOutputFlag
           tid0 == IF n[p].type = "CRA" /\ cra THEN poc % MaxPocLsb ELSE poc
           prior == NoOutputPriorPics(n[p], d)
           last == IF prior THEN poc ELSE d.lastPOCNoOutputPriorPics
           prev == IF UpdatesTid0POC(n[p]) THEN tid0 ELSE d.prevTid0POC
<1>1. /\ poc \in Int
      /\ IF n[p].type = "CRA" /\ d.firstSliceInSequence THEN poc % MaxPocLsb = n[p].poc ELSE poc = n[p].poc
  BY HeaderPOCFacts
<1>2. d \in Decs /\ Conforming(n, settings) /\ p \in SlicesIn(n)
  BY DEF AtSlice
<1>3. d.firstSliceInSequence \in BOOLEAN /\ d.craNoRaslOutputFlag \in BOOLEAN
      /\ d.lastPOCNoOutputPriorPics \in Int /\ d.prevTid0POC \in Int /\ n[p].poc \in Int
  <2>1. n[p] \in SliceNALs
    BY <1>2, ConformingNALs
  <2>2. n[p].poc \in Int
    BY <2>1 DEF SliceNALs
  <2> QED
    BY <1>2, <2>2 DEF Decs
<1>4. n[p].type = "CRA" => NoRaslOutput(n[p], d) = d.firstSliceInSequence
  BY <1>3 DEF NoRaslOutput
<1>5. tid0 = n[p].poc
  <2>1. cra = IF n[p].type = "CRA" THEN d.firstSliceInSequence ELSE d.craNoRaslOutputFlag
    BY <1>4
  <2> HIDE DEF cra, poc
  <2> QED
    BY <1>1, <2>1
<1>6. UpdatesTid0POC(n[p]) = Counts(n[p])
  BY DEF UpdatesTid0POC, Counts
<1>7. cra \in BOOLEAN /\ prior \in BOOLEAN /\ last \in Int
      /\ prev = IF Counts(n[p]) THEN n[p].poc ELSE d.prevTid0POC
  <2>1. cra \in BOOLEAN
    BY <1>3, <1>4
  <2>2. prior \in BOOLEAN
    BY DEF NoOutputPriorPics
  <2> HIDE DEF prior, poc, tid0
  <2> QED
    BY <1>1, <1>3, <1>5, <1>6, <2>1, <2>2
<1>8. HeaderDec(n[p], d) = [d EXCEPT !.prevTid0POC = prev, !.craNoRaslOutputFlag = cra,
                                     !.isNoOutputPriorPics = prior, !.lastPOCNoOutputPriorPics = last]
  BY DEF HeaderDec
<1>9. cra = IF n[p].type = "CRA" THEN d.firstSliceInSequence ELSE d.craNoRaslOutputFlag
  BY <1>4
<1> HIDE DEF prev, cra, prior, last
<1>10. prev \in Int
  BY <1>3, <1>7
<1> QED
  BY ZenonT(40), <1>2, <1>7, <1>8, <1>9, <1>10 DEF Decs

HeaderSlices ==
  [poc : Int, type : SliceTypes, tid : Nat, nonRef : BOOLEAN, st : Seq(Entries), lt : {<<>>},
   picOutput : BOOLEAN, noOutputPriorPics : BOOLEAN, assocPOC : Int,
   assocType : IRAPTypes \cup {"INVALID"}]

LEMMA NoLongTerm ==
  ASSUME NEW x, x.lt = <<>>, NEW poc
  PROVE  LongTermPOCs(x, poc) = <<>>
<1> DEFINE f == LongTermPOCs(x, poc)
<1>1. f \in [1..0 -> {f[i] : i \in 1..0}]
  BY DEF LongTermPOCs
<1> HIDE DEF f
<1>2. f \in Seq({f[i] : i \in 1..0}) /\ Len(f) = 0
  BY <1>1, ListOf
<1>3. f = <<>>
  BY <1>2, EmptySeq
<1> QED
  BY <1>3 DEF f

(* The slice the header describes.                                         *)
LEMMA HeaderSliceFacts ==
  ASSUME NEW n, NEW p, NEW d, AtSlice(n, p, d)
  PROVE  /\ HeaderSlice(n[p], d, HeaderDec(n[p], d)) \in HeaderSlices
         /\ HeaderSlice(n[p], d, HeaderDec(n[p], d)).poc = n[p].poc
         /\ HeaderSlice(n[p], d, HeaderDec(n[p], d)).type = n[p].type
         /\ HeaderSlice(n[p], d, HeaderDec(n[p], d)).tid = n[p].tid
         /\ p \in Decoded(n) => HeaderSlice(n[p], d, HeaderDec(n[p], d)).st
                                  = IF Restarts(n[p]) THEN <<>> ELSE n[p].st
<1> DEFINE h == HeaderDec(n[p], d)
           poc0 == HeaderPOC(n[p], d)
           src == IF n[p].dep THEN Inherited(d) ELSE [n[p] EXCEPT !.lt = LongTermPOCs(n[p], poc0)]
           poc == IF n[p].type = "CRA" /\ h.craNoRaslOutputFlag THEN poc0 % MaxPocLsb ELSE poc0
           st == IF n[p].type \in {"IDR", "BLA"} THEN <<>> ELSE src.st
           lt == IF n[p].type \in {"IDR", "BLA"} THEN <<>> ELSE src.lt
           out == IF n[p].type = "RASL" /\ h.craNoRaslOutputFlag THEN FALSE ELSE src.out
           prior == NoOutputPriorPics(n[p], d)
           nonRef == n[p].type \notin IRAPTypes /\ ~n[p].ref
<1>1. HeaderSlice(n[p], d, h) = [poc |-> poc, type |-> n[p].type, tid |-> n[p].tid, nonRef |-> nonRef,
                                 st |-> st, lt |-> lt, picOutput |-> out, noOutputPriorPics |-> prior,
                                 assocPOC |-> d.pocCRA, assocType |-> d.associatedIRAPType]
  BY DEF HeaderSlice
<1>2. d \in Decs /\ Conforming(n, settings) /\ p \in SlicesIn(n)
  BY DEF AtSlice
<1>3. n[p] \in SliceNALs
  BY <1>2, ConformingNALs
<1>4. /\ n[p].poc \in Int /\ n[p].type \in SliceTypes /\ n[p].tid \in Nat /\ n[p].lt = <<>>
      /\ n[p].st \in Seq(Entries) /\ n[p].out \in BOOLEAN /\ n[p].ref \in BOOLEAN
  BY <1>3 DEF SliceNALs, Entries
<1>5. /\ d.pocCRA \in Int /\ d.associatedIRAPType \in IRAPTypes \cup {"INVALID"}
      /\ d.firstSliceInSequence \in BOOLEAN
      /\ d.slice.st \in Seq(Entries) /\ d.slice.lt = <<>> /\ d.slice.out \in BOOLEAN
  BY <1>2 DEF Decs
<1>6. poc = n[p].poc
  <2>1. IF n[p].type = "CRA" /\ d.firstSliceInSequence THEN poc0 % MaxPocLsb = n[p].poc ELSE poc0 = n[p].poc
    BY HeaderPOCFacts
  <2>2. n[p].type = "CRA" => h.craNoRaslOutputFlag = d.firstSliceInSequence
    BY HeaderDecFacts
  <2> HIDE DEF h, poc0
  <2> QED
    BY <2>1, <2>2
<1>7. src.st \in Seq(Entries) /\ src.lt = <<>> /\ src.out \in BOOLEAN
  <2>1. CASE n[p].dep
    <3>1. <<>> \in Seq(Entries)
      OBVIOUS
    <3>2. NoSlice.st = <<>> /\ NoSlice.lt = <<>> /\ NoSlice.out
      BY DEF NoSlice
    <3>3. Inherited(d) = NoSlice \/ Inherited(d) = d.slice
      BY DEF Inherited
    <3> QED
      BY <1>5, <2>1, <3>1, <3>2, <3>3
  <2>2. CASE ~n[p].dep
    <3>1. LongTermPOCs(n[p], poc0) = <<>>
      BY <1>4, NoLongTerm
    <3>2. src = [n[p] EXCEPT !.lt = <<>>]
      BY <2>2, <3>1
    <3>3. src.st = n[p].st /\ src.out = n[p].out /\ src.lt = <<>>
      BY <1>3, <3>2 DEF SliceNALs
    <3> QED
      BY <1>4, <3>3
  <2> QED
    BY <2>1, <2>2
<1>8. p \in Decoded(n) => st = IF Restarts(n[p]) THEN <<>> ELSE n[p].st
  <2>1. CASE n[p].dep /\ p \in Decoded(n)
    <3>1. ~n[p].first
      BY <1>2, <2>1, FirstSlice
    <3>2. /\ ~d.firstSliceInPicture /\ d.slice.st = IF Restarts(n[p]) THEN <<>> ELSE n[p].st
      BY <2>1, <3>1, DependentSlice
    <3>3. src = d.slice
      BY <2>1, <3>2 DEF Inherited
    <3> QED
      BY <3>2, <3>3 DEF Restarts
  <2>2. CASE ~n[p].dep
    <3>1. src.st = n[p].st
      BY <1>3, <2>2 DEF SliceNALs
    <3> QED
      BY <3>1 DEF Restarts
  <2> QED
    BY <2>1, <2>2
<1>9. prior \in BOOLEAN /\ out \in BOOLEAN /\ nonRef \in BOOLEAN /\ st \in Seq(Entries) /\ lt = <<>>
  <2>1. prior \in BOOLEAN
    BY DEF NoOutputPriorPics
  <2>2. <<>> \in Seq(Entries)
    OBVIOUS
  <2> HIDE DEF src, prior
  <2> QED
    BY <1>7, <2>1, <2>2
<1> DEFINE s == HeaderSlice(n[p], d, h)
<1> HIDE DEF poc, st, lt, out, prior, nonRef, h
<1>10. s \in HeaderSlices
  BY <1>1, <1>4, <1>5, <1>6, <1>9 DEF HeaderSlices
<1>11. s.poc = poc /\ s.type = n[p].type /\ s.tid = n[p].tid /\ s.st = st
  BY <1>1
<1> HIDE DEF s
<1> QED
  BY <1>6, <1>8, <1>10, <1>11 DEF s, h

-----------------------------------------------------------------------------
(* Random access: what is skipped.                                         *)

(* There is one last IRAP picture.                                         *)
LEMMA LastIRAPUnique ==
  ASSUME NEW n, NEW s, Conforming(n, s), NEW a, NEW b, NEW p, LastIRAP(n, a, p), LastIRAP(n, b, p)
  PROVE  a = b
<1>1. a \in SlicesIn(n) /\ b \in SlicesIn(n) /\ a \in Nat /\ b \in Nat
  BY ConformingNALs DEF LastIRAP
<1> QED
  BY <1>1 DEF LastIRAP

(* POCs are between those that stand for no random access point.           *)
LEMMA POCRange ==
  ASSUME NEW n, NEW s, Conforming(n, s), NEW k \in SlicesIn(n)
  PROVE  /\ n[k].poc \in Int /\ -MAX_INT \in Int /\ MAX_INT \in Int
         /\ -MAX_INT <= n[k].poc /\ n[k].poc < MAX_INT /\ -MAX_INT # MAX_INT
<1>1. n[k] \in SliceNALs
  BY ConformingNALs
<1>2. n[k].poc \in -MAX_INT..(MAX_INT - 1)
  BY <1>1 DEF SliceNALs
<1>3. MAX_INT \in Int /\ MAX_INT > 0
  BY DEF MAX_INT
<1> QED
  BY <1>2, <1>3

(* When a slice is met that is no IRAP picture, slices were met before.    *)
LEMMA SomeSince ==
  ASSUME NEW n, NEW s, Conforming(n, s), NEW p \in SlicesIn(n), n[p].type \notin IRAPTypes
  PROVE  ~NoneSince(n, p) /\ ~Begins(n, p)
  BY NextBegins, BeginsIsDecodable

(* Two pictures that begin since the last end of sequence are one.         *)
LEMMA SameBeginning ==
  ASSUME NEW n, NEW s, Conforming(n, s), NEW p \in Nat,
         NEW a \in SlicesIn(n), Begins(n, a), a <= p, NoEOS(n, a, p - 1),
         NEW b \in SlicesIn(n), Begins(n, b), b <= p, NoEOS(n, b, p - 1)
  PROVE  n[a].pic = n[b].pic
<1>1. a \in Nat /\ b \in Nat /\ n[a].type # "EOS" /\ n[b].type # "EOS"
  BY ConformingNALs
<1>2. a <= b => NoEOS(n, a, b)
  BY <1>1 DEF NoEOS
<1>3. b <= a => NoEOS(n, b, a)
  BY <1>1 DEF NoEOS
<1> QED
  BY <1>1, <1>2, <1>3, OneBegins

(* The decoder skips exactly the slices that cannot be decoded.            *)
LEMMA SkippingRight ==
  ASSUME NEW n, NEW p, NEW d, AtSlice(n, p, d), app \in Apps, NEW h, NEW s,
         h.pocRandomAccess = d.pocRandomAccess, h.pocCRA = d.pocCRA,
         h.associatedIRAPType = d.associatedIRAPType,
         s.poc = n[p].poc, s.type = n[p].type
  PROVE  IsSkipped(s, h) <=> p \notin Decoded(n)
<1>1. /\ Conforming(n, settings) /\ p \in SlicesIn(n)
      /\ settings.maxTemporalLayer >= 0 => n[p].tid <= settings.maxTemporalLayer
      /\ RandomAccessInv(n, p, d) /\ IRAPInv(n, p, d)
  BY DEF AtSlice, Registers
<1>2. p \in Nat /\ n[p].type # "EOS" /\ \A k \in SlicesIn(n) : k \in Nat
  BY <1>1, ConformingNALs
<1>3. p \notin Decoded(n) <=> CannotBeDecoded(n, p)
  BY <1>1 DEF Decoded, Decodable
<1>4. IsSkipped(s, h) <=> SkippedForRandomAccess(s, d) \/ SkippedForBLA(s, d)
  BY DEF IsSkipped, Apps, SkippedForRandomAccess, SkippedForBLA
<1>5. ASSUME CannotBeDecoded(n, p) PROVE SkippedForRandomAccess(s, d) \/ SkippedForBLA(s, d)
  <2>1. n[p].type = "RASL"
    BY <1>5 DEF CannotBeDecoded
  <2>2. PICK a \in SlicesIn(n) : LastIRAP(n, a, p) /\ (n[a].type = "CRA" => Begins(n, a))
    BY <1>5 DEF CannotBeDecoded
  <2>3. ~NoneSince(n, p) /\ ~Begins(n, p)
    BY <1>1, <2>1, SomeSince DEF IRAPTypes
  <2>4. /\ LastIRAP(n, a, p) /\ NoEOS(n, a, p - 1)
        /\ d.associatedIRAPType = n[a].type /\ d.pocCRA = n[a].poc
    BY <1>1, <2>2, <2>3, LastIRAPUnique DEF IRAPInv
  <2>5. n[a].type # "IDR" /\ n[p].poc < n[a].poc
    BY <1>1, <2>1, <2>2 DEF Conforming, IRAPPicturesFirst
  <2>6. n[a].type \in IRAPTypes /\ a < p
    BY <2>2 DEF LastIRAP
  <2>7. CASE n[a].type = "BLA"
    BY <2>1, <2>4, <2>5, <2>7 DEF SkippedForBLA
  <2>8. CASE n[a].type = "CRA"
    <3>1. Begins(n, a)
      BY <2>2, <2>8
    <3>2. PICK b \in Decoded(n) :
            /\ Begins(n, b) /\ b <= p /\ NoEOS(n, b, p - 1)
            /\ d.pocRandomAccess = IF n[b].type = "IDR" THEN -MAX_INT ELSE n[b].poc
      BY <1>1, <2>3 DEF RandomAccessInv
    <3>3. b \in SlicesIn(n)
      BY DEF Decoded, Decodable
    <3>4. n[a].pic = n[b].pic
      BY <1>1, <1>2, <2>4, <2>6, <3>1, <3>2, <3>3, SameBeginning
    <3>5. n[b].type = "CRA" /\ n[b].poc = n[a].poc
      BY <1>1, <2>8, <3>3, <3>4, SlicesAgree
    <3>6. d.pocRandomAccess = n[a].poc /\ n[a].poc # MAX_INT
      BY <1>1, <3>2, <3>5, POCRange
    <3> QED
      BY <2>1, <2>5, <3>6 DEF SkippedForRandomAccess
  <2> QED
    BY <2>5, <2>6, <2>7, <2>8 DEF IRAPTypes
<1>6. ASSUME ~CannotBeDecoded(n, p), SkippedForRandomAccess(s, d) PROVE FALSE
  <2>1. CASE NoneSince(n, p)
    <3>1. n[p].type \in IRAPTypes
      BY <1>1, <2>1, NextBegins, BeginsIsDecodable
    <3> QED
      BY <1>6, <3>1 DEF SkippedForRandomAccess, IRAPTypes
  <2>2. CASE ~NoneSince(n, p)
    <3>1. PICK b \in Decoded(n) :
            /\ Begins(n, b) /\ b <= p /\ NoEOS(n, b, p - 1)
            /\ d.pocRandomAccess = IF n[b].type = "IDR" THEN -MAX_INT ELSE n[b].poc
      BY <1>1, <2>2 DEF RandomAccessInv
    <3>2. b \in SlicesIn(n) /\ b \in Decodable(n, settings.maxTemporalLayer)
      BY DEF Decoded, Decodable
    <3>3. p \in Decodable(n, settings.maxTemporalLayer)
      BY <1>3, <1>6 DEF Decoded
    <3>4. NoEOS(n, b, p)
      BY <1>2, <3>1, <3>2 DEF NoEOS
    <3>5. n[b].type # "IDR" => n[b].poc <= n[p].poc
      BY <1>1, <3>1, <3>2, <3>3, <3>4 DEF Conforming, RandomAccessFirst
    <3>6. d.pocRandomAccess # MAX_INT /\ ~(n[p].poc < d.pocRandomAccess)
      BY <1>1, <3>1, <3>2, <3>5, POCRange
    <3> QED
      BY <1>6, <3>6 DEF SkippedForRandomAccess
  <2> QED
    BY <2>1, <2>2
<1>7. ASSUME ~CannotBeDecoded(n, p), SkippedForBLA(s, d) PROVE FALSE
  <2>1. d.associatedIRAPType = "BLA" /\ n[p].type = "RASL"
    BY <1>7 DEF SkippedForBLA
  <2>2. PICK a \in SlicesIn(n) : LastIRAP(n, a, p) /\ n[a].type = "BLA"
    BY <1>1, <2>1 DEF IRAPInv
  <2> QED
    BY <1>7, <2>1, <2>2 DEF CannotBeDecoded
<1> QED
  BY <1>3, <1>4, <1>5, <1>6, <1>7

(* The random access point after the slice.                                *)
LEMMA RandomAccessPOCRight ==
  ASSUME NEW n, NEW p, NEW d, AtSlice(n, p, d), NEW h, NEW s,
         h.pocRandomAccess = d.pocRandomAccess, s.poc = n[p].poc, s.type = n[p].type
  PROVE  /\ p \notin Decoded(n) => RandomAccessPOC(s, h) = d.pocRandomAccess
         /\ \E b \in Decoded(n) :
              /\ Begins(n, b) /\ b <= p /\ NoEOS(n, b, p)
              /\ RandomAccessPOC(s, h) = IF n[b].type = "IDR" THEN -MAX_INT ELSE n[b].poc
<1>1. /\ Conforming(n, settings) /\ p \in SlicesIn(n) /\ RandomAccessInv(n, p, d)
      /\ settings.maxTemporalLayer >= 0 => n[p].tid <= settings.maxTemporalLayer
  BY DEF AtSlice, Registers
<1>2. p \in Nat /\ n[p].type # "EOS" /\ \A k \in SlicesIn(n) : k \in Nat
  BY <1>1, ConformingNALs
<1>3. CASE d.pocRandomAccess = MAX_INT
  <2>1. NoneSince(n, p)
    <3>1. \A b \in Decoded(n) : b \in SlicesIn(n)
      BY DEF Decoded, Decodable
    <3> QED
      BY <1>1, <1>3, <3>1, POCRange DEF RandomAccessInv
  <2>2. Begins(n, p) /\ n[p].type \in IRAPTypes /\ p \in Decoded(n)
    BY <1>1, <2>1, NextBegins, BeginsIsDecodable DEF Decoded
  <2>3. NoEOS(n, p, p) /\ p <= p
    BY <1>2 DEF NoEOS
  <2>4. RandomAccessPOC(s, h) = IF n[p].type = "IDR" THEN -MAX_INT ELSE n[p].poc
    BY <1>3, <2>2 DEF RandomAccessPOC, IRAPTypes
  <2> QED
    BY <2>2, <2>3, <2>4
<1>4. CASE d.pocRandomAccess # MAX_INT
  <2>1. RandomAccessPOC(s, h) = d.pocRandomAccess
    BY <1>4 DEF RandomAccessPOC
  <2>2. PICK b \in Decoded(n) :
          /\ Begins(n, b) /\ b <= p /\ NoEOS(n, b, p - 1)
          /\ d.pocRandomAccess = IF n[b].type = "IDR" THEN -MAX_INT ELSE n[b].poc
    BY <1>1, <1>4 DEF RandomAccessInv
  <2>3. NoEOS(n, b, p)
    BY <1>2, <2>2 DEF NoEOS, Decoded, Decodable
  <2> QED
    BY <2>1, <2>2, <2>3
<1> QED
  BY <1>3, <1>4

(* A new picture is found at the first slice of every picture but the one  *)
(* the decoder waits for.                                                  *)
LEMMA NewPictureRight ==
  ASSUME NEW n, NEW p, NEW d, AtSlice(n, p, d), p \in Decoded(n), NEW h, NEW s, NEW g,
         h.pocRandomAccess = d.pocRandomAccess, s.poc = n[p].poc, s.type = n[p].type,
         g.prevPOC = d.prevPOC, g.firstSliceInPicture = d.firstSliceInPicture,
         g.pocRandomAccess = RandomAccessPOC(s, h)
  PROVE  NewPictureFound(n[p], g) <=> n[p].first /\ ~d.firstSliceInPicture
<1>1. Conforming(n, settings) /\ p \in SlicesIn(n) /\ PrevInv(n, p, d)
  BY DEF AtSlice, Registers
<1>2. p \in Nat /\ n[p].type # "EOS" /\ \A k \in SlicesIn(n) : k \in Nat /\ n[k].type # "EOS"
  BY <1>1, ConformingNALs
<1>3. \A b \in Decoded(n) : b \in SlicesIn(n) /\ b \in Decodable(n, settings.maxTemporalLayer)
  BY DEF Decoded, Decodable
<1>4. PICK b \in Decoded(n) :
        /\ Begins(n, b) /\ b <= p /\ NoEOS(n, b, p)
        /\ g.pocRandomAccess = IF n[b].type = "IDR" THEN -MAX_INT ELSE n[b].poc
  BY RandomAccessPOCRight
<1>5. d.prevPOC >= g.pocRandomAccess
  <2>1. CASE d.prevPOC = MAX_INT
    BY <1>1, <1>3, <1>4, <2>1, POCRange
  <2>2. CASE d.prevPOC # MAX_INT
    <3>1. PICK k \in Decoded(n) : k <= p /\ NoEOS(n, k, p - 1) /\ d.prevPOC = n[k].poc
      BY <1>1, <2>2 DEF PrevInv
    <3>2. CASE n[b].type = "IDR"
      BY <1>1, <1>3, <1>4, <3>1, <3>2, POCRange
    <3>3. CASE n[b].type # "IDR" /\ b <= k
      <4>1. NoEOS(n, b, k)
        BY <1>2, <1>3, <1>4, <3>1 DEF NoEOS
      <4>2. n[b].poc <= n[k].poc
        BY <1>1, <1>3, <1>4, <3>3, <4>1 DEF Conforming, RandomAccessFirst
      <4> QED
        BY <1>1, <1>3, <1>4, <3>1, <3>3, <4>2, POCRange
    <3>4. CASE n[b].type # "IDR" /\ ~(b <= k)
      <4>1. k <= b /\ NoEOS(n, k, b)
        BY <1>2, <1>3, <1>4, <3>1, <3>4 DEF NoEOS
      <4>2. n[k].pic = n[b].pic
        BY <1>1, <1>3, <1>4, <4>1, OneBegins
      <4>3. n[k].poc = n[b].poc
        BY <1>1, <1>3, <4>2, SlicesAgree
      <4> QED
        BY <1>1, <1>3, <1>4, <3>1, <3>4, <4>3, POCRange
    <3> QED
      BY <3>2, <3>3, <3>4
  <2> QED
    BY <2>1, <2>2
<1>6. n[p].first => ~n[p].dep
  BY <1>1, FirstSlice
<1> QED
  BY <1>5, <1>6 DEF NewPictureFound, StartsPicture

-----------------------------------------------------------------------------
(* The registers after a NAL unit.                                         *)

LEMMA NoEOSNext ==
  ASSUME NEW n, NEW p \in Nat, n[p].type # "EOS"
  PROVE  /\ \A j \in Nat : j <= p => (NoEOS(n, j, p + 1 - 1) <=> NoEOS(n, j, p - 1))
         /\ NoEOS(n, p, p + 1 - 1) /\ NoEOS(n, p, p - 1)
<1>1. p + 1 - 1 = p /\ p \in p..p
  OBVIOUS
<1>2. ASSUME NEW j \in Nat, j <= p PROVE NoEOS(n, j, p) <=> NoEOS(n, j, p - 1)
  <2>1. \A i : i \in j..p <=> i \in j..(p - 1) \/ i = p
    BY <1>2
  <2> QED
    BY <2>1 DEF NoEOS
<1>3. NoEOS(n, p, p - 1)
  BY DEF NoEOS
<1>4. NoEOS(n, p, p)
  BY <1>2, <1>3
<1> QED
  BY <1>1, <1>2, <1>3, <1>4

(* A NAL unit that is no slice begins nothing.                             *)
LEMMA NoneSinceNext ==
  ASSUME NEW n, NEW s, Conforming(n, s), NEW p \in Nat, n[p].type # "EOS",
         p \in SlicesIn(n) => ~NoneSince(n, p)
  PROVE  NoneSince(n, p + 1) <=> NoneSince(n, p)
<1>1. \A j \in SlicesIn(n) : j \in Nat
  BY ConformingNALs
<1>2. \A j \in Nat : j <= p => (NoEOS(n, j, p + 1 - 1) <=> NoEOS(n, j, p - 1))
  BY NoEOSNext
<1>3. \A j \in Nat : j < p + 1 <=> j < p \/ j = p
  OBVIOUS
<1>4. \A j \in SlicesIn(n) : j < p \/ j = p => (NoEOS(n, j, p + 1 - 1) <=> NoEOS(n, j, p - 1))
  BY <1>1, <1>2
<1>5. CASE NoneSince(n, p)
  BY <1>1, <1>3, <1>4, <1>5 DEF NoneSince
<1>6. CASE ~NoneSince(n, p)
  BY <1>1, <1>3, <1>4, <1>6 DEF NoneSince
<1> QED
  BY <1>5, <1>6

(* After one that is ignored. *)
LEMMA RegistersIgnored ==
  ASSUME NEW n, Conforming(n, settings), NEW p \in Nat, n[p].type # "EOS",
         \/ p \notin SlicesIn(n)
         \/ settings.maxTemporalLayer >= 0 /\ ~(n[p].tid <= settings.maxTemporalLayer) /\ n[p].tid # 0,
         NEW d, Registers(n, p, d), NEW e, SameRegisters(e, d),
         e.firstSliceInSequence <=> d.firstSliceInSequence,
         d.firstSliceInPicture => e.firstSliceInPicture
  PROVE  Registers(n, p + 1, e)
<1>1. \A j \in SlicesIn(n) : j \in Nat
  BY ConformingNALs
<1>2. \A j \in Nat : j <= p => (NoEOS(n, j, p + 1 - 1) <=> NoEOS(n, j, p - 1))
  BY NoEOSNext
<1>3. \A j \in Nat : /\ j < p + 1 <=> j < p \/ j = p
                     /\ j <= p => j <= p + 1
                     /\ j < p => j <= p
  OBVIOUS
<1>4. p \in SlicesIn(n) => n[p].type \notin IRAPTypes /\ ~Counts(n[p]) /\ ~NoneSince(n, p)
  <2>1. p \in SlicesIn(n) => n[p].type \notin IRAPTypes
    BY BeginsIsDecodable
  <2> QED
    BY <2>1, SomeSince DEF Counts
<1>5. NoneSince(n, p + 1) <=> NoneSince(n, p)
  BY <1>4, NoneSinceNext
<1>6. RandomAccessInv(n, p + 1, e)
  <2>1. CASE d.pocRandomAccess = MAX_INT /\ NoneSince(n, p)
    BY <1>5, <2>1 DEF RandomAccessInv, SameRegisters
  <2>2. CASE \E b \in Decoded(n) :
               /\ Begins(n, b) /\ b <= p /\ NoEOS(n, b, p - 1)
               /\ d.pocRandomAccess = IF n[b].type = "IDR" THEN -MAX_INT ELSE n[b].poc
    <3>1. PICK b \in Decoded(n) :
               /\ Begins(n, b) /\ b <= p /\ NoEOS(n, b, p - 1)
               /\ d.pocRandomAccess = IF n[b].type = "IDR" THEN -MAX_INT ELSE n[b].poc
      BY <2>2
    <3>2. b \in Nat
      BY <1>1 DEF Decoded, Decodable
    <3>3. b <= p + 1 /\ NoEOS(n, b, p + 1 - 1)
      BY <1>2, <1>3, <3>1, <3>2
    <3> QED
      BY <3>1, <3>3 DEF RandomAccessInv, SameRegisters
  <2> QED
    BY <2>1, <2>2 DEF Registers, RandomAccessInv
<1>7. PrevInv(n, p + 1, e)
  <2>1. SUFFICES ASSUME d.prevPOC # MAX_INT PROVE PrevInv(n, p + 1, e)
    BY DEF PrevInv, SameRegisters
  <2>2. PICK k \in Decoded(n) : k <= p /\ NoEOS(n, k, p - 1) /\ d.prevPOC = n[k].poc
    BY <2>1 DEF Registers, PrevInv
  <2>3. k \in Nat
    BY <1>1 DEF Decoded, Decodable
  <2>4. k <= p + 1 /\ NoEOS(n, k, p + 1 - 1)
    BY <1>2, <1>3, <2>2, <2>3
  <2> QED
    BY <2>2, <2>4 DEF PrevInv, SameRegisters
<1>8. Tid0Inv(n, p + 1, e)
  <2>1. SUFFICES ASSUME ~NoneSince(n, p) PROVE Tid0Inv(n, p + 1, e)
    BY <1>5 DEF Tid0Inv
  <2>2. PICK a \in SlicesIn(n) :
          /\ a <= p /\ Counts(n[a]) /\ d.prevTid0POC = n[a].poc
          /\ \A i \in SlicesIn(n) : a < i /\ i < p => ~Counts(n[i])
    BY <2>1 DEF Registers, Tid0Inv
  <2>3. \A i \in SlicesIn(n) : a < i /\ i < p + 1 => ~Counts(n[i])
    BY <1>1, <1>3, <1>4, <2>2
  <2>4. a <= p + 1
    BY <1>1, <1>3, <2>2
  <2> QED
    BY <2>2, <2>3, <2>4 DEF Tid0Inv, SameRegisters
<1>9. IRAPInv(n, p + 1, e)
  <2>1. CASE d.associatedIRAPType = "INVALID" /\ NoneSince(n, p)
    BY <1>5, <2>1 DEF IRAPInv, SameRegisters
  <2>2. CASE \E a \in SlicesIn(n) : /\ LastIRAP(n, a, p) /\ NoEOS(n, a, p - 1)
                                    /\ d.associatedIRAPType = n[a].type /\ d.pocCRA = n[a].poc
    <3>1. PICK a \in SlicesIn(n) : /\ LastIRAP(n, a, p) /\ NoEOS(n, a, p - 1)
                                    /\ d.associatedIRAPType = n[a].type /\ d.pocCRA = n[a].poc
      BY <2>2
    <3>2. LastIRAP(n, a, p + 1)
      BY <1>1, <1>3, <1>4, <3>1 DEF LastIRAP
    <3>3. NoEOS(n, a, p + 1 - 1)
      BY <1>1, <1>2, <1>3, <3>1 DEF LastIRAP
    <3> QED
      BY <3>1, <3>2, <3>3 DEF IRAPInv, SameRegisters
  <2> QED
    BY <2>1, <2>2 DEF Registers, IRAPInv
<1>10. ASSUME ~e.firstSliceInPicture PROVE SliceInv(n, p + 1, e)
  <2>1. SliceInv(n, p, d)
    BY <1>10 DEF Registers
  <2>2. SUFFICES ASSUME NEW k \in SlicesIn(n), k < p + 1, NoEOS(n, k, p + 1 - 1),
                        settings.maxTemporalLayer >= 0 => n[k].tid <= settings.maxTemporalLayer,
                        \A i \in SlicesIn(n) : ~(k < i /\ i < p + 1)
                 PROVE  IF k \in Decoded(n)
                        THEN /\ ~e.prevSliceSkipped /\ e.slice.poc = n[k].poc
                             /\ e.slice.st = IF Restarts(n[k]) THEN <<>> ELSE n[k].st
                        ELSE e.prevSliceSkipped /\ e.skippedPOC = n[k].poc
    BY DEF SliceInv
  <2>3. k # p /\ k < p /\ NoEOS(n, k, p - 1)
    BY <1>1, <1>2, <1>3, <2>2
  <2>4. \A i \in SlicesIn(n) : ~(k < i /\ i < p)
    BY <1>1, <1>3, <2>2
  <2> QED
    BY <2>1, <2>2, <2>3, <2>4 DEF SliceInv, SameRegisters
<1>11. RASLInv(n, p + 1, e)
  <2>1. SUFFICES ASSUME NEW a \in SlicesIn(n), LastIRAP(n, a, p + 1), NoEOS(n, a, p + 1 - 1),
                        n[a].type = "CRA", ~Begins(n, a)
                 PROVE  ~e.craNoRaslOutputFlag
    BY DEF RASLInv
  <2>2. a # p
    BY <1>4, <2>1 DEF IRAPTypes
  <2>3. LastIRAP(n, a, p) /\ NoEOS(n, a, p - 1)
    BY <1>1, <1>2, <1>3, <2>1, <2>2 DEF LastIRAP
  <2> QED
    BY <1>4, <2>1, <2>3 DEF Registers, RASLInv, SameRegisters
<1> QED
  BY <1>5, <1>6, <1>7, <1>8, <1>9, <1>10, <1>11 DEF Registers

(* After the end of a sequence. *)
LEMMA RegistersAfterEOS ==
  ASSUME NEW n, Conforming(n, settings), NEW p \in Nat, n[p].type = "EOS",
         NEW e, e.firstSliceInSequence, e.pocRandomAccess = MAX_INT, e.prevPOC = MAX_INT,
         e.associatedIRAPType = "INVALID"
  PROVE  Registers(n, p + 1, e)
<1>1. \A j \in SlicesIn(n) : j \in Nat
  BY ConformingNALs
<1>2. ASSUME NEW j \in SlicesIn(n), j < p + 1 PROVE ~NoEOS(n, j, p + 1 - 1)
  <2>1. p \in j..(p + 1 - 1)
    BY <1>1, <1>2
  <2> QED
    BY <2>1 DEF NoEOS
<1>3. NoneSince(n, p + 1)
  BY <1>2 DEF NoneSince
<1>4. SliceInv(n, p + 1, e)
  BY <1>2 DEF SliceInv
<1>5. RASLInv(n, p + 1, e)
  BY <1>2 DEF RASLInv, LastIRAP
<1> QED
  BY <1>3, <1>4, <1>5 DEF Registers, RandomAccessInv, PrevInv, Tid0Inv, IRAPInv

(* After a slice that is skipped. *)
LEMMA RegistersSkipped ==
  ASSUME NEW n, NEW p \in Nat, NEW d, AtSlice(n, p, d), p \notin Decoded(n),
         NEW e, e.firstSliceInSequence <=> d.firstSliceInSequence,
         e.pocRandomAccess = d.pocRandomAccess, e.prevPOC = d.prevPOC,
         e.prevTid0POC = IF Counts(n[p]) THEN n[p].poc ELSE d.prevTid0POC,
         e.associatedIRAPType = d.associatedIRAPType, e.pocCRA = d.pocCRA,
         e.prevSliceSkipped, e.skippedPOC = n[p].poc, e.craNoRaslOutputFlag = d.craNoRaslOutputFlag
  PROVE  Registers(n, p + 1, e)
<1>0. /\ Conforming(n, settings) /\ Registers(n, p, d) /\ p \in SlicesIn(n)
      /\ settings.maxTemporalLayer >= 0 => n[p].tid <= settings.maxTemporalLayer
  BY DEF AtSlice
<1>1. p \in Nat /\ n[p].type # "EOS" /\ \A j \in SlicesIn(n) : j \in Nat
  BY <1>0, ConformingNALs
<1>2. \A j \in Nat : j <= p => (NoEOS(n, j, p + 1 - 1) <=> NoEOS(n, j, p - 1))
  BY <1>1, NoEOSNext
<1>3. \A j \in Nat : /\ j < p + 1 <=> j < p \/ j = p
                     /\ j <= p => j <= p + 1
                     /\ j < p => j <= p
  BY <1>1
<1>4. n[p].type \notin IRAPTypes /\ ~Counts(n[p]) /\ ~NoneSince(n, p)
  <2>1. n[p].type = "RASL"
    BY <1>0 DEF Decoded, Decodable, CannotBeDecoded
  <2>2. n[p].type \notin IRAPTypes
    BY <2>1 DEF IRAPTypes
  <2> QED
    BY <1>0, <2>1, <2>2, SomeSince DEF Counts, LeadingTypes
<1>5. NoneSince(n, p + 1) <=> NoneSince(n, p)
  BY <1>0, <1>1, <1>4, NoneSinceNext
<1>6. RandomAccessInv(n, p + 1, e)
  <2>1. PICK b \in Decoded(n) :
               /\ Begins(n, b) /\ b <= p /\ NoEOS(n, b, p - 1)
               /\ d.pocRandomAccess = IF n[b].type = "IDR" THEN -MAX_INT ELSE n[b].poc
    BY <1>0, <1>4 DEF Registers, RandomAccessInv
  <2>2. b \in Nat
    BY <1>1 DEF Decoded, Decodable
  <2>3. b <= p + 1 /\ NoEOS(n, b, p + 1 - 1)
    BY <1>2, <1>3, <2>1, <2>2
  <2> QED
    BY <2>1, <2>3 DEF RandomAccessInv
<1>7. PrevInv(n, p + 1, e)
  <2>1. SUFFICES ASSUME d.prevPOC # MAX_INT PROVE PrevInv(n, p + 1, e)
    BY DEF PrevInv
  <2>2. PICK k \in Decoded(n) : k <= p /\ NoEOS(n, k, p - 1) /\ d.prevPOC = n[k].poc
    BY <1>0, <2>1 DEF Registers, PrevInv
  <2>3. k \in Nat
    BY <1>1 DEF Decoded, Decodable
  <2>4. k <= p + 1 /\ NoEOS(n, k, p + 1 - 1)
    BY <1>2, <1>3, <2>2, <2>3
  <2> QED
    BY <2>2, <2>4 DEF PrevInv
<1>8. Tid0Inv(n, p + 1, e)
  <2>2. PICK a \in SlicesIn(n) :
          /\ a <= p /\ Counts(n[a]) /\ d.prevTid0POC = n[a].poc
          /\ \A i \in SlicesIn(n) : a < i /\ i < p => ~Counts(n[i])
    BY <1>0, <1>4 DEF Registers, Tid0Inv
  <2>3. \A i \in SlicesIn(n) : a < i /\ i < p + 1 => ~Counts(n[i])
    BY <1>1, <1>3, <1>4, <2>2
  <2>4. a <= p + 1
    BY <1>1, <1>3, <2>2
  <2> QED
    BY <1>4, <2>2, <2>3, <2>4 DEF Tid0Inv
<1>9. IRAPInv(n, p + 1, e)
  <2>1. PICK a \in SlicesIn(n) : /\ LastIRAP(n, a, p) /\ NoEOS(n, a, p - 1)
                                 /\ d.associatedIRAPType = n[a].type /\ d.pocCRA = n[a].poc
    BY <1>0, <1>4 DEF Registers, IRAPInv
  <2>2. LastIRAP(n, a, p + 1)
    BY <1>1, <1>3, <1>4, <2>1 DEF LastIRAP
  <2>3. NoEOS(n, a, p + 1 - 1)
    BY <1>1, <1>2, <1>3, <2>1 DEF LastIRAP
  <2> QED
    BY <2>1, <2>2, <2>3 DEF IRAPInv
<1>10. SliceInv(n, p + 1, e)
  <2>1. ASSUME NEW k \in SlicesIn(n), k < p + 1, \A i \in SlicesIn(n) : ~(k < i /\ i < p + 1)
        PROVE  k = p
    BY <1>0, <1>1, <1>3, <2>1
  <2> QED
    BY <2>1 DEF SliceInv
<1>11. RASLInv(n, p + 1, e)
  <2>1. SUFFICES ASSUME NEW a \in SlicesIn(n), LastIRAP(n, a, p + 1), NoEOS(n, a, p + 1 - 1),
                        n[a].type = "CRA", ~Begins(n, a)
                 PROVE  ~e.craNoRaslOutputFlag
    BY DEF RASLInv
  <2>2. a # p
    BY <1>4, <2>1 DEF IRAPTypes
  <2>3. LastIRAP(n, a, p) /\ NoEOS(n, a, p - 1)
    BY <1>1, <1>2, <1>3, <2>1, <2>2 DEF LastIRAP
  <2> QED
    BY <1>0, <1>4, <2>1, <2>3 DEF Registers, RASLInv
<1> QED
  BY <1>0, <1>5, <1>6, <1>7, <1>8, <1>9, <1>10, <1>11 DEF Registers

(* When a new picture was found the slice is read again. *)
LEMMA RegistersFound ==
  ASSUME NEW n, NEW p \in Nat, NEW d, AtSlice(n, p, d), p \in Decoded(n),
         NEW e, e.firstSliceInSequence <=> d.firstSliceInSequence, e.firstSliceInPicture,
         \E b \in Decoded(n) :
           /\ Begins(n, b) /\ b <= p /\ NoEOS(n, b, p)
           /\ e.pocRandomAccess = IF n[b].type = "IDR" THEN -MAX_INT ELSE n[b].poc,
         e.prevPOC = n[p].poc,
         e.prevTid0POC = IF Counts(n[p]) THEN n[p].poc ELSE d.prevTid0POC,
         e.associatedIRAPType = d.associatedIRAPType, e.pocCRA = d.pocCRA,
         e.craNoRaslOutputFlag = IF n[p].type = "CRA" THEN d.firstSliceInSequence ELSE d.craNoRaslOutputFlag
  PROVE  Registers(n, p, e)
<1>0. /\ Conforming(n, settings) /\ Registers(n, p, d) /\ p \in SlicesIn(n)
  BY DEF AtSlice
<1>1. p \in Nat /\ n[p].type # "EOS" /\ \A j \in SlicesIn(n) : j \in Nat
  BY <1>0, ConformingNALs
<1>2. /\ \A j \in Nat : j <= p => (NoEOS(n, j, p + 1 - 1) <=> NoEOS(n, j, p - 1))
      /\ NoEOS(n, p, p - 1)
  BY <1>1, NoEOSNext
<1>3. p + 1 - 1 = p /\ p <= p
  BY <1>1
<1>4. RandomAccessInv(n, p, e)
  <2>1. PICK b \in Decoded(n) :
           /\ Begins(n, b) /\ b <= p /\ NoEOS(n, b, p)
           /\ e.pocRandomAccess = IF n[b].type = "IDR" THEN -MAX_INT ELSE n[b].poc
    OBVIOUS
  <2>2. b \in Nat
    BY <1>1 DEF Decoded, Decodable
  <2>3. NoEOS(n, b, p - 1)
    BY <1>2, <1>3, <2>1, <2>2
  <2> QED
    BY <2>1, <2>3 DEF RandomAccessInv
<1>5. PrevInv(n, p, e)
  BY <1>2, <1>3 DEF PrevInv
<1>6. Tid0Inv(n, p, e)
  <2>1. CASE Counts(n[p])
    <3>1. \A i \in SlicesIn(n) : ~(p < i /\ i < p)
      BY <1>1
    <3> QED
      BY <1>0, <1>3, <2>1, <3>1 DEF Tid0Inv
  <2>2. CASE ~Counts(n[p])
    BY <1>0, <2>2 DEF Registers, Tid0Inv
  <2> QED
    BY <2>1, <2>2
<1>7. IRAPInv(n, p, e)
  BY <1>0 DEF Registers, IRAPInv
<1>8. RASLInv(n, p, e)
  BY <1>0 DEF Registers, RASLInv, IRAPTypes
<1> QED
  BY <1>0, <1>4, <1>5, <1>6, <1>7, <1>8 DEF Registers

(* After a slice that is decoded. *)
LEMMA RegistersDecoded ==
  ASSUME NEW n, NEW p \in Nat, NEW d, AtSlice(n, p, d), p \in Decoded(n),
         NEW e, ~e.firstSliceInSequence,
         \E b \in Decoded(n) :
           /\ Begins(n, b) /\ b <= p /\ NoEOS(n, b, p)
           /\ e.pocRandomAccess = IF n[b].type = "IDR" THEN -MAX_INT ELSE n[b].poc,
         e.prevPOC = IF n[p].dep THEN d.prevPOC ELSE n[p].poc,
         e.prevTid0POC = IF Counts(n[p]) THEN n[p].poc ELSE d.prevTid0POC,
         IF n[p].dep \/ n[p].type \notin IRAPTypes
         THEN e.associatedIRAPType = d.associatedIRAPType /\ e.pocCRA = d.pocCRA
         ELSE e.associatedIRAPType = n[p].type /\ e.pocCRA = n[p].poc,
         ~e.prevSliceSkipped, e.slice.poc = n[p].poc,
         e.slice.st = IF Restarts(n[p]) THEN <<>> ELSE n[p].st,
         e.craNoRaslOutputFlag = IF n[p].type = "CRA" THEN d.firstSliceInSequence ELSE d.craNoRaslOutputFlag
  PROVE  Registers(n, p + 1, e)
<1>0. /\ Conforming(n, settings) /\ Registers(n, p, d) /\ p \in SlicesIn(n)
  BY DEF AtSlice
<1>1. p \in Nat /\ n[p].type # "EOS" /\ \A j \in SlicesIn(n) : j \in Nat
  BY <1>0, ConformingNALs
<1>2. /\ \A j \in Nat : j <= p => (NoEOS(n, j, p + 1 - 1) <=> NoEOS(n, j, p - 1))
      /\ NoEOS(n, p, p + 1 - 1)
  BY <1>1, NoEOSNext
<1>3. /\ \A j \in Nat : /\ j < p + 1 <=> j < p \/ j = p
                        /\ j <= p => j <= p + 1
                        /\ j < p => j <= p
      /\ p + 1 - 1 = p /\ p < p + 1 /\ p <= p + 1
      /\ \A j \in Nat : ~(p < j /\ j < p + 1)
  BY <1>1
<1>4. ~NoneSince(n, p + 1)
  BY <1>0, <1>2, <1>3 DEF NoneSince
<1>5. RandomAccessInv(n, p + 1, e)
  <2>1. PICK b \in Decoded(n) :
           /\ Begins(n, b) /\ b <= p /\ NoEOS(n, b, p)
           /\ e.pocRandomAccess = IF n[b].type = "IDR" THEN -MAX_INT ELSE n[b].poc
    OBVIOUS
  <2>2. b \in Nat
    BY <1>1 DEF Decoded, Decodable
  <2>3. b <= p + 1 /\ NoEOS(n, b, p + 1 - 1)
    BY <1>3, <2>1, <2>2
  <2> QED
    BY <2>1, <2>3 DEF RandomAccessInv
<1>6. PrevInv(n, p + 1, e)
  <2>1. CASE ~n[p].dep
    BY <1>2, <1>3, <2>1 DEF PrevInv
  <2>2. CASE n[p].dep /\ d.prevPOC # MAX_INT
    <3>1. PICK k \in Decoded(n) : k <= p /\ NoEOS(n, k, p - 1) /\ d.prevPOC = n[k].poc
      BY <1>0, <2>2 DEF Registers, PrevInv
    <3>2. k \in Nat
      BY <1>1 DEF Decoded, Decodable
    <3>3. k <= p + 1 /\ NoEOS(n, k, p + 1 - 1)
      BY <1>2, <1>3, <3>1, <3>2
    <3> QED
      BY <2>2, <3>1, <3>3 DEF PrevInv
  <2> QED
    BY <2>1, <2>2 DEF PrevInv
<1>7. Tid0Inv(n, p + 1, e)
  <2>1. CASE Counts(n[p])
    BY <1>0, <1>1, <1>3, <2>1 DEF Tid0Inv
  <2>2. CASE ~Counts(n[p])
    <3>1. ~NoneSince(n, p)
      BY <1>0, <2>2, NextBegins, BeginsIsDecodable
    <3>2. PICK a \in SlicesIn(n) :
          /\ a <= p /\ Counts(n[a]) /\ d.prevTid0POC = n[a].poc
          /\ \A i \in SlicesIn(n) : a < i /\ i < p => ~Counts(n[i])
      BY <1>0, <3>1 DEF Registers, Tid0Inv
    <3>3. \A i \in SlicesIn(n) : a < i /\ i < p + 1 => ~Counts(n[i])
      BY <1>1, <1>3, <2>2, <3>2
    <3>4. a <= p + 1
      BY <1>1, <1>3, <3>2
    <3> QED
      BY <2>2, <3>2, <3>3, <3>4 DEF Tid0Inv
  <2> QED
    BY <2>1, <2>2
<1>8. IRAPInv(n, p + 1, e)
  <2>1. CASE n[p].type \notin IRAPTypes
    <3>1. ~NoneSince(n, p)
      BY <1>0, <2>1, SomeSince
    <3>2. PICK a \in SlicesIn(n) : /\ LastIRAP(n, a, p) /\ NoEOS(n, a, p - 1)
                                   /\ d.associatedIRAPType = n[a].type /\ d.pocCRA = n[a].poc
      BY <1>0, <3>1 DEF Registers, IRAPInv
    <3>3. LastIRAP(n, a, p + 1)
      BY <1>1, <1>3, <2>1, <3>2 DEF LastIRAP
    <3>4. NoEOS(n, a, p + 1 - 1)
      BY <1>1, <1>2, <1>3, <3>2 DEF LastIRAP
    <3> QED
      BY <2>1, <3>2, <3>3, <3>4 DEF IRAPInv
  <2>2. CASE n[p].type \in IRAPTypes
    <3>1. LastIRAP(n, p, p + 1)
      BY <1>0, <1>1, <1>3, <2>2 DEF LastIRAP
    <3>2. e.associatedIRAPType = n[p].type /\ e.pocCRA = n[p].poc
      <4>1. CASE ~n[p].dep
        BY <2>2, <4>1
      <4>2. CASE n[p].dep
        <5>1. ~n[p].first
          BY <1>0, <4>2, FirstSlice
        <5>2. ~d.firstSliceInSequence
          BY <5>1, DependentSlice
        <5>3. ~NoneSince(n, p)
          BY <1>0, <5>2 DEF Registers
        <5>4. PICK a \in SlicesIn(n) : /\ LastIRAP(n, a, p) /\ NoEOS(n, a, p - 1)
                                       /\ d.associatedIRAPType = n[a].type /\ d.pocCRA = n[a].poc
          BY <1>0, <5>3 DEF Registers, IRAPInv
        <5>5. PICK f \in SlicesIn(n) : f <= p /\ n[f].pic = n[p].pic /\ n[f].first
          BY <1>0, FirstSlice
        <5>6. f \in Nat /\ a \in Nat /\ f < p /\ a < p
          BY <1>1, <5>1, <5>4, <5>5 DEF LastIRAP
        <5>7. n[f].type \in IRAPTypes
          BY <1>0, <2>2, <5>5, SlicesAgree
        <5>8. f <= a
          BY <5>4, <5>6, <5>7 DEF LastIRAP
        <5>9. a <= p
          BY <1>1, <5>6
        <5>10. n[a].pic = n[p].pic
          BY ZenonT(40), <1>0, <5>5, <5>8, <5>9, SlicesAgree
        <5>11. n[a].type = n[p].type /\ n[a].poc = n[p].poc
          BY <1>0, <5>10, SlicesAgree
        <5> QED
          BY <4>2, <5>4, <5>11
      <4> QED
        BY <4>1, <4>2
    <3> QED
      BY <1>0, <1>2, <3>1, <3>2 DEF IRAPInv
  <2> QED
    BY <2>1, <2>2
<1>9. SliceInv(n, p + 1, e)
  <2>1. ASSUME NEW k \in SlicesIn(n), k < p + 1, \A i \in SlicesIn(n) : ~(k < i /\ i < p + 1)
        PROVE  k = p
    BY <1>0, <1>1, <1>3, <2>1
  <2> QED
    BY <2>1 DEF SliceInv
<1>10. RASLInv(n, p + 1, e)
  <2>1. SUFFICES ASSUME NEW a \in SlicesIn(n), LastIRAP(n, a, p + 1), NoEOS(n, a, p + 1 - 1),
                        n[a].type = "CRA", ~Begins(n, a)
                 PROVE  ~e.craNoRaslOutputFlag
    BY DEF RASLInv
  <2>2. CASE a = p
    <3>1. ~NoneSince(n, p)
      BY <1>0, <2>1, <2>2, NextBegins
    <3>2. ~d.firstSliceInSequence
      BY <1>0, <3>1 DEF Registers
    <3> QED
      BY <2>1, <2>2, <3>2
  <2>3. CASE a # p
    <3>1. a < p
      BY <1>1, <1>3, <2>1, <2>3 DEF LastIRAP
    <3>2. n[p].type \notin IRAPTypes
      BY <1>0, <1>3, <2>1, <3>1 DEF LastIRAP
    <3>3. LastIRAP(n, a, p) /\ NoEOS(n, a, p - 1)
      BY <1>1, <1>2, <1>3, <2>1, <3>1 DEF LastIRAP
    <3>4. ~d.craNoRaslOutputFlag
      BY <1>0, <2>1, <3>2, <3>3 DEF Registers, RASLInv
    <3> QED
      BY <3>2, <3>4 DEF IRAPTypes
  <2> QED
    BY <2>2, <2>3
<1> QED
  BY <1>4, <1>5, <1>6, <1>7, <1>8, <1>9, <1>10 DEF Registers
=============================================================================
