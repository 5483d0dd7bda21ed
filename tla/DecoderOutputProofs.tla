--------------------------- MODULE DecoderOutputProofs ---------------------------
(***************************************************************************)
(* The theorems about what the application writes: the pictures in output  *)
(* order, no later than the limits of the stream demand, from a buffer that*)
(* grows by one picture at most.  They hold for the bitstreams that, in    *)
(* addition, observe their limits (OutputConforming).  The key is that     *)
(* xWriteOutput writes nothing that a picture to come precedes: all that   *)
(* waits behind such a picture would exceed a limit (NotTooMany), and what *)
(* is written are the first pictures that wait, no more than must be       *)
(* (BumpedFacts).  OutputState is the inductive invariant.                 *)
(*                                                                         *)
(* The second half is about the completeness of output, for the bitstreams *)
(* whose pictures and sequences are numbered (PicturesLabelled) and which  *)
(* do not end with a picture alone (LastNotAlone).  It keeps an Account:   *)
(* every picture begun that is to come out is either written, or discarded,*)
(* or in the list and due.  CountState is the inductive invariant.         *)
(***************************************************************************)
EXTENDS DecoderProofs
LOCAL INSTANCE SequencesExt
LOCAL INSTANCE FiniteSetsExt

-----------------------------------------------------------------------------
(* The order of the list.                                                  *)

(* No two pictures have the same POC, and those that wait are in output    *)
(* order.                                                                  *)
ListOrdered(l) ==
  \A i, j \in DOMAIN l : i < j =>
    l[i].poc # l[j].poc /\ (l[i].output /\ l[j].output => l[i].poc < l[j].poc)

(* o is what l has at the places C, in order.                              *)
PutInOrder(o, l, C) ==
  /\ \A i \in C : \E k \in DOMAIN o : o[k] = l[i]
  /\ \A k \in DOMAIN o : \E i \in C : o[k] = l[i]
  /\ \A j, k \in DOMAIN o : j < k => \E a, b \in C : a < b /\ o[j] = l[a] /\ o[k] = l[b]
  /\ o = <<>> <=> C = {}
  /\ C # {} => \E i \in C : Last(o) = l[i] /\ \A j \in C : j <= i

(* What is put in order: all of it, in the order of the list.              *)
LEMMA InOrderFacts ==
  ASSUME NEW S, NEW l \in Seq(S), NEW C \in SUBSET DOMAIN l
  PROVE  InOrder(l, C) \in Seq(S) /\ PutInOrder(InOrder(l, C), l, C)
<1> DEFINE n == Cardinality(C)
           Upto(i) == {j \in C : j <= i}
           e == [k \in 1..n |-> CHOOSE i \in C : Cardinality(Upto(i)) = k]
           f == [k \in 1..n |-> l[e[k]]]
<1>1. C \in SUBSET (1..Len(l)) /\ Len(l) \in Nat /\ DOMAIN l = 1..Len(l)
  OBVIOUS
<1>2. IsFiniteSet(C) /\ n \in Nat /\ \A i \in C : i \in Nat
  <2>1. IsFiniteSet(1..Len(l))
    BY <1>1, FS_Interval
  <2> QED
    BY <1>1, <2>1, Fewer
<1>3. \A k \in 1..n : e[k] \in C /\ Cardinality(Upto(e[k])) = k
  <2>1. \A k \in 1..n : \E i \in C : Cardinality(Upto(i)) = k
    BY <1>1, Places
  <2> HIDE DEF Upto
  <2> QED
    BY <2>1
<1>4. \A i \in C : /\ Cardinality(Upto(i)) \in 1..n
                   /\ \A j \in C : j < i => Cardinality(Upto(j)) < Cardinality(Upto(i))
  <2> TAKE i \in C
  <2>1. Upto(i) \in SUBSET C /\ i \in Upto(i)
    BY <1>2
  <2>2. IsFiniteSet(Upto(i)) /\ Cardinality(Upto(i)) \in Nat /\ Cardinality(Upto(i)) <= n
        /\ Cardinality(Upto(i)) # 0
    <3> HIDE DEF Upto
    <3> QED
      BY <1>2, <2>1, Fewer, FS_EmptySet
  <2>3. ASSUME NEW j \in C, j < i PROVE Cardinality(Upto(j)) < Cardinality(Upto(i))
    <3>1. Upto(j) \in SUBSET Upto(i) /\ i \notin Upto(j)
      BY <1>2, <2>3
    <3> HIDE DEF Upto
    <3> QED
      BY <2>1, <2>2, <3>1, Fewer
  <2> HIDE DEF Upto
  <2> QED
    BY <1>2, <2>2, <2>3
<1> HIDE DEF e, Upto
<1>5. \A i \in C : \E k \in 1..n : e[k] = i
  <2> TAKE i \in C
  <2>1. PICK k \in 1..n : k = Cardinality(Upto(i))
    BY <1>4
  <2>2. e[k] \in C /\ Cardinality(Upto(e[k])) = k
    BY <1>3
  <2>3. e[k] \in Nat /\ i \in Nat /\ k \in Nat
    BY <1>2, <2>2
  <2>4. ~(e[k] < i) /\ ~(i < e[k])
    BY <1>4, <2>1, <2>2, <2>3
  <2> QED
    BY <2>3, <2>4
<1>6. \A j, k \in 1..n : j < k => e[j] < e[k]
  <2> SUFFICES ASSUME NEW j \in 1..n, NEW k \in 1..n, j < k, ~(e[j] < e[k]) PROVE FALSE
    OBVIOUS
  <2>1. /\ e[j] \in C /\ e[k] \in C /\ e[j] \in Nat /\ e[k] \in Nat
        /\ Cardinality(Upto(e[j])) = j /\ Cardinality(Upto(e[k])) = k /\ j \in Nat /\ k \in Nat
    BY <1>2, <1>3
  <2>2. e[j] = e[k] \/ e[k] < e[j]
    BY <2>1
  <2> QED
    BY <1>4, <2>1, <2>2
<1>7. InOrder(l, C) = <<>> \o f
  BY DEF InOrder, e, Upto
<1>8. f \in [1..n -> S] /\ \A k \in 1..n : f[k] = l[e[k]]
  BY <1>3
<1> HIDE DEF f, n
<1>9. InOrder(l, C) = f /\ f \in Seq(S) /\ Len(f) = n /\ DOMAIN f = 1..n
  BY <1>2, <1>7, <1>8, ListOf
<1>10. f = <<>> <=> C = {}
  <2>1. f = <<>> <=> n = 0
    BY <1>2, <1>9
  <2> QED
    BY <1>2, <2>1, FS_EmptySet DEF n
<1>11. ASSUME C # {} PROVE \E i \in C : Last(f) = l[i] /\ \A j \in C : j <= i
  <2>1. n \in 1..n
    BY <1>2, <1>9, <1>10, <1>11
  <2>2. Last(f) = l[e[n]] /\ e[n] \in C
    BY <1>3, <1>8, <1>9, <2>1 DEF Last
  <2>3. \A j \in C : j <= e[n]
    <3> TAKE j \in C
    <3>1. PICK k \in 1..n : e[k] = j
      BY <1>5
    <3>2. k = n \/ k < n
      BY <1>2
    <3>3. j \in Nat /\ e[n] \in Nat
      BY <1>2, <2>2
    <3> QED
      BY <1>6, <2>1, <3>1, <3>2, <3>3
  <2> QED
    BY <2>2, <2>3
<1>12. \A j, k \in 1..n : j < k => \E a, b \in C : a < b /\ f[j] = l[a] /\ f[k] = l[b]
  BY <1>3, <1>6, <1>8
<1>13. \A i \in C : \E k \in 1..n : f[k] = l[i]
  BY <1>5, <1>8
<1>14. \A k \in 1..n : \E i \in C : f[k] = l[i]
  BY <1>3, <1>8
<1> HIDE DEF InOrder
<1>15. PutInOrder(f, l, C)
  <2>1. \A i \in C : \E k \in DOMAIN f : f[k] = l[i]
    BY <1>9, <1>13
  <2>2. \A k \in DOMAIN f : \E i \in C : f[k] = l[i]
    BY <1>9, <1>14
  <2>3. \A j, k \in DOMAIN f : j < k => \E a, b \in C : a < b /\ f[j] = l[a] /\ f[k] = l[b]
    BY <1>9, <1>12
  <2> QED
    BY <1>10, <1>11, <2>1, <2>2, <2>3 DEF PutInOrder
<1>16. InOrder(l, C) = f
  BY <1>9
<1> QED
  BY <1>9, <1>15, <1>16

LEMMA InOrderIs ==
  ASSUME NEW l \in Seq(Pictures), NEW C \in SUBSET DOMAIN l
  PROVE  InOrder(l, C) \in Seq(Pictures) /\ PutInOrder(InOrder(l, C), l, C)
  BY InOrderFacts

(* Sorting puts pictures with different POCs in output order.              *)
LEMMA SortOrders ==
  ASSUME NEW l \in Seq(Pictures), \A i, j \in DOMAIN l : i < j => l[i].poc # l[j].poc
  PROVE  ListOrdered(SortPicList(l))
<1> DEFINE s == SortPicList(l)
<1>1. /\ DOMAIN s = DOMAIN l
      /\ \A j, k \in DOMAIN l : j < k =>
           \E h, i \in DOMAIN l : h # i /\ ~Before(l, i, h) /\ s[j] = l[h] /\ s[k] = l[i]
  BY SortKeepsPictures
<1> HIDE DEF s
<1>2. \A i \in DOMAIN l : l[i].poc \in Int /\ i \in Nat
  <2>1. \A i \in DOMAIN l : l[i] \in Pictures
    BY PicturesIn
  <2>2. \A i \in DOMAIN l : i \in Nat
    BY PicturesIn
  <2> QED
    BY <2>1, <2>2 DEF Pictures
<1>3. ASSUME NEW j \in DOMAIN l, NEW k \in DOMAIN l, j < k PROVE s[j].poc < s[k].poc
  <2>1. PICK h \in DOMAIN l, i \in DOMAIN l : h # i /\ ~Before(l, i, h) /\ s[j] = l[h] /\ s[k] = l[i]
    BY <1>1, <1>3
  <2>2. l[h].poc # l[i].poc
    BY <1>2, <2>1
  <2>3. ~(l[i].poc < l[h].poc)
    BY <2>1 DEF Before
  <2> QED
    BY <1>2, <2>1, <2>2, <2>3
<1>4. \A j \in DOMAIN l : s[j].poc \in Int
  <2>1. s \in Seq(Pictures)
    BY SortKeepsPictures DEF s
  <2> QED
    BY <1>1, <2>1, PicturesIn DEF Pictures
<1>5. \A j, k \in DOMAIN l : j < k => s[j].poc < s[k].poc /\ s[j].poc # s[k].poc
  BY <1>3, <1>4
<1> QED
  BY <1>1, <1>5 DEF ListOrdered, s

(* The list after pictures were written, and after some were discarded.    *)
LEMMA ReleaseIs ==
  ASSUME NEW l \in Seq(Pictures), NEW C
  PROVE  /\ DOMAIN Release(l, C) = DOMAIN l
         /\ \A i \in DOMAIN l : Release(l, C)[i] = IF i \in C THEN AfterWriting(l[i]) ELSE l[i]
<1> DEFINE g == [i \in DOMAIN l |-> IF i \in C THEN AfterWriting(l[i]) ELSE l[i]]
<1>1. DOMAIN l = 1..Len(l) /\ Len(l) \in Nat /\ \A i \in DOMAIN l : l[i] \in Pictures
  BY PicturesIn
<1>2. g \in [1..Len(l) -> Pictures]
  BY <1>1, PictureChanges
<1>3. Release(l, C) = <<>> \o g
  BY DEF Release
<1>4. \A i \in DOMAIN l : g[i] = IF i \in C THEN AfterWriting(l[i]) ELSE l[i]
  OBVIOUS
<1>5. DOMAIN g = DOMAIN l
  OBVIOUS
<1> HIDE DEF g
<1> QED
  BY <1>1, <1>2, <1>3, <1>4, <1>5, ListOf

LEMMA KeepOnlyIs ==
  ASSUME NEW l \in Seq(Pictures), NEW poc
  PROVE  /\ DOMAIN KeepOnly(l, poc) = DOMAIN l
         /\ \A i \in DOMAIN l : KeepOnly(l, poc)[i] = IF l[i].poc # poc THEN NotOutput(l[i]) ELSE l[i]
<1> DEFINE g == [i \in DOMAIN l |-> IF l[i].poc # poc THEN NotOutput(l[i]) ELSE l[i]]
<1>1. DOMAIN l = 1..Len(l) /\ Len(l) \in Nat /\ \A i \in DOMAIN l : l[i] \in Pictures
  BY PicturesIn
<1>2. g \in [1..Len(l) -> Pictures]
  BY <1>1, PictureChanges
<1>3. KeepOnly(l, poc) = <<>> \o g
  BY DEF KeepOnly, MapPictures
<1>4. \A i \in DOMAIN l : g[i] = IF l[i].poc # poc THEN NotOutput(l[i]) ELSE l[i]
  OBVIOUS
<1>5. DOMAIN g = DOMAIN l
  OBVIOUS
<1> HIDE DEF g
<1> QED
  BY <1>1, <1>2, <1>3, <1>4, <1>5, ListOf

-----------------------------------------------------------------------------
(* What is written when too many pictures wait or are held.                *)

ReferencedIn(l) == {i \in DOMAIN l : l[i].referenced}
WaitingFrom(l, i) == {j \in Waiting(l) : i <= j}
WaitingAbove(l, poc) == {j \in Waiting(l) : l[j].poc > poc}

TooMany(waiting, held) ==
  \/ Cardinality(waiting) > NumReorderPics[SubLayer]
  \/ Cardinality(held) > MaxDecPicBuffering[SubLayer]

(* The limits are numbers.                                                 *)
LEMMA LimitsAreNumbers ==
  ASSUME ValidSettings(settings)
  PROVE  /\ SubLayer \in DOMAIN MaxDecPicBuffering
         /\ NumReorderPics[SubLayer] \in Nat /\ MaxDecPicBuffering[SubLayer] \in Nat \ {0}
<1> DEFINE c == Cardinality(DOMAIN settings.maxDecPicBuffering)
           t == settings.maxTemporalLayer
           sub == IF t = -1 \/ t >= c THEN c - 1 ELSE t
<1>1. /\ DOMAIN settings.maxDecPicBuffering = 0..(c - 1) /\ c \in Nat \ {0} /\ t \in Nat \cup {-1}
      /\ \A u \in DOMAIN settings.maxDecPicBuffering :
           settings.maxDecPicBuffering[u] \in Nat \ {0} /\ settings.numReorderPics[u] \in Nat
  BY DEF ValidSettings
<1>2. SubLayer = sub
  BY DEF SubLayer, TargetLayer
<1> HIDE DEF c, t
<1>3. sub \in 0..(c - 1)
  BY <1>1
<1> HIDE DEF sub
<1> QED
  BY <1>1, <1>2, <1>3 DEF MaxDecPicBuffering, NumReorderPics

(* A part of the places of a list.                                         *)
LEMMA PlacesFinite ==
  ASSUME NEW l \in Seq(Pictures), NEW A \in SUBSET DOMAIN l
  PROVE  IsFiniteSet(A) /\ Cardinality(A) \in Nat
<1>1. DOMAIN l = 1..Len(l) /\ Len(l) \in Nat
  BY PicturesIn
<1>2. IsFiniteSet(1..Len(l))
  BY <1>1, FS_Interval
<1> QED
  BY <1>1, <1>2, Fewer

(* A picture is written when too many would wait, or be held, with it and  *)
(* those after it in the list.                                             *)
LEMMA BumpedIs ==
  ASSUME NEW l \in Seq(Pictures), ListOrdered(l), NEW last \in Int, ValidSettings(settings),
         \A i \in Waiting(l) : last < l[i].poc
  PROVE  Bumped(l, last)
           = {i \in Waiting(l) : TooMany(WaitingFrom(l, i), ReferencedIn(l) \cup WaitingFrom(l, i))}
<1> DEFINE W == Waiting(l)
           R == ReferencedIn(l)
           before(i) == {j \in W : j < i}
           freed(i) == {j \in before(i) : ~l[j].referenced}
           waiting == {i \in DOMAIN l : l[i].output /\ l[i].poc > last}
           held == {i \in DOMAIN l : l[i].referenced} \cup waiting
           next == {i \in waiting : \A j \in waiting : j < i => l[j].poc < l[i].poc}
<1>0. \A i \in DOMAIN l : l[i].poc \in Int /\ i \in Nat
  <2>1. \A i \in DOMAIN l : l[i] \in Pictures
    BY PicturesIn
  <2>2. \A i \in DOMAIN l : i \in Nat
    BY PicturesIn
  <2> QED
    BY <2>1, <2>2 DEF Pictures
<1>1. waiting = W
  BY <1>0 DEF Waiting
<1>2. next = W
  <2>1. \A i, j \in W : j < i => l[j].poc < l[i].poc
    BY DEF Waiting, ListOrdered
  <2> QED
    BY <1>1, <2>1
<1>3. held = R \cup W
  BY <1>1 DEF ReferencedIn
<1> DEFINE bump(i) == \/ ~MayWait(Cardinality(waiting) - Cardinality({j \in next : j < i}))
                      \/ Cardinality(held) - Cardinality({j \in {j \in next : j < i} : ~l[j].referenced})
                           > MaxDecPicBuffering[SubLayer]
<1>4. Bumped(l, last) = {i \in next : bump(i)}
  BY DEF Bumped
<1>5. Bumped(l, last)
        = {i \in W : \/ ~MayWait(Cardinality(W) - Cardinality(before(i)))
                     \/ Cardinality(R \cup W) - Cardinality(freed(i)) > MaxDecPicBuffering[SubLayer]}
  <2> HIDE DEF waiting, next, held, W, R
  <2> QED
    BY <1>1, <1>2, <1>3, <1>4
<1>6. ASSUME NEW i \in W
      PROVE  /\ Cardinality(W) - Cardinality(before(i)) = Cardinality(WaitingFrom(l, i))
             /\ Cardinality(R \cup W) - Cardinality(freed(i)) = Cardinality(R \cup WaitingFrom(l, i))
  <2>1. W \in SUBSET DOMAIN l /\ R \in SUBSET DOMAIN l /\ i \in Nat /\ \A j \in W : j \in Nat
    BY <1>0 DEF Waiting, ReferencedIn
  <2>2. IsFiniteSet(W) /\ IsFiniteSet(R \cup W)
    BY <2>1, PlacesFinite
  <2>3. WaitingFrom(l, i) = W \ before(i) /\ before(i) \in SUBSET W
    BY <2>1 DEF WaitingFrom
  <2>4. R \cup WaitingFrom(l, i) = (R \cup W) \ freed(i) /\ freed(i) \in SUBSET (R \cup W)
    BY <2>1 DEF WaitingFrom, ReferencedIn, Waiting
  <2> HIDE DEF W, R, before, freed
  <2>5. /\ Cardinality(W \ before(i)) = Cardinality(W) - Cardinality(W \cap before(i))
        /\ Cardinality((R \cup W) \ freed(i)) = Cardinality(R \cup W) - Cardinality((R \cup W) \cap freed(i))
    BY <2>2, FS_Difference
  <2>6. W \cap before(i) = before(i) /\ (R \cup W) \cap freed(i) = freed(i)
    BY <2>3, <2>4
  <2> QED
    BY <2>3, <2>4, <2>5, <2>6
<1>7. \A i \in W : /\ Cardinality(WaitingFrom(l, i)) \in Nat
                   /\ Cardinality(R \cup WaitingFrom(l, i)) \in Nat
  <2> TAKE i \in W
  <2>1. WaitingFrom(l, i) \in SUBSET DOMAIN l /\ R \cup WaitingFrom(l, i) \in SUBSET DOMAIN l
    BY DEF WaitingFrom, ReferencedIn, Waiting
  <2> QED
    BY <2>1, PlacesFinite
<1>8. \A x \in Nat : ~MayWait(x) <=> x > NumReorderPics[SubLayer]
  BY LimitsAreNumbers DEF MayWait
<1> HIDE DEF W, R, before, freed
<1>9. \A i \in W :
        TooMany(WaitingFrom(l, i), R \cup WaitingFrom(l, i)) <=>
          \/ ~MayWait(Cardinality(W) - Cardinality(before(i)))
          \/ Cardinality(R \cup W) - Cardinality(freed(i)) > MaxDecPicBuffering[SubLayer]
  BY <1>6, <1>7, <1>8 DEF TooMany
<1> QED
  BY <1>5, <1>9 DEF W, R

(* More pictures are no fewer than too many.                               *)
LEMMA TooManyGrows ==
  ASSUME NEW l \in Seq(Pictures), ValidSettings(settings),
         NEW B \in SUBSET DOMAIN l, NEW D \in SUBSET DOMAIN l, NEW A \in SUBSET B, NEW C \in SUBSET D,
         TooMany(A, C)
  PROVE  TooMany(B, D)
<1>1. IsFiniteSet(B) /\ IsFiniteSet(D)
  BY PlacesFinite
<1>2. /\ Cardinality(A) \in Nat /\ Cardinality(B) \in Nat /\ Cardinality(A) <= Cardinality(B)
      /\ Cardinality(C) \in Nat /\ Cardinality(D) \in Nat /\ Cardinality(C) <= Cardinality(D)
  BY <1>1, Fewer
<1>3. NumReorderPics[SubLayer] \in Nat /\ MaxDecPicBuffering[SubLayer] \in Nat
  BY LimitsAreNumbers
<1>4. \A a, b, r \in Nat : a <= b /\ a > r => b > r
  OBVIOUS
<1> QED
  BY <1>2, <1>3, <1>4 DEF TooMany

(* What xWriteOutput writes: the first pictures that wait, none that may   *)
(* have to follow one that is still to come, and all that are too many.    *)
BumpedRight(l, C) ==
  /\ C \in SUBSET Waiting(l)
  /\ \A i \in C, j \in Waiting(l) : j < i => j \in C
  /\ \A t \in Int :
       /\ \A i \in Waiting(l) : l[i].poc # t
       /\ ~TooMany(WaitingAbove(l, t), ReferencedIn(l) \cup WaitingAbove(l, t))
       => \A i \in C : l[i].poc < t
  /\ ~TooMany({}, ReferencedIn(l)) =>
       ~TooMany(Waiting(l) \ C, ReferencedIn(l) \cup (Waiting(l) \ C))

LEMMA BumpedFacts ==
  ASSUME NEW l \in Seq(Pictures), ListOrdered(l), NEW last \in Int, ValidSettings(settings),
         \A i \in Waiting(l) : last < l[i].poc
  PROVE  BumpedRight(l, Bumped(l, last))
<1> DEFINE C == Bumped(l, last)
<1> DEFINE W == Waiting(l)
           R == ReferencedIn(l)
           From(i) == WaitingFrom(l, i)
<1>0. \A i \in DOMAIN l : l[i].poc \in Int /\ i \in Nat
  <2>1. \A i \in DOMAIN l : l[i] \in Pictures
    BY PicturesIn
  <2>2. \A i \in DOMAIN l : i \in Nat
    BY PicturesIn
  <2> QED
    BY <2>1, <2>2 DEF Pictures
<1>1. C = {i \in W : TooMany(From(i), R \cup From(i))}
  BY BumpedIs
<1> HIDE DEF C
<1>2. /\ W \in SUBSET DOMAIN l /\ R \in SUBSET DOMAIN l
      /\ \A i \in W : From(i) \in SUBSET W /\ i \in From(i)
  BY <1>0 DEF Waiting, ReferencedIn, WaitingFrom
<1>3. ASSUME NEW i \in C, NEW j \in W, j < i PROVE j \in C
  <2>1. From(i) \in SUBSET From(j)
    <3>1. i \in W /\ \A h \in W : h \in Nat
      BY <1>0, <1>1, <1>2
    <3> QED
      BY <1>3, <3>1 DEF WaitingFrom
  <2>2. /\ From(i) \in SUBSET From(j) /\ R \cup From(i) \in SUBSET (R \cup From(j))
        /\ From(j) \in SUBSET DOMAIN l /\ R \cup From(j) \in SUBSET DOMAIN l
    BY <1>2, <2>1
  <2>3. TooMany(From(i), R \cup From(i))
    BY <1>1
  <2> HIDE DEF W, R, From
  <2>4. TooMany(From(j), R \cup From(j))
    BY <2>2, <2>3, TooManyGrows
  <2> QED
    BY <1>1, <2>4
<1>4. ASSUME NEW t \in Int, \A i \in W : l[i].poc # t,
             ~TooMany(WaitingAbove(l, t), R \cup WaitingAbove(l, t)), NEW i \in C
      PROVE  l[i].poc < t
  <2> SUFFICES ASSUME ~(l[i].poc < t) PROVE FALSE
    OBVIOUS
  <2>1. i \in W /\ l[i].poc \in Int /\ l[i].poc > t
    BY <1>0, <1>1, <1>2, <1>4
  <2>2. From(i) \in SUBSET WaitingAbove(l, t)
    <3>1. ASSUME NEW j \in From(i) PROVE l[j].poc > t
      <4>1. j \in W /\ i <= j /\ j \in Nat /\ i \in Nat /\ j \in DOMAIN l /\ i \in DOMAIN l
        BY <1>0, <1>2, <2>1 DEF WaitingFrom
      <4>2. j = i \/ i < j
        BY <4>1
      <4>3. i < j => l[i].poc < l[j].poc
        BY <2>1, <4>1 DEF ListOrdered, Waiting
      <4> QED
        BY <1>0, <2>1, <4>1, <4>2, <4>3
    <3> QED
      BY <1>2, <2>1, <3>1 DEF WaitingAbove
  <2>3. WaitingAbove(l, t) \in SUBSET DOMAIN l
    BY DEF WaitingAbove, Waiting
  <2>4. TooMany(From(i), R \cup From(i))
    BY <1>1
  <2>5. /\ R \cup From(i) \in SUBSET (R \cup WaitingAbove(l, t))
        /\ R \cup WaitingAbove(l, t) \in SUBSET DOMAIN l
    BY <1>2, <2>2, <2>3
  <2> HIDE DEF W, R, From
  <2>6. TooMany(WaitingAbove(l, t), R \cup WaitingAbove(l, t))
    BY <2>2, <2>3, <2>4, <2>5, TooManyGrows
  <2> QED
    BY <1>4, <2>6
<1>5. ASSUME ~TooMany({}, R) PROVE ~TooMany(W \ C, R \cup (W \ C))
  <2>1. CASE W \ C = {}
    <3>1. R \cup (W \ C) = R
      BY <2>1
    <3> HIDE DEF W, R
    <3> QED
      BY <1>5, <2>1, <3>1
  <2>2. CASE W \ C # {}
    <3>1. W \ C \in SUBSET (1..Len(l)) /\ Len(l) \in Nat
      BY <1>2, PicturesIn
    <3>2. PICK i \in W \ C : \A j \in W \ C : i <= j
      <4> HIDE DEF W
      <4> QED
        BY <2>2, <3>1, Extremes
    <3>3. From(i) = W \ C
      <4>1. \A j \in W : j \in Nat
        BY <1>0, <1>2
      <4>2. ASSUME NEW j \in C, i <= j PROVE FALSE
        <5>1. j \in W /\ i \in W /\ i # j
          BY <1>1, <3>2, <4>2
        <5>2. i < j
          BY <4>1, <4>2, <5>1
        <5> QED
          BY <1>3, <3>2, <4>2, <5>1, <5>2
      <4> QED
        BY <3>2, <4>2 DEF WaitingFrom
    <3> HIDE DEF W, R, From
    <3>4. ~TooMany(From(i), R \cup From(i))
      BY <1>1, <3>2
    <3> QED
      BY <3>3, <3>4
  <2> QED
    BY <2>1, <2>2
<1>6. C \in SUBSET W
  BY <1>1
<1> HIDE DEF R, W, From
<1>7. BumpedRight(l, C)
  BY <1>3, <1>4, <1>5, <1>6 DEF BumpedRight, R, W
<1> QED
  BY <1>7 DEF C

-----------------------------------------------------------------------------
(* The first slices of the pictures decoded.                               *)

Orderly(n) == ValidSettings(settings) /\ Conforming(n, settings) /\ OutputConforming(n, settings)

Firsts(n) == FirstSlices(n, settings.maxTemporalLayer)
Heads(n, p) == {k \in Firsts(n) : k < p}

InOutputOrder(n, h, k) ==
  n[h].cvs < n[k].cvs \/ (n[h].cvs = n[k].cvs /\ n[h].poc < n[k].poc)

(* No IDR or BLA picture was decoded since.                                *)
Latest(n, p, k) == \A m \in Heads(n, p) : k < m => ~Restarts(n[m])

LEMMA FirstsFacts ==
  ASSUME NEW n, Conforming(n, settings)
  PROVE  /\ Firsts(n) = {k \in Decoded(n) : n[k].first}
         /\ Firsts(n) \subseteq 1..Len(n) /\ Len(n) \in Nat /\ IsFiniteSet(Firsts(n))
         /\ \A k \in Firsts(n) : /\ k \in Nat /\ k \in SlicesIn(n) /\ k \in Decoded(n) /\ n[k].first
                                 /\ n[k].poc \in Int /\ n[k].cvs \in Nat /\ n[k].out \in BOOLEAN
         /\ \A p : Heads(n, p) \subseteq Past(n, p)
<1>1. Firsts(n) = {k \in Decoded(n) : n[k].first}
  BY DEF Firsts, FirstSlices, Decoded
<1>2. SlicesIn(n) \subseteq 1..Len(n) /\ Len(n) \in Nat /\ \A k \in SlicesIn(n) : k \in Nat /\ n[k] \in SliceNALs
  BY ConformingNALs
<1>3. Decoded(n) \subseteq SlicesIn(n)
  BY DEF Decoded, Decodable
<1>4. \A k \in SlicesIn(n) : n[k].poc \in Int /\ n[k].cvs \in Nat /\ n[k].out \in BOOLEAN
  <2>1. \A k \in SlicesIn(n) : n[k].poc \in Int
    BY POCRange
  <2> QED
    BY <1>2, <2>1 DEF SliceNALs
<1>5. IsFiniteSet(Firsts(n))
  <2>1. IsFiniteSet(1..Len(n)) /\ Firsts(n) \in SUBSET (1..Len(n))
    BY <1>1, <1>2, <1>3, FS_Interval
  <2> QED
    BY <2>1, FS_Subset
<1>6. \A p : Heads(n, p) \subseteq Past(n, p)
  BY <1>1 DEF Heads, Past
<1> QED
  BY <1>1, <1>2, <1>3, <1>4, <1>5, <1>6

(* A restart between two pictures is a restart with a first slice.         *)
LEMMA RestartBegins ==
  ASSUME NEW n, Conforming(n, settings), NEW f \in Firsts(n), NEW m \in SlicesIn(n), f < m,
         Restarts(n[m]), n[m].pic # n[f].pic
  PROVE  \E h \in Firsts(n) : f < h /\ h <= m /\ Restarts(n[h])
<1>1. PICK h \in SlicesIn(n) : h <= m /\ n[h].pic = n[m].pic /\ n[h].first
  BY FirstSlice
<1>2. f \in SlicesIn(n) /\ n[f].first /\ f \in Nat /\ m \in Nat /\ h \in Nat
  BY FirstsFacts, ConformingNALs
<1>3. n[h].type = n[m].type
  BY <1>1, SlicesAgree
<1>4. h # f
  BY <1>1
<1>5. ~(h < f)
  <2> SUFFICES ASSUME h < f PROVE FALSE
    OBVIOUS
  <2> QED
    BY <1>1, <1>2, FirstSliceSeparates
<1>6. h \in Firsts(n)
  <2>1. n[h].type \in IRAPTypes
    BY <1>3 DEF Restarts, IRAPTypes
  <2>2. h \in Decoded(n)
    BY <2>1, BeginsIsDecodable DEF Decoded
  <2> QED
    BY <1>1, <2>2, FirstsFacts
<1> QED
  BY <1>1, <1>2, <1>3, <1>4, <1>5, <1>6 DEF Restarts

(* Two pictures with the same POC have a restart between them.             *)
LEMMA POCsApart ==
  ASSUME NEW n, Conforming(n, settings), NEW f \in Firsts(n), NEW g \in Firsts(n), f < g, n[f].poc = n[g].poc
  PROVE  \E h \in Firsts(n) : f < h /\ h <= g /\ Restarts(n[h])
<1>1. /\ f \in SlicesIn(n) /\ g \in SlicesIn(n) /\ f \in Decoded(n) /\ g \in Decoded(n)
      /\ n[f].first /\ n[g].first /\ f \in Nat /\ g \in Nat
  BY FirstsFacts
<1>2. n[f].pic # n[g].pic
  BY <1>1, FirstSliceSeparates
<1>3. PICK m \in SlicesIn(n) : f < m /\ m <= g /\ n[m].type \in {"IDR", "BLA"} /\ n[m].pic # n[f].pic
  BY <1>1, <1>2 DEF Conforming, POCsUnique, Decoded
<1>4. PICK h \in Firsts(n) : f < h /\ h <= m /\ Restarts(n[h])
  BY <1>3, RestartBegins DEF Restarts
<1>5. h \in Nat /\ m \in Nat
  BY FirstsFacts, ConformingNALs
<1> QED
  BY <1>1, <1>3, <1>4, <1>5

(* A picture of the present run of pictures follows, in output order, those*)
(* of it that have lower POCs, and all those of the runs before.           *)
LEMMA LatestOrder ==
  ASSUME NEW n, Orderly(n), NEW p \in Nat, NEW h \in Heads(n, p), NEW k \in Heads(n, p), Latest(n, p, k),
         Latest(n, p, h) => n[h].poc < n[k].poc
  PROVE  InOutputOrder(n, h, k)
<1> DEFINE top == settings.maxTemporalLayer
<1>1. /\ h \in Firsts(n) /\ k \in Firsts(n) /\ h \in Nat /\ k \in Nat /\ n[h].poc \in Int /\ n[k].poc \in Int
      /\ n[h].cvs \in Nat /\ n[k].cvs \in Nat
  BY FirstsFacts DEF Heads, Orderly
<1>2. \A i, j \in Firsts(n) : i < j =>
        IF Together(n, top, i, j)
        THEN n[i].cvs <= n[j].cvs /\ (n[i].cvs < n[j].cvs => n[i].poc < n[j].poc)
        ELSE n[i].cvs < n[j].cvs
  BY DEF Orderly, OutputConforming, SequencesInOrder, Firsts
<1>3. \A m \in Firsts(n) : m \in Nat /\ (m <= h \/ m <= k => m \in Heads(n, p))
  <2>1. h < p /\ k < p /\ \A m \in Firsts(n) : m \in Nat
    BY FirstsFacts DEF Heads, Orderly
  <2> QED
    BY <1>1, <2>1 DEF Heads
<1>4. k < h => Together(n, top, k, h)
  BY <1>3 DEF Latest, Together, Firsts, Restarts
<1>5. CASE Latest(n, p, h)
  <2>1. n[h].poc < n[k].poc
    BY <1>5
  <2>2. CASE h < k
    <3>1. Together(n, top, h, k)
      BY <1>3, <1>5 DEF Latest, Together, Firsts, Restarts
    <3>2. n[h].cvs <= n[k].cvs
      BY <1>1, <1>2, <2>2, <3>1
    <3> QED
      BY <1>1, <2>1, <3>2 DEF InOutputOrder
  <2>3. CASE k < h
    <3>1. n[k].cvs <= n[h].cvs /\ (n[k].cvs < n[h].cvs => n[k].poc < n[h].poc)
      BY <1>1, <1>2, <1>4, <2>3
    <3> QED
      BY <1>1, <2>1, <3>1 DEF InOutputOrder
  <2> QED
    BY <1>1, <2>1, <2>2, <2>3
<1>6. CASE ~Latest(n, p, h)
  <2>1. PICK m \in Heads(n, p) : h < m /\ Restarts(n[m])
    BY <1>6 DEF Latest
  <2>2. m \in Firsts(n) /\ m \in Nat /\ ~(k < m)
    BY <1>3, <2>1 DEF Heads, Latest
  <2>3. h < m /\ m <= k /\ h < k
    BY <1>1, <2>1, <2>2
  <2>4. ~Together(n, top, h, k)
    BY <2>1, <2>2, <2>3 DEF Together, Firsts, Restarts
  <2>5. n[h].cvs < n[k].cvs
    BY <1>1, <1>2, <2>3, <2>4
  <2> QED
    BY <2>5 DEF InOutputOrder
<1> QED
  BY <1>5, <1>6

-----------------------------------------------------------------------------
(* The first slices of the pictures of the list.                           *)

(* A buffer holds the first slice of its picture, and of no other.         *)
LEMMA HeadFacts ==
  ASSUME NEW n, Conforming(n, settings), NEW p \in Nat, NEW q, PictureInv(n, Past(n, p), q)
  PROVE  /\ \E f \in Heads(n, p) : f \in q.nals
         /\ \A f \in q.nals : n[f].first => f \in Heads(n, p) /\ q.poc = n[f].poc /\ Latest(n, p, f)
         /\ \A f, g \in q.nals : n[f].first /\ n[g].first => f = g
<1>1. /\ q.nals # {} /\ q.nals \subseteq Past(n, p)
      /\ \A k \in q.nals : /\ q.poc = n[k].poc /\ q.nals = {m \in Past(n, p) : n[m].pic = n[k].pic}
                           /\ \A m \in Past(n, p) : k < m /\ Restarts(n[m]) => n[m].pic = n[k].pic
  BY DEF PictureInv
<1>2. Past(n, p) \subseteq SlicesIn(n) /\ \A k \in Past(n, p) : k \in Decoded(n) /\ k \in Nat /\ k < p
  BY PastFacts
<1>3. \A f \in q.nals : n[f].first => f \in Heads(n, p)
  BY <1>1, <1>2, FirstsFacts DEF Heads
<1>4. \E f \in Heads(n, p) : f \in q.nals
  <2>1. PICK k \in q.nals : TRUE
    BY <1>1
  <2>2. k \in SlicesIn(n) /\ k \in Decoded(n) /\ k \in Nat /\ k < p
    BY <1>1, <1>2, <2>1
  <2>3. PICK f \in SlicesIn(n) : f <= k /\ n[f].pic = n[k].pic /\ n[f].first
    BY <2>2, FirstSlice
  <2>4. f \in Decoded(n)
    BY <2>2, <2>3, PicturesAreDecodable DEF Decoded
  <2>5. f \in Nat /\ f < p
    BY <2>2, <2>3, ConformingNALs
  <2>6. f \in q.nals
    BY <1>1, <2>1, <2>3, <2>4, <2>5 DEF Past
  <2> QED
    BY <1>3, <2>3, <2>6
<1>5. ASSUME NEW f \in q.nals, NEW m \in Heads(n, p), f < m PROVE n[m].pic # n[f].pic
  <2>1. f \in SlicesIn(n) /\ m \in SlicesIn(n) /\ m \in Nat /\ n[m].first
    BY <1>1, <1>2, FirstsFacts DEF Heads
  <2> QED
    BY <1>5, <2>1, FirstSliceSeparates
<1>6. \A f \in q.nals : n[f].first => Latest(n, p, f)
  BY <1>1, <1>5, FirstsFacts DEF Latest
<1>7. \A f, g \in q.nals : n[f].first /\ n[g].first => f = g
  <2> SUFFICES ASSUME NEW f \in q.nals, NEW g \in q.nals, n[f].first, n[g].first, f < g PROVE FALSE
    BY <1>1, <1>2
  <2>1. n[g].pic = n[f].pic
    BY <1>1
  <2> QED
    BY <1>3, <1>5, <2>1
<1> QED
  BY <1>1, <1>3, <1>4, <1>6, <1>7

(* Pictures of the list with the same POC are one.                         *)
LEMMA SamePOCSameHead ==
  ASSUME NEW n, Conforming(n, settings), NEW p \in Nat,
         NEW f \in Heads(n, p), NEW g \in Heads(n, p), Latest(n, p, f), Latest(n, p, g), n[f].poc = n[g].poc
  PROVE  f = g
<1>1. f \in Firsts(n) /\ g \in Firsts(n) /\ f \in Nat /\ g \in Nat /\ f < p /\ g < p
  BY FirstsFacts DEF Heads
<1>2. ASSUME NEW a \in {f, g}, NEW b \in {f, g}, a < b PROVE FALSE
  <2>1. PICK h \in Firsts(n) : a < h /\ h <= b /\ Restarts(n[h])
    BY <1>1, <1>2, POCsApart
  <2>2. h \in Nat
    BY FirstsFacts
  <2>3. h \in Heads(n, p)
    BY <1>1, <2>1, <2>2 DEF Heads
  <2> QED
    BY <2>1, <2>3 DEF Latest
<1> QED
  BY <1>1, <1>2

(* No more pictures of a list than there are first slices for them.        *)
LEMMA HeadsCount ==
  ASSUME NEW n, Conforming(n, settings), NEW p \in Nat, NEW l \in Seq(Pictures), ListInv(n, Past(n, p), l),
         ListOrdered(l), NEW A \in SUBSET DOMAIN l, NEW S, IsFiniteSet(S),
         \A i \in A : \A f \in Heads(n, p) : f \in l[i].nals => f \in S
  PROVE  Cardinality(A) <= Cardinality(S)
<1> DEFINE head == [i \in A |-> CHOOSE f \in Heads(n, p) : f \in l[i].nals]
<1>1. \A i \in A : PictureInv(n, Past(n, p), l[i]) /\ i \in Nat
  <2>1. \A i \in DOMAIN l : l[i] \in Pics(l) /\ i \in Nat
    BY DEF Pics
  <2> QED
    BY <2>1 DEF ListInv
<1>2. \A i \in A : head[i] \in Heads(n, p) /\ head[i] \in l[i].nals /\ l[i].poc = n[head[i]].poc
  <2> TAKE i \in A
  <2>1. \E f \in Heads(n, p) : f \in l[i].nals
    BY <1>1, HeadFacts
  <2>2. head[i] \in Heads(n, p) /\ head[i] \in l[i].nals
    BY <2>1
  <2> HIDE DEF head
  <2>3. n[head[i]].first
    BY <2>2, FirstsFacts DEF Heads
  <2> QED
    BY <1>1, <2>2, <2>3, HeadFacts
<1> HIDE DEF head
<1>3. head \in [A -> S]
  <2>1. \A i \in A : head[i] \in S
    BY <1>2
  <2> QED
    BY <2>1 DEF head
<1>4. \A i, j \in A : head[i] = head[j] => i = j
  <2> SUFFICES ASSUME NEW i \in A, NEW j \in A, head[i] = head[j], i < j PROVE FALSE
    BY <1>1
  <2>1. l[i].poc = l[j].poc
    BY <1>2
  <2> QED
    BY <2>1 DEF ListOrdered
<1>5. IsFiniteSet(A) /\ Cardinality(A) \in Nat /\ Cardinality(S) \in Nat
  BY PlacesFinite, FS_CardinalityType
<1>6. ~(Cardinality(S) < Cardinality(A))
  BY <1>3, <1>4, <1>5, FS_PigeonHole
<1> QED
  BY <1>5, <1>6

-----------------------------------------------------------------------------
(* The invariant of output, when the slices before NAL unit p have been    *)
(* decoded.  Those of the pictures T are not complete yet.                 *)

(* The pictures still to be written, up to the next IDR or BLA picture: the*)
(* one that is being decoded, if any, and those that follow it.            *)
Coming(n, p, begun) ==
  {z \in Firsts(n) :
     /\ n[z].out
     /\ \A k \in Heads(n, p) : k < z \/ (begun /\ k = z)
     /\ \A m \in Firsts(n) : p <= m /\ m <= z => ~Restarts(n[m])}

(* Slices of a picture were decoded, and it is not complete.               *)
Begun(d) == ~d.firstSliceInPicture /\ ~d.firstSliceInSequence

(* A picture that waits is complete and is to come out.                    *)
OutputMarks(n, T, l) ==
  \A q \in Pics(l) :
    /\ q.output => q.picOutput /\ q.nals \cap T = {}
    /\ q.picOutput => \A f \in q.nals : n[f].first => n[f].out

(* What is held for reference was kept by all pictures since.              *)
HeldAreKept(n, p, l) ==
  \A q \in Pics(l) : q.referenced =>
    \A j \in q.nals : n[j].first => \A i \in Heads(n, p) : j < i => Keeps(n[i], n[j].poc)

(* What waits, and what is to come, follows the last picture written.      *)
AfterLast(n, T, l, last) ==
  /\ \A q \in Pics(l) : q.output => last < q.poc
  /\ \A z \in T : last < n[z].poc
  /\ l = <<>> => last = -MAX_INT

(* What was written is of the pictures decoded, precedes the last picture  *)
(* written, and is in output order.                                        *)
WrittenInOrder(n, p, l, last, w) ==
  /\ \A j \in DOMAIN w : w[j].nals # {} /\ w[j].nals \subseteq Past(n, p)
  /\ l # <<>> => \A j \in DOMAIN w : \A k \in w[j].nals :
                   n[k].first /\ Latest(n, p, k) => n[k].poc <= last
  /\ \A i, j \in DOMAIN w : i < j =>
       \A h \in w[i].nals, k \in w[j].nals : n[h].first /\ n[k].first => InOutputOrder(n, h, k)

ListMarks(n, p, T, l) ==
  /\ l \in Seq(Pictures) /\ ListInv(n, Past(n, p), l) /\ ListOrdered(l)
  /\ OutputMarks(n, T, l) /\ HeldAreKept(n, p, l)

OutputInv(n, p, T, l, last, w) ==
  /\ ListMarks(n, p, T, l)
  /\ last \in Int /\ w \in Seq(WrittenPictures)
  /\ AfterLast(n, T, l, last) /\ WrittenInOrder(n, p, l, last, w)

-----------------------------------------------------------------------------
(* The limits of the stream are those of the list.                         *)

(* A picture to come, and one of the list that waits, which was decoded    *)
(* before it.                                                              *)
LEMMA WaitsForComing ==
  ASSUME NEW n, Orderly(n), NEW p \in Nat, NEW begun, NEW l, ListMarks(n, p, Coming(n, p, begun), l),
         NEW z \in Coming(n, p, begun), NEW i \in Waiting(l), NEW f \in Heads(n, p), f \in l[i].nals
  PROVE  /\ f < z /\ n[f].out /\ l[i].poc = n[f].poc /\ l[i].poc # n[z].poc
         /\ Together(n, settings.maxTemporalLayer, f, z)
<1>1. /\ Conforming(n, settings) /\ PictureInv(n, Past(n, p), l[i]) /\ l[i] \in Pics(l) /\ l[i].output
  BY DEF Orderly, ListMarks, ListInv, Pics, Waiting
<1>2. f \in Firsts(n) /\ z \in Firsts(n) /\ f \in Nat /\ z \in Nat /\ f < p /\ n[f].first
  BY <1>1, FirstsFacts DEF Heads, Coming
<1>3. l[i].poc = n[f].poc /\ Latest(n, p, f)
  BY <1>1, <1>2, HeadFacts
<1>4. n[f].out /\ f # z
  BY <1>1, <1>2 DEF ListMarks, OutputMarks
<1>5. f < z
  BY <1>4 DEF Coming
<1>6. \A m \in Firsts(n) : f < m /\ m <= z => ~Restarts(n[m])
  <2>1. \A m \in Firsts(n) : m \in Nat
    BY <1>1, FirstsFacts
  <2> QED
    BY <1>3, <2>1 DEF Coming, Latest, Heads
<1>7. l[i].poc # n[z].poc
  BY <1>1, <1>2, <1>3, <1>5, <1>6, POCsApart
<1>8. Together(n, settings.maxTemporalLayer, f, z)
  BY <1>6 DEF Together, Firsts, Restarts
<1> QED
  BY <1>3, <1>4, <1>5, <1>7, <1>8

(* The buffer has room for what is held, or waits for a picture to come.   *)
LEMMA RoomForHeld ==
  ASSUME NEW n, Orderly(n), NEW p \in Nat, NEW begun, NEW l, ListMarks(n, p, Coming(n, p, begun), l),
         NEW A \in SUBSET DOMAIN l,
         \A i \in A : \/ l[i].referenced
                      \/ i \in Waiting(l) /\ \E z \in Coming(n, p, begun) : n[z].poc < l[i].poc
  PROVE  ~(Cardinality(A) > MaxDecPicBuffering[SubLayer])
<1> DEFINE top == settings.maxTemporalLayer
           C(i) == {f \in Heads(n, p) : f \in l[i].nals}
<1>1. /\ Conforming(n, settings) /\ ValidSettings(settings)
      /\ \A i \in DOMAIN l : PictureInv(n, Past(n, p), l[i]) /\ l[i] \in Pics(l)
      /\ l \in Seq(Pictures) /\ ListInv(n, Past(n, p), l) /\ ListOrdered(l)
  BY DEF Orderly, ListMarks, ListInv, Pics
<1>2. MaxDecPicBuffering[SubLayer] \in Nat /\ Cardinality(A) \in Nat
  BY <1>1, LimitsAreNumbers, PlacesFinite
<1>3. CASE Heads(n, p) = {}
  <2>1. DOMAIN l = {}
    BY <1>1, <1>3, HeadFacts
  <2>2. Cardinality(A) = 0
    BY <2>1, FS_EmptySet
  <2> QED
    BY <1>2, <2>2
<1>4. CASE Heads(n, p) # {}
  <2>1. /\ Len(n) \in Nat /\ Heads(n, p) \in SUBSET (1..Len(n)) /\ \A k \in Heads(n, p) : k \in Nat
        /\ \A k \in Firsts(n) : k \in Nat
    BY <1>1, FirstsFacts DEF Heads
  <2>2. PICK c \in Heads(n, p) : \A k \in Heads(n, p) : k <= c
    BY <1>4, <2>1, Extremes
  <2> DEFINE S == Needed(n, top, c) \cup {c}
  <2>3. IsFiniteSet(Needed(n, top, c)) /\ IsFiniteSet(S)
        /\ Cardinality(S) <= Cardinality(Needed(n, top, c)) + 1 /\ Cardinality(Needed(n, top, c)) \in Nat
        /\ Cardinality(S) \in Nat
    <3>1. IsFiniteSet(Firsts(n)) /\ Needed(n, top, c) \in SUBSET Firsts(n)
      BY <1>1, FirstsFacts DEF Needed, Firsts
    <3>2. IsFiniteSet(Needed(n, top, c))
      BY <3>1, FS_Subset
    <3> QED
      BY <3>2, FS_AddElement, FS_CardinalityType
  <2>4. Cardinality(Needed(n, top, c)) < MaxDecPicBuffering[SubLayer]
    BY <2>2 DEF Orderly, OutputConforming, LimitsObserved, MaxDecPicBuffering, SubLayer, Heads, Firsts
  <2>5. ASSUME NEW i \in A, NEW f \in Heads(n, p), f \in l[i].nals PROVE f \in S
    <3>1. /\ f \in Nat /\ c \in Nat /\ c < p /\ f <= c /\ n[f].first /\ f \in Firsts(n) /\ c \in Firsts(n)
      BY <1>1, <2>1, <2>2, FirstsFacts DEF Heads
    <3>2. l[i].poc = n[f].poc /\ Latest(n, p, f)
      BY <1>1, <2>5, <3>1, HeadFacts
    <3>3. \A m \in Firsts(n) : m <= c => m \in Heads(n, p)
      BY <2>1, <3>1 DEF Heads
    <3>4. Together(n, top, f, c)
      BY <3>2, <3>3 DEF Together, Latest, Firsts, Restarts
    <3>5. CASE l[i].referenced
      <4>1. \A m \in Heads(n, p) : f < m => Keeps(n[m], n[f].poc)
        BY <1>1, <2>5, <3>1, <3>5 DEF ListMarks, HeldAreKept
      <4>2. \A m \in Firsts(n) : f < m /\ m <= c => Keeps(n[m], n[f].poc)
        BY <3>3, <4>1
      <4> QED
        BY <3>1, <3>4, <4>2 DEF Needed, Firsts
    <3>6. CASE i \in Waiting(l) /\ \E z \in Coming(n, p, begun) : n[z].poc < l[i].poc
      <4>1. PICK z \in Coming(n, p, begun) : n[z].poc < l[i].poc
        BY <3>6
      <4>2. /\ n[f].out /\ Together(n, top, f, z) /\ n[z].poc < n[f].poc
        BY <2>5, <3>2, <3>6, <4>1, WaitsForComing
      <4>3. z \in Firsts(n) /\ n[z].out /\ c <= z
        BY <2>1, <2>2 DEF Coming
      <4> QED
        BY <3>1, <3>4, <4>2, <4>3 DEF Needed, Firsts
    <3> QED
      BY <3>5, <3>6
  <2> HIDE DEF S
  <2>6. Cardinality(A) <= Cardinality(S)
    BY <1>1, <2>3, <2>5, HeadsCount
  <2> QED
    BY <1>2, <2>3, <2>4, <2>6
<1> QED
  BY <1>3, <1>4

(* No picture is written that may have to follow one to come.              *)
LEMMA NotTooMany ==
  ASSUME NEW n, Orderly(n), NEW p \in Nat, NEW begun, NEW l, ListMarks(n, p, Coming(n, p, begun), l)
  PROVE  /\ ~TooMany({}, ReferencedIn(l))
         /\ \A z \in Coming(n, p, begun) :
              /\ \A i \in Waiting(l) : l[i].poc # n[z].poc
              /\ ~TooMany(WaitingAbove(l, n[z].poc), ReferencedIn(l) \cup WaitingAbove(l, n[z].poc))
<1> DEFINE top == settings.maxTemporalLayer
<1>1. /\ Conforming(n, settings) /\ ValidSettings(settings)
      /\ \A i \in DOMAIN l : PictureInv(n, Past(n, p), l[i])
      /\ l \in Seq(Pictures) /\ ListInv(n, Past(n, p), l) /\ ListOrdered(l)
  BY DEF Orderly, ListMarks, ListInv, Pics
<1>2. NumReorderPics[SubLayer] \in Nat
  BY <1>1, LimitsAreNumbers
<1>3. ~TooMany({}, ReferencedIn(l))
  <2>1. ReferencedIn(l) \in SUBSET DOMAIN l /\ \A i \in ReferencedIn(l) : l[i].referenced
    BY DEF ReferencedIn
  <2>2. ~(Cardinality(ReferencedIn(l)) > MaxDecPicBuffering[SubLayer])
    BY <2>1, RoomForHeld
  <2>3. Cardinality({}) = 0
    BY FS_EmptySet
  <2> QED
    BY <1>2, <2>2, <2>3 DEF TooMany
<1>4. ASSUME NEW z \in Coming(n, p, begun)
      PROVE  /\ \A i \in Waiting(l) : l[i].poc # n[z].poc
             /\ ~TooMany(WaitingAbove(l, n[z].poc), ReferencedIn(l) \cup WaitingAbove(l, n[z].poc))
  <2>1. \A i \in Waiting(l) : \E f \in Heads(n, p) : f \in l[i].nals
    BY <1>1, HeadFacts DEF Waiting
  <2>2. \A i \in Waiting(l) : l[i].poc # n[z].poc
    BY <2>1, WaitsForComing
  <2>3. z \in Firsts(n) /\ n[z].out
    BY DEF Coming
  <2> DEFINE B == WaitingAbove(l, n[z].poc)
             S == Overtaken(n, top, z)
  <2>4. B \in SUBSET DOMAIN l /\ B \in SUBSET Waiting(l) /\ \A i \in B : l[i].poc > n[z].poc
    BY DEF WaitingAbove, Waiting
  <2>5. \A i \in B : \A f \in Heads(n, p) : f \in l[i].nals => f \in S
    <3> SUFFICES ASSUME NEW i \in B, NEW f \in Heads(n, p), f \in l[i].nals PROVE f \in S
      OBVIOUS
    <3>1. /\ f < z /\ n[f].out /\ l[i].poc = n[f].poc /\ Together(n, top, f, z)
      BY <2>4, WaitsForComing
    <3> QED
      BY <2>4, <3>1 DEF Overtaken, Heads, Firsts
  <2>6. IsFiniteSet(S)
    <3>1. IsFiniteSet(Firsts(n)) /\ S \in SUBSET Firsts(n)
      BY <1>1, FirstsFacts DEF Overtaken, Firsts
    <3> QED
      BY <3>1, FS_Subset
  <2>7. Cardinality(S) <= NumReorderPics[SubLayer]
    BY <2>3 DEF Orderly, OutputConforming, LimitsObserved, NumReorderPics, SubLayer, Firsts
  <2> HIDE DEF S
  <2>8. Cardinality(B) <= Cardinality(S)
    <3> HIDE DEF B
    <3> QED
      BY <1>1, <2>4, <2>5, <2>6, HeadsCount
  <2>9. Cardinality(B) \in Nat /\ Cardinality(S) \in Nat
    BY <1>1, <2>4, <2>6, PlacesFinite, FS_CardinalityType
  <2>10. ~(Cardinality(ReferencedIn(l) \cup B) > MaxDecPicBuffering[SubLayer])
    <3>1. ReferencedIn(l) \cup B \in SUBSET DOMAIN l
      BY <2>4 DEF ReferencedIn
    <3>2. \A i \in ReferencedIn(l) \cup B : \/ l[i].referenced
                                            \/ i \in Waiting(l) /\ n[z].poc < l[i].poc
      <4>1. \A i \in B : l[i].poc \in Int
        BY <1>1, <2>4, PicturesIn DEF Pictures
      <4>2. n[z].poc \in Int
        BY <1>1, <2>3, FirstsFacts
      <4> QED
        BY <2>4, <4>1, <4>2 DEF ReferencedIn
    <3> HIDE DEF B
    <3> QED
      BY <3>1, <3>2, RoomForHeld
  <2>11. ~TooMany(B, ReferencedIn(l) \cup B)
    <3> HIDE DEF B
    <3> QED
      BY <1>2, <2>7, <2>8, <2>9, <2>10 DEF TooMany
  <2> QED
    BY <2>2, <2>11
<1> QED
  BY <1>3, <1>4

-----------------------------------------------------------------------------
(* Writing keeps the invariant.                                            *)

(* v is w with more pictures written after those of w.                     *)
Extends(v, w) == \A j \in DOMAIN w : j \in DOMAIN v /\ v[j] = w[j]

(* v is w and after it, in order, the pictures of l at the places C.       *)
WritesAfter(v, w, l, C) ==
  /\ v \in Seq(WrittenPictures) /\ Extends(v, w)
  /\ \A j \in DOMAIN v \ DOMAIN w : \E a \in C : v[j].nals = l[a].nals
  /\ \A a \in C : \E j \in DOMAIN v \ DOMAIN w : v[j].nals = l[a].nals
  /\ \A i, j \in DOMAIN v : i < j =>
       \/ i \in DOMAIN w
       \/ /\ i \notin DOMAIN w /\ j \notin DOMAIN w
          /\ \E a, b \in C : a < b /\ v[i].nals = l[a].nals /\ v[j].nals = l[b].nals

(* What is written is put, in order, after what was written before.        *)
LEMMA WithWrittenIs ==
  ASSUME NEW l \in Seq(Pictures), NEW w \in Seq(WrittenPictures), NEW C \in SUBSET Waiting(l)
  PROVE  WritesAfter(WithWritten(w, InOrder(l, C)), w, l, C)
<1> DEFINE v == WithWritten(w, InOrder(l, C))
<1> DEFINE k == InOrder(l, C)
           h == [i \in DOMAIN k |-> Written(k[i])]
           u == <<>> \o h
<1> HIDE DEF v
<1>1. C \in SUBSET DOMAIN l
  BY DEF Waiting
<1>2. /\ k \in Seq(Pictures)
      /\ \A i \in C : \E j \in DOMAIN k : k[j] = l[i]
      /\ \A j \in DOMAIN k : \E i \in C : k[j] = l[i]
      /\ \A i, j \in DOMAIN k : i < j => \E a, b \in C : a < b /\ k[i] = l[a] /\ k[j] = l[b]
  BY <1>1, InOrderIs DEF PutInOrder
<1>3. v = w \o u
  BY DEF v, WithWritten, MapPictures
<1> HIDE DEF k
<1>4. u \in Seq(WrittenPictures) /\ DOMAIN u = DOMAIN k /\ \A i \in DOMAIN u : u[i].nals = k[i].nals
  <2>1. \A q \in Pictures : Written(q) \in WrittenPictures /\ Written(q).nals = q.nals
    BY DEF Pictures, Written, WrittenPictures
  <2>2. DOMAIN k = 1..Len(k) /\ Len(k) \in Nat /\ \A i \in DOMAIN k : k[i] \in Pictures
    BY <1>2
  <2>3. h \in [1..Len(k) -> WrittenPictures] /\ \A i \in 1..Len(k) : h[i].nals = k[i].nals
    BY <2>1, <2>2
  <2> HIDE DEF h
  <2>4. <<>> \o h = h /\ h \in Seq(WrittenPictures) /\ DOMAIN h = 1..Len(k)
    BY <2>2, <2>3, ListOf
  <2> QED
    BY <2>2, <2>3, <2>4
<1> HIDE DEF u
<1>5. PICK x \in Nat, y \in Nat : x = Len(w) /\ y = Len(u) /\ DOMAIN w = 1..x /\ DOMAIN u = 1..y
  BY <1>4
<1>6. /\ v \in Seq(WrittenPictures) /\ DOMAIN v = 1..(x + y)
      /\ \A j \in 1..x : v[j] = w[j]
      /\ \A j \in 1..y : v[x + j] = u[j]
  <2>1. Len(v) = x + y /\ v \in Seq(WrittenPictures)
    BY <1>3, <1>4, <1>5
  <2>2. \A j \in 1..(x + y) : v[j] = IF j <= x THEN w[j] ELSE u[j - x]
    BY <1>3, <1>4, <1>5
  <2>3. \A j \in 1..y : x + j \in 1..(x + y) /\ ~(x + j <= x) /\ (x + j) - x = j
    BY <1>5
  <2>4. \A j \in 1..x : j \in 1..(x + y) /\ j <= x
    BY <1>5
  <2> QED
    BY <2>1, <2>2, <2>3, <2>4
<1>7. \A j \in DOMAIN v \ DOMAIN w : (j - x) \in 1..y /\ v[j] = u[j - x] /\ v[j].nals = k[j - x].nals
  <2> TAKE j \in DOMAIN v \ DOMAIN w
  <2>1. (j - x) \in 1..y /\ x + (j - x) = j
    BY <1>5, <1>6
  <2> QED
    BY <1>4, <1>5, <1>6, <2>1
<1>8. Extends(v, w)
  BY <1>5, <1>6 DEF Extends
<1>9. ASSUME NEW j \in DOMAIN v \ DOMAIN w PROVE \E a \in C : v[j].nals = l[a].nals
  <2>1. j - x \in DOMAIN k /\ v[j].nals = k[j - x].nals
    BY <1>4, <1>5, <1>7
  <2> QED
    BY SMTT(30), <1>2, <2>1
<1>10. ASSUME NEW a \in C PROVE \E j \in DOMAIN v \ DOMAIN w : v[j].nals = l[a].nals
  <2>1. PICK m \in DOMAIN k : k[m] = l[a]
    BY <1>2
  <2>2. m \in 1..y /\ x + m \in DOMAIN v /\ x + m \notin DOMAIN w
    BY <1>4, <1>5, <1>6, <2>1
  <2>3. v[x + m].nals = l[a].nals
    BY <1>4, <1>5, <1>6, <2>1, <2>2
  <2> QED
    BY <2>2, <2>3
<1>11. ASSUME NEW i \in DOMAIN v, NEW j \in DOMAIN v, i < j, i \notin DOMAIN w
       PROVE  /\ j \notin DOMAIN w
              /\ \E a, b \in C : a < b /\ v[i].nals = l[a].nals /\ v[j].nals = l[b].nals
  <2>1. j \notin DOMAIN w
    BY <1>5, <1>6, <1>11
  <2>2. i - x < j - x /\ i - x \in DOMAIN k /\ j - x \in DOMAIN k
    BY <1>4, <1>5, <1>6, <1>7, <1>11, <2>1
  <2>3. v[i].nals = k[i - x].nals /\ v[j].nals = k[j - x].nals
    BY <1>7, <1>11, <2>1
  <2>4. PICK a \in C, b \in C : a < b /\ k[i - x] = l[a] /\ k[j - x] = l[b]
    BY <1>2, <2>2
  <2> QED
    BY <2>1, <2>3, <2>4
<1>12. WritesAfter(v, w, l, C)
  BY <1>6, <1>8, <1>9, <1>10, <1>11 DEF WritesAfter
<1> QED
  BY <1>12 DEF v

(* What is written follows, in output order, all that was written before.  *)
LEMMA WriteInOrder ==
  ASSUME NEW n, Orderly(n), NEW p \in Nat, NEW T, NEW l, NEW last, NEW w, OutputInv(n, p, T, l, last, w),
         NEW C \in SUBSET Waiting(l), NEW v, v = WithWritten(w, InOrder(l, C)), NEW x
  PROVE  /\ v \in Seq(WrittenPictures) /\ Extends(v, w)
         /\ WrittenInOrder(n, p, <<>>, x, v)
<1>1. /\ Conforming(n, settings) /\ l \in Seq(Pictures) /\ w \in Seq(WrittenPictures) /\ last \in Int
      /\ AfterLast(n, T, l, last) /\ WrittenInOrder(n, p, l, last, w) /\ ListOrdered(l)
      /\ \A i \in C : /\ PictureInv(n, Past(n, p), l[i]) /\ l[i] \in Pics(l) /\ l[i].output /\ i \in DOMAIN l
  BY DEF Orderly, OutputInv, ListMarks, ListInv, Pics, Waiting
<1>2. /\ v \in Seq(WrittenPictures) /\ Extends(v, w)
      /\ \A j \in DOMAIN v \ DOMAIN w : \E a \in C : v[j].nals = l[a].nals
      /\ \A i, j \in DOMAIN v : i < j =>
           \/ i \in DOMAIN w
           \/ /\ i \notin DOMAIN w /\ j \notin DOMAIN w
              /\ \E a, b \in C : a < b /\ v[i].nals = l[a].nals /\ v[j].nals = l[b].nals
  <2>1. l \in Seq(Pictures) /\ w \in Seq(WrittenPictures)
    BY <1>1
  <2>2. WritesAfter(v, w, l, C)
    BY <2>1, WithWrittenIs
  <2> QED
    BY <2>2 DEF WritesAfter
<1>3. \A i \in DOMAIN w : w[i].nals # {} /\ w[i].nals \subseteq Past(n, p)
  BY <1>1 DEF WrittenInOrder
<1>4. \A j \in DOMAIN v : v[j].nals # {} /\ v[j].nals \subseteq Past(n, p)
  <2> TAKE j \in DOMAIN v
  <2>1. CASE j \in DOMAIN w
    BY <1>2, <1>3, <2>1 DEF Extends
  <2>2. CASE j \notin DOMAIN w
    BY <1>1, <1>2, <2>2 DEF PictureInv
  <2> QED
    BY <2>1, <2>2
<1>5. \A h \in Past(n, p) : n[h].first => h \in Heads(n, p)
  BY <1>1, FirstsFacts DEF Heads, Past
<1>6. ASSUME NEW i \in DOMAIN v, NEW j \in DOMAIN v, i < j,
             NEW h \in v[i].nals, NEW k \in v[j].nals, n[h].first, n[k].first
      PROVE  InOutputOrder(n, h, k)
  <2>1. h \in Heads(n, p) /\ k \in Heads(n, p)
    BY <1>4, <1>5, <1>6
  <2>2. n[h].poc \in Int /\ n[k].poc \in Int
    BY <1>1, <2>1, FirstsFacts DEF Heads
  <2>3. CASE j \in DOMAIN w
    <3>1. i \in DOMAIN w
      BY <1>2, <1>6, <2>3
    <3> QED
      BY <1>1, <1>2, <1>6, <2>3, <3>1 DEF Extends, WrittenInOrder
  <2>4. CASE j \notin DOMAIN w /\ i \in DOMAIN w
    <3>1. PICK a \in C : v[j].nals = l[a].nals
      BY <1>2, <2>4
    <3>2. l[a].poc = n[k].poc /\ Latest(n, p, k) /\ last < n[k].poc /\ l # <<>>
      <4>1. l[a].poc = n[k].poc /\ Latest(n, p, k)
        BY <1>1, <1>6, <3>1, HeadFacts
      <4>2. l # <<>>
        BY <1>1, PicturesIn
      <4> QED
        BY <1>1, <4>1, <4>2 DEF AfterLast
    <3>3. Latest(n, p, h) => n[h].poc <= last
      BY <1>1, <1>2, <1>6, <2>4, <3>2 DEF WrittenInOrder, Extends
    <3>4. Latest(n, p, h) => n[h].poc < n[k].poc
      BY <1>1, <2>2, <3>2, <3>3
    <3> QED
      BY <2>1, <3>2, <3>4, LatestOrder
  <2>5. CASE j \notin DOMAIN w /\ i \notin DOMAIN w
    <3>1. PICK a \in C, b \in C : a < b /\ v[i].nals = l[a].nals /\ v[j].nals = l[b].nals
      BY <1>2, <1>6, <2>5
    <3>2. l[a].poc = n[h].poc /\ l[b].poc = n[k].poc /\ Latest(n, p, k)
      BY <1>1, <1>6, <3>1, HeadFacts
    <3>3. n[h].poc < n[k].poc
      BY <1>1, <3>1, <3>2 DEF ListOrdered
    <3> QED
      BY <2>1, <3>2, <3>3, LatestOrder
  <2> QED
    BY <2>3, <2>4, <2>5
<1>7. WrittenInOrder(n, p, <<>>, x, v)
  BY <1>4, <1>6 DEF WrittenInOrder
<1> QED
  BY <1>2, <1>7

(* Fewer pictures to come ask for less.                                    *)
LEMMA OutputInvFewer ==
  ASSUME NEW n, NEW p, NEW T, NEW U \in SUBSET T, NEW l, NEW last, NEW w, OutputInv(n, p, T, l, last, w)
  PROVE  OutputInv(n, p, U, l, last, w)
  BY DEF OutputInv, ListMarks, OutputMarks, AfterLast

(* xFlushOutput keeps the invariant when nothing is to come before an IDR  *)
(* or BLA picture.                                                         *)
LEMMA FlushKeepsOrder ==
  ASSUME NEW n, Orderly(n), NEW p \in Nat, NEW T, NEW l, NEW last, NEW w, OutputInv(n, p, T, l, last, w),
         NEW v, v = WithWritten(w, InOrder(l, Waiting(l)))
  PROVE  /\ OutputInv(n, p, {}, <<>>, IF l = <<>> THEN last ELSE -MAX_INT, v)
         /\ Extends(v, w)
<1> DEFINE x == IF l = <<>> THEN last ELSE -MAX_INT
<1>1. /\ v \in Seq(WrittenPictures) /\ Extends(v, w) /\ WrittenInOrder(n, p, <<>>, x, v)
  BY WriteInOrder
<1>2. x \in Int /\ x = -MAX_INT
  BY DEF OutputInv, AfterLast, MAX_INT
<1> HIDE DEF x
<1>3. Pics(<<>>) = {} /\ <<>> \in Seq(Pictures) /\ DOMAIN <<>> = {}
  BY DEF Pics
<1>4. ListMarks(n, p, {}, <<>>)
  BY <1>3 DEF ListMarks, ListInv, ReferencesHeld, ListOrdered, OutputMarks, HeldAreKept
<1>5. AfterLast(n, {}, <<>>, x)
  BY <1>2, <1>3 DEF AfterLast
<1>6. OutputInv(n, p, {}, <<>>, x, v)
  BY <1>1, <1>2, <1>4, <1>5 DEF OutputInv
<1> QED
  BY <1>1, <1>6 DEF x

(* The list after some pictures that wait were written.                    *)
LEMMA ReleaseMarks ==
  ASSUME NEW n, NEW p, NEW T, NEW l, ListMarks(n, p, T, l), NEW C \in SUBSET Waiting(l),
         NEW k, k = Release(l, C)
  PROVE  /\ ListMarks(n, p, T, k) /\ DOMAIN k = DOMAIN l /\ (k = <<>> <=> l = <<>>)
         /\ Waiting(k) = Waiting(l) \ C /\ ReferencedIn(k) = ReferencedIn(l)
         /\ \A i \in DOMAIN l : k[i].poc = l[i].poc
<1>1. l \in Seq(Pictures) /\ ListInv(n, Past(n, p), l) /\ ListOrdered(l) /\ OutputMarks(n, T, l)
      /\ HeldAreKept(n, p, l)
  BY DEF ListMarks
<1>2. k \in Seq(Pictures) /\ ListInv(n, Past(n, p), k) /\ (k = <<>> <=> l = <<>>)
  BY <1>1, ReleaseFacts, SameInv
<1>3. /\ DOMAIN k = DOMAIN l
      /\ \A i \in DOMAIN l : k[i] = IF i \in C THEN AfterWriting(l[i]) ELSE l[i]
  BY <1>1, ReleaseIs
<1>4. ASSUME NEW i \in DOMAIN l
      PROVE  /\ k[i].nals = l[i].nals /\ k[i].poc = l[i].poc /\ k[i].picOutput = l[i].picOutput
             /\ k[i].referenced = l[i].referenced
             /\ k[i].output <=> l[i].output /\ i \notin C
  <2>1. l[i] \in Pictures
    BY <1>1, PicturesIn
  <2>2. l[i].output \in BOOLEAN
    BY <2>1 DEF Pictures
  <2>3. /\ AfterWriting(l[i]).nals = l[i].nals /\ AfterWriting(l[i]).poc = l[i].poc
        /\ AfterWriting(l[i]).picOutput = l[i].picOutput
        /\ AfterWriting(l[i]).referenced = l[i].referenced /\ ~AfterWriting(l[i]).output
    BY <2>1 DEF AfterWriting, Pictures
  <2>4. CASE i \in C
    <3>1. k[i] = AfterWriting(l[i])
      BY <1>3, <2>4
    <3> QED
      BY <2>3, <2>4, <3>1
  <2>5. CASE i \notin C
    <3>1. k[i] = l[i]
      BY <1>3, <2>5
    <3> QED
      BY <2>5, <3>1
  <2> QED
    BY <2>4, <2>5
<1>5. ListOrdered(k)
  BY <1>1, <1>3, <1>4 DEF ListOrdered
<1>6. \A r \in Pics(k) : \E q \in Pics(l) :
        /\ r.nals = q.nals /\ r.picOutput = q.picOutput /\ r.referenced = q.referenced
        /\ r.output => q.output
  BY <1>3, <1>4 DEF Pics
<1>7. OutputMarks(n, T, k)
  BY <1>1, <1>6 DEF OutputMarks
<1>8. HeldAreKept(n, p, k)
  <2> SUFFICES ASSUME NEW r \in Pics(k), r.referenced, NEW j \in r.nals, n[j].first,
                      NEW i \in Heads(n, p), j < i
               PROVE  Keeps(n[i], n[j].poc)
    BY DEF HeldAreKept
  <2>1. PICK q \in Pics(l) : r.nals = q.nals /\ r.referenced = q.referenced
    BY <1>6
  <2> QED
    BY <1>1, <2>1 DEF HeldAreKept
<1>9. Waiting(k) = Waiting(l) \ C /\ ReferencedIn(k) = ReferencedIn(l)
  BY <1>3, <1>4 DEF Waiting, ReferencedIn
<1> QED
  BY <1>2, <1>3, <1>4, <1>5, <1>7, <1>8, <1>9 DEF ListMarks

(* Writing the first pictures that wait, none of which has to follow one   *)
(* that is to come, keeps the invariant.                                   *)
LEMMA WriteKeepsOrder ==
  ASSUME NEW n, Orderly(n), NEW p \in Nat, NEW T \in SUBSET Firsts(n), NEW l, NEW last, NEW w,
         OutputInv(n, p, T, l, last, w),
         NEW C \in SUBSET Waiting(l), \A i \in C, j \in Waiting(l) : j < i => j \in C,
         \A i \in C, z \in T : l[i].poc < n[z].poc
  PROVE  LET o == InOrder(l, C)
         IN  /\ OutputInv(n, p, T, Release(l, C), IF o = <<>> THEN last ELSE Last(o).poc, WithWritten(w, o))
             /\ Extends(WithWritten(w, o), w)
<1> DEFINE o == InOrder(l, C)
           k == Release(l, C)
           v == WithWritten(w, o)
           next == IF o = <<>> THEN last ELSE Last(o).poc
<1>1. /\ l \in Seq(Pictures) /\ last \in Int /\ w \in Seq(WrittenPictures) /\ ListOrdered(l)
      /\ AfterLast(n, T, l, last) /\ WrittenInOrder(n, p, l, last, w) /\ ListMarks(n, p, T, l)
      /\ Conforming(n, settings)
      /\ \A i \in DOMAIN l : /\ PictureInv(n, Past(n, p), l[i]) /\ l[i] \in Pics(l)
  BY DEF OutputInv, ListMarks, Orderly, ListInv, Pics
<1>2. C \in SUBSET DOMAIN l /\ \A i \in C : l[i].output
  BY DEF Waiting
<1>3. PutInOrder(o, l, C)
  BY <1>1, <1>2, InOrderIs
<1>4. /\ o = <<>> <=> C = {}
      /\ C # {} => \E i \in C : Last(o) = l[i] /\ \A j \in C : j <= i
  BY <1>3 DEF PutInOrder
<1>5. /\ v \in Seq(WrittenPictures) /\ Extends(v, w) /\ WrittenInOrder(n, p, <<>>, next, v)
  BY WriteInOrder
<1>6. /\ ListMarks(n, p, T, k) /\ DOMAIN k = DOMAIN l /\ (k = <<>> <=> l = <<>>)
      /\ Waiting(k) = Waiting(l) \ C
      /\ \A i \in DOMAIN l : k[i].poc = l[i].poc
  BY <1>1, ReleaseMarks
<1>7. WritesAfter(v, w, l, C)
  BY <1>1, WithWrittenIs
<1>8. \A i \in DOMAIN l : l[i].poc \in Int /\ i \in Nat
  <2>1. \A i \in DOMAIN l : l[i] \in Pictures
    BY <1>1, PicturesIn
  <2>2. \A i \in DOMAIN l : i \in Nat
    BY <1>1, PicturesIn
  <2> QED
    BY <2>1, <2>2 DEF Pictures
<1> HIDE DEF o, k, v
<1>9. /\ next \in Int /\ last <= next
      /\ \A i \in C : l[i].poc <= next
      /\ \A j \in Waiting(l) \ C : next < l[j].poc
      /\ \A z \in T : next < n[z].poc
  <2>1. CASE C = {}
    <3>1. next = last
      BY <1>4, <2>1
    <3>2. \A j \in Waiting(l) : last < l[j].poc
      BY <1>1 DEF Waiting, AfterLast
    <3> QED
      BY <1>1, <2>1, <3>1, <3>2 DEF AfterLast
  <2>2. CASE C # {}
    <3>1. PICK i \in C : Last(o) = l[i] /\ \A j \in C : j <= i
      BY <1>4, <2>2
    <3>2. next = l[i].poc /\ i \in DOMAIN l /\ l[i].output /\ l[i].poc \in Int /\ i \in Nat
      BY <1>2, <1>4, <1>8, <2>2, <3>1
    <3>3. last < l[i].poc
      BY <1>1, <3>2 DEF AfterLast
    <3>4. ASSUME NEW j \in C PROVE l[j].poc <= l[i].poc
      <4>1. j = i \/ j < i
        BY <1>2, <1>8, <3>1, <3>2
      <4>2. j < i => l[j].poc < l[i].poc
        BY <1>1, <1>2, <3>2 DEF ListOrdered
      <4> QED
        BY <1>2, <1>8, <4>1, <4>2
    <3>5. ASSUME NEW j \in Waiting(l) \ C PROVE l[i].poc < l[j].poc
      <4>1. j \in DOMAIN l /\ l[j].output
        BY DEF Waiting
      <4>2. i < j
        BY <1>8, <3>1, <3>2, <4>1
      <4> QED
        BY <1>1, <3>2, <4>1, <4>2 DEF ListOrdered
    <3> QED
      BY <1>1, <3>1, <3>2, <3>3, <3>4, <3>5
  <2> QED
    BY <2>1, <2>2
<1> HIDE DEF next
<1>10. AfterLast(n, T, k, next)
  <2>1. ASSUME NEW q \in Pics(k), q.output PROVE next < q.poc
    <3>1. PICK j \in DOMAIN k : q = k[j]
      BY <2>1 DEF Pics
    <3>2. j \in Waiting(l) \ C
      BY <1>6, <2>1, <3>1 DEF Waiting
    <3> QED
      BY <1>6, <1>9, <3>1, <3>2 DEF Waiting
  <2>2. k = <<>> => next = -MAX_INT
    <3> SUFFICES ASSUME k = <<>> PROVE next = -MAX_INT
      OBVIOUS
    <3>1. l = <<>> /\ C = {}
      BY <1>2, <1>6
    <3> QED
      BY <1>1, <1>4, <3>1 DEF AfterLast, next
  <2> QED
    BY <1>9, <2>1, <2>2 DEF AfterLast
<1>11. ASSUME k # <<>>, NEW j \in DOMAIN v, NEW h \in v[j].nals, n[h].first, Latest(n, p, h)
       PROVE  n[h].poc <= next
  <2>1. h \in Heads(n, p)
    BY <1>1, <1>5, <1>11, FirstsFacts DEF WrittenInOrder, Heads, Past
  <2>2. n[h].poc \in Int
    BY <1>1, <2>1, FirstsFacts DEF Heads
  <2>3. CASE j \in DOMAIN w
    <3>1. n[h].poc <= last
      BY <1>1, <1>5, <1>6, <1>11, <2>3 DEF WrittenInOrder, Extends
    <3> QED
      BY <1>1, <1>9, <2>2, <3>1
  <2>4. CASE j \notin DOMAIN w
    <3>1. PICK a \in C : v[j].nals = l[a].nals
      BY <1>7, <2>4 DEF WritesAfter
    <3>2. l[a].poc = n[h].poc
      BY <1>1, <1>2, <1>11, <3>1, HeadFacts
    <3> QED
      BY <1>9, <3>2
  <2> QED
    BY <2>3, <2>4
<1>12. WrittenInOrder(n, p, k, next, v)
  BY <1>5, <1>11 DEF WrittenInOrder
<1>13. OutputInv(n, p, T, k, next, v)
  BY <1>5, <1>6, <1>9, <1>10, <1>12 DEF OutputInv
<1> QED
  BY <1>5, <1>13 DEF o, k, v, next

(* Discarding pictures keeps the invariant.                                *)
LEMMA DiscardKeepsOrder ==
  ASSUME NEW n, NEW p, NEW T, NEW l, NEW last, NEW w, OutputInv(n, p, T, l, last, w), NEW poc
  PROVE  /\ OutputInv(n, p, T, KeepOnly(l, poc), last, w)
         /\ DOMAIN KeepOnly(l, poc) = DOMAIN l
         /\ Waiting(KeepOnly(l, poc)) \subseteq Waiting(l)
         /\ ReferencedIn(KeepOnly(l, poc)) = ReferencedIn(l)
<1> DEFINE k == KeepOnly(l, poc)
<1>1. l \in Seq(Pictures) /\ ListInv(n, Past(n, p), l) /\ ListOrdered(l) /\ OutputMarks(n, T, l)
      /\ HeldAreKept(n, p, l) /\ AfterLast(n, T, l, last) /\ WrittenInOrder(n, p, l, last, w)
  BY DEF OutputInv, ListMarks
<1>2. k \in Seq(Pictures) /\ ListInv(n, Past(n, p), k) /\ (k = <<>> <=> l = <<>>)
  BY <1>1, KeepOnlyFacts, SameInv
<1>3. /\ DOMAIN k = DOMAIN l
      /\ \A i \in DOMAIN l : k[i] = IF l[i].poc # poc THEN NotOutput(l[i]) ELSE l[i]
  BY <1>1, KeepOnlyIs
<1> HIDE DEF k
<1>4. ASSUME NEW i \in DOMAIN l
      PROVE  /\ k[i].nals = l[i].nals /\ k[i].poc = l[i].poc /\ k[i].picOutput = l[i].picOutput
             /\ k[i].referenced = l[i].referenced
             /\ k[i].output => l[i].output
  <2>1. l[i] \in Pictures
    BY <1>1, PicturesIn
  <2>2. /\ NotOutput(l[i]).nals = l[i].nals /\ NotOutput(l[i]).poc = l[i].poc
        /\ NotOutput(l[i]).picOutput = l[i].picOutput
        /\ NotOutput(l[i]).referenced = l[i].referenced /\ ~NotOutput(l[i]).output
    BY <2>1 DEF NotOutput, Pictures
  <2> QED
    BY <1>3, <2>2
<1>5. ListOrdered(k)
  BY <1>1, <1>3, <1>4 DEF ListOrdered
<1>6. \A r \in Pics(k) : \E q \in Pics(l) :
        /\ r.nals = q.nals /\ r.picOutput = q.picOutput /\ r.referenced = q.referenced /\ r.poc = q.poc
        /\ r.output => q.output
  BY <1>3, <1>4 DEF Pics
<1>7. OutputMarks(n, T, k)
  BY <1>1, <1>6 DEF OutputMarks
<1>8. HeldAreKept(n, p, k)
  <2> SUFFICES ASSUME NEW r \in Pics(k), r.referenced, NEW j \in r.nals, n[j].first,
                      NEW i \in Heads(n, p), j < i
               PROVE  Keeps(n[i], n[j].poc)
    BY DEF HeldAreKept
  <2>1. PICK q \in Pics(l) : r.nals = q.nals /\ r.referenced = q.referenced
    BY <1>6
  <2> QED
    BY <1>1, <2>1 DEF HeldAreKept
<1>9. AfterLast(n, T, k, last)
  BY <1>1, <1>2, <1>6 DEF AfterLast
<1>10. WrittenInOrder(n, p, k, last, w)
  BY <1>1, <1>2 DEF WrittenInOrder
<1>11. OutputInv(n, p, T, k, last, w)
  BY <1>2, <1>5, <1>7, <1>8, <1>9, <1>10 DEF OutputInv, ListMarks
<1>12. Waiting(k) \subseteq Waiting(l) /\ ReferencedIn(k) = ReferencedIn(l)
  BY <1>3, <1>4 DEF Waiting, ReferencedIn
<1> QED
  BY <1>3, <1>11, <1>12 DEF k

(* Completing the current picture keeps the invariant: the picture waits,  *)
(* if it is to come out, for its turn.                                     *)
LEMMA FilterKeepsOrder ==
  ASSUME NEW n, Orderly(n), NEW p \in Nat, NEW l, NEW last, NEW w,
         OutputInv(n, p, Coming(n, p, TRUE), l, last, w), Whole(n, Past(n, p))
  PROVE  /\ OutputInv(n, p, Coming(n, p, FALSE), SortPicList(FilterPicture(l)), last, w)
         /\ DOMAIN SortPicList(FilterPicture(l)) = DOMAIN l
<1> DEFINE f == FilterPicture(l)
           k == SortPicList(f)
           T == Coming(n, p, TRUE)
           U == Coming(n, p, FALSE)
<1>1. l \in Seq(Pictures) /\ ListInv(n, Past(n, p), l) /\ ListOrdered(l) /\ OutputMarks(n, T, l)
      /\ HeldAreKept(n, p, l) /\ AfterLast(n, T, l, last) /\ WrittenInOrder(n, p, l, last, w)
      /\ Conforming(n, settings) /\ last \in Int /\ w \in Seq(WrittenPictures)
  BY DEF OutputInv, ListMarks, Orderly
<1>2. Past(n, p) \in SUBSET SlicesIn(n) /\ \A k2 \in Past(n, p) : k2 \in Decoded(n) /\ k2 \in Nat /\ k2 < p
  BY <1>1, PastFacts
<1>3. f \in Seq(Pictures) /\ ListInv(n, Past(n, p), f) /\ (f = <<>> <=> l = <<>>)
  BY <1>1, <1>2, FilteredInv
<1>4. DOMAIN f = DOMAIN l /\ \A i \in DOMAIN l : f[i] = Filtered(l[i])
  BY <1>1, FilteredList
<1> HIDE DEF f
<1>5. /\ k \in Seq(Pictures) /\ SamePictures(k, f) /\ DOMAIN k = DOMAIN f /\ Pics(k) = Pics(f)
  BY <1>3, SortKeepsPictures
<1>6. ListInv(n, Past(n, p), k) /\ (k = <<>> <=> f = <<>>)
  BY <1>3, <1>5, SameInv
<1>7. ASSUME NEW q \in Pictures
      PROVE  /\ Filtered(q).nals = q.nals /\ Filtered(q).poc = q.poc /\ Filtered(q).picOutput = q.picOutput
             /\ Filtered(q).referenced = q.referenced
             /\ IF q.current THEN Filtered(q).output = q.picOutput ELSE Filtered(q).output = q.output
  BY DEF Filtered, Pictures
<1>8. \A i \in DOMAIN l : l[i] \in Pictures /\ l[i] \in Pics(l)
  BY <1>1, PicturesIn
<1>9. \A i, j \in DOMAIN f : i < j => f[i].poc # f[j].poc
  BY <1>1, <1>4, <1>7, <1>8 DEF ListOrdered
<1>10. ListOrdered(k)
  BY <1>3, <1>9, SortOrders
<1> HIDE DEF k
<1>11. \A r \in Pics(k) : \E q \in Pics(l) :
         /\ q \in Pictures
         /\ r.nals = q.nals /\ r.poc = q.poc /\ r.picOutput = q.picOutput /\ r.referenced = q.referenced
         /\ IF q.current THEN r.output = q.picOutput ELSE r.output = q.output
  <2> SUFFICES ASSUME NEW r \in Pics(f)
               PROVE  \E q \in Pics(l) :
                        /\ q \in Pictures
                        /\ r.nals = q.nals /\ r.poc = q.poc /\ r.picOutput = q.picOutput
                        /\ r.referenced = q.referenced
                        /\ IF q.current THEN r.output = q.picOutput ELSE r.output = q.output
    BY <1>5
  <2>1. PICK i \in DOMAIN l : r = Filtered(l[i])
    BY <1>4 DEF Pics
  <2> QED
    BY <1>7, <1>8, <2>1
<1>12. U \in SUBSET T /\ \A z \in U : z \in Firsts(n) /\ z \notin Past(n, p)
  <2>1. \A z \in Firsts(n) : z \in Nat /\ ~(z < z)
    BY <1>1, FirstsFacts
  <2> QED
    BY <1>2, <2>1 DEF Coming, Heads
<1>13. \A q \in Pics(l) : PictureInv(n, Past(n, p), q)
  BY <1>1 DEF ListInv
<1>14. OutputMarks(n, U, k)
  <2> SUFFICES ASSUME NEW r \in Pics(k)
               PROVE  /\ r.output => r.picOutput /\ r.nals \cap U = {}
                      /\ r.picOutput => \A g \in r.nals : n[g].first => n[g].out
    BY DEF OutputMarks
  <2>1. PICK q \in Pics(l) :
         /\ q \in Pictures
         /\ r.nals = q.nals /\ r.poc = q.poc /\ r.picOutput = q.picOutput /\ r.referenced = q.referenced
         /\ IF q.current THEN r.output = q.picOutput ELSE r.output = q.output
    BY <1>11
  <2>2. r.nals \cap U = {}
    BY <1>12, <1>13, <2>1 DEF PictureInv
  <2>3. r.output => r.picOutput
    BY <1>1, <2>1 DEF OutputMarks
  <2>4. r.picOutput => \A g \in r.nals : n[g].first => n[g].out
    BY <1>1, <2>1 DEF OutputMarks
  <2> QED
    BY <2>2, <2>3, <2>4
<1>15. HeldAreKept(n, p, k)
  <2> SUFFICES ASSUME NEW r \in Pics(k), r.referenced, NEW j \in r.nals, n[j].first,
                      NEW i \in Heads(n, p), j < i
               PROVE  Keeps(n[i], n[j].poc)
    BY DEF HeldAreKept
  <2>1. PICK q \in Pics(l) : r.nals = q.nals /\ r.referenced = q.referenced
    BY <1>11
  <2> QED
    BY <1>1, <2>1 DEF HeldAreKept
<1>16. ASSUME NEW q \in Pics(l), q.current, q.picOutput PROVE last < q.poc
  <2>1. PictureInv(n, Past(n, p), q)
    BY <1>13
  <2>2. PICK g \in Heads(n, p) : g \in q.nals
    BY <1>1, <2>1, HeadFacts
  <2>3. g \in Firsts(n) /\ g \in SlicesIn(n) /\ n[g].first /\ g \in Nat /\ g < p
    BY <1>1, <2>2, FirstsFacts DEF Heads
  <2>4. q.poc = n[g].poc /\ n[g].out
    BY <1>1, <1>16, <2>1, <2>2, <2>3 DEF OutputMarks, PictureInv
  <2>5. PICK m \in q.nals : \A x \in Past(n, p) : x <= m
    BY <1>16, <2>1 DEF PictureInv
  <2>6. m \in SlicesIn(n) /\ n[m].pic = n[g].pic /\ m \in Nat
    BY <1>2, <2>1, <2>2, <2>5 DEF PictureInv
  <2>7. ASSUME NEW x \in Heads(n, p) PROVE x < g \/ x = g
    <3>1. x \in SlicesIn(n) /\ x \in Nat /\ n[x].first /\ x <= m
      BY <1>1, <2>5, FirstsFacts DEF Heads
    <3>2. ~(g < x)
      <4> SUFFICES ASSUME g < x PROVE FALSE
        OBVIOUS
      <4> QED
        BY <1>1, <2>3, <2>6, <3>1, FirstSliceSeparates
    <3> QED
      BY <2>3, <3>1, <3>2
  <2>8. \A x \in Firsts(n) : ~(p <= x /\ x <= g)
    <3>1. \A x \in Firsts(n) : x \in Nat
      BY <1>1, FirstsFacts
    <3> QED
      BY <2>3, <3>1
  <2>9. g \in T
    BY <2>3, <2>4, <2>7, <2>8 DEF Coming
  <2> QED
    BY <1>1, <2>4, <2>9 DEF AfterLast
<1>17. AfterLast(n, U, k, last)
  <2>1. ASSUME NEW r \in Pics(k), r.output PROVE last < r.poc
    <3>1. PICK q \in Pics(l) :
            /\ r.poc = q.poc
            /\ IF q.current THEN r.output = q.picOutput ELSE r.output = q.output
      BY <1>11
    <3>2. CASE q.current
      BY <1>16, <2>1, <3>1, <3>2
    <3>3. CASE ~q.current
      BY <1>1, <2>1, <3>1, <3>3 DEF AfterLast
    <3> QED
      BY <3>2, <3>3
  <2> QED
    BY <1>1, <1>3, <1>6, <1>12, <2>1 DEF AfterLast
<1>18. WrittenInOrder(n, p, k, last, w)
  BY <1>1, <1>3, <1>6 DEF WrittenInOrder
<1>19. OutputInv(n, p, U, k, last, w)
  BY <1>1, <1>5, <1>6, <1>10, <1>14, <1>15, <1>17, <1>18 DEF OutputInv, ListMarks
<1> QED
  BY <1>4, <1>5, <1>19 DEF k, f

-----------------------------------------------------------------------------
(* One turn of the main loop.                                              *)

Limited(l) == ~TooMany(Waiting(l), ReferencedIn(l) \cup Waiting(l))

(* An empty list is within the limits.                                     *)
LEMMA NoneLimited ==
  ASSUME ValidSettings(settings)
  PROVE  Limited(<<>>)
<1>1. Waiting(<<>>) = {} /\ ReferencedIn(<<>>) = {}
  BY DEF Waiting, ReferencedIn
<1>2. ReferencedIn(<<>>) \cup Waiting(<<>>) = {} /\ Cardinality({}) = 0
  BY <1>1, FS_EmptySet
<1>3. NumReorderPics[SubLayer] \in Nat /\ MaxDecPicBuffering[SubLayer] \in Nat \ {0}
  BY LimitsAreNumbers
<1>4. ~TooMany({}, {})
  BY <1>2, <1>3 DEF TooMany
<1> QED
  BY <1>1, <1>2, <1>4 DEF Limited

(* m is a turn with the invariant, with no more pictures than l0 and those *)
(* written before, w0.                                                     *)
OutputTurn(m, n, p, T, l0, w0, known, limited) ==
  \E l, v, x : \E g \in Decs, c \in Apps :
    /\ m = Turn(l, g, c, v, x) /\ OutputInv(n, p, T, l, c.lastDisplay, v)
    /\ Extends(v, w0) /\ DOMAIN l \subseteq DOMAIN l0 /\ c.listKnown = known
    /\ limited => Limited(l)

LEMMA ExtendsTransitive ==
  ASSUME NEW u, NEW v, NEW w, Extends(u, v), Extends(v, w)
  PROVE  Extends(u, w)
  BY DEF Extends

(* xWriteOutput.                                                           *)
LEMMA WriteOutputTurn ==
  ASSUME NEW n, Orderly(n), NEW p \in Nat, NEW begun, NEW l0, NEW w0, NEW known, NEW limited, NEW m,
         OutputTurn(m, n, p, Coming(n, p, begun), l0, w0, known, limited)
  PROVE  OutputTurn(WriteOutput(m), n, p, Coming(n, p, begun), l0, w0, known, TRUE)
<1> DEFINE T == Coming(n, p, begun)
<1>1. PICK l, w, x : \E g \in Decs, c \in Apps :
        /\ m = Turn(l, g, c, w, x) /\ OutputInv(n, p, T, l, c.lastDisplay, w)
        /\ Extends(w, w0) /\ DOMAIN l \subseteq DOMAIN l0 /\ c.listKnown = known
  BY DEF OutputTurn
<1>2. PICK g \in Decs, a \in Apps :
        /\ m = Turn(l, g, a, w, x) /\ OutputInv(n, p, T, l, a.lastDisplay, w)
        /\ Extends(w, w0) /\ DOMAIN l \subseteq DOMAIN l0 /\ a.listKnown = known
  BY <1>1
<1>3. /\ l \in Seq(Pictures) /\ w \in Seq(WrittenPictures) /\ a.lastDisplay \in Int
      /\ ListMarks(n, p, T, l) /\ ListOrdered(l) /\ AfterLast(n, T, l, a.lastDisplay)
      /\ ValidSettings(settings) /\ Conforming(n, settings)
  BY <1>2 DEF OutputInv, ListMarks, Orderly
<1> DEFINE C == Bumped(l, a.lastDisplay)
           o == InOrder(l, C)
           k == Release(l, C)
           v == WithWritten(w, o)
           b == AfterWrite(l, a)
<1>4. WriteOutput(Turn(l, g, a, w, x)) = Turn(k, g, b, v, x)
  BY WriteOutputIs
<1>5. \A i \in Waiting(l) : a.lastDisplay < l[i].poc
  BY <1>3 DEF AfterLast, Waiting, Pics
<1> HIDE DEF C
<1>6. /\ C \in SUBSET Waiting(l)
      /\ \A i \in C, j \in Waiting(l) : j < i => j \in C
      /\ \A t \in Int :
           /\ \A i \in Waiting(l) : l[i].poc # t
           /\ ~TooMany(WaitingAbove(l, t), ReferencedIn(l) \cup WaitingAbove(l, t))
           => \A i \in C : l[i].poc < t
      /\ ~TooMany({}, ReferencedIn(l)) =>
           ~TooMany(Waiting(l) \ C, ReferencedIn(l) \cup (Waiting(l) \ C))
  <2>1. BumpedRight(l, C)
    BY <1>3, <1>5, BumpedFacts DEF C
  <2> QED
    BY <2>1 DEF BumpedRight
<1>7. /\ ~TooMany({}, ReferencedIn(l))
      /\ \A z \in T :
           /\ \A i \in Waiting(l) : l[i].poc # n[z].poc
           /\ ~TooMany(WaitingAbove(l, n[z].poc), ReferencedIn(l) \cup WaitingAbove(l, n[z].poc))
  BY <1>3, NotTooMany
<1>8. T \in SUBSET Firsts(n) /\ \A z \in T : n[z].poc \in Int
  BY <1>3, FirstsFacts DEF Coming
<1>17. /\ b.listKnown = a.listKnown /\ b.lastDisplay = IF o = <<>> THEN a.lastDisplay ELSE Last(o).poc
       /\ b \in Apps
  <2>1. b = [a EXCEPT !.lastDisplay = IF o = <<>> THEN @ ELSE Last(o).poc]
    BY DEF AfterWrite, C
  <2>2. o \in Seq(Pictures)
    BY <1>3, <1>6, WaitingPictures
  <2> HIDE DEF o, b
  <2>3. o # <<>> => Last(o) \in Pictures
    BY <2>2 DEF Last
  <2>4. o # <<>> => Last(o).poc \in Int
    BY <2>3 DEF Pictures
  <2> QED
    BY <2>1, <2>4 DEF Apps
<1> HIDE DEF T, b
<1>9. \A i \in C, z \in T : l[i].poc < n[z].poc
  BY <1>6, <1>7, <1>8
<1>10. /\ OutputInv(n, p, T, k, b.lastDisplay, v) /\ Extends(v, w)
  BY <1>2, <1>6, <1>8, <1>9, <1>17, WriteKeepsOrder
<1>11. /\ DOMAIN k = DOMAIN l
       /\ Waiting(k) = Waiting(l) \ C /\ ReferencedIn(k) = ReferencedIn(l)
  BY <1>3, <1>6, ReleaseMarks
<1>12. Limited(k)
  BY <1>6, <1>7, <1>11 DEF Limited
<1>13. Extends(v, w0)
  BY <1>2, <1>10, ExtendsTransitive
<1>14. DOMAIN k \subseteq DOMAIN l0 /\ b.listKnown = known
  BY <1>2, <1>11, <1>17
<1>15. WriteOutput(m) = Turn(k, g, b, v, x)
  BY <1>2, <1>4
<1>16. OutputTurn(WriteOutput(m), n, p, T, l0, w0, known, TRUE)
  BY <1>10, <1>12, <1>13, <1>14, <1>15, <1>17 DEF OutputTurn
<1> QED
  BY <1>16 DEF T

(* checkNoOutputPriorPics.                                                 *)
LEMMA CheckNoOutputPriorPicsTurn ==
  ASSUME NEW n, Orderly(n), NEW p, NEW T, NEW l0, NEW w0, NEW known, NEW limited, NEW m,
         OutputTurn(m, n, p, T, l0, w0, known, limited)
  PROVE  OutputTurn(CheckNoOutputPriorPics(m), n, p, T, l0, w0, known, limited)
<1>1. PICK l, w, x : \E g \in Decs, c \in Apps :
        /\ m = Turn(l, g, c, w, x) /\ OutputInv(n, p, T, l, c.lastDisplay, w)
        /\ Extends(w, w0) /\ DOMAIN l \subseteq DOMAIN l0 /\ c.listKnown = known
        /\ limited => Limited(l)
  BY DEF OutputTurn
<1>2. PICK g \in Decs, a \in Apps :
        /\ m = Turn(l, g, a, w, x) /\ OutputInv(n, p, T, l, a.lastDisplay, w)
        /\ Extends(w, w0) /\ DOMAIN l \subseteq DOMAIN l0 /\ a.listKnown = known
        /\ limited => Limited(l)
  BY <1>1
<1>3. l \in Seq(Pictures) /\ ValidSettings(settings)
  BY <1>2 DEF OutputInv, ListMarks, Orderly
<1>4. PICK k \in Seq(Pictures), e \in Decs :
         /\ IsTurn(CheckNoOutputPriorPics(Turn(l, g, a, w, x)), k, e, a, w)
         /\ k = KeepOnly(l, g.lastPOCNoOutputPriorPics)
  BY <1>3, CheckNoOutputPriorPicsFacts
<1>5. /\ OutputInv(n, p, T, k, a.lastDisplay, w) /\ DOMAIN k = DOMAIN l
      /\ Waiting(k) \subseteq Waiting(l) /\ ReferencedIn(k) = ReferencedIn(l)
  BY <1>2, <1>4, DiscardKeepsOrder
<1>6. limited => Limited(k)
  <2> SUFFICES ASSUME Limited(l), ~Limited(k) PROVE FALSE
    BY <1>2
  <2>1. /\ Waiting(l) \in SUBSET DOMAIN l /\ ReferencedIn(l) \cup Waiting(l) \in SUBSET DOMAIN l
        /\ Waiting(k) \in SUBSET Waiting(l)
        /\ ReferencedIn(k) \cup Waiting(k) \in SUBSET (ReferencedIn(l) \cup Waiting(l))
    BY <1>5 DEF Waiting, ReferencedIn
  <2>2. TooMany(Waiting(k), ReferencedIn(k) \cup Waiting(k))
    BY DEF Limited
  <2>3. TooMany(Waiting(l), ReferencedIn(l) \cup Waiting(l))
    BY <1>3, <2>1, <2>2, TooManyGrows
  <2> QED
    BY <2>3 DEF Limited
<1>7. PICK y : CheckNoOutputPriorPics(m) = Turn(k, e, a, w, y)
  BY <1>2, <1>4 DEF IsTurn
<1>8. DOMAIN k \subseteq DOMAIN l0
  BY <1>2, <1>5
<1> QED
  BY <1>2, <1>5, <1>6, <1>7, <1>8 DEF OutputTurn

(* xFlushOutput, before an IDR or BLA picture.                             *)
LEMMA FlushOutputTurn ==
  ASSUME NEW n, Orderly(n), NEW p \in Nat, NEW T, NEW l0, NEW w0, NEW known, NEW limited, NEW m,
         OutputTurn(m, n, p, T, l0, w0, known, limited)
  PROVE  OutputTurn(FlushOutput(m), n, p, {}, l0, w0, known, TRUE)
<1>1. PICK l, w, x : \E g \in Decs, c \in Apps :
        /\ m = Turn(l, g, c, w, x) /\ OutputInv(n, p, T, l, c.lastDisplay, w)
        /\ Extends(w, w0) /\ DOMAIN l \subseteq DOMAIN l0 /\ c.listKnown = known
  BY DEF OutputTurn
<1>2. PICK g \in Decs, a \in Apps :
        /\ m = Turn(l, g, a, w, x) /\ OutputInv(n, p, T, l, a.lastDisplay, w)
        /\ Extends(w, w0) /\ DOMAIN l \subseteq DOMAIN l0 /\ a.listKnown = known
  BY <1>1
<1> DEFINE v == WithWritten(w, InOrder(l, Waiting(l)))
           b == AfterFlush(l, a)
<1>3. FlushOutput(m) = Turn(<<>>, g, b, v, x)
  BY <1>2, FlushOutputIs
<1>4. /\ b \in Apps /\ b.listKnown = a.listKnown
      /\ b.lastDisplay = IF l = <<>> THEN a.lastDisplay ELSE -MAX_INT
  BY DEF AfterFlush, Apps, MAX_INT
<1> HIDE DEF v, b
<1>5. OutputInv(n, p, {}, <<>>, b.lastDisplay, v) /\ Extends(v, w)
  BY <1>2, <1>4, FlushKeepsOrder DEF v
<1>6. Limited(<<>>)
  BY NoneLimited DEF Orderly
<1>7. Extends(v, w0) /\ DOMAIN <<>> \subseteq DOMAIN l0 /\ b.listKnown = known
  <2>1. Extends(v, w0)
    BY <1>2, <1>5, ExtendsTransitive
  <2> QED
    BY <1>2, <1>4, <2>1
<1> QED
  BY <1>3, <1>4, <1>5, <1>6, <1>7 DEF OutputTurn

(* Completing the picture, when this turn of the loop does.                *)
LEMMA FinishPictureTurn ==
  ASSUME NEW newPicture \in BOOLEAN, NEW atEnd \in BOOLEAN, NEW l \in Seq(Pictures), NEW d \in Decs,
         NEW a \in Apps, NEW w, NEW x, NEW n, Orderly(n), NEW p \in Nat,
         OutputInv(n, p, Coming(n, p, Begun(d)), l, a.lastDisplay, w),
         Completes(newPicture, atEnd, d, a) => Begun(d) /\ Whole(n, Past(n, p)),
         NEW begun, begun = (Begun(d) /\ ~Completes(newPicture, atEnd, d, a)),
         NEW f, f = FinishPicture(nal, newPicture, atEnd, Turn(l, d, a, w, x))
  PROVE  OutputTurn(f, n, p, Coming(n, p, begun), l, w, f.app.listKnown, FALSE)
<1>1. PICK k \in Seq(Pictures), e \in Decs, b \in Apps :
        /\ f = Turn(k, e, b, w, x)
        /\ k = Finished(newPicture, atEnd, l, d, a) /\ b.lastDisplay = a.lastDisplay
  BY FinishPictureFacts
<1>2. OutputInv(n, p, Coming(n, p, begun), k, b.lastDisplay, w) /\ DOMAIN k = DOMAIN l
  <2>1. CASE Completes(newPicture, atEnd, d, a)
    <3>1. k = SortPicList(FilterPicture(l)) /\ Begun(d) /\ begun = FALSE /\ Begun(d) = TRUE
      BY <1>1, <2>1 DEF Finished, Begun, Decs
    <3>2. OutputInv(n, p, Coming(n, p, TRUE), l, a.lastDisplay, w)
      BY <3>1
    <3> QED
      BY <1>1, <2>1, <3>1, <3>2, FilterKeepsOrder
  <2>2. CASE ~Completes(newPicture, atEnd, d, a)
    <3>1. k = l /\ begun = Begun(d)
      BY <1>1, <2>2 DEF Finished, Begun, Decs
    <3> QED
      BY <1>1, <3>1
  <2> QED
    BY <2>1, <2>2
<1>3. Extends(w, w)
  BY DEF Extends
<1>4. f.app.listKnown = b.listKnown
  BY <1>1, TurnFields
<1> QED
  BY <1>1, <1>2, <1>3, <1>4 DEF OutputTurn

(* One turn of the main loop keeps the invariant of output.                *)
LEMMA LoopOutput ==
  ASSUME NEW newPicture \in BOOLEAN, NEW atEnd \in BOOLEAN,
         NEW l \in Seq(Pictures), NEW d \in Decs, NEW a \in Apps,
         written \in Seq(WrittenPictures), Loop(newPicture, atEnd, l, d, a),
         NEW n, Orderly(n), NEW p \in Nat,
         OutputInv(n, p, Coming(n, p, Begun(d)), l, a.lastDisplay, written),
         Completes(newPicture, atEnd, d, a) => Begun(d) /\ Whole(n, Past(n, p)),
         newPicture => ~atEnd /\ p \in Firsts(n) /\ nal = n[p]
  PROVE  /\ OutputInv(n, p, Coming(n, p, Begun(dec')), dpb', app'.lastDisplay, written')
         /\ Extends(written', written) /\ DOMAIN dpb' \subseteq DOMAIN l
         /\ newPicture /\ app'.listKnown => Limited(dpb')
         /\ Begun(dec') => Begun(d)
<1> DEFINE
      Ended(known, e) ==
        \E w \in {IF known /\ (nal.type = "EOS" \/ (nal.type \in SliceTypes /\ ~newPicture))
                THEN WriteOutput(e) ELSE e} :
          /\ dpb' = w.dpb /\ app' = w.app /\ written' = w.written /\ discarded' = w.discarded
          /\ dec' = IF known /\ nal.type = "EOS" THEN [w.dec EXCEPT !.firstSliceInPicture = FALSE] ELSE w.dec
      Flushed(known, c) ==
        \E e \in {IF known /\ newPicture /\ nal.type \in {"IDR", "BLA"} THEN FlushOutput(c) ELSE c} :
          Ended(known, e)
      Discarded(known, o) ==
        \E c \in {IF known /\ DiscardsPriorPics(nal, newPicture, o) THEN CheckNoOutputPriorPics(o) ELSE o} :
          Flushed(known, c)
      Output1(known, f) ==
        \E o \in {IF known /\ newPicture THEN WriteOutput(f) ELSE f} : Discarded(known, o)
      Turned(m) ==
        \E f \in {FinishPicture(nal, newPicture, atEnd, m)} :
        \E known \in {f.app.listKnown} : Output1(known, f)
<1>1. PICK m : m = Turn(l, d, a, written, discarded) /\ Turned(m)
  BY DEF Loop, Turn
<1> HIDE DEF Ended, Flushed, Discarded, Output1
<1>2. PICK f, known : /\ f = FinishPicture(nal, newPicture, atEnd, m)
                      /\ known = f.app.listKnown /\ Output1(known, f)
  BY <1>1
<1> HIDE DEF Turned
<1>3. PICK o : /\ o = IF known /\ newPicture THEN WriteOutput(f) ELSE f
               /\ Discarded(known, o)
  BY <1>2 DEF Output1
<1>4. PICK c : /\ c = IF known /\ DiscardsPriorPics(nal, newPicture, o) THEN CheckNoOutputPriorPics(o) ELSE o
               /\ Flushed(known, c)
  BY <1>3 DEF Discarded
<1>5. PICK e : /\ e = IF known /\ newPicture /\ nal.type \in {"IDR", "BLA"} THEN FlushOutput(c) ELSE c
               /\ Ended(known, e)
  BY <1>4 DEF Flushed
<1>6. PICK w : /\ w = IF known /\ (nal.type = "EOS" \/ (nal.type \in SliceTypes /\ ~newPicture))
                      THEN WriteOutput(e) ELSE e
               /\ dpb' = w.dpb /\ app' = w.app /\ written' = w.written
  BY <1>5 DEF Ended
<1> DEFINE begun == Begun(d) /\ ~Completes(newPicture, atEnd, d, a)
           T == Coming(n, p, begun)
           flush == known /\ newPicture /\ nal.type \in {"IDR", "BLA"}
           limited == known /\ newPicture
<1>7. OutputTurn(f, n, p, T, l, written, known, FALSE)
  BY ZenonT(40), <1>1, <1>2, FinishPictureTurn
<1> HIDE DEF begun
<1>8. OutputTurn(o, n, p, T, l, written, known, limited)
  <2>1. CASE limited
    <3>1. OutputTurn(o, n, p, T, l, written, known, TRUE)
      BY <1>3, <1>7, <2>1, WriteOutputTurn
    <3> QED
      BY <3>1 DEF OutputTurn
  <2>2. CASE ~limited
    BY <1>3, <1>7, <2>2 DEF OutputTurn
  <2> QED
    BY <2>1, <2>2
<1> HIDE DEF limited
<1>9. OutputTurn(c, n, p, T, l, written, known, limited)
  BY <1>4, <1>8, CheckNoOutputPriorPicsTurn
<1>10. newPicture => T = {} \/ ~Restarts(nal)
  <2> SUFFICES ASSUME newPicture, NEW z \in T, Restarts(nal) PROVE FALSE
    OBVIOUS
  <2>1. p \in Firsts(n) /\ nal = n[p]
    OBVIOUS
  <2>2. begun = FALSE
    BY DEF begun, Completes, Begun
  <2>3. z \in Firsts(n) /\ z \in Nat /\ \A k \in Heads(n, p) : k < z
    BY <2>2, FirstsFacts DEF Coming, Orderly
  <2>4. z \notin Heads(n, p)
    BY <2>3
  <2>5. p <= z
    BY <2>3, <2>4 DEF Heads
  <2> QED
    BY <2>1, <2>5 DEF Coming
<1>11. OutputTurn(e, n, p, T, l, written, known, limited)
  <2>1. CASE flush
    <3>1. OutputTurn(e, n, p, {}, l, written, known, TRUE)
      BY <1>5, <1>9, <2>1, FlushOutputTurn
    <3>2. T = {}
      BY <1>10, <2>1 DEF Restarts
    <3>3. OutputTurn(e, n, p, T, l, written, known, TRUE)
      BY <3>1, <3>2
    <3> QED
      BY <3>3 DEF OutputTurn
  <2>2. CASE ~flush
    BY <1>5, <1>9, <2>2
  <2> QED
    BY <2>1, <2>2
<1>12. OutputTurn(w, n, p, T, l, written, known, limited)
  <2>1. CASE known /\ (nal.type = "EOS" \/ (nal.type \in SliceTypes /\ ~newPicture))
    <3>1. OutputTurn(w, n, p, T, l, written, known, TRUE)
      BY <1>6, <1>11, <2>1, WriteOutputTurn
    <3> QED
      BY <3>1 DEF OutputTurn
  <2>2. CASE ~(known /\ (nal.type = "EOS" \/ (nal.type \in SliceTypes /\ ~newPicture)))
    BY <1>6, <1>11, <2>2
  <2> QED
    BY <2>1, <2>2
<1> HIDE DEF T
<1>13. /\ OutputInv(n, p, T, dpb', app'.lastDisplay, written')
       /\ Extends(written', written) /\ DOMAIN dpb' \subseteq DOMAIN l /\ app'.listKnown = known
       /\ limited => Limited(dpb')
  <2>1. PICK k, v, x : \E g \in Decs, b \in Apps :
          /\ w = Turn(k, g, b, v, x) /\ OutputInv(n, p, T, k, b.lastDisplay, v)
          /\ Extends(v, written) /\ DOMAIN k \subseteq DOMAIN l /\ b.listKnown = known
          /\ limited => Limited(k)
    BY <1>12 DEF OutputTurn
  <2>2. PICK g \in Decs, b \in Apps :
          /\ w = Turn(k, g, b, v, x) /\ OutputInv(n, p, T, k, b.lastDisplay, v)
          /\ Extends(v, written) /\ DOMAIN k \subseteq DOMAIN l /\ b.listKnown = known
          /\ limited => Limited(k)
    BY <2>1
  <2>3. dpb' = k /\ app' = b /\ written' = v
    BY <1>6, <2>2, TurnFields
  <2> QED
    BY <2>2, <2>3
<1>14. Begun(dec') => begun
  <2>1. /\ dec'.firstSliceInSequence <=> d.firstSliceInSequence \/ nal.type = "EOS"
        /\ dec'.firstSliceInPicture <=>
              /\ ~(nal.type = "EOS" /\ app'.listKnown)
              /\ \/ d.firstSliceInPicture
                 \/ /\ newPicture \/ atEnd \/ nal.type = "EOS"
                    /\ d.firstSliceInSequence \/ ~(a.loopFiltered /\ atEnd)
    BY LoopFacts
  <2> QED
    BY <2>1 DEF Begun, begun, Completes
<1>15. Coming(n, p, Begun(dec')) \in SUBSET T
  BY <1>14 DEF Coming, T
<1>16. OutputInv(n, p, Coming(n, p, Begun(dec')), dpb', app'.lastDisplay, written')
  BY <1>13, <1>15, OutputInvFewer
<1>17. newPicture /\ app'.listKnown => Limited(dpb')
  BY <1>13 DEF limited
<1> QED
  BY SMTT(30), <1>13, <1>14, <1>16, <1>17 DEF begun

-----------------------------------------------------------------------------
(* One NAL unit later.                                                     *)

(* A NAL unit that does not begin a picture changes neither the pictures   *)
(* begun nor those to come.                                                *)
LEMMA NoFirstSlice ==
  ASSUME NEW n, Conforming(n, settings), NEW p \in Nat, p \notin Firsts(n), NEW begun
  PROVE  Heads(n, p + 1) = Heads(n, p) /\ Coming(n, p + 1, begun) = Coming(n, p, begun)
<1>1. \A k \in Firsts(n) : k \in Nat /\ k # p /\ (k < p + 1 <=> k < p) /\ (p + 1 <= k <=> p <= k)
  <2>1. \A k \in Firsts(n) : k \in Nat /\ k # p
    BY FirstsFacts
  <2> QED
    BY <2>1
<1>2. Heads(n, p + 1) = Heads(n, p)
  BY <1>1 DEF Heads
<1> QED
  BY <1>1, <1>2 DEF Coming

(* A NAL unit that is not decoded keeps the invariant.                     *)
LEMMA PassedKeepsOutput ==
  ASSUME NEW n, Conforming(n, settings), NEW p \in Nat, p \notin Decoded(n), NEW begun,
         NEW l, NEW last, NEW w, OutputInv(n, p, Coming(n, p, begun), l, last, w)
  PROVE  OutputInv(n, p + 1, Coming(n, p + 1, begun), l, last, w)
<1>1. p \notin Firsts(n)
  BY FirstsFacts
<1>2. Heads(n, p + 1) = Heads(n, p) /\ Coming(n, p + 1, begun) = Coming(n, p, begun)
  BY <1>1, NoFirstSlice
<1>3. Past(n, p + 1) = Past(n, p)
  BY PastFacts
<1> QED
  BY <1>2, <1>3 DEF OutputInv, ListMarks, HeldAreKept, WrittenInOrder, Latest

(* The pictures to come when one is begun are it and those to come before, *)
(* unless it is an IDR or BLA picture.                                     *)
LEMMA NextFirstSlice ==
  ASSUME NEW n, Conforming(n, settings), NEW p \in Firsts(n)
  PROVE  /\ p \in Nat /\ Heads(n, p + 1) = Heads(n, p) \cup {p}
         /\ \A z \in Coming(n, p + 1, TRUE) : z \in Firsts(n) /\ z \in Nat /\ p <= z
         /\ ~Restarts(n[p]) => Coming(n, p + 1, TRUE) \subseteq Coming(n, p, FALSE)
         /\ \A f : Latest(n, p + 1, f) => Latest(n, p, f)
         /\ \A f : Latest(n, p + 1, f) /\ f < p => ~Restarts(n[p])
<1>1. p \in Nat /\ \A k \in Firsts(n) : k \in Nat
  BY FirstsFacts
<1>2. \A k \in Firsts(n) : (k < p + 1 <=> k < p \/ k = p) /\ (p <= k <=> k = p \/ p + 1 <= k)
  BY <1>1
<1>3. Heads(n, p + 1) = Heads(n, p) \cup {p}
  BY <1>2 DEF Heads
<1>4. ASSUME NEW z \in Coming(n, p + 1, TRUE) PROVE z \in Firsts(n) /\ z \in Nat /\ p <= z
  <2>1. z \in Firsts(n) /\ (p < z \/ p = z)
    BY <1>3 DEF Coming
  <2> QED
    BY <1>1, <2>1
<1>5. ASSUME NEW z \in Coming(n, p + 1, TRUE), ~Restarts(n[p]) PROVE z \in Coming(n, p, FALSE)
  <2>1. z \in Firsts(n) /\ n[z].out /\ \A m \in Firsts(n) : p + 1 <= m /\ m <= z => ~Restarts(n[m])
    BY DEF Coming
  <2>2. \A m \in Firsts(n) : p <= m /\ m <= z => ~Restarts(n[m])
    BY <1>2, <1>5, <2>1
  <2>3. \A k \in Heads(n, p) : k < z
    <3>1. p <= z /\ z \in Nat
      BY <1>4
    <3>2. \A k \in Heads(n, p) : k \in Nat /\ k < p
      BY <1>1 DEF Heads
    <3> QED
      BY <1>1, <3>1, <3>2
  <2> QED
    BY <2>1, <2>2, <2>3 DEF Coming
<1> QED
  BY <1>1, <1>3, <1>4, <1>5 DEF Latest

-----------------------------------------------------------------------------
(* The first slice of a picture.                                           *)

(* No picture of the list has the POC of a picture that begins.            *)
LEMMA NewPOC ==
  ASSUME NEW n, Conforming(n, settings), NEW p \in Firsts(n), ~Restarts(n[p]),
         NEW q, PictureInv(n, Past(n, p), q)
  PROVE  q.poc # n[p].poc
<1>1. p \in Nat
  BY FirstsFacts
<1>2. PICK f \in Heads(n, p) : f \in q.nals
  BY <1>1, HeadFacts
<1>3. f \in Firsts(n) /\ f < p /\ n[f].first
  BY <1>2, FirstsFacts DEF Heads
<1>4. q.poc = n[f].poc /\ Latest(n, p, f)
  BY <1>1, <1>2, <1>3, HeadFacts
<1>5. SUFFICES ASSUME n[f].poc = n[p].poc PROVE FALSE
  BY <1>4
<1>6. PICK h \in Firsts(n) : f < h /\ h <= p /\ Restarts(n[h])
  BY <1>3, <1>5, POCsApart
<1>7. h \in Nat /\ h # p
  BY <1>6, FirstsFacts
<1>8. h \in Heads(n, p)
  BY <1>1, <1>6, <1>7 DEF Heads
<1> QED
  BY <1>4, <1>6, <1>8 DEF Latest

(* The list with the new picture.                                          *)
LEMMA FirstSliceMarks ==
  ASSUME NEW n, Orderly(n), NEW p \in Firsts(n), p = pos,
         NEW l, ListMarks(n, p, Coming(n, p, FALSE), l), Restarts(n[p]) => l = <<>>,
         NEW s \in HeaderSlices, s.poc = n[p].poc, s.st = IF Restarts(n[p]) THEN <<>> ELSE n[p].st,
         s.picOutput => n[p].out,
         NEW k \in Seq(Pictures), ListInv(n, Past(n, p + 1), k), WithPicture(k, l, s)
  PROVE  ListMarks(n, p + 1, Coming(n, p + 1, TRUE), k)
<1> DEFINE T == Coming(n, p + 1, TRUE)
<1>1. /\ Conforming(n, settings) /\ l \in Seq(Pictures) /\ ListInv(n, Past(n, p), l) /\ ListOrdered(l)
      /\ OutputMarks(n, Coming(n, p, FALSE), l) /\ HeldAreKept(n, p, l)
  BY DEF ListMarks, Orderly
<1>2. /\ p \in Nat /\ Heads(n, p + 1) = Heads(n, p) \cup {p}
      /\ \A z \in T : z \in Firsts(n) /\ z \in Nat /\ p <= z
  BY <1>1, NextFirstSlice
<1>3. PICK i \in 1..(Len(l) + 1) :
        /\ DOMAIN k = DOMAIN l \cup {i} /\ IsNew(k[i], s, p)
        /\ \A j \in DOMAIN k : j # i => j \in DOMAIN l /\ Marked(k[j], l[j], s)
  BY DEF WithPicture
<1>4. \A j \in DOMAIN l : /\ l[j] \in Pics(l) /\ PictureInv(n, Past(n, p), l[j])
                          /\ ~Restarts(n[p]) /\ l[j].poc # n[p].poc
  <2> TAKE j \in DOMAIN l
  <2>1. l[j] \in Pics(l)
    BY DEF Pics
  <2>2. PictureInv(n, Past(n, p), l[j])
    BY <1>1, <2>1 DEF ListInv
  <2>3. ~Restarts(n[p])
    OBVIOUS
  <2> QED
    BY <1>1, <2>1, <2>2, <2>3, NewPOC
<1>5. \A r \in Pics(k) : IsNew(r, s, p) \/ \E q \in Pics(l) : Marked(r, q, s)
  BY <1>3, <1>4 DEF Pics
<1>6. \A q \in Pics(l) : /\ q.nals \subseteq Past(n, p) /\ PictureInv(n, Past(n, p), q)
                         /\ ~Restarts(n[p]) /\ q.poc # n[p].poc
  BY SMTT(30), <1>4 DEF Pics, PictureInv
<1>7. \A x \in Past(n, p) : x \in Nat /\ x < p
  BY <1>1, <1>2, PastFacts
<1>8. ListOrdered(k)
  <2>1. k[i].poc = n[p].poc /\ ~k[i].output
    BY <1>3 DEF IsNew
  <2>2. \A j \in DOMAIN k : j # i => k[j].poc = l[j].poc /\ k[j].output = l[j].output /\ j \in DOMAIN l
    BY <1>3 DEF Marked
  <2> QED
    BY <1>1, <1>4, <2>1, <2>2 DEF ListOrdered
<1> HIDE DEF T
<1>9. OutputMarks(n, T, k)
  <2> SUFFICES ASSUME NEW r \in Pics(k)
               PROVE  /\ r.output => r.picOutput /\ r.nals \cap T = {}
                      /\ r.picOutput => \A f \in r.nals : n[f].first => n[f].out
    BY DEF OutputMarks
  <2>1. CASE IsNew(r, s, p)
    BY <2>1 DEF IsNew
  <2>2. ASSUME NEW q \in Pics(l), Marked(r, q, s) PROVE r.output => r.nals \cap T = {}
    <3>1. r.nals \subseteq Past(n, p)
      BY <1>6, <2>2 DEF Marked
    <3>2. \A x \in T : ~(x < p)
      BY <1>2
    <3> QED
      BY <1>7, <3>1, <3>2
  <2>3. ASSUME NEW q \in Pics(l), Marked(r, q, s)
        PROVE  /\ r.output => r.picOutput
               /\ r.picOutput => \A f \in r.nals : n[f].first => n[f].out
    <3>1. r.nals = q.nals /\ r.output = q.output /\ r.picOutput = q.picOutput
      BY <2>3 DEF Marked
    <3> QED
      BY <1>1, <3>1 DEF OutputMarks
  <2> QED
    BY <1>5, <2>1, <2>2, <2>3
<1>10. HeldAreKept(n, p + 1, k)
  <2> SUFFICES ASSUME NEW r \in Pics(k), r.referenced, NEW j \in r.nals, n[j].first,
                      NEW h \in Heads(n, p + 1), j < h
               PROVE  Keeps(n[h], n[j].poc)
    BY DEF HeldAreKept
  <2>1. ~IsNew(r, s, p)
    <3>1. h \in Nat /\ (h < p \/ h = p)
      BY <1>1, <1>2, FirstsFacts DEF Heads
    <3>2. ~(p < h)
      BY <1>2, <3>1
    <3> QED
      BY <3>2 DEF IsNew
  <2>2. PICK q \in Pics(l) : Marked(r, q, s)
    BY <1>5, <2>1
  <2>3. r.nals = q.nals /\ q.referenced
        /\ (q.poc = s.poc \/ \E e \in DOMAIN s.st : q.poc = s.poc + s.st[e].delta)
    BY <2>2 DEF Marked
  <2>4. CASE h \in Heads(n, p)
    BY <1>1, <2>3, <2>4 DEF HeldAreKept
  <2>5. CASE h = p
    <3>1. q.poc = n[j].poc
      BY <1>6, <2>3 DEF PictureInv
    <3>2. s.st = n[p].st /\ ~Restarts(n[p])
      BY <1>6
    <3>3. \E e \in DOMAIN n[p].st : n[j].poc = n[p].poc + n[p].st[e].delta
      BY <1>6, <2>3, <3>1, <3>2
    <3> QED
      BY <2>5, <3>2, <3>3 DEF Keeps, Restarts
  <2> QED
    BY <1>2, <2>4, <2>5
<1> QED
  BY <1>8, <1>9, <1>10 DEF ListMarks, T

(* The first slice of a picture keeps the invariant.                       *)
LEMMA FirstSliceKeepsOutput ==
  ASSUME NEW n, Orderly(n), NEW p \in Firsts(n), p = pos,
         NEW l, NEW last, NEW w, OutputInv(n, p, Coming(n, p, FALSE), l, last, w),
         Restarts(n[p]) => l = <<>>, l = <<>> /\ Past(n, p) # {} => Restarts(n[p]),
         NEW s \in HeaderSlices, s.poc = n[p].poc, s.st = IF Restarts(n[p]) THEN <<>> ELSE n[p].st,
         s.picOutput => n[p].out,
         NEW k \in Seq(Pictures), k # <<>>, ListInv(n, Past(n, p + 1), k), WithPicture(k, l, s)
  PROVE  OutputInv(n, p + 1, Coming(n, p + 1, TRUE), k, last, w)
<1> DEFINE T == Coming(n, p + 1, TRUE)
<1>1. /\ Conforming(n, settings) /\ l \in Seq(Pictures) /\ ListMarks(n, p, Coming(n, p, FALSE), l)
      /\ last \in Int /\ w \in Seq(WrittenPictures)
      /\ AfterLast(n, Coming(n, p, FALSE), l, last) /\ WrittenInOrder(n, p, l, last, w)
  BY DEF OutputInv, ListMarks, Orderly
<1>2. ListMarks(n, p + 1, T, k)
  BY <1>1, FirstSliceMarks
<1>3. /\ p \in Nat /\ \A z \in T : z \in Firsts(n)
      /\ ~Restarts(n[p]) => T \subseteq Coming(n, p, FALSE)
      /\ \A f : Latest(n, p + 1, f) => Latest(n, p, f)
      /\ \A f : Latest(n, p + 1, f) /\ f < p => ~Restarts(n[p])
  BY <1>1, NextFirstSlice
<1>4. p \in Decoded(n) /\ Past(n, p + 1) = Past(n, p) \cup {p} /\ \A x \in Past(n, p) : x < p
  BY <1>1, <1>3, FirstsFacts, PastFacts
<1> HIDE DEF T
<1>5. AfterLast(n, T, k, last)
  <2>1. ASSUME NEW r \in Pics(k), r.output PROVE last < r.poc
    <3>1. PICK q \in Pics(l) : Marked(r, q, s)
      <4>1. PICK j \in DOMAIN k : r = k[j]
        BY DEF Pics
      <4>2. PICK i \in 1..(Len(l) + 1) :
              /\ IsNew(k[i], s, pos)
              /\ \A m \in DOMAIN k : m # i => m \in DOMAIN l /\ Marked(k[m], l[m], s)
        BY DEF WithPicture
      <4>3. j # i
        BY <2>1, <4>1, <4>2 DEF IsNew
      <4> QED
        BY <4>1, <4>2, <4>3 DEF Pics
    <3>2. r.output = q.output /\ r.poc = q.poc
      BY <3>1 DEF Marked
    <3> QED
      BY <1>1, <2>1, <3>2 DEF AfterLast
  <2>2. ASSUME NEW z \in T PROVE last < n[z].poc
    <3>1. CASE Restarts(n[p])
      <4>1. last = -MAX_INT
        BY <1>1, <3>1 DEF AfterLast
      <4>2. n[z].poc # -MAX_INT
        BY <1>3 DEF Orderly, OutputConforming, LimitsObserved, Firsts
      <4>3. n[z].poc \in Int /\ -MAX_INT \in Int /\ -MAX_INT <= n[z].poc
        BY <1>1, <1>3, FirstsFacts, POCRange
      <4> QED
        BY <4>1, <4>2, <4>3
    <3>2. CASE ~Restarts(n[p])
      BY <1>1, <1>3, <3>2 DEF AfterLast
    <3> QED
      BY <3>1, <3>2
  <2> QED
    BY <2>1, <2>2 DEF AfterLast
<1>6. WrittenInOrder(n, p + 1, k, last, w)
  <2>1. \A j \in DOMAIN w : w[j].nals # {} /\ w[j].nals \subseteq Past(n, p)
    BY <1>1 DEF WrittenInOrder
  <2>2. ASSUME NEW j \in DOMAIN w, NEW f \in w[j].nals, n[f].first, Latest(n, p + 1, f)
        PROVE  n[f].poc <= last
    <3>1. f \in Past(n, p) /\ f < p
      BY <1>4, <2>1
    <3>2. ~Restarts(n[p]) /\ Latest(n, p, f)
      BY <1>3, <2>2, <3>1
    <3>3. l # <<>>
      BY <3>1, <3>2
    <3> QED
      BY <1>1, <2>2, <3>2, <3>3 DEF WrittenInOrder
  <2> QED
    BY <1>1, <1>4, <2>1, <2>2 DEF WrittenInOrder
<1> QED
  BY <1>1, <1>2, <1>5, <1>6 DEF OutputInv, T

-----------------------------------------------------------------------------
(* A further slice of a picture.                                           *)

LEMMA FurtherSliceKeepsOutput ==
  ASSUME NEW n, Orderly(n), NEW p \in Decoded(n), ~n[p].first,
         NEW l, NEW last, NEW w, OutputInv(n, p, Coming(n, p, TRUE), l, last, w),
         NEW k \in Seq(Pictures), k # <<>>, ListInv(n, Past(n, p + 1), k),
         DOMAIN k = DOMAIN l, \A i \in DOMAIN l : Added(k[i], l[i], p)
  PROVE  OutputInv(n, p + 1, Coming(n, p + 1, TRUE), k, last, w)
<1> DEFINE T == Coming(n, p, TRUE)
<1>1. /\ Conforming(n, settings) /\ l \in Seq(Pictures) /\ ListOrdered(l)
      /\ OutputMarks(n, T, l) /\ HeldAreKept(n, p, l)
      /\ last \in Int /\ w \in Seq(WrittenPictures)
      /\ AfterLast(n, T, l, last) /\ WrittenInOrder(n, p, l, last, w)
  BY DEF OutputInv, ListMarks, Orderly
<1>2. p \in Nat /\ p \notin Firsts(n)
  BY <1>1, FirstsFacts, ConformingNALs DEF Decoded, Decodable
<1>3. Heads(n, p + 1) = Heads(n, p) /\ Coming(n, p + 1, TRUE) = T
  BY <1>1, <1>2, NoFirstSlice
<1>4. Past(n, p + 1) = Past(n, p) \cup {p}
  BY <1>1, <1>2, PastFacts
<1>5. T \subseteq Firsts(n)
  BY DEF Coming
<1> HIDE DEF T
<1>6. \A r \in Pics(k) : \E q \in Pics(l) : Added(r, q, p)
  BY DEF Pics
<1>7. \A r, q : Added(r, q, p) =>
        /\ r.nals \subseteq q.nals \cup {p} /\ r.poc = q.poc /\ r.output = q.output
        /\ r.picOutput = q.picOutput /\ r.referenced = q.referenced
  BY DEF Added
<1>8. ListOrdered(k)
  BY <1>1, <1>7 DEF ListOrdered
<1>9. OutputMarks(n, T, k)
  <2> SUFFICES ASSUME NEW r \in Pics(k)
               PROVE  /\ r.output => r.picOutput /\ r.nals \cap T = {}
                      /\ r.picOutput => \A f \in r.nals : n[f].first => n[f].out
    BY DEF OutputMarks
  <2>1. PICK q \in Pics(l) : Added(r, q, p)
    BY <1>6
  <2>2. /\ r.nals \subseteq q.nals \cup {p} /\ r.output = q.output /\ r.picOutput = q.picOutput
    BY <1>7, <2>1
  <2>3. /\ q.output => q.picOutput /\ q.nals \cap T = {}
        /\ q.picOutput => \A f \in q.nals : n[f].first => n[f].out
    BY <1>1 DEF OutputMarks
  <2> QED
    BY <1>2, <1>5, <2>2, <2>3
<1>10. HeldAreKept(n, p + 1, k)
  <2> SUFFICES ASSUME NEW r \in Pics(k), r.referenced, NEW j \in r.nals, n[j].first,
                      NEW h \in Heads(n, p + 1), j < h
               PROVE  Keeps(n[h], n[j].poc)
    BY DEF HeldAreKept
  <2>1. PICK q \in Pics(l) : Added(r, q, p)
    BY <1>6
  <2>2. j \in q.nals /\ q.referenced
    BY <1>7, <2>1
  <2> QED
    BY <1>1, <1>3, <2>2 DEF HeldAreKept
<1>11. AfterLast(n, T, k, last)
  BY <1>1, <1>6, <1>7 DEF AfterLast
<1>12. WrittenInOrder(n, p + 1, k, last, w)
  <2>1. l # <<>>
    BY PicturesIn, <1>1
  <2> QED
    BY <1>1, <1>3, <1>4, <2>1 DEF WrittenInOrder, Latest
<1>13. ListMarks(n, p + 1, T, k)
  BY <1>8, <1>9, <1>10 DEF ListMarks
<1> QED
  BY <1>1, <1>3, <1>11, <1>12, <1>13 DEF OutputInv

-----------------------------------------------------------------------------
(* The actions.                                                            *)

OutputNow(T) == OutputInv(stream, pos, T, dpb, app.lastDisplay, written)
OutputThen(T) == OutputInv(stream, pos', T, dpb', app'.lastDisplay, written')

(* A slice that is not to be output is not output.                         *)
LEMMA HeaderOutput ==
  ASSUME NEW x \in SliceNALs, ~x.dep, NEW d, NEW h
  PROVE  HeaderSlice(x, d, h).picOutput => x.out
<1> DEFINE y == [x EXCEPT !.lt = LongTermPOCs(x, HeaderPOC(x, d))]
<1>1. y.out = x.out
  BY DEF SliceNALs
<1>2. HeaderSlice(x, d, h).picOutput => y.out
  BY DEF HeaderSlice
<1> QED
  BY <1>1, <1>2

(* A NAL unit that is not decoded keeps the invariant.                     *)
LEMMA PassesOutput ==
  ASSUME Orderly(stream), Now, Passes, OutputNow(Coming(stream, pos, Begun(dec)))
  PROVE  /\ OutputThen(Coming(stream, pos', Begun(dec')))
         /\ Extends(written', written) /\ DOMAIN dpb' \subseteq DOMAIN dpb
         /\ dec'.firstSliceInPicture /\ pos' <= Len(stream) => Limited(dpb')
<1>1. /\ ValidSettings(settings) /\ Conforming(stream, settings) /\ Len(stream) \in Nat
      /\ pos \in Nat /\ pos # 0 /\ dpb \in Seq(Pictures) /\ app \in Apps /\ written \in Seq(WrittenPictures)
      /\ pos <= Len(stream) /\ pos \notin Decoded(stream) /\ pos' = pos + 1
      /\ pos \notin Firsts(stream) /\ pos + 1 \in Nat
      /\ StartInv(stream, pos, dpb, dec, app)
      /\ dec.firstSliceInSequence <=> NoneSince(stream, pos)
  BY ConformingNALs, FirstsFacts DEF Orderly, Now, DecoderInv, Passes, Registers
<1>2. PICK d \in Decs : /\ d.firstSliceInPicture = dec.firstSliceInPicture
                        /\ d.firstSliceInSequence = dec.firstSliceInSequence
                        /\ Loop(FALSE, AtEnd, dpb, d, app)
  BY DEF Passes
<1>3. OutputInv(stream, pos + 1, Coming(stream, pos + 1, Begun(d)), dpb, app.lastDisplay, written)
  <2>1. Begun(d) <=> Begun(dec)
    BY <1>2 DEF Begun
  <2>2. Coming(stream, pos, Begun(d)) = Coming(stream, pos, Begun(dec))
    BY <2>1 DEF Coming
  <2>3. OutputInv(stream, pos, Coming(stream, pos, Begun(d)), dpb, app.lastDisplay, written)
    BY <2>2 DEF OutputNow
  <2> QED
    BY <1>1, <2>3, PassedKeepsOutput
<1>4. ASSUME Completes(FALSE, AtEnd, d, app) PROVE Begun(d) /\ Whole(stream, Past(stream, pos + 1))
  <2>1. (AtEnd \/ nal.type = "EOS") /\ ~d.firstSliceInSequence
    BY <1>4 DEF Completes
  <2>2. Whole(stream, Past(stream, pos + 1))
    <3>1. pos + 1 > Len(stream) \/ (pos + 1 > 1 /\ stream[(pos + 1) - 1].type = "EOS")
      BY <1>1, <2>1 DEF AtEnd, nal
    <3> QED
      BY <1>1, <3>1, PastIsWhole
  <2>3. ~dec.firstSliceInPicture
    <3>1. Past(stream, pos) # {}
      BY <1>1, <1>2, <2>1, NothingYet
    <3> QED
      BY <1>1, <3>1 DEF StartInv
  <2> QED
    BY <1>2, <2>1, <2>2, <2>3 DEF Begun
<1>5. AtEnd \in BOOLEAN
  BY DEF AtEnd
<1>6. /\ OutputInv(stream, pos + 1, Coming(stream, pos + 1, Begun(dec')), dpb', app'.lastDisplay, written')
      /\ Extends(written', written) /\ DOMAIN dpb' \subseteq DOMAIN dpb
  BY <1>1, <1>2, <1>3, <1>4, <1>5, LoopOutput
<1>7. dec'.firstSliceInPicture /\ pos' <= Len(stream) => Limited(dpb')
  BY <1>1, NoneLimited DEF Passes, StillWaits
<1> QED
  BY <1>1, <1>6, <1>7 DEF OutputThen

(* Finding a new picture keeps the invariant: the one before is complete.  *)
LEMMA FindsOutput ==
  ASSUME Orderly(stream), Now, Finds, OutputNow(Coming(stream, pos, Begun(dec)))
  PROVE  /\ OutputThen(Coming(stream, pos', Begun(dec')))
         /\ Extends(written', written) /\ DOMAIN dpb' \subseteq DOMAIN dpb
         /\ Limited(dpb')
<1>1. /\ Conforming(stream, settings) /\ pos \in Nat
      /\ dpb \in Seq(Pictures) /\ app \in Apps /\ written \in Seq(WrittenPictures)
      /\ pos \in Decoded(stream) /\ stream[pos].first /\ pos' = pos /\ app'.listKnown
  BY DEF Orderly, Now, DecoderInv, Finds
<1>2. PICK d \in Decs : /\ d.firstSliceInPicture = dec.firstSliceInPicture
                        /\ d.firstSliceInSequence = dec.firstSliceInSequence
                        /\ ~d.firstSliceInPicture
                        /\ Loop(TRUE, FALSE, dpb, d, app)
  BY DEF Finds
<1>3. OutputInv(stream, pos, Coming(stream, pos, Begun(d)), dpb, app.lastDisplay, written)
  <2>1. Begun(d) <=> Begun(dec)
    BY <1>2 DEF Begun
  <2>2. Coming(stream, pos, Begun(d)) = Coming(stream, pos, Begun(dec))
    BY <2>1 DEF Coming
  <2> QED
    BY <2>2 DEF OutputNow
<1>4. pos \in Firsts(stream) /\ nal = stream[pos] /\ pos \in SlicesIn(stream)
  BY <1>1, FirstsFacts DEF nal
<1>5. Whole(stream, Past(stream, pos))
  BY <1>1, <1>4, PastIsWhole
<1>6. Completes(TRUE, FALSE, d, app) => Begun(d)
  BY <1>2 DEF Completes, Begun
<1>7. /\ OutputInv(stream, pos, Coming(stream, pos, Begun(dec')), dpb', app'.lastDisplay, written')
      /\ Extends(written', written) /\ DOMAIN dpb' \subseteq DOMAIN dpb
      /\ Limited(dpb')
  BY <1>1, <1>2, <1>3, <1>4, <1>5, <1>6, LoopOutput
<1> QED
  BY <1>1, <1>7 DEF OutputThen

-----------------------------------------------------------------------------
(* The size of the list.                                                   *)

HighestLayer == Cardinality(DOMAIN MaxDecPicBuffering) - 1

(* The highest layer has the most pictures.                                *)
LEMMA HighestHasMost ==
  ASSUME ValidSettings(settings), LayersNested(settings), NEW t \in DOMAIN MaxDecPicBuffering
  PROVE  /\ MaxDecPicBuffering[t] \in Nat /\ MaxDecPicBuffering[HighestLayer] \in Nat
         /\ MaxDecPicBuffering[t] <= MaxDecPicBuffering[HighestLayer]
<1>1. /\ Cardinality(DOMAIN MaxDecPicBuffering) \in Nat \ {0}
      /\ DOMAIN MaxDecPicBuffering = 0..HighestLayer
      /\ \A u \in DOMAIN MaxDecPicBuffering : MaxDecPicBuffering[u] \in Nat
  BY DEF ValidSettings, MaxDecPicBuffering, HighestLayer
<1>2. HighestLayer \in DOMAIN MaxDecPicBuffering /\ t <= HighestLayer
  BY <1>1 DEF HighestLayer
<1> QED
  BY <1>1, <1>2 DEF LayersNested, MaxDecPicBuffering

LEMMA LenOfList ==
  ASSUME NEW k \in Seq(Pictures)
  PROVE  Len(k) \in Nat /\ DOMAIN k = 1..Len(k)
OBVIOUS

(* The list grows beyond the limit only when it is full of pictures that   *)
(* wait or are held, which are no more than the limit.                     *)
LEMMA NewBufferFits ==
  ASSUME ValidSettings(settings), LayersNested(settings), NEW tid \in DOMAIN MaxDecPicBuffering,
         NEW l \in Seq(Pictures), Limited(l), Len(l) <= MaxDecPicBuffering[HighestLayer] + 1,
         NEW i, PlaceFor(l, tid, i), NEW k \in Seq(Pictures), DOMAIN k = DOMAIN l \cup {i}
  PROVE  Len(k) <= MaxDecPicBuffering[HighestLayer] + 1
<1>1. /\ MaxDecPicBuffering[tid] \in Nat /\ MaxDecPicBuffering[HighestLayer] \in Nat
      /\ MaxDecPicBuffering[tid] <= MaxDecPicBuffering[HighestLayer]
  BY HighestHasMost
<1>2. PICK a \in Nat : a = Len(l) /\ DOMAIN l = 1..a
  OBVIOUS
<1>3. PICK b \in Nat : b = Len(k) /\ DOMAIN k = 1..b
  BY LenOfList
<1>4. CASE i \in DOMAIN l
  <2>1. 1..b = 1..a
    BY <1>2, <1>3, <1>4
  <2>2. b = a
    BY <2>1, <1>2, <1>3
  <2> QED
    BY <1>2, <1>3, <2>2
<1>5. CASE i = a + 1
  <2>1. \A z : z \in 1..b <=> z \in 1..a \/ z = a + 1
    BY <1>2, <1>3, <1>5
  <2>2. b <= a + 1
    <3>1. b # 0 => b \in 1..a \/ b = a + 1
      BY <1>3, <2>1
    <3> QED
      BY <1>2, <1>3, <3>1
  <2>3. a <= MaxDecPicBuffering[HighestLayer]
    <3>1. CASE a < MaxDecPicBuffering[tid]
      BY <1>1, <1>2, <3>1
    <3>2. CASE \A j \in DOMAIN l : ~IsReusable(l[j])
      <4>1. DOMAIN l = ReferencedIn(l) \cup Waiting(l)
        BY <3>2 DEF IsReusable, ReferencedIn, Waiting
      <4>2. Cardinality(DOMAIN l) = a
        <5>1. Cardinality(1..a) = a
          <6>1. Cardinality(1..a) = IF 1 > a THEN 0 ELSE a - 1 + 1
            BY FS_Interval
          <6> QED
            BY <6>1
        <5> QED
          BY <1>2, <5>1
      <4>3. ~(a > MaxDecPicBuffering[SubLayer])
        BY <4>1, <4>2 DEF Limited, TooMany
      <4>4. /\ MaxDecPicBuffering[SubLayer] \in Nat
            /\ MaxDecPicBuffering[SubLayer] <= MaxDecPicBuffering[HighestLayer]
        BY HighestHasMost, LimitsAreNumbers
      <4> QED
        BY <1>1, <1>2, <4>3, <4>4
    <3>3. a + 1 \notin DOMAIN l
      BY <1>2
    <3>4. Len(l) < MaxDecPicBuffering[tid] \/ \A j \in DOMAIN l : ~IsReusable(l[j])
      BY <1>5, <3>3 DEF PlaceFor
    <3> QED
      BY <1>2, <3>1, <3>2, <3>4
  <2> QED
    BY <1>1, <1>2, <1>3, <2>2, <2>3
<1> QED
  BY <1>2, <1>4, <1>5 DEF PlaceFor

(* The list with the slice added keeps the invariant of output.            *)
LEMMA AddedOutput ==
  ASSUME Orderly(stream), Now, Decodes, OutputNow(Coming(stream, pos, Begun(dec))),
         dec.firstSliceInPicture => Limited(dpb), Len(dpb) <= MaxDecPicBuffering[HighestLayer] + 1,
         NEW s \in HeaderSlices, Adds(s)
  PROVE  /\ OutputInv(stream, pos + 1, Coming(stream, pos + 1, TRUE), ListOfSlice(s), app.lastDisplay, written)
         /\ Len(ListOfSlice(s)) <= MaxDecPicBuffering[HighestLayer] + 1
<1> DEFINE k == ListOfSlice(s)
<1>1. /\ ValidSettings(settings) /\ Conforming(stream, settings) /\ LayersNested(settings)
      /\ LimitsObserved(stream, settings)
      /\ pos \in Nat /\ dpb \in Seq(Pictures) /\ ListInv(stream, Past(stream, pos), dpb)
      /\ StartInv(stream, pos, dpb, dec, app) /\ dec \in Decs
      /\ pos <= Len(stream) /\ pos \in Decoded(stream) /\ AtSlice(stream, pos, dec)
      /\ dec.firstSliceInPicture <=> stream[pos].first
      /\ dpb = <<>> /\ Past(stream, pos) # {} => Restarts(stream[pos])
  BY DEF Orderly, OutputConforming, Now, DecoderInv, Decodes
<1>2. /\ s = HeaderSlice(nal, dec, Header)
      /\ s.poc = stream[pos].poc /\ s.st = IF Restarts(stream[pos]) THEN <<>> ELSE stream[pos].st
      /\ k \in Seq(Pictures) /\ k # <<>> /\ ListInv(stream, Past(stream, pos + 1), k)
  BY DEF Adds
<1>3. /\ pos \in SlicesIn(stream) /\ nal = stream[pos] /\ nal \in SliceNALs /\ nal.tid \in Nat
  <2>1. pos \in SlicesIn(stream) /\ nal = stream[pos]
    BY <1>1 DEF Decoded, Decodable, nal
  <2>2. nal \in SliceNALs
    BY <1>1, <2>1, ConformingNALs
  <2> QED
    BY <2>1, <2>2 DEF SliceNALs
<1>4. \A q \in Pics(dpb) : ~q.longTerm
  BY <1>1 DEF ListInv, PictureInv
<1>5. CASE stream[pos].first
  <2>1. pos \in Firsts(stream) /\ dec.firstSliceInPicture
    BY <1>1, <1>5, FirstsFacts
  <2>2. WithPicture(k, dpb, s)
    BY <1>1, <1>4, <2>1, StartPictureFacts DEF ListOfSlice
  <2>3. Restarts(stream[pos]) => dpb = <<>>
    BY <1>1, <2>1 DEF StartInv
  <2>4. s.picOutput => stream[pos].out
    <3>1. ~nal.dep
      BY <1>1, <1>3, <1>5, FirstSlice
    <3> QED
      BY <1>2, <1>3, <3>1, HeaderOutput
  <2>5. OutputInv(stream, pos, Coming(stream, pos, FALSE), dpb, app.lastDisplay, written)
    <3>1. ~Begun(dec)
      BY <2>1 DEF Begun
    <3>2. Coming(stream, pos, Begun(dec)) = Coming(stream, pos, FALSE)
      BY <3>1 DEF Coming
    <3> QED
      BY <3>2 DEF OutputNow
  <2>6. OutputInv(stream, pos + 1, Coming(stream, pos + 1, TRUE), k, app.lastDisplay, written)
    BY <1>1, <1>2, <2>1, <2>2, <2>3, <2>4, <2>5, FirstSliceKeepsOutput
  <2>7. stream[pos].tid \in DOMAIN MaxDecPicBuffering
    BY <1>1, <2>1 DEF LimitsObserved, Firsts, MaxDecPicBuffering
  <2>8. PICK i \in 1..(Len(dpb) + 1) : PlaceFor(dpb, nal.tid, i) /\ DOMAIN k = DOMAIN dpb \cup {i}
    BY <2>2 DEF WithPicture
  <2>9. Len(k) <= MaxDecPicBuffering[HighestLayer] + 1
    BY <1>1, <1>2, <1>3, <2>1, <2>7, <2>8, NewBufferFits
  <2> QED
    BY <2>6, <2>9
<1>6. CASE ~stream[pos].first
  <2>1. ~dec.firstSliceInPicture /\ ~dec.firstSliceInSequence
    BY <1>1, <1>6, DependentSlice
  <2>2. k = AddSlice(dpb)
    BY <2>1 DEF ListOfSlice
  <2>3. DOMAIN k = DOMAIN dpb /\ \A i \in DOMAIN dpb : Added(k[i], dpb[i], pos)
    BY <1>1, <1>3, <2>2, AddSliceFacts
  <2>4. OutputInv(stream, pos, Coming(stream, pos, TRUE), dpb, app.lastDisplay, written)
    <3>1. Begun(dec)
      BY <2>1 DEF Begun
    <3>2. Coming(stream, pos, Begun(dec)) = Coming(stream, pos, TRUE)
      BY <3>1 DEF Coming
    <3> QED
      BY <3>2 DEF OutputNow
  <2>5. OutputInv(stream, pos + 1, Coming(stream, pos + 1, TRUE), k, app.lastDisplay, written)
    BY <1>1, <1>2, <1>6, <2>3, <2>4, FurtherSliceKeepsOutput
  <2>6. Len(k) = Len(dpb)
    BY <1>1, <1>2, <2>3
  <2> QED
    BY <2>5, <2>6
<1> QED
  BY <1>5, <1>6

(* Decoding a slice keeps the invariant.                                   *)
LEMMA DecodesOutput ==
  ASSUME Orderly(stream), Now, Decodes, OutputNow(Coming(stream, pos, Begun(dec))), status = "running",
         dec.firstSliceInPicture => Limited(dpb), Len(dpb) <= MaxDecPicBuffering[HighestLayer] + 1
  PROVE  /\ OutputThen(IF status' = "running" THEN Coming(stream, pos', Begun(dec')) ELSE {})
         /\ Extends(written', written) /\ Len(dpb') <= MaxDecPicBuffering[HighestLayer] + 1
         /\ dec'.firstSliceInPicture /\ pos' <= Len(stream) => Limited(dpb')
<1>1. CASE /\ status' = "aborted" /\ pos' = pos
           /\ dpb' = dpb /\ dec' = dec /\ app' = app /\ written' = written
  <2>1. OutputInv(stream, pos, {}, dpb, app.lastDisplay, written)
    BY OutputInvFewer DEF OutputNow
  <2>2. Extends(written, written)
    BY DEF Extends
  <2> QED
    BY <1>1, <2>1, <2>2 DEF OutputThen
<1>2. ASSUME status' = status, pos' = pos + 1, dec'.firstSliceInPicture => AtEnd,
             NEW s \in HeaderSlices, Adds(s)
      PROVE  /\ OutputThen(Coming(stream, pos', Begun(dec')))
             /\ Extends(written', written) /\ Len(dpb') <= MaxDecPicBuffering[HighestLayer] + 1
             /\ ~(dec'.firstSliceInPicture /\ pos' <= Len(stream))
  <2> DEFINE k == ListOfSlice(s)
  <2>1. /\ OutputInv(stream, pos + 1, Coming(stream, pos + 1, TRUE), k, app.lastDisplay, written)
        /\ Len(k) <= MaxDecPicBuffering[HighestLayer] + 1
    BY <1>2, AddedOutput
  <2>2. /\ ValidSettings(settings) /\ Conforming(stream, settings) /\ LayersNested(settings)
        /\ Len(stream) \in Nat /\ pos \in Nat /\ app \in Apps /\ written \in Seq(WrittenPictures)
        /\ pos \in Decoded(stream) /\ k \in Seq(Pictures)
    BY <1>2, ConformingNALs DEF Orderly, OutputConforming, Now, DecoderInv, Decodes, Adds
  <2>3. PICK e \in Decs : /\ ~e.firstSliceInPicture /\ ~e.firstSliceInSequence
                          /\ Loop(FALSE, AtEnd, k, e, app)
    BY <1>2 DEF Adds
  <2>4. OutputInv(stream, pos + 1, Coming(stream, pos + 1, Begun(e)), k, app.lastDisplay, written)
    <3>1. Begun(e)
      BY <2>3 DEF Begun
    <3>2. Coming(stream, pos + 1, Begun(e)) = Coming(stream, pos + 1, TRUE)
      BY <3>1 DEF Coming
    <3> QED
      BY <2>1, <3>2
  <2>5. ASSUME Completes(FALSE, AtEnd, e, app) PROVE Begun(e) /\ Whole(stream, Past(stream, pos + 1))
    <3>1. nal.type # "EOS"
      BY <2>2, ConformingNALs DEF Decoded, Decodable, nal
    <3>2. pos + 1 > Len(stream)
      BY <2>2, <2>5, <3>1 DEF Completes, AtEnd
    <3>3. Whole(stream, Past(stream, pos + 1))
      BY <2>2, <3>2, PastIsWhole
    <3> QED
      BY <2>3, <3>3 DEF Begun
  <2>6. AtEnd \in BOOLEAN /\ pos + 1 \in Nat
    BY <2>2 DEF AtEnd
  <2>7. /\ OutputInv(stream, pos + 1, Coming(stream, pos + 1, Begun(dec')), dpb', app'.lastDisplay, written')
        /\ Extends(written', written) /\ DOMAIN dpb' \subseteq DOMAIN k
    BY <2>2, <2>3, <2>4, <2>5, <2>6, LoopOutput
  <2>8. Len(dpb') <= MaxDecPicBuffering[HighestLayer] + 1
    <3>1. dpb' \in Seq(Pictures)
      BY <2>7 DEF OutputInv, ListMarks
    <3>2. PICK a \in Nat : a = Len(k) /\ DOMAIN k = 1..a
      BY <2>2
    <3>3. PICK b \in Nat : b = Len(dpb') /\ DOMAIN dpb' = 1..b
      BY <3>1
    <3>4. b <= a
      <4>1. b # 0 => b \in 1..a
        BY <2>7, <3>2, <3>3
      <4> QED
        BY <3>2, <3>3, <4>1
    <3>5. MaxDecPicBuffering[HighestLayer] \in Nat
      BY <2>2, LimitsAreNumbers, HighestHasMost
    <3> QED
      BY <2>1, <3>2, <3>3, <3>4, <3>5
  <2>9. ~(dec'.firstSliceInPicture /\ pos' <= Len(stream))
    BY <1>2, <2>2 DEF AtEnd
  <2> QED
    BY <1>2, <2>7, <2>8, <2>9 DEF OutputThen
<1>3. \/ /\ status' = "aborted" /\ pos' = pos
         /\ dpb' = dpb /\ dec' = dec /\ app' = app /\ written' = written
      \/ /\ status' = status /\ pos' = pos + 1
         /\ dec'.firstSliceInPicture => AtEnd
         /\ \E s \in HeaderSlices : Adds(s)
  BY DEF Decodes
<1>4. CASE /\ status' = status /\ pos' = pos + 1
           /\ dec'.firstSliceInPicture => AtEnd
           /\ \E s \in HeaderSlices : Adds(s)
  BY <1>2, <1>4
<1> QED
  BY <1>1, <1>3, <1>4

(* The end of the file keeps the invariant.                                *)
LEMMA FinishOutput ==
  ASSUME Orderly(stream), Now, Finish, OutputNow(Coming(stream, pos, Begun(dec))),
         Len(dpb) <= MaxDecPicBuffering[HighestLayer] + 1
  PROVE  /\ OutputThen({}) /\ Extends(written', written)
         /\ Len(dpb') <= MaxDecPicBuffering[HighestLayer] + 1
         /\ ~(pos' <= Len(stream))
<1> DEFINE m == [dpb |-> dpb, app |-> app, written |-> written]
           v == WithWritten(written, InOrder(dpb, Waiting(dpb)))
           y == IF dpb = <<>> THEN app.lastDisplay ELSE -MAX_INT
<1>1. /\ pos > Len(stream) /\ pos' = pos
      /\ \E f \in {IF app.listKnown THEN FlushOutput(m) ELSE m} :
           dpb' = f.dpb /\ app' = f.app /\ written' = f.written
  BY DEF Finish
<1>2. /\ pos \in Nat /\ Len(stream) \in Nat /\ app \in Apps
      /\ ValidSettings(settings) /\ LayersNested(settings)
  BY ConformingNALs DEF Now, DecoderInv, Orderly, OutputConforming
<1>3. ~(pos' <= Len(stream))
  BY <1>1, <1>2
<1>4. CASE app.listKnown
  <2> DEFINE b == [app EXCEPT !.lastDisplay = y]
  <2>1. FlushOutput(m).dpb = <<>> /\ FlushOutput(m).app = b /\ FlushOutput(m).written = v
    BY DEF FlushOutput
  <2>2. dpb' = <<>> /\ app' = b /\ written' = v
    BY <1>1, <1>4, <2>1
  <2> HIDE DEF y, v
  <2>6. app'.lastDisplay = y
    BY <1>2, <2>2 DEF Apps
  <2> HIDE DEF b
  <2>3. OutputInv(stream, pos, {}, <<>>, y, v) /\ Extends(v, written)
    BY <1>2, FlushKeepsOrder DEF OutputNow, v, y
  <2>4. MaxDecPicBuffering[HighestLayer] \in Nat
    BY <1>2, LimitsAreNumbers, HighestHasMost
  <2>5. Len(<<>>) <= MaxDecPicBuffering[HighestLayer] + 1
    BY <2>4
  <2> QED
    BY <1>1, <1>3, <2>2, <2>3, <2>5, <2>6 DEF OutputThen
<1>5. CASE ~app.listKnown
  <2>1. dpb' = dpb /\ app' = app /\ written' = written
    BY <1>1, <1>5
  <2>2. OutputInv(stream, pos, {}, dpb, app.lastDisplay, written)
    BY OutputInvFewer DEF OutputNow
  <2>3. Extends(written, written)
    BY DEF Extends
  <2> QED
    BY <1>1, <1>3, <2>1, <2>2, <2>3 DEF OutputThen
<1> QED
  BY <1>4, <1>5

-----------------------------------------------------------------------------
(* The inductive invariant of output.                                      *)

Ahead == IF status = "running" THEN Coming(stream, pos, Begun(dec)) ELSE {}

OutputState ==
  /\ Inv /\ Orderly(stream) /\ OutputNow(Ahead)
  /\ Len(dpb) <= MaxDecPicBuffering[HighestLayer] + 1
  /\ dec.firstSliceInPicture /\ pos <= Len(stream) => Limited(dpb)

(* The decoder starts with nothing written.                                *)
LEMMA InitOutput ==
  ASSUME Init, Conforming(stream, settings), OutputConforming(stream, settings)
  PROVE  OutputState
<1>1. Inv
  BY InitInv
<1>2. ValidSettings(settings) /\ Orderly(stream) /\ LayersNested(settings)
  BY <1>1 DEF Inv, Given, Orderly, OutputConforming
<1>3. /\ pos = 1 /\ dpb = <<>> /\ written = <<>> /\ status = "running"
      /\ app.lastDisplay = -MAX_INT + SkipFrame
  BY DEF Init, InitApp
<1>4. app.lastDisplay = -MAX_INT /\ -MAX_INT \in Int
  <2>1. SkipFrame = 0
    BY <1>2 DEF Orderly, Conforming, SkipFrame
  <2>2. MAX_INT \in Nat
    BY SMT DEF MAX_INT
  <2> QED
    BY <1>3, <2>1, <2>2
<1>5. Pics(dpb) = {} /\ DOMAIN dpb = {} /\ DOMAIN written = {}
  BY <1>3 DEF Pics
<1>6. ListMarks(stream, pos, Ahead, dpb)
  <2>1. dpb \in Seq(Pictures) /\ ListInv(stream, Past(stream, pos), dpb)
    BY <1>1 DEF Inv, Now, DecoderInv
  <2> QED
    BY <1>5, <2>1 DEF ListMarks, ListOrdered, OutputMarks, HeldAreKept
<1>7. ASSUME NEW z \in Ahead PROVE -MAX_INT < stream[z].poc
  <2>1. z \in Firsts(stream)
    BY <1>3, <1>7 DEF Ahead, Coming
  <2>2. stream[z].poc \in -MAX_INT..(MAX_INT - 1)
    <3>1. stream[z] \in SliceNALs
      BY <1>2, <2>1, FirstsFacts, ConformingNALs DEF Orderly
    <3> QED
      BY <3>1, SMT DEF SliceNALs
  <2>3. stream[z].poc # -MAX_INT
    BY <1>2, <2>1 DEF Orderly, OutputConforming, LimitsObserved, Firsts
  <2>4. MAX_INT \in Nat
    BY SMT DEF MAX_INT
  <2> QED
    BY <2>2, <2>3, <2>4
<1>8. AfterLast(stream, Ahead, dpb, app.lastDisplay)
  BY <1>4, <1>5, <1>7 DEF AfterLast
<1>9. WrittenInOrder(stream, pos, dpb, app.lastDisplay, written)
  BY <1>5 DEF WrittenInOrder
<1>10. written \in Seq(WrittenPictures)
  BY <1>3
<1>11. OutputNow(Ahead)
  BY <1>4, <1>6, <1>8, <1>9, <1>10 DEF OutputNow, OutputInv
<1>12. Len(dpb) <= MaxDecPicBuffering[HighestLayer] + 1
  <2>1. MaxDecPicBuffering[HighestLayer] \in Nat
    BY <1>2, LimitsAreNumbers, HighestHasMost
  <2>2. Len(dpb) = 0
    BY <1>3
  <2> QED
    BY <2>1, <2>2
<1>13. Limited(dpb)
  BY <1>2, <1>3, NoneLimited
<1> QED
  BY <1>1, <1>2, <1>11, <1>12, <1>13 DEF OutputState

(* Every action keeps the invariant, and what was written stays.           *)
LEMMA StepOutput ==
  ASSUME OutputState, [Next]_vars
  PROVE  /\ OutputThen(IF status' = "running" THEN Coming(stream, pos', Begun(dec')) ELSE {})
         /\ Extends(written', written) /\ Len(dpb') <= MaxDecPicBuffering[HighestLayer] + 1
         /\ dec'.firstSliceInPicture /\ pos' <= Len(stream) => Limited(dpb')
<1>1. /\ Given /\ Now /\ ReferencesRight /\ Orderly(stream) /\ OutputNow(Ahead)
      /\ Len(dpb) <= MaxDecPicBuffering[HighestLayer] + 1
      /\ dec.firstSliceInPicture /\ pos <= Len(stream) => Limited(dpb)
      /\ dpb \in Seq(Pictures) /\ ValidSettings(settings) /\ LayersNested(settings)
  BY DEF OutputState, Inv, Orderly, Now, DecoderInv, OutputConforming
<1>2. status = "running" => OutputNow(Coming(stream, pos, Begun(dec)))
  BY <1>1 DEF Ahead
<1>3. ASSUME OutputInv(stream, pos', Coming(stream, pos', Begun(dec')), dpb', app'.lastDisplay, written'),
             DOMAIN dpb' \subseteq DOMAIN dpb
      PROVE  Len(dpb') <= MaxDecPicBuffering[HighestLayer] + 1
  <2>1. dpb' \in Seq(Pictures)
    BY <1>3 DEF OutputInv, ListMarks
  <2>2. PICK a \in Nat : a = Len(dpb) /\ DOMAIN dpb = 1..a
    BY <1>1, LenOfList
  <2>3. PICK b \in Nat : b = Len(dpb') /\ DOMAIN dpb' = 1..b
    BY <2>1, LenOfList
  <2>4. b <= a
    <3>1. b # 0 => b \in 1..a
      BY <1>3, <2>2, <2>3
    <3> QED
      BY <2>2, <2>3, <3>1
  <2>5. MaxDecPicBuffering[HighestLayer] \in Nat
    BY <1>1, LimitsAreNumbers, HighestHasMost
  <2> QED
    BY <1>1, <2>2, <2>3, <2>4, <2>5
<1>4. CASE IgnoreNal \/ EndOfSequence \/ SkipSlice
  <2>1. Passes /\ status = "running" /\ status' = "running"
    BY <1>1, <1>4, IgnoreNalInv, EndOfSequenceInv, SkipSliceInv
    DEF IgnoreNal, EndOfSequence, SkipSlice, ReadsSlice, Reading
  <2>2. /\ OutputThen(Coming(stream, pos', Begun(dec')))
        /\ Extends(written', written) /\ DOMAIN dpb' \subseteq DOMAIN dpb
        /\ dec'.firstSliceInPicture /\ pos' <= Len(stream) => Limited(dpb')
    BY <1>1, <1>2, <2>1, PassesOutput
  <2> QED
    BY <1>3, <2>1, <2>2 DEF OutputThen
<1>5. CASE FindNewPicture
  <2>1. Finds /\ status = "running" /\ status' = "running"
    BY <1>1, <1>5, FindNewPictureInv DEF FindNewPicture, ReadsSlice, Reading
  <2>2. /\ OutputThen(Coming(stream, pos', Begun(dec')))
        /\ Extends(written', written) /\ DOMAIN dpb' \subseteq DOMAIN dpb
        /\ Limited(dpb')
    BY <1>1, <1>2, <2>1, FindsOutput
  <2> QED
    BY <1>3, <2>1, <2>2 DEF OutputThen
<1>6. CASE DecodeSlice
  <2>1. status = "running"
    BY <1>6 DEF DecodeSlice, ReadsSlice, Reading
  <2>2. Decodes
    BY <1>1, <1>6, <2>1, DecodeSliceInv
  <2>3. dec.firstSliceInPicture => Limited(dpb)
    BY <1>1, <2>2 DEF Decodes
  <2> QED
    BY <1>1, <1>2, <2>1, <2>2, <2>3, DecodesOutput
<1>7. CASE Finish
  <2>1. status = "running" /\ status' # "running"
    BY <1>7 DEF Finish
  <2>2. /\ OutputThen({}) /\ Extends(written', written)
        /\ Len(dpb') <= MaxDecPicBuffering[HighestLayer] + 1
        /\ ~(pos' <= Len(stream))
    BY <1>1, <1>2, <1>7, <2>1, FinishOutput
  <2> QED
    BY <2>1, <2>2
<1>8. CASE UNCHANGED vars
  <2>1. /\ pos' = pos /\ dpb' = dpb /\ dec' = dec /\ app' = app /\ written' = written
        /\ status' = status
    BY <1>8 DEF vars
  <2>2. Extends(written, written)
    BY DEF Extends
  <2> QED
    BY <1>1, <2>1, <2>2 DEF OutputNow, OutputThen, Ahead
<1> QED
  BY <1>4, <1>5, <1>6, <1>7, <1>8 DEF Next

(* Every action keeps the invariant.                                       *)
LEMMA NextOutput == ASSUME OutputState, [Next]_vars PROVE OutputState'
<1>1. Inv /\ Orderly(stream)
  BY DEF OutputState
<1>2. Inv'
  BY <1>1, NextInv
<1>3. settings' = settings /\ stream' = stream
  BY DEF Next, vars, IgnoreNal, EndOfSequence, SkipSlice, FindNewPicture, DecodeSlice, Finish
<1>4. /\ OutputThen(IF status' = "running" THEN Coming(stream, pos', Begun(dec')) ELSE {})
      /\ Len(dpb') <= MaxDecPicBuffering[HighestLayer] + 1
      /\ dec'.firstSliceInPicture /\ pos' <= Len(stream) => Limited(dpb')
  BY StepOutput
<1>5. Firsts(stream)' = Firsts(stream)
  BY <1>3 DEF Firsts, FirstSlices, Decodable, SlicesIn, CannotBeDecoded, LastIRAP, Begins, NoEOS
<1>6. Orderly(stream)'
  <2>1. ValidSettings(settings)' /\ Conforming(stream, settings)'
    BY <1>2 DEF Inv, Given
  <2>2. TargetLayer(settings)' = TargetLayer(settings)
    BY <1>3 DEF TargetLayer
  <2>3. \A j, k : Together(stream, settings.maxTemporalLayer, j, k)'
                    <=> Together(stream, settings.maxTemporalLayer, j, k)
    BY <1>3, <1>5 DEF Together, Firsts
  <2>4. \A k : Overtaken(stream, settings.maxTemporalLayer, k)' = Overtaken(stream, settings.maxTemporalLayer, k)
    BY <1>3, <1>5, <2>3 DEF Overtaken, Firsts
  <2>5. \A k : Needed(stream, settings.maxTemporalLayer, k)' = Needed(stream, settings.maxTemporalLayer, k)
    BY <1>3, <1>5, <2>3 DEF Needed, Firsts, Keeps
  <2>6. SequencesInOrder(stream, settings.maxTemporalLayer)'
    BY <1>1, <1>3, <1>5, <2>3 DEF Orderly, OutputConforming, SequencesInOrder, Firsts
  <2>7. LimitsObserved(stream, settings)'
    BY <1>1, <1>3, <1>5, <2>2, <2>4, <2>5 DEF Orderly, OutputConforming, LimitsObserved, Firsts
  <2>8. LayersNested(settings)'
    BY <1>1, <1>3 DEF Orderly, OutputConforming, LayersNested
  <2> QED
    BY <2>1, <2>6, <2>7, <2>8 DEF Orderly, OutputConforming
<1>7. Heads(stream, pos)' = Heads(stream, pos')
  BY <1>3, <1>5 DEF Heads
<1>8. Coming(stream, pos, Begun(dec))' = Coming(stream, pos', Begun(dec'))
  BY <1>3, <1>5, <1>7 DEF Coming, Begun, Restarts
<1>9. Ahead' = IF status' = "running" THEN Coming(stream, pos', Begun(dec')) ELSE {}
  BY <1>8 DEF Ahead
<1> DEFINE T == IF status' = "running" THEN Coming(stream, pos', Begun(dec')) ELSE {}
<1> HIDE DEF T
<1>10. OutputInv(stream, pos', T, dpb', app'.lastDisplay, written') /\ Ahead' = T
  BY <1>4, <1>9 DEF OutputThen, T
<1>11. ListMarks(stream, pos, Ahead, dpb)'
  <2>1. ListMarks(stream, pos', T, dpb')
    BY <1>10 DEF OutputInv
  <2>2. (dpb \in Seq(Pictures) /\ ListInv(stream, Past(stream, pos), dpb))'
    BY <1>2 DEF Inv, Now, DecoderInv
  <2>3. ListOrdered(dpb)'
    BY <2>1 DEF ListMarks, ListOrdered
  <2>4. OutputMarks(stream, Ahead, dpb)'
    BY <1>3, <1>10, <2>1 DEF ListMarks, OutputMarks, Pics
  <2>5. HeldAreKept(stream, pos, dpb)'
    BY <1>3, <1>7, <2>1 DEF ListMarks, HeldAreKept, Pics, Keeps
  <2> QED
    BY <2>2, <2>3, <2>4, <2>5 DEF ListMarks
<1>12. AfterLast(stream, Ahead, dpb, app.lastDisplay)'
  BY <1>3, <1>10 DEF OutputInv, AfterLast, Pics
<1>13. WrittenInOrder(stream, pos, dpb, app.lastDisplay, written)'
  <2>1. WrittenInOrder(stream, pos', dpb', app'.lastDisplay, written')
    BY <1>10 DEF OutputInv
  <2>2. Past(stream, pos)' = Past(stream, pos')
    BY <1>3 DEF Past, Decoded, Decodable, SlicesIn, CannotBeDecoded, LastIRAP, Begins, NoEOS
  <2>3. \A k : Latest(stream, pos, k)' <=> Latest(stream, pos', k)
    BY <1>3, <1>7 DEF Latest, Restarts
  <2>4. \A h, k : InOutputOrder(stream, h, k)' <=> InOutputOrder(stream, h, k)
    BY <1>3 DEF InOutputOrder
  <2> QED
    BY <1>3, <2>1, <2>2, <2>3, <2>4 DEF WrittenInOrder
<1>14. (app.lastDisplay \in Int /\ written \in Seq(WrittenPictures))'
  BY <1>10 DEF OutputInv
<1>15. OutputNow(Ahead)'
  BY <1>11, <1>12, <1>13, <1>14 DEF OutputNow, OutputInv
<1>16. (Len(dpb) <= MaxDecPicBuffering[HighestLayer] + 1)'
  BY <1>3, <1>4 DEF MaxDecPicBuffering, HighestLayer
<1>17. (dec.firstSliceInPicture /\ pos <= Len(stream) => Limited(dpb))'
  BY <1>3, <1>4 DEF Limited, TooMany, Waiting, ReferencedIn, MaxDecPicBuffering, NumReorderPics,
     SubLayer, TargetLayer
<1> QED
  BY <1>2, <1>6, <1>15, <1>16, <1>17 DEF OutputState

LEMMA OutputHolds ==
  Spec /\ Conforming(stream, settings) /\ OutputConforming(stream, settings) => []OutputState
<1>1. Init /\ Conforming(stream, settings) /\ OutputConforming(stream, settings) => OutputState
  BY InitOutput
<1>2. OutputState /\ [Next]_vars => OutputState'
  BY NextOutput
<1> QED
  BY <1>1, <1>2, PTL DEF Spec

-----------------------------------------------------------------------------
(* The theorems.                                                           *)

(* All slices of a picture have its POC and its sequence.                  *)
LEMMA SliceOfHead ==
  ASSUME NEW n, Conforming(n, settings), NEW k \in SlicesIn(n)
  PROVE  \E f \in SlicesOfPicture(n, k) : n[f].first /\ n[f].cvs = n[k].cvs /\ n[f].poc = n[k].poc
<1>1. PICK f \in SlicesIn(n) : n[f].pic = n[k].pic /\ n[f].first
  BY FirstSlice
<1> QED
  BY <1>1, SlicesAgree DEF SlicesOfPicture

(* Slices of pictures written one after the other are in output order.     *)
LEMMA WrittenPrecedes ==
  ASSUME OutputState, NEW i \in DOMAIN written, NEW j \in DOMAIN written, i < j,
         NEW h \in written[i].nals, NEW k \in written[j].nals
  PROVE  InOutputOrder(stream, h, k)
<1>1. /\ Conforming(stream, settings) /\ WrittenWhole(stream, written)
      /\ WrittenInOrder(stream, pos, dpb, app.lastDisplay, written) /\ pos \in Nat
  BY DEF OutputState, Inv, Given, Now, DecoderInv, OutputNow, OutputInv
<1>2. h \in SlicesIn(stream) /\ k \in SlicesIn(stream)
  <2>1. h \in Past(stream, pos) /\ k \in Past(stream, pos)
    BY <1>1 DEF WrittenInOrder
  <2> QED
    BY <1>1, <2>1, PastFacts
<1>3. written[i].nals = SlicesOfPicture(stream, h) /\ written[j].nals = SlicesOfPicture(stream, k)
  BY <1>1 DEF WrittenWhole
<1>4. PICK f \in SlicesOfPicture(stream, h) :
        stream[f].first /\ stream[f].cvs = stream[h].cvs /\ stream[f].poc = stream[h].poc
  BY <1>1, <1>2, SliceOfHead
<1>5. PICK g \in SlicesOfPicture(stream, k) :
        stream[g].first /\ stream[g].cvs = stream[k].cvs /\ stream[g].poc = stream[k].poc
  BY <1>1, <1>2, SliceOfHead
<1>6. InOutputOrder(stream, f, g)
  BY <1>1, <1>3, <1>4, <1>5 DEF WrittenInOrder
<1> QED
  BY <1>4, <1>5, <1>6 DEF InOutputOrder

(* Pictures are written in output order, a coded video sequence after the  *)
(* other, however they are reordered, discarded and their buffers used     *)
(* again, when the encoder observes the limits it sends.                   *)
THEOREM PicturesAreWrittenInOrder ==
  Spec /\ Conforming(stream, settings) /\ OutputConforming(stream, settings) => []OutputOrder
<1>1. ASSUME OutputState PROVE OutputOrder
  <2>1. written \in Seq(WrittenPictures)
    BY <1>1 DEF OutputState, OutputNow, OutputInv
  <2>2. ASSUME NEW j \in DOMAIN written, NEW i \in 1..(j - 1),
               NEW h \in written[i].nals, NEW k \in written[j].nals
        PROVE  ComesBefore(h, k)
    <3>1. i \in DOMAIN written /\ i < j
      BY <2>1, <2>2
    <3>2. InOutputOrder(stream, h, k)
      BY <1>1, <2>2, <3>1, WrittenPrecedes
    <3> QED
      BY <3>2 DEF InOutputOrder, ComesBefore
  <2> QED
    BY <2>2 DEF OutputOrder
<1> QED
  BY <1>1, OutputHolds, PTL

(* When a picture is complete, those that wait are no more than            *)
(* sps_max_num_reorder_pics allows: xWriteOutput leaves none too many.     *)
THEOREM PicturesAreWrittenInTime ==
  Spec /\ Conforming(stream, settings) /\ OutputConforming(stream, settings) => []OutputInTime
<1>1. ASSUME OutputState PROVE OutputInTime
  <2>1. /\ dec.firstSliceInPicture /\ pos <= Len(stream) => Limited(dpb)
        /\ dpb \in Seq(Pictures) /\ ValidSettings(settings)
    BY <1>1 DEF OutputState, OutputNow, OutputInv, ListMarks, Orderly
  <2>2. NumReorderPics[SubLayer] \in Nat
    BY <2>1, LimitsAreNumbers
  <2>3. Waiting(dpb) \subseteq DOMAIN dpb /\ Waiting(dpb) = {i \in DOMAIN dpb : dpb[i].output}
    BY DEF Waiting
  <2>4. Cardinality(Waiting(dpb)) \in Nat
    BY <2>1, <2>3, PlacesFinite
  <2> QED
    BY <2>1, <2>2, <2>3, <2>4 DEF OutputInTime, Limited, TooMany
<1> QED
  BY <1>1, OutputHolds, PTL

(* The list of pictures never grows by more than one beyond the size of    *)
(* the buffer: xGetNewPicBuffer finds a free one whenever there must be.   *)
THEOREM BufferHoldsOneMoreAtMost ==
  Spec /\ Conforming(stream, settings) /\ OutputConforming(stream, settings) => []BufferAlmostWithinLimit
<1>1. OutputState => BufferAlmostWithinLimit
  BY DEF OutputState, BufferAlmostWithinLimit, HighestLayer
<1> QED
  BY <1>1, OutputHolds, PTL

-----------------------------------------------------------------------------
(* The decoder implements PictureOutput.                                   *)

(* The key of a picture is that of its first slice.                        *)
LEMMA KeyIs ==
  ASSUME Conforming(stream, settings), NEW k \in SlicesIn(stream),
         NEW nals \in SUBSET SlicesIn(stream), k \in nals,
         \A j \in nals : stream[j].pic = stream[k].pic
  PROVE  Key(nals) = [cvs |-> stream[k].cvs, poc |-> stream[k].poc]
<1> DEFINE c == CHOOSE j \in nals : TRUE
<1>1. c \in nals
  OBVIOUS
<1> HIDE DEF c
<1>2. stream[c].cvs = stream[k].cvs /\ stream[c].poc = stream[k].poc
  BY <1>1, SlicesAgree
<1>3. Key(nals) = [cvs |-> stream[c].cvs, poc |-> stream[c].poc]
  BY DEF Key, c
<1> QED
  BY <1>2, <1>3

(* What is delivered, and what waits, is keyed by first slices.            *)
LEMMA WrittenKey ==
  ASSUME OutputState, NEW j \in DOMAIN written
  PROVE  \E h \in Heads(stream, pos) :
           h \in written[j].nals /\ Key(written[j].nals) = [cvs |-> stream[h].cvs, poc |-> stream[h].poc]
<1>1. /\ Conforming(stream, settings) /\ WrittenWhole(stream, written) /\ pos \in Nat
      /\ WrittenInOrder(stream, pos, dpb, app.lastDisplay, written)
  BY DEF OutputState, Inv, Given, Now, DecoderInv, OutputNow, OutputInv
<1>2. written[j].nals # {} /\ written[j].nals \subseteq Past(stream, pos)
  BY <1>1 DEF WrittenInOrder
<1>3. PICK k : k \in written[j].nals /\ k \in SlicesIn(stream)
  BY <1>1, <1>2, PastFacts
<1>4. written[j].nals = SlicesOfPicture(stream, k)
  BY <1>1, <1>3 DEF WrittenWhole
<1>5. PICK h \in SlicesOfPicture(stream, k) : stream[h].first
  BY <1>1, <1>3, SliceOfHead
<1>6. h \in Heads(stream, pos)
  <2>1. h \in Past(stream, pos)
    BY <1>2, <1>4, <1>5
  <2>2. h \in Decoded(stream) /\ h < pos
    BY <1>1, <2>1, PastFacts
  <2> QED
    BY <1>1, <1>5, <2>2, FirstsFacts DEF Heads
<1>7. Key(written[j].nals) = [cvs |-> stream[h].cvs, poc |-> stream[h].poc]
  <2>1. /\ h \in SlicesIn(stream) /\ written[j].nals \subseteq SlicesIn(stream)
        /\ \A x \in written[j].nals : stream[x].pic = stream[h].pic
    BY <1>4, <1>5 DEF SlicesOfPicture
  <2> QED
    BY <1>1, <1>4, <1>5, <2>1, KeyIs
<1> QED
  BY <1>4, <1>5, <1>6, <1>7

LEMMA WaitingKey ==
  ASSUME OutputState, NEW i \in DOMAIN dpb
  PROVE  \E f \in Heads(stream, pos) :
           /\ Latest(stream, pos, f) /\ dpb[i].poc = stream[f].poc
           /\ Key(dpb[i].nals) = [cvs |-> stream[f].cvs, poc |-> stream[f].poc]
<1>1. /\ Conforming(stream, settings) /\ pos \in Nat /\ PictureInv(stream, Past(stream, pos), dpb[i])
  BY DEF OutputState, Inv, Given, Now, DecoderInv, ListInv, Pics
<1>2. PICK f \in Heads(stream, pos) :
        f \in dpb[i].nals /\ dpb[i].poc = stream[f].poc /\ Latest(stream, pos, f)
  <2>1. PICK f \in Heads(stream, pos) : f \in dpb[i].nals
    BY <1>1, HeadFacts
  <2>2. stream[f].first
    BY <1>1, FirstsFacts DEF Heads
  <2> QED
    BY <1>1, <2>1, <2>2, HeadFacts
<1>3. Key(dpb[i].nals) = [cvs |-> stream[f].cvs, poc |-> stream[f].poc]
  <2>1. f \in SlicesIn(stream) /\ dpb[i].nals \subseteq SlicesIn(stream)
    BY <1>1, <1>2, PastFacts DEF PictureInv
  <2>2. \A x \in dpb[i].nals : stream[x].pic = stream[f].pic
    BY <1>1, <1>2 DEF PictureInv
  <2> QED
    BY <1>1, <1>2, <2>1, <2>2, KeyIs
<1> QED
  BY <1>2, <1>3

(* What was delivered is in output order, and precedes what waits.         *)
DeliveredInOrder ==
  NothingLost =>
    /\ written \in Seq(WrittenPictures) /\ DOMAIN OutputDelivered = DOMAIN written
    /\ \A i \in DOMAIN written : OutputDelivered[i] = Key(written[i].nals)
    /\ \A i, j \in DOMAIN written : i < j => Output!Precedes(OutputDelivered[i], OutputDelivered[j])
    /\ \A i \in DOMAIN written, p \in OutputWaiting : Output!Precedes(OutputDelivered[i], p)

LEMMA DeliveredIsInOrder == OutputState => DeliveredInOrder
<1> SUFFICES ASSUME OutputState, NothingLost PROVE DeliveredInOrder
  BY DEF DeliveredInOrder
<1>1. /\ written \in Seq(WrittenPictures) /\ Orderly(stream) /\ pos \in Nat
      /\ WrittenInOrder(stream, pos, dpb, app.lastDisplay, written)
      /\ AfterLast(stream, Ahead, dpb, app.lastDisplay) /\ dpb \in Seq(Pictures) /\ app.lastDisplay \in Int
  BY DEF OutputState, OutputNow, OutputInv, ListMarks, Inv, Now, DecoderInv
<1>2. Conforming(stream, settings)
  BY <1>1 DEF Orderly
<1> DEFINE key == [i \in DOMAIN written |-> Key(written[i].nals)]
<1>3. OutputDelivered = <<>> \o key
  BY DEF OutputDelivered, MapPictures
<1>4. DOMAIN OutputDelivered = DOMAIN written /\ \A i \in DOMAIN written : OutputDelivered[i] = Key(written[i].nals)
  <2>1. \A i \in DOMAIN written : key[i] = Key(written[i].nals)
    OBVIOUS
  <2>2. DOMAIN key = 1..Len(written) /\ Len(written) \in Nat /\ DOMAIN written = 1..Len(written)
    BY <1>1
  <2> HIDE DEF key
  <2>3. \A i \in 1..Len(written) : key[i] \in {key[x] : x \in 1..Len(written)}
    OBVIOUS
  <2>4. key \in Seq({key[x] : x \in 1..Len(written)})
    <3>1. key \in [1..Len(written) -> {key[x] : x \in 1..Len(written)}]
      BY <2>2, <2>3 DEF key
    <3> QED
      BY <2>2, <3>1
  <2>5. <<>> \o key = key
    BY <2>4
  <2> QED
    BY <1>3, <2>1, <2>2, <2>5
<1>5. ASSUME NEW i \in DOMAIN written, NEW j \in DOMAIN written, i < j
      PROVE  Output!Precedes(OutputDelivered[i], OutputDelivered[j])
  <2>1. PICK h \in Heads(stream, pos) : 
          h \in written[i].nals /\ Key(written[i].nals) = [cvs |-> stream[h].cvs, poc |-> stream[h].poc]
    BY WrittenKey
  <2>2. PICK k \in Heads(stream, pos) : 
          k \in written[j].nals /\ Key(written[j].nals) = [cvs |-> stream[k].cvs, poc |-> stream[k].poc]
    BY WrittenKey
  <2>3. InOutputOrder(stream, h, k)
    BY <1>5, <2>1, <2>2, WrittenPrecedes
  <2> QED
    BY <1>4, <2>1, <2>2, <2>3 DEF Output!Precedes, InOutputOrder
<1>6. ASSUME NEW i \in DOMAIN written, NEW p \in OutputWaiting
      PROVE  Output!Precedes(OutputDelivered[i], p)
  <2>1. PICK h \in Heads(stream, pos) : 
          h \in written[i].nals /\ Key(written[i].nals) = [cvs |-> stream[h].cvs, poc |-> stream[h].poc]
    BY WrittenKey
  <2>2. PICK x \in DOMAIN dpb : dpb[x].output /\ p = Key(dpb[x].nals)
    BY DEF OutputWaiting
  <2>3. PICK f \in Heads(stream, pos) :
          /\ Latest(stream, pos, f) /\ dpb[x].poc = stream[f].poc
          /\ Key(dpb[x].nals) = [cvs |-> stream[f].cvs, poc |-> stream[f].poc]
    BY WaitingKey
  <2>4. app.lastDisplay < stream[f].poc
    BY <1>1, <2>2, <2>3 DEF AfterLast, Pics
  <2>5. Latest(stream, pos, h) => stream[h].poc <= app.lastDisplay
    <3>1. dpb # <<>> /\ stream[h].first
      BY <1>2, <2>1, <2>2, FirstsFacts DEF Heads
    <3> QED
      BY <1>1, <2>1, <3>1 DEF WrittenInOrder
  <2>6. stream[h].poc \in Int /\ stream[f].poc \in Int
    BY <1>2, FirstsFacts DEF Heads
  <2>7. Latest(stream, pos, h) => stream[h].poc < stream[f].poc
    BY <1>1, <2>4, <2>5, <2>6
  <2>8. InOutputOrder(stream, h, f)
    BY <1>1, <2>3, <2>7, LatestOrder
  <2> QED
    BY <1>4, <2>1, <2>2, <2>3, <2>8 DEF Output!Precedes, InOutputOrder
<1> QED
  BY <1>1, <1>4, <1>5, <1>6 DEF DeliveredInOrder

(* A step of the decoder is one of PictureOutput, or changes nothing there.*)
LEMMA DecoderStep ==
  ASSUME DeliveredInOrder, DeliveredInOrder', Extends(written', written), stream' = stream
  PROVE  [Output!Step]_(Output!vars)
<1>1. NothingLost' <=> NothingLost
  BY DEF NothingLost, Slices, Meant
<1>2. CASE ~NothingLost
  BY <1>1, <1>2 DEF OutputWaiting, OutputDelivered, Output!vars
<1>3. CASE NothingLost
  <2> DEFINE D == OutputDelivered
             E == OutputDelivered'
             W == OutputWaiting
             X == OutputWaiting'
             next == DOMAIN E \ DOMAIN D
  <2>1. /\ written \in Seq(WrittenPictures) /\ DOMAIN D = DOMAIN written
        /\ \A i \in DOMAIN written : D[i] = Key(written[i].nals)
    BY <1>3 DEF DeliveredInOrder
  <2>2. /\ written' \in Seq(WrittenPictures) /\ DOMAIN E = DOMAIN written'
        /\ \A i \in DOMAIN written' : E[i] = Key(written'[i].nals)
        /\ \A i, j \in DOMAIN written' : i < j => Output!Precedes(E[i], E[j])
        /\ \A i \in DOMAIN written', p \in X : Output!Precedes(E[i], p)
    <3>1. \A nals : Key(nals)' = Key(nals)
      BY DEF Key
    <3> QED
      BY <1>1, <1>3, <3>1 DEF DeliveredInOrder, Output!Precedes
  <2> HIDE DEF D, E, W, X
  <2>3. \A i \in DOMAIN D : i \in DOMAIN E /\ E[i] = D[i]
    BY <2>1, <2>2 DEF Extends
  <2>4. \A i \in DOMAIN D, j \in next : i < j
    <3>1. PICK a \in Nat : DOMAIN D = 1..a
      BY <2>1
    <3>2. PICK b \in Nat : DOMAIN E = 1..b
      BY <2>2
    <3> QED
      BY <3>1, <3>2
  <2>5. \A i \in DOMAIN D, p \in (X \cup {E[j] : j \in next}) \ W : Output!Precedes(D[i], p)
    <3> SUFFICES ASSUME NEW i \in DOMAIN D, NEW p \in X \cup {E[j] : j \in next} PROVE Output!Precedes(D[i], p)
      OBVIOUS
    <3>1. D[i] = E[i] /\ i \in DOMAIN written'
      BY <2>2, <2>3
    <3>2. CASE p \in X
      BY <2>2, <3>1, <3>2
    <3>3. CASE \E j \in next : p = E[j]
      BY <2>2, <2>4, <3>1, <3>3
    <3> QED
      BY <3>2, <3>3
  <2>6. \A i, j \in next : i < j => Output!Precedes(E[i], E[j])
    BY <2>2
  <2>7. \A i \in next, p \in X : Output!Precedes(E[i], p)
    BY <2>2
  <2> QED
    BY <2>3, <2>5, <2>6, <2>7 DEF Output!Step, D, E, W, X
<1> QED
  BY <1>2, <1>3

(* The decoder implements the safety of PictureOutput: whatever is         *)
(* buffered, pictures become ready after all that was delivered, and are   *)
(* delivered in output order, before all that waits.                       *)
THEOREM DecoderImplementsOutput ==
  Spec /\ Conforming(stream, settings) /\ OutputConforming(stream, settings) => Output!Safety
<1>1. Init => Output!Init
  BY DEF Init, Output!Init, OutputWaiting, OutputDelivered, MapPictures
<1>2. OutputState /\ [Next]_vars => Extends(written', written) /\ stream' = stream
  <2> SUFFICES ASSUME OutputState, [Next]_vars PROVE Extends(written', written) /\ stream' = stream
    OBVIOUS
  <2>1. stream' = stream
    BY DEF Next, vars, IgnoreNal, EndOfSequence, SkipSlice, FindNewPicture, DecodeSlice, Finish
  <2> QED
    BY <2>1, StepOutput
<1>3. DeliveredInOrder /\ DeliveredInOrder' /\ Extends(written', written) /\ stream' = stream
        => [Output!Step]_(Output!vars)
  BY DecoderStep
<1> QED
  BY <1>1, <1>2, <1>3, OutputHolds, DeliveredIsInOrder, PTL DEF Spec, Output!Safety

-----------------------------------------------------------------------------
(* The account of the pictures begun.                                      *)

(* The picture of a buffer is to come out: it waits, or is being decoded.  *)
Due(q, b) == q.output \/ (b /\ q.current /\ q.picOutput)

InWritten(w, h) == \E j \in DOMAIN w : h \in w[j].nals
InList(l, b, h) == \E i \in DOMAIN l : h \in l[i].nals /\ Due(l[i], b)
AtPlaces(l, C, h) == \E i \in C : h \in l[i].nals

FirstIn(n) == {h \in SlicesIn(n) : n[h].first}

(* No slice is in two buffers.                                             *)
Separate(l) == \A i, j \in DOMAIN l : i # j => l[i].nals \cap l[j].nals = {}

(* The slices of a picture, all of them.                                   *)
AllSlices(n, nals) == nals \subseteq SlicesIn(n) /\ \A k \in nals : nals = SlicesOfPicture(n, k)

(* The first slices H are those written, discarded or in the list, and of  *)
(* none is this true twice.                                                *)
Split(n, H, b, l, w, x) ==
  \A h \in FirstIn(n) :
    /\ InWritten(w, h) \/ h \in x \/ InList(l, b, h) <=> h \in H
    /\ ~(InWritten(w, h) /\ h \in x)
    /\ ~(InWritten(w, h) /\ InList(l, b, h))
    /\ ~(h \in x /\ InList(l, b, h))

Account(n, H, b, l, w, x) ==
  /\ l \in Seq(Pictures) /\ w \in Seq(WrittenPictures) /\ Separate(l)
  /\ Split(n, H, b, l, w, x)
  /\ b => \A i \in DOMAIN l : l[i].current => ~l[i].output
  /\ \A i \in DOMAIN l : l[i].output => AllSlices(n, l[i].nals)
  /\ x \subseteq SlicesIn(n) /\ \A k \in x : SlicesOfPicture(n, k) \subseteq x

(* The list k is l, in which the pictures at the places C wait no longer.  *)
Unmarked(k, l, C) ==
  /\ k \in Seq(Pictures) /\ DOMAIN k = DOMAIN l /\ C \subseteq Waiting(l)
  /\ \A i \in DOMAIN l :
       /\ k[i].nals = l[i].nals /\ k[i].current = l[i].current /\ k[i].picOutput = l[i].picOutput
       /\ k[i].output <=> l[i].output /\ i \notin C

(* What is not in the list any more was at the places C.                   *)
LEMMA UnmarkedFacts ==
  ASSUME NEW n, NEW H, NEW b, NEW l, NEW w, NEW x, Account(n, H, b, l, w, x),
         NEW k, NEW C, Unmarked(k, l, C)
  PROVE  /\ \A h : InList(k, b, h) <=> InList(l, b, h) /\ ~AtPlaces(l, C, h)
         /\ \A h : AtPlaces(l, C, h) => InList(l, b, h)
         /\ Separate(k)
         /\ b => \A i \in DOMAIN k : k[i].current => ~k[i].output
         /\ \A i \in DOMAIN k : k[i].output => AllSlices(n, k[i].nals)
<1>0. DOMAIN k = DOMAIN l /\ C \subseteq DOMAIN l /\ \A i \in C : l[i].output
  BY DEF Unmarked, Waiting
<1>1. ASSUME NEW h, InList(k, b, h)
      PROVE  InList(l, b, h) /\ ~AtPlaces(l, C, h)
  <2>1. PICK i \in DOMAIN l : h \in k[i].nals /\ Due(k[i], b)
    BY <1>0, <1>1 DEF InList
  <2>2. h \in l[i].nals /\ Due(l[i], b)
    BY <2>1 DEF Unmarked, Due
  <2>3. ASSUME NEW j \in C, h \in l[j].nals PROVE FALSE
    <3>1. j = i
      BY <2>2, <2>3, <1>0 DEF Account, Separate
    <3>2. ~k[i].output /\ l[i].output
      BY <3>1, <1>0 DEF Unmarked
    <3>3. b /\ l[i].current
      BY <3>2, <2>1 DEF Due, Unmarked
    <3> QED BY <3>2, <3>3 DEF Account
  <2> QED BY <2>2, <2>3 DEF InList, AtPlaces
<1>2. ASSUME NEW h, InList(l, b, h), ~AtPlaces(l, C, h)
      PROVE  InList(k, b, h)
  <2>1. PICK i \in DOMAIN l : h \in l[i].nals /\ Due(l[i], b)
    BY <1>2 DEF InList
  <2>2. i \notin C
    BY <1>2, <2>1 DEF AtPlaces
  <2>3. h \in k[i].nals /\ Due(k[i], b)
    BY <2>1, <2>2 DEF Unmarked, Due
  <2> QED BY <2>3, <1>0 DEF InList
<1>3. ASSUME NEW h, AtPlaces(l, C, h) PROVE InList(l, b, h)
  BY <1>0, <1>3 DEF AtPlaces, InList, Due
<1>4. Separate(k)
  BY <1>0 DEF Account, Separate, Unmarked
<1>5. b => \A i \in DOMAIN k : k[i].current => ~k[i].output
  BY <1>0 DEF Account, Unmarked
<1>6. \A i \in DOMAIN k : k[i].output => AllSlices(n, k[i].nals)
  BY <1>0 DEF Account, Unmarked
<1> QED BY <1>1, <1>2, <1>3, <1>4, <1>5, <1>6

(* Writing pictures keeps the account.                                     *)
LEMMA WritingKeepsAccount ==
  ASSUME NEW n, NEW H, NEW b, NEW l, NEW w, NEW x, Account(n, H, b, l, w, x),
         NEW k, NEW C, Unmarked(k, l, C), NEW v, WritesAfter(v, w, l, C)
  PROVE  Account(n, H, b, k, v, x)
<1>1. \A h : InWritten(v, h) <=> InWritten(w, h) \/ AtPlaces(l, C, h)
  <2>1. ASSUME NEW h, InWritten(v, h) PROVE InWritten(w, h) \/ AtPlaces(l, C, h)
    <3>1. PICK j \in DOMAIN v : h \in v[j].nals
      BY <2>1 DEF InWritten
    <3>2. CASE j \in DOMAIN w
      BY <3>1, <3>2 DEF WritesAfter, Extends, InWritten
    <3>3. CASE j \notin DOMAIN w
      BY <3>1, <3>3 DEF WritesAfter, AtPlaces
    <3> QED BY <3>2, <3>3
  <2>2. ASSUME NEW h, InWritten(w, h) PROVE InWritten(v, h)
    BY <2>2 DEF WritesAfter, Extends, InWritten
  <2>3. ASSUME NEW h, AtPlaces(l, C, h) PROVE InWritten(v, h)
    <3>1. PICK a \in C : h \in l[a].nals
      BY <2>3 DEF AtPlaces
    <3>2. PICK j \in DOMAIN v \ DOMAIN w : v[j].nals = l[a].nals
      BY DEF WritesAfter
    <3> QED BY <3>1, <3>2 DEF InWritten
  <2> QED BY <2>1, <2>2, <2>3
<1>2. Split(n, H, b, k, v, x)
  <2> SUFFICES ASSUME NEW h \in FirstIn(n)
               PROVE  /\ InWritten(v, h) \/ h \in x \/ InList(k, b, h) <=> h \in H
                      /\ ~(InWritten(v, h) /\ h \in x)
                      /\ ~(InWritten(v, h) /\ InList(k, b, h))
                      /\ ~(h \in x /\ InList(k, b, h))
    BY DEF Split
  <2>1. /\ InWritten(w, h) \/ h \in x \/ InList(l, b, h) <=> h \in H
        /\ ~(InWritten(w, h) /\ h \in x)
        /\ ~(InWritten(w, h) /\ InList(l, b, h))
        /\ ~(h \in x /\ InList(l, b, h))
    BY DEF Account, Split
  <2>2. /\ InList(k, b, h) <=> InList(l, b, h) /\ ~AtPlaces(l, C, h)
        /\ AtPlaces(l, C, h) => InList(l, b, h)
    BY UnmarkedFacts
  <2> QED BY <2>1, <2>2, <1>1
<1>3. k \in Seq(Pictures) /\ v \in Seq(WrittenPictures)
  BY DEF Unmarked, WritesAfter
<1>4. /\ Separate(k)
      /\ b => \A i \in DOMAIN k : k[i].current => ~k[i].output
      /\ \A i \in DOMAIN k : k[i].output => AllSlices(n, k[i].nals)
  BY UnmarkedFacts
<1>5. x \subseteq SlicesIn(n) /\ \A j \in x : SlicesOfPicture(n, j) \subseteq x
  BY DEF Account
<1> QED BY <1>2, <1>3, <1>4, <1>5 DEF Account

(* Discarding pictures keeps the account.                                  *)
LEMMA DiscardingKeepsAccount ==
  ASSUME NEW n, NEW H, NEW b, NEW l, NEW w, NEW x, Account(n, H, b, l, w, x),
         NEW k, NEW C, Unmarked(k, l, C)
  PROVE  Account(n, H, b, k, w, x \cup UNION {l[i].nals : i \in C})
<1> DEFINE y == x \cup UNION {l[i].nals : i \in C}
<1>1. \A h : h \in y <=> h \in x \/ AtPlaces(l, C, h)
  BY DEF AtPlaces
<1>2. Split(n, H, b, k, w, y)
  <2> SUFFICES ASSUME NEW h \in FirstIn(n)
               PROVE  /\ InWritten(w, h) \/ h \in y \/ InList(k, b, h) <=> h \in H
                      /\ ~(InWritten(w, h) /\ h \in y)
                      /\ ~(InWritten(w, h) /\ InList(k, b, h))
                      /\ ~(h \in y /\ InList(k, b, h))
    BY DEF Split
  <2>1. /\ InWritten(w, h) \/ h \in x \/ InList(l, b, h) <=> h \in H
        /\ ~(InWritten(w, h) /\ h \in x)
        /\ ~(InWritten(w, h) /\ InList(l, b, h))
        /\ ~(h \in x /\ InList(l, b, h))
    BY DEF Account, Split
  <2>2. /\ InList(k, b, h) <=> InList(l, b, h) /\ ~AtPlaces(l, C, h)
        /\ AtPlaces(l, C, h) => InList(l, b, h)
    BY UnmarkedFacts
  <2>3. h \in y <=> h \in x \/ AtPlaces(l, C, h)
    BY <1>1
  <2> HIDE DEF y
  <2> QED BY <2>1, <2>2, <2>3
<1>3. k \in Seq(Pictures) /\ w \in Seq(WrittenPictures)
  BY DEF Unmarked, Account
<1>4. /\ Separate(k)
      /\ b => \A i \in DOMAIN k : k[i].current => ~k[i].output
      /\ \A i \in DOMAIN k : k[i].output => AllSlices(n, k[i].nals)
  BY UnmarkedFacts
<1>5. \A i \in C : AllSlices(n, l[i].nals)
  BY DEF Unmarked, Account, Waiting
<1>6. y \subseteq SlicesIn(n)
  BY <1>5 DEF Account, AllSlices
<1>7. ASSUME NEW j \in y PROVE SlicesOfPicture(n, j) \subseteq y
  <2>1. CASE j \in x
    BY <2>1 DEF Account
  <2>2. CASE j \notin x
    <3>1. PICK i \in C : j \in l[i].nals
      BY <2>2, <1>7
    <3>2. SlicesOfPicture(n, j) = l[i].nals
      BY <3>1, <1>5 DEF AllSlices
    <3> QED BY <3>2
  <2> QED BY <2>1, <2>2
<1> HIDE DEF y
<1>8. Account(n, H, b, k, w, y)
  BY <1>2, <1>3, <1>4, <1>6, <1>7 DEF Account
<1> QED BY <1>8 DEF y

(* m is a turn with the account.                                           *)
AccountTurn(m, n, H, b) ==
  \E l, d, a, w, x : m = Turn(l, d, a, w, x) /\ d \in Decs /\ Account(n, H, b, l, w, x)

(* xWriteOutput writes pictures that wait.                                 *)
LEMMA WriteOutputAccounts ==
  ASSUME NEW m, NEW n, NEW H, NEW b, AccountTurn(m, n, H, b)
  PROVE  AccountTurn(WriteOutput(m), n, H, b)
<1>1. PICK l, d, a, w, x : m = Turn(l, d, a, w, x) /\ d \in Decs /\ Account(n, H, b, l, w, x)
  BY DEF AccountTurn
<1> DEFINE C == Bumped(l, a.lastDisplay)
           k == Release(l, C)
           v == WithWritten(w, InOrder(l, C))
<1>2. WriteOutput(m) = Turn(k, d, AfterWrite(l, a), v, x)
  BY <1>1, WriteOutputIs
<1>3. C \subseteq Waiting(l)
  BY DEF Bumped, Waiting
<1>4. l \in Seq(Pictures) /\ w \in Seq(WrittenPictures)
  BY <1>1 DEF Account
<1> HIDE DEF C
<1>5. Unmarked(k, l, C)
  <2>1. k \in Seq(Pictures) /\ DOMAIN k = DOMAIN l
        /\ \A i \in DOMAIN l : k[i] = IF i \in C THEN AfterWriting(l[i]) ELSE l[i]
    BY <1>4, ReleaseFacts, ReleaseIs
  <2> HIDE DEF k
  <2>2. ASSUME NEW i \in DOMAIN l
        PROVE  /\ k[i].nals = l[i].nals /\ k[i].current = l[i].current /\ k[i].picOutput = l[i].picOutput
               /\ k[i].output <=> l[i].output /\ i \notin C
    <3>1. l[i] \in Pictures
      BY <1>4, PicturesIn
    <3>2. CASE i \in C
      <4>1. k[i] = AfterWriting(l[i])
        BY <2>1, <3>2
      <4> QED BY <4>1, <3>1, <3>2 DEF AfterWriting, Pictures
    <3>3. CASE i \notin C
      BY <2>1, <3>3
    <3> QED BY <3>2, <3>3
  <2> QED BY <2>1, <2>2, <1>3 DEF Unmarked
<1>6. WritesAfter(v, w, l, C)
  BY <1>3, <1>4, WithWrittenIs
<1>7. Account(n, H, b, k, v, x)
  BY <1>1, <1>5, <1>6, WritingKeepsAccount
<1> QED BY <1>1, <1>2, <1>7 DEF AccountTurn

(* checkNoOutputPriorPics, as a step from turn to turn.                    *)
NotKept(l, d) == {i \in Waiting(l) : l[i].poc # d.lastPOCNoOutputPriorPics}

LEMMA CheckNoOutputPriorPicsIs ==
  ASSUME NEW l, NEW d, NEW a, NEW w, NEW x
  PROVE  CheckNoOutputPriorPics(Turn(l, d, a, w, x))
           = Turn(KeepOnly(l, d.lastPOCNoOutputPriorPics), NoPriorPics(d), a, w,
                  x \cup UNION {l[i].nals : i \in NotKept(l, d)})
<1> DEFINE m == Turn(l, d, a, w, x)
           k == KeepOnly(l, d.lastPOCNoOutputPriorPics)
           y == x \cup UNION {l[i].nals : i \in NotKept(l, d)}
<1>1. m.dpb = l /\ m.dec = d /\ m.discarded = x
  BY TurnFields
<1>2. CheckNoOutputPriorPics(m)
        = [m EXCEPT !.dpb = KeepOnly(m.dpb, m.dec.lastPOCNoOutputPriorPics),
                    !.discarded = m.discarded \cup UNION {m.dpb[i].nals : i \in NotKept(m.dpb, m.dec)},
                    !.dec.isNoOutputPriorPics = FALSE]
  BY DEF CheckNoOutputPriorPics, NotKept
<1>3. [m EXCEPT !.dpb = k] = Turn(k, d, a, w, x)
  BY DEF Turn
<1>4. ASSUME NEW z PROVE [Turn(k, d, a, w, x) EXCEPT !.discarded = z] = Turn(k, d, a, w, z)
  BY DEF Turn
<1>5. WithNoPriorPics(Turn(k, d, a, w, y)) = Turn(k, NoPriorPics(d), a, w, y)
  BY TurnNoPriorPics
<1>6. CheckNoOutputPriorPics(m) = WithNoPriorPics([[m EXCEPT !.dpb = k] EXCEPT !.discarded = y])
  BY <1>1, <1>2 DEF WithNoPriorPics
<1> QED BY <1>3, <1>4, <1>5, <1>6

(* checkNoOutputPriorPics discards pictures that wait.                     *)
LEMMA CheckNoOutputPriorPicsAccounts ==
  ASSUME NEW m, NEW n, NEW H, NEW b, AccountTurn(m, n, H, b)
  PROVE  AccountTurn(CheckNoOutputPriorPics(m), n, H, b)
<1>1. PICK l, d, a, w, x : m = Turn(l, d, a, w, x) /\ d \in Decs /\ Account(n, H, b, l, w, x)
  BY DEF AccountTurn
<1> DEFINE poc == d.lastPOCNoOutputPriorPics
           C == NotKept(l, d)
           k == KeepOnly(l, poc)
           y == x \cup UNION {l[i].nals : i \in C}
<1>2. CheckNoOutputPriorPics(m) = Turn(k, NoPriorPics(d), a, w, y)
  BY <1>1, CheckNoOutputPriorPicsIs
<1>3. C \subseteq Waiting(l) /\ \A i \in Waiting(l) : i \in C <=> l[i].poc # poc
  BY DEF NotKept
<1>4. l \in Seq(Pictures)
  BY <1>1 DEF Account
<1> HIDE DEF C
<1>5. Unmarked(k, l, C)
  <2>1. k \in Seq(Pictures) /\ DOMAIN k = DOMAIN l
        /\ \A i \in DOMAIN l : k[i] = IF l[i].poc # poc THEN NotOutput(l[i]) ELSE l[i]
    BY <1>4, KeepOnlyFacts, KeepOnlyIs
  <2> HIDE DEF k, poc
  <2>2. ASSUME NEW i \in DOMAIN l
        PROVE  /\ k[i].nals = l[i].nals /\ k[i].current = l[i].current /\ k[i].picOutput = l[i].picOutput
               /\ k[i].output <=> l[i].output /\ i \notin C
    <3>1. l[i] \in Pictures /\ (i \in Waiting(l) <=> l[i].output)
      BY <1>4, PicturesIn DEF Waiting
    <3>2. CASE l[i].poc # poc
      <4>1. k[i] = NotOutput(l[i])
        BY <2>1, <3>2
      <4>2. l[i].output => i \in C
        BY <1>3, <3>1, <3>2
      <4> QED BY <4>1, <4>2, <3>1 DEF NotOutput, Pictures
    <3>3. CASE l[i].poc = poc
      <4>1. k[i] = l[i]
        BY <2>1, <3>3
      <4>2. i \notin C
        BY <1>3, <3>3
      <4> QED BY <4>1, <4>2
    <3> QED BY <3>2, <3>3
  <2> QED BY <2>1, <2>2, <1>3 DEF Unmarked
<1>6. Account(n, H, b, k, w, y)
  BY <1>1, <1>5, DiscardingKeepsAccount
<1>7. NoPriorPics(d) \in Decs
  BY <1>1 DEF Decs, NoPriorPics
<1> QED BY <1>2, <1>6, <1>7 DEF AccountTurn

(* xFlushOutput writes all pictures that wait, when none is being decoded. *)
LEMMA FlushAccounts ==
  ASSUME NEW n, NEW H, NEW l, NEW w, NEW x, Account(n, H, FALSE, l, w, x)
  PROVE  Account(n, H, FALSE, <<>>, WithWritten(w, InOrder(l, Waiting(l))), x)
<1> DEFINE C == Waiting(l)
           k == Release(l, C)
           v == WithWritten(w, InOrder(l, C))
<1>1. l \in Seq(Pictures) /\ w \in Seq(WrittenPictures) /\ C \in SUBSET Waiting(l)
  BY DEF Account
<1>2. Unmarked(k, l, C) /\ \A i \in DOMAIN k : ~k[i].output
  <2>1. k \in Seq(Pictures) /\ DOMAIN k = DOMAIN l
        /\ \A i \in DOMAIN l : k[i] = IF i \in C THEN AfterWriting(l[i]) ELSE l[i]
    BY <1>1, ReleaseFacts, ReleaseIs
  <2> HIDE DEF k
  <2>2. ASSUME NEW i \in DOMAIN l
        PROVE  /\ k[i].nals = l[i].nals /\ k[i].current = l[i].current /\ k[i].picOutput = l[i].picOutput
               /\ ~k[i].output /\ (k[i].output <=> l[i].output /\ i \notin C)
    <3>1. l[i] \in Pictures /\ (i \in C <=> l[i].output)
      BY <1>1, PicturesIn DEF Waiting
    <3>2. CASE i \in C
      <4>1. k[i] = AfterWriting(l[i])
        BY <2>1, <3>2
      <4> QED BY <4>1, <3>1, <3>2 DEF AfterWriting, Pictures
    <3>3. CASE i \notin C
      BY <2>1, <3>1, <3>3
    <3> QED BY <3>2, <3>3
  <2> QED BY <2>1, <2>2 DEF Unmarked
<1>3. WritesAfter(v, w, l, C)
  BY <1>1, WithWrittenIs
<1> HIDE DEF C, k, v
<1>4. Account(n, H, FALSE, k, v, x)
  BY <1>2, <1>3, WritingKeepsAccount
<1>5. \A h : ~InList(k, FALSE, h) /\ ~InList(<<>>, FALSE, h)
  BY <1>2 DEF InList, Due
<1>6. Split(n, H, FALSE, <<>>, v, x)
  BY <1>4, <1>5 DEF Account, Split
<1>7. Separate(<<>>) /\ <<>> \in Seq(Pictures)
  BY DEF Separate
<1>8. Account(n, H, FALSE, <<>>, v, x)
  <2>1. /\ v \in Seq(WrittenPictures)
        /\ x \subseteq SlicesIn(n) /\ \A j \in x : SlicesOfPicture(n, j) \subseteq x
    BY <1>4 DEF Account
  <2>2. DOMAIN <<>> = {}
    OBVIOUS
  <2> QED BY <2>1, <2>2, <1>6, <1>7 DEF Account
<1> QED BY <1>8 DEF v, C

LEMMA FlushOutputAccounts ==
  ASSUME NEW m, NEW n, NEW H, AccountTurn(m, n, H, FALSE)
  PROVE  AccountTurn(FlushOutput(m), n, H, FALSE)
<1>1. PICK l, d, a, w, x : m = Turn(l, d, a, w, x) /\ d \in Decs /\ Account(n, H, FALSE, l, w, x)
  BY DEF AccountTurn
<1>2. FlushOutput(m) = Turn(<<>>, d, AfterFlush(l, a), WithWritten(w, InOrder(l, Waiting(l))), x)
  BY <1>1, FlushOutputIs
<1>3. Account(n, H, FALSE, <<>>, WithWritten(w, InOrder(l, Waiting(l))), x)
  BY <1>1, FlushAccounts
<1> QED BY <1>1, <1>2, <1>3 DEF AccountTurn

(* Completing the current picture keeps the account: it waits, if it is to *)
(* come out.                                                               *)
LEMMA CompletingAccounts ==
  ASSUME NEW n, NEW H, NEW l, NEW w, NEW x, Account(n, H, TRUE, l, w, x),
         NEW P \in SUBSET SlicesIn(n), Whole(n, P), ListInv(n, P, l)
  PROVE  Account(n, H, FALSE, SortPicList(FilterPicture(l)), w, x)
<1> DEFINE f == FilterPicture(l)
           k == SortPicList(f)
<1>1. l \in Seq(Pictures) /\ w \in Seq(WrittenPictures) /\ Separate(l)
  BY DEF Account
<1>2. /\ f \in Seq(Pictures) /\ DOMAIN f = DOMAIN l
      /\ \A i \in DOMAIN l : f[i] = Filtered(l[i])
      /\ ListInv(n, P, f)
  BY <1>1, FilteredList, FilteredInv
<1>3. /\ k \in Seq(Pictures) /\ DOMAIN k = DOMAIN f /\ Pics(k) = Pics(f)
      /\ \A i, j \in DOMAIN f : i < j => \E a, b \in DOMAIN f : a # b /\ k[i] = f[a] /\ k[j] = f[b]
  BY <1>2, SortKeepsPictures
<1> HIDE DEF f, k
<1>4. \A i \in DOMAIN l : f[i].nals = l[i].nals /\ (f[i].output <=> Due(l[i], TRUE))
  <2> SUFFICES ASSUME NEW i \in DOMAIN l PROVE f[i].nals = l[i].nals /\ (f[i].output <=> Due(l[i], TRUE))
    OBVIOUS
  <2>1. l[i] \in Pictures /\ f[i] = Filtered(l[i])
    BY <1>1, <1>2, PicturesIn
  <2>2. CASE l[i].current
    <3>1. f[i] = [l[i] EXCEPT !.output = l[i].picOutput, !.recon = TRUE]
      BY <2>1, <2>2, PictureChanges
    <3>2. ~l[i].output
      BY <2>2 DEF Account
    <3> QED BY <2>1, <2>2, <3>1, <3>2 DEF Due, Pictures
  <2>3. CASE ~l[i].current
    <3>1. f[i] = l[i]
      BY <2>1, <2>3, PictureChanges
    <3> QED BY <2>3, <3>1 DEF Due
  <2> QED BY <2>2, <2>3
<1>5. \A h : InList(k, FALSE, h) <=> InList(l, TRUE, h)
  <2>1. ASSUME NEW h, InList(k, FALSE, h) PROVE InList(l, TRUE, h)
    <3>1. PICK i \in DOMAIN k : h \in k[i].nals /\ k[i].output
      BY <2>1 DEF InList, Due
    <3>2. PICK j \in DOMAIN f : k[i] = f[j]
      BY <1>3 DEF Pics
    <3> QED BY <3>1, <3>2, <1>2, <1>4 DEF InList
  <2>2. ASSUME NEW h, InList(l, TRUE, h) PROVE InList(k, FALSE, h)
    <3>1. PICK i \in DOMAIN l : h \in l[i].nals /\ Due(l[i], TRUE)
      BY <2>2 DEF InList
    <3>2. f[i] \in Pics(k)
      BY <3>1, <1>2, <1>3, PicturesIn
    <3>3. PICK j \in DOMAIN k : k[j] = f[i]
      BY <3>2 DEF Pics
    <3> QED BY <3>1, <3>3, <1>4 DEF InList, Due
  <2> QED BY <2>1, <2>2
<1>6. Split(n, H, FALSE, k, w, x)
  BY <1>5 DEF Account, Split
<1>7. Separate(k)
  <2>1. \A a, b \in DOMAIN f : a # b => f[a].nals \cap f[b].nals = {}
    BY <1>1, <1>2, <1>4 DEF Separate
  <2>2. \A i, j \in DOMAIN k : i < j => k[i].nals \cap k[j].nals = {}
    BY <1>3, <2>1
  <2>3. DOMAIN k \subseteq Nat
    BY <1>3, PicturesIn
  <2> QED BY <2>2, <2>3 DEF Separate
<1>8. \A i \in DOMAIN k : k[i].output => AllSlices(n, k[i].nals)
  <2> SUFFICES ASSUME NEW i \in DOMAIN k, k[i].output PROVE AllSlices(n, k[i].nals)
    OBVIOUS
  <2>1. k[i] \in Pics(f)
    BY <1>3 DEF Pics
  <2>2. PictureInv(n, P, k[i])
    BY <1>2, <2>1 DEF ListInv
  <2> QED BY <2>2 DEF PictureInv, AllSlices
<1>9. x \subseteq SlicesIn(n) /\ \A j \in x : SlicesOfPicture(n, j) \subseteq x
  BY DEF Account
<1>10. Account(n, H, FALSE, k, w, x)
  BY <1>1, <1>3, <1>6, <1>7, <1>8, <1>9 DEF Account
<1> QED BY <1>10 DEF k, f

(* Completing the picture, when this turn of the loop does.                *)
LEMMA FinishPictureAccounts ==
  ASSUME NEW newPicture \in BOOLEAN, NEW atEnd \in BOOLEAN, NEW l \in Seq(Pictures), NEW d \in Decs,
         NEW a \in Apps, NEW w, NEW x, NEW n, NEW P \in SUBSET SlicesIn(n), NEW H,
         Account(n, H, Begun(d), l, w, x), ListInv(n, P, l),
         Completes(newPicture, atEnd, d, a) => Begun(d) /\ Whole(n, P),
         NEW begun, begun = (Begun(d) /\ ~Completes(newPicture, atEnd, d, a)),
         NEW f, f = FinishPicture(nal, newPicture, atEnd, Turn(l, d, a, w, x))
  PROVE  AccountTurn(f, n, H, begun)
<1>1. PICK k \in Seq(Pictures), e \in Decs, b \in Apps :
        f = Turn(k, e, b, w, x) /\ k = Finished(newPicture, atEnd, l, d, a)
  BY FinishPictureFacts
<1>2. Account(n, H, begun, k, w, x)
  <2>1. CASE Completes(newPicture, atEnd, d, a)
    <3>1. k = SortPicList(FilterPicture(l)) /\ Begun(d) /\ begun = FALSE /\ Begun(d) = TRUE
      BY <1>1, <2>1 DEF Finished, Begun, Decs
    <3>2. Account(n, H, TRUE, l, w, x)
      BY <3>1
    <3> QED BY <2>1, <3>1, <3>2, CompletingAccounts
  <2>2. CASE ~Completes(newPicture, atEnd, d, a)
    <3>1. k = l /\ begun = Begun(d)
      BY <1>1, <2>2 DEF Finished, Begun, Decs
    <3> QED BY <3>1
  <2> QED BY <2>1, <2>2
<1> QED BY <1>1, <1>2 DEF AccountTurn

(* One turn of the main loop keeps the account.                            *)
LEMMA LoopAccounts ==
  ASSUME NEW newPicture \in BOOLEAN, NEW atEnd \in BOOLEAN,
         NEW l \in Seq(Pictures), NEW d \in Decs, NEW a \in Apps,
         written \in Seq(WrittenPictures), Loop(newPicture, atEnd, l, d, a),
         NEW n, NEW P \in SUBSET SlicesIn(n), NEW H,
         Account(n, H, Begun(d), l, written, discarded), ListInv(n, P, l),
         Completes(newPicture, atEnd, d, a) => Begun(d) /\ Whole(n, P),
         Begun(d) /\ atEnd => ~a.loopFiltered
  PROVE  /\ Account(n, H, Begun(dec'), dpb', written', discarded')
         /\ Begun(dec') <=> Begun(d) /\ ~Completes(newPicture, atEnd, d, a)
<1> DEFINE
      Ended(known, e) ==
        \E w \in {IF known /\ (nal.type = "EOS" \/ (nal.type \in SliceTypes /\ ~newPicture))
                THEN WriteOutput(e) ELSE e} :
          /\ dpb' = w.dpb /\ app' = w.app /\ written' = w.written /\ discarded' = w.discarded
          /\ dec' = IF known /\ nal.type = "EOS" THEN [w.dec EXCEPT !.firstSliceInPicture = FALSE] ELSE w.dec
      Flushed(known, c) ==
        \E e \in {IF known /\ newPicture /\ nal.type \in {"IDR", "BLA"} THEN FlushOutput(c) ELSE c} :
          Ended(known, e)
      Discarded(known, o) ==
        \E c \in {IF known /\ DiscardsPriorPics(nal, newPicture, o) THEN CheckNoOutputPriorPics(o) ELSE o} :
          Flushed(known, c)
      Output1(known, f) ==
        \E o \in {IF known /\ newPicture THEN WriteOutput(f) ELSE f} : Discarded(known, o)
      Turned(m) ==
        \E f \in {FinishPicture(nal, newPicture, atEnd, m)} :
        \E known \in {f.app.listKnown} : Output1(known, f)
<1>1. PICK m : m = Turn(l, d, a, written, discarded) /\ Turned(m)
  BY DEF Loop, Turn
<1> HIDE DEF Ended, Flushed, Discarded, Output1
<1>2. PICK f, known : /\ f = FinishPicture(nal, newPicture, atEnd, m)
                      /\ known = f.app.listKnown /\ Output1(known, f)
  BY <1>1
<1> HIDE DEF Turned
<1>3. PICK o : /\ o = IF known /\ newPicture THEN WriteOutput(f) ELSE f
               /\ Discarded(known, o)
  BY <1>2 DEF Output1
<1>4. PICK c : /\ c = IF known /\ DiscardsPriorPics(nal, newPicture, o) THEN CheckNoOutputPriorPics(o) ELSE o
               /\ Flushed(known, c)
  BY <1>3 DEF Discarded
<1>5. PICK e : /\ e = IF known /\ newPicture /\ nal.type \in {"IDR", "BLA"} THEN FlushOutput(c) ELSE c
               /\ Ended(known, e)
  BY <1>4 DEF Flushed
<1>6. PICK w : /\ w = IF known /\ (nal.type = "EOS" \/ (nal.type \in SliceTypes /\ ~newPicture))
                      THEN WriteOutput(e) ELSE e
               /\ dpb' = w.dpb /\ written' = w.written /\ discarded' = w.discarded
  BY <1>5 DEF Ended
<1> DEFINE begun == Begun(d) /\ ~Completes(newPicture, atEnd, d, a)
<1>7. AccountTurn(f, n, H, begun)
  BY <1>1, <1>2, FinishPictureAccounts
<1>8. newPicture => begun = FALSE
  BY DEF Completes, Begun
<1> HIDE DEF begun
<1>9. AccountTurn(o, n, H, begun)
  BY <1>3, <1>7, WriteOutputAccounts
<1>10. AccountTurn(c, n, H, begun)
  BY <1>4, <1>9, CheckNoOutputPriorPicsAccounts
<1>11. AccountTurn(e, n, H, begun)
  <2>1. CASE known /\ newPicture /\ nal.type \in {"IDR", "BLA"}
    <3>1. AccountTurn(c, n, H, FALSE)
      BY <1>8, <1>10, <2>1
    <3>2. AccountTurn(e, n, H, FALSE)
      BY <1>5, <2>1, <3>1, FlushOutputAccounts
    <3> QED BY <1>8, <2>1, <3>2
  <2>2. CASE ~(known /\ newPicture /\ nal.type \in {"IDR", "BLA"})
    BY <1>5, <1>10, <2>2
  <2> QED BY <2>1, <2>2
<1>12. AccountTurn(w, n, H, begun)
  BY <1>6, <1>11, WriteOutputAccounts
<1>13. Account(n, H, begun, dpb', written', discarded')
  <2>1. PICK k, g, b, v, x : w = Turn(k, g, b, v, x) /\ Account(n, H, begun, k, v, x)
    BY <1>12 DEF AccountTurn
  <2>2. dpb' = k /\ written' = v /\ discarded' = x
    BY <1>6, <2>1, TurnFields
  <2> QED BY <2>1, <2>2
<1>14. Begun(dec') <=> begun
  <2>1. /\ dec'.firstSliceInSequence <=> d.firstSliceInSequence \/ nal.type = "EOS"
        /\ dec'.firstSliceInPicture <=>
              /\ ~(nal.type = "EOS" /\ app'.listKnown)
              /\ \/ d.firstSliceInPicture
                 \/ /\ newPicture \/ atEnd \/ nal.type = "EOS"
                    /\ d.firstSliceInSequence \/ ~(a.loopFiltered /\ atEnd)
    BY LoopFacts
  <2> QED BY <2>1 DEF Begun, begun, Completes
<1>15. Begun(dec') = begun
  BY <1>14 DEF Begun, begun
<1> QED BY SMTT(30), <1>13, <1>14, <1>15 DEF begun

-----------------------------------------------------------------------------
(* The slices read.                                                        *)

(* The first slices of the pictures that are to come out.                  *)
Expected(n, p) == {h \in Heads(n, p) : n[h].out}

(* A picture whose slices are decoded is being decoded, or was.            *)
LEMMA PastHasHeads ==
  ASSUME NEW n, Conforming(n, settings), NEW p \in Nat, Past(n, p) # {}
  PROVE  Heads(n, p) # {}
<1>1. PICK k \in Past(n, p) : k \in Decoded(n) /\ k \in Nat /\ k < p /\ k \in SlicesIn(n)
  BY PastFacts
<1>2. PICK f \in SlicesIn(n) : f <= k /\ n[f].pic = n[k].pic /\ n[f].first
  BY <1>1, FirstSlice
<1>3. f \in Decoded(n)
  BY <1>1, <1>2, PicturesAreDecodable DEF Decoded
<1>4. f \in Nat
  BY <1>2, ConformingNALs
<1> QED BY <1>1, <1>2, <1>3, <1>4, FirstsFacts DEF Heads

(* The picture of the first slice is to come out if its slices say so.     *)
LEMMA FirstSlicePicOutput ==
  ASSUME NEW n, NEW p, NEW d, AtSlice(n, p, d), p \in Decoded(n), n[p].first
  PROVE  HeaderSlice(n[p], d, HeaderDec(n[p], d)).picOutput <=> n[p].out
<1> DEFINE x == n[p]
           h == HeaderDec(n[p], d)
<1>1. Conforming(n, settings) /\ p \in SlicesIn(n) /\ Registers(n, p, d)
  BY DEF AtSlice
<1>2. ~x.dep /\ x.out \in BOOLEAN /\ x \in SliceNALs
  BY <1>1, FirstSlice, ConformingNALs DEF SliceNALs
<1>3. HeaderSlice(x, d, h).picOutput
        = IF x.type = "RASL" /\ h.craNoRaslOutputFlag THEN FALSE
          ELSE [x EXCEPT !.lt = LongTermPOCs(x, HeaderPOC(x, d))].out
  BY <1>2 DEF HeaderSlice
<1>4. [x EXCEPT !.lt = LongTermPOCs(x, HeaderPOC(x, d))].out = x.out
  BY <1>2 DEF SliceNALs
<1>5. ASSUME x.type = "RASL" PROVE ~h.craNoRaslOutputFlag
  <2>1. x.type \notin IRAPTypes /\ x.type # "CRA"
    BY <1>5 DEF IRAPTypes
  <2>2. ~NoneSince(n, p)
    BY <1>1, <2>1, SomeSince
  <2>3. PICK a \in SlicesIn(n) : /\ LastIRAP(n, a, p) /\ NoEOS(n, a, p - 1)
    BY <1>1, <2>2 DEF Registers, IRAPInv
  <2>4. n[a].type = "CRA" /\ ~Begins(n, a)
    BY <1>5, <2>3 DEF Decoded, Decodable, CannotBeDecoded
  <2>5. ~d.craNoRaslOutputFlag
    BY <1>1, <2>1, <2>3, <2>4 DEF Registers, RASLInv
  <2>6. h.craNoRaslOutputFlag = d.craNoRaslOutputFlag
    BY <2>1, HeaderDecFacts
  <2> QED BY <2>5, <2>6
<1> HIDE DEF x, h
<1>6. HeaderSlice(x, d, h).picOutput <=> x.out
  BY <1>3, <1>4, <1>5
<1> QED BY <1>6 DEF x, h

(* The first slice of a picture keeps the account: its picture is not yet  *)
(* in it.                                                                  *)
LEMMA FirstSliceAccounts ==
  ASSUME NEW n, Conforming(n, settings), NEW p \in Firsts(n), p = pos,
         NEW l, NEW w, NEW x, Account(n, Expected(n, p), FALSE, l, w, x), ListInv(n, Past(n, p), l),
         NEW s, s.picOutput <=> n[p].out,
         NEW k \in Seq(Pictures), WithPicture(k, l, s)
  PROVE  Account(n, Expected(n, p + 1), TRUE, k, w, x)
<1>1. /\ p \in Nat /\ p \in SlicesIn(n) /\ p \in FirstIn(n) /\ p \notin Past(n, p) /\ p \notin Expected(n, p)
      /\ Heads(n, p + 1) = Heads(n, p) \cup {p}
  BY FirstsFacts, NextFirstSlice, PastFacts DEF FirstIn, Expected, Heads
<1>2. PICK i \in 1..(Len(l) + 1) :
        /\ PlaceFor(l, nal.tid, i) /\ DOMAIN k = DOMAIN l \cup {i} /\ IsNew(k[i], s, pos)
        /\ \A j \in DOMAIN k : j # i => j \in DOMAIN l /\ Marked(k[j], l[j], s)
  BY DEF WithPicture
<1>3. l \in Seq(Pictures) /\ w \in Seq(WrittenPictures) /\ Separate(l)
  BY DEF Account
<1>4. /\ k[i].nals = {p} /\ k[i].current /\ ~k[i].output /\ (k[i].picOutput <=> n[p].out)
  BY <1>2 DEF IsNew
<1>5. \A j \in DOMAIN k : j # i =>
        /\ j \in DOMAIN l /\ k[j].nals = l[j].nals /\ k[j].output = l[j].output /\ ~k[j].current
  BY <1>2 DEF Marked
<1>6. \A j \in DOMAIN l : p \notin l[j].nals
  BY <1>1, <1>3, PicturesIn DEF ListInv, PictureInv
<1>7. i \in DOMAIN l => ~l[i].output
  <2>1. Len(l) \in Nat /\ DOMAIN l = 1..Len(l)
    BY <1>3
  <2> QED BY <1>2, <2>1 DEF PlaceFor, IsReusable
<1>8. Separate(k)
  BY <1>3, <1>4, <1>5, <1>6 DEF Separate
<1>9. ~InWritten(w, p) /\ p \notin x
  BY <1>1 DEF Account, Split
<1>10. InList(k, TRUE, p) <=> n[p].out
  BY <1>2, <1>4, <1>5, <1>6 DEF InList, Due
<1>11. \A h : h # p => (InList(k, TRUE, h) <=> InList(l, FALSE, h))
  <2> SUFFICES ASSUME NEW h, h # p PROVE InList(k, TRUE, h) <=> InList(l, FALSE, h)
    OBVIOUS
  <2>1. ASSUME InList(k, TRUE, h) PROVE InList(l, FALSE, h)
    <3>1. PICK j \in DOMAIN k : h \in k[j].nals /\ Due(k[j], TRUE)
      BY <2>1 DEF InList
    <3>2. j # i
      BY <3>1, <1>4
    <3> QED BY <3>1, <3>2, <1>5 DEF InList, Due
  <2>2. ASSUME InList(l, FALSE, h) PROVE InList(k, TRUE, h)
    <3>1. PICK j \in DOMAIN l : h \in l[j].nals /\ l[j].output
      BY <2>2 DEF InList, Due
    <3>2. j # i /\ j \in DOMAIN k
      BY <3>1, <1>2, <1>7
    <3> QED BY <3>1, <3>2, <1>5 DEF InList, Due
  <2> QED BY <2>1, <2>2
<1>12. Split(n, Expected(n, p + 1), TRUE, k, w, x)
  <2> SUFFICES ASSUME NEW h \in FirstIn(n)
               PROVE  /\ InWritten(w, h) \/ h \in x \/ InList(k, TRUE, h) <=> h \in Expected(n, p + 1)
                      /\ ~(InWritten(w, h) /\ h \in x)
                      /\ ~(InWritten(w, h) /\ InList(k, TRUE, h))
                      /\ ~(h \in x /\ InList(k, TRUE, h))
    BY DEF Split
  <2>1. CASE h = p
    <3>1. h \in Expected(n, p + 1) <=> n[p].out
      BY <1>1, <2>1 DEF Expected
    <3> QED BY <2>1, <3>1, <1>9, <1>10
  <2>2. CASE h # p
    <3>1. h \in Expected(n, p + 1) <=> h \in Expected(n, p)
      BY <1>1, <2>2 DEF Expected
    <3>2. InList(k, TRUE, h) <=> InList(l, FALSE, h)
      BY <1>11, <2>2
    <3>3. /\ InWritten(w, h) \/ h \in x \/ InList(l, FALSE, h) <=> h \in Expected(n, p)
          /\ ~(InWritten(w, h) /\ h \in x)
          /\ ~(InWritten(w, h) /\ InList(l, FALSE, h))
          /\ ~(h \in x /\ InList(l, FALSE, h))
      BY DEF Account, Split
    <3> QED BY <3>1, <3>2, <3>3
  <2> QED BY <2>1, <2>2
<1>13. \A j \in DOMAIN k : k[j].current => ~k[j].output
  BY <1>4, <1>5
<1>14. \A j \in DOMAIN k : k[j].output => AllSlices(n, k[j].nals)
  BY <1>4, <1>5 DEF Account
<1>15. x \subseteq SlicesIn(n) /\ \A j \in x : SlicesOfPicture(n, j) \subseteq x
  BY DEF Account
<1> QED BY <1>3, <1>8, <1>12, <1>13, <1>14, <1>15 DEF Account

(* A further slice of a picture keeps the account.                         *)
LEMMA FurtherSliceAccounts ==
  ASSUME NEW n, Conforming(n, settings), NEW p \in Decoded(n), ~n[p].first,
         NEW l, NEW w, NEW x, Account(n, Expected(n, p), TRUE, l, w, x), ListInv(n, Past(n, p), l),
         NEW k \in Seq(Pictures), DOMAIN k = DOMAIN l, \A i \in DOMAIN l : Added(k[i], l[i], p)
  PROVE  Account(n, Expected(n, p + 1), TRUE, k, w, x)
<1>1. /\ p \in Nat /\ p \notin Firsts(n) /\ p \notin FirstIn(n) /\ p \notin Past(n, p)
      /\ \A h \in Past(n, p) : h \in Nat
  BY ConformingNALs, FirstsFacts, PastFacts DEF FirstIn, Decoded, Decodable
<1>2. Expected(n, p + 1) = Expected(n, p)
  BY <1>1, NoFirstSlice DEF Expected
<1>3. l \in Seq(Pictures) /\ w \in Seq(WrittenPictures) /\ Separate(l)
  BY DEF Account
<1>4. \A i \in DOMAIN l : PictureInv(n, Past(n, p), l[i])
  BY <1>3, PicturesIn DEF ListInv
<1>5. \A i, j \in DOMAIN l : l[i].current /\ l[j].current => i = j
  <2> SUFFICES ASSUME NEW i \in DOMAIN l, NEW j \in DOMAIN l, l[i].current, l[j].current PROVE i = j
    OBVIOUS
  <2>1. PICK a \in l[i].nals : \A h \in Past(n, p) : h <= a
    BY <1>4 DEF PictureInv
  <2>2. PICK b \in l[j].nals : \A h \in Past(n, p) : h <= b
    BY <1>4 DEF PictureInv
  <2>3. a \in Past(n, p) /\ b \in Past(n, p)
    BY <1>4, <2>1, <2>2 DEF PictureInv
  <2>4. a = b
    BY <1>1, <2>1, <2>2, <2>3
  <2> QED BY <1>3, <2>1, <2>2, <2>4 DEF Separate
<1>6. \A i \in DOMAIN l :
        /\ k[i].nals = IF l[i].current THEN l[i].nals \cup {p} ELSE l[i].nals
        /\ k[i].output = l[i].output /\ k[i].current = l[i].current /\ k[i].picOutput = l[i].picOutput
        /\ p \notin l[i].nals
  BY <1>1, <1>4 DEF Added, PictureInv
<1>7. Separate(k)
  <2> SUFFICES ASSUME NEW i \in DOMAIN l, NEW j \in DOMAIN l, i # j PROVE k[i].nals \cap k[j].nals = {}
    BY DEF Separate
  <2>1. l[i].nals \cap l[j].nals = {}
    BY <1>3 DEF Separate
  <2>2. ~(l[i].current /\ l[j].current)
    BY <1>5
  <2> QED BY <1>6, <2>1, <2>2
<1>8. ASSUME NEW h \in FirstIn(n) PROVE InList(k, TRUE, h) <=> InList(l, TRUE, h)
  <2>1. h # p
    BY <1>1
  <2>2. \A i \in DOMAIN l : h \in k[i].nals <=> h \in l[i].nals
    BY <1>6, <2>1
  <2>3. \A i \in DOMAIN l : Due(k[i], TRUE) <=> Due(l[i], TRUE)
    BY <1>6 DEF Due
  <2> QED BY <2>2, <2>3 DEF InList
<1>9. Split(n, Expected(n, p + 1), TRUE, k, w, x)
  BY <1>2, <1>8 DEF Account, Split
<1>10. \A i \in DOMAIN k : k[i].current => ~k[i].output
  BY <1>6 DEF Account
<1>11. \A i \in DOMAIN k : k[i].output => AllSlices(n, k[i].nals)
  BY <1>6 DEF Account
<1>12. x \subseteq SlicesIn(n) /\ \A j \in x : SlicesOfPicture(n, j) \subseteq x
  BY DEF Account
<1> QED BY <1>3, <1>7, <1>9, <1>10, <1>11, <1>12 DEF Account

-----------------------------------------------------------------------------
(* The actions keep the account.                                           *)

(* The last picture begun begins, and is not the first of all.             *)
Alone(n, p) ==
  \E f \in Heads(n, p) : /\ Begins(n, f) /\ \A g \in Heads(n, p) : g <= f
                         /\ \E g \in Heads(n, p) : g < f

(* The account at NAL unit p.  The list is known once a picture was        *)
(* completed; m_loopFiltered stays set after an end of sequence, until the *)
(* picture after it was completed.                                         *)
Accounted(n, p, l, d, a, w, x) ==
  /\ Account(n, Expected(n, p), Begun(d), l, w, x)
  /\ Past(n, p) # {} /\ ~Begun(d) => a.listKnown
  /\ p <= Len(n) /\ a.loopFiltered =>
       Heads(n, p) # {} /\ (d.firstSliceInSequence \/ (Begun(d) /\ Alone(n, p)))
  /\ p > Len(n) => ~Begun(d)

NowAccounted == Accounted(stream, pos, dpb, dec, app, written, discarded)
ThenAccounted == Accounted(stream, pos', dpb', dec', app', written', discarded')

EndsWell(n) == LastNotAlone(n, settings.maxTemporalLayer)

(* No stream ends with a picture alone.                                    *)
LEMMA NotAloneAtEnd ==
  ASSUME NEW n, Conforming(n, settings), EndsWell(n), NEW p \in Nat, p > Len(n)
  PROVE  ~Alone(n, p)
<1> SUFFICES ASSUME Alone(n, p) PROVE FALSE
  OBVIOUS
<1>1. PICK f \in Heads(n, p) : /\ Begins(n, f) /\ \A g \in Heads(n, p) : g <= f
                               /\ \E g \in Heads(n, p) : g < f
  BY DEF Alone
<1>2. PICK g \in Heads(n, p) : g < f
  BY <1>1
<1>3. f \in Firsts(n) /\ g \in Firsts(n)
  BY <1>1, <1>2 DEF Heads
<1>4. PICK m \in Firsts(n) : f < m
  BY <1>1, <1>2, <1>3 DEF EndsWell, LastNotAlone, Firsts
<1>5. m \in 1..Len(n) /\ Len(n) \in Nat /\ f \in Nat /\ m \in Nat
  BY <1>3, <1>4, FirstsFacts
<1>6. m < p
  BY <1>5
<1>7. m \in Heads(n, p)
  BY <1>4, <1>6 DEF Heads
<1>8. m <= f
  BY <1>1, <1>7
<1> QED BY <1>4, <1>5, <1>8

(* What is passed over begins nothing.                                     *)
LEMMA SameHeads ==
  ASSUME NEW n, Conforming(n, settings), NEW p \in Nat, p \notin Firsts(n)
  PROVE  /\ Heads(n, p + 1) = Heads(n, p) /\ Expected(n, p + 1) = Expected(n, p)
         /\ Alone(n, p + 1) <=> Alone(n, p)
<1>1. Heads(n, p + 1) = Heads(n, p)
  BY NoFirstSlice
<1> QED BY <1>1 DEF Expected, Alone

(* A NAL unit that is not decoded keeps the account.                       *)
LEMMA PassesAccounts ==
  ASSUME Given, Now, Passes, NowAccounted, EndsWell(stream)
  PROVE  ThenAccounted
<1>1. /\ ValidSettings(settings) /\ Conforming(stream, settings) /\ Len(stream) \in Nat
      /\ pos \in Nat /\ pos # 0 /\ dpb \in Seq(Pictures) /\ app \in Apps /\ written \in Seq(WrittenPictures)
      /\ pos <= Len(stream) /\ pos \notin Decoded(stream) /\ pos' = pos + 1
      /\ pos \notin Firsts(stream) /\ pos + 1 \in Nat
      /\ StartInv(stream, pos, dpb, dec, app) /\ ListInv(stream, Past(stream, pos), dpb)
      /\ dec.firstSliceInSequence <=> NoneSince(stream, pos)
  BY ConformingNALs, FirstsFacts DEF Given, Now, DecoderInv, Passes, Registers
<1>2. PICK d \in Decs : /\ d.firstSliceInPicture = dec.firstSliceInPicture
                        /\ d.firstSliceInSequence = dec.firstSliceInSequence
                        /\ Loop(FALSE, AtEnd, dpb, d, app)
  BY DEF Passes
<1>3. Begun(d) <=> Begun(dec)
  BY <1>2 DEF Begun
<1>4. /\ Heads(stream, pos + 1) = Heads(stream, pos) /\ Expected(stream, pos + 1) = Expected(stream, pos)
      /\ Alone(stream, pos + 1) <=> Alone(stream, pos)
      /\ Past(stream, pos + 1) = Past(stream, pos)
      /\ Past(stream, pos) \in SUBSET SlicesIn(stream)
  BY <1>1, SameHeads, PastFacts
<1>5. ~d.firstSliceInSequence => Past(stream, pos) # {}
  BY <1>1, <1>2, NothingYet
<1>6. ASSUME Completes(FALSE, AtEnd, d, app) PROVE Begun(d) /\ Whole(stream, Past(stream, pos))
  <2>1. (AtEnd \/ nal.type = "EOS") /\ ~d.firstSliceInSequence
    BY <1>6 DEF Completes
  <2>2. Whole(stream, Past(stream, pos + 1))
    <3>1. pos + 1 > Len(stream) \/ (pos + 1 > 1 /\ stream[(pos + 1) - 1].type = "EOS")
      BY <1>1, <2>1 DEF AtEnd, nal
    <3> QED BY <1>1, <3>1, PastIsWhole
  <2>3. ~dec.firstSliceInPicture
    BY <1>1, <1>5, <2>1 DEF StartInv
  <2> QED BY <1>2, <1>4, <2>1, <2>2, <2>3 DEF Begun
<1>7. ASSUME app.loopFiltered
      PROVE  /\ Heads(stream, pos) # {}
             /\ d.firstSliceInSequence \/ (Begun(d) /\ ~AtEnd /\ Alone(stream, pos + 1))
  <2>1. /\ Heads(stream, pos) # {}
        /\ dec.firstSliceInSequence \/ (Begun(dec) /\ Alone(stream, pos))
    BY <1>1, <1>7 DEF NowAccounted, Accounted
  <2>2. Alone(stream, pos) => ~AtEnd
    BY <1>1, <1>4, NotAloneAtEnd DEF AtEnd
  <2> QED BY <1>2, <1>3, <1>4, <2>1, <2>2
<1>8. Begun(d) /\ AtEnd => ~app.loopFiltered
  BY <1>7 DEF Begun
<1>9. Account(stream, Expected(stream, pos), Begun(d), dpb, written, discarded)
  <2>1. Begun(d) = Begun(dec)
    BY <1>3 DEF Begun
  <2> QED BY <2>1 DEF NowAccounted, Accounted
<1>10. AtEnd \in BOOLEAN
  BY DEF AtEnd
<1>11. /\ Account(stream, Expected(stream, pos), Begun(dec'), dpb', written', discarded')
       /\ Begun(dec') <=> Begun(d) /\ ~Completes(FALSE, AtEnd, d, app)
  BY <1>1, <1>2, <1>4, <1>6, <1>8, <1>9, <1>10, LoopAccounts
<1>12. /\ app'.listKnown <=> app.listKnown \/ Completes(FALSE, AtEnd, d, app)
       /\ app'.loopFiltered <=> FilteredThen(FALSE, AtEnd, d, app)
       /\ dec'.firstSliceInSequence <=> d.firstSliceInSequence \/ nal.type = "EOS"
  BY <1>1, <1>2, <1>10, LoopFacts
<1>13. Past(stream, pos + 1) # {} /\ ~Begun(dec') => app'.listKnown
  BY <1>3, <1>4, <1>11, <1>12 DEF NowAccounted, Accounted
<1>14. ASSUME pos + 1 <= Len(stream), app'.loopFiltered
       PROVE  /\ Heads(stream, pos + 1) # {}
              /\ dec'.firstSliceInSequence \/ (Begun(dec') /\ Alone(stream, pos + 1))
  <2>1. ~AtEnd
    BY <1>1, <1>14 DEF AtEnd
  <2>2. CASE nal.type = "EOS" /\ ~d.firstSliceInSequence
    <3>1. Heads(stream, pos) # {}
      BY <1>1, <1>5, <2>2, PastHasHeads
    <3> QED BY <1>4, <1>12, <2>2, <3>1
  <2>3. CASE ~(nal.type = "EOS" /\ ~d.firstSliceInSequence)
    <3>1. app.loopFiltered
      BY <1>12, <1>14, <2>1, <2>3 DEF FilteredThen
    <3>2. ~d.firstSliceInSequence => ~Completes(FALSE, AtEnd, d, app)
      BY <2>1, <2>3 DEF Completes
    <3> QED BY <1>4, <1>7, <1>11, <1>12, <3>1, <3>2
  <2> QED BY <2>2, <2>3
<1>15. pos + 1 > Len(stream) => ~Begun(dec')
  <2> SUFFICES ASSUME pos + 1 > Len(stream), Begun(d), ~Completes(FALSE, AtEnd, d, app) PROVE FALSE
    BY <1>11
  <2>1. AtEnd
    BY <1>1 DEF AtEnd
  <2> QED BY <1>8, <2>1 DEF Completes, Begun
<1>16. Accounted(stream, pos + 1, dpb', dec', app', written', discarded')
  BY <1>4, <1>11, <1>13, <1>14, <1>15 DEF Accounted
<1> QED BY <1>1, <1>16 DEF ThenAccounted

(* Finding a new picture keeps the account.                                *)
LEMMA FindsAccounts ==
  ASSUME Given, Now, Finds, NowAccounted
  PROVE  ThenAccounted
<1>1. /\ Conforming(stream, settings) /\ pos \in Nat /\ Len(stream) \in Nat
      /\ dpb \in Seq(Pictures) /\ app \in Apps /\ written \in Seq(WrittenPictures)
      /\ pos \in Decoded(stream) /\ stream[pos].first /\ pos' = pos /\ app'.listKnown
      /\ pos <= Len(stream) /\ dec'.firstSliceInPicture
      /\ ListInv(stream, Past(stream, pos), dpb)
  BY ConformingNALs DEF Given, Now, DecoderInv, Finds
<1>2. PICK d \in Decs : /\ d.firstSliceInPicture = dec.firstSliceInPicture
                        /\ d.firstSliceInSequence = dec.firstSliceInSequence
                        /\ ~d.firstSliceInPicture
                        /\ Loop(TRUE, FALSE, dpb, d, app)
  BY DEF Finds
<1>3. pos \in SlicesIn(stream) /\ nal.type # "EOS" /\ Past(stream, pos) \in SUBSET SlicesIn(stream)
  BY <1>1, ConformingNALs, PastFacts DEF nal, Decoded, Decodable
<1>4. Whole(stream, Past(stream, pos))
  BY <1>1, <1>3, PastIsWhole
<1>5. Completes(TRUE, FALSE, d, app) => Begun(d)
  BY <1>2 DEF Completes, Begun
<1>6. Account(stream, Expected(stream, pos), Begun(d), dpb, written, discarded)
  <2>1. Begun(d) = Begun(dec)
    BY <1>2 DEF Begun
  <2> QED BY <2>1 DEF NowAccounted, Accounted
<1>7. Account(stream, Expected(stream, pos), Begun(dec'), dpb', written', discarded')
  BY <1>1, <1>2, <1>3, <1>4, <1>5, <1>6, LoopAccounts
<1>8. /\ app'.loopFiltered <=> FilteredThen(TRUE, FALSE, d, app)
      /\ dec'.firstSliceInSequence <=> d.firstSliceInSequence \/ nal.type = "EOS"
  BY <1>1, <1>2, LoopFacts
<1>9. app'.loopFiltered => d.firstSliceInSequence /\ app.loopFiltered
  BY <1>3, <1>8 DEF FilteredThen
<1>10. app'.loopFiltered => Heads(stream, pos) # {} /\ dec'.firstSliceInSequence
  BY <1>1, <1>8, <1>9 DEF NowAccounted, Accounted
<1>11. ~(pos > Len(stream))
  BY <1>1
<1>12. Accounted(stream, pos, dpb', dec', app', written', discarded')
  BY <1>1, <1>7, <1>10, <1>11 DEF Accounted
<1> QED BY <1>1, <1>12 DEF ThenAccounted

(* The list with the slice added keeps the account.                        *)
LEMMA AddedAccounts ==
  ASSUME Given, Now, Decodes, NowAccounted, NEW s \in HeaderSlices, Adds(s)
  PROVE  Account(stream, Expected(stream, pos + 1), TRUE, ListOfSlice(s), written, discarded)
<1> DEFINE k == ListOfSlice(s)
<1>1. /\ ValidSettings(settings) /\ Conforming(stream, settings)
      /\ pos \in Nat /\ dpb \in Seq(Pictures) /\ ListInv(stream, Past(stream, pos), dpb)
      /\ pos <= Len(stream) /\ pos \in Decoded(stream) /\ AtSlice(stream, pos, dec)
      /\ dec.firstSliceInPicture <=> stream[pos].first
  BY DEF Given, Now, DecoderInv, Decodes
<1>2. s = HeaderSlice(nal, dec, Header) /\ k \in Seq(Pictures)
  BY DEF Adds
<1>3. /\ pos \in SlicesIn(stream) /\ nal = stream[pos] /\ nal.tid \in Nat
  <2>1. pos \in SlicesIn(stream) /\ nal = stream[pos]
    BY <1>1 DEF Decoded, Decodable, nal
  <2>2. nal \in SliceNALs
    BY <1>1, <2>1, ConformingNALs
  <2> QED BY <2>1, <2>2 DEF SliceNALs
<1>4. \A q \in Pics(dpb) : ~q.longTerm
  BY <1>1 DEF ListInv, PictureInv
<1>5. CASE stream[pos].first
  <2>1. pos \in Firsts(stream) /\ dec.firstSliceInPicture
    BY <1>1, <1>5, FirstsFacts
  <2>2. WithPicture(k, dpb, s)
    BY <1>1, <1>4, <2>1, StartPictureFacts DEF ListOfSlice
  <2>3. s.picOutput <=> stream[pos].out
    BY <1>1, <1>2, <1>3, <1>5, FirstSlicePicOutput DEF Header
  <2>4. Begun(dec) = FALSE
    BY <2>1 DEF Begun
  <2>5. Account(stream, Expected(stream, pos), FALSE, dpb, written, discarded)
    BY <2>4 DEF NowAccounted, Accounted
  <2> HIDE DEF k
  <2>6. Account(stream, Expected(stream, pos + 1), TRUE, k, written, discarded)
    BY <1>1, <1>2, <2>1, <2>2, <2>3, <2>5, FirstSliceAccounts
  <2> QED BY <2>6 DEF k
<1>6. CASE ~stream[pos].first
  <2>1. ~dec.firstSliceInPicture /\ ~dec.firstSliceInSequence
    BY <1>1, <1>6, DependentSlice
  <2>2. k = AddSlice(dpb)
    BY <2>1 DEF ListOfSlice
  <2>3. DOMAIN k = DOMAIN dpb /\ \A i \in DOMAIN dpb : Added(k[i], dpb[i], pos)
    BY <1>1, <1>3, <2>2, AddSliceFacts
  <2>4. Begun(dec) = TRUE
    BY <2>1 DEF Begun
  <2>5. Account(stream, Expected(stream, pos), TRUE, dpb, written, discarded)
    BY <2>4 DEF NowAccounted, Accounted
  <2> HIDE DEF k
  <2>6. Account(stream, Expected(stream, pos + 1), TRUE, k, written, discarded)
    BY <1>1, <1>2, <1>6, <2>3, <2>5, FurtherSliceAccounts
  <2> QED BY <2>6 DEF k
<1> QED BY <1>5, <1>6

(* m_loopFiltered is set for a slice only when it is of a picture alone.   *)
LEMMA FilteredIsAlone ==
  ASSUME Given, Now, Decodes, NowAccounted, app.loopFiltered
  PROVE  Alone(stream, pos + 1)
<1>1. /\ Conforming(stream, settings) /\ pos \in Nat /\ pos <= Len(stream)
      /\ pos \in Decoded(stream) /\ pos \in SlicesIn(stream) /\ AtSlice(stream, pos, dec)
      /\ dec.firstSliceInPicture <=> stream[pos].first
      /\ dec.firstSliceInSequence <=> NoneSince(stream, pos)
  BY DEF Given, Now, DecoderInv, Decodes, Decoded, Decodable, Registers
<1>2. Heads(stream, pos) # {} /\ (dec.firstSliceInSequence \/ (Begun(dec) /\ Alone(stream, pos)))
  BY <1>1 DEF NowAccounted, Accounted
<1>3. CASE stream[pos].first
  <2>1. pos \in Firsts(stream) /\ dec.firstSliceInPicture
    BY <1>1, <1>3, FirstsFacts
  <2>2. Begins(stream, pos)
    BY <1>1, <1>2, <2>1, NextBegins DEF Begun
  <2>3. Heads(stream, pos + 1) = Heads(stream, pos) \cup {pos}
    BY <1>1, <2>1, NextFirstSlice
  <2>4. \A g \in Heads(stream, pos) : g < pos /\ g \in Nat
    BY <1>1, FirstsFacts DEF Heads
  <2>5. \A g \in Heads(stream, pos + 1) : g <= pos
    BY <1>1, <2>3, <2>4
  <2> QED BY <1>2, <2>2, <2>3, <2>4, <2>5 DEF Alone
<1>4. CASE ~stream[pos].first
  <2>1. ~dec.firstSliceInSequence
    BY <1>1, <1>4, DependentSlice
  <2>2. pos \notin Firsts(stream)
    BY <1>1, <1>4, FirstsFacts
  <2> QED BY <1>1, <1>2, <2>1, <2>2, SameHeads
<1> QED BY <1>3, <1>4

(* Decoding a slice keeps the account, unless an assertion fails.          *)
LEMMA DecodesAccounts ==
  ASSUME Given, Now, Decodes, NowAccounted, EndsWell(stream), status' # "aborted"
  PROVE  ThenAccounted
<1>1. /\ ValidSettings(settings) /\ Conforming(stream, settings) /\ Len(stream) \in Nat
      /\ pos \in Nat /\ pos + 1 \in Nat /\ app \in Apps /\ written \in Seq(WrittenPictures)
      /\ pos <= Len(stream) /\ pos \in Decoded(stream)
  BY ConformingNALs DEF Given, Now, DecoderInv, Decodes
<1>2. PICK s \in HeaderSlices : Adds(s) /\ pos' = pos + 1
  BY DEF Decodes
<1> DEFINE k == ListOfSlice(s)
<1>3. k \in Seq(Pictures) /\ ListInv(stream, Past(stream, pos + 1), k)
  BY <1>2 DEF Adds
<1>4. PICK e \in Decs : /\ ~e.firstSliceInPicture /\ ~e.firstSliceInSequence
                        /\ Loop(FALSE, AtEnd, k, e, app)
  BY <1>2 DEF Adds
<1>5. Account(stream, Expected(stream, pos + 1), TRUE, k, written, discarded)
  BY <1>2, AddedAccounts
<1> HIDE DEF k
<1>6. Begun(e) = TRUE /\ nal.type # "EOS" /\ AtEnd \in BOOLEAN
      /\ Past(stream, pos + 1) \in SUBSET SlicesIn(stream)
  BY <1>1, <1>4, ConformingNALs, PastFacts DEF Begun, Decoded, Decodable, nal, AtEnd
<1>7. ASSUME Completes(FALSE, AtEnd, e, app) PROVE Begun(e) /\ Whole(stream, Past(stream, pos + 1))
  <2>1. pos + 1 > Len(stream)
    BY <1>1, <1>6, <1>7 DEF Completes, AtEnd
  <2>2. Whole(stream, Past(stream, pos + 1))
    BY <1>1, <2>1, PastIsWhole
  <2> QED BY <1>6, <2>2
<1>8. app.loopFiltered => Alone(stream, pos + 1) /\ ~AtEnd
  <2>1. app.loopFiltered => Alone(stream, pos + 1)
    BY FilteredIsAlone
  <2>2. AtEnd => ~Alone(stream, pos + 1)
    BY <1>1, NotAloneAtEnd DEF AtEnd
  <2> QED BY <2>1, <2>2
<1>9. /\ Account(stream, Expected(stream, pos + 1), Begun(dec'), dpb', written', discarded')
      /\ Begun(dec') <=> Begun(e) /\ ~Completes(FALSE, AtEnd, e, app)
  <2>1. Account(stream, Expected(stream, pos + 1), Begun(e), k, written, discarded)
    BY <1>5, <1>6
  <2> QED BY <1>1, <1>3, <1>4, <1>6, <1>7, <1>8, <2>1, LoopAccounts
<1>10. /\ app'.listKnown <=> app.listKnown \/ Completes(FALSE, AtEnd, e, app)
       /\ app'.loopFiltered <=> FilteredThen(FALSE, AtEnd, e, app)
  BY <1>1, <1>3, <1>4, <1>6, LoopFacts
<1>11. ~Begun(dec') => app'.listKnown
  BY <1>6, <1>9, <1>10
<1>12. ASSUME pos + 1 <= Len(stream), app'.loopFiltered
       PROVE  Heads(stream, pos + 1) # {} /\ Begun(dec') /\ Alone(stream, pos + 1)
  <2>1. ~AtEnd
    BY <1>1, <1>12 DEF AtEnd
  <2>2. app.loopFiltered
    BY <1>6, <1>10, <1>12, <2>1 DEF FilteredThen
  <2>3. ~Completes(FALSE, AtEnd, e, app)
    BY <1>6, <2>1 DEF Completes
  <2>4. Alone(stream, pos + 1) /\ Begun(dec')
    BY <1>6, <1>8, <1>9, <2>2, <2>3
  <2> QED BY <2>4 DEF Alone
<1>13. pos + 1 > Len(stream) => ~Begun(dec')
  <2> SUFFICES ASSUME pos + 1 > Len(stream) PROVE Completes(FALSE, AtEnd, e, app)
    BY <1>9
  <2>1. AtEnd
    BY <1>1 DEF AtEnd
  <2> QED BY <1>4, <1>8, <2>1 DEF Completes
<1>14. Accounted(stream, pos + 1, dpb', dec', app', written', discarded')
  BY <1>9, <1>11, <1>12, <1>13 DEF Accounted
<1> QED BY <1>2, <1>14 DEF ThenAccounted

(* At the end of the file what waits is written.                           *)
LEMMA FinishAccounts ==
  ASSUME Given, Now, Finish, NowAccounted
  PROVE  /\ Account(stream, Expected(stream, pos'), FALSE, <<>>, written', discarded')
         /\ pos' > Len(stream)
<1> DEFINE m == [dpb |-> dpb, app |-> app, written |-> written]
           v == WithWritten(written, InOrder(dpb, Waiting(dpb)))
<1>1. /\ pos > Len(stream) /\ pos' = pos /\ discarded' = discarded
      /\ \E f \in {IF app.listKnown THEN FlushOutput(m) ELSE m} :
           dpb' = f.dpb /\ app' = f.app /\ written' = f.written
  BY DEF Finish
<1>2. ~Begun(dec) /\ Account(stream, Expected(stream, pos), Begun(dec), dpb, written, discarded)
  BY <1>1 DEF NowAccounted, Accounted
<1>3. Account(stream, Expected(stream, pos), FALSE, dpb, written, discarded)
  <2>1. Begun(dec) = FALSE
    BY <1>2 DEF Begun
  <2> QED BY <1>2, <2>1
<1>4. CASE app.listKnown
  <2>1. FlushOutput(m).written = v
    BY DEF FlushOutput
  <2>2. written' = v
    BY <1>1, <1>4, <2>1
  <2>3. Account(stream, Expected(stream, pos), FALSE, <<>>, v, discarded)
    BY <1>3, FlushAccounts
  <2> QED BY <1>1, <2>2, <2>3
<1>5. CASE ~app.listKnown
  <2>1. Past(stream, pos) = {}
    BY <1>2, <1>5 DEF NowAccounted, Accounted
  <2>2. dpb = <<>> /\ written' = written
    BY <1>1, <1>5, <2>1 DEF Now, DecoderInv, StartInv
  <2> QED BY <1>1, <1>3, <2>2
<1> QED BY <1>4, <1>5

-----------------------------------------------------------------------------
(* The inductive invariant of the completeness of output.                  *)

CountState ==
  /\ Inv /\ PicturesLabelled(stream) /\ EndsWell(stream)
  /\ status = "running" => NowAccounted
  /\ status = "finished" => /\ Account(stream, Expected(stream, pos), FALSE, <<>>, written, discarded)
                            /\ pos > Len(stream)

(* Before the first NAL unit there is nothing to account for.              *)
LEMMA InitAccounts ==
  ASSUME Init, Conforming(stream, settings), PicturesLabelled(stream), EndsWell(stream)
  PROVE  CountState
<1>1. Inv
  BY InitInv
<1>2. /\ pos = 1 /\ dpb = <<>> /\ written = <<>> /\ discarded = {} /\ status = "running"
      /\ dec.firstSliceInPicture /\ ~app.loopFiltered
  BY DEF Init, InitDec, InitApp
<1>3. Heads(stream, 1) = {} /\ Past(stream, 1) = {} /\ Expected(stream, 1) = {}
  <2>1. \A k \in SlicesIn(stream) : ~(k < 1)
    BY ConformingNALs
  <2> QED
    BY <2>1, FirstsFacts DEF Heads, Past, Decoded, Decodable, Expected
<1>4. Begun(dec) <=> FALSE
  BY <1>2 DEF Begun
<1>5. Account(stream, {}, Begun(dec), <<>>, <<>>, {})
  <2>1. <<>> \in Seq(Pictures) /\ <<>> \in Seq(WrittenPictures)
    OBVIOUS
  <2>2. Split(stream, {}, Begun(dec), <<>>, <<>>, {})
    BY DEF Split, InWritten, InList
  <2> QED
    BY <2>1, <2>2 DEF Account, Separate
<1>6. NowAccounted
  BY <1>2, <1>3, <1>4, <1>5 DEF NowAccounted, Accounted
<1> QED
  BY <1>1, <1>2, <1>6 DEF CountState

(* Every action keeps the account.                                         *)
LEMMA StepAccounts ==
  ASSUME CountState, [Next]_vars
  PROVE  /\ status' = "running" => ThenAccounted
         /\ status' = "finished" =>
              /\ Account(stream, Expected(stream, pos'), FALSE, <<>>, written', discarded')
              /\ pos' > Len(stream)
<1>1. /\ Given /\ Now /\ ReferencesRight /\ EndsWell(stream)
      /\ status \in {"running", "finished", "aborted"}
  BY DEF CountState, Inv
<1>2. CASE IgnoreNal \/ EndOfSequence \/ SkipSlice
  <2>1. Passes /\ status = "running" /\ status' = "running"
    BY <1>1, <1>2, IgnoreNalInv, EndOfSequenceInv, SkipSliceInv
    DEF IgnoreNal, EndOfSequence, SkipSlice, ReadsSlice, Reading
  <2>2. NowAccounted
    BY <2>1 DEF CountState
  <2> QED
    BY <1>1, <2>1, <2>2, PassesAccounts
<1>3. CASE FindNewPicture
  <2>1. Finds /\ status = "running" /\ status' = "running"
    BY <1>1, <1>3, FindNewPictureInv DEF FindNewPicture, ReadsSlice, Reading
  <2>2. NowAccounted
    BY <2>1 DEF CountState
  <2> QED
    BY <1>1, <2>1, <2>2, FindsAccounts
<1>4. CASE DecodeSlice
  <2>1. status = "running"
    BY <1>4 DEF DecodeSlice, ReadsSlice, Reading
  <2>2. Decodes /\ NowAccounted
    BY <1>1, <1>4, <2>1, DecodeSliceInv DEF CountState
  <2>3. status' \in {"running", "aborted"}
    BY <2>1, <2>2 DEF Decodes
  <2>4. status' # "aborted" => ThenAccounted
    BY <1>1, <2>2, DecodesAccounts
  <2> QED
    BY <2>3, <2>4
<1>5. CASE Finish
  <2>1. status = "running" /\ status' = "finished"
    BY <1>5 DEF Finish
  <2>2. NowAccounted
    BY <2>1 DEF CountState
  <2> QED
    BY <1>1, <1>5, <2>1, <2>2, FinishAccounts
<1>6. CASE UNCHANGED vars
  <2>1. /\ pos' = pos /\ dpb' = dpb /\ dec' = dec /\ app' = app /\ written' = written
        /\ discarded' = discarded /\ status' = status
    BY <1>6 DEF vars
  <2> QED
    BY <2>1 DEF CountState, NowAccounted, ThenAccounted
<1> QED
  BY <1>2, <1>3, <1>4, <1>5, <1>6 DEF Next

(* Every action keeps the invariant.                                       *)
LEMMA NextAccounts == ASSUME CountState, [Next]_vars PROVE CountState'
<1>1. Inv' /\ PicturesLabelled(stream) /\ EndsWell(stream)
  BY NextInv DEF CountState
<1>2. settings' = settings /\ stream' = stream
  BY DEF Next, vars, IgnoreNal, EndOfSequence, SkipSlice, FindNewPicture, DecodeSlice, Finish
<1>3. /\ Firsts(stream)' = Firsts(stream) /\ SlicesIn(stream)' = SlicesIn(stream)
      /\ Decoded(stream)' = Decoded(stream)
  BY <1>2 DEF Firsts, FirstSlices, Decoded, Decodable, SlicesIn, CannotBeDecoded, LastIRAP, Begins, NoEOS
<1>4. \A k : Begins(stream, k)' <=> Begins(stream, k)
  BY <1>2 DEF Begins, SlicesIn, NoEOS
<1>5. PicturesLabelled(stream)'
  BY <1>1, <1>2, <1>3, <1>4 DEF PicturesLabelled
<1>6. EndsWell(stream)'
  BY <1>1, <1>2, <1>3, <1>4 DEF EndsWell, LastNotAlone, Firsts
<1>7. /\ Heads(stream, pos)' = Heads(stream, pos') /\ Past(stream, pos)' = Past(stream, pos')
      /\ Expected(stream, pos)' = Expected(stream, pos')
  BY <1>2, <1>3 DEF Heads, Past, Expected
<1>8. FirstIn(stream)' = FirstIn(stream)
  BY <1>2, <1>3 DEF FirstIn
<1>9. \A q : AllSlices(stream, q)' <=> AllSlices(stream, q)
  BY <1>2, <1>3 DEF AllSlices, SlicesOfPicture
<1>10. ASSUME Account(stream, Expected(stream, pos'), Begun(dec'), dpb', written', discarded')
       PROVE  Account(stream, Expected(stream, pos), Begun(dec), dpb, written, discarded)'
  <2>1. Split(stream, Expected(stream, pos), Begun(dec), dpb, written, discarded)'
    BY <1>7, <1>8, <1>10 DEF Account, Split, InWritten, InList, Due, Begun
  <2>2. Separate(dpb)'
    BY <1>10 DEF Account, Separate
  <2>3. (dpb \in Seq(Pictures) /\ written \in Seq(WrittenPictures))'
    BY <1>10 DEF Account
  <2>4. (Begun(dec) => \A i \in DOMAIN dpb : dpb[i].current => ~dpb[i].output)'
    BY <1>10 DEF Account, Begun
  <2>5. (\A i \in DOMAIN dpb : dpb[i].output => AllSlices(stream, dpb[i].nals))'
    BY <1>2, <1>3, <1>10 DEF Account, AllSlices, SlicesOfPicture
  <2>6. (discarded \subseteq SlicesIn(stream) /\ \A k \in discarded : SlicesOfPicture(stream, k) \subseteq discarded)'
    BY <1>2, <1>3, <1>10 DEF Account, SlicesOfPicture
  <2> QED
    BY <2>1, <2>2, <2>3, <2>4, <2>5, <2>6 DEF Account
<1>11. ASSUME Account(stream, Expected(stream, pos'), FALSE, <<>>, written', discarded')
       PROVE  Account(stream, Expected(stream, pos), FALSE, <<>>, written, discarded)'
  <2>1. Split(stream, Expected(stream, pos), FALSE, <<>>, written, discarded)'
    BY <1>7, <1>8, <1>11 DEF Account, Split, InWritten, InList, Due
  <2>2. Separate(<<>>)'
    BY DEF Separate
  <2>3. (<<>> \in Seq(Pictures) /\ written \in Seq(WrittenPictures))'
    BY <1>11 DEF Account
  <2>4. (discarded \subseteq SlicesIn(stream) /\ \A k \in discarded : SlicesOfPicture(stream, k) \subseteq discarded)'
    BY <1>2, <1>3, <1>11 DEF Account, SlicesOfPicture
  <2>5. \A i \in DOMAIN <<>> : FALSE
    OBVIOUS
  <2>6. (\A i \in DOMAIN <<>> : <<>>[i].output => AllSlices(stream, <<>>[i].nals))'
    BY <2>5
  <2> QED
    BY <2>1, <2>2, <2>3, <2>4, <2>6 DEF Account
<1>12. Alone(stream, pos)' <=> Alone(stream, pos')
  BY <1>4, <1>7 DEF Alone
<1>13. ThenAccounted => NowAccounted'
  <2> SUFFICES ASSUME ThenAccounted PROVE NowAccounted'
    OBVIOUS
  <2>1. Accounted(stream, pos', dpb', dec', app', written', discarded')
    BY DEF ThenAccounted
  <2>2. Account(stream, Expected(stream, pos), Begun(dec), dpb, written, discarded)'
    BY <1>10, <2>1 DEF Accounted
  <2>3. (Past(stream, pos) # {} /\ ~Begun(dec) => app.listKnown)'
    BY <1>7, <2>1 DEF Accounted, Begun
  <2>4. (pos <= Len(stream) /\ app.loopFiltered =>
           Heads(stream, pos) # {} /\ (dec.firstSliceInSequence \/ (Begun(dec) /\ Alone(stream, pos))))'
    BY <1>2, <1>7, <1>12, <2>1 DEF Accounted, Begun
  <2>5. (pos > Len(stream) => ~Begun(dec))'
    BY <1>2, <2>1 DEF Accounted, Begun
  <2> QED
    BY <2>2, <2>3, <2>4, <2>5 DEF NowAccounted, Accounted
<1>14. (status = "running" => NowAccounted)'
  BY <1>13, StepAccounts
<1>15. (status = "finished" => /\ Account(stream, Expected(stream, pos), FALSE, <<>>, written, discarded)
                              /\ pos > Len(stream))'
  <2>1. status' = "finished" => /\ Account(stream, Expected(stream, pos'), FALSE, <<>>, written', discarded')
                               /\ pos' > Len(stream)
    BY StepAccounts
  <2> QED
    BY <1>2, <1>11, <2>1
<1> QED
  BY <1>1, <1>5, <1>6, <1>14, <1>15 DEF CountState

-----------------------------------------------------------------------------
(* What must come out.                                                     *)

(* With pictures and sequences numbered, a CRA picture starts a sequence   *)
(* if it begins after an end of sequence, and only then.                   *)
LEMMA StartsIfBegins ==
  ASSUME Conforming(stream, settings), PicturesLabelled(stream),
         NEW a \in SlicesIn(stream), stream[a].type = "CRA"
  PROVE  StartsSequence(a) <=> Begins(stream, a)
<1>1. Slices = SlicesIn(stream)
  BY DEF Slices, SlicesIn
<1>2. /\ Len(stream) \in Nat /\ SlicesIn(stream) \subseteq 1..Len(stream)
      /\ \A k \in SlicesIn(stream) : k \in Nat /\ stream[k].pic \in Nat /\ stream[k].cvs \in Nat
  <2>1. \A k \in SlicesIn(stream) : stream[k] \in SliceNALs
    BY ConformingNALs
  <2> QED
    BY <2>1, ConformingNALs DEF SliceNALs
<1>3. StartsSequence(a) <=>
        \A j \in SlicesIn(stream) : stream[j].cvs = stream[a].cvs => stream[j].pic >= stream[a].pic
  BY <1>1 DEF StartsSequence
<1>4. ASSUME Begins(stream, a), NEW j \in SlicesIn(stream), stream[j].cvs = stream[a].cvs
      PROVE  stream[j].pic >= stream[a].pic
  <2>1. CASE j < a
    <3>1. stream[j].pic # stream[a].pic => stream[j].cvs < stream[a].cvs
      <4>1. a <= a
        BY <1>2
      <4> QED
        BY <1>4, <2>1, <4>1 DEF PicturesLabelled
    <3>2. stream[j].pic = stream[a].pic
      BY <1>2, <1>4, <3>1
    <3> QED
      BY <1>2, <3>2
  <2>2. CASE a < j
    <3>1. stream[a].pic <= stream[j].pic
      BY <2>2 DEF PicturesLabelled
    <3> QED
      BY <1>2, <3>1
  <2> QED
    BY <1>2, <2>1, <2>2
<1>5. ASSUME StartsSequence(a), ~Begins(stream, a) PROVE FALSE
  <2> DEFINE T == {x \in SlicesIn(stream) : x < a /\ NoEOS(stream, x, a) /\ stream[x].pic # stream[a].pic}
  <2>1. T # {} /\ T \in SUBSET (1..Len(stream))
    BY <1>2, <1>5 DEF Begins
  <2>2. PICK x \in T : \A y \in T : y <= x
    BY <1>2, <2>1, Extremes
  <2>3. /\ x \in SlicesIn(stream) /\ x < a /\ NoEOS(stream, x, a) /\ stream[x].pic # stream[a].pic
        /\ x \in Nat /\ a \in Nat
    BY <1>2, <2>2
  <2>4. stream[x].cvs < stream[a].cvs
    <3>1. stream[x].pic <= stream[a].pic /\ stream[x].cvs <= stream[a].cvs
      BY <2>3 DEF PicturesLabelled
    <3>2. ~(stream[x].pic >= stream[a].pic)
      BY <1>2, <2>3, <3>1
    <3>3. stream[x].cvs # stream[a].cvs
      BY <1>3, <1>5, <2>3, <3>2
    <3> QED
      BY <1>2, <2>3, <3>1, <3>3
  <2>5. PICK m \in SlicesIn(stream) : /\ x < m /\ m <= a /\ stream[m].pic # stream[x].pic
                                      /\ stream[m].type \in {"IDR", "BLA"} \/ Begins(stream, m)
    BY <2>3, <2>4 DEF PicturesLabelled
  <2>6. m \in Nat /\ NoEOS(stream, x, m) /\ NoEOS(stream, m, a)
    BY <1>2, <2>3, <2>5 DEF NoEOS
  <2>7. stream[m].type \in {"IDR", "BLA"}
    BY <2>3, <2>5, <2>6 DEF Begins
  <2>8. stream[m].pic # stream[a].pic
    <3>1. stream[m].type # stream[a].type
      BY <2>7
    <3> QED
      BY <3>1, SlicesAgree
  <2>9. m # a
    BY <2>8
  <2>10. m \in T
    BY <2>3, <2>5, <2>6, <2>8, <2>9
  <2>11. m <= x
    BY <2>2, <2>10
  <2> QED
    BY <2>3, <2>5, <2>6, <2>11
<1> QED
  BY <1>3, <1>4, <1>5

(* The RASL pictures that need not come out are those not decoded.         *)
LEMMA UndecodableIs ==
  ASSUME Conforming(stream, settings), PicturesLabelled(stream), NEW k \in SlicesIn(stream)
  PROVE  Undecodable(k) <=> CannotBeDecoded(stream, k)
<1>1. Slices = SlicesIn(stream)
  BY DEF Slices, SlicesIn
<1>2. /\ Len(stream) \in Nat /\ SlicesIn(stream) \subseteq 1..Len(stream)
      /\ \A j \in SlicesIn(stream) : j \in Nat
  BY ConformingNALs
<1>3. ASSUME NEW a \in SlicesIn(stream), stream[a].type \in IRAPTypes
      PROVE  StartsSequence(a) <=> (stream[a].type = "CRA" => Begins(stream, a))
  <2>1. CASE stream[a].type = "CRA"
    BY <2>1, StartsIfBegins
  <2>2. CASE stream[a].type # "CRA"
    BY <1>3, <2>2 DEF StartsSequence, IRAPTypes
  <2> QED
    BY <2>1, <2>2
<1>4. ASSUME CannotBeDecoded(stream, k) PROVE Undecodable(k)
  <2>1. PICK a \in SlicesIn(stream) :
          LastIRAP(stream, a, k) /\ (stream[a].type = "CRA" => Begins(stream, a))
    BY <1>4 DEF CannotBeDecoded
  <2>2. StartsSequence(a)
    BY <1>3, <2>1 DEF LastIRAP
  <2> QED
    BY <1>1, <1>4, <2>1, <2>2 DEF Undecodable, CannotBeDecoded, LastIRAP
<1>5. ASSUME Undecodable(k) PROVE CannotBeDecoded(stream, k)
  <2>1. PICK j \in SlicesIn(stream) :
          /\ j < k /\ StartsSequence(j)
          /\ \A i \in SlicesIn(stream) :
               j < i /\ i < k /\ stream[i].type \in IRAPTypes => stream[i].pic = stream[j].pic
    BY <1>1, <1>5 DEF Undecodable
  <2>2. stream[j].type \in IRAPTypes
    BY <2>1 DEF StartsSequence, IRAPTypes
  <2> DEFINE T == {i \in SlicesIn(stream) : i < k /\ stream[i].type \in IRAPTypes}
  <2>3. j \in T /\ T \in SUBSET (1..Len(stream))
    BY <1>2, <2>1, <2>2
  <2>4. PICK a \in T : \A i \in T : i <= a
    BY <1>2, <2>3, Extremes
  <2>5. /\ a \in SlicesIn(stream) /\ a < k /\ stream[a].type \in IRAPTypes
        /\ a \in Nat /\ j \in Nat /\ j <= a
    BY <1>2, <2>3, <2>4
  <2>6. LastIRAP(stream, a, k)
    <3>1. ASSUME NEW i \in SlicesIn(stream), a < i, i < k, stream[i].type \in IRAPTypes PROVE FALSE
      <4>1. i <= a /\ i \in Nat
        BY <1>2, <2>4, <3>1
      <4> QED
        BY <2>5, <3>1, <4>1
    <3> QED
      BY <2>5, <3>1 DEF LastIRAP
  <2>7. stream[a].pic = stream[j].pic
    BY <2>1, <2>5
  <2>8. stream[a].type = stream[j].type /\ stream[a].cvs = stream[j].cvs
    BY <2>5, <2>7, SlicesAgree
  <2>9. StartsSequence(a)
    BY <2>1, <2>7, <2>8 DEF StartsSequence
  <2> QED
    BY <1>3, <1>5, <2>5, <2>6, <2>9 DEF CannotBeDecoded, Undecodable
<1> QED
  BY <1>4, <1>5


(* Written are the slices of the pictures whose first slices are.          *)
LEMMA WrittenWithFirst ==
  ASSUME WrittenWhole(stream, written), NEW k \in SlicesIn(stream), NEW f \in SlicesIn(stream),
         stream[f].pic = stream[k].pic
  PROVE  InWritten(written, k) <=> InWritten(written, f)
<1>1. SlicesOfPicture(stream, k) = SlicesOfPicture(stream, f)
  BY DEF SlicesOfPicture
<1>2. k \in SlicesOfPicture(stream, f) /\ f \in SlicesOfPicture(stream, k)
  BY DEF SlicesOfPicture
<1> QED
  BY <1>1, <1>2 DEF WrittenWhole, InWritten

(* The slices that must come out are those whose first slice is expected.  *)
LEMMA MustComeOutIs ==
  ASSUME Given, PicturesLabelled(stream), NEW p \in Nat, p > Len(stream),
         NEW k \in SlicesIn(stream), NEW f \in SlicesIn(stream),
         f <= k, stream[f].pic = stream[k].pic, stream[f].first
  PROVE  MustComeOut(k) <=> f \in Expected(stream, p)
<1>1. ValidSettings(settings) /\ Conforming(stream, settings)
  BY DEF Given
<1>2. stream[f].out = stream[k].out
  <2>1. f < k \/ f = k
    BY <1>1, ConformingNALs
  <2> QED
    BY <2>1 DEF PicturesLabelled
<1>3. f \in Decoded(stream) <=> k \in Decoded(stream)
  BY <1>1, PicturesAreDecodable DEF Decoded
<1>4. f \in Heads(stream, p) <=> f \in Decoded(stream)
  <2>1. f \in Nat /\ f < p
    <3>1. f \in 1..Len(stream) /\ Len(stream) \in Nat
      BY <1>1, ConformingNALs
    <3> QED
      BY <3>1
  <2>2. f \in Firsts(stream) <=> f \in Decoded(stream)
    BY <1>1, FirstsFacts
  <2> QED
    BY <2>1, <2>2 DEF Heads
<1>5. MaxTemporalLayer = settings.maxTemporalLayer /\ settings.maxTemporalLayer \in Nat \cup {-1}
  BY <1>1 DEF MaxTemporalLayer, ValidSettings
<1>6. stream[k].tid \in Nat
  <2>1. stream[k] \in SliceNALs
    BY <1>1, ConformingNALs
  <2> QED
    BY <2>1 DEF SliceNALs
<1>7. MaxTemporalLayer = -1 \/ stream[k].tid <= MaxTemporalLayer
        <=> (settings.maxTemporalLayer >= 0 => stream[k].tid <= settings.maxTemporalLayer)
  BY <1>5, <1>6
<1>8. Undecodable(k) <=> CannotBeDecoded(stream, k)
  BY <1>1, UndecodableIs
<1>9. k \in Decoded(stream) <=>
        /\ settings.maxTemporalLayer >= 0 => stream[k].tid <= settings.maxTemporalLayer
        /\ ~CannotBeDecoded(stream, k)
  BY DEF Decoded, Decodable
<1> QED
  BY <1>2, <1>3, <1>4, <1>7, <1>8, <1>9 DEF MustComeOut, Expected

(* When the decoder has finished, the account is that of all pictures.     *)
LEMMA AccountIsComplete == ASSUME CountState PROVE EveryPictureComesOut
<1> SUFFICES ASSUME status = "finished" PROVE EveryPictureComesOut
  BY DEF EveryPictureComesOut
<1>1. /\ Given /\ Conforming(stream, settings) /\ PicturesLabelled(stream) /\ pos \in Nat /\ pos > Len(stream)
      /\ WrittenWhole(stream, written)
      /\ Account(stream, Expected(stream, pos), FALSE, <<>>, written, discarded)
  BY DEF CountState, Inv, Given, Now, DecoderInv
<1>2. /\ Split(stream, Expected(stream, pos), FALSE, <<>>, written, discarded)
      /\ discarded \subseteq SlicesIn(stream)
      /\ \A k \in discarded : SlicesOfPicture(stream, k) \subseteq discarded
  BY <1>1 DEF Account
<1>3. \A h : ~InList(<<>>, FALSE, h)
  BY DEF InList
<1>4. ASSUME NEW k \in SlicesIn(stream)
      PROVE  /\ InWritten(written, k) \/ k \in discarded <=> MustComeOut(k)
             /\ ~(InWritten(written, k) /\ k \in discarded)
  <2>1. PICK f \in SlicesIn(stream) : f <= k /\ stream[f].pic = stream[k].pic /\ stream[f].first
    BY <1>1, FirstSlice
  <2>2. InWritten(written, k) <=> InWritten(written, f)
    BY <1>1, <2>1, WrittenWithFirst
  <2>3. k \in discarded <=> f \in discarded
    BY <1>2, <2>1 DEF SlicesOfPicture
  <2>4. MustComeOut(k) <=> f \in Expected(stream, pos)
    BY <1>1, <2>1, MustComeOutIs
  <2>5. f \in FirstIn(stream)
    BY <2>1 DEF FirstIn
  <2>6. /\ InWritten(written, f) \/ f \in discarded <=> f \in Expected(stream, pos)
        /\ ~(InWritten(written, f) /\ f \in discarded)
    BY <1>2, <1>3, <2>5 DEF Split
  <2> QED
    BY <2>2, <2>3, <2>4, <2>6
<1> DEFINE out == UNION {written[i].nals : i \in DOMAIN written}
<1>5. \A k : k \in out <=> InWritten(written, k)
  BY DEF InWritten
<1>6. \A k : InWritten(written, k) => k \in SlicesIn(stream)
  BY <1>1 DEF InWritten, WrittenWhole, SlicesOfPicture
<1>7. Slices = SlicesIn(stream)
  BY DEF Slices, SlicesIn
<1> HIDE DEF out
<1>8. out \cap discarded = {}
  BY <1>4, <1>5, <1>6
<1>9. out \cup discarded = {k \in Slices : MustComeOut(k)}
  BY <1>2, <1>4, <1>5, <1>6, <1>7
<1> QED
  BY <1>8, <1>9 DEF EveryPictureComesOut, out

LEMMA AccountHolds ==
  Spec /\ Conforming(stream, settings) /\ PicturesLabelled(stream) /\ EndsWell(stream) => []CountState
<1>1. Init /\ Conforming(stream, settings) /\ PicturesLabelled(stream) /\ EndsWell(stream) => CountState
  BY InitAccounts
<1>2. CountState /\ [Next]_vars => CountState'
  BY NextAccounts
<1> QED
  BY <1>1, <1>2, PTL DEF Spec

(* Every picture of the layers decoded that is to be output is written     *)
(* with its slices, or discarded for no_output_of_prior_pics_flag, and no  *)
(* other is: none is left in the list when its buffer is used again, at an *)
(* IDR or BLA picture, at the end of a sequence or at the end of the file, *)
(* and none is lost between executeLoopFilters and xWriteOutput.           *)
THEOREM EveryPictureIsWritten ==
  /\ Spec /\ Conforming(stream, settings)
  /\ PicturesLabelled(stream) /\ LastNotAlone(stream, settings.maxTemporalLayer)
  => []EveryPictureComesOut
<1>1. CountState => EveryPictureComesOut
  BY AccountIsComplete
<1>2. LastNotAlone(stream, settings.maxTemporalLayer) => EndsWell(stream)
  BY DEF EndsWell
<1> QED
  BY <1>1, <1>2, AccountHolds, PTL
=============================================================================
