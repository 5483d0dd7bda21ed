---------------------------- MODULE MCEncoderGOP ----------------------------
EXTENDS EncoderGOP
LOCAL INSTANCE SequencesExt

CONSTANTS Video,     \* the number of frames configured
          Structures \* the names of the GOP structures

Entry(POC, tid, type, refs, active) ==
  [POC |-> POC, temporalId |-> tid, sliceType |-> type, referencePics |-> refs, numRefPicsActive |-> active]

(* The pictures before, the nearest first, and those after.                *)
NearestFirst(S) ==
  SetToSortSeq({d \in S : d < 0}, LAMBDA a, b : a > b) \o SetToSortSeq({d \in S : d > 0}, LAMBDA a, b : a < b)

Refs(S, n) == {NearestFirst(R) : R \in {T \in SUBSET S : Cardinality(T) \in 1..n}}

LastOf(size, refs)  == {Entry(size, 0, "B", r, active) : r \in Refs(refs, 2), active \in 1..2}
Inner(poc, tids, refs) == {Entry(poc, tid, "B", r, 2) : tid \in tids, r \in Refs(refs, 3)}

One   == {<<e>> : e \in LastOf(1, {-1, -2, -3})}
Two   == {<<a, b>> : a \in LastOf(2, {-2, -4, -1}), b \in Inner(1, 0..2, {-1, 1, -2})}
         \cup {<<b, a>> : a \in LastOf(2, {-1, -2, -3}), b \in Inner(1, 0..1, {-1, -3})}

(* The last picture first, in the middle or at the end.                    *)
Three ==
  UNION {{<<a, b, c>>, <<b, a, c>>, <<b, c, a>>, <<a, c, b>>} :
           a \in {Entry(3, 0, "B", r, 2) : r \in {<<-3>>, <<-1, -3>>, <<-3, -6>>}},
           b \in Inner(1, 1..2, {-1, 2, -4}), c \in {Entry(2, tid, "B", r, 2) : tid \in 1..2, r \in {<<-2>>, <<-1, 1>>, <<-2, 1>>, <<-1>>}}}

(* The hierarchy of encoder_randomaccess_main.cfg, with the layers of the  *)
(* levels or all but the last picture of two in a layer of their own, and  *)
(* the chain of encoder_lowdelay_main.cfg.                                 *)
RandomAccess(tid) ==
  <<Entry(8, tid[1], "B", <<-8, -12, -16>>, 2), Entry(4, tid[2], "B", <<-4, -8, 4>>, 2),
    Entry(2, tid[3], "B", <<-2, -6, 2, 6>>, 2), Entry(1, tid[4], "B", <<-1, 1, 3, 7>>, 2),
    Entry(3, tid[4], "B", <<-1, -3, 1, 5>>, 2), Entry(6, tid[3], "B", <<-2, -6, 2>>, 2),
    Entry(5, tid[4], "B", <<-1, -5, 1, 3>>, 2), Entry(7, tid[4], "B", <<-1, -3, -7, 1>>, 2)>>

LowDelay ==
  <<Entry(1, 0, "B", <<-1, -5, -9, -13>>, 4), Entry(2, 0, "P", <<-1, -2, -6, -10>>, 4),
    Entry(3, 0, "B", <<-1, -3, -7, -11>>, 4), Entry(4, 0, "B", <<-1, -4, -8, -12>>, 4)>>

(* The light field: every picture refers to all pictures before it.        *)
LightField(n) ==
  [k \in 1..n |-> Entry(k, 0, "B", [i \in 1..k |-> -i], IF k < 4 THEN k ELSE 4)]

(* A picture of a higher layer that is put out after one of a lower layer  *)
(* is coded after it: xCheckParameter does not ask for it, but counts the  *)
(* pictures to be reordered as if it were so.                              *)
LayersInOrder(list) ==
  \A i \in DOMAIN list : \A j \in 1..i - 1 : list[j].temporalId > list[i].temporalId => list[j].POC < list[i].POC

(* On each side on which a picture refers to others, one of them is of its *)
(* layer or below, and so used for prediction.  xCheckParameter does not   *)
(* ask for it, but the reference lists are then filled from none.          *)
PredictsFromLayer(list) ==
  \A i \in DOMAIN list :
    LET e     == list[i]
        Of(d) == CHOOSE k \in DOMAIN list : (e.POC + d - list[k].POC) % Len(list) = 0
        Below == {d \in Range(e.referencePics) : list[Of(d)].temporalId <= e.temporalId}
    IN  \A d \in Range(e.referencePics) : \E b \in Below : (b < 0) = (d < 0)

Structure(name) ==
  CASE name = "one" -> One
    [] name = "two" -> {l \in Two : PredictsFromLayer(l)}
    [] name = "three" -> {l \in Three : LayersInOrder(l) /\ PredictsFromLayer(l)}
    [] name = "layers" -> Three
    [] name = "shipped" -> {RandomAccess(tid) : tid \in {<<0, 1, 2, 3>>, <<0, 0, 0, 0>>, <<0, 0, 0, 1>>}} \cup {LowDelay}
    [] name = "light field" -> {LightField(Video - 1)}

(* What the GOP structures are combined with.                              *)
Periods(size) == {<<-1, 0>>, <<2 * size, 0>>, <<size, 1>>, <<2 * size, 1>>, <<2 * size, 2>>, <<2 * size, 3>>}

AllConfigs ==
  UNION {{[GOPList |-> list, intraPeriod |-> period[1], decodingRefreshType |-> period[2],
           efficientFieldIRAP |-> efficient, frames |-> IF Len(list) > 3 THEN 3 * Len(list) ELSE Video] :
             period \in Periods(Len(list)), efficient \in BOOLEAN} :
           list \in UNION {Structure(name) : name \in Structures}}
=============================================================================
