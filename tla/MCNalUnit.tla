------------------------------ MODULE MCNalUnit ------------------------------
(* Instances of NalUnit: bytes 0, 3 and 4 are the least, the largest       *)
(* protected and the least unprotected value behind two zero bytes.        *)
EXTENDS NalUnit

(* The parts of up to n bytes. *)
Part(n) == {s \in UNION {[1..m -> {0, 3, 4}] : m \in 1..n} : s[Len(s)] # 0}

AnotherUnit(p) ==
  [header |-> [type |-> 39, layer |-> 32, tid |-> 6], rbsp |-> p, ends |-> <<Len(p)>>]

(* A slice with the header h and the substreams p, q and r. *)
ASlice(h, p, q, r) ==
  [header |-> [type |-> 1, layer |-> 0, tid |-> 0], rbsp |-> h \o p \o q \o r,
   ends   |-> <<Len(h), Len(h \o p), Len(h \o p \o q), Len(h \o p \o q \o r)>>]

MCUnits ==
  {AnotherUnit(p) : p \in Part(6)}
    \cup {ASlice(<<4>>, p, q, r) : p \in Part(5), q \in Part(3), r \in Part(1)}
    \cup {ASlice(h, p, q, <<4>>) : h \in Part(5), p \in Part(2), q \in Part(1)}
=============================================================================
