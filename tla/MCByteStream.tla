----------------------------- MODULE MCByteStream -----------------------------
(* Instances of ByteStream: up to three units, with bytes around the       *)
(* values 0 to 3 that decide where a unit ends.                            *)
EXTENDS ByteStream

Data(n) ==
  {<< >>} \cup {d \in UNION {[1..m -> {0, 1, 3}] : m \in 1..n} :
                  EndsInNonZero(d) /\ Legal(d)}

U(first, type, data) == [first |-> first, type |-> type, data |-> data]

MCStreams ==
  {<< >>}
    \cup {<<U(TRUE, "other", d)>> : d \in Data(4)}
    \cup {<<U(TRUE, "VPS", d), U(f, "other", e)>> : d \in {<< >>, <<1>>}, e \in Data(3), f \in BOOLEAN}
    \cup {<<U(TRUE, "SPS", d), U(FALSE, t, e), U(TRUE, "other", <<2>>)>> :
            d \in {<< >>, <<1>>}, e \in {<< >>, <<1>>, <<0, 0, 3>>, <<0, 0, 3, 1>>},
            t \in {"PPS", "other"}}
=============================================================================
