--------------------------- MODULE PictureOutput ---------------------------
(***************************************************************************)
(* What the decoder promises about its output, whatever its buffer does:   *)
(* pictures become ready in decoding order, wait, and are delivered in     *)
(* output order or discarded; none is overtaken, none waits forever.       *)
(*                                                                         *)
(* A picture is a record with its coded video sequence, cvs, and its poc.  *)
(***************************************************************************)
EXTENDS Integers, Sequences

VARIABLES waiting,      \* the pictures ready for output
          delivered     \* those delivered, in order

vars == <<waiting, delivered>>

Precedes(p, q) == p.cvs < q.cvs \/ (p.cvs = q.cvs /\ p.poc < q.poc)

Init == waiting = {} /\ delivered = <<>>

(* A step delivers the pictures next, in output order, after those delivered *)
(* before; others become ready or are discarded.  What becomes ready follows *)
(* all that was delivered, and what is delivered precedes all that waits.    *)
Step ==
  LET next  == DOMAIN delivered' \ DOMAIN delivered
      ready == (waiting' \cup {delivered'[i] : i \in next}) \ waiting
  IN  /\ \A i \in DOMAIN delivered : i \in DOMAIN delivered' /\ delivered'[i] = delivered[i]
      /\ \A i \in DOMAIN delivered, p \in ready : Precedes(delivered[i], p)
      /\ \A i, j \in next : i < j => Precedes(delivered'[i], delivered'[j])
      /\ \A i \in next, p \in waiting' : Precedes(delivered'[i], p)

(* What a step may never do, without what must happen at last.               *)
Safety == Init /\ [][Step]_vars

NoneWaitsForever == []<>(waiting = {})

Spec == Safety /\ NoneWaitsForever
=============================================================================
