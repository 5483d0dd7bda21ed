------------------------------- MODULE MCCabac -------------------------------
(***************************************************************************)
(* One context, which starts at even odds (initialisation 154) or with the *)
(* skewed odds of a greater-than-one flag of an I slice (74 at QP 37).     *)
(* The bypass values are those that bring low next to a byte boundary: 1   *)
(* and 255 with runs of bytes 0xff behind it, 16 in twelve bins with a     *)
(* carry left for finish.                                                  *)
(***************************************************************************)
EXTENDS Cabac

MCContexts == {"c"}
MCInitStates == {[c \in MCContexts |-> InitState(32, 154)], [c \in MCContexts |-> InitState(37, 74)]}

Call(kind, num, val) == [kind |-> kind, ctx |-> "c", num |-> num, val |-> val]

MCSymbols ==
  {Call("bin", 1, 0), Call("bin", 1, 1),
   Call("bypass", 1, 0), Call("bypass", 1, 1),
   Call("bypasses", 8, 1), Call("bypasses", 8, 255), Call("bypasses", 12, 16),
   Call("terminate", 1, 0), Call("align", 0, 0), Call("pcm", 8, 165)}
=============================================================================
