-------------------------- MODULE MCParameterSets --------------------------
(* Two VPSs, three SPSs over two ids and four PPSs over two ids: enough for *)
(* a set to be resent, replaced under its id, and to lead to another SPS.   *)
EXTENDS ParameterSets, TLC

MCVPSData == {<<0, 1>>, <<1, 1>>}
MCSPSData == {<<0, 5>>, <<0, 6>>, <<1, 5>>}
MCPPSData == {<<0, 5>>, <<0, 6>>, <<1, 5>>}
(* An SPS whose bytes begin with those of another one. *)
MCLongSPSData == {<<0, 5>>, <<0, 5, 7>>}
MCOnePPSData  == {<<0, 5>>}
MCOneVPSData  == {<<0, 1>>}

FirstByte(D)  == [d \in D |-> d[1]]
MCVPSIdOf     == FirstByte(VPSData)
MCSPSIdOf     == FirstByte(SPSData)
MCPPSIdOf     == FirstByte(PPSData)
(* SPS 1 refers to VPS 1; PPS <<1, 5>> and PPS <<0, 6>> refer to SPS 1. *)
MCSPSRefersTo == FirstByte(SPSData)
MCPPSRefersTo == [d \in PPSData |-> IF d = <<0, 5>> THEN 0 ELSE 1]

ASSUME PrefixFree(MCVPSData) /\ PrefixFree(MCSPSData) /\ PrefixFree(MCPPSData)

=============================================================================
