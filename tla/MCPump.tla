------------------------------- MODULE MCPump -------------------------------
(* Instances of Pump for TLC. *)
EXTENDS Pump, TLC

CONSTANTS d1, d2, d3, p1, p2

OneProc == {p1}
TwoProcs == {p1, p2}
OneId == {d1}
ThreeIds == {d1, d2, d3}

Symmetry == Permutations(TwoProcs) \cup Permutations(ThreeIds)
=============================================================================
