--------------------------- MODULE MCJobDispatch ---------------------------
(* Instances of JobDispatch for TLC. *)
EXTENDS JobDispatch, TLC

CONSTANTS a1, a2, server

TwoAgents == {a1, a2}
Renamings == Permutations(TwoAgents)
OnlyFirstTimed == {1}
=============================================================================
