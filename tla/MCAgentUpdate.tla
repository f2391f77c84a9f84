--------------------------- MODULE MCAgentUpdate ---------------------------
(* Instances of AgentUpdate for TLC. *)
EXTENDS AgentUpdate

CONSTANTS v1, v2

TwoVersions == {v1, v2}
=============================================================================
