---------------------------- MODULE MCJobOutput ----------------------------
(* One viewer and two handlers for JobOutput. *)
EXTENDS JobOutput
CONSTANTS v1

OneViewer == {v1}
TwoSlots  == {1, 2}
=============================================================================
