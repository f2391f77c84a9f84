-------------------------- MODULE MCCommandReceipts --------------------------
(* Small instances of CommandReceipts. *)
EXTENDS CommandReceipts, TLC

CONSTANTS k1, k2, p1, p2, c1, c2, c3

Symmetry == Permutations(Calls) \cup Permutations(Payloads) \cup Permutations(Keys)
=============================================================================
