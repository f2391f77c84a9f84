----------------------------- MODULE MCJobStore -----------------------------
(* Values for TLC: every agent may run every job, the last job is an       *)
(* ad-hoc script of a1, the first job times out after one clock reading    *)
(* and the others never.                                                   *)
EXTENDS JobStore, TLC
CONSTANTS a1, a2, c1, c2

MCCanRun  == Agents \X Jobs
MCAdhoc   == {<<a1, MaxJobs>>}
MCTimeout == [j \in Jobs |-> IF j = 1 THEN 1 ELSE 0]
MCSymmetry == Permutations({c1, c2})
=============================================================================
