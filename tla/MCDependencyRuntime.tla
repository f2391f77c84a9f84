------------------------- MODULE MCDependencyRuntime -------------------------
(* Small chain runs for DependencyRuntime. *)
EXTENDS DependencyRuntime

None == [s \in 1 .. NumSpecs |-> <<>>]

(* A pipeline of two jobs, the second of which needs the first, and a      *)
(* pipeline of one job downstream of it.                                   *)
Downstream == [None EXCEPT ![3] = <<{1, 2}>>]
SecondNeedsFirst == [None EXCEPT ![2] = <<{1}>>]

(* Two pipelines of one job each, and one of two jobs that depends on      *)
(* both and in which the second job needs the first.                       *)
FanIn == [None EXCEPT ![3] = <<{1}, {2}>>, ![4] = <<{1}, {2}>>]
FourthNeedsThird == [None EXCEPT ![4] = <<{3}>>]

(* A pipeline of one job and one downstream of it. *)
Pair == [None EXCEPT ![2] = <<{1}>>]

AllSpecs == 1 .. NumSpecs
NoSpecs  == {}
=============================================================================
