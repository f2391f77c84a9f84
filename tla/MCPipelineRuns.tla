--------------------------- MODULE MCPipelineRuns ---------------------------
(* Instances of PipelineRuns for TLC. *)
EXTENDS PipelineRuns

CONSTANTS q1, q2

TwoRequests == {q1, q2}
Renamings == Permutations(TwoRequests)

(* A versioned build, a release of its artifacts that bumps the version,   *)
(* and a site in another repository that publishes what the release made.  *)
BuildReleaseSite == {"build", "release", "site"}
TwoJobs == {"job", "test"}
TwoRepos == {"app", "web"}
AppAndWeb == [p \in BuildReleaseSite |-> IF p = "site" THEN "web" ELSE "app"]
OneAfterTheOther == [p \in BuildReleaseSite |->
  CASE p = "build" -> <<>> [] p = "release" -> <<"build">> [] p = "site" -> <<"build", "release">>]
ReleaseOfBuild == [p \in BuildReleaseSite |->
  CASE p = "build" -> {} [] p = "release" -> {<<"build", "job">>} [] p = "site" -> {<<"release", "job">>}]
VersionedApp == {"build", "release"}
SamePrefix == [p \in BuildReleaseSite |-> "v"]
ThreeAppCommits == [r \in TwoRepos |-> IF r = "app" THEN 3 ELSE 1]

(* A chain through all pipelines; a chain of two; a build of two jobs,     *)
(* which run together or one by one.                                       *)
OneJobEach == [p \in BuildReleaseSite |-> <<"job">>]
TwoBuildJobs == [OneJobEach EXCEPT !["build"] = <<"job", "test">>]
Whole == [jobs |-> OneJobEach, chain |-> <<"build", "release", "site">>, kinds |-> {"run", "chain", "rerun"}]
Short == [jobs |-> OneJobEach, chain |-> <<"build", "release">>, kinds |-> {"run", "chain", "offline", "dry"}]
Parts == [jobs |-> TwoBuildJobs, chain |-> <<"build", "release">>, kinds |-> {"run", "chain", "rerun"}]
Single == [Parts EXCEPT !.kinds = {"job", "rerun"}]
FourProjects == {Whole, Short, Parts, Single}
=============================================================================
