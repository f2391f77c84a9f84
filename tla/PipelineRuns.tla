---------------------------- MODULE PipelineRuns ----------------------------
(***************************************************************************)
(* How a run of a pipeline, or of a chain of pipelines, comes to its       *)
(* version, its source commit and its artifacts: the dependencies it is    *)
(* checked against (server_pipelines_dependencies.go), the version file it *)
(* reads (server_pipeline_versioning.go), the executions that are built    *)
(* and stored (server_pipelines*.go), the artifacts a chain binds when it  *)
(* releases a pipeline (server_pipeline_chains_runtime.go), reruns         *)
(* (server_job_rerun.go), runs from cached contexts                        *)
(* (server_pipelines_enqueue_offline.go) and the automatic bump.           *)
(*                                                                         *)
(* A request lists the executions, reads repositories and stores what it   *)
(* built at different times; commits, other requests, reruns and jobs that *)
(* end come in between.  A repository has one branch.  An execution's      *)
(* number is its age: CreatedUTC and the ties of equal times are one       *)
(* order.  Needs between the jobs of a pipeline are DependencyRuntime's.   *)
(***************************************************************************)
EXTENDS Naturals, FiniteSets, Sequences, SequencesExt

CONSTANTS
  Pipelines,    \* pipeline ids of one project
  Jobs,         \* ids of pipeline jobs
  Repos,        \* repositories
  RepoOf,       \* vcs_source.repo of each pipeline
  DependsOn,    \* depends_on of each pipeline, a sequence
  Sources,      \* artifact_sources of the jobs of each pipeline: <<pipeline, job>>
  Versioned,    \* pipelines with versioning configured
  TagPrefix,    \* versioning.tag_prefix of each pipeline
  Bumping,      \* pipelines with auto_bump: patch
  Projects,     \* what else a project may be configured to, see "project"
  Requests,     \* requests the server may work on at once
  FirstRaw,     \* the version file of every repository in the beginning
  MaxExecs,     \* bound: executions ever created
  MaxCommits,   \* bound: commits of each repository
  MaxFailures,  \* bound: executions that have failed, before users or agents fail another
  MaxPushes,    \* bound: commits that users push to each repository
  Meanwhile,    \* bound: the one kind of run of one pipeline that is asked for while another request works
  Alone         \* bound: the pipelines that are run on their own, too

AllKinds == {"run", "job", "dry", "chain", "offline", "rerun"}

(* A pipeline has jobs and a chain pipelines, each of them once; what a    *)
(* pipeline depends on need not be in its repository, or come before it    *)
(* (config.go).                                                            *)
ASSUME PipelinesAssumption ==
  /\ RepoOf \in [Pipelines -> Repos]
  /\ DependsOn \in [Pipelines -> Seq(Pipelines)]
  /\ Projects \subseteq [jobs : [Pipelines -> Seq(Jobs) \ {<<>>}], chain : Seq(Pipelines) \ {<<>>},
                         kinds : SUBSET AllKinds]
  /\ \A pr \in Projects : IsInjective(pr.chain)
  /\ Bumping \subseteq Versioned /\ Versioned \subseteq Pipelines
  /\ MaxExecs \in Nat /\ MaxFailures \in Nat /\ MaxCommits \in [Repos -> Nat \ {0}] /\ MaxPushes \in Nat
  /\ FirstRaw \in Nat /\ Alone \subseteq Pipelines

VARIABLES
  project,   \* its configuration, and what its users ask for
  commits,   \* per repository, the version file at each commit; 0: it cannot be read
  bumps,     \* history: the commits that the automatic bump pushed
  execs,     \* job executions, oldest first
  requests   \* what each request is about to do

vars == <<project, commits, bumps, execs, requests>>

JobsOf == project.jobs    \* the jobs of each pipeline; all of them publish artifacts
Chain == project.chain    \* a pipeline chain, a sequence of pipelines
Kinds == project.kinds

Execs == DOMAIN execs
Tip(r) == Len(commits[r])

\* Pipeline versions: the raw version with the tag prefix it was read under.
NoVersion == [raw |-> 0, tag |-> "none"]

(* pipelineDependencyContext and pipelineRunContext; "ok" is false for an  *)
(* error, "own" tells (history) that the version was not inherited.        *)
NoContext == [ok |-> TRUE, version |-> NoVersion, repo |-> "none", ref |-> 0, runs |-> {}, own |-> FALSE]
Refused == [NoContext EXCEPT !.ok = FALSE]

Terminal == {"succeeded", "failed"}
Active == {"queued", "running", "pushing"}
-----------------------------------------------------------------------------
\* The dependencies of a run.

\* LatestJobExecutionAttempts.
LatestAttempts(X) == {x \in X : \A y \in X : execs[y].root = execs[x].root => y <= x}

SlipSucceeded(R) == \E x \in R : execs[x].status = "succeeded"

\* dependencyRunIsSuccessful
Succeeded(R) == \A x \in R : execs[x].status = "succeeded"

\* dependencyRunVersionMatches; raw and tagged versions come in pairs.
Matches(v, target) == v.raw = target.raw

(* verifyDependencyRun: the newest run decides about the version, and the *)
(* newest run of that version that fully succeeded provides it.           *)
VerifyDependencyRun(X, d) ==
  LET latest == {x \in LatestAttempts(X) : execs[x].pipe = d}
      Runs == {execs[x].run : x \in latest}
      Of(r) == {x \in latest : execs[x].run = r}
      Newest(S) == CHOOSE r \in S : \E x \in Of(r) : \A s \in S : \A y \in Of(s) : y <= x
      VersionOf(r) == execs[CHOOSE x \in Of(r) : TRUE].version
      Good == {r \in Runs : Succeeded(Of(r)) /\ Matches(VersionOf(r), VersionOf(Newest(Runs)))}
  IN IF Runs = {} \/ (\E x \in Of(Newest(Runs)) : execs[x].status \in Active) \/ Good = {}
     THEN Refused
     ELSE LET r == Newest(Good)
              e == execs[CHOOSE x \in Of(r) : TRUE]
          IN [ok |-> TRUE, version |-> e.version, repo |-> RepoOf[d], ref |-> e.ref,
              runs |-> Of(r), own |-> e.own]

\* mergePipelineDependencyContext
MergeContext(out, ctx) ==
  LET versions == {out.version, ctx.version} \ {NoVersion}
      pinned == out.ref # 0 /\ ctx.ref # 0
  IN IF \/ ~out.ok \/ ~ctx.ok
        \/ Cardinality(versions) > 1
        \/ pinned /\ out.repo = ctx.repo /\ out.ref # ctx.ref
     THEN Refused
     ELSE [ok |-> TRUE,
           version |-> IF ctx.version # NoVersion THEN ctx.version ELSE out.version,
           repo |-> IF ctx.ref = 0 THEN out.repo
                    ELSE IF out.ref = 0 \/ out.repo = ctx.repo THEN ctx.repo ELSE "none",
           ref |-> IF ctx.ref = 0 THEN out.ref
                   ELSE IF out.ref = 0 \/ out.repo = ctx.repo THEN ctx.ref ELSE 0,
           runs |-> out.runs \cup ctx.runs, own |-> FALSE]

MergeAll(ctxs) ==
  LET merged[i \in 0 .. Len(ctxs)] == IF i = 0 THEN NoContext ELSE MergeContext(merged[i - 1], ctxs[i])
  IN merged[Len(ctxs)]

\* checkPipelineDependencies
CheckDependencies(p) == MergeAll([i \in DOMAIN DependsOn[p] |-> VerifyDependencyRun(Execs, DependsOn[p][i])])

(* resolveChainJobDependencyContext: what the chain ran itself, or else    *)
(* the newest run of the project.                                          *)
ChainContext(p, c) ==
  LET InChain(d) == {x \in Execs : execs[x].chain = c /\ execs[x].pipe = d}
      Runs(d) == IF InChain(d) # {} THEN InChain(d) ELSE Execs
  IN MergeAll([i \in DOMAIN DependsOn[p] |-> VerifyDependencyRun(Runs(DependsOn[p][i]), DependsOn[p][i])])

\* resolveDependencyArtifactJobIDs
Artifacts(p, ctx) == {x \in ctx.runs : <<execs[x].pipe, execs[x].job>> \in Sources[p]}
Bindable(p, ctx) == \A s \in Sources[p] : \E x \in ctx.runs : <<execs[x].pipe, execs[x].job>> = s

(* deriveChainPipelineDependencies: those that are in the chain count (see *)
(* Reconcile), and if none is, the pipeline before.                        *)
ChainDependencies(i) ==
  IF ToSet(DependsOn[Chain[i]]) \cap ToSet(Chain) # {} THEN DependsOn[Chain[i]]
  ELSE IF i > 1 THEN <<Chain[i - 1]>> ELSE <<>>
-----------------------------------------------------------------------------
\* What a request carries from one step to the next.

Idle == [pc |-> "idle", kind |-> "run", todo |-> <<>>, job |-> "none",
         dep |-> NoContext, ctx |-> NoContext, built |-> <<>>, clone |-> 0]

Idling == \A q \in Requests : requests[q].pc = "idle"

\* A request that is refused leaves nothing behind.
Ends(q) == requests' = [requests EXCEPT ![q] = Idle]

(* A request arrives and checks the dependencies of its (first) pipeline.  *)
Begin(q, kind, todo, job) ==
  /\ requests[q].pc = "idle"
  /\ Idling \/ (kind = Meanwhile /\ Len(todo) = 1)
  /\ LET dep == CheckDependencies(todo[1]) IN
     /\ dep.ok
     /\ requests' = [requests EXCEPT ![q] =
          [Idle EXCEPT !.pc = "resolve", !.kind = kind, !.todo = todo, !.job = job, !.dep = dep]]
  /\ UNCHANGED <<project, commits, bumps, execs>>

\* A dry run differs here only in that it does not bump.
RunPipeline(q, p) ==
  \E kind \in Kinds \cap {"run", "dry", "offline"} :
    (kind = "dry" => p \in Bumping) /\ Begin(q, kind, <<p>>, "none")
RunJob(q, p) == "job" \in Kinds /\ \E j \in ToSet(JobsOf[p]) : Begin(q, "job", <<p>>, j)
RunChain(q) == "chain" \in Kinds /\ \E kind \in Kinds \cap {"run", "offline"} : Begin(q, kind, Chain, "none")

Position(q) == 1 + Cardinality({requests[q].built[i].pipe : i \in DOMAIN requests[q].built})
Current(q) == requests[q].todo[Position(q)]

SlipPinnedRef(p, dep) == 0

\* The commit that the dependencies pin, for a pipeline of their repository.
PinnedRef(p, dep) == IF dep.repo = RepoOf[p] THEN dep.ref ELSE 0

\* The jobs that the selection leaves of a pipeline.
Selected(q, p) == IF requests[q].kind = "job" THEN <<requests[q].job>> ELSE JobsOf[p]

\* buildPendingPipelineJobMatrixEntry: an execution that is still to be stored.
Pending(p, j, ctx, dep, bump, waits) ==
  [pipe |-> p, job |-> j, version |-> ctx.version, ref |-> ctx.ref, own |-> ctx.own, bump |-> bump,
   arts |-> IF waits = <<>> THEN Artifacts(p, dep) ELSE {}, waits |-> waits]

(* With version and source known, the executions of this pipeline are      *)
(* built, and the next pipeline of the chain gets the context of the first *)
(* as if it were a dependency.                                             *)
Build(q, ctx) ==
  LET rq == requests[q]
      p == Current(q)
      waits == IF Len(rq.todo) > 1 THEN ChainDependencies(Position(q)) ELSE <<>>
      bump == p \in Bumping /\ rq.kind \in {"run", "job"}
      jobs == Selected(q, p)
      built == rq.built \o [i \in DOMAIN jobs |-> Pending(p, jobs[i], ctx, rq.dep, bump, waits)]
      first == [NoContext EXCEPT !.version = built[1].version, !.repo = RepoOf[rq.todo[1]], !.ref = built[1].ref]
  IN IF (waits = <<>> /\ ~Bindable(p, rq.dep)) \/ (bump /\ Len(jobs) # 1)
     THEN Ends(q)
     ELSE requests' = [requests EXCEPT ![q] = [rq EXCEPT
            !.pc = IF Position(q) = Len(rq.todo) THEN "create" ELSE "resolve",
            !.built = built, !.dep = first, !.ctx = IF rq.kind = "offline" THEN ctx ELSE NoContext]]

(* resolvePipelineRunContext.  The version is inherited, or read from the  *)
(* head of the branch, which then is the source also where a dependency    *)
(* had pinned one; a file that cannot be read costs the pinned commit too. *)
Resolve(q) ==
  LET p == Current(q)
      dep == requests[q].dep
      raw == commits[RepoOf[p]][Tip(RepoOf[p])]
      Go(version, ref, own) ==
        LET ctx == [NoContext EXCEPT !.version = version, !.ref = ref, !.own = own]
        IN IF ref # 0 THEN Build(q, ctx)
           ELSE requests' = [requests EXCEPT ![q].pc = "pin", ![q].ctx = ctx]
  IN /\ requests[q].pc = "resolve"
     /\ requests[q].kind # "offline"
     /\ CASE dep.version # NoVersion \/ p \notin Versioned -> Go(dep.version, PinnedRef(p, dep), FALSE)
          [] OTHER -> IF raw # 0 THEN Go([raw |-> raw, tag |-> TagPrefix[p]], Tip(RepoOf[p]), TRUE)
                      ELSE IF p \in Bumping THEN Ends(q) ELSE Go(NoVersion, 0, TRUE)
     /\ UNCHANGED <<project, commits, bumps, execs>>

(* resolveSourceRefFromRepo, when nothing pinned the source.               *)
Pin(q) ==
  /\ requests[q].pc = "pin"
  /\ Build(q, [requests[q].ctx EXCEPT !.ref = Tip(RepoOf[Current(q)])])
  /\ UNCHANGED <<project, commits, bumps, execs>>

(* resolveCachedPreviewRunContext: from the dependencies, or from the      *)
(* pipeline's own history.                                                 *)
Cached(p, dep) ==
  LET own == VerifyDependencyRun(Execs, p)
  IN IF dep.version # NoVersion
     THEN [NoContext EXCEPT !.version = dep.version, !.ref = PinnedRef(p, dep)]
     ELSE [NoContext EXCEPT !.ok = own.ok, !.version = own.version, !.ref = own.ref, !.own = own.own]

(* A run from cached contexts reads no repository; the other pipelines of  *)
(* a chain take the context of the first, and must be of its repository.   *)
ResolveCached(q) ==
  LET rq == requests[q]
      p == Current(q)
      ctx == Cached(p, rq.dep)
      sameRepo == \A i \in DOMAIN rq.todo : RepoOf[rq.todo[i]] = RepoOf[p]
  IN /\ rq.pc = "resolve" /\ rq.kind = "offline"
     /\ IF Position(q) > 1 THEN Build(q, rq.ctx)
        ELSE IF ctx.ok /\ ctx.ref # 0 /\ sameRepo THEN Build(q, ctx) ELSE Ends(q)
     /\ UNCHANGED <<project, commits, bumps, execs>>

(* prepareJobExecutionRerun: the copy keeps version, source and blocker;   *)
(* its artifacts are those of the dependencies as they are now.            *)
BeginRerun(q, e) ==
  LET x == execs[e]
      ctx == IF DependsOn[x.pipe] = <<>> THEN NoContext
             ELSE IF x.chain # 0 THEN ChainContext(x.pipe, x.chain) ELSE CheckDependencies(x.pipe)
  IN /\ "rerun" \in Kinds
     /\ Idling
     /\ x.again
     /\ ctx.ok /\ Bindable(x.pipe, ctx)
     /\ requests' = [requests EXCEPT ![q] = [Idle EXCEPT !.pc = "create", !.clone = e, !.built =
          <<[pipe |-> x.pipe, job |-> x.job, version |-> x.version, ref |-> x.ref, bump |-> x.bump, own |-> x.own,
             arts |-> Artifacts(x.pipe, ctx), waits |-> x.waits]>>]]
     /\ UNCHANGED <<project, commits, bumps, execs>>

(* persistPendingJobs, one transaction; or the copy of a rerun.            *)
Create(q) ==
  LET rq == requests[q]
      n == Len(execs)
      RunOf(i) == n + (CHOOSE j \in DOMAIN rq.built :
                         /\ rq.built[j].pipe = rq.built[i].pipe
                         /\ \A k \in DOMAIN rq.built : rq.built[k].pipe = rq.built[i].pipe => j <= k)
      New(i) == LET b == rq.built[i] IN
        [pipe |-> b.pipe, job |-> b.job, version |-> b.version, ref |-> b.ref, bump |-> b.bump, own |-> b.own,
         arts |-> b.arts, waits |-> b.waits, status |-> "queued", again |-> FALSE, base |-> 0,
         run |-> IF rq.clone # 0 THEN execs[rq.clone].run ELSE RunOf(i),
         root |-> IF rq.clone # 0 THEN execs[rq.clone].root ELSE n + i,
         chain |-> IF rq.clone # 0 THEN execs[rq.clone].chain
                   ELSE IF Len(rq.todo) > 1 THEN n + 1 ELSE 0]
  IN /\ rq.pc = "create"
     /\ n + Len(rq.built) <= MaxExecs
     /\ execs' = execs \o [i \in DOMAIN rq.built |-> New(i)]
     /\ Ends(q)
     /\ UNCHANGED <<project, commits, bumps>>
-----------------------------------------------------------------------------
\* The life of an execution, as far as versions and sources depend on it.

MayFail == Cardinality({e \in Execs : execs[e].status = "failed"}) < MaxFailures

SetStatus(e, s) == execs' = [execs EXCEPT ![e].status = s]

StartJob(e) ==
  /\ execs[e].status = "queued" /\ execs[e].waits = <<>>
  /\ execs' = [execs EXCEPT ![e].status = "running", ![e].again = TRUE]
  /\ UNCHANGED <<project, commits, bumps, requests>>

EndJob(e, s) ==
  /\ execs[e].status = "running"
  /\ IF s = "failed" THEN MayFail ELSE ~execs[e].bump
  /\ SetStatus(e, s)
  /\ UNCHANGED <<project, commits, bumps, requests>>

CancelQueued(e) ==
  /\ execs[e].status = "queued" /\ MayFail
  /\ SetStatus(e, "failed")
  /\ UNCHANGED <<project, commits, bumps, requests>>

SlipStillCurrent(e) == TRUE

\* The branch still has the version of this run.
StillCurrent(e) == commits[RepoOf[execs[e].pipe]][Tip(RepoOf[execs[e].pipe])] = execs[e].version.raw

(* The last step of a job that bumps: it fetches the branch and compares.  *)
FetchBranch(e) ==
  /\ execs[e].status = "running" /\ execs[e].bump
  /\ execs' = [execs EXCEPT ![e].status = IF StillCurrent(e) THEN "pushing" ELSE "failed",
                            ![e].base = Tip(RepoOf[execs[e].pipe])]
  /\ UNCHANGED <<project, commits, bumps, requests>>

\* git push without force: the branch must not have moved since the fetch.
FastForward(e) == Tip(RepoOf[execs[e].pipe]) = execs[e].base

PushBump(e) ==
  LET r == RepoOf[execs[e].pipe] IN
  /\ execs[e].status = "pushing"
  /\ \/ /\ FastForward(e)
        /\ Tip(r) < MaxCommits[r]
        /\ commits' = [commits EXCEPT ![r] = Append(@, execs[e].version.raw + 1)]
        /\ bumps' = bumps \cup {[repo |-> r, at |-> Tip(r) + 1, raw |-> execs[e].version.raw]}
        /\ SetStatus(e, "succeeded")
     \/ /\ ~FastForward(e)
        /\ SetStatus(e, "failed")
        /\ UNCHANGED <<commits, bumps>>
  /\ UNCHANGED <<project, requests>>

SlipBindsTo(e) == CheckDependencies(execs[e].pipe)

\* What a pipeline that its chain releases is bound to.
BindsTo(e) == ChainContext(execs[e].pipe, execs[e].chain)

(* reconcileChainBlockedJob, one decision of it: the first dependency that *)
(* has not succeeded decides; how decisions interleave with everything     *)
(* else is the subject of DependencyRuntime.                               *)
Reconcile(e) ==
  LET x == execs[e]
      Of(d) == {y \in LatestAttempts(Execs) : execs[y].chain = x.chain /\ execs[y].pipe = d}
      Fine(d) == Of(d) # {} /\ Succeeded(Of(d))
      Over(d) == Of(d) # {} /\ \A y \in Of(d) : execs[y].status \in Terminal
      On == {i \in DOMAIN x.waits : x.waits[i] \in ToSet(Chain)}
      Bound == BindsTo(e)
  IN /\ x.status = "queued" /\ x.waits # <<>>
     /\ \/ /\ \E i \in On : /\ Over(x.waits[i]) /\ ~Fine(x.waits[i])
                            /\ \A j \in On : j < i => Fine(x.waits[j])
           /\ execs' = [execs EXCEPT ![e].status = "failed", ![e].waits = <<>>, ![e].again = TRUE]
        \/ /\ \A i \in On : Fine(x.waits[i])
           /\ IF Bound.ok /\ Bindable(x.pipe, Bound)
              THEN execs' = [execs EXCEPT ![e].waits = <<>>,
                               ![e].arts = IF Artifacts(x.pipe, Bound) = {} THEN @ ELSE Artifacts(x.pipe, Bound)]
              ELSE execs' = [execs EXCEPT ![e].status = "failed", ![e].waits = <<>>]
     /\ UNCHANGED <<project, commits, bumps, requests>>

(* Somebody pushes: the version file stays, is raised, cannot be read any  *)
(* more, or can again.  It is never set back to a version it had before.   *)
PushCommit(r) ==
  /\ Tip(r) < MaxCommits[r] /\ Tip(r) <= MaxPushes + Cardinality({b \in bumps : b.repo = r})
  /\ LET top == CHOOSE v \in ToSet(commits[r]) : \A w \in ToSet(commits[r]) : w <= v IN
     \E v \in {0, top, top + 1} : commits' = [commits EXCEPT ![r] = Append(@, v)]
  /\ UNCHANGED <<project, bumps, execs, requests>>

Init ==
  /\ project \in Projects
  /\ commits = [r \in Repos |-> <<FirstRaw>>]
  /\ bumps = {}
  /\ execs = <<>>
  /\ requests = [q \in Requests |-> Idle]

Next ==
  \/ \E q \in Requests, p \in Alone : RunPipeline(q, p)
  \/ \E q \in Requests, p \in Alone : RunJob(q, p)
  \/ \E q \in Requests : RunChain(q)
  \/ \E q \in Requests : Resolve(q)
  \/ \E q \in Requests : ResolveCached(q)
  \/ \E q \in Requests : Pin(q)
  \/ \E q \in Requests, e \in Execs : BeginRerun(q, e)
  \/ \E q \in Requests : Create(q)
  \/ \E e \in Execs : StartJob(e)
  \/ \E e \in Execs, s \in Terminal : EndJob(e, s)
  \/ \E e \in Execs : CancelQueued(e)
  \/ \E e \in Execs : FetchBranch(e)
  \/ \E e \in Execs : PushBump(e)
  \/ \E e \in Execs : Reconcile(e)
  \/ \E r \in Repos : PushCommit(r)

Spec == Init /\ [][Next]_vars
-----------------------------------------------------------------------------
Tags == {"none"} \cup {TagPrefix[p] : p \in Pipelines}
Versions == [raw : Nat, tag : Tags]
Contexts == [ok : BOOLEAN, version : Versions, repo : Repos \cup {"none"}, ref : Nat, runs : SUBSET Execs, own : BOOLEAN]
Pendings == [pipe : Pipelines, job : Jobs, version : Versions, ref : Nat, own : BOOLEAN, bump : BOOLEAN,
             arts : SUBSET Execs, waits : Seq(Pipelines)]
Executions == [pipe : Pipelines, job : Jobs, version : Versions, ref : Nat, own : BOOLEAN, bump : BOOLEAN,
               arts : SUBSET Execs, waits : Seq(Pipelines), status : Active \cup Terminal, again : BOOLEAN,
               base : Nat, run : Nat, root : Nat, chain : Nat]
RequestStates == [pc : {"idle", "resolve", "pin", "create"}, kind : AllKinds, todo : Seq(Pipelines), job : Jobs \cup {"none"},
                  dep : Contexts, ctx : Contexts, built : Seq(Pendings), clone : {0} \cup Execs]

(* The types of the state; a request and an execution build a commit of    *)
(* their own pipeline's repository and one of its jobs, and a run, a first *)
(* attempt and a chain are named by an execution that is not younger.      *)
TypeOK ==
  /\ project \in Projects
  /\ commits \in [Repos -> Seq(Nat)] /\ \A r \in Repos : Tip(r) \in 1 .. MaxCommits[r]
  /\ bumps \subseteq [repo : Repos, at : Nat, raw : Nat] /\ \A b \in bumps : b.at \in 2 .. Tip(b.repo)
  /\ execs \in Seq(Executions) /\ Len(execs) <= MaxExecs
  /\ \A e \in Execs : LET x == execs[e] IN
       /\ x.job \in ToSet(JobsOf[x.pipe])
       /\ x.ref \in 1 .. Tip(RepoOf[x.pipe]) /\ x.base \in 0 .. Tip(RepoOf[x.pipe])
       /\ x.run \in 1 .. e /\ x.root \in 1 .. e /\ x.chain \in 0 .. e
  /\ requests \in [Requests -> RequestStates]
  /\ \A q \in Requests : LET rq == requests[q] IN
       /\ rq.dep.ok
       /\ \A i \in DOMAIN rq.built : LET b == rq.built[i] IN
            b.job \in ToSet(JobsOf[b.pipe]) /\ b.ref \in 1 .. Tip(RepoOf[b.pipe])

\* Some run of d at this commit in which every job has succeeded, if only in a later attempt.
ProvenAt(d, ref) ==
  \E r \in {execs[x].run : x \in {y \in Execs : execs[y].pipe = d}} :
    \A x \in Execs : execs[x].run = r =>
      /\ execs[x].ref = ref
      /\ \E y \in Execs : execs[y].root = execs[x].root /\ execs[y].status = "succeeded"

(* What runs after its dependencies, and did not read a version of its     *)
(* own, runs at a commit at which each dependency of the same repository   *)
(* has succeeded, whatever was pushed, started or rerun since it was       *)
(* checked.                                                                *)
SourceIsProven ==
  \A e \in Execs : LET x == execs[e] IN
    x.status \in {"running", "pushing", "succeeded"} /\ ~x.own =>
      \A d \in ToSet(DependsOn[x.pipe]) : RepoOf[d] = RepoOf[x.pipe] => ProvenAt(d, x.ref)

\* Pipelines that have nothing to do with another repository.
OneRepository ==
  UNION {S \in SUBSET Pipelines :
           /\ \A p, d \in S : RepoOf[p] = RepoOf[d]
           /\ \A p \in S : ToSet(DependsOn[p]) \subseteq S
           /\ S \cap ToSet(Chain) = {} \/ Chain[1] \in S}

(* A version that went through dependencies, chains, reruns and caches is  *)
(* still the one in the version file of the commit that is built.          *)
VersionIsOfSource ==
  \A e \in Execs : LET x == execs[e] IN
    x.version # NoVersion /\ (x.own \/ x.pipe \in OneRepository) =>
      commits[RepoOf[x.pipe]][x.ref] = x.version.raw

(* The executions of a chain whose first pipeline has a version share this *)
(* version, and one commit of each repository that the first builds.       *)
ChainIsOneBuild ==
  \A e \in Execs : LET x == execs[e] IN
    x.chain # 0 /\ execs[x.chain].version # NoVersion =>
      /\ x.version = execs[x.chain].version
      /\ RepoOf[x.pipe] = RepoOf[execs[x.chain].pipe] => x.ref = execs[x.chain].ref

\* What is bound to its dependencies when it is created, and not when its chain releases it.
BoundAtOnce(x) ==
  x.chain = 0 \/ (x.pipe = Chain[1] /\ ToSet(DependsOn[x.pipe]) \cap ToSet(Chain) = {})

\* An execution whose artifacts x may be given.
Fitting(x, a) ==
  /\ execs[a].status = "succeeded"
  /\ BoundAtOnce(x) \/ (execs[a].chain = x.chain /\ execs[x.chain].version # NoVersion) =>
       execs[a].version \in {NoVersion, x.version}
  /\ x.chain # 0 /\ execs[a].pipe \in ToSet(Chain) => execs[a].chain = x.chain

(* The artifacts of a first attempt succeeded, are of its own version, and *)
(* in a chain of this chain's run.  When a chain releases an execution,    *)
(* the version holds of what the chain made from a first pipeline that     *)
(* has one.                                                                *)
ArtifactsFit == \A e \in Execs : execs[e].root = e => \A a \in execs[e].arts : Fitting(execs[e], a)

(* docs/pipelines.md:48: "dependent runs inherit resolved version/source   *)
(* metadata for consistency", and a rerun "uses the same pinned commit".   *)
(* Not a property of the code: a rerun binds what its dependencies made    *)
(* last, whatever the version.                                             *)
RerunArtifactsFit == \A e \in Execs : \A a \in execs[e].arts : Fitting(execs[e], a)

(* Each bump is made on top of the version it was computed from, and a     *)
(* version is bumped once, however many runs of it there are.              *)
BumpsFollow ==
  /\ \A b \in bumps : commits[b.repo][b.at - 1] = b.raw
  /\ \A a, b \in bumps : a.repo = b.repo /\ a.raw = b.raw => a = b
=============================================================================
