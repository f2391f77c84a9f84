-------------------------- MODULE PipelineRuns_proofs --------------------------
(***************************************************************************)
(* What runs of pipelines and chains promise about versions and commits,   *)
(* for any number of pipelines, repositories, requests and executions, any *)
(* dependencies between the pipelines and any sequence of pushes, reruns,  *)
(* runs from caches and failures.                                          *)
(*                                                                         *)
(* The invariant relates each stored execution, each execution that a      *)
(* request has built and not stored yet, and each context that a request   *)
(* carries to the commits there are.  It is kept because commits and       *)
(* executions are only added (Grows): what fitted the commits fits them    *)
(* still, whatever a request has in hand when somebody pushes.             *)
(*                                                                         *)
(* The lemmas are in this order: numbers; contexts of dependencies, how    *)
(* they are merged, and the runs they come from; growth; what a request    *)
(* builds; the steps; the theorems on versions and chains.  Two more       *)
(* invariants follow: the commit of what inherits its version is one at    *)
(* which its dependencies have succeeded (SourceInv), and the artifacts    *)
(* that an execution is given are of its version (BoundInv).               *)
(***************************************************************************)
EXTENDS PipelineRuns, TLAPS, FiniteSetTheorems, SequenceTheorems, WellFoundedInduction

KnownVersion(v) == v = NoVersion \/ v.raw > 0

(* What has a version of its own, or has nothing to do with another        *)
(* repository, builds the commit that has its version.                     *)
OfItsSource(x) ==
  x.version # NoVersion /\ (x.own \/ x.pipe \in OneRepository) => commits[RepoOf[x.pipe]][x.ref] = x.version.raw

(* What a chain builds is what its first pipeline builds. *)
Agrees(x, first) ==
  first.version # NoVersion =>
    /\ x.version = first.version
    /\ RepoOf[x.pipe] = RepoOf[first.pipe] => x.ref = first.ref

(* An execution, and one that is still to be stored. *)
BuildFits(x) ==
  /\ x.job \in ToSet(JobsOf[x.pipe])
  /\ x.ref \in 1 .. Tip(RepoOf[x.pipe])
  /\ KnownVersion(x.version)
  /\ x.bump => x.version.raw > 0
  /\ OfItsSource(x)

PushFits(x) ==
  /\ x.base \in 0 .. Tip(RepoOf[x.pipe])
  /\ x.status = "pushing" => /\ x.bump /\ x.base > 0
                             /\ commits[RepoOf[x.pipe]][x.base] = x.version.raw

PlaceFits(e) ==
  LET x == execs[e] IN
  /\ x.run \in 1 .. e /\ x.root \in 1 .. e /\ x.chain \in 0 .. e
  /\ x.chain # 0 => Agrees(x, execs[x.chain])

(* A context of dependencies names a commit there is; for a pipeline whose *)
(* dependencies are all in repository r, one that has the version.         *)
ContextFits(c) ==
  /\ c.ref # 0 => c.repo \in Repos /\ c.ref \in 1 .. Tip(c.repo)
  /\ KnownVersion(c.version)

ContextFitsIn(r, c) ==
  /\ c.ref # 0 => c.repo = r
  /\ c.version # NoVersion => c.ref # 0 /\ commits[r][c.ref] = c.version.raw

At(rq) == 1 + Cardinality({rq.built[i].pipe : i \in DOMAIN rq.built})
Here(rq) == rq.todo[At(rq)]

(* A request that is at work on a pipeline of its list: the first one has  *)
(* checked its dependencies, the others have the first in their place.     *)
AtWork(rq) ==
  /\ rq.clone = 0 /\ At(rq) \in DOMAIN rq.todo
  /\ Len(rq.todo) > 1 => rq.todo = Chain
  /\ rq.kind = "job" => Len(rq.todo) = 1 /\ rq.job \in ToSet(JobsOf[rq.todo[1]])
  /\ ContextFits(rq.dep)
  /\ IF rq.built = <<>>
     THEN rq.todo[1] \in OneRepository => ContextFitsIn(RepoOf[rq.todo[1]], rq.dep)
     ELSE /\ rq.built[1].pipe = rq.todo[1] /\ Len(rq.todo) > 1
          /\ rq.dep.version = rq.built[1].version
          /\ rq.dep.repo = RepoOf[rq.todo[1]] /\ rq.dep.ref = rq.built[1].ref

(* What is left of a run from caches has the context of its first pipeline.*)
FromCache(rq) ==
  rq.pc = "resolve" /\ rq.kind = "offline" /\ rq.built # <<>> =>
    /\ \A i \in DOMAIN rq.todo : RepoOf[rq.todo[i]] = RepoOf[rq.todo[1]]
    /\ rq.ctx.version = rq.built[1].version /\ rq.ctx.ref = rq.built[1].ref /\ rq.ctx.own = rq.built[1].own

(* A version that is there before the commit is known was inherited, and   *)
(* from another repository.                                                *)
AtPin(rq) ==
  rq.pc = "pin" =>
    /\ rq.kind # "offline" /\ KnownVersion(rq.ctx.version)
    /\ Here(rq) \in Bumping => rq.ctx.version.raw > 0
    /\ rq.ctx.version # NoVersion => ~rq.ctx.own /\ Here(rq) \notin OneRepository
    /\ rq.built # <<>> /\ rq.built[1].version # NoVersion =>
         rq.ctx.version = rq.built[1].version /\ RepoOf[Here(rq)] # RepoOf[rq.todo[1]]

(* A rerun copies; a chain is numbered by its first execution. *)
ToCreate(rq) ==
  rq.pc = "create" =>
    /\ rq.built # <<>>
    /\ rq.clone # 0 => /\ Len(rq.built) = 1
                       /\ rq.built[1].pipe = execs[rq.clone].pipe
                       /\ rq.built[1].version = execs[rq.clone].version
                       /\ rq.built[1].ref = execs[rq.clone].ref

RequestFits(rq) ==
  /\ rq.dep.ok
  /\ \A i \in DOMAIN rq.built : BuildFits(rq.built[i]) /\ Agrees(rq.built[i], rq.built[1])
  /\ rq.pc \in {"resolve", "pin"} => AtWork(rq)
  /\ FromCache(rq) /\ AtPin(rq) /\ ToCreate(rq)

(* The version file is raised or left, but for the times it cannot be read.*)
OnlyRaised ==
  \A r \in Repos : \A i, j \in 1 .. Tip(r) :
    i < j /\ commits[r][i] # 0 /\ commits[r][j] # 0 => commits[r][i] <= commits[r][j]

BumpFits(b) ==
  /\ b.at \in 2 .. Tip(b.repo) /\ b.raw > 0
  /\ commits[b.repo][b.at - 1] = b.raw /\ commits[b.repo][b.at] = b.raw + 1

Types ==
  /\ project \in Projects
  /\ commits \in [Repos -> Seq(Nat)] /\ \A r \in Repos : Tip(r) \in 1 .. MaxCommits[r]
  /\ bumps \subseteq [repo : Repos, at : Nat, raw : Nat]
  /\ execs \in Seq(Executions) /\ Len(execs) <= MaxExecs
  /\ requests \in [Requests -> RequestStates]

FittingBuilds == {x \in Executions : BuildFits(x)}
FittingPushes == {x \in Executions : PushFits(x)}
FittingBumps == {b \in [repo : Repos, at : Nat, raw : Nat] : BumpFits(b)}
FittingRequests == {rq \in RequestStates : RequestFits(rq)}

IInv ==
  /\ Types
  /\ OnlyRaised
  /\ bumps \subseteq FittingBumps
  /\ \A e \in Execs : execs[e] \in FittingBuilds \cap FittingPushes /\ PlaceFits(e)
  /\ \A q \in Requests : requests[q] \in FittingRequests
-----------------------------------------------------------------------------
LEMMA Configured ==
  /\ RepoOf \in [Pipelines -> Repos]
  /\ DependsOn \in [Pipelines -> Seq(Pipelines)]
  /\ Bumping \subseteq Versioned /\ Versioned \subseteq Pipelines
BY PipelinesAssumption

LEMMA ProjectFits ==
  ASSUME project \in Projects
  PROVE  /\ JobsOf \in [Pipelines -> Seq(Jobs)] /\ \A p \in Pipelines : JobsOf[p] # <<>>
         /\ Chain \in Seq(Pipelines) /\ Chain # <<>>
         /\ \A i, j \in DOMAIN Chain : Chain[i] = Chain[j] => i = j
         /\ Kinds \subseteq AllKinds
BY PipelinesAssumption DEF JobsOf, Chain, Kinds, IsInjective

LEMMA NoVersionKnown == NoVersion \in Versions /\ KnownVersion(NoVersion) /\ NoVersion.raw = 0
<1>1. NoVersion \in Versions
  BY DEF NoVersion, Versions, Tags
<1>2. NoVersion.raw = 0
  BY DEF NoVersion
<1> QED BY <1>1, <1>2 DEF KnownVersion

(* A set of numbers that is not empty has a least element, and a greatest  *)
(* if it has a bound.                                                      *)
LEMMA LeastExists ==
  ASSUME NEW S \in SUBSET Nat, S # {}
  PROVE  \E x \in S : \A y \in S : x <= y
<1> DEFINE R == OpToRel(<, Nat)
<1>1. IsWellFoundedOn(R, Nat)
  BY NatLessThanWellFounded
<1>2. PICK x \in S : \A y \in S : ~(<<y, x>> \in R)
  <2> HIDE DEF R
  <2> QED BY <1>1, WFMin
<1>3. ASSUME NEW y \in S PROVE x <= y
  <2>1. ~(<<y, x>> \in R)
    BY <1>2
  <2>2. y \in Nat /\ x \in Nat
    OBVIOUS
  <2>3. ~(y < x)
    BY <2>1, <2>2 DEF OpToRel
  <2> QED BY <2>2, <2>3
<1> QED BY <1>3

LEMMA GreatestExists ==
  ASSUME NEW n \in Nat, NEW S \in SUBSET (0 .. n), S # {}
  PROVE  \E x \in S : \A y \in S : y <= x
<1> DEFINE T == {m \in 0 .. n : \A y \in S : y <= m}
<1>1. T \in SUBSET Nat /\ n \in T
  OBVIOUS
<1>2. PICK x \in T : \A y \in T : x <= y
  <2> HIDE DEF T
  <2> QED BY <1>1, LeastExists
<1>3. x \in 0 .. n /\ \A y \in S : y <= x
  BY <1>2
<1>4. x \in S
  <2> SUFFICES ASSUME x \notin S PROVE FALSE
    OBVIOUS
  <2>1. PICK s \in S : TRUE
    OBVIOUS
  <2>2. \A y \in S : y <= x - 1
    BY <1>3
  <2>3. x - 1 \in T
    BY <1>3, <2>1, <2>2
  <2> QED BY <1>2, <1>3, <2>3
<1> QED BY <1>3, <1>4

(* A sequence of numbers that is not empty has a greatest element. *)
LEMMA TopExists ==
  ASSUME NEW s \in Seq(Nat), s # <<>>
  PROVE  \E v \in ToSet(s) : \A w \in ToSet(s) : w <= v
<1> DEFINE n == Len(s)
           Top(k, i) == i \in 1 .. k /\ \A j \in 1 .. k : s[j] <= s[i]
           T == {k \in 1 .. n : ~ \E i \in 1 .. n : Top(k, i)}
<1>1. n \in Nat \ {0} /\ DOMAIN s = 1 .. n /\ \A i \in 1 .. n : s[i] \in Nat
  BY EmptySeq, LenProperties, ElementOfSeq
<1> HIDE DEF n
<1>2. T = {}
  <2> SUFFICES ASSUME T # {} PROVE FALSE
    OBVIOUS
  <2>1. T \in SUBSET Nat
    BY <1>1
  <2>2. PICK k \in T : \A y \in T : k <= y
    <3> HIDE DEF T
    <3> QED BY <2>1, LeastExists
  <2>3. k # 1
    <3> SUFFICES ASSUME k = 1 PROVE FALSE
      OBVIOUS
    <3>1. Top(1, 1) /\ 1 \in 1 .. n
      BY <1>1
    <3> QED BY <2>2, <3>1
  <2>4. k - 1 \in 1 .. n /\ k - 1 \notin T
    <3>1. k \in 1 .. n
      BY <2>2
    <3>2. k - 1 \in 1 .. n /\ ~(k <= k - 1)
      BY <1>1, <3>1, <2>3
    <3> HIDE DEF T
    <3> QED BY <2>2, <3>2
  <2>5. PICK i \in 1 .. n : Top(k - 1, i)
    <3>1. \E i \in 1 .. n : Top(k - 1, i)
      <4> HIDE DEF Top
      <4> QED BY <2>4
    <3> QED BY <3>1
  <2>6. CASE s[k] <= s[i]
    <3>1. Top(k, i)
      BY <1>1, <2>2, <2>5, <2>6
    <3> QED BY <2>2, <3>1
  <2>7. CASE s[i] < s[k]
    <3>1. Top(k, k)
      <4>1. ASSUME NEW j \in 1 .. k PROVE s[j] <= s[k]
        <5>1. j \in 1 .. n /\ k \in 1 .. n
          BY <1>1, <2>2, <4>1
        <5>2. j = k \/ j \in 1 .. k - 1
          BY <1>1, <2>2, <4>1
        <5>3. j \in 1 .. k - 1 => s[j] <= s[i]
          BY <2>5
        <5> QED BY <1>1, <2>7, <5>1, <5>2, <5>3
      <4> QED BY <1>1, <2>2, <4>1
    <3> QED BY <2>2, <3>1
  <2> QED BY <1>1, <2>2, <2>5, <2>6, <2>7
<1>3. PICK i \in 1 .. n : Top(n, i)
  <2>1. n \in 1 .. n
    BY <1>1
  <2>2. \E i \in 1 .. n : Top(n, i)
    <3> HIDE DEF Top
    <3> QED BY <1>2, <2>1
  <2> QED BY <2>2
<1>4. ToSet(s) = {s[j] : j \in 1 .. n}
  BY <1>1 DEF ToSet
<1> QED BY <1>3, <1>4

-----------------------------------------------------------------------------
(* Contexts are merged one after the other; a set of contexts that merging *)
(* does not leave has all the intermediate ones.                           *)
LEMMA MergeAllUnfolds ==
  ASSUME NEW G, NoContext \in G, NEW ctxs \in Seq(G),
         \A a, b \in G : MergeContext(a, b) \in G
  PROVE  \E f \in [0 .. Len(ctxs) -> G] :
           /\ f[0] = NoContext
           /\ \A k \in 1 .. Len(ctxs) : f[k] = MergeContext(f[k - 1], ctxs[k])
           /\ MergeAll(ctxs) = f[Len(ctxs)]
<1> DEFINE n == Len(ctxs)
           Step(f, i) == IF i = 0 THEN NoContext ELSE MergeContext(f[i - 1], ctxs[i])
           Folds(f, k) == f = [i \in 0 .. k |-> Step(f, i)]
           Good(k) == \E f \in [0 .. k -> G] : Folds(f, k)
           T == {k \in 0 .. n : ~Good(k)}
<1>1. n \in Nat /\ \A i \in 1 .. n : ctxs[i] \in G
  BY LenProperties, ElementOfSeq
<1>2. T = {}
  <2> SUFFICES ASSUME T # {} PROVE FALSE
    OBVIOUS
  <2>1. T \in SUBSET Nat
    BY <1>1
  <2>2. PICK k \in T : \A y \in T : k <= y
    <3> HIDE DEF T
    <3> QED BY <2>1, LeastExists
  <2>3. k \in 0 .. n /\ ~Good(k)
    BY <2>2
  <2>4. k # 0
    <3> DEFINE f == [i \in 0 .. 0 |-> NoContext]
    <3>1. f \in [0 .. 0 -> G]
      OBVIOUS
    <3>2. Folds(f, 0)
      OBVIOUS
    <3> HIDE DEF f, Folds
    <3>3. Good(0)
      BY <3>1, <3>2
    <3> QED BY <2>3, <3>3
  <2>5. Good(k - 1)
    <3>1. k - 1 \in 0 .. n /\ ~(k <= k - 1)
      BY <1>1, <2>3, <2>4
    <3> HIDE DEF Good
    <3> QED BY <2>2, <3>1
  <2>6. PICK f \in [0 .. k - 1 -> G] : Folds(f, k - 1)
    BY <2>5
  <2> DEFINE g == [i \in 0 .. k |-> IF i = k THEN MergeContext(f[k - 1], ctxs[k]) ELSE f[i]]
  <2>7. k - 1 \in 0 .. k - 1 /\ k \in 1 .. n
    BY <1>1, <2>3, <2>4
  <2>8. g \in [0 .. k -> G]
    <3>1. MergeContext(f[k - 1], ctxs[k]) \in G
      BY <1>1, <2>7
    <3>2. \A i \in 0 .. k : i = k \/ i \in 0 .. k - 1
      BY <1>1, <2>3
    <3> QED BY <3>1, <3>2
  <2>9. Folds(g, k)
    <3>1. ASSUME NEW i \in 0 .. k PROVE g[i] = Step(g, i)
      <4>1. CASE i = 0
        <5>1. g[0] = f[0] /\ 0 \in 0 .. k - 1 /\ f[0] = Step(f, 0)
          BY <1>1, <2>3, <2>4, <2>6
        <5> QED BY <4>1, <5>1
      <4>2. CASE i = k
        <5>1. g[k] = MergeContext(f[k - 1], ctxs[k]) /\ g[k - 1] = f[k - 1]
          BY <2>3, <2>7
        <5> QED BY <2>4, <4>2, <5>1
      <4>3. CASE i # 0 /\ i # k
        <5>1. i \in 0 .. k - 1 /\ i - 1 \in 0 .. k /\ i - 1 # k
          BY <1>1, <2>3, <4>3
        <5>2. f[i] = Step(f, i)
          BY <2>6, <5>1
        <5>3. g[i] = f[i] /\ g[i - 1] = f[i - 1]
          BY <4>3, <5>1
        <5> QED BY <4>3, <5>2, <5>3
      <4> QED BY <4>1, <4>2, <4>3
    <3> HIDE DEF Step
    <3>2. g = [i \in 0 .. k |-> g[i]]
      OBVIOUS
    <3> HIDE DEF g
    <3> QED BY <3>1, <3>2
  <2> HIDE DEF g, Folds
  <2> QED BY <2>3, <2>8, <2>9
<1>3. PICK f \in [0 .. n -> G] : Folds(f, n)
  <2>1. n \in 0 .. n
    BY <1>1
  <2>2. Good(n)
    <3> HIDE DEF Good
    <3> QED BY <1>2, <2>1
  <2> QED BY <2>2
<1> DEFINE merged == CHOOSE h : h = [i \in 0 .. n |-> IF i = 0 THEN NoContext ELSE MergeContext(h[i - 1], ctxs[i])]
<1>4. MergeAll(ctxs) = merged[n]
  BY DEF MergeAll
<1>5. merged = [i \in 0 .. n |-> Step(merged, i)]
  BY <1>3
<1> HIDE DEF merged
<1> DEFINE U == {k \in 0 .. n : merged[k] \notin G}
<1>6. U = {}
  <2> SUFFICES ASSUME U # {} PROVE FALSE
    OBVIOUS
  <2>1. U \in SUBSET Nat
    BY <1>1
  <2>2. PICK k \in U : \A y \in U : k <= y
    <3> HIDE DEF U
    <3> QED BY <2>1, LeastExists
  <2>3. k \in 0 .. n /\ merged[k] \notin G
    BY <2>2
  <2>4. merged[k] = Step(merged, k)
    <3> HIDE DEF Step
    <3> QED BY <1>5, <2>3
  <2>5. CASE k = 0
    BY <2>3, <2>4, <2>5
  <2>6. CASE k # 0
    <3>1. k - 1 \in 0 .. n /\ ~(k <= k - 1) /\ k \in 1 .. n
      BY <1>1, <2>3, <2>6
    <3>2. merged[k - 1] \in G
      BY <2>2, <3>1
    <3> QED BY <1>1, <2>3, <2>4, <2>6, <3>1, <3>2
  <2> QED BY <2>5, <2>6
<1>7. merged \in [0 .. n -> G]
  <2>1. \A i \in 0 .. n : merged[i] \in G
    BY <1>6
  <2>2. merged = [i \in 0 .. n |-> merged[i]]
    <3> HIDE DEF Step
    <3> QED BY <1>5
  <2> QED BY <2>1, <2>2
<1>8. merged[0] = NoContext
  <2>1. 0 \in 0 .. n
    BY <1>1
  <2>2. merged[0] = Step(merged, 0)
    <3> HIDE DEF Step
    <3> QED BY <1>5, <2>1
  <2> QED BY <2>2
<1>9. ASSUME NEW k \in 1 .. n PROVE merged[k] = MergeContext(merged[k - 1], ctxs[k])
  <2>1. k \in 0 .. n /\ k # 0
    BY <1>1
  <2>2. merged[k] = Step(merged, k)
    <3> HIDE DEF Step
    <3> QED BY <1>5, <2>1
  <2> QED BY <2>1, <2>2
<1> QED BY <1>4, <1>7, <1>8, <1>9

LEMMA MergeAllStays ==
  ASSUME NEW G, NoContext \in G, NEW ctxs \in Seq(G),
         \A a, b \in G : MergeContext(a, b) \in G
  PROVE  MergeAll(ctxs) \in G
<1>1. PICK f \in [0 .. Len(ctxs) -> G] : MergeAll(ctxs) = f[Len(ctxs)]
  BY MergeAllUnfolds
<1>2. Len(ctxs) \in 0 .. Len(ctxs)
  BY LenProperties
<1> QED BY <1>1, <1>2
-----------------------------------------------------------------------------
LEMMA ExecsFacts ==
  ASSUME Types
  PROVE  /\ Len(execs) \in Nat /\ Execs = 1 .. Len(execs)
         /\ \A e \in Execs : execs[e] \in Executions
<1>1. execs \in Seq(Executions)
  BY SMTT(30) DEF Types
<1> QED BY <1>1, LenProperties, ElementOfSeq DEF Execs

(* A dependency that is fine is so by an execution of it, whose version    *)
(* and commit are passed on together.                                      *)
LEMMA VerifyFacts ==
  ASSUME Types, NEW X \in SUBSET Execs, NEW d
  PROVE  \/ VerifyDependencyRun(X, d) = Refused
         \/ \E e \in X, R \in SUBSET X :
              /\ execs[e].pipe = d /\ e \in R
              /\ R = {y \in LatestAttempts(X) : execs[y].pipe = d /\ execs[y].run = execs[e].run}
              /\ Succeeded(R)
              /\ VerifyDependencyRun(X, d) =
                   [ok |-> TRUE, version |-> execs[e].version, repo |-> RepoOf[d], ref |-> execs[e].ref,
                    runs |-> R, own |-> execs[e].own]
<1> DEFINE latest == {x \in LatestAttempts(X) : execs[x].pipe = d}
           Runs == {execs[x].run : x \in latest}
           Of(r) == {x \in latest : execs[x].run = r}
           Newest(S) == CHOOSE r \in S : \E x \in Of(r) : \A s \in S : \A y \in Of(s) : y <= x
           VersionOf(r) == execs[CHOOSE x \in Of(r) : TRUE].version
           Good == {r \in Runs : Succeeded(Of(r)) /\ Matches(VersionOf(r), VersionOf(Newest(Runs)))}
           r == Newest(Good)
           x == CHOOSE y \in Of(r) : TRUE
           e == execs[x]
<1>1. latest \subseteq X /\ \A y \in latest : execs[y].pipe = d
  BY DEF LatestAttempts
<1>2. VerifyDependencyRun(X, d) =
        IF Runs = {} \/ (\E y \in Of(Newest(Runs)) : execs[y].status \in Active) \/ Good = {}
        THEN Refused
        ELSE [ok |-> TRUE, version |-> e.version, repo |-> RepoOf[d], ref |-> e.ref,
              runs |-> Of(r), own |-> e.own]
  BY DEF VerifyDependencyRun
<1>3. CASE Good = {}
  BY <1>2, <1>3
<1>4. CASE Good # {}
  <2>1. Good \subseteq Runs
    OBVIOUS
  <2> HIDE DEF Good
  <2>2. \E s \in Good : \E y \in Of(s) : \A t \in Good : \A z \in Of(t) : z <= y
    <3> DEFINE S == {y \in latest : execs[y].run \in Good}
    <3>1. S \in SUBSET (0 .. Len(execs)) /\ Len(execs) \in Nat
      BY <1>1, ExecsFacts
    <3>2. S # {}
      BY <1>4, <2>1
    <3>3. PICK y \in S : \A z \in S : z <= y
      <4> HIDE DEF S
      <4> QED BY <3>1, <3>2, GreatestExists
    <3>4. execs[y].run \in Good /\ y \in Of(execs[y].run)
      BY <3>3
    <3>5. \A t \in Good : \A z \in Of(t) : z <= y
      BY <3>3
    <3> HIDE DEF Of
    <3> QED BY <3>4, <3>5
  <2>3. r \in Good
    <3> HIDE DEF Of
    <3> QED BY <2>2
  <2> HIDE DEF r
  <2>4. Of(r) # {}
    BY <2>1, <2>3
  <2>5. x \in Of(r) /\ Of(r) \subseteq latest /\ execs[x].run = r
    BY <2>4
  <2>6. Of(r) = {y \in LatestAttempts(X) : execs[y].pipe = d /\ execs[y].run = execs[x].run}
    <3> HIDE DEF x
    <3> QED BY <2>5
  <2>7. Succeeded(Of(r))
    <3> HIDE DEF Of
    <3> QED BY <2>3 DEF Good
  <2> HIDE DEF x, latest, Of
  <2>8. x \in X /\ x \in Of(r) /\ Of(r) \in SUBSET X /\ execs[x].pipe = d
    BY <1>1, <2>5
  <2> HIDE DEF Runs
  <2>9. VerifyDependencyRun(X, d) = Refused \/ VerifyDependencyRun(X, d) =
          [ok |-> TRUE, version |-> e.version, repo |-> RepoOf[d], ref |-> e.ref,
           runs |-> Of(r), own |-> e.own]
    BY <1>2
  <2> QED BY <2>6, <2>7, <2>8, <2>9
<1> QED BY <1>3, <1>4
-----------------------------------------------------------------------------
(* What has nothing to do with another repository depends on such only. *)
LEMMA OneRepositoryDependsOn ==
  ASSUME NEW p \in OneRepository, NEW i \in DOMAIN DependsOn[p]
  PROVE  DependsOn[p][i] \in OneRepository /\ RepoOf[DependsOn[p][i]] = RepoOf[p]
<1>1. PICK S \in SUBSET Pipelines :
        /\ p \in S
        /\ \A a, b \in S : RepoOf[a] = RepoOf[b]
        /\ \A a \in S : ToSet(DependsOn[a]) \subseteq S
        /\ S \cap ToSet(Chain) = {} \/ Chain[1] \in S
  BY DEF OneRepository
<1>2. DependsOn[p][i] \in S
  BY <1>1 DEF ToSet
<1> QED BY <1>1, <1>2 DEF OneRepository

LEMMA OneRepositoryChain ==
  ASSUME NEW p \in OneRepository, p \in ToSet(Chain)
  PROVE  Chain[1] \in OneRepository /\ RepoOf[Chain[1]] = RepoOf[p]
<1>1. PICK S \in SUBSET Pipelines :
        /\ p \in S
        /\ \A a, b \in S : RepoOf[a] = RepoOf[b]
        /\ \A a \in S : ToSet(DependsOn[a]) \subseteq S
        /\ S \cap ToSet(Chain) = {} \/ Chain[1] \in S
  BY DEF OneRepository
<1> QED BY <1>1 DEF OneRepository

LEMMA OneRepositoryPipelines == OneRepository \subseteq Pipelines
BY DEF OneRepository

(* A context with a commit has one that is there, and in one repository    *)
(* the commit that has the version.                                        *)
FittingContexts == {c \in Contexts : c.ok => ContextFits(c)}
FittingContextsIn(r) == {c \in FittingContexts : c.ok => ContextFitsIn(r, c)}

LEMMA BlankContext ==
  /\ NoContext \in Contexts /\ Refused \in Contexts /\ ~Refused.ok /\ NoContext.ok
  /\ ContextFits(NoContext) /\ \A r : ContextFitsIn(r, NoContext)
<1>1. NoContext \in Contexts /\ NoContext.ok
  BY NoVersionKnown DEF NoContext, Contexts
<1>2. Refused \in Contexts /\ ~Refused.ok
  BY <1>1 DEF Refused, NoContext, Contexts
<1>3. ContextFits(NoContext) /\ \A r : ContextFitsIn(r, NoContext)
  BY NoVersionKnown DEF NoContext, ContextFits, ContextFitsIn
<1> QED BY <1>1, <1>2, <1>3

(* What of two contexts gets into their merger. *)
LEMMA MergeFacts ==
  ASSUME NEW a \in Contexts, NEW b \in Contexts, NEW c, c = MergeContext(a, b), c # Refused
  PROVE  /\ a.ok /\ b.ok /\ c \in Contexts /\ c.runs = a.runs \cup b.runs
         /\ a.version = NoVersion \/ b.version = NoVersion \/ a.version = b.version
         /\ c.version = IF b.version # NoVersion THEN b.version ELSE a.version
         /\ \/ b.ref = 0 /\ c.repo = a.repo /\ c.ref = a.ref
            \/ b.ref # 0 /\ a.ref = 0 /\ c.repo = b.repo /\ c.ref = b.ref
            \/ a.ref # 0 /\ b.ref # 0 /\ a.repo = b.repo /\ a.ref = b.ref /\ c.repo = a.repo /\ c.ref = a.ref
            \/ a.ref # 0 /\ b.ref # 0 /\ a.repo # b.repo /\ c.repo = "none" /\ c.ref = 0
<1> DEFINE versions == {a.version, b.version} \ {NoVersion}
           pinned == a.ref # 0 /\ b.ref # 0
           version == IF b.version # NoVersion THEN b.version ELSE a.version
           repo == IF b.ref = 0 THEN a.repo
                   ELSE IF a.ref = 0 \/ a.repo = b.repo THEN b.repo ELSE "none"
           ref == IF b.ref = 0 THEN a.ref
                  ELSE IF a.ref = 0 \/ a.repo = b.repo THEN b.ref ELSE 0
           runs == a.runs \cup b.runs
<1>1. c = IF \/ ~a.ok \/ ~b.ok
             \/ Cardinality(versions) > 1
             \/ pinned /\ a.repo = b.repo /\ a.ref # b.ref
          THEN Refused
          ELSE [ok |-> TRUE, version |-> version, repo |-> repo, ref |-> ref, runs |-> runs, own |-> FALSE]
  BY DEF MergeContext
<1>2. /\ a.version \in Versions /\ b.version \in Versions /\ a.repo \in Repos \cup {"none"}
      /\ b.repo \in Repos \cup {"none"} /\ a.ref \in Nat /\ b.ref \in Nat
      /\ a.runs \in SUBSET Execs /\ b.runs \in SUBSET Execs
  BY DEF Contexts
<1> HIDE DEF versions
<1>3. /\ a.ok /\ b.ok /\ ~(Cardinality(versions) > 1) /\ ~(pinned /\ a.repo = b.repo /\ a.ref # b.ref)
      /\ c = [ok |-> TRUE, version |-> version, repo |-> repo, ref |-> ref, runs |-> runs, own |-> FALSE]
  <2> HIDE DEF pinned, version, repo, ref, runs
  <2> QED BY <1>1
<1>4. a.version = NoVersion \/ b.version = NoVersion \/ a.version = b.version
  <2> SUFFICES ASSUME a.version # NoVersion, b.version # NoVersion, a.version # b.version PROVE FALSE
    OBVIOUS
  <2>1. versions = {a.version} \cup {b.version}
    BY DEF versions
  <2>2. IsFiniteSet({a.version}) /\ Cardinality({a.version}) = 1
    BY FS_Singleton
  <2>3. Cardinality({a.version} \cup {b.version}) =
          IF b.version \in {a.version} THEN Cardinality({a.version}) ELSE Cardinality({a.version}) + 1
    BY <2>2, FS_AddElement
  <2>4. Cardinality(versions) = 2
    BY <2>1, <2>2, <2>3
  <2> QED BY <1>3, <2>4
<1>5. version \in Versions /\ repo \in Repos \cup {"none"} /\ ref \in Nat /\ runs \in SUBSET Execs
  BY <1>2
<1>6. /\ c \in Contexts /\ c.version = version /\ c.repo = repo /\ c.ref = ref /\ c.runs = runs
  <2> HIDE DEF version, repo, ref, runs
  <2> QED BY <1>3, <1>5 DEF Contexts
<1>7. \/ b.ref = 0 /\ repo = a.repo /\ ref = a.ref
      \/ b.ref # 0 /\ a.ref = 0 /\ repo = b.repo /\ ref = b.ref
      \/ a.ref # 0 /\ b.ref # 0 /\ a.repo = b.repo /\ a.ref = b.ref /\ repo = a.repo /\ ref = a.ref
      \/ a.ref # 0 /\ b.ref # 0 /\ a.repo # b.repo /\ repo = "none" /\ ref = 0
  <2>1. ~(a.ref # 0 /\ b.ref # 0 /\ a.repo = b.repo /\ a.ref # b.ref)
    BY <1>3
  <2>2. CASE b.ref = 0
    BY <2>2
  <2>3. CASE b.ref # 0 /\ a.ref = 0
    BY <2>3
  <2>4. CASE b.ref # 0 /\ a.ref # 0 /\ a.repo = b.repo
    <3>1. a.ref = b.ref
      BY <2>1, <2>4
    <3> QED BY <2>4, <3>1
  <2>5. CASE b.ref # 0 /\ a.ref # 0 /\ a.repo # b.repo
    BY <2>5
  <2> HIDE DEF repo, ref
  <2> QED BY <2>2, <2>3, <2>4, <2>5
<1> HIDE DEF repo, ref
<1> QED BY <1>3, <1>4, <1>6, <1>7

LEMMA MergeStays ==
  ASSUME Types
  PROVE  /\ \A a, b \in Contexts : MergeContext(a, b) \in Contexts
         /\ \A a, b \in FittingContexts : MergeContext(a, b) \in FittingContexts
         /\ \A r : \A a, b \in FittingContextsIn(r) : MergeContext(a, b) \in FittingContextsIn(r)
<1>1. ASSUME NEW a \in Contexts, NEW b \in Contexts PROVE MergeContext(a, b) \in Contexts
  <2> DEFINE c == MergeContext(a, b)
  <2> HIDE DEF c
  <2> QED BY BlankContext, MergeFacts DEF c
<1>2. ASSUME NEW a \in FittingContexts, NEW b \in FittingContexts PROVE MergeContext(a, b) \in FittingContexts
  <2> DEFINE c == MergeContext(a, b)
  <2>1. a \in Contexts /\ b \in Contexts /\ c \in Contexts
    BY <1>1 DEF FittingContexts
  <2> SUFFICES ASSUME c # Refused PROVE ContextFits(c)
    BY <2>1, BlankContext DEF FittingContexts
  <2>2. ContextFits(a) /\ ContextFits(b)
    BY <2>1, MergeFacts DEF FittingContexts
  <2> DEFINE v == IF b.version # NoVersion THEN b.version ELSE a.version
  <2>3. /\ c.version = v
        /\ \/ b.ref = 0 /\ c.repo = a.repo /\ c.ref = a.ref
           \/ b.ref # 0 /\ a.ref = 0 /\ c.repo = b.repo /\ c.ref = b.ref
           \/ a.ref # 0 /\ b.ref # 0 /\ a.repo = b.repo /\ a.ref = b.ref /\ c.repo = a.repo /\ c.ref = a.ref
           \/ a.ref # 0 /\ b.ref # 0 /\ a.repo # b.repo /\ c.repo = "none" /\ c.ref = 0
    BY <2>1, MergeFacts
  <2>4. KnownVersion(v)
    BY <2>2 DEF ContextFits
  <2> HIDE DEF c, v
  <2>5. c.ref # 0 => c.repo \in Repos /\ c.ref \in 1 .. Tip(c.repo)
    BY <2>2, <2>3 DEF ContextFits
  <2> QED BY <2>3, <2>4, <2>5 DEF ContextFits
<1>3. ASSUME NEW r, NEW a \in FittingContextsIn(r), NEW b \in FittingContextsIn(r)
      PROVE  MergeContext(a, b) \in FittingContextsIn(r)
  <2> DEFINE c == MergeContext(a, b)
  <2>1. a \in FittingContexts /\ b \in FittingContexts /\ c \in FittingContexts
    BY <1>2 DEF FittingContextsIn
  <2>2. a \in Contexts /\ b \in Contexts
    BY <2>1 DEF FittingContexts
  <2> SUFFICES ASSUME c # Refused PROVE ContextFitsIn(r, c)
    BY <2>1, BlankContext DEF FittingContextsIn
  <2>3. ContextFitsIn(r, a) /\ ContextFitsIn(r, b)
    BY <2>2, MergeFacts DEF FittingContextsIn
  <2>4. /\ a.version = NoVersion \/ b.version = NoVersion \/ a.version = b.version
        /\ c.version = IF b.version # NoVersion THEN b.version ELSE a.version
        /\ \/ b.ref = 0 /\ c.repo = a.repo /\ c.ref = a.ref
           \/ b.ref # 0 /\ a.ref = 0 /\ c.repo = b.repo /\ c.ref = b.ref
           \/ a.ref # 0 /\ b.ref # 0 /\ a.repo = b.repo /\ a.ref = b.ref /\ c.repo = a.repo /\ c.ref = a.ref
           \/ a.ref # 0 /\ b.ref # 0 /\ a.repo # b.repo /\ c.repo = "none" /\ c.ref = 0
    BY <2>2, MergeFacts
  <2> HIDE DEF c
  <2>5. c.ref # 0 => c.repo = r
    BY <2>3, <2>4 DEF ContextFitsIn
  <2>6. c.version # NoVersion => c.ref # 0 /\ commits[r][c.ref] = c.version.raw
    BY <2>3, <2>4 DEF ContextFitsIn
  <2> QED BY <2>5, <2>6 DEF ContextFitsIn
<1> QED BY <1>1, <1>2, <1>3

(* What an execution says of its version and commit is so. *)
LEMMA VerifiedFits ==
  ASSUME Types, \A e \in Execs : BuildFits(execs[e]), NEW X \in SUBSET Execs, NEW d \in Pipelines,
         NEW v, v = VerifyDependencyRun(X, d)
  PROVE  /\ v \in FittingContexts
         /\ d \in OneRepository => v \in FittingContextsIn(RepoOf[d])
         /\ v.ok => /\ v.ref \in 1 .. Tip(RepoOf[d]) /\ v.ref # 0 /\ v.repo = RepoOf[d]
                    /\ v.own /\ v.version # NoVersion => commits[RepoOf[d]][v.ref] = v.version.raw
<1>1. CASE v = Refused
  BY <1>1, BlankContext DEF FittingContexts, FittingContextsIn
<1>2. CASE v # Refused
  <2>1. PICK e \in X, R \in SUBSET X :
          /\ execs[e].pipe = d
          /\ v = [ok |-> TRUE, version |-> execs[e].version, repo |-> RepoOf[d], ref |-> execs[e].ref,
                  runs |-> R, own |-> execs[e].own]
    BY <1>2, VerifyFacts
  <2> DEFINE x == execs[e]
             r == RepoOf[d]
  <2>2. x \in Executions /\ BuildFits(x) /\ x.pipe = d /\ r \in Repos
    BY <2>1, ExecsFacts, Configured
  <2>3. /\ v = [ok |-> TRUE, version |-> x.version, repo |-> r, ref |-> x.ref, runs |-> R, own |-> x.own]
        /\ R \in SUBSET Execs
    BY <2>1
  <2>4. /\ x.version \in Versions /\ x.ref \in Nat /\ x.own \in BOOLEAN
    BY <2>2 DEF Executions
  <2>5. /\ x.ref \in 1 .. Tip(r) /\ KnownVersion(x.version)
        /\ x.version # NoVersion /\ (x.own \/ d \in OneRepository) => commits[r][x.ref] = x.version.raw
    BY <2>2 DEF BuildFits, OfItsSource
  <2> HIDE DEF x, r
  <2>6. v \in Contexts
    BY <2>2, <2>3, <2>4 DEF Contexts
  <2>7. /\ v.repo = r /\ v.ref = x.ref /\ v.version = x.version /\ v.own = x.own /\ v.ref # 0
    BY <2>3, <2>5
  <2>8. ContextFits(v)
    BY <2>2, <2>5, <2>7 DEF ContextFits
  <2>9. d \in OneRepository => ContextFitsIn(r, v)
    BY <2>5, <2>7 DEF ContextFitsIn
  <2>10. /\ v.ref \in 1 .. Tip(r) /\ v.ref # 0 /\ v.repo = r
         /\ v.own /\ v.version # NoVersion => commits[r][v.ref] = v.version.raw
    BY <2>5, <2>7
  <2> QED BY <2>6, <2>8, <2>9, <2>10 DEF r, FittingContexts, FittingContextsIn
<1> QED BY <1>1, <1>2

(* What the dependencies of a pipeline pass on, of whatever repositories.  *)
LEMMA CheckFacts ==
  ASSUME Types, \A e \in Execs : BuildFits(execs[e]), NEW p \in Pipelines, NEW c, c = CheckDependencies(p)
  PROVE  /\ c \in Contexts
         /\ c.ok => ContextFits(c)
         /\ c.ok /\ p \in OneRepository => ContextFitsIn(RepoOf[p], c)
<1> DEFINE ds == DependsOn[p]
           G == FittingContexts
           H == FittingContextsIn(RepoOf[p])
           ctxs == [i \in DOMAIN ds |-> VerifyDependencyRun(Execs, ds[i])]
<1>1. /\ ds \in Seq(Pipelines) /\ Len(ds) \in Nat /\ DOMAIN ds = 1 .. Len(ds)
      /\ \A i \in 1 .. Len(ds) : ds[i] \in Pipelines
  <2>1. ds \in Seq(Pipelines)
    BY Configured
  <2> HIDE DEF ds
  <2> QED BY <2>1, LenProperties, ElementOfSeq
<1>2. c = MergeAll(ctxs)
  BY DEF CheckDependencies
<1>3. NoContext \in G /\ NoContext \in H
  BY BlankContext DEF FittingContexts, FittingContextsIn
<1>4. c \in G
  <2>1. ctxs \in [1 .. Len(ds) -> G]
    <3>1. \A i \in 1 .. Len(ds) : VerifyDependencyRun(Execs, ds[i]) \in G
      <4> HIDE DEF ds, G
      <4> QED BY <1>1, VerifiedFits DEF G
    <3> HIDE DEF G
    <3> QED BY <1>1, <3>1
  <2> HIDE DEF ctxs, G, ds
  <2>2. ctxs \in Seq(G)
    BY <1>1, <2>1, SeqDef
  <2>3. \A a, b \in G : MergeContext(a, b) \in G
    BY MergeStays DEF G
  <2> QED BY <1>2, <1>3, <2>2, <2>3, MergeAllStays
<1>5. ASSUME p \in OneRepository PROVE c \in H
  <2>1. ctxs \in [1 .. Len(ds) -> H]
    <3>1. ASSUME NEW i \in 1 .. Len(ds) PROVE VerifyDependencyRun(Execs, ds[i]) \in H
      <4>1. ds[i] \in OneRepository /\ RepoOf[ds[i]] = RepoOf[p]
        BY <1>1, <1>5, OneRepositoryDependsOn
      <4>2. VerifyDependencyRun(Execs, ds[i]) \in FittingContextsIn(RepoOf[ds[i]])
        <5> HIDE DEF ds
        <5> QED BY <1>1, <4>1, VerifiedFits
      <4> QED BY <4>1, <4>2
    <3> HIDE DEF H
    <3> QED BY <1>1, <3>1
  <2> HIDE DEF ctxs, H, ds
  <2>2. ctxs \in Seq(H)
    BY <1>1, <2>1, SeqDef
  <2>3. \A a, b \in H : MergeContext(a, b) \in H
    BY MergeStays DEF H
  <2> QED BY <1>2, <1>3, <2>2, <2>3, MergeAllStays
<1> QED BY <1>4, <1>5 DEF FittingContexts, FittingContextsIn

(* What a chain binds is of executions that exist. *)
LEMMA ChainContextFacts ==
  ASSUME Types, \A e \in Execs : BuildFits(execs[e]), NEW p \in Pipelines, NEW n
  PROVE  ChainContext(p, n) \in Contexts
<1> DEFINE ds == DependsOn[p]
           InChain(d) == {x \in Execs : execs[x].chain = n /\ execs[x].pipe = d}
           R(d) == IF InChain(d) # {} THEN InChain(d) ELSE Execs
           ctxs == [i \in DOMAIN ds |-> VerifyDependencyRun(R(ds[i]), ds[i])]
<1>1. /\ ds \in Seq(Pipelines) /\ Len(ds) \in Nat /\ DOMAIN ds = 1 .. Len(ds)
      /\ \A i \in 1 .. Len(ds) : ds[i] \in Pipelines
  <2>1. ds \in Seq(Pipelines)
    BY Configured
  <2> HIDE DEF ds
  <2> QED BY <2>1, LenProperties, ElementOfSeq
<1>2. ChainContext(p, n) = MergeAll(ctxs)
  BY DEF ChainContext
<1>3. \A d : R(d) \in SUBSET Execs
  OBVIOUS
<1> HIDE DEF R, ds
<1>4. \A i \in 1 .. Len(ds) : VerifyDependencyRun(R(ds[i]), ds[i]) \in Contexts
  BY <1>1, <1>3, VerifiedFits DEF FittingContexts
<1>5. ctxs \in [1 .. Len(ds) -> Contexts]
  BY <1>1, <1>4
<1> HIDE DEF ctxs
<1>6. ctxs \in Seq(Contexts)
  BY <1>1, <1>5, SeqDef
<1> QED BY <1>2, <1>6, BlankContext, MergeStays, MergeAllStays
-----------------------------------------------------------------------------
(* Commits and executions are added, and neither what an execution builds  *)
(* nor its place in a run and a chain is changed.                          *)
SameBuild(x, y) ==
  /\ x.pipe = y.pipe /\ x.job = y.job /\ x.version = y.version /\ x.ref = y.ref
  /\ x.own = y.own /\ x.bump = y.bump
  /\ x.run = y.run /\ x.root = y.root /\ x.chain = y.chain

Grows ==
  /\ project' = project
  /\ \A r \in Repos : /\ Tip(r) \in Nat /\ Tip(r)' \in Nat /\ Tip(r) <= Tip(r)'
                      /\ \A i \in 1 .. Tip(r) : commits'[r][i] = commits[r][i]
  /\ Execs \subseteq Execs'
  /\ \A e \in Execs : SameBuild(execs[e], execs'[e])

LEMMA ProjectStays ==
  ASSUME project' = project
  PROVE  JobsOf' = JobsOf /\ Chain' = Chain /\ Kinds' = Kinds /\ OneRepository' = OneRepository
<1>1. JobsOf' = JobsOf /\ Chain' = Chain /\ Kinds' = Kinds
  BY DEF JobsOf, Chain, Kinds
<1> QED BY <1>1 DEF OneRepository

(* What fitted the commits fits more of them. *)
LEMMA BuildStays ==
  ASSUME Grows
  PROVE  /\ \A x : x.pipe \in Pipelines /\ BuildFits(x) => BuildFits(x)'
         /\ \A x : x.pipe \in Pipelines /\ PushFits(x) => PushFits(x)'
         /\ \A b : b.repo \in Repos /\ BumpFits(b) => BumpFits(b)'
         /\ \A c : ContextFits(c) => ContextFits(c)'
         /\ \A r \in Repos : \A c : ContextFits(c) /\ ContextFitsIn(r, c) => ContextFitsIn(r, c)'
<1>1. /\ JobsOf' = JobsOf /\ OneRepository' = OneRepository
      /\ \A r \in Repos : /\ Tip(r) \in Nat /\ Tip(r)' \in Nat /\ Tip(r) <= Tip(r)'
                          /\ \A i \in 1 .. Tip(r) : commits'[r][i] = commits[r][i]
      /\ \A p \in Pipelines : RepoOf[p] \in Repos
  BY ProjectStays, Configured DEF Grows
<1>2. ASSUME NEW x, x.pipe \in Pipelines, BuildFits(x) PROVE BuildFits(x)'
  <2>1. /\ x.job \in ToSet(JobsOf[x.pipe]) /\ x.ref \in 1 .. Tip(RepoOf[x.pipe])
        /\ KnownVersion(x.version) /\ (x.bump => x.version.raw > 0)
        /\ x.version # NoVersion /\ (x.own \/ x.pipe \in OneRepository) =>
             commits[RepoOf[x.pipe]][x.ref] = x.version.raw
    BY <1>2 DEF BuildFits, OfItsSource
  <2>2. x.ref \in 1 .. Tip(RepoOf[x.pipe])' /\ commits'[RepoOf[x.pipe]][x.ref] = commits[RepoOf[x.pipe]][x.ref]
    BY <1>1, <1>2, <2>1
  <2>3. OfItsSource(x)'
    BY <1>1, <2>1, <2>2 DEF OfItsSource
  <2>4. KnownVersion(x.version)'
    BY <2>1 DEF KnownVersion
  <2> QED BY <1>1, <2>1, <2>2, <2>3, <2>4 DEF BuildFits
<1>3. ASSUME NEW x, x.pipe \in Pipelines, PushFits(x) PROVE PushFits(x)'
  <2> DEFINE r == RepoOf[x.pipe]
  <2>1. r \in Repos
    BY <1>1, <1>3
  <2>2. x.base \in 0 .. Tip(r)
    BY <1>3 DEF PushFits
  <2>3. x.base \in 0 .. Tip(r)' /\ (x.base > 0 => commits'[r][x.base] = commits[r][x.base])
    <3> HIDE DEF r
    <3> QED BY <1>1, <2>1, <2>2
  <2> QED BY <1>3, <2>3 DEF PushFits
<1>4. ASSUME NEW b, b.repo \in Repos, BumpFits(b) PROVE BumpFits(b)'
  <2>1. b.at \in 2 .. Tip(b.repo)
    BY <1>4 DEF BumpFits
  <2>2. b.at \in 2 .. Tip(b.repo)' /\ b.at \in 1 .. Tip(b.repo) /\ b.at - 1 \in 1 .. Tip(b.repo)
    BY <1>1, <1>4, <2>1
  <2>3. commits'[b.repo][b.at] = commits[b.repo][b.at] /\ commits'[b.repo][b.at - 1] = commits[b.repo][b.at - 1]
    BY <1>1, <1>4, <2>2
  <2> QED BY <1>4, <2>2, <2>3 DEF BumpFits
<1>5. ASSUME NEW c, ContextFits(c) PROVE ContextFits(c)'
  <2>1. KnownVersion(c.version)'
    BY <1>5 DEF ContextFits, KnownVersion
  <2>2. c.ref # 0 => c.repo \in Repos /\ c.ref \in 1 .. Tip(c.repo)'
    BY <1>1, <1>5 DEF ContextFits
  <2> QED BY <2>1, <2>2 DEF ContextFits
<1>6. ASSUME NEW r \in Repos, NEW c, ContextFits(c), ContextFitsIn(r, c) PROVE ContextFitsIn(r, c)'
  <2>1. c.ref # 0 => c.repo = r /\ c.ref \in 1 .. Tip(r)
    BY <1>6 DEF ContextFits, ContextFitsIn
  <2>2. c.ref # 0 => commits'[r][c.ref] = commits[r][c.ref]
    BY <1>1, <2>1
  <2> QED BY <1>6, <2>1, <2>2 DEF ContextFitsIn
<1> QED BY <1>2, <1>3, <1>4, <1>5, <1>6

LEMMA RequestStays ==
  ASSUME Types, Grows, NEW rq \in RequestStates, RequestFits(rq)
  PROVE  RequestFits(rq)'
<1>1. JobsOf' = JobsOf /\ Chain' = Chain /\ OneRepository' = OneRepository
  BY ProjectStays DEF Grows
<1>2. /\ rq.dep \in Contexts /\ rq.clone \in {0} \cup Execs /\ DOMAIN rq.built = 1 .. Len(rq.built)
      /\ \A i \in DOMAIN rq.built : rq.built[i].pipe \in Pipelines
      /\ rq.todo \in Seq(Pipelines)
  <2>1. rq.built \in Seq(Pendings)
    BY DEF RequestStates
  <2>2. DOMAIN rq.built = 1 .. Len(rq.built) /\ \A i \in DOMAIN rq.built : rq.built[i] \in Pendings
    BY <2>1, LenProperties, ElementOfSeq
  <2> QED BY <2>2 DEF RequestStates, Pendings
<1>3. ASSUME NEW i \in DOMAIN rq.built
      PROVE  BuildFits(rq.built[i])' /\ Agrees(rq.built[i], rq.built[1])'
  <2>1. BuildFits(rq.built[i])'
    <3>1. BuildFits(rq.built[i])
      BY DEF RequestFits
    <3> QED BY <1>2, <3>1, BuildStays
  <2>2. Agrees(rq.built[i], rq.built[1])
    BY DEF RequestFits
  <2> QED BY <2>1, <2>2 DEF Agrees
<1>4. ASSUME rq.pc \in {"resolve", "pin"} PROVE AtWork(rq)'
  <2>1. AtWork(rq)
    BY <1>4 DEF RequestFits
  <2>2. ContextFits(rq.dep) /\ At(rq) \in DOMAIN rq.todo
    BY <2>1 DEF AtWork
  <2>3. ContextFits(rq.dep)'
    BY <2>2, BuildStays
  <2>4. At(rq)' = At(rq)
    BY DEF At
  <2>5. ASSUME rq.built = <<>>, rq.todo[1] \in OneRepository PROVE ContextFitsIn(RepoOf[rq.todo[1]], rq.dep)'
    <3>1. ContextFitsIn(RepoOf[rq.todo[1]], rq.dep)
      BY <2>1, <2>5 DEF AtWork
    <3>2. RepoOf[rq.todo[1]] \in Repos
      BY <2>5, OneRepositoryPipelines, Configured
    <3> QED BY <2>2, <3>1, <3>2, BuildStays
  <2>6. /\ rq.clone = 0
        /\ Len(rq.todo) > 1 => rq.todo = Chain
        /\ rq.kind = "job" => Len(rq.todo) = 1 /\ rq.job \in ToSet(JobsOf[rq.todo[1]])
    BY <2>1 DEF AtWork
  <2>7. rq.built # <<>> =>
          /\ rq.built[1].pipe = rq.todo[1] /\ Len(rq.todo) > 1
          /\ rq.dep.version = rq.built[1].version
          /\ rq.dep.repo = RepoOf[rq.todo[1]] /\ rq.dep.ref = rq.built[1].ref
    BY <2>1 DEF AtWork
  <2> QED BY <1>1, <2>2, <2>3, <2>4, <2>5, <2>6, <2>7 DEF AtWork
<1>5. FromCache(rq)' /\ AtPin(rq)'
  <2>1. FromCache(rq)'
    BY DEF RequestFits, FromCache
  <2>2. AtPin(rq)
    BY DEF RequestFits
  <2>3. Here(rq)' = Here(rq)
    BY DEF Here, At
  <2>4. AtPin(rq)'
    BY <1>1, <2>2, <2>3 DEF AtPin, KnownVersion
  <2> QED BY <2>1, <2>4
<1>6. ToCreate(rq)'
  <2>1. ToCreate(rq)
    BY DEF RequestFits
  <2>2. rq.clone # 0 => SameBuild(execs[rq.clone], execs'[rq.clone])
    BY <1>2 DEF Grows
  <2> QED BY <2>1, <2>2 DEF ToCreate, SameBuild
<1>7. rq.dep.ok'
  BY DEF RequestFits
<1> QED BY <1>3, <1>4, <1>5, <1>6, <1>7 DEF RequestFits

LEMMA StatesGrow ==
  ASSUME Execs \subseteq Execs'
  PROVE  /\ Executions \subseteq Executions' /\ Contexts \subseteq Contexts' /\ Pendings \subseteq Pendings'
         /\ RequestStates \subseteq RequestStates'
<1>1. /\ Executions \subseteq Executions' /\ Contexts \subseteq Contexts'
      /\ Pendings \subseteq Pendings'
  BY DEF Executions, Contexts, Pendings
<1>2. Seq(Pendings) \subseteq Seq(Pendings')
  BY <1>1, SeqMonotonic
<1> QED BY <1>1, <1>2 DEF RequestStates

LEMMA FittingStays ==
  ASSUME Types, Types', Grows
  PROVE  /\ \A x \in FittingBuilds, y \in Executions' : SameBuild(x, y) => y \in FittingBuilds'
         /\ FittingPushes \subseteq FittingPushes'
         /\ FittingBumps \subseteq FittingBumps'
         /\ FittingRequests \subseteq FittingRequests'
<1>1. Executions \subseteq Executions' /\ RequestStates \subseteq RequestStates'
  BY StatesGrow DEF Grows
<1>2. ASSUME NEW x \in FittingBuilds, NEW y \in Executions', SameBuild(x, y) PROVE y \in FittingBuilds'
  <2>1. x.pipe \in Pipelines /\ BuildFits(x)
    BY DEF FittingBuilds, Executions
  <2>2. BuildFits(x)'
    BY <2>1, BuildStays
  <2>3. BuildFits(y)'
    BY <1>2, <2>2 DEF BuildFits, OfItsSource, SameBuild
  <2> QED BY <2>3 DEF FittingBuilds
<1>3. ASSUME NEW x \in FittingPushes PROVE x \in FittingPushes'
  <2>1. x.pipe \in Pipelines /\ PushFits(x) /\ x \in Executions
    BY DEF FittingPushes, Executions
  <2>2. PushFits(x)'
    BY <2>1, BuildStays
  <2> QED BY <1>1, <2>1, <2>2 DEF FittingPushes
<1>4. ASSUME NEW b \in FittingBumps PROVE b \in FittingBumps'
  <2>1. b.repo \in Repos /\ BumpFits(b)
    BY DEF FittingBumps
  <2>2. BumpFits(b)'
    BY <2>1, BuildStays
  <2> QED BY <2>2 DEF FittingBumps
<1>5. ASSUME NEW rq \in FittingRequests PROVE rq \in FittingRequests'
  <2>1. rq \in RequestStates /\ RequestFits(rq)
    BY DEF FittingRequests
  <2>2. RequestFits(rq)'
    BY <2>1, RequestStays
  <2> QED BY <1>1, <2>1, <2>2 DEF FittingRequests
<1> QED BY <1>2, <1>3, <1>4, <1>5

(* A step that only adds has to show of what it adds that it fits. *)
LEMMA GrowthKeeps ==
  ASSUME IInv, Grows, Types', OnlyRaised',
         \A b \in bumps' : b \in bumps \/ b \in FittingBumps',
         \A e \in Execs : execs'[e] = execs[e] \/ execs'[e] \in FittingPushes',
         \A e \in Execs' \ Execs : execs'[e] \in FittingBuilds' \cap FittingPushes' /\ PlaceFits(e)',
         \A q \in Requests : requests'[q] = requests[q] \/ requests'[q] \in FittingRequests'
  PROVE  IInv'
<1>1. Types /\ Execs \subseteq Execs' /\ \A e \in Execs : SameBuild(execs[e], execs'[e])
  BY DEF IInv, Grows
<1>2. Len(execs) \in Nat /\ Execs = 1 .. Len(execs)
  BY <1>1, ExecsFacts
<1>3. bumps' \subseteq FittingBumps'
  BY <1>1, FittingStays DEF IInv
<1>4. ASSUME NEW e \in Execs PROVE execs'[e] \in FittingBuilds' \cap FittingPushes' /\ PlaceFits(e)'
  <2> DEFINE x == execs[e]
             y == execs'[e]
             c == x.chain
  <2>1. SameBuild(x, y) /\ x \in FittingBuilds /\ x \in FittingPushes /\ PlaceFits(e)
    BY <1>1 DEF IInv
  <2>2. y \in Executions'
    <3>1. \A i \in Execs' : execs'[i] \in Executions'
      <4>1. execs' \in Seq(Executions')
        BY DEF Types
      <4> QED BY <4>1, LenProperties, ElementOfSeq DEF Execs
    <3> QED BY <1>1, <3>1
  <2>3. y \in FittingBuilds'
    <3> HIDE DEF x, y
    <3> QED BY <1>1, <2>1, <2>2, FittingStays
  <2>4. y \in FittingPushes'
    BY <1>1, <2>1, FittingStays
  <2>5. PlaceFits(e)'
    <3>1. /\ x.run \in 1 .. e /\ x.root \in 1 .. e /\ c \in 0 .. e
          /\ c # 0 => Agrees(x, execs[c])
      BY <2>1 DEF PlaceFits
    <3>2. y.run = x.run /\ y.root = x.root /\ y.chain = c
      BY <2>1 DEF SameBuild
    <3>3. ASSUME c # 0 PROVE Agrees(y, execs'[c])
      <4>1. c \in Execs
        BY <1>2, <3>1, <3>3
      <4>2. SameBuild(execs[c], execs'[c])
        BY <1>1, <4>1
      <4> HIDE DEF x, y, c
      <4> QED BY <2>1, <3>1, <3>3, <4>2 DEF Agrees, SameBuild
    <3> QED BY <3>1, <3>2, <3>3 DEF PlaceFits, Agrees
  <2> QED BY <2>3, <2>4, <2>5
<1>5. \A q \in Requests : requests'[q] \in FittingRequests'
  BY <1>1, FittingStays DEF IInv
<1>6. \A e \in Execs' : execs'[e] \in FittingBuilds' \cap FittingPushes' /\ PlaceFits(e)'
  BY <1>4
<1> QED BY <1>3, <1>5, <1>6 DEF IInv
-----------------------------------------------------------------------------
(* The pipelines of what was built are counted by At. *)
IsBuilt(b, n, c) ==
  /\ c \in Seq(Pendings) /\ c # <<>> /\ DOMAIN c = 1 .. Len(c)
  /\ c[1] = IF b = <<>> THEN n[1] ELSE b[1]
  /\ \A i \in DOMAIN c : \/ i \in DOMAIN b /\ c[i] = b[i]
                         \/ \E j \in 1 .. Len(n) : c[i] = n[j]

LEMMA BuiltFacts == \A b, n \in Seq(Pendings) : n # <<>> => IsBuilt(b, n, b \o n)
<1> SUFFICES ASSUME NEW b \in Seq(Pendings), NEW n \in Seq(Pendings), n # <<>>, NEW c, c = b \o n
             PROVE  IsBuilt(b, n, c)
  OBVIOUS
<1>1. /\ Len(b) \in Nat /\ DOMAIN b = 1 .. Len(b) /\ Len(n) \in Nat \ {0} /\ DOMAIN n = 1 .. Len(n)
      /\ (b = <<>> <=> Len(b) = 0)
  BY EmptySeq, LenProperties
<1>2. /\ c \in Seq(Pendings) /\ Len(c) = Len(b) + Len(n)
      /\ \A i \in 1 .. Len(b) + Len(n) : c[i] = IF i <= Len(b) THEN b[i] ELSE n[i - Len(b)]
  BY ConcatProperties
<1>3. DOMAIN c = 1 .. Len(c) /\ Len(c) \in Nat /\ c # <<>>
  <2>1. DOMAIN c = 1 .. Len(c) /\ Len(c) \in Nat
    BY <1>2, LenProperties
  <2>2. Len(c) # 0
    BY <1>1, <1>2
  <2> QED BY <2>1, <2>2, EmptySeq
<1>4. c[1] = IF b = <<>> THEN n[1] ELSE b[1]
  <2>1. c[1] = IF 1 <= Len(b) THEN b[1] ELSE n[1 - Len(b)]
    BY <1>1, <1>2
  <2>2. CASE Len(b) = 0
    BY <1>1, <2>1, <2>2
  <2>3. CASE Len(b) # 0
    BY <1>1, <2>1, <2>3
  <2> QED BY <2>2, <2>3
<1>5. ASSUME NEW i \in DOMAIN c
      PROVE  \/ i \in DOMAIN b /\ c[i] = b[i]
             \/ \E j \in 1 .. Len(n) : c[i] = n[j]
  <2>1. i \in 1 .. Len(b) + Len(n)
    BY <1>2, <1>3
  <2>2. CASE i <= Len(b)
    BY <1>1, <1>2, <2>1, <2>2
  <2>3. CASE ~(i <= Len(b))
    <3>1. i - Len(b) \in 1 .. Len(n) /\ c[i] = n[i - Len(b)]
      BY <1>1, <1>2, <2>1, <2>3
    <3> QED BY <3>1
  <2> QED BY <2>2, <2>3
<1> QED BY <1>2, <1>3, <1>4, <1>5 DEF IsBuilt

LEMMA BuiltFinite ==
  ASSUME NEW b \in Seq(Pendings)
  PROVE  IsFiniteSet({b[i].pipe : i \in DOMAIN b})
<1> DEFINE B == {b[i].pipe : i \in DOMAIN b}
           f == [i \in 1 .. Len(b) |-> b[i].pipe]
<1>1. Len(b) \in Nat /\ DOMAIN b = 1 .. Len(b)
  BY LenProperties
<1>2. f \in Surjection(1 .. Len(b), B)
  BY <1>1 DEF Surjection
<1>3. IsFiniteSet(1 .. Len(b))
  BY <1>1, FS_Interval
<1> HIDE DEF f
<1>4. IsFiniteSet(B)
  <2> HIDE DEF B
  <2> QED BY <1>2, <1>3, FS_Surjection
<1> QED BY <1>4

LEMMA OneMore ==
  ASSUME NEW B, IsFiniteSet(B), NEW p, NEW C, C \subseteq B \cup {p}
  PROVE  Cardinality(B) \in Nat /\ Cardinality(C) \in Nat /\ Cardinality(C) <= Cardinality(B) + 1
<1>1. Cardinality(B) \in Nat
  BY FS_CardinalityType
<1>2. IsFiniteSet(B \cup {p}) /\ Cardinality(B \cup {p}) = IF p \in B THEN Cardinality(B) ELSE Cardinality(B) + 1
  BY FS_AddElement
<1>3. IsFiniteSet(C) /\ Cardinality(C) <= Cardinality(B \cup {p})
  BY <1>2, FS_Subset
<1>4. Cardinality(C) \in Nat /\ Cardinality(B \cup {p}) \in Nat
  BY <1>2, <1>3, FS_CardinalityType
<1> QED BY <1>1, <1>2, <1>3, <1>4

LEMMA NothingBuilt == \A rq : rq.built = <<>> => At(rq) = 1
<1> SUFFICES ASSUME NEW rq, rq.built = <<>> PROVE At(rq) = 1
  OBVIOUS
<1> DEFINE S == {rq.built[i].pipe : i \in DOMAIN rq.built}
<1>1. S = {}
  OBVIOUS
<1>2. At(rq) = 1 + Cardinality(S)
  BY DEF At
<1>3. Cardinality({}) = 0
  BY FS_EmptySet
<1> HIDE DEF S
<1> QED BY <1>1, <1>2, <1>3

(* A request that has ended is as good as one that never came. *)
LEMMA IdleFits == Idle \in FittingRequests /\ Idle.pc = "idle"
<1>1. <<>> \in Seq(Pipelines) /\ <<>> \in Seq(Pendings)
  OBVIOUS
<1>2. Idle \in RequestStates /\ Idle.pc = "idle" /\ Idle.built = <<>> /\ Idle.dep = NoContext
  BY <1>1, BlankContext DEF Idle, RequestStates, AllKinds
<1>3. RequestFits(Idle)
  <2>1. DOMAIN Idle.built = {}
    BY <1>2
  <2> QED BY <1>2, <2>1, BlankContext DEF RequestFits, FromCache, AtPin, ToCreate
<1> QED BY <1>2, <1>3 DEF FittingRequests

LEMMA RequestStep ==
  ASSUME IInv, UNCHANGED <<project, commits, bumps, execs>>, NEW q \in Requests, NEW s \in FittingRequests,
         requests' = [requests EXCEPT ![q] = s]
  PROVE  IInv'
<1>1. Types
  BY DEF IInv
<1>2. Execs' = Execs /\ \A r : Tip(r)' = Tip(r)
  BY DEF Execs, Tip
<1>3. Grows
  <2>1. \A r \in Repos : Tip(r) \in Nat
    BY <1>1 DEF Types
  <2> QED BY <1>2, <2>1 DEF Grows, SameBuild
<1>4. Types'
  <2>1. Executions' = Executions /\ RequestStates' = RequestStates
    BY <1>2 DEF Executions, RequestStates, Contexts, Pendings
  <2>2. requests' \in [Requests -> RequestStates]
    BY <1>1 DEF Types, FittingRequests
  <2> QED BY <1>1, <1>2, <2>1, <2>2 DEF Types
<1>5. OnlyRaised'
  BY <1>2 DEF IInv, OnlyRaised
<1>6. \A i \in Requests : requests'[i] = requests[i] \/ requests'[i] \in FittingRequests'
  <2>1. s \in FittingRequests'
    BY <1>1, <1>3, <1>4, FittingStays
  <2> QED BY <1>1, <2>1 DEF Types
<1> QED BY <1>2, <1>3, <1>4, <1>5, <1>6, GrowthKeeps

LEMMA EndsKeeps ==
  ASSUME IInv, UNCHANGED <<project, commits, bumps, execs>>, NEW q \in Requests, Ends(q)
  PROVE  IInv'
BY RequestStep, IdleFits DEF Ends

LEMMA ExecStep ==
  ASSUME IInv, UNCHANGED <<project, commits, bumps, requests>>, NEW e \in Execs, NEW y \in Executions,
         SameBuild(execs[e], y), PushFits(y), execs' = [execs EXCEPT ![e] = y]
  PROVE  IInv'
<1>1. Types
  BY DEF IInv
<1>2. execs \in Seq(Executions) /\ Len(execs) \in Nat /\ Execs = 1 .. Len(execs) /\ DOMAIN execs = Execs
  BY <1>1, ExecsFacts DEF Types, Execs
<1>3. execs' \in Seq(Executions) /\ Len(execs') = Len(execs)
  BY <1>2, ExceptSeq
<1>4. Execs' = Execs /\ \A r : Tip(r)' = Tip(r)
  BY <1>2, <1>3, LenProperties DEF Execs, Tip
<1>5. \A i \in Execs : execs'[i] = IF i = e THEN y ELSE execs[i]
  BY <1>2
<1>6. Grows
  <2>1. \A r \in Repos : Tip(r) \in Nat
    BY <1>1 DEF Types
  <2>2. \A i \in Execs : SameBuild(execs[i], execs'[i])
    BY <1>5 DEF SameBuild
  <2> QED BY <1>4, <2>1, <2>2 DEF Grows
<1>7. Executions' = Executions /\ RequestStates' = RequestStates
  BY <1>4 DEF Executions, RequestStates, Contexts, Pendings
<1>8. Types'
  BY <1>1, <1>3, <1>4, <1>7 DEF Types
<1>9. OnlyRaised'
  BY <1>4 DEF IInv, OnlyRaised
<1>10. \A i \in Execs : execs'[i] = execs[i] \/ execs'[i] \in FittingPushes'
  <2>1. y \in FittingPushes'
    <3>1. y \in FittingPushes
      BY DEF FittingPushes
    <3> QED BY <1>1, <1>6, <1>8, <3>1, FittingStays
  <2> QED BY <1>5, <2>1
<1> QED BY <1>4, <1>6, <1>8, <1>9, <1>10, GrowthKeeps
-----------------------------------------------------------------------------
(* What a request has when it is at work on a pipeline of its list. *)
LEMMA WorkFacts ==
  ASSUME IInv, NEW q \in Requests, NEW rq, rq = requests[q], rq.pc \in {"resolve", "pin"},
         NEW p, p = Current(q)
  PROVE  /\ rq \in RequestStates /\ RequestFits(rq) /\ AtWork(rq) /\ p = Here(rq) /\ p \in Pipelines
         /\ rq.built \in Seq(Pendings) /\ DOMAIN rq.built = 1 .. Len(rq.built)
         /\ rq.todo \in Seq(Pipelines) /\ DOMAIN rq.todo = 1 .. Len(rq.todo) /\ Len(rq.todo) \in Nat
         /\ Position(q) = At(rq) /\ At(rq) \in 1 .. Len(rq.todo) /\ rq.todo[1] \in Pipelines
         /\ rq.built # <<>> => 1 \in DOMAIN rq.built /\ BuildFits(rq.built[1]) /\ rq.built[1] \in Pendings
         /\ rq.built = <<>> => p = rq.todo[1]
         /\ Len(rq.todo) > 1 => rq.todo = Chain
         /\ p \in OneRepository /\ rq.built # <<>> =>
              rq.todo[1] \in OneRepository /\ RepoOf[rq.todo[1]] = RepoOf[p]
<1>1. rq \in RequestStates /\ RequestFits(rq)
  BY DEF IInv, FittingRequests
<1>2. AtWork(rq)
  BY <1>1 DEF RequestFits
<1>3. Position(q) = At(rq) /\ p = Here(rq)
  BY DEF Position, At, Current, Here
<1>4. rq.built \in Seq(Pendings) /\ rq.todo \in Seq(Pipelines)
  BY <1>1 DEF RequestStates
<1>5. /\ DOMAIN rq.built = 1 .. Len(rq.built) /\ DOMAIN rq.todo = 1 .. Len(rq.todo)
      /\ Len(rq.built) \in Nat /\ Len(rq.todo) \in Nat
  BY <1>4, LenProperties
<1>6. At(rq) \in 1 .. Len(rq.todo)
  BY <1>2, <1>5 DEF AtWork
<1>7. p \in Pipelines /\ rq.todo[1] \in Pipelines
  <2>1. 1 \in 1 .. Len(rq.todo)
    BY <1>5, <1>6
  <2> QED BY <1>3, <1>4, <1>6, <2>1, ElementOfSeq DEF Here
<1>8. rq.built # <<>> => 1 \in DOMAIN rq.built /\ BuildFits(rq.built[1]) /\ rq.built[1] \in Pendings
  <2> SUFFICES ASSUME rq.built # <<>>
               PROVE  1 \in DOMAIN rq.built /\ BuildFits(rq.built[1]) /\ rq.built[1] \in Pendings
    OBVIOUS
  <2>1. 1 \in 1 .. Len(rq.built)
    BY <1>4, EmptySeq
  <2> QED BY <1>1, <1>4, <1>5, <2>1, ElementOfSeq DEF RequestFits
<1>9. rq.built = <<>> => p = rq.todo[1]
  BY <1>3, NothingBuilt DEF Here
<1>10. Len(rq.todo) > 1 => rq.todo = Chain
  BY <1>2 DEF AtWork
<1>11. p \in OneRepository /\ rq.built # <<>> =>
         rq.todo[1] \in OneRepository /\ RepoOf[rq.todo[1]] = RepoOf[p]
  <2> SUFFICES ASSUME p \in OneRepository, rq.built # <<>>
               PROVE  rq.todo[1] \in OneRepository /\ RepoOf[rq.todo[1]] = RepoOf[p]
    OBVIOUS
  <2>1. rq.todo = Chain
    BY <1>2, <1>10 DEF AtWork
  <2>2. p \in ToSet(Chain)
    BY <1>3, <1>5, <1>6, <2>1 DEF ToSet, Here
  <2> QED BY <2>1, <2>2, OneRepositoryChain
<1> QED BY <1>1, <1>2, <1>3, <1>4, <1>5, <1>6, <1>7, <1>8, <1>9, <1>10, <1>11

(* A request that is at the first of its pipelines has built nothing yet.  *)
LEMMA NothingYet ==
  ASSUME IInv, NEW q \in Requests, NEW rq, rq = requests[q], rq.pc \in {"resolve", "pin"}, ~(At(rq) > 1)
  PROVE  rq.built = <<>>
<1> DEFINE S == {rq.built[i].pipe : i \in DOMAIN rq.built}
<1>1. /\ rq.built \in Seq(Pendings) /\ At(rq) \in 1 .. Len(rq.todo)
      /\ rq.built # <<>> => 1 \in DOMAIN rq.built
  BY WorkFacts
<1>2. IsFiniteSet(S)
  BY <1>1, BuiltFinite
<1>3. At(rq) = 1 + Cardinality(S)
  BY DEF At
<1>4. S = {}
  <2> HIDE DEF S
  <2>1. Cardinality(S) \in Nat
    BY <1>2, FS_CardinalityType
  <2>2. Cardinality(S) = 0
    BY <1>1, <1>3, <2>1
  <2> QED BY <1>2, <2>2, FS_EmptySet
<1>5. ~(1 \in DOMAIN rq.built)
  BY <1>4
<1> QED BY <1>1, <1>5

LEMMA ArtifactsFacts ==
  ASSUME NEW p, NEW c \in Contexts
  PROVE  Artifacts(p, c) \in SUBSET Execs
BY DEF Artifacts, Contexts

LEMMA WaitsFacts ==
  ASSUME Types, NEW i \in 1 .. Len(Chain)
  PROVE  ChainDependencies(i) \in Seq(Pipelines)
<1>1. Chain \in Seq(Pipelines) /\ Len(Chain) \in Nat
  BY ProjectFits, LenProperties DEF Types
<1>2. Chain[i] \in Pipelines
  BY <1>1, ElementOfSeq
<1>3. DependsOn[Chain[i]] \in Seq(Pipelines)
  BY <1>2, Configured
<1>4. i > 1 => <<Chain[i - 1]>> \in Seq(Pipelines)
  <2> SUFFICES ASSUME i > 1 PROVE <<Chain[i - 1]>> \in Seq(Pipelines)
    OBVIOUS
  <2>1. i - 1 \in 1 .. Len(Chain)
    BY <1>1
  <2>2. Chain[i - 1] \in Pipelines
    BY <1>1, <2>1, ElementOfSeq
  <2> QED BY <2>2
<1> QED BY <1>3, <1>4 DEF ChainDependencies

(* The version and the commit that a request has found for a pipeline. *)
FoundFits(rq, p, ctx) ==
  /\ ctx \in Contexts /\ ctx.ref \in 1 .. Tip(RepoOf[p]) /\ KnownVersion(ctx.version)
  /\ p \in Bumping /\ rq.kind \in {"run", "job"} => ctx.version.raw > 0
  /\ ctx.version # NoVersion /\ (ctx.own \/ p \in OneRepository) =>
       commits[RepoOf[p]][ctx.ref] = ctx.version.raw
  /\ rq.built # <<>> /\ rq.built[1].version # NoVersion =>
       /\ ctx.version = rq.built[1].version
       /\ RepoOf[p] = RepoOf[rq.todo[1]] => ctx.ref = rq.built[1].ref
  /\ rq.kind = "offline" =>
       /\ \A i \in DOMAIN rq.todo : RepoOf[rq.todo[i]] = RepoOf[rq.todo[1]]
       /\ rq.built # <<>> =>
            ctx.version = rq.built[1].version /\ ctx.ref = rq.built[1].ref /\ ctx.own = rq.built[1].own

\* What the executions of a pipeline wait for.
WaitsOf(rq) == IF Len(rq.todo) > 1 THEN ChainDependencies(At(rq)) ELSE <<>>

(* The executions n of a pipeline p, with its version and its commit. *)
Offers(rq, p, ctx, n) ==
  \A i \in 1 .. Len(n) :
    /\ n[i].pipe = p /\ n[i].job \in ToSet(JobsOf[p])
    /\ n[i].version = ctx.version /\ n[i].ref = ctx.ref /\ n[i].own = ctx.own
    /\ n[i].bump => p \in Bumping /\ rq.kind \in {"run", "job"}
    /\ n[i].waits = WaitsOf(rq)
    /\ n[i].arts = IF WaitsOf(rq) = <<>> THEN Artifacts(p, rq.dep) ELSE {}

(* What becomes of a request that has found version and commit. *)
Built(rq, ctx, n, s) ==
  /\ s.built = rq.built \o n
  /\ s.pc = IF At(rq) = Len(rq.todo) THEN "create" ELSE "resolve"
  /\ s.kind = rq.kind /\ s.todo = rq.todo /\ s.job = rq.job /\ s.clone = rq.clone
  /\ s.dep = [NoContext EXCEPT !.version = s.built[1].version, !.repo = RepoOf[rq.todo[1]],
                               !.ref = s.built[1].ref]
  /\ s.ctx = IF rq.kind = "offline" THEN ctx ELSE NoContext

LEMMA BuildShape ==
  ASSUME IInv, NEW q \in Requests, NEW rq, rq = requests[q], rq.pc \in {"resolve", "pin"},
         NEW p, p = Current(q), NEW ctx \in Contexts, Build(q, ctx)
  PROVE  \/ Ends(q)
         \/ \E n \in Seq(Pendings), s \in RequestStates :
              /\ n # <<>> /\ Offers(rq, p, ctx, n)
              /\ IsBuilt(rq.built, n, s.built) /\ Built(rq, ctx, n, s)
              /\ requests' = [requests EXCEPT ![q] = s]
<1> DEFINE waits == IF Len(rq.todo) > 1 THEN ChainDependencies(Position(q)) ELSE <<>>
           bump == p \in Bumping /\ rq.kind \in {"run", "job"}
           jobs == Selected(q, p)
           new == [i \in DOMAIN jobs |-> Pending(p, jobs[i], ctx, rq.dep, bump, waits)]
           built == rq.built \o new
           first == [NoContext EXCEPT !.version = built[1].version, !.repo = RepoOf[rq.todo[1]],
                                      !.ref = built[1].ref]
           left == IF rq.kind = "offline" THEN ctx ELSE NoContext
           pc == IF Position(q) = Len(rq.todo) THEN "create" ELSE "resolve"
           s == [rq EXCEPT !.pc = pc, !.built = built, !.dep = first, !.ctx = left]
<1>1. Ends(q) \/ requests' = [requests EXCEPT ![q] = s]
  BY ZenonT(60) DEF Build
<1>2. Types
  BY DEF IInv
<1>3. /\ rq \in RequestStates /\ RequestFits(rq) /\ AtWork(rq) /\ p = Here(rq) /\ p \in Pipelines
      /\ rq.built \in Seq(Pendings) /\ DOMAIN rq.built = 1 .. Len(rq.built)
      /\ Position(q) = At(rq) /\ At(rq) \in 1 .. Len(rq.todo) /\ rq.todo[1] \in Pipelines
      /\ rq.built # <<>> => rq.built[1] \in Pendings
      /\ Len(rq.todo) > 1 => rq.todo = Chain
  BY WorkFacts
<1>4. jobs \in Seq(Jobs) /\ jobs # <<>> /\ \A i \in DOMAIN jobs : jobs[i] \in ToSet(JobsOf[p])
  <2>1. JobsOf[p] \in Seq(Jobs) /\ JobsOf[p] # <<>>
    BY <1>2, <1>3, ProjectFits DEF Types
  <2>2. CASE rq.kind = "job"
    <3>1. Len(rq.todo) = 1 /\ rq.job \in ToSet(JobsOf[rq.todo[1]])
      BY <1>3, <2>2 DEF AtWork
    <3>2. p = rq.todo[1]
      BY <1>3, <3>1 DEF Here
    <3>3. jobs = <<rq.job>>
      BY <2>2 DEF Selected
    <3>4. rq.job \in Jobs
      BY <2>1, <3>1, <3>2, LenProperties, ElementOfSeq DEF ToSet
    <3> HIDE DEF jobs
    <3> QED BY <3>1, <3>2, <3>3, <3>4
  <2>3. CASE rq.kind # "job"
    <3>1. jobs = JobsOf[p]
      BY <2>3 DEF Selected
    <3> HIDE DEF jobs
    <3> QED BY <2>1, <3>1 DEF ToSet
  <2> QED BY <2>2, <2>3
<1>5. waits \in Seq(Pipelines) /\ waits = WaitsOf(rq)
  <2>1. <<>> \in Seq(Pipelines)
    OBVIOUS
  <2>2. Len(rq.todo) > 1 => ChainDependencies(Position(q)) \in Seq(Pipelines)
    BY <1>2, <1>3, WaitsFacts
  <2> QED BY <1>3, <2>1, <2>2 DEF WaitsOf
<1>6. bump \in BOOLEAN /\ (bump => p \in Bumping /\ rq.kind \in {"run", "job"})
  OBVIOUS
<1>7. DOMAIN jobs = 1 .. Len(jobs) /\ Len(jobs) \in Nat /\ Len(jobs) # 0
  <2> HIDE DEF jobs
  <2> QED BY <1>4, EmptySeq, LenProperties
<1> HIDE DEF jobs, waits, bump
<1>8. ASSUME NEW i \in DOMAIN jobs
      PROVE  /\ new[i] \in Pendings /\ new[i].pipe = p /\ new[i].job \in ToSet(JobsOf[p])
             /\ new[i].version = ctx.version /\ new[i].ref = ctx.ref /\ new[i].own = ctx.own
             /\ new[i].bump = bump /\ new[i].waits = waits
             /\ new[i].arts = IF waits = <<>> THEN Artifacts(p, rq.dep) ELSE {}
  <2> DEFINE arts == IF waits = <<>> THEN Artifacts(p, rq.dep) ELSE {}
             b == [pipe |-> p, job |-> jobs[i], version |-> ctx.version, ref |-> ctx.ref, own |-> ctx.own,
                   bump |-> bump, arts |-> arts, waits |-> waits]
  <2>1. new[i] = b
    BY DEF Pending
  <2>2. rq.dep \in Contexts
    BY <1>3 DEF RequestStates
  <2>3. arts \in SUBSET Execs
    BY <2>2, ArtifactsFacts
  <2> HIDE DEF arts
  <2>4. jobs[i] \in Jobs /\ jobs[i] \in ToSet(JobsOf[p])
    BY <1>4, <1>7, ElementOfSeq
  <2>5. b \in Pendings
    BY <1>3, <1>5, <1>6, <2>3, <2>4 DEF Pendings, Contexts
  <2>6. b.arts = IF waits = <<>> THEN Artifacts(p, rq.dep) ELSE {}
    BY DEF arts
  <2> HIDE DEF new
  <2> QED BY <2>1, <2>4, <2>5, <2>6
<1>9. /\ new \in Seq(Pendings) /\ new # <<>> /\ Len(new) = Len(jobs)
  <2>1. DOMAIN new = 1 .. Len(jobs)
    BY <1>7
  <2> HIDE DEF new
  <2>2. new \in [1 .. Len(jobs) -> Pendings]
    <3>1. new = [i \in 1 .. Len(jobs) |-> new[i]]
      BY <1>7 DEF new
    <3> QED BY <1>7, <1>8, <3>1
  <2>3. new \in Seq(Pendings)
    BY <1>7, <2>2, SeqDef
  <2>4. Len(new) = Len(jobs)
    BY <1>7, <2>1, <2>3, LenProperties
  <2> QED BY <1>7, <2>3, <2>4, EmptySeq
<1> HIDE DEF new
<1>10. Offers(rq, p, ctx, new)
  <2>1. \A i \in 1 .. Len(new) : i \in DOMAIN jobs
    BY <1>7, <1>9
  <2> QED BY <1>5, <1>6, <1>8, <2>1 DEF Offers
<1>11. IsBuilt(rq.built, new, built) /\ built \in Seq(Pendings) /\ built[1] \in Pendings
  <2>1. rq.built \in Seq(Pendings) /\ new \in Seq(Pendings) /\ new # <<>>
    BY <1>3, <1>9
  <2>2. IsBuilt(rq.built, new, built)
    BY <2>1, BuiltFacts, Zenon
  <2> HIDE DEF built, first, s
  <2>3. built \in Seq(Pendings) /\ built # <<>>
    BY <2>2 DEF IsBuilt
  <2>4. Len(built) \in Nat /\ Len(built) # 0
    BY <2>3, EmptySeq, LenProperties
  <2> QED BY <2>2, <2>3, <2>4, ElementOfSeq
<1>12. built = rq.built \o new
  OBVIOUS
<1> HIDE DEF built
<1>13. first \in Contexts
  <2> DEFINE v == built[1].version
             n == built[1].ref
             r == RepoOf[rq.todo[1]]
  <2>1. v \in Versions /\ n \in Nat /\ r \in Repos
    BY <1>3, <1>11, Configured DEF Pendings
  <2> HIDE DEF v, n, r
  <2>2. first = [NoContext EXCEPT !.version = v, !.repo = r, !.ref = n]
    BY DEF v, n, r
  <2> HIDE DEF first
  <2> QED BY <2>1, <2>2 DEF Contexts, NoContext
<1>14. left \in Contexts
  BY BlankContext
<1>15. pc \in {"create", "resolve"}
  OBVIOUS
<1>16. first = [NoContext EXCEPT !.version = built[1].version, !.repo = RepoOf[rq.todo[1]], !.ref = built[1].ref]
  OBVIOUS
<1>17. /\ pc = (IF At(rq) = Len(rq.todo) THEN "create" ELSE "resolve")
       /\ left = IF rq.kind = "offline" THEN ctx ELSE NoContext
  BY <1>3
<1> HIDE DEF first, left, pc
<1>18. /\ s \in RequestStates /\ s.pc = pc /\ s.built = built /\ s.dep = first /\ s.ctx = left
       /\ s.kind = rq.kind /\ s.todo = rq.todo /\ s.job = rq.job /\ s.clone = rq.clone
  BY <1>3, <1>11, <1>13, <1>14, <1>15 DEF RequestStates
<1> HIDE DEF s
<1>19. Built(rq, ctx, new, s)
  BY <1>12, <1>16, <1>17, <1>18 DEF Built
<1>20. IsBuilt(rq.built, new, s.built)
  BY <1>11, <1>18
<1> QED BY <1>1, <1>9, <1>10, <1>18, <1>19, <1>20

(* Whatever the version and the commit come from, what is built fits.      *)
LEMMA BuildStep ==
  ASSUME IInv, NEW q \in Requests, NEW rq, rq = requests[q], rq.pc \in {"resolve", "pin"},
         NEW p, p = Current(q), NEW ctx, FoundFits(rq, p, ctx), Build(q, ctx),
         UNCHANGED <<project, commits, bumps, execs>>
  PROVE  IInv'
<1>1. ctx \in Contexts
  BY DEF FoundFits
<1> SUFFICES ASSUME ~Ends(q) PROVE IInv'
  BY EndsKeeps
<1>2. PICK n \in Seq(Pendings), s \in RequestStates :
        /\ n # <<>> /\ Offers(rq, p, ctx, n)
        /\ IsBuilt(rq.built, n, s.built) /\ Built(rq, ctx, n, s)
        /\ requests' = [requests EXCEPT ![q] = s]
  BY <1>1, BuildShape
<1>3. /\ rq \in RequestStates /\ RequestFits(rq) /\ AtWork(rq) /\ p = Here(rq) /\ p \in Pipelines
      /\ rq.built \in Seq(Pendings) /\ DOMAIN rq.built = 1 .. Len(rq.built)
      /\ rq.todo \in Seq(Pipelines) /\ DOMAIN rq.todo = 1 .. Len(rq.todo) /\ Len(rq.todo) \in Nat
      /\ Position(q) = At(rq) /\ At(rq) \in 1 .. Len(rq.todo) /\ rq.todo[1] \in Pipelines
      /\ rq.built # <<>> => 1 \in DOMAIN rq.built /\ BuildFits(rq.built[1]) /\ rq.built[1] \in Pendings
      /\ rq.built = <<>> => p = rq.todo[1]
      /\ Len(rq.todo) > 1 => rq.todo = Chain
  BY WorkFacts
<1>4. Len(n) \in Nat /\ Len(n) # 0 /\ 1 \in 1 .. Len(n)
  BY <1>2, EmptySeq, LenProperties
<1>5. ASSUME NEW j \in 1 .. Len(n)
      PROVE  /\ n[j] \in Pendings /\ BuildFits(n[j]) /\ n[j].pipe = p
             /\ n[j].version = ctx.version /\ n[j].ref = ctx.ref /\ n[j].own = ctx.own
  <2>1. n[j] \in Pendings
    BY <1>2, ElementOfSeq
  <2>2. /\ n[j].pipe = p /\ n[j].job \in ToSet(JobsOf[p])
        /\ n[j].version = ctx.version /\ n[j].ref = ctx.ref /\ n[j].own = ctx.own
        /\ n[j].bump => p \in Bumping /\ rq.kind \in {"run", "job"}
    BY <1>2 DEF Offers
  <2>3. BuildFits(n[j])
    BY <2>2 DEF BuildFits, OfItsSource, FoundFits
  <2> QED BY <2>1, <2>2, <2>3
<1> DEFINE built == s.built
           B == {rq.built[i].pipe : i \in DOMAIN rq.built}
           C == {built[i].pipe : i \in DOMAIN built}
<1>6. /\ built \in Seq(Pendings) /\ built # <<>> /\ DOMAIN built = 1 .. Len(built)
      /\ built[1] = IF rq.built = <<>> THEN n[1] ELSE rq.built[1]
      /\ \A i \in DOMAIN built : \/ i \in DOMAIN rq.built /\ built[i] = rq.built[i]
                                 \/ \E j \in 1 .. Len(n) : built[i] = n[j]
  BY <1>2 DEF IsBuilt
<1> HIDE DEF built
<1>7. Cardinality(B) \in Nat /\ Cardinality(C) \in Nat /\ Cardinality(C) <= Cardinality(B) + 1
  <2>1. IsFiniteSet(B)
    BY <1>3, BuiltFinite
  <2>2. C \subseteq B \cup {p}
    BY <1>5, <1>6
  <2> HIDE DEF B, C
  <2> QED BY <2>1, <2>2, OneMore
<1>8. /\ built[1].pipe = rq.todo[1] /\ built[1] \in Pendings /\ BuildFits(built[1])
      /\ rq.kind = "offline" => /\ built[1].version = ctx.version /\ built[1].ref = ctx.ref
                                /\ built[1].own = ctx.own
  <2>1. CASE rq.built = <<>>
    <3>1. built[1] = n[1] /\ p = rq.todo[1]
      BY <1>3, <1>6, <2>1
    <3> QED BY <1>4, <1>5, <3>1
  <2>2. CASE rq.built # <<>>
    <3>1. built[1] = rq.built[1]
      BY <1>6, <2>2
    <3>2. rq.built[1].pipe = rq.todo[1]
      BY <1>3, <2>2 DEF AtWork
    <3> QED BY <1>3, <2>2, <3>1, <3>2 DEF FoundFits
  <2> QED BY <2>1, <2>2
<1>9. ASSUME NEW i \in DOMAIN built PROVE BuildFits(built[i]) /\ Agrees(built[i], built[1])
  <2>1. CASE i \in DOMAIN rq.built /\ built[i] = rq.built[i]
    <3>1. rq.built # <<>>
      BY <2>1
    <3>2. BuildFits(rq.built[i]) /\ Agrees(rq.built[i], rq.built[1])
      BY <1>3, <2>1 DEF RequestFits
    <3> QED BY <1>6, <2>1, <3>1, <3>2
  <2>2. CASE \E j \in 1 .. Len(n) : built[i] = n[j]
    <3>1. PICK j \in 1 .. Len(n) : built[i] = n[j]
      BY <2>2
    <3>2. /\ BuildFits(built[i]) /\ built[i].pipe = p
          /\ built[i].version = ctx.version /\ built[i].ref = ctx.ref
      BY <1>5, <3>1
    <3>3. CASE rq.built = <<>>
      <4>1. built[1].pipe = p /\ built[1].version = ctx.version /\ built[1].ref = ctx.ref
        BY <1>4, <1>5, <1>6, <3>3
      <4> QED BY <3>2, <4>1 DEF Agrees
    <3>4. CASE rq.built # <<>>
      <4>1. built[1] = rq.built[1]
        BY <1>6, <3>4
      <4> QED BY <1>8, <3>2, <3>4, <4>1 DEF Agrees, FoundFits
    <3> QED BY <3>3, <3>4
  <2> QED BY <1>6, <2>1, <2>2
<1>10. /\ s.dep.ok /\ ContextFits(s.dep)
       /\ s.dep.version = built[1].version /\ s.dep.repo = RepoOf[rq.todo[1]] /\ s.dep.ref = built[1].ref
  <2> DEFINE v == built[1].version
             m == built[1].ref
             r == RepoOf[rq.todo[1]]
  <2>1. v \in Versions /\ m \in Nat /\ r \in Repos /\ m \in 1 .. Tip(r) /\ KnownVersion(v)
    BY <1>3, <1>8, Configured DEF Pendings, BuildFits
  <2> HIDE DEF v, m, r
  <2>2. s.dep = [NoContext EXCEPT !.version = v, !.repo = r, !.ref = m]
    BY <1>2 DEF Built, built, v, m, r
  <2>3. s.dep.ok /\ s.dep.version = v /\ s.dep.repo = r /\ s.dep.ref = m
    BY <2>2 DEF NoContext
  <2>4. ContextFits(s.dep)
    BY <2>1, <2>3 DEF ContextFits
  <2> QED BY <2>3, <2>4 DEF v, m, r
<1>11. /\ s.pc = IF At(rq) = Len(rq.todo) THEN "create" ELSE "resolve"
       /\ s.built = built /\ s.kind = rq.kind /\ s.todo = rq.todo /\ s.job = rq.job /\ s.clone = rq.clone
       /\ s.ctx = IF rq.kind = "offline" THEN ctx ELSE NoContext
  BY <1>2 DEF Built, built
<1>12. rq.clone = 0 /\ (rq.kind = "job" => Len(rq.todo) = 1 /\ rq.job \in ToSet(JobsOf[rq.todo[1]]))
  BY <1>3 DEF AtWork
<1>13. s.pc = "resolve" => AtWork(s)
  <2> SUFFICES ASSUME s.pc = "resolve" PROVE AtWork(s)
    OBVIOUS
  <2>1. At(s) = 1 + Cardinality(C) /\ At(rq) = 1 + Cardinality(B)
    BY <1>11 DEF At
  <2> HIDE DEF B, C
  <2>2. At(rq) \in 1 .. Len(rq.todo) /\ At(rq) # Len(rq.todo)
    BY <1>3, <1>11
  <2>3. At(s) \in 1 .. Len(rq.todo) /\ Len(rq.todo) > 1
    BY SMTT(30), <1>3, <1>7, <2>1, <2>2
  <2> QED BY SMTT(30), <1>3, <1>6, <1>8, <1>10, <1>11, <1>12, <2>3 DEF AtWork
<1>14. FromCache(s)
  BY <1>8, <1>11 DEF FromCache, FoundFits
<1>15. AtPin(s) /\ ToCreate(s)
  BY <1>6, <1>11, <1>12 DEF AtPin, ToCreate
<1>16. RequestFits(s)
  <2>1. s.pc \in {"resolve", "pin"} => s.pc = "resolve"
    BY <1>11
  <2> QED BY <1>9, <1>10, <1>11, <1>13, <1>14, <1>15, <2>1 DEF RequestFits
<1>17. s \in FittingRequests
  BY <1>16 DEF FittingRequests
<1> QED BY <1>2, <1>17, RequestStep
-----------------------------------------------------------------------------
(* Every execution builds a commit of its repository. *)
LEMMA ExecsFit ==
  ASSUME IInv
  PROVE  Types /\ \A e \in Execs : BuildFits(execs[e])
BY DEF IInv, FittingBuilds

LEMMA BeginStep ==
  ASSUME IInv, NEW q \in Requests, NEW kind \in AllKinds, NEW todo \in Seq(Pipelines), todo # <<>>,
         Len(todo) > 1 => todo = Chain, NEW job \in Jobs \cup {"none"},
         kind = "job" => Len(todo) = 1 /\ job \in ToSet(JobsOf[todo[1]]),
         Begin(q, kind, todo, job)
  PROVE  IInv'
<1> DEFINE dep == CheckDependencies(todo[1])
           s == [Idle EXCEPT !.pc = "resolve", !.kind = kind, !.todo = todo, !.job = job, !.dep = dep]
<1>1. /\ dep.ok
      /\ requests' = [requests EXCEPT ![q] = s]
      /\ UNCHANGED <<project, commits, bumps, execs>>
  BY DEF Begin
<1>2. Len(todo) \in Nat /\ DOMAIN todo = 1 .. Len(todo) /\ 1 \in DOMAIN todo /\ todo[1] \in Pipelines
  <2>1. Len(todo) \in Nat /\ DOMAIN todo = 1 .. Len(todo) /\ Len(todo) # 0
    BY EmptySeq, LenProperties
  <2>2. 1 \in 1 .. Len(todo)
    BY <2>1
  <2> QED BY <2>1, <2>2, ElementOfSeq
<1>3. /\ dep \in Contexts /\ ContextFits(dep)
      /\ todo[1] \in OneRepository => ContextFitsIn(RepoOf[todo[1]], dep)
  <2> HIDE DEF dep
  <2> QED BY <1>1, <1>2, ExecsFit, CheckFacts DEF dep
<1> HIDE DEF dep
<1>4. Idle \in RequestStates /\ Idle.built = <<>> /\ Idle.clone = 0
  BY IdleFits DEF FittingRequests, Idle
<1>5. /\ s \in RequestStates /\ s.pc = "resolve" /\ s.kind = kind /\ s.todo = todo /\ s.job = job
      /\ s.dep = dep /\ s.built = <<>> /\ s.clone = 0
  BY <1>3, <1>4 DEF RequestStates
<1> HIDE DEF s
<1>6. AtWork(s)
  <2>1. At(s) = 1
    BY <1>5, NothingBuilt
  <2> QED BY <1>2, <1>3, <1>5, <2>1 DEF AtWork
<1>7. RequestFits(s)
  <2>1. DOMAIN s.built = {}
    BY <1>5
  <2> QED BY <1>1, <1>5, <1>6, <2>1 DEF RequestFits, FromCache, AtPin, ToCreate
<1>8. s \in FittingRequests
  BY <1>5, <1>7 DEF FittingRequests
<1> QED BY <1>1, <1>8, RequestStep

LEMMA RunStep ==
  ASSUME IInv, NEW q \in Requests
  PROVE  /\ \A p \in Alone : RunPipeline(q, p) \/ RunJob(q, p) => IInv'
         /\ RunChain(q) => IInv'
<1>1. Types /\ \A p \in Pipelines : JobsOf[p] \in Seq(Jobs)
  BY ExecsFit, ProjectFits DEF Types
<1>2. Chain \in Seq(Pipelines) /\ Chain # <<>> /\ "none" \in Jobs \cup {"none"}
  BY <1>1, ProjectFits DEF Types
<1>3. ASSUME NEW p \in Alone, RunPipeline(q, p) \/ RunJob(q, p) PROVE IInv'
  <2>1. p \in Pipelines /\ <<p>> \in Seq(Pipelines) /\ <<p>> # <<>> /\ Len(<<p>>) = 1 /\ <<p>>[1] = p
    <3>1. p \in Pipelines
      BY PipelinesAssumption
    <3> QED BY <3>1
  <2>2. ASSUME RunPipeline(q, p) PROVE IInv'
    <3>1. PICK kind \in {"run", "dry", "offline"} : Begin(q, kind, <<p>>, "none")
      BY <2>2 DEF RunPipeline
    <3>2. kind \in AllKinds /\ kind # "job"
      BY DEF AllKinds
    <3>3. ~(Len(<<p>>) > 1)
      BY <2>1
    <3> DEFINE todo == <<p>>
    <3>4. todo \in Seq(Pipelines) /\ todo # <<>> /\ Begin(q, kind, todo, "none") /\ ~(Len(todo) > 1)
      BY <2>1, <3>1, <3>3
    <3> HIDE DEF todo
    <3> QED BY <1>2, <3>2, <3>4, BeginStep
  <2>3. ASSUME RunJob(q, p) PROVE IInv'
    <3>1. PICK j \in ToSet(JobsOf[p]) : Begin(q, "job", <<p>>, j)
      BY <2>3 DEF RunJob
    <3>2. j \in Jobs
      <4>1. JobsOf[p] \in Seq(Jobs)
        BY <1>1, <2>1
      <4> QED BY <4>1, LenProperties, ElementOfSeq DEF ToSet
    <3>3. "job" \in AllKinds
      BY DEF AllKinds
    <3> DEFINE todo == <<p>>
               kind == "job"
    <3>4. /\ todo \in Seq(Pipelines) /\ todo # <<>> /\ Begin(q, kind, todo, j) /\ ~(Len(todo) > 1)
          /\ Len(todo) = 1 /\ j \in ToSet(JobsOf[todo[1]]) /\ kind \in AllKinds
      BY <2>1, <3>1, <3>3
    <3> HIDE DEF todo, kind
    <3> QED BY <3>2, <3>4, BeginStep
  <2> QED BY <1>3, <2>2, <2>3
<1>4. ASSUME RunChain(q) PROVE IInv'
  <2>1. PICK kind \in {"run", "offline"} : Begin(q, kind, Chain, "none")
    BY <1>4 DEF RunChain
  <2>2. kind \in AllKinds /\ kind # "job"
    BY DEF AllKinds
  <2> DEFINE todo == Chain
  <2>3. todo \in Seq(Pipelines) /\ todo # <<>> /\ Begin(q, kind, todo, "none") /\ (Len(todo) > 1 => todo = Chain)
    BY <1>2, <2>1
  <2>4. todo = Chain
    OBVIOUS
  <2> HIDE DEF todo
  <2> QED BY <1>2, <2>2, <2>3, BeginStep
<1> QED BY <1>3, <1>4
-----------------------------------------------------------------------------
(* A request that has to look up the head of the branch. *)
LEMMA PinLater ==
  ASSUME IInv, NEW q \in Requests, NEW rq, rq = requests[q], rq.pc = "resolve", rq.kind # "offline",
         NEW p, p = Current(q), NEW ctx \in Contexts,
         KnownVersion(ctx.version),
         p \in Bumping => ctx.version.raw > 0,
         ctx.version # NoVersion => ~ctx.own /\ p \notin OneRepository,
         rq.built # <<>> /\ rq.built[1].version # NoVersion =>
           ctx.version = rq.built[1].version /\ RepoOf[p] # RepoOf[rq.todo[1]],
         requests' = [requests EXCEPT ![q] = [rq EXCEPT !.pc = "pin", !.ctx = ctx]],
         UNCHANGED <<project, commits, bumps, execs>>
  PROVE  IInv'
<1> DEFINE s == [rq EXCEPT !.pc = "pin", !.ctx = ctx]
<1>1. rq \in RequestStates /\ RequestFits(rq) /\ AtWork(rq) /\ p = Here(rq)
  BY WorkFacts
<1>2. /\ s \in RequestStates /\ s.pc = "pin" /\ s.ctx = ctx /\ s.kind = rq.kind /\ s.todo = rq.todo
      /\ s.job = rq.job /\ s.dep = rq.dep /\ s.built = rq.built /\ s.clone = rq.clone
  BY <1>1 DEF RequestStates
<1> HIDE DEF s
<1>3. At(s) = At(rq)
  BY <1>2 DEF At
<1>4. Here(s) = p
  BY <1>1, <1>2, <1>3 DEF Here
<1>5. AtWork(s)
  BY <1>1, <1>2, <1>3 DEF AtWork
<1>6. FromCache(s) /\ AtPin(s) /\ ToCreate(s)
  BY <1>2, <1>4 DEF FromCache, AtPin, ToCreate
<1>7. RequestFits(s)
  BY <1>1, <1>2, <1>5, <1>6 DEF RequestFits
<1>8. s \in FittingRequests
  BY <1>2, <1>7 DEF FittingRequests
<1> QED BY <1>8, RequestStep DEF s

(* The head of a branch, and the context of a commit. *)
LEMMA TipFacts ==
  ASSUME Types, NEW r \in Repos
  PROVE  Tip(r) \in Nat \ {0} /\ Tip(r) \in 1 .. Tip(r) /\ commits[r][Tip(r)] \in Nat
<1>1. commits[r] \in Seq(Nat) /\ Tip(r) \in 1 .. MaxCommits[r] /\ MaxCommits[r] \in Nat
  BY PipelinesAssumption DEF Types
<1>2. Tip(r) \in 1 .. Tip(r)
  BY <1>1
<1> QED BY <1>1, <1>2, ElementOfSeq DEF Tip

ContextOf(version, ref, own) == [NoContext EXCEPT !.version = version, !.ref = ref, !.own = own]

LEMMA ContextOfFacts ==
  \A v \in Versions, n \in Nat, o \in BOOLEAN :
    /\ ContextOf(v, n, o) \in Contexts /\ ContextOf(v, n, o).version = v
    /\ ContextOf(v, n, o).ref = n /\ ContextOf(v, n, o).own = o
<1> SUFFICES ASSUME NEW v \in Versions, NEW n \in Nat, NEW o \in BOOLEAN
             PROVE  /\ ContextOf(v, n, o) \in Contexts /\ ContextOf(v, n, o).version = v
                    /\ ContextOf(v, n, o).ref = n /\ ContextOf(v, n, o).own = o
  OBVIOUS
<1> QED BY BlankContext DEF Contexts, NoContext, ContextOf

(* Inherited, read from the head of the branch, or still to be looked up.  *)
LEMMA ResolveStep ==
  ASSUME IInv, NEW q \in Requests, Resolve(q), NEW rq, rq = requests[q], NEW p, p = Current(q)
  PROVE  IInv'
<1> DEFINE dep == rq.dep
           r == RepoOf[p]
           raw == commits[r][Tip(r)]
           Later(ctx) == requests' = [requests EXCEPT ![q] = [rq EXCEPT !.pc = "pin", !.ctx = ctx]]
           inherited == dep.version # NoVersion \/ p \notin Versioned
           ref == PinnedRef(p, dep)
<1>1. rq.pc = "resolve" /\ rq.kind # "offline" /\ UNCHANGED <<project, commits, bumps, execs>>
  BY DEF Resolve
<1>2. /\ inherited /\ ref # 0 => Build(q, ContextOf(dep.version, ref, FALSE))
      /\ inherited /\ ref = 0 => Later(ContextOf(dep.version, 0, FALSE))
      /\ ~inherited /\ raw # 0 /\ Tip(r) # 0 =>
           Build(q, ContextOf([raw |-> raw, tag |-> TagPrefix[p]], Tip(r), TRUE))
      /\ ~inherited /\ raw = 0 => Ends(q) \/ (p \notin Bumping /\ Later(ContextOf(NoVersion, 0, TRUE)))
  BY DEF Resolve, ContextOf
<1>3. Types
  BY ExecsFit
<1>4. /\ rq \in RequestStates /\ RequestFits(rq) /\ AtWork(rq) /\ p \in Pipelines /\ rq.todo[1] \in Pipelines
      /\ rq.built # <<>> => 1 \in DOMAIN rq.built /\ BuildFits(rq.built[1]) /\ rq.built[1] \in Pendings
      /\ rq.built = <<>> => p = rq.todo[1]
      /\ p \in OneRepository /\ rq.built # <<>> =>
           rq.todo[1] \in OneRepository /\ RepoOf[rq.todo[1]] = RepoOf[p]
  <2>1. rq.pc \in {"resolve", "pin"}
    BY <1>1
  <2> QED BY <2>1, WorkFacts
<1>5. r \in Repos /\ dep \in Contexts /\ dep.version \in Versions /\ dep.ref \in Nat
  BY <1>4, Configured DEF RequestStates, Contexts
<1>6. ContextFits(dep) /\ KnownVersion(dep.version)
  BY <1>4 DEF AtWork, ContextFits
<1>7. Tip(r) \in Nat \ {0} /\ Tip(r) \in 1 .. Tip(r) /\ raw \in Nat
  BY <1>3, <1>5, TipFacts
<1>8. ASSUME rq.built # <<>>
      PROVE  /\ dep.version = rq.built[1].version /\ dep.ref = rq.built[1].ref /\ dep.repo = RepoOf[rq.todo[1]]
             /\ rq.built[1].pipe = rq.todo[1] /\ rq.built[1].ref # 0
             /\ OfItsSource(rq.built[1])
  BY <1>4, <1>8 DEF AtWork, BuildFits
(* Pinned by what a pipeline of this repository comes from. *)
<1>9. ASSUME ref # 0 PROVE dep.repo = r /\ ref = dep.ref /\ ref \in 1 .. Tip(r)
  <2>1. dep.repo = r /\ ref = dep.ref
    BY <1>9 DEF PinnedRef
  <2> QED BY <1>6, <1>9, <2>1 DEF ContextFits
<1>10. ASSUME p \in OneRepository, dep.version # NoVersion PROVE ref # 0 /\ commits[r][ref] = dep.version.raw
  <2>1. CASE rq.built = <<>>
    <3>1. ContextFitsIn(r, dep)
      BY <1>4, <1>10, <2>1 DEF AtWork
    <3> QED BY <1>10, <3>1 DEF ContextFitsIn, PinnedRef
  <2>2. CASE rq.built # <<>>
    <3>1. dep.repo = r /\ ref = rq.built[1].ref
      BY <1>4, <1>8, <1>10, <2>2 DEF PinnedRef
    <3>2. commits[r][ref] = dep.version.raw
      BY <1>4, <1>8, <1>10, <2>2, <3>1 DEF OfItsSource
    <3> QED BY <1>8, <2>2, <3>1, <3>2
  <2> QED BY <2>1, <2>2
<1> HIDE DEF r, raw, ref
<1>11. CASE inherited /\ ref # 0
  <2> DEFINE ctx == ContextOf(dep.version, ref, FALSE)
  <2>1. ctx \in Contexts /\ ctx.version = dep.version /\ ctx.ref = ref /\ ~ctx.own
    <3>1. ref \in Nat /\ FALSE \in BOOLEAN
      BY <1>7, <1>9, <1>11
    <3> HIDE DEF inherited, dep
    <3> QED BY <1>5, <3>1, ContextOfFacts
  <2>2. Build(q, ctx)
    BY <1>2, <1>11
  <2> HIDE DEF ctx
  <2>3. p \in Bumping => dep.version.raw > 0
    BY <1>6, <1>11, Configured DEF KnownVersion
  <2>4. rq.built # <<>> => ctx.version = rq.built[1].version /\ ctx.ref = rq.built[1].ref
    BY <1>8, <1>9, <1>11, <2>1
  <2>5. ctx.ref \in 1 .. Tip(RepoOf[p]) /\ (ctx.version # NoVersion /\ p \in OneRepository =>
                                              commits[RepoOf[p]][ctx.ref] = ctx.version.raw)
    BY <1>9, <1>10, <1>11, <2>1 DEF r
  <2>6. FoundFits(rq, p, ctx)
    BY <1>1, <1>6, <2>1, <2>3, <2>4, <2>5 DEF FoundFits
  <2> QED BY <1>1, <2>2, <2>6, BuildStep
<1>12. CASE inherited /\ ref = 0
  <2> DEFINE ctx == ContextOf(dep.version, 0, FALSE)
  <2>1. ctx \in Contexts /\ ctx.version = dep.version /\ ~ctx.own
    BY ZenonT(60), <1>5, ContextOfFacts
  <2>2. Later(ctx)
    BY <1>2, <1>12
  <2> HIDE DEF ctx
  <2>3. p \in Bumping => ctx.version.raw > 0
    BY <1>6, <1>12, <2>1, Configured DEF KnownVersion
  <2>4. ctx.version # NoVersion => ~ctx.own /\ p \notin OneRepository
    BY <1>10, <1>12, <2>1
  <2>5. rq.built # <<>> /\ rq.built[1].version # NoVersion =>
          ctx.version = rq.built[1].version /\ RepoOf[p] # RepoOf[rq.todo[1]]
    BY <1>8, <1>12, <2>1 DEF ref, PinnedRef
  <2> QED BY <1>1, <1>6, <2>1, <2>2, <2>3, <2>4, <2>5, PinLater
<1>13. CASE ~inherited /\ raw # 0
  <2> DEFINE v == [raw |-> raw, tag |-> TagPrefix[p]]
             ctx == ContextOf(v, Tip(r), TRUE)
  <2>1. v \in Versions /\ v.raw = raw
    BY <1>4, <1>7 DEF Versions, Tags
  <2>2. Build(q, ctx)
    BY <1>2, <1>7, <1>13
  <2> HIDE DEF v
  <2>3. ctx \in Contexts /\ ctx.version = v /\ ctx.ref = Tip(r)
    BY <1>7, <2>1, ContextOfFacts
  <2> HIDE DEF ctx
  <2>4. ctx.version.raw > 0 /\ KnownVersion(ctx.version)
    BY <1>7, <1>13, <2>1, <2>3 DEF KnownVersion
  <2>5. ctx.ref \in 1 .. Tip(RepoOf[p]) /\ commits[RepoOf[p]][ctx.ref] = ctx.version.raw
    BY <1>7, <2>1, <2>3 DEF r, raw
  <2>6. rq.built # <<>> => rq.built[1].version = NoVersion
    BY <1>8, <1>13
  <2>7. FoundFits(rq, p, ctx)
    BY <1>1, <2>3, <2>4, <2>5, <2>6 DEF FoundFits
  <2> QED BY <1>1, <2>2, <2>7, BuildStep
<1>14. CASE ~inherited /\ raw = 0
  <2>1. CASE Ends(q)
    BY <1>1, <2>1, EndsKeeps
  <2>2. CASE p \notin Bumping /\ Later(ContextOf(NoVersion, 0, TRUE))
    <3> DEFINE ctx == ContextOf(NoVersion, 0, TRUE)
    <3>1. ctx \in Contexts /\ ctx.version = NoVersion
      <4>1. NoVersion \in Versions /\ 0 \in Nat /\ TRUE \in BOOLEAN
        BY NoVersionKnown
      <4> HIDE DEF NoVersion
      <4> QED BY <4>1, ContextOfFacts
    <3>2. Later(ctx)
      BY <2>2
    <3> HIDE DEF ctx
    <3>3. /\ KnownVersion(ctx.version) /\ (p \in Bumping => ctx.version.raw > 0)
          /\ ctx.version # NoVersion => ~ctx.own /\ p \notin OneRepository
      BY <2>2, <3>1, NoVersionKnown
    <3>4. rq.built # <<>> /\ rq.built[1].version # NoVersion =>
            ctx.version = rq.built[1].version /\ RepoOf[p] # RepoOf[rq.todo[1]]
      BY <1>8, <1>14
    <3> QED BY <1>1, <3>1, <3>2, <3>3, <3>4, PinLater
  <2> QED BY <1>2, <1>14, <2>1, <2>2
<1> QED BY <1>11, <1>12, <1>13, <1>14

LEMMA PinStep ==
  ASSUME IInv, NEW q \in Requests, Pin(q), NEW rq, rq = requests[q], NEW p, p = Current(q)
  PROVE  IInv'
<1> DEFINE n == Tip(RepoOf[p])
           ctx == [rq.ctx EXCEPT !.ref = n]
<1>1. rq.pc = "pin" /\ Build(q, ctx) /\ UNCHANGED <<project, commits, bumps, execs>>
  BY DEF Pin
<1>2. /\ rq \in RequestStates /\ RequestFits(rq) /\ p = Here(rq) /\ p \in Pipelines
      /\ p \in OneRepository /\ rq.built # <<>> => RepoOf[rq.todo[1]] = RepoOf[p]
  <2>1. rq.pc \in {"resolve", "pin"}
    BY <1>1
  <2> QED BY <2>1, WorkFacts
<1>3. n \in Nat \ {0} /\ n \in 1 .. n
  BY <1>2, ExecsFit, TipFacts, Configured
<1>4. rq.ctx \in Contexts
  BY <1>2 DEF RequestStates
<1> HIDE DEF n
<1>5. ctx \in Contexts /\ ctx.ref = n /\ ctx.version = rq.ctx.version /\ ctx.own = rq.ctx.own
  BY <1>3, <1>4 DEF Contexts
<1> HIDE DEF ctx
<1>6. /\ rq.kind # "offline" /\ KnownVersion(rq.ctx.version)
      /\ p \in Bumping => rq.ctx.version.raw > 0
      /\ rq.ctx.version # NoVersion => ~rq.ctx.own /\ p \notin OneRepository
      /\ rq.built # <<>> /\ rq.built[1].version # NoVersion =>
           rq.ctx.version = rq.built[1].version /\ RepoOf[p] # RepoOf[rq.todo[1]]
  BY <1>1, <1>2 DEF RequestFits, AtPin
<1>7. FoundFits(rq, p, ctx)
  <2>1. ctx.ref \in 1 .. Tip(RepoOf[p])
    BY <1>3, <1>5 DEF n
  <2> QED BY <1>5, <1>6, <2>1 DEF FoundFits
<1> QED BY <1>1, <1>7, BuildStep

(* From caches: of the dependencies, of its own history, of the first.     *)
LEMMA ResolveCachedStep ==
  ASSUME IInv, NEW q \in Requests, ResolveCached(q), NEW rq, rq = requests[q], NEW p, p = Current(q)
  PROVE  IInv'
<1> DEFINE c == Cached(p, rq.dep)
           own == VerifyDependencyRun(Execs, p)
           sameRepo == \A i \in DOMAIN rq.todo : RepoOf[rq.todo[i]] = RepoOf[p]
<1>1. /\ rq.pc = "resolve" /\ rq.kind = "offline" /\ UNCHANGED <<project, commits, bumps, execs>>
      /\ \/ Position(q) > 1 /\ Build(q, rq.ctx)
         \/ ~(Position(q) > 1) /\ c.ok /\ c.ref # 0 /\ sameRepo /\ Build(q, c)
         \/ Ends(q)
  BY DEF ResolveCached
<1>2. /\ rq \in RequestStates /\ RequestFits(rq) /\ AtWork(rq) /\ p = Here(rq) /\ p \in Pipelines
      /\ rq.built \in Seq(Pendings) /\ DOMAIN rq.todo = 1 .. Len(rq.todo)
      /\ Position(q) = At(rq) /\ At(rq) \in 1 .. Len(rq.todo)
      /\ rq.built # <<>> => 1 \in DOMAIN rq.built /\ BuildFits(rq.built[1]) /\ rq.built[1] \in Pendings
      /\ rq.built = <<>> => p = rq.todo[1]
      /\ p \in OneRepository /\ rq.built # <<>> =>
           rq.todo[1] \in OneRepository /\ RepoOf[rq.todo[1]] = RepoOf[p]
  <2>1. rq.pc \in {"resolve", "pin"}
    BY <1>1
  <2> QED BY <2>1, WorkFacts
<1>3. Types /\ \A e \in Execs : BuildFits(execs[e])
  BY ExecsFit
<1>4. rq.dep \in Contexts /\ rq.ctx \in Contexts /\ ContextFits(rq.dep)
  BY <1>2 DEF RequestStates, AtWork
<1> HIDE DEF c, own
<1>5. CASE Position(q) > 1 /\ Build(q, rq.ctx)
  <2>1. rq.built # <<>>
    BY <1>2, <1>5, NothingBuilt
  <2>2. /\ \A i \in DOMAIN rq.todo : RepoOf[rq.todo[i]] = RepoOf[rq.todo[1]]
        /\ rq.ctx.version = rq.built[1].version /\ rq.ctx.ref = rq.built[1].ref /\ rq.ctx.own = rq.built[1].own
    BY <1>1, <1>2, <2>1 DEF RequestFits, FromCache
  <2>3. RepoOf[p] = RepoOf[rq.todo[1]] /\ rq.built[1].pipe = rq.todo[1]
    BY <1>2, <2>1, <2>2 DEF Here, AtWork
  <2>4. /\ rq.ctx.ref \in 1 .. Tip(RepoOf[p]) /\ KnownVersion(rq.ctx.version)
        /\ rq.ctx.version # NoVersion /\ (rq.ctx.own \/ p \in OneRepository) =>
             commits[RepoOf[p]][rq.ctx.ref] = rq.ctx.version.raw
    BY <1>2, <2>1, <2>2, <2>3 DEF BuildFits, OfItsSource
  <2>5. FoundFits(rq, p, rq.ctx)
    BY <1>1, <1>4, <2>2, <2>4 DEF FoundFits
  <2> QED BY <1>1, <1>5, <2>5, BuildStep
<1>6. CASE ~(Position(q) > 1) /\ c.ok /\ c.ref # 0 /\ sameRepo /\ Build(q, c)
  <2>1. rq.built = <<>> /\ p = rq.todo[1]
    BY <1>1, <1>2, <1>6, NothingYet
  <2>2. /\ c \in Contexts /\ c.ref \in 1 .. Tip(RepoOf[p]) /\ KnownVersion(c.version)
        /\ c.version # NoVersion /\ (c.own \/ p \in OneRepository) => commits[RepoOf[p]][c.ref] = c.version.raw
    <3>1. CASE rq.dep.version # NoVersion
      <4> DEFINE n == PinnedRef(p, rq.dep)
      <4>1. n \in Nat /\ rq.dep.version \in Versions
        BY <1>4 DEF PinnedRef, Contexts
      <4>2. c = [NoContext EXCEPT !.version = rq.dep.version, !.ref = n]
        BY <3>1 DEF c, Cached
      <4> HIDE DEF n
      <4>3. c \in Contexts /\ c.version = rq.dep.version /\ c.ref = n /\ c.own = FALSE
        BY <4>1, <4>2, BlankContext DEF Contexts, NoContext
      <4>4. rq.dep.repo = RepoOf[p] /\ n = rq.dep.ref /\ n # 0
        BY <1>6, <4>3 DEF n, PinnedRef
      <4>5. n \in 1 .. Tip(RepoOf[p]) /\ KnownVersion(c.version)
        BY <1>4, <4>3, <4>4 DEF ContextFits
      <4>6. p \in OneRepository => ContextFitsIn(RepoOf[p], rq.dep)
        BY <1>2, <2>1 DEF AtWork
      <4> QED BY <4>3, <4>4, <4>5, <4>6 DEF ContextFitsIn
    <3>2. CASE rq.dep.version = NoVersion
      <4>1. /\ own \in FittingContexts
            /\ p \in OneRepository => own \in FittingContextsIn(RepoOf[p])
            /\ own.ok => /\ own.ref \in 1 .. Tip(RepoOf[p])
                         /\ own.own /\ own.version # NoVersion => commits[RepoOf[p]][own.ref] = own.version.raw
        BY <1>2, <1>3, VerifiedFits DEF own
      <4>2. c = [NoContext EXCEPT !.ok = own.ok, !.version = own.version, !.ref = own.ref, !.own = own.own]
        BY <3>2 DEF c, Cached, own
      <4>3. own \in Contexts
        BY <4>1 DEF FittingContexts
      <4>4. /\ c \in Contexts /\ c.ok = own.ok /\ c.version = own.version
            /\ c.ref = own.ref /\ c.own = own.own
        BY <4>2, <4>3, BlankContext DEF Contexts, NoContext
      <4>5. own.ok
        BY <1>6, <4>4
      <4>6. ContextFits(own) /\ (p \in OneRepository => ContextFitsIn(RepoOf[p], own))
        BY <4>1, <4>5 DEF FittingContexts, FittingContextsIn
      <4> QED BY <4>1, <4>4, <4>5, <4>6 DEF ContextFits, ContextFitsIn
    <3> QED BY <3>1, <3>2
  <2>3. FoundFits(rq, p, c)
    BY <1>1, <1>6, <2>1, <2>2 DEF FoundFits
  <2> QED BY <1>1, <1>6, <2>3, BuildStep
<1>7. CASE Ends(q)
  BY <1>1, <1>7, EndsKeeps
<1> QED BY <1>1, <1>5, <1>6, <1>7
-----------------------------------------------------------------------------
LEMMA BeginRerunStep ==
  ASSUME IInv, NEW q \in Requests, NEW e \in Execs, BeginRerun(q, e), NEW x, x = execs[e]
  PROVE  IInv'
<1> DEFINE ctx == IF DependsOn[x.pipe] = <<>> THEN NoContext
                  ELSE IF x.chain # 0 THEN ChainContext(x.pipe, x.chain) ELSE CheckDependencies(x.pipe)
           arts == Artifacts(x.pipe, ctx)
           b == [pipe |-> x.pipe, job |-> x.job, version |-> x.version, ref |-> x.ref, bump |-> x.bump,
                 own |-> x.own, arts |-> arts, waits |-> x.waits]
           s == [Idle EXCEPT !.pc = "create", !.clone = e, !.built = <<b>>]
<1>1. requests' = [requests EXCEPT ![q] = s] /\ UNCHANGED <<project, commits, bumps, execs>>
  BY DEF BeginRerun
<1>2. Types /\ (\A i \in Execs : BuildFits(execs[i])) /\ x \in Executions /\ BuildFits(x)
  BY ExecsFit, ExecsFacts
<1>3. x.pipe \in Pipelines
  BY <1>2 DEF Executions
<1>4. ctx \in Contexts
  BY <1>2, <1>3, BlankContext, ChainContextFacts, CheckFacts
<1> HIDE DEF ctx
<1>5. arts \in SUBSET Execs
  BY <1>4, ArtifactsFacts
<1> HIDE DEF arts
<1>6. /\ b \in Pendings /\ BuildFits(b)
      /\ b.pipe = x.pipe /\ b.version = x.version /\ b.ref = x.ref
  <2>1. b \in Pendings
    BY <1>2, <1>5 DEF Pendings, Executions
  <2>2. BuildFits(b)
    BY <1>2 DEF BuildFits, OfItsSource
  <2> QED BY <2>1, <2>2
<1> HIDE DEF b
<1> DEFINE l == <<b>>
<1>7. l \in Seq(Pendings) /\ l # <<>> /\ Len(l) = 1 /\ DOMAIN l = {1} /\ l[1] = b
  BY <1>6
<1> HIDE DEF l
<1>8. Idle \in RequestStates /\ Idle.dep = NoContext
  BY IdleFits DEF FittingRequests, Idle
<1>9. s \in RequestStates /\ s.pc = "create" /\ s.clone = e /\ s.built = l /\ s.dep = NoContext
  <2>1. s = [Idle EXCEPT !.pc = "create", !.clone = e, !.built = l]
    BY DEF l
  <2> HIDE DEF s
  <2> QED BY <1>7, <1>8, <2>1 DEF RequestStates
<1> HIDE DEF s
<1>10. RequestFits(s)
  <2>1. ToCreate(s)
    BY <1>6, <1>7, <1>9 DEF ToCreate
  <2>2. FromCache(s) /\ AtPin(s)
    BY <1>9 DEF FromCache, AtPin
  <2>3. \A i \in DOMAIN s.built : BuildFits(s.built[i]) /\ Agrees(s.built[i], s.built[1])
    BY <1>6, <1>7, <1>9 DEF Agrees
  <2> QED BY <1>9, <2>1, <2>2, <2>3, BlankContext DEF RequestFits
<1>11. s \in FittingRequests
  BY <1>9, <1>10 DEF FittingRequests
<1> QED BY <1>1, <1>11, RequestStep
-----------------------------------------------------------------------------
(* What is stored comes after what was there. *)
Stored(n, new) ==
  /\ n \in Nat /\ Len(new) \in Nat
  /\ execs' \in Seq(Executions) /\ Len(execs') = n + Len(new) /\ Execs \subseteq Execs'
  /\ \A e \in Execs : execs'[e] = execs[e]
  /\ \A i \in 1 .. Len(new) : execs'[n + i] = new[i]
  /\ \A e \in Execs' \ Execs : \E i \in 1 .. Len(new) : e = n + i

LEMMA StoredFacts ==
  ASSUME Types
  PROVE  \A n, new : n = Len(execs) /\ new \in Seq(Executions) /\ execs' = execs \o new => Stored(n, new)
<1> SUFFICES ASSUME NEW new \in Seq(Executions), NEW n, n = Len(execs), execs' = execs \o new
             PROVE  Stored(n, new)
  OBVIOUS
<1> DEFINE m == Len(new)
<1>1. execs \in Seq(Executions) /\ n \in Nat /\ Execs = 1 .. n /\ m \in Nat
  BY ExecsFacts, LenProperties DEF Types
<1>2. /\ execs' \in Seq(Executions) /\ Len(execs') = n + m
      /\ \A i \in 1 .. n + m : execs'[i] = IF i <= n THEN execs[i] ELSE new[i - n]
  BY <1>1, ConcatProperties
<1>3. Execs' = 1 .. n + m
  BY <1>2, LenProperties DEF Execs
<1> HIDE DEF m
<1>4. ASSUME NEW i \in 1 .. m PROVE execs'[n + i] = new[i]
  <2>1. n + i \in 1 .. n + m /\ ~(n + i <= n) /\ (n + i) - n = i
    BY <1>1
  <2> QED BY <1>2, <2>1
<1>5. ASSUME NEW e \in Execs' \ Execs PROVE \E i \in 1 .. m : e = n + i
  <2>1. e - n \in 1 .. m /\ e = n + (e - n)
    BY <1>1, <1>3
  <2> QED BY <2>1
<1>6. Execs \subseteq Execs' /\ \A e \in Execs : execs'[e] = execs[e]
  BY <1>1, <1>2, <1>3
<1> QED BY <1>1, <1>2, <1>4, <1>5, <1>6 DEF m, Stored

(* What is stored fits, and its place is among what was there or with it.  *)
LEMMA StoreStep ==
  ASSUME IInv, NEW q \in Requests, Ends(q), UNCHANGED <<project, commits, bumps>>,
         NEW new \in Seq(FittingBuilds \cap FittingPushes), NEW n, n = Len(execs), execs' = execs \o new,
         n + Len(new) <= MaxExecs,
         \A i \in 1 .. Len(new) :
           LET x == new[i] IN
           /\ x.run \in 1 .. n + i /\ x.root \in 1 .. n + i /\ x.chain \in 0 .. n + i
           /\ \/ x.chain = 0
              \/ x.chain \in Execs /\ Agrees(x, execs[x.chain])
              \/ x.chain = n + 1 /\ Agrees(x, new[1])
  PROVE  IInv'
<1> DEFINE m == Len(new)
<1>1. Types
  BY ExecsFit
<1>2. new \in Seq(Executions) /\ \A i \in 1 .. m : new[i] \in Executions \cap FittingBuilds \cap FittingPushes
  <2>1. FittingBuilds \cap FittingPushes \subseteq Executions
    BY DEF FittingBuilds
  <2>2. \A i \in 1 .. m : new[i] \in FittingBuilds \cap FittingPushes
    BY ElementOfSeq
  <2>3. new \in Seq(Executions)
    BY <2>1, SeqMonotonic
  <2> QED BY <2>1, <2>2, <2>3
<1>3. /\ n \in Nat /\ m \in Nat
      /\ execs' \in Seq(Executions) /\ Len(execs') = n + m /\ Execs \subseteq Execs'
      /\ \A e \in Execs : execs'[e] = execs[e]
      /\ \A i \in 1 .. m : execs'[n + i] = new[i]
      /\ \A e \in Execs' \ Execs : \E i \in 1 .. m : e = n + i
  <2>1. Stored(n, new)
    BY <1>1, <1>2, StoredFacts, Zenon
  <2> QED BY <2>1 DEF Stored
<1>4. Executions \subseteq Executions' /\ RequestStates \subseteq RequestStates'
  BY <1>3, StatesGrow
<1>5. \A r : Tip(r)' = Tip(r)
  BY DEF Tip
<1>6. Grows
  <2>1. project' = project /\ \A r \in Repos : Tip(r) \in Nat /\ Tip(r)' \in Nat /\ Tip(r) <= Tip(r)'
    BY <1>1, <1>5 DEF Types
  <2>2. Execs \subseteq Execs' /\ \A e \in Execs : SameBuild(execs[e], execs'[e])
    BY <1>3 DEF SameBuild
  <2>3. \A r \in Repos : \A i \in 1 .. Tip(r) : commits'[r][i] = commits[r][i]
    OBVIOUS
  <2> QED BY <2>1, <2>2, <2>3 DEF Grows
<1>7. requests' \in [Requests -> RequestStates] /\ \A i \in Requests : requests'[i] \in FittingRequests
  <2>1. requests' = [requests EXCEPT ![q] = Idle]
    BY DEF Ends
  <2>2. requests \in [Requests -> RequestStates] /\ \A i \in Requests : requests[i] \in FittingRequests
    BY <1>1 DEF IInv, Types
  <2>3. Idle \in FittingRequests /\ FittingRequests \subseteq RequestStates
    BY IdleFits DEF FittingRequests
  <2> QED BY <2>1, <2>2, <2>3
<1>8. Types'
  <2>1. execs' \in Seq(Executions')
    <3> DEFINE U == Executions'
    <3>1. Executions \subseteq U
      BY <1>4
    <3> HIDE DEF U
    <3>2. execs' \in Seq(U)
      BY <1>3, <3>1, SeqMonotonic
    <3> QED BY <3>2 DEF U
  <2>2. requests' \in [Requests -> RequestStates']
    BY <1>4, <1>7
  <2>3. Len(execs') <= MaxExecs
    BY <1>3
  <2> QED BY <1>1, <1>5, <2>1, <2>2, <2>3 DEF Types
<1>9. OnlyRaised'
  BY <1>5 DEF IInv, OnlyRaised
<1>10. ASSUME NEW e \in Execs' \ Execs
       PROVE  execs'[e] \in FittingBuilds' \cap FittingPushes' /\ PlaceFits(e)'
  <2>1. PICK i \in 1 .. m : e = n + i
    BY <1>3
  <2>2. PICK x : x = new[i]
    OBVIOUS
  <2>3. execs'[e] = x /\ x \in FittingBuilds /\ x \in FittingPushes /\ x \in Executions'
    BY <1>2, <1>3, <1>4, <2>1, <2>2
  <2>4. x \in FittingBuilds' /\ x \in FittingPushes'
    <3>1. SameBuild(x, x)
      BY DEF SameBuild
    <3> QED BY <1>1, <1>6, <1>8, <2>3, <3>1, FittingStays
  <2>5. /\ x.run \in 1 .. e /\ x.root \in 1 .. e /\ x.chain \in 0 .. e
        /\ \/ x.chain = 0
           \/ x.chain \in Execs /\ Agrees(x, execs[x.chain])
           \/ x.chain = n + 1 /\ Agrees(x, new[1])
    BY <2>1, <2>2
  <2>6. x.chain # 0 => Agrees(x, execs'[x.chain])
    <3>1. CASE x.chain \in Execs /\ Agrees(x, execs[x.chain])
      BY <1>3, <3>1
    <3>2. CASE x.chain = n + 1 /\ Agrees(x, new[1])
      <4>1. 1 \in 1 .. m
        BY <1>3
      <4>2. execs'[n + 1] = new[1]
        BY <1>3, <4>1
      <4> QED BY <3>2, <4>2
    <3> QED BY <2>5, <3>1, <3>2
  <2>7. PlaceFits(e)'
    BY <2>3, <2>5, <2>6 DEF PlaceFits, Agrees
  <2> QED BY <2>3, <2>4, <2>7
<1>11. \A i \in Requests : requests'[i] = requests[i] \/ requests'[i] \in FittingRequests'
  BY <1>1, <1>6, <1>7, <1>8, FittingStays
<1>12. \A e \in Execs : execs'[e] = execs[e] \/ execs'[e] \in FittingPushes'
  BY <1>3
<1>13. \A b \in bumps' : b \in bumps \/ b \in FittingBumps'
  OBVIOUS
<1> QED BY <1>6, <1>8, <1>9, <1>10, <1>11, <1>12, <1>13, GrowthKeeps
(* The executions of one pipeline are one run, named by the first of them. *)
RunName(b, i) ==
  CHOOSE j \in DOMAIN b : b[j].pipe = b[i].pipe /\ \A k \in DOMAIN b : b[k].pipe = b[i].pipe => j <= k

LEMMA FirstOfRun ==
  ASSUME NEW b \in Seq(Pendings), NEW i \in DOMAIN b
  PROVE  RunName(b, i) \in 1 .. i /\ RunName(b, i) \in DOMAIN b /\ b[RunName(b, i)].pipe = b[i].pipe
<1> DEFINE S == {j \in DOMAIN b : b[j].pipe = b[i].pipe}
           Least(j) == b[j].pipe = b[i].pipe /\ \A k \in DOMAIN b : b[k].pipe = b[i].pipe => j <= k
<1>1. DOMAIN b = 1 .. Len(b) /\ Len(b) \in Nat
  BY LenProperties
<1>2. S \in SUBSET Nat /\ i \in S
  BY <1>1
<1>3. \E j \in S : \A l \in S : j <= l
  <2> HIDE DEF S
  <2>1. S # {}
    BY <1>2
  <2> QED BY <1>2, <2>1, LeastExists
<1>4. \E j \in DOMAIN b : Least(j)
  BY <1>3
<1>5. RunName(b, i) = CHOOSE j \in DOMAIN b : Least(j)
  BY DEF RunName
<1>6. RunName(b, i) \in DOMAIN b /\ Least(RunName(b, i))
  <2> HIDE DEF Least
  <2> QED BY <1>4, <1>5
<1>7. RunName(b, i) <= i
  BY <1>6
<1> QED BY <1>1, <1>6, <1>7

LEMMA CreateStep ==
  ASSUME IInv, NEW q \in Requests, Create(q), NEW rq, rq = requests[q], NEW n, n = Len(execs),
         NEW m, m = Len(rq.built)
  PROVE  IInv'
<1> DEFINE new == [i \in DOMAIN rq.built |->
             [pipe |-> rq.built[i].pipe, job |-> rq.built[i].job, version |-> rq.built[i].version,
              ref |-> rq.built[i].ref, bump |-> rq.built[i].bump, own |-> rq.built[i].own,
              arts |-> rq.built[i].arts, waits |-> rq.built[i].waits, status |-> "queued",
              again |-> FALSE, base |-> 0,
              run |-> IF rq.clone # 0 THEN execs[rq.clone].run ELSE n + RunName(rq.built, i),
              root |-> IF rq.clone # 0 THEN execs[rq.clone].root ELSE n + i,
              chain |-> IF rq.clone # 0 THEN execs[rq.clone].chain
                        ELSE IF Len(rq.todo) > 1 THEN n + 1 ELSE 0]]
<1>1. /\ rq.pc = "create" /\ n + m <= MaxExecs
      /\ execs' = execs \o new /\ Ends(q) /\ UNCHANGED <<project, commits, bumps>>
  BY ZenonT(60) DEF Create, RunName
<1>2. Types /\ n \in Nat /\ Execs = 1 .. n /\ \A e \in Execs : execs[e] \in Executions /\ PlaceFits(e)
  BY ExecsFit, ExecsFacts DEF IInv
<1>3. rq \in RequestStates /\ RequestFits(rq)
  BY DEF IInv, FittingRequests
<1>4. rq.built \in Seq(Pendings) /\ m \in Nat \ {0} /\ DOMAIN rq.built = 1 .. m /\ rq.clone \in {0} \cup Execs
  <2>1. rq.built \in Seq(Pendings) /\ rq.built # <<>> /\ rq.clone \in {0} \cup Execs
    BY <1>1, <1>3 DEF RequestStates, RequestFits, ToCreate
  <2>2. Len(rq.built) \in Nat /\ Len(rq.built) # 0 /\ DOMAIN rq.built = 1 .. Len(rq.built)
    BY <2>1, EmptySeq, LenProperties
  <2> QED BY <2>1, <2>2
<1>5. ASSUME NEW i \in 1 .. m
      PROVE  /\ rq.built[i] \in Pendings /\ BuildFits(rq.built[i]) /\ Agrees(rq.built[i], rq.built[1])
             /\ RunName(rq.built, i) \in 1 .. i
  <2>1. rq.built[i] \in Pendings
    BY <1>4, ElementOfSeq
  <2>2. BuildFits(rq.built[i]) /\ Agrees(rq.built[i], rq.built[1])
    BY <1>3, <1>4 DEF RequestFits
  <2>3. RunName(rq.built, i) \in 1 .. i
    BY <1>4, FirstOfRun
  <2> QED BY <2>1, <2>2, <2>3
<1>6. ASSUME rq.clone # 0
      PROVE  /\ rq.clone \in Execs /\ m = 1 /\ rq.built[1].pipe = execs[rq.clone].pipe
             /\ rq.built[1].version = execs[rq.clone].version /\ rq.built[1].ref = execs[rq.clone].ref
  BY SMTT(30), <1>1, <1>3, <1>4, <1>6 DEF RequestFits, ToCreate
<1>7. ASSUME NEW i \in 1 .. m
      PROVE  LET x == new[i] b == rq.built[i] IN
             /\ x.pipe = b.pipe /\ x.job = b.job /\ x.version = b.version /\ x.ref = b.ref
             /\ x.bump = b.bump /\ x.own = b.own /\ x.arts = b.arts /\ x.waits = b.waits
             /\ x.status = "queued" /\ x.base = 0
             /\ x.run = (IF rq.clone # 0 THEN execs[rq.clone].run ELSE n + RunName(rq.built, i))
             /\ x.root = (IF rq.clone # 0 THEN execs[rq.clone].root ELSE n + i)
             /\ x.chain = (IF rq.clone # 0 THEN execs[rq.clone].chain
                           ELSE IF Len(rq.todo) > 1 THEN n + 1 ELSE 0)
             /\ x = [pipe |-> b.pipe, job |-> b.job, version |-> b.version, ref |-> b.ref, bump |-> b.bump,
                     own |-> b.own, arts |-> b.arts, waits |-> b.waits, status |-> "queued",
                     again |-> FALSE, base |-> 0, run |-> x.run, root |-> x.root, chain |-> x.chain]
  BY <1>4
<1>8. DOMAIN new = 1 .. m /\ new = [i \in 1 .. m |-> new[i]]
  BY <1>4
<1> HIDE DEF new
<1>9. ASSUME NEW i \in 1 .. m
      PROVE  LET x == new[i] IN
             /\ x.run \in 1 .. n + i /\ x.root \in 1 .. n + i /\ x.chain \in 0 .. n + i
             /\ \/ x.chain = 0
                \/ x.chain \in Execs /\ Agrees(x, execs[x.chain])
                \/ x.chain = n + 1 /\ Agrees(x, new[1])
  <2> DEFINE x == new[i]
             b == rq.built[i]
  <2>1. CASE rq.clone # 0
    <3> DEFINE z == execs[rq.clone]
    <3>1. /\ z.run \in 1 .. rq.clone /\ z.root \in 1 .. rq.clone
          /\ z.chain \in 0 .. rq.clone /\ rq.clone \in 1 .. n
          /\ z.chain # 0 => Agrees(z, execs[z.chain])
      BY <1>2, <1>6, <2>1 DEF PlaceFits
    <3>2. x.run = z.run /\ x.root = z.root /\ x.chain = z.chain
      BY <1>7, <2>1
    <3>3. i = 1
      <4>1. m = 1
        BY <1>6, <2>1
      <4> QED BY <4>1
    <3>4. x.pipe = z.pipe /\ x.version = z.version /\ x.ref = z.ref
      <4>1. rq.built[1].pipe = z.pipe /\ rq.built[1].version = z.version /\ rq.built[1].ref = z.ref
        BY <1>6, <2>1
      <4>2. x.pipe = b.pipe /\ x.version = b.version /\ x.ref = b.ref
        BY <1>7
      <4> QED BY <3>3, <4>1, <4>2
    <3> HIDE DEF x, z
    <3>5. /\ x.run \in 1 .. n + i /\ x.root \in 1 .. n + i /\ x.chain \in 0 .. n + i
          /\ x.chain # 0 => x.chain \in Execs
      BY <1>2, <3>1, <3>2
    <3>6. x.chain # 0 => Agrees(x, execs[x.chain])
      BY <3>1, <3>2, <3>4 DEF Agrees
    <3> QED BY <3>5, <3>6 DEF x
  <2>2. CASE rq.clone = 0
    <3>1. RunName(rq.built, i) \in 1 .. i /\ Agrees(b, rq.built[1]) /\ 1 \in 1 .. m
      BY <1>4, <1>5
    <3>2. x.run = n + RunName(rq.built, i) /\ x.root = n + i /\ x.chain \in {0, n + 1}
      BY ZenonT(60), <1>7, <2>2
    <3>3. /\ x.pipe = b.pipe /\ x.version = b.version /\ x.ref = b.ref
          /\ new[1].pipe = rq.built[1].pipe /\ new[1].version = rq.built[1].version
          /\ new[1].ref = rq.built[1].ref
      BY ZenonT(60), <1>7, <3>1
    <3> HIDE DEF x, b
    <3>4. Agrees(x, new[1])
      BY <3>1, <3>3 DEF Agrees
    <3>5. x.run \in 1 .. n + i /\ x.root \in 1 .. n + i /\ x.chain \in 0 .. n + i
      BY <1>2, <3>1, <3>2
    <3> QED BY <3>2, <3>4, <3>5 DEF x
  <2> QED BY <2>1, <2>2
<1>10. ASSUME NEW i \in 1 .. m PROVE new[i] \in FittingBuilds \cap FittingPushes
  <2> DEFINE x == new[i]
             b == rq.built[i]
  <2>1. b \in Pendings /\ BuildFits(b) /\ b.pipe \in Pipelines
    BY <1>5 DEF Pendings
  <2>2. x.run \in Nat /\ x.root \in Nat /\ x.chain \in Nat
    BY <1>2, <1>9
  <2>3. /\ x.pipe = b.pipe /\ x.job = b.job /\ x.version = b.version /\ x.ref = b.ref
        /\ x.bump = b.bump /\ x.own = b.own /\ x.status = "queued" /\ x.base = 0
        /\ x = [pipe |-> b.pipe, job |-> b.job, version |-> b.version, ref |-> b.ref, bump |-> b.bump,
                own |-> b.own, arts |-> b.arts, waits |-> b.waits, status |-> "queued",
                again |-> FALSE, base |-> 0, run |-> x.run, root |-> x.root, chain |-> x.chain]
    BY ZenonT(60), <1>7
  <2> HIDE DEF x, b
  <2>4. x \in Executions
    <3> DEFINE run == x.run
               root == x.root
               chain == x.chain
    <3>1. /\ b.pipe \in Pipelines /\ b.job \in Jobs /\ b.version \in Versions /\ b.ref \in Nat
          /\ b.own \in BOOLEAN /\ b.bump \in BOOLEAN /\ b.arts \in SUBSET Execs /\ b.waits \in Seq(Pipelines)
      BY <2>1 DEF Pendings
    <3>2. run \in Nat /\ root \in Nat /\ chain \in Nat
      BY <2>2
    <3>3. "queued" \in Active \cup Terminal /\ FALSE \in BOOLEAN /\ 0 \in Nat
      BY DEF Active
    <3>4. x = [pipe |-> b.pipe, job |-> b.job, version |-> b.version, ref |-> b.ref, bump |-> b.bump,
               own |-> b.own, arts |-> b.arts, waits |-> b.waits, status |-> "queued",
               again |-> FALSE, base |-> 0, run |-> run, root |-> root, chain |-> chain]
      BY <2>3
    <3> HIDE DEF run, root, chain
    <3> QED BY <3>1, <3>2, <3>3, <3>4 DEF Executions
  <2>5. BuildFits(x)
    BY <2>1, <2>3 DEF BuildFits, OfItsSource
  <2>6. PushFits(x)
    <3>1. Tip(RepoOf[b.pipe]) \in Nat
      BY <1>2, <2>1, TipFacts, Configured
    <3> QED BY <2>3, <3>1 DEF PushFits
  <2>7. x \in FittingBuilds \cap FittingPushes
    BY <2>4, <2>5, <2>6 DEF FittingBuilds, FittingPushes
  <2> QED BY <2>7 DEF x
<1>11. new \in Seq(FittingBuilds \cap FittingPushes) /\ Len(new) = m
  <2> DEFINE F == FittingBuilds \cap FittingPushes
  <2>1. \A i \in 1 .. m : new[i] \in F
    BY <1>10
  <2> HIDE DEF F
  <2>2. new \in [1 .. m -> F]
    BY <1>8, <2>1
  <2>3. new \in Seq(F)
    BY <1>4, <2>2, SeqDef
  <2>4. Len(new) = m
    BY <1>4, <1>8, <2>3, LenProperties
  <2> QED BY <2>3, <2>4 DEF F
<1>12. PICK l : l = new
  OBVIOUS
<1>13. /\ l \in Seq(FittingBuilds \cap FittingPushes) /\ execs' = execs \o l /\ n + Len(l) <= MaxExecs
       /\ \A i \in 1 .. Len(l) :
            LET x == l[i] IN
            /\ x.run \in 1 .. n + i /\ x.root \in 1 .. n + i /\ x.chain \in 0 .. n + i
            /\ \/ x.chain = 0
               \/ x.chain \in Execs /\ Agrees(x, execs[x.chain])
               \/ x.chain = n + 1 /\ Agrees(x, l[1])
  BY <1>1, <1>9, <1>11, <1>12
<1> QED BY <1>1, <1>13, StoreStep
-----------------------------------------------------------------------------
(* An execution changes, but not in what it builds. *)
LEMMA StartStep ==
  ASSUME IInv, NEW e \in Execs, StartJob(e), NEW x, x = execs[e]
  PROVE  IInv'
<1> DEFINE y == [x EXCEPT !.status = "running", !.again = TRUE]
<1>1. execs' = [execs EXCEPT ![e] = y] /\ UNCHANGED <<project, commits, bumps, requests>>
  BY DEF StartJob
<1>2. x \in Executions /\ PushFits(x)
  BY ExecsFit, ExecsFacts DEF IInv, FittingPushes
<1>3. y \in Executions /\ SameBuild(x, y) /\ y.status = "running" /\ y.base = x.base /\ y.pipe = x.pipe
  BY <1>2 DEF Executions, SameBuild, Active
<1> HIDE DEF y
<1>4. PushFits(y)
  BY <1>2, <1>3 DEF PushFits
<1> QED BY <1>1, <1>3, <1>4, ExecStep

LEMMA StatusStep ==
  ASSUME IInv, NEW e \in Execs, NEW s \in Terminal, SetStatus(e, s),
         UNCHANGED <<project, commits, bumps, requests>>, NEW x, x = execs[e]
  PROVE  IInv'
<1> DEFINE y == [x EXCEPT !.status = s]
<1>1. execs' = [execs EXCEPT ![e] = y]
  BY DEF SetStatus
<1>2. x \in Executions /\ PushFits(x)
  BY ExecsFit, ExecsFacts DEF IInv, FittingPushes
<1>3. /\ y \in Executions /\ SameBuild(x, y) /\ y.status = s /\ y.status # "pushing"
      /\ y.base = x.base /\ y.pipe = x.pipe
  BY <1>2 DEF Executions, SameBuild, Terminal
<1> HIDE DEF y
<1>4. PushFits(y)
  BY <1>2, <1>3 DEF PushFits
<1> QED BY <1>1, <1>3, <1>4, ExecStep

LEMMA FetchStep ==
  ASSUME IInv, NEW e \in Execs, FetchBranch(e), NEW x, x = execs[e],
         NEW n, n = Tip(RepoOf[x.pipe]), NEW s, s = IF StillCurrent(e) THEN "pushing" ELSE "failed"
  PROVE  IInv'
<1> DEFINE y == [x EXCEPT !.status = s, !.base = n]
<1>1. execs' = [execs EXCEPT ![e] = y] /\ UNCHANGED <<project, commits, bumps, requests>> /\ x.bump
  BY DEF FetchBranch
<1>2. Types /\ x \in Executions /\ x.pipe \in Pipelines
  BY ExecsFit, ExecsFacts DEF Executions
<1>3. n \in Nat \ {0} /\ n \in 1 .. n
  BY <1>2, TipFacts, Configured
<1>4. s \in {"pushing", "failed"} /\ (s = "pushing" => commits[RepoOf[x.pipe]][n] = x.version.raw)
  BY DEF StillCurrent
<1>5. /\ y \in Executions /\ SameBuild(x, y) /\ y.status = s /\ y.base = n /\ y.pipe = x.pipe
      /\ y.bump = x.bump /\ y.version = x.version
  BY ZenonT(60), <1>2, <1>3, <1>4 DEF Executions, SameBuild, Active, Terminal
<1> HIDE DEF y
<1>6. PushFits(y)
  BY <1>1, <1>3, <1>4, <1>5 DEF PushFits
<1> QED BY <1>1, <1>5, <1>6, ExecStep

LEMMA ReconcileStep ==
  ASSUME IInv, NEW e \in Execs, Reconcile(e), NEW x, x = execs[e], NEW t, t = Artifacts(x.pipe, BindsTo(e))
  PROVE  IInv'
<1> DEFINE fails == [x EXCEPT !.status = "failed", !.waits = <<>>, !.again = TRUE]
           stops == [x EXCEPT !.status = "failed", !.waits = <<>>]
           goes == [x EXCEPT !.waits = <<>>, !.arts = IF t = {} THEN x.arts ELSE t]
<1>1. /\ UNCHANGED <<project, commits, bumps, requests>> /\ x.status = "queued"
      /\ \/ execs' = [execs EXCEPT ![e] = fails]
         \/ execs' = [execs EXCEPT ![e] = stops]
         \/ execs' = [execs EXCEPT ![e] = goes]
  BY DEF Reconcile
<1>2. Types /\ (\A i \in Execs : BuildFits(execs[i])) /\ x \in Executions /\ x.pipe \in Pipelines /\ PushFits(x)
  BY ExecsFit, ExecsFacts DEF IInv, FittingPushes, Executions
<1>3. t \in SUBSET Execs
  <2>1. BindsTo(e) \in Contexts
    BY <1>2, ChainContextFacts DEF BindsTo
  <2> QED BY <2>1, ArtifactsFacts
<1>4. <<>> \in Seq(Pipelines)
  OBVIOUS
<1>5. ASSUME NEW y \in {fails, stops, goes}
      PROVE  y \in Executions /\ SameBuild(x, y) /\ PushFits(y)
  <2>1. /\ y \in Executions /\ SameBuild(x, y) /\ y.status # "pushing"
        /\ y.base = x.base /\ y.pipe = x.pipe
    <3>1. CASE y = fails
      BY <1>2, <1>4, <3>1 DEF Executions, SameBuild, Terminal
    <3>2. CASE y = stops
      BY <1>2, <1>4, <3>2 DEF Executions, SameBuild, Terminal
    <3>3. CASE y = goes
      BY <1>1, <1>2, <1>3, <1>4, <3>3 DEF Executions, SameBuild
    <3> QED BY <3>1, <3>2, <3>3
  <2> QED BY <1>2, <2>1 DEF PushFits
<1>6. PICK y \in {fails, stops, goes} : execs' = [execs EXCEPT ![e] = y]
  BY <1>1
<1> QED BY <1>1, <1>5, <1>6, ExecStep
-----------------------------------------------------------------------------
(* A commit whose version file is not behind any before it. *)
CommitOn(r, v) == commits' = [commits EXCEPT ![r] = Append(@, v)]

NotBehind(r, v) == v = 0 \/ \A i \in 1 .. Tip(r) : commits[r][i] <= v

LEMMA CommitFacts ==
  ASSUME IInv, NEW r \in Repos, NEW v \in Nat, CommitOn(r, v), NotBehind(r, v), Tip(r) < MaxCommits[r]
  PROVE  /\ commits' \in [Repos -> Seq(Nat)] /\ \A i \in Repos : Tip(i)' \in 1 .. MaxCommits[i]
         /\ \A i \in Repos : /\ Tip(i) \in Nat /\ Tip(i)' \in Nat /\ Tip(i) <= Tip(i)'
                             /\ \A j \in 1 .. Tip(i) : commits'[i][j] = commits[i][j]
         /\ Tip(r)' = Tip(r) + 1 /\ commits'[r][Tip(r) + 1] = v
         /\ OnlyRaised'
<1> DEFINE n == Tip(r)
<1>1. /\ commits \in [Repos -> Seq(Nat)] /\ \A i \in Repos : Tip(i) \in Nat \ {0} /\ Tip(i) \in 1 .. MaxCommits[i]
      /\ MaxCommits \in [Repos -> Nat \ {0}] /\ OnlyRaised
  BY ExecsFit, TipFacts, PipelinesAssumption DEF IInv, Types
<1>2. /\ Append(commits[r], v) \in Seq(Nat) /\ Len(Append(commits[r], v)) = n + 1
      /\ \A j \in 1 .. n : Append(commits[r], v)[j] = commits[r][j]
      /\ Append(commits[r], v)[n + 1] = v
  BY <1>1, AppendProperties DEF Tip
<1>3. commits' = [commits EXCEPT ![r] = Append(commits[r], v)]
  BY DEF CommitOn
<1>4. \A i \in Repos : commits'[i] = IF i = r THEN Append(commits[r], v) ELSE commits[i]
  BY <1>1, <1>3
<1>5. commits' \in [Repos -> Seq(Nat)]
  BY <1>1, <1>2, <1>3
<1>6. \A i \in Repos : Tip(i)' = IF i = r THEN n + 1 ELSE Tip(i)
  BY <1>2, <1>4 DEF Tip
<1>7. commits'[r][n + 1] = v /\ \A i \in Repos : \A j \in 1 .. Tip(i) : commits'[i][j] = commits[i][j]
  BY <1>2, <1>4
<1>8. n \in Nat /\ n < MaxCommits[r]
  BY <1>1
<1>9. \A i \in 1 .. n : v = 0 \/ commits[r][i] <= v
  BY DEF NotBehind
<1> HIDE DEF n
<1>10. OnlyRaised'
  <2> SUFFICES ASSUME NEW i \in Repos, NEW j \in 1 .. Tip(i)', NEW k \in 1 .. Tip(i)', j < k,
                      commits'[i][j] # 0, commits'[i][k] # 0
               PROVE  commits'[i][j] <= commits'[i][k]
    BY DEF OnlyRaised
  <2>1. CASE k \in 1 .. Tip(i)
    <3>1. j \in 1 .. Tip(i)
      BY <1>1, <2>1
    <3>2. commits'[i][j] = commits[i][j] /\ commits'[i][k] = commits[i][k]
      BY <1>7, <2>1, <3>1
    <3> QED BY <1>1, <2>1, <3>1, <3>2 DEF OnlyRaised
  <2>2. CASE k \notin 1 .. Tip(i)
    <3>1. i = r /\ k = n + 1 /\ j \in 1 .. n
      <4>1. i = r
        BY <1>6, <2>2
      <4>2. k \in 1 .. n + 1 /\ k \notin 1 .. n /\ j \in 1 .. n + 1
        BY <1>6, <2>2, <4>1 DEF n
      <4> QED BY <1>8, <4>1, <4>2
    <3>2. commits'[i][k] = v /\ commits'[i][j] = commits[r][j]
      BY <1>7, <3>1 DEF n
    <3> QED BY <1>9, <3>1, <3>2
  <2> QED BY <2>1, <2>2
<1>11. \A i \in Repos : Tip(i)' \in 1 .. MaxCommits[i]
  <2> SUFFICES ASSUME NEW i \in Repos PROVE Tip(i)' \in 1 .. MaxCommits[i]
    OBVIOUS
  <2>1. CASE i = r
    BY <1>1, <1>6, <1>8, <2>1
  <2>2. CASE i # r
    BY <1>1, <1>6, <2>2
  <2> QED BY <2>1, <2>2
<1>12. \A i \in Repos : Tip(i) \in Nat /\ Tip(i)' \in Nat /\ Tip(i) <= Tip(i)'
  BY <1>1, <1>6, <1>8 DEF n
<1> QED BY <1>5, <1>6, <1>7, <1>10, <1>11, <1>12 DEF n

LEMMA PushCommitStep ==
  ASSUME IInv, NEW r \in Repos, PushCommit(r), NEW l, l = commits[r]
  PROVE  IInv'
<1> DEFINE top == CHOOSE v \in ToSet(l) : \A w \in ToSet(l) : w <= v
<1>1. /\ Tip(r) < MaxCommits[r] /\ UNCHANGED <<project, bumps, execs, requests>>
      /\ \E v \in {0, top, top + 1} : commits' = [commits EXCEPT ![r] = Append(@, v)]
  BY DEF PushCommit
<1>2. Types /\ l \in Seq(Nat) /\ l # <<>> /\ Len(l) = Tip(r) /\ DOMAIN l = 1 .. Tip(r)
  <2>1. Types /\ l \in Seq(Nat) /\ Len(l) = Tip(r) /\ Tip(r) \in Nat \ {0}
    BY ExecsFit, TipFacts DEF Types, Tip
  <2>2. l # <<>> /\ DOMAIN l = 1 .. Len(l)
    BY <2>1, EmptySeq, LenProperties
  <2> QED BY <2>1, <2>2
<1>3. top \in ToSet(l) /\ \A w \in ToSet(l) : w <= top
  BY <1>2, TopExists
<1> HIDE DEF top
<1>4. top \in Nat /\ \A i \in 1 .. Tip(r) : l[i] \in Nat /\ l[i] <= top
  <2>1. \A i \in 1 .. Tip(r) : l[i] \in Nat
    BY <1>2, ElementOfSeq
  <2> QED BY <1>2, <1>3, <2>1 DEF ToSet
<1>5. PICK v \in {0, top, top + 1} : CommitOn(r, v)
  BY <1>1 DEF CommitOn
<1>6. v \in Nat /\ NotBehind(r, v)
  <2>1. \A i \in 1 .. Tip(r) : commits[r][i] <= top /\ commits[r][i] <= top + 1
    BY <1>4
  <2> QED BY <1>4, <2>1 DEF NotBehind
<1>7. /\ commits' \in [Repos -> Seq(Nat)] /\ \A i \in Repos : Tip(i)' \in 1 .. MaxCommits[i]
      /\ \A i \in Repos : /\ Tip(i) \in Nat /\ Tip(i)' \in Nat /\ Tip(i) <= Tip(i)'
                          /\ \A j \in 1 .. Tip(i) : commits'[i][j] = commits[i][j]
      /\ OnlyRaised'
  BY <1>1, <1>5, <1>6, CommitFacts
<1>8. Execs' = Execs
  BY <1>1 DEF Execs
<1>9. Grows
  <2>1. \A e \in Execs : SameBuild(execs[e], execs'[e])
    BY <1>1 DEF SameBuild
  <2> QED BY <1>1, <1>7, <1>8, <2>1 DEF Grows
<1>10. Types'
  <2>1. Executions' = Executions /\ RequestStates' = RequestStates
    BY <1>8 DEF Executions, RequestStates, Contexts, Pendings
  <2> QED BY <1>1, <1>2, <1>7, <2>1 DEF Types
<1> QED BY <1>1, <1>7, <1>8, <1>9, <1>10, GrowthKeeps

LEMMA PushBumpStep ==
  ASSUME IInv, NEW e \in Execs, PushBump(e), NEW x, x = execs[e], NEW r, r = RepoOf[x.pipe], NEW n, n = Tip(r)
  PROVE  IInv'
<1> DEFINE raw == x.version.raw
           b == [repo |-> r, at |-> n + 1, raw |-> raw]
           y == [x EXCEPT !.status = "succeeded"]
<1>1. CASE ~FastForward(e)
  <2>1. SetStatus(e, "failed") /\ UNCHANGED <<project, commits, bumps, requests>>
    BY <1>1 DEF PushBump
  <2>2. "failed" \in Terminal
    BY SMTT(30) DEF Terminal
  <2> QED BY <2>1, <2>2, StatusStep
<1>2. CASE FastForward(e)
  <2>1. /\ x.status = "pushing" /\ x.base = n /\ n < MaxCommits[r]
        /\ commits' = [commits EXCEPT ![r] = Append(@, raw + 1)]
        /\ bumps' = bumps \cup {b}
        /\ execs' = [execs EXCEPT ![e] = y]
        /\ UNCHANGED <<project, requests>>
    BY <1>2 DEF PushBump, FastForward, SetStatus
  <2>2. /\ Types /\ x \in Executions /\ x.pipe \in Pipelines /\ BuildFits(x) /\ PushFits(x)
        /\ r \in Repos /\ n \in Nat \ {0} /\ OnlyRaised
    <3>1. Types /\ x \in Executions /\ x.pipe \in Pipelines
      BY ExecsFit, ExecsFacts DEF Executions
    <3>2. r \in Repos
      BY <3>1, Configured
    <3> QED BY <3>1, <3>2, ExecsFit, TipFacts DEF IInv, FittingPushes
  <2>3. raw \in Nat \ {0} /\ commits[r][n] = raw
    <3>1. x.bump /\ commits[r][n] = raw
      BY <2>1, <2>2 DEF PushFits
    <3>2. x.version \in Versions
      BY <2>2 DEF Executions
    <3> QED BY <2>2, <3>1, <3>2 DEF BuildFits, Versions
  <2>4. y \in Executions /\ SameBuild(x, y) /\ y.status = "succeeded" /\ y.base = n /\ y.pipe = x.pipe
    BY <2>1, <2>2 DEF Executions, SameBuild, Terminal
  <2> HIDE DEF raw, y
  <2>5. NotBehind(r, raw + 1)
    <3> SUFFICES ASSUME NEW i \in 1 .. Tip(r) PROVE commits[r][i] <= raw + 1
      BY DEF NotBehind
    <3>1. commits[r][i] \in Nat
      BY <2>2, ElementOfSeq DEF Types, Tip
    <3>2. i < n /\ commits[r][i] # 0 => commits[r][i] <= raw
      BY <2>2, <2>3 DEF OnlyRaised
    <3>3. i = n => commits[r][i] = raw
      BY <2>3
    <3> QED BY <2>2, <2>3, <3>1, <3>2, <3>3
  <2>6. CommitOn(r, raw + 1)
    BY <2>1 DEF CommitOn
  <2>7. /\ commits' \in [Repos -> Seq(Nat)] /\ \A i \in Repos : Tip(i)' \in 1 .. MaxCommits[i]
        /\ \A i \in Repos : /\ Tip(i) \in Nat /\ Tip(i)' \in Nat /\ Tip(i) <= Tip(i)'
                            /\ \A j \in 1 .. Tip(i) : commits'[i][j] = commits[i][j]
        /\ Tip(r)' = Tip(r) + 1 /\ commits'[r][Tip(r) + 1] = raw + 1
        /\ OnlyRaised'
    <3>1. raw + 1 \in Nat /\ Tip(r) < MaxCommits[r]
      BY <2>1, <2>3
    <3> QED BY <2>2, <2>5, <2>6, <3>1, CommitFacts
  <2>8. execs \in Seq(Executions) /\ Execs = 1 .. Len(execs) /\ Len(execs) \in Nat
    BY <2>2, ExecsFacts DEF Types
  <2>9. execs' \in Seq(Executions) /\ Len(execs') = Len(execs)
    BY <2>1, <2>4, <2>8, ExceptSeq
  <2>10. Execs' = Execs /\ \A i \in Execs : execs'[i] = IF i = e THEN y ELSE execs[i]
    BY SMTT(30), <2>1, <2>8, <2>9, LenProperties DEF Execs
  <2>11. Grows
    <3>1. \A i \in Execs : SameBuild(execs[i], execs'[i])
      BY <2>4, <2>10 DEF SameBuild
    <3> QED BY <2>1, <2>7, <2>10, <3>1 DEF Grows
  <2>12. b \in [repo : Repos, at : Nat, raw : Nat] /\ b.repo = r /\ b.at = n + 1 /\ b.raw = raw
    BY <2>2, <2>3
  <2> HIDE DEF b
  <2>13. b \in FittingBumps'
    <3>1. commits'[r][n] = raw /\ n + 1 \in 2 .. Tip(r)' /\ (n + 1) - 1 = n
      <4>1. n \in 1 .. Tip(r) /\ Tip(r)' = n + 1
        BY <2>2, <2>7
      <4>2. commits'[r][n] = commits[r][n]
        BY <2>2, <2>7, <4>1
      <4>3. n + 1 \in 2 .. n + 1 /\ (n + 1) - 1 = n
        BY <2>2
      <4> QED BY <2>3, <4>1, <4>2, <4>3
    <3>2. BumpFits(b)'
      BY SMTT(30), <2>3, <2>7, <2>12, <3>1 DEF BumpFits
    <3> QED BY <2>12, <3>2 DEF FittingBumps
  <2>14. Types'
    <3>1. Executions' = Executions /\ RequestStates' = RequestStates
      BY <2>10 DEF Executions, RequestStates, Contexts, Pendings
    <3>2. bumps' \subseteq [repo : Repos, at : Nat, raw : Nat]
      BY <2>1, <2>2, <2>12 DEF Types
    <3> QED BY <2>1, <2>2, <2>7, <2>9, <3>1, <3>2 DEF Types
  <2>15. y \in FittingPushes'
    <3>1. y \in Executions'
      BY <2>4, <2>14, <2>10, <2>11, StatesGrow
    <3>2. PushFits(y)'
      <4>1. n \in 0 .. Tip(r)'
        BY <2>2, <2>7
      <4> QED BY <2>4, <4>1 DEF PushFits
    <3> QED BY <3>1, <3>2 DEF FittingPushes
  <2> QED BY <2>1, <2>7, <2>10, <2>11, <2>13, <2>14, <2>15, GrowthKeeps
<1> QED BY <1>1, <1>2
-----------------------------------------------------------------------------
LEMMA InitInv == Init => IInv
<1> SUFFICES ASSUME Init PROVE IInv
  OBVIOUS
<1>1. /\ project \in Projects /\ commits = [r \in Repos |-> <<FirstRaw>>] /\ bumps = {} /\ execs = <<>>
      /\ requests = [q \in Requests |-> Idle]
  BY DEF Init
<1>2. Execs = {}
  BY <1>1 DEF Execs
<1>3. \A r \in Repos : commits[r] \in Seq(Nat) /\ Tip(r) = 1
  <2>1. FirstRaw \in Nat
    BY PipelinesAssumption
  <2> QED BY <1>1, <2>1 DEF Tip
<1>4. execs \in Seq(Executions) /\ Len(execs) = 0
  BY <1>1
<1>5. requests \in [Requests -> RequestStates] /\ \A q \in Requests : requests[q] \in FittingRequests
  <2>1. Idle \in FittingRequests /\ Idle \in RequestStates
    BY IdleFits DEF FittingRequests
  <2> HIDE DEF Idle
  <2> QED BY <1>1, <2>1
<1>6. MaxExecs \in Nat /\ MaxCommits \in [Repos -> Nat \ {0}]
  BY PipelinesAssumption
<1>7. commits \in [Repos -> Seq(Nat)]
  BY <1>1, <1>3
<1>8. Types
  <2>1. \A r \in Repos : Tip(r) \in 1 .. MaxCommits[r]
    BY <1>3, <1>6
  <2> QED BY <1>1, <1>4, <1>5, <1>6, <1>7, <2>1 DEF Types
<1>9. OnlyRaised
  BY <1>3 DEF OnlyRaised
<1> QED BY <1>1, <1>2, <1>5, <1>8, <1>9 DEF IInv

LEMMA NextInv == IInv /\ [Next]_vars => IInv'
<1> SUFFICES ASSUME IInv, [Next]_vars PROVE IInv'
  OBVIOUS
<1>1. ASSUME NEW q \in Requests, NEW p \in Alone, RunPipeline(q, p) \/ RunJob(q, p) PROVE IInv'
  BY <1>1, RunStep
<1>2. ASSUME NEW q \in Requests, RunChain(q) PROVE IInv'
  BY <1>2, RunStep
<1>3. ASSUME NEW q \in Requests, Resolve(q) PROVE IInv'
  <2>1. PICK rq, p : rq = requests[q] /\ p = Current(q)
    OBVIOUS
  <2> QED BY <1>3, <2>1, ResolveStep
<1>4. ASSUME NEW q \in Requests, ResolveCached(q) PROVE IInv'
  <2>1. PICK rq, p : rq = requests[q] /\ p = Current(q)
    OBVIOUS
  <2> QED BY <1>4, <2>1, ResolveCachedStep
<1>5. ASSUME NEW q \in Requests, Pin(q) PROVE IInv'
  <2>1. PICK rq, p : rq = requests[q] /\ p = Current(q)
    OBVIOUS
  <2> QED BY <1>5, <2>1, PinStep
<1>6. ASSUME NEW q \in Requests, NEW e \in Execs, BeginRerun(q, e) PROVE IInv'
  <2>1. PICK x : x = execs[e]
    OBVIOUS
  <2> QED BY <1>6, <2>1, BeginRerunStep
<1>7. ASSUME NEW q \in Requests, Create(q) PROVE IInv'
  <2>1. PICK rq, n, m : rq = requests[q] /\ n = Len(execs) /\ m = Len(rq.built)
    OBVIOUS
  <2> QED BY <1>7, <2>1, CreateStep
<1>8. ASSUME NEW e \in Execs, StartJob(e) PROVE IInv'
  <2>1. PICK x : x = execs[e]
    OBVIOUS
  <2> QED BY <1>8, <2>1, StartStep
<1>9. ASSUME NEW e \in Execs, NEW s \in Terminal, EndJob(e, s) PROVE IInv'
  <2>1. PICK x : x = execs[e]
    OBVIOUS
  <2>2. SetStatus(e, s) /\ UNCHANGED <<project, commits, bumps, requests>>
    BY <1>9 DEF EndJob
  <2> QED BY <2>1, <2>2, StatusStep
<1>10. ASSUME NEW e \in Execs, CancelQueued(e) PROVE IInv'
  <2>1. PICK x : x = execs[e]
    OBVIOUS
  <2>2. SetStatus(e, "failed") /\ UNCHANGED <<project, commits, bumps, requests>>
    BY <1>10 DEF CancelQueued
  <2>3. "failed" \in Terminal
    BY DEF Terminal
  <2> QED BY <2>1, <2>2, <2>3, StatusStep
<1>11. ASSUME NEW e \in Execs, FetchBranch(e) PROVE IInv'
  <2>1. PICK x, n, s : /\ x = execs[e] /\ n = Tip(RepoOf[x.pipe])
                       /\ s = IF StillCurrent(e) THEN "pushing" ELSE "failed"
    OBVIOUS
  <2> QED BY <1>11, <2>1, FetchStep
<1>12. ASSUME NEW e \in Execs, PushBump(e) PROVE IInv'
  <2>1. PICK x, r, n : x = execs[e] /\ r = RepoOf[x.pipe] /\ n = Tip(r)
    OBVIOUS
  <2> QED BY <1>12, <2>1, PushBumpStep
<1>13. ASSUME NEW e \in Execs, Reconcile(e) PROVE IInv'
  <2>1. PICK x, t : x = execs[e] /\ t = Artifacts(x.pipe, BindsTo(e))
    OBVIOUS
  <2> QED BY <1>13, <2>1, ReconcileStep
<1>14. ASSUME NEW r \in Repos, PushCommit(r) PROVE IInv'
  <2>1. PICK l : l = commits[r]
    OBVIOUS
  <2> QED BY <1>14, <2>1, PushCommitStep
<1>15. CASE UNCHANGED vars
  <2>1. UNCHANGED <<project, commits, bumps, execs, requests>>
    BY <1>15 DEF vars
  <2>2. Types /\ Execs' = Execs /\ \A r : Tip(r)' = Tip(r)
    BY <2>1 DEF IInv, Execs, Tip
  <2>3. Grows
    <3>1. \A r \in Repos : Tip(r) \in Nat
      BY <2>2 DEF Types
    <3> QED BY <2>1, <2>2, <3>1 DEF Grows, SameBuild
  <2>4. Types' /\ OnlyRaised'
    <3>1. Executions' = Executions /\ RequestStates' = RequestStates
      BY <2>2 DEF Executions, RequestStates, Contexts, Pendings
    <3> QED BY <2>1, <2>2, <3>1 DEF IInv, Types, OnlyRaised
  <2> QED BY <2>1, <2>2, <2>3, <2>4, GrowthKeeps
<1> QED BY <1>1, <1>2, <1>3, <1>4, <1>5, <1>6, <1>7, <1>8, <1>9, <1>10, <1>11, <1>12, <1>13, <1>14, <1>15
        DEF Next
-----------------------------------------------------------------------------
(* The invariant of this module holds throughout.                         *)
THEOREM Invariance == Spec => []IInv
BY InitInv, NextInv, PTL DEF Spec

LEMMA TypesHold == IInv => TypeOK
<1> SUFFICES ASSUME IInv PROVE TypeOK
  OBVIOUS
<1>1. Types /\ \A e \in Execs : execs[e] \in FittingBuilds \cap FittingPushes /\ PlaceFits(e)
  BY DEF IInv, Types
<1>2. \A b \in bumps : b.at \in 2 .. Tip(b.repo)
  BY DEF IInv, FittingBumps, BumpFits
<1>3. ASSUME NEW e \in Execs
      PROVE  LET x == execs[e] IN
             /\ x.job \in ToSet(JobsOf[x.pipe])
             /\ x.ref \in 1 .. Tip(RepoOf[x.pipe]) /\ x.base \in 0 .. Tip(RepoOf[x.pipe])
             /\ x.run \in 1 .. e /\ x.root \in 1 .. e /\ x.chain \in 0 .. e
  BY <1>1 DEF FittingBuilds, FittingPushes, BuildFits, PushFits, PlaceFits
<1>4. ASSUME NEW q \in Requests
      PROVE  LET rq == requests[q] IN
             /\ rq.dep.ok
             /\ \A i \in DOMAIN rq.built : LET b == rq.built[i] IN
                  b.job \in ToSet(JobsOf[b.pipe]) /\ b.ref \in 1 .. Tip(RepoOf[b.pipe])
  <2>1. RequestFits(requests[q])
    BY DEF IInv, FittingRequests
  <2> QED BY <2>1 DEF RequestFits, BuildFits
<1> QED BY <1>1, <1>2, <1>3, <1>4 DEF TypeOK, Types

(* The state has the types that TypeOK gives it; a request and an execution *)
(* build a commit that their repository has.                                *)
THEOREM TypeCorrect == Spec => []TypeOK
BY Invariance, TypesHold, PTL

(* Two bumps of one version would need the version file set back between   *)
(* them, which neither a user nor a bump does.                             *)
LEMMA BumpsFit == IInv => BumpsFollow
<1> SUFFICES ASSUME IInv PROVE BumpsFollow
  OBVIOUS
<1>1. Types /\ OnlyRaised
  BY DEF IInv
<1>2. ASSUME NEW b \in bumps
      PROVE  /\ b \in [repo : Repos, at : Nat, raw : Nat] /\ b.repo \in Repos /\ b.raw \in Nat \ {0}
             /\ Tip(b.repo) \in Nat /\ b.at \in 2 .. Tip(b.repo)
             /\ commits[b.repo][b.at - 1] = b.raw /\ commits[b.repo][b.at] = b.raw + 1
  <2>1. b \in [repo : Repos, at : Nat, raw : Nat] /\ BumpFits(b)
    BY DEF IInv, FittingBumps
  <2> QED BY <1>1, <2>1, TipFacts DEF BumpFits
<1>3. ASSUME NEW a \in bumps, NEW b \in bumps, a.repo = b.repo, a.raw = b.raw
      PROVE  ~(a.at < b.at)
  <2> SUFFICES ASSUME a.at < b.at PROVE FALSE
    OBVIOUS
  <2> DEFINE r == a.repo
             i == a.at
             j == b.at - 1
  <2>1. /\ r \in Repos /\ Tip(r) \in Nat /\ a.at \in 2 .. Tip(r) /\ b.at \in 2 .. Tip(r) /\ a.raw \in Nat \ {0}
        /\ commits[r][i] = a.raw + 1 /\ commits[r][j] = a.raw
    BY <1>2, <1>3
  <2>2. i \in 1 .. Tip(r) /\ j \in 1 .. Tip(r) /\ (i = j \/ i < j)
    BY <2>1
  <2> HIDE DEF r, i, j
  <2>3. CASE i = j
    BY <2>1, <2>3
  <2>4. CASE i < j
    <3>1. commits[r][i] <= commits[r][j]
      BY <1>1, <2>1, <2>2, <2>4 DEF OnlyRaised
    <3> QED BY <2>1, <3>1
  <2> QED BY <2>2, <2>3, <2>4
<1>4. ASSUME NEW a \in bumps, NEW b \in bumps, a.repo = b.repo, a.raw = b.raw
      PROVE  a = b
  <2>1. a.at = b.at
    BY <1>2, <1>3, <1>4
  <2> QED BY <1>2, <1>4, <2>1
<1> QED BY <1>2, <1>4 DEF BumpsFollow

(* Each automatic bump is committed on top of the version that it was       *)
(* computed from, and no version is bumped twice, however many runs of it   *)
(* there are and whatever is pushed in between: the fetch and the           *)
(* comparison with the branch are as old as the push at most (FetchBranch   *)
(* and PushBump, the steps that versioning adds to the job).                *)
THEOREM BumpsAreFollowed == Spec => []BumpsFollow
BY Invariance, BumpsFit, PTL

LEMMA SourcesFit == IInv => VersionIsOfSource
BY DEF IInv, FittingBuilds, BuildFits, OfItsSource, VersionIsOfSource

(* An execution with a version builds the commit whose version file has it, *)
(* if it read the version itself or has nothing to do with a second         *)
(* repository: through dependencies, chains, reruns, runs from caches and   *)
(* pushes while a request is under way (resolvePipelineRunContext,          *)
(* mergePipelineDependencyContext, prepareJobExecutionRerun).               *)
THEOREM VersionsAreOfTheirSource == Spec => []VersionIsOfSource
BY Invariance, SourcesFit, PTL

LEMMA ChainsFit == IInv => ChainIsOneBuild
BY DEF IInv, PlaceFits, Agrees, ChainIsOneBuild

(* The executions of a chain share the version of the first pipeline, and   *)
(* its commit where they build its repository, reruns included              *)
(* (server_pipeline_chains.go, prepareJobExecutionRerun).                   *)
THEOREM AChainIsOneBuild == Spec => []ChainIsOneBuild
BY Invariance, ChainsFit, PTL
-----------------------------------------------------------------------------
(* Sources that dependencies have proven, for the configurations in which  *)
(* the code can pin them: the dependencies of a pipeline are all in its    *)
(* repository or all outside, for the merger of several repositories pins  *)
(* no commit; what a pipeline of a chain, other than the first, depends on *)
(* in its repository is in the chain, and the first pipeline is of this    *)
(* repository, too; and a pipeline that inherits its version only, having  *)
(* no version file, does not depend on one that may read its own.  Without *)
(* one of these the commit is looked up again, and the head may have moved *)
(* (mergePipelineDependencyContext, enqueuePersistedPipeline...).          *)
DependenciesPin ==
  /\ \A p \in Pipelines : \A d, f \in ToSet(DependsOn[p]) : RepoOf[d] = RepoOf[p] => RepoOf[f] = RepoOf[p]
  /\ \A i \in 2 .. Len(Chain) : \A d \in ToSet(DependsOn[Chain[i]]) : RepoOf[d] = RepoOf[Chain[i]] =>
       /\ RepoOf[d] = RepoOf[Chain[1]] /\ d \in ToSet(Chain)
       /\ d = Chain[1] \/ d \notin Versioned \/ Chain[i] \in Versioned

\* What p depends on in its repository has succeeded at this commit.
Proven(p, ref) == \A d \in ToSet(DependsOn[p]) : RepoOf[d] = RepoOf[p] => ProvenAt(d, ref)

(* Attempts are of one run, and a run is of one pipeline at one commit. *)
SameAttempts(x, y) ==
  /\ x.root = y.root => x.run = y.run
  /\ x.run = y.run => x.pipe = y.pipe /\ x.ref = y.ref /\ x.chain = y.chain

(* In a chain whose first execution is f, x builds the commit of f if its  *)
(* pipeline cannot read a version; and if x inherited a version though it  *)
(* could have read one, everything in the repository of f is at one commit.*)
KeepsCommit(x, f) ==
  RepoOf[x.pipe] = RepoOf[f.pipe] /\ (x.pipe = f.pipe \/ x.pipe \notin Versioned) => x.ref = f.ref

Shares(x, y, f) ==
  ~x.own /\ x.pipe \in Versioned /\ x.pipe # f.pipe /\ RepoOf[y.pipe] = RepoOf[f.pipe] => y.ref = f.ref

WaitsForAll(x) == ToSet(DependsOn[x.pipe]) \cap ToSet(Chain) \subseteq ToSet(x.waits)

InChain(c, p) == {y \in Execs : execs[y].chain = c /\ execs[y].pipe = p}

(* A chain is complete from the start. *)
ChainFits(x) ==
  /\ x.chain = 0 => x.waits = <<>>
  /\ x.chain # 0 =>
       /\ x.pipe \in ToSet(Chain) /\ execs[x.chain].pipe = Chain[1]
       /\ x.waits # <<>> => WaitsForAll(x)
       /\ \A p \in ToSet(Chain) : InChain(x.chain, p) # {}
       /\ KeepsCommit(x, execs[x.chain])

(* What inherits has proven dependencies once it has been released, and    *)
(* from the start if it is not released by a chain.                        *)
ReleaseFits(x) ==
  /\ x.again \/ x.status \in {"running", "pushing", "succeeded"} => x.waits = <<>>
  /\ ~x.own /\ x.waits = <<>> /\ x.status # "failed" => Proven(x.pipe, x.ref)
  /\ ~x.own /\ (x.chain = 0 \/ x.pipe = Chain[1]) => Proven(x.pipe, x.ref)

(* The dependencies of the first pipeline are proven where they pin it. *)
FirstPinned(rq) ==
  rq.pc \in {"resolve", "pin"} /\ rq.built = <<>> =>
    \A d \in ToSet(DependsOn[rq.todo[1]]) : RepoOf[d] = RepoOf[rq.todo[1]] =>
      rq.dep.repo = RepoOf[rq.todo[1]] /\ rq.dep.ref # 0 /\ ProvenAt(d, rq.dep.ref)

(* A commit that is looked up was not pinned, or the version will be there.*)
LooksUp(rq) ==
  rq.pc = "pin" =>
    \/ rq.ctx.own /\ Here(rq) \in Versioned /\ rq.dep.version = NoVersion
    \/ /\ ~rq.ctx.own /\ PinnedRef(Here(rq), rq.dep) = 0
       /\ rq.dep.version # NoVersion \/ Here(rq) \notin Versioned

\* An execution among those that a request has built; f is the first of them.
PartFits(rq, b, f) ==
  /\ Len(rq.todo) = 1 => b.waits = <<>>
  /\ Len(rq.todo) > 1 => WaitsForAll(b)
  /\ b.pipe # rq.todo[1] => b.waits # <<>>
  /\ b.pipe = rq.todo[1] /\ ~b.own => Proven(b.pipe, b.ref)
  /\ KeepsCommit(b, f)
  /\ rq.kind = "offline" => RepoOf[b.pipe] = RepoOf[f.pipe] /\ b.ref = f.ref
  /\ rq.kind # "offline" /\ f.version = NoVersion /\ b.pipe \in Versioned /\ b.pipe # f.pipe => b.own

(* The pipelines of a list are built one after the other, all of them in   *)
(* the end.                                                                *)
PartsFit(rq) ==
  rq.clone = 0 /\ rq.pc # "idle" =>
    /\ rq.todo # <<>> /\ (Len(rq.todo) > 1 => rq.todo = Chain)
    /\ {rq.built[i].pipe : i \in DOMAIN rq.built} = {rq.todo[k] : k \in 1 .. At(rq) - 1}
    /\ rq.built # <<>> => rq.built[1].pipe = rq.todo[1]
    /\ rq.pc = "create" => At(rq) = Len(rq.todo) + 1
    /\ \A i, j \in DOMAIN rq.built : rq.built[i].pipe = rq.built[j].pipe => rq.built[i].ref = rq.built[j].ref
    /\ \A i \in DOMAIN rq.built : PartFits(rq, rq.built[i], rq.built[1])

(* What is run again had been released, and is released again.             *)
CopyFits(rq) ==
  rq.clone # 0 =>
    /\ rq.pc = "create" /\ Len(rq.built) = 1
    /\ rq.built[1].pipe = execs[rq.clone].pipe /\ rq.built[1].ref = execs[rq.clone].ref
    /\ rq.built[1].own = execs[rq.clone].own /\ rq.built[1].waits = <<>>
    /\ ~rq.built[1].own => Proven(rq.built[1].pipe, rq.built[1].ref)

SourceFits(rq) == FirstPinned(rq) /\ LooksUp(rq) /\ PartsFit(rq) /\ CopyFits(rq)

SoundExecutions == {x \in Executions : ChainFits(x) /\ ReleaseFits(x)}
SoundRequests == {rq \in RequestStates : SourceFits(rq)}

SoundExecs ==
  /\ \A e, f \in Execs : SameAttempts(execs[e], execs[f])
  /\ \A e, f \in Execs : execs[e].chain # 0 /\ execs[f].chain = execs[e].chain =>
       Shares(execs[e], execs[f], execs[execs[e].chain])
  /\ \A e \in Execs : execs[e] \in SoundExecutions

SourceInv == IInv /\ DependenciesPin /\ SoundExecs /\ \A q \in Requests : requests[q] \in SoundRequests
-----------------------------------------------------------------------------
(* A run that is fine proves its commit. *)
LEMMA RunProves ==
  ASSUME Types, \A e, f \in Execs : SameAttempts(execs[e], execs[f]),
         NEW X \in SUBSET Execs, NEW e \in X,
         \A x \in Execs : execs[x].run = execs[e].run => x \in X,
         \A y \in LatestAttempts(X) : execs[y].run = execs[e].run => execs[y].status = "succeeded"
  PROVE  ProvenAt(execs[e].pipe, execs[e].ref)
<1> DEFINE r == execs[e].run
<1>1. ASSUME NEW x \in Execs, execs[x].run = r
      PROVE  /\ execs[x].ref = execs[e].ref
             /\ \E y \in Execs : execs[y].root = execs[x].root /\ execs[y].status = "succeeded"
  <2>1. x \in X /\ execs[x].ref = execs[e].ref
    BY <1>1 DEF SameAttempts
  <2> DEFINE S == {y \in X : execs[y].root = execs[x].root}
  <2>2. S \in SUBSET (0 .. Len(execs)) /\ Len(execs) \in Nat /\ S # {}
    BY <2>1, ExecsFacts
  <2>3. PICK y \in S : \A z \in S : z <= y
    <3> HIDE DEF S
    <3> QED BY <2>2, GreatestExists
  <2>4. y \in X /\ y \in Execs /\ execs[y].root = execs[x].root
    BY <2>3
  <2>5. y \in LatestAttempts(X)
    BY <2>3, <2>4 DEF LatestAttempts
  <2>6. execs[y].run = r
    BY <1>1, <2>4 DEF SameAttempts
  <2> QED BY <2>1, <2>4, <2>5, <2>6
<1>2. e \in {y \in Execs : execs[y].pipe = execs[e].pipe}
  OBVIOUS
<1> QED BY <1>1, <1>2 DEF ProvenAt

LEMMA VerifiedIsProven ==
  ASSUME Types, \A e, f \in Execs : SameAttempts(execs[e], execs[f]),
         NEW X \in SUBSET Execs, NEW d, NEW v, v = VerifyDependencyRun(X, d), v.ok,
         \A x \in X, y \in Execs : execs[y].run = execs[x].run => y \in X
  PROVE  /\ v.repo = RepoOf[d]
         /\ \E e \in X : /\ execs[e].pipe = d /\ v.ref = execs[e].ref /\ v.own = execs[e].own
                         /\ execs[e].status = "succeeded" /\ ProvenAt(d, v.ref)
<1>1. v # Refused
  BY BlankContext
<1>2. PICK e \in X, R \in SUBSET X :
        /\ execs[e].pipe = d /\ e \in R
        /\ R = {y \in LatestAttempts(X) : execs[y].pipe = d /\ execs[y].run = execs[e].run}
        /\ Succeeded(R)
        /\ v = [ok |-> TRUE, version |-> execs[e].version, repo |-> RepoOf[d], ref |-> execs[e].ref,
                runs |-> R, own |-> execs[e].own]
  BY <1>1, VerifyFacts
<1>3. v.repo = RepoOf[d] /\ v.ref = execs[e].ref /\ v.own = execs[e].own /\ execs[e].status = "succeeded"
  BY <1>2 DEF Succeeded
<1>4. \A y \in LatestAttempts(X) : execs[y].run = execs[e].run => execs[y].status = "succeeded"
  BY <1>2 DEF Succeeded, SameAttempts, LatestAttempts
<1>5. ProvenAt(d, execs[e].ref)
  BY <1>2, <1>4, RunProves
<1> QED BY <1>2, <1>3, <1>5

(* Contexts that all pin a commit of one repository pin the same one. *)
LEMMA MergedPins ==
  ASSUME Types, NEW r, NEW ctxs \in Seq(Contexts), MergeAll(ctxs).ok,
         \A i \in 1 .. Len(ctxs) : ctxs[i].ok => ctxs[i].repo = r /\ ctxs[i].ref # 0
  PROVE  \A i \in 1 .. Len(ctxs) :
           ctxs[i].ok /\ MergeAll(ctxs).repo = r /\ MergeAll(ctxs).ref = ctxs[i].ref
<1> DEFINE n == Len(ctxs)
<1>1. PICK f \in [0 .. n -> Contexts] :
        /\ f[0] = NoContext
        /\ \A k \in 1 .. n : f[k] = MergeContext(f[k - 1], ctxs[k])
        /\ MergeAll(ctxs) = f[n]
  BY BlankContext, MergeStays, MergeAllUnfolds
<1>2. n \in Nat /\ \A i \in 1 .. n : ctxs[i] \in Contexts
  BY LenProperties, ElementOfSeq
<1> DEFINE Pins(k) == \A i \in 1 .. k : ctxs[i].ok /\ f[k].repo = r /\ f[k].ref = ctxs[i].ref
           T == {k \in 0 .. n : f[k].ok /\ ~Pins(k)}
<1> HIDE DEF n
<1>3. T = {}
  <2> SUFFICES ASSUME T # {} PROVE FALSE
    OBVIOUS
  <2>1. T \in SUBSET Nat
    BY <1>2
  <2>2. PICK k \in T : \A y \in T : k <= y
    <3> HIDE DEF T
    <3> QED BY <2>1, LeastExists
  <2>3. k \in 0 .. n /\ f[k].ok /\ ~Pins(k)
    BY <2>2
  <2>4. k # 0
    BY <2>3
  <2> DEFINE a == f[k - 1]
             b == ctxs[k]
             c == f[k]
  <2>5. /\ k \in 1 .. n /\ k - 1 \in 0 .. n /\ ~(k <= k - 1)
        /\ a \in Contexts /\ b \in Contexts /\ c = MergeContext(a, b) /\ c # Refused
    BY <1>1, <1>2, <2>3, <2>4, BlankContext
  <2>6. /\ a.ok /\ b.ok
        /\ \/ b.ref = 0 /\ c.repo = a.repo /\ c.ref = a.ref
           \/ b.ref # 0 /\ a.ref = 0 /\ c.repo = b.repo /\ c.ref = b.ref
           \/ a.ref # 0 /\ b.ref # 0 /\ a.repo = b.repo /\ a.ref = b.ref /\ c.repo = a.repo /\ c.ref = a.ref
           \/ a.ref # 0 /\ b.ref # 0 /\ a.repo # b.repo /\ c.repo = "none" /\ c.ref = 0
    <3> HIDE DEF a, b, c
    <3> QED BY <2>5, MergeFacts
  <2>7. b.repo = r /\ b.ref # 0
    BY <2>5, <2>6 DEF n
  <2>8. Pins(k - 1)
    BY <2>2, <2>5, <2>6
  <2>9. CASE k = 1
    <3>1. a.ref = 0
      BY <1>1, <2>9 DEF NoContext
    <3>2. c.repo = r /\ c.ref = b.ref
      BY <2>6, <2>7, <3>1
    <3> QED BY <2>3, <2>6, <2>9, <3>2
  <2>10. CASE k # 1
    <3>1. k - 1 \in 1 .. k - 1 /\ k - 1 \in 1 .. n
      BY <2>4, <2>5, <2>10
    <3>2. ctxs[k - 1].ok /\ a.repo = r /\ a.ref = ctxs[k - 1].ref
      BY <2>8, <3>1
    <3>3. a.ref # 0
      BY <3>1, <3>2 DEF n
    <3>4. c.repo = r /\ c.ref = a.ref /\ c.ref = b.ref
      BY <2>6, <2>7, <3>2, <3>3
    <3>5. \A i \in 1 .. k : i = k \/ i \in 1 .. k - 1
      BY <2>5
    <3>6. \A i \in 1 .. k : ctxs[i].ok /\ c.repo = r /\ c.ref = ctxs[i].ref
      BY <2>6, <2>8, <3>4, <3>5
    <3> QED BY <2>3, <3>6
  <2> QED BY <2>9, <2>10
<1>4. n \in 0 .. n /\ f[n].ok
  BY <1>1, <1>2
<1>5. Pins(n)
  BY <1>3, <1>4
<1> QED BY <1>1, <1>5 DEF n

(* What one dependency in its own repository pins, all of them pin. *)
LEMMA DependenciesPinned ==
  ASSUME Types, \A e \in Execs : BuildFits(execs[e]), \A e, f \in Execs : SameAttempts(execs[e], execs[f]),
         DependenciesPin, NEW p \in Pipelines, NEW d \in ToSet(DependsOn[p]), RepoOf[d] = RepoOf[p],
         NEW R, \A g \in Pipelines : R[g] \in SUBSET Execs,
         \A g \in Pipelines : \A x \in R[g], y \in Execs : execs[y].run = execs[x].run => y \in R[g],
         NEW c, c = MergeAll([i \in DOMAIN DependsOn[p] |-> VerifyDependencyRun(R[DependsOn[p][i]], DependsOn[p][i])]),
         c.ok
  PROVE  /\ c.repo = RepoOf[p] /\ c.ref # 0 /\ ProvenAt(d, c.ref)
         /\ \E e \in R[d] : execs[e].pipe = d /\ execs[e].ref = c.ref
<1> DEFINE ds == DependsOn[p]
           r == RepoOf[p]
           ctxs == [i \in DOMAIN ds |-> VerifyDependencyRun(R[ds[i]], ds[i])]
<1>1. /\ ds \in Seq(Pipelines) /\ Len(ds) \in Nat /\ DOMAIN ds = 1 .. Len(ds)
      /\ \A i \in 1 .. Len(ds) : ds[i] \in Pipelines
  <2>1. ds \in Seq(Pipelines)
    BY Configured
  <2> HIDE DEF ds
  <2> QED BY <2>1, LenProperties, ElementOfSeq
<1>2. \A i \in 1 .. Len(ds) : RepoOf[ds[i]] = r
  <2>1. \A i \in 1 .. Len(ds) : ds[i] \in ToSet(ds)
    BY <1>1 DEF ToSet
  <2> QED BY <2>1 DEF DependenciesPin
<1>3. PICK j \in 1 .. Len(ds) : ds[j] = d
  BY <1>1 DEF ToSet
<1>4. c = MergeAll(ctxs)
  OBVIOUS
<1>5. ASSUME NEW i \in 1 .. Len(ds)
      PROVE  /\ ctxs[i] = VerifyDependencyRun(R[ds[i]], ds[i])
             /\ ctxs[i] \in Contexts
             /\ ctxs[i].ok => ctxs[i].repo = r /\ ctxs[i].ref # 0
  <2>1. ctxs[i] = VerifyDependencyRun(R[ds[i]], ds[i])
    BY <1>1
  <2> PICK v : v = ctxs[i]
    OBVIOUS
  <2>2. R[ds[i]] \in SUBSET Execs /\ ds[i] \in Pipelines
    BY <1>1
  <2>3. /\ v \in FittingContexts
        /\ v.ok => v.ref # 0 /\ v.repo = RepoOf[ds[i]]
    <3> HIDE DEF ds, ctxs
    <3> QED BY <2>1, <2>2, VerifiedFits
  <2>4. v \in Contexts /\ (v.ok => v.repo = r /\ v.ref # 0)
    <3> HIDE DEF ctxs, r, ds
    <3> QED BY <1>2, <2>3 DEF FittingContexts
  <2> HIDE DEF ctxs
  <2> QED BY <2>1, <2>4
<1>6. DOMAIN ctxs = 1 .. Len(ds)
  BY <1>1
<1> HIDE DEF ctxs, ds
<1>7. ctxs \in Seq(Contexts) /\ Len(ctxs) = Len(ds)
  <2>1. ctxs \in [1 .. Len(ds) -> Contexts]
    BY <1>1, <1>5, <1>6 DEF ctxs
  <2>2. ctxs \in Seq(Contexts)
    BY <1>1, <2>1, SeqDef
  <2> QED BY <1>1, <1>6, <2>2, LenProperties
<1>8. ctxs[j].ok /\ c.repo = r /\ c.ref = ctxs[j].ref
  <2> DEFINE n == Len(ctxs)
  <2>1. \A i \in 1 .. n : ctxs[i].ok => ctxs[i].repo = r /\ ctxs[i].ref # 0
    BY <1>5, <1>7
  <2>2. ctxs \in Seq(Contexts) /\ MergeAll(ctxs).ok /\ j \in 1 .. n
    BY <1>4, <1>7
  <2>3. \A i \in 1 .. n : ctxs[i].ok /\ MergeAll(ctxs).repo = r /\ MergeAll(ctxs).ref = ctxs[i].ref
    <3> HIDE DEF r
    <3> QED BY ZenonT(60), <2>1, <2>2, MergedPins
  <2> QED BY <1>4, <2>2, <2>3
<1>9. \E e \in R[d] : execs[e].pipe = d /\ ctxs[j].ref = execs[e].ref /\ ProvenAt(d, ctxs[j].ref)
  <2>1. d \in Pipelines
    BY <1>1, <1>3
  <2>2. ctxs[j] = VerifyDependencyRun(R[d], d)
    BY <1>3, <1>5
  <2>3. R[d] \in SUBSET Execs /\ \A x \in R[d], y \in Execs : execs[y].run = execs[x].run => y \in R[d]
    BY <2>1
  <2> QED BY <1>8, <2>2, <2>3, VerifiedIsProven
<1> QED BY <1>3, <1>5, <1>8, <1>9

LEMMA CheckPins ==
  ASSUME Types, \A e \in Execs : BuildFits(execs[e]), \A e, f \in Execs : SameAttempts(execs[e], execs[f]),
         DependenciesPin, NEW p \in Pipelines, NEW d \in ToSet(DependsOn[p]), RepoOf[d] = RepoOf[p],
         NEW c, c = CheckDependencies(p), c.ok
  PROVE  c.repo = RepoOf[p] /\ c.ref # 0 /\ ProvenAt(d, c.ref)
<1> DEFINE R == [g \in Pipelines |-> Execs]
           ds == DependsOn[p]
<1>1. ds \in Seq(Pipelines)
  BY Configured
<1>2. \A i \in DOMAIN ds : ds[i] \in Pipelines
  BY <1>1, LenProperties, ElementOfSeq
<1>3. [i \in DOMAIN ds |-> VerifyDependencyRun(Execs, ds[i])] = [i \in DOMAIN ds |-> VerifyDependencyRun(R[ds[i]], ds[i])]
  BY <1>2
<1>4. c = MergeAll([i \in DOMAIN ds |-> VerifyDependencyRun(Execs, ds[i])])
  BY DEF CheckDependencies
<1>5. c = MergeAll([i \in DOMAIN ds |-> VerifyDependencyRun(R[ds[i]], ds[i])])
  BY <1>3, <1>4
<1>6. \A g \in Pipelines : R[g] = Execs
  OBVIOUS
<1> HIDE DEF R
<1> QED BY <1>5, <1>6, DependenciesPinned

LEMMA ChainPins ==
  ASSUME Types, \A e \in Execs : BuildFits(execs[e]), \A e, f \in Execs : SameAttempts(execs[e], execs[f]),
         DependenciesPin, NEW p \in Pipelines, NEW d \in ToSet(DependsOn[p]), RepoOf[d] = RepoOf[p],
         NEW n, InChain(n, d) # {}, NEW c, c = ChainContext(p, n), c.ok
  PROVE  \E e \in InChain(n, d) : ProvenAt(d, execs[e].ref)
<1> DEFINE R == [g \in Pipelines |-> IF InChain(n, g) # {} THEN InChain(n, g) ELSE Execs]
           ds == DependsOn[p]
<1>1. ds \in Seq(Pipelines)
  BY Configured
<1>2. /\ \A i \in DOMAIN ds : ds[i] \in Pipelines
      /\ d \in Pipelines
  <2>1. \A i \in DOMAIN ds : ds[i] \in Pipelines
    BY <1>1, LenProperties, ElementOfSeq
  <2> QED BY <2>1 DEF ToSet
<1>3. c = MergeAll([i \in DOMAIN ds |->
            VerifyDependencyRun(IF InChain(n, ds[i]) # {} THEN InChain(n, ds[i]) ELSE Execs, ds[i])])
  BY DEF ChainContext, InChain
<1>4. c = MergeAll([i \in DOMAIN ds |-> VerifyDependencyRun(R[ds[i]], ds[i])])
  <2>1. \A i \in DOMAIN ds : R[ds[i]] = IF InChain(n, ds[i]) # {} THEN InChain(n, ds[i]) ELSE Execs
    BY <1>2
  <2> HIDE DEF R
  <2> QED BY <1>3, <2>1
<1>5. ASSUME NEW g \in Pipelines
      PROVE  R[g] \in SUBSET Execs /\ \A x \in R[g], y \in Execs : execs[y].run = execs[x].run => y \in R[g]
  <2>1. R[g] = InChain(n, g) \/ R[g] = Execs
    OBVIOUS
  <2> HIDE DEF R
  <2> QED BY <2>1 DEF InChain, SameAttempts
<1>6. R[d] = InChain(n, d)
  BY <1>2
<1> HIDE DEF R
<1>7. /\ ProvenAt(d, c.ref)
      /\ \E e \in R[d] : execs[e].pipe = d /\ execs[e].ref = c.ref
  BY <1>4, <1>5, DependenciesPinned
<1> QED BY <1>6, <1>7
-----------------------------------------------------------------------------
(* Executions succeed for good, and what is added is a run of its own or   *)
(* another attempt in a run, at its commit.                                *)
Advances ==
  /\ project' = project /\ Execs \subseteq Execs'
  /\ \A e \in Execs : /\ SameBuild(execs[e], execs'[e])
                      /\ execs[e].status = "succeeded" => execs'[e].status = "succeeded"
  /\ \A e \in Execs' \ Execs :
       \/ \A z \in Execs : execs[z].run # execs'[e].run
       \/ \E z \in Execs : /\ execs'[e].run = execs[z].run /\ execs'[e].ref = execs[z].ref
                           /\ execs'[e].root = execs[z].root

(* What has been proven stays so. *)
LEMMA ProvenStays ==
  ASSUME Advances, NEW d, NEW n, ProvenAt(d, n)
  PROVE  ProvenAt(d, n)'
<1>1. PICK r \in {execs[x].run : x \in {y \in Execs : execs[y].pipe = d}} :
        \A x \in Execs : execs[x].run = r =>
          /\ execs[x].ref = n
          /\ \E y \in Execs : execs[y].root = execs[x].root /\ execs[y].status = "succeeded"
  BY DEF ProvenAt
<1>2. PICK x0 \in Execs : execs[x0].pipe = d /\ execs[x0].run = r
  BY <1>1
<1>3. x0 \in Execs' /\ execs'[x0].pipe = d /\ execs'[x0].run = r
  BY <1>2 DEF Advances, SameBuild
<1>4. ASSUME NEW z \in Execs, execs[z].run = r
      PROVE  /\ execs[z].ref = n
             /\ \E y \in Execs' : execs'[y].root = execs[z].root /\ execs'[y].status = "succeeded"
  <2>1. PICK y \in Execs : execs[y].root = execs[z].root /\ execs[y].status = "succeeded"
    BY <1>1, <1>4
  <2>2. y \in Execs' /\ execs'[y].root = execs[z].root /\ execs'[y].status = "succeeded"
    BY <2>1 DEF Advances, SameBuild
  <2> QED BY <1>1, <1>4, <2>2
<1>5. ASSUME NEW x \in Execs', execs'[x].run = r
      PROVE  /\ execs'[x].ref = n
             /\ \E y \in Execs' : execs'[y].root = execs'[x].root /\ execs'[y].status = "succeeded"
  <2>1. CASE x \in Execs
    <3>1. execs[x].run = r /\ execs'[x].ref = execs[x].ref /\ execs'[x].root = execs[x].root
      BY <1>5, <2>1 DEF Advances, SameBuild
    <3> QED BY <1>4, <2>1, <3>1
  <2>2. CASE x \notin Execs
    <3>1. PICK z \in Execs : /\ execs'[x].run = execs[z].run /\ execs'[x].ref = execs[z].ref
                             /\ execs'[x].root = execs[z].root
      BY <1>2, <1>5, <2>2 DEF Advances
    <3> QED BY <1>4, <1>5, <3>1
  <2> QED BY <2>1, <2>2
<1>6. r \in {execs'[x].run : x \in {y \in Execs' : execs'[y].pipe = d}}
  BY <1>3
<1> QED BY <1>5, <1>6 DEF ProvenAt

LEMMA AllProvenStay ==
  ASSUME Advances
  PROVE  /\ \A d, n : ProvenAt(d, n) => ProvenAt(d, n)'
         /\ \A p, n : Proven(p, n) => Proven(p, n)'
         /\ Chain' = Chain /\ (DependenciesPin => DependenciesPin')
<1>1. \A d, n : ProvenAt(d, n) => ProvenAt(d, n)'
  BY ProvenStays
<1>2. Chain' = Chain
  BY DEF Advances, Chain
<1> QED BY <1>1, <1>2 DEF Proven, DependenciesPin

(* What a chain's pipeline depends on in the chain, it waits for; and all  *)
(* but the first wait for something.                                       *)
LEMMA ChainDependenciesFacts ==
  ASSUME NEW i \in 1 .. Len(Chain)
  PROVE  /\ ToSet(DependsOn[Chain[i]]) \cap ToSet(Chain) \subseteq ToSet(ChainDependencies(i))
         /\ i > 1 => ChainDependencies(i) # <<>>
<1> DEFINE both == ToSet(DependsOn[Chain[i]]) \cap ToSet(Chain)
           ds == DependsOn[Chain[i]]
           before == <<Chain[i - 1]>>
<1>1. ChainDependencies(i) = IF both # {} THEN ds ELSE IF i > 1 THEN before ELSE <<>>
  BY DEF ChainDependencies
<1>2. both \subseteq ToSet(ds)
  OBVIOUS
<1>3. both # {} => ds # <<>>
  <2>1. ds = <<>> => ToSet(ds) = {}
    BY DEF ToSet
  <2> QED BY <1>2, <2>1
<1>4. before # <<>>
  OBVIOUS
<1> HIDE DEF both, ds, before
<1> QED BY <1>1, <1>2, <1>3, <1>4 DEF both, ds

(* What a request has in hand fits whatever has been added. *)
LEMMA PartStays ==
  ASSUME Advances, NEW rq, NEW b, NEW f, PartFits(rq, b, f)
  PROVE  PartFits(rq, b, f)'
<1>1. WaitsForAll(b)' = WaitsForAll(b)
  BY AllProvenStay DEF WaitsForAll
<1>2. KeepsCommit(b, f)' = KeepsCommit(b, f)
  BY DEF KeepsCommit
<1>3. Proven(b.pipe, b.ref) => Proven(b.pipe, b.ref)'
  BY AllProvenStay
<1> QED BY <1>1, <1>2, <1>3 DEF PartFits

LEMMA SourceStays ==
  ASSUME Advances, NEW rq, rq.clone \in {0} \cup Execs, SourceFits(rq)
  PROVE  SourceFits(rq)'
<1>1. FirstPinned(rq)'
  <2>1. FirstPinned(rq)
    BY DEF SourceFits
  <2> QED BY <2>1, AllProvenStay DEF FirstPinned
<1>2. LooksUp(rq)'
  <2>1. Here(rq)' = Here(rq) /\ LooksUp(rq)
    BY DEF SourceFits, Here, At
  <2>2. PinnedRef(Here(rq), rq.dep)' = PinnedRef(Here(rq), rq.dep)
    BY <2>1 DEF PinnedRef
  <2> QED BY <2>1, <2>2 DEF LooksUp
<1>3. PartsFit(rq)'
  <2> SUFFICES ASSUME rq.clone = 0, rq.pc # "idle" PROVE PartsFit(rq)'
    BY DEF PartsFit
  <2>1. /\ rq.todo # <<>> /\ (Len(rq.todo) > 1 => rq.todo = Chain)
        /\ {rq.built[i].pipe : i \in DOMAIN rq.built} = {rq.todo[k] : k \in 1 .. At(rq) - 1}
        /\ rq.built # <<>> => rq.built[1].pipe = rq.todo[1]
        /\ rq.pc = "create" => At(rq) = Len(rq.todo) + 1
        /\ \A i, j \in DOMAIN rq.built : rq.built[i].pipe = rq.built[j].pipe => rq.built[i].ref = rq.built[j].ref
        /\ \A i \in DOMAIN rq.built : PartFits(rq, rq.built[i], rq.built[1])
    BY DEF SourceFits, PartsFit
  <2>2. At(rq)' = At(rq) /\ Chain' = Chain
    BY AllProvenStay DEF At
  <2>3. \A i \in DOMAIN rq.built : PartFits(rq, rq.built[i], rq.built[1])'
    BY <2>1, PartStays
  <2> QED BY <2>1, <2>2, <2>3 DEF PartsFit
<1>4. CopyFits(rq)'
  <2> SUFFICES ASSUME rq.clone # 0 PROVE CopyFits(rq)'
    BY DEF CopyFits
  <2>1. SameBuild(execs[rq.clone], execs'[rq.clone])
    BY DEF Advances
  <2>2. CopyFits(rq)
    BY DEF SourceFits
  <2> QED BY <2>1, <2>2, AllProvenStay DEF CopyFits, SameBuild
<1> QED BY <1>1, <1>2, <1>3, <1>4 DEF SourceFits
-----------------------------------------------------------------------------
LEMMA RequestSound ==
  ASSUME Advances
  PROVE  SoundRequests \subseteq SoundRequests'
<1> SUFFICES ASSUME NEW rq \in SoundRequests PROVE rq \in SoundRequests'
  OBVIOUS
<1>1. rq \in RequestStates /\ SourceFits(rq) /\ rq.clone \in {0} \cup Execs
  BY DEF SoundRequests, RequestStates
<1>2. SourceFits(rq)'
  BY <1>1, SourceStays
<1>3. RequestStates \subseteq RequestStates'
  BY StatesGrow DEF Advances
<1> QED BY <1>1, <1>2, <1>3 DEF SoundRequests

(* A step of a request leaves the executions alone. *)
LEMMA SameExecs ==
  ASSUME UNCHANGED <<project, execs>>
  PROVE  Advances /\ (SoundExecs => SoundExecs')
<1>1. Execs' = Execs /\ Chain' = Chain
  BY DEF Execs, Chain
<1>2. Advances
  BY <1>1 DEF Advances, SameBuild
<1>3. \A x : ReleaseFits(x) => ReleaseFits(x)'
  BY <1>1, <1>2, AllProvenStay DEF ReleaseFits
<1>4. ASSUME NEW x, ChainFits(x) PROVE ChainFits(x)'
  <2>1. \A c, p : InChain(c, p)' = InChain(c, p)
    BY <1>1 DEF InChain
  <2>2. WaitsForAll(x)' = WaitsForAll(x)
    BY <1>1 DEF WaitsForAll
  <2> QED BY <1>1, <1>4, <2>1, <2>2 DEF ChainFits, KeepsCommit
<1>5. Executions' = Executions
  BY <1>1 DEF Executions
<1>6. SoundExecutions \subseteq SoundExecutions'
  BY <1>3, <1>4, <1>5 DEF SoundExecutions
<1>7. SoundExecs => SoundExecs'
  <2> SUFFICES ASSUME SoundExecs PROVE SoundExecs'
    OBVIOUS
  <2>1. \A e \in Execs' : execs'[e] \in SoundExecutions'
    BY <1>1, <1>6 DEF SoundExecs
  <2>2. \A e, f \in Execs' : SameAttempts(execs'[e], execs'[f])
    BY <1>1 DEF SoundExecs
  <2>3. \A e, f \in Execs' : execs'[e].chain # 0 /\ execs'[f].chain = execs'[e].chain =>
           Shares(execs'[e], execs'[f], execs'[execs'[e].chain])
    BY <1>1 DEF SoundExecs
  <2> HIDE DEF SoundExecutions
  <2> QED BY <2>1, <2>2, <2>3 DEF SoundExecs, SameAttempts, Shares
<1> QED BY <1>2, <1>7

LEMMA SourceRequestStep ==
  ASSUME SourceInv, IInv', UNCHANGED <<project, execs>>,
         NEW q \in Requests, NEW s \in SoundRequests, requests' = [requests EXCEPT ![q] = s]
  PROVE  SourceInv'
<1>1. Advances /\ SoundExecs'
  BY SameExecs DEF SourceInv
<1>2. \A i \in Requests : requests'[i] \in SoundRequests
  BY DEF SourceInv, IInv, Types
<1>3. \A i \in Requests : requests'[i] \in SoundRequests'
  BY <1>1, <1>2, RequestSound
<1> QED BY <1>1, <1>3, AllProvenStay DEF SourceInv

LEMMA IdleIsSound == Idle \in SoundRequests
<1>1. Idle \in RequestStates
  BY IdleFits DEF FittingRequests
<1>2. SourceFits(Idle)
  BY DEF Idle, SourceFits, FirstPinned, LooksUp, PartsFit, CopyFits
<1> QED BY <1>1, <1>2 DEF SoundRequests

LEMMA SourceEnds ==
  ASSUME SourceInv, IInv', UNCHANGED <<project, execs>>, NEW q \in Requests, Ends(q)
  PROVE  SourceInv'
BY SourceRequestStep, IdleIsSound DEF Ends

(* A step of one execution: it keeps what it builds, is released at most,  *)
(* and then what it depends on is proven.                                  *)
LEMMA SourceExecStep ==
  ASSUME SourceInv, IInv', UNCHANGED <<project, requests>>, NEW e \in Execs, NEW y \in Executions,
         SameBuild(execs[e], y), y.waits \in {execs[e].waits, <<>>}, ReleaseFits(y),
         execs[e].status = "succeeded" => y.status = "succeeded",
         execs' = [execs EXCEPT ![e] = y]
  PROVE  SourceInv'
<1>1. Types /\ SoundExecs
  BY DEF SourceInv, IInv
<1>2. execs \in Seq(Executions) /\ Len(execs) \in Nat /\ Execs = 1 .. Len(execs) /\ DOMAIN execs = Execs
  BY <1>1, ExecsFacts DEF Types, Execs
<1>3. execs' \in Seq(Executions) /\ Len(execs') = Len(execs)
  BY <1>2, ExceptSeq
<1>4. Execs' = Execs /\ Chain' = Chain /\ Executions' = Executions
  BY <1>2, <1>3, LenProperties DEF Execs, Chain, Executions
<1>5. \A i \in Execs : execs'[i] = IF i = e THEN y ELSE execs[i]
  BY <1>2
<1>6. \A i \in Execs : SameBuild(execs[i], execs'[i])
  BY <1>5 DEF SameBuild
<1>7. Advances
  <2>1. \A i \in Execs : execs[i].status = "succeeded" => execs'[i].status = "succeeded"
    BY <1>5
  <2> QED BY <1>4, <1>6, <2>1 DEF Advances
<1>8. \A x : ReleaseFits(x) => ReleaseFits(x)'
  BY <1>4, <1>7, AllProvenStay DEF ReleaseFits
<1>9. \A c, p : InChain(c, p)' = InChain(c, p)
  BY <1>4, <1>6 DEF InChain, SameBuild
<1>10. ASSUME NEW i \in Execs PROVE execs'[i] \in SoundExecutions'
  <2> DEFINE x == execs[i]
             z == execs'[i]
  <2>1. /\ x \in Executions /\ z \in Executions /\ SameBuild(x, z) /\ z.waits \in {x.waits, <<>>}
        /\ ChainFits(x) /\ ReleaseFits(z)
    BY <1>1, <1>2, <1>5, <1>6 DEF SoundExecs, SoundExecutions
  <2>2. x.chain # 0 => x.chain \in Execs
    <3>1. x.chain \in 0 .. i
      BY DEF SourceInv, IInv, PlaceFits
    <3> QED BY <1>2, <3>1
  <2>3. x.chain # 0 => SameBuild(execs[x.chain], execs'[x.chain])
    BY <1>6, <2>2
  <2> PICK a, b : a = x /\ b = z
    OBVIOUS
  <2> HIDE DEF x, z
  <2>4. a.chain # 0 => KeepsCommit(b, execs'[a.chain]) /\ execs'[a.chain].pipe = execs[a.chain].pipe
    BY <2>1, <2>3 DEF KeepsCommit, SameBuild, ChainFits
  <2>5. b.waits # <<>> => WaitsForAll(a) = WaitsForAll(b)'
    BY <1>4, <2>1 DEF WaitsForAll, SameBuild
  <2>6. ChainFits(b)'
    BY <1>4, <1>9, <2>1, <2>4, <2>5 DEF ChainFits, SameBuild, KeepsCommit
  <2>7. ReleaseFits(b)'
    BY <1>8, <2>1
  <2> QED BY <1>4, <2>1, <2>6, <2>7 DEF SoundExecutions, z
<1>11. \A i, j \in Execs : SameAttempts(execs'[i], execs'[j])
  BY <1>1, <1>6 DEF SoundExecs, SameAttempts, SameBuild
<1>12. ASSUME NEW i \in Execs, NEW j \in Execs, execs'[i].chain # 0, execs'[j].chain = execs'[i].chain
       PROVE  Shares(execs'[i], execs'[j], execs'[execs'[i].chain])
  <2>1. SameBuild(execs[i], execs'[i]) /\ SameBuild(execs[j], execs'[j])
    BY <1>6
  <2>2. execs[i].chain = execs'[i].chain /\ execs[j].chain = execs'[i].chain
    BY <1>12, <2>1 DEF SameBuild
  <2> PICK c : c = execs'[i].chain
    OBVIOUS
  <2>3. c \in Execs
    <3>1. c \in 0 .. i
      BY <2>2 DEF SourceInv, IInv, PlaceFits
    <3> QED BY <1>2, <1>12, <3>1
  <2>4. SameBuild(execs[c], execs'[c])
    BY <1>6, <2>3
  <2>5. Shares(execs[i], execs[j], execs[c])
    BY <1>1, <1>12, <2>2 DEF SoundExecs
  <2> QED BY <2>1, <2>4, <2>5 DEF Shares, SameBuild
<1>13. SoundExecs'
  <2> HIDE DEF SoundExecutions
  <2> QED BY <1>4, <1>10, <1>11, <1>12 DEF SoundExecs, SameAttempts, Shares
<1>14. \A i \in Requests : requests'[i] \in SoundRequests'
  BY <1>7, RequestSound DEF SourceInv
<1> QED BY <1>7, <1>13, <1>14, AllProvenStay DEF SourceInv
-----------------------------------------------------------------------------
(* In a chain, what inherits its version builds the commit of all that it  *)
(* depends on in its repository.                                           *)
LEMMA ChainShares ==
  ASSUME SourceInv, NEW e \in Execs, ~execs[e].own, execs[e].chain # 0, execs[e].pipe # Chain[1],
         NEW d \in ToSet(DependsOn[execs[e].pipe]), RepoOf[d] = RepoOf[execs[e].pipe]
  PROVE  /\ d \in ToSet(Chain) /\ InChain(execs[e].chain, d) # {}
         /\ \A z \in InChain(execs[e].chain, d) : execs[z].ref = execs[e].ref
<1> DEFINE x == execs[e]
           c == x.chain
           f == execs[c]
<1>1. Types /\ Len(execs) \in Nat /\ Execs = 1 .. Len(execs)
  BY ExecsFacts DEF SourceInv, IInv
<1>2. ChainFits(x)
  BY DEF SourceInv, SoundExecs, SoundExecutions
<1>3. c \in Execs
  <2>1. c \in 0 .. e
    BY DEF SourceInv, IInv, PlaceFits
  <2> QED BY <1>1, <2>1
<1>4. /\ x.pipe \in ToSet(Chain) /\ f.pipe = Chain[1] /\ KeepsCommit(x, f)
      /\ \A p \in ToSet(Chain) : InChain(c, p) # {}
  BY <1>2 DEF ChainFits
<1>5. PICK i \in 2 .. Len(Chain) : x.pipe = Chain[i]
  <2>1. Chain \in Seq(Pipelines)
    BY <1>1, ProjectFits DEF Types
  <2>2. Len(Chain) \in Nat /\ DOMAIN Chain = 1 .. Len(Chain)
    BY <2>1, LenProperties
  <2>3. PICK i \in 1 .. Len(Chain) : x.pipe = Chain[i]
    BY <1>4, <2>2 DEF ToSet
  <2>4. i # 1
    BY <2>3
  <2>5. i \in 2 .. Len(Chain)
    BY <2>2, <2>4
  <2> QED BY <2>3, <2>5
<1>6. /\ RepoOf[d] = RepoOf[Chain[1]] /\ d \in ToSet(Chain)
      /\ d = Chain[1] \/ d \notin Versioned \/ x.pipe \in Versioned
  BY <1>5 DEF SourceInv, DependenciesPin
<1>7. ASSUME NEW z \in InChain(c, d) PROVE execs[z].ref = x.ref
  <2> DEFINE y == execs[z]
  <2>1. z \in Execs /\ y.chain = c /\ y.pipe = d
    BY DEF InChain
  <2>2. KeepsCommit(y, f)
    BY <2>1 DEF SourceInv, SoundExecs, SoundExecutions, ChainFits
  <2>3. Shares(x, y, f) /\ Shares(x, x, f)
    BY <2>1 DEF SourceInv, SoundExecs
  <2>4. ~x.own /\ x.pipe # f.pipe /\ RepoOf[d] = RepoOf[x.pipe] /\ RepoOf[d] = RepoOf[f.pipe]
    BY <1>4, <1>6
  <2> PICK a, b, g : a = x /\ b = y /\ g = f
    OBVIOUS
  <2>5. /\ KeepsCommit(a, g) /\ KeepsCommit(b, g) /\ Shares(a, b, g) /\ Shares(a, a, g)
        /\ ~a.own /\ a.pipe # g.pipe /\ RepoOf[b.pipe] = RepoOf[a.pipe] /\ RepoOf[b.pipe] = RepoOf[g.pipe]
        /\ b.pipe = g.pipe \/ b.pipe \notin Versioned \/ a.pipe \in Versioned
    BY <1>4, <1>6, <2>1, <2>2, <2>3, <2>4
  <2>6. b.ref = a.ref
    BY <2>5 DEF KeepsCommit, Shares
  <2> QED BY <2>6
<1> QED BY <1>4, <1>6, <1>7

(* An execution that can be run again had its dependencies proven. *)
LEMMA RerunProven ==
  ASSUME SourceInv, NEW e \in Execs, NEW x, x = execs[e], x.again, ~x.own,
         NEW ctx, ctx.ok,
         ctx = IF DependsOn[x.pipe] = <<>> THEN NoContext
               ELSE IF x.chain # 0 THEN ChainContext(x.pipe, x.chain) ELSE CheckDependencies(x.pipe)
  PROVE  Proven(x.pipe, x.ref)
<1>1. /\ Types /\ (\A i \in Execs : BuildFits(execs[i])) /\ x \in Executions /\ x.pipe \in Pipelines
      /\ \A i, j \in Execs : SameAttempts(execs[i], execs[j])
  <2>1. Types /\ \A i \in Execs : BuildFits(execs[i])
    BY ExecsFit DEF SourceInv
  <2> QED BY <2>1, ExecsFacts DEF SourceInv, SoundExecs, Executions
<1>2. ReleaseFits(x)
  BY DEF SourceInv, SoundExecs, SoundExecutions
<1>3. CASE x.chain = 0 \/ x.pipe = Chain[1]
  BY <1>2, <1>3 DEF ReleaseFits
<1>4. CASE x.chain # 0 /\ x.pipe # Chain[1]
  <2> SUFFICES ASSUME NEW d \in ToSet(DependsOn[x.pipe]), RepoOf[d] = RepoOf[x.pipe]
               PROVE  ProvenAt(d, x.ref)
    BY DEF Proven
  <2>1. /\ InChain(x.chain, d) # {}
        /\ \A z \in InChain(x.chain, d) : execs[z].ref = x.ref
    BY <1>4, ChainShares
  <2>2. DependsOn[x.pipe] # <<>>
    BY DEF ToSet
  <2>3. ctx = ChainContext(x.pipe, x.chain)
    BY <1>4, <2>2
  <2>4. PICK z \in InChain(x.chain, d) : ProvenAt(d, execs[z].ref)
    BY <1>1, <2>1, <2>3, ChainPins DEF SourceInv
  <2> QED BY <2>1, <2>4
<1> QED BY <1>3, <1>4

(* Starting is for what has been released; a status says no more. *)
LEMMA SourceStart ==
  ASSUME SourceInv, IInv', NEW e \in Execs, StartJob(e), NEW x, x = execs[e]
  PROVE  SourceInv'
<1> DEFINE y == [x EXCEPT !.status = "running", !.again = TRUE]
<1>1. /\ execs' = [execs EXCEPT ![e] = y] /\ UNCHANGED <<project, requests>>
      /\ x.status = "queued" /\ x.waits = <<>>
  BY DEF StartJob
<1>2. x \in Executions /\ ReleaseFits(x)
  BY DEF SourceInv, SoundExecs, SoundExecutions
<1>3. /\ y \in Executions /\ SameBuild(x, y) /\ y.status = "running" /\ y.waits = x.waits
      /\ y.again = TRUE
  BY <1>2 DEF Executions, SameBuild, Active
<1> HIDE DEF y
<1>4. ReleaseFits(y)
  BY <1>1, <1>2, <1>3 DEF ReleaseFits, SameBuild
<1> QED BY <1>1, <1>3, <1>4, SourceExecStep

LEMMA SourceStatus ==
  ASSUME SourceInv, IInv', NEW e \in Execs, NEW x, x = execs[e], NEW s \in Active \cup Terminal, NEW n \in Nat,
         s \in {"pushing", "succeeded"} => x.status \in {"running", "pushing"},
         x.status # "succeeded",
         s # "queued", s # "running", NEW y, y = [x EXCEPT !.status = s, !.base = n],
         execs' = [execs EXCEPT ![e] = y], UNCHANGED <<project, requests>>
  PROVE  SourceInv'
<1>1. x \in Executions /\ ReleaseFits(x)
  BY DEF SourceInv, SoundExecs, SoundExecutions
<1>2. /\ y \in Executions /\ SameBuild(x, y) /\ y.status = s /\ y.waits = x.waits
      /\ y.again = x.again
  BY <1>1 DEF Executions, SameBuild
<1>4. s \in {"pushing", "succeeded", "failed"}
  BY DEF Active, Terminal
<1>5. ReleaseFits(y)
  BY <1>1, <1>2, <1>4 DEF ReleaseFits, SameBuild
<1> QED BY <1>2, <1>5, SourceExecStep

LEMMA SourceEnd ==
  ASSUME SourceInv, IInv', NEW e \in Execs
  PROVE  /\ \A s \in Terminal : EndJob(e, s) => SourceInv'
         /\ CancelQueued(e) => SourceInv'
         /\ FetchBranch(e) => SourceInv'
         /\ PushBump(e) => SourceInv'
<1>1. PICK x : x = execs[e]
  OBVIOUS
<1>2. x \in Executions /\ x.base \in Nat /\ x.pipe \in Pipelines
  BY <1>1 DEF SourceInv, SoundExecs, SoundExecutions, Executions
(* Whatever the status, the rest stays. *)
<1>3. ASSUME NEW s \in Terminal, SetStatus(e, s), x.status # "succeeded", UNCHANGED <<project, requests>>,
             s = "succeeded" => x.status \in {"running", "pushing"}
      PROVE  SourceInv'
  <2> DEFINE y == [x EXCEPT !.status = s]
             n == x.base
  <2>1. execs' = [execs EXCEPT ![e] = y]
    BY <1>1, <1>3 DEF SetStatus
  <2>2. y = [x EXCEPT !.status = s, !.base = n] /\ n \in Nat
    BY <1>2 DEF Executions
  <2>3. s \in Active \cup Terminal /\ s # "queued" /\ s # "running" /\ s # "pushing"
    BY DEF Terminal
  <2> HIDE DEF y, n
  <2> QED BY <1>1, <1>3, <2>1, <2>2, <2>3, SourceStatus
<1>4. ASSUME NEW s \in Terminal, EndJob(e, s) PROVE SourceInv'
  <2>1. x.status = "running" /\ SetStatus(e, s) /\ UNCHANGED <<project, requests>>
    BY <1>1, <1>4 DEF EndJob
  <2> QED BY <1>3, <2>1
<1>5. ASSUME CancelQueued(e) PROVE SourceInv'
  <2>1. x.status = "queued" /\ SetStatus(e, "failed") /\ UNCHANGED <<project, requests>>
    BY <1>1, <1>5 DEF CancelQueued
  <2>2. "failed" \in Terminal
    BY DEF Terminal
  <2> QED BY <1>3, <2>1, <2>2
<1>6. ASSUME FetchBranch(e) PROVE SourceInv'
  <2> DEFINE s == IF StillCurrent(e) THEN "pushing" ELSE "failed"
             n == Tip(RepoOf[x.pipe])
             y == [x EXCEPT !.status = s, !.base = n]
  <2>1. x.status = "running" /\ UNCHANGED <<project, requests>> /\ execs' = [execs EXCEPT ![e] = y]
    BY <1>1, <1>6 DEF FetchBranch
  <2>2. s \in Active \cup Terminal /\ s \in {"pushing", "failed"}
    BY DEF Active, Terminal
  <2>3. n \in Nat
    BY <1>2, ExecsFit, TipFacts, Configured DEF SourceInv
  <2>4. y = [x EXCEPT !.status = s, !.base = n]
    OBVIOUS
  <2> HIDE DEF s, n, y
  <2> QED BY <1>1, <2>1, <2>2, <2>3, <2>4, SourceStatus
<1>7. ASSUME PushBump(e) PROVE SourceInv'
  <2>1. x.status = "pushing" /\ UNCHANGED <<project, requests>>
    BY <1>1, <1>7 DEF PushBump
  <2>2. PICK s \in {"succeeded", "failed"} : SetStatus(e, s)
    BY <1>7 DEF PushBump
  <2>3. s \in Terminal
    BY DEF Terminal
  <2> QED BY <1>3, <2>1, <2>2, <2>3
<1> QED BY <1>4, <1>5, <1>6, <1>7

(* A release finds what the execution depends on succeeded. *)
LEMMA SourceReconcile ==
  ASSUME SourceInv, IInv', NEW e \in Execs, Reconcile(e), NEW x, x = execs[e], NEW t, t = Artifacts(x.pipe, BindsTo(e))
  PROVE  SourceInv'
<1> DEFINE fails == [x EXCEPT !.status = "failed", !.waits = <<>>, !.again = TRUE]
           stops == [x EXCEPT !.status = "failed", !.waits = <<>>]
           goes == [x EXCEPT !.waits = <<>>, !.arts = IF t = {} THEN x.arts ELSE t]
           Of(d) == {y \in LatestAttempts(Execs) : execs[y].chain = x.chain /\ execs[y].pipe = d}
           Fine(d) == Of(d) # {} /\ Succeeded(Of(d))
           Released == \A i \in DOMAIN x.waits : x.waits[i] \in ToSet(Chain) => Fine(x.waits[i])
<1>1. /\ UNCHANGED <<project, requests>> /\ x.status = "queued" /\ x.waits # <<>>
      /\ \/ execs' = [execs EXCEPT ![e] = fails]
         \/ execs' = [execs EXCEPT ![e] = stops]
         \/ Released /\ execs' = [execs EXCEPT ![e] = goes]
  <2>1. /\ UNCHANGED <<project, requests>> /\ x.status = "queued" /\ x.waits # <<>>
        /\ \/ execs' = [execs EXCEPT ![e].status = "failed", ![e].waits = <<>>, ![e].again = TRUE]
           \/ execs' = [execs EXCEPT ![e].status = "failed", ![e].waits = <<>>]
           \/ Released /\ execs' = [execs EXCEPT ![e].waits = <<>>, ![e].arts = IF t = {} THEN @ ELSE t]
    <3> DEFINE On == {i \in DOMAIN x.waits : x.waits[i] \in ToSet(Chain)}
    <3>1. (\A i \in On : Fine(x.waits[i])) <=> Released
      <4> HIDE DEF Fine
      <4> QED BY SMTT(30)
    <3> DEFINE X == execs[e]
               XOf(d) == {y \in LatestAttempts(Execs) : execs[y].chain = X.chain /\ execs[y].pipe = d}
               XFine(d) == XOf(d) # {} /\ Succeeded(XOf(d))
               XOn == {i \in DOMAIN X.waits : X.waits[i] \in ToSet(Chain)}
               Bound == BindsTo(e)
               XT == Artifacts(X.pipe, Bound)
               A1 == execs' = [execs EXCEPT ![e].status = "failed", ![e].waits = <<>>, ![e].again = TRUE]
               A2 == execs' = [execs EXCEPT ![e].status = "failed", ![e].waits = <<>>]
               A3 == execs' = [execs EXCEPT ![e].waits = <<>>, ![e].arts = IF XT = {} THEN @ ELSE XT]
    <3>2. /\ X.status = "queued" /\ X.waits # <<>>
          /\ \/ A1
             \/ /\ \A i \in XOn : XFine(X.waits[i])
                /\ IF Bound.ok /\ Bindable(X.pipe, Bound) THEN A3 ELSE A2
      BY DEF Reconcile
    <3>3. /\ x.status = "queued" /\ x.waits # <<>>
          /\ \/ A1
             \/ (\A i \in On : Fine(x.waits[i])) /\ A3
             \/ A2
      <4>1. \A d : XFine(d) = Fine(d)
        OBVIOUS
      <4>2. XOn = On /\ X = x
        OBVIOUS
      <4> HIDE DEF A1, A2, A3, XFine, Fine, XOn, On, Bound, X
      <4> QED BY <3>2, <4>1, <4>2
    <3>4. A3 <=> execs' = [execs EXCEPT ![e].waits = <<>>, ![e].arts = IF t = {} THEN @ ELSE t]
      <4>1. XT = t
        OBVIOUS
      <4> HIDE DEF XT
      <4> QED BY <4>1
    <3>5. UNCHANGED <<project, requests>>
      BY DEF Reconcile
    <3> HIDE DEF Released, Fine, On, A3
    <3> QED BY <3>1, <3>3, <3>4, <3>5
  <2>2. /\ [execs EXCEPT ![e].status = "failed", ![e].waits = <<>>, ![e].again = TRUE] = [execs EXCEPT ![e] = fails]
        /\ [execs EXCEPT ![e].status = "failed", ![e].waits = <<>>] = [execs EXCEPT ![e] = stops]
        /\ [execs EXCEPT ![e].waits = <<>>, ![e].arts = IF t = {} THEN @ ELSE t] = [execs EXCEPT ![e] = goes]
    OBVIOUS
  <2> HIDE DEF Released, fails, stops, goes
  <2> QED BY <2>1, <2>2
<1>2. /\ Types /\ (\A i \in Execs : BuildFits(execs[i])) /\ x \in Executions /\ x.pipe \in Pipelines
      /\ \A i, j \in Execs : SameAttempts(execs[i], execs[j])
      /\ ReleaseFits(x) /\ ChainFits(x)
  <2>1. Types /\ \A i \in Execs : BuildFits(execs[i])
    BY ExecsFit DEF SourceInv
  <2>2. x \in SoundExecutions /\ \A i, j \in Execs : SameAttempts(execs[i], execs[j])
    BY DEF SourceInv, SoundExecs
  <2> QED BY <2>1, <2>2 DEF SoundExecutions, Executions
<1>3. t \in SUBSET Execs
  <2>1. BindsTo(e) \in Contexts
    BY <1>2, ChainContextFacts DEF BindsTo
  <2> QED BY <2>1, ArtifactsFacts
<1>4. <<>> \in Seq(Pipelines)
  OBVIOUS
<1>5. x.chain # 0 /\ WaitsForAll(x)
  BY <1>1, <1>2 DEF ChainFits
<1>6. ASSUME Released, ~x.own PROVE Proven(x.pipe, x.ref)
  <2>1. CASE x.pipe = Chain[1]
    BY <1>2, <1>6, <2>1 DEF ReleaseFits
  <2>2. CASE x.pipe # Chain[1]
    <3> SUFFICES ASSUME NEW d \in ToSet(DependsOn[x.pipe]), RepoOf[d] = RepoOf[x.pipe]
                 PROVE  ProvenAt(d, x.ref)
      BY DEF Proven
    <3>1. d \in ToSet(Chain) /\ \A z \in InChain(x.chain, d) : execs[z].ref = x.ref
      BY <1>5, <1>6, <2>2, ChainShares
    <3>2. PICK i \in DOMAIN x.waits : x.waits[i] = d
      <4>1. d \in ToSet(x.waits)
        BY <1>5, <3>1 DEF WaitsForAll
      <4> QED BY <4>1 DEF ToSet
    <3>3. Fine(d)
      <4> HIDE DEF Fine
      <4> QED BY <1>6, <3>1, <3>2
    <3>4. PICK z \in Of(d) : TRUE
      BY <3>3
    <3>5. /\ z \in LatestAttempts(Execs) /\ z \in Execs /\ execs[z].chain = x.chain /\ execs[z].pipe = d
          /\ z \in InChain(x.chain, d)
      BY <3>4 DEF LatestAttempts, InChain
    <3>6. \A y \in LatestAttempts(Execs) : execs[y].run = execs[z].run => execs[y].status = "succeeded"
      <4> SUFFICES ASSUME NEW y \in LatestAttempts(Execs), execs[y].run = execs[z].run
                   PROVE  execs[y].status = "succeeded"
        OBVIOUS
      <4>1. y \in Execs
        BY DEF LatestAttempts
      <4>2. execs[y].pipe = d /\ execs[y].chain = x.chain
        BY <1>2, <3>5, <4>1 DEF SameAttempts
      <4> QED BY <3>3, <4>2 DEF Succeeded
    <3>7. ProvenAt(execs[z].pipe, execs[z].ref)
      <4>1. Execs \in SUBSET Execs /\ \A y \in Execs : execs[y].run = execs[z].run => y \in Execs
        OBVIOUS
      <4> QED BY <1>2, <3>5, <3>6, <4>1, RunProves
    <3> QED BY <3>1, <3>5, <3>7
  <2> QED BY <2>1, <2>2
<1>7. ASSUME NEW y \in Executions, SameBuild(x, y), y.waits = <<>>, execs' = [execs EXCEPT ![e] = y],
             y.status = "failed" \/ (y.status = "queued" /\ Released)
      PROVE  SourceInv'
  <2>1. ReleaseFits(y)
    <3> HIDE DEF Released
    <3> QED BY <1>2, <1>6, <1>7 DEF ReleaseFits, SameBuild
  <2>2. x.status # "succeeded"
    BY <1>1
  <2> HIDE DEF Released
  <2> QED BY <1>1, <1>7, <2>1, <2>2, SourceExecStep
<1>8. fails \in Executions /\ SameBuild(x, fails) /\ fails.waits = <<>> /\ fails.status = "failed"
  BY <1>2, <1>4 DEF Executions, SameBuild, Terminal
<1>9. stops \in Executions /\ SameBuild(x, stops) /\ stops.waits = <<>> /\ stops.status = "failed"
  BY <1>2, <1>4 DEF Executions, SameBuild, Terminal
<1>10. goes \in Executions /\ SameBuild(x, goes) /\ goes.waits = <<>> /\ goes.status = "queued"
  BY <1>1, <1>2, <1>3, <1>4 DEF Executions, SameBuild
<1> HIDE DEF fails, stops, goes, Released
<1> QED BY <1>1, <1>7, <1>8, <1>9, <1>10
-----------------------------------------------------------------------------
(* A version and a commit from which what is built will be sound.          *)
FoundSound(rq, p, ctx) ==
  /\ rq.built = <<>> /\ ~ctx.own => Proven(p, ctx.ref)
  /\ rq.built # <<>> =>
       /\ RepoOf[p] = RepoOf[rq.built[1].pipe] /\ p \notin Versioned => ctx.ref = rq.built[1].ref
       /\ rq.kind = "offline" => RepoOf[p] = RepoOf[rq.built[1].pipe] /\ ctx.ref = rq.built[1].ref
       /\ rq.kind # "offline" /\ rq.built[1].version = NoVersion /\ p \in Versioned => ctx.own

Pipes(rq) == {rq.built[i].pipe : i \in DOMAIN rq.built}
Until(rq, n) == {rq.todo[k] : k \in 1 .. n}

(* The next pipeline of a list is none of those that are built. *)
LEMMA NextIsNew ==
  ASSUME IInv, NEW q \in Requests, NEW rq, rq = requests[q], rq.pc \in {"resolve", "pin"},
         NEW p, p = Current(q), Pipes(rq) = Until(rq, At(rq) - 1)
  PROVE  /\ p \notin Pipes(rq) /\ rq.clone = 0 /\ rq.todo # <<>>
         /\ rq.built # <<>> => p # rq.todo[1]
         /\ Pipes(rq) \cup {p} = Until(rq, At(rq))
<1> PICK B : B = {rq.built[i].pipe : i \in DOMAIN rq.built}
  OBVIOUS
<1>1. /\ AtWork(rq) /\ p = Here(rq) /\ rq.todo \in Seq(Pipelines) /\ Len(rq.todo) \in Nat
      /\ At(rq) \in 1 .. Len(rq.todo) /\ (Len(rq.todo) > 1 => rq.todo = Chain)
      /\ rq.built # <<>> => 1 \in DOMAIN rq.built
      /\ DOMAIN rq.todo = 1 .. Len(rq.todo)
  BY WorkFacts
<1>2. rq.clone = 0 /\ rq.todo # <<>> /\ B = {rq.todo[k] : k \in 1 .. At(rq) - 1}
      /\ (rq.built # <<>> => rq.built[1].pipe = rq.todo[1])
  <2>1. rq.clone = 0 /\ (rq.built # <<>> => rq.built[1].pipe = rq.todo[1])
    BY <1>1 DEF AtWork
  <2>2. rq.todo # <<>>
    BY <1>1, EmptySeq
  <2>3. B = {rq.todo[k] : k \in 1 .. At(rq) - 1}
    BY DEF Pipes, Until
  <2> QED BY <2>1, <2>2, <2>3
<1>3. \A i, j \in 1 .. Len(rq.todo) : rq.todo[i] = rq.todo[j] => i = j
  <2>1. CASE Len(rq.todo) > 1
    <3>1. rq.todo = Chain /\ DOMAIN Chain = 1 .. Len(rq.todo)
      BY <1>1, <2>1
    <3>2. \A i, j \in DOMAIN Chain : Chain[i] = Chain[j] => i = j
      BY ExecsFit, ProjectFits DEF Types
    <3> QED BY <3>1, <3>2
  <2>2. CASE ~(Len(rq.todo) > 1)
    BY <1>1, <2>2
  <2> QED BY <2>1, <2>2
<1>4. p = rq.todo[At(rq)]
  BY <1>1 DEF Here
<1> PICK n : n = At(rq)
  OBVIOUS
<1>5. n \in 1 .. Len(rq.todo) /\ p = rq.todo[n] /\ B = {rq.todo[k] : k \in 1 .. n - 1}
  BY <1>1, <1>2, <1>4
<1>6. p \notin B
  <2> SUFFICES ASSUME p \in B PROVE FALSE
    OBVIOUS
  <2>1. PICK k \in 1 .. n - 1 : p = rq.todo[k]
    BY <1>5
  <2>2. k \in 1 .. Len(rq.todo) /\ k # n
    BY <1>1, <1>5
  <2> QED BY <1>3, <1>5, <2>1, <2>2
<1>7. B \cup {p} = {rq.todo[k] : k \in 1 .. n}
  <2>1. \A k : k \in 1 .. n <=> k \in 1 .. n - 1 \/ k = n
    BY <1>1, <1>5
  <2> QED BY <1>5, <2>1
<1>8. rq.built # <<>> => rq.todo[1] \in B
  BY <1>1, <1>2
<1>9. B = Pipes(rq) /\ Until(rq, At(rq)) = {rq.todo[k] : k \in 1 .. n}
  BY DEF Pipes, Until
<1> QED BY <1>2, <1>4, <1>5, <1>6, <1>7, <1>8, <1>9

(* With it built, a request is at the pipeline after it. *)
Follows(rq, p, n, s) ==
  /\ \A i \in DOMAIN s.built : \/ i \in DOMAIN rq.built /\ s.built[i] = rq.built[i] /\ s.built[i].pipe # p
                              \/ \E j \in 1 .. Len(n) : s.built[i] = n[j]
  /\ Pipes(s) = Until(s, At(s) - 1)
  /\ s.pc = "create" => At(s) = Len(s.todo) + 1

LEMMA BuiltProgress ==
  ASSUME IInv, NEW q \in Requests, NEW rq, rq = requests[q], rq.pc \in {"resolve", "pin"},
         NEW p, p = Current(q), Pipes(rq) = Until(rq, At(rq) - 1),
         NEW ctx, NEW n \in Seq(Pendings), n # <<>>, Offers(rq, p, ctx, n),
         NEW s \in RequestStates, IsBuilt(rq.built, n, s.built), Built(rq, ctx, n, s)
  PROVE  Follows(rq, p, n, s)
<1> DEFINE built == s.built
           B == Pipes(rq)
           C == Pipes(s)
<1>1. /\ p \notin Pipes(rq) /\ Pipes(rq) \cup {p} = Until(rq, At(rq))
  BY NextIsNew
<1>2. /\ rq.built \in Seq(Pendings) /\ DOMAIN rq.built = 1 .. Len(rq.built)
      /\ Len(rq.todo) \in Nat /\ At(rq) \in 1 .. Len(rq.todo)
  BY WorkFacts
<1>3. Len(n) \in Nat /\ Len(n) # 0 /\ 1 \in 1 .. Len(n) /\ DOMAIN n = 1 .. Len(n)
  BY EmptySeq, LenProperties
<1>4. \A j \in 1 .. Len(n) : n[j].pipe = p
  BY DEF Offers
<1>5. /\ built \in Seq(Pendings) /\ DOMAIN built = 1 .. Len(built)
      /\ \A i \in DOMAIN built : \/ i \in DOMAIN rq.built /\ built[i] = rq.built[i]
                                 \/ \E j \in 1 .. Len(n) : built[i] = n[j]
  BY DEF IsBuilt
<1>6. built = rq.built \o n /\ s.todo = rq.todo /\ s.pc = (IF At(rq) = Len(rq.todo) THEN "create" ELSE "resolve")
  BY DEF Built
<1>7. /\ \A i \in DOMAIN rq.built : i \in DOMAIN built /\ built[i] = rq.built[i]
      /\ \E i \in DOMAIN built : built[i].pipe = p
  <2> DEFINE l == Len(rq.built)
  <2>1. l \in Nat
    BY <1>2, LenProperties
  <2>2. l + 1 \in 1 .. l + Len(n) /\ ~(l + 1 <= l) /\ (l + 1) - l = 1
    BY <1>3, <2>1
  <2>3. /\ Len(rq.built \o n) = l + Len(n)
        /\ \A i \in 1 .. l + Len(n) : (rq.built \o n)[i] = IF i <= l THEN rq.built[i] ELSE n[i - l]
    BY <1>2, ConcatProperties
  <2> HIDE DEF l, built
  <2>4. DOMAIN built = 1 .. l + Len(n)
    BY <1>5, <1>6, <2>3
  <2>5. built[l + 1] = n[1] /\ l + 1 \in DOMAIN built
    BY <1>6, <2>2, <2>3, <2>4
  <2>6. \A i \in 1 .. l : i \in 1 .. l + Len(n) /\ i <= l
    BY <1>3, <2>1
  <2>7. \A i \in 1 .. l : i \in DOMAIN built /\ built[i] = rq.built[i]
    BY <1>6, <2>3, <2>4, <2>6
  <2> QED BY <1>2, <1>3, <1>4, <2>5, <2>7 DEF l
<1> HIDE DEF built
<1>8. \A i \in DOMAIN rq.built : rq.built[i].pipe # p
  BY <1>1 DEF Pipes
<1>9. C = B \cup {p}
  <2>1. C = {built[i].pipe : i \in DOMAIN built}
    BY DEF built, Pipes
  <2> HIDE DEF C
  <2>2. C \subseteq B \cup {p}
    BY <1>4, <1>5, <2>1 DEF Pipes
  <2>3. B \subseteq C
    BY <1>7, <2>1 DEF Pipes
  <2>4. p \in C
    BY <1>7, <2>1
  <2> QED BY <2>2, <2>3, <2>4
<1>10. At(s) = At(rq) + 1
  <2>1. IsFiniteSet(B)
    BY <1>2, BuiltFinite DEF Pipes
  <2>2. At(s) = 1 + Cardinality(C) /\ At(rq) = 1 + Cardinality(B)
    BY DEF At, Pipes
  <2> HIDE DEF B, C
  <2>3. Cardinality(B) \in Nat /\ Cardinality(B \cup {p}) = Cardinality(B) + 1
    BY <1>1, <2>1, FS_CardinalityType, FS_AddElement DEF B
  <2> QED BY <1>9, <2>2, <2>3
<1>11. At(s) - 1 = At(rq)
  BY <1>2, <1>10
<1>12. Until(s, At(s) - 1) = Until(rq, At(rq))
  BY <1>6, <1>11 DEF Until
<1>13. C = Until(s, At(s) - 1)
  BY <1>1, <1>9, <1>12
<1> QED BY <1>5, <1>6, <1>8, <1>10, <1>13 DEF built, Follows

LEMMA SourceBuild ==
  ASSUME SourceInv, IInv', NEW q \in Requests, NEW rq, rq = requests[q], rq.pc \in {"resolve", "pin"},
         NEW p, p = Current(q), NEW ctx \in Contexts, FoundSound(rq, p, ctx), Build(q, ctx),
         UNCHANGED <<project, execs>>
  PROVE  SourceInv'
<1> SUFFICES ASSUME ~Ends(q) PROVE SourceInv'
  BY SourceEnds
<1>1. IInv /\ SourceFits(rq) /\ PartsFit(rq)
  BY DEF SourceInv, SoundRequests, SourceFits
<1>2. PICK n \in Seq(Pendings), s \in RequestStates :
        /\ n # <<>> /\ Offers(rq, p, ctx, n)
        /\ IsBuilt(rq.built, n, s.built) /\ Built(rq, ctx, n, s)
        /\ requests' = [requests EXCEPT ![q] = s]
  BY <1>1, BuildShape
<1>3. /\ p = Here(rq) /\ rq.todo \in Seq(Pipelines) /\ Len(rq.todo) \in Nat
      /\ At(rq) \in 1 .. Len(rq.todo) /\ (Len(rq.todo) > 1 => rq.todo = Chain)
      /\ (rq.built = <<>> => p = rq.todo[1]) /\ rq.built \in Seq(Pendings)
      /\ DOMAIN rq.built = 1 .. Len(rq.built)
      /\ (rq.built # <<>> => 1 \in DOMAIN rq.built)
  BY <1>1, WorkFacts
<1> DEFINE built == s.built
           f == built[1]
<1>4. /\ Pipes(rq) = Until(rq, At(rq) - 1) /\ rq.clone = 0 /\ rq.todo # <<>>
      /\ rq.built # <<>> => p # rq.todo[1]
  <2>1. IInv /\ rq.clone = 0
    BY <1>1, WorkFacts DEF AtWork
  <2>2. Pipes(rq) = Until(rq, At(rq) - 1)
    BY <1>1, <2>1 DEF PartsFit, Pipes, Until
  <2> QED BY <2>1, <2>2, NextIsNew
<1>5. /\ (rq.built # <<>> => rq.built[1].pipe = rq.todo[1])
      /\ \A i, j \in DOMAIN rq.built : rq.built[i].pipe = rq.built[j].pipe => rq.built[i].ref = rq.built[j].ref
      /\ \A i \in DOMAIN rq.built : PartFits(rq, rq.built[i], rq.built[1])
  BY <1>1, <1>4 DEF PartsFit
<1>6. Len(n) \in Nat /\ Len(n) # 0 /\ 1 \in 1 .. Len(n) /\ DOMAIN n = 1 .. Len(n)
  BY <1>2, EmptySeq, LenProperties
<1>7. \A j \in 1 .. Len(n) :
        n[j].pipe = p /\ n[j].ref = ctx.ref /\ n[j].own = ctx.own /\ n[j].waits = WaitsOf(rq)
  BY <1>2 DEF Offers
<1>8. /\ built \in Seq(Pendings) /\ built # <<>> /\ DOMAIN built = 1 .. Len(built)
      /\ f = IF rq.built = <<>> THEN n[1] ELSE rq.built[1]
      /\ \A i \in DOMAIN built : \/ i \in DOMAIN rq.built /\ built[i] = rq.built[i]
                                 \/ \E j \in 1 .. Len(n) : built[i] = n[j]
  BY <1>2 DEF IsBuilt
<1>9. /\ \A i \in DOMAIN built : \/ i \in DOMAIN rq.built /\ built[i] = rq.built[i] /\ built[i].pipe # p
                                 \/ \E j \in 1 .. Len(n) : built[i] = n[j]
      /\ Pipes(s) = Until(s, At(s) - 1)
      /\ s.pc = "create" => At(s) = Len(s.todo) + 1
  <2>1. /\ n \in Seq(Pendings) /\ n # <<>> /\ s \in RequestStates
        /\ Offers(rq, p, ctx, n) /\ IsBuilt(rq.built, n, s.built) /\ Built(rq, ctx, n, s)
    BY <1>2
  <2>2. IInv /\ Pipes(rq) = Until(rq, At(rq) - 1)
    BY <1>1, <1>4
  <2>3. Follows(rq, p, n, s)
    BY <2>1, <2>2, BuiltProgress
  <2> QED BY <2>3 DEF Follows
<1>11. /\ s.pc = (IF At(rq) = Len(rq.todo) THEN "create" ELSE "resolve")
       /\ s.kind = rq.kind /\ s.todo = rq.todo /\ s.clone = rq.clone
  BY <1>2 DEF Built
<1> HIDE DEF built
<1>14. f.pipe = rq.todo[1]
  BY <1>3, <1>5, <1>6, <1>7, <1>8
(* One of the new executions. *)
<1>15. ASSUME NEW b, b.pipe = p, b.ref = ctx.ref, b.own = ctx.own, b.waits = WaitsOf(rq)
       PROVE  PartFits(s, b, f)
  <2>1. Len(rq.todo) = 1 => b.waits = <<>>
    BY <1>15 DEF WaitsOf
  <2>2. Len(rq.todo) > 1 => WaitsForAll(b) /\ (p # rq.todo[1] => b.waits # <<>>)
    <3> SUFFICES ASSUME Len(rq.todo) > 1
                 PROVE  WaitsForAll(b) /\ (p # rq.todo[1] => b.waits # <<>>)
      OBVIOUS
    <3>1. rq.todo = Chain /\ p = Chain[At(rq)] /\ At(rq) \in 1 .. Len(Chain)
      BY <1>3 DEF Here
    <3>2. b.waits = ChainDependencies(At(rq))
      BY <1>15 DEF WaitsOf
    <3>3. WaitsForAll(b)
      BY <1>15, <3>1, <3>2, ChainDependenciesFacts DEF WaitsForAll
    <3>4. p # rq.todo[1] => At(rq) > 1
      BY <3>1
    <3> QED BY <3>1, <3>2, <3>3, <3>4, ChainDependenciesFacts
  <2>3. p # rq.todo[1] => Len(rq.todo) > 1
    <3>1. Len(rq.todo) = 1 => At(rq) = 1
      BY <1>3
    <3> QED BY <1>3, <3>1 DEF Here
  <2>4. CASE rq.built = <<>>
    <3>1. f.pipe = p /\ f.ref = ctx.ref /\ p = rq.todo[1]
      BY <1>3, <1>6, <1>7, <1>8, <2>4
    <3>2. ~b.own => Proven(b.pipe, b.ref)
      BY <1>15, <2>4 DEF FoundSound
    <3> HIDE DEF f
    <3> QED BY <1>11, <1>15, <2>1, <2>2, <3>1, <3>2 DEF PartFits, KeepsCommit
  <2>5. CASE rq.built # <<>>
    <3>1. f = rq.built[1] /\ p # rq.todo[1]
      BY <1>4, <1>8, <2>5
    <3>2. /\ RepoOf[p] = RepoOf[f.pipe] /\ p \notin Versioned => ctx.ref = f.ref
          /\ rq.kind = "offline" => RepoOf[p] = RepoOf[f.pipe] /\ ctx.ref = f.ref
          /\ rq.kind # "offline" /\ f.version = NoVersion /\ p \in Versioned => ctx.own
      BY <2>5, <3>1 DEF FoundSound
    <3> HIDE DEF f
    <3> QED BY <1>11, <1>14, <1>15, <2>1, <2>2, <2>3, <3>1, <3>2 DEF PartFits, KeepsCommit
  <2> QED BY <2>4, <2>5
<1>16. ASSUME NEW i \in DOMAIN built PROVE PartFits(s, built[i], f)
  <2>1. CASE i \in DOMAIN rq.built /\ built[i] = rq.built[i]
    <3>1. PartFits(rq, built[i], f)
      BY <1>5, <1>8, <2>1
    <3> HIDE DEF f
    <3> QED BY <1>11, <3>1 DEF PartFits
  <2>2. CASE \E j \in 1 .. Len(n) : built[i] = n[j]
    BY <1>7, <1>15, <2>2
  <2> QED BY <1>8, <2>1, <2>2
<1>17. ASSUME NEW i \in DOMAIN built, NEW j \in DOMAIN built, built[i].pipe = built[j].pipe
       PROVE  built[i].ref = built[j].ref
  <2>1. \A k \in DOMAIN built : \/ k \in DOMAIN rq.built /\ built[k] = rq.built[k] /\ built[k].pipe # p
                                \/ built[k].pipe = p /\ built[k].ref = ctx.ref
    BY <1>7, <1>9
  <2>2. CASE built[i].pipe = p
    BY <1>17, <2>1, <2>2
  <2>3. CASE built[i].pipe # p
    BY <1>5, <1>17, <2>1, <2>3
  <2> QED BY <2>2, <2>3
<1>18. PartsFit(s)
  <2>1. {s.built[i].pipe : i \in DOMAIN s.built} = {s.todo[k] : k \in 1 .. At(s) - 1}
    BY <1>9 DEF Pipes, Until
  <2> QED BY <1>3, <1>4, <1>9, <1>11, <1>14, <1>16, <1>17, <2>1 DEF PartsFit, built
<1>19. FirstPinned(s) /\ LooksUp(s) /\ CopyFits(s)
  <2>1. s.pc # "pin" /\ s.built # <<>> /\ s.clone = 0
    BY <1>4, <1>8, <1>11 DEF built
  <2> QED BY <2>1 DEF FirstPinned, LooksUp, CopyFits
<1>20. s \in SoundRequests
  BY <1>2, <1>18, <1>19 DEF SoundRequests, SourceFits
<1> QED BY <1>2, <1>20, SourceRequestStep
-----------------------------------------------------------------------------
LEMMA RequestKeepsType ==
  ASSUME IInv, IInv', UNCHANGED <<project, execs>>, NEW q \in Requests, NEW s,
         requests' = [requests EXCEPT ![q] = s]
  PROVE  s \in RequestStates
<1>1. requests \in [Requests -> RequestStates] /\ requests' \in [Requests -> RequestStates']
  BY DEF IInv, Types
<1>2. RequestStates' = RequestStates
  BY DEF RequestStates, Contexts, Pendings, Execs
<1>3. requests'[q] = s
  BY <1>1
<1> QED BY <1>1, <1>2, <1>3

(* A request that arrives is pinned by what it has checked. *)
LEMMA SourceBegin ==
  ASSUME SourceInv, IInv', NEW q \in Requests, NEW kind, NEW todo \in Seq(Pipelines), todo # <<>>,
         Len(todo) > 1 => todo = Chain, NEW job, Begin(q, kind, todo, job)
  PROVE  SourceInv'
<1> DEFINE dep == CheckDependencies(todo[1])
           s == [Idle EXCEPT !.pc = "resolve", !.kind = kind, !.todo = todo, !.job = job, !.dep = dep]
<1>1. dep.ok /\ requests' = [requests EXCEPT ![q] = s] /\ UNCHANGED <<project, execs>>
  BY DEF Begin
<1>2. todo[1] \in Pipelines
  <2>1. Len(todo) \in Nat /\ Len(todo) # 0
    BY EmptySeq, LenProperties
  <2>2. 1 \in 1 .. Len(todo)
    BY <2>1
  <2> QED BY <2>2, ElementOfSeq
<1>3. \A d \in ToSet(DependsOn[todo[1]]) : RepoOf[d] = RepoOf[todo[1]] =>
        dep.repo = RepoOf[todo[1]] /\ dep.ref # 0 /\ ProvenAt(d, dep.ref)
  <2>1. Types /\ (\A e \in Execs : BuildFits(execs[e])) /\ DependenciesPin
        /\ \A e, f \in Execs : SameAttempts(execs[e], execs[f])
    BY ExecsFit DEF SourceInv, SoundExecs
  <2> HIDE DEF dep
  <2> QED BY <1>1, <1>2, <2>1, CheckPins DEF dep
<1> HIDE DEF dep
<1>4. /\ s.pc = "resolve" /\ s.kind = kind /\ s.todo = todo /\ s.dep = dep /\ s.built = <<>> /\ s.clone = 0
  BY DEF Idle
<1> HIDE DEF s
<1>5. s \in RequestStates
  BY <1>1, RequestKeepsType DEF SourceInv
<1>6. FirstPinned(s) /\ LooksUp(s) /\ CopyFits(s)
  BY <1>3, <1>4 DEF FirstPinned, LooksUp, CopyFits
<1>7. PartsFit(s)
  <2>1. At(s) = 1
    BY <1>4, NothingBuilt
  <2>2. {s.built[i].pipe : i \in DOMAIN s.built} = {}
    BY <1>4
  <2>3. {s.todo[k] : k \in 1 .. At(s) - 1} = {}
    <3>1. At(s) - 1 = 0
      BY <2>1
    <3>2. \A k : ~(k \in 1 .. 0)
      OBVIOUS
    <3> QED BY <3>1, <3>2
  <2>4. DOMAIN s.built = {}
    BY <1>4
  <2> QED BY <1>4, <2>2, <2>3, <2>4 DEF PartsFit
<1>8. s \in SoundRequests
  BY <1>5, <1>6, <1>7 DEF SoundRequests, SourceFits
<1> QED BY <1>1, <1>8, SourceRequestStep

LEMMA SourceRun ==
  ASSUME SourceInv, IInv', NEW q \in Requests
  PROVE  /\ \A p \in Alone : RunPipeline(q, p) \/ RunJob(q, p) => SourceInv'
         /\ RunChain(q) => SourceInv'
<1>1. ASSUME NEW p \in Alone, RunPipeline(q, p) \/ RunJob(q, p) PROVE SourceInv'
  <2> DEFINE todo == <<p>>
  <2>1. PICK kind, job : Begin(q, kind, todo, job)
    BY <1>1 DEF RunPipeline, RunJob
  <2>2. todo \in Seq(Pipelines) /\ todo # <<>> /\ ~(Len(todo) > 1)
    <3>1. p \in Pipelines
      BY PipelinesAssumption
    <3>2. Len(todo) = 1
      OBVIOUS
    <3> QED BY <3>1, <3>2
  <2> HIDE DEF todo
  <2> QED BY <2>1, <2>2, SourceBegin
<1>2. ASSUME RunChain(q) PROVE SourceInv'
  <2> DEFINE todo == Chain
  <2>1. PICK kind : Begin(q, kind, todo, "none")
    BY <1>2 DEF RunChain
  <2>2. todo \in Seq(Pipelines) /\ todo # <<>> /\ todo = Chain
    BY ExecsFit, ProjectFits DEF SourceInv, Types
  <2> HIDE DEF todo
  <2> QED BY <2>1, <2>2, SourceBegin
<1> QED BY <1>1, <1>2
-----------------------------------------------------------------------------
LEMMA SourcePinLater ==
  ASSUME SourceInv, IInv', UNCHANGED <<project, execs>>, NEW q \in Requests, NEW rq, rq = requests[q],
         rq.pc = "resolve", NEW p, p = Current(q), NEW ctx,
         \/ ctx.own /\ p \in Versioned /\ rq.dep.version = NoVersion
         \/ ~ctx.own /\ PinnedRef(p, rq.dep) = 0 /\ (rq.dep.version # NoVersion \/ p \notin Versioned),
         requests' = [requests EXCEPT ![q] = [rq EXCEPT !.pc = "pin", !.ctx = ctx]]
  PROVE  SourceInv'
<1> DEFINE s == [rq EXCEPT !.pc = "pin", !.ctx = ctx]
<1>1. IInv /\ rq \in RequestStates /\ SourceFits(rq) /\ p = Here(rq)
  <2>1. IInv /\ rq \in RequestStates /\ SourceFits(rq)
    BY DEF SourceInv, SoundRequests
  <2> QED BY <2>1, WorkFacts
<1>2. /\ s.pc = "pin" /\ s.ctx = ctx /\ s.kind = rq.kind /\ s.todo = rq.todo
      /\ s.dep = rq.dep /\ s.built = rq.built /\ s.clone = rq.clone
  BY <1>1 DEF RequestStates
<1>3. s \in RequestStates
  <2> HIDE DEF s
  <2> QED BY <1>1, RequestKeepsType DEF s
<1> HIDE DEF s
<1>4. At(s) = At(rq) /\ Here(s) = p
  <2>1. At(s) = At(rq)
    BY <1>2 DEF At
  <2> QED BY <1>1, <1>2, <2>1 DEF Here
<1>5. FirstPinned(s)
  BY <1>1, <1>2 DEF SourceFits, FirstPinned
<1>6. LooksUp(s)
  BY <1>2, <1>4 DEF LooksUp
<1>7. PartsFit(s)
  <2> SUFFICES ASSUME s.clone = 0 PROVE PartsFit(s)
    BY DEF PartsFit
  <2>1. /\ rq.todo # <<>> /\ (Len(rq.todo) > 1 => rq.todo = Chain)
        /\ Pipes(rq) = Until(rq, At(rq) - 1)
        /\ rq.built # <<>> => rq.built[1].pipe = rq.todo[1]
        /\ \A i, j \in DOMAIN rq.built : rq.built[i].pipe = rq.built[j].pipe => rq.built[i].ref = rq.built[j].ref
        /\ \A i \in DOMAIN rq.built : PartFits(rq, rq.built[i], rq.built[1])
    BY <1>1, <1>2 DEF SourceFits, PartsFit, Pipes, Until
  <2>2. Pipes(s) = Pipes(rq)
    BY <1>2 DEF Pipes
  <2>3. Until(s, At(s) - 1) = Until(rq, At(rq) - 1)
    BY <1>2, <1>4 DEF Until
  <2>4. \A b, f : PartFits(rq, b, f) => PartFits(s, b, f)
    BY <1>2 DEF PartFits
  <2>5. \A i \in DOMAIN s.built : PartFits(s, s.built[i], s.built[1])
    BY <1>2, <2>1, <2>4
  <2>6. {s.built[i].pipe : i \in DOMAIN s.built} = {s.todo[k] : k \in 1 .. At(s) - 1}
    BY <2>1, <2>2, <2>3 DEF Pipes, Until
  <2>7. /\ s.todo # <<>> /\ (Len(s.todo) > 1 => s.todo = Chain)
        /\ s.built # <<>> => s.built[1].pipe = s.todo[1]
        /\ \A i, j \in DOMAIN s.built : s.built[i].pipe = s.built[j].pipe => s.built[i].ref = s.built[j].ref
    BY <1>2, <2>1
  <2> QED BY <1>2, <2>5, <2>6, <2>7 DEF PartsFit
<1>8. CopyFits(s)
  BY <1>1, <1>2 DEF SourceFits, CopyFits
<1>9. s \in SoundRequests
  BY <1>3, <1>5, <1>6, <1>7, <1>8 DEF SoundRequests, SourceFits
<1> QED BY <1>9, SourceRequestStep DEF s

(* At the first pipeline of a request its dependencies have pinned the     *)
(* commit; at the others, the first has, if it is of their repository.     *)
LEMMA FirstIsPinned ==
  ASSUME SourceInv, NEW q \in Requests, NEW rq, rq = requests[q], rq.pc \in {"resolve", "pin"},
         NEW p, p = Current(q), rq.built = <<>>, NEW n, n = PinnedRef(p, rq.dep) \/ PinnedRef(p, rq.dep) = 0
  PROVE  Proven(p, n)
<1>1. IInv /\ FirstPinned(rq)
  BY DEF SourceInv, SoundRequests, SourceFits
<1>2. p = rq.todo[1]
  BY <1>1, WorkFacts
<1>3. \A d \in ToSet(DependsOn[p]) : RepoOf[d] = RepoOf[p] =>
        rq.dep.repo = RepoOf[p] /\ rq.dep.ref # 0 /\ ProvenAt(d, rq.dep.ref)
  BY <1>1, <1>2 DEF FirstPinned
<1> QED BY <1>3 DEF Proven, PinnedRef

LEMMA OthersArePinned ==
  ASSUME SourceInv, NEW q \in Requests, NEW rq, rq = requests[q], rq.pc \in {"resolve", "pin"},
         NEW p, p = Current(q), rq.built # <<>>, NEW f, f = rq.built[1]
  PROVE  /\ f.version = rq.dep.version
         /\ RepoOf[p] = RepoOf[f.pipe] => PinnedRef(p, rq.dep) = f.ref /\ f.ref \in Nat \ {0}
<1>1. IInv
  BY DEF SourceInv
<1>2. AtWork(rq) /\ BuildFits(f) /\ f \in Pendings
  BY <1>1, WorkFacts
<1>3. /\ f.pipe = rq.todo[1] /\ rq.dep.version = f.version
      /\ rq.dep.repo = RepoOf[rq.todo[1]] /\ rq.dep.ref = f.ref
  BY <1>2 DEF AtWork
<1>4. f.ref \in Nat \ {0}
  BY <1>2 DEF BuildFits, Pendings
<1> QED BY <1>3, <1>4 DEF PinnedRef

LEMMA SourceResolve ==
  ASSUME SourceInv, IInv', NEW q \in Requests, Resolve(q), NEW rq, rq = requests[q], NEW p, p = Current(q)
  PROVE  SourceInv'
<1> DEFINE dep == rq.dep
           r == RepoOf[p]
           raw == commits[r][Tip(r)]
           Later(ctx) == requests' = [requests EXCEPT ![q] = [rq EXCEPT !.pc = "pin", !.ctx = ctx]]
           inherited == dep.version # NoVersion \/ p \notin Versioned
           ref == PinnedRef(p, dep)
<1>1. rq.pc = "resolve" /\ rq.kind # "offline" /\ UNCHANGED <<project, execs>>
  BY DEF Resolve
<1>2. /\ inherited /\ ref # 0 => Build(q, ContextOf(dep.version, ref, FALSE))
      /\ inherited /\ ref = 0 => Later(ContextOf(dep.version, 0, FALSE))
      /\ ~inherited /\ raw # 0 /\ Tip(r) # 0 =>
           Build(q, ContextOf([raw |-> raw, tag |-> TagPrefix[p]], Tip(r), TRUE))
      /\ ~inherited /\ raw = 0 => Ends(q) \/ Later(ContextOf(NoVersion, 0, TRUE))
  BY DEF Resolve, ContextOf
<1>3. /\ rq \in RequestStates /\ p \in Pipelines /\ rq.pc \in {"resolve", "pin"}
      /\ rq.built # <<>> => 1 \in DOMAIN rq.built
  BY <1>1, WorkFacts DEF SourceInv
<1>4. Types /\ r \in Repos /\ dep \in Contexts /\ dep.version \in Versions /\ dep.ref \in Nat
  BY <1>3, ExecsFit, Configured DEF SourceInv, RequestStates, Contexts
<1>5. Tip(r) \in Nat \ {0} /\ raw \in Nat
  BY <1>4, TipFacts
<1>6. ref \in Nat
  BY <1>4 DEF PinnedRef
<1>7. /\ rq.built = <<>> /\ ref # 0 => Proven(p, ref)
      /\ rq.built # <<>> =>
           /\ rq.built[1].version = dep.version
           /\ RepoOf[p] = RepoOf[rq.built[1].pipe] => ref = rq.built[1].ref
  BY <1>3, FirstIsPinned, OthersArePinned
<1> HIDE DEF r, raw, ref
<1>8. CASE inherited /\ ref # 0
  <2> DEFINE ctx == ContextOf(dep.version, ref, FALSE)
  <2>1. ctx \in Contexts /\ ctx.ref = ref /\ ~ctx.own
    <3> HIDE DEF inherited, dep
    <3> QED BY <1>4, <1>6, ContextOfFacts
  <2>2. Build(q, ctx)
    BY <1>2, <1>8
  <2> HIDE DEF ctx
  <2>3. FoundSound(rq, p, ctx)
    BY <1>1, <1>7, <1>8, <2>1 DEF FoundSound
  <2> QED BY <1>1, <1>3, <2>1, <2>2, <2>3, SourceBuild
<1>9. CASE inherited /\ ref = 0
  <2> DEFINE ctx == ContextOf(dep.version, 0, FALSE)
  <2>1. ~ctx.own
    <3> HIDE DEF inherited, dep
    <3> QED BY <1>4, ContextOfFacts
  <2>2. Later(ctx)
    BY <1>2, <1>9
  <2> HIDE DEF ctx
  <2> QED BY <1>1, <1>9, <2>1, <2>2, SourcePinLater DEF ref
<1>10. CASE ~inherited /\ raw # 0
  <2> DEFINE v == [raw |-> raw, tag |-> TagPrefix[p]]
             ctx == ContextOf(v, Tip(r), TRUE)
  <2>1. v \in Versions
    BY <1>3, <1>5 DEF Versions, Tags
  <2>2. Build(q, ctx)
    BY <1>2, <1>5, <1>10
  <2> HIDE DEF v
  <2>3. ctx \in Contexts /\ ctx.own
    BY <1>5, <2>1, ContextOfFacts
  <2> HIDE DEF ctx
  <2>4. FoundSound(rq, p, ctx)
    BY <1>1, <1>10, <2>3 DEF FoundSound
  <2> QED BY <1>1, <1>3, <2>2, <2>3, <2>4, SourceBuild
<1>11. CASE ~inherited /\ raw = 0
  <2>1. CASE Ends(q)
    BY <1>1, <2>1, SourceEnds
  <2>2. CASE Later(ContextOf(NoVersion, 0, TRUE))
    <3> DEFINE ctx == ContextOf(NoVersion, 0, TRUE)
    <3>1. ctx.own
      <4>1. NoVersion \in Versions /\ 0 \in Nat /\ TRUE \in BOOLEAN
        BY NoVersionKnown
      <4> HIDE DEF NoVersion
      <4> QED BY <4>1, ContextOfFacts
    <3>2. Later(ctx)
      BY <2>2
    <3> HIDE DEF ctx
    <3> QED BY <1>1, <1>11, <3>1, <3>2, SourcePinLater
  <2> QED BY <1>2, <1>11, <2>1, <2>2
<1> QED BY <1>8, <1>9, <1>10, <1>11

(* What is looked up was pinned by nothing in this repository. *)
LEMMA SourcePin ==
  ASSUME SourceInv, IInv', NEW q \in Requests, Pin(q), NEW rq, rq = requests[q], NEW p, p = Current(q)
  PROVE  SourceInv'
<1> DEFINE n == Tip(RepoOf[p])
           ctx == [rq.ctx EXCEPT !.ref = n]
<1>1. rq.pc = "pin" /\ Build(q, ctx) /\ UNCHANGED <<project, execs>>
  BY DEF Pin
<1>2. IInv /\ LooksUp(rq)
  BY DEF SourceInv, SoundRequests, SourceFits
<1>3. rq \in RequestStates /\ RequestFits(rq) /\ p = Here(rq) /\ p \in Pipelines /\ rq.pc \in {"resolve", "pin"}
  BY <1>1, <1>2, WorkFacts
<1>4. n \in Nat /\ rq.ctx \in Contexts /\ rq.kind # "offline"
  <2>1. n \in Nat
    BY <1>2, <1>3, ExecsFit, TipFacts, Configured
  <2> QED BY <1>1, <1>3, <2>1 DEF RequestStates, RequestFits, AtPin
<1> HIDE DEF n
<1>5. ctx \in Contexts /\ ctx.own = rq.ctx.own
  BY <1>4 DEF Contexts
<1> HIDE DEF ctx
<1>6. \/ ctx.own /\ p \in Versioned
      \/ /\ ~ctx.own /\ PinnedRef(p, rq.dep) = 0
         /\ rq.dep.version # NoVersion \/ p \notin Versioned
  BY <1>1, <1>2, <1>3, <1>5 DEF LooksUp
<1>7. FoundSound(rq, p, ctx)
  <2>1. CASE ctx.own /\ p \in Versioned
    BY <1>4, <2>1 DEF FoundSound
  <2>2. CASE PinnedRef(p, rq.dep) = 0 /\ (rq.dep.version # NoVersion \/ p \notin Versioned)
    <3>1. rq.built = <<>> => Proven(p, ctx.ref)
      <4> PICK m : m = ctx.ref
        OBVIOUS
      <4> QED BY <1>3, <2>2, FirstIsPinned
    <3>2. rq.built # <<>> => rq.built[1].version = rq.dep.version /\ RepoOf[p] # RepoOf[rq.built[1].pipe]
      <4> SUFFICES ASSUME rq.built # <<>>
                   PROVE  rq.built[1].version = rq.dep.version /\ RepoOf[p] # RepoOf[rq.built[1].pipe]
        OBVIOUS
      <4>1. rq.pc \in {"resolve", "pin"}
        BY <1>1
      <4> QED BY <2>2, <4>1, OthersArePinned
    <3> QED BY <1>4, <2>2, <3>1, <3>2 DEF FoundSound
  <2> QED BY <1>6, <2>1, <2>2
<1> QED BY <1>1, <1>3, <1>5, <1>7, SourceBuild

(* A cached context comes from dependencies, or from a run that had them.  *)
LEMMA SourceResolveCached ==
  ASSUME SourceInv, IInv', NEW q \in Requests, ResolveCached(q), NEW rq, rq = requests[q],
         NEW p, p = Current(q)
  PROVE  SourceInv'
<1> DEFINE c == Cached(p, rq.dep)
           own == VerifyDependencyRun(Execs, p)
<1>1. /\ rq.pc = "resolve" /\ rq.kind = "offline" /\ UNCHANGED <<project, execs>>
      /\ \/ Position(q) > 1 /\ Build(q, rq.ctx)
         \/ ~(Position(q) > 1) /\ c.ok /\ c.ref # 0 /\ Build(q, c)
         \/ Ends(q)
  BY DEF ResolveCached
<1>2. IInv /\ Types /\ SoundExecs /\ (\A e \in Execs : BuildFits(execs[e])) /\ rq.pc \in {"resolve", "pin"}
  BY <1>1, ExecsFit DEF SourceInv
<1>3. /\ rq \in RequestStates /\ RequestFits(rq) /\ AtWork(rq) /\ p = Here(rq) /\ p \in Pipelines
      /\ DOMAIN rq.todo = 1 .. Len(rq.todo) /\ At(rq) \in 1 .. Len(rq.todo)
      /\ Position(q) = At(rq)
  BY <1>2, WorkFacts
<1>4. rq.dep \in Contexts /\ rq.ctx \in Contexts
  BY <1>3 DEF RequestStates
<1> HIDE DEF c, own
<1>5. CASE Position(q) > 1 /\ Build(q, rq.ctx)
  <2>1. rq.built # <<>>
    BY <1>3, <1>5, NothingBuilt
  <2>2. /\ \A i \in DOMAIN rq.todo : RepoOf[rq.todo[i]] = RepoOf[rq.todo[1]]
        /\ rq.ctx.ref = rq.built[1].ref /\ rq.built[1].pipe = rq.todo[1]
    BY <1>1, <1>3, <2>1 DEF RequestFits, FromCache, AtWork
  <2>3. RepoOf[p] = RepoOf[rq.built[1].pipe]
    BY <1>3, <2>2 DEF Here
  <2>4. FoundSound(rq, p, rq.ctx)
    BY <1>1, <2>1, <2>2, <2>3 DEF FoundSound
  <2> QED BY <1>1, <1>2, <1>4, <1>5, <2>4, SourceBuild
<1>6. CASE ~(Position(q) > 1) /\ c.ok /\ c.ref # 0 /\ Build(q, c)
  <2>1. rq.built = <<>>
    BY <1>2, <1>3, <1>6, NothingYet
  <2>2. c \in Contexts /\ (~c.own => Proven(p, c.ref))
    <3>1. CASE rq.dep.version # NoVersion
      <4> DEFINE n == PinnedRef(p, rq.dep)
      <4>1. n \in Nat /\ rq.dep.version \in Versions
        BY <1>4 DEF PinnedRef, Contexts
      <4>2. c = [NoContext EXCEPT !.version = rq.dep.version, !.ref = n]
        BY <3>1 DEF c, Cached
      <4> HIDE DEF n
      <4>3. c \in Contexts /\ c.ref = n
        BY <4>1, <4>2, BlankContext DEF Contexts, NoContext
      <4>4. n # 0 => Proven(p, n)
        BY <1>2, <2>1, FirstIsPinned DEF n
      <4> QED BY <1>6, <4>3, <4>4
    <3>2. CASE rq.dep.version = NoVersion
      <4>1. own \in Contexts
        <5>1. own \in FittingContexts
          BY <1>2, <1>3, VerifiedFits DEF own
        <5> QED BY <5>1 DEF FittingContexts
      <4>2. c = [NoContext EXCEPT !.ok = own.ok, !.version = own.version, !.ref = own.ref, !.own = own.own]
        BY <3>2 DEF c, Cached, own
      <4>3. c \in Contexts /\ c.ok = own.ok /\ c.ref = own.ref /\ c.own = own.own
        BY <4>1, <4>2, BlankContext DEF Contexts, NoContext
      <4>4. own.ok
        BY <1>6, <4>3
      <4>5. \E e \in Execs : /\ execs[e].pipe = p /\ own.ref = execs[e].ref /\ own.own = execs[e].own
                             /\ execs[e].status = "succeeded"
        BY <1>2, <4>4, VerifiedIsProven DEF own, SoundExecs
      <4>6. PICK e \in Execs : /\ execs[e].pipe = p /\ own.ref = execs[e].ref /\ own.own = execs[e].own
                               /\ execs[e].status = "succeeded"
        BY <4>5
      <4>7. ReleaseFits(execs[e])
        BY <1>2 DEF SoundExecs, SoundExecutions
      <4> QED BY <4>3, <4>6, <4>7 DEF ReleaseFits
    <3> QED BY <3>1, <3>2
  <2>3. FoundSound(rq, p, c)
    BY <2>1, <2>2 DEF FoundSound
  <2> QED BY <1>1, <1>2, <1>6, <2>2, <2>3, SourceBuild
<1>7. CASE Ends(q)
  BY <1>1, <1>7, SourceEnds
<1> QED BY <1>1, <1>5, <1>6, <1>7
-----------------------------------------------------------------------------
LEMMA SourceBeginRerun ==
  ASSUME SourceInv, IInv', NEW q \in Requests, NEW e \in Execs, BeginRerun(q, e), NEW x, x = execs[e]
  PROVE  SourceInv'
<1> DEFINE ctx == IF DependsOn[x.pipe] = <<>> THEN NoContext
                  ELSE IF x.chain # 0 THEN ChainContext(x.pipe, x.chain) ELSE CheckDependencies(x.pipe)
           b == [pipe |-> x.pipe, job |-> x.job, version |-> x.version, ref |-> x.ref, bump |-> x.bump,
                 own |-> x.own, arts |-> Artifacts(x.pipe, ctx), waits |-> x.waits]
           l == <<b>>
           s == [Idle EXCEPT !.pc = "create", !.clone = e, !.built = l]
<1>1. /\ requests' = [requests EXCEPT ![q] = s] /\ UNCHANGED <<project, execs>>
      /\ x.again /\ ctx.ok
  BY DEF BeginRerun
<1>2. x \in Executions /\ ReleaseFits(x) /\ e # 0
  <2>1. e # 0
    BY ExecsFacts DEF SourceInv, IInv
  <2> QED BY <2>1 DEF SourceInv, SoundExecs, SoundExecutions
<1>3. x.waits = <<>>
  BY <1>1, <1>2 DEF ReleaseFits
<1>4. ~x.own => Proven(x.pipe, x.ref)
  <2> PICK c : c = ctx
    OBVIOUS
  <2>1. c.ok /\ x.again
    BY <1>1
  <2> QED BY <2>1, RerunProven
<1> HIDE DEF ctx
<1>5. b.pipe = x.pipe /\ b.ref = x.ref /\ b.own = x.own /\ b.waits = x.waits
  OBVIOUS
<1> HIDE DEF b
<1>6. Len(l) = 1 /\ l[1] = b
  OBVIOUS
<1> HIDE DEF l
<1>7. s.pc = "create" /\ s.clone = e /\ s.built = l
  BY DEF Idle
<1> HIDE DEF s
<1>8. s \in RequestStates
  BY <1>1, RequestKeepsType DEF SourceInv
<1>9. CopyFits(s)
  BY <1>3, <1>4, <1>5, <1>6, <1>7 DEF CopyFits
<1>10. FirstPinned(s) /\ LooksUp(s) /\ PartsFit(s)
  BY <1>2, <1>7 DEF FirstPinned, LooksUp, PartsFit
<1>11. s \in SoundRequests
  BY <1>8, <1>9, <1>10 DEF SoundRequests, SourceFits
<1> QED BY <1>1, <1>11, SourceRequestStep
-----------------------------------------------------------------------------
(* What is stored of a request's i-th execution, after n others. *)
IsCopy(rq, n, i, x) ==
  LET b == rq.built[i] IN
  /\ x.pipe = b.pipe /\ x.ref = b.ref /\ x.own = b.own /\ x.waits = b.waits
  /\ x.version = b.version /\ x.arts = b.arts /\ x.status = "queued" /\ x.again = FALSE
  /\ IF rq.clone # 0
     THEN /\ x.run = execs[rq.clone].run /\ x.root = execs[rq.clone].root
          /\ x.chain = execs[rq.clone].chain
     ELSE /\ x.run = n + RunName(rq.built, i) /\ x.root = n + i
          /\ x.chain = IF Len(rq.todo) > 1 THEN n + 1 ELSE 0

(* What a creation does to the executions, for a request `rq` with `m`     *)
(* pending ones and `n` executions before.                                 *)
Appended(q, rq, n, m) ==
  /\ n \in Nat /\ m \in Nat \ {0} /\ Execs = 1 .. n /\ Execs' = 1 .. n + m /\ DOMAIN rq.built = 1 .. m
  /\ rq.pc = "create" /\ Ends(q) /\ UNCHANGED project
  /\ \A e \in Execs : execs'[e] = execs[e]
  /\ \A i \in 1 .. m : IsCopy(rq, n, i, execs'[n + i])

LEMMA CreatedFacts ==
  ASSUME IInv, NEW q \in Requests, Create(q), NEW rq, rq = requests[q], NEW n, n = Len(execs),
         NEW m, m = Len(rq.built)
  PROVE  Appended(q, rq, n, m)
<1> DEFINE new == [i \in DOMAIN rq.built |->
             [pipe |-> rq.built[i].pipe, job |-> rq.built[i].job, version |-> rq.built[i].version,
              ref |-> rq.built[i].ref, bump |-> rq.built[i].bump, own |-> rq.built[i].own,
              arts |-> rq.built[i].arts, waits |-> rq.built[i].waits, status |-> "queued",
              again |-> FALSE, base |-> 0,
              run |-> IF rq.clone # 0 THEN execs[rq.clone].run ELSE n + RunName(rq.built, i),
              root |-> IF rq.clone # 0 THEN execs[rq.clone].root ELSE n + i,
              chain |-> IF rq.clone # 0 THEN execs[rq.clone].chain
                        ELSE IF Len(rq.todo) > 1 THEN n + 1 ELSE 0]]
<1>1. rq.pc = "create" /\ execs' = execs \o new /\ Ends(q) /\ UNCHANGED project
  BY ZenonT(60) DEF Create, RunName
<1>2. Types /\ n \in Nat /\ Execs = 1 .. n /\ execs \in Seq(Executions)
  BY ExecsFit, ExecsFacts DEF Types
<1>3. m \in Nat \ {0} /\ DOMAIN rq.built = 1 .. m
  <2>1. rq \in RequestStates /\ RequestFits(rq)
    BY DEF IInv, FittingRequests
  <2>2. rq.built \in Seq(Pendings) /\ rq.built # <<>>
    BY <1>1, <2>1 DEF RequestStates, RequestFits, ToCreate
  <2>3. Len(rq.built) \in Nat /\ Len(rq.built) # 0 /\ DOMAIN rq.built = 1 .. Len(rq.built)
    BY <2>2, EmptySeq, LenProperties
  <2> QED BY <2>3
<1>4. ASSUME NEW i \in 1 .. m
      PROVE  IsCopy(rq, n, i, new[i])
  BY ZenonT(60), <1>3 DEF IsCopy
<1>5. new = [i \in 1 .. m |-> new[i]]
  BY <1>3
<1> HIDE DEF new
<1>6. /\ Len(execs \o new) = n + m /\ DOMAIN (execs \o new) = 1 .. n + m
      /\ \A i \in 1 .. n + m : (execs \o new)[i] = IF i <= n THEN execs[i] ELSE new[i - n]
  <2> DEFINE S == Executions \cup {new[i] : i \in 1 .. m}
  <2>1. new \in [1 .. m -> S]
    <3>1. \A i \in 1 .. m : new[i] \in S
      OBVIOUS
    <3> HIDE DEF S
    <3> QED BY <1>5, <3>1
  <2>2. execs \in Seq(S)
    <3>1. Executions \subseteq S
      OBVIOUS
    <3> HIDE DEF S
    <3> QED BY <1>2, <3>1, SeqMonotonic
  <2> HIDE DEF S
  <2>3. new \in Seq(S) /\ Len(new) = m
    <3>1. new \in Seq(S)
      BY <1>3, <2>1, SeqDef
    <3>2. DOMAIN new = 1 .. m
      BY <2>1
    <3> QED BY <1>3, <3>1, <3>2, LenProperties
  <2> PICK T : T = S
    OBVIOUS
  <2> PICK a \in Seq(T), b \in Seq(T) : a = execs /\ b = new
    BY <2>2, <2>3
  <2>4. /\ a \o b \in Seq(T) /\ Len(a \o b) = Len(a) + Len(b)
        /\ \A i \in 1 .. Len(a) + Len(b) : (a \o b)[i] = IF i <= Len(a) THEN a[i] ELSE b[i - Len(a)]
    BY ConcatProperties
  <2>5. DOMAIN (a \o b) = 1 .. Len(a \o b)
    BY <2>4, LenProperties
  <2> QED BY <2>3, <2>4, <2>5
<1>7. ASSUME NEW i \in 1 .. m PROVE execs'[n + i] = new[i]
  <2>1. n + i \in 1 .. n + m /\ ~(n + i <= n) /\ (n + i) - n = i
    BY <1>2, <1>3
  <2> QED BY <1>1, <1>6, <2>1
<1>8. Execs' = 1 .. n + m
  BY <1>1, <1>6 DEF Execs
<1>9. \A e \in Execs : execs'[e] = execs[e]
  BY <1>1, <1>2, <1>3, <1>6
<1> QED BY <1>1, <1>2, <1>3, <1>4, <1>7, <1>8, <1>9 DEF Appended

(* What is stored is sound with what was there. *)
LEMMA SourceStored ==
  ASSUME SourceInv, IInv', NEW q \in Requests, Ends(q), Advances,
         \A e \in Execs : execs'[e] = execs[e],
         \A e, f \in Execs' : SameAttempts(execs'[e], execs'[f]),
         \A e, f \in Execs' : execs'[e].chain # 0 /\ execs'[f].chain = execs'[e].chain =>
           Shares(execs'[e], execs'[f], execs'[execs'[e].chain]),
         \A e \in Execs' \ Execs : execs'[e] \in SoundExecutions'
  PROVE  SourceInv'
<1>1. Types /\ SoundExecs /\ Chain' = Chain /\ DependenciesPin' /\ Execs \subseteq Execs'
      /\ Execs = 1 .. Len(execs) /\ Len(execs) \in Nat
  BY AllProvenStay, ExecsFacts DEF SourceInv, IInv, Advances
<1>2. ASSUME NEW e \in Execs PROVE execs'[e] \in SoundExecutions'
  <2> PICK x : x = execs[e]
    OBVIOUS
  <2>1. ChainFits(x) /\ ReleaseFits(x) /\ execs'[e] = x
    BY <1>1 DEF SoundExecs, SoundExecutions
  <2>2. x.chain # 0 => execs'[x.chain] = execs[x.chain]
    <3>1. x.chain \in 0 .. e
      BY DEF SourceInv, IInv, PlaceFits
    <3>2. x.chain # 0 => x.chain \in Execs
      BY <1>1, <3>1
    <3> QED BY <3>2
  <2>3. \A c, p : InChain(c, p) # {} => InChain(c, p)' # {}
    BY <1>1 DEF InChain
  <2>4. WaitsForAll(x)' = WaitsForAll(x)
    BY <1>1 DEF WaitsForAll
  <2>5. \A f : KeepsCommit(x, f)' = KeepsCommit(x, f)
    BY DEF KeepsCommit
  <2>6. ChainFits(x)'
    BY <1>1, <2>1, <2>2, <2>3, <2>4, <2>5 DEF ChainFits, KeepsCommit
  <2>7. ReleaseFits(x)'
    BY <1>1, <2>1, AllProvenStay DEF ReleaseFits
  <2>8. x \in Executions'
    BY <1>1, <2>1, StatesGrow DEF SoundExecs, SoundExecutions
  <2> QED BY <2>1, <2>6, <2>7, <2>8 DEF SoundExecutions
<1>4. \A e \in Execs' : execs'[e] \in SoundExecutions'
  <2> HIDE DEF SoundExecutions
  <2> QED BY <1>2
<1>5. SoundExecs'
  <2> HIDE DEF SoundExecutions
  <2> QED BY <1>4 DEF SoundExecs, SameAttempts, Shares
<1>6. \A i \in Requests : requests'[i] \in SoundRequests'
  <2>1. \A i \in Requests : requests'[i] \in SoundRequests
    BY IdleIsSound DEF Ends, SourceInv, IInv, Types
  <2> QED BY <2>1, RequestSound
<1> QED BY <1>1, <1>5, <1>6 DEF SourceInv
-----------------------------------------------------------------------------
(* The copy of a rerun is another attempt of what it copies. *)
LEMMA SourceCopy ==
  ASSUME SourceInv, IInv', NEW q \in Requests, Create(q), NEW rq, rq = requests[q], rq.clone # 0
  PROVE  SourceInv'
<1> PICK n, m : n = Len(execs) /\ m = Len(rq.built)
  OBVIOUS
<1>1. /\ n \in Nat /\ Execs = 1 .. n /\ Execs' = 1 .. n + m
      /\ rq.pc = "create" /\ Ends(q) /\ project' = project
      /\ \A e \in Execs : execs'[e] = execs[e]
      /\ \A i \in 1 .. m : IsCopy(rq, n, i, execs'[n + i])
  <2>1. IInv /\ n = Len(execs) /\ m = Len(rq.built)
    BY DEF SourceInv
  <2>2. Appended(q, rq, n, m)
    BY <2>1, CreatedFacts
  <2> QED BY <2>2 DEF Appended
<1>2. rq \in RequestStates /\ CopyFits(rq) /\ rq.clone \in Execs
  BY DEF SourceInv, SoundRequests, SourceFits, RequestStates
<1> PICK z, y : z = execs[rq.clone] /\ y = execs'[n + 1]
  OBVIOUS
<1>3. m = 1 /\ n + 1 \in Execs' /\ Execs' \ Execs = {n + 1} /\ Execs \subseteq Execs'
  <2>1. m = 1
    BY <1>2 DEF CopyFits
  <2>2. \A i : i \in 1 .. n + 1 <=> i \in 1 .. n \/ i = n + 1
    BY <1>1
  <2>3. n + 1 \notin 1 .. n
    BY <1>1
  <2>4. Execs = 1 .. n /\ Execs' = 1 .. n + 1
    BY <1>1, <2>1
  <2> QED BY <2>1, <2>2, <2>3, <2>4
<1>4. /\ y.pipe = z.pipe /\ y.ref = z.ref /\ y.own = z.own /\ y.waits = <<>>
      /\ y.status = "queued" /\ y.again = FALSE
      /\ y.run = z.run /\ y.root = z.root /\ y.chain = z.chain
      /\ ~y.own => Proven(y.pipe, y.ref)
  <2>1. 1 \in 1 .. m
    BY <1>3
  <2>2. IsCopy(rq, n, 1, y)
    BY <1>1, <2>1
  <2> QED BY <1>2, <2>2 DEF IsCopy, CopyFits
(* Everything is like something that was there. *)
<1>5. ASSUME NEW e \in Execs'
      PROVE  \E i \in Execs :
               /\ execs'[e].pipe = execs[i].pipe /\ execs'[e].ref = execs[i].ref
               /\ execs'[e].own = execs[i].own /\ execs'[e].run = execs[i].run
               /\ execs'[e].root = execs[i].root /\ execs'[e].chain = execs[i].chain
  <2>1. CASE e \in Execs
    BY <1>1, <2>1
  <2>2. CASE e = n + 1
    BY <1>2, <1>4, <2>2
  <2> QED BY <1>3, <2>1, <2>2
<1>6. Advances
  BY <1>1, <1>2, <1>3, <1>4 DEF Advances, SameBuild
<1>7. \A e, f \in Execs' : SameAttempts(execs'[e], execs'[f])
  <2> SUFFICES ASSUME NEW e \in Execs', NEW f \in Execs' PROVE SameAttempts(execs'[e], execs'[f])
    OBVIOUS
  <2> PICK a, b : a = execs'[e] /\ b = execs'[f]
    OBVIOUS
  <2>1. PICK i \in Execs : /\ a.pipe = execs[i].pipe /\ a.ref = execs[i].ref /\ a.run = execs[i].run
                           /\ a.root = execs[i].root /\ a.chain = execs[i].chain
    BY <1>5
  <2>2. PICK j \in Execs : /\ b.pipe = execs[j].pipe /\ b.ref = execs[j].ref /\ b.run = execs[j].run
                           /\ b.root = execs[j].root /\ b.chain = execs[j].chain
    BY <1>5
  <2>3. SameAttempts(execs[i], execs[j])
    BY DEF SourceInv, SoundExecs
  <2> QED BY <2>1, <2>2, <2>3 DEF SameAttempts
<1>8. \A c, e : e \in Execs /\ c = execs[e].chain /\ c # 0 => c \in Execs
  <2> SUFFICES ASSUME NEW e \in Execs, execs[e].chain # 0 PROVE execs[e].chain \in Execs
    OBVIOUS
  <2>1. execs[e].chain \in 0 .. e
    BY DEF SourceInv, IInv, PlaceFits
  <2> QED BY <1>1, <2>1
<1>9. \A e, f \in Execs' : execs'[e].chain # 0 /\ execs'[f].chain = execs'[e].chain =>
        Shares(execs'[e], execs'[f], execs'[execs'[e].chain])
  <2> SUFFICES ASSUME NEW e \in Execs', NEW f \in Execs', execs'[e].chain # 0,
                      execs'[f].chain = execs'[e].chain
               PROVE  Shares(execs'[e], execs'[f], execs'[execs'[e].chain])
    OBVIOUS
  <2> PICK a, b, c : a = execs'[e] /\ b = execs'[f] /\ c = a.chain
    OBVIOUS
  <2>1. PICK i \in Execs : /\ a.pipe = execs[i].pipe /\ a.ref = execs[i].ref /\ a.own = execs[i].own
                           /\ execs[i].chain = c
    BY <1>5
  <2>2. PICK j \in Execs : b.pipe = execs[j].pipe /\ b.ref = execs[j].ref /\ execs[j].chain = c
    BY <1>5
  <2>3. c \in Execs /\ execs'[c] = execs[c]
    BY <1>1, <1>8, <2>1
  <2>4. Shares(execs[i], execs[j], execs[c])
    BY <2>1, <2>2 DEF SourceInv, SoundExecs
  <2>5. Shares(a, b, execs'[c])
    BY <2>1, <2>2, <2>3, <2>4 DEF Shares
  <2> QED BY <2>5
<1>10. y \in SoundExecutions'
  <2>1. y \in Executions'
    BY <1>3, ElementOfSeq, LenProperties DEF IInv, Types, Execs
  <2>2. ChainFits(z)
    BY <1>2 DEF SourceInv, SoundExecs, SoundExecutions
  <2>3. z.chain # 0 => execs'[z.chain] = execs[z.chain]
    BY <1>1, <1>2, <1>8
  <2>4. \A c, p : InChain(c, p) # {} => InChain(c, p)' # {}
    BY <1>1, <1>3 DEF InChain
  <2>5. Chain' = Chain
    BY <1>1 DEF Chain
  <2>6. z.chain # 0 => KeepsCommit(y, execs[z.chain])
    BY SMTT(30), <1>4, <2>2 DEF ChainFits, KeepsCommit
  <2>7. ChainFits(y)'
    BY ZenonT(60), <1>4, <2>2, <2>3, <2>4, <2>5, <2>6 DEF ChainFits, KeepsCommit
  <2>8. ReleaseFits(y)'
    BY <1>4, <1>6, AllProvenStay DEF ReleaseFits
  <2> QED BY <2>1, <2>7, <2>8 DEF SoundExecutions
<1>11. \A e \in Execs' \ Execs : execs'[e] \in SoundExecutions'
  <2> HIDE DEF SoundExecutions
  <2> QED BY <1>3, <1>10
<1> QED BY <1>1, <1>6, <1>7, <1>9, <1>11, SourceStored

(* What a request builds is runs and, if they are several pipelines, a     *)
(* chain that has not been there.                                          *)
LEMMA SourceNewRuns ==
  ASSUME SourceInv, IInv', NEW q \in Requests, Create(q), NEW rq, rq = requests[q], rq.clone = 0
  PROVE  SourceInv'
<1> PICK n, m, t, B : n = Len(execs) /\ m = Len(rq.built) /\ t = rq.todo /\ B = rq.built
  OBVIOUS
<1> PICK c : c = IF Len(t) > 1 THEN n + 1 ELSE 0
  OBVIOUS
<1>1. /\ n \in Nat /\ m \in Nat \ {0} /\ Execs = 1 .. n /\ Execs' = 1 .. n + m /\ DOMAIN B = 1 .. m
      /\ rq.pc = "create" /\ Ends(q) /\ project' = project
      /\ \A e \in Execs : execs'[e] = execs[e]
      /\ \A i \in 1 .. m : IsCopy(rq, n, i, execs'[n + i])
  <2>1. IInv /\ n = Len(execs) /\ m = Len(rq.built)
    BY DEF SourceInv
  <2>2. Appended(q, rq, n, m)
    BY <2>1, CreatedFacts
  <2> QED BY <2>2 DEF Appended
<1>2. rq \in RequestStates /\ RequestFits(rq) /\ PartsFit(rq) /\ t \in Seq(Pipelines) /\ B \in Seq(Pendings)
  BY DEF SourceInv, SoundRequests, SourceFits, RequestStates, IInv, FittingRequests
<1>3. /\ t # <<>> /\ (Len(t) > 1 => t = Chain) /\ Len(t) \in Nat /\ DOMAIN t = 1 .. Len(t)
      /\ Pipes(rq) = Until(rq, Len(t)) /\ B[1].pipe = t[1]
      /\ \A i, j \in 1 .. m : B[i].pipe = B[j].pipe => B[i].ref = B[j].ref
      /\ \A i \in 1 .. m : PartFits(rq, B[i], B[1])
  <2>1. Len(t) \in Nat /\ DOMAIN t = 1 .. Len(t)
    BY <1>2, LenProperties
  <2>2. (Len(t) + 1) - 1 = Len(t) /\ B # <<>>
    BY <1>1, <2>1
  <2>3. Pipes(rq) = Until(rq, At(rq) - 1) /\ At(rq) = Len(t) + 1
    BY <1>1, <1>2 DEF PartsFit, Pipes, Until
  <2>4. /\ t # <<>> /\ (Len(t) > 1 => t = Chain) /\ B[1].pipe = t[1]
        /\ \A i, j \in DOMAIN B : B[i].pipe = B[j].pipe => B[i].ref = B[j].ref
        /\ \A i \in DOMAIN B : PartFits(rq, B[i], B[1])
    BY <1>1, <1>2, <2>2 DEF PartsFit
  <2>5. Pipes(rq) = Until(rq, Len(t))
    BY <2>2, <2>3
  <2>6. DOMAIN B = 1 .. m
    BY <1>1
  <2> QED BY SMTT(30), <2>1, <2>4, <2>5, <2>6
<1>4. ASSUME NEW i \in 1 .. m
      PROVE  /\ RunName(B, i) \in 1 .. i /\ RunName(B, i) \in 1 .. m /\ B[RunName(B, i)].pipe = B[i].pipe
             /\ Agrees(B[i], B[1])
  BY ZenonT(60), <1>1, <1>2, FirstOfRun DEF RequestFits
<1>5. ASSUME NEW i \in 1 .. m
      PROVE  LET x == execs'[n + i] IN
             /\ x.pipe = B[i].pipe /\ x.ref = B[i].ref /\ x.own = B[i].own /\ x.waits = B[i].waits
             /\ x.status = "queued" /\ x.again = FALSE
             /\ x.run = n + RunName(B, i) /\ x.root = n + i /\ x.chain = c
  BY <1>1 DEF IsCopy
<1>6. /\ Execs \subseteq Execs' /\ 1 \in 1 .. m
      /\ \A i \in 1 .. m : n + i \in Execs' \ Execs
      /\ \A e \in Execs' \ Execs : \E i \in 1 .. m : e = n + i
  <2>1. Execs \subseteq Execs' /\ 1 \in 1 .. m /\ \A i \in 1 .. m : n + i \in Execs' \ Execs
    BY <1>1
  <2>2. ASSUME NEW e \in Execs' \ Execs PROVE \E i \in 1 .. m : e = n + i
    <3>1. e - n \in 1 .. m /\ e = n + (e - n)
      BY <1>1
    <3> QED BY <3>1
  <2> QED BY <2>1, <2>2
(* Whatever was there is named by what was there. *)
<1>7. ASSUME NEW e \in Execs
      PROVE  /\ execs'[e] = execs[e] /\ execs[e].chain # n + 1
             /\ \A i \in 1 .. m : execs[e].run # n + RunName(B, i) /\ execs[e].root # n + i
  <2>1. execs[e].run \in 1 .. e /\ execs[e].root \in 1 .. e /\ execs[e].chain \in 0 .. e
    BY DEF SourceInv, IInv, PlaceFits
  <2> PICK x : x = execs[e]
    OBVIOUS
  <2>2. x.run \in Nat /\ x.run <= n /\ x.root \in Nat /\ x.root <= n /\ x.chain \in Nat /\ x.chain <= n
    BY <1>1, <2>1
  <2>3. \A i \in 1 .. m : x.run # n + RunName(B, i) /\ x.root # n + i
    <3> SUFFICES ASSUME NEW i \in 1 .. m PROVE x.run # n + RunName(B, i) /\ x.root # n + i
      OBVIOUS
    <3>1. RunName(B, i) \in 1 .. m
      BY <1>4
    <3> QED BY SMTT(30), <1>1, <2>2, <3>1
  <2> QED BY <1>1, <2>2, <2>3
<1>8. Advances
  <2>1. \A e \in Execs' \ Execs : \A z \in Execs : execs[z].run # execs'[e].run
    <3> SUFFICES ASSUME NEW e \in Execs' \ Execs, NEW z \in Execs PROVE execs[z].run # execs'[e].run
      OBVIOUS
    <3>1. PICK i \in 1 .. m : e = n + i
      BY <1>6
    <3>2. execs[z].run # n + RunName(B, i)
      BY <1>7
    <3> QED BY <1>5, <3>1, <3>2
  <2> QED BY ZenonT(60), <1>1, <1>6, <2>1 DEF Advances, SameBuild
<1>9. ASSUME NEW e \in Execs', NEW f \in Execs' PROVE SameAttempts(execs'[e], execs'[f])
  <2>1. CASE e \in Execs /\ f \in Execs
    BY <1>7, <2>1 DEF SourceInv, SoundExecs
  <2>2. CASE e \in Execs /\ f \notin Execs
    <3>1. PICK j \in 1 .. m : f = n + j
      BY <1>6, <2>2
    <3>2. execs'[e] = execs[e] /\ execs[e].run # n + RunName(B, j) /\ execs[e].root # n + j
      BY <1>7, <2>2
    <3>3. execs'[f].run = n + RunName(B, j) /\ execs'[f].root = n + j
      BY <1>5, <3>1
    <3> QED BY <3>2, <3>3 DEF SameAttempts
  <2>3. CASE e \notin Execs /\ f \in Execs
    <3>1. PICK i \in 1 .. m : e = n + i
      BY <1>6, <2>3
    <3>2. execs'[f] = execs[f] /\ execs[f].run # n + RunName(B, i) /\ execs[f].root # n + i
      BY <1>7, <2>3
    <3>3. execs'[e].run = n + RunName(B, i) /\ execs'[e].root = n + i
      BY <1>5, <3>1
    <3> QED BY <3>2, <3>3 DEF SameAttempts
  <2>4. CASE e \notin Execs /\ f \notin Execs
    <3>1. PICK i \in 1 .. m, j \in 1 .. m : e = n + i /\ f = n + j
      BY <1>6, <2>4
    <3> PICK x, y : x = execs'[e] /\ y = execs'[f]
      OBVIOUS
    <3>2. /\ x.pipe = B[i].pipe /\ x.ref = B[i].ref /\ x.run = n + RunName(B, i) /\ x.root = n + i /\ x.chain = c
          /\ y.pipe = B[j].pipe /\ y.ref = B[j].ref /\ y.run = n + RunName(B, j) /\ y.root = n + j /\ y.chain = c
      BY <1>5, <3>1
    <3>3. x.root = y.root => i = j
      BY <1>1, <3>2
    <3>4. x.run = y.run => RunName(B, i) = RunName(B, j)
      <4>1. RunName(B, i) \in 1 .. m /\ RunName(B, j) \in 1 .. m
        BY <1>4
      <4> QED BY <1>1, <3>2, <4>1
    <3>5. RunName(B, i) = RunName(B, j) => B[i].pipe = B[j].pipe
      <4>1. B[RunName(B, i)].pipe = B[i].pipe /\ B[RunName(B, j)].pipe = B[j].pipe
        BY <1>4
      <4> QED BY <4>1
    <3>6. B[i].pipe = B[j].pipe => B[i].ref = B[j].ref
      BY <1>3
    <3> QED BY <3>2, <3>3, <3>4, <3>5, <3>6 DEF SameAttempts
  <2> QED BY <2>1, <2>2, <2>3, <2>4
<1>10. ASSUME NEW e \in Execs', NEW f \in Execs', execs'[e].chain # 0, execs'[f].chain = execs'[e].chain
       PROVE  Shares(execs'[e], execs'[f], execs'[execs'[e].chain])
  <2>1. CASE e \in Execs
    <3>1. execs[e].chain # n + 1 /\ execs[e].chain # 0 /\ execs'[e] = execs[e]
      BY <1>7, <1>10, <2>1
    <3>2. f \in Execs
      <4> SUFFICES ASSUME f \notin Execs PROVE FALSE
        OBVIOUS
      <4>1. PICK j \in 1 .. m : f = n + j
        BY <1>6
      <4>2. execs'[f].chain = c
        BY <1>5, <4>1
      <4>3. c = 0 \/ c = n + 1
        OBVIOUS
      <4> QED BY <1>10, <3>1, <4>2, <4>3
    <3>3. execs[e].chain \in Execs
      <4>1. execs[e].chain \in 0 .. e
        BY <2>1 DEF SourceInv, IInv, PlaceFits
      <4> QED BY <1>1, <2>1, <3>1, <4>1
    <3>4. execs'[f] = execs[f] /\ execs'[execs[e].chain] = execs[execs[e].chain]
      BY <1>7, <3>2, <3>3
    <3>5. Shares(execs[e], execs[f], execs[execs[e].chain])
      BY <1>10, <2>1, <3>1, <3>2, <3>4 DEF SourceInv, SoundExecs
    <3> QED BY <3>1, <3>4, <3>5
  <2>2. CASE e \notin Execs
    <3>1. PICK i \in 1 .. m : e = n + i
      BY <1>6, <2>2
    <3>2. execs'[e].chain = n + 1
      BY <1>5, <1>10, <3>1
    <3>3. PICK j \in 1 .. m : f = n + j
      <4>1. f \notin Execs
        BY <1>7, <1>10, <3>2
      <4> QED BY <1>6, <4>1
    <3> PICK x, y, g : x = execs'[e] /\ y = execs'[f] /\ g = execs'[n + 1]
      OBVIOUS
    <3>4. /\ x.pipe = B[i].pipe /\ x.own = B[i].own /\ x.ref = B[i].ref
          /\ y.pipe = B[j].pipe /\ y.ref = B[j].ref /\ g.pipe = B[1].pipe /\ g.ref = B[1].ref
      BY <1>5, <1>6, <3>1, <3>3
    <3>5. PartFits(rq, B[i], B[1]) /\ PartFits(rq, B[j], B[1]) /\ Agrees(B[j], B[1])
      BY <1>3, <1>4
    <3>6. Shares(B[i], B[j], B[1])
      <4> PICK a, b, d : a = B[i] /\ b = B[j] /\ d = B[1]
        OBVIOUS
      <4>1. PartFits(rq, a, d) /\ PartFits(rq, b, d) /\ Agrees(b, d)
        BY <3>5
      <4>2. Shares(a, b, d)
        BY <4>1 DEF PartFits, Agrees, Shares
      <4> QED BY <4>2
    <3>7. Shares(x, y, g)
      BY <3>4, <3>6 DEF Shares
    <3> QED BY <3>2, <3>7
  <2> QED BY <2>1, <2>2
<1>11. ASSUME NEW e \in Execs' \ Execs PROVE execs'[e] \in SoundExecutions'
  <2>1. PICK i \in 1 .. m : e = n + i
    BY <1>6
  <2> PICK y, b, g : y = execs'[e] /\ b = B[i] /\ g = execs'[n + 1]
    OBVIOUS
  <2>2. y \in Executions'
    BY ElementOfSeq, LenProperties DEF IInv, Types, Execs
  <2>3. /\ y.pipe = b.pipe /\ y.ref = b.ref /\ y.own = b.own /\ y.waits = b.waits
        /\ y.status = "queued" /\ y.again = FALSE /\ y.chain = c
        /\ g.pipe = t[1] /\ g.ref = B[1].ref
    BY ZenonT(60), <1>3, <1>5, <1>6, <2>1
  <2>4. PartFits(rq, b, B[1]) /\ Chain' = Chain
    BY <1>1, <1>3 DEF Chain
  <2>5. KeepsCommit(y, g)
    <3> PICK d : d = B[1]
      OBVIOUS
    <3>1. KeepsCommit(b, d) /\ d.pipe = t[1]
      BY <1>3, <2>4 DEF PartFits
    <3> QED BY <2>3, <3>1 DEF KeepsCommit
  <2>6. b.pipe \in Until(rq, Len(t))
    <3>1. b.pipe \in Pipes(rq)
      BY <1>1 DEF Pipes
    <3> QED BY <1>3, <3>1
  <2>7. ASSUME c # 0
        PROVE  /\ c = n + 1 /\ t = Chain /\ y.pipe \in ToSet(Chain) /\ WaitsForAll(b)
               /\ \A p \in ToSet(Chain) : InChain(c, p)' # {}
    <3>1. c = n + 1 /\ t = Chain /\ Len(t) > 1
      BY <1>3, <2>7
    <3>2. Until(rq, Len(t)) = ToSet(Chain)
      BY <1>3, <3>1 DEF Until, ToSet
    <3>3. ASSUME NEW p \in ToSet(Chain) PROVE InChain(c, p)' # {}
      <4>1. p \in Pipes(rq)
        BY <1>3, <3>2
      <4>2. PICK j \in 1 .. m : B[j].pipe = p
        BY <1>1, <4>1 DEF Pipes
      <4>3. n + j \in Execs' /\ execs'[n + j].pipe = p /\ execs'[n + j].chain = c
        BY <1>5, <1>6, <4>2
      <4> QED BY <4>3 DEF InChain
    <3> QED BY <2>3, <2>4, <2>6, <3>1, <3>2, <3>3 DEF PartFits
  <2>8. ChainFits(y)'
    <3>1. c = 0 => y.waits = <<>>
      <4>1. Len(t) = 1 \/ Len(t) > 1
        <5>1. PICK k \in Nat \ {0} : k = Len(t)
          BY <1>2, <1>3, EmptySeq
        <5>2. k = 1 \/ k > 1
          OBVIOUS
        <5> QED BY <5>1, <5>2
      <4> QED BY <1>1, <2>3, <2>4, <4>1 DEF PartFits
    <3>2. WaitsForAll(y)' = WaitsForAll(b)
      BY <2>3, <2>4 DEF WaitsForAll
    <3> QED BY <2>3, <2>4, <2>5, <2>7, <3>1, <3>2 DEF ChainFits, KeepsCommit
  <2>9. ~y.own /\ (y.waits = <<>> \/ y.pipe = t[1]) => Proven(y.pipe, y.ref)'
    <3>1. y.waits = <<>> => b.pipe = t[1]
      BY <2>3, <2>4 DEF PartFits
    <3>2. ~b.own /\ b.pipe = t[1] => Proven(b.pipe, b.ref)
      BY <2>4 DEF PartFits
    <3> QED BY <1>8, <2>3, <3>1, <3>2, AllProvenStay
  <2>10. ReleaseFits(y)'
    <3>1. y.chain = 0 => y.waits = <<>>
      BY <2>8 DEF ChainFits
    <3>2. y.chain # 0 => t = Chain'
      BY <2>3, <2>4, <2>7
    <3> QED BY <2>3, <2>9, <3>1, <3>2 DEF ReleaseFits
  <2> QED BY <2>2, <2>8, <2>10 DEF SoundExecutions
<1>12. \A e, f \in Execs' : SameAttempts(execs'[e], execs'[f])
  BY <1>9
<1>13. \A e, f \in Execs' : execs'[e].chain # 0 /\ execs'[f].chain = execs'[e].chain =>
         Shares(execs'[e], execs'[f], execs'[execs'[e].chain])
  BY <1>10
<1>14. \A e \in Execs' \ Execs : execs'[e] \in SoundExecutions'
  <2> HIDE DEF SoundExecutions
  <2> QED BY <1>11
<1> QED BY <1>1, <1>7, <1>8, <1>12, <1>13, <1>14, SourceStored
-----------------------------------------------------------------------------
LEMMA InitSource == Init /\ DependenciesPin => SourceInv
<1> SUFFICES ASSUME Init, DependenciesPin PROVE SourceInv
  OBVIOUS
<1>1. IInv
  BY InitInv
<1>2. Execs = {}
  BY DEF Init, Execs
<1>3. SoundExecs
  BY <1>2 DEF SoundExecs
<1>4. \A q \in Requests : requests[q] \in SoundRequests
  BY IdleIsSound DEF Init
<1> QED BY <1>1, <1>3, <1>4 DEF SourceInv

LEMMA NextSource == SourceInv /\ [Next]_vars => SourceInv'
<1> SUFFICES ASSUME SourceInv, [Next]_vars PROVE SourceInv'
  OBVIOUS
<1>1. IInv'
  BY NextInv DEF SourceInv
<1>2. ASSUME NEW q \in Requests, NEW p \in Alone, RunPipeline(q, p) \/ RunJob(q, p) PROVE SourceInv'
  BY <1>1, <1>2, SourceRun
<1>3. ASSUME NEW q \in Requests, RunChain(q) PROVE SourceInv'
  BY <1>1, <1>3, SourceRun
<1>4. ASSUME NEW q \in Requests, Resolve(q) PROVE SourceInv'
  <2>1. PICK rq, p : rq = requests[q] /\ p = Current(q)
    OBVIOUS
  <2> QED BY <1>1, <1>4, <2>1, SourceResolve
<1>5. ASSUME NEW q \in Requests, ResolveCached(q) PROVE SourceInv'
  <2>1. PICK rq, p : rq = requests[q] /\ p = Current(q)
    OBVIOUS
  <2> QED BY <1>1, <1>5, <2>1, SourceResolveCached
<1>6. ASSUME NEW q \in Requests, Pin(q) PROVE SourceInv'
  <2>1. PICK rq, p : rq = requests[q] /\ p = Current(q)
    OBVIOUS
  <2> QED BY <1>1, <1>6, <2>1, SourcePin
<1>7. ASSUME NEW q \in Requests, NEW e \in Execs, BeginRerun(q, e) PROVE SourceInv'
  <2>1. PICK x : x = execs[e]
    OBVIOUS
  <2> QED BY <1>1, <1>7, <2>1, SourceBeginRerun
<1>8. ASSUME NEW q \in Requests, Create(q) PROVE SourceInv'
  <2>1. PICK rq : rq = requests[q]
    OBVIOUS
  <2>2. CASE rq.clone # 0
    BY <1>1, <1>8, <2>1, <2>2, SourceCopy
  <2>3. CASE rq.clone = 0
    BY <1>1, <1>8, <2>1, <2>3, SourceNewRuns
  <2> QED BY <2>2, <2>3
<1>9. ASSUME NEW e \in Execs, StartJob(e) PROVE SourceInv'
  <2>1. PICK x : x = execs[e]
    OBVIOUS
  <2> QED BY <1>1, <1>9, <2>1, SourceStart
<1>10. ASSUME NEW e \in Execs,
              (\E s \in Terminal : EndJob(e, s)) \/ CancelQueued(e) \/ FetchBranch(e) \/ PushBump(e)
       PROVE  SourceInv'
  BY <1>1, <1>10, SourceEnd
<1>11. ASSUME NEW e \in Execs, Reconcile(e) PROVE SourceInv'
  <2>1. PICK x, t : x = execs[e] /\ t = Artifacts(x.pipe, BindsTo(e))
    OBVIOUS
  <2> QED BY <1>1, <1>11, <2>1, SourceReconcile
(* A commit changes nothing of what executions and requests are. *)
<1>12. ASSUME UNCHANGED <<project, execs, requests>> PROVE SourceInv'
  <2>1. Advances /\ SoundExecs'
    BY <1>12, SameExecs DEF SourceInv
  <2>2. \A q \in Requests : requests'[q] \in SoundRequests'
    BY <1>12, <2>1, RequestSound DEF SourceInv
  <2> QED BY <1>1, <2>1, <2>2, AllProvenStay DEF SourceInv
<1>13. ASSUME NEW r \in Repos, PushCommit(r) PROVE SourceInv'
  BY <1>12, <1>13 DEF PushCommit
<1>14. CASE UNCHANGED vars
  BY <1>12, <1>14 DEF vars
<1> QED BY <1>2, <1>3, <1>4, <1>5, <1>6, <1>7, <1>8, <1>9, <1>10, <1>11, <1>13, <1>14 DEF Next

LEMMA SourcesProven == SourceInv => SourceIsProven
<1> SUFFICES ASSUME SourceInv, NEW e \in Execs, NEW x, x = execs[e],
                    x.status \in {"running", "pushing", "succeeded"}, ~x.own
             PROVE  \A d \in ToSet(DependsOn[x.pipe]) : RepoOf[d] = RepoOf[x.pipe] => ProvenAt(d, x.ref)
  BY DEF SourceIsProven
<1>1. ReleaseFits(x)
  BY DEF SourceInv, SoundExecs, SoundExecutions
<1>2. Proven(x.pipe, x.ref)
  BY <1>1 DEF ReleaseFits
<1> QED BY <1>2 DEF Proven

(* What runs after its dependencies without a version of its own runs at a *)
(* commit at which each dependency of its repository has succeeded:        *)
(* whatever is pushed, rerun, run from caches or bumped between the check  *)
(* of the dependencies and the release, in a project whose dependencies    *)
(* can be pinned (server_pipelines_dependencies.go,                        *)
(* server_pipeline_versioning.go, server_pipeline_chains_runtime.go).      *)
THEOREM SourcesAreProven == Spec /\ DependenciesPin => []SourceIsProven
<1>1. Init /\ DependenciesPin => SourceInv
  BY InitSource
<1>2. SourceInv /\ [Next]_vars => SourceInv'
  BY NextSource
<1>3. SourceInv => SourceIsProven
  BY SourcesProven
<1> QED BY <1>1, <1>2, <1>3, PTL DEF Spec
-----------------------------------------------------------------------------
(* The artifacts that executions are given. *)

\* An execution that has succeeded, and has version v if any.
Suits(a, v) == a \in Execs /\ execs[a].status = "succeeded" /\ execs[a].version \in {NoVersion, v}

(* What waits for its chain has no artifacts yet. *)
BoundFits(x) ==
  /\ x.waits # <<>> => x.arts = {} /\ ~BoundAtOnce(x)
  /\ \A a \in x.arts : Fitting(x, a)

(* The executions that a request has checked are of the version it checked,*)
(* and the first pipeline, which alone is bound to them, takes it over.    *)
CheckFits(rq) ==
  rq.pc \in {"resolve", "pin"} =>
    /\ \A a \in rq.dep.runs : /\ rq.built = <<>> /\ Suits(a, rq.dep.version)
                              /\ execs[a].pipe \in ToSet(DependsOn[rq.todo[1]])
    /\ rq.pc = "pin" /\ rq.dep.version # NoVersion => rq.ctx.version = rq.dep.version

\* An execution that a request with the pipelines t has built.
PieceFits(t, b) ==
  /\ b.waits # <<>> => /\ b.arts = {} /\ Len(t) > 1
                       /\ b.pipe = Chain[1] => ToSet(DependsOn[b.pipe]) \cap ToSet(Chain) # {}
  /\ \A a \in b.arts : Suits(a, b.version) /\ (Len(t) > 1 => execs[a].pipe \notin ToSet(Chain))

PiecesFit(rq) ==
  /\ rq.todo # <<>> /\ (Len(rq.todo) > 1 => rq.todo = Chain)
  /\ Pipes(rq) = Until(rq, At(rq) - 1)
  /\ rq.pc = "create" => At(rq) = Len(rq.todo) + 1
  /\ \A i, j \in DOMAIN rq.built : rq.built[i].pipe = rq.built[j].pipe => rq.built[i].version = rq.built[j].version
  /\ \A i \in DOMAIN rq.built : PieceFits(rq.todo, rq.built[i])

HandFits(rq) == rq.clone = 0 /\ rq.pc # "idle" => CheckFits(rq) /\ PiecesFit(rq)

BoundRequests == {rq \in RequestStates : HandFits(rq)}

\* A run is of one version, and a chain is complete from the start.
RunsAndChains ==
  /\ \A e, f \in Execs : execs[e].run = execs[f].run => execs[e].version = execs[f].version
  /\ \A e \in Execs : execs[e].chain # 0 => \A p \in ToSet(Chain) : InChain(execs[e].chain, p) # {}

FirstAttempts == {e \in Execs : execs[e].root = e}
BoundExecutions == {x \in Executions : BoundFits(x)}

BoundInv ==
  /\ IInv /\ RunsAndChains
  /\ \A e \in FirstAttempts : execs[e] \in BoundExecutions
  /\ \A q \in Requests : requests[q] \in BoundRequests
-----------------------------------------------------------------------------
\* Executions succeed for good.
Keeps ==
  /\ project' = project /\ Execs \subseteq Execs'
  /\ \A e \in Execs : /\ SameBuild(execs[e], execs'[e])
                      /\ execs[e].status = "succeeded" => execs'[e].status = "succeeded"

\* An execution that names executions there are.
Placed(x) == x.arts \subseteq Execs /\ x.chain \in {0} \cup Execs

LEMMA BoundStays ==
  ASSUME Keeps
  PROVE  /\ \A a, v : Suits(a, v) => Suits(a, v)'
         /\ \A x \in BoundExecutions : Placed(x) => x \in BoundExecutions'
<1>1. Chain' = Chain
  BY ProjectStays DEF Keeps
<1>2. ASSUME NEW a, NEW v, Suits(a, v) PROVE Suits(a, v)'
  <2>1. a \in Execs /\ a \in Execs' /\ SameBuild(execs[a], execs'[a]) /\ execs'[a].status = "succeeded"
    BY <1>2 DEF Suits, Keeps
  <2> QED BY <1>2, <2>1 DEF Suits, SameBuild
<1>3. \A x : BoundAtOnce(x)' = BoundAtOnce(x)
  BY <1>1 DEF BoundAtOnce
<1>4. ASSUME NEW x, Placed(x), NEW a \in x.arts, Fitting(x, a) PROVE Fitting(x, a)'
  <2>1. SameBuild(execs[a], execs'[a]) /\ execs'[a].status = "succeeded"
    BY <1>4 DEF Placed, Keeps, Fitting
  <2>2. x.chain # 0 => SameBuild(execs[x.chain], execs'[x.chain])
    BY <1>4 DEF Placed, Keeps
  <2>3. execs[a].chain = x.chain /\ execs'[x.chain].version # NoVersion /\ x.chain # 0 => execs[x.chain].version # NoVersion
    BY <2>2 DEF SameBuild
  <2>4. x.chain = 0 => BoundAtOnce(x)
    BY DEF BoundAtOnce
  <2> QED BY <1>1, <1>3, <1>4, <2>1, <2>3, <2>4 DEF Fitting, SameBuild
<1>5. ASSUME NEW x, Placed(x), BoundFits(x) PROVE BoundFits(x)'
  BY <1>3, <1>4, <1>5 DEF BoundFits
<1>6. \A x \in BoundExecutions : Placed(x) => x \in BoundExecutions'
  BY <1>5, StatesGrow DEF BoundExecutions, Keeps
<1> QED BY <1>2, <1>6

LEMMA HandStays ==
  ASSUME Keeps
  PROVE  BoundRequests \subseteq BoundRequests'
<1> SUFFICES ASSUME NEW rq \in BoundRequests PROVE rq \in BoundRequests'
  OBVIOUS
<1>1. Chain' = Chain /\ (\A a, v : Suits(a, v) => Suits(a, v)') /\ RequestStates \subseteq RequestStates'
  BY ProjectStays, BoundStays, StatesGrow DEF Keeps
<1>2. \A a \in Execs : execs'[a].pipe = execs[a].pipe
  BY DEF Keeps, SameBuild
<1>3. CheckFits(rq) => CheckFits(rq)'
  <2> SUFFICES ASSUME CheckFits(rq), rq.pc \in {"resolve", "pin"} PROVE CheckFits(rq)'
    BY DEF CheckFits
  <2>1. \A a \in rq.dep.runs : rq.built = <<>> /\ Suits(a, rq.dep.version) /\ execs[a].pipe \in ToSet(DependsOn[rq.todo[1]])
    BY DEF CheckFits
  <2>2. \A a \in rq.dep.runs : Suits(a, rq.dep.version)' /\ execs'[a].pipe = execs[a].pipe
    BY <1>1, <1>2, <2>1 DEF Suits
  <2> QED BY <2>1, <2>2 DEF CheckFits
<1>4. ASSUME NEW b, PieceFits(rq.todo, b) PROVE PieceFits(rq.todo, b)'
  <2>1. \A a \in b.arts : Suits(a, b.version)' /\ execs'[a].pipe = execs[a].pipe
    BY <1>1, <1>2, <1>4 DEF PieceFits, Suits
  <2> QED BY <1>1, <1>4, <2>1 DEF PieceFits
<1>5. At(rq)' = At(rq) /\ Pipes(rq)' = Pipes(rq) /\ Until(rq, At(rq) - 1)' = Until(rq, At(rq) - 1)
  BY DEF At, Pipes, Until
<1>6. PiecesFit(rq) => PiecesFit(rq)'
  <2> SUFFICES ASSUME PiecesFit(rq) PROVE PiecesFit(rq)'
    OBVIOUS
  <2>1. \A i \in DOMAIN rq.built : PieceFits(rq.todo, rq.built[i])'
    BY <1>4 DEF PiecesFit
  <2> QED BY <1>1, <1>5, <2>1 DEF PiecesFit
<1> QED BY <1>1, <1>3, <1>6 DEF BoundRequests, HandFits

\* What has been checked of all executions.
LEMMA AllPlaced ==
  ASSUME IInv
  PROVE  \A e \in Execs : Placed(execs[e]) /\ execs[e] \in Executions
<1> SUFFICES ASSUME NEW e \in Execs PROVE Placed(execs[e]) /\ execs[e] \in Executions
  OBVIOUS
<1>1. Types /\ execs[e].chain \in 0 .. e
  BY DEF IInv, PlaceFits
<1>2. Execs = 1 .. Len(execs) /\ Len(execs) \in Nat /\ execs[e] \in Executions
  BY <1>1, ExecsFacts
<1>3. execs[e].chain \in {0} \cup Execs
  BY <1>1, <1>2
<1> QED BY <1>2, <1>3 DEF Placed, Executions

-----------------------------------------------------------------------------
(* A dependency that is fine offers executions of one run, which are of    *)
(* its version.                                                            *)
LEMMA VerifiedSuit ==
  ASSUME Types, RunsAndChains, NEW X \in SUBSET Execs, NEW d, NEW v, v = VerifyDependencyRun(X, d), v.ok
  PROVE  \A a \in v.runs : Suits(a, v.version) /\ a \in X /\ execs[a].pipe = d
<1>1. v # Refused
  BY BlankContext
<1>2. PICK e \in X, R \in SUBSET X :
        /\ R = {y \in LatestAttempts(X) : execs[y].pipe = d /\ execs[y].run = execs[e].run}
        /\ Succeeded(R) /\ v.version = execs[e].version /\ v.runs = R
  BY <1>1, VerifyFacts
<1>3. \A a \in R : execs[a].status = "succeeded"
  BY <1>2 DEF Succeeded
<1>4. \A a \in R : execs[a].pipe = d /\ execs[a].run = execs[e].run
  BY <1>2
<1> QED BY <1>2, <1>3, <1>4 DEF RunsAndChains, Suits

\* Contexts of executions of D that have the version of the context.
SuitedContexts(D) == {c \in Contexts : c.ok => \A a \in c.runs : Suits(a, c.version) /\ a \in D}

(* Contexts that are merged agree about the version. *)
LEMMA MergedSuit ==
  ASSUME NEW D, NEW a \in SuitedContexts(D), NEW b \in SuitedContexts(D)
  PROVE  MergeContext(a, b) \in SuitedContexts(D)
<1> PICK c : c = MergeContext(a, b)
  OBVIOUS
<1>1. CASE c = Refused
  BY <1>1, BlankContext DEF SuitedContexts
<1>2. CASE c # Refused
  <2>1. /\ a.ok /\ b.ok /\ c \in Contexts /\ c.runs = a.runs \cup b.runs
        /\ a.version = NoVersion \/ b.version = NoVersion \/ a.version = b.version
        /\ c.version = IF b.version # NoVersion THEN b.version ELSE a.version
    <3>1. a \in Contexts /\ b \in Contexts
      BY DEF SuitedContexts
    <3> QED BY <1>2, <3>1, MergeFacts
  <2>2. \A x \in a.runs : Suits(x, a.version) /\ x \in D
    BY <2>1 DEF SuitedContexts
  <2>3. \A x \in b.runs : Suits(x, b.version) /\ x \in D
    BY <2>1 DEF SuitedContexts
  <2>4. \A x \in c.runs : Suits(x, c.version) /\ x \in D
    BY <2>1, <2>2, <2>3 DEF Suits
  <2> QED BY <2>1, <2>4 DEF SuitedContexts
<1> QED BY <1>1, <1>2

(* What the dependencies of a pipeline offer, each from the executions R   *)
(* that it looks at.                                                       *)
LEMMA OfferedSuit ==
  ASSUME Types, \A e \in Execs : BuildFits(execs[e]), RunsAndChains,
         NEW p \in Pipelines, NEW R, \A g \in Pipelines : R[g] \in SUBSET Execs,
         NEW c, c = MergeAll([i \in DOMAIN DependsOn[p] |-> VerifyDependencyRun(R[DependsOn[p][i]], DependsOn[p][i])]),
         c.ok
  PROVE  \A a \in c.runs :
           Suits(a, c.version) /\ execs[a].pipe \in ToSet(DependsOn[p]) /\ a \in R[execs[a].pipe]
<1> DEFINE ds == DependsOn[p]
           D == {a \in Execs : execs[a].pipe \in ToSet(ds) /\ a \in R[execs[a].pipe]}
           ctxs == [i \in DOMAIN ds |-> VerifyDependencyRun(R[ds[i]], ds[i])]
<1>1. ds \in Seq(Pipelines) /\ DOMAIN ds = 1 .. Len(ds) /\ Len(ds) \in Nat
  BY Configured, LenProperties
<1>2. ASSUME NEW i \in DOMAIN ds PROVE VerifyDependencyRun(R[ds[i]], ds[i]) \in SuitedContexts(D)
  <2> PICK d, v : d = ds[i] /\ v = VerifyDependencyRun(R[d], d)
    OBVIOUS
  <2>1. d \in Pipelines /\ d \in ToSet(ds)
    BY <1>1, ElementOfSeq DEF ToSet
  <2>2. R[d] \in SUBSET Execs
    BY <2>1
  <2>3. v \in Contexts
    <3>1. v \in FittingContexts
      BY <2>1, <2>2, VerifiedFits
    <3> QED BY <3>1 DEF FittingContexts
  <2>4. v.ok => \A a \in v.runs : Suits(a, v.version) /\ a \in R[d] /\ execs[a].pipe = d
    BY <2>2, VerifiedSuit
  <2> QED BY <2>1, <2>2, <2>3, <2>4 DEF SuitedContexts
<1> HIDE DEF D
<1>3. ctxs \in Seq(SuitedContexts(D))
  BY <1>1, <1>2
<1>4. NoContext \in SuitedContexts(D)
  BY BlankContext DEF SuitedContexts, NoContext
<1> HIDE DEF ctxs
<1>5. MergeAll(ctxs) \in SuitedContexts(D)
  BY <1>3, <1>4, MergedSuit, MergeAllStays
<1>6. c \in SuitedContexts(D)
  BY <1>5 DEF ctxs
<1> QED BY <1>6 DEF SuitedContexts, D

LEMMA CheckedSuit ==
  ASSUME IInv, RunsAndChains, NEW p \in Pipelines, NEW c, c = CheckDependencies(p), c.ok
  PROVE  \A a \in c.runs : Suits(a, c.version) /\ execs[a].pipe \in ToSet(DependsOn[p])
<1> DEFINE R == [g \in Pipelines |-> Execs]
           ds == DependsOn[p]
<1>1. ds \in Seq(Pipelines)
  BY Configured
<1>2. \A i \in DOMAIN ds : ds[i] \in Pipelines
  BY <1>1, LenProperties, ElementOfSeq
<1>3. [i \in DOMAIN ds |-> VerifyDependencyRun(Execs, ds[i])] = [i \in DOMAIN ds |-> VerifyDependencyRun(R[ds[i]], ds[i])]
  BY <1>2
<1>4. c = MergeAll([i \in DOMAIN ds |-> VerifyDependencyRun(Execs, ds[i])])
  BY DEF CheckDependencies
<1>5. c = MergeAll([i \in DOMAIN ds |-> VerifyDependencyRun(R[ds[i]], ds[i])])
  BY <1>3, <1>4
<1>6. \A g \in Pipelines : R[g] \in SUBSET Execs
  OBVIOUS
<1>7. Types /\ \A e \in Execs : BuildFits(execs[e])
  BY ExecsFit
<1> HIDE DEF R
<1> QED BY <1>5, <1>6, <1>7, OfferedSuit

(* A chain binds a pipeline to what this chain made of the pipelines in it.*)
LEMMA ChainSuits ==
  ASSUME IInv, RunsAndChains, NEW p \in Pipelines, NEW n, NEW c, c = ChainContext(p, n), c.ok
  PROVE  \A a \in c.runs :
           /\ Suits(a, c.version) /\ execs[a].pipe \in ToSet(DependsOn[p])
           /\ InChain(n, execs[a].pipe) # {} => execs[a].chain = n
<1> DEFINE R == [g \in Pipelines |-> IF InChain(n, g) # {} THEN InChain(n, g) ELSE Execs]
           ds == DependsOn[p]
<1>1. ds \in Seq(Pipelines)
  BY Configured
<1>2. \A i \in DOMAIN ds : ds[i] \in Pipelines
  BY <1>1, LenProperties, ElementOfSeq
<1>3. c = MergeAll([i \in DOMAIN ds |->
            VerifyDependencyRun(IF InChain(n, ds[i]) # {} THEN InChain(n, ds[i]) ELSE Execs, ds[i])])
  BY DEF ChainContext, InChain
<1>4. c = MergeAll([i \in DOMAIN ds |-> VerifyDependencyRun(R[ds[i]], ds[i])])
  <2>1. \A i \in DOMAIN ds : R[ds[i]] = IF InChain(n, ds[i]) # {} THEN InChain(n, ds[i]) ELSE Execs
    BY <1>2
  <2> HIDE DEF R
  <2> QED BY <1>3, <2>1
<1>5. ASSUME NEW g \in Pipelines
      PROVE  R[g] \in SUBSET Execs /\ (InChain(n, g) # {} => R[g] = InChain(n, g))
  <2>1. R[g] = IF InChain(n, g) # {} THEN InChain(n, g) ELSE Execs
    OBVIOUS
  <2> HIDE DEF R
  <2> QED BY <2>1 DEF InChain
<1>6. Types /\ \A e \in Execs : BuildFits(execs[e])
  BY ExecsFit
<1> HIDE DEF R
<1>7. \A a \in c.runs : Suits(a, c.version) /\ execs[a].pipe \in ToSet(ds) /\ a \in R[execs[a].pipe]
  BY <1>4, <1>5, <1>6, OfferedSuit
<1>8. ToSet(ds) \subseteq Pipelines
  BY <1>2 DEF ToSet
<1>9. ASSUME NEW a \in c.runs, InChain(n, execs[a].pipe) # {} PROVE execs[a].chain = n
  <2>1. a \in InChain(n, execs[a].pipe)
    BY <1>5, <1>7, <1>8, <1>9
  <2> QED BY <2>1 DEF InChain
<1> QED BY <1>7, <1>9

-----------------------------------------------------------------------------
\* A step of a request leaves the executions alone.
LEMMA SameBound ==
  ASSUME UNCHANGED <<project, execs>>
  PROVE  /\ Keeps /\ (RunsAndChains => RunsAndChains')
         /\ (\A e \in FirstAttempts : execs[e] \in BoundExecutions) =>
              \A e \in FirstAttempts' : execs'[e] \in BoundExecutions'
<1>1. Execs' = Execs /\ Chain' = Chain /\ FirstAttempts' = FirstAttempts
  BY DEF Execs, Chain, FirstAttempts
<1>2. Keeps
  BY <1>1 DEF Keeps, SameBuild
<1>3. \A c, p : InChain(c, p)' = InChain(c, p)
  BY <1>1 DEF InChain
<1>4. RunsAndChains => RunsAndChains'
  BY <1>1, <1>3 DEF RunsAndChains
<1>5. \A x : BoundFits(x)' = BoundFits(x)
  BY <1>1 DEF BoundFits, Fitting, BoundAtOnce
<1>6. BoundExecutions' = BoundExecutions
  BY <1>1, <1>5 DEF BoundExecutions, Executions
<1> QED BY <1>1, <1>2, <1>4, <1>6

LEMMA BoundRequestStep ==
  ASSUME BoundInv, IInv', UNCHANGED <<project, execs>>,
         NEW q \in Requests, NEW s \in BoundRequests, requests' = [requests EXCEPT ![q] = s]
  PROVE  BoundInv'
<1>1. Keeps /\ RunsAndChains' /\ \A e \in FirstAttempts' : execs'[e] \in BoundExecutions'
  BY SameBound DEF BoundInv
<1>2. \A i \in Requests : requests'[i] \in BoundRequests
  BY DEF BoundInv, IInv, Types
<1>3. \A i \in Requests : requests'[i] \in BoundRequests'
  BY <1>1, <1>2, HandStays
<1> QED BY <1>1, <1>3 DEF BoundInv

LEMMA IdleIsBound == Idle \in BoundRequests
<1>1. Idle \in RequestStates
  BY IdleFits DEF FittingRequests
<1>2. HandFits(Idle)
  BY DEF Idle, HandFits
<1> QED BY <1>1, <1>2 DEF BoundRequests

LEMMA BoundEnds ==
  ASSUME BoundInv, IInv', UNCHANGED <<project, execs>>, NEW q \in Requests, Ends(q)
  PROVE  BoundInv'
BY BoundRequestStep, IdleIsBound DEF Ends

(* A step of one execution: it keeps what it builds. *)
LEMMA BoundExecStep ==
  ASSUME BoundInv, IInv', UNCHANGED <<project, requests>>, NEW e \in Execs, NEW y \in Executions,
         SameBuild(execs[e], y), execs[e].root = e => BoundFits(y),
         execs[e].status = "succeeded" => y.status = "succeeded",
         execs' = [execs EXCEPT ![e] = y]
  PROVE  BoundInv'
<1>1. Types /\ Types' /\ RunsAndChains
  BY DEF BoundInv, IInv
<1>2. execs \in Seq(Executions) /\ Len(execs) \in Nat /\ Execs = 1 .. Len(execs) /\ DOMAIN execs = Execs
  BY <1>1, ExecsFacts DEF Types, Execs
<1>3. execs' \in Seq(Executions) /\ Len(execs') = Len(execs)
  BY <1>2, ExceptSeq
<1>4. Execs' = Execs /\ Chain' = Chain
  BY <1>2, <1>3, LenProperties DEF Execs, Chain
<1>5. \A i \in Execs : execs'[i] = IF i = e THEN y ELSE execs[i]
  BY <1>2
<1>6. \A i \in Execs : SameBuild(execs[i], execs'[i])
  BY <1>5 DEF SameBuild
<1>7. Keeps
  <2>1. \A i \in Execs : execs[i].status = "succeeded" => execs'[i].status = "succeeded"
    BY <1>5
  <2> QED BY <1>4, <1>6, <2>1 DEF Keeps
<1>8. \A c, p : InChain(c, p)' = InChain(c, p)
  BY <1>4, <1>6 DEF InChain, SameBuild
<1>9. RunsAndChains'
  <2>1. \A i, j \in Execs : execs'[i].run = execs'[j].run => execs'[i].version = execs'[j].version
    BY <1>1, <1>6 DEF RunsAndChains, SameBuild
  <2>2. ASSUME NEW i \in Execs, NEW c, c = execs'[i].chain, c # 0, NEW p \in ToSet(Chain) PROVE InChain(c, p)' # {}
    <3>1. InChain(c, p) # {}
      BY <1>1, <1>6, <2>2 DEF RunsAndChains, SameBuild
    <3> QED BY <1>8, <3>1
  <2> QED BY <1>4, <2>1, <2>2 DEF RunsAndChains, InChain
<1>10. ASSUME NEW i \in FirstAttempts' PROVE execs'[i] \in BoundExecutions'
  <2>1. i \in Execs /\ execs[i].root = i
    BY <1>4, <1>6 DEF FirstAttempts, SameBuild
  <2> PICK x : x = execs'[i]
    OBVIOUS
  <2>2. x \in BoundExecutions
    <3>1. execs[i] \in BoundExecutions
      BY <2>1 DEF BoundInv, FirstAttempts
    <3> QED BY <1>5, <2>1, <3>1 DEF BoundExecutions
  <2>3. Placed(x)
    <3>1. x.chain = execs[i].chain /\ Placed(execs[i])
      BY <1>6, <2>1, AllPlaced DEF SameBuild, BoundInv
    <3> QED BY <2>2, <3>1 DEF Placed, BoundExecutions, Executions
  <2>4. x \in BoundExecutions'
    BY <1>7, <2>2, <2>3, BoundStays
  <2> QED BY <2>4
<1>11. \A i \in Requests : requests'[i] \in BoundRequests'
  BY <1>7, HandStays DEF BoundInv
<1> QED BY <1>9, <1>10, <1>11 DEF BoundInv

-----------------------------------------------------------------------------
(* Whatever the commit comes from, what is built has artifacts that suit it.*)
LEMMA BoundBuild ==
  ASSUME BoundInv, IInv', NEW q \in Requests, NEW rq, rq = requests[q], rq.pc \in {"resolve", "pin"},
         NEW p, p = Current(q), NEW ctx \in Contexts,
         rq.built = <<>> /\ rq.dep.version # NoVersion => ctx.version = rq.dep.version,
         Build(q, ctx), UNCHANGED <<project, execs>>
  PROVE  BoundInv'
<1> SUFFICES ASSUME ~Ends(q) PROVE BoundInv'
  BY BoundEnds
<1>1. IInv /\ rq \in RequestStates /\ HandFits(rq)
  BY DEF BoundInv, BoundRequests
<1>2. PICK n \in Seq(Pendings), s \in RequestStates :
        /\ n # <<>> /\ Offers(rq, p, ctx, n)
        /\ IsBuilt(rq.built, n, s.built) /\ Built(rq, ctx, n, s)
        /\ requests' = [requests EXCEPT ![q] = s]
  BY <1>1, BuildShape
<1>3. /\ p = Here(rq) /\ rq.todo \in Seq(Pipelines) /\ Len(rq.todo) \in Nat
      /\ At(rq) \in 1 .. Len(rq.todo) /\ (Len(rq.todo) > 1 => rq.todo = Chain)
      /\ (rq.built = <<>> => p = rq.todo[1]) /\ rq.clone = 0 /\ rq.dep \in Contexts
  <2>1. AtWork(rq)
    BY <1>1, WorkFacts
  <2> QED BY <1>1, <2>1, WorkFacts DEF AtWork, RequestStates
<1>4. CheckFits(rq) /\ PiecesFit(rq) /\ Pipes(rq) = Until(rq, At(rq) - 1)
  BY <1>1, <1>3 DEF HandFits, PiecesFit
<1>5. Follows(rq, p, n, s)
  <2>1. /\ n \in Seq(Pendings) /\ n # <<>> /\ s \in RequestStates
        /\ Offers(rq, p, ctx, n) /\ IsBuilt(rq.built, n, s.built) /\ Built(rq, ctx, n, s)
    BY <1>2
  <2>2. IInv /\ Pipes(rq) = Until(rq, At(rq) - 1)
    BY <1>1, <1>4
  <2> QED BY <2>1, <2>2, BuiltProgress
<1>6. /\ s.pc = (IF At(rq) = Len(rq.todo) THEN "create" ELSE "resolve")
      /\ s.todo = rq.todo /\ s.clone = 0 /\ s.dep.runs = {}
  BY <1>2, <1>3 DEF Built, NoContext
<1>7. /\ \A i \in DOMAIN s.built : \/ i \in DOMAIN rq.built /\ s.built[i] = rq.built[i] /\ s.built[i].pipe # p
                                   \/ \E j \in 1 .. Len(n) : s.built[i] = n[j]
      /\ Pipes(s) = Until(s, At(s) - 1)
      /\ s.pc = "create" => At(s) = Len(s.todo) + 1
  BY <1>5 DEF Follows
<1>8. \A j \in 1 .. Len(n) :
        /\ n[j].pipe = p /\ n[j].version = ctx.version /\ n[j].waits = WaitsOf(rq)
        /\ n[j].arts = IF WaitsOf(rq) = <<>> THEN Artifacts(p, rq.dep) ELSE {}
  BY <1>2 DEF Offers
(* One of the new executions. *)
<1>9. ASSUME NEW b, b.pipe = p, b.version = ctx.version, b.waits = WaitsOf(rq),
             b.arts = IF WaitsOf(rq) = <<>> THEN Artifacts(p, rq.dep) ELSE {}
      PROVE  PieceFits(rq.todo, b)
  <2>1. Len(rq.todo) > 1 => rq.todo = Chain /\ b.waits = ChainDependencies(At(rq)) /\ p = Chain[At(rq)]
                            /\ At(rq) \in DOMAIN Chain /\ 1 \in DOMAIN Chain
    <3> SUFFICES ASSUME Len(rq.todo) > 1
                 PROVE  rq.todo = Chain /\ b.waits = ChainDependencies(At(rq)) /\ p = Chain[At(rq)]
                        /\ At(rq) \in DOMAIN Chain /\ 1 \in DOMAIN Chain
      OBVIOUS
    <3>1. DOMAIN rq.todo = 1 .. Len(rq.todo) /\ 1 \in 1 .. Len(rq.todo)
      BY <1>3, LenProperties
    <3> QED BY <1>3, <1>9, <3>1 DEF WaitsOf, Here
  <2>2. CASE WaitsOf(rq) # <<>>
    <3>1. Len(rq.todo) > 1 /\ b.arts = {}
      BY <1>9, <2>2 DEF WaitsOf
    <3>2. b.pipe = Chain[1] => At(rq) = 1
      <4>1. \A i, j \in DOMAIN Chain : Chain[i] = Chain[j] => i = j
        BY <1>1, ProjectFits DEF IInv, Types
      <4> QED BY <1>9, <2>1, <3>1, <4>1
    <3>3. b.pipe = Chain[1] => ToSet(DependsOn[b.pipe]) \cap ToSet(Chain) # {}
      BY <1>9, <2>1, <2>2, <3>1, <3>2 DEF ChainDependencies
    <3> QED BY <3>1, <3>3 DEF PieceFits
  <2>3. CASE WaitsOf(rq) = <<>>
    <3>1. b.waits = <<>> /\ b.arts \subseteq rq.dep.runs
      BY <1>9, <2>3 DEF Artifacts
    <3>2. \A a \in b.arts : /\ rq.built = <<>> /\ Suits(a, rq.dep.version)
                            /\ execs[a].pipe \in ToSet(DependsOn[rq.todo[1]])
      BY <1>4, <3>1 DEF CheckFits
    <3>3. \A a \in b.arts : Suits(a, b.version)
      BY <1>9, <3>2 DEF Suits
    <3>4. ASSUME Len(rq.todo) > 1, NEW a \in b.arts PROVE execs[a].pipe \notin ToSet(Chain)
      <4>1. rq.todo = Chain /\ At(rq) = 1
        BY <2>1, <3>2, <3>4, NothingBuilt
      <4>2. ToSet(DependsOn[Chain[1]]) \cap ToSet(Chain) = {}
        <5>1. ChainDependencies(1) = <<>> \/ ToSet(DependsOn[Chain[1]]) \cap ToSet(Chain) = {}
          BY <2>1, <3>1, <3>4, <4>1
        <5>2. ASSUME ToSet(DependsOn[Chain[1]]) \cap ToSet(Chain) # {} PROVE ChainDependencies(1) # <<>>
          <6>1. ChainDependencies(1) = DependsOn[Chain[1]]
            BY <5>2 DEF ChainDependencies
          <6>2. ToSet(<<>>) = {}
            BY DEF ToSet
          <6> QED BY <5>2, <6>1, <6>2
        <5> QED BY <5>1, <5>2
      <4> QED BY <3>2, <3>4, <4>1, <4>2
    <3> QED BY <3>1, <3>3, <3>4 DEF PieceFits
  <2> QED BY <2>2, <2>3
<1>10. ASSUME NEW i \in DOMAIN s.built PROVE PieceFits(s.todo, s.built[i])
  <2>1. CASE i \in DOMAIN rq.built /\ s.built[i] = rq.built[i]
    BY <1>4, <1>6, <2>1 DEF PiecesFit
  <2>2. CASE \E j \in 1 .. Len(n) : s.built[i] = n[j]
    BY <1>6, <1>8, <1>9, <2>2
  <2> QED BY <1>7, <2>1, <2>2
<1>11. ASSUME NEW i \in DOMAIN s.built, NEW j \in DOMAIN s.built, s.built[i].pipe = s.built[j].pipe
       PROVE  s.built[i].version = s.built[j].version
  <2>1. \A k \in DOMAIN s.built : \/ k \in DOMAIN rq.built /\ s.built[k] = rq.built[k] /\ s.built[k].pipe # p
                                  \/ s.built[k].pipe = p /\ s.built[k].version = ctx.version
    BY <1>7, <1>8
  <2>2. CASE s.built[i].pipe = p
    BY <1>11, <2>1, <2>2
  <2>3. CASE s.built[i].pipe # p
    BY <1>4, <1>11, <2>1, <2>3 DEF PiecesFit
  <2> QED BY <2>2, <2>3
<1>12. PiecesFit(s)
  <2>1. s.todo # <<>> /\ (Len(s.todo) > 1 => s.todo = Chain)
    BY <1>4, <1>6 DEF PiecesFit
  <2> QED BY <1>7, <1>10, <1>11, <2>1 DEF PiecesFit
<1>13. CheckFits(s)
  BY <1>6 DEF CheckFits
<1>14. s \in BoundRequests
  BY <1>2, <1>12, <1>13 DEF BoundRequests, HandFits
<1> QED BY <1>2, <1>14, BoundRequestStep

-----------------------------------------------------------------------------
(* A request that arrives has checked its dependencies. *)
LEMMA BoundBegin ==
  ASSUME BoundInv, IInv', NEW q \in Requests, NEW kind, NEW todo \in Seq(Pipelines), todo # <<>>,
         Len(todo) > 1 => todo = Chain, NEW job, Begin(q, kind, todo, job)
  PROVE  BoundInv'
<1> DEFINE dep == CheckDependencies(todo[1])
           s == [Idle EXCEPT !.pc = "resolve", !.kind = kind, !.todo = todo, !.job = job, !.dep = dep]
<1>1. dep.ok /\ requests' = [requests EXCEPT ![q] = s] /\ UNCHANGED <<project, execs>>
  BY DEF Begin
<1>2. todo[1] \in Pipelines
  <2>1. Len(todo) \in Nat /\ Len(todo) # 0
    BY EmptySeq, LenProperties
  <2>2. 1 \in 1 .. Len(todo)
    BY <2>1
  <2> QED BY <2>2, ElementOfSeq
<1>3. \A a \in dep.runs : Suits(a, dep.version) /\ execs[a].pipe \in ToSet(DependsOn[todo[1]])
  <2>1. IInv /\ RunsAndChains
    BY DEF BoundInv
  <2> HIDE DEF dep
  <2> QED BY <1>1, <1>2, <2>1, CheckedSuit DEF dep
<1> HIDE DEF dep
<1>4. /\ s.pc = "resolve" /\ s.todo = todo /\ s.dep = dep /\ s.built = <<>> /\ s.clone = 0
  BY DEF Idle
<1> HIDE DEF s
<1>5. s \in RequestStates
  BY <1>1, RequestKeepsType DEF BoundInv
<1>6. CheckFits(s)
  BY <1>3, <1>4 DEF CheckFits
<1>7. PiecesFit(s)
  <2>1. At(s) - 1 = 0 /\ DOMAIN s.built = {}
    BY <1>4, NothingBuilt
  <2>2. Pipes(s) = {}
    BY <2>1 DEF Pipes
  <2>3. Until(s, At(s) - 1) = {}
    <3>1. \A k : ~(k \in 1 .. 0)
      OBVIOUS
    <3> QED BY <2>1, <3>1 DEF Until
  <2> QED BY <1>4, <2>1, <2>2, <2>3 DEF PiecesFit
<1>8. s \in BoundRequests
  BY <1>5, <1>6, <1>7 DEF BoundRequests, HandFits
<1> QED BY <1>1, <1>8, BoundRequestStep

LEMMA BoundRun ==
  ASSUME BoundInv, IInv', NEW q \in Requests
  PROVE  /\ \A p \in Alone : RunPipeline(q, p) \/ RunJob(q, p) => BoundInv'
         /\ RunChain(q) => BoundInv'
<1>1. ASSUME NEW p \in Alone, RunPipeline(q, p) \/ RunJob(q, p) PROVE BoundInv'
  <2> DEFINE todo == <<p>>
  <2>1. PICK kind, job : Begin(q, kind, todo, job)
    BY <1>1 DEF RunPipeline, RunJob
  <2>2. todo \in Seq(Pipelines) /\ todo # <<>> /\ ~(Len(todo) > 1)
    <3>1. p \in Pipelines
      BY PipelinesAssumption
    <3>2. Len(todo) = 1
      OBVIOUS
    <3> QED BY <3>1, <3>2
  <2> HIDE DEF todo
  <2> QED BY <2>1, <2>2, BoundBegin
<1>2. ASSUME RunChain(q) PROVE BoundInv'
  <2> DEFINE todo == Chain
  <2>1. PICK kind : Begin(q, kind, todo, "none")
    BY <1>2 DEF RunChain
  <2>2. todo \in Seq(Pipelines) /\ todo # <<>> /\ todo = Chain
    BY ExecsFit, ProjectFits DEF BoundInv, Types
  <2> HIDE DEF todo
  <2> QED BY <2>1, <2>2, BoundBegin
<1> QED BY <1>1, <1>2
-----------------------------------------------------------------------------
LEMMA BoundPinLater ==
  ASSUME BoundInv, IInv', UNCHANGED <<project, execs>>, NEW q \in Requests, NEW rq, rq = requests[q],
         rq.pc = "resolve", NEW ctx, rq.dep.version # NoVersion => ctx.version = rq.dep.version,
         requests' = [requests EXCEPT ![q] = [rq EXCEPT !.pc = "pin", !.ctx = ctx]]
  PROVE  BoundInv'
<1> DEFINE s == [rq EXCEPT !.pc = "pin", !.ctx = ctx]
<1>1. IInv /\ rq \in RequestStates /\ HandFits(rq)
  BY DEF BoundInv, BoundRequests
<1>2. /\ s.pc = "pin" /\ s.ctx = ctx /\ s.todo = rq.todo
      /\ s.dep = rq.dep /\ s.built = rq.built /\ s.clone = rq.clone
  BY <1>1 DEF RequestStates
<1>3. s \in RequestStates
  <2> HIDE DEF s
  <2> QED BY <1>1, RequestKeepsType DEF s
<1> HIDE DEF s
<1>4. HandFits(s)
  <2> SUFFICES ASSUME rq.clone = 0 PROVE HandFits(s)
    BY <1>2 DEF HandFits
  <2>1. CheckFits(rq) /\ PiecesFit(rq)
    BY <1>1 DEF HandFits
  <2>2. CheckFits(s)
    BY <1>2, <2>1 DEF CheckFits
  <2>3. At(s) = At(rq) /\ Pipes(s) = Pipes(rq)
    BY <1>2 DEF At, Pipes
  <2>4. Until(s, At(s) - 1) = Until(rq, At(rq) - 1)
    BY <1>2, <2>3 DEF Until
  <2>5. PiecesFit(s)
    BY <1>2, <2>1, <2>3, <2>4 DEF PiecesFit
  <2> QED BY <2>2, <2>5 DEF HandFits
<1>5. s \in BoundRequests
  BY <1>3, <1>4 DEF BoundRequests
<1> QED BY <1>5, BoundRequestStep DEF s

LEMMA BoundResolve ==
  ASSUME BoundInv, IInv', NEW q \in Requests, Resolve(q), NEW rq, rq = requests[q], NEW p, p = Current(q)
  PROVE  BoundInv'
<1> DEFINE dep == rq.dep
           r == RepoOf[p]
           raw == commits[r][Tip(r)]
           Later(ctx) == requests' = [requests EXCEPT ![q] = [rq EXCEPT !.pc = "pin", !.ctx = ctx]]
           inherited == dep.version # NoVersion \/ p \notin Versioned
           ref == PinnedRef(p, dep)
<1>1. rq.pc = "resolve" /\ UNCHANGED <<project, execs>>
  BY DEF Resolve
<1>2. /\ inherited /\ ref # 0 => Build(q, ContextOf(dep.version, ref, FALSE))
      /\ inherited /\ ref = 0 => Later(ContextOf(dep.version, 0, FALSE))
      /\ ~inherited /\ raw # 0 /\ Tip(r) # 0 =>
           Build(q, ContextOf([raw |-> raw, tag |-> TagPrefix[p]], Tip(r), TRUE))
      /\ ~inherited /\ raw = 0 => Ends(q) \/ Later(ContextOf(NoVersion, 0, TRUE))
  BY DEF Resolve, ContextOf
<1>3. rq \in RequestStates /\ p \in Pipelines /\ rq.pc \in {"resolve", "pin"}
  BY <1>1, WorkFacts DEF BoundInv
<1>4. Types /\ r \in Repos /\ dep \in Contexts /\ dep.version \in Versions /\ dep.ref \in Nat
  BY <1>3, ExecsFit, Configured DEF BoundInv, RequestStates, Contexts
<1>5. Tip(r) \in Nat \ {0} /\ raw \in Nat
  BY <1>4, TipFacts
<1>6. ref \in Nat
  BY <1>4 DEF PinnedRef
<1> HIDE DEF r, raw, ref
<1>7. CASE inherited /\ ref # 0
  <2> DEFINE ctx == ContextOf(dep.version, ref, FALSE)
  <2>1. ctx \in Contexts /\ ctx.version = dep.version
    <3> HIDE DEF inherited, dep
    <3> QED BY <1>4, <1>6, ContextOfFacts
  <2>2. Build(q, ctx)
    BY <1>2, <1>7
  <2> HIDE DEF ctx
  <2> QED BY <1>1, <1>3, <2>1, <2>2, BoundBuild
<1>8. CASE inherited /\ ref = 0
  <2> DEFINE ctx == ContextOf(dep.version, 0, FALSE)
  <2>1. ctx.version = dep.version
    <3>1. 0 \in Nat /\ FALSE \in BOOLEAN
      OBVIOUS
    <3> HIDE DEF inherited, dep
    <3> QED BY <1>4, <3>1, ContextOfFacts
  <2>2. Later(ctx)
    BY <1>2, <1>8
  <2> HIDE DEF ctx
  <2> QED BY <1>1, <2>1, <2>2, BoundPinLater
<1>9. CASE ~inherited /\ raw # 0
  <2> DEFINE v == [raw |-> raw, tag |-> TagPrefix[p]]
             ctx == ContextOf(v, Tip(r), TRUE)
  <2>1. v \in Versions
    BY <1>3, <1>5 DEF Versions, Tags
  <2>2. Build(q, ctx)
    BY <1>2, <1>5, <1>9
  <2> HIDE DEF v
  <2>3. ctx \in Contexts
    BY <1>5, <2>1, ContextOfFacts
  <2> HIDE DEF ctx
  <2> QED BY <1>1, <1>3, <1>9, <2>2, <2>3, BoundBuild
<1>10. CASE ~inherited /\ raw = 0
  <2>1. CASE Ends(q)
    BY <1>1, <2>1, BoundEnds
  <2>2. CASE Later(ContextOf(NoVersion, 0, TRUE))
    <3> PICK ctx : ctx = ContextOf(NoVersion, 0, TRUE)
      OBVIOUS
    <3> QED BY <1>1, <1>10, <2>2, BoundPinLater
  <2> QED BY <1>2, <1>10, <2>1, <2>2
<1> QED BY <1>7, <1>8, <1>9, <1>10

(* What is looked up is a commit; the version has been found.              *)
LEMMA BoundPin ==
  ASSUME BoundInv, IInv', NEW q \in Requests, Pin(q), NEW rq, rq = requests[q], NEW p, p = Current(q)
  PROVE  BoundInv'
<1> DEFINE n == Tip(RepoOf[p])
           ctx == [rq.ctx EXCEPT !.ref = n]
<1>1. rq.pc = "pin" /\ Build(q, ctx) /\ UNCHANGED <<project, execs>>
  BY DEF Pin
<1>2. IInv /\ HandFits(rq)
  BY DEF BoundInv, BoundRequests
<1>3. rq \in RequestStates /\ AtWork(rq) /\ p \in Pipelines /\ rq.pc \in {"resolve", "pin"}
  BY <1>1, <1>2, WorkFacts
<1>4. n \in Nat /\ rq.ctx \in Contexts
  <2>1. n \in Nat
    BY <1>2, <1>3, ExecsFit, TipFacts, Configured
  <2> QED BY <1>3, <2>1 DEF RequestStates
<1> HIDE DEF n
<1>5. ctx \in Contexts /\ ctx.version = rq.ctx.version
  BY <1>4 DEF Contexts
<1> HIDE DEF ctx
<1>6. rq.dep.version # NoVersion => ctx.version = rq.dep.version
  BY <1>1, <1>2, <1>3, <1>5 DEF AtWork, HandFits, CheckFits
<1> QED BY <1>1, <1>3, <1>5, <1>6, BoundBuild

LEMMA BoundResolveCached ==
  ASSUME BoundInv, IInv', NEW q \in Requests, ResolveCached(q), NEW rq, rq = requests[q],
         NEW p, p = Current(q)
  PROVE  BoundInv'
<1> DEFINE c == Cached(p, rq.dep)
           own == VerifyDependencyRun(Execs, p)
<1>1. /\ rq.pc = "resolve" /\ UNCHANGED <<project, execs>>
      /\ \/ Position(q) > 1 /\ Build(q, rq.ctx)
         \/ Build(q, c)
         \/ Ends(q)
  BY DEF ResolveCached
<1>2. IInv /\ Types /\ (\A e \in Execs : BuildFits(execs[e])) /\ rq.pc \in {"resolve", "pin"}
  BY <1>1, ExecsFit DEF BoundInv
<1>3. rq \in RequestStates /\ p \in Pipelines /\ Position(q) = At(rq)
  BY <1>2, WorkFacts
<1>4. rq.dep \in Contexts /\ rq.ctx \in Contexts
  BY <1>3 DEF RequestStates
<1> HIDE DEF c, own
<1>5. CASE Position(q) > 1 /\ Build(q, rq.ctx)
  <2>1. rq.built # <<>>
    BY <1>3, <1>5, NothingBuilt
  <2> PICK ctx : ctx = rq.ctx
    OBVIOUS
  <2> QED BY <1>1, <1>2, <1>4, <1>5, <2>1, BoundBuild
<1>6. CASE Build(q, c)
  <2>1. c \in Contexts /\ (rq.dep.version # NoVersion => c.version = rq.dep.version)
    <3>1. CASE rq.dep.version # NoVersion
      <4> PICK n : n = PinnedRef(p, rq.dep)
        OBVIOUS
      <4>1. n \in Nat /\ rq.dep.version \in Versions
        BY <1>4 DEF PinnedRef, Contexts
      <4>2. c = [NoContext EXCEPT !.version = rq.dep.version, !.ref = n]
        BY <3>1 DEF c, Cached
      <4> QED BY <4>1, <4>2, BlankContext DEF Contexts, NoContext
    <3>2. CASE rq.dep.version = NoVersion
      <4>1. own \in Contexts
        <5>1. own \in FittingContexts
          BY <1>2, <1>3, VerifiedFits DEF own
        <5> QED BY <5>1 DEF FittingContexts
      <4>2. c = [NoContext EXCEPT !.ok = own.ok, !.version = own.version, !.ref = own.ref, !.own = own.own]
        BY <3>2 DEF c, Cached, own
      <4> QED BY <3>2, <4>1, <4>2, BlankContext DEF Contexts, NoContext
    <3> QED BY <3>1, <3>2
  <2> QED BY <1>1, <1>2, <1>6, <2>1, BoundBuild
<1>7. CASE Ends(q)
  BY <1>1, <1>7, BoundEnds
<1> QED BY <1>1, <1>5, <1>6, <1>7

(* A rerun is no first attempt. *)
LEMMA BoundBeginRerun ==
  ASSUME BoundInv, IInv', NEW q \in Requests, NEW e \in Execs, BeginRerun(q, e)
  PROVE  BoundInv'
<1>1. UNCHANGED <<project, execs>> /\ e # 0
  BY ExecsFacts DEF BeginRerun, BoundInv, IInv
<1>2. PICK built : requests' = [requests EXCEPT ![q] = [Idle EXCEPT !.pc = "create", !.clone = e, !.built = built]]
  BY DEF BeginRerun
<1> DEFINE s == [Idle EXCEPT !.pc = "create", !.clone = e, !.built = built]
<1>3. s.clone = e
  BY DEF Idle
<1> HIDE DEF s
<1>4. s \in RequestStates
  BY <1>1, <1>2, RequestKeepsType DEF BoundInv, s
<1>5. s \in BoundRequests
  BY <1>1, <1>3, <1>4 DEF BoundRequests, HandFits
<1> QED BY <1>1, <1>2, <1>5, BoundRequestStep DEF s

-----------------------------------------------------------------------------
(* An execution that changes in its status, or waits no more, has the      *)
(* artifacts that it had.                                                  *)
LEMMA SameArtifacts ==
  ASSUME NEW x, NEW y, SameBuild(x, y), y.arts = x.arts, y.waits \in {x.waits, <<>>}, BoundFits(x)
  PROVE  BoundFits(y)
BY DEF SameBuild, BoundFits, Fitting, BoundAtOnce

LEMMA BoundStatus ==
  ASSUME BoundInv, IInv', NEW e \in Execs, NEW x, x = execs[e], NEW y \in Executions,
         SameBuild(x, y), y.arts = x.arts, y.waits \in {x.waits, <<>>}, x.status # "succeeded",
         execs' = [execs EXCEPT ![e] = y], UNCHANGED <<project, requests>>
  PROVE  BoundInv'
<1>1. x.root = e => BoundFits(x)
  BY DEF BoundInv, FirstAttempts, BoundExecutions
<1>2. x.root = e => BoundFits(y)
  BY <1>1, SameArtifacts
<1> QED BY <1>2, BoundExecStep

LEMMA BoundLife ==
  ASSUME BoundInv, IInv', NEW e \in Execs
  PROVE  /\ StartJob(e) => BoundInv'
         /\ \A s \in Terminal : EndJob(e, s) => BoundInv'
         /\ CancelQueued(e) => BoundInv'
         /\ FetchBranch(e) => BoundInv'
         /\ PushBump(e) => BoundInv'
<1>1. PICK x : x = execs[e]
  OBVIOUS
<1>2. x \in Executions /\ x.pipe \in Pipelines
  BY <1>1, AllPlaced DEF BoundInv, Executions
<1>3. ASSUME NEW s \in Terminal, SetStatus(e, s), x.status # "succeeded", UNCHANGED <<project, requests>>
      PROVE  BoundInv'
  <2> DEFINE y == [x EXCEPT !.status = s]
  <2>1. execs' = [execs EXCEPT ![e] = y]
    BY <1>1, <1>3 DEF SetStatus
  <2>2. y \in Executions /\ SameBuild(x, y) /\ y.arts = x.arts /\ y.waits = x.waits
    BY <1>2 DEF Executions, SameBuild
  <2> HIDE DEF y
  <2> QED BY <1>1, <1>3, <2>1, <2>2, BoundStatus
<1>4. ASSUME StartJob(e) PROVE BoundInv'
  <2> DEFINE y == [x EXCEPT !.status = "running", !.again = TRUE]
  <2>1. execs' = [execs EXCEPT ![e] = y] /\ UNCHANGED <<project, requests>> /\ x.status = "queued"
    BY <1>1, <1>4 DEF StartJob
  <2>2. y \in Executions /\ SameBuild(x, y) /\ y.arts = x.arts /\ y.waits = x.waits
    BY <1>2 DEF Executions, SameBuild, Active
  <2> HIDE DEF y
  <2> QED BY <1>1, <2>1, <2>2, BoundStatus
<1>5. ASSUME NEW s \in Terminal, EndJob(e, s) PROVE BoundInv'
  <2>1. x.status = "running" /\ SetStatus(e, s) /\ UNCHANGED <<project, requests>>
    BY <1>1, <1>5 DEF EndJob
  <2> QED BY <1>3, <2>1
<1>6. ASSUME CancelQueued(e) PROVE BoundInv'
  <2>1. x.status = "queued" /\ SetStatus(e, "failed") /\ UNCHANGED <<project, requests>>
    BY <1>1, <1>6 DEF CancelQueued
  <2>2. "failed" \in Terminal
    BY DEF Terminal
  <2> QED BY <1>3, <2>1, <2>2
<1>7. ASSUME FetchBranch(e) PROVE BoundInv'
  <2> DEFINE s == IF StillCurrent(e) THEN "pushing" ELSE "failed"
             n == Tip(RepoOf[x.pipe])
             y == [x EXCEPT !.status = s, !.base = n]
  <2>1. x.status = "running" /\ UNCHANGED <<project, requests>> /\ execs' = [execs EXCEPT ![e] = y]
    BY <1>1, <1>7 DEF FetchBranch
  <2>2. s \in Active \cup Terminal
    BY DEF Active, Terminal
  <2>3. n \in Nat
    BY <1>2, ExecsFit, TipFacts, Configured DEF BoundInv
  <2> HIDE DEF s, n
  <2>4. y \in Executions /\ SameBuild(x, y) /\ y.arts = x.arts /\ y.waits = x.waits
    BY <1>2, <2>2, <2>3 DEF Executions, SameBuild
  <2> HIDE DEF y
  <2> QED BY <1>1, <2>1, <2>4, BoundStatus
<1>8. ASSUME PushBump(e) PROVE BoundInv'
  <2>1. x.status = "pushing" /\ UNCHANGED <<project, requests>>
    BY <1>1, <1>8 DEF PushBump
  <2>2. PICK s \in {"succeeded", "failed"} : SetStatus(e, s)
    BY <1>8 DEF PushBump
  <2>3. s \in Terminal
    BY DEF Terminal
  <2> QED BY <1>3, <2>1, <2>2, <2>3
<1> QED BY <1>4, <1>5, <1>6, <1>7, <1>8

(* A chain that releases an execution binds it to what this chain made.    *)
LEMMA BoundReconcile ==
  ASSUME BoundInv, IInv', NEW e \in Execs, Reconcile(e), NEW x, x = execs[e], NEW t, t = Artifacts(x.pipe, BindsTo(e))
  PROVE  BoundInv'
<1> DEFINE fails == [x EXCEPT !.status = "failed", !.waits = <<>>, !.again = TRUE]
           stops == [x EXCEPT !.status = "failed", !.waits = <<>>]
           goes == [x EXCEPT !.waits = <<>>, !.arts = IF t = {} THEN x.arts ELSE t]
           c == BindsTo(e)
<1>1. /\ UNCHANGED <<project, requests>> /\ x.status = "queued" /\ x.waits # <<>>
      /\ \/ execs' = [execs EXCEPT ![e] = fails]
         \/ execs' = [execs EXCEPT ![e] = stops]
         \/ c.ok /\ execs' = [execs EXCEPT ![e] = goes]
  <2>1. /\ UNCHANGED <<project, requests>> /\ x.status = "queued" /\ x.waits # <<>>
        /\ \/ execs' = [execs EXCEPT ![e].status = "failed", ![e].waits = <<>>, ![e].again = TRUE]
           \/ execs' = [execs EXCEPT ![e].status = "failed", ![e].waits = <<>>]
           \/ c.ok /\ execs' = [execs EXCEPT ![e].waits = <<>>, ![e].arts = IF t = {} THEN @ ELSE t]
    BY DEF Reconcile
  <2> QED BY <2>1
<1>2. x \in Executions /\ IInv /\ RunsAndChains /\ (x.root = e => BoundFits(x)) /\ x.pipe \in Pipelines
  BY AllPlaced DEF BoundInv, FirstAttempts, BoundExecutions, Executions
<1> <<>> \in Seq(Pipelines)
  OBVIOUS
<1>3. CASE execs' = [execs EXCEPT ![e] = fails]
  <2>1. fails \in Executions /\ SameBuild(x, fails) /\ fails.arts = x.arts /\ fails.waits = <<>>
    BY <1>2 DEF Executions, SameBuild, Terminal
  <2> HIDE DEF fails
  <2> QED BY <1>1, <1>3, <2>1, BoundStatus
<1>4. CASE execs' = [execs EXCEPT ![e] = stops]
  <2>1. stops \in Executions /\ SameBuild(x, stops) /\ stops.arts = x.arts /\ stops.waits = <<>>
    BY <1>2 DEF Executions, SameBuild, Terminal
  <2> HIDE DEF stops
  <2> QED BY <1>1, <1>4, <2>1, BoundStatus
<1>5. CASE c.ok /\ execs' = [execs EXCEPT ![e] = goes]
  <2>1. t \in SUBSET Execs
    <3>1. c \in Contexts
      BY <1>2, ExecsFit, ChainContextFacts DEF BindsTo
    <3> HIDE DEF c
    <3> QED BY <3>1, ArtifactsFacts DEF c
  <2>2. /\ goes \in Executions /\ SameBuild(x, goes) /\ goes.status = "queued" /\ goes.waits = <<>>
        /\ goes.arts = IF t = {} THEN x.arts ELSE t
    BY <1>1, <1>2, <2>1 DEF Executions, SameBuild
  <2> HIDE DEF goes
  <2>3. ASSUME BoundFits(x) PROVE BoundFits(goes)
    <3>1. x.arts = {} /\ ~BoundAtOnce(x) /\ ~BoundAtOnce(goes) /\ x.chain # 0 /\ x.chain = goes.chain /\ x.version = goes.version
      BY <1>1, <2>2, <2>3 DEF BoundFits, BoundAtOnce, SameBuild
    <3>2. \A a \in t : /\ a \in Execs /\ execs[a].status = "succeeded"
                       /\ InChain(x.chain, execs[a].pipe) # {} => execs[a].chain = x.chain
      <4> PICK d, n, p : d = c /\ n = x.chain /\ p = x.pipe
        OBVIOUS
      <4>1. d = ChainContext(p, n) /\ d.ok /\ t = Artifacts(p, d)
        BY <1>5 DEF BindsTo
      <4>2. \A a \in d.runs :
              /\ Suits(a, d.version) /\ execs[a].pipe \in ToSet(DependsOn[p])
              /\ InChain(n, execs[a].pipe) # {} => execs[a].chain = n
        <5>1. IInv /\ RunsAndChains
          BY <1>2
        <5>2. p \in Pipelines
          BY <1>2
        <5>3. d = ChainContext(p, n) /\ d.ok
          BY <4>1
        <5> HIDE DEF c
        <5> QED BY <5>1, <5>2, <5>3, ChainSuits
      <4> QED BY <4>1, <4>2 DEF Artifacts, Suits
    <3>3. \A p \in ToSet(Chain) : InChain(x.chain, p) # {}
      BY <1>2, <3>1 DEF RunsAndChains
    <3>4. ASSUME NEW a \in t, execs[a].chain = x.chain, execs[x.chain].version # NoVersion
          PROVE  execs[a].version = x.version
      <4>1. Agrees(execs[a], execs[x.chain]) /\ Agrees(x, execs[x.chain])
        BY <1>2, <3>1, <3>2, <3>4 DEF IInv, PlaceFits
      <4> QED BY <3>4, <4>1 DEF Agrees
    <3>5. \A a \in t : Fitting(goes, a)
      BY <3>1, <3>2, <3>3, <3>4 DEF Fitting
    <3> QED BY <2>2, <3>1, <3>5 DEF BoundFits
  <2> QED BY <1>1, <1>2, <1>5, <2>2, <2>3, BoundExecStep
<1> QED BY <1>1, <1>3, <1>4, <1>5

-----------------------------------------------------------------------------
(* What is stored fits with what was there. *)
LEMMA BoundStored ==
  ASSUME BoundInv, IInv', NEW q \in Requests, Ends(q), UNCHANGED project, Execs \subseteq Execs',
         \A e \in Execs : execs'[e] = execs[e],
         \A e, f \in Execs' : execs'[e].run = execs'[f].run => execs'[e].version = execs'[f].version,
         \A e \in Execs' \ Execs : \A c : c = execs'[e].chain /\ c # 0 => \A p \in ToSet(Chain) : InChain(c, p)' # {},
         \A e \in Execs' \ Execs : execs'[e].root = e => execs'[e] \in BoundExecutions'
  PROVE  BoundInv'
<1>1. Keeps /\ Chain' = Chain
  BY DEF Keeps, SameBuild, Chain
<1>2. RunsAndChains'
  <2>1. ASSUME NEW e \in Execs', NEW c, c = execs'[e].chain, c # 0, NEW p \in ToSet(Chain) PROVE InChain(c, p)' # {}
    <3>1. CASE e \in Execs
      <4>1. InChain(c, p) # {}
        BY <2>1, <3>1 DEF BoundInv, RunsAndChains
      <4> QED BY <4>1 DEF InChain
    <3> QED BY <2>1, <3>1
  <2> QED BY <1>1, <2>1 DEF RunsAndChains, InChain
<1>3. ASSUME NEW e \in FirstAttempts' PROVE execs'[e] \in BoundExecutions'
  <2>1. e \in Execs' /\ execs'[e].root = e
    BY <1>3 DEF FirstAttempts
  <2>2. CASE e \in Execs
    <3> PICK x : x = execs[e]
      OBVIOUS
    <3>1. x = execs'[e] /\ x \in BoundExecutions
      BY <2>1, <2>2 DEF BoundInv, FirstAttempts
    <3>2. Placed(x)
      BY <2>2, AllPlaced DEF BoundInv
    <3>3. x \in BoundExecutions'
      BY <1>1, <3>1, <3>2, BoundStays
    <3> QED BY <3>1, <3>3
  <2> QED BY <2>1, <2>2
<1>4. \A i \in Requests : requests'[i] \in BoundRequests'
  <2>1. \A i \in Requests : requests'[i] \in BoundRequests
    BY IdleIsBound DEF Ends, BoundInv, IInv, Types
  <2> QED BY <1>1, <2>1, HandStays
<1> QED BY <1>2, <1>3, <1>4 DEF BoundInv

(* The copy of a rerun is another attempt of what it copies. *)
LEMMA BoundCopy ==
  ASSUME BoundInv, IInv', NEW q \in Requests, Create(q), NEW rq, rq = requests[q], rq.clone # 0
  PROVE  BoundInv'
<1> PICK n, m : n = Len(execs) /\ m = Len(rq.built)
  OBVIOUS
<1>1. /\ n \in Nat /\ Execs = 1 .. n /\ Execs' = 1 .. n + m
      /\ rq.pc = "create" /\ Ends(q) /\ project' = project
      /\ \A e \in Execs : execs'[e] = execs[e]
      /\ \A i \in 1 .. m : IsCopy(rq, n, i, execs'[n + i])
  <2>1. IInv
    BY DEF BoundInv
  <2>2. Appended(q, rq, n, m)
    BY <2>1, CreatedFacts
  <2> QED BY <2>2 DEF Appended
<1>2. rq \in RequestStates /\ ToCreate(rq) /\ rq.clone \in Execs
  BY DEF BoundInv, IInv, FittingRequests, RequestFits, RequestStates
<1> PICK z, y : z = execs[rq.clone] /\ y = execs'[n + 1]
  OBVIOUS
<1>3. m = 1 /\ n + 1 \in Execs' /\ Execs' \ Execs = {n + 1} /\ Execs \subseteq Execs'
  <2>1. m = 1
    BY <1>1, <1>2 DEF ToCreate
  <2>2. \A i : i \in 1 .. n + 1 <=> i \in 1 .. n \/ i = n + 1
    BY <1>1
  <2>3. n + 1 \notin 1 .. n
    BY <1>1
  <2>4. Execs = 1 .. n /\ Execs' = 1 .. n + 1
    BY <1>1, <2>1
  <2> QED BY <2>1, <2>2, <2>3, <2>4
<1>4. y.version = z.version /\ y.run = z.run /\ y.root = z.root /\ y.chain = z.chain
  <2>1. 1 \in 1 .. m
    BY <1>3
  <2>2. IsCopy(rq, n, 1, y)
    BY <1>1, <2>1
  <2> QED BY <1>1, <1>2, <2>2 DEF IsCopy, ToCreate
<1>5. \A e \in Execs' : \E i \in Execs : execs'[e].version = execs[i].version /\ execs'[e].run = execs[i].run
  BY <1>1, <1>2, <1>3, <1>4
<1>6. \A e, f \in Execs' : execs'[e].run = execs'[f].run => execs'[e].version = execs'[f].version
  BY <1>5 DEF BoundInv, RunsAndChains
<1>7. ASSUME NEW c, c = y.chain, c # 0, NEW p \in ToSet(Chain) PROVE InChain(c, p)' # {}
  <2>1. InChain(c, p) # {}
    BY <1>2, <1>4, <1>7 DEF BoundInv, RunsAndChains
  <2> QED BY <1>1, <1>3, <2>1 DEF InChain
<1>8. y.root # n + 1
  <2>1. z.root \in 1 .. rq.clone
    BY <1>2 DEF BoundInv, IInv, PlaceFits
  <2> QED BY <1>1, <1>2, <1>4, <2>1
<1>9. \A e \in Execs' \ Execs : \A c : c = execs'[e].chain /\ c # 0 => \A p \in ToSet(Chain) : InChain(c, p)' # {}
  BY <1>3, <1>7
<1>10. \A e \in Execs' \ Execs : execs'[e].root # e
  BY <1>3, <1>8
<1> QED BY <1>1, <1>3, <1>6, <1>9, <1>10, BoundStored

(* What a request has built becomes runs of one version each and, if they  *)
(* are several pipelines, a chain with all of them.                        *)
LEMMA BoundNewRuns ==
  ASSUME BoundInv, IInv', NEW q \in Requests, Create(q), NEW rq, rq = requests[q], rq.clone = 0
  PROVE  BoundInv'
<1> PICK n, m, t, B : n = Len(execs) /\ m = Len(rq.built) /\ t = rq.todo /\ B = rq.built
  OBVIOUS
<1> PICK c : c = IF Len(t) > 1 THEN n + 1 ELSE 0
  OBVIOUS
<1>1. /\ n \in Nat /\ m \in Nat \ {0} /\ Execs = 1 .. n /\ Execs' = 1 .. n + m /\ DOMAIN B = 1 .. m
      /\ rq.pc = "create" /\ Ends(q) /\ project' = project
      /\ \A e \in Execs : execs'[e] = execs[e]
      /\ \A i \in 1 .. m : IsCopy(rq, n, i, execs'[n + i])
  <2>1. IInv
    BY DEF BoundInv
  <2>2. n = Len(execs)
    OBVIOUS
  <2>3. m = Len(rq.built)
    OBVIOUS
  <2>4. Appended(q, rq, n, m)
    BY ONLY <2>1, q \in Requests, Create(q), rq = requests[q], <2>2, <2>3, CreatedFacts
  <2> QED BY <2>4 DEF Appended
<1>2. rq \in RequestStates /\ PiecesFit(rq) /\ t \in Seq(Pipelines) /\ B \in Seq(Pendings)
  BY <1>1 DEF BoundInv, BoundRequests, HandFits, RequestStates
<1>3. /\ (Len(t) > 1 => t = Chain) /\ Len(t) \in Nat /\ DOMAIN t = 1 .. Len(t)
      /\ Pipes(rq) = Until(rq, Len(t))
      /\ \A i, j \in 1 .. m : B[i].pipe = B[j].pipe => B[i].version = B[j].version
      /\ \A i \in 1 .. m : PieceFits(t, B[i])
  <2>1. Len(t) \in Nat /\ DOMAIN t = 1 .. Len(t) /\ (Len(t) + 1) - 1 = Len(t)
    BY <1>2, LenProperties
  <2>2. Pipes(rq) = Until(rq, At(rq) - 1) /\ At(rq) = Len(t) + 1
    BY <1>1, <1>2 DEF PiecesFit
  <2>3. /\ (Len(t) > 1 => t = Chain)
        /\ \A i, j \in DOMAIN B : B[i].pipe = B[j].pipe => B[i].version = B[j].version
        /\ \A i \in DOMAIN B : PieceFits(t, B[i])
    BY <1>2 DEF PiecesFit
  <2>4. DOMAIN B = 1 .. m
    BY <1>1
  <2>5. Pipes(rq) = Until(rq, Len(t))
    <3>1. At(rq) - 1 = Len(t)
      BY <2>1, <2>2
    <3> QED BY <2>2, <3>1
  <2> QED BY <2>1, <2>3, <2>4, <2>5
<1>4. ASSUME NEW i \in 1 .. m
      PROVE  RunName(B, i) \in 1 .. m /\ B[RunName(B, i)].pipe = B[i].pipe
  BY <1>1, <1>2, FirstOfRun
<1>5. ASSUME NEW i \in 1 .. m
      PROVE  LET x == execs'[n + i] IN
             /\ x.pipe = B[i].pipe /\ x.version = B[i].version /\ x.arts = B[i].arts /\ x.waits = B[i].waits
             /\ x.run = n + RunName(B, i) /\ x.chain = c
  BY <1>1 DEF IsCopy
<1>6. /\ Execs \subseteq Execs' /\ \A i \in 1 .. m : n + i \in Execs'
      /\ \A e \in Execs' \ Execs : \E i \in 1 .. m : e = n + i
  <2>1. Execs \subseteq Execs' /\ \A i \in 1 .. m : n + i \in Execs'
    BY <1>1
  <2>2. ASSUME NEW e \in Execs' \ Execs PROVE \E i \in 1 .. m : e = n + i
    <3>1. e - n \in 1 .. m /\ e = n + (e - n)
      BY <1>1
    <3> QED BY <3>1
  <2> QED BY <2>1, <2>2
<1>7. ASSUME NEW e \in Execs, NEW i \in 1 .. m PROVE execs[e].run # n + RunName(B, i)
  <2>1. execs[e].run \in 1 .. e
    BY DEF BoundInv, IInv, PlaceFits
  <2>2. RunName(B, i) \in 1 .. m
    BY <1>4
  <2> QED BY <1>1, <2>1, <2>2
<1>8. ASSUME NEW e \in Execs', NEW f \in Execs', execs'[e].run = execs'[f].run
      PROVE  execs'[e].version = execs'[f].version
  <2>1. CASE e \in Execs /\ f \in Execs
    BY <1>1, <1>8, <2>1 DEF BoundInv, RunsAndChains
  <2>2. ASSUME NEW k \in Execs, NEW g \in Execs' \ Execs PROVE execs'[k].run # execs'[g].run
    <3>1. PICK i \in 1 .. m : g = n + i
      BY <1>6
    <3>2. execs'[g].run = n + RunName(B, i) /\ execs'[k] = execs[k]
      BY <1>1, <1>5, <3>1
    <3> QED BY <1>7, <3>2
  <2>3. CASE e \notin Execs /\ f \notin Execs
    <3> PICK i \in 1 .. m : e = n + i
      BY <1>6, <2>3
    <3> PICK j \in 1 .. m : f = n + j
      BY <1>6, <2>3
    <3>1. e = n + i /\ f = n + j
      OBVIOUS
    <3> PICK x, y : x = execs'[e] /\ y = execs'[f]
      OBVIOUS
    <3>2. /\ x.run = n + RunName(B, i) /\ x.version = B[i].version
          /\ y.run = n + RunName(B, j) /\ y.version = B[j].version
      BY <1>5, <3>1
    <3>3. RunName(B, i) \in 1 .. m /\ RunName(B, j) \in 1 .. m
      BY <1>4
    <3>4. RunName(B, i) = RunName(B, j)
      <4>1. x.run = y.run
        BY <1>8
      <4> QED BY <1>1, <3>2, <3>3, <4>1
    <3>5. B[i].pipe = B[j].pipe
      <4>1. B[RunName(B, i)].pipe = B[i].pipe /\ B[RunName(B, j)].pipe = B[j].pipe
        BY <1>4
      <4> QED BY <3>4, <4>1
    <3> QED BY SMTT(30), <1>3, <3>2, <3>5
  <2> QED BY <1>8, <2>1, <2>2, <2>3
<1>9. ASSUME NEW e \in Execs' \ Execs, NEW d, d = execs'[e].chain, d # 0, NEW p \in ToSet(Chain)
      PROVE  InChain(d, p)' # {}
  <2>1. d = c /\ t = Chain
    <3>1. PICK i \in 1 .. m : e = n + i
      BY <1>6
    <3> QED BY <1>3, <1>5, <1>9, <3>1
  <2>2. p \in Pipes(rq)
    BY <1>3, <2>1 DEF Until, ToSet
  <2>3. PICK j \in 1 .. m : B[j].pipe = p
    BY <1>1, <2>2 DEF Pipes
  <2>4. n + j \in Execs' /\ execs'[n + j].pipe = p /\ execs'[n + j].chain = d
    BY <1>5, <1>6, <2>1, <2>3
  <2> QED BY <2>4 DEF InChain
<1>10. Keeps /\ Chain' = Chain
  BY <1>1, <1>6 DEF Keeps, SameBuild, Chain
<1>11. ASSUME NEW e \in Execs' \ Execs PROVE execs'[e] \in BoundExecutions'
  <2>1. PICK i \in 1 .. m : e = n + i
    BY <1>6
  <2> PICK y, b : y = execs'[e] /\ b = B[i]
    OBVIOUS
  <2>2. y \in Executions'
    BY ElementOfSeq, LenProperties DEF IInv, Types, Execs
  <2>3. y.pipe = b.pipe /\ y.version = b.version /\ y.arts = b.arts /\ y.waits = b.waits /\ y.chain = c
    BY <1>5, <2>1
  <2>4. PieceFits(t, b)
    BY <1>3
  <2>5. c # 0 <=> Len(t) > 1
    BY <1>1
  <2>6. y.waits # <<>> => y.arts = {} /\ ~BoundAtOnce(y)'
    BY <1>10, <2>3, <2>4, <2>5 DEF PieceFits, BoundAtOnce
  <2>7. ASSUME NEW a \in y.arts PROVE Fitting(y, a)'
    <3>1. Suits(a, y.version) /\ (c # 0 => execs[a].pipe \notin ToSet(Chain))
      BY <2>3, <2>4, <2>5 DEF PieceFits
    <3>2. Suits(a, y.version)' /\ execs'[a].pipe = execs[a].pipe
      <4>1. Suits(a, y.version)'
        BY <1>10, <3>1, BoundStays
      <4> QED BY <1>1, <3>1, <4>1 DEF Suits
    <3> QED BY <1>10, <2>3, <3>1, <3>2 DEF Fitting, Suits
  <2>8. BoundFits(y)'
    BY <2>6, <2>7 DEF BoundFits
  <2> QED BY <2>2, <2>8 DEF BoundExecutions
<1>12. \A e, f \in Execs' : execs'[e].run = execs'[f].run => execs'[e].version = execs'[f].version
  BY <1>8
<1>13. \A e \in Execs' \ Execs : \A d : d = execs'[e].chain /\ d # 0 => \A p \in ToSet(Chain) : InChain(d, p)' # {}
  BY <1>9
<1>14. \A e \in Execs' \ Execs : execs'[e].root = e => execs'[e] \in BoundExecutions'
  <2> HIDE DEF BoundExecutions
  <2> QED BY <1>11
<1> QED BY <1>1, <1>6, <1>12, <1>13, <1>14, BoundStored
-----------------------------------------------------------------------------
LEMMA InitBound == Init => BoundInv
<1> SUFFICES ASSUME Init PROVE BoundInv
  OBVIOUS
<1>1. IInv
  BY InitInv
<1>2. Execs = {}
  BY DEF Init, Execs
<1>3. RunsAndChains /\ FirstAttempts = {}
  BY <1>2 DEF RunsAndChains, FirstAttempts
<1>4. \A q \in Requests : requests[q] \in BoundRequests
  BY IdleIsBound DEF Init
<1> QED BY <1>1, <1>3, <1>4 DEF BoundInv

LEMMA NextBound == BoundInv /\ [Next]_vars => BoundInv'
<1> SUFFICES ASSUME BoundInv, [Next]_vars PROVE BoundInv'
  OBVIOUS
<1>1. IInv'
  BY NextInv DEF BoundInv
<1>2. ASSUME NEW q \in Requests, NEW p \in Alone, RunPipeline(q, p) \/ RunJob(q, p) PROVE BoundInv'
  BY <1>1, <1>2, BoundRun
<1>3. ASSUME NEW q \in Requests, RunChain(q) PROVE BoundInv'
  BY <1>1, <1>3, BoundRun
<1>4. ASSUME NEW q \in Requests, Resolve(q) \/ ResolveCached(q) \/ Pin(q) PROVE BoundInv'
  <2>1. PICK rq, p : rq = requests[q] /\ p = Current(q)
    OBVIOUS
  <2> QED BY <1>1, <1>4, <2>1, BoundResolve, BoundResolveCached, BoundPin
<1>5. ASSUME NEW q \in Requests, NEW e \in Execs, BeginRerun(q, e) PROVE BoundInv'
  BY <1>1, <1>5, BoundBeginRerun
<1>6. ASSUME NEW q \in Requests, Create(q) PROVE BoundInv'
  <2>1. PICK rq : rq = requests[q]
    OBVIOUS
  <2>2. CASE rq.clone # 0
    BY <1>1, <1>6, <2>1, <2>2, BoundCopy
  <2>3. CASE rq.clone = 0
    BY <1>1, <1>6, <2>1, <2>3, BoundNewRuns
  <2> QED BY <2>2, <2>3
<1>7. ASSUME NEW e \in Execs,
             \/ StartJob(e) \/ \E s \in Terminal : EndJob(e, s)
             \/ CancelQueued(e) \/ FetchBranch(e) \/ PushBump(e)
      PROVE  BoundInv'
  BY <1>1, <1>7, BoundLife
<1>8. ASSUME NEW e \in Execs, Reconcile(e) PROVE BoundInv'
  <2>1. PICK x, t : x = execs[e] /\ t = Artifacts(x.pipe, BindsTo(e))
    OBVIOUS
  <2> QED BY <1>1, <1>8, <2>1, BoundReconcile
<1>9. ASSUME UNCHANGED <<project, execs, requests>> PROVE BoundInv'
  <2>1. Keeps /\ RunsAndChains' /\ \A e \in FirstAttempts' : execs'[e] \in BoundExecutions'
    BY <1>9, SameBound DEF BoundInv
  <2>2. \A q \in Requests : requests'[q] \in BoundRequests'
    BY <1>9, <2>1, HandStays DEF BoundInv
  <2> QED BY <1>1, <2>1, <2>2 DEF BoundInv
<1>10. ASSUME NEW r \in Repos, PushCommit(r) PROVE BoundInv'
  BY <1>9, <1>10 DEF PushCommit
<1>11. CASE UNCHANGED vars
  BY <1>9, <1>11 DEF vars
<1> QED BY <1>2, <1>3, <1>4, <1>5, <1>6, <1>7, <1>8, <1>10, <1>11 DEF Next

LEMMA ArtifactsBound == BoundInv => ArtifactsFit
BY DEF BoundInv, ArtifactsFit, FirstAttempts, BoundExecutions, BoundFits

(* The artifacts of a first attempt have succeeded and are of its version, *)
(* and of its own chain where they are of a pipeline in it, whatever ended,*)
(* was pushed or was run again between the check of the dependencies and   *)
(* the binding (resolveDependencyArtifactJobIDs, reconcileChainBlockedJob).*)
THEOREM ArtifactsAreFitting == Spec => []ArtifactsFit
<1>1. Init => BoundInv
  BY InitBound
<1>2. BoundInv /\ [Next]_vars => BoundInv'
  BY NextBound
<1>3. BoundInv => ArtifactsFit
  BY ArtifactsBound
<1> QED BY <1>1, <1>2, <1>3, PTL DEF Spec
=============================================================================
