-------------------------- MODULE DependencyRuntime --------------------------
(***************************************************************************)
(* The dependency runtime of the server: the blockers in the metadata of   *)
(* the executions of one pipeline chain run, what removes them, and the    *)
(* reconciliation that decides on blocked executions.                      *)
(*                                                                         *)
(* A spec is one job (of one matrix variant) of one pipeline of the run.   *)
(* The chain is enqueued in one batch, so execution s is the first attempt *)
(* of spec s; a rerun adds a later attempt with a higher number.  A        *)
(* dependency is a group of specs: all jobs of an upstream pipeline, or    *)
(* all variants of a needed job.                                           *)
(*                                                                         *)
(* reconcileBlockedJobExecutions runs under dependencyMu, so there is one  *)
(* run at a time, in a goroutine of the caller: `waiting' are the callers  *)
(* that have not got the mutex yet.  Each list it makes is one query; the  *)
(* decision is a function of that list, and the writes it leads to are     *)
(* later steps, between which everybody else goes on.                      *)
(*                                                                         *)
(* A definition named Slip... is the next one with a plausible mistake in  *)
(* it, put in its place to see that a property notices.                    *)
(***************************************************************************)
EXTENDS Naturals, FiniteSets, Sequences

CONSTANTS NumSpecs,     \* specs of the chain run
          MaxExecs,     \* bound: executions, reruns included
          ChainDeps,    \* chain_depends_on_pipelines of a spec's pipeline, as groups
          Needs,        \* needs_job_ids of a spec, as groups
          Declared,     \* the specs whose pipeline has a depends_on of its own
          MaxFaults,    \* bound: restarts of the server, and failing writes
          UserDeletes   \* what users delete: "queue", "history"

Specs == 1 .. NumSpecs
Execs == 1 .. MaxExecs
Maintenance == 0    \* a caller of the reconciliation that is no execution's handler

ASSUME SizeAssumption == NumSpecs \in Nat /\ MaxExecs \in Nat /\ NumSpecs <= MaxExecs
ASSUME GraphAssumption == /\ ChainDeps \in [Specs -> Seq(SUBSET Specs)]
                          /\ Needs \in [Specs -> Seq(SUBSET Specs)]
                          /\ Declared \subseteq Specs
ASSUME UsersAssumption == MaxFaults \in Nat /\ UserDeletes \subseteq {"queue", "history"}

VARIABLES specOf,        \* spec of each execution (attempt root), 0 before it exists
          status,        \* status of each execution
          chainBlocked,  \* executions with the flag chain_blocked
          needsBlocked,  \* executions with the flag needs_blocked
          owed,          \* executions an agent was given and has not reported the end of
          waiting,       \* callers waiting to reconcile
          run,           \* the reconciliation in progress
          clone,         \* the rerun request in progress
          starting,      \* the server is starting and serves nobody yet
          faults,
          succeededOnce, \* history: specs an execution of which succeeded
          removed,       \* history: specs an execution of which was deleted
          unseen         \* history: something changed since the last list that nobody
                         \* asked the runtime to look at, or that a reconciliation
                         \* which failed or came to its limit did not look at

vars == <<specOf, status, chainBlocked, needsBlocked, owed, waiting, run, clone,
          starting, faults, succeededOnce, removed, unseen>>
rows == <<specOf, status, chainBlocked, needsBlocked>>
history == <<succeededOnce, removed>>
-----------------------------------------------------------------------------
Pending  == {"queued", "leased"}
Active   == Pending \cup {"running"}
Terminal == {"succeeded", "failed"}

Exists(e) == status[e] \in Active \cup Terminal

(* Of a reconciliation: what it writes next, the transitions it may still  *)
(* make, the length of its first list, and the number of reruns that were  *)
(* created since (`created', which the code does not count).               *)
Idle == [pc |-> "idle", job |-> 0, flag |-> "none", left |-> 0, listed |-> 0, created |-> 0]

RunState == [pc : {"idle", "clear", "fail", "merge", "again"}, job : 0 .. MaxExecs,
             flag : {"none", "chain", "needs"}, left : 0 .. 3 * MaxExecs,
             listed : 0 .. MaxExecs, created : Nat]

NoClone == [pc |-> "none", job |-> 0, chain |-> FALSE, needs |-> FALSE]

CloneState == [pc : {"none", "check", "create"}, job : 0 .. MaxExecs,
               chain : BOOLEAN, needs : BOOLEAN]

Init ==
  /\ specOf = [e \in Execs |-> IF e \in Specs THEN e ELSE 0]
  /\ status = [e \in Execs |-> IF e \in Specs THEN "queued" ELSE "absent"]
  /\ chainBlocked = {s \in Specs : ChainDeps[s] # <<>>}
  /\ needsBlocked = {s \in Specs : Needs[s] # <<>>}
  /\ owed = {} /\ waiting = {} /\ run = Idle /\ clone = NoClone
  /\ starting = FALSE /\ faults = 0
  /\ succeededOnce = {} /\ removed = {} /\ unseen = FALSE
-----------------------------------------------------------------------------
(* LatestJobExecutionAttempts, of the specs of a group *)
LatestAttempts(group) ==
  {e \in Execs : /\ Exists(e)
                 /\ specOf[e] \in group
                 /\ \A f \in Execs : Exists(f) /\ specOf[f] = specOf[e] => f <= e}

SlipStanding(group) ==  \* whoever has not ended yet is not asked about
  LET ended == {e \in LatestAttempts(group) : status[e] \in Terminal}
  IN IF ended = {} THEN "wait"
     ELSE IF \A e \in ended : status[e] = "succeeded" THEN "met" ELSE "failed"

(* pipelineChainStatus, and the same loop over the variants of a needed job *)
Standing(group) ==
  LET found == LatestAttempts(group)
  IN IF found = {} \/ \E e \in found : status[e] \in Active THEN "wait"
     ELSE IF \A e \in found : status[e] = "succeeded" THEN "met" ELSE "failed"

(* The dependencies are looked at in their order up to the first unmet one. *)
AllMet(deps)   == \A i \in 1 .. Len(deps) : Standing(deps[i]) = "met"
IsFailed(deps) == \E i \in 1 .. Len(deps) : /\ Standing(deps[i]) = "failed"
                                            /\ \A k \in 1 .. i - 1 : Standing(deps[k]) = "met"

(* The dependencies that are looked at: while the chain has an execution   *)
(* waiting, its needs are not.                                             *)
Flag(e) == IF e \in chainBlocked THEN "chain" ELSE "needs"
Deps(e) == IF e \in chainBlocked THEN ChainDeps[specOf[e]] ELSE Needs[specOf[e]]

(* The executions that a look at the table as it is decides on. *)
Decidable ==
  {e \in Execs : /\ status[e] = "queued"
                 /\ e \in chainBlocked \cup needsBlocked
                 /\ AllMet(Deps(e)) \/ IsFailed(Deps(e))}

(* What is decided.  Binding the artifacts of the upstream pipelines may   *)
(* fail, which ends the execution like a failed pipeline does.             *)
Decision(e) ==
  {pc \in {"clear", "fail"} :
     \/ pc = "clear" /\ AllMet(Deps(e))
     \/ pc = "fail" /\ IsFailed(Deps(e))
     \/ pc = "fail" /\ AllMet(Deps(e)) /\ Flag(e) = "chain" /\ Deps(e) # <<>>}

(* List, and decide on the first candidate of the list, the newest one; it *)
(* is the last list when `left' is 0.                                      *)
ListAndDecide(left, listed, created) ==
  /\ \/ Decidable = {} /\ run' = Idle
     \/ \E e \in Decidable : \E pc \in Decision(e) :
          /\ \A f \in Decidable : f <= e
          /\ run' = [pc |-> pc, job |-> e, flag |-> Flag(e), left |-> left,
                     listed |-> listed, created |-> created]
  /\ unseen' = FALSE
-----------------------------------------------------------------------------
(* reconcileBlockedJobExecutions: one list per transition, at most         *)
(* 3 n + 1 transitions for n executions in the first list.                 *)
SlipMaxTransitions ==  \* one for each blocked execution, none to see that it is done
  Cardinality({e \in chainBlocked \cup needsBlocked : status[e] = "queued"})

Listed == Cardinality({e \in Execs : Exists(e)})
MaxTransitions == 3 * Listed + 1

StartReconcile(w) ==
  /\ run.pc = "idle"
  /\ w \in waiting
  /\ waiting' = waiting \ {w}
  /\ ListAndDecide(MaxTransitions - 1, Listed, 0)
  /\ UNCHANGED <<rows, owed, clone, starting, faults, history>>

SlipRelistAfterChange ==  \* one transition for each call
  /\ run.pc = "again"
  /\ run' = Idle
  /\ UNCHANGED <<rows, owed, waiting, clone, starting, faults, history, unseen>>

RelistAfterChange ==
  /\ run.pc = "again"
  /\ \/ run.left > 0 /\ ListAndDecide(run.left - 1, run.listed, run.created)
     \/ run.left = 0 /\ run' = Idle /\ unseen' = TRUE  \* "did not converge"
  /\ UNCHANGED <<rows, owed, waiting, clone, starting, faults, history>>

Unflag(e, flag) ==
  /\ chainBlocked' = IF flag = "chain" THEN chainBlocked \ {e} ELSE chainBlocked
  /\ needsBlocked' = IF flag = "needs" THEN needsBlocked \ {e} ELSE needsBlocked

(* Every store call that does not find the row ends the reconciliation.    *)
Aborted == run' = Idle /\ UNCHANGED rows

ClearBlocker ==
  /\ run.pc = "clear"
  /\ \/ /\ Exists(run.job)
        /\ Unflag(run.job, run.flag)
        /\ run' = [run EXCEPT !.pc = "again"]
        /\ UNCHANGED <<specOf, status>>
     \/ ~Exists(run.job) /\ Aborted
  /\ UNCHANGED <<owed, waiting, clone, starting, faults, history, unseen>>

(* failBlockedJob: the status under the agent id of the runtime, ... *)
FailBlockedJob ==
  /\ run.pc = "fail"
  /\ LET e == run.job IN
     \/ /\ status[e] = "queued"
        /\ status' = [status EXCEPT ![e] = "failed"]
        /\ run' = [run EXCEPT !.pc = "merge"]
        /\ UNCHANGED <<specOf, chainBlocked, needsBlocked>>
     \/ status[e] \in Terminal /\ run' = [run EXCEPT !.pc = "merge"] /\ UNCHANGED rows
     \/ (~Exists(e) \/ status[e] \in {"leased", "running"}) /\ Aborted
  /\ UNCHANGED <<owed, waiting, clone, starting, faults, history, unseen>>

(* ... then the event and the metadata, which the second of the two writes *)
(* may find undone for ever if the first one fails.                        *)
FinishFailBlockedJob ==
  /\ run.pc = "merge"
  /\ \/ /\ Exists(run.job)
        /\ Unflag(run.job, run.flag)
        /\ run' = [run EXCEPT !.pc = "again"]
        /\ UNCHANGED <<specOf, status>>
     \/ ~Exists(run.job) /\ Aborted
  /\ UNCHANGED <<owed, waiting, clone, starting, faults, history, unseen>>

(* A list or a write fails: the error ends the reconciliation, and is only *)
(* logged, at the start of the server too.                                 *)
ReconcileFails ==
  /\ \/ run.pc # "idle" /\ UNCHANGED waiting
     \/ run.pc = "idle" /\ \E w \in waiting : waiting' = waiting \ {w}
  /\ run' = Idle
  /\ faults < MaxFaults /\ faults' = faults + 1
  /\ unseen' = TRUE
  /\ UNCHANGED <<rows, owed, clone, starting, history>>
-----------------------------------------------------------------------------
SlipLeasable(e) == status[e] = "queued" /\ e \notin chainBlocked

Leasable(e) == status[e] = "queued" /\ e \notin chainBlocked \cup needsBlocked

LeaseJobExecution(e) ==
  /\ ~starting
  /\ Leasable(e)
  /\ status' = [status EXCEPT ![e] = "leased"]
  /\ owed' = owed \cup {e}
  /\ UNCHANGED <<specOf, chainBlocked, needsBlocked, waiting, run, clone, starting, faults,
                 history, unseen>>

(* The lease went stale, or the secrets are not available for the moment.  *)
RequeueJobExecution(e) ==
  /\ ~starting
  /\ status[e] = "leased"
  /\ status' = [status EXCEPT ![e] = "queued"]
  /\ UNCHANGED <<specOf, chainBlocked, needsBlocked, owed, waiting, run, clone, starting,
                 faults, history, unseen>>

ReportRunning(e) ==
  /\ ~starting
  /\ e \in owed
  /\ status[e] \in Pending
  /\ status' = [status EXCEPT ![e] = "running"]
  /\ UNCHANGED <<specOf, chainBlocked, needsBlocked, owed, waiting, run, clone, starting,
                 faults, history, unseen>>

(* handleJobStatus with a terminal status; a status that is terminal       *)
(* already stays.                                                          *)
StoreEnd(e, s) ==
  /\ ~starting
  /\ e \in owed /\ Exists(e)
  /\ \/ /\ status[e] \in Active
        /\ status' = [status EXCEPT ![e] = s]
        /\ succeededOnce' = IF s = "succeeded" THEN succeededOnce \cup {specOf[e]} ELSE succeededOnce
     \/ status[e] \in Terminal /\ UNCHANGED <<status, succeededOnce>>

(* The events are stored too, and the handler calls onJobExecutionUpdated, *)
(* for a terminal execution of a pipeline or chain run whatever has        *)
(* changed.                                                                *)
ReportEnd(e, s) ==
  /\ StoreEnd(e, s)
  /\ owed' = owed \ {e}
  /\ waiting' = waiting \cup {e}
  /\ UNCHANGED <<specOf, chainBlocked, needsBlocked, run, clone, starting, faults, removed,
                 unseen>>

(* The events are not stored: the handler answers with an error, and does  *)
(* not come to onJobExecutionUpdated.  The agent may repeat its report; it *)
(* need not, for it may be gone or have repeated it often enough.          *)
ReportEndFails(e, s) ==
  /\ StoreEnd(e, s)
  /\ faults < MaxFaults /\ faults' = faults + 1
  /\ unseen' = TRUE
  /\ UNCHANGED <<specOf, chainBlocked, needsBlocked, owed, waiting, run, clone, starting, removed>>

(* The maintenance pass, which reconciles when it failed something. *)
FailTimedOutJobExecution(e) ==
  /\ ~starting
  /\ status[e] = "running"
  /\ status' = [status EXCEPT ![e] = "failed"]
  /\ waiting' = waiting \cup {Maintenance}
  /\ UNCHANGED <<specOf, chainBlocked, needsBlocked, owed, run, clone, starting, faults,
                 history, unseen>>
-----------------------------------------------------------------------------
(* Changes after which nobody reconciles. *)

(* A user cancels, or the agent of a job is deactivated.  The row gets a   *)
(* started_utc whether it had one or not.                                  *)
CancelJobExecution(e) ==
  /\ ~starting
  /\ status[e] \in Active
  /\ status' = [status EXCEPT ![e] = "failed"]
  /\ unseen' = TRUE
  /\ UNCHANGED <<specOf, chainBlocked, needsBlocked, owed, waiting, run, clone, starting,
                 faults, history>>

(* The lease handler cannot resolve the secrets of the job it has leased,  *)
(* and fails it before the agent hears of it.                              *)
FailUnresolvedSecrets(e) ==
  /\ ~starting
  /\ Leasable(e)
  /\ status' = [status EXCEPT ![e] = "failed"]
  /\ unseen' = TRUE
  /\ UNCHANGED <<specOf, chainBlocked, needsBlocked, owed, waiting, run, clone, starting,
                 faults, history>>

DeleteExecutions(S) ==
  /\ ~starting
  /\ S # {}
  /\ status' = [e \in Execs |-> IF e \in S THEN "deleted" ELSE status[e]]
  /\ chainBlocked' = chainBlocked \ S
  /\ needsBlocked' = needsBlocked \ S
  /\ removed' = removed \cup {specOf[e] : e \in S}
  /\ unseen' = TRUE
  /\ UNCHANGED <<specOf, owed, waiting, run, clone, starting, faults, succeededOnce>>

DeleteQueuedJobExecution(e) ==
  "queue" \in UserDeletes /\ status[e] \in Pending /\ DeleteExecutions({e})

ClearQueuedJobExecutions ==
  "queue" \in UserDeletes /\ DeleteExecutions({e \in Execs : status[e] \in Pending})

FlushJobExecutionHistory(S) ==
  "history" \in UserDeletes /\ S \subseteq {e \in Execs : status[e] \in Terminal} /\ DeleteExecutions(S)
-----------------------------------------------------------------------------
(* RerunJobExecution: the execution is read, its dependencies are checked  *)
(* on a list, and the clone is created, with the metadata of the first     *)
(* read.  Executions that have started may be run again, and those that    *)
(* the runtime failed for a dependency; that the few which failed unstarted*)
(* for another reason may not (artifacts, secrets) is left out.            *)
IsNext(n) == specOf[n] = 0 /\ \A e \in Execs : e < n => specOf[e] # 0

BeginRerun(e) ==
  /\ ~starting
  /\ clone.pc = "none"
  /\ \E n \in Execs : IsNext(n)
  /\ status[e] \in {"running"} \cup Terminal
  /\ clone' = [pc |-> "check", job |-> e, chain |-> e \in chainBlocked, needs |-> e \in needsBlocked]
  /\ UNCHANGED <<rows, owed, waiting, run, starting, faults, history, unseen>>

(* resolveChainJobDependencyContext: a dependency of which the chain run   *)
(* has no execution left is looked for among the other runs, which may or  *)
(* may not have it.                                                        *)
MetSomewhere(deps) ==
  \A i \in 1 .. Len(deps) : LatestAttempts(deps[i]) = {} \/ Standing(deps[i]) = "met"

(* validateRerunNeeds; and the dependencies that the pipeline declares,    *)
(* unless the project has lost the pipeline since.                         *)
CheckRerun ==
  /\ clone.pc = "check"
  /\ LET s == specOf[clone.job] IN
     \/ /\ AllMet(Needs[s])
        /\ s \in Declared => MetSomewhere(ChainDeps[s])
        /\ clone' = [clone EXCEPT !.pc = "create", !.needs = FALSE]
     \/ /\ AllMet(Needs[s])  \* the pipeline is not found
        /\ clone' = [clone EXCEPT !.pc = "create"]
     \/ clone' = NoClone     \* refused, or the artifacts cannot be bound
  /\ UNCHANGED <<rows, owed, waiting, run, starting, faults, history, unseen>>

CreateRerun ==
  /\ clone.pc = "create"
  /\ \E n \in Execs :
     /\ IsNext(n)
     /\ specOf' = [specOf EXCEPT ![n] = specOf[clone.job]]
     /\ status' = [status EXCEPT ![n] = "queued"]
     /\ chainBlocked' = IF clone.chain THEN chainBlocked \cup {n} ELSE chainBlocked
     /\ needsBlocked' = IF clone.needs THEN needsBlocked \cup {n} ELSE needsBlocked
  /\ clone' = NoClone
  /\ run' = IF run.pc = "idle" THEN run ELSE [run EXCEPT !.created = @ + 1]
  /\ unseen' = TRUE
  /\ UNCHANGED <<owed, waiting, starting, faults, history>>
-----------------------------------------------------------------------------
SlipStartupCallers == {}

StartupCallers == {Maintenance}

(* The server ends and starts again.  It reconciles before it serves.      *)
Restart ==
  /\ faults < MaxFaults
  /\ faults' = faults + 1
  /\ starting' = TRUE
  /\ waiting' = StartupCallers
  /\ run' = Idle
  /\ clone' = NoClone
  /\ UNCHANGED <<rows, owed, history, unseen>>

StartServing ==
  /\ starting
  /\ run.pc = "idle" /\ waiting = {}
  /\ starting' = FALSE
  /\ UNCHANGED <<rows, owed, waiting, run, clone, faults, history, unseen>>

Reconcile == \/ \E w \in waiting : StartReconcile(w)
             \/ RelistAfterChange
             \/ ClearBlocker
             \/ FailBlockedJob
             \/ FinishFailBlockedJob

Next ==
  \/ \E w \in waiting : StartReconcile(w)
  \/ RelistAfterChange
  \/ ClearBlocker
  \/ FailBlockedJob
  \/ FinishFailBlockedJob
  \/ ReconcileFails
  \/ \E e \in Execs : LeaseJobExecution(e)
  \/ \E e \in Execs : RequeueJobExecution(e)
  \/ \E e \in Execs : ReportRunning(e)
  \/ \E e \in Execs, s \in Terminal : ReportEnd(e, s) \/ ReportEndFails(e, s)
  \/ \E e \in Execs : FailTimedOutJobExecution(e)
  \/ \E e \in Execs : CancelJobExecution(e)
  \/ \E e \in Execs : FailUnresolvedSecrets(e)
  \/ \E e \in Execs : DeleteQueuedJobExecution(e)
  \/ ClearQueuedJobExecutions
  \/ \E S \in SUBSET Execs : FlushJobExecutionHistory(S)
  \/ \E e \in Execs : BeginRerun(e)
  \/ CheckRerun
  \/ CreateRerun
  \/ Restart
  \/ StartServing

Spec == Init /\ [][Next]_vars

(* A goroutine that waits for dependencyMu or holds it is scheduled.       *)
FairSpec == Spec /\ WF_vars(Reconcile) /\ WF_vars(StartServing)
-----------------------------------------------------------------------------
TypeOK ==
  /\ specOf \in [Execs -> 0 .. NumSpecs]
  /\ status \in [Execs -> Active \cup Terminal \cup {"absent", "deleted"}]
  /\ chainBlocked \subseteq Execs
  /\ needsBlocked \subseteq Execs
  /\ owed \subseteq Execs
  /\ waiting \subseteq Execs \cup {Maintenance}
  /\ run \in RunState
  /\ clone \in CloneState
  /\ starting \in BOOLEAN
  /\ faults \in 0 .. MaxFaults
  /\ succeededOnce \subseteq Specs
  /\ removed \subseteq Specs
  /\ unseen \in BOOLEAN

(* Every spec a group stands for succeeded in some attempt, or a user      *)
(* deleted one of its executions.                                          *)
Fulfilled(deps) ==
  \A i \in 1 .. Len(deps) : deps[i] # {} /\ deps[i] \subseteq succeededOnce \cup removed

(* An execution an agent may get, or has got, had its needs fulfilled, and *)
(* unless it is a rerun its chain dependencies too, although the decision  *)
(* is made on a list that is older than the write, among reruns, deletes   *)
(* and faults.                                                             *)
ReleasedAfterDependencies ==
  \A e \in Execs :
    status[e] \in Active =>
      /\ e \in needsBlocked \/ Fulfilled(Needs[specOf[e]])
      /\ e \in Specs /\ e \notin chainBlocked => Fulfilled(ChainDeps[e])

(* The runtime ends only executions that still wait: no execution that an  *)
(* agent may have begun is failed on the strength of an old list.          *)
CancelsOnlyWaiting ==
  run.pc = "fail" =>
    /\ status[run.job] \notin {"leased", "running"}
    /\ status[run.job] = "queued" => run.job \in chainBlocked \cup needsBlocked

(* When nobody reconciles or is about to, nothing is left to be decided,   *)
(* unless one of these came since the last list: a cancellation, a         *)
(* deletion, secrets that cannot be had, a rerun, a terminal report whose  *)
(* events could not be stored, or a reconciliation that failed or came to  *)
(* its limit.  No other report, no timeout and no restart leaves an        *)
(* execution waiting although its dependencies have ended.                 *)
NothingLeftUndecided ==
  run.pc = "idle" /\ waiting = {} /\ ~unseen => Decidable = {}

(* The bound on the transitions of a reconciliation, which is computed     *)
(* from its first list, is what ends it only if more than half as many     *)
(* reruns were created while it was under way as that list had executions. *)
Converges == run.pc = "again" /\ run.left = 0 => 2 * run.created > run.listed

(* An execution whose dependencies have ended is decided on, unless one of *)
(* the events that nobody reconciles after (see NothingLeftUndecided) came *)
(* in between.                                                             *)
DecisionsAreMade ==
  \A e \in Execs : e \in Decidable /\ ~unseen ~> e \notin Decidable \/ unseen

-----------------------------------------------------------------------------
(* What docs/pipelines.md says of chains and the comment in the code of    *)
(* the reconciliation.  The code does not keep to these.                   *)

(* "A chain pipeline stays blocked until all listed in-chain depends_on    *)
(* pipelines finish successfully": of an execution that is handed out,     *)
(* every spec of every upstream pipeline succeeded once.                   *)
ChainStaysBlocked ==
  \A e \in owed : \A i \in 1 .. Len(ChainDeps[specOf[e]]) : ChainDeps[specOf[e]][i] \subseteq succeededOnce

(* "On upstream failure, ... blocked downstream pipelines that depend on   *)
(* that failed pipeline are cancelled": an execution whose upstream has    *)
(* failed does not wait for ever.                                          *)
FailureReachesDownstream ==
  \A e \in Execs :
    (e \in chainBlocked /\ e \in Decidable /\ IsFailed(ChainDeps[specOf[e]]))
      ~> (e \notin chainBlocked \/ e \notin Decidable)
=============================================================================
