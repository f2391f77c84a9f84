------------------------------ MODULE JobStore ------------------------------
(***************************************************************************)
(* The table job_executions of the server's SQLite store and the           *)
(* operations of internal/store on it.                                     *)
(*                                                                         *)
(* The store opens one connection (SetMaxOpenConns(1)), so a statement or  *)
(* a transaction is one atomic step here.  An operation made of several    *)
(* statements is several steps: UpdateJobExecutionStatus reads the row and *)
(* writes it later, LeaseJobExecution, RequeueStaleLeasedJobExecutions,    *)
(* FailTimedOutRunningJobExecutions and FlushJobExecutionHistory list rows *)
(* first and write them later, and between two of these steps any other    *)
(* operation of any other request or of the maintenance loop may run.      *)
(*                                                                         *)
(* Jobs are numbered in the order of their ids, which are made from the    *)
(* creation time.  Times are readings of the server's clock, 0 is Go's     *)
(* zero time.  The clock is assumed not to go back.                        *)
(*                                                                         *)
(* A definition named Slip... is the next one with a plausible mistake in  *)
(* it.  Nothing uses it; it is put in the place of the correct one to see  *)
(* that a property notices.                                                *)
(***************************************************************************)
EXTENDS Naturals, FiniteSets

CONSTANTS MaxJobs,          \* bound: executions ever created
          Agents,           \* agent ids
          NoAgent,          \* the empty leased_by_agent_id
          ServerControl,    \* the agent id the server itself reports under
          Calls,            \* bound: store calls of requests in progress at once
          CanRun,           \* <<a, j>>: a's capabilities match what j requires
          Adhoc,            \* <<a, j>>: j is an ad-hoc script pinned to a
          Timeout,          \* TimeoutSeconds of each job, 0 for none
          LeaseStaleAfter,  \* jobExecutionLeaseStaleAfter
          ReaperGrace,      \* jobExecutionTimeoutReaperGrace
          RetryDelay,       \* how long a scheduling blocker lasts
          MaxTime           \* bound: readings of the clock

Jobs == 1 .. MaxJobs
Time == 0 .. MaxTime

ASSUME BoundsAssumption == MaxJobs \in Nat /\ MaxTime \in Nat \ {0}
ASSUME AgentsAssumption == NoAgent \notin Agents /\ ServerControl \notin Agents \cup {NoAgent}
ASSUME TimersAssumption == /\ LeaseStaleAfter \in Nat \ {0}
                           /\ ReaperGrace \in Nat
                           /\ RetryDelay \in Nat
                           /\ Timeout \in [Jobs -> Nat]

VARIABLES row,      \* the table, a record per job
          lastJob,  \* the jobs 1 .. lastJob were created
          granted,  \* history: the agents each job was ever leased to
          now,      \* the server's clock
          call,     \* the store calls of requests in progress
          pass      \* the maintenance pass

vars == <<row, lastJob, granted, now, call, pass>>
-----------------------------------------------------------------------------
Active   == {"queued", "leased", "running"}
Pending  == {"queued", "leased"}
Terminal == {"succeeded", "failed"}
Reported == {"running", "succeeded", "failed"}

Row == [status    : Active \cup Terminal \cup {"absent", "deleted"},
        leasedBy  : Agents \cup {NoAgent},
        leasedUTC : Time,
        created   : Time,
        started   : Time,
        finished  : Time,
        error     : {"none", "reported", "timed out"},
        deps      : {"clear", "blocked"},  \* chain_blocked or needs_blocked
        retryUTC  : Nat]       \* scheduling_blocked until then, 0 when not

AbsentRow == [status |-> "absent", leasedBy |-> NoAgent, leasedUTC |-> 0,
              created |-> 0, started |-> 0, finished |-> 0,
              error |-> "none", deps |-> "clear", retryUTC |-> 0]

Call == [pc       : {"idle", "lease", "update", "flush"},
         agent    : Agents \cup {NoAgent, ServerControl},
         job      : Nat,
         status   : Reported \cup {"none"},
         at       : Time,      \* when the row was read
         started  : Time,      \* started_utc and finished_utc of the row read
         finished : Time,
         cand     : SUBSET Jobs]

IdleCall == [pc |-> "idle", agent |-> NoAgent, job |-> 0, status |-> "none",
             at |-> 0, started |-> 0, finished |-> 0, cand |-> {}]

Pass == [pc : {"idle", "requeue", "reap"}, at : Time, cand : SUBSET Jobs]

IdlePass == [pc |-> "idle", at |-> 0, cand |-> {}]

Exists(j)     == row[j].status \in Active \cup Terminal
IsTerminal(j) == row[j].status \in Terminal
IsActive(j)   == row[j].status \in Active

Init ==
  /\ row = [j \in Jobs |-> AbsentRow]
  /\ lastJob = 0
  /\ granted = [j \in Jobs |-> {}]
  /\ now = 1
  /\ call = [c \in Calls |-> IdleCall]
  /\ pass = IdlePass
-----------------------------------------------------------------------------
(* Creation, in one transaction: all executions of a batch or none. *)
CreateJobExecutions(n, blockedJobs) ==
  LET batch == lastJob + 1 .. lastJob + n
  IN /\ n > 0
     /\ batch \subseteq Jobs
     /\ blockedJobs \subseteq batch
     /\ row' = [j \in Jobs |->
                  IF j \in batch
                  THEN [AbsentRow EXCEPT !.status = "queued", !.created = now,
                                         !.deps = IF j \in blockedJobs THEN "blocked" ELSE "clear"]
                  ELSE row[j]]
     /\ lastJob' = lastJob + n
     /\ UNCHANGED <<granted, now, call, pass>>

-----------------------------------------------------------------------------
(* LeaseJobExecution: list the queued jobs, then try them oldest first. *)
SlipLeaseCandidates(a) ==  \* the dependency blockers are not looked at
  {j \in Jobs : row[j].status = "queued" /\ row[j].retryUTC <= now /\ <<a, j>> \in CanRun}

LeaseCandidates(a) ==
  {j \in Jobs : /\ row[j].status = "queued"
                /\ row[j].deps = "clear"
                /\ row[j].retryUTC <= now
                /\ <<a, j>> \in CanRun}

BeginLease(c, a) ==
  /\ call[c].pc = "idle"
  /\ LeaseCandidates(a) # {}
  /\ call' = [call EXCEPT ![c] = [IdleCall EXCEPT !.pc = "lease", !.agent = a,
                                                  !.cand = LeaseCandidates(a)]]
  /\ UNCHANGED <<row, lastJob, granted, now, pass>>

SlipLeaseRow(j, a) ==  \* the expiry is stored, not the time of the lease
  row' = [row EXCEPT ![j].status = "leased", ![j].leasedBy = a,
                     ![j].leasedUTC = now + LeaseStaleAfter]

LeaseRow(j, a) ==
  row' = [row EXCEPT ![j].status = "leased", ![j].leasedBy = a, ![j].leasedUTC = now]

Oldest(S, j) == j \in S /\ \A k \in S : j <= k
Newest(S, j) == j \in S /\ \A k \in S : k <= j

TryLease(c) ==
  /\ call[c].pc = "lease"
  /\ \E j \in Jobs :
       /\ Oldest(call[c].cand, j)
       /\ \/ /\ row[j].status = "queued"
             /\ LeaseRow(j, call[c].agent)
             /\ granted' = [granted EXCEPT ![j] = @ \cup {call[c].agent}]
             /\ call' = [call EXCEPT ![c] = IdleCall]
          \/ /\ row[j].status # "queued"
             /\ \/ call[c].cand # {j} /\ call' = [call EXCEPT ![c].cand = @ \ {j}]
                \/ call[c].cand = {j} /\ call' = [call EXCEPT ![c] = IdleCall]
             /\ UNCHANGED <<row, granted>>
  /\ UNCHANGED <<lastJob, now, pass>>
-----------------------------------------------------------------------------
(* UpdateJobExecutionStatus: the row is read, checked, and written later.  *)
(* An agent only reports a job it was once given; the server reports under *)
(* the lease holder's id (a cancellation) or under its own.  The calls     *)
(* that return before the UPDATE (a late report about a terminal job, a    *)
(* report by an agent that does not hold the lease) change nothing.        *)
MayReport(a, s, j) ==
  \/ a \in granted[j]
  \/ a = ServerControl /\ s = "failed"

BeginUpdateJobExecutionStatus(c, a, s, j) ==
  /\ call[c].pc = "idle"
  /\ MayReport(a, s, j)
  /\ Exists(j)
  /\ IsTerminal(j) => s = row[j].status
  /\ row[j].leasedBy \in {NoAgent, a}
  /\ call' = [call EXCEPT ![c] = [IdleCall EXCEPT !.pc = "update", !.agent = a,
                                    !.job = j, !.status = s, !.at = now,
                                    !.started = row[j].started,
                                    !.finished = row[j].finished]]
  /\ UNCHANGED <<row, lastJob, granted, now, pass>>

SlipStatusRow(j, u, t) ==  \* finished_utc is the time of the read
  row' = [row EXCEPT ![j].status = u.status,
                     ![j].started = IF u.started = 0 THEN t ELSE u.started,
                     ![j].finished = IF u.status \in Terminal THEN u.at ELSE u.finished,
                     ![j].error = IF u.status = "failed" THEN "reported" ELSE "none"]

StatusRow(j, u, t) ==
  row' = [row EXCEPT ![j].status = u.status,
                     ![j].started = IF u.started = 0 THEN t ELSE u.started,
                     ![j].finished = IF u.status \in Terminal THEN t ELSE u.finished,
                     ![j].error = IF u.status = "failed" THEN "reported" ELSE "none"]

SlipOverwritable(j) == Exists(j)            \* no WHERE clause on the status


(* WHERE id = ? AND status NOT IN (succeeded, failed) *)
Overwritable(j) == Exists(j) /\ ~IsTerminal(j)

WriteJobExecutionStatus(c) ==
  /\ call[c].pc = "update"
  /\ \E t \in call[c].at .. now, j \in Jobs :
       /\ j = call[c].job
       /\ \/ Overwritable(j) /\ StatusRow(j, call[c], t)
          \/ ~Overwritable(j) /\ UNCHANGED row
  /\ call' = [call EXCEPT ![c] = IdleCall]
  /\ UNCHANGED <<lastJob, granted, now, pass>>
-----------------------------------------------------------------------------
SlipRequeuedRow(r) == [r EXCEPT !.status = "queued", !.leasedUTC = 0]  \* the holder stays

RequeuedRow(r) == [r EXCEPT !.status = "queued", !.leasedBy = NoAgent, !.leasedUTC = 0]

(* RequeueLeasedJobExecution, one transaction: the lease holder gives the  *)
(* job back with a scheduling blocker, because its secrets cannot be       *)
(* resolved for the time being.                                            *)
RequeueLeasedJobExecution(j, a) ==
  /\ row[j].status = "leased"
  /\ row[j].leasedBy = a
  /\ row' = [row EXCEPT ![j] = [RequeuedRow(@) EXCEPT !.retryUTC = now + RetryDelay]]
  /\ UNCHANGED <<lastJob, granted, now, call, pass>>

(* MergeJobExecutionMetadata, one transaction, with the two patches that   *)
(* scheduling depends on: the dependency blockers and the retry time go.   *)
ClearDependencyBlock(j) ==
  /\ Exists(j) /\ row[j].deps = "blocked"
  /\ row' = [row EXCEPT ![j].deps = "clear"]
  /\ UNCHANGED <<lastJob, granted, now, call, pass>>

ClearSchedulingBlock(j) ==
  /\ Exists(j) /\ row[j].retryUTC # 0
  /\ row' = [row EXCEPT ![j].retryUTC = 0]
  /\ UNCHANGED <<lastJob, granted, now, call, pass>>
-----------------------------------------------------------------------------
DeleteRows(S) == row' = [j \in Jobs |-> IF j \in S THEN [AbsentRow EXCEPT !.status = "deleted"]
                                                   ELSE row[j]]

DeleteQueuedJobExecution(j) ==
  /\ row[j].status \in Pending
  /\ DeleteRows({j})
  /\ UNCHANGED <<lastJob, granted, now, call, pass>>

ClearQueuedJobExecutions ==
  /\ \E j \in Jobs : row[j].status \in Pending
  /\ DeleteRows({j \in Jobs : row[j].status \in Pending})
  /\ UNCHANGED <<lastJob, granted, now, call, pass>>

(* The ids to flush are chosen from a list of the table (all of them, or   *)
(* those of an agent) or are the caller's own; the deletes follow in one   *)
(* transaction.                                                            *)
BeginFlush(c, ids) ==
  /\ call[c].pc = "idle"
  /\ ids # {}
  /\ call' = [call EXCEPT ![c] = [IdleCall EXCEPT !.pc = "flush", !.cand = ids]]
  /\ UNCHANGED <<row, lastJob, granted, now, pass>>

FlushJobExecutionHistory(c) == BeginFlush(c, {j \in Jobs : IsTerminal(j)})

FlushJobExecutionHistoryByIDs(c, ids) == BeginFlush(c, ids)

FlushJobExecutionHistoryByAgent(c, a) ==
  BeginFlush(c, {j \in Jobs : IsTerminal(j) /\ (row[j].leasedBy = a \/ <<a, j>> \in Adhoc)})

SlipFlushable(j) == Exists(j)  \* the ids are deleted without a look at the status

(* WHERE id = ? AND status NOT IN (queued, leased, running) *)
Flushable(j) == Exists(j) /\ ~IsActive(j)

FlushIDs(c) ==
  /\ call[c].pc = "flush"
  /\ DeleteRows({j \in call[c].cand : Flushable(j)})
  /\ call' = [call EXCEPT ![c] = IdleCall]
  /\ UNCHANGED <<lastJob, granted, now, pass>>
-----------------------------------------------------------------------------
(* The maintenance pass: a list, then an UPDATE per listed job, twice.     *)
StaleLeases(t) ==
  {j \in Jobs : /\ row[j].status = "leased"
                /\ row[j].leasedUTC = 0 \/ row[j].leasedUTC + LeaseStaleAfter <= t}

TimedOut(t) ==
  {j \in Jobs : /\ row[j].status = "running"
                /\ Timeout[j] > 0
                /\ row[j].started # 0
                /\ row[j].started + Timeout[j] + ReaperGrace <= t}

BeginPass ==
  /\ pass.pc = "idle"
  /\ pass' = [pc |-> "requeue", at |-> now, cand |-> StaleLeases(now)]
  /\ UNCHANGED <<row, lastJob, granted, now, call>>

(* WHERE id = ? AND status = leased: whoever holds the lease by now *)
RequeueStaleLeasedJobExecutions ==
  /\ pass.pc = "requeue"
  /\ \E j \in Jobs :
       /\ Newest(pass.cand, j)
       /\ \/ row[j].status = "leased" /\ row' = [row EXCEPT ![j] = RequeuedRow(@)]
          \/ row[j].status # "leased" /\ UNCHANGED row
       /\ pass' = [pass EXCEPT !.cand = @ \ {j}]
  /\ UNCHANGED <<lastJob, granted, now, call>>

BeginReap ==
  /\ pass.pc = "requeue"
  /\ pass.cand = {}
  /\ pass' = [pass EXCEPT !.pc = "reap", !.cand = TimedOut(pass.at)]
  /\ UNCHANGED <<row, lastJob, granted, now, call>>

FailTimedOutRunningJobExecutions ==
  /\ pass.pc = "reap"
  /\ \E j \in Jobs :
       /\ Newest(pass.cand, j)
       /\ \/ /\ row[j].status = "running"
             /\ row' = [row EXCEPT ![j].status = "failed", ![j].finished = pass.at,
                                   ![j].error = "timed out"]
          \/ row[j].status # "running" /\ UNCHANGED row
       /\ pass' = [pass EXCEPT !.cand = @ \ {j}]
  /\ UNCHANGED <<lastJob, granted, now, call>>

EndPass ==
  /\ pass.pc = "reap"
  /\ pass.cand = {}
  /\ pass' = IdlePass
  /\ UNCHANGED <<row, lastJob, granted, now, call>>
-----------------------------------------------------------------------------
Tick ==
  /\ now < MaxTime
  /\ now' = now + 1
  /\ UNCHANGED <<row, lastJob, granted, call, pass>>

(* The server process ends and starts again: what was committed is there,  *)
(* the requests in progress and the pass are gone.                         *)
Restart ==
  /\ call' = [c \in Calls |-> IdleCall]
  /\ pass' = IdlePass
  /\ UNCHANGED <<row, lastJob, granted, now>>

Next ==
  \/ \E n \in 1 .. MaxJobs : \E B \in SUBSET (lastJob + 1 .. lastJob + n) : CreateJobExecutions(n, B)
  \/ \E c \in Calls, a \in Agents : BeginLease(c, a)
  \/ \E c \in Calls : TryLease(c)
  \/ \E c \in Calls, a \in Agents \cup {ServerControl}, s \in Reported, j \in Jobs :
        BeginUpdateJobExecutionStatus(c, a, s, j)
  \/ \E c \in Calls : WriteJobExecutionStatus(c)
  \/ \E j \in Jobs, a \in Agents : RequeueLeasedJobExecution(j, a)
  \/ \E j \in Jobs : ClearDependencyBlock(j)
  \/ \E j \in Jobs : ClearSchedulingBlock(j)
  \/ \E j \in Jobs : DeleteQueuedJobExecution(j)
  \/ ClearQueuedJobExecutions
  \/ \E c \in Calls : FlushJobExecutionHistory(c)
  \/ \E c \in Calls, ids \in SUBSET (1 .. lastJob) : FlushJobExecutionHistoryByIDs(c, ids)
  \/ \E c \in Calls, a \in Agents : FlushJobExecutionHistoryByAgent(c, a)
  \/ \E c \in Calls : FlushIDs(c)
  \/ BeginPass
  \/ RequeueStaleLeasedJobExecutions
  \/ BeginReap
  \/ FailTimedOutRunningJobExecutions
  \/ EndPass
  \/ Tick
  \/ Restart

Spec == Init /\ [][Next]_vars
-----------------------------------------------------------------------------
(* The type invariant of the table and of the calls in progress. *)
TypeOK ==
  /\ row \in [Jobs -> Row]
  /\ lastJob \in 0 .. MaxJobs
  /\ granted \in [Jobs -> SUBSET Agents]
  /\ now \in Time \ {0}
  /\ call \in [Calls -> Call]
  /\ pass \in Pass

(* The columns of a row agree with its status, whatever was interleaved    *)
(* between a list or a read and the UPDATE it led to: a queued job has no  *)
(* lease left over, a leased one has a holder, started_utc is set exactly  *)
(* when the job left the queue and finished_utc exactly when it ended, and *)
(* a job that succeeded carries no error.                                  *)
RowCoherent ==
  \A j \in Jobs :
    LET r == row[j] IN
    /\ r.status \in {"absent", "deleted", "queued"} => r.leasedBy = NoAgent /\ r.leasedUTC = 0
    /\ r.status = "leased" => r.leasedBy # NoAgent /\ r.leasedUTC # 0
    /\ r.started # 0 <=> r.status \in {"running"} \cup Terminal
    /\ r.finished # 0 <=> r.status \in Terminal
    /\ r.status = "succeeded" => r.error = "none"

(* Server-side time keeping gives no impossible timeline: nothing happens  *)
(* to a job before it is created, and a job does not end before it starts. *)
(* The reaper is left out of the second part: it ends a job with the time  *)
(* at which its pass began, and a running report that read the row before  *)
(* the job started may move started_utc past that time.                    *)
TimelinePossible ==
  \A j \in Jobs :
    LET r == row[j] IN
    /\ r.leasedUTC # 0 => r.created <= r.leasedUTC
    /\ r.started # 0 => r.created <= r.started
    /\ r.finished # 0 => r.created <= r.finished
    /\ r.finished # 0 /\ r.error # "timed out" => r.started <= r.finished

(* A job with a dependency blocker is never handed out, although the       *)
(* blocker is read from a list that is older than the lease.               *)
BlockedNeverGranted ==
  \A j \in Jobs : row[j].deps = "blocked" => granted[j] = {}

(* The first terminal status wins: once a job ended, no late report, no    *)
(* cancellation, no stale list of the maintenance pass and no rescheduling *)
(* changes its outcome, its times or its holder; it can only be deleted.   *)
(* And what was deleted stays deleted: a late write of a call that read    *)
(* the row before brings nothing back.                                     *)
TerminalIsFinal ==
  [][\A j \in Jobs :
       /\ IsTerminal(j) =>
            \/ row'[j].status = "deleted"
            \/ [row'[j] EXCEPT !.deps = row[j].deps, !.retryUTC = row[j].retryUTC] = row[j]
       /\ row[j].status = "deleted" => row'[j] = row[j]]_row

(* The table implements the life of a job that the queue promises. *)
Lifecycle == INSTANCE JobLifecycle WITH status <- [j \in Jobs |-> row[j].status],
                                        owner <- [j \in Jobs |-> row[j].leasedBy]
ImplementsLifecycle == Lifecycle!Spec
=============================================================================
