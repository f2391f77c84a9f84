---------------------------- MODULE JobDispatch ----------------------------
(***************************************************************************)
(* The way of a job from the queue to an agent and back: the agent's lease *)
(* loop and execution (internal/agent), the server's handlers of a lease   *)
(* request and of a status report (internal/server), cancellation, the     *)
(* deactivation of an agent with its sweep over the agent's jobs, and the  *)
(* maintenance pass, over a network that loses replies and with agents     *)
(* and a server that restart.                                              *)
(*                                                                         *)
(* A handler runs concurrently with everything else: each of its           *)
(* statements on the table is a step, and what it has read may be stale    *)
(* when it writes.  An agent that no longer waits for an answer (its HTTP  *)
(* client timed out, it restarted) leaves the handler running.             *)
(*                                                                         *)
(* The rows are those of module JobStore with the columns that decide who  *)
(* executes what.  Time is not counted: an action of the maintenance pass  *)
(* that comes before its job is really abandoned (a lease older than       *)
(* 45 s on its way, a run past its timeout and still reporting) is a fault *)
(* and takes one from the bound MaxEvents, as does every lost reply, every *)
(* restart and every secret store that is not reachable.                   *)
(***************************************************************************)
EXTENDS Naturals, FiniteSets

CONSTANTS Agents, NoAgent, ServerControl,
          NumJobs,      \* bound: executions ever created
          Timed,        \* the jobs with TimeoutSeconds > 0
          MaxAttempts,  \* bound: terminalStatusMaxAttempts
          Slots,        \* bound: requests of an agent in progress
          MaxEvents     \* bound: faults (lost replies, restarts, early
                        \* maintenance, no secrets) and users' interventions
                        \* (cancellations, deletions, (de)activations)

Jobs == 1 .. NumJobs

ASSUME AgentsAssumption == NoAgent \notin Agents /\ ServerControl \notin Agents \cup {NoAgent}
ASSUME BoundsAssumption == /\ NumJobs \in Nat /\ Timed \subseteq Jobs
                           /\ MaxAttempts \in Nat \ {0}
                           /\ MaxEvents \in Nat
                           /\ Slots \subseteq Nat \ {0} /\ IsFiniteSet(Slots)

Control == <<ServerControl, 1>> \* the one user request in progress
Calls   == (Agents \X Slots) \cup {Control}

VARIABLES status, holder,  \* columns status and leased_by_agent_id
          deactivated,     \* agentState.Deactivated
          call,            \* the server's handlers in progress
          agent,           \* the agents' lease loops and executions
          events,
          raced,           \* history: jobs a report was written to after
                           \* the row had passed to another agent
          crowded          \* history: agents that once had three requests
                           \* at the server at a time

rows == <<status, holder>>
vars == <<status, holder, deactivated, call, agent, events, raced, crowded>>
-----------------------------------------------------------------------------
Active   == {"queued", "leased", "running"}
Terminal == {"succeeded", "failed"}
Statuses == Active \cup Terminal \cup {"absent", "deleted"}
Holders  == Agents \cup {NoAgent}

IdleCall == [pc |-> "idle", by |-> NoAgent, job |-> 0, report |-> "none",
             seen |-> NoAgent, todo |-> {}, sweep |-> FALSE]

Call == [pc     : {"idle", "admit", "busy", "lease", "secrets", "list", "read", "write"},
         by     : Holders \cup {ServerControl},  \* agent_id of the request
         job    : 0 .. NumJobs,
         report : {"none", "running", "succeeded", "failed"},
         seen   : Holders,       \* leased_by_agent_id of the row read
         todo   : SUBSET Jobs,   \* a deactivation: jobs to cancel after this one
         sweep  : BOOLEAN]       \* it is a deactivation

IdleAgent == [pc |-> "idle", job |-> 0, outcome |-> "none", tries |-> 0, slot |-> 0]

Agent == [pc      : {"idle", "starting", "executing", "ended"},
          job     : 0 .. NumJobs,
          outcome : Terminal \cup {"none"},
          tries   : 0 .. MaxAttempts,
          slot    : Slots \cup {0}]     \* the request waited for, 0 for none

Init ==
  /\ status = [j \in Jobs |-> "absent"]
  /\ holder = [j \in Jobs |-> NoAgent]
  /\ deactivated = [a \in Agents |-> FALSE]
  /\ call = [c \in Calls |-> IdleCall]
  /\ agent = [a \in Agents |-> IdleAgent]
  /\ events = 0
  /\ raced = {}
  /\ crowded = {}

Fault        == events < MaxEvents /\ events' = events + 1
Intervention == Fault

(* The agent that waits for call c. *)
Waiting(c) == {a \in Agents : agent[a].slot # 0 /\ c = <<a, agent[a].slot>>}
-----------------------------------------------------------------------------
(* The agent. *)

AtServer(a, k) == call[<<a, k>>].pc # "idle"

(* The agent's next request takes a slot and is waited for. *)
Send(a, request) ==
  /\ agent[a].slot = 0
  /\ \E k \in Slots :
       /\ call[<<a, k>>].pc = "idle"
       /\ \A l \in Slots : call[<<a, l>>].pc = "idle" => k <= l
       /\ call' = [call EXCEPT ![<<a, k>>] = request]
       /\ agent' = [agent EXCEPT ![a].slot = k]
  /\ crowded' = IF \E k, l \in Slots : k # l /\ AtServer(a, k) /\ AtServer(a, l)
                THEN crowded \cup {a} ELSE crowded

Report(a, s) == [IdleCall EXCEPT !.pc = "read", !.by = a, !.job = agent[a].job, !.report = s]

RequestLease(a) ==
  /\ agent[a].pc = "idle"
  /\ Send(a, [IdleCall EXCEPT !.pc = "admit", !.by = a])
  /\ UNCHANGED <<rows, deactivated, events, raced>>

ReportStart(a) ==
  /\ agent[a].pc = "starting"
  /\ Send(a, Report(a, "running"))
  /\ UNCHANGED <<rows, deactivated, events, raced>>

ReportPhase(a) ==  \* a phase, a step, or the output of a running script
  /\ agent[a].pc = "executing"
  /\ Send(a, Report(a, "running"))
  /\ UNCHANGED <<rows, deactivated, events, raced>>

ReportEnd(a) ==
  /\ agent[a].pc = "ended"
  /\ Send(a, Report(a, agent[a].outcome))
  /\ UNCHANGED <<rows, deactivated, events, raced>>

(* The scripts end, in time or not at all; a timeout ends them. *)
EndScript(a) ==
  /\ agent[a].pc = "executing" /\ agent[a].slot = 0
  /\ \E o \in Terminal : agent' = [agent EXCEPT ![a].pc = "ended", ![a].outcome = o]
  /\ UNCHANGED <<rows, deactivated, call, events, raced, crowded>>

TimeOutScript(a) ==
  /\ agent[a].pc = "executing" /\ agent[a].slot = 0
  /\ agent[a].job \in Timed
  /\ agent' = [agent EXCEPT ![a].pc = "ended", ![a].outcome = "failed"]
  /\ UNCHANGED <<rows, deactivated, call, events, raced, crowded>>

SlipNoticed(j) == status[j] = "succeeded"  \* a cancelled job is not noticed

(* What the monitor takes for the end of the job: a row that is gone is an *)
(* error of the request, which it ignores.                                 *)
Noticed(j) == status[j] \in Terminal

NoticeServerTerminal(a) ==
  /\ agent[a].pc = "executing" /\ agent[a].slot = 0
  /\ Noticed(agent[a].job)
  /\ agent' = [agent EXCEPT ![a].pc = "ended", ![a].outcome = "failed"]
  /\ UNCHANGED <<rows, deactivated, call, events, raced, crowded>>

(* What becomes of an agent whose request failed: no lease; a start or a   *)
(* phase that is not recorded abandons the job, without a final report; a  *)
(* step's end and the stream of output are not insisted on; the final      *)
(* report is tried MaxAttempts times.                                      *)
AfterFailure(g) ==
  CASE g.pc = "executing" -> {IdleAgent, [g EXCEPT !.slot = 0]}
    [] g.pc = "ended" /\ g.tries + 1 < MaxAttempts -> {[g EXCEPT !.slot = 0, !.tries = @ + 1]}
    [] OTHER -> {IdleAgent}

(* ... and of one whose report was accepted. *)
AfterAcceptance(g) ==
  CASE g.pc = "starting" -> {[g EXCEPT !.pc = "executing", !.slot = 0]}
    [] g.pc = "executing" -> {[g EXCEPT !.slot = 0]}
    [] OTHER -> {IdleAgent}

(* The answer is lost, or comes after the client's timeout. *)
LoseAnswer(a) ==
  /\ Fault
  /\ agent[a].slot # 0
  /\ \E g \in AfterFailure(agent[a]) : agent' = [agent EXCEPT ![a] = g]
  /\ UNCHANGED <<rows, deactivated, call, raced, crowded>>

RestartAgent(a) ==
  /\ Fault
  /\ agent[a] # IdleAgent
  /\ agent' = [agent EXCEPT ![a] = IdleAgent]
  /\ UNCHANGED <<rows, deactivated, call, raced, crowded>>
-----------------------------------------------------------------------------
(* The server's handlers.  Each ends with an answer to the agent that      *)
(* waits for it, if one still does.                                        *)
Answer(c, Effect(_)) ==
  /\ call' = [call EXCEPT ![c] = IdleCall]
  /\ \/ Waiting(c) = {} /\ UNCHANGED agent
     \/ \E a \in Waiting(c) : \E g \in Effect(agent[a]) : agent' = [agent EXCEPT ![a] = g]

NotAssigned(g) == {IdleAgent}

CheckAdmission(c) ==
  /\ call[c].pc = "admit"
  /\ \/ deactivated[call[c].by] /\ Answer(c, NotAssigned)
     \/ ~deactivated[call[c].by] /\ call' = [call EXCEPT ![c].pc = "busy"] /\ UNCHANGED agent
  /\ UNCHANGED <<rows, deactivated, events, raced, crowded>>

SlipHasAnyJob(a) == \E j \in Jobs : holder[j] = a  \* jobs that ended count, too

SlipHasActiveJob(a) == \E j \in Jobs : holder[j] = a /\ status[j] = "running"

HasActiveJob(a) == \E j \in Jobs : holder[j] = a /\ status[j] \in {"leased", "running"}

CheckNoActiveJob(c) ==
  /\ call[c].pc = "busy"
  /\ \/ HasActiveJob(call[c].by) /\ Answer(c, NotAssigned)
     \/ ~HasActiveJob(call[c].by) /\ call' = [call EXCEPT ![c].pc = "lease"] /\ UNCHANGED agent
  /\ UNCHANGED <<rows, deactivated, events, raced, crowded>>

Queued == {j \in Jobs : status[j] = "queued"}

LeaseJob(c) ==
  /\ call[c].pc = "lease"
  /\ \/ Queued = {} /\ Answer(c, NotAssigned) /\ UNCHANGED rows
     \/ \E j \in Queued :
          /\ \A k \in Queued : j <= k
          /\ status' = [status EXCEPT ![j] = "leased"]
          /\ holder' = [holder EXCEPT ![j] = call[c].by]
          /\ call' = [call EXCEPT ![c].pc = "secrets", ![c].job = j]
          /\ UNCHANGED agent
  /\ UNCHANGED <<deactivated, events, raced, crowded>>

(* The job goes out. *)
ResolveSecrets(c) ==
  LET Assigned(g) == {[g EXCEPT !.pc = "starting", !.job = call[c].job, !.slot = 0]}
  IN /\ call[c].pc = "secrets"
     /\ Answer(c, Assigned)
     /\ UNCHANGED <<rows, deactivated, events, raced, crowded>>

Requeue(j) ==
  /\ status' = [status EXCEPT ![j] = "queued"]
  /\ holder' = [holder EXCEPT ![j] = NoAgent]

(* The secret store does not answer: the job goes back if the lease is     *)
(* still the agent's, else the request fails.                              *)
SecretsUnavailable(c) ==
  /\ Fault
  /\ call[c].pc = "secrets"
  /\ LET j == call[c].job IN
     \/ status[j] = "leased" /\ holder[j] = call[c].by /\ Requeue(j)
     \/ ~(status[j] = "leased" /\ holder[j] = call[c].by) /\ UNCHANGED rows
  /\ Answer(c, NotAssigned)
  /\ UNCHANGED <<deactivated, raced, crowded>>

SecretsMissing(c) ==
  /\ Fault
  /\ call[c].pc = "secrets"
  /\ call' = [call EXCEPT ![c].pc = "read", ![c].report = "failed"]
  /\ UNCHANGED <<rows, deactivated, agent, raced, crowded>>

(* A deactivation goes on with the next job it listed, or it ended: then   *)
(* it stores the agent's record as it was at its beginning, whoever has    *)
(* activated the agent in between.                                         *)
NextOfSweep(c) ==
  IF call[c].todo = {} THEN {IdleCall}
  ELSE {[call[c] EXCEPT !.pc = "read", !.job = j, !.todo = @ \ {j}, !.seen = NoAgent]
          : j \in call[c].todo}

StoresAgent(c) == call[c].sweep /\ call[c].todo = {}

(* The end of UpdateJobExecutionStatus: for the handler of a report, of a  *)
(* failed secret resolution, of a cancellation or of a deactivation.       *)
Accept(c) ==
  IF c = Control
  THEN /\ \E n \in NextOfSweep(c) : call' = [call EXCEPT ![c] = n]
       /\ deactivated' = IF StoresAgent(c) THEN [deactivated EXCEPT ![call[c].by] = TRUE] ELSE deactivated
       /\ UNCHANGED agent
  ELSE Answer(c, AfterAcceptance) /\ UNCHANGED deactivated

Reject(c) == Answer(c, AfterFailure) /\ UNCHANGED deactivated

Late(c) ==  \* a report about a job that ended otherwise is accepted and ignored
  /\ status[call[c].job] \in Terminal
  /\ call[c].report # status[call[c].job]

SlipForeign(c) == FALSE                    \* the holder is not compared

Foreign(c) == holder[call[c].job] \notin {NoAgent, call[c].by}

ReadRow(c) ==
  /\ call[c].pc = "read"
  /\ \/ status[call[c].job] = "deleted" /\ Reject(c)
     \/ status[call[c].job] # "deleted" /\ Late(c) /\ Accept(c)
     \/ status[call[c].job] # "deleted" /\ ~Late(c) /\ Foreign(c) /\ Reject(c)
     \/ /\ status[call[c].job] # "deleted" /\ ~Late(c) /\ ~Foreign(c)
        /\ call' = [call EXCEPT ![c].pc = "write", ![c].seen = holder[call[c].job]]
        /\ UNCHANGED <<agent, deactivated>>
  /\ UNCHANGED <<rows, events, raced, crowded>>

SlipWritable(j) == status[j] # "deleted"   \* the terminal status is not sticky

Writable(j) == status[j] \in Active

WriteRow(c) ==
  /\ call[c].pc = "write"
  /\ LET j == call[c].job IN
     /\ \/ /\ Writable(j)
           /\ status' = [status EXCEPT ![j] = call[c].report]
           /\ raced' = IF holder[j] = call[c].seen THEN raced ELSE raced \cup {j}
        \/ ~Writable(j) /\ UNCHANGED <<status, raced>>
     /\ \/ status[j] = "deleted" /\ Reject(c)   \* the row is read again
        \/ status[j] # "deleted" /\ Accept(c)
  /\ UNCHANGED <<holder, events, crowded>>
-----------------------------------------------------------------------------
(* The users. *)
Enqueue(j) ==
  /\ status[j] = "absent"
  /\ \A k \in Jobs : k < j => status[k] # "absent"
  /\ status' = [status EXCEPT ![j] = "queued"]
  /\ UNCHANGED <<holder, deactivated, call, agent, events, raced, crowded>>

(* CancelJobExecution reads the row, and reports a failure in the name of  *)
(* the agent that held it then.                                            *)
Cancel(j) ==
  /\ Intervention
  /\ call[Control].pc = "idle"
  /\ status[j] \in Active
  /\ call' = [call EXCEPT ![Control] =
       [IdleCall EXCEPT !.pc = "read", !.job = j, !.report = "failed",
                        !.by = IF holder[j] = NoAgent THEN ServerControl ELSE holder[j]]]
  /\ UNCHANGED <<rows, deactivated, agent, raced, crowded>>

Deactivate(a) ==
  /\ Intervention
  /\ call[Control].pc = "idle"
  /\ deactivated' = [deactivated EXCEPT ![a] = TRUE]
  /\ call' = [call EXCEPT ![Control] = [IdleCall EXCEPT !.pc = "list", !.by = a,
                                                        !.report = "failed", !.sweep = TRUE]]
  /\ UNCHANGED <<rows, agent, raced, crowded>>

ListJobsOfAgent ==
  /\ call[Control].pc = "list"
  /\ LET mine == {j \in Jobs : holder[j] = call[Control].by /\ status[j] \in Active}
     IN \/ mine = {} /\ call' = [call EXCEPT ![Control] = IdleCall]
        \/ \E j \in mine : call' = [call EXCEPT ![Control].pc = "read", ![Control].job = j,
                                               ![Control].todo = mine \ {j}]
  /\ UNCHANGED <<rows, deactivated, agent, events, raced, crowded>>

Activate(a) ==
  /\ Intervention
  /\ deactivated[a]
  /\ deactivated' = [deactivated EXCEPT ![a] = FALSE]
  /\ UNCHANGED <<rows, call, agent, raced, crowded>>

(* A queued job is deleted, or one that ended is flushed from the history. *)
Delete(j) ==
  /\ Intervention
  /\ status[j] \in {"queued", "leased"} \cup Terminal
  /\ status' = [status EXCEPT ![j] = "deleted"]
  /\ holder' = [holder EXCEPT ![j] = NoAgent]
  /\ UNCHANGED <<deactivated, call, agent, raced, crowded>>
-----------------------------------------------------------------------------
(* The maintenance pass, a row at a time. *)
OnItsWay(j) ==
  \/ \E c \in Calls : call[c].pc = "secrets" /\ call[c].job = j
  \/ \E c \in Calls : call[c].pc \in {"read", "write"} /\ call[c].job = j
  \/ \E a \in Agents : agent[a].pc = "starting" /\ agent[a].job = j

Executing(a, j) == agent[a].pc \in {"executing", "ended"} /\ agent[a].job = j

Executed(j) == OnItsWay(j) \/ \E a \in Agents : Executing(a, j)

RequeueStale(j) ==
  /\ status[j] = "leased"
  /\ \/ OnItsWay(j) /\ Fault
     \/ ~OnItsWay(j) /\ UNCHANGED events
  /\ Requeue(j)
  /\ UNCHANGED <<deactivated, call, agent, raced, crowded>>

Reapable == {j \in Timed : status[j] = "running"}

Reap(j) ==
  /\ j \in Reapable
  /\ \/ Executed(j) /\ Fault
     \/ ~Executed(j) /\ UNCHANGED events
  /\ status' = [status EXCEPT ![j] = "failed"]
  /\ UNCHANGED <<holder, deactivated, call, agent, raced, crowded>>

(* The process ends: the handlers are gone, and the agents' requests with  *)
(* them.  The table and the activation of the agents are on disk.          *)
RestartServer ==
  /\ Fault
  /\ \E c \in Calls : call[c].pc # "idle"
  /\ call' = [c \in Calls |-> IdleCall]
  /\ LET After(a) == IF agent[a].slot = 0 THEN {agent[a]} ELSE AfterFailure(agent[a])
     IN agent' \in {f \in [Agents -> UNION {After(a) : a \in Agents}] :
                      \A a \in Agents : f[a] \in After(a)}
  /\ UNCHANGED <<rows, deactivated, raced, crowded>>
-----------------------------------------------------------------------------
(* What keeps happening: the agents' loops, the handlers, and the part of  *)
(* the maintenance that is not early.  Scripts need not end; a phase need  *)
(* not come.  The timeout and the monitor end a script even while a report *)
(* is on its way, which here they do between two reports: strong fairness. *)
AgentStep(a) == RequestLease(a) \/ ReportStart(a) \/ ReportEnd(a)

StopScript(a) == TimeOutScript(a) \/ NoticeServerTerminal(a)

HandlerStep(c) ==
  \/ CheckAdmission(c) \/ CheckNoActiveJob(c) \/ LeaseJob(c) \/ ResolveSecrets(c)
  \/ ReadRow(c) \/ WriteRow(c)

Maintain(j) ==
  \/ ~OnItsWay(j) /\ RequeueStale(j)
  \/ ~Executed(j) /\ Reap(j)

Next ==
  \/ \E a \in Agents : AgentStep(a) \/ StopScript(a)
  \/ \E a \in Agents : ReportPhase(a) \/ EndScript(a) \/ LoseAnswer(a) \/ RestartAgent(a)
  \/ \E c \in Calls : HandlerStep(c)
  \/ \E c \in Calls : SecretsUnavailable(c) \/ SecretsMissing(c)
  \/ ListJobsOfAgent
  \/ \E j \in Jobs : Enqueue(j) \/ Cancel(j) \/ Delete(j)
  \/ \E a \in Agents : Deactivate(a) \/ Activate(a)
  \/ \E j \in Jobs : RequeueStale(j) \/ Reap(j)
  \/ RestartServer

Spec == Init /\ [][Next]_vars

Fairness ==
  /\ \A a \in Agents : WF_vars(AgentStep(a)) /\ SF_vars(StopScript(a))
  /\ \A c \in Calls : WF_vars(HandlerStep(c))
  /\ WF_vars(ListJobsOfAgent)
  /\ \A j \in Jobs : WF_vars(Maintain(j))

FairSpec == Spec /\ Fairness
-----------------------------------------------------------------------------
(* The type invariant. *)
TypeOK ==
  /\ status \in [Jobs -> Statuses]
  /\ holder \in [Jobs -> Holders]
  /\ deactivated \in [Agents -> BOOLEAN]
  /\ call \in [Calls -> Call]
  /\ agent \in [Agents -> Agent]
  /\ events \in 0 .. MaxEvents
  /\ raced \subseteq Jobs

(* Whoever executes a job that has not ended has it recorded as running    *)
(* and under its name, although leases are taken back from agents that may *)
(* still start the job.  There are two ways to a second executor: the gap  *)
(* of UpdateJobExecutionStatus between its read and its write (a start     *)
(* that was read while the agent held the lease and is written when        *)
(* another agent does), and a start whose lease was taken back, which      *)
(* sets a row running that nobody holds and anybody may report about.      *)
ExecutorHoldsLease ==
  \A j \in Jobs \ raced, a \in Agents :
    Executing(a, j) /\ status[j] \in Active =>
      status[j] = "running" /\ holder[j] \in {a, NoAgent}

(* The server's check for an active job of the agent is not atomic with    *)
(* the lease, and a request the agent gave up may still lease a job for    *)
(* it; but until three requests of an agent were at the server at a time,  *)
(* at most one of the jobs it holds is running, save for one that another  *)
(* agent's late report set running.  Three are too many: a start read      *)
(* under one lease is written under the next of the same agent, while the  *)
(* third request, admitted in between, leases and starts another job.      *)
OneRunningPerAgent ==
  \A a \in Agents \ crowded :
    Cardinality({j \in Jobs \ raced : status[j] = "running" /\ holder[j] = a}) <= 1

(* Handlers, agents, users and maintenance together drive every job        *)
(* through the life the queue promises.                                    *)
Lifecycle == INSTANCE JobLifecycle WITH owner <- holder
ImplementsLifecycle == Lifecycle!Spec

(* A queued job does not stay queued for ever, whatever answers were lost  *)
(* and whoever restarted, unless no agent may take it: each is deactivated *)
(* or has, or is thought to have, a job without a timeout.                 *)
Unavailable(a) ==
  \/ deactivated[a]
  \/ \E j \in Jobs \ Timed : Executing(a, j) \/ (holder[j] = a /\ status[j] = "running")

QueuedWorkIsTaken ==
  \A j \in Jobs : (status[j] = "queued") ~> (status[j] # "queued" \/ \A a \in Agents : Unavailable(a))

(* A job that the server ends (cancelled, swept, reaped) does not go on    *)
(* for ever on its agent, even if its script would, unless its row is      *)
(* flushed before the agent's monitor sees it.                             *)
CancelledStops ==
  \A j \in Jobs, a \in Agents :
    (status[j] \in Terminal /\ Executing(a, j)) ~> (status[j] = "deleted" \/ ~Executing(a, j))
=============================================================================
