------------------------------ MODULE JobViews ------------------------------
(***************************************************************************)
(* The table of executions and the registry of agents as they change, and  *)
(* what the views say about them at any time: rows and cards (JobHistory), *)
(* and why an execution waits (SchedulingDiagnosis).                       *)
(*                                                                         *)
(* Statements and handlers are taken as a whole here: their interleavings  *)
(* are the subject of JobStore, DependencyRuntime and JobDispatch.         *)
(***************************************************************************)
EXTENDS JobHistory

CONSTANTS
  Agents,
  Capabilities,  \* what an agent may find on its machine
  Worlds,        \* bound: what is done and how often, see "world"
  PageSizes,     \* bound: limits that a client asks for
  MaxJobs        \* bound: executions ever created, in any world

ASSUME BoundsAssumption == /\ PageSizes \subseteq 1 .. MaxLimit /\ None \notin Agents /\ MaxJobs \in Nat
                           /\ \A w \in Worlds : w.jobs \in 0 .. MaxJobs /\ w.events \in Nat

VARIABLES
  world,    \* orders: the lists of executions that users enqueue; jobs, events: how
            \* many; machines: what the agents find on them in the beginning
  table,    \* executions, oldest first
  created,  \* how many there have been
  agents,   \* agentState of each agent, and "own", what it finds on its machine
  events

vars == <<world, table, created, agents, events>>

Diagnosis == INSTANCE SchedulingDiagnosis

Fault == events < world.events /\ events' = events + 1
-----------------------------------------------------------------------------
Init ==
  /\ world \in Worlds
  /\ table = <<>> /\ created = 0 /\ events = 0
  /\ \E found \in world.machines :
       agents = [a \in Agents |-> [freshness |-> "online", authorized |-> TRUE, deactivated |-> FALSE,
                                   updating |-> FALSE, caps |-> found[a], own |-> found[a]]]

\* ListJobExecutions: the newest first.
List == Reverse(table)

Rows == DOMAIN table

(* An order tells run and chain relative to the first of its executions.   *)
Enqueue ==
  \E order \in world.orders :
    /\ created + Len(order) <= world.jobs
    /\ created' = created + Len(order)
    /\ table' = table \o [n \in DOMAIN order |->
         [order[n] EXCEPT !.id = created + n, !.root = created + n,
            !.run = IF @ = None THEN None ELSE created + @,
            !.chain = IF @ = None THEN None ELSE created + @]]
    /\ UNCHANGED <<world, agents, events>>

Change(n, x) == table' = [table EXCEPT ![n] = x] /\ UNCHANGED <<world, created, agents>>

(* A job of a run needs all executions of another one; a pipeline of a     *)
(* chain depends on all executions of the one before it.                   *)
DependsOn(x, y) ==
  IF x.chain # None THEN y.chain = x.chain /\ y.chainIndex + 1 = x.chainIndex
  ELSE y.run = x.run /\ y.job = x.needs

DependencyStatus(x) ==
  {y.status : y \in {y \in ToSet(LatestAttempts(List)) : x.needs # None /\ DependsOn(x, y)}}

(* The reconciliation releases what waits, or fails it; as every terminal  *)
(* report of a row without a start does, this one sets its start as well.  *)
Release(n) ==
  /\ Waits(table[n]) /\ DependencyStatus(table[n]) = {"succeeded"}
  /\ Change(n, [table[n] EXCEPT !.blocked = FALSE])
  /\ UNCHANGED events

CancelBlocked(n) ==
  /\ Waits(table[n])
  /\ "failed" \in DependencyStatus(table[n]) /\ DependencyStatus(table[n]) \cap Active = {}
  /\ Change(n, [table[n] EXCEPT !.status = "failed", !.blocked = FALSE, !.started = TRUE,
                  !.cause = [kind |-> IF table[n].chain # None THEN "upstream pipeline" ELSE "required job",
                             of |-> table[n].needs]])
  /\ UNCHANGED events
-----------------------------------------------------------------------------
\* The lease handler, with the capabilities of the registry and of the request.
HasActiveJob(a) == \E n \in Rows : table[n].holder = a /\ table[n].status \in {"leased", "running"}

MergedCapabilities(a) ==
  [k \in DOMAIN agents[a].own |->
     CASE k = "agent_id" -> a
       [] agents[a].own[k] # None -> agents[a].own[k]
       [] OTHER -> agents[a].caps[k]]

Admitted(a) ==
  agents[a].authorized /\ ~agents[a].deactivated /\ ~agents[a].updating /\ ~HasActiveJob(a)

Leasable(n, a) ==
  /\ table[n].status = "queued" /\ ~table[n].blocked
  /\ table[n].retry # "later"
  /\ Diagnosis!Matches(table[n].requires, MergedCapabilities(a))

(* The oldest that fits is leased, or goes back to the queue for a while   *)
(* when its secrets cannot be had.                                         *)
Lease(a) ==
  /\ Admitted(a)
  /\ \E n \in Rows :
       /\ Leasable(n, a) /\ \A m \in Rows : Leasable(m, a) => n <= m
       /\ \/ /\ Change(n, [table[n] EXCEPT !.status = "leased", !.holder = a, !.retry = "none"])
             /\ UNCHANGED events
          \/ /\ Change(n, [table[n] EXCEPT !.retry = "later"])
             /\ Fault

RetryComes(n) ==
  /\ table[n].retry = "later"
  /\ Change(n, [table[n] EXCEPT !.retry = "due"])
  /\ UNCHANGED events

Start(n) ==
  /\ table[n].status = "leased"
  /\ Change(n, [table[n] EXCEPT !.status = "running", !.started = TRUE])
  /\ UNCHANGED events

(* A report, the maintenance or a user's cancellation. *)
End(n, s) ==
  /\ table[n].status \in Active
  /\ s = "succeeded" => table[n].status = "running"
  /\ Change(n, [table[n] EXCEPT !.status = s, !.started = TRUE])
  /\ UNCHANGED events

(* Needs have to be fulfilled; the chains have no declared dependencies. *)
Rerun(n) ==
  /\ created < world.jobs
  /\ table[n].started \/ IsDependencyBlocked(table[n])
  /\ table[n].needs = None \/ table[n].chain # None \/ DependencyStatus(table[n]) = {"succeeded"}
  /\ created' = created + 1
  /\ table' = Append(table,
       [table[n] EXCEPT !.id = created + 1, !.status = "queued", !.holder = None, !.started = FALSE,
                        !.cause = None, !.blocked = @ /\ table[n].chain # None])
  /\ UNCHANGED <<world, agents, events>>

Discard(Gone(_)) ==
  /\ table' = SelectSeq(table, LAMBDA x : ~Gone(x))
  /\ table' # table
  /\ UNCHANGED <<world, created, agents, events>>

(* DeleteQueuedJobExecution, FlushJobExecutionHistoryByIDs of a card, and  *)
(* FlushJobExecutionHistoryByAgent: an attempt may go before its original. *)
DeleteQueued(n) == Discard(LAMBDA x : x = table[n] /\ x.status \in {"queued", "leased"})
FlushCard(card) == Discard(LAMBDA x : CardKey(x) = card /\ x.status \in Terminal)
FlushAgent(a)   == Discard(LAMBDA x : x.holder = a /\ x.status \in Terminal)
-----------------------------------------------------------------------------
\* The registry.
Set(a, s) == agents' = [agents EXCEPT ![a] = s] /\ UNCHANGED <<world, table, created>>

(* A heartbeat brings what the agent found. *)
Heartbeat(a) ==
  /\ Set(a, [agents[a] EXCEPT !.freshness = "online", !.caps = agents[a].own])
  /\ UNCHANGED events

Silence(a) ==
  /\ Fault
  /\ agents[a].freshness # "offline"
  /\ Set(a, [agents[a] EXCEPT !.freshness = IF @ = "online" THEN "stale" ELSE "offline"])

Authorize(a)  == Fault /\ Set(a, [agents[a] EXCEPT !.authorized = ~@])
Activate(a)   == Fault /\ Set(a, [agents[a] EXCEPT !.deactivated = FALSE])

(* The jobs of the agent are cancelled. *)
Deactivate(a) ==
  /\ Fault
  /\ agents' = [agents EXCEPT ![a].deactivated = TRUE]
  /\ table' = [n \in Rows |-> IF table[n].holder = a /\ table[n].status \in Active
                              THEN [table[n] EXCEPT !.status = "failed", !.started = TRUE] ELSE table[n]]
  /\ UNCHANGED <<world, created>>

Update(a)     == Fault /\ Set(a, [agents[a] EXCEPT !.updating = ~@])
RefreshTools(a) == Fault /\ \E c \in Capabilities : Set(a, [agents[a] EXCEPT !.own = c])

Next ==
  \/ Enqueue
  \/ \E n \in Rows : Release(n) \/ CancelBlocked(n) \/ RetryComes(n) \/ Start(n) \/ Rerun(n)
  \/ \E n \in Rows, s \in Terminal : End(n, s)
  \/ \E n \in Rows : DeleteQueued(n) \/ FlushCard(CardKey(table[n]))
  \/ \E a \in Agents : Lease(a) \/ FlushAgent(a) \/ Heartbeat(a) \/ Silence(a)
  \/ \E a \in Agents : Authorize(a) \/ Activate(a) \/ Deactivate(a) \/ Update(a) \/ RefreshTools(a)

(* The agents' loops, of leases and of heartbeats. *)
Fairness == \A a \in Agents : WF_vars(Lease(a)) /\ WF_vars(Heartbeat(a))

Spec == Init /\ [][Next]_vars /\ Fairness
-----------------------------------------------------------------------------
\* schedulingAgentSnapshots
Snapshots ==
  {[freshness |-> agents[a].freshness, authorized |-> agents[a].authorized,
    deactivated |-> agents[a].deactivated, updating |-> agents[a].updating, busy |-> HasActiveJob(a),
    caps |-> [agents[a].caps EXCEPT !.agent_id = a]] : a \in Agents}

(* DiagnoseQueuedJob; None where nothing is said. *)
Diagnosed(x) ==
  CASE x.retry # "none" -> IF x.status \in {"queued", "leased"} THEN "waiting" ELSE None
    [] x.retry = "none" /\ (x.status # "queued" \/ Waits(x)) -> None
    [] OTHER -> Diagnosis!Diagnose(x.requires, Snapshots)

(* The rows of a card, and those that a client reads which turns the pages *)
(* of the queue or of the history.                                         *)
RowsOf(card) ==
  FlattenSeq([s \in DOMAIN Sections(card) |->
    FlattenSeq([i \in DOMAIN Sections(card)[s].items |-> Sections(card)[s].items[i].jobs])])

Read(active, size) ==
  LET cards == Listed(List, active)
      pages == [n \in 1 .. Len(cards) |-> Page(cards, (n - 1) * size, size)]
      read == FlattenSeq(pages)
  IN  FlattenSeq([n \in DOMAIN read |-> RowsOf(read[n])])
-----------------------------------------------------------------------------
(* However attempts, sections and pages cut the table up, the latest       *)
(* attempt of each job has exactly one row, in the queue or in the         *)
(* history, and no other attempt has one; the entries of a matrix are one  *)
(* group; and a card says the same in the queue and in the history, of all *)
(* the rows that it has in the two.                                        *)
OneRowEach(size) ==
  LET queue == Read(TRUE, size)
      history == Read(FALSE, size)
  IN  \A x \in ToSet(table) :
        LET here == IF x.status \in Active THEN queue ELSE history
            there == IF x.status \in Active THEN history ELSE queue
        IN /\ Count(here, LAMBDA y : y = x) = IF x \in ToSet(LatestAttempts(List)) THEN 1 ELSE 0
           /\ x \notin ToSet(there)

MatricesAreWhole(card) ==
  \A s \in ToSet(Sections(card)) :
    /\ \A m, n \in DOMAIN s.items :
         m # n => s.items[m].key = None \/ s.items[m].key # s.items[n].key
    /\ \A i \in ToSet(s.items) : ToSet(i.jobs) \subseteq ToSet(Progress(card, s.key))

SummaryFits(card) ==
  LET sum == Summary(card)
      other == {d \in ToSet(Listed(List, TRUE) \o Listed(List, FALSE)) : d.key = card.key}
      rows == UNION {ToSet(RowsOf(d)) : d \in other}
  IN  /\ \A d \in other : Summary(d) = sum
      /\ sum.total = sum.succeeded + sum.failed + sum.waiting + sum.inProgress
      /\ sum.total = Cardinality(rows)

EveryAttemptHasItsRow ==
  /\ \A size \in PageSizes : OneRowEach(size)
  /\ \A card \in ToSet(Listed(List, TRUE) \o Listed(List, FALSE)) : MatricesAreWhole(card) /\ SummaryFits(card)

(* An execution that waits for an "eligible agent available; awaiting      *)
(* lease" is not told so for ever: what the views go by is what the lease  *)
(* handler goes by, once the agents have sent their heartbeats.            *)
ReadyIsTaken ==
  \A id \in 1 .. MaxJobs : ~<>[](\E x \in ToSet(table) : x.id = id /\ Diagnosed(x) = "ready")

(* An execution that the reconciliation cancelled names its cause, as long *)
(* as that has not been repeated (docs/api.md:79, handlers_more_test.go:   *)
(* 190): it does not, as its row has a start.  Not a property of the code. *)
CauseIsNamed ==
  \A x \in ToSet(table) :
    x.status = "failed" /\ x.cause # None /\ "failed" \in DependencyStatus(x) =>
      IsDependencyBlocked(x) /\ BlockedDependency(x, List) # None
=============================================================================
