---------------------------- MODULE AgentUpdate ----------------------------
(***************************************************************************)
(* How the server has an agent replace itself by another version: the      *)
(* heartbeat handler that requests, retries and gives up attempts, the     *)
(* lease handler that gives no job to an agent with an update pending, and *)
(* the agent's main loop, which defers an update while a job runs,         *)
(* installs it, reports a failure and exits to be started anew.            *)
(*                                                                         *)
(* The agent sends heartbeats from two places, a ticker's goroutine and    *)
(* the lease tick of the main loop; a handler whose client stopped waiting *)
(* goes on, so heartbeats are handled in any order.  The ticker's answers  *)
(* wait in a channel while the main loop installs.                         *)
(*                                                                         *)
(* Instants are reduced to what the code compares: whether the retry time  *)
(* has come and whether the grace period of an attempt is over.  The queue *)
(* never runs out of jobs.                                                 *)
(***************************************************************************)
EXTENDS Naturals, Sequences

CONSTANTS Versions, First, None,
          Known,      \* the targets a server may start with
          Events,     \* bound: which of the things below happen
          MaxEvents,  \* bound: how many of them
          MaxQueue,   \* bound: cap(heartbeatRespCh)
          Late        \* bound: handlers that nobody waits for any more

ASSUME VersionsAssumption ==
  First \in Versions /\ None \notin Versions /\ Known \subseteq Versions \cup {None}
ASSUME LateAssumption == Late \cap {"ticker", "loop"} = {}
ASSUME BoundsAssumption == MaxEvents \in Nat /\ MaxQueue \in Nat \ {0}

Targets == Versions \cup {None}
Senders == {"ticker", "loop"}
Beats   == Senders \cup Late

VARIABLES wanted,    \* update.agentTarget: the target of automatic updates
          manual,    \* agentUpdates: the target a user requested
          rec,       \* the update columns of agentState
          disk,      \* the snapshot of agentState in the store
          row,       \* the agent has a leased or running job in the table
          beat,      \* the heartbeats in progress
          queue,     \* heartbeatRespCh
          proc,      \* the agent process
          events

server == <<wanted, manual, rec, disk, row>>
vars == <<server, beat, queue, proc, events>>
-----------------------------------------------------------------------------
Record == [known     : BOOLEAN,  \* the server has heard of the agent
           version   : Versions,
           target    : Targets,
           source    : {"none", "automatic", "manual"},
           updating  : BOOLEAN,                   \* UpdateInProgress
           overdue   : BOOLEAN,  \* the grace of UpdateLastRequestUTC is over
           retry     : {"due", "later"},          \* UpdateNextRetryUTC
           failed    : BOOLEAN]                   \* UpdateLastError

Unknown == [known |-> FALSE, version |-> First, target |-> None, source |-> "none",
            updating |-> FALSE, overdue |-> TRUE, retry |-> "due", failed |-> FALSE]

NoUpdate(r) == [Unknown EXCEPT !.known = r.known, !.version = r.version]

Beat == [pc       : {"none", "sent", "answered"},
         version  : Versions,
         failure  : BOOLEAN,   \* the request's UpdateFailure
         updating : BOOLEAN,   \* the request's UpdateInProgress
         busy     : BOOLEAN,   \* hasActiveJob, read before the lock
         update   : Targets]   \* the answer's UpdateTarget if it requests one

NoBeat == [pc |-> "none", version |-> First, failure |-> FALSE, updating |-> FALSE,
           busy |-> FALSE, update |-> None]

Process == [pc        : {"select", "beating", "leasing", "admitted", "installing"},
            version   : Versions,
            job       : BOOLEAN,   \* jobInProgress
            deferred  : Targets,   \* pendingUpdate
            target    : Targets,   \* what is installed, or was and takes over
            exiting   : BOOLEAN,   \* os.Exit follows
            updating  : BOOLEAN,   \* heartbeatState.updateInProgress
            failure   : BOOLEAN]   \* heartbeatState.pendingUpdateFailure

Started(v) == [pc |-> "select", version |-> v, job |-> FALSE, deferred |-> None,
               target |-> None, exiting |-> FALSE, updating |-> FALSE, failure |-> FALSE]

Answers == [update : Targets, failure : BOOLEAN]

Init ==
  /\ wanted \in Known
  /\ manual = None
  /\ rec = Unknown
  /\ disk = Unknown
  /\ row = FALSE
  /\ beat = [k \in Beats |-> NoBeat]
  /\ queue = <<>>
  /\ proc = Started(First)
  /\ events = 0

(* An answer is lost, a hand-over fails, the agent or the server restarts, *)
(* a target is set, a user requests an update.                             *)
Event(e) ==
  /\ e \in Events \cap {"lost", "handover", "agent", "server", "target", "request"}
  /\ events < MaxEvents
  /\ events' = events + 1
-----------------------------------------------------------------------------
(* The server's heartbeat handler.                                         *)

Target == IF manual # None THEN manual ELSE wanted
Source == IF manual # None THEN "manual" ELSE "automatic"

(* A new target starts afresh, and so does a manual request for the target *)
(* of an automatic one; the first automatic attempt waits for its slot.    *)
Overrides(r) == r.target # Target \/ (r.source # Source /\ Source = "manual")

Scheduled(r) ==
  IF Overrides(r)
  THEN [r EXCEPT !.target = Target, !.source = Source, !.updating = FALSE, !.overdue = TRUE,
                 !.retry = IF Source = "automatic" THEN "later" ELSE "due", !.failed = FALSE]
  ELSE r

Noted(r, b) == [r EXCEPT !.failed = @ \/ b.failure]

(* An attempt in progress ends with the failure the agent reports, or when *)
(* its grace is over and the agent does not say that it is at it; that is  *)
(* a failed attempt unless a job keeps the agent busy.                     *)
SlipJudged(r, b) ==  \* an attempt whose request was lost is never given up
  IF r.updating /\ b.failure THEN [r EXCEPT !.updating = FALSE, !.retry = "later"] ELSE r

Judged(r, b) ==
  CASE ~r.updating -> r
    [] r.updating /\ b.failure -> [r EXCEPT !.updating = FALSE, !.retry = "later"]
    [] r.updating /\ ~b.failure /\ ~b.updating /\ r.overdue ->
         [r EXCEPT !.updating = FALSE, !.retry = IF b.busy THEN "due" ELSE "later"]
    [] OTHER -> r

Requests(r, b) == ~b.busy /\ ~r.updating /\ r.retry = "due"

Requested(r, b) ==
  IF Requests(r, b) THEN [r EXCEPT !.updating = TRUE, !.overdue = FALSE] ELSE r

NeedsUpdate(b) == Target # None /\ Target # b.version

(* A request is sent and arrives; the handler reads the table first. *)
SendBeat(k) ==
  beat' = [beat EXCEPT ![k] = [NoBeat EXCEPT !.pc = "sent", !.version = proc.version, !.busy = row,
                                             !.failure = proc.failure, !.updating = proc.updating]]

(* The record is written to the store after the mutex was released, and an *)
(* error is only logged: what is stored afterwards may be what was stored  *)
(* before, because the write failed or an earlier one came after it.       *)
HandleBeat(k) ==
  LET b == beat[k]
      judged == Judged(Noted(Scheduled(rec), b), b)
      asks == NeedsUpdate(b) /\ Requests(judged, b)
  IN /\ b.pc = "sent"
     /\ rec' = [IF NeedsUpdate(b) THEN Requested(judged, b) ELSE NoUpdate(rec)
                EXCEPT !.known = TRUE, !.version = b.version]
     /\ manual' = IF NeedsUpdate(b) THEN manual ELSE None
     /\ disk' \in {disk, rec'}
     /\ beat' = [beat EXCEPT ![k] =
                   IF k \in Late THEN NoBeat
                   ELSE [b EXCEPT !.pc = "answered", !.update = IF asks THEN Target ELSE None]]
     /\ UNCHANGED <<wanted, row, queue, proc, events>>

(* Time passes. *)
RetryTimeComes ==
  /\ rec.retry = "later"
  /\ rec' = [rec EXCEPT !.retry = "due"]
  /\ UNCHANGED <<wanted, manual, disk, row, beat, queue, proc, events>>

GraceEnds ==
  /\ ~rec.overdue
  /\ rec' = [rec EXCEPT !.overdue = TRUE]
  /\ UNCHANGED <<wanted, manual, disk, row, beat, queue, proc, events>>

SetAgentUpdateTarget(v) ==
  /\ Event("target")
  /\ wanted' = v
  /\ UNCHANGED <<manual, rec, disk, row, beat, queue, proc>>

(* A user's request forgets what is known of the attempts made so far, the *)
(* one in progress included.                                               *)
RequestAgentUpdate(v) ==
  /\ Event("request")
  /\ rec.known /\ rec.version # v
  /\ manual' = v
  /\ rec' = [rec EXCEPT !.target = v, !.source = "manual", !.updating = FALSE,
                        !.overdue = TRUE, !.retry = "due", !.failed = FALSE]
  /\ UNCHANGED <<wanted, disk, row, beat, queue, proc>>

RestartServer ==
  /\ Event("server")
  /\ rec' = disk
  /\ manual' = None
  /\ beat' = [k \in Beats |-> NoBeat]
  /\ proc' = IF proc.pc \in {"beating", "leasing", "admitted"} THEN [proc EXCEPT !.pc = "select"]
                                                               ELSE proc
  /\ UNCHANGED <<wanted, disk, row, queue>>
-----------------------------------------------------------------------------
(* The lease: the handler looks at the agent's record first. *)
UpdatePending == Target # None /\ Target # rec.version /\ ~rec.failed

SlipMayLease == rec.known /\ ~rec.updating   \* agentLeasePendingUpdateReasonLocked is gone

MayLease == rec.known /\ ~rec.updating /\ ~UpdatePending

CheckAdmission ==
  /\ proc.pc = "leasing"
  /\ proc' = [proc EXCEPT !.pc = IF MayLease /\ ~row THEN "admitted" ELSE "select"]
  /\ UNCHANGED <<server, beat, queue, events>>

LeaseJob ==
  /\ proc.pc = "admitted"
  /\ row' = TRUE
  /\ proc' = [proc EXCEPT !.pc = "select", !.job = TRUE]
  /\ UNCHANGED <<wanted, manual, rec, disk, beat, queue, events>>

(* A job whose agent is gone is requeued or reaped. *)
RecoverJob ==
  /\ row /\ ~proc.job
  /\ row' = FALSE
  /\ UNCHANGED <<wanted, manual, rec, disk, beat, queue, proc, events>>
-----------------------------------------------------------------------------
(* The agent. *)
Installing(p, v) == [p EXCEPT !.pc = "installing", !.target = v, !.deferred = None,
                              !.updating = TRUE]

RunOrDefer(p, v) ==
  CASE v = None -> p
    [] v # None /\ p.job -> [p EXCEPT !.deferred = v]
    [] OTHER -> Installing(p, v)

(* What the agent had to report was received. *)
Acked(p, failure) == IF failure THEN [p EXCEPT !.failure = FALSE] ELSE p

TickerBeat ==
  /\ beat["ticker"].pc = "none"
  /\ SendBeat("ticker")
  /\ UNCHANGED <<server, queue, proc, events>>

TickerAnswer ==
  LET b == beat["ticker"] IN
  /\ b.pc = "answered"
  /\ Len(queue) < MaxQueue
  /\ queue' = Append(queue, [update |-> b.update, failure |-> b.failure])
  /\ beat' = [beat EXCEPT !["ticker"] = NoBeat]
  /\ UNCHANGED <<server, proc, events>>

HandleHeartbeatResult ==
  /\ proc.pc = "select"
  /\ queue # <<>>
  /\ proc' = RunOrDefer(Acked(proc, Head(queue).failure), Head(queue).update)
  /\ queue' = Tail(queue)
  /\ UNCHANGED <<server, beat, events>>

FlushDeferred(p) == IF p.deferred = None THEN p ELSE Installing(p, p.deferred)

LeaseTick ==
  /\ proc.pc = "select"
  /\ ~proc.job
  /\ \/ /\ proc.deferred # None
        /\ proc' = FlushDeferred(proc)
        /\ UNCHANGED beat
     \/ /\ proc.deferred = None
        /\ proc' = [proc EXCEPT !.pc = "beating"]
        /\ SendBeat("loop")
  /\ UNCHANGED <<server, queue, events>>

LoopAnswer ==
  LET b == beat["loop"] IN
  /\ b.pc = "answered"
  /\ beat' = [beat EXCEPT !["loop"] = NoBeat]
  /\ proc' = RunOrDefer(Acked([proc EXCEPT !.pc = IF b.update = None THEN "leasing" ELSE "select"],
                              b.failure), b.update)
  /\ UNCHANGED <<server, queue, events>>

(* The client's timeout: the request was lost, or its answer, or a handler *)
(* is still at it.                                                         *)
LoseBeat(k) ==
  /\ Event("lost")
  /\ beat[k].pc # "none"
  /\ \/ beat' = [beat EXCEPT ![k] = NoBeat]
     \/ /\ beat[k].pc = "sent"
        /\ \E l \in Late : /\ beat[l].pc = "none"
                          /\ beat' = [beat EXCEPT ![k] = NoBeat, ![l] = beat[k]]
  /\ proc' = IF k = "loop" THEN [proc EXCEPT !.pc = "select"] ELSE proc
  /\ UNCHANGED <<server, queue>>

EndJob ==
  /\ proc.pc = "select"
  /\ proc.job
  /\ row' = FALSE
  /\ proc' = FlushDeferred([proc EXCEPT !.job = FALSE])
  /\ UNCHANGED <<wanted, manual, rec, disk, beat, queue, events>>

(* selfUpdateAndRestart: the new binary is handed to a helper and the      *)
(* process exits soon after, or something went wrong before.               *)
EndInstall ==
  /\ proc.pc = "installing"
  /\ \/ proc' = [proc EXCEPT !.pc = "select", !.exiting = TRUE]
     \/ proc' = [proc EXCEPT !.pc = "select", !.updating = FALSE, !.failure = TRUE]
  /\ UNCHANGED <<server, beat, queue, events>>

(* The process ends, and a new one starts: of the version handed to the    *)
(* helper, or of the old one if the helper could not replace it or if the  *)
(* process was only restarted.                                             *)
NewProcess(v) ==
  /\ proc' = Started(v)
  /\ queue' = <<>>
  /\ beat' = [k \in Beats |-> NoBeat]  \* bound: no handler outlives the process
  /\ UNCHANGED <<server>>

Exit == proc.exiting /\ NewProcess(proc.target) /\ UNCHANGED events

FailHandover == Event("handover") /\ proc.exiting /\ NewProcess(proc.version)

RestartAgent == Event("agent") /\ NewProcess(proc.version)
-----------------------------------------------------------------------------
AgentStep ==
  HandleHeartbeatResult \/ LeaseTick \/ LoopAnswer \/ EndJob \/ EndInstall

LeaseStep == CheckAdmission \/ LeaseJob

Next ==
  \/ AgentStep \/ LeaseStep
  \/ \E k \in Beats : HandleBeat(k)
  \/ TickerBeat \/ TickerAnswer
  \/ RetryTimeComes \/ GraceEnds \/ RecoverJob
  \/ Exit \/ FailHandover \/ RestartAgent \/ RestartServer
  \/ \E k \in Senders : LoseBeat(k)
  \/ \E v \in Versions : SetAgentUpdateTarget(v) \/ RequestAgentUpdate(v)

Spec == Init /\ [][Next]_vars

(* Timers fire, handlers and the agent's loops go on, select takes each of *)
(* its channels in turn, and a process that is to exit does.  Nothing is   *)
(* said of how an installation ends.                                       *)
Fairness ==
  /\ WF_vars(LoopAnswer) /\ WF_vars(EndInstall) /\ WF_vars(LeaseStep)
  /\ SF_vars(HandleHeartbeatResult) /\ SF_vars(LeaseTick) /\ SF_vars(EndJob)
  /\ \A k \in Beats : WF_vars(HandleBeat(k))
  /\ WF_vars(TickerBeat) /\ WF_vars(TickerAnswer)
  /\ WF_vars(RetryTimeComes) /\ WF_vars(GraceEnds) /\ WF_vars(RecoverJob)
  /\ WF_vars(Exit)

FairSpec == Spec /\ Fairness
-----------------------------------------------------------------------------
(* The type invariant; and the agent installs only when no job runs. *)
TypeOK ==
  /\ wanted \in Targets /\ manual \in Targets
  /\ rec \in Record /\ disk \in Record
  /\ row \in BOOLEAN
  /\ beat \in [Beats -> Beat]
  /\ queue \in Seq(Answers) /\ Len(queue) <= MaxQueue
  /\ proc \in Process /\ (proc.pc = "installing" => ~proc.job /\ proc.updating)
  /\ events \in 0 .. MaxEvents

(* The server admits no agent to a job whose process has handed over to    *)
(* another version and is about to exit, unless that version is no longer  *)
(* wanted or a failed attempt is on record: leaseJobHandler does not know  *)
(* that the process exits, it only knows what heartbeats left behind.      *)
UpdateKillsNoJob ==
  [][proc.exiting /\ proc.pc = "leasing" /\ proc'.pc = "admitted"
       => rec.failed \/ Target # proc.target]_vars

(* An agent that does not run the version that is wanted of all agents     *)
(* comes to install it, whatever answer, request or process gets lost and  *)
(* however long it is busy, unless something else is asked of it.          *)
UpdateIsTried ==
  \A v \in Versions :
    (wanted = v /\ manual = None /\ proc.version # v)
      ~> (wanted # v \/ manual # None \/ proc.version = v \/ proc.target = v)

=============================================================================
