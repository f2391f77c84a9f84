----------------------------- MODULE JobOutput -----------------------------
(***************************************************************************)
(* The output of one job on its way from the script to the viewers: the    *)
(* agent's buffer and its reports, the server's handler of a report, the   *)
(* table of events, the hub that broadcasts changes, and the streams that  *)
(* page through the table from a cursor.                                   *)
(*                                                                         *)
(* Processes: the job's goroutines on the agent, of which one reports at a *)
(* time; the handlers of the server, each a process of its own that goes   *)
(* on when its client has gone; one stream for each viewer.  Output is     *)
(* counted in pieces, and an event covers the pieces after from up to to.  *)
(*                                                                         *)
(* A definition named Slip... is the next one with a plausible mistake in  *)
(* it, put in its place to see that a property notices.                    *)
(***************************************************************************)
EXTENDS Naturals, Sequences, FiniteSets

CONSTANTS Viewers,
          Slots,        \* handlers that run at a time on the server
          PageSize,     \* events in a page of the table
          Attempts,     \* attempts to deliver the last report
          None,
          MaxOutput,    \* bound: pieces of output
          MaxReports,   \* bound: reports with a new timestamp
          Faults, MaxFaults   \* bound: what may go wrong, and how often in all

ASSUME OutputAssumption ==
  /\ PageSize \in Nat \ {0} /\ Attempts \in Nat \ {0}
  /\ MaxOutput \in Nat /\ MaxReports \in Nat /\ MaxFaults \in Nat
  /\ None \notin [from : Nat, to : Nat, complete : BOOLEAN]

VARIABLES raw,        \* pieces in the agent's buffer
          sent,       \* pieces the agent has marked as sent
          stamp,      \* timestamp of the last report
          report,     \* the report the agent waits for, or None
          agent,      \* "runs", "done" (the end is acknowledged) or "gone"
          cancelled,  \* TRUE when the context of the run has ended
          row,        \* the job's row: "running" or "ended"
          log,        \* its events, in the order of their ids
          handler,    \* of each slot: the call being served, or None
          inbox,      \* of each viewer: the subscription's channel, of capacity 1
          stream,     \* of each viewer: the server's end
          wire,       \* of each viewer: the page under way, or None
          got, last,  \* of each viewer: events received; the id it would resume after
          ended,      \* of each viewer: TRUE when it was told that this is all,
                      \* or that the stream has failed
          faults,
          cut         \* history: the pieces of snapshots that ended by a deadline
                      \* or with the run's context, and are marked all the same

job     == <<raw, sent, stamp, report, agent, cancelled>>
table   == <<row, log>>
viewing == <<inbox, stream, wire, got, last, ended>>
vars    == <<job, table, handler, viewing, faults, cut>>

Off == [pc |-> "off", cursor |-> 0, terminal |-> FALSE]

Init ==
  /\ raw = 0 /\ sent = 0 /\ stamp = 0 /\ report = None
  /\ agent = "runs" /\ cancelled = FALSE
  /\ row = "running" /\ log = <<>>
  /\ handler = [s \in Slots |-> None]
  /\ inbox = [v \in Viewers |-> None]
  /\ stream = [v \in Viewers |-> Off]
  /\ wire = [v \in Viewers |-> None]
  /\ got = [v \in Viewers |-> <<>>]
  /\ last = [v \in Viewers |-> 0]
  /\ ended = [v \in Viewers |-> FALSE]
  /\ faults = 0
  /\ cut = {}

Fails(what) == what \in Faults /\ faults < MaxFaults /\ faults' = faults + 1
-----------------------------------------------------------------------------
(* The agent.  The script, and the agent itself, write to the buffer. *)
Write ==
  /\ agent = "runs" /\ raw < MaxOutput
  /\ raw' = raw + 1
  /\ UNCHANGED <<sent, stamp, report, agent, cancelled, table, handler, viewing, faults, cut>>

(* A report of a running job (a snapshot of the ticker, or the start or    *)
(* end of a phase or step) and the last one carry the pieces not yet       *)
(* marked, as one event with the time of its making.                       *)
Post(kind, r) ==
  \E s \in Slots :
    /\ handler[s] = None
    /\ handler' = [handler EXCEPT ![s] =
         [by |-> "agent", step |-> "arrives", terminal |-> kind = "last",
          ev |-> r.ev, from |-> r.from, to |-> r.to]]
    /\ report' = [kind |-> kind, ev |-> r.ev, from |-> r.from, to |-> r.to,
                  slot |-> s, tries |-> r.tries, answer |-> "waits"]

Report(kind) ==
  /\ agent = "runs" /\ report = None /\ stamp < MaxReports
  /\ kind = "snapshot" => raw > sent /\ ~cancelled
  /\ stamp' = stamp + 1
  /\ Post(kind, [ev |-> stamp + 1, from |-> sent, to |-> raw, tries |-> 1])
  /\ UNCHANGED <<raw, sent, agent, cancelled, table, viewing, faults, cut>>

(* The ticker and the end of the run's context may be ready together; the  *)
(* request is then refused before it leaves, as one that was interrupted.  *)
SnapshotTooLate ==
  /\ agent = "runs" /\ report = None /\ cancelled /\ raw > sent
  /\ sent' = raw
  /\ cut' = cut \union (sent + 1 .. raw)
  /\ UNCHANGED <<raw, stamp, report, agent, cancelled, table, handler, viewing, faults>>

(* The pieces marked when a report ends in this way. *)
SlipMarked(how) == report.to
Marked(how) == IF how = "ok" THEN report.to ELSE sent

(* A phase that cannot be reported ends the job's goroutine without a last *)
(* report; the last report is repeated as it is.                           *)
ReportEnds(how) ==
  /\ report # None /\ report.answer = how
  /\ sent' = Marked(how)
  /\ IF how = "error" /\ report.kind = "last" /\ report.tries < Attempts
       THEN Post("last", [report EXCEPT !.tries = @ + 1]) /\ agent' = agent
       ELSE /\ report' = None
            /\ agent' = CASE how = "error" /\ report.kind # "snapshot" -> "gone"
                          [] how = "ok" /\ report.kind = "last" -> "done"
                          [] OTHER -> agent
            /\ UNCHANGED handler
  /\ UNCHANGED <<raw, stamp, cancelled, table, viewing, faults, cut>>

(* A snapshot ends with the run's context, or by the timeout of the HTTP   *)
(* client, which is an exceeded deadline too: both count as if it had been *)
(* delivered.  The request may have arrived, and may be answered later.    *)
Interrupted ==
  /\ report # None /\ report.kind = "snapshot"
  /\ IF cancelled THEN UNCHANGED faults ELSE Fails("deadline")
  /\ sent' = report.to
  /\ cut' = cut \union (report.from + 1 .. report.to)
  /\ report' = None
  /\ \/ UNCHANGED handler
     \/ /\ report.answer = "waits" /\ handler[report.slot].step = "arrives"
        /\ handler' = [handler EXCEPT ![report.slot] = None]
  /\ UNCHANGED <<raw, stamp, agent, cancelled, table, viewing>>

(* The run's time is over, or the monitor reads that the row has ended. *)
CancelRun ==
  /\ agent = "runs" /\ ~cancelled
  /\ IF row = "ended" THEN UNCHANGED faults ELSE Fails("timeout")
  /\ cancelled' = TRUE
  /\ UNCHANGED <<raw, sent, stamp, report, agent, table, handler, viewing, cut>>

(* The connection of a report breaks; the request may have arrived. *)
BreakReport ==
  /\ report # None /\ report.answer = "waits"
  /\ Fails("lost")
  /\ report' = [report EXCEPT !.answer = "error"]
  /\ \/ UNCHANGED handler
     \/ /\ handler[report.slot].step = "arrives"
        /\ handler' = [handler EXCEPT ![report.slot] = None]
  /\ UNCHANGED <<raw, sent, stamp, agent, cancelled, table, viewing, cut>>
-----------------------------------------------------------------------------
(* The hub.  A publisher never waits: a channel that is full is emptied    *)
(* and gets a marker that asks its reader to read everything again.        *)
SlipBroadcast(change) ==
  inbox' = [v \in Viewers |-> IF inbox[v] = "empty" THEN change ELSE inbox[v]]
Broadcast(change) ==
  inbox' = [v \in Viewers |-> CASE inbox[v] = None -> None
                                [] inbox[v] = "empty" -> change
                                [] OTHER -> "resync"]

(* A change of another job, an agent, a project. *)
OtherChange ==
  /\ Broadcast("other")
  /\ inbox' # inbox
  /\ UNCHANGED <<job, table, handler, stream, wire, got, last, ended, faults, cut>>
-----------------------------------------------------------------------------
(* The server.  A handler writes the row, then, in a transaction of its    *)
(* own, the events, and then tells the hub.  The first end of a job wins.  *)
Update(s) ==
  /\ handler[s] # None /\ handler[s].step = "arrives"
  /\ row' = IF handler[s].terminal THEN "ended" ELSE row
  /\ handler' = [handler EXCEPT ![s].step = "append"]
  /\ UNCHANGED <<job, log, viewing, faults, cut>>

(* An event that is there already, with its time and text, is left out. *)
SlipAppendEvent(h) ==
  IF h.from < h.to
    THEN Append(log, [by |-> h.by, ev |-> h.ev, from |-> h.from, to |-> h.to]) ELSE log
AppendEvent(h) ==
  IF h.from < h.to /\ \A i \in 1 .. Len(log) : log[i].ev # h.ev
    THEN Append(log, [by |-> h.by, ev |-> h.ev, from |-> h.from, to |-> h.to]) ELSE log

AppendEvents(s) ==
  /\ handler[s] # None /\ handler[s].step = "append"
  /\ log' = AppendEvent(handler[s])
  /\ handler' = [handler EXCEPT ![s].step = "publish"]
  /\ UNCHANGED <<job, row, viewing, faults, cut>>

Answered(s, answer) ==
  IF report # None /\ report.slot = s /\ report.answer = "waits" /\ handler[s].by = "agent"
     /\ report.ev = handler[s].ev
    THEN report' = [report EXCEPT !.answer = answer] ELSE UNCHANGED report

AppendFails(s) ==
  /\ handler[s] # None /\ handler[s].step = "append"
  /\ Fails("append")
  /\ Answered(s, "error")
  /\ handler' = [handler EXCEPT ![s] = None]
  /\ UNCHANGED <<raw, sent, stamp, agent, cancelled, table, viewing, cut>>

(* The maintenance pass and the resolution of blocked jobs tell nobody. *)
Publish(s) ==
  /\ handler[s] # None /\ handler[s].step = "publish"
  /\ IF handler[s].by = "maintenance" THEN UNCHANGED inbox ELSE Broadcast("job")
  /\ Answered(s, "ok")
  /\ handler' = [handler EXCEPT ![s] = None]
  /\ UNCHANGED <<raw, sent, stamp, agent, cancelled, table,
                 stream, wire, got, last, ended, faults, cut>>

(* A user cancels the job, or the maintenance pass ends it: the row first, *)
(* then a message among the events.                                        *)
EndJob(s, by) ==
  /\ row = "running" /\ handler[s] = None
  /\ Fails(by)
  /\ row' = "ended"
  /\ handler' = [handler EXCEPT ![s] =
       [by |-> by, step |-> "append", terminal |-> TRUE, ev |-> 0, from |-> 0, to |-> 1]]
  /\ UNCHANGED <<job, log, viewing, cut>>

(* The server ends and is started again. *)
Crash ==
  /\ Fails("crash")
  /\ handler' = [s \in Slots |-> None]
  /\ IF report # None /\ report.answer = "waits"
       THEN report' = [report EXCEPT !.answer = "error"] ELSE UNCHANGED report
  /\ inbox' = [v \in Viewers |-> None]
  /\ stream' = [v \in Viewers |-> Off]
  /\ wire' = [v \in Viewers |-> None]
  /\ UNCHANGED <<raw, sent, stamp, agent, cancelled, table, got, last, ended, cut>>
-----------------------------------------------------------------------------
(* A stream.  It subscribes, takes the marker that each subscription       *)
(* starts with, and then reads the row and a page of events until there    *)
(* are no more, and again whenever a change concerns the job.              *)
SlipResumes(v) == 0
Resumes(v) == last[v]

Open(v) ==
  /\ stream[v].pc = "off" /\ ~ended[v]
  /\ stream' = [stream EXCEPT ![v] = [Off EXCEPT !.pc = "watch", !.cursor = Resumes(v)]]
  /\ UNCHANGED <<job, table, handler, inbox, wire, got, last, ended, faults, cut>>

Watch(v) ==
  /\ stream[v].pc = "watch"
  /\ stream' = [stream EXCEPT ![v].pc = "first"]
  /\ inbox' = [inbox EXCEPT ![v] = "resync"]
  /\ UNCHANGED <<job, table, handler, wire, got, last, ended, faults, cut>>

First(v) ==
  /\ stream[v].pc = "first"
  /\ stream' = [stream EXCEPT ![v].pc = "row"]
  /\ inbox' = [inbox EXCEPT ![v] = "empty"]
  /\ UNCHANGED <<job, table, handler, wire, got, last, ended, faults, cut>>

ReadRow(v) ==
  /\ stream[v].pc = "row"
  /\ stream' = [stream EXCEPT ![v].pc = "page", ![v].terminal = row = "ended"]
  /\ UNCHANGED <<job, table, handler, inbox, wire, got, last, ended, faults, cut>>

(* The events after the cursor; more are expected when the page is full. *)
PageEnd(v) == IF stream[v].cursor + PageSize < Len(log) THEN stream[v].cursor + PageSize ELSE Len(log)
IsFull(v)  == PageEnd(v) = stream[v].cursor + PageSize

ReadPage(v) ==
  /\ stream[v].pc = "page" /\ wire[v] = None
  /\ LET complete == stream[v].terminal /\ ~IsFull(v) IN
       /\ wire' = [wire EXCEPT ![v] =
            [from |-> stream[v].cursor, to |-> PageEnd(v), complete |-> complete]]
       /\ stream' = [stream EXCEPT ![v].cursor = PageEnd(v),
            ![v].pc = IF complete THEN "done" ELSE IF IsFull(v) THEN "row" ELSE "wait"]
  /\ UNCHANGED <<job, table, handler, inbox, got, last, ended, faults, cut>>

Wake(v) ==
  /\ stream[v].pc = "wait" /\ inbox[v] # "empty"
  /\ inbox' = [inbox EXCEPT ![v] = "empty"]
  /\ stream' = [stream EXCEPT ![v].pc = IF inbox[v] = "other" THEN "wait" ELSE "row"]
  /\ UNCHANGED <<job, table, handler, wire, got, last, ended, faults, cut>>

(* The row or the page cannot be read: the stream ends with an error that  *)
(* the viewer is shown, and that it does not open again by itself.         *)
ReadFails(v) ==
  /\ stream[v].pc \in {"row", "page"} /\ wire[v] = None
  /\ Fails("read")
  /\ stream' = [stream EXCEPT ![v] = Off]
  /\ inbox' = [inbox EXCEPT ![v] = None]
  /\ ended' = [ended EXCEPT ![v] = TRUE]
  /\ UNCHANGED <<job, table, handler, wire, got, last, cut>>

(* The viewer receives a page, and closes the stream when it is complete. *)
Receive(v) ==
  /\ wire[v] # None
  /\ got' = [got EXCEPT ![v] = @ \o [i \in 1 .. wire[v].to - wire[v].from |-> wire[v].from + i]]
  /\ last' = [last EXCEPT ![v] = wire[v].to]
  /\ ended' = [ended EXCEPT ![v] = wire[v].complete]
  /\ wire' = [wire EXCEPT ![v] = None]
  /\ IF wire[v].complete
       THEN /\ stream' = [stream EXCEPT ![v] = Off]
            /\ inbox' = [inbox EXCEPT ![v] = None]
       ELSE UNCHANGED <<stream, inbox>>
  /\ UNCHANGED <<job, table, handler, faults, cut>>

(* The connection breaks, and what is under way with it. *)
BreakStream(v) ==
  /\ stream[v].pc # "off"
  /\ Fails("break")
  /\ stream' = [stream EXCEPT ![v] = Off]
  /\ inbox' = [inbox EXCEPT ![v] = None]
  /\ wire' = [wire EXCEPT ![v] = None]
  /\ UNCHANGED <<job, table, handler, got, last, ended, cut>>
-----------------------------------------------------------------------------
Handle(s) == Update(s) \/ AppendEvents(s) \/ Publish(s)
Stream(v) == Watch(v) \/ First(v) \/ ReadRow(v) \/ ReadPage(v) \/ Wake(v)

Next ==
  \/ Write \/ SnapshotTooLate \/ Interrupted \/ CancelRun \/ BreakReport \/ OtherChange \/ Crash
  \/ \E kind \in {"snapshot", "phase", "last"} : Report(kind)
  \/ \E how \in {"ok", "error"} : ReportEnds(how)
  \/ \E s \in Slots : Handle(s) \/ AppendFails(s) \/ \E by \in {"user", "maintenance"} : EndJob(s, by)
  \/ \E v \in Viewers : Open(v) \/ Stream(v) \/ Receive(v) \/ ReadFails(v) \/ BreakStream(v)

Spec == Init /\ [][Next]_vars

(* The server serves its calls and its streams, pages arrive, and a viewer *)
(* that is not told of the end opens its stream again.                     *)
FairSpec ==
  /\ Spec
  /\ \A s \in Slots : WF_vars(Handle(s))
  /\ \A v \in Viewers : WF_vars(Open(v)) /\ WF_vars(Stream(v)) /\ WF_vars(Receive(v))
-----------------------------------------------------------------------------
(* Each variable has a value of its type. *)
TypeOK ==
  /\ raw \in 0 .. MaxOutput /\ sent \in 0 .. raw /\ stamp \in 0 .. MaxReports
  /\ agent \in {"runs", "done", "gone"} /\ cancelled \in BOOLEAN
  /\ row \in {"running", "ended"}
  /\ \A i \in 1 .. Len(log) : log[i].by \in {"agent", "user", "maintenance"} /\ log[i].ev \in 0 .. stamp
  /\ report # None => report.slot \in Slots /\ report.tries \in 1 .. Attempts
  /\ \A s \in Slots : handler[s] # None => handler[s].step \in {"arrives", "append", "publish"}
  /\ \A v \in Viewers : /\ inbox[v] \in {None, "empty", "resync", "job", "other"}
                        /\ stream[v].pc \in {"off", "watch", "first", "row", "page", "wait", "done"}
                        /\ last[v] \in 0 .. Len(log)
  /\ faults \in 0 .. MaxFaults
  /\ cut \subseteq 1 .. sent

(* What a viewer has received is the beginning of the table, each event    *)
(* once and in order, whatever broke and was opened again on the way       *)
(* (jobOutputStreamCursor and the cursor of the pages).                    *)
ViewsFollowTheLog ==
  \A v \in Viewers : got[v] = [i \in 1 .. last[v] |-> i] /\ last[v] <= Len(log)

(* A report that is delivered again, after its answer or the server was    *)
(* lost, leaves no second copy of its output (AppendJobExecutionEvents).   *)
EachReportOnce == \A i, k \in 1 .. Len(log) : log[i].ev = log[k].ev => i = k

(* What the agent has marked as sent, and so will never send again, is in  *)
(* the table, whatever was lost, failed and repeated on the way, but for   *)
(* the pieces of snapshots that ended by a deadline or with the run's      *)
(* context (markSent, reportTerminalJobStatusWithRetry).                   *)
Stored(p) == \E i \in 1 .. Len(log) : log[i].by = "agent" /\ log[i].from < p /\ p <= log[i].to
OutputIsKept == \A p \in (1 .. sent) \ cut : Stored(p)

(* An event of the agent or of a user's cancellation reaches every viewer  *)
(* that was not told before that there is no more or that the stream has   *)
(* failed: no wake-up is lost between the table, the hub and a stream      *)
(* (ChangeHub, Watch).                                                     *)
Behind(v) ==
  ~ended[v] /\ \E n \in last[v] + 1 .. Len(log) : log[n].by # "maintenance"
StoredIsShown == \A v \in Viewers : []<>~Behind(v)
=============================================================================
