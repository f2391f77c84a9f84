-------------------------- MODULE JobOutput_proofs --------------------------
(***************************************************************************)
(* What viewers see and what the table keeps, for any number of viewers,   *)
(* handlers, reports and faults.  Two arguments that do not need each      *)
(* other: a page under way starts where its viewer is and ends at the      *)
(* stream's cursor; and two carriers of one timestamp carry the same       *)
(* pieces, so that an event that is there already stands for the report    *)
(* that is delivered again.                                                *)
(***************************************************************************)
EXTENDS JobOutput, TLAPS, SequenceTheorems

Ends    == {"agent", "user", "maintenance"}
Events  == [by : Ends, ev : Nat, from : Nat, to : Nat]
Pages   == [from : Nat, to : Nat, complete : BOOLEAN]
Streams == [pc : {"off", "watch", "first", "row", "page", "wait", "done"},
            cursor : Nat, terminal : BOOLEAN]
Calls   == [by : Ends, step : {"arrives", "append", "publish"}, terminal : BOOLEAN,
            ev : Nat, from : Nat, to : Nat]
Reports == [kind : {"snapshot", "phase", "last"}, ev : Nat, from : Nat, to : Nat,
            slot : Slots, tries : Nat, answer : {"waits", "ok", "error"}]

(* The table only grows, and at its end. *)
TableTypes == log \in Seq(Events) /\ handler \in [Slots -> Calls \cup {None}]
Grows == log' \in Seq(Events) /\ Len(log) <= Len(log')
           /\ \A i \in 1 .. Len(log) : log'[i] = log[i]

LEMMA AppendedTable ==
  ASSUME TableTypes, NEW s \in Slots, AppendEvents(s)
  PROVE  LET h == handler[s]
             e == [by |-> h.by, ev |-> h.ev, from |-> h.from, to |-> h.to]
         IN /\ h \in Calls
            /\ e \in Events
            /\ \/ /\ log' = log
                  /\ \/ h.from >= h.to
                     \/ \E i \in 1 .. Len(log) : log[i].ev = h.ev
               \/ /\ log' = Append(log, e)
                  /\ h.from < h.to
                  /\ \A i \in 1 .. Len(log) : log[i].ev # h.ev
<1>1. handler[s] \in Calls
  BY DEF AppendEvents, TableTypes
<1> QED
  BY <1>1 DEF AppendEvents, AppendEvent, Calls, Events

LEMMA TableStep ==
  ASSUME TableTypes, [Next]_vars
  PROVE  Grows
<1>1. CASE UNCHANGED log
  BY <1>1 DEF TableTypes, Grows
<1>2. ASSUME NEW s \in Slots, AppendEvents(s) PROVE Grows
  <2>1. PICK e \in Events : log' = log \/ log' = Append(log, e)
    BY <1>2, AppendedTable
  <2>2. log \in Seq(Events)
    BY DEF TableTypes
  <2> QED
    BY <2>1, <2>2, AppendProperties DEF Grows
<1> QED
  BY <1>1, <1>2 DEF Next, vars, table, job, Write, SnapshotTooLate, CancelRun, BreakReport,
       OtherChange, Crash, Report, ReportEnds, Handle, Update, Publish, AppendFails, EndJob,
       Open, Stream, Watch, First, ReadRow, ReadPage, Wake, Receive, BreakStream, ReadFails,
       Interrupted
-----------------------------------------------------------------------------
(* The first argument: pages and cursors. *)
ViewTypes ==
  /\ stream \in [Viewers -> Streams]
  /\ wire \in [Viewers -> Pages \cup {None}]
  /\ last \in [Viewers -> Nat]
  /\ got \in [Viewers -> Seq(Nat)]

ViewFits(v) ==
  /\ got[v] = [i \in 1 .. last[v] |-> i]
  /\ last[v] <= Len(log) /\ stream[v].cursor <= Len(log)
  /\ stream[v].pc = "off" => wire[v] = None
  /\ stream[v].pc # "off" =>
       IF wire[v] = None THEN stream[v].cursor = last[v]
       ELSE wire[v].from = last[v] /\ wire[v].to = stream[v].cursor /\ last[v] <= stream[v].cursor

Views == ViewTypes /\ \A v \in Viewers : ViewFits(v)

LEMMA Counted ==
  ASSUME NEW m \in Nat, NEW n \in Nat, m <= n
  PROVE  [i \in 1 .. m |-> i] \o [i \in 1 .. n - m |-> m + i] = [i \in 1 .. n |-> i]
<1> DEFINE s == [i \in 1 .. m |-> i]
           t == [i \in 1 .. n - m |-> m + i]
           r == [i \in 1 .. n |-> i]
<1>1. n - m \in Nat
  OBVIOUS
<1>2. s \in Seq(Nat) /\ Len(s) = m /\ t \in Seq(Nat) /\ Len(t) = n - m
        /\ r \in Seq(Nat) /\ Len(r) = n
  BY <1>1
<1>3. s \o t \in Seq(Nat) /\ Len(s \o t) = n
  BY <1>1, <1>2, ConcatProperties
<1>4. ASSUME NEW i \in 1 .. n PROVE (s \o t)[i] = r[i]
  <2> HIDE DEF s, t, r
  <2>1. (s \o t)[i] = IF i <= m THEN s[i] ELSE t[i - m]
    BY <1>1, <1>2, ConcatProperties
  <2> QED
    BY <1>1, <2>1 DEF s, t, r
<1> HIDE DEF s, t, r
<1>5. s \o t = r
  BY <1>2, <1>3, <1>4, SeqEqual
<1> QED
  BY <1>5 DEF s, t, r

LEMMA InitViews == Init => Views
<1> SUFFICES ASSUME Init PROVE Views
  OBVIOUS
<1>1. ViewTypes
  BY DEF Init, ViewTypes, Off, Streams
<1>2. ASSUME NEW v \in Viewers PROVE ViewFits(v)
  BY DEF Init, ViewFits, Off
<1> QED
  BY <1>1, <1>2 DEF Views

(* The step of one viewer's stream leaves the other viewers alone. *)
LEMMA PageProps ==
  ASSUME TableTypes, Views, NEW v \in Viewers
  PROVE  /\ PageEnd(v) \in Nat /\ PageEnd(v) <= Len(log) /\ stream[v].cursor <= PageEnd(v)
         /\ IsFull(v) \in BOOLEAN
<1>1. stream[v].cursor \in Nat /\ stream[v].cursor <= Len(log) /\ Len(log) \in Nat
  BY DEF TableTypes, Views, ViewTypes, ViewFits, Streams
<1> QED
  BY <1>1, OutputAssumption DEF PageEnd, IsFull

LEMMA ViewStep ==
  ASSUME TableTypes, Views, [Next]_vars
  PROVE  Views'
<1> USE DEF ViewTypes, Streams, Pages
<1>0. Grows /\ log \in Seq(Events)
  BY TableStep DEF TableTypes
<1>1. ASSUME NEW v \in Viewers, Open(v) PROVE Views'
  <2>1. stream' = [stream EXCEPT ![v] = [Off EXCEPT !.pc = "watch", !.cursor = last[v]]]
          /\ UNCHANGED <<wire, got, last, log>> /\ stream[v].pc = "off"
    BY <1>1 DEF Open, Resumes, table
  <2>2. ViewTypes'
    BY <2>1 DEF Views, Off
  <2> QED
    BY <2>1, <2>2 DEF Views, ViewFits, Off
<1>2. ASSUME NEW v \in Viewers, Watch(v) \/ First(v) \/ ReadRow(v) \/ Wake(v) PROVE Views'
  <2>1. PICK st \in Streams :
          /\ stream' = [stream EXCEPT ![v] = st]
          /\ st.cursor = stream[v].cursor /\ st.pc # "off" /\ stream[v].pc # "off"
    <3>1. stream[v] \in Streams
      BY DEF Views
    <3>2. PICK q \in {"first", "row", "page", "wait"}, b \in BOOLEAN :
            stream' = [stream EXCEPT ![v] = [stream[v] EXCEPT !.pc = q, !.terminal = b]]
      <4>1. CASE ReadRow(v)
        BY <4>1, <3>1 DEF ReadRow
      <4>2. CASE Watch(v) \/ First(v) \/ Wake(v)
        <5>1. PICK q \in {"first", "row", "wait"} :
                stream' = [stream EXCEPT ![v] = [stream[v] EXCEPT !.pc = q]]
          BY <4>2 DEF Watch, First, Wake
        <5>2. [stream[v] EXCEPT !.pc = q] = [stream[v] EXCEPT !.pc = q, !.terminal = stream[v].terminal]
          BY <3>1
        <5> QED
          BY <3>1, <5>1, <5>2
      <4> QED
        BY <1>2, <4>1, <4>2
    <3>3. stream[v].pc # "off"
      BY <1>2 DEF Watch, First, ReadRow, Wake
    <3>4. [stream[v] EXCEPT !.pc = q, !.terminal = b] \in Streams
      BY <3>1
    <3> QED
      BY <3>1, <3>2, <3>3, <3>4
  <2>2. UNCHANGED <<wire, got, last, log>>
    BY <1>2 DEF Watch, First, ReadRow, Wake, table
  <2> QED
    BY <2>1, <2>2 DEF Views, ViewFits
<1>3. ASSUME NEW v \in Viewers, ReadPage(v) PROVE Views'
  <2>1. PICK st \in Streams, pg \in Pages :
          /\ stream' = [stream EXCEPT ![v] = st]
          /\ wire' = [wire EXCEPT ![v] = pg]
          /\ st.pc # "off" /\ st.cursor = PageEnd(v)
          /\ pg.from = stream[v].cursor /\ pg.to = PageEnd(v)
    <3> DEFINE complete == stream[v].terminal /\ ~IsFull(v)
               goes == IF complete THEN "done" ELSE IF IsFull(v) THEN "row" ELSE "wait"
               st == [stream[v] EXCEPT !.cursor = PageEnd(v), !.pc = goes]
               pg == [from |-> stream[v].cursor, to |-> PageEnd(v), complete |-> complete]
    <3>1. stream[v] \in Streams /\ complete \in BOOLEAN /\ goes \in {"done", "row", "wait"}
      BY PageProps DEF Views
    <3>2. stream' = [stream EXCEPT ![v] = st] /\ wire' = [wire EXCEPT ![v] = pg]
      BY <1>3 DEF ReadPage, Views
    <3> HIDE DEF complete, goes
    <3>3. st \in Streams /\ pg \in Pages
      BY <3>1, PageProps
    <3>4. st.pc = goes /\ st.cursor = PageEnd(v) /\ pg.from = stream[v].cursor /\ pg.to = PageEnd(v)
      BY <3>1
    <3> QED
      BY <3>1, <3>2, <3>3, <3>4
  <2>2. UNCHANGED <<got, last, log>> /\ wire[v] = None /\ stream[v].pc # "off" /\ pg # None
    BY <1>3, OutputAssumption DEF ReadPage, table
  <2>3. /\ PageEnd(v) \in Nat /\ PageEnd(v) <= Len(log) /\ stream[v].cursor <= PageEnd(v)
    BY PageProps
  <2> QED
    BY <2>1, <2>2, <2>3 DEF Views, ViewFits
<1>4. ASSUME NEW v \in Viewers, Receive(v) PROVE Views'
  <2> DEFINE pg == wire[v]
  <2>1. pg \in Pages /\ pg # None /\ UNCHANGED log
    BY <1>4 DEF Receive, Views, table
  <2>2. /\ pg.from = last[v] /\ pg.to = stream[v].cursor /\ pg.from <= pg.to
        /\ stream[v].pc # "off" /\ pg.from \in Nat /\ pg.to \in Nat
    BY <2>1 DEF Views, ViewFits
  <2>3. got' = [got EXCEPT ![v] = [i \in 1 .. pg.to |-> i]]
    <3>1. got[v] = [i \in 1 .. pg.from |-> i]
      BY <2>2 DEF Views, ViewFits
    <3>2. got[v] \o [i \in 1 .. pg.to - pg.from |-> pg.from + i] = [i \in 1 .. pg.to |-> i]
      BY <2>2, <3>1, Counted
    <3>3. got' = [got EXCEPT ![v] = got[v] \o [i \in 1 .. pg.to - pg.from |-> pg.from + i]]
      BY <1>4 DEF Receive, Views
    <3> QED
      BY <3>2, <3>3
  <2>4. last' = [last EXCEPT ![v] = pg.to] /\ wire' = [wire EXCEPT ![v] = None]
    BY <1>4 DEF Receive
  <2>5. stream' = [stream EXCEPT ![v] = Off] \/ stream' = stream
    BY <1>4 DEF Receive
  <2>6. Off \in Streams /\ Off.pc = "off" /\ Off.cursor = 0
    BY DEF Off
  <2>7. [i \in 1 .. pg.to |-> i] \in Seq(Nat)
    BY <2>2
  <2> HIDE DEF pg
  <2>8. ViewTypes'
    BY <2>2, <2>3, <2>4, <2>5, <2>6, <2>7 DEF Views
  <2>9. ASSUME NEW u \in Viewers PROVE ViewFits(u)'
    <3>1. CASE u # v
      BY <2>1, <2>3, <2>4, <2>5, <3>1 DEF Views, ViewFits
    <3>2. CASE u = v
      <4>1. got'[u] = [i \in 1 .. pg.to |-> i] /\ last'[u] = pg.to /\ wire'[u] = None
        BY <2>3, <2>4, <3>2 DEF Views
      <4>2. \/ stream'[u].pc = "off" /\ stream'[u].cursor = 0
            \/ stream'[u].pc # "off" /\ stream'[u].cursor = pg.to
        BY <2>2, <2>5, <2>6, <3>2 DEF Views
      <4>3. pg.to <= Len(log) /\ log' = log
        BY <2>1, <2>2 DEF Views, ViewFits
      <4> QED
        BY <1>0, <2>2, <4>1, <4>2, <4>3 DEF ViewFits
    <3> QED
      BY <3>1, <3>2
  <2> QED
    BY <2>8, <2>9 DEF Views
<1>5. ASSUME NEW v \in Viewers, BreakStream(v) PROVE Views'
  BY <1>5 DEF BreakStream, Views, ViewFits, Off, table
<1>8. ASSUME NEW v \in Viewers, ReadFails(v) PROVE Views'
  BY <1>8 DEF ReadFails, Views, ViewFits, Off, table
<1>6. CASE Crash
  <2>1. stream' = [v \in Viewers |-> Off] /\ wire' = [v \in Viewers |-> None] /\ UNCHANGED <<got, last, log>>
    BY <1>6 DEF Crash, table
  <2> QED
    BY <2>1 DEF Views, ViewFits, Off
<1>7. CASE UNCHANGED <<stream, wire, got, last>>
  <2>1. ASSUME NEW v \in Viewers PROVE ViewFits(v)'
    BY <1>0, <1>7 DEF Views, ViewFits, Grows
  <2> QED
    BY <1>7, <2>1 DEF Views
<1> QED
  BY <1>1, <1>2, <1>3, <1>4, <1>5, <1>6, <1>7, <1>8 DEF Next, vars, viewing, Write,
       SnapshotTooLate, Interrupted, CancelRun, BreakReport, OtherChange, Report, ReportEnds, Handle, Update, AppendEvents,
       Publish, AppendFails, EndJob, Stream
-----------------------------------------------------------------------------
(* The second argument: what a timestamp stands for.  All that carries an  *)
(* agent's timestamp was made by one report of it.                         *)
AgentTypes ==
  /\ raw \in Nat /\ sent \in Nat /\ sent <= raw /\ stamp \in Nat
  /\ report \in Reports \cup {None}
  /\ cut \subseteq 1 .. sent

Fits(made, by, ev, from, to) ==
  IF by = "agent" THEN ev \in 1 .. stamp /\ made[ev] = <<from, to>>
                  ELSE ev = 0

MadeAs(made) ==
  /\ \A i \in 1 .. Len(log) : Fits(made, log[i].by, log[i].ev, log[i].from, log[i].to)
  /\ \A s \in Slots : handler[s] # None =>
       Fits(made, handler[s].by, handler[s].ev, handler[s].from, handler[s].to)
  /\ report # None => Fits(made, "agent", report.ev, report.from, report.to)

InTable(from, to) == \A p \in from + 1 .. to : Stored(p)

Kept ==
  /\ OutputIsKept
  /\ report # None =>
       /\ report.from = sent /\ sent <= report.to /\ report.to <= raw
       /\ report.answer = "ok" => InTable(report.from, report.to)
  /\ \A s \in Slots :
       handler[s] # None /\ handler[s].by = "agent" /\ handler[s].step = "publish" =>
         InTable(handler[s].from, handler[s].to)

Output == AgentTypes /\ TableTypes /\ EachReportOnce /\ Kept
            /\ \E made \in [1 .. stamp -> Nat \X Nat] : MadeAs(made)

LEMMA InitOutput == Init => Output
<1> SUFFICES ASSUME Init PROVE Output
  OBVIOUS
<1> USE DEF Init
<1>1. AgentTypes /\ TableTypes /\ EachReportOnce
  BY DEF AgentTypes, TableTypes, EachReportOnce
<1>2. Kept
  BY DEF Kept, OutputIsKept
<1>3. PICK made : made = [n \in 1 .. stamp |-> <<0, 0>>]
  OBVIOUS
<1>4. made \in [1 .. stamp -> Nat \X Nat] /\ MadeAs(made)
  BY <1>3 DEF MadeAs
<1> QED
  BY <1>1, <1>2, <1>4 DEF Output

(* The two ways a call comes to the server, as changes of the handlers. *)
LEMMA PostProps ==
  ASSUME AgentTypes, TableTypes, NEW kind \in {"snapshot", "phase", "last"}, NEW r, Post(kind, r),
         r.ev \in Nat, r.from \in Nat, r.to \in Nat, r.tries \in Nat
  PROVE  /\ report' \in Reports /\ report'.ev = r.ev /\ report'.from = r.from /\ report'.to = r.to
         /\ report'.answer = "waits"
         /\ \E s \in Slots, h \in Calls :
              /\ handler' = [handler EXCEPT ![s] = h]
              /\ h.by = "agent" /\ h.step = "arrives"
              /\ h.ev = r.ev /\ h.from = r.from /\ h.to = r.to
<1>1. PICK s \in Slots :
        /\ handler' = [handler EXCEPT ![s] =
             [by |-> "agent", step |-> "arrives", terminal |-> kind = "last",
              ev |-> r.ev, from |-> r.from, to |-> r.to]]
        /\ report' = [kind |-> kind, ev |-> r.ev, from |-> r.from, to |-> r.to,
                      slot |-> s, tries |-> r.tries, answer |-> "waits"]
  BY DEF Post
<1> DEFINE h == [by |-> "agent", step |-> "arrives", terminal |-> kind = "last",
                 ev |-> r.ev, from |-> r.from, to |-> r.to]
<1>2. h \in Calls
  BY DEF Calls, Ends
<1>3. /\ report' \in Reports /\ report'.ev = r.ev /\ report'.from = r.from /\ report'.to = r.to
      /\ report'.answer = "waits"
  BY <1>1 DEF Reports
<1>4. h.by = "agent" /\ h.step = "arrives" /\ h.ev = r.ev /\ h.from = r.from /\ h.to = r.to
  OBVIOUS
<1>5. handler' = [handler EXCEPT ![s] = h]
  BY <1>1
<1> HIDE DEF h
<1> QED
  BY <1>2, <1>3, <1>4, <1>5

(* What happens to the agent's report when a call is answered. *)
LEMMA AnsweredProps ==
  ASSUME AgentTypes, NEW s \in Slots, NEW answer \in {"ok", "error"}, Answered(s, answer)
  PROVE  \/ report' = report
         \/ /\ report # None /\ handler[s].by = "agent" /\ report.ev = handler[s].ev
            /\ report' \in Reports /\ report'.answer = answer
            /\ report'.ev = report.ev /\ report'.from = report.from /\ report'.to = report.to
<1>1. CASE UNCHANGED report
  BY <1>1
<1>2. CASE /\ report # None /\ handler[s].by = "agent" /\ report.ev = handler[s].ev
           /\ report' = [report EXCEPT !.answer = answer]
  <2>1. report \in Reports
    BY <1>2 DEF AgentTypes
  <2> QED
    BY <1>2, <2>1 DEF Reports
<1> QED
  BY <1>1, <1>2 DEF Answered

(* What is in the table stays there. *)
LEMMA StaysInTable ==
  ASSUME TableTypes, Grows, NEW from \in Nat, NEW to \in Nat, InTable(from, to)
  PROVE  InTable(from, to)'
<1> SUFFICES ASSUME NEW p \in from + 1 .. to PROVE Stored(p)'
  BY DEF InTable
<1>1. PICK i \in 1 .. Len(log) : log[i].by = "agent" /\ log[i].from < p /\ p <= log[i].to
  BY DEF InTable, Stored
<1>2. i \in 1 .. Len(log') /\ log'[i] = log[i]
  BY <1>1 DEF Grows, TableTypes
<1> QED
  BY <1>1, <1>2 DEF Stored

(* Steps that leave the table and the timestamps alone: it is enough to    *)
(* look at the report, the calls and what is kept.                         *)
LEMMA QuietStep ==
  ASSUME Output, UNCHANGED <<log, stamp>>,
         AgentTypes', TableTypes', Kept',
         NEW made \in [1 .. stamp -> Nat \X Nat], MadeAs(made),
         report' # None => Fits(made, "agent", report'.ev, report'.from, report'.to),
         \A s \in Slots : handler'[s] # None =>
           Fits(made, handler'[s].by, handler'[s].ev, handler'[s].from, handler'[s].to)
  PROVE  Output'
<1>1. EachReportOnce'
  BY DEF Output, EachReportOnce
<1>2. MadeAs(made)'
  BY DEF MadeAs, Fits
<1>3. made \in [1 .. stamp' -> Nat \X Nat]
  OBVIOUS
<1> QED
  BY <1>1, <1>2, <1>3 DEF Output

LEMMA AgentStep ==
  ASSUME Output, Write \/ SnapshotTooLate \/ Interrupted \/ CancelRun \/ BreakReport \/ Crash
  PROVE  Output'
<1>1. PICK made \in [1 .. stamp -> Nat \X Nat] : MadeAs(made)
  BY DEF Output
<1>2. AgentTypes /\ TableTypes /\ Kept /\ UNCHANGED <<log, stamp>>
  BY DEF Output, Write, SnapshotTooLate, Interrupted, CancelRun, BreakReport, Crash, table
<1>3. /\ report' = report \/ report' = None
           \/ /\ report # None /\ report' \in Reports /\ report'.answer = "error"
              /\ report'.ev = report.ev /\ report'.from = report.from /\ report'.to = report.to
      /\ \A s \in Slots : handler'[s] = handler[s] \/ handler'[s] = None
      /\ handler' \in [Slots -> Calls \cup {None}]
  <2>1. CASE Write \/ SnapshotTooLate \/ CancelRun
    BY <1>2, <2>1 DEF Write, SnapshotTooLate, CancelRun, TableTypes
  <2>3. CASE Interrupted
    BY <1>2, <2>3 DEF Interrupted, TableTypes
  <2>2. CASE BreakReport \/ Crash
    <3>1. handler' \in [Slots -> Calls \cup {None}]
            /\ \A s \in Slots : handler'[s] = handler[s] \/ handler'[s] = None
      BY <1>2, <2>2 DEF BreakReport, Crash, TableTypes
    <3>2. report' = report \/ (report # None /\ report' = [report EXCEPT !.answer = "error"])
      BY <2>2 DEF BreakReport, Crash
    <3>3. report # None => report \in Reports
      BY <1>2 DEF AgentTypes
    <3> QED
      BY <3>1, <3>2, <3>3 DEF Reports
  <2> QED
    BY <2>1, <2>2, <2>3
<1>4. raw' \in Nat /\ sent' \in Nat /\ sent' <= raw' /\ raw <= raw' /\ sent <= sent'
        /\ (sent' = sent \/ report' = None)
        /\ cut' \subseteq 1 .. sent' /\ (1 .. sent') \ cut' \subseteq (1 .. sent) \ cut
  <2>1. CASE Interrupted
    <3>1. /\ report \in Reports /\ report.from = sent /\ sent <= report.to /\ report.to <= raw
          /\ report.to \in Nat
      BY <1>2, <2>1 DEF Interrupted, AgentTypes, Kept, Reports
    <3>2. /\ raw' = raw /\ sent' = report.to /\ report' = None
          /\ cut' = cut \union (report.from + 1 .. report.to)
      BY <2>1 DEF Interrupted
    <3>3. cut \subseteq 1 .. sent /\ raw \in Nat /\ sent \in Nat
      BY <1>2 DEF AgentTypes
    <3>4. ASSUME NEW p \in cut' PROVE p \in 1 .. sent'
      BY <3>1, <3>2, <3>3
    <3>5. ASSUME NEW p \in (1 .. sent') \ cut' PROVE p \in (1 .. sent) \ cut
      BY <3>1, <3>2, <3>3
    <3>6. cut' \subseteq 1 .. sent' /\ (1 .. sent') \ cut' \subseteq (1 .. sent) \ cut
      BY <3>4, <3>5, Zenon
    <3> QED
      BY <3>1, <3>2, <3>3, <3>6
  <2>2. CASE SnapshotTooLate
    BY <1>2, <2>2 DEF AgentTypes, SnapshotTooLate
  <2>3. CASE Write \/ CancelRun \/ BreakReport \/ Crash
    BY <1>2, <2>3 DEF AgentTypes, Write, CancelRun, BreakReport, Crash
  <2> QED
    BY <2>1, <2>2, <2>3
<1>5. AgentTypes' /\ TableTypes'
  BY <1>2, <1>3, <1>4 DEF AgentTypes, TableTypes
<1>6. /\ \A from, to : InTable(from, to)' = InTable(from, to)
      /\ \A p : Stored(p)' = Stored(p)
  BY <1>2 DEF InTable, Stored
<1>7. Kept'
  <2>1. OutputIsKept'
    BY <1>2, <1>4, <1>6 DEF Kept, OutputIsKept
  <2>2. report' # None =>
          /\ report'.from = sent' /\ sent' <= report'.to /\ report'.to <= raw'
          /\ report'.answer = "ok" => InTable(report.from, report.to)'
    <3>1. CASE report' = None
      BY <3>1
    <3>2. CASE report' = report /\ sent' = sent
      BY <1>2, <1>4, <1>6, <3>2 DEF Kept, AgentTypes, Reports, InTable
    <3>3. CASE /\ report # None /\ report'.answer = "error" /\ sent' = sent
               /\ report'.from = report.from /\ report'.to = report.to
      BY <1>2, <1>4, <3>3 DEF Kept, AgentTypes, Reports
    <3> QED
      BY <1>3, <1>4, <3>1, <3>2, <3>3
  <2>3. \A s \in Slots :
          handler'[s] # None /\ handler'[s].by = "agent" /\ handler'[s].step = "publish" =>
            InTable(handler[s].from, handler[s].to)'
    BY <1>2, <1>3, <1>6 DEF Kept, InTable
  <2> QED
    BY <2>1, <2>2, <2>3 DEF Kept
<1>8. report' # None => Fits(made, "agent", report'.ev, report'.from, report'.to)
  BY <1>1, <1>3 DEF MadeAs
<1>9. \A s \in Slots : handler'[s] # None =>
        Fits(made, handler'[s].by, handler'[s].ev, handler'[s].from, handler'[s].to)
  BY <1>1, <1>3 DEF MadeAs
<1> QED
  BY <1>1, <1>2, <1>5, <1>7, <1>8, <1>9, QuietStep

(* A new report makes what its timestamp stands for. *)
LEMMA ReportStep ==
  ASSUME Output, NEW kind \in {"snapshot", "phase", "last"}, Report(kind)
  PROVE  Output'
<1>1. PICK made \in [1 .. stamp -> Nat \X Nat] : MadeAs(made)
  BY DEF Output
<1>2. AgentTypes /\ TableTypes /\ Kept /\ UNCHANGED <<raw, sent, cut, log>> /\ stamp' = stamp + 1
  BY DEF Output, Report, table
<1>3. PICK s \in Slots, h \in Calls :
        /\ handler' = [handler EXCEPT ![s] = h]
        /\ h.by = "agent" /\ h.step = "arrives"
        /\ h.ev = stamp + 1 /\ h.from = sent /\ h.to = raw
        /\ report' \in Reports /\ report'.ev = stamp + 1 /\ report'.from = sent /\ report'.to = raw
        /\ report'.answer = "waits"
  <2> DEFINE r == [ev |-> stamp + 1, from |-> sent, to |-> raw, tries |-> 1]
  <2>1. Post(kind, r) /\ r.ev = stamp + 1 /\ r.from = sent /\ r.to = raw /\ r.tries = 1
    BY DEF Report
  <2>2. r.ev \in Nat /\ r.from \in Nat /\ r.to \in Nat /\ r.tries \in Nat
    BY <1>2 DEF AgentTypes
  <2> HIDE DEF r
  <2> QED
    BY <1>2, <2>1, <2>2, PostProps
<1>4. AgentTypes' /\ TableTypes'
  BY <1>2, <1>3 DEF AgentTypes, TableTypes
<1>5. /\ \A from, to : InTable(from, to)' = InTable(from, to)
      /\ OutputIsKept' = OutputIsKept
  BY <1>2 DEF InTable, Stored, OutputIsKept
<1>6. Kept'
  BY <1>2, <1>3, <1>5 DEF Kept, AgentTypes, TableTypes
<1>7. PICK now : now = [n \in 1 .. stamp + 1 |-> IF n = stamp + 1 THEN <<sent, raw>> ELSE made[n]]
  OBVIOUS
<1>8. now \in [1 .. stamp' -> Nat \X Nat]
  BY <1>2, <1>7 DEF AgentTypes
<1>9. ASSUME NEW by, NEW ev, NEW from, NEW to, Fits(made, by, ev, from, to)
      PROVE  Fits(now, by, ev, from, to)'
  BY <1>2, <1>7, <1>9 DEF Fits, AgentTypes
<1>10. MadeAs(now)'
  <2>1. stamp' \in 1 .. stamp' /\ now[stamp'] = <<sent, raw>>
    BY <1>2, <1>7 DEF AgentTypes
  <2>2. ASSUME NEW i \in 1 .. Len(log)
        PROVE  Fits(now, log[i].by, log[i].ev, log[i].from, log[i].to)'
    BY <1>1, <1>2, <1>9 DEF MadeAs
  <2>3. ASSUME NEW t \in Slots, handler'[t] # None
        PROVE  Fits(now, handler[t].by, handler[t].ev, handler[t].from, handler[t].to)'
    <3>1. CASE t = s
      BY <1>2, <1>3, <2>1, <3>1 DEF Fits, TableTypes
    <3>2. CASE t # s
      BY <1>1, <1>2, <1>3, <1>9, <2>3, <3>2 DEF MadeAs, TableTypes
    <3> QED
      BY <3>1, <3>2
  <2>4. Fits(now, "agent", report.ev, report.from, report.to)'
    BY <1>2, <1>3, <2>1 DEF Fits
  <2> QED
    BY <1>2, <2>2, <2>3, <2>4 DEF MadeAs
<1>11. EachReportOnce'
  BY <1>2 DEF Output, EachReportOnce
<1> QED
  BY <1>4, <1>6, <1>8, <1>10, <1>11 DEF Output

LEMMA ReportEndsStep ==
  ASSUME Output, NEW how \in {"ok", "error"}, ReportEnds(how)
  PROVE  Output'
<1>1. PICK made \in [1 .. stamp -> Nat \X Nat] : MadeAs(made)
  BY DEF Output
<1>2. /\ AgentTypes /\ TableTypes /\ Kept
      /\ UNCHANGED <<raw, stamp, cut, log>>
      /\ report # None /\ report \in Reports
      /\ report.from = sent /\ sent <= report.to /\ report.to <= raw
      /\ report.ev \in Nat /\ report.from \in Nat /\ report.to \in Nat
  BY DEF Output, ReportEnds, table, Kept, AgentTypes, Reports
<1>3. Fits(made, "agent", report.ev, report.from, report.to)
  BY <1>1, <1>2 DEF MadeAs
<1>4. /\ \A from, to : InTable(from, to)' = InTable(from, to)
      /\ \A p : Stored(p)' = Stored(p)
  BY <1>2 DEF InTable, Stored
<1>5. CASE /\ how = "error" /\ report.kind = "last" /\ report.tries < Attempts
           /\ sent' = sent /\ Post("last", [report EXCEPT !.tries = @ + 1])
  <2>1. PICK s \in Slots, h \in Calls :
          /\ handler' = [handler EXCEPT ![s] = h]
          /\ h.by = "agent" /\ h.step = "arrives"
          /\ h.ev = report.ev /\ h.from = report.from /\ h.to = report.to
          /\ report' \in Reports /\ report'.ev = report.ev /\ report'.from = report.from
          /\ report'.to = report.to /\ report'.answer = "waits"
    <3> DEFINE r == [report EXCEPT !.tries = @ + 1]
    <3>1. /\ Post("last", r) /\ r.ev = report.ev /\ r.from = report.from /\ r.to = report.to
          /\ r.tries \in Nat
      BY <1>2, <1>5 DEF Reports
    <3> HIDE DEF r
    <3> QED
      BY <1>2, <3>1, PostProps
  <2>2. AgentTypes' /\ TableTypes'
    BY <1>2, <1>5, <2>1 DEF AgentTypes, TableTypes
  <2>3. Kept'
    BY <1>2, <1>4, <1>5, <2>1 DEF Kept, TableTypes, OutputIsKept
  <2>4. report' # None => Fits(made, "agent", report'.ev, report'.from, report'.to)
    BY <1>3, <2>1
  <2>5. \A t \in Slots : handler'[t] # None =>
          Fits(made, handler'[t].by, handler'[t].ev, handler'[t].from, handler'[t].to)
    BY <1>1, <1>2, <1>3, <2>1 DEF MadeAs, TableTypes
  <2> QED
    BY <1>1, <1>2, <2>2, <2>3, <2>4, <2>5, QuietStep
<1>6. CASE report' = None /\ handler' = handler /\ sent' = Marked(how)
  <2>1. sent' \in {sent, report.to}
    BY <1>6 DEF Marked
  <2>2. AgentTypes' /\ TableTypes'
    BY <1>2, <1>6, <2>1 DEF AgentTypes, TableTypes
  <2>3. OutputIsKept'
    <3>1. CASE sent' = sent
      BY <1>2, <1>4, <3>1 DEF Kept, OutputIsKept
    <3>2. CASE how = "ok" /\ sent' = report.to
      <4>1. InTable(sent, report.to)
        BY <1>2, <3>2 DEF Kept, ReportEnds
      <4>2. ASSUME NEW p \in (1 .. report.to) \ cut PROVE Stored(p)
        BY <1>2, <4>1 DEF InTable, AgentTypes, Kept, OutputIsKept
      <4> QED
        BY <1>2, <1>4, <3>2, <4>2 DEF OutputIsKept
    <3> QED
      BY <1>6, <3>1, <3>2 DEF Marked
  <2>4. Kept'
    BY <1>2, <1>4, <1>6, <2>3 DEF Kept
  <2> QED
    BY <1>1, <1>2, <1>6, <2>2, <2>4, QuietStep DEF MadeAs
<1> QED
  BY <1>5, <1>6 DEF ReportEnds, Marked

(* The server's steps that leave the table alone. *)
LEMMA HandlerStep ==
  ASSUME Output, NEW s \in Slots,
         \/ Update(s) \/ AppendFails(s) \/ Publish(s)
         \/ \E by \in {"user", "maintenance"} : EndJob(s, by)
  PROVE  Output'
<1>1. PICK made \in [1 .. stamp -> Nat \X Nat] : MadeAs(made)
  BY DEF Output
<1>2. AgentTypes /\ TableTypes /\ Kept /\ UNCHANGED <<raw, sent, stamp, cut, log>>
  BY DEF Output, Update, AppendFails, Publish, EndJob, job, table
<1>3. PICK h : /\ handler' = [handler EXCEPT ![s] = h]
               /\ \/ h = None
                  \/ /\ h \in Calls /\ h.step = "append"
                     /\ \/ h.by # "agent" /\ h.ev = 0
                        \/ /\ handler[s] # None
                           /\ h.by = handler[s].by /\ h.ev = handler[s].ev
                           /\ h.from = handler[s].from /\ h.to = handler[s].to
  <2>1. CASE AppendFails(s) \/ Publish(s)
    BY <2>1 DEF AppendFails, Publish
  <2>2. CASE Update(s)
    <3>1. handler[s] # None /\ handler[s] \in Calls
      BY <1>2, <2>2 DEF Update, TableTypes
    <3> DEFINE h == [handler[s] EXCEPT !.step = "append"]
    <3>2. handler' = [handler EXCEPT ![s] = h]
      BY <2>2 DEF Update
    <3>3. /\ h \in Calls /\ h.step = "append" /\ h.by = handler[s].by
          /\ h.ev = handler[s].ev /\ h.from = handler[s].from /\ h.to = handler[s].to
      BY <3>1 DEF Calls
    <3> QED
      BY <3>1, <3>2, <3>3
  <2>3. ASSUME NEW by \in {"user", "maintenance"}, EndJob(s, by)
        PROVE  \E h \in Calls : /\ handler' = [handler EXCEPT ![s] = h] /\ h.step = "append"
                                /\ h.by # "agent" /\ h.ev = 0
    <3> DEFINE h == [by |-> by, step |-> "append", terminal |-> TRUE, ev |-> 0, from |-> 0, to |-> 1]
    <3>1. h \in Calls /\ h.step = "append" /\ h.by # "agent" /\ h.ev = 0
      BY DEF Calls, Ends
    <3>2. handler' = [handler EXCEPT ![s] = h]
      BY <2>3 DEF EndJob
    <3> QED
      BY <3>1, <3>2
  <2> QED
    BY <2>1, <2>2, <2>3
<1>4. PICK answer \in {"ok", "error"} :
        /\ \/ report' = report
           \/ /\ report # None /\ handler[s].by = "agent" /\ report.ev = handler[s].ev
              /\ report' \in Reports /\ report'.answer = answer
              /\ report'.ev = report.ev /\ report'.from = report.from /\ report'.to = report.to
        /\ answer = "ok" => \/ report' = report
                            \/ handler[s] # None /\ handler[s].step = "publish"
  <2>1. CASE Update(s) \/ \E by \in {"user", "maintenance"} : EndJob(s, by)
    BY <2>1 DEF Update, EndJob, job
  <2>2. CASE AppendFails(s)
    BY <1>2, <2>2, AnsweredProps DEF AppendFails
  <2>3. CASE Publish(s)
    BY <1>2, <2>3, AnsweredProps DEF Publish
  <2> QED
    BY <2>1, <2>2, <2>3
<1>5. /\ \A from, to : InTable(from, to)' = InTable(from, to)
      /\ OutputIsKept' = OutputIsKept
  BY <1>2 DEF InTable, Stored, OutputIsKept
<1>6. AgentTypes' /\ TableTypes'
  BY <1>2, <1>3, <1>4 DEF AgentTypes, TableTypes
<1>7. Kept'
  <2>1. ASSUME report' # report, report'.answer = "ok"
        PROVE  InTable(report'.from, report'.to)
    <3>1. /\ handler[s] # None /\ handler[s].step = "publish" /\ handler[s].by = "agent"
          /\ report # None /\ report.ev = handler[s].ev
          /\ report'.from = report.from /\ report'.to = report.to
      BY <1>4, <2>1
    <3>2. InTable(handler[s].from, handler[s].to)
      BY <1>2, <3>1 DEF Kept
    <3>3. <<report.from, report.to>> = <<handler[s].from, handler[s].to>>
      BY <1>1, <3>1 DEF MadeAs, Fits
    <3> QED
      BY <3>1, <3>2, <3>3
  <2>2. report' # None =>
          /\ report'.from = sent /\ sent <= report'.to /\ report'.to <= raw
          /\ report'.answer = "ok" => InTable(report'.from, report'.to)
    BY <1>2, <1>4, <2>1 DEF Kept
  <2>3. \A t \in Slots :
          handler'[t] # None /\ handler'[t].by = "agent" /\ handler'[t].step = "publish" =>
            InTable(handler'[t].from, handler'[t].to)
    BY <1>2, <1>3 DEF Kept, TableTypes
  <2> QED
    BY <1>2, <1>5, <2>2, <2>3 DEF Kept
<1>8. report' # None => Fits(made, "agent", report'.ev, report'.from, report'.to)
  BY <1>1, <1>4 DEF MadeAs
<1>9. \A t \in Slots : handler'[t] # None =>
        Fits(made, handler'[t].by, handler'[t].ev, handler'[t].from, handler'[t].to)
  BY <1>1, <1>2, <1>3 DEF MadeAs, Fits, TableTypes
<1> QED
  BY <1>1, <1>2, <1>6, <1>7, <1>8, <1>9, QuietStep

(* A call's pieces are in the table when it has appended its event, or     *)
(* left it out because the event of its timestamp is there.                *)
LEMMA AppendStep ==
  ASSUME Output, NEW s \in Slots, AppendEvents(s)
  PROVE  Output'
<1>1. PICK made \in [1 .. stamp -> Nat \X Nat] : MadeAs(made)
  BY DEF Output
<1>2. /\ AgentTypes /\ TableTypes /\ Kept /\ EachReportOnce
      /\ UNCHANGED <<raw, sent, stamp, report, cut>>
      /\ handler[s] # None /\ handler' = [handler EXCEPT ![s].step = "publish"]
  BY DEF Output, AppendEvents, job
<1> DEFINE h == handler[s]
           e == [by |-> h.by, ev |-> h.ev, from |-> h.from, to |-> h.to]
<1>3. h \in Calls /\ e \in Events /\ h.from \in Nat /\ h.to \in Nat
  BY <1>2, AppendedTable DEF Calls
<1>4. e.by = h.by /\ e.ev = h.ev /\ e.from = h.from /\ e.to = h.to
  OBVIOUS
<1>5. \/ /\ log' = log
         /\ h.from >= h.to \/ \E i \in 1 .. Len(log) : log[i].ev = h.ev
      \/ /\ log' = Append(log, e)
         /\ h.from < h.to
         /\ \A i \in 1 .. Len(log) : log[i].ev # h.ev
  BY <1>2, AppendedTable
<1>6. PICK g \in Calls :
        /\ handler' = [handler EXCEPT ![s] = g]
        /\ g.by = h.by /\ g.ev = h.ev /\ g.from = h.from /\ g.to = h.to
  <2> DEFINE g == [h EXCEPT !.step = "publish"]
  <2>1. handler' = [handler EXCEPT ![s] = g]
    BY <1>2
  <2>2. g \in Calls /\ g.by = h.by /\ g.ev = h.ev /\ g.from = h.from /\ g.to = h.to
    BY <1>3 DEF Calls
  <2> QED
    BY <2>1, <2>2
<1>7. Fits(made, h.by, h.ev, h.from, h.to)
  BY <1>1, <1>2 DEF MadeAs
<1> HIDE DEF e
<1>8. log \in Seq(Events) /\ Len(log) \in Nat
  BY <1>2 DEF TableTypes
<1>9. log' = Append(log, e) => /\ log' \in Seq(Events) /\ Len(log') = Len(log) + 1
                               /\ \A i \in 1 .. Len(log) : log'[i] = log[i]
                               /\ log'[Len(log) + 1] = e
  BY <1>3, <1>8, AppendProperties
<1>10. Grows /\ TableTypes' /\ AgentTypes'
  BY <1>2, <1>5, <1>6, <1>8, <1>9 DEF Grows, TableTypes, AgentTypes
<1>11. EachReportOnce'
  <2>1. CASE log' = log
    BY <1>2, <2>1 DEF EachReportOnce
  <2>2. CASE log' = Append(log, e) /\ \A i \in 1 .. Len(log) : log[i].ev # h.ev
    BY <1>2, <1>4, <1>8, <1>9, <2>2 DEF EachReportOnce
  <2> QED
    BY <1>5, <2>1, <2>2
<1>12. h.by = "agent" => InTable(h.from, h.to)'
  <2> SUFFICES ASSUME h.by = "agent", NEW p \in h.from + 1 .. h.to
               PROVE  \E i \in 1 .. Len(log') :
                        log'[i].by = "agent" /\ log'[i].from < p /\ p <= log'[i].to
    BY <1>6 DEF InTable, Stored
  <2>1. CASE log' = log
    <3>1. PICK i \in 1 .. Len(log) : log[i].ev = h.ev
      BY <1>3, <1>5, <1>8, <1>9, <2>1
    <3>2. Fits(made, log[i].by, log[i].ev, log[i].from, log[i].to)
      BY <1>1 DEF MadeAs
    <3>3. log[i].by = "agent" /\ <<log[i].from, log[i].to>> = <<h.from, h.to>>
      BY <1>2, <1>7, <3>1, <3>2 DEF Fits, AgentTypes
    <3> QED
      BY <1>3, <2>1, <3>3
  <2>2. CASE log' = Append(log, e)
    <3>1. Len(log) + 1 \in 1 .. Len(log')
      BY <1>8, <1>9, <2>2
    <3> QED
      BY <1>3, <1>4, <1>9, <2>2, <3>1
  <2> QED
    BY <1>5, <2>1, <2>2
<1>13. Kept'
  <2>1. OutputIsKept'
    <3> SUFFICES ASSUME NEW p \in (1 .. sent) \ cut PROVE Stored(p)'
      BY <1>2 DEF OutputIsKept
    <3>1. Stored(p) /\ p \in Nat
      BY <1>2 DEF Kept, OutputIsKept, AgentTypes
    <3>2. PICK i \in 1 .. Len(log) : log[i].by = "agent" /\ log[i].from < p /\ p <= log[i].to
      BY <3>1 DEF Stored
    <3>3. i \in 1 .. Len(log') /\ log'[i] = log[i]
      BY <1>8, <1>10, <3>2 DEF Grows, TableTypes
    <3> QED
      BY <3>2, <3>3 DEF Stored
  <2>2. report' # None =>
          /\ report'.from = sent' /\ sent' <= report'.to /\ report'.to <= raw'
          /\ report'.answer = "ok" => InTable(report.from, report.to)'
    BY <1>2, <1>10, StaysInTable DEF Kept, AgentTypes, Reports
  <2>3. ASSUME NEW t \in Slots,
               handler'[t] # None /\ handler'[t].by = "agent" /\ handler'[t].step = "publish"
        PROVE  InTable(handler[t].from, handler[t].to)'
    <3>1. CASE t = s
      <4>1. handler'[t] = g /\ handler[t] = h
        BY <1>2, <1>6, <3>1 DEF TableTypes
      <4>2. \A p \in h.from + 1 .. h.to : Stored(p)'
        BY <1>6, <1>12, <2>3, <4>1 DEF InTable
      <4> QED
        BY <1>6, <4>1, <4>2 DEF InTable
    <3>2. CASE t # s
      <4>1. handler'[t] = handler[t] /\ handler[t] \in Calls
        BY <1>2, <1>6, <2>3, <3>2 DEF TableTypes
      <4>2. InTable(handler[t].from, handler[t].to)
        BY <1>2, <2>3, <4>1 DEF Kept
      <4>3. handler[t].from \in Nat /\ handler[t].to \in Nat
        BY <4>1 DEF Calls
      <4>4. \A p \in handler[t].from + 1 .. handler[t].to : Stored(p)'
        BY <1>2, <1>10, <4>2, <4>3, StaysInTable DEF InTable
      <4> QED
        BY <4>1, <4>4 DEF InTable
    <3> QED
      BY <3>1, <3>2
  <2> QED
    BY <2>1, <2>2, <2>3 DEF Kept
<1>14. MadeAs(made)'
  <2>1. ASSUME NEW i \in 1 .. Len(log')
        PROVE  Fits(made, log[i].by, log[i].ev, log[i].from, log[i].to)'
    <3>1. CASE i \in 1 .. Len(log)
      BY <1>1, <1>2, <1>10, <3>1 DEF MadeAs, Fits, Grows
    <3>2. CASE i \notin 1 .. Len(log)
      <4>1. i = Len(log) + 1 /\ log'[i] = e
        BY <1>5, <1>8, <1>9, <3>2
      <4> QED
        BY <1>2, <1>4, <1>7, <4>1 DEF Fits
    <3> QED
      BY <3>1, <3>2
  <2>2. ASSUME NEW t \in Slots, handler'[t] # None
        PROVE  Fits(made, handler[t].by, handler[t].ev, handler[t].from, handler[t].to)'
    BY <1>1, <1>2, <1>6, <1>7, <2>2 DEF MadeAs, Fits, TableTypes
  <2>3. report' # None => Fits(made, "agent", report.ev, report.from, report.to)'
    BY <1>1, <1>2 DEF MadeAs, Fits
  <2> QED
    BY <2>1, <2>2, <2>3 DEF MadeAs
<1>15. made \in [1 .. stamp' -> Nat \X Nat]
  BY <1>2
<1> QED
  BY <1>10, <1>11, <1>13, <1>14, <1>15 DEF Output

LEMMA OutputStep == Output /\ [Next]_vars => Output'
<1> SUFFICES ASSUME Output, [Next]_vars PROVE Output'
  OBVIOUS
<1>1. CASE UNCHANGED <<job, log, handler, cut>>
  BY <1>1 DEF job, Output, AgentTypes, TableTypes, EachReportOnce, Kept, OutputIsKept, InTable,
       Stored, MadeAs, Fits
<1>2. CASE Write \/ SnapshotTooLate \/ Interrupted \/ CancelRun \/ BreakReport \/ Crash
  BY <1>2, AgentStep
<1>3. ASSUME NEW kind \in {"snapshot", "phase", "last"}, Report(kind) PROVE Output'
  BY <1>3, ReportStep
<1>4. ASSUME NEW how \in {"ok", "error"}, ReportEnds(how) PROVE Output'
  BY <1>4, ReportEndsStep
<1>5. ASSUME NEW s \in Slots,
             \/ Update(s) \/ AppendFails(s) \/ Publish(s)
             \/ \E by \in {"user", "maintenance"} : EndJob(s, by)
      PROVE  Output'
  BY <1>5, HandlerStep
<1>6. ASSUME NEW s \in Slots, AppendEvents(s) PROVE Output'
  BY <1>6, AppendStep
<1>7. ASSUME NEW v \in Viewers, Open(v) \/ Stream(v) \/ Receive(v) \/ ReadFails(v) \/ BreakStream(v)
      PROVE  Output'
  <2>1. UNCHANGED <<job, log, handler, cut>>
    BY <1>7 DEF Open, Stream, Watch, First, ReadRow, ReadPage, Wake, Receive, ReadFails, BreakStream,
         table
  <2> QED
    BY <1>1, <2>1
<1> QED
  BY <1>1, <1>2, <1>3, <1>4, <1>5, <1>6, <1>7 DEF Next, Handle, OtherChange, vars, table
-----------------------------------------------------------------------------
(* What is left of the types: what is counted, and what says who is where. *)
Markers == {None, "empty", "resync", "job", "other"}

Bounded ==
  /\ raw <= MaxOutput /\ stamp <= MaxReports /\ faults \in 0 .. MaxFaults
  /\ agent \in {"runs", "done", "gone"} /\ cancelled \in BOOLEAN /\ row \in {"running", "ended"}
  /\ report # None => report.tries \in 1 .. Attempts
  /\ inbox \in [Viewers -> Markers]

LEMMA InitBounded == Init => Bounded
<1> SUFFICES ASSUME Init PROVE Bounded
  OBVIOUS
<1>1. raw <= MaxOutput /\ stamp <= MaxReports /\ faults \in 0 .. MaxFaults
  BY OutputAssumption DEF Init
<1>2. inbox \in [Viewers -> Markers]
  BY DEF Init, Markers
<1>3. report = None /\ agent = "runs" /\ cancelled = FALSE /\ row = "running"
  BY DEF Init
<1> QED
  BY <1>1, <1>2, <1>3 DEF Bounded

LEMMA FaultCounted ==
  ASSUME Bounded, NEW what, Fails(what)
  PROVE  faults' \in 0 .. MaxFaults
BY OutputAssumption DEF Bounded, Fails

LEMMA BroadcastMarks ==
  ASSUME Bounded, NEW change \in {"job", "other"}, Broadcast(change)
  PROVE  inbox' \in [Viewers -> Markers]
BY DEF Bounded, Broadcast, Markers

(* An answer changes nothing of a report but the answer. *)
LEMMA SameTries ==
  ASSUME Output, Bounded,
         \/ report' \in {report, None}
         \/ report # None /\ \E a : report' = [report EXCEPT !.answer = a]
  PROVE  report' # None => report'.tries \in 1 .. Attempts
<1>1. CASE report' \in {report, None}
  BY <1>1 DEF Bounded
<1>2. ASSUME NEW a, report # None, report' = [report EXCEPT !.answer = a]
      PROVE  report'.tries \in 1 .. Attempts
  <2>1. report \in Reports
    BY <1>2 DEF Output, AgentTypes
  <2>2. report'.tries = report.tries
    BY <1>2, <2>1 DEF Reports
  <2> QED
    BY <1>2, <2>2 DEF Bounded
<1> QED
  BY <1>1, <1>2

LEMMA BoundedStep == Output /\ Bounded /\ [Next]_vars => Bounded'
<1> SUFFICES ASSUME Output, Bounded, [Next]_vars PROVE Bounded'
  OBVIOUS
<1>0. AgentTypes /\ Attempts \in Nat \ {0} /\ MaxOutput \in Nat /\ MaxReports \in Nat
  BY OutputAssumption DEF Output
<1>1. CASE UNCHANGED <<job, row, inbox, faults>>
  BY <1>1 DEF job, Bounded
<1>2. CASE Write \/ SnapshotTooLate
  BY <1>0, <1>2 DEF Write, SnapshotTooLate, Bounded, table, viewing, AgentTypes
<1>14. CASE Interrupted
  <2>1. faults' \in 0 .. MaxFaults
    BY <1>14, FaultCounted DEF Interrupted, Bounded
  <2> QED
    BY <1>14, <2>1 DEF Interrupted, Bounded, table, viewing
<1>3. CASE CancelRun
  <2>1. faults' \in 0 .. MaxFaults
    BY <1>3, FaultCounted DEF CancelRun, Bounded
  <2> QED
    BY <1>3, <2>1 DEF CancelRun, Bounded, table, viewing
<1>4. CASE BreakReport
  <2>1. faults' \in 0 .. MaxFaults
    BY <1>4, FaultCounted DEF BreakReport
  <2>2. report' # None => report'.tries \in 1 .. Attempts
    BY <1>4, SameTries DEF BreakReport
  <2> QED
    BY <1>4, <2>1, <2>2 DEF BreakReport, Bounded, table, viewing
<1>5. CASE OtherChange
  <2>1. inbox' \in [Viewers -> Markers]
    BY <1>5, BroadcastMarks DEF OtherChange
  <2> QED
    BY <1>5, <2>1 DEF OtherChange, Bounded, job, table
<1>6. CASE Crash
  <2>1. faults' \in 0 .. MaxFaults
    BY <1>6, FaultCounted DEF Crash
  <2>2. report' # None => report'.tries \in 1 .. Attempts
    BY <1>6, SameTries DEF Crash
  <2>3. inbox' \in [Viewers -> Markers]
    BY <1>6 DEF Crash, Markers
  <2> QED
    BY <1>6, <2>1, <2>2, <2>3 DEF Crash, Bounded, table
<1>7. ASSUME NEW kind \in {"snapshot", "phase", "last"}, Report(kind) PROVE Bounded'
  <2>1. report'.tries = 1
    BY <1>7 DEF Report, Post
  <2>2. stamp' <= MaxReports
    BY <1>0, <1>7 DEF Report, AgentTypes
  <2> QED
    BY <1>0, <1>7, <2>1, <2>2 DEF Report, Bounded, table, viewing
<1>8. ASSUME NEW how \in {"ok", "error"}, ReportEnds(how) PROVE Bounded'
  <2>1. report \in Reports /\ report.tries \in 1 .. Attempts
    BY <1>0, <1>8 DEF ReportEnds, AgentTypes, Bounded
  <2>2. report' # None => report'.tries \in 1 .. Attempts
    <3>1. CASE report' = None
      BY <3>1
    <3>2. CASE report.tries < Attempts /\ Post("last", [report EXCEPT !.tries = @ + 1])
      <4>1. report'.tries = [report EXCEPT !.tries = @ + 1].tries
        BY <3>2 DEF Post
      <4>2. report'.tries = report.tries + 1
        BY <2>1, <4>1 DEF Reports
      <4> QED
        BY <1>0, <2>1, <3>2, <4>2
    <3> QED
      BY <1>8, <3>1, <3>2 DEF ReportEnds
  <2>3. agent' \in {"runs", "done", "gone"}
    BY <1>8 DEF ReportEnds, Bounded
  <2> QED
    BY <1>8, <2>2, <2>3 DEF ReportEnds, Bounded, table, viewing
<1>9. ASSUME NEW s \in Slots, Handle(s) PROVE Bounded'
  <2>1. CASE Update(s)
    BY <2>1 DEF Update, Bounded, job, viewing
  <2>2. CASE AppendEvents(s)
    BY <1>1, <2>2 DEF AppendEvents, viewing
  <2>3. CASE Publish(s)
    <3>1. inbox' \in [Viewers -> Markers]
      BY <2>3, BroadcastMarks DEF Publish, Bounded
    <3>2. report' # None => report'.tries \in 1 .. Attempts
      BY <2>3, SameTries DEF Publish, Answered
    <3> QED
      BY <2>3, <3>1, <3>2 DEF Publish, Bounded, table
  <2> QED
    BY <1>9, <2>1, <2>2, <2>3 DEF Handle
<1>10. ASSUME NEW s \in Slots, AppendFails(s) PROVE Bounded'
  <2>1. faults' \in 0 .. MaxFaults
    BY <1>10, FaultCounted DEF AppendFails
  <2>2. report' # None => report'.tries \in 1 .. Attempts
    BY <1>10, SameTries DEF AppendFails, Answered
  <2> QED
    BY <1>10, <2>1, <2>2 DEF AppendFails, Bounded, table, viewing
<1>11. ASSUME NEW s \in Slots, NEW by \in {"user", "maintenance"}, EndJob(s, by) PROVE Bounded'
  <2>1. faults' \in 0 .. MaxFaults
    BY <1>11, FaultCounted DEF EndJob
  <2> QED
    BY <1>11, <2>1 DEF EndJob, Bounded, job, viewing
<1>12. ASSUME NEW v \in Viewers, Open(v) \/ Stream(v) \/ Receive(v) \/ ReadFails(v) \/ BreakStream(v)
       PROVE  Bounded'
  <2>1. inbox' \in [Viewers -> Markers]
    BY <1>12 DEF Open, Stream, Watch, First, ReadRow, ReadPage, Wake, Receive, ReadFails,
         BreakStream, Bounded, Markers
  <2>2. faults' \in 0 .. MaxFaults
    BY <1>12, FaultCounted DEF Open, Stream, Watch, First, ReadRow, ReadPage, Wake, Receive, ReadFails,
         BreakStream, Bounded
  <2>3. UNCHANGED <<job, row>>
    BY <1>12 DEF Open, Stream, Watch, First, ReadRow, ReadPage, Wake, Receive, ReadFails,
         BreakStream, table
  <2> QED
    BY <2>1, <2>2, <2>3 DEF Bounded, job
<1>13. CASE UNCHANGED vars
  BY <1>1, <1>13 DEF vars, table, viewing
<1> QED
  BY <1>2, <1>3, <1>4, <1>5, <1>6, <1>7, <1>8, <1>9, <1>10, <1>11, <1>12, <1>13, <1>14
     DEF Next

LEMMA AllTyped == TableTypes /\ Views /\ Output /\ Bounded => TypeOK
<1> SUFFICES ASSUME TableTypes, Views, Output, Bounded PROVE TypeOK
  OBVIOUS
<1>1. /\ raw \in 0 .. MaxOutput /\ sent \in 0 .. raw /\ stamp \in 0 .. MaxReports /\ stamp \in Nat
      /\ report # None => report.slot \in Slots
      /\ cut \subseteq 1 .. sent
  BY OutputAssumption DEF Output, AgentTypes, Bounded, Reports
<1>2. PICK made \in [1 .. stamp -> Nat \X Nat] : MadeAs(made)
  BY DEF Output
<1>3. ASSUME NEW i \in 1 .. Len(log) PROVE log[i].by \in Ends /\ log[i].ev \in 0 .. stamp
  <2>1. log[i] \in Events
    BY ElementOfSeq DEF TableTypes
  <2>2. log[i].ev \in 1 .. stamp \/ log[i].ev = 0
    BY <1>2 DEF MadeAs, Fits
  <2> QED
    BY <1>1, <2>1, <2>2 DEF Events
<1>4. \A s \in Slots : handler[s] # None => handler[s].step \in {"arrives", "append", "publish"}
  BY DEF TableTypes, Calls
<1>5. ASSUME NEW v \in Viewers
      PROVE  /\ inbox[v] \in Markers /\ last[v] \in 0 .. Len(log)
             /\ stream[v].pc \in {"off", "watch", "first", "row", "page", "wait", "done"}
  BY DEF Bounded, Views, ViewTypes, ViewFits, Streams
<1> QED
  BY <1>1, <1>3, <1>4, <1>5 DEF TypeOK, Bounded, Ends, Markers
-----------------------------------------------------------------------------
(* What a viewer has received is the beginning of the table, each event    *)
(* once and in order, whatever broke on the way (the cursor that           *)
(* jobOutputStreamCursor reads and the pages of the stream).               *)
THEOREM ViewsAlwaysFollowTheLog == Spec => []ViewsFollowTheLog
<1>1. Init => TableTypes /\ Views
  <2>1. Init => TableTypes
    BY DEF Init, TableTypes
  <2> QED
    BY <2>1, InitViews
<1>2. TableTypes /\ Views /\ Output /\ [Next]_vars => (TableTypes /\ Views)'
  BY ViewStep, OutputStep DEF Output
<1>3. Views => ViewsFollowTheLog
  BY DEF Views, ViewFits, ViewsFollowTheLog
<1>4. Init => Output
  BY InitOutput
<1> QED
  BY <1>1, <1>2, <1>3, <1>4, OutputStep, PTL DEF Spec

(* A report that is delivered again leaves no second copy of its output    *)
(* (AppendJobExecutionEvents).                                             *)
THEOREM EachReportIsStoredOnce == Spec => []EachReportOnce
<1>1. Output => EachReportOnce
  BY DEF Output
<1> QED
  BY <1>1, InitOutput, OutputStep, PTL DEF Spec

(* All the output that an agent has marked as sent is in the table, but    *)
(* for the pieces of snapshots that ended by a deadline or with the run's  *)
(* context (outputReportState, markSent).                                  *)
THEOREM OutputIsAlwaysKept == Spec => []OutputIsKept
<1>1. Output => OutputIsKept
  BY DEF Output, Kept
<1> QED
  BY <1>1, InitOutput, OutputStep, PTL DEF Spec

(* The report in hand, the rows, the markers and the streams have their    *)
(* types, and every timestamp in the table is one that the agent gave.     *)
THEOREM TypeCorrect == Spec => []TypeOK
<1>1. Init => TableTypes /\ Views /\ Output /\ Bounded
  BY InitViews, InitOutput, InitBounded DEF Output
<1>2. TableTypes /\ Views /\ Output /\ Bounded /\ [Next]_vars => (TableTypes /\ Views /\ Output /\ Bounded)'
  BY ViewStep, OutputStep, BoundedStep DEF Output
<1> QED
  BY <1>1, <1>2, AllTyped, PTL DEF Spec
=============================================================================
