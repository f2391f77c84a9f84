--------------------------- MODULE JobStore_proofs ---------------------------
EXTENDS JobStore, TLAPS

(* One conjunct per fact that the steps need of one another. *)
TimesPast ==
  \A j \in Jobs : row[j].created <= now /\ row[j].started <= now

CreatedSoFar ==
  \A j \in Jobs : /\ row[j].status = "absent" <=> j > lastJob
                  /\ row[j].status = "absent" => granted[j] = {}
                  /\ Exists(j) => row[j].created # 0

(* A call that has read a row: what it read still fits the row. *)
UpdateCoherent(u) ==
  /\ u.job \in Jobs
  /\ u.status \in Reported
  /\ u.at # 0 /\ u.at <= now
  /\ row[u.job].status # "absent"
  /\ row[u.job].created <= u.at
  /\ u.started # 0 => row[u.job].created <= u.started /\ u.started <= u.at
  /\ u.finished # 0 => row[u.job].status \in Terminal \cup {"deleted"}

LeaseCoherent(u) ==
  /\ u.agent \in Agents
  /\ \A j \in u.cand : row[j].status # "absent" /\ row[j].deps = "clear"

CallsCoherent ==
  \A c \in Calls : /\ call[c].pc = "update" => UpdateCoherent(call[c])
                   /\ call[c].pc = "lease" => LeaseCoherent(call[c])

PassCoherent ==
  /\ pass.pc # "idle" => pass.at # 0 /\ pass.at <= now
  /\ pass.pc = "reap" => \A j \in pass.cand : /\ row[j].status # "absent"
                                              /\ row[j].created <= pass.at

RowsInv ==
  /\ RowCoherent
  /\ TimelinePossible
  /\ BlockedNeverGranted
  /\ TimesPast
  /\ CreatedSoFar

IInv == TypeOK /\ RowsInv /\ CallsCoherent /\ PassCoherent

(* What every step does to the table, as far as a call or a pass that      *)
(* looked at it before has to know.                                        *)
RowsProgress ==
  \A j \in Jobs :
    /\ row[j].status # "absent" => /\ row'[j].status # "absent"
                                   /\ row'[j].created <= row[j].created
                                   /\ row[j].deps = "clear" => row'[j].deps = "clear"
    /\ row[j].status \in Terminal \cup {"deleted"} => row'[j].status \in Terminal \cup {"deleted"}
    /\ granted[j] \subseteq granted'[j]

(* The constant records are members of their types; the steps below use    *)
(* their fields only through these facts.                                  *)
LEMMA AbsentRowFacts ==
  /\ AbsentRow \in Row
  /\ AbsentRow.status = "absent" /\ AbsentRow.leasedBy = NoAgent /\ AbsentRow.leasedUTC = 0
  /\ AbsentRow.created = 0 /\ AbsentRow.started = 0 /\ AbsentRow.finished = 0
  /\ AbsentRow.error = "none" /\ AbsentRow.deps = "clear"
  BY BoundsAssumption DEF AbsentRow, Row, Time

LEMMA IdleCallFacts == IdleCall \in Call /\ IdleCall.pc = "idle"
  BY BoundsAssumption DEF IdleCall, Call, Time

LEMMA IdlePassFacts == IdlePass \in Pass /\ IdlePass.pc = "idle"
  BY BoundsAssumption DEF IdlePass, Pass, Time

LEMMA QueuedRowType ==
  ASSUME NEW t \in Time, NEW d \in {"clear", "blocked"}
  PROVE  [AbsentRow EXCEPT !.status = "queued", !.created = t, !.deps = d] \in Row
  BY AbsentRowFacts DEF Row, Active

LEMMA InitIInv == Init => IInv
<1> SUFFICES ASSUME Init PROVE IInv
  OBVIOUS
<1>1. TypeOK
  BY AbsentRowFacts, IdleCallFacts, IdlePassFacts, BoundsAssumption DEF Init, TypeOK, Time
<1>2. /\ \A j \in Jobs : row[j] = AbsentRow /\ granted[j] = {}
      /\ \A c \in Calls : call[c] = IdleCall
      /\ lastJob = 0 /\ now = 1 /\ pass = IdlePass
  BY DEF Init
<1>3. \A j \in Jobs : j > 0
  BY DEF Jobs
<1>4. RowCoherent
  BY <1>2, AbsentRowFacts DEF RowCoherent, Terminal
<1>5. BlockedNeverGranted
  BY <1>2, AbsentRowFacts DEF BlockedNeverGranted
<1>8. TimelinePossible
  BY <1>2, AbsentRowFacts DEF TimelinePossible
<1>9. TimesPast
  BY <1>2, AbsentRowFacts DEF TimesPast
<1>6. CreatedSoFar
  BY <1>2, <1>3, AbsentRowFacts DEF CreatedSoFar, Exists, Active, Terminal
<1>7. CallsCoherent /\ PassCoherent
  BY <1>2, IdleCallFacts, IdlePassFacts DEF CallsCoherent, PassCoherent
<1> QED
  BY <1>1, <1>4, <1>5, <1>6, <1>7, <1>8, <1>9 DEF IInv, RowsInv

LEMMA TypeCreate ==
  ASSUME TypeOK, NEW n \in 1 .. MaxJobs, NEW B, CreateJobExecutions(n, B)
  PROVE  TypeOK'
<1>1. \A j \in Jobs : row'[j] \in Row
  BY QueuedRowType DEF CreateJobExecutions, TypeOK
<1>2. row' \in [Jobs -> Row]
  BY <1>1 DEF CreateJobExecutions
<1>3. lastJob' \in 0 .. MaxJobs
  <2>1. lastJob + n \in lastJob + 1 .. lastJob + n
    BY BoundsAssumption DEF TypeOK
  <2>2. lastJob + n \in Jobs
    BY <2>1 DEF CreateJobExecutions
  <2>3. lastJob' = lastJob + n
    BY DEF CreateJobExecutions
  <2> QED
    BY <2>2, <2>3 DEF Jobs
<1> QED
  BY <1>2, <1>3 DEF CreateJobExecutions, TypeOK

LEMMA TypeTryLease ==
  ASSUME TypeOK, CallsCoherent, NEW c \in Calls, TryLease(c)
  PROVE  TypeOK'
<1>1. PICK j \in Jobs :
        \/ /\ LeaseRow(j, call[c].agent)
           /\ granted' = [granted EXCEPT ![j] = @ \cup {call[c].agent}]
           /\ call' = [call EXCEPT ![c] = IdleCall]
        \/ /\ \/ call' = [call EXCEPT ![c].cand = @ \ {j}]
              \/ call' = [call EXCEPT ![c] = IdleCall]
           /\ UNCHANGED <<row, granted>>
  BY DEF TryLease
<1>2. call[c] \in Call /\ call[c].agent \in Agents /\ now \in Time
  BY DEF TryLease, TypeOK, CallsCoherent, LeaseCoherent
<1>3. [call[c] EXCEPT !.cand = @ \ {j}] \in Call
  BY <1>2 DEF Call
<1>4. call' \in [Calls -> Call]
  BY <1>1, <1>3, IdleCallFacts DEF TypeOK
<1>5. [row[j] EXCEPT !.status = "leased", !.leasedBy = call[c].agent, !.leasedUTC = now] \in Row
  BY <1>2 DEF TypeOK, Row, Active
<1>6. row' \in [Jobs -> Row]
  BY <1>1, <1>5 DEF TypeOK, LeaseRow
<1>7. granted' \in [Jobs -> SUBSET Agents]
  BY <1>1, <1>2 DEF TypeOK
<1> QED
  BY <1>4, <1>6, <1>7 DEF TypeOK, TryLease

LEMMA TypeWrite ==
  ASSUME TypeOK, CallsCoherent, NEW c \in Calls, WriteJobExecutionStatus(c)
  PROVE  TypeOK'
<1>1. PICK t \in call[c].at .. now, j \in Jobs : StatusRow(j, call[c], t) \/ UNCHANGED row
  BY DEF WriteJobExecutionStatus
<1>2. call[c] \in Call /\ call[c].status \in Reported /\ t \in Time
  BY BoundsAssumption DEF WriteJobExecutionStatus, TypeOK, CallsCoherent, UpdateCoherent, Call, Time
<1>3. ASSUME NEW x \in Time, NEW y \in Time, NEW e \in {"none", "reported"}, NEW s \in Reported
      PROVE  [row[j] EXCEPT !.status = s, !.started = x, !.finished = y, !.error = e] \in Row
  <2>1. row[j] \in Row
    BY DEF TypeOK
  <2>2. s \in Active \cup Terminal
    BY DEF Active, Terminal, Reported
  <2> QED
    BY <2>1, <2>2 DEF Row
<1>4. row' \in [Jobs -> Row]
  <2> DEFINE u == call[c]
             x == IF u.started = 0 THEN t ELSE u.started
             y == IF u.status \in Terminal THEN t ELSE u.finished
             e == IF u.status = "failed" THEN "reported" ELSE "none"
  <2>1. x \in Time /\ y \in Time /\ e \in {"none", "reported"}
    BY <1>2 DEF Call
  <2>2. StatusRow(j, u, t) =>
          row' = [row EXCEPT ![j] = [row[j] EXCEPT !.status = u.status, !.started = x, !.finished = y, !.error = e]]
    BY DEF StatusRow
  <2> HIDE DEF x, y, e
  <2>3. row \in [Jobs -> Row]
    BY DEF TypeOK
  <2>4. [row[j] EXCEPT !.status = u.status, !.started = x, !.finished = y, !.error = e] \in Row
    BY <1>2, <1>3, <2>1
  <2> QED
    BY <1>1, <2>2, <2>3, <2>4
<1> QED
  BY <1>4, IdleCallFacts DEF TypeOK, WriteJobExecutionStatus

-----------------------------------------------------------------------------
LEMMA TimesAreNumbers ==
  /\ \A t \in Time : t \in Nat
  /\ \A r \in Row : r.created \in Nat /\ r.started \in Nat /\ r.finished \in Nat /\ r.leasedUTC \in Nat
  /\ \A u \in Call : u.at \in Nat /\ u.started \in Nat /\ u.finished \in Nat
  /\ \A q \in Pass : q.at \in Nat
<1>1. \A t \in Time : t \in Nat
  BY BoundsAssumption DEF Time
<1>2. \A r \in Row : r.created \in Time /\ r.started \in Time /\ r.finished \in Time /\ r.leasedUTC \in Time
  BY DEF Row
<1>3. \A u \in Call : u.at \in Time /\ u.started \in Time /\ u.finished \in Time
  BY DEF Call
<1>4. \A q \in Pass : q.at \in Time
  BY DEF Pass
<1> QED
  BY <1>1, <1>2, <1>3, <1>4

(* A call or a pass that a step leaves alone still fits the table. *)
LEMMA CallKept ==
  ASSUME TypeOK, TypeOK', RowsProgress, now <= now', NEW c \in Calls, call'[c] = call[c]
  PROVE  /\ UpdateCoherent(call[c]) => UpdateCoherent(call[c])'
         /\ LeaseCoherent(call[c]) => LeaseCoherent(call[c])'
<1>1. /\ now \in Nat /\ now' \in Nat
      /\ \A j \in Jobs : row[j].created \in Nat /\ row'[j].created \in Nat
      /\ call[c].at \in Nat /\ call[c].started \in Nat
  BY TimesAreNumbers DEF TypeOK
<1>2. UpdateCoherent(call[c]) => UpdateCoherent(call[c])'
  BY <1>1 DEF UpdateCoherent, RowsProgress
<1>3. LeaseCoherent(call[c]) => LeaseCoherent(call[c])'
  BY DEF LeaseCoherent, RowsProgress, TypeOK, Call
<1> QED
  BY <1>2, <1>3

LEMMA CallsKept ==
  ASSUME TypeOK, TypeOK', CallsCoherent, RowsProgress, now <= now',
         \A c \in Calls : call'[c] = call[c] \/ call'[c].pc \notin {"update", "lease"}
  PROVE  CallsCoherent'
  BY CallKept DEF CallsCoherent

LEMMA PassKept ==
  ASSUME TypeOK, TypeOK', PassCoherent, RowsProgress, now <= now',
         pass'.pc = pass.pc, pass'.at = pass.at, pass'.cand \subseteq pass.cand
  PROVE  PassCoherent'
<1>1. /\ now \in Nat /\ now' \in Nat /\ pass.at \in Nat /\ pass.cand \subseteq Jobs
      /\ \A j \in Jobs : row[j].created \in Nat /\ row'[j].created \in Nat
  BY TimesAreNumbers DEF TypeOK, Pass
<1> QED
  BY <1>1 DEF PassCoherent, RowsProgress

LEMMA RowsKept ==
  ASSUME TypeOK, RowsInv, UNCHANGED <<row, granted, lastJob>>, now <= now', now' \in Nat
  PROVE  RowsInv' /\ RowsProgress
<1>1. now \in Nat /\ \A j \in Jobs : row[j].created \in Nat /\ row[j].started \in Nat
  BY TimesAreNumbers DEF TypeOK
<1>2. RowsProgress
  BY <1>1 DEF RowsProgress
<1>3. TimesPast'
  BY <1>1 DEF RowsInv, TimesPast
<1>4. RowCoherent' /\ TimelinePossible'
  BY DEF RowsInv, RowCoherent, TimelinePossible
<1>5. BlockedNeverGranted' /\ CreatedSoFar'
  BY DEF RowsInv, BlockedNeverGranted, CreatedSoFar, Exists
<1> QED
  BY <1>2, <1>3, <1>4, <1>5 DEF RowsInv

-----------------------------------------------------------------------------
(* The steps that only start a call. *)
LEMMA CallStarted ==
  ASSUME IInv, NEW c \in Calls, NEW u \in Call, call' = [call EXCEPT ![c] = u],
         u.pc = "update" => UpdateCoherent(u),
         u.pc = "lease" => LeaseCoherent(u),
         UNCHANGED <<row, lastJob, granted, now, pass>>
  PROVE  IInv' /\ RowsProgress
<1>1. now' \in Nat /\ now <= now' /\ call \in [Calls -> Call]
  BY TimesAreNumbers DEF IInv, TypeOK
<1>2. TypeOK'
  BY DEF IInv, TypeOK
<1>3. RowsInv' /\ RowsProgress
  BY <1>1, RowsKept DEF IInv
<1>4. ASSUME NEW d \in Calls
      PROVE  /\ call'[d].pc = "update" => UpdateCoherent(call[d])'
             /\ call'[d].pc = "lease" => LeaseCoherent(call[d])'
  <2>1. CASE d = c
    BY <2>1, <1>1 DEF UpdateCoherent, LeaseCoherent
  <2>2. CASE d # c
    <3>1. call'[d] = call[d]
      BY <2>2, <1>1
    <3> QED
      BY <3>1, <1>1, <1>2, <1>3, CallKept DEF IInv, CallsCoherent
  <2> QED
    BY <2>1, <2>2
<1>5. CallsCoherent'
  BY <1>4 DEF CallsCoherent
<1>6. PassCoherent'
  BY <1>1, <1>2, <1>3, PassKept DEF IInv
<1> QED
  BY <1>2, <1>3, <1>5, <1>6 DEF IInv

LEMMA BeginLeaseStep ==
  ASSUME IInv, NEW c \in Calls, NEW a \in Agents, BeginLease(c, a)
  PROVE  IInv' /\ RowsProgress
<1>1. PICK u \in Call : /\ call' = [call EXCEPT ![c] = u]
                        /\ u.pc = "lease" /\ u.agent = a /\ u.cand = LeaseCandidates(a)
  <2> DEFINE u == [IdleCall EXCEPT !.pc = "lease", !.agent = a, !.cand = LeaseCandidates(a)]
  <2> u \in Call /\ u.pc = "lease" /\ u.agent = a /\ u.cand = LeaseCandidates(a)
    BY IdleCallFacts DEF Call, LeaseCandidates
  <2> QED
    BY DEF BeginLease
<1>2. LeaseCoherent(u)
  BY <1>1 DEF LeaseCoherent, LeaseCandidates
<1> QED
  BY <1>1, <1>2, CallStarted DEF BeginLease

LEMMA BeginUpdateStep ==
  ASSUME IInv, NEW c \in Calls, NEW a \in Agents \cup {ServerControl}, NEW s \in Reported, NEW j \in Jobs,
         BeginUpdateJobExecutionStatus(c, a, s, j)
  PROVE  IInv' /\ RowsProgress
<1>1. row[j] \in Row /\ now \in Time
  BY DEF IInv, TypeOK
<1>2. PICK u \in Call : /\ call' = [call EXCEPT ![c] = u]
                        /\ u.pc = "update" /\ u.job = j /\ u.status = s /\ u.at = now
                        /\ u.started = row[j].started /\ u.finished = row[j].finished
  <2> DEFINE u == [IdleCall EXCEPT !.pc = "update", !.agent = a, !.job = j, !.status = s, !.at = now,
                                   !.started = row[j].started, !.finished = row[j].finished]
  <2> row[j].started \in Time /\ row[j].finished \in Time
    BY <1>1 DEF Row
  <2> j \in Nat
    BY BoundsAssumption DEF Jobs
  <2> u \in Call
    BY IdleCallFacts, <1>1 DEF Call
  <2> /\ u.pc = "update" /\ u.job = j /\ u.status = s /\ u.at = now
      /\ u.started = row[j].started /\ u.finished = row[j].finished
    BY IdleCallFacts DEF Call
  <2> QED
    BY DEF BeginUpdateJobExecutionStatus
<1>4. /\ now \in Nat /\ now # 0 /\ row[j].created <= now /\ row[j].started <= now
      /\ row[j].started # 0 => row[j].created <= row[j].started
      /\ row[j].finished # 0 => row[j].status \in Terminal
  BY TimesAreNumbers DEF IInv, TypeOK, RowsInv, TimesPast, TimelinePossible, RowCoherent
<1>5. UpdateCoherent(u)
  BY <1>2, <1>4 DEF UpdateCoherent, BeginUpdateJobExecutionStatus, Exists, Active, Terminal
<1> QED
  BY <1>2, <1>5, CallStarted DEF BeginUpdateJobExecutionStatus

LEMMA BeginFlushStep ==
  ASSUME IInv, NEW c \in Calls, NEW ids \in SUBSET Jobs, BeginFlush(c, ids)
  PROVE  IInv' /\ RowsProgress
<1>1. PICK u \in Call : call' = [call EXCEPT ![c] = u] /\ u.pc = "flush"
  <2> DEFINE u == [IdleCall EXCEPT !.pc = "flush", !.cand = ids]
  <2> u \in Call /\ u.pc = "flush"
    BY IdleCallFacts DEF Call
  <2> QED
    BY DEF BeginFlush
<1> QED
  BY <1>1, CallStarted DEF BeginFlush

-----------------------------------------------------------------------------
(* The clock, a restart, and the steps of the pass that only list. *)
LEMMA TickStep ==
  ASSUME IInv, Tick
  PROVE  IInv' /\ RowsProgress
<1>1. now \in Nat /\ now' \in Nat /\ now <= now' /\ now' \in Time \ {0}
  BY TimesAreNumbers, BoundsAssumption DEF IInv, TypeOK, Tick, Time
<1>2. TypeOK'
  BY <1>1 DEF IInv, TypeOK, Tick
<1>3. RowsInv' /\ RowsProgress
  BY <1>1, RowsKept DEF IInv, Tick
<1>4. CallsCoherent'
  BY <1>1, <1>2, <1>3, CallsKept DEF IInv, Tick
<1>5. PassCoherent'
  BY <1>1, <1>2, <1>3, PassKept DEF IInv, Tick
<1> QED
  BY <1>2, <1>3, <1>4, <1>5 DEF IInv

LEMMA RestartStep ==
  ASSUME IInv, Restart
  PROVE  IInv' /\ RowsProgress
<1>1. now' \in Nat /\ now <= now'
  BY TimesAreNumbers DEF IInv, TypeOK, Restart
<1>2. TypeOK'
  BY IdleCallFacts, IdlePassFacts DEF IInv, TypeOK, Restart
<1>3. RowsInv' /\ RowsProgress
  BY <1>1, RowsKept DEF IInv, Restart
<1>4. CallsCoherent'
  BY IdleCallFacts DEF Restart, CallsCoherent
<1>5. PassCoherent'
  BY IdlePassFacts DEF Restart, PassCoherent
<1> QED
  BY <1>2, <1>3, <1>4, <1>5 DEF IInv

LEMMA PassListStep ==
  ASSUME IInv, BeginPass \/ BeginReap \/ EndPass
  PROVE  IInv' /\ RowsProgress
<1>1. /\ now \in Nat /\ now # 0 /\ now' \in Nat /\ now <= now' /\ now' = now
      /\ UNCHANGED <<row, lastJob, granted, call>>
  BY TimesAreNumbers DEF IInv, TypeOK, BeginPass, BeginReap, EndPass
<1>2. /\ StaleLeases(now) \subseteq Jobs
      /\ TimedOut(pass.at) \subseteq Jobs
      /\ \A j \in TimedOut(pass.at) : row[j].status # "absent" /\ row[j].created <= pass.at
  <2>1. \A j \in TimedOut(pass.at) :
          /\ j \in Jobs /\ row[j].status = "running" /\ row[j].started # 0
          /\ row[j].started + Timeout[j] + ReaperGrace <= pass.at
    BY DEF TimedOut
  <2>2. \A j \in Jobs : /\ row[j].created \in Nat /\ row[j].started \in Nat
                        /\ Timeout[j] \in Nat
                        /\ row[j].started # 0 => row[j].created <= row[j].started
    BY TimesAreNumbers, TimersAssumption DEF IInv, TypeOK, RowsInv, TimelinePossible
  <2>3. ReaperGrace \in Nat /\ pass.at \in Nat
    BY TimesAreNumbers, TimersAssumption DEF IInv, TypeOK
  <2> QED
    BY <2>1, <2>2, <2>3 DEF StaleLeases, TimedOut
<1>3. TypeOK'
  <2>1. pass \in Pass /\ now \in Time
    BY DEF IInv, TypeOK
  <2>5. pass' \in Pass
    <3>1. CASE BeginPass
      BY <3>1, <2>1, <1>2 DEF BeginPass, Pass
    <3>2. CASE BeginReap
      BY <3>2, <2>1, <1>2 DEF BeginReap, Pass
    <3>3. CASE EndPass
      BY <3>3, IdlePassFacts DEF EndPass
    <3> QED
      BY <3>1, <3>2, <3>3
  <2> QED
    BY <2>5, <1>1 DEF IInv, TypeOK
<1>4. RowsInv' /\ RowsProgress
  BY <1>1, RowsKept DEF IInv
<1>5. CallsCoherent'
  BY <1>1, <1>3, <1>4, CallsKept DEF IInv
<1>6. PassCoherent'
  <2>1. CASE BeginPass
    BY <2>1, <1>1 DEF BeginPass, PassCoherent
  <2>2. CASE BeginReap
    <3>1. /\ pass'.pc = "reap" /\ pass'.at = pass.at /\ pass'.cand = TimedOut(pass.at)
          /\ pass.pc = "requeue"
      BY <2>2 DEF BeginReap, IInv, TypeOK, Pass
    <3> QED
      BY <3>1, <1>1, <1>2 DEF PassCoherent, IInv
  <2>3. CASE EndPass
    BY <2>3, IdlePassFacts DEF EndPass, PassCoherent
  <2> QED
    BY <2>1, <2>2, <2>3
<1> QED
  BY <1>3, <1>4, <1>5, <1>6 DEF IInv

-----------------------------------------------------------------------------
(* Steps that write the table.  What RowsInv asks of one row that exists,  *)
(* and what such a step may do to a row.                                   *)
RowGood(r, g, t) ==
  /\ r.status # "absent"
  /\ r.status \in {"deleted", "queued"} => r.leasedBy = NoAgent /\ r.leasedUTC = 0
  /\ r.status = "leased" => r.leasedBy # NoAgent /\ r.leasedUTC # 0
  /\ r.started # 0 <=> r.status \in {"running"} \cup Terminal
  /\ r.finished # 0 <=> r.status \in Terminal
  /\ r.status = "succeeded" => r.error = "none"
  /\ r.leasedUTC # 0 => r.created <= r.leasedUTC
  /\ r.started # 0 => r.created <= r.started
  /\ r.finished # 0 => r.created <= r.finished
  /\ r.finished # 0 /\ r.error # "timed out" => r.started <= r.finished
  /\ r.deps = "blocked" => g = {}
  /\ r.created <= t /\ r.started <= t
  /\ r.status # "deleted" => r.created # 0

RowMoves(r, s) ==
  /\ s.created <= r.created
  /\ r.deps = "clear" => s.deps = "clear"
  /\ r.status \in Terminal \cup {"deleted"} => s.status \in Terminal \cup {"deleted"}

LEMMA RowIsGood ==
  ASSUME IInv, NEW j \in Jobs, row[j].status # "absent"
  PROVE  RowGood(row[j], granted[j], now)
<1>1. row[j].status \in Active \cup Terminal \cup {"deleted"}
  BY DEF IInv, TypeOK, Row
<1> QED
  BY <1>1 DEF IInv, RowsInv, RowGood, RowCoherent, TimelinePossible, BlockedNeverGranted,
              TimesPast, CreatedSoFar, Exists

LEMMA RowsWritten ==
  ASSUME IInv, TypeOK', UNCHANGED <<now, lastJob>>,
         \A j \in Jobs : \/ row'[j] = row[j] /\ granted'[j] = granted[j]
                         \/ /\ row[j].status # "absent"
                            /\ RowGood(row'[j], granted'[j], now)
                            /\ RowMoves(row[j], row'[j])
                            /\ granted[j] \subseteq granted'[j]
  PROVE  RowsInv' /\ RowsProgress
<1>1. /\ now \in Nat /\ now' = now
      /\ \A j \in Jobs : row[j].created \in Nat /\ row[j].started \in Nat /\ row'[j].created \in Nat
  BY TimesAreNumbers DEF IInv, TypeOK
<1>2. RowsProgress
  <2> SUFFICES ASSUME NEW j \in Jobs
               PROVE  /\ row[j].status # "absent" =>
                             /\ row'[j].status # "absent"
                             /\ row'[j].created <= row[j].created
                             /\ row[j].deps = "clear" => row'[j].deps = "clear"
                      /\ row[j].status \in Terminal \cup {"deleted"} => row'[j].status \in Terminal \cup {"deleted"}
                      /\ granted[j] \subseteq granted'[j]
    BY DEF RowsProgress
  <2>1. CASE row'[j] = row[j] /\ granted'[j] = granted[j]
    BY <1>1, <2>1
  <2>2. CASE /\ row[j].status # "absent"
             /\ RowGood(row'[j], granted'[j], now)
             /\ RowMoves(row[j], row'[j])
             /\ granted[j] \subseteq granted'[j]
    BY <2>2 DEF RowGood, RowMoves
  <2> QED
    BY <2>1, <2>2
<1>3. ASSUME NEW j \in Jobs
      PROVE  (row'[j] = row[j] /\ granted'[j] = granted[j]) \/ RowGood(row'[j], granted'[j], now)
  OBVIOUS
<1>4. RowCoherent'
  BY <1>3 DEF RowCoherent, RowGood, IInv, RowsInv
<1>5. TimelinePossible'
  BY <1>3 DEF TimelinePossible, RowGood, IInv, RowsInv
<1>6. BlockedNeverGranted'
  BY <1>3 DEF BlockedNeverGranted, RowGood, IInv, RowsInv
<1>7. TimesPast'
  BY <1>1, <1>3 DEF TimesPast, RowGood, IInv, RowsInv
<1>8. CreatedSoFar'
  BY DEF CreatedSoFar, Exists, Active, Terminal, RowGood, IInv, RowsInv
<1> QED
  BY <1>2, <1>4, <1>5, <1>6, <1>7, <1>8 DEF RowsInv

(* Such a step keeps the whole invariant if it starts no update, gives no  *)
(* lease call new candidates and lets the pass only get on with its list.  *)
LEMMA TableStep ==
  ASSUME IInv, TypeOK', UNCHANGED <<now, lastJob>>,
         \A j \in Jobs : \/ row'[j] = row[j] /\ granted'[j] = granted[j]
                         \/ /\ row[j].status # "absent"
                            /\ RowGood(row'[j], granted'[j], now)
                            /\ RowMoves(row[j], row'[j])
                            /\ granted[j] \subseteq granted'[j],
         \A c \in Calls : \/ call'[c] = call[c]
                          \/ call'[c].pc \notin {"update", "lease"}
                          \/ /\ call'[c].pc = "lease" /\ call[c].pc = "lease"
                             /\ call'[c].agent = call[c].agent
                             /\ call'[c].cand \subseteq call[c].cand,
         pass'.pc = pass.pc, pass'.at = pass.at, pass'.cand \subseteq pass.cand
  PROVE  IInv' /\ RowsProgress
<1>1. RowsInv' /\ RowsProgress
  BY RowsWritten
<1>2. now \in Nat /\ now <= now'
  BY TimesAreNumbers DEF IInv, TypeOK
<1>3. PassCoherent'
  BY <1>1, <1>2, PassKept DEF IInv
<1>4. ASSUME NEW c \in Calls
      PROVE  /\ call'[c].pc = "update" => UpdateCoherent(call[c])'
             /\ call'[c].pc = "lease" => LeaseCoherent(call[c])'
  <2>1. CASE call'[c] = call[c]
    BY <2>1, <1>1, <1>2, CallKept DEF IInv, CallsCoherent
  <2>2. CASE call'[c].pc \notin {"update", "lease"}
    BY <2>2
  <2>3. CASE /\ call'[c].pc = "lease" /\ call[c].pc = "lease"
             /\ call'[c].agent = call[c].agent
             /\ call'[c].cand \subseteq call[c].cand
    <3>1. LeaseCoherent(call[c]) /\ call[c].cand \subseteq Jobs
      BY <2>3 DEF IInv, CallsCoherent, TypeOK, Call
    <3>2. LeaseCoherent(call[c])'
      BY <3>1, <2>3, <1>1 DEF LeaseCoherent, RowsProgress
    <3> QED
      BY <3>2, <2>3
  <2> QED
    BY <2>1, <2>2, <2>3
<1>5. CallsCoherent'
  BY <1>4 DEF CallsCoherent
<1> QED
  BY <1>1, <1>3, <1>5 DEF IInv

(* One row changes, and nobody is granted anything. *)
LEMMA RowStep ==
  ASSUME IInv, NEW j \in Jobs, row[j].status # "absent", NEW r \in Row,
         row' = [row EXCEPT ![j] = r], RowGood(r, granted[j], now), RowMoves(row[j], r),
         UNCHANGED <<lastJob, granted, now>>,
         \A c \in Calls : call'[c] = call[c] \/ call'[c].pc \notin {"update", "lease"},
         call' \in [Calls -> Call], pass' \in Pass,
         pass'.pc = pass.pc, pass'.at = pass.at, pass'.cand \subseteq pass.cand
  PROVE  IInv' /\ RowsProgress
<1>1. row \in [Jobs -> Row]
  BY DEF IInv, TypeOK
<1>2. row' \in [Jobs -> Row]
  BY <1>1
<1>3. TypeOK'
  BY <1>2 DEF IInv, TypeOK
<1>4. row'[j] = r /\ \A k \in Jobs : k # j => row'[k] = row[k]
  BY <1>1
<1> QED
  BY <1>3, <1>4, TableStep

LEMMA TryLeaseStep ==
  ASSUME IInv, NEW c \in Calls, TryLease(c)
  PROVE  IInv' /\ RowsProgress
<1>1. TypeOK'
  BY TypeTryLease DEF IInv
<1>2. /\ row \in [Jobs -> Row] /\ granted \in [Jobs -> SUBSET Agents]
      /\ call \in [Calls -> Call] /\ call[c].pc = "lease"
      /\ now \in Nat /\ now # 0 /\ UNCHANGED <<now, lastJob, pass>>
  BY TimesAreNumbers DEF IInv, TypeOK, TryLease
<1>3. LeaseCoherent(call[c])
  BY <1>2 DEF IInv, CallsCoherent
<1>4. PICK j \in Jobs :
        /\ j \in call[c].cand
        /\ \/ /\ row[j].status = "queued"
              /\ LeaseRow(j, call[c].agent)
              /\ granted' = [granted EXCEPT ![j] = @ \cup {call[c].agent}]
              /\ call' = [call EXCEPT ![c] = IdleCall]
           \/ /\ \/ call' = [call EXCEPT ![c].cand = @ \ {j}]
                 \/ call' = [call EXCEPT ![c] = IdleCall]
              /\ UNCHANGED <<row, granted>>
  BY DEF TryLease, Oldest
<1>5. CASE /\ row[j].status = "queued"
           /\ LeaseRow(j, call[c].agent)
           /\ granted' = [granted EXCEPT ![j] = @ \cup {call[c].agent}]
           /\ call' = [call EXCEPT ![c] = IdleCall]
  <2>1. \A k \in Jobs : k # j => row'[k] = row[k] /\ granted'[k] = granted[k]
    BY <1>2, <1>5 DEF LeaseRow
  <2>2. row'[j] = [row[j] EXCEPT !.status = "leased", !.leasedBy = call[c].agent, !.leasedUTC = now]
    BY <1>2, <1>5 DEF LeaseRow
  <2>3. granted[j] \subseteq granted'[j]
    BY <1>2, <1>5
  <2>4. row[j].status # "absent" /\ row[j].deps = "clear" /\ call[c].agent # NoAgent
    BY <1>3, <1>4, AgentsAssumption DEF LeaseCoherent
  <2>5. RowGood(row[j], granted[j], now)
    BY <2>4, RowIsGood
  <2>6. row[j] \in Row /\ row[j].created \in Nat
    BY <1>2, TimesAreNumbers
  <2>7. row'[j].created = row[j].created /\ row'[j].started = row[j].started
        /\ row'[j].finished = row[j].finished /\ row'[j].deps = row[j].deps
        /\ row'[j].status = "leased" /\ row'[j].leasedBy = call[c].agent /\ row'[j].leasedUTC = now
    BY <2>2, <2>6 DEF Row
  <2>8. RowMoves(row[j], row'[j])
    BY <1>5, <2>6, <2>7 DEF RowMoves, Terminal
  <2>9. RowGood(row'[j], granted'[j], now)
    BY <1>2, <1>5, <2>3, <2>4, <2>5, <2>7 DEF RowGood, Terminal
  <2>10. \A d \in Calls : call'[d] = call[d] \/ call'[d].pc \notin {"update", "lease"}
    BY <1>2, <1>5, IdleCallFacts
  <2>11. pass'.pc = pass.pc /\ pass'.at = pass.at /\ pass'.cand \subseteq pass.cand
    BY <1>2
  <2> QED
    BY <1>1, <1>2, <2>1, <2>3, <2>4, <2>8, <2>9, <2>10, <2>11, TableStep
<1>6. CASE /\ \/ call' = [call EXCEPT ![c].cand = @ \ {j}]
              \/ call' = [call EXCEPT ![c] = IdleCall]
           /\ UNCHANGED <<row, granted>>
  <2>1. \A d \in Calls : \/ call'[d] = call[d]
                         \/ call'[d].pc \notin {"update", "lease"}
                         \/ /\ call'[d].pc = "lease" /\ call[d].pc = "lease"
                            /\ call'[d].agent = call[d].agent
                            /\ call'[d].cand \subseteq call[d].cand
    <3>1. CASE call' = [call EXCEPT ![c] = IdleCall]
      BY <1>2, <3>1, IdleCallFacts
    <3>2. CASE call' = [call EXCEPT ![c].cand = @ \ {j}]
      <4>1. call'[c] = [call[c] EXCEPT !.cand = @ \ {j}] /\ \A d \in Calls : d # c => call'[d] = call[d]
        BY <1>2, <3>2
      <4>2. call[c] \in Call
        BY <1>2
      <4>3. call'[c].pc = "lease" /\ call'[c].agent = call[c].agent /\ call'[c].cand \subseteq call[c].cand
        BY <1>2, <4>1, <4>2 DEF Call
      <4> QED
        BY <1>2, <4>1, <4>3
    <3> QED
      BY <1>6, <3>1, <3>2
  <2> QED
    BY <1>1, <1>2, <1>6, <2>1, TableStep
<1> QED
  BY <1>4, <1>5, <1>6

LEMMA WriteStep ==
  ASSUME IInv, NEW c \in Calls, WriteJobExecutionStatus(c)
  PROVE  IInv' /\ RowsProgress
<1>1. TypeOK'
  BY TypeWrite DEF IInv
<1>2. /\ row \in [Jobs -> Row] /\ call \in [Calls -> Call] /\ call[c].pc = "update"
      /\ now \in Nat /\ UNCHANGED <<lastJob, granted, now, pass>>
      /\ call' = [call EXCEPT ![c] = IdleCall]
  BY TimesAreNumbers DEF IInv, TypeOK, WriteJobExecutionStatus
<1>3. UpdateCoherent(call[c])
  BY <1>2 DEF IInv, CallsCoherent
<1>4. \A d \in Calls : call'[d] = call[d] \/ call'[d].pc \notin {"update", "lease"}
  BY <1>2, IdleCallFacts
<1>5. pass'.pc = pass.pc /\ pass'.at = pass.at /\ pass'.cand \subseteq pass.cand
  BY <1>2
<1>6. PICK t \in call[c].at .. now, j \in Jobs :
        /\ j = call[c].job
        /\ \/ Overwritable(j) /\ StatusRow(j, call[c], t)
           \/ ~Overwritable(j) /\ UNCHANGED row
  BY DEF WriteJobExecutionStatus
<1>7. CASE UNCHANGED row
  BY <1>1, <1>2, <1>4, <1>5, <1>7, TableStep
<1>8. CASE Overwritable(j) /\ StatusRow(j, call[c], t)
  <2> DEFINE u == call[c]
             r == row[j]
             q == row'[j]
  <2>1. /\ u \in Call /\ u.at \in Nat /\ u.started \in Nat /\ u.finished \in Nat
        /\ t \in Nat /\ u.at <= t /\ t <= now
        /\ r \in Row /\ r.created \in Nat /\ r.started \in Nat /\ r.leasedUTC \in Nat
    BY <1>2, TimesAreNumbers
  <2>2. \A k \in Jobs : k # j => row'[k] = row[k]
    BY <1>2, <1>8 DEF StatusRow
  <2>3. /\ q.status = u.status
        /\ q.started = IF u.started = 0 THEN t ELSE u.started
        /\ q.finished = IF u.status \in Terminal THEN t ELSE u.finished
        /\ q.error = IF u.status = "failed" THEN "reported" ELSE "none"
        /\ q.created = r.created /\ q.deps = r.deps
        /\ q.leasedBy = r.leasedBy /\ q.leasedUTC = r.leasedUTC
    BY <1>2, <1>8, <2>1 DEF StatusRow, Row
  <2>4. /\ u.status \in {"running", "succeeded", "failed"}
        /\ u.at # 0 /\ r.created <= u.at
        /\ u.started # 0 => r.created <= u.started /\ u.started <= u.at
        /\ u.finished # 0 => r.status \in Terminal \cup {"deleted"}
    BY <1>3, <1>6 DEF UpdateCoherent, Reported
  <2>5. r.status \in Active
    BY <1>8 DEF Overwritable, Exists, IsTerminal
  <2>6. RowGood(r, granted[j], now) /\ r.status # "absent"
    BY <2>5, RowIsGood DEF Active
  <2>7. u.finished = 0
    BY <2>4, <2>5 DEF Active, Terminal
  <2> HIDE DEF u, r, q
  <2>8. RowMoves(r, q)
    BY <2>1, <2>3, <2>5 DEF RowMoves, Active, Terminal
  <2>9. RowGood(q, granted[j], now)
    <3>1. q.started # 0 /\ r.created <= q.started /\ q.started <= t /\ q.started \in Nat
      BY <2>1, <2>3, <2>4
    <3>2. q.status \in {"running", "succeeded", "failed"}
      BY <2>3, <2>4
    <3>3. /\ q.finished # 0 <=> q.status \in Terminal
          /\ q.finished # 0 => q.finished = t
      BY <2>1, <2>3, <2>4, <2>7
    <3>4. q.created <= now /\ q.started <= now /\ q.created <= t
      BY <1>2, <2>1, <2>3, <2>4, <3>1
    <3>5. q.leasedUTC # 0 => q.created <= q.leasedUTC
      BY <2>3, <2>6 DEF RowGood
    <3>6. q.deps = "blocked" => granted[j] = {}
      BY <2>3, <2>6 DEF RowGood
    <3>8. q.status = "succeeded" => q.error = "none"
      BY <2>3
    <3>9. q.created # 0
      BY <2>3, <2>5, <2>6 DEF RowGood, Active
    <3> QED
      BY <3>1, <3>2, <3>3, <3>4, <3>5, <3>6, <3>8, <3>9, <2>3 DEF RowGood, Terminal
  <2>10. \A k \in Jobs : \/ row'[k] = row[k] /\ granted'[k] = granted[k]
                         \/ /\ row[k].status # "absent"
                            /\ RowGood(row'[k], granted'[k], now)
                            /\ RowMoves(row[k], row'[k])
                            /\ granted[k] \subseteq granted'[k]
    BY <1>2, <2>2, <2>6, <2>8, <2>9 DEF r, q
  <2> QED
    BY <1>1, <1>2, <1>4, <1>5, <2>10, TableStep
<1> QED
  BY <1>6, <1>7, <1>8

-----------------------------------------------------------------------------
(* The lease is given back, by its holder or by the maintenance pass. *)
LEMMA RequeuedRowGood ==
  ASSUME IInv, NEW j \in Jobs, row[j].status = "leased", NEW y \in Nat
  PROVE  /\ RequeuedRow(row[j]) \in Row
         /\ RowGood(RequeuedRow(row[j]), granted[j], now)
         /\ RowMoves(row[j], RequeuedRow(row[j]))
         /\ [RequeuedRow(row[j]) EXCEPT !.retryUTC = y] \in Row
         /\ RowGood([RequeuedRow(row[j]) EXCEPT !.retryUTC = y], granted[j], now)
         /\ RowMoves(row[j], [RequeuedRow(row[j]) EXCEPT !.retryUTC = y])
<1>1. row[j] \in Row /\ row[j].created \in Nat /\ row[j].started \in Nat
  BY TimesAreNumbers DEF IInv, TypeOK
<1>2. RowGood(row[j], granted[j], now)
  BY RowIsGood
<1>3. 0 \in Time
  BY BoundsAssumption DEF Time
<1>4. RequeuedRow(row[j]) \in Row /\ [RequeuedRow(row[j]) EXCEPT !.retryUTC = y] \in Row
  BY <1>1, <1>3 DEF RequeuedRow, Row, Active
<1>5. ASSUME NEW q \in Row,
             q.status = "queued" /\ q.leasedBy = NoAgent /\ q.leasedUTC = 0,
             q.created = row[j].created /\ q.started = row[j].started /\ q.finished = row[j].finished
               /\ q.deps = row[j].deps /\ q.error = row[j].error
      PROVE  RowGood(q, granted[j], now) /\ RowMoves(row[j], q)
  <2>1. RowMoves(row[j], q)
    BY <1>1, <1>5 DEF RowMoves, Terminal
  <2>2. /\ row[j].started = 0 /\ row[j].finished = 0 /\ row[j].created <= now /\ row[j].started <= now
        /\ row[j].created # 0
        /\ row[j].deps = "blocked" => granted[j] = {}
    BY <1>2 DEF RowGood, Terminal
  <2>3. RowGood(q, granted[j], now)
    BY <1>5, <2>2 DEF RowGood, Terminal
  <2> QED
    BY <2>1, <2>3
<1>6. RowGood(RequeuedRow(row[j]), granted[j], now) /\ RowMoves(row[j], RequeuedRow(row[j]))
  BY <1>1, <1>4, <1>5 DEF RequeuedRow, Row
<1>7. RowGood([RequeuedRow(row[j]) EXCEPT !.retryUTC = y], granted[j], now)
      /\ RowMoves(row[j], [RequeuedRow(row[j]) EXCEPT !.retryUTC = y])
  <2> DEFINE q == [RequeuedRow(row[j]) EXCEPT !.retryUTC = y]
  <2>1. q.status = "queued" /\ q.leasedBy = NoAgent /\ q.leasedUTC = 0
    BY <1>1, <1>4 DEF RequeuedRow, Row
  <2>2. q.created = row[j].created /\ q.started = row[j].started /\ q.finished = row[j].finished
        /\ q.deps = row[j].deps /\ q.error = row[j].error
    BY <1>1, <1>4 DEF RequeuedRow, Row
  <2> HIDE DEF q
  <2> QED
    BY <1>4, <1>5, <2>1, <2>2 DEF q
<1> QED
  BY <1>4, <1>6, <1>7

LEMMA RequeueLeasedStep ==
  ASSUME IInv, NEW j \in Jobs, NEW a \in Agents, RequeueLeasedJobExecution(j, a)
  PROVE  IInv' /\ RowsProgress
<1>1. /\ row[j].status = "leased" /\ UNCHANGED <<lastJob, granted, now, call, pass>>
      /\ row' = [row EXCEPT ![j] = [RequeuedRow(row[j]) EXCEPT !.retryUTC = now + RetryDelay]]
  BY DEF RequeueLeasedJobExecution, IInv, TypeOK
<1>2. now + RetryDelay \in Nat
  BY TimesAreNumbers, TimersAssumption DEF IInv, TypeOK
<1>3. call' \in [Calls -> Call] /\ pass' \in Pass
  BY <1>1 DEF IInv, TypeOK
<1> DEFINE q == [RequeuedRow(row[j]) EXCEPT !.retryUTC = now + RetryDelay]
<1>4. q \in Row /\ RowGood(q, granted[j], now) /\ RowMoves(row[j], q)
  BY <1>1, <1>2, RequeuedRowGood
<1>5. row[j].status # "absent" /\ row' = [row EXCEPT ![j] = q]
  BY <1>1
<1>6. /\ \A c \in Calls : call'[c] = call[c]
      /\ pass'.pc = pass.pc /\ pass'.at = pass.at /\ pass'.cand \subseteq pass.cand
  BY <1>1
<1> HIDE DEF q
<1> QED
  BY <1>1, <1>3, <1>4, <1>5, <1>6, RowStep

LEMMA ClearBlockStep ==
  ASSUME IInv, NEW j \in Jobs, ClearDependencyBlock(j) \/ ClearSchedulingBlock(j)
  PROVE  IInv' /\ RowsProgress
<1>1. /\ UNCHANGED <<lastJob, granted, now, call, pass>>
      /\ Exists(j)
      /\ \/ row' = [row EXCEPT ![j] = [row[j] EXCEPT !.deps = "clear"]]
         \/ row' = [row EXCEPT ![j] = [row[j] EXCEPT !.retryUTC = 0]]
  BY DEF ClearDependencyBlock, ClearSchedulingBlock, IInv, TypeOK
<1>2. call' \in [Calls -> Call] /\ pass' \in Pass
  BY <1>1 DEF IInv, TypeOK
<1>3. row[j] \in Row /\ row[j].created \in Nat /\ row[j].status # "absent"
  BY <1>1, TimesAreNumbers DEF IInv, TypeOK, Exists, Active, Terminal
<1>4. RowGood(row[j], granted[j], now)
  BY <1>3, RowIsGood
<1>5. PICK q \in Row :
        /\ row' = [row EXCEPT ![j] = q]
        /\ q.status = row[j].status /\ q.leasedBy = row[j].leasedBy /\ q.leasedUTC = row[j].leasedUTC
        /\ q.created = row[j].created /\ q.started = row[j].started /\ q.finished = row[j].finished
        /\ q.error = row[j].error /\ q.deps \in {row[j].deps, "clear"}
  <2>1. CASE row' = [row EXCEPT ![j] = [row[j] EXCEPT !.deps = "clear"]]
    <3> DEFINE q == [row[j] EXCEPT !.deps = "clear"]
    <3>1. /\ q \in Row
          /\ q.status = row[j].status /\ q.leasedBy = row[j].leasedBy /\ q.leasedUTC = row[j].leasedUTC
          /\ q.created = row[j].created /\ q.started = row[j].started /\ q.finished = row[j].finished
          /\ q.error = row[j].error /\ q.deps \in {row[j].deps, "clear"}
      BY <1>3 DEF Row
    <3> HIDE DEF q
    <3> QED
      BY <2>1, <3>1 DEF q
  <2>2. CASE row' = [row EXCEPT ![j] = [row[j] EXCEPT !.retryUTC = 0]]
    <3> DEFINE q == [row[j] EXCEPT !.retryUTC = 0]
    <3>1. /\ q \in Row
          /\ q.status = row[j].status /\ q.leasedBy = row[j].leasedBy /\ q.leasedUTC = row[j].leasedUTC
          /\ q.created = row[j].created /\ q.started = row[j].started /\ q.finished = row[j].finished
          /\ q.error = row[j].error /\ q.deps \in {row[j].deps, "clear"}
      BY <1>3 DEF Row
    <3> HIDE DEF q
    <3> QED
      BY <2>2, <3>1 DEF q
  <2> QED
    BY <1>1, <2>1, <2>2
<1>6. RowGood(q, granted[j], now)
  BY <1>4, <1>5 DEF RowGood
<1>7. RowMoves(row[j], q)
  BY <1>3, <1>5 DEF RowMoves
<1>8. /\ \A c \in Calls : call'[c] = call[c]
      /\ pass'.pc = pass.pc /\ pass'.at = pass.at /\ pass'.cand \subseteq pass.cand
  BY <1>1
<1> QED
  BY <1>1, <1>2, <1>3, <1>5, <1>6, <1>7, <1>8, RowStep

-----------------------------------------------------------------------------
(* Rows that exist are deleted; a flush also ends its call. *)
LEMMA DeletedRowFacts ==
  LET d == [AbsentRow EXCEPT !.status = "deleted"] IN
  /\ d \in Row
  /\ d.status = "deleted" /\ d.created = 0 /\ d.deps = "clear"
  /\ \A g, t : t \in Nat => RowGood(d, g, t)
<1> DEFINE d == [AbsentRow EXCEPT !.status = "deleted"]
<1>1. d \in Row
  BY AbsentRowFacts DEF Row
<1>2. /\ d.status = "deleted" /\ d.leasedBy = NoAgent /\ d.leasedUTC = 0 /\ d.created = 0
      /\ d.started = 0 /\ d.finished = 0 /\ d.deps = "clear"
  BY AbsentRowFacts DEF Row
<1> HIDE DEF d
<1>3. \A g, t : t \in Nat => RowGood(d, g, t)
  BY <1>2 DEF RowGood, Terminal
<1> QED
  BY <1>1, <1>2, <1>3 DEF d

LEMMA DeleteStep ==
  ASSUME IInv, NEW S \in SUBSET Jobs, \A j \in S : row[j].status # "absent", DeleteRows(S),
         UNCHANGED <<lastJob, granted, now, pass>>,
         call' \in [Calls -> Call],
         \A c \in Calls : call'[c] = call[c] \/ call'[c].pc \notin {"update", "lease"}
  PROVE  IInv' /\ RowsProgress
<1> DEFINE d == [AbsentRow EXCEPT !.status = "deleted"]
<1>1. /\ d \in Row /\ d.status = "deleted" /\ d.created = 0 /\ d.deps = "clear"
      /\ \A g, t : t \in Nat => RowGood(d, g, t)
  BY DeletedRowFacts
<1>2. row' = [j \in Jobs |-> IF j \in S THEN d ELSE row[j]]
  BY DEF DeleteRows
<1> HIDE DEF d
<1>3. row \in [Jobs -> Row] /\ row' \in [Jobs -> Row]
  BY <1>1, <1>2 DEF IInv, TypeOK
<1>4. TypeOK'
  BY <1>3 DEF IInv, TypeOK
<1>5. now \in Nat /\ \A j \in Jobs : row[j].created \in Nat
  BY TimesAreNumbers DEF IInv, TypeOK
<1>6. ASSUME NEW j \in Jobs
      PROVE  \/ row'[j] = row[j] /\ granted'[j] = granted[j]
             \/ /\ row[j].status # "absent"
                /\ RowGood(row'[j], granted'[j], now)
                /\ RowMoves(row[j], row'[j])
                /\ granted[j] \subseteq granted'[j]
  <2>1. CASE j \in S
    <3>1. row'[j] = d /\ RowGood(d, granted'[j], now)
      BY <1>1, <1>2, <1>5, <2>1
    <3>2. RowMoves(row[j], d)
      BY <1>1, <1>5 DEF RowMoves
    <3> QED
      BY <2>1, <3>1, <3>2
  <2>2. CASE j \notin S
    BY <1>2, <2>2
  <2> QED
    BY <2>1, <2>2
<1>7. pass'.pc = pass.pc /\ pass'.at = pass.at /\ pass'.cand \subseteq pass.cand
  OBVIOUS
<1> QED
  BY <1>4, <1>6, <1>7, TableStep

LEMMA DeleteQueuedStep ==
  ASSUME IInv, (\E j \in Jobs : DeleteQueuedJobExecution(j)) \/ ClearQueuedJobExecutions
  PROVE  IInv' /\ RowsProgress
<1>1. PICK S \in SUBSET Jobs : /\ \A j \in S : row[j].status \in Pending
                               /\ DeleteRows(S)
                               /\ UNCHANGED <<lastJob, granted, now, call, pass>>
  BY DEF DeleteQueuedJobExecution, ClearQueuedJobExecutions
<1>2. \A j \in S : row[j].status # "absent"
  BY <1>1 DEF Pending
<1>3. call' \in [Calls -> Call] /\ \A c \in Calls : call'[c] = call[c]
  BY <1>1 DEF IInv, TypeOK
<1> QED
  BY <1>1, <1>2, <1>3, DeleteStep

LEMMA FlushIDsStep ==
  ASSUME IInv, NEW c \in Calls, FlushIDs(c)
  PROVE  IInv' /\ RowsProgress
<1> DEFINE S == {j \in call[c].cand : Flushable(j)}
<1>1. call \in [Calls -> Call] /\ call[c].cand \subseteq Jobs
  BY DEF IInv, TypeOK, Call
<1>2. S \in SUBSET Jobs /\ \A j \in S : row[j].status # "absent"
  BY <1>1 DEF Flushable, Exists, Active, Terminal
<1>3. DeleteRows(S) /\ UNCHANGED <<lastJob, granted, now, pass>> /\ call' = [call EXCEPT ![c] = IdleCall]
  BY DEF FlushIDs
<1>4. call' \in [Calls -> Call] /\ \A k \in Calls : call'[k] = call[k] \/ call'[k].pc \notin {"update", "lease"}
  BY <1>1, <1>3, IdleCallFacts
<1> HIDE DEF S
<1> QED
  BY <1>2, <1>3, <1>4, DeleteStep

-----------------------------------------------------------------------------
(* The steps of the maintenance pass that write. *)
LEMMA RequeueStaleStep ==
  ASSUME IInv, RequeueStaleLeasedJobExecutions
  PROVE  IInv' /\ RowsProgress
<1>1. PICK j \in Jobs :
        /\ \/ row[j].status = "leased" /\ row' = [row EXCEPT ![j] = RequeuedRow(row[j])]
           \/ UNCHANGED row
        /\ pass' = [pass EXCEPT !.cand = @ \ {j}]
        /\ UNCHANGED <<lastJob, granted, now, call>>
  BY DEF RequeueStaleLeasedJobExecutions, IInv, TypeOK
<1>2. pass \in Pass /\ call' \in [Calls -> Call]
  BY <1>1 DEF IInv, TypeOK
<1>3. /\ pass' \in Pass
      /\ pass'.pc = pass.pc /\ pass'.at = pass.at /\ pass'.cand \subseteq pass.cand
  BY <1>1, <1>2 DEF Pass
<1>4. \A c \in Calls : call'[c] = call[c]
  BY <1>1
<1>5. CASE row[j].status = "leased" /\ row' = [row EXCEPT ![j] = RequeuedRow(row[j])]
  <2>1. /\ RequeuedRow(row[j]) \in Row /\ RowGood(RequeuedRow(row[j]), granted[j], now)
        /\ RowMoves(row[j], RequeuedRow(row[j]))
    BY <1>5, RequeuedRowGood
  <2> QED
    BY <1>1, <1>2, <1>3, <1>4, <1>5, <2>1, RowStep
<1>6. CASE UNCHANGED row
  <2>1. TypeOK'
    BY <1>1, <1>3, <1>6 DEF IInv, TypeOK
  <2> QED
    BY <1>1, <1>3, <1>4, <1>6, <2>1, TableStep
<1> QED
  BY <1>1, <1>5, <1>6

LEMMA ReapStep ==
  ASSUME IInv, FailTimedOutRunningJobExecutions
  PROVE  IInv' /\ RowsProgress
<1>1. PICK j \in Jobs :
        /\ j \in pass.cand
        /\ \/ /\ row[j].status = "running"
              /\ row' = [row EXCEPT ![j] = [row[j] EXCEPT !.status = "failed", !.finished = pass.at,
                                                        !.error = "timed out"]]
           \/ UNCHANGED row
        /\ pass' = [pass EXCEPT !.cand = @ \ {j}]
        /\ UNCHANGED <<lastJob, granted, now, call>> /\ pass.pc = "reap"
  BY DEF FailTimedOutRunningJobExecutions, IInv, TypeOK, Newest
<1>2. pass \in Pass /\ call' \in [Calls -> Call]
  BY <1>1 DEF IInv, TypeOK
<1>3. /\ pass' \in Pass
      /\ pass'.pc = pass.pc /\ pass'.at = pass.at /\ pass'.cand \subseteq pass.cand
  BY <1>1, <1>2 DEF Pass
<1>4. \A c \in Calls : call'[c] = call[c]
  BY <1>1
<1>5. /\ pass.at # 0 /\ row[j].created <= pass.at /\ pass.at \in Time
  BY <1>1, <1>2 DEF IInv, PassCoherent, Pass
<1>6. CASE /\ row[j].status = "running"
           /\ row' = [row EXCEPT ![j] = [row[j] EXCEPT !.status = "failed", !.finished = pass.at,
                                                     !.error = "timed out"]]
  <2> DEFINE q == [row[j] EXCEPT !.status = "failed", !.finished = pass.at, !.error = "timed out"]
  <2>1. row[j] \in Row /\ row[j].created \in Nat /\ row[j].started \in Nat /\ pass.at \in Nat
    BY <1>2, TimesAreNumbers DEF IInv, TypeOK
  <2>2. /\ q \in Row /\ q.status = "failed" /\ q.finished = pass.at /\ q.error = "timed out"
        /\ q.created = row[j].created /\ q.started = row[j].started /\ q.deps = row[j].deps
        /\ q.leasedBy = row[j].leasedBy /\ q.leasedUTC = row[j].leasedUTC
    BY <1>5, <2>1 DEF Row, Terminal
  <2>3. RowGood(row[j], granted[j], now) /\ row[j].status # "absent"
    BY <1>6, RowIsGood
  <2> HIDE DEF q
  <2>4. RowGood(q, granted[j], now)
    BY <1>5, <1>6, <2>1, <2>2, <2>3 DEF RowGood, Terminal
  <2>5. RowMoves(row[j], q)
    <3>1. q.status \in Terminal \cup {"deleted"}
      BY <2>2 DEF Terminal
    <3>2. q.created <= row[j].created
      <4>1. q.created = row[j].created /\ row[j].created \in Nat
        BY <2>1, <2>2
      <4> QED
        BY <4>1
    <3> QED
      BY <2>2, <3>1, <3>2 DEF RowMoves
  <2> QED
    BY <1>1, <1>2, <1>3, <1>4, <1>6, <2>2, <2>3, <2>4, <2>5, RowStep DEF q
<1>7. CASE UNCHANGED row
  <2>1. TypeOK'
    BY <1>1, <1>3, <1>7 DEF IInv, TypeOK
  <2> QED
    BY <1>1, <1>3, <1>4, <1>7, <2>1, TableStep
<1> QED
  BY <1>1, <1>6, <1>7

-----------------------------------------------------------------------------
LEMMA CreateStep ==
  ASSUME IInv, NEW n \in 1 .. MaxJobs, NEW B \in SUBSET (lastJob + 1 .. lastJob + n),
         CreateJobExecutions(n, B)
  PROVE  IInv' /\ RowsProgress
<1>1. TypeOK'
  BY TypeCreate DEF IInv
<1> DEFINE batch == lastJob + 1 .. lastJob + n
           new(j) == [AbsentRow EXCEPT !.status = "queued", !.created = now,
                                       !.deps = IF j \in B THEN "blocked" ELSE "clear"]
<1>2. /\ row' = [j \in Jobs |-> IF j \in batch THEN new(j) ELSE row[j]]
      /\ lastJob' = lastJob + n /\ UNCHANGED <<granted, now, call, pass>>
  BY DEF CreateJobExecutions
<1>3. /\ lastJob \in Nat /\ n \in Nat /\ now \in Nat /\ now # 0
      /\ \A j \in Jobs : j \in Nat /\ row[j].created \in Nat /\ row[j].started \in Nat
  BY TimesAreNumbers, BoundsAssumption DEF IInv, TypeOK, Jobs
<1>4. \A j \in Jobs : /\ j \in batch <=> j > lastJob /\ j <= lastJob + n
                      /\ j \in batch => row[j].status = "absent" /\ granted[j] = {}
                      /\ row[j].status = "absent" <=> j > lastJob
                      /\ row[j].status = "absent" => granted[j] = {}
  BY <1>3 DEF IInv, RowsInv, CreatedSoFar
<1>5. ASSUME NEW j \in Jobs, j \in batch
      PROVE  /\ row'[j].status = "queued" /\ row'[j].created = now
             /\ row'[j].leasedBy = NoAgent /\ row'[j].leasedUTC = 0
             /\ row'[j].started = 0 /\ row'[j].finished = 0
  <2>1. row'[j] = new(j) /\ now \in Time
    BY <1>2, <1>5 DEF IInv, TypeOK
  <2> QED
    BY <2>1, AbsentRowFacts DEF Row
<1>6. \A j \in Jobs : j \notin batch => row'[j] = row[j]
  BY <1>2
<1> HIDE DEF batch, new
<1>7. RowsProgress
  <2>1. \A j \in Jobs : row[j].status \in {"absent"} \/ j \notin batch
    BY <1>4
  <2> QED
    BY <1>2, <1>3, <1>6, <2>1 DEF RowsProgress, Terminal
<1>8. RowCoherent' /\ TimelinePossible'
  <2>1. RowCoherent'
    BY <1>5, <1>6 DEF RowCoherent, IInv, RowsInv, Terminal
  <2>2. TimelinePossible'
    BY <1>5, <1>6 DEF TimelinePossible, IInv, RowsInv
  <2> QED
    BY <2>1, <2>2
<1>9. BlockedNeverGranted'
  BY <1>2, <1>4, <1>5, <1>6 DEF BlockedNeverGranted, IInv, RowsInv
<1>10. TimesPast'
  BY <1>2, <1>3, <1>5, <1>6 DEF TimesPast, IInv, RowsInv
<1>11. CreatedSoFar'
  <2> SUFFICES ASSUME NEW j \in Jobs
               PROVE  /\ row'[j].status = "absent" <=> j > lastJob'
                      /\ row'[j].status = "absent" => granted'[j] = {}
                      /\ Exists(j)' => row'[j].created # 0
    BY DEF CreatedSoFar
  <2>1. CASE j \in batch
    BY <1>2, <1>3, <1>4, <1>5, <2>1
  <2>2. CASE j \notin batch
    BY <1>2, <1>3, <1>4, <1>6, <2>2 DEF Exists, IInv, RowsInv, CreatedSoFar
  <2> QED
    BY <2>1, <2>2
<1>12. RowsInv'
  BY <1>8, <1>9, <1>10, <1>11 DEF RowsInv
<1>13. CallsCoherent'
  BY <1>1, <1>2, <1>3, <1>7, CallsKept DEF IInv
<1>14. PassCoherent'
  BY <1>1, <1>2, <1>3, <1>7, PassKept DEF IInv
<1> QED
  BY <1>1, <1>7, <1>12, <1>13, <1>14 DEF IInv

-----------------------------------------------------------------------------
(* Every step keeps the invariant; nothing that the table says of a job is *)
(* taken back.                                                             *)
LEMMA StutterStep ==
  ASSUME IInv, UNCHANGED vars
  PROVE  IInv' /\ RowsProgress
<1>1. /\ UNCHANGED <<row, lastJob, granted, now>> /\ now \in Nat /\ now <= now'
      /\ call' = call /\ pass' = pass
  BY TimesAreNumbers DEF vars, IInv, TypeOK
<1>2. TypeOK'
  BY <1>1 DEF IInv, TypeOK
<1>3. RowsInv' /\ RowsProgress
  BY <1>1, RowsKept DEF IInv
<1>4. CallsCoherent'
  BY <1>1, <1>2, <1>3, CallsKept DEF IInv
<1>5. PassCoherent'
  BY <1>1, <1>2, <1>3, PassKept DEF IInv
<1> QED
  BY <1>2, <1>3, <1>4, <1>5 DEF IInv

LEMMA NextIInv ==
  ASSUME IInv, [Next]_vars
  PROVE  IInv' /\ RowsProgress
<1>1. CASE \E n \in 1 .. MaxJobs : \E B \in SUBSET (lastJob + 1 .. lastJob + n) : CreateJobExecutions(n, B)
  BY <1>1, CreateStep
<1>2. CASE \E c \in Calls, a \in Agents : BeginLease(c, a)
  BY <1>2, BeginLeaseStep
<1>3. CASE \E c \in Calls : TryLease(c)
  BY <1>3, TryLeaseStep
<1>4. CASE \E c \in Calls, a \in Agents \cup {ServerControl}, s \in Reported, j \in Jobs :
             BeginUpdateJobExecutionStatus(c, a, s, j)
  BY <1>4, BeginUpdateStep
<1>5. CASE \E c \in Calls : WriteJobExecutionStatus(c)
  BY <1>5, WriteStep
<1>6. CASE \E j \in Jobs, a \in Agents : RequeueLeasedJobExecution(j, a)
  BY <1>6, RequeueLeasedStep
<1>7. CASE \E j \in Jobs : ClearDependencyBlock(j)
  BY <1>7, ClearBlockStep
<1>8. CASE \E j \in Jobs : ClearSchedulingBlock(j)
  BY <1>8, ClearBlockStep
<1>9. CASE (\E j \in Jobs : DeleteQueuedJobExecution(j)) \/ ClearQueuedJobExecutions
  BY <1>9, DeleteQueuedStep
<1>10. CASE \E c \in Calls : FlushJobExecutionHistory(c)
  BY <1>10, BeginFlushStep DEF FlushJobExecutionHistory
<1>11. CASE \E c \in Calls, ids \in SUBSET (1 .. lastJob) : FlushJobExecutionHistoryByIDs(c, ids)
  <2>1. 1 .. lastJob \subseteq Jobs
    BY BoundsAssumption DEF IInv, TypeOK, Jobs
  <2> QED
    BY <1>11, <2>1, BeginFlushStep DEF FlushJobExecutionHistoryByIDs
<1>12. CASE \E c \in Calls, a \in Agents : FlushJobExecutionHistoryByAgent(c, a)
  BY <1>12, BeginFlushStep DEF FlushJobExecutionHistoryByAgent
<1>13. CASE \E c \in Calls : FlushIDs(c)
  BY <1>13, FlushIDsStep
<1>14. CASE BeginPass \/ BeginReap \/ EndPass
  BY <1>14, PassListStep
<1>15. CASE RequeueStaleLeasedJobExecutions
  BY <1>15, RequeueStaleStep
<1>16. CASE FailTimedOutRunningJobExecutions
  BY <1>16, ReapStep
<1>17. CASE Tick
  BY <1>17, TickStep
<1>18. CASE Restart
  BY <1>18, RestartStep
<1>19. CASE UNCHANGED vars
  BY <1>19, StutterStep
<1> QED
  BY <1>1, <1>2, <1>3, <1>4, <1>5, <1>6, <1>7, <1>8, <1>9, <1>10, <1>11, <1>12, <1>13,
     <1>14, <1>15, <1>16, <1>17, <1>18, <1>19 DEF Next

(* The inductive invariant holds in every reachable state, whatever the    *)
(* number of jobs, agents, calls in progress and clock readings.           *)
THEOREM InvariantHolds == Spec => []IInv
<1>1. Init => IInv
  BY InitIInv
<1>2. IInv /\ [Next]_vars => IInv'
  BY NextIInv
<1> QED
  BY <1>1, <1>2, PTL DEF Spec

(* Type correctness of the table and of the calls in progress. *)
THEOREM TypeCorrect == Spec => []TypeOK
<1>1. IInv => TypeOK
  BY DEF IInv
<1> QED
  BY <1>1, InvariantHolds, PTL

(* The columns of a row always agree with its status. *)
THEOREM RowsAlwaysCoherent == Spec => []RowCoherent
<1>1. IInv => RowCoherent
  BY DEF IInv, RowsInv
<1> QED
  BY <1>1, InvariantHolds, PTL

(* No job is leased, starts or ends before it is created, and none ends    *)
(* before it starts unless the reaper ended it.                            *)
THEOREM TimelineAlwaysPossible == Spec => []TimelinePossible
<1>1. IInv => TimelinePossible
  BY DEF IInv, RowsInv
<1> QED
  BY <1>1, InvariantHolds, PTL

(* A job that waits for its dependencies was never leased to anyone. *)
THEOREM BlockedJobsAreNeverGranted == Spec => []BlockedNeverGranted
<1>1. IInv => BlockedNeverGranted
  BY DEF IInv, RowsInv
<1> QED
  BY <1>1, InvariantHolds, PTL

-----------------------------------------------------------------------------
(* The ways in which a step can change the table. *)
RowLeased(r, s)   == r.status = "queued" /\ s.status = "leased" /\ s.leasedBy \in Agents
RowUnleased(r, s) == r.status = "leased" /\ s.status = "queued" /\ s.leasedBy = NoAgent
RowReported(r, s) == r.status \in Active /\ s.status \in Reported /\ s.leasedBy = r.leasedBy
RowPatched(r, s)  == s = [r EXCEPT !.deps = s.deps, !.retryUTC = s.retryUTC]

OneRowChanges ==
  \E j \in Jobs, s \in Row :
    /\ row' = [row EXCEPT ![j] = s]
    /\ \/ RowLeased(row[j], s)
       \/ RowUnleased(row[j], s)
       \/ RowReported(row[j], s)
       \/ RowPatched(row[j], s) /\ Exists(j)

RowsAppear ==
  \E S \in SUBSET Jobs : \A j \in Jobs :
    IF j \in S THEN row[j].status = "absent" /\ row'[j].status = "queued" /\ row'[j].leasedBy = NoAgent
               ELSE row'[j] = row[j]

RowsGo ==
  \E S \in SUBSET Jobs :
    /\ DeleteRows(S)
    /\ \/ \A j \in S : row[j].status \in Pending
       \/ \A j \in S : row[j].status \in Terminal

LEMMA TryLeaseOnTable ==
  ASSUME IInv, NEW c \in Calls, TryLease(c)
  PROVE  UNCHANGED row \/ OneRowChanges
<1>1. PICK j \in Jobs : (row[j].status = "queued" /\ LeaseRow(j, call[c].agent)) \/ UNCHANGED row
  BY DEF TryLease
<1>2. row \in [Jobs -> Row] /\ row' \in [Jobs -> Row] /\ call[c].agent \in Agents
  BY TypeTryLease DEF IInv, TypeOK, CallsCoherent, LeaseCoherent, TryLease
<1>3. CASE row[j].status = "queued" /\ LeaseRow(j, call[c].agent)
  <2> DEFINE s == row'[j]
  <2>1. row' = [row EXCEPT ![j] = s] /\ s \in Row
    BY <1>2, <1>3 DEF LeaseRow
  <2>2. RowLeased(row[j], s)
    <3>1. row'[j] = [row[j] EXCEPT !.status = "leased", !.leasedBy = call[c].agent, !.leasedUTC = now]
      BY <1>2, <1>3 DEF LeaseRow
    <3>2. row[j] \in Row
      BY <1>2
    <3> QED
      BY <1>2, <1>3, <3>1, <3>2 DEF RowLeased, Row
  <2> QED
    BY <2>1, <2>2 DEF OneRowChanges
<1> QED
  BY <1>1, <1>3

LEMMA WriteOnTable ==
  ASSUME IInv, NEW c \in Calls, WriteJobExecutionStatus(c)
  PROVE  UNCHANGED row \/ OneRowChanges
<1>1. PICK t \in call[c].at .. now, j \in Jobs :
        (Overwritable(j) /\ StatusRow(j, call[c], t)) \/ UNCHANGED row
  BY DEF WriteJobExecutionStatus
<1>2. row \in [Jobs -> Row] /\ row' \in [Jobs -> Row] /\ call[c].status \in Reported
  BY TypeWrite DEF IInv, TypeOK, CallsCoherent, UpdateCoherent, WriteJobExecutionStatus
<1>3. CASE Overwritable(j) /\ StatusRow(j, call[c], t)
  <2> DEFINE s == row'[j]
  <2>1. row' = [row EXCEPT ![j] = s] /\ s \in Row
    BY <1>2, <1>3 DEF StatusRow
  <2>2. row[j].status \in Active
    BY <1>3 DEF Overwritable, Exists, IsTerminal
  <2>3. s.status = call[c].status /\ s.leasedBy = row[j].leasedBy
    <3>1. row[j] \in Row
      BY <1>2
    <3> QED
      BY <1>2, <1>3, <3>1 DEF StatusRow, Row
  <2>4. RowReported(row[j], s)
    BY <1>2, <2>2, <2>3 DEF RowReported
  <2> QED
    BY <2>1, <2>4 DEF OneRowChanges
<1> QED
  BY <1>1, <1>3

LEMMA RequeueOnTable ==
  ASSUME IInv,
         \/ \E j \in Jobs, a \in Agents : RequeueLeasedJobExecution(j, a)
         \/ RequeueStaleLeasedJobExecutions
  PROVE  UNCHANGED row \/ OneRowChanges
<1>1. PICK j \in Jobs :
        \/ UNCHANGED row
        \/ /\ row[j].status = "leased"
           /\ \/ row' = [row EXCEPT ![j] = [RequeuedRow(row[j]) EXCEPT !.retryUTC = now + RetryDelay]]
              \/ row' = [row EXCEPT ![j] = RequeuedRow(row[j])]
  BY DEF RequeueLeasedJobExecution, RequeueStaleLeasedJobExecutions, IInv, TypeOK
<1>2. row[j] \in Row /\ now + RetryDelay \in Nat
  BY TimesAreNumbers, TimersAssumption DEF IInv, TypeOK
<1>3. ASSUME NEW s \in Row, row' = [row EXCEPT ![j] = s], row[j].status = "leased",
             s.status = "queued" /\ s.leasedBy = NoAgent
      PROVE  OneRowChanges
  BY <1>3 DEF OneRowChanges, RowUnleased
<1>4. CASE row[j].status = "leased" /\ row' = [row EXCEPT ![j] = RequeuedRow(row[j])]
  <2>1. RequeuedRow(row[j]) \in Row
    BY <1>4, RequeuedRowGood, 0 \in Nat
  <2>2. RequeuedRow(row[j]).status = "queued" /\ RequeuedRow(row[j]).leasedBy = NoAgent
    BY <1>2 DEF RequeuedRow, Row
  <2> QED
    BY <1>3, <1>4, <2>1, <2>2
<1>5. CASE /\ row[j].status = "leased"
           /\ row' = [row EXCEPT ![j] = [RequeuedRow(row[j]) EXCEPT !.retryUTC = now + RetryDelay]]
  <2> DEFINE s == [RequeuedRow(row[j]) EXCEPT !.retryUTC = now + RetryDelay]
  <2>1. s \in Row
    BY <1>2, <1>5, RequeuedRowGood
  <2>2. RequeuedRow(row[j]) \in Row
    BY <1>5, RequeuedRowGood, 0 \in Nat
  <2>3. s.status = "queued" /\ s.leasedBy = NoAgent
    BY <1>2, <2>2 DEF RequeuedRow, Row
  <2>4. row' = [row EXCEPT ![j] = s]
    BY <1>5
  <2> HIDE DEF s
  <2> QED
    BY <1>3, <1>5, <2>1, <2>3, <2>4
<1> QED
  BY <1>1, <1>4, <1>5

LEMMA PatchOnTable ==
  ASSUME IInv, NEW j \in Jobs, ClearDependencyBlock(j) \/ ClearSchedulingBlock(j)
  PROVE  OneRowChanges
<1>1. /\ row[j] \in Row /\ row \in [Jobs -> Row] /\ Exists(j)
      /\ \/ row' = [row EXCEPT ![j] = [row[j] EXCEPT !.deps = "clear"]]
         \/ row' = [row EXCEPT ![j] = [row[j] EXCEPT !.retryUTC = 0]]
  BY DEF ClearDependencyBlock, ClearSchedulingBlock, IInv, TypeOK
<1> DEFINE s == row'[j]
<1>2. row' = [row EXCEPT ![j] = s]
  BY <1>1
<1>3. s \in Row /\ RowPatched(row[j], s)
  <2>1. s = [row[j] EXCEPT !.deps = "clear"] \/ s = [row[j] EXCEPT !.retryUTC = 0]
    BY <1>1
  <2>2. s \in Row
    <3>1. [row[j] EXCEPT !.deps = "clear"] \in Row
      BY <1>1 DEF Row
    <3>2. [row[j] EXCEPT !.retryUTC = 0] \in Row
      BY <1>1 DEF Row
    <3> QED
      BY <2>1, <3>1, <3>2
  <2> DEFINE r == row[j]
  <2>3. \A k \in DOMAIN r \ {"deps", "retryUTC"} : s[k] = r[k]
    <3>1. CASE s = [row[j] EXCEPT !.deps = "clear"]
      BY <3>1
    <3>2. CASE s = [row[j] EXCEPT !.retryUTC = 0]
      BY <3>2
    <3> QED
      BY <2>1, <3>1, <3>2
  <2>4. DOMAIN s = DOMAIN r /\ r = [k \in DOMAIN r |-> r[k]] /\ s = [k \in DOMAIN s |-> s[k]]
    BY <1>1, <2>2 DEF Row
  <2> HIDE DEF s, r
  <2>5. s = [r EXCEPT !.deps = s.deps, !.retryUTC = s.retryUTC]
    BY <2>3, <2>4
  <2> QED
    BY <2>2, <2>5 DEF RowPatched, r
<1> QED
  BY <1>1, <1>2, <1>3 DEF OneRowChanges

LEMMA ReapOnTable ==
  ASSUME IInv, FailTimedOutRunningJobExecutions
  PROVE  UNCHANGED row \/ OneRowChanges
<1>1. PICK j \in Jobs :
        \/ UNCHANGED row
        \/ /\ row[j].status = "running"
           /\ row' = [row EXCEPT ![j] = [row[j] EXCEPT !.status = "failed", !.finished = pass.at,
                                                     !.error = "timed out"]]
  BY DEF FailTimedOutRunningJobExecutions, IInv, TypeOK
<1>2. row[j] \in Row /\ pass.at \in Time
  BY DEF IInv, TypeOK, Pass
<1>3. CASE /\ row[j].status = "running"
           /\ row' = [row EXCEPT ![j] = [row[j] EXCEPT !.status = "failed", !.finished = pass.at,
                                                     !.error = "timed out"]]
  <2> DEFINE s == [row[j] EXCEPT !.status = "failed", !.finished = pass.at, !.error = "timed out"]
  <2>1. s \in Row /\ s.status = "failed" /\ s.leasedBy = row[j].leasedBy
    BY <1>2 DEF Row, Terminal
  <2>2. row' = [row EXCEPT ![j] = s]
    BY <1>3
  <2> HIDE DEF s
  <2>3. RowReported(row[j], s)
    BY <1>3, <2>1 DEF RowReported, Active, Reported
  <2> QED
    BY <2>1, <2>2, <2>3 DEF OneRowChanges
<1> QED
  BY <1>1, <1>3

LEMMA CreateOnTable ==
  ASSUME IInv, NEW n \in 1 .. MaxJobs, NEW B, CreateJobExecutions(n, B)
  PROVE  RowsAppear
<1> DEFINE S == lastJob + 1 .. lastJob + n
<1>1. S \in SUBSET Jobs /\ lastJob \in Nat /\ n \in Nat
  <2>1. S \in SUBSET Jobs
    BY DEF CreateJobExecutions
  <2>2. lastJob \in 0 .. MaxJobs
    BY DEF IInv, TypeOK
  <2> QED
    BY <2>1, <2>2, BoundsAssumption
<1>2. \A j \in S : row[j].status = "absent"
  BY <1>1 DEF IInv, RowsInv, CreatedSoFar, Jobs
<1>3. \A j \in S : row'[j] = [AbsentRow EXCEPT !.status = "queued", !.created = now,
                                        !.deps = IF j \in B THEN "blocked" ELSE "clear"]
  BY <1>1 DEF CreateJobExecutions
<1>4. \A j \in Jobs : j \notin S => row'[j] = row[j]
  BY DEF CreateJobExecutions
<1>5. \A j \in S : row'[j].status = "queued" /\ row'[j].leasedBy = NoAgent
  BY <1>3, AbsentRowFacts DEF Row
<1> QED
  BY <1>1, <1>2, <1>4, <1>5 DEF RowsAppear

LEMMA DeleteOnTable ==
  ASSUME IInv,
         \/ \E j \in Jobs : DeleteQueuedJobExecution(j)
         \/ ClearQueuedJobExecutions
         \/ \E c \in Calls : FlushIDs(c)
  PROVE  RowsGo
<1>1. CASE \E j \in Jobs : DeleteQueuedJobExecution(j)
  BY <1>1 DEF DeleteQueuedJobExecution, RowsGo
<1>2. CASE ClearQueuedJobExecutions
  BY <1>2 DEF ClearQueuedJobExecutions, RowsGo
<1>3. ASSUME NEW c \in Calls, FlushIDs(c) PROVE RowsGo
  <2>1. {j \in call[c].cand : Flushable(j)} \in SUBSET Jobs
    BY DEF IInv, TypeOK, Call
  <2>2. \A j \in {j \in call[c].cand : Flushable(j)} : row[j].status \in Terminal
    BY DEF Flushable, Exists, IsActive
  <2> QED
    BY <1>3, <2>1, <2>2 DEF FlushIDs, RowsGo
<1> QED
  BY <1>1, <1>2, <1>3

LEMMA StepOnTable ==
  ASSUME IInv, [Next]_vars
  PROVE  UNCHANGED row \/ OneRowChanges \/ RowsAppear \/ RowsGo
<1>1. CASE \/ \E c \in Calls, a \in Agents : BeginLease(c, a)
           \/ \E c \in Calls, a \in Agents \cup {ServerControl}, s \in Reported, j \in Jobs :
                 BeginUpdateJobExecutionStatus(c, a, s, j)
           \/ \E c \in Calls : FlushJobExecutionHistory(c)
           \/ \E c \in Calls, ids \in SUBSET (1 .. lastJob) : FlushJobExecutionHistoryByIDs(c, ids)
           \/ \E c \in Calls, a \in Agents : FlushJobExecutionHistoryByAgent(c, a)
           \/ BeginPass \/ BeginReap \/ EndPass \/ Tick \/ Restart \/ UNCHANGED vars
  BY <1>1 DEF BeginLease, BeginUpdateJobExecutionStatus, FlushJobExecutionHistory, BeginFlush,
              FlushJobExecutionHistoryByIDs, FlushJobExecutionHistoryByAgent, BeginPass, BeginReap,
              EndPass, Tick, Restart, vars
<1>2. CASE \E c \in Calls : TryLease(c) \/ WriteJobExecutionStatus(c)
  BY <1>2, TryLeaseOnTable, WriteOnTable
<1>3. CASE \/ \E j \in Jobs, a \in Agents : RequeueLeasedJobExecution(j, a)
           \/ RequeueStaleLeasedJobExecutions
  BY <1>3, RequeueOnTable
<1>4. CASE \E j \in Jobs : ClearDependencyBlock(j) \/ ClearSchedulingBlock(j)
  BY <1>4, PatchOnTable
<1>5. CASE FailTimedOutRunningJobExecutions
  BY <1>5, ReapOnTable
<1>6. CASE \E n \in 1 .. MaxJobs : \E B \in SUBSET (lastJob + 1 .. lastJob + n) : CreateJobExecutions(n, B)
  BY <1>6, CreateOnTable
<1>7. CASE \/ \E j \in Jobs : DeleteQueuedJobExecution(j)
           \/ ClearQueuedJobExecutions
           \/ \E c \in Calls : FlushIDs(c)
  BY <1>7, DeleteOnTable
<1> QED
  BY <1>1, <1>2, <1>3, <1>4, <1>5, <1>6, <1>7 DEF Next

-----------------------------------------------------------------------------
(* The first terminal status wins, and a deleted row does not come back. *)
TerminalRowsStay ==
  \A j \in Jobs :
    IsTerminal(j) => \/ row'[j].status = "deleted"
                     \/ [row'[j] EXCEPT !.deps = row[j].deps, !.retryUTC = row[j].retryUTC] = row[j]

DeletedRowsStay == \A j \in Jobs : row[j].status = "deleted" => row'[j] = row[j]

EndedRowsStay ==
  \A j \in Jobs :
    /\ IsTerminal(j) => \/ row'[j].status = "deleted"
                        \/ [row'[j] EXCEPT !.deps = row[j].deps, !.retryUTC = row[j].retryUTC] = row[j]
    /\ row[j].status = "deleted" => row'[j] = row[j]

LEMMA PatchedBack ==
  ASSUME NEW r \in Row, NEW s \in Row, RowPatched(r, s)
  PROVE  [s EXCEPT !.deps = r.deps, !.retryUTC = r.retryUTC] = r
<1> DEFINE q == [s EXCEPT !.deps = r.deps, !.retryUTC = r.retryUTC]
           D == {"status", "leasedBy", "leasedUTC", "created", "started", "finished", "error",
                 "deps", "retryUTC"}
<1>1. DOMAIN r = D /\ DOMAIN s = D /\ r = [k \in D |-> r[k]] /\ s = [k \in D |-> s[k]]
  BY DEF Row
<1>2. \A k \in D \ {"deps", "retryUTC"} : s[k] = r[k]
  <2> DEFINE p == [r EXCEPT !.deps = s.deps, !.retryUTC = s.retryUTC]
  <2>1. s = p
    BY DEF RowPatched
  <2>2. \A k \in D \ {"deps", "retryUTC"} : p[k] = r[k]
    BY <1>1
  <2> HIDE DEF p
  <2> QED
    BY <2>1, <2>2
<1>3. \A k \in D \ {"deps", "retryUTC"} : q[k] = s[k]
  BY <1>1
<1>4. q["deps"] = r["deps"] /\ q["retryUTC"] = r["retryUTC"]
  BY <1>1
<1>5. q = [k \in D |-> q[k]]
  BY <1>1
<1> HIDE DEF q, D
<1>6. \A k \in D : q[k] = r[k]
  BY <1>2, <1>3, <1>4
<1> QED
  BY <1>1, <1>5, <1>6 DEF q

LEMMA RowsOnlyGo ==
  ASSUME IInv, [Next]_vars
  PROVE  TerminalRowsStay /\ DeletedRowsStay
<1>1. row \in [Jobs -> Row]
  BY DEF IInv, TypeOK
<1>2. ASSUME NEW j \in Jobs, row'[j] = row[j]
      PROVE  [row'[j] EXCEPT !.deps = row[j].deps, !.retryUTC = row[j].retryUTC] = row[j]
  <2>1. row[j] \in Row
    BY <1>1
  <2>2. [row[j] EXCEPT !.deps = row[j].deps, !.retryUTC = row[j].retryUTC] = row[j]
    BY <2>1 DEF Row
  <2> QED
    BY <1>2, <2>2
<1>3. CASE UNCHANGED row
  BY <1>2, <1>3 DEF TerminalRowsStay, DeletedRowsStay
<1>4. CASE OneRowChanges
  <2>1. PICK j \in Jobs, s \in Row :
          /\ row' = [row EXCEPT ![j] = s]
          /\ \/ RowLeased(row[j], s)
             \/ RowUnleased(row[j], s)
             \/ RowReported(row[j], s)
             \/ RowPatched(row[j], s) /\ Exists(j)
    BY <1>4 DEF OneRowChanges
  <2>2. row'[j] = s /\ \A k \in Jobs : k # j => row'[k] = row[k]
    BY <1>1, <2>1
  <2>3. row[j].status # "deleted"
    BY <2>1 DEF RowLeased, RowUnleased, RowReported, Exists, Active, Terminal
  <2>4. DeletedRowsStay
    BY <2>2, <2>3 DEF DeletedRowsStay
  <2>5. IsTerminal(j) => RowPatched(row[j], s)
    BY <2>1 DEF RowLeased, RowUnleased, RowReported, IsTerminal, Active, Terminal
  <2>6. row[j] \in Row
    BY <1>1
  <2>7. IsTerminal(j) => [s EXCEPT !.deps = row[j].deps, !.retryUTC = row[j].retryUTC] = row[j]
    BY <2>5, <2>6, PatchedBack
  <2>8. TerminalRowsStay
    <3> SUFFICES ASSUME NEW k \in Jobs, IsTerminal(k)
                 PROVE  [row'[k] EXCEPT !.deps = row[k].deps, !.retryUTC = row[k].retryUTC] = row[k]
      BY DEF TerminalRowsStay
    <3>1. CASE k = j
      BY <2>2, <2>7, <3>1
    <3>2. CASE k # j
      BY <1>2, <2>2, <3>2
    <3> QED
      BY <3>1, <3>2
  <2> QED
    BY <2>4, <2>8
<1>5. CASE RowsAppear
  <2>1. \A j \in Jobs : row[j].status = "absent" \/ row'[j] = row[j]
    BY <1>5 DEF RowsAppear
  <2> QED
    BY <1>2, <2>1 DEF TerminalRowsStay, DeletedRowsStay, IsTerminal, Terminal
<1>6. CASE RowsGo
  <2>1. PICK S \in SUBSET Jobs : DeleteRows(S) /\ \A j \in S : row[j].status \in Pending \cup Terminal
    BY <1>6 DEF RowsGo
  <2>2. \A j \in Jobs : \/ j \in S /\ row'[j].status = "deleted"
                        \/ j \notin S /\ row'[j] = row[j]
    BY <2>1, DeletedRowFacts DEF DeleteRows
  <2>3. \A j \in S : row[j].status # "deleted"
    BY <2>1 DEF Pending, Terminal
  <2> QED
    BY <1>2, <2>2, <2>3 DEF TerminalRowsStay, DeletedRowsStay
<1> QED
  BY <1>3, <1>4, <1>5, <1>6, StepOnTable

(* Once a job ended, its outcome, times and holder stay as they are, and   *)
(* no late write brings a deleted job back.                                *)
THEOREM FirstTerminalStatusWins == Spec => TerminalIsFinal
<1>1. IInv /\ [Next]_vars => [EndedRowsStay]_row
  BY RowsOnlyGo DEF EndedRowsStay, TerminalRowsStay, DeletedRowsStay
<1> QED
  BY <1>1, InvariantHolds, PTL DEF Spec, TerminalIsFinal, EndedRowsStay

-----------------------------------------------------------------------------
(* The table implements JobLifecycle: each way of changing the table is a  *)
(* step of a job's life, or changes neither status nor holder.             *)
LEMMA LifecycleInit == Init => Lifecycle!Init
<1> SUFFICES ASSUME Init PROVE Lifecycle!Init
  OBVIOUS
<1>1. \A j \in Jobs : row[j] = AbsentRow
  BY DEF Init
<1>2. [j \in Jobs |-> row[j].status] = [j \in Jobs |-> "absent"]
  BY <1>1, AbsentRowFacts
<1>3. [j \in Jobs |-> row[j].leasedBy] = [j \in Jobs |-> NoAgent]
  BY <1>1, AbsentRowFacts
<1> QED
  BY <1>2, <1>3 DEF Lifecycle!Init

(* The mapped variables, as functions. *)
StatusOf == [j \in Jobs |-> row[j].status]
OwnerOf  == [j \in Jobs |-> row[j].leasedBy]

LEMMA OneRowIsLifecycle ==
  ASSUME IInv, NEW j \in Jobs, NEW s \in Row, row' = [row EXCEPT ![j] = s],
         \/ RowLeased(row[j], s)
         \/ RowUnleased(row[j], s)
         \/ RowReported(row[j], s)
         \/ RowPatched(row[j], s)
  PROVE  [Lifecycle!Next]_(Lifecycle!vars)
<1>1. /\ row \in [Jobs -> Row] /\ row[j] \in Row
      /\ row[j].status = "queued" => row[j].leasedBy = NoAgent
      /\ row[j].status = "leased" => row[j].leasedBy # NoAgent
  BY DEF IInv, TypeOK, RowsInv, RowCoherent
<1>2. /\ StatusOf' = [StatusOf EXCEPT ![j] = s.status]
      /\ OwnerOf' = [OwnerOf EXCEPT ![j] = s.leasedBy]
  BY <1>1 DEF StatusOf, OwnerOf
<1>3. StatusOf[j] = row[j].status /\ OwnerOf[j] = row[j].leasedBy
  BY DEF StatusOf, OwnerOf
<1>4. CASE RowLeased(row[j], s)
  <2>1. /\ StatusOf[j] = "queued" /\ OwnerOf[j] = NoAgent /\ s.leasedBy \in Agents
        /\ StatusOf' = [StatusOf EXCEPT ![j] = "leased"]
        /\ OwnerOf' = [OwnerOf EXCEPT ![j] = s.leasedBy]
    BY <1>1, <1>2, <1>3, <1>4 DEF RowLeased
  <2>2. Lifecycle!Lease(j, s.leasedBy)
    BY <2>1 DEF Lifecycle!Lease, StatusOf, OwnerOf
  <2> QED
    BY <2>1, <2>2 DEF Lifecycle!Next
<1>5. CASE RowUnleased(row[j], s)
  <2>1. /\ StatusOf[j] = "leased" /\ OwnerOf[j] # NoAgent
        /\ StatusOf' = [StatusOf EXCEPT ![j] = "queued"]
        /\ OwnerOf' = [OwnerOf EXCEPT ![j] = NoAgent]
    BY <1>1, <1>2, <1>3, <1>5 DEF RowUnleased
  <2>2. Lifecycle!LoseLease(j)
    BY <2>1 DEF Lifecycle!LoseLease, StatusOf, OwnerOf
  <2> QED
    BY <2>2 DEF Lifecycle!Next
<1>6. ASSUME s.leasedBy = row[j].leasedBy PROVE OwnerOf' = OwnerOf
  BY <1>2, <1>3, <1>6 DEF OwnerOf
<1>7. ASSUME s.status = row[j].status PROVE StatusOf' = StatusOf
  BY <1>2, <1>3, <1>7 DEF StatusOf
<1>8. CASE RowReported(row[j], s)
  <2>1. OwnerOf' = OwnerOf /\ StatusOf[j] \in {"queued", "leased", "running"}
    BY <1>3, <1>6, <1>8 DEF RowReported, Active
  <2>2. CASE s.status \in {"succeeded", "failed"}
    <3>1. Lifecycle!End(j, s.status)
      BY <1>2, <2>1, <2>2 DEF Lifecycle!End, StatusOf, OwnerOf
    <3> QED
      BY <2>2, <3>1 DEF Lifecycle!Next
  <2>3. CASE s.status = "running" /\ row[j].status # "running"
    <3>1. StatusOf[j] \in {"queued", "leased"} /\ StatusOf' = [StatusOf EXCEPT ![j] = "running"]
      BY <1>2, <1>3, <2>1, <2>3
    <3>2. Lifecycle!Start(j)
      BY <2>1, <3>1 DEF Lifecycle!Start, StatusOf, OwnerOf
    <3> QED
      BY <3>2 DEF Lifecycle!Next
  <2>4. CASE s.status = "running" /\ row[j].status = "running"
    <3>1. StatusOf' = StatusOf
      BY <1>7, <2>4
    <3> QED
      BY <2>1, <3>1 DEF Lifecycle!vars, StatusOf, OwnerOf
  <2> QED
    BY <1>8, <2>2, <2>3, <2>4 DEF RowReported, Reported
<1>9. CASE RowPatched(row[j], s)
  <2>1. s.status = row[j].status /\ s.leasedBy = row[j].leasedBy
    <3> DEFINE p == [row[j] EXCEPT !.deps = s.deps, !.retryUTC = s.retryUTC]
    <3>1. s = p
      BY <1>9 DEF RowPatched
    <3>2. p.status = row[j].status /\ p.leasedBy = row[j].leasedBy
      BY <1>1 DEF Row
    <3> HIDE DEF p
    <3> QED
      BY <3>1, <3>2
  <2>2. StatusOf' = StatusOf /\ OwnerOf' = OwnerOf
    BY <1>6, <1>7, <2>1
  <2> QED
    BY <2>2 DEF Lifecycle!vars, StatusOf, OwnerOf
<1> QED
  BY <1>4, <1>5, <1>8, <1>9

LEMMA NextIsLifecycle ==
  ASSUME IInv, IInv', [Next]_vars
  PROVE  [Lifecycle!Next]_(Lifecycle!vars)
<1>1. CASE UNCHANGED row
  BY <1>1 DEF Lifecycle!vars
<1>2. CASE OneRowChanges
  BY <1>2, OneRowIsLifecycle DEF OneRowChanges
<1>3. CASE RowsAppear
  <2>1. PICK S \in SUBSET Jobs : \A j \in Jobs :
          IF j \in S THEN row[j].status = "absent" /\ row'[j].status = "queued" /\ row'[j].leasedBy = NoAgent
                     ELSE row'[j] = row[j]
    BY <1>3 DEF RowsAppear
  <2>2. \A j \in S : row[j].leasedBy = NoAgent
    BY <2>1 DEF IInv, RowsInv, RowCoherent
  <2>3. StatusOf' = [j \in Jobs |-> IF j \in S THEN "queued" ELSE StatusOf[j]]
    BY <2>1 DEF StatusOf
  <2>4. OwnerOf' = OwnerOf
    BY <2>1, <2>2 DEF OwnerOf
  <2>5. \A j \in S : StatusOf[j] = "absent"
    BY <2>1 DEF StatusOf
  <2>6. Lifecycle!Create(S)
    BY <2>3, <2>4, <2>5 DEF Lifecycle!Create, StatusOf, OwnerOf
  <2> QED
    BY <2>6 DEF Lifecycle!Next
<1>4. CASE RowsGo
  <2>1. PICK S \in SUBSET Jobs : /\ DeleteRows(S)
                                 /\ \/ \A j \in S : row[j].status \in Pending
                                    \/ \A j \in S : row[j].status \in Terminal
    BY <1>4 DEF RowsGo
  <2> DEFINE d == [AbsentRow EXCEPT !.status = "deleted"]
  <2>2. d.status = "deleted" /\ d.leasedBy = NoAgent
    BY AbsentRowFacts DEF Row
  <2>3. \A j \in Jobs : row'[j] = IF j \in S THEN d ELSE row[j]
    BY <2>1 DEF DeleteRows
  <2> HIDE DEF d
  <2>4. StatusOf' = [j \in Jobs |-> IF j \in S THEN "deleted" ELSE StatusOf[j]]
    BY <2>2, <2>3 DEF StatusOf
  <2>5. OwnerOf' = [j \in Jobs |-> IF j \in S THEN NoAgent ELSE OwnerOf[j]]
    BY <2>2, <2>3 DEF OwnerOf
  <2>6. \/ \A j \in S : StatusOf[j] \in {"queued", "leased"}
        \/ \A j \in S : StatusOf[j] \in {"succeeded", "failed"}
    BY <2>1 DEF StatusOf, Pending, Terminal
  <2>7. Lifecycle!Remove(S)
    BY <2>4, <2>5, <2>6 DEF Lifecycle!Remove, StatusOf, OwnerOf
  <2> QED
    BY <2>7 DEF Lifecycle!Next
<1> QED
  BY <1>1, <1>2, <1>3, <1>4, StepOnTable

(* Every behaviour of the store is one that JobLifecycle allows. *)
THEOREM StoreImplementsLifecycle == Spec => ImplementsLifecycle
<1>1. Init => Lifecycle!Init
  BY LifecycleInit
<1>2. IInv /\ IInv' /\ [Next]_vars => [Lifecycle!Next]_(Lifecycle!vars)
  BY NextIsLifecycle
<1> QED
  BY <1>1, <1>2, InvariantHolds, PTL DEF Spec, ImplementsLifecycle, Lifecycle!Spec
=============================================================================
