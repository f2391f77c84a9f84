------------------------ MODULE AgentUpdate_proofs ------------------------
(***************************************************************************)
(* No agent is admitted to a job that its own exit would kill, for any     *)
(* number of versions, events and waiting answers.  The argument: nobody   *)
(* asks an agent for the version that it runs, wherever the request waits  *)
(* (a heartbeat, the ticker's channel, a deferred update, an installation),*)
(* and while the agent asks for a job, the server's record of it holds the *)
(* version that it runs, for the heartbeat just before has said so.  An    *)
(* agent that exits for another version than the wanted one is not the     *)
(* property's concern, and one that exits for the wanted one runs another, *)
(* so the server sees an update pending.                                   *)
(***************************************************************************)
EXTENDS AgentUpdate, SequenceTheorems, TLAPS

(* A request for another version than the one that runs, or none. *)
Asked(v) == v = None \/ v # proc.version

BeatsFit ==
  \A k \in Beats :
    /\ beat[k].pc # "none" => beat[k].version = proc.version
    /\ Asked(beat[k].update)

QueueFits == \A i \in 1 .. Len(queue) : Asked(queue[i].update)

(* A process installs, or exits for, another version than its own. *)
Fits(p) ==
  /\ p \in Process
  /\ p.pc = "installing" => ~p.job /\ p.updating
  /\ p.deferred = None \/ p.deferred # p.version
  /\ p.pc = "installing" \/ p.exiting => p.target # None /\ p.target # p.version

(* The heartbeat before the lease has told the server what runs. *)
RecordFits ==
  proc.pc \in {"leasing", "admitted"} \/ beat["loop"].pc = "answered" => rec.version = proc.version

IInv == TypeOK /\ BeatsFit /\ QueueFits /\ Fits(proc) /\ RecordFits
-----------------------------------------------------------------------------
LEMMA UnknownRecord == Unknown \in Record
BY VersionsAssumption DEF Unknown, Record, Targets

(* What the handler makes of the record. *)
LEMMA RecordTypes ==
  ASSUME TypeOK, NEW r \in Record, NEW b \in Beat
  PROVE  /\ Scheduled(r) \in Record /\ Noted(r, b) \in Record /\ Judged(r, b) \in Record
         /\ Requested(r, b) \in Record /\ NoUpdate(r) \in Record
<1>1. Target \in Targets /\ Source \in {"automatic", "manual"}
  BY DEF TypeOK, Target, Source
<1>2. Scheduled(r) \in Record
  BY <1>1 DEF Scheduled, Record
<1>3. Noted(r, b) \in Record /\ Requested(r, b) \in Record
  BY DEF Noted, Requested, Record, Beat
<1>4. Judged(r, b) \in Record
  BY DEF Judged, Record
<1>5. NoUpdate(r) \in Record
  BY UnknownRecord DEF NoUpdate, Record
<1> QED
  BY <1>2, <1>3, <1>4, <1>5

LEMMA HandledRecord ==
  ASSUME TypeOK, NEW r \in Record, NEW v \in Versions
  PROVE  /\ [r EXCEPT !.known = TRUE, !.version = v] \in Record
         /\ [r EXCEPT !.known = TRUE, !.version = v].version = v
BY DEF Record

(* What the agent makes of an answer. *)
LEMMA AnswerFits ==
  ASSUME NEW p, Fits(p), p.pc # "installing", NEW v \in Targets, v = None \/ v # p.version
  PROVE  Fits(RunOrDefer(p, v)) /\ RunOrDefer(p, v).version = p.version
<1>1. ASSUME v # None, ~p.job PROVE Fits(Installing(p, v)) /\ Installing(p, v).version = p.version
  BY <1>1 DEF Fits, Installing, Process, Targets
<1>2. Fits([p EXCEPT !.deferred = v]) /\ [p EXCEPT !.deferred = v].version = p.version
  BY DEF Fits, Process
<1> QED
  BY <1>1, <1>2 DEF RunOrDefer

LEMMA AckFits ==
  ASSUME NEW p, Fits(p), NEW f \in BOOLEAN
  PROVE  /\ Fits(Acked(p, f))
         /\ Acked(p, f).version = p.version /\ Acked(p, f).pc = p.pc
BY DEF Fits, Acked, Process

LEMMA FlushFits ==
  ASSUME NEW p, Fits(p), ~p.job, p.pc # "installing"
  PROVE  Fits(FlushDeferred(p)) /\ FlushDeferred(p).version = p.version
BY DEF Fits, FlushDeferred, Installing, Process, Targets

LEMMA MoveFits ==
  ASSUME NEW p, Fits(p), NEW to \in {"select", "beating", "leasing", "admitted"}
  PROVE  /\ Fits([p EXCEPT !.pc = to])
         /\ [p EXCEPT !.pc = to].version = p.version /\ [p EXCEPT !.pc = to].pc = to
BY DEF Fits, Process

LEMMA StartFits == ASSUME NEW v \in Versions PROVE Fits(Started(v)) /\ Started(v).version = v
BY DEF Fits, Started, Process, Targets

LEMMA BeatTypes == NoBeat \in Beat /\ NoBeat.pc = "none" /\ NoBeat.update = None
BY VersionsAssumption DEF NoBeat, Beat, Targets

(* An answer is read off the channel, or appended to it. *)
LEMMA QueueTypes ==
  ASSUME TypeOK
  PROVE  /\ \A a \in Answers : Len(queue) < MaxQueue =>
              Append(queue, a) \in Seq(Answers) /\ Len(Append(queue, a)) <= MaxQueue
         /\ queue # <<>> => /\ Head(queue) \in Answers /\ Tail(queue) \in Seq(Answers)
                            /\ Len(Tail(queue)) <= MaxQueue
         /\ <<>> \in Seq(Answers) /\ Len(<<>>) <= MaxQueue
<1> USE DEF TypeOK
<1>1. MaxQueue \in Nat
  BY BoundsAssumption
<1>2. ASSUME NEW a \in Answers, Len(queue) < MaxQueue
      PROVE  Append(queue, a) \in Seq(Answers) /\ Len(Append(queue, a)) <= MaxQueue
  BY <1>1, <1>2
<1>3. ASSUME queue # <<>>
      PROVE  /\ Head(queue) \in Answers /\ Tail(queue) \in Seq(Answers)
             /\ Len(Tail(queue)) <= MaxQueue
  BY <1>1, <1>3
<1> QED
  BY <1>1, <1>2, <1>3

LEMMA EventTypes == ASSUME TypeOK, NEW e, Event(e) PROVE events' \in 0 .. MaxEvents
BY BoundsAssumption DEF TypeOK, Event

(* One more heartbeat; it says what runs. *)
LEMMA SendTypes ==
  ASSUME TypeOK, NEW k \in Beats, SendBeat(k)
  PROVE  /\ beat' \in [Beats -> Beat]
         /\ beat'[k].pc = "sent" /\ beat'[k].version = proc.version /\ beat'[k].update = None
         /\ \A o \in Beats \ {k} : beat'[o] = beat[o]
<1>1. PICK b : b = [NoBeat EXCEPT !.pc = "sent", !.version = proc.version, !.busy = row,
                                  !.failure = proc.failure, !.updating = proc.updating]
  OBVIOUS
<1>2. b \in Beat /\ b.pc = "sent" /\ b.version = proc.version /\ b.update = None
  BY <1>1 DEF TypeOK, NoBeat, Beat, Process, Targets
<1>3. beat' = [beat EXCEPT ![k] = b]
  BY <1>1 DEF SendBeat
<1> QED
  BY <1>2, <1>3 DEF TypeOK

LEMMA HandledBeat ==
  ASSUME TypeOK, NEW k \in Beats, HandleBeat(k)
  PROVE  /\ beat[k].pc = "sent"
         /\ rec' \in Record /\ rec'.version = beat[k].version
         /\ beat' \in [Beats -> Beat]
         /\ beat'[k].pc # "none" => beat'[k].version = beat[k].version
         /\ \/ beat'[k].update = None
            \/ beat'[k].update = Target /\ Target # beat[k].version
         /\ \A o \in Beats \ {k} : beat'[o] = beat[o]
<1>1. PICK b : b = beat[k]
  OBVIOUS
<1>2. b \in Beat
  BY <1>1 DEF TypeOK
<1>3. PICK judged : judged = Judged(Noted(Scheduled(rec), b), b)
  OBVIOUS
<1>4. judged \in Record
  BY <1>2, <1>3, RecordTypes DEF TypeOK
<1>5. PICK r : r = IF NeedsUpdate(b) THEN Requested(judged, b) ELSE NoUpdate(rec)
  OBVIOUS
<1>6. r \in Record
  BY <1>2, <1>4, <1>5, RecordTypes DEF TypeOK
<1>7. rec' = [r EXCEPT !.known = TRUE, !.version = b.version]
  BY <1>1, <1>3, <1>5 DEF HandleBeat
<1>8. b.version \in Versions
  BY <1>2 DEF Beat
<1>9. rec' \in Record /\ rec'.version = b.version
  BY <1>6, <1>7, <1>8, HandledRecord
<1>10. PICK u : u = IF NeedsUpdate(b) /\ Requests(judged, b) THEN Target ELSE None
  OBVIOUS
<1>11. PICK n : n = IF k \in Late THEN NoBeat ELSE [b EXCEPT !.pc = "answered", !.update = u]
  OBVIOUS
<1>12. beat' = [beat EXCEPT ![k] = n] /\ b.pc = "sent"
  BY <1>1, <1>3, <1>10, <1>11 DEF HandleBeat
<1>13. Target \in Targets
  BY DEF TypeOK, Target
<1>14. n \in Beat /\ (n.pc # "none" => n.version = b.version) /\ n.update \in {None, u}
  BY <1>2, <1>10, <1>11, <1>13, BeatTypes DEF Beat, NoBeat, Targets
<1>15. u = None \/ (u = Target /\ Target # b.version)
  BY <1>10 DEF NeedsUpdate
<1> QED
  BY <1>1, <1>9, <1>12, <1>14, <1>15 DEF TypeOK
-----------------------------------------------------------------------------
LEMMA InitIInv == Init => IInv
<1> SUFFICES ASSUME Init PROVE IInv
  OBVIOUS
<1> USE DEF Init
<1>1. wanted \in Targets /\ manual \in Targets
  BY VersionsAssumption DEF Targets
<1>2. rec \in Record /\ disk \in Record /\ row \in BOOLEAN
  BY UnknownRecord
<1>3. beat \in [Beats -> Beat]
  BY BeatTypes
<1>4. Fits(proc) /\ proc.pc = "select"
  BY StartFits, VersionsAssumption DEF Started
<1>5. queue \in Seq(Answers) /\ Len(queue) <= MaxQueue /\ Len(queue) = 0
  BY BoundsAssumption
<1>6. events \in 0 .. MaxEvents
  BY BoundsAssumption
<1>7. TypeOK
  BY <1>1, <1>2, <1>3, <1>4, <1>5, <1>6 DEF TypeOK, Fits
<1>8. \A k \in Beats : beat[k].pc = "none" /\ beat[k].update = None
  BY DEF NoBeat
<1>9. BeatsFit /\ QueueFits /\ RecordFits
  BY <1>4, <1>5, <1>8 DEF BeatsFit, QueueFits, RecordFits, Asked, Beats, Senders
<1> QED
  BY <1>4, <1>7, <1>9 DEF IInv

(* The variables that only some steps touch. *)
ServerTypes ==
  /\ wanted \in Targets /\ manual \in Targets /\ rec \in Record /\ disk \in Record
  /\ row \in BOOLEAN

ChannelTypes ==
  /\ beat \in [Beats -> Beat]
  /\ queue \in Seq(Answers) /\ Len(queue) <= MaxQueue

LEMMA Types ==
  /\ TypeOK => ServerTypes /\ ChannelTypes /\ events \in 0 .. MaxEvents /\ proc \in Process
  /\ ServerTypes /\ ChannelTypes /\ events \in 0 .. MaxEvents /\ Fits(proc) => TypeOK
BY DEF TypeOK, ServerTypes, ChannelTypes, Fits

LEMMA ServerStep == ASSUME TypeOK, [Next]_vars PROVE ServerTypes'
<1> USE Types DEF ServerTypes
<1>1. CASE UNCHANGED server
  BY <1>1 DEF server
<1>2. ASSUME NEW k \in Beats, HandleBeat(k) PROVE ServerTypes'
  <2>1. rec' \in Record
    BY <1>2, HandledBeat
  <2>2. None \in Targets
    BY DEF Targets
  <2> QED
    BY <1>2, <2>1, <2>2 DEF HandleBeat
<1>3. CASE RetryTimeComes
  BY <1>3 DEF RetryTimeComes, Record
<1>4. CASE GraceEnds
  BY <1>4 DEF GraceEnds, Record
<1>5. ASSUME NEW v \in Versions, SetAgentUpdateTarget(v) PROVE ServerTypes'
  BY <1>5 DEF SetAgentUpdateTarget, Targets
<1>6. ASSUME NEW v \in Versions, RequestAgentUpdate(v) PROVE ServerTypes'
  <2>1. rec' \in Record
    BY <1>6 DEF RequestAgentUpdate, Record, Targets
  <2> QED
    BY <1>6, <2>1 DEF RequestAgentUpdate, Targets
<1>7. CASE RestartServer
  BY <1>7 DEF RestartServer, Targets
<1>8. CASE LeaseJob \/ RecoverJob \/ EndJob
  BY <1>8 DEF LeaseJob, RecoverJob, EndJob
<1>9. CASE UNCHANGED vars
  BY <1>1, <1>9 DEF vars
<1> QED
  BY <1>1, <1>2, <1>3, <1>4, <1>5, <1>6, <1>7, <1>8, <1>9
     DEF Next, AgentStep, LeaseStep, HandleHeartbeatResult, LeaseTick, LoopAnswer, EndInstall,
         CheckAdmission, TickerBeat, TickerAnswer, Exit, FailHandover, RestartAgent, NewProcess,
         LoseBeat

LEMMA EventsStep == ASSUME TypeOK, [Next]_vars PROVE events' \in 0 .. MaxEvents
<1>1. CASE UNCHANGED events
  BY <1>1 DEF TypeOK
<1>2. CASE UNCHANGED vars
  BY <1>1, <1>2 DEF vars
<1> QED
  BY <1>1, <1>2, EventTypes
     DEF Next, AgentStep, LeaseStep, HandleHeartbeatResult, LeaseTick, LoopAnswer, EndJob, EndInstall,
         CheckAdmission, LeaseJob, HandleBeat, TickerBeat, TickerAnswer, RetryTimeComes, GraceEnds,
         RecoverJob, Exit, FailHandover, RestartAgent, RestartServer, LoseBeat,
         SetAgentUpdateTarget, RequestAgentUpdate
-----------------------------------------------------------------------------
(* A step starts another process, leaves the agent the one that runs as it *)
(* is, or is one of its own, which go on with the same version.            *)
LEMMA ProcessStep ==
  ASSUME IInv, [Next]_vars
  PROVE  \/ Fits(proc') /\ proc'.version = proc.version
         \/ \E v \in Versions : NewProcess(v)
<1> USE DEF IInv
<1>1. CASE UNCHANGED proc
  BY <1>1
<1>2. CASE HandleHeartbeatResult
  <2>1. PICK a : a = Head(queue)
    OBVIOUS
  <2>2. /\ a \in Answers /\ a = queue[1] /\ 1 \in 1 .. Len(queue) /\ proc.pc = "select"
        /\ proc' = RunOrDefer(Acked(proc, a.failure), a.update)
    BY <1>2, <2>1, QueueTypes DEF HandleHeartbeatResult, TypeOK
  <2>3. a.update \in Targets /\ a.failure \in BOOLEAN /\ (a.update = None \/ a.update # proc.version)
    BY <2>2 DEF Answers, QueueFits, Asked
  <2>4. PICK p : p = Acked(proc, a.failure)
    OBVIOUS
  <2>5. Fits(p) /\ p.version = proc.version /\ p.pc = "select"
    BY <2>2, <2>3, <2>4, AckFits
  <2> QED
    BY <2>2, <2>3, <2>4, <2>5, AnswerFits
<1>3. CASE LeaseTick
  <2>1. proc.pc = "select" /\ ~proc.job
    BY <1>3 DEF LeaseTick
  <2>2. proc' = FlushDeferred(proc) \/ proc' = [proc EXCEPT !.pc = "beating"]
    BY <1>3 DEF LeaseTick
  <2>3. Fits(FlushDeferred(proc)) /\ FlushDeferred(proc).version = proc.version
    BY <2>1, FlushFits
  <2> QED
    BY <2>2, <2>3, MoveFits
<1>4. CASE LoopAnswer
  <2>1. PICK b : b = beat["loop"]
    OBVIOUS
  <2>2. b \in Beat /\ b.pc = "answered" /\ Asked(b.update)
    BY <1>4, <2>1 DEF LoopAnswer, TypeOK, Beats, Senders, BeatsFit
  <2>3. PICK to \in {"select", "leasing"} : to = IF b.update = None THEN "leasing" ELSE "select"
    OBVIOUS
  <2>4. PICK q : q = [proc EXCEPT !.pc = to]
    OBVIOUS
  <2>5. Fits(q) /\ q.version = proc.version /\ q.pc = to
    BY <2>4, MoveFits
  <2>6. PICK p : p = Acked(q, b.failure)
    OBVIOUS
  <2>7. Fits(p) /\ p.version = proc.version /\ p.pc = to
    BY <2>2, <2>5, <2>6, AckFits DEF Beat
  <2>8. proc' = RunOrDefer(p, b.update)
    BY <1>4, <2>1, <2>3, <2>4, <2>6 DEF LoopAnswer
  <2> QED
    BY <2>2, <2>7, <2>8, AnswerFits DEF Beat, Asked
<1>5. CASE EndJob
  <2>1. PICK p : p = [proc EXCEPT !.job = FALSE]
    OBVIOUS
  <2>2. Fits(p) /\ ~p.job /\ p.pc = "select" /\ p.version = proc.version
    BY <1>5, <2>1 DEF EndJob, Fits, Process
  <2> QED
    BY <1>5, <2>1, <2>2, FlushFits DEF EndJob
<1>6. CASE EndInstall
  BY <1>6 DEF EndInstall, Fits, Process
<1>7. CASE CheckAdmission
  BY <1>7, MoveFits DEF CheckAdmission
<1>8. CASE LeaseJob
  BY <1>8 DEF LeaseJob, Fits, Process
<1>9. ASSUME NEW k \in Senders, LoseBeat(k) PROVE Fits(proc') /\ proc'.version = proc.version
  BY <1>9, MoveFits DEF LoseBeat
<1>10. CASE RestartServer
  BY <1>10, MoveFits DEF RestartServer
<1>11. CASE Exit \/ FailHandover \/ RestartAgent
  <2>1. proc.version \in Versions /\ (proc.exiting => proc.target \in Versions)
    BY DEF Fits, Process, Targets
  <2> QED
    BY <1>11, <2>1 DEF Exit, FailHandover, RestartAgent
<1>12. CASE UNCHANGED vars
  BY <1>1, <1>12 DEF vars
<1> QED
  BY <1>1, <1>2, <1>3, <1>4, <1>5, <1>6, <1>7, <1>8, <1>9, <1>10, <1>11, <1>12
     DEF Next, AgentStep, LeaseStep, HandleBeat, TickerBeat, TickerAnswer, RetryTimeComes,
         GraceEnds, RecoverJob, SetAgentUpdateTarget, RequestAgentUpdate

LEMMA ProcessFits == ASSUME IInv, [Next]_vars PROVE Fits(proc')
<1>1. ASSUME NEW v \in Versions, NewProcess(v) PROVE Fits(proc')
  BY <1>1, StartFits DEF NewProcess
<1> QED
  BY <1>1, ProcessStep

(* What waits for the agent is for the version that runs. *)
LEMMA BeatsStep ==
  ASSUME IInv, [Next]_vars
  PROVE  beat' \in [Beats -> Beat] /\ BeatsFit'
<1> DEFINE Fit(b, v) == (b.pc # "none" => b.version = v) /\ (b.update = None \/ b.update # v)
<1>1. /\ beat \in [Beats -> Beat]
      /\ \A k \in Beats : Fit(beat[k], proc.version)
  BY DEF IInv, TypeOK, BeatsFit, Asked
<1>2. SUFFICES beat' \in [Beats -> Beat] /\ \A k \in Beats : Fit(beat'[k], proc'.version)
  BY DEF BeatsFit, Asked
<1>3. NoBeat \in Beat /\ \A v : Fit(NoBeat, v)
  BY BeatTypes
<1>4. ASSUME beat' = [k \in Beats |-> NoBeat]
      PROVE  beat' \in [Beats -> Beat] /\ \A k \in Beats : Fit(beat'[k], proc'.version)
  <2> HIDE DEF Fit
  <2> QED
    BY <1>3, <1>4
<1>5. CASE \E v \in Versions : NewProcess(v)
  <2> HIDE DEF Fit
  <2> QED
    BY <1>4, <1>5 DEF NewProcess
<1>6. CASE proc'.version = proc.version
  <2>1. CASE UNCHANGED beat
    BY <1>1, <1>6, <2>1
  <2>2. ASSUME NEW k \in Beats, HandleBeat(k)
        PROVE  beat' \in [Beats -> Beat] /\ \A o \in Beats : Fit(beat'[o], proc'.version)
    <3>1. Fit(beat'[k], proc.version)
      BY <1>1, <2>2, HandledBeat DEF IInv
    <3> HIDE DEF Fit
    <3> QED
      BY <1>1, <1>6, <2>2, <3>1, HandledBeat DEF IInv
  <2>3. ASSUME NEW k \in Beats, SendBeat(k)
        PROVE  beat' \in [Beats -> Beat] /\ \A o \in Beats : Fit(beat'[o], proc'.version)
    <3>1. Fit(beat'[k], proc.version)
      BY <2>3, SendTypes DEF IInv
    <3> HIDE DEF Fit
    <3> QED
      BY <1>1, <1>6, <2>3, <3>1, SendTypes DEF IInv
  <2>4. ASSUME NEW k \in Beats, beat' = [beat EXCEPT ![k] = NoBeat]
        PROVE  beat' \in [Beats -> Beat] /\ \A o \in Beats : Fit(beat'[o], proc'.version)
    <3> HIDE DEF Fit
    <3> QED
      BY <1>1, <1>3, <1>6, <2>4
  <2>5. ASSUME NEW k \in Senders, NEW l \in Late, beat' = [beat EXCEPT ![k] = NoBeat, ![l] = beat[k]]
        PROVE  beat' \in [Beats -> Beat] /\ \A o \in Beats : Fit(beat'[o], proc'.version)
    <3> HIDE DEF Fit
    <3> QED
      BY <1>1, <1>3, <1>6, <2>5 DEF Beats
  <2>6. CASE RestartServer
    <3> HIDE DEF Fit
    <3> QED
      BY <1>4, <2>6 DEF RestartServer
  <2>7. {"ticker", "loop"} \subseteq Beats /\ Senders \subseteq Beats
    BY DEF Beats, Senders
  <2>8. ASSUME NEW k \in Senders, LoseBeat(k)
        PROVE  beat' \in [Beats -> Beat] /\ \A o \in Beats : Fit(beat'[o], proc'.version)
    <3> HIDE DEF Fit
    <3> QED
      BY <2>4, <2>5, <2>7, <2>8 DEF LoseBeat
  <2>9. CASE UNCHANGED vars
    BY <2>1, <2>9 DEF vars
  <2>10. CASE \E v \in Versions : NewProcess(v)
    BY <1>5, <2>10
  <2>11. CASE Exit \/ FailHandover \/ RestartAgent
    <3> HIDE DEF Fit
    <3> QED
      BY <1>4, <2>11 DEF Exit, FailHandover, RestartAgent, NewProcess
  <2> HIDE DEF Fit
  <2> QED
    BY <2>1, <2>2, <2>3, <2>4, <2>6, <2>7, <2>8, <2>9, <2>11
       DEF Next, AgentStep, LeaseStep, HandleHeartbeatResult, LeaseTick, LoopAnswer, EndJob,
           EndInstall, CheckAdmission, LeaseJob, TickerBeat, TickerAnswer, RetryTimeComes, GraceEnds,
           RecoverJob, SetAgentUpdateTarget, RequestAgentUpdate
<1> HIDE DEF Fit
<1> QED
  BY <1>5, <1>6, ProcessStep

LEMMA QueueStep ==
  ASSUME IInv, [Next]_vars
  PROVE  queue' \in Seq(Answers) /\ Len(queue') <= MaxQueue /\ QueueFits'
<1> USE DEF IInv
<1>1. CASE \E v \in Versions : NewProcess(v)
  BY <1>1, QueueTypes DEF NewProcess, QueueFits
<1>2. CASE proc'.version = proc.version
  <2>1. CASE UNCHANGED queue
    BY <1>2, <2>1 DEF TypeOK, QueueFits, Asked
  <2>2. CASE HandleHeartbeatResult
    <3>1. /\ queue \in Seq(Answers) /\ queue # <<>> /\ queue' = Tail(queue)
      BY <2>2 DEF HandleHeartbeatResult, TypeOK
    <3>2. \A i \in 1 .. Len(queue') : queue'[i] = queue[i + 1] /\ i + 1 \in 1 .. Len(queue)
      BY <3>1
    <3> QED
      BY <1>2, <3>1, <3>2, QueueTypes DEF QueueFits, Asked
  <2>3. CASE TickerAnswer
    <3>1. PICK b : b = beat["ticker"]
      OBVIOUS
    <3>2. b \in Beat /\ Asked(b.update)
      BY <3>1 DEF TypeOK, BeatsFit, Beats, Senders
    <3>3. PICK a : a = [update |-> b.update, failure |-> b.failure]
      OBVIOUS
    <3>4. a \in Answers /\ Asked(a.update)
      BY <3>2, <3>3 DEF Beat, Answers
    <3>5. queue' = Append(queue, a) /\ Len(queue) < MaxQueue /\ queue \in Seq(Answers)
      BY <2>3, <3>1, <3>3 DEF TickerAnswer, TypeOK
    <3>6. \A i \in 1 .. Len(queue') : queue'[i] = a \/ (i \in 1 .. Len(queue) /\ queue'[i] = queue[i])
      BY <3>4, <3>5
    <3> QED
      BY <1>2, <3>4, <3>5, <3>6, QueueTypes DEF QueueFits, Asked
  <2>4. CASE UNCHANGED vars
    BY <2>1, <2>4 DEF vars
  <2>5. CASE Exit \/ FailHandover \/ RestartAgent
    <3>1. queue' = <<>>
      BY <2>5 DEF Exit, FailHandover, RestartAgent, NewProcess
    <3> QED
      BY <3>1, QueueTypes DEF QueueFits
  <2> QED
    BY <2>1, <2>2, <2>3, <2>4, <2>5
       DEF Next, AgentStep, LeaseStep, LeaseTick, LoopAnswer, EndJob, EndInstall, CheckAdmission,
           LeaseJob, HandleBeat, TickerBeat, RetryTimeComes, GraceEnds, RecoverJob, RestartServer,
           LoseBeat, SetAgentUpdateTarget, RequestAgentUpdate
<1> QED
  BY <1>1, <1>2, ProcessStep

(* The agent asks for a job, or is about to. *)
Asking == proc.pc \in {"leasing", "admitted"} \/ beat["loop"].pc = "answered"

(* Only a heartbeat that was handled lets the agent ask, and no other step *)
(* changes the version on record unless it makes the agent start over.     *)
LEMMA RecordStep == ASSUME IInv, [Next]_vars PROVE RecordFits'
<1> USE DEF IInv
<1>1. SUFFICES ASSUME Asking' PROVE rec'.version = proc'.version
  BY DEF RecordFits, Asking
<1>2. "loop" \in Beats /\ "ticker" \in Beats /\ "loop" \notin Late /\ "ticker" # "loop"
  BY LateAssumption DEF Beats, Senders
<1>3. proc \in Process /\ beat \in [Beats -> Beat] /\ NoBeat.pc = "none"
  BY BeatTypes DEF TypeOK
<1>4. CASE \E v \in Versions : NewProcess(v)
  <2>1. proc'.pc = "select" /\ beat'["loop"].pc = "none"
    BY <1>2, <1>3, <1>4 DEF NewProcess, Started
  <2> QED
    BY <1>1, <2>1 DEF Asking
<1>5. CASE proc'.version = proc.version
  <2>1. ASSUME rec'.version = rec.version, Asking PROVE rec'.version = proc'.version
    BY <1>5, <2>1 DEF RecordFits, Asking
  <2>2. ASSUME NEW k \in Beats, HandleBeat(k) PROVE rec'.version = proc'.version
    BY <1>5, <2>2, HandledBeat DEF BeatsFit
  <2>3. ASSUME NEW to \in {"select", "beating", "installing"}, proc'.pc = to, beat' = beat,
               rec'.version = rec.version
        PROVE  rec'.version = proc'.version
    BY <1>1, <2>1, <2>3 DEF Asking
  <2>4. CASE HandleHeartbeatResult
    <3>1. PICK a : a = Head(queue)
      OBVIOUS
    <3>2. a \in Answers /\ proc' = RunOrDefer(Acked(proc, a.failure), a.update)
      BY <2>4, <3>1, QueueTypes DEF HandleHeartbeatResult
    <3>3. proc'.pc \in {"select", "installing"}
      BY <1>3, <2>4, <3>2 DEF HandleHeartbeatResult, RunOrDefer, Installing, Acked, Process, Answers
    <3>4. beat' = beat /\ rec' = rec
      BY <2>4 DEF HandleHeartbeatResult, server
    <3> QED
      BY <2>3, <3>3, <3>4
  <2>5. CASE LeaseTick
    <3>1. rec' = rec
      BY <2>5 DEF LeaseTick, server
    <3>2. \/ beat' = beat /\ proc'.pc = "installing"
          \/ SendBeat("loop") /\ proc'.pc = "beating"
      BY <1>3, <2>5 DEF LeaseTick, FlushDeferred, Installing, Process
    <3>3. SendBeat("loop") => beat'["loop"].pc = "sent"
      BY <1>2, SendTypes
    <3> QED
      BY <1>1, <2>3, <3>1, <3>2, <3>3 DEF Asking
  <2>6. CASE LoopAnswer
    BY <2>1, <2>6 DEF LoopAnswer, Asking, server
  <2>7. CASE EndJob
    <3>1. proc'.pc \in {"select", "installing"} /\ beat' = beat /\ rec' = rec
      BY <1>3, <2>7 DEF EndJob, FlushDeferred, Installing, Process
    <3> QED
      BY <2>3, <3>1
  <2>8. CASE EndInstall \/ LeaseJob
    <3>1. proc'.pc = "select" /\ beat' = beat /\ rec' = rec
      BY <1>3, <2>8 DEF EndInstall, LeaseJob, Process, server
    <3> QED
      BY <2>3, <3>1
  <2>9. CASE CheckAdmission
    BY <2>1, <2>9 DEF CheckAdmission, Asking, server
  <2>10. CASE TickerBeat \/ TickerAnswer
    <3>1. SendBeat("ticker") => beat'["loop"] = beat["loop"]
      BY <1>2, SendTypes
    <3>2. proc' = proc /\ rec' = rec /\ beat'["loop"] = beat["loop"]
      BY <1>2, <1>3, <2>10, <3>1 DEF TickerBeat, TickerAnswer, server
    <3> QED
      BY <1>1, <2>1, <3>2 DEF Asking
  <2>11. ASSUME NEW k \in Senders, LoseBeat(k) PROVE rec'.version = proc'.version
    <3>1. rec' = rec
      BY <2>11 DEF LoseBeat, server
    <3>2. CASE k = "loop"
      <4>1. proc'.pc = "select" /\ beat'["loop"] = NoBeat
        BY <1>2, <1>3, <2>11, <3>2 DEF LoseBeat, Process
      <4> QED
        BY <1>1, <1>3, <4>1 DEF Asking
    <3>3. CASE k # "loop"
      <4>1. proc' = proc /\ beat'["loop"] = beat["loop"]
        BY <1>2, <1>3, <2>11, <3>3 DEF LoseBeat
      <4> QED
        BY <1>1, <2>1, <3>1, <4>1 DEF Asking
    <3> QED
      BY <3>2, <3>3
  <2>12. CASE RestartServer
    <3>1. proc'.pc \notin {"leasing", "admitted"} /\ beat'["loop"].pc = "none"
      BY <1>2, <1>3, <2>12 DEF RestartServer, Process
    <3> QED
      BY <1>1, <3>1 DEF Asking
  <2>13. CASE UNCHANGED <<rec, beat, proc>>
    BY <1>1, <2>1, <2>13 DEF Asking
  <2>14. ASSUME rec'.version = rec.version, UNCHANGED <<beat, proc>> PROVE rec'.version = proc'.version
    BY <1>1, <2>1, <2>14 DEF Asking
  <2>15. CASE RetryTimeComes \/ GraceEnds \/ \E v \in Versions : RequestAgentUpdate(v)
    <3>1. rec \in Record
      BY DEF TypeOK
    <3>2. rec'.version = rec.version /\ UNCHANGED <<beat, proc>>
      BY <2>15, <3>1 DEF RetryTimeComes, GraceEnds, RequestAgentUpdate, Record
    <3> QED
      BY <2>14, <3>2
  <2>16. CASE UNCHANGED vars
    BY <2>13, <2>16 DEF vars, server
  <2>17. CASE Exit \/ FailHandover \/ RestartAgent
    <3>1. proc'.pc = "select" /\ beat'["loop"].pc = "none"
      BY <1>2, <1>3, <2>17 DEF Exit, FailHandover, RestartAgent, NewProcess, Started
    <3> QED
      BY <1>1, <3>1 DEF Asking
  <2> QED
    BY <2>2, <2>4, <2>5, <2>6, <2>7, <2>8, <2>9, <2>10, <2>11, <2>12, <2>13, <2>15, <2>16, <2>17
       DEF Next, AgentStep, LeaseStep, RecoverJob, SetAgentUpdateTarget
<1> QED
  BY <1>4, <1>5, ProcessStep
-----------------------------------------------------------------------------
LEMMA IInvStep == IInv /\ [Next]_vars => IInv'
<1> SUFFICES ASSUME IInv, [Next]_vars PROVE IInv'
  OBVIOUS
<1>1. ServerTypes' /\ events' \in 0 .. MaxEvents
  BY ServerStep, EventsStep DEF IInv
<1>2. ChannelTypes' /\ BeatsFit' /\ QueueFits'
  BY BeatsStep, QueueStep DEF ChannelTypes
<1>3. Fits(proc')
  BY ProcessFits
<1>4. TypeOK'
  BY <1>1, <1>2, <1>3 DEF TypeOK, ServerTypes, ChannelTypes, Fits
<1> QED
  BY <1>2, <1>3, <1>4, RecordStep DEF IInv

(* Nobody asks an agent for the version that it runs, and who asks for a  *)
(* job has told what that is (heartbeatHandler, handleLeaseTick).          *)
THEOREM InvariantHolds == Spec => []IInv
<1> QED
  BY InitIInv, IInvStep, PTL DEF Spec

(* The records of agents, the heartbeats, the channel and the process keep *)
(* their types, and the agent installs only when no job runs               *)
(* (server_agents.go, agent_main.go).                                      *)
THEOREM TypeCorrect == Spec => []TypeOK
<1>1. IInv => TypeOK
  BY DEF IInv
<1> QED
  BY <1>1, InvariantHolds, PTL

(* leaseJobHandler admits no agent that has handed over to the version     *)
(* wanted of it and is about to exit, unless a failure is on record.       *)
THEOREM JobsSurviveUpdates == Spec => UpdateKillsNoJob
<1> DEFINE Survives ==
      proc.exiting /\ proc.pc = "leasing" /\ proc'.pc = "admitted" => rec.failed \/ Target # proc.target
<1>1. IInv /\ [Next]_vars => [Survives]_vars
  <2> SUFFICES ASSUME IInv, Next, proc.exiting, proc.pc = "leasing", proc'.pc = "admitted", ~rec.failed
               PROVE  Target # proc.target
    BY DEF vars
  <2>1. MayLease
    <3>1. proc \in Process /\ proc' # proc /\ proc'.pc # "select"
      BY DEF IInv, TypeOK
    <3>2. CASE CheckAdmission
      BY <3>1, <3>2 DEF CheckAdmission, Process
    <3>3. ASSUME NEW b \in Beat, LoopAnswer, b = beat["loop"] PROVE FALSE
      <4>1. PICK q : q = [proc EXCEPT !.pc = IF b.update = None THEN "leasing" ELSE "select"]
        OBVIOUS
      <4>2. q \in Process /\ q.pc \in {"leasing", "select"} /\ b.update \in Targets /\ b.failure \in BOOLEAN
        BY <3>1, <4>1 DEF Process, Beat
      <4>3. proc' = RunOrDefer(Acked(q, b.failure), b.update)
        BY <3>3, <4>1 DEF LoopAnswer
      <4> QED
        BY <4>2, <4>3 DEF RunOrDefer, Installing, Acked, Process
    <3>4. beat["loop"] \in Beat
      BY DEF IInv, TypeOK, Beats, Senders
    <3>5. CASE (\E k \in Senders : LoseBeat(k)) \/ RestartServer
      BY <3>1, <3>5 DEF LoseBeat, RestartServer, Process
    <3>6. CASE Exit \/ FailHandover \/ RestartAgent
      BY <3>1, <3>6 DEF Exit, FailHandover, RestartAgent, NewProcess, Started
    <3> QED
      BY <3>1, <3>2, <3>3, <3>4, <3>5, <3>6
         DEF Next, AgentStep, LeaseStep, HandleHeartbeatResult, LeaseTick, EndJob, EndInstall, LeaseJob,
             HandleBeat, TickerBeat, TickerAnswer, RetryTimeComes, GraceEnds, RecoverJob,
             SetAgentUpdateTarget, RequestAgentUpdate
  <2>2. Target = None \/ Target = rec.version
    BY <2>1 DEF MayLease, UpdatePending
  <2>3. rec.version = proc.version
    BY DEF IInv, RecordFits
  <2> QED
    BY <2>2, <2>3 DEF IInv, Fits
<1> QED
  BY <1>1, InvariantHolds, PTL DEF Spec, UpdateKillsNoJob
=============================================================================
