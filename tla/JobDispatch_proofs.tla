------------------------ MODULE JobDispatch_proofs ------------------------
(***************************************************************************)
(* That whoever executes a job holds its lease, that an agent runs one job *)
(* at a time until three of its requests were at the server, and that      *)
(* agents, handlers, users and maintenance together drive a job through    *)
(* the life the queue promises, for any number of agents, jobs, attempts   *)
(* and faults.                                                             *)
(*                                                                         *)
(* The argument: what a handler carries fits the table (it is about a job  *)
(* that was created, and what it has read is nobody's or its sender's      *)
(* lease), what an agent waits for fits what it is doing, and a job that   *)
(* was started never waits again.  For the second: of the jobs that run in *)
(* an agent's name, or that it holds and may still start, there is never   *)
(* more than one (Live).                                                   *)
(***************************************************************************)
EXTENDS JobDispatch, TLAPS, FiniteSetTheorems

Ended   == Terminal \cup {"deleted"}
Started == Ended \cup {"running"}

(* The lease of a job that waits. *)
RowFits(j) ==
  /\ status[j] \in {"absent", "queued"} => holder[j] = NoAgent
  /\ status[j] = "leased" => holder[j] \in Agents

(* A handler of an agent's request is in that agent's name; one on behalf  *)
(* of users only ends jobs; whoever is about to write has compared the     *)
(* holder that it read.                                                    *)
CallFits(c) ==
  /\ c # Control /\ call[c].pc # "idle" => call[c].by = c[1] /\ call[c].pc # "list"
  /\ c # Control => call[c].todo = {}
  /\ c = Control => call[c].pc \in {"idle", "list", "read", "write"}
  /\ c = Control /\ call[c].pc # "idle" => call[c].report = "failed"
  /\ call[c].pc \in {"secrets", "read", "write"} =>
       call[c].job \in Jobs /\ status[call[c].job] # "absent"
  /\ \A j \in call[c].todo : status[j] # "absent"
  /\ call[c].pc \in {"read", "write"} => call[c].report # "none"
  /\ call[c].pc = "write" => call[c].seen \in {NoAgent, call[c].by}

(* The handler that an agent waits for does what the agent asked.          *)
WaitFits(a, c) ==
  /\ agent[a].pc = "idle" =>
       \/ call[c].pc \in {"admit", "busy", "lease", "secrets"}
       \/ call[c].pc \in {"read", "write"} /\ call[c].report = "failed"
  /\ agent[a].pc # "idle" => call[c].pc \in {"read", "write"} /\ call[c].job = agent[a].job
  /\ agent[a].pc \in {"starting", "executing"} => call[c].report = "running"
  /\ agent[a].pc = "ended" => call[c].report = agent[a].outcome

(* Nobody is thought to execute a job that waits. *)
AgentFits(a) ==
  /\ agent[a].pc # "idle" => agent[a].job \in Jobs /\ status[agent[a].job] # "absent"
  /\ agent[a].pc = "ended" => agent[a].outcome \in Terminal
  /\ agent[a].slot # 0 => WaitFits(a, <<a, agent[a].slot>>)
  /\ agent[a].pc \in {"executing", "ended"} =>
       /\ status[agent[a].job] \in Started
       /\ \/ status[agent[a].job] \in Ended
          \/ holder[agent[a].job] \in {a, NoAgent}
          \/ agent[a].job \in raced

Fits == /\ \A j \in Jobs : RowFits(j)
        /\ \A c \in Calls : CallFits(c)
        /\ \A a \in Agents : AgentFits(a)

IInv == TypeOK /\ Fits
-----------------------------------------------------------------------------
(* What every step does to a row: no row is forgotten, and what was        *)
(* started stays started, under the same holder while it runs.             *)
RowStep(j) ==
  /\ RowFits(j)'
  /\ status[j] # "absent" => status'[j] # "absent"
  /\ status[j] \in Ended => status'[j] \in Ended
  /\ status[j] = "running" => status'[j] \in Started /\ (status'[j] \in Ended \/ holder'[j] = holder[j])

TableTypes ==
  /\ status \in [Jobs -> Statuses]
  /\ holder \in [Jobs -> Holders]
  /\ deactivated \in [Agents -> BOOLEAN]
  /\ events \in 0 .. MaxEvents
  /\ raced \subseteq Jobs

TableStep == TableTypes' /\ raced \subseteq raced' /\ \A j \in Jobs : RowStep(j)

LEMMA Bounds ==
  MaxEvents \in Nat /\ NumJobs \in Nat /\ MaxAttempts \in Nat \ {0} /\ Slots \subseteq Nat \ {0}
BY BoundsAssumption

(* A user's call is no agent's, and calls are told apart by agent and slot. *)
LEMMA CallsApart ==
  /\ Control \in Calls
  /\ \A a \in Agents, k \in Slots : <<a, k>> \in Calls /\ <<a, k>> # Control
  /\ \A c \in Calls : c # Control => c[1] \in Agents /\ c[2] \in Slots /\ c = <<c[1], c[2]>>
  /\ 0 \notin Slots
BY AgentsAssumption, BoundsAssumption DEF Calls, Control

(* A step that leaves the rows alone. *)
LEMMA SameRows ==
  ASSUME IInv, UNCHANGED <<rows, raced>>, deactivated' \in [Agents -> BOOLEAN],
         events' \in 0 .. MaxEvents
  PROVE  TableStep
<1>1. TableTypes'
  BY DEF IInv, TypeOK, TableTypes, rows
<1>2. ASSUME NEW j \in Jobs PROVE RowStep(j)
  BY DEF IInv, Fits, RowFits, RowStep, rows, Started, Ended
<1> QED
  BY <1>1, <1>2 DEF TableStep

LEMMA SameDeactivated == IInv /\ UNCHANGED deactivated => deactivated' \in [Agents -> BOOLEAN]
BY DEF IInv, TypeOK

(* A step that changes one row. *)
LEMMA OneRow ==
  ASSUME IInv, NEW i \in Jobs, status' \in [Jobs -> Statuses], holder' \in [Jobs -> Holders],
         \A j \in Jobs \ {i} : status'[j] = status[j] /\ holder'[j] = holder[j],
         deactivated' \in [Agents -> BOOLEAN], events' \in 0 .. MaxEvents,
         raced \subseteq raced', raced' \subseteq Jobs,
         RowStep(i)
  PROVE  TableStep
<1>1. TableTypes'
  BY DEF IInv, TypeOK, TableTypes
<1>2. ASSUME NEW j \in Jobs, j # i PROVE RowStep(j)
  BY <1>2 DEF IInv, Fits, TypeOK, RowFits, RowStep, Started, Ended
<1> QED
  BY <1>1, <1>2 DEF TableStep

(* What a step does not touch still fits. *)
LEMMA CallStays ==
  ASSUME IInv, TableStep, NEW c \in Calls, call'[c] = call[c]
  PROVE  CallFits(c)'
<1>1. CallFits(c) /\ call[c] \in Call
  BY DEF IInv, Fits, TypeOK
<1>2. \A j \in Jobs : status[j] # "absent" => status'[j] # "absent"
  BY DEF TableStep, RowStep
<1>3. call[c].todo \subseteq Jobs
  BY <1>1 DEF Call
<1> QED
  BY <1>1, <1>2, <1>3 DEF CallFits

LEMMA ExecutionStays ==
  ASSUME IInv, TableStep, NEW a \in Agents, agent[a].pc # "idle"
  PROVE  /\ agent[a].job \in Jobs /\ status'[agent[a].job] # "absent"
         /\ agent[a].pc \in {"executing", "ended"} =>
              /\ status'[agent[a].job] \in Started
              /\ \/ status'[agent[a].job] \in Ended
                 \/ holder'[agent[a].job] \in {a, NoAgent}
                 \/ agent[a].job \in raced'
<1>1. AgentFits(a)
  BY DEF IInv, Fits
<1>2. agent[a].job \in Jobs
  BY <1>1 DEF AgentFits
<1>3. RowStep(agent[a].job) /\ raced \subseteq raced'
  BY <1>2 DEF TableStep
<1> QED
  BY <1>1, <1>2, <1>3 DEF AgentFits, RowStep, Started, Ended

LEMMA AgentStays ==
  ASSUME IInv, TableStep, NEW a \in Agents, agent'[a] = agent[a],
         agent[a].slot # 0 => WaitFits(a, <<a, agent[a].slot>>)'
  PROVE  AgentFits(a)'
<1>1. AgentFits(a)
  BY DEF IInv, Fits
<1> QED
  BY <1>1, ExecutionStays DEF AgentFits

(* An agent that gives its job up, and one whose request failed. *)
LEMMA IdleFits ==
  ASSUME NEW a \in Agents, agent'[a] = IdleAgent
  PROVE  IdleAgent \in Agent /\ AgentFits(a)'
BY Bounds DEF AgentFits, IdleAgent, Agent

LEMMA FailureFits ==
  ASSUME IInv, TableStep, NEW a \in Agents, NEW g \in AfterFailure(agent[a]), agent'[a] = g
  PROVE  g \in Agent /\ AgentFits(a)'
<1>1. agent[a] \in Agent /\ AgentFits(a)
  BY DEF IInv, Fits, TypeOK
<1>2. CASE g = IdleAgent
  BY <1>2, IdleFits
<1>3. CASE agent[a].pc = "executing" /\ g = [agent[a] EXCEPT !.slot = 0]
  <2>1. g \in Agent /\ g.pc = "executing" /\ g.job = agent[a].job /\ g.slot = 0
    BY <1>1, <1>3 DEF Agent
  <2> QED
    BY <1>3, <2>1, ExecutionStays DEF AgentFits
<1>4. CASE /\ agent[a].pc = "ended" /\ agent[a].tries + 1 < MaxAttempts
           /\ g = [agent[a] EXCEPT !.slot = 0, !.tries = @ + 1]
  <2>1. /\ g \in Agent /\ g.pc = "ended" /\ g.job = agent[a].job /\ g.slot = 0
        /\ g.outcome = agent[a].outcome
    <3>1. agent[a].tries + 1 \in 0 .. MaxAttempts
      BY <1>1, <1>4, Bounds DEF Agent
    <3>2. g = [pc |-> agent[a].pc, job |-> agent[a].job, outcome |-> agent[a].outcome,
               tries |-> agent[a].tries + 1, slot |-> 0]
      BY <1>1, <1>4 DEF Agent
    <3> QED
      BY <1>1, <1>4, <3>1, <3>2 DEF Agent
  <2> QED
    BY <1>1, <1>4, <2>1, ExecutionStays DEF AgentFits
<1> QED
  BY <1>2, <1>3, <1>4 DEF AfterFailure

LEMMA Frame ==
  ASSUME IInv, TableStep, call' \in [Calls -> Call], agent' \in [Agents -> Agent],
         \A c \in Calls : call'[c] = call[c] \/ CallFits(c)',
         \A a \in Agents :
           \/ AgentFits(a)'
           \/ /\ agent'[a] = agent[a]
              /\ agent[a].slot # 0 => call'[<<a, agent[a].slot>>] = call[<<a, agent[a].slot>>]
  PROVE  IInv'
<1>1. TypeOK'
  BY DEF TableStep, TableTypes, TypeOK
<1>2. ASSUME NEW j \in Jobs PROVE RowFits(j)'
  BY DEF TableStep, RowStep
<1>3. ASSUME NEW c \in Calls PROVE CallFits(c)'
  BY CallStays
<1>4. ASSUME NEW a \in Agents PROVE AgentFits(a)'
  <2> SUFFICES ASSUME agent'[a] = agent[a],
                      agent[a].slot # 0 => call'[<<a, agent[a].slot>>] = call[<<a, agent[a].slot>>]
               PROVE  AgentFits(a)'
    OBVIOUS
  <2>1. agent[a].slot # 0 => WaitFits(a, <<a, agent[a].slot>>)'
    BY DEF IInv, Fits, AgentFits, WaitFits
  <2> QED
    BY <2>1, AgentStays
<1> QED
  BY <1>1, <1>2, <1>3, <1>4 DEF IInv, Fits

(* The idle handler fits whatever it leaves. *)
LEMMA IdleCallFits ==
  ASSUME NEW c \in Calls, call'[c] = IdleCall
  PROVE  CallFits(c)'
BY DEF CallFits, IdleCall

LEMMA IdleCallType == IdleCall \in Call
BY Bounds DEF IdleCall, Call, Holders

(* A step of the agents that leaves the calls alone. *)
LEMMA AgentMoves ==
  ASSUME IInv, TableStep, UNCHANGED call, NEW a \in Agents, NEW g \in Agent,
         agent' = [agent EXCEPT ![a] = g], AgentFits(a)'
  PROVE  IInv'
<1>1. call \in [Calls -> Call] /\ agent \in [Agents -> Agent]
  BY DEF IInv, TypeOK
<1> QED
  BY <1>1, Frame

(* A handler that ends, with its answer to the agent that waits for it. *)
LEMMA Answered ==
  ASSUME IInv, TableStep, NEW c \in Calls, call' = [call EXCEPT ![c] = IdleCall],
         \/ Waiting(c) = {} /\ UNCHANGED agent
         \/ \E a \in Waiting(c), g \in Agent : agent' = [agent EXCEPT ![a] = g] /\ AgentFits(a)'
  PROVE  IInv'
<1>1. call \in [Calls -> Call] /\ agent \in [Agents -> Agent] /\ call' \in [Calls -> Call]
  BY IdleCallType DEF IInv, TypeOK
<1>2. ASSUME NEW d \in Calls PROVE call'[d] = call[d] \/ CallFits(d)'
  BY <1>1, IdleCallFits
<1>3. ASSUME NEW b \in Agents, b \notin Waiting(c), agent[b].slot # 0
      PROVE  call'[<<b, agent[b].slot>>] = call[<<b, agent[b].slot>>]
  <2>1. agent[b].slot \in Slots /\ <<b, agent[b].slot>> \in Calls /\ <<b, agent[b].slot>> # c
    BY <1>1, <1>3, CallsApart DEF Waiting, Agent
  <2> QED
    BY <1>1, <2>1
<1>4. CASE Waiting(c) = {} /\ UNCHANGED agent
  BY <1>1, <1>2, <1>3, <1>4, Frame
<1>5. CASE \E a \in Waiting(c), g \in Agent : agent' = [agent EXCEPT ![a] = g] /\ AgentFits(a)'
  <2>1. PICK a \in Waiting(c), g \in Agent : agent' = [agent EXCEPT ![a] = g] /\ AgentFits(a)'
    BY <1>5
  <2>2. a \in Agents /\ \A b \in Agents : b \in Waiting(c) => b = a
    BY DEF Waiting
  <2>3. agent' \in [Agents -> Agent]
    BY <1>1, <2>1
  <2> QED
    BY <1>1, <1>2, <1>3, <2>1, <2>2, <2>3, Frame
<1> QED
  BY <1>4, <1>5

(* A handler that goes on, and the agent that waits for it. *)
LEMMA HandlerMoves ==
  ASSUME IInv, TableStep, NEW c \in Calls, NEW n \in Call, call' = [call EXCEPT ![c] = n],
         UNCHANGED agent, CallFits(c)', \A a \in Waiting(c) : WaitFits(a, c)'
  PROVE  IInv'
<1>1. call \in [Calls -> Call] /\ agent \in [Agents -> Agent] /\ call' \in [Calls -> Call]
  BY DEF IInv, TypeOK
<1>2. ASSUME NEW b \in Agents, b \in Waiting(c) PROVE AgentFits(b)'
  BY <1>2, AgentStays DEF Waiting
<1>3. ASSUME NEW b \in Agents, b \notin Waiting(c), agent[b].slot # 0
      PROVE  call'[<<b, agent[b].slot>>] = call[<<b, agent[b].slot>>]
  <2>1. agent[b].slot \in Slots /\ <<b, agent[b].slot>> \in Calls /\ <<b, agent[b].slot>> # c
    BY <1>1, <1>3, CallsApart DEF Waiting, Agent
  <2> QED
    BY <1>1, <2>1
<1>4. ASSUME NEW d \in Calls PROVE call'[d] = call[d] \/ CallFits(d)'
  BY <1>1
<1> QED
  BY <1>1, <1>2, <1>3, <1>4, Frame
-----------------------------------------------------------------------------
(* The agents' steps. *)
LEMMA SendFits ==
  ASSUME IInv, TableStep, NEW a \in Agents, NEW n \in Call, Send(a, n),
         n.pc # "idle", n.pc # "list", n.pc # "write", n.by = a, n.todo = {},
         n.pc \in {"secrets", "read"} => n.job \in Jobs /\ status[n.job] # "absent",
         n.pc = "read" => n.report # "none",
         \A k \in Slots : call' = [call EXCEPT ![<<a, k>>] = n] /\ agent' = [agent EXCEPT ![a].slot = k]
           => WaitFits(a, <<a, k>>)'
  PROVE  IInv'
<1>1. PICK k \in Slots : /\ call' = [call EXCEPT ![<<a, k>>] = n]
                         /\ agent' = [agent EXCEPT ![a].slot = k]
  BY DEF Send
<1>2. call \in [Calls -> Call] /\ agent \in [Agents -> Agent] /\ <<a, k>> \in Calls
  BY CallsApart DEF IInv, TypeOK
<1>3. /\ agent' \in [Agents -> Agent] /\ agent'[a].slot = k
      /\ agent'[a] = [agent[a] EXCEPT !.slot = k]
      /\ \A b \in Agents \ {a} : agent'[b] = agent[b]
  BY <1>1, <1>2 DEF Agent
<1>4. /\ call' \in [Calls -> Call] /\ call'[<<a, k>>] = n
      /\ \A d \in Calls : d # <<a, k>> => call'[d] = call[d]
  BY <1>1, <1>2
<1>5. CallFits(<<a, k>>)'
  <2>1. n.pc \in {"secrets", "read"} => status'[n.job] # "absent"
    BY DEF TableStep, RowStep
  <2> QED
    BY <1>4, <2>1, CallsApart DEF CallFits
<1>6. AgentFits(a)'
  <2>1. WaitFits(a, <<a, k>>)'
    BY <1>1
  <2>2. agent[a] \in Agent /\ AgentFits(a)
    BY <1>2 DEF IInv, Fits
  <2>3. /\ agent'[a].pc = agent[a].pc /\ agent'[a].job = agent[a].job
        /\ agent'[a].outcome = agent[a].outcome
    BY <1>3, <2>2 DEF Agent
  <2>4. agent[a].pc = "ended" => agent[a].outcome \in Terminal
    BY <2>2 DEF AgentFits
  <2> QED
    BY <1>3, <2>1, <2>3, <2>4, ExecutionStays DEF AgentFits
<1>7. ASSUME NEW b \in Agents, b # a, agent[b].slot # 0
      PROVE  call'[<<b, agent[b].slot>>] = call[<<b, agent[b].slot>>]
  <2>1. agent[b].slot \in Slots /\ <<b, agent[b].slot>> \in Calls
    BY <1>2, <1>7, CallsApart DEF Agent
  <2> QED
    BY <1>4, <1>7, <2>1
<1> QED
  BY <1>3, <1>4, <1>5, <1>6, <1>7, Frame

LEMMA AgentRequests ==
  ASSUME IInv, TableStep, NEW a \in Agents,
         RequestLease(a) \/ ReportStart(a) \/ ReportPhase(a) \/ ReportEnd(a)
  PROVE  IInv'
<1>1. call \in [Calls -> Call] /\ agent \in [Agents -> Agent] /\ AgentFits(a) /\ agent[a] \in Agent
  BY DEF IInv, Fits, TypeOK
<1>2. \A n, k : agent' = [agent EXCEPT ![a].slot = k] /\ k \in Slots =>
         /\ agent'[a].pc = agent[a].pc /\ agent'[a].job = agent[a].job
         /\ agent'[a].outcome = agent[a].outcome
  BY <1>1 DEF Agent
<1>3. \A n \in Call, k \in Slots : call' = [call EXCEPT ![<<a, k>>] = n] => call'[<<a, k>>] = n
  BY <1>1, CallsApart
<1>4. CASE RequestLease(a)
  <2> DEFINE n == [IdleCall EXCEPT !.pc = "admit", !.by = a]
  <2>1. n \in Call /\ n.pc = "admit" /\ n.by = a /\ n.todo = {}
    BY IdleCallType DEF IdleCall, Call, Holders
  <2>2. Send(a, n) /\ agent[a].pc = "idle"
    BY <1>4 DEF RequestLease
  <2> HIDE DEF n
  <2>3. ASSUME NEW k \in Slots, call' = [call EXCEPT ![<<a, k>>] = n],
               agent' = [agent EXCEPT ![a].slot = k]
        PROVE  WaitFits(a, <<a, k>>)'
    BY <1>2, <1>3, <2>1, <2>2, <2>3 DEF WaitFits
  <2> QED
    BY <2>1, <2>2, <2>3, SendFits
<1>5. ASSUME agent[a].pc # "idle", NEW r \in {"running"} \cup Terminal, Send(a, Report(a, r)),
             agent[a].pc \in {"starting", "executing"} => r = "running",
             agent[a].pc = "ended" => r = agent[a].outcome
      PROVE  IInv'
  <2> DEFINE n == Report(a, r)
  <2>1. agent[a].job \in Jobs /\ status[agent[a].job] # "absent" /\ agent[a].job \in 0 .. NumJobs
    BY <1>1, <1>5 DEF AgentFits, Agent
  <2>2. /\ n \in Call /\ n.pc = "read" /\ n.by = a /\ n.job = agent[a].job
        /\ n.report = r /\ n.todo = {}
    BY <2>1, IdleCallType DEF Report, IdleCall, Call, Holders, Terminal
  <2> HIDE DEF n
  <2>3. ASSUME NEW k \in Slots, call' = [call EXCEPT ![<<a, k>>] = n],
               agent' = [agent EXCEPT ![a].slot = k]
        PROVE  WaitFits(a, <<a, k>>)'
    BY <1>1, <1>2, <1>3, <1>5, <2>2, <2>3 DEF WaitFits
  <2>4. Send(a, n) /\ r # "none"
    BY <1>5 DEF n, Terminal
  <2> QED
    BY <2>1, <2>2, <2>3, <2>4, SendFits
<1>6. CASE ReportStart(a)
  BY <1>5, <1>6 DEF ReportStart
<1>7. CASE ReportPhase(a)
  BY <1>5, <1>7 DEF ReportPhase
<1>8. CASE ReportEnd(a)
  BY <1>1, <1>5, <1>8 DEF ReportEnd, AgentFits
<1> QED
  BY <1>4, <1>6, <1>7, <1>8

LEMMA ScriptEnds ==
  ASSUME IInv, TableStep, NEW a \in Agents,
         EndScript(a) \/ TimeOutScript(a) \/ NoticeServerTerminal(a)
  PROVE  IInv'
<1>1. agent \in [Agents -> Agent] /\ AgentFits(a) /\ agent[a].pc = "executing" /\ agent[a].slot = 0
  BY DEF IInv, Fits, TypeOK, EndScript, TimeOutScript, NoticeServerTerminal
<1>2. PICK o \in Terminal : agent' = [agent EXCEPT ![a].pc = "ended", ![a].outcome = o]
  BY DEF EndScript, TimeOutScript, NoticeServerTerminal, Terminal
<1> DEFINE g == [agent[a] EXCEPT !.pc = "ended", !.outcome = o]
<1>3. /\ g \in Agent /\ g.pc = "ended" /\ g.job = agent[a].job /\ g.outcome = o /\ g.slot = 0
  BY <1>1 DEF Agent
<1>4. agent' = [agent EXCEPT ![a] = g] /\ UNCHANGED call
  BY <1>1, <1>2 DEF EndScript, TimeOutScript, NoticeServerTerminal
<1>5. AgentFits(a)'
  <2> HIDE DEF g
  <2>1. agent'[a] = g
    BY <1>1, <1>4
  <2> QED
    BY <1>1, <1>3, <2>1, ExecutionStays DEF AgentFits
<1> QED
  BY <1>3, <1>4, <1>5, AgentMoves

LEMMA AgentFails ==
  ASSUME IInv, TableStep, NEW a \in Agents, LoseAnswer(a) \/ RestartAgent(a)
  PROVE  IInv'
<1>1. agent \in [Agents -> Agent] /\ UNCHANGED call
  BY DEF IInv, TypeOK, LoseAnswer, RestartAgent
<1>2. CASE LoseAnswer(a)
  <2>1. PICK g \in AfterFailure(agent[a]) : agent' = [agent EXCEPT ![a] = g]
    BY <1>2 DEF LoseAnswer
  <2>2. agent'[a] = g
    BY <1>1, <2>1
  <2> QED
    BY <1>1, <2>1, <2>2, FailureFits, AgentMoves
<1>3. CASE RestartAgent(a)
  <2>1. agent' = [agent EXCEPT ![a] = IdleAgent]
    BY <1>3 DEF RestartAgent
  <2>2. agent'[a] = IdleAgent
    BY <1>1, <2>1
  <2> QED
    BY <1>1, <2>1, <2>2, IdleFits, AgentMoves
<1> QED
  BY <1>2, <1>3
-----------------------------------------------------------------------------
(* What the steps do to the table. *)
LEMMA Faults == IInv /\ (Fault \/ UNCHANGED events) => events' \in 0 .. MaxEvents
BY Bounds DEF IInv, TypeOK, Fault

LEMMA RequeueRow ==
  ASSUME IInv, NEW j \in Jobs, status[j] = "leased", Requeue(j),
         UNCHANGED <<deactivated, raced>>, events' \in 0 .. MaxEvents
  PROVE  TableStep
<1>1. status \in [Jobs -> Statuses] /\ holder \in [Jobs -> Holders] /\ raced \subseteq Jobs
  BY DEF IInv, TypeOK
<1>2. /\ status' \in [Jobs -> Statuses] /\ holder' \in [Jobs -> Holders]
      /\ status'[j] = "queued" /\ holder'[j] = NoAgent
  BY <1>1 DEF Requeue, Statuses, Active, Holders
<1>3. RowStep(j)
  BY <1>2 DEF RowStep, RowFits, Ended, Terminal
<1>4. \A k \in Jobs \ {j} : status'[k] = status[k] /\ holder'[k] = holder[k]
  BY <1>1 DEF Requeue
<1> QED
  BY <1>1, <1>2, <1>3, <1>4, OneRow, SameDeactivated

LEMMA StatusRow ==
  ASSUME IInv, NEW j \in Jobs, NEW s \in Statuses, status' = [status EXCEPT ![j] = s],
         UNCHANGED holder, deactivated' \in [Agents -> BOOLEAN], events' \in 0 .. MaxEvents,
         raced \subseteq raced', raced' \subseteq Jobs,
         \/ status[j] = "absent" /\ s = "queued"
         \/ status[j] \in Active /\ s \in Terminal \cup {"running"}
  PROVE  TableStep
<1>1. /\ status \in [Jobs -> Statuses] /\ holder \in [Jobs -> Holders] /\ raced \subseteq Jobs
      /\ RowFits(j)
  BY DEF IInv, Fits, TypeOK
<1>2. status' \in [Jobs -> Statuses] /\ status'[j] = s /\ holder' = holder
  BY <1>1
<1>3. RowStep(j)
  BY <1>1, <1>2 DEF RowStep, RowFits, Started, Ended, Terminal, Active
<1>4. \A k \in Jobs \ {j} : status'[k] = status[k] /\ holder'[k] = holder[k]
  BY <1>1
<1> QED
  BY <1>1, <1>2, <1>3, <1>4, OneRow

LEMMA LeaseRow ==
  ASSUME IInv, NEW c \in Calls, LeaseJob(c)
  PROVE  /\ TableStep
         /\ c # Control /\ call[c].by \in Agents
         /\ \/ Queued = {} /\ Answer(c, NotAssigned)
            \/ \E j \in Jobs : /\ status'[j] = "leased"
                              /\ call' = [call EXCEPT ![c].pc = "secrets", ![c].job = j]
                              /\ UNCHANGED agent
<1>1. /\ status \in [Jobs -> Statuses] /\ holder \in [Jobs -> Holders] /\ raced \subseteq Jobs
      /\ deactivated \in [Agents -> BOOLEAN] /\ events \in 0 .. MaxEvents
  BY DEF IInv, TypeOK
<1>2. c # Control /\ call[c].by \in Agents
  BY CallsApart DEF IInv, Fits, CallFits, LeaseJob
<1>3. CASE Queued = {} /\ Answer(c, NotAssigned) /\ UNCHANGED rows
  BY <1>1, <1>2, <1>3, SameRows DEF LeaseJob
<1>4. ASSUME NEW j \in Queued,
             status' = [status EXCEPT ![j] = "leased"],
             holder' = [holder EXCEPT ![j] = call[c].by],
             call' = [call EXCEPT ![c].pc = "secrets", ![c].job = j],
             UNCHANGED agent
      PROVE  /\ TableStep
             /\ status'[j] = "leased"
  <2>1. j \in Jobs /\ status[j] = "queued"
    BY DEF Queued
  <2>2. /\ status' \in [Jobs -> Statuses] /\ holder' \in [Jobs -> Holders]
        /\ status'[j] = "leased" /\ holder'[j] \in Agents
        /\ \A k \in Jobs \ {j} : status'[k] = status[k] /\ holder'[k] = holder[k]
    BY <1>1, <1>2, <1>4, <2>1 DEF Statuses, Active, Holders
  <2>3. RowStep(j)
    BY <2>1, <2>2 DEF RowStep, RowFits, Ended, Terminal
  <2> QED
    BY <1>1, <2>1, <2>2, <2>3, OneRow DEF LeaseJob
<1> QED
  BY <1>2, <1>3, <1>4 DEF LeaseJob, Queued

LEMMA DeleteRow ==
  ASSUME IInv, NEW j \in Jobs, Delete(j)
  PROVE  TableStep
<1>1. status \in [Jobs -> Statuses] /\ holder \in [Jobs -> Holders] /\ raced \subseteq Jobs
  BY DEF IInv, TypeOK
<1>2. /\ status' \in [Jobs -> Statuses] /\ holder' \in [Jobs -> Holders] /\ status'[j] = "deleted"
      /\ status[j] # "running"
      /\ \A k \in Jobs \ {j} : status'[k] = status[k] /\ holder'[k] = holder[k]
  BY <1>1 DEF Delete, Statuses, Holders, Terminal
<1>3. RowStep(j)
  BY <1>2 DEF RowStep, RowFits, Ended
<1>4. events' \in 0 .. MaxEvents
  BY Faults DEF Delete, Intervention
<1> QED
  BY <1>1, <1>2, <1>3, <1>4, OneRow, SameDeactivated DEF Delete
-----------------------------------------------------------------------------
(* The handlers' answers. *)
LEMMA WaitingFits ==
  ASSUME IInv, NEW c \in Calls, NEW a \in Waiting(c)
  PROVE  a \in Agents /\ agent[a] \in Agent /\ WaitFits(a, c) /\ AgentFits(a)
BY DEF IInv, Fits, TypeOK, AgentFits, Waiting

LEMMA NoLease ==
  ASSUME IInv, TableStep, NEW c \in Calls, Answer(c, NotAssigned)
  PROVE  IInv'
<1>1. call' = [call EXCEPT ![c] = IdleCall]
  BY DEF Answer
<1>2. ASSUME NEW a \in Waiting(c), agent' = [agent EXCEPT ![a] = IdleAgent]
      PROVE  IdleAgent \in Agent /\ AgentFits(a)'
  <2>1. agent'[a] = IdleAgent /\ a \in Agents
    BY <1>2 DEF IInv, TypeOK, Waiting
  <2> QED
    BY <2>1, IdleFits
<1>3. \/ Waiting(c) = {} /\ UNCHANGED agent
      \/ \E a \in Waiting(c) : agent' = [agent EXCEPT ![a] = IdleAgent]
  BY DEF Answer, NotAssigned
<1> QED
  BY <1>1, <1>2, <1>3, Answered

LEMMA Rejected ==
  ASSUME IInv, TableStep, NEW c \in Calls, Reject(c)
  PROVE  IInv'
<1>1. call' = [call EXCEPT ![c] = IdleCall]
  BY DEF Answer, Reject
<1>2. ASSUME NEW a \in Waiting(c), NEW g \in AfterFailure(agent[a]),
             agent' = [agent EXCEPT ![a] = g]
      PROVE  g \in Agent /\ AgentFits(a)'
  <2>1. agent'[a] = g /\ a \in Agents
    BY <1>2 DEF IInv, TypeOK, Waiting
  <2> QED
    BY <2>1, FailureFits
<1>3. \/ Waiting(c) = {} /\ UNCHANGED agent
      \/ \E a \in Waiting(c) : \E g \in AfterFailure(agent[a]) : agent' = [agent EXCEPT ![a] = g]
  BY DEF Answer, Reject
<1> QED
  BY <1>1, <1>2, <1>3, Answered

(* An accepted report: of a start only when the job is started now, and    *)
(* nobody else has it.                                                     *)
LEMMA ReportAccepted ==
  ASSUME IInv, TableStep, NEW c \in Calls, Answer(c, AfterAcceptance),
         call[c].pc \in {"read", "write"},
         c # Control /\ call[c].report = "running" =>
           /\ status'[call[c].job] \in Started
           /\ \/ status'[call[c].job] \in Ended
              \/ holder'[call[c].job] \in {call[c].by, NoAgent}
              \/ call[c].job \in raced'
  PROVE  IInv'
<1>1. call' = [call EXCEPT ![c] = IdleCall]
  BY DEF Answer
<1>2. ASSUME NEW a \in Waiting(c), NEW g \in AfterAcceptance(agent[a]),
             agent' = [agent EXCEPT ![a] = g]
      PROVE  g \in Agent /\ AgentFits(a)'
  <2>1. agent'[a] = g /\ a \in Agents
    BY <1>2 DEF IInv, TypeOK, Waiting
  <2>2. agent[a] \in Agent /\ WaitFits(a, c) /\ c # Control /\ call[c].by = a
    <3>1. agent[a].slot \in Slots /\ c = <<a, agent[a].slot>> /\ a \in Agents /\ c[1] = a
      BY <2>1, WaitingFits DEF Waiting, Agent
    <3>2. CallFits(c)
      BY DEF IInv, Fits
    <3> QED
      BY <3>1, <3>2, CallsApart, WaitingFits DEF CallFits
  <2>3. CASE g = IdleAgent
    BY <2>1, <2>3, IdleFits
  <2>4. CASE agent[a].pc \in {"starting", "executing"} /\ g = [agent[a] EXCEPT !.pc = "executing", !.slot = 0]
    <3>1. /\ g \in Agent /\ g.pc = "executing" /\ g.job = agent[a].job /\ g.slot = 0
      BY <2>2, <2>4 DEF Agent
    <3>2. call[c].report = "running" /\ call[c].job = agent[a].job
      BY <2>2, <2>4 DEF WaitFits
    <3> QED
      BY <2>1, <2>2, <2>4, <3>1, <3>2, ExecutionStays DEF AgentFits
  <2>5. agent[a].pc = "executing" =>
          [agent[a] EXCEPT !.slot = 0] = [agent[a] EXCEPT !.pc = "executing", !.slot = 0]
    BY <2>2 DEF Agent
  <2> QED
    BY <2>3, <2>4, <2>5 DEF AfterAcceptance
<1>3. \/ Waiting(c) = {} /\ UNCHANGED agent
      \/ \E a \in Waiting(c) : \E g \in AfterAcceptance(agent[a]) : agent' = [agent EXCEPT ![a] = g]
  BY DEF Answer
<1> QED
  BY <1>1, <1>2, <1>3, Answered

LEMMA JobGoesOut ==
  ASSUME IInv, TableStep, NEW c \in Calls, ResolveSecrets(c)
  PROVE  IInv'
<1> DEFINE assigned(a) == [agent[a] EXCEPT !.pc = "starting", !.job = call[c].job, !.slot = 0]
<1>1. call' = [call EXCEPT ![c] = IdleCall] /\ call[c].pc = "secrets"
  BY DEF Answer, ResolveSecrets
<1>2. call[c].job \in Jobs /\ status'[call[c].job] # "absent" /\ call[c].job \in 0 .. NumJobs
  BY <1>1 DEF IInv, Fits, CallFits, TypeOK, Call, TableStep, RowStep
<1>3. ASSUME NEW a \in Waiting(c), agent' = [agent EXCEPT ![a] = assigned(a)]
      PROVE  assigned(a) \in Agent /\ AgentFits(a)'
  <2>1. agent'[a] = assigned(a) /\ a \in Agents /\ agent[a] \in Agent
    BY <1>3, WaitingFits DEF IInv, TypeOK
  <2>2. /\ assigned(a) \in Agent /\ assigned(a).pc = "starting" /\ assigned(a).slot = 0
        /\ assigned(a).job = call[c].job
    BY <1>2, <2>1 DEF Agent
  <2> HIDE DEF assigned
  <2> QED
    BY <1>2, <2>1, <2>2 DEF AgentFits
<1>4. \/ Waiting(c) = {} /\ UNCHANGED agent
      \/ \E a \in Waiting(c) : agent' = [agent EXCEPT ![a] = assigned(a)]
  BY DEF Answer, ResolveSecrets
<1> QED
  BY <1>1, <1>3, <1>4, Answered
-----------------------------------------------------------------------------
(* The handlers that go on. *)
LEMMA CallInfo ==
  ASSUME IInv, NEW c \in Calls
  PROVE  call \in [Calls -> Call] /\ call[c] \in Call /\ CallFits(c)
BY DEF IInv, Fits, TypeOK

LEMMA NobodyWaitsForControl == ASSUME IInv PROVE Waiting(Control) = {}
BY CallsApart DEF IInv, TypeOK, Agent, Waiting

LEMMA SweepGoesOn ==
  ASSUME IInv, TableStep, call[Control].pc \in {"read", "write"}, UNCHANGED agent,
         NEW n \in NextOfSweep(Control), call' = [call EXCEPT ![Control] = n]
  PROVE  IInv'
<1>1. call[Control] \in Call /\ CallFits(Control) /\ Control \in Calls /\ call \in [Calls -> Call]
  BY CallsApart, CallInfo
<1>2. call'[Control] = n
  BY <1>1
<1>3. CASE n = IdleCall
  BY <1>1, <1>2, <1>3, IdleCallFits, IdleCallType, NobodyWaitsForControl, HandlerMoves
<1>4. ASSUME NEW j \in call[Control].todo,
             n = [call[Control] EXCEPT !.pc = "read", !.job = j, !.todo = @ \ {j}, !.seen = NoAgent]
      PROVE  IInv'
  <2>1. j \in Jobs /\ j \in 0 .. NumJobs
    BY <1>1, Bounds DEF Call, Jobs
  <2>2. n = [pc |-> "read", by |-> call[Control].by, job |-> j, report |-> call[Control].report,
             seen |-> NoAgent, todo |-> call[Control].todo \ {j}, sweep |-> call[Control].sweep]
    BY <1>1, <1>4 DEF Call
  <2>3. n \in Call
    BY <1>1, <2>1, <2>2 DEF Call, Holders
  <2>4. call[Control].report = "failed"
    BY <1>1 DEF CallFits
  <2>5. /\ status[j] # "absent" /\ \A i \in call[Control].todo : i \in Jobs /\ status[i] # "absent"
    BY <1>1, <1>4 DEF CallFits, Call
  <2>6. status'[j] # "absent" /\ \A i \in call[Control].todo : status'[i] # "absent"
    BY <2>1, <2>5 DEF TableStep, RowStep
  <2>7. CallFits(Control)'
    BY <1>2, <2>1, <2>2, <2>4, <2>6 DEF CallFits
  <2> QED
    BY <1>1, <2>3, <2>7, NobodyWaitsForControl, HandlerMoves
<1> QED
  BY <1>3, <1>4 DEF NextOfSweep

LEMMA Accepted ==
  ASSUME IInv, TableStep, NEW c \in Calls, Accept(c), call[c].pc \in {"read", "write"},
         c # Control /\ call[c].report = "running" =>
           /\ status'[call[c].job] \in Started
           /\ \/ status'[call[c].job] \in Ended
              \/ holder'[call[c].job] \in {call[c].by, NoAgent}
              \/ call[c].job \in raced'
  PROVE  IInv'
<1>1. CASE c = Control
  BY <1>1, SweepGoesOn DEF Accept
<1>2. CASE c # Control
  BY <1>2, ReportAccepted DEF Accept
<1> QED
  BY <1>1, <1>2

LEMMA Admission ==
  ASSUME IInv, TableStep, NEW c \in Calls, CheckAdmission(c) \/ CheckNoActiveJob(c)
  PROVE  IInv'
<1>1. call \in [Calls -> Call] /\ call[c] \in Call /\ CallFits(c)
  BY CallInfo
<1>2. CASE Answer(c, NotAssigned)
  BY <1>2, NoLease
<1>3. ASSUME NEW p \in {"busy", "lease"}, call' = [call EXCEPT ![c].pc = p], UNCHANGED agent,
             call[c].pc \in {"admit", "busy"}
      PROVE  IInv'
  <2> DEFINE n == [call[c] EXCEPT !.pc = p]
  <2>1. /\ n \in Call /\ n.pc = p /\ n.by = call[c].by /\ n.todo = call[c].todo
    BY <1>1 DEF Call
  <2>2. call' = [call EXCEPT ![c] = n] /\ call'[c] = n
    BY <1>1, <1>3
  <2> HIDE DEF n
  <2>3. c # Control /\ call[c].todo = {}
    BY <1>1, <1>3 DEF CallFits
  <2>4. CallFits(c)'
    BY <1>1, <1>3, <2>1, <2>2, <2>3 DEF CallFits
  <2>5. ASSUME NEW a \in Waiting(c) PROVE WaitFits(a, c)'
    <3>1. WaitFits(a, c) /\ agent[a] \in Agent
      BY WaitingFits
    <3> QED
      BY <1>3, <2>1, <2>2, <3>1 DEF WaitFits, Agent
  <2> QED
    BY <1>3, <2>1, <2>2, <2>4, <2>5, HandlerMoves
<1> QED
  BY <1>2, <1>3 DEF CheckAdmission, CheckNoActiveJob

LEMMA Leasing ==
  ASSUME IInv, NEW c \in Calls, LeaseJob(c)
  PROVE  IInv'
<1>1. call \in [Calls -> Call] /\ call[c] \in Call /\ CallFits(c) /\ TableStep /\ c # Control
        /\ call[c].pc = "lease"
  BY CallInfo, LeaseRow DEF LeaseJob
<1>2. CASE Answer(c, NotAssigned)
  BY <1>1, <1>2, NoLease
<1>3. ASSUME NEW j \in Jobs, status'[j] = "leased",
             call' = [call EXCEPT ![c].pc = "secrets", ![c].job = j], UNCHANGED agent
      PROVE  IInv'
  <2> DEFINE n == [call[c] EXCEPT !.pc = "secrets", !.job = j]
  <2>1. /\ n \in Call /\ n.pc = "secrets" /\ n.by = call[c].by /\ n.todo = call[c].todo /\ n.job = j
    <3>1. j \in 0 .. NumJobs
      BY Bounds DEF Jobs
    <3>2. ASSUME NEW m \in Call
          PROVE  LET r == [m EXCEPT !.pc = "secrets", !.job = j]
                 IN r \in Call /\ r.pc = "secrets" /\ r.by = m.by /\ r.todo = m.todo /\ r.job = j
      BY <3>1 DEF Call
    <3> QED
      BY <1>1, <3>2
  <2>2. call' = [call EXCEPT ![c] = n] /\ call'[c] = n
    BY <1>1, <1>3
  <2> HIDE DEF n
  <2>3. CallFits(c)'
    BY <1>1, <1>3, <2>1, <2>2 DEF CallFits
  <2>4. ASSUME NEW a \in Waiting(c) PROVE WaitFits(a, c)'
    <3>1. WaitFits(a, c) /\ agent[a] \in Agent
      BY WaitingFits
    <3> QED
      BY <1>1, <1>3, <2>1, <2>2, <3>1 DEF WaitFits, Agent
  <2> QED
    BY <1>1, <1>3, <2>1, <2>2, <2>3, <2>4, HandlerMoves
<1> QED
  BY <1>2, <1>3, LeaseRow

LEMMA NoSecrets ==
  ASSUME IInv, NEW c \in Calls, SecretsUnavailable(c) \/ SecretsMissing(c)
  PROVE  IInv'
<1>1. call \in [Calls -> Call] /\ call[c] \in Call /\ CallFits(c) /\ call[c].pc = "secrets"
        /\ events' \in 0 .. MaxEvents /\ deactivated \in [Agents -> BOOLEAN]
  BY CallInfo, Faults DEF SecretsUnavailable, SecretsMissing, IInv, TypeOK
<1>2. CASE SecretsUnavailable(c)
  <2>1. TableStep
    <3>1. CASE UNCHANGED rows
      BY <1>1, <1>2, <3>1, SameRows DEF SecretsUnavailable
    <3>2. CASE status[call[c].job] = "leased" /\ Requeue(call[c].job)
      BY <1>1, <1>2, <3>2, RequeueRow DEF SecretsUnavailable, CallFits
    <3> QED
      BY <1>2, <3>1, <3>2 DEF SecretsUnavailable
  <2> QED
    BY <1>2, <2>1, NoLease DEF SecretsUnavailable
<1>3. CASE SecretsMissing(c)
  <2>1. TableStep /\ UNCHANGED agent /\ call' = [call EXCEPT ![c].pc = "read", ![c].report = "failed"]
    BY <1>1, <1>3, SameRows DEF SecretsMissing
  <2> DEFINE n == [call[c] EXCEPT !.pc = "read", !.report = "failed"]
  <2>2. /\ n \in Call /\ n.pc = "read" /\ n.by = call[c].by /\ n.todo = call[c].todo
        /\ n.job = call[c].job /\ n.report = "failed"
    BY <1>1 DEF Call
  <2>3. call' = [call EXCEPT ![c] = n] /\ call'[c] = n
    BY <1>1, <2>1
  <2> HIDE DEF n
  <2>4. c # Control /\ status'[call[c].job] # "absent" /\ call[c].todo = {} /\ call[c].job \in Jobs
    BY <1>1, <2>1 DEF CallFits, TableStep, RowStep
  <2>5. CallFits(c)'
    BY <1>1, <2>2, <2>3, <2>4 DEF CallFits
  <2>6. ASSUME NEW a \in Waiting(c) PROVE WaitFits(a, c)'
    <3>1. WaitFits(a, c) /\ agent[a] \in Agent
      BY WaitingFits
    <3> QED
      BY <1>1, <2>1, <2>2, <2>3, <3>1 DEF WaitFits, Agent
  <2> QED
    BY <2>1, <2>2, <2>3, <2>5, <2>6, HandlerMoves
<1> QED
  BY <1>2, <1>3

(* The end of a deactivation may undo an activation. *)
LEMMA DeactivatedType ==
  ASSUME IInv, NEW c \in Calls, Accept(c) \/ Reject(c) \/ UNCHANGED deactivated
  PROVE  deactivated' \in [Agents -> BOOLEAN]
<1>1. deactivated \in [Agents -> BOOLEAN]
  BY DEF IInv, TypeOK
<1>2. deactivated' = deactivated \/ \E a : deactivated' = [deactivated EXCEPT ![a] = TRUE]
  BY DEF Accept, Reject
<1> QED
  BY <1>1, <1>2

LEMMA Reading ==
  ASSUME IInv, NEW c \in Calls, ReadRow(c)
  PROVE  IInv'
<1>1. /\ call \in [Calls -> Call] /\ call[c] \in Call /\ CallFits(c) /\ call[c].pc = "read"
      /\ call[c].job \in Jobs
  BY CallInfo DEF ReadRow, CallFits
<1>2. TableStep /\ UNCHANGED rows
  <2>1. deactivated' \in [Agents -> BOOLEAN]
    BY DeactivatedType DEF ReadRow
  <2> QED
    BY <2>1, SameRows DEF ReadRow, IInv, TypeOK
<1>3. CASE Reject(c)
  BY <1>2, <1>3, Rejected
<1>4. CASE Late(c) /\ Accept(c)
  <2>1. status'[call[c].job] \in Ended
    BY <1>2, <1>4 DEF rows, Late, Ended
  <2> QED
    BY <1>1, <1>2, <1>4, <2>1, Accepted DEF Started
<1>5. CASE /\ ~Foreign(c) /\ UNCHANGED agent
           /\ call' = [call EXCEPT ![c].pc = "write", ![c].seen = holder[call[c].job]]
  <2> DEFINE n == [call[c] EXCEPT !.pc = "write", !.seen = holder[call[c].job]]
  <2>1. holder[call[c].job] \in Holders /\ holder[call[c].job] \in {NoAgent, call[c].by}
    BY <1>1, <1>5 DEF Foreign, IInv, TypeOK
  <2>2. /\ n \in Call /\ n.pc = "write" /\ n.by = call[c].by /\ n.todo = call[c].todo
        /\ n.job = call[c].job /\ n.report = call[c].report /\ n.seen = holder[call[c].job]
    BY <1>1, <2>1 DEF Call
  <2>3. call' = [call EXCEPT ![c] = n] /\ call'[c] = n
    BY <1>1, <1>5
  <2> HIDE DEF n
  <2>4. CallFits(c)'
    BY <1>1, <1>2, <2>1, <2>2, <2>3 DEF CallFits, rows
  <2>5. ASSUME NEW a \in Waiting(c) PROVE WaitFits(a, c)'
    <3>1. WaitFits(a, c) /\ agent[a] \in Agent
      BY WaitingFits
    <3> QED
      BY <1>1, <1>5, <2>2, <2>3, <3>1 DEF WaitFits, Agent
  <2> QED
    BY <1>2, <1>5, <2>2, <2>3, <2>4, <2>5, HandlerMoves
<1> QED
  BY <1>3, <1>4, <1>5 DEF ReadRow

LEMMA WriteTable ==
  ASSUME IInv, NEW c \in Calls, WriteRow(c)
  PROVE  /\ TableStep
         /\ call[c].job \in Jobs
         /\ status[call[c].job] # "deleted" =>
              \/ status'[call[c].job] \in Ended
              \/ status'[call[c].job] = call[c].report
                   /\ (holder'[call[c].job] \in {call[c].by, NoAgent} \/ call[c].job \in raced')
<1>1. /\ call[c] \in Call /\ CallFits(c) /\ call[c].pc = "write"
      /\ call[c].job \in Jobs /\ status[call[c].job] # "absent"
      /\ call[c].report \in Terminal \cup {"running"} /\ call[c].seen \in {NoAgent, call[c].by}
  BY CallInfo DEF WriteRow, CallFits, Call, Terminal
<1>2. /\ status \in [Jobs -> Statuses] /\ raced \subseteq Jobs /\ events \in 0 .. MaxEvents
      /\ deactivated' \in [Agents -> BOOLEAN] /\ UNCHANGED <<holder, events>>
  BY DeactivatedType DEF IInv, TypeOK, WriteRow
<1>3. CASE ~Writable(call[c].job) /\ UNCHANGED <<status, raced>>
  <2>1. TableStep
    BY <1>2, <1>3, SameRows DEF rows, IInv, TypeOK
  <2>2. status'[call[c].job] \in Ended
    BY <1>1, <1>2, <1>3 DEF Writable, Statuses, Ended
  <2> QED
    BY <1>1, <2>1, <2>2
<1>4. CASE /\ Writable(call[c].job)
           /\ status' = [status EXCEPT ![call[c].job] = call[c].report]
           /\ raced' = IF holder[call[c].job] = call[c].seen THEN raced ELSE raced \cup {call[c].job}
  <2>1. call[c].report \in Statuses /\ raced \subseteq raced' /\ raced' \subseteq Jobs
    BY <1>1, <1>2, <1>4 DEF Statuses, Active
  <2>2. TableStep
    BY <1>1, <1>2, <1>4, <2>1, StatusRow DEF Writable
  <2>3. status'[call[c].job] = call[c].report
    BY <1>1, <1>2, <1>4
  <2> QED
    BY <1>1, <1>2, <1>4, <2>2, <2>3
<1> QED
  BY <1>3, <1>4 DEF WriteRow

LEMMA Writing ==
  ASSUME IInv, NEW c \in Calls, WriteRow(c)
  PROVE  IInv'
<1>1. TableStep /\ call[c].pc = "write"
  BY WriteTable DEF WriteRow
<1>2. CASE Reject(c)
  BY <1>1, <1>2, Rejected
<1>3. CASE status[call[c].job] # "deleted" /\ Accept(c)
  BY <1>1, <1>3, WriteTable, Accepted DEF Started
<1> QED
  BY <1>2, <1>3 DEF WriteRow
-----------------------------------------------------------------------------
(* The users, and the maintenance pass. *)
LEMMA ControlCall ==
  ASSUME IInv, TableStep, UNCHANGED agent, NEW n \in Call,
         call' = [call EXCEPT ![Control] = n],
         n.pc \in {"list", "read"}, n.report = "failed",
         n.pc = "read" => n.job \in Jobs /\ status[n.job] # "absent",
         \A j \in n.todo : j \in Jobs /\ status[j] # "absent"
  PROVE  IInv'
<1>1. Control \in Calls /\ call'[Control] = n
  BY CallsApart DEF IInv, TypeOK
<1>2. /\ n.pc = "read" => status'[n.job] # "absent"
      /\ \A j \in n.todo : status'[j] # "absent"
  BY DEF TableStep, RowStep
<1>3. CallFits(Control)'
  BY <1>1, <1>2 DEF CallFits
<1> QED
  BY <1>1, <1>3, NobodyWaitsForControl, HandlerMoves

LEMMA Interventions ==
  ASSUME IInv,
         \/ \E j \in Jobs : Cancel(j)
         \/ \E a \in Agents : Deactivate(a)
         \/ ListJobsOfAgent
  PROVE  IInv'
<1>1. /\ call \in [Calls -> Call] /\ Control \in Calls /\ call[Control] \in Call /\ CallFits(Control)
      /\ IdleCall \in Call
  BY CallsApart, CallInfo, IdleCallType
<1>2. /\ status \in [Jobs -> Statuses] /\ holder \in [Jobs -> Holders] /\ raced \subseteq Jobs
      /\ deactivated \in [Agents -> BOOLEAN] /\ events \in 0 .. MaxEvents
  BY DEF IInv, TypeOK
<1>3. ASSUME NEW j \in Jobs, Cancel(j) PROVE IInv'
  <2> DEFINE n == [IdleCall EXCEPT !.pc = "read", !.job = j, !.report = "failed",
                                   !.by = IF holder[j] = NoAgent THEN ServerControl ELSE holder[j]]
  <2>1. j \in 0 .. NumJobs /\ holder[j] \in Holders
    BY <1>2, Bounds DEF Jobs
  <2>2. n \in Call /\ n.pc = "read" /\ n.job = j /\ n.report = "failed" /\ n.todo = {}
    BY <2>1 DEF IdleCall, Call, Holders
  <2>3. call' = [call EXCEPT ![Control] = n] /\ UNCHANGED agent /\ status[j] # "absent"
    BY <1>3 DEF Cancel, Active
  <2>4. TableStep
    BY <1>2, <1>3, Faults, SameRows DEF Cancel, Intervention
  <2> HIDE DEF n
  <2> QED
    BY <2>2, <2>3, <2>4, ControlCall
<1>4. ASSUME NEW a \in Agents, Deactivate(a) PROVE IInv'
  <2> DEFINE n == [IdleCall EXCEPT !.pc = "list", !.by = a, !.report = "failed", !.sweep = TRUE]
  <2>1. n \in Call /\ n.pc = "list" /\ n.report = "failed" /\ n.todo = {}
    BY IdleCallType DEF IdleCall, Call, Holders
  <2>2. call' = [call EXCEPT ![Control] = n] /\ UNCHANGED agent
    BY <1>4 DEF Deactivate
  <2>3. TableStep
    <3>1. deactivated' \in [Agents -> BOOLEAN] /\ UNCHANGED <<rows, raced>>
      BY <1>2, <1>4 DEF Deactivate
    <3> QED
      BY <1>4, <3>1, Faults, SameRows DEF Deactivate, Intervention
  <2> HIDE DEF n
  <2> QED
    BY <2>1, <2>2, <2>3, ControlCall
<1>5. CASE ListJobsOfAgent
  <2> DEFINE mine == {j \in Jobs : holder[j] = call[Control].by /\ status[j] \in Active}
  <2>1. TableStep /\ UNCHANGED agent /\ call[Control].pc = "list"
    BY <1>2, <1>5, SameRows DEF ListJobsOfAgent
  <2>2. CASE call' = [call EXCEPT ![Control] = IdleCall]
    <3>1. call'[Control] = IdleCall
      BY <1>1, <2>2
    <3> QED
      BY <1>1, <2>1, <2>2, <3>1, IdleCallFits, NobodyWaitsForControl, HandlerMoves
  <2>3. ASSUME NEW j \in mine,
               call' = [call EXCEPT ![Control].pc = "read", ![Control].job = j,
                                    ![Control].todo = mine \ {j}]
        PROVE  IInv'
    <3> DEFINE n == [call[Control] EXCEPT !.pc = "read", !.job = j, !.todo = mine \ {j}]
    <3>1. j \in 0 .. NumJobs /\ mine \in SUBSET Jobs
      BY Bounds DEF Jobs
    <3>2. \A i \in mine : i \in Jobs /\ status[i] # "absent"
      BY DEF Active
    <3>3. j \in mine
      OBVIOUS
    <3>4. call' = [call EXCEPT ![Control] = n]
      BY <1>1, <2>3
    <3> HIDE DEF mine
    <3>5. ASSUME NEW m \in Call, NEW t \in SUBSET Jobs
          PROVE  LET r == [m EXCEPT !.pc = "read", !.job = j, !.todo = t]
                 IN /\ r \in Call /\ r.pc = "read" /\ r.job = j /\ r.report = m.report
                    /\ r.todo = t
      BY <3>1 DEF Call
    <3>6. /\ n \in Call /\ n.pc = "read" /\ n.job = j /\ n.report = call[Control].report
          /\ n.todo = mine \ {j}
      BY <1>1, <3>1, <3>5
    <3> HIDE DEF n
    <3>7. n.report = "failed"
      BY <1>1, <2>1, <3>6 DEF CallFits
    <3> QED
      BY <2>1, <3>2, <3>3, <3>4, <3>6, <3>7, ControlCall
  <2> QED
    BY <1>5, <2>2, <2>3 DEF ListJobsOfAgent
<1> QED
  BY <1>3, <1>4, <1>5

LEMMA RowsOnly ==
  ASSUME IInv, TableStep, UNCHANGED <<call, agent>>
  PROVE  IInv'
<1>1. call \in [Calls -> Call] /\ agent \in [Agents -> Agent]
  BY DEF IInv, TypeOK
<1> QED
  BY <1>1, Frame

LEMMA TableActions ==
  ASSUME IInv,
         \/ \E j \in Jobs : Enqueue(j) \/ Delete(j) \/ RequeueStale(j) \/ Reap(j)
         \/ \E a \in Agents : Activate(a)
  PROVE  IInv'
<1>1. /\ status \in [Jobs -> Statuses] /\ holder \in [Jobs -> Holders] /\ raced \subseteq Jobs
      /\ deactivated \in [Agents -> BOOLEAN] /\ events \in 0 .. MaxEvents
  BY DEF IInv, TypeOK
<1>2. {"queued", "failed"} \subseteq Statuses
  BY DEF Statuses, Active, Terminal
<1>3. ASSUME NEW j \in Jobs, Enqueue(j) PROVE IInv'
  BY <1>1, <1>2, <1>3, StatusRow, RowsOnly DEF Enqueue
<1>4. ASSUME NEW j \in Jobs, Delete(j) PROVE IInv'
  BY <1>4, DeleteRow, RowsOnly DEF Delete
<1>5. ASSUME NEW j \in Jobs, RequeueStale(j) PROVE IInv'
  BY <1>5, Faults, RequeueRow, RowsOnly DEF RequeueStale
<1>6. ASSUME NEW j \in Jobs, Reap(j) PROVE IInv'
  <2>1. events' \in 0 .. MaxEvents /\ status[j] \in Active /\ "failed" \in Terminal
    BY <1>6, Faults DEF Reap, Reapable, Active, Terminal
  <2> QED
    BY <1>1, <1>2, <1>6, <2>1, StatusRow, RowsOnly DEF Reap
<1>7. ASSUME NEW a \in Agents, Activate(a) PROVE IInv'
  <2>1. deactivated' \in [Agents -> BOOLEAN] /\ events' \in 0 .. MaxEvents
    BY <1>1, <1>7, Faults DEF Activate, Intervention
  <2> QED
    BY <1>7, <2>1, SameRows, RowsOnly DEF Activate
<1> QED
  BY <1>3, <1>4, <1>5, <1>6, <1>7

LEMMA ServerRestarts ==
  ASSUME IInv, RestartServer
  PROVE  IInv'
<1>1. TableStep
  BY Faults, SameRows DEF RestartServer, IInv, TypeOK
<1>2. call' = [c \in Calls |-> IdleCall] /\ agent \in [Agents -> Agent]
  BY DEF RestartServer, IInv, TypeOK
<1>3. ASSUME NEW a \in Agents
      PROVE  agent'[a] \in Agent /\ AgentFits(a)'
  <2>1. agent'[a] \in IF agent[a].slot = 0 THEN {agent[a]} ELSE AfterFailure(agent[a])
    BY DEF RestartServer
  <2>2. CASE agent[a].slot = 0
    BY <1>1, <1>2, <2>1, <2>2, AgentStays
  <2>3. CASE agent[a].slot # 0
    BY <1>1, <2>1, <2>3, FailureFits
  <2> QED
    BY <2>2, <2>3
<1>4. agent' \in [Agents -> Agent]
  <2>1. \E S : agent' \in [Agents -> S]
    BY DEF RestartServer
  <2> QED
    BY <1>3, <2>1
<1>5. call' \in [Calls -> Call] /\ \A c \in Calls : CallFits(c)'
  BY <1>2, IdleCallType, IdleCallFits
<1> QED
  BY <1>1, <1>3, <1>4, <1>5, Frame
-----------------------------------------------------------------------------
LEMMA InitFits == Init => IInv
<1> SUFFICES ASSUME Init PROVE IInv
  OBVIOUS
<1>1. TypeOK
  <2>1. IdleAgent \in Agent
    BY Bounds DEF IdleAgent, Agent
  <2> QED
    BY <2>1, IdleCallType, Bounds DEF Init, TypeOK, Statuses, Holders
<1>2. Fits
  BY CallsApart DEF Init, Fits, RowFits, CallFits, AgentFits, IdleCall, IdleAgent
<1> QED
  BY <1>1, <1>2 DEF IInv

LEMMA SameState ==
  ASSUME IInv, UNCHANGED vars
  PROVE  IInv'
<1>1. UNCHANGED <<rows, deactivated, call, agent, events, raced>>
  BY DEF vars, rows
<1>2. TableStep
  BY <1>1, SameRows DEF IInv, TypeOK
<1> QED
  BY <1>1, <1>2, RowsOnly

LEMMA StepFits == IInv /\ [Next]_vars => IInv'
<1> SUFFICES ASSUME IInv, [Next]_vars PROVE IInv'
  OBVIOUS
<1>1. ASSUME NEW a \in Agents,
             \/ AgentStep(a) \/ StopScript(a) \/ ReportPhase(a) \/ EndScript(a)
             \/ LoseAnswer(a) \/ RestartAgent(a)
      PROVE  IInv'
  <2>1. UNCHANGED <<rows, raced>> /\ deactivated' \in [Agents -> BOOLEAN] /\ events' \in 0 .. MaxEvents
    BY <1>1, Faults DEF AgentStep, StopScript, RequestLease, ReportStart, ReportPhase, ReportEnd,
         EndScript, TimeOutScript, NoticeServerTerminal, LoseAnswer, RestartAgent, IInv, TypeOK
  <2>2. TableStep
    BY <2>1, SameRows
  <2> QED
    BY <1>1, <2>2, AgentRequests, ScriptEnds, AgentFails DEF AgentStep, StopScript
<1>2. ASSUME NEW c \in Calls, HandlerStep(c) \/ SecretsUnavailable(c) \/ SecretsMissing(c)
      PROVE  IInv'
  <2>1. CASE CheckAdmission(c) \/ CheckNoActiveJob(c) \/ ResolveSecrets(c)
    <3>1. TableStep
      BY <2>1, SameRows DEF CheckAdmission, CheckNoActiveJob, ResolveSecrets, IInv, TypeOK
    <3> QED
      BY <2>1, <3>1, Admission, JobGoesOut
  <2> QED
    BY <1>2, <2>1, Leasing, Reading, Writing, NoSecrets DEF HandlerStep
<1> QED
  BY <1>1, <1>2, Interventions, TableActions, ServerRestarts, SameState DEF Next

(* The invariant the rest follows from. *)
THEOREM Fitting == Spec => []IInv
<1> QED
  BY InitFits, StepFits, PTL DEF Spec

(* Every variable keeps its type, whatever overlaps. *)
THEOREM Typed == Spec => []TypeOK
<1>1. IInv => TypeOK
  BY DEF IInv
<1> QED
  BY <1>1, Fitting, PTL

(* Whoever executes a job that has not ended holds its lease, or nobody    *)
(* does, save when a start that was read under one lease is written under  *)
(* another: the store's checks (UpdateJobExecutionStatus, LeaseJob, the    *)
(* maintenance pass) suffice whatever the agents and the network do.       *)
THEOREM Exclusive == Spec => []ExecutorHoldsLease
<1>1. IInv => ExecutorHoldsLease
  BY DEF IInv, Fits, AgentFits, ExecutorHoldsLease, Executing, Started, Ended, Terminal, Active
<1> QED
  BY <1>1, Fitting, PTL
-----------------------------------------------------------------------------
(* One running job for each agent.  An agent may still report the start of *)
(* a job when it works on it, is about to receive it, or has a handler     *)
(* that outlived its patience.                                             *)
Reports(a, k, j) ==
  call[<<a, k>>].pc \in {"read", "write"} /\ call[<<a, k>>].report = "running" /\ call[<<a, k>>].job = j

Receives(a, j) ==
  \E k \in Slots : agent[a].slot = k /\ call[<<a, k>>].pc = "secrets" /\ call[<<a, k>>].job = j

MayStart(a, j) ==
  \/ \E k \in Slots : Reports(a, k, j)
  \/ Receives(a, j)
  \/ agent[a].pc \in {"starting", "executing"} /\ agent[a].job = j

Holds(a, j) == status[j] \in {"leased", "running"} /\ holder[j] = a
Runs(a, j) == status[j] = "running" /\ holder[j] = a /\ j \notin raced

(* Of the jobs that run or may come to run, an agent has one.  Whoever is  *)
(* admitted to a lease that the agent waits for found none of them; if     *)
(* nobody waits, the lease may still come, for a job that is not started.  *)
(* A busy agent has no two requests at the server that are not about its   *)
(* job, as long as it never had three there.                               *)
Live(a, j) == Runs(a, j) \/ (MayStart(a, j) /\ Holds(a, j))

OneLive(a) == \A i, j \in Jobs : Live(a, i) /\ Live(a, j) => i = j

AdmittedAlone(a) ==
  \A k \in Slots, i \in Jobs : call[<<a, k>>].pc = "lease" /\ Live(a, i) =>
    agent[a].slot # k /\ \A j \in Jobs : MayStart(a, j) => j = i

Unspoilt(a, k) ==
  \/ call[<<a, k>>].pc = "idle"
  \/ call[<<a, k>>].pc \in {"read", "write"} /\ call[<<a, k>>].job = agent[a].job

OneSpoilt(a) ==
  agent[a].pc # "idle" => \A k, l \in Slots : k = l \/ Unspoilt(a, k) \/ Unspoilt(a, l)

Alone(a) == OneLive(a) /\ AdmittedAlone(a) /\ OneSpoilt(a)

TwoRequests(a) ==
  \A k, l, m \in Slots : AtServer(a, k) /\ AtServer(a, l) /\ AtServer(a, m) => k = l \/ l = m \/ k = m

(* No other job comes to run, or into the agent's hands. *)
HoldsNoMore(a) == \A j \in Jobs : (Holds(a, j)' => Holds(a, j)) /\ (Runs(a, j)' => Live(a, j))

LEMMA NothingNew ==
  ASSUME NEW a \in Agents, Alone(a), HoldsNoMore(a), OneSpoilt(a)',
         \A j \in Jobs : MayStart(a, j)' => MayStart(a, j),
         \A k \in Slots : call'[<<a, k>>].pc = "lease" =>
           \/ call[<<a, k>>].pc = "lease" /\ (agent'[a].slot = k => agent[a].slot = k)
           \/ \A j \in Jobs : ~Holds(a, j)
  PROVE  Alone(a)'
<1>1. \A j \in Jobs : Live(a, j)' => Live(a, j)
  BY DEF HoldsNoMore, Live
<1>2. \A j \in Jobs : Live(a, j) => Holds(a, j)
  BY DEF Live, Runs, Holds
<1>3. OneLive(a)'
  BY <1>1 DEF Alone, OneLive
<1>4. ASSUME NEW k \in Slots, NEW i \in Jobs, call'[<<a, k>>].pc = "lease", Live(a, i)'
      PROVE  agent'[a].slot # k /\ \A j \in Jobs : MayStart(a, j)' => j = i
  <2>1. Live(a, i) /\ Holds(a, i)
    BY <1>1, <1>2, <1>4
  <2>2. call[<<a, k>>].pc = "lease" /\ (agent'[a].slot = k => agent[a].slot = k)
    BY <1>4, <2>1
  <2>3. agent[a].slot # k /\ \A j \in Jobs : MayStart(a, j) => j = i
    BY <2>1, <2>2 DEF Alone, AdmittedAlone
  <2> QED
    BY <2>2, <2>3
<1> QED
  BY <1>3, <1>4 DEF Alone, AdmittedAlone

LEMMA SameHands ==
  ASSUME NEW a \in Agents, Alone(a), HoldsNoMore(a), agent'[a] = agent[a],
         \A k \in Slots : call'[<<a, k>>] = call[<<a, k>>]
  PROVE  Alone(a)'
<1>1. \A j \in Jobs : MayStart(a, j)' => MayStart(a, j)
  BY DEF MayStart, Reports, Receives
<1>2. OneSpoilt(a)'
  BY DEF Alone, OneSpoilt, Unspoilt
<1> QED
  BY <1>1, <1>2, NothingNew

LEMMA SameTable ==
  ASSUME UNCHANGED rows, raced \subseteq raced', NEW a \in Agents
  PROVE  HoldsNoMore(a)
BY DEF HoldsNoMore, Holds, Runs, Live, rows

(* A row that is written, but not to be leased or running. *)
LEMMA RowLeft ==
  ASSUME IInv, NEW a \in Agents, NEW i \in Jobs, raced \subseteq raced',
         \A j \in Jobs \ {i} : status'[j] = status[j] /\ holder'[j] = holder[j],
         status'[i] \notin {"leased", "running"}
  PROVE  HoldsNoMore(a)
<1> SUFFICES ASSUME NEW j \in Jobs PROVE (Holds(a, j)' => Holds(a, j)) /\ (Runs(a, j)' => Live(a, j))
  BY DEF HoldsNoMore
<1>1. CASE j = i
  BY <1>1 DEF Holds, Runs
<1>2. CASE j # i
  BY <1>2 DEF Holds, Runs, Live
<1> QED
  BY <1>1, <1>2

(* A handler goes on, or ends with an answer. *)
LEMMA CallGoesOn ==
  ASSUME IInv, NEW a \in Agents, Alone(a), HoldsNoMore(a), NEW c \in Calls, NEW n,
         call' = [call EXCEPT ![c] = n], UNCHANGED agent, n.pc # "secrets",
         \A k \in Slots : c = <<a, k>> /\ n.pc = "lease" => \A j \in Jobs : ~Holds(a, j),
         c # Control /\ n.pc \in {"read", "write"} /\ n.report = "running" =>
           call[c].pc \in {"read", "write"} /\ call[c].report = "running" /\ call[c].job = n.job,
         c # Control /\ call[c].pc \in {"idle", "read", "write"} =>
           n.pc \in {"read", "write"} /\ call[c].pc # "idle" /\ n.job = call[c].job
  PROVE  Alone(a)'
<1>1. call \in [Calls -> Call] /\ \A k \in Slots : <<a, k>> \in Calls /\ <<a, k>> # Control
  BY CallsApart DEF IInv, TypeOK
<1>2. \A k \in Slots : call'[<<a, k>>] = IF c = <<a, k>> THEN n ELSE call[<<a, k>>]
  BY <1>1
<1>3. ASSUME NEW j \in Jobs, MayStart(a, j)' PROVE MayStart(a, j)
  <2>1. ASSUME NEW k \in Slots, Reports(a, k, j)' PROVE Reports(a, k, j)
    BY <1>1, <1>2, <2>1 DEF Reports
  <2>2. Receives(a, j)' => Receives(a, j)
    BY <1>2 DEF Receives
  <2> QED
    BY <1>3, <2>1, <2>2 DEF MayStart
<1>4. OneSpoilt(a)'
  <2>1. ASSUME NEW k \in Slots, Unspoilt(a, k) PROVE Unspoilt(a, k)'
    BY <1>1, <1>2, <2>1 DEF Unspoilt
  <2> QED
    BY <2>1 DEF Alone, OneSpoilt
<1>5. ASSUME NEW k \in Slots, call'[<<a, k>>].pc = "lease"
      PROVE  call[<<a, k>>].pc = "lease" \/ \A j \in Jobs : ~Holds(a, j)
  BY <1>2, <1>5
<1> QED
  BY <1>3, <1>4, <1>5, NothingNew

LEMMA CallEnds ==
  ASSUME IInv, NEW a \in Agents, Alone(a), TwoRequests(a), HoldsNoMore(a), NEW c \in Calls,
         call[c].pc # "idle", call' = [call EXCEPT ![c] = IdleCall],
         \/ UNCHANGED agent
         \/ \E b \in Waiting(c) : \E g :
              /\ agent' = [agent EXCEPT ![b] = g] /\ g.slot = 0
              /\ g.pc \in {"starting", "executing"} => MayStart(b, g.job)
  PROVE  Alone(a)'
<1>1. /\ call \in [Calls -> Call] /\ agent \in [Agents -> Agent]
      /\ \A k \in Slots : <<a, k>> \in Calls /\ <<a, k>> # Control
  BY CallsApart DEF IInv, TypeOK
<1>2. /\ \A k \in Slots : call'[<<a, k>>] = IF c = <<a, k>> THEN IdleCall ELSE call[<<a, k>>]
      /\ IdleCall.pc = "idle" /\ 0 \notin Slots
  BY <1>1, CallsApart DEF IdleCall
<1>3. \/ agent'[a] = agent[a]
      \/ \E k \in Slots : /\ c = <<a, k>> /\ agent'[a].slot = 0
                          /\ agent'[a].pc \in {"starting", "executing"} => MayStart(a, agent'[a].job)
  <2>1. CASE UNCHANGED agent
    BY <2>1
  <2>2. ASSUME NEW b \in Waiting(c), NEW g, agent' = [agent EXCEPT ![b] = g], g.slot = 0,
               g.pc \in {"starting", "executing"} => MayStart(b, g.job)
        PROVE  \/ agent'[a] = agent[a]
               \/ \E k \in Slots : /\ c = <<a, k>> /\ agent'[a].slot = 0
                                   /\ agent'[a].pc \in {"starting", "executing"} => MayStart(a, agent'[a].job)
    <3>1. CASE a # b
      BY <1>1, <2>2, <3>1
    <3>2. CASE a = b
      <4>1. agent'[a] = g /\ agent[a].slot \in Slots /\ c = <<a, agent[a].slot>>
        BY <1>1, <2>2, <3>2 DEF Waiting, Agent
      <4> QED
        BY <2>2, <3>2, <4>1
    <3> QED
      BY <3>1, <3>2
  <2> QED
    BY <2>1, <2>2
<1>4. ASSUME NEW j \in Jobs, MayStart(a, j)' PROVE MayStart(a, j)
  <2>1. ASSUME NEW k \in Slots, Reports(a, k, j)' PROVE Reports(a, k, j)
    BY <1>2, <2>1 DEF Reports
  <2>2. Receives(a, j)' => Receives(a, j)
    BY <1>2, <1>3 DEF Receives
  <2>3. agent'[a].pc \in {"starting", "executing"} /\ agent'[a].job = j => MayStart(a, j)
    BY <1>3 DEF MayStart
  <2> QED
    BY <1>4, <2>1, <2>2, <2>3 DEF MayStart
<1>5. OneSpoilt(a)'
  <2>1. CASE \E k \in Slots : c = <<a, k>>
    <3>1. PICK m \in Slots : c = <<a, m>>
      BY <2>1
    <3>2. ASSUME NEW k \in Slots, NEW l \in Slots, k # l
          PROVE  call'[<<a, k>>].pc = "idle" \/ call'[<<a, l>>].pc = "idle"
      BY <1>2, <3>1, <3>2 DEF TwoRequests, AtServer
    <3> QED
      BY <3>2 DEF OneSpoilt, Unspoilt
  <2>2. CASE \A k \in Slots : c # <<a, k>>
    BY <1>2, <1>3, <2>2 DEF Alone, OneSpoilt, Unspoilt
  <2> QED
    BY <2>1, <2>2
<1>6. ASSUME NEW k \in Slots, call'[<<a, k>>].pc = "lease"
      PROVE  call[<<a, k>>].pc = "lease" /\ (agent'[a].slot = k => agent[a].slot = k)
  BY <1>2, <1>3, <1>6
<1> QED
  BY <1>4, <1>5, <1>6, NothingNew

(* The answers.  Only a job that was about to be received is started.      *)
Turns(b, g) ==
  /\ g.slot = 0
  /\ g.pc \in {"starting", "executing"} => MayStart(b, g.job)

LEMMA AgentsTurn ==
  ASSUME NEW b \in Agents, agent[b] \in Agent
  PROVE  /\ Turns(b, IdleAgent)
         /\ \A g \in AfterFailure(agent[b]) : Turns(b, g)
         /\ \A g \in AfterAcceptance(agent[b]) : Turns(b, g)
<1>1. Turns(b, IdleAgent)
  BY DEF IdleAgent, Turns
<1>2. ASSUME NEW g, agent[b].pc = "executing", g = [agent[b] EXCEPT !.slot = 0] PROVE Turns(b, g)
  BY <1>2 DEF Agent, Turns, MayStart
<1>3. ASSUME NEW g \in AfterFailure(agent[b]) PROVE Turns(b, g)
  <2>1. CASE agent[b].pc = "ended" /\ g = [agent[b] EXCEPT !.slot = 0, !.tries = @ + 1]
    BY <2>1 DEF Agent, Turns
  <2> QED
    BY <1>1, <1>2, <1>3, <2>1 DEF AfterFailure
<1>4. ASSUME NEW g \in AfterAcceptance(agent[b]) PROVE Turns(b, g)
  <2>1. CASE agent[b].pc = "starting" /\ g = [agent[b] EXCEPT !.pc = "executing", !.slot = 0]
    BY <2>1 DEF Agent, Turns, MayStart
  <2> QED
    BY <1>1, <1>2, <1>4, <2>1 DEF AfterAcceptance
<1> QED
  BY <1>1, <1>3, <1>4

LEMMA NoLeaseAlone ==
  ASSUME IInv, NEW a \in Agents, Alone(a), TwoRequests(a), HoldsNoMore(a), NEW c \in Calls,
         call[c].pc # "idle", Answer(c, NotAssigned)
  PROVE  Alone(a)'
<1>1. /\ call' = [call EXCEPT ![c] = IdleCall]
      /\ UNCHANGED agent \/ \E b \in Waiting(c) : agent' = [agent EXCEPT ![b] = IdleAgent]
  BY DEF Answer, NotAssigned
<1>2. ASSUME NEW b \in Waiting(c) PROVE Turns(b, IdleAgent)
  BY WaitingFits, AgentsTurn
<1> QED
  BY <1>1, <1>2, CallEnds DEF Turns

LEMMA RejectedAlone ==
  ASSUME IInv, NEW a \in Agents, Alone(a), TwoRequests(a), HoldsNoMore(a), NEW c \in Calls,
         call[c].pc # "idle", Reject(c)
  PROVE  Alone(a)'
<1>1. /\ call' = [call EXCEPT ![c] = IdleCall]
      /\ \/ UNCHANGED agent
         \/ \E b \in Waiting(c) : \E g \in AfterFailure(agent[b]) : agent' = [agent EXCEPT ![b] = g]
  BY DEF Answer, Reject
<1>2. ASSUME NEW b \in Waiting(c), NEW g \in AfterFailure(agent[b]) PROVE Turns(b, g)
  BY WaitingFits, AgentsTurn
<1> QED
  BY <1>1, <1>2, CallEnds DEF Turns

LEMMA AcceptedAlone ==
  ASSUME IInv, NEW a \in Agents, Alone(a), TwoRequests(a), HoldsNoMore(a), NEW c \in Calls,
         call[c].pc # "idle", Answer(c, AfterAcceptance)
  PROVE  Alone(a)'
<1>1. /\ call' = [call EXCEPT ![c] = IdleCall]
      /\ \/ UNCHANGED agent
         \/ \E b \in Waiting(c) : \E g \in AfterAcceptance(agent[b]) : agent' = [agent EXCEPT ![b] = g]
  BY DEF Answer
<1>2. ASSUME NEW b \in Waiting(c), NEW g \in AfterAcceptance(agent[b]) PROVE Turns(b, g)
  BY WaitingFits, AgentsTurn
<1> QED
  BY <1>1, <1>2, CallEnds DEF Turns

Starting(c, b) == [agent[b] EXCEPT !.pc = "starting", !.job = call[c].job, !.slot = 0]

LEMMA Assignment ==
  ASSUME NEW c \in Calls, ResolveSecrets(c)
  PROVE  /\ call' = [call EXCEPT ![c] = IdleCall] /\ call[c].pc = "secrets"
         /\ UNCHANGED agent \/ \E b \in Waiting(c) : agent' = [agent EXCEPT ![b] = Starting(c, b)]
<1>1. call' = [call EXCEPT ![c] = IdleCall] /\ call[c].pc = "secrets"
  BY DEF Answer, ResolveSecrets
<1>2. \/ UNCHANGED agent
      \/ \E b \in Waiting(c) : agent' = [agent EXCEPT ![b] = Starting(c, b)]
  BY DEF Answer, ResolveSecrets, Starting
<1> QED
  BY <1>1, <1>2

LEMMA JobArrives ==
  ASSUME IInv, NEW a \in Agents, Alone(a), TwoRequests(a), HoldsNoMore(a), NEW c \in Calls,
         ResolveSecrets(c)
  PROVE  Alone(a)'
<1>1. ASSUME NEW b \in Waiting(c) PROVE Turns(b, Starting(c, b))
  <2>1. agent[b] \in Agent /\ agent[b].slot \in Slots /\ c = <<b, agent[b].slot>>
    BY WaitingFits DEF Waiting, Agent
  <2>2. Starting(c, b).slot = 0 /\ Starting(c, b).job = call[c].job
    BY <2>1 DEF Agent, Starting
  <2> QED
    BY <2>1, <2>2, Assignment DEF MayStart, Receives, Turns
<1> QED
  BY <1>1, Assignment, CallEnds DEF Turns

LEMMA ReportsGoOn ==
  ASSUME IInv, NEW a \in Agents, Alone(a), TwoRequests(a), HoldsNoMore(a), NEW c \in Calls,
         call[c].pc # "idle", Accept(c)
  PROVE  Alone(a)'
<1>1. CASE c = Control
  <2>1. PICK n \in NextOfSweep(c) : call' = [call EXCEPT ![c] = n] /\ UNCHANGED agent
    BY <1>1 DEF Accept
  <2>2. \A k \in Slots : <<a, k>> # Control
    BY CallsApart
  <2>3. \A k \in Slots : call'[<<a, k>>] = call[<<a, k>>]
    BY <1>1, <2>1, <2>2, CallsApart DEF IInv, TypeOK
  <2> QED
    BY <2>1, <2>3, SameHands
<1>2. CASE c # Control
  BY <1>2, AcceptedAlone DEF Accept
<1> QED
  BY <1>1, <1>2

(* The agent's own steps. *)
LEMMA SendAlone ==
  ASSUME IInv, NEW a \in Agents, Alone(a), HoldsNoMore(a), NEW b \in Agents, NEW n, Send(b, n),
         \/ n.pc = "admit" /\ agent[b].pc = "idle"
         \/ /\ n.pc = "read" /\ n.job = agent[b].job
            /\ n.report = "running" => agent[b].pc \in {"starting", "executing"}
  PROVE  Alone(a)'
<1>1. PICK k \in Slots : /\ call' = [call EXCEPT ![<<b, k>>] = n]
                         /\ agent' = [agent EXCEPT ![b].slot = k]
  BY DEF Send
<1>2. /\ call \in [Calls -> Call] /\ agent \in [Agents -> Agent] /\ <<b, k>> \in Calls
      /\ \A l \in Slots : <<a, l>> \in Calls
  BY CallsApart DEF IInv, TypeOK
<1>3. CASE a # b
  BY <1>1, <1>2, <1>3, SameHands
<1>4. CASE a = b
  <2>1. /\ call'[<<a, k>>] = n /\ \A l \in Slots \ {k} : call'[<<a, l>>] = call[<<a, l>>]
        /\ agent'[a].slot = k /\ agent'[a].pc = agent[a].pc /\ agent'[a].job = agent[a].job
    BY <1>1, <1>2, <1>4 DEF Agent
  <2>2. ASSUME NEW j \in Jobs, MayStart(a, j)' PROVE MayStart(a, j)
    <3>1. ASSUME NEW l \in Slots, Reports(a, l, j)' PROVE MayStart(a, j)
      BY <1>4, <2>1, <3>1 DEF Reports, MayStart
    <3>2. ~Receives(a, j)'
      BY <1>4, <2>1 DEF Receives
    <3> QED
      BY <2>1, <2>2, <3>1, <3>2 DEF MayStart
  <2>3. OneSpoilt(a)'
    <3>1. CASE n.pc = "admit"
      BY <1>4, <2>1, <3>1 DEF OneSpoilt
    <3>2. CASE n.pc = "read"
      BY <1>4, <2>1, <3>2 DEF Alone, OneSpoilt, Unspoilt
    <3> QED
      BY <3>1, <3>2
  <2>4. ASSUME NEW l \in Slots, call'[<<a, l>>].pc = "lease"
        PROVE  call[<<a, l>>].pc = "lease" /\ agent'[a].slot # l
    BY <2>1, <2>4
  <2> QED
    BY <2>2, <2>3, <2>4, NothingNew
<1> QED
  BY <1>3, <1>4

LEMMA AgentTurns ==
  ASSUME IInv, NEW a \in Agents, Alone(a), HoldsNoMore(a), NEW b \in Agents, UNCHANGED call,
         NEW g, agent' = [agent EXCEPT ![b] = g], g.slot = 0 \/ g.slot = agent[b].slot,
         g.pc \in {"starting", "executing"} => g.pc = agent[b].pc,
         g.pc # "idle" => g.job = agent[b].job /\ agent[b].pc # "idle"
  PROVE  Alone(a)'
<1>1. agent'[a] = IF a = b THEN g ELSE agent[a]
  BY DEF IInv, TypeOK
<1>2. CASE a # b
  BY <1>1, <1>2, SameHands
<1>3. CASE a = b
  <2>1. /\ agent'[a] = g /\ 0 \notin Slots
    BY <1>1, <1>3, CallsApart
  <2>2. ASSUME NEW j \in Jobs, MayStart(a, j)' PROVE MayStart(a, j)
    BY <1>3, <2>1, <2>2 DEF MayStart, Reports, Receives
  <2>3. OneSpoilt(a)'
    BY <1>3, <2>1 DEF Alone, OneSpoilt, Unspoilt
  <2> QED
    BY <1>3, <2>1, <2>2, <2>3, NothingNew
<1> QED
  BY <1>2, <1>3

AgentFailure(b, g) ==
  /\ g.slot = 0
  /\ g.pc \in {"starting", "executing"} => g.pc = agent[b].pc
  /\ g.pc # "idle" => g.job = agent[b].job /\ agent[b].pc # "idle"

LEMMA FailureTurns ==
  ASSUME NEW b \in Agents, agent[b] \in Agent, NEW g \in AfterFailure(agent[b]) \cup {IdleAgent}
  PROVE  AgentFailure(b, g)
<1>1. CASE g = IdleAgent
  BY <1>1 DEF IdleAgent, AgentFailure
<1>2. CASE agent[b].pc = "ended" /\ g = [agent[b] EXCEPT !.slot = 0, !.tries = @ + 1]
  BY <1>2 DEF Agent, AgentFailure
<1>3. CASE agent[b].pc = "executing" /\ g = [agent[b] EXCEPT !.slot = 0]
  BY <1>3 DEF Agent, AgentFailure
<1> QED
  BY <1>1, <1>2, <1>3 DEF AfterFailure

LEMMA AgentAlone ==
  ASSUME IInv, NEW a \in Agents, Alone(a), NEW b \in Agents,
         \/ AgentStep(b) \/ StopScript(b) \/ ReportPhase(b) \/ EndScript(b)
         \/ LoseAnswer(b) \/ RestartAgent(b)
  PROVE  Alone(a)'
<1>1. agent \in [Agents -> Agent] /\ agent[b] \in Agent /\ AgentFits(b)
  BY DEF IInv, Fits, TypeOK
<1>2. HoldsNoMore(a)
  <2>1. UNCHANGED <<rows, raced>>
    BY DEF AgentStep, StopScript, RequestLease, ReportStart, ReportPhase, ReportEnd,
         EndScript, TimeOutScript, NoticeServerTerminal, LoseAnswer, RestartAgent
  <2> QED
    BY <2>1, SameTable
<1>3. CASE RequestLease(b)
  <2> DEFINE n == [IdleCall EXCEPT !.pc = "admit", !.by = b]
  <2>1. n.pc = "admit"
    BY DEF IdleCall
  <2>2. Send(b, n) /\ agent[b].pc = "idle"
    BY <1>3 DEF RequestLease
  <2> HIDE DEF n
  <2> QED
    BY <1>2, <2>1, <2>2, SendAlone
<1>4. ASSUME NEW r, Send(b, Report(b, r)), r = "running" => agent[b].pc \in {"starting", "executing"}
      PROVE  Alone(a)'
  <2> DEFINE n == Report(b, r)
  <2>1. n.pc = "read" /\ n.job = agent[b].job /\ n.report = r
    BY DEF Report, IdleCall
  <2> HIDE DEF n
  <2>2. Send(b, n)
    BY <1>4 DEF n
  <2> QED
    BY <1>2, <1>4, <2>1, <2>2, SendAlone
<1>5. CASE ReportStart(b) \/ ReportPhase(b)
  BY <1>4, <1>5 DEF ReportStart, ReportPhase
<1>6. CASE ReportEnd(b)
  <2>1. Send(b, Report(b, agent[b].outcome)) /\ agent[b].outcome # "running"
    BY <1>1, <1>6 DEF ReportEnd, AgentFits, Terminal
  <2> QED
    BY <1>4, <2>1
<1>7. CASE StopScript(b) \/ EndScript(b)
  <2>1. PICK o : agent' = [agent EXCEPT ![b].pc = "ended", ![b].outcome = o]
    BY <1>7 DEF StopScript, EndScript, TimeOutScript, NoticeServerTerminal
  <2> DEFINE g == [agent[b] EXCEPT !.pc = "ended", !.outcome = o]
  <2>2. g.pc = "ended" /\ g.job = agent[b].job /\ g.slot = agent[b].slot
    BY <1>1 DEF Agent
  <2>3. UNCHANGED call /\ agent[b].pc = "executing"
    BY <1>7 DEF StopScript, EndScript, TimeOutScript, NoticeServerTerminal
  <2>4. agent' = [agent EXCEPT ![b] = g]
    BY <1>1, <2>1
  <2> HIDE DEF g
  <2> QED
    BY <1>2, <2>2, <2>3, <2>4, AgentTurns
<1>8. CASE LoseAnswer(b) \/ RestartAgent(b)
  <2>1. PICK g \in AfterFailure(agent[b]) \cup {IdleAgent} : agent' = [agent EXCEPT ![b] = g]
    BY <1>8 DEF LoseAnswer, RestartAgent
  <2>2. AgentFailure(b, g)
    BY <1>1, <2>1, FailureTurns
  <2> QED
    BY <1>2, <1>8, <2>1, <2>2, AgentTurns DEF AgentFailure, LoseAnswer, RestartAgent
<1> QED
  BY <1>3, <1>5, <1>6, <1>7, <1>8 DEF AgentStep

(* The handlers' steps. *)
LEMMA AdmissionAlone ==
  ASSUME IInv, NEW a \in Agents, Alone(a), TwoRequests(a), NEW c \in Calls,
         CheckAdmission(c) \/ CheckNoActiveJob(c)
  PROVE  Alone(a)'
<1>1. call[c] \in Call /\ CallFits(c) /\ UNCHANGED <<rows, raced>>
  BY CallInfo DEF CheckAdmission, CheckNoActiveJob
<1>2. HoldsNoMore(a)
  BY <1>1, SameTable
<1>3. CASE Answer(c, NotAssigned)
  BY <1>2, <1>3, NoLeaseAlone DEF CheckAdmission, CheckNoActiveJob
<1>4. ASSUME NEW p \in {"busy", "lease"}, call' = [call EXCEPT ![c].pc = p], UNCHANGED agent,
             call[c].pc \in {"admit", "busy"}, p = "lease" => ~HasActiveJob(call[c].by)
      PROVE  Alone(a)'
  <2> DEFINE n == [call[c] EXCEPT !.pc = p]
  <2>1. n.pc = p
    BY <1>1 DEF Call
  <2>2. call' = [call EXCEPT ![c] = n]
    BY <1>4, CallInfo
  <2> HIDE DEF n
  <2>3. ASSUME NEW k \in Slots, c = <<a, k>>, p = "lease" PROVE \A j \in Jobs : ~Holds(a, j)
    <3>1. call[c].by = a
      BY <1>1, <1>4, <2>3, CallsApart DEF CallFits
    <3> QED
      BY <1>4, <2>3, <3>1 DEF HasActiveJob, Holds
  <2> QED
    BY <1>2, <1>4, <2>1, <2>2, <2>3, CallGoesOn
<1> QED
  BY <1>3, <1>4 DEF CheckAdmission, CheckNoActiveJob

(* What a lease of an agent's own request brings, when no more than two    *)
(* of its requests overlap: another request that was admitted would leave  *)
(* no slot for the job that the agent may start.                           *)
LEMMA LeaseAlone ==
  ASSUME IInv, NEW a \in Agents, Alone(a), TwoRequests(a), NEW k \in Slots, NEW i \in Queued,
         call[<<a, k>>].pc = "lease",
         status' = [status EXCEPT ![i] = "leased"],
         holder' = [holder EXCEPT ![i] = a],
         call' = [call EXCEPT ![<<a, k>>].pc = "secrets", ![<<a, k>>].job = i],
         UNCHANGED <<agent, raced>>
  PROVE  Alone(a)'
<1>1. /\ status \in [Jobs -> Statuses] /\ holder \in [Jobs -> Holders] /\ call \in [Calls -> Call]
      /\ i \in Jobs /\ status[i] = "queued" /\ AgentFits(a)
      /\ \A l \in Slots : <<a, l>> \in Calls /\ call[<<a, l>>] \in Call
  BY CallsApart DEF IInv, Fits, TypeOK, Queued
<1>2. /\ call'[<<a, k>>].pc = "secrets" /\ call'[<<a, k>>].job = i
      /\ \A l \in Slots \ {k} : call'[<<a, l>>] = call[<<a, l>>]
  BY <1>1 DEF Call
<1>3. \A j \in Jobs : (Runs(a, j)' => Runs(a, j)) /\ (j # i => (Holds(a, j)' => Holds(a, j)))
  BY <1>1 DEF Runs, Holds
<1>4. ASSUME NEW j \in Jobs, MayStart(a, j)' PROVE MayStart(a, j) \/ (j = i /\ agent[a].slot = k)
  <2>1. ASSUME NEW l \in Slots, Reports(a, l, j)' PROVE Reports(a, l, j)
    BY <1>2, <2>1 DEF Reports
  <2>2. Receives(a, j)' => Receives(a, j) \/ (j = i /\ agent[a].slot = k)
    BY <1>2 DEF Receives
  <2> QED
    BY <1>4, <2>1, <2>2 DEF MayStart
<1>5. ASSUME NEW j \in Jobs, Live(a, j)', j # i PROVE Live(a, j)
  BY <1>3, <1>4, <1>5 DEF Live
<1>6. ASSUME NEW j \in Jobs, Live(a, i)', Live(a, j), j # i PROVE FALSE
  <2>1. agent[a].slot # k /\ \A m \in Jobs : MayStart(a, m) => m = j
    BY <1>6 DEF Alone, AdmittedAlone
  <2>2. ~Runs(a, i)
    BY <1>1 DEF Runs
  <2>3. MayStart(a, i)
    BY <1>1, <1>3, <1>4, <1>6, <2>1, <2>2 DEF Live
  <2> QED
    BY <1>1, <1>6, <2>1, <2>3
<1>7. OneLive(a)'
  <2> SUFFICES ASSUME NEW j \in Jobs, NEW m \in Jobs, Live(a, j)', Live(a, m)', j # m PROVE FALSE
    BY DEF OneLive
  <2> QED
    BY <1>1, <1>5, <1>6 DEF Alone, OneLive
<1>8. ASSUME NEW l \in Slots, call'[<<a, l>>].pc = "lease"
      PROVE  /\ l # k /\ call[<<a, l>>].pc = "lease"
             /\ \A j \in Jobs : ~MayStart(a, j)
  <2>1. l # k /\ call[<<a, l>>].pc = "lease"
    BY <1>2, <1>8
  <2>2. \A m \in Slots : call[<<a, m>>].pc \in {"idle", "lease"}
    BY <2>1 DEF TwoRequests, AtServer
  <2>3. agent[a].pc = "idle"
    BY <2>1 DEF Alone, OneSpoilt, Unspoilt
  <2>4. ASSUME NEW j \in Jobs PROVE ~MayStart(a, j)
    BY <2>2, <2>3 DEF MayStart, Reports, Receives
  <2> QED
    BY <2>1, <2>4
<1>9. ASSUME NEW l \in Slots, NEW j \in Jobs, call'[<<a, l>>].pc = "lease", Live(a, j)'
      PROVE  agent'[a].slot # l /\ \A m \in Jobs : MayStart(a, m)' => m = j
  <2>1. l # k /\ call[<<a, l>>].pc = "lease" /\ \A m \in Jobs : ~MayStart(a, m)
    BY <1>8, <1>9
  <2>2. \A m \in Jobs : MayStart(a, m)' => m = i /\ agent[a].slot = k
    BY <1>4, <2>1
  <2>3. CASE j = i
    <3>1. MayStart(a, i)'
      BY <1>1, <1>3, <1>9, <2>3 DEF Live, Runs
    <3> QED
      BY <1>1, <2>1, <2>2, <2>3, <3>1
  <2>4. CASE j # i
    <3>1. Live(a, j)
      BY <1>5, <1>9, <2>4
    <3>2. agent[a].slot # l /\ agent[a].slot # k
      BY <2>1, <3>1 DEF Alone, AdmittedAlone
    <3> QED
      BY <2>2, <3>2
  <2> QED
    BY <2>3, <2>4
<1>10. OneSpoilt(a)'
  <2>1. ASSUME NEW l \in Slots, Unspoilt(a, l) PROVE Unspoilt(a, l)'
    BY <1>2, <2>1 DEF Unspoilt
  <2> QED
    BY <2>1 DEF Alone, OneSpoilt
<1> QED
  BY <1>7, <1>9, <1>10 DEF Alone, AdmittedAlone

LEMMA LeasingAlone ==
  ASSUME IInv, NEW a \in Agents, Alone(a), TwoRequests(a), NEW c \in Calls, LeaseJob(c)
  PROVE  Alone(a)'
<1>1. /\ status \in [Jobs -> Statuses] /\ holder \in [Jobs -> Holders] /\ call \in [Calls -> Call]
      /\ UNCHANGED raced /\ call[c].pc = "lease" /\ CallFits(c) /\ c # Control /\ call[c].by \in Agents
  BY CallInfo, LeaseRow DEF IInv, TypeOK, LeaseJob
<1>2. c[1] = call[c].by /\ c[2] \in Slots /\ c = <<call[c].by, c[2]>>
  BY <1>1, CallsApart DEF CallFits
<1>3. CASE Answer(c, NotAssigned) /\ UNCHANGED rows
  BY <1>1, <1>3, SameTable, NoLeaseAlone
<1>4. ASSUME NEW i \in Queued,
             status' = [status EXCEPT ![i] = "leased"],
             holder' = [holder EXCEPT ![i] = call[c].by],
             call' = [call EXCEPT ![c].pc = "secrets", ![c].job = i],
             UNCHANGED agent
      PROVE  Alone(a)'
  <2>1. CASE call[c].by = a
    BY <1>1, <1>2, <1>4, <2>1, LeaseAlone
  <2>2. CASE call[c].by # a
    <3>1. \A k \in Slots : call'[<<a, k>>] = call[<<a, k>>]
      BY <1>1, <1>2, <1>4, <2>2, CallsApart
    <3>2. HoldsNoMore(a)
      <4> SUFFICES ASSUME NEW j \in Jobs PROVE (Holds(a, j)' => Holds(a, j)) /\ (Runs(a, j)' => Live(a, j))
        BY DEF HoldsNoMore
      <4>1. i \in Jobs
        BY DEF Queued
      <4>2. CASE j = i
        BY <1>1, <1>4, <2>2, <4>1, <4>2 DEF Holds, Runs
      <4>3. CASE j # i
        BY <1>1, <1>4, <4>1, <4>3 DEF Holds, Runs, Live
      <4> QED
        BY <4>2, <4>3
    <3> QED
      BY <1>4, <3>1, <3>2, SameHands
  <2> QED
    BY <2>1, <2>2
<1> QED
  BY <1>3, <1>4 DEF LeaseJob

LEMMA RequeuedAlone ==
  ASSUME IInv, NEW a \in Agents, NEW j \in Jobs, Requeue(j), UNCHANGED raced
  PROVE  HoldsNoMore(a)
<1>1. status'[j] = "queued" /\ \A i \in Jobs \ {j} : status'[i] = status[i] /\ holder'[i] = holder[i]
  BY DEF IInv, TypeOK, Requeue
<1> QED
  BY <1>1, RowLeft

LEMMA SecretsAlone ==
  ASSUME IInv, NEW a \in Agents, Alone(a), TwoRequests(a), NEW c \in Calls,
         SecretsUnavailable(c) \/ SecretsMissing(c)
  PROVE  Alone(a)'
<1>1. /\ call[c] \in Call /\ CallFits(c) /\ UNCHANGED raced /\ call[c].pc = "secrets"
      /\ call[c].job \in Jobs
  BY CallInfo DEF SecretsUnavailable, SecretsMissing, CallFits
<1>2. CASE SecretsUnavailable(c)
  <2>1. UNCHANGED rows \/ Requeue(call[c].job)
    BY <1>2 DEF SecretsUnavailable
  <2>2. HoldsNoMore(a)
    BY <1>1, <2>1, SameTable, RequeuedAlone
  <2> QED
    BY <1>2, <2>2, NoLeaseAlone DEF SecretsUnavailable
<1>3. CASE SecretsMissing(c)
  <2> DEFINE n == [call[c] EXCEPT !.pc = "read", !.report = "failed"]
  <2>1. n.pc = "read" /\ n.report = "failed"
    BY <1>1 DEF Call
  <2>2. call' = [call EXCEPT ![c] = n] /\ UNCHANGED <<agent, rows>>
    BY <1>3, CallInfo DEF SecretsMissing
  <2> HIDE DEF n
  <2> QED
    BY <1>1, <2>1, <2>2, SameTable, CallGoesOn
<1> QED
  BY <1>2, <1>3

LEMMA ReadingAlone ==
  ASSUME IInv, NEW a \in Agents, Alone(a), TwoRequests(a), NEW c \in Calls, ReadRow(c)
  PROVE  Alone(a)'
<1>1. call[c] \in Call /\ call[c].pc = "read" /\ HoldsNoMore(a)
  BY CallInfo, SameTable DEF ReadRow
<1>2. CASE Reject(c) \/ Accept(c)
  BY <1>1, <1>2, RejectedAlone, ReportsGoOn
<1>3. CASE call' = [call EXCEPT ![c].pc = "write", ![c].seen = holder[call[c].job]] /\ UNCHANGED agent
  <2> DEFINE n == [call[c] EXCEPT !.pc = "write", !.seen = holder[call[c].job]]
  <2>1. n.pc = "write" /\ n.report = call[c].report /\ n.job = call[c].job
    BY <1>1 DEF Call
  <2>2. call' = [call EXCEPT ![c] = n]
    BY <1>3, CallInfo
  <2> HIDE DEF n
  <2> QED
    BY <1>1, <1>3, <2>1, <2>2, CallGoesOn
<1> QED
  BY <1>2, <1>3 DEF ReadRow

(* The write of a start makes a job run only for whoever had it to start.  *)
LEMMA WritingAlone ==
  ASSUME IInv, NEW a \in Agents, Alone(a), TwoRequests(a), NEW c \in Calls, WriteRow(c)
  PROVE  Alone(a)'
<1>1. /\ call[c] \in Call /\ CallFits(c) /\ call[c].pc = "write" /\ UNCHANGED holder
      /\ status \in [Jobs -> Statuses] /\ holder \in [Jobs -> Holders] /\ call[c].job \in Jobs
      /\ RowFits(call[c].job)
  BY CallInfo DEF WriteRow, CallFits, IInv, Fits, TypeOK
<1>2. HoldsNoMore(a)
  <2>1. CASE UNCHANGED <<status, raced>>
    BY <1>1, <2>1, SameTable DEF rows
  <2>2. CASE /\ Writable(call[c].job)
             /\ status' = [status EXCEPT ![call[c].job] = call[c].report]
             /\ raced' = IF holder[call[c].job] = call[c].seen THEN raced ELSE raced \cup {call[c].job}
    <3>1. /\ status'[call[c].job] = call[c].report /\ raced \subseteq raced'
          /\ \A j \in Jobs \ {call[c].job} : status'[j] = status[j] /\ holder'[j] = holder[j]
      BY <1>1, <2>2
    <3>2. CASE call[c].report # "running"
      <4>1. call[c].report # "leased"
        BY <1>1 DEF Call
      <4> QED
        BY <1>1, <3>1, <3>2, <4>1, RowLeft
    <3>3. CASE call[c].report = "running"
      <4> SUFFICES ASSUME NEW j \in Jobs PROVE (Holds(a, j)' => Holds(a, j)) /\ (Runs(a, j)' => Live(a, j))
        BY DEF HoldsNoMore
      <4>1. CASE j # call[c].job
        BY <3>1, <4>1 DEF Holds, Runs, Live
      <4>2. CASE j = call[c].job
        <5>1. Holds(a, j)' => Holds(a, j)
          BY <1>1, <2>2, <4>2, AgentsAssumption DEF Holds, RowFits, Writable, Active
        <5>2. ASSUME Runs(a, j)' PROVE Live(a, j)
          <6>1. holder[j] = a /\ call[c].seen = a
            BY <1>1, <2>2, <4>2, <5>2 DEF Runs
          <6>2. c # Control /\ call[c].by = a
            BY <1>1, <3>3, <6>1, AgentsAssumption DEF CallFits
          <6>3. c[2] \in Slots /\ c = <<a, c[2]>>
            BY <1>1, <6>2, CallsApart DEF CallFits
          <6>4. Reports(a, c[2], j)
            BY <1>1, <3>3, <4>2, <6>3 DEF Reports
          <6>5. Holds(a, j)'
            BY <5>2 DEF Holds, Runs
          <6> QED
            BY <5>1, <6>3, <6>4, <6>5 DEF Live, MayStart
        <5> QED
          BY <5>1, <5>2
      <4> QED
        BY <4>1, <4>2
    <3> QED
      BY <3>2, <3>3
  <2> QED
    BY <2>1, <2>2 DEF WriteRow
<1> QED
  BY <1>2, RejectedAlone, ReportsGoOn DEF WriteRow

(* The steps of users and of maintenance leave the agents' calls alone.    *)
LEMMA OthersAlone ==
  ASSUME IInv, NEW a \in Agents, Alone(a),
         \/ \E j \in Jobs : Enqueue(j) \/ Cancel(j) \/ Delete(j) \/ RequeueStale(j) \/ Reap(j)
         \/ \E b \in Agents : Deactivate(b) \/ Activate(b)
         \/ ListJobsOfAgent
  PROVE  Alone(a)'
<1>1. /\ status \in [Jobs -> Statuses] /\ holder \in [Jobs -> Holders] /\ call \in [Calls -> Call]
      /\ \A k \in Slots : <<a, k>> \in Calls /\ <<a, k>> # Control
  BY CallsApart DEF IInv, TypeOK
<1>2. agent'[a] = agent[a] /\ UNCHANGED raced
  BY DEF Enqueue, Cancel, Delete, RequeueStale, Reap, Deactivate, Activate, ListJobsOfAgent
<1>3. \A k \in Slots : call'[<<a, k>>] = call[<<a, k>>]
  <2>1. ASSUME NEW n, call' = [call EXCEPT ![Control] = n]
        PROVE  \A k \in Slots : call'[<<a, k>>] = call[<<a, k>>]
    BY <1>1, <2>1
  <2>2. CASE \E j \in Jobs : Cancel(j)
    BY <2>1, <2>2 DEF Cancel
  <2>3. CASE \E b \in Agents : Deactivate(b)
    BY <2>1, <2>3 DEF Deactivate
  <2>4. CASE ListJobsOfAgent
    BY <1>1, <2>4 DEF ListJobsOfAgent
  <2>5. CASE UNCHANGED call
    BY <2>5
  <2> QED
    BY <2>2, <2>3, <2>4, <2>5 DEF Enqueue, Delete, RequeueStale, Reap, Activate
<1>4. HoldsNoMore(a)
  <2>1. CASE UNCHANGED rows
    BY <1>2, <2>1, SameTable
  <2>2. ASSUME NEW j \in Jobs, Enqueue(j) \/ Reap(j) PROVE HoldsNoMore(a)
    <3>1. /\ status'[j] \in {"queued", "failed"} /\ UNCHANGED holder
          /\ \A i \in Jobs \ {j} : status'[i] = status[i]
      BY <1>1, <2>2 DEF Enqueue, Reap
    <3> QED
      BY <1>2, <3>1, RowLeft
  <2>3. ASSUME NEW j \in Jobs, Delete(j) PROVE HoldsNoMore(a)
    <3>1. status'[j] = "deleted" /\ \A i \in Jobs \ {j} : status'[i] = status[i] /\ holder'[i] = holder[i]
      BY <1>1, <2>3 DEF Delete
    <3> QED
      BY <1>2, <3>1, RowLeft
  <2>4. ASSUME NEW j \in Jobs, RequeueStale(j) PROVE HoldsNoMore(a)
    BY <1>2, <2>4, RequeuedAlone DEF RequeueStale
  <2> QED
    BY <2>1, <2>2, <2>3, <2>4 DEF Cancel, Deactivate, Activate, ListJobsOfAgent
<1> QED
  BY <1>2, <1>3, <1>4, SameHands

LEMMA RestartAlone ==
  ASSUME IInv, NEW a \in Agents, Alone(a), RestartServer
  PROVE  Alone(a)'
<1>1. /\ \A k \in Slots : call'[<<a, k>>] = IdleCall
      /\ IdleCall.pc = "idle" /\ agent[a] \in Agent
  BY CallsApart DEF RestartServer, IdleCall, IInv, TypeOK
<1>2. HoldsNoMore(a)
  BY SameTable DEF RestartServer
<1>3. agent'[a] = agent[a] \/ AgentFailure(a, agent'[a])
  <2>1. agent'[a] \in IF agent[a].slot = 0 THEN {agent[a]} ELSE AfterFailure(agent[a])
    BY DEF RestartServer
  <2> QED
    BY <1>1, <2>1, FailureTurns
<1>4. ASSUME NEW j \in Jobs, MayStart(a, j)' PROVE MayStart(a, j)
  <2>1. agent'[a].pc \in {"starting", "executing"} /\ agent'[a].job = j
    BY <1>1, <1>4 DEF MayStart, Reports, Receives
  <2> QED
    BY <1>3, <2>1 DEF AgentFailure, MayStart
<1>5. OneSpoilt(a)'
  BY <1>1, <1>3 DEF AgentFailure, Alone, OneSpoilt, Unspoilt
<1> QED
  BY <1>1, <1>2, <1>4, <1>5, NothingNew
-----------------------------------------------------------------------------
LEMMA StepAlone ==
  ASSUME IInv, [Next]_vars, NEW a \in Agents, Alone(a), TwoRequests(a)
  PROVE  Alone(a)'
<1>1. ASSUME NEW b \in Agents,
             \/ AgentStep(b) \/ StopScript(b) \/ ReportPhase(b) \/ EndScript(b)
             \/ LoseAnswer(b) \/ RestartAgent(b)
      PROVE  Alone(a)'
  BY <1>1, AgentAlone
<1>2. ASSUME NEW c \in Calls, HandlerStep(c) \/ SecretsUnavailable(c) \/ SecretsMissing(c)
      PROVE  Alone(a)'
  <2>1. CASE ResolveSecrets(c)
    <3>1. HoldsNoMore(a)
      BY <2>1, SameTable DEF ResolveSecrets
    <3> QED
      BY <2>1, <3>1, JobArrives
  <2> QED
    BY <1>2, <2>1, AdmissionAlone, LeasingAlone, SecretsAlone, ReadingAlone, WritingAlone DEF HandlerStep
<1>3. CASE UNCHANGED vars
  <2>1. UNCHANGED <<rows, call, agent, raced>>
    BY <1>3 DEF vars, rows
  <2> QED
    BY <2>1, SameTable, SameHands
<1> QED
  BY <1>1, <1>2, <1>3, OthersAlone, RestartAlone DEF Next

(* An agent that never had three requests at the server has no more than   *)
(* two there: only a request of its own adds to them, and is counted.      *)
LEMMA RequestCounted ==
  ASSUME IInv, NEW a \in Agents, NEW b \in Agents, NEW n, Send(b, n), a \notin crowded',
         a \notin crowded => TwoRequests(a)
  PROVE  a \notin crowded /\ TwoRequests(a)'
<1>1. PICK k \in Slots : call' = [call EXCEPT ![<<b, k>>] = n]
  BY DEF Send
<1>2. a \notin crowded /\ TwoRequests(a)
  BY DEF Send
<1>3. /\ \A l \in Slots : <<a, l>> \in Calls
      /\ call \in [Calls -> Call]
  BY CallsApart DEF IInv, TypeOK
<1>4. CASE a # b
  BY <1>1, <1>2, <1>3, <1>4 DEF TwoRequests, AtServer
<1>5. CASE a = b
  <2>1. \A l, m \in Slots : AtServer(a, l) /\ AtServer(a, m) => l = m
    BY <1>5 DEF Send
  <2>2. \A l \in Slots \ {k} : AtServer(a, l)' => AtServer(a, l)
    BY <1>1, <1>3, <1>5 DEF AtServer
  <2> QED
    BY <1>2, <2>1, <2>2 DEF TwoRequests
<1> QED
  BY <1>4, <1>5

LEMMA NoMoreRequests ==
  ASSUME NEW a \in Agents, UNCHANGED crowded, \A k \in Slots : AtServer(a, k)' => AtServer(a, k),
         a \notin crowded', a \notin crowded => TwoRequests(a)
  PROVE  a \notin crowded /\ TwoRequests(a)'
BY DEF TwoRequests

LEMMA RequestsCounted ==
  ASSUME IInv, [Next]_vars, NEW a \in Agents, a \notin crowded', a \notin crowded => TwoRequests(a)
  PROVE  a \notin crowded /\ TwoRequests(a)'
<1>1. /\ call \in [Calls -> Call] /\ Control \in Calls
      /\ \A k \in Slots : <<a, k>> \in Calls /\ <<a, k>> # Control
  BY CallsApart DEF IInv, TypeOK
<1>2. CASE UNCHANGED <<call, crowded>>
  BY <1>2, NoMoreRequests DEF AtServer
<1>3. ASSUME NEW b \in Agents, AgentStep(b) \/ ReportPhase(b)
      PROVE  a \notin crowded /\ TwoRequests(a)'
  <2>1. \E n : Send(b, n)
    BY <1>3 DEF AgentStep, ReportPhase, RequestLease, ReportStart, ReportEnd
  <2> QED
    BY <2>1, RequestCounted
<1>4. ASSUME NEW c \in Calls, UNCHANGED crowded, c = Control \/ call[c].pc # "idle",
             \A d \in Calls \ {c} : call'[d] = call[d]
      PROVE  a \notin crowded /\ TwoRequests(a)'
  <2>1. \A k \in Slots : AtServer(a, k)' => AtServer(a, k)
    BY <1>1, <1>4 DEF AtServer
  <2> QED
    BY <1>4, <2>1, NoMoreRequests
<1>5. ASSUME NEW c \in Calls, HandlerStep(c) \/ SecretsUnavailable(c) \/ SecretsMissing(c)
      PROVE  a \notin crowded /\ TwoRequests(a)'
  <2>1. UNCHANGED crowded /\ call[c].pc # "idle"
    BY <1>5 DEF HandlerStep, CheckAdmission, CheckNoActiveJob, LeaseJob, ResolveSecrets, ReadRow, WriteRow,
         SecretsUnavailable, SecretsMissing
  <2>2. CASE \E n : call' = [call EXCEPT ![c] = n]
    BY <1>1, <1>4, <2>1, <2>2
  <2>3. \A d \in Calls \ {c} : call'[d] = call[d]
    BY <1>1, <1>5 DEF HandlerStep, CheckAdmission, CheckNoActiveJob, LeaseJob, ResolveSecrets, ReadRow,
         WriteRow, SecretsUnavailable, SecretsMissing, Answer, Accept, Reject
  <2> QED
    BY <1>4, <2>1, <2>3
<1>6. ASSUME \/ ListJobsOfAgent
             \/ \E j \in Jobs : Cancel(j)
             \/ \E b \in Agents : Deactivate(b)
      PROVE  a \notin crowded /\ TwoRequests(a)'
  <2>1. UNCHANGED crowded /\ \A d \in Calls \ {Control} : call'[d] = call[d]
    BY <1>1, <1>6 DEF ListJobsOfAgent, Cancel, Deactivate
  <2> QED
    BY <1>1, <1>4, <2>1
<1>7. CASE RestartServer
  <2>1. UNCHANGED crowded /\ \A k \in Slots : ~AtServer(a, k)'
    BY <1>1, <1>7 DEF RestartServer, AtServer, IdleCall
  <2> QED
    BY <2>1, NoMoreRequests
<1>8. ASSUME \/ \E b \in Agents : \/ StopScript(b) \/ EndScript(b) \/ LoseAnswer(b)
                                  \/ RestartAgent(b) \/ Activate(b)
             \/ \E j \in Jobs : Enqueue(j) \/ Delete(j) \/ RequeueStale(j) \/ Reap(j)
             \/ UNCHANGED vars
      PROVE  UNCHANGED <<call, crowded>>
  BY <1>8 DEF StopScript, TimeOutScript, NoticeServerTerminal, EndScript, LoseAnswer, RestartAgent, Activate,
       Enqueue, Delete, RequeueStale, Reap, vars
<1> QED
  BY <1>2, <1>3, <1>5, <1>6, <1>7, <1>8 DEF Next

LEMMA AllAlone == Spec => [](\A a \in Agents : a \notin crowded => TwoRequests(a) /\ Alone(a))
<1> DEFINE Fine == \A a \in Agents : a \notin crowded => TwoRequests(a) /\ Alone(a)
<1>1. Init => Fine
  <2> SUFFICES ASSUME Init, NEW a \in Agents PROVE TwoRequests(a) /\ Alone(a)
    OBVIOUS
  <2>1. TwoRequests(a)
    BY CallsApart DEF Init, TwoRequests, AtServer, IdleCall
  <2>2. Alone(a)
    BY CallsApart DEF Init, Alone, OneLive, AdmittedAlone, OneSpoilt, Live, Runs, Holds, IdleCall, IdleAgent
  <2> QED
    BY <2>1, <2>2
<1>2. Fine /\ IInv /\ [Next]_vars => Fine'
  BY StepAlone, RequestsCounted
<1> QED
  BY <1>1, <1>2, Fitting, PTL DEF Spec

(* Until three requests of an agent were at the server at a time, it has   *)
(* at most one running job, whatever it gave up or was told late: the      *)
(* server's check for an active job (CheckNoActiveJob) is not atomic with  *)
(* the lease, and an agent's own timeouts leave handlers behind.           *)
THEOREM RunsOne == Spec => []OneRunningPerAgent
<1>1. ASSUME \A a \in Agents : a \notin crowded => TwoRequests(a) /\ Alone(a)
      PROVE  OneRunningPerAgent
  <2> SUFFICES ASSUME NEW a \in Agents \ crowded
               PROVE  Cardinality({j \in Jobs \ raced : status[j] = "running" /\ holder[j] = a}) <= 1
    BY DEF OneRunningPerAgent
  <2> DEFINE running == {j \in Jobs \ raced : status[j] = "running" /\ holder[j] = a}
  <2>1. \A i, j \in running : i = j
    BY <1>1 DEF Alone, OneLive, Live, Runs
  <2> HIDE DEF running
  <2>2. CASE running = {}
    BY <2>2, FS_EmptySet DEF running
  <2>3. ASSUME NEW i \in running PROVE Cardinality(running) <= 1
    <3>1. running = {i}
      BY <2>1
    <3> QED
      BY <3>1, FS_Singleton
  <2> QED
    BY <2>2, <2>3 DEF running
<1> QED
  BY <1>1, AllAlone, PTL
-----------------------------------------------------------------------------
(* The life of a job. *)
LEMMA LifeOfRow ==
  ASSUME IInv, NEW j \in Jobs, NEW s \in Statuses, status' = [status EXCEPT ![j] = s], UNCHANGED holder,
         \/ status[j] \in Active /\ s \in Terminal
         \/ status[j] \in Active /\ s = "running"
  PROVE  [Lifecycle!Next]_(Lifecycle!vars)
<1>1. status \in [Jobs -> Statuses]
  BY DEF IInv, TypeOK
<1>2. CASE s \in Terminal
  BY <1>2 DEF Lifecycle!Next, Lifecycle!End, Terminal, Active
<1>3. CASE s = "running" /\ status[j] # "running"
  BY <1>3 DEF Lifecycle!Next, Lifecycle!Start, Terminal, Active
<1>4. CASE s = "running" /\ status[j] = "running"
  BY <1>1, <1>4 DEF Lifecycle!vars
<1> QED
  BY <1>2, <1>3, <1>4

LEMMA LifeOfLease ==
  ASSUME IInv, NEW j \in Jobs, status[j] = "leased", Requeue(j)
  PROVE  Lifecycle!Next
<1>1. holder[j] # NoAgent
  BY AgentsAssumption DEF IInv, Fits, RowFits
<1> QED
  BY <1>1 DEF Lifecycle!Next, Lifecycle!LoseLease, Requeue

LEMMA LifeOfLeased ==
  ASSUME IInv, NEW c \in Calls, LeaseJob(c)
  PROVE  [Lifecycle!Next]_(Lifecycle!vars)
<1>1. CASE UNCHANGED rows
  BY <1>1 DEF rows, Lifecycle!vars
<1>2. ASSUME NEW j \in Queued, status' = [status EXCEPT ![j] = "leased"],
             holder' = [holder EXCEPT ![j] = call[c].by]
      PROVE  Lifecycle!Next
  <2>1. j \in Jobs /\ status[j] = "queued" /\ holder[j] = NoAgent
    BY DEF Queued, IInv, Fits, RowFits
  <2>2. call[c].by \in Agents
    BY LeaseRow
  <2> QED
    BY <1>2, <2>1, <2>2 DEF Lifecycle!Next, Lifecycle!Lease
<1> QED
  BY <1>1, <1>2 DEF LeaseJob

LEMMA LifeOfDeleted ==
  ASSUME IInv, NEW j \in Jobs, Delete(j)
  PROVE  Lifecycle!Next
<1>1. status \in [Jobs -> Statuses] /\ holder \in [Jobs -> Holders]
  BY DEF IInv, TypeOK
<1>2. status' = [k \in Jobs |-> IF k \in {j} THEN "deleted" ELSE status[k]]
        /\ holder' = [k \in Jobs |-> IF k \in {j} THEN NoAgent ELSE holder[k]]
  BY <1>1 DEF Delete
<1>3. \/ \A k \in {j} : status[k] \in {"queued", "leased"}
      \/ \A k \in {j} : status[k] \in {"succeeded", "failed"}
  BY DEF Delete, Terminal
<1>4. Lifecycle!Remove({j})
  BY <1>2, <1>3 DEF Lifecycle!Remove
<1> QED
  BY <1>4 DEF Lifecycle!Next

LEMMA LifeOfNew ==
  ASSUME IInv, NEW j \in Jobs, Enqueue(j)
  PROVE  Lifecycle!Next
<1>1. status \in [Jobs -> Statuses]
  BY DEF IInv, TypeOK
<1>2. Lifecycle!Create({j})
  BY <1>1 DEF Lifecycle!Create, Enqueue
<1> QED
  BY <1>2 DEF Lifecycle!Next

LEMMA LifeStep ==
  ASSUME IInv, [Next]_vars
  PROVE  [Lifecycle!Next]_(Lifecycle!vars)
<1>1. CASE UNCHANGED rows
  BY <1>1 DEF rows, Lifecycle!vars
<1>2. ASSUME NEW a \in Agents,
             \/ AgentStep(a) \/ StopScript(a) \/ ReportPhase(a) \/ EndScript(a)
             \/ LoseAnswer(a) \/ RestartAgent(a) \/ Deactivate(a) \/ Activate(a)
      PROVE  UNCHANGED rows
  BY <1>2 DEF AgentStep, StopScript, RequestLease, ReportStart, ReportPhase, ReportEnd,
       EndScript, TimeOutScript, NoticeServerTerminal, LoseAnswer, RestartAgent, Deactivate, Activate
<1>3. ASSUME NEW c \in Calls, HandlerStep(c) \/ SecretsUnavailable(c) \/ SecretsMissing(c)
      PROVE  [Lifecycle!Next]_(Lifecycle!vars)
  <2>1. CASE \/ CheckAdmission(c) \/ CheckNoActiveJob(c) \/ ResolveSecrets(c)
             \/ SecretsMissing(c) \/ ReadRow(c)
    BY <1>1, <2>1 DEF CheckAdmission, CheckNoActiveJob, ResolveSecrets, SecretsMissing, ReadRow
  <2>2. CASE LeaseJob(c)
    BY <2>2, LifeOfLeased
  <2>3. CASE SecretsUnavailable(c)
    <3>1. call[c].job \in Jobs
      BY <2>3, CallInfo DEF SecretsUnavailable, CallFits
    <3> QED
      BY <1>1, <2>3, <3>1, LifeOfLease DEF SecretsUnavailable
  <2>4. CASE WriteRow(c)
    <3>1. /\ call[c].job \in Jobs /\ call[c].report \in Terminal \cup {"running"}
          /\ call[c].report \in Statuses
      BY <2>4, CallInfo DEF WriteRow, CallFits, Call, Terminal, Statuses, Active
    <3> QED
      BY <1>1, <2>4, <3>1, LifeOfRow DEF WriteRow, Writable, rows
  <2> QED
    BY <1>3, <2>1, <2>2, <2>3, <2>4 DEF HandlerStep
<1>4. ASSUME NEW j \in Jobs, Enqueue(j) \/ Cancel(j) \/ Delete(j) \/ RequeueStale(j) \/ Reap(j)
      PROVE  [Lifecycle!Next]_(Lifecycle!vars)
  <2>1. CASE Cancel(j)
    BY <1>1, <2>1 DEF Cancel
  <2>2. CASE RequeueStale(j)
    BY <2>2, LifeOfLease DEF RequeueStale
  <2>3. CASE Reap(j)
    BY <2>3, LifeOfRow DEF Reap, Reapable, Statuses, Active, Terminal
  <2> QED
    BY <1>4, <2>1, <2>2, <2>3, LifeOfNew, LifeOfDeleted
<1>5. ListJobsOfAgent \/ RestartServer \/ UNCHANGED vars => UNCHANGED rows
  BY DEF ListJobsOfAgent, RestartServer, vars, rows
<1> QED
  BY <1>1, <1>2, <1>3, <1>4, <1>5 DEF Next

(* Agents, handlers, users and maintenance drive every job through the     *)
(* life the queue promises, as the store does on its own (JobStore).       *)
THEOREM Refines == Spec => ImplementsLifecycle
<1>1. Init => Lifecycle!Init
  BY DEF Init, Lifecycle!Init
<1>2. IInv /\ [Next]_vars => [Lifecycle!Next]_(Lifecycle!vars)
  BY LifeStep
<1> QED
  BY <1>1, <1>2, Fitting, PTL DEF Spec, Lifecycle!Spec, ImplementsLifecycle
=============================================================================
