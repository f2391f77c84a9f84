--------------------------- MODULE NativeRecovery ---------------------------
(***************************************************************************)
(* The native client's side of a command: the coordinator of operations,   *)
(* the journal that outlives the process, the session with the server, and *)
(* the reconciliation of the journal with the server's receipts.  It       *)
(* extends the module of those receipts, CommandReceipts: the client's     *)
(* requests are some of the server's calls, its operations some of the     *)
(* keys.                                                                   *)
(*                                                                         *)
(* An operation is one accepted or refused press of a button for a         *)
(* mutation; its id is also its idempotency key.  Goroutines: the user     *)
(* interface, which submits; one for each operation; the controller, which *)
(* owns the session and applies plans; and one that inspects the journal   *)
(* and changes nothing.  There is one server.                              *)
(*                                                                         *)
(* A definition named Slip... is the next one with a plausible mistake in  *)
(* it, put in its place to see that a property notices.                    *)
(***************************************************************************)
EXTENDS CommandReceipts, FiniteSets

CONSTANTS NumOps,          \* bound: operations, numbered in the order of their submission
          Safe,            \* those the action catalog calls safe to repeat
          Fingerprint, Scope,    \* fingerprint and conflict scope of each
          Workers,         \* operations that run at a time
          Payload,         \* what this client's requests carry
          MaxSessions, MaxLosses, MaxQuits,   \* bounds
          MaxEnds          \* bound: restarts of the server and quits together

Ops == 1 .. NumOps

ASSUME OpsAssumption == NumOps \in Nat /\ Safe \subseteq Ops /\ Workers \in Nat \ {0}
ASSUME KeysAssumption == Ops \subseteq Keys /\ Payload \in Payloads
ASSUME BoundsAssumption == {MaxSessions, MaxLosses, MaxQuits, MaxEnds} \subseteq Nat

VARIABLES pressed,     \* operations the user has asked for
          submitting,  \* one that has passed the test for a connection, or None
          mem,         \* state of each operation in the coordinator
          call,        \* the request it waits for
          cancelled,   \* operations whose context is cancelled
          told,        \* what the user was shown of each last; "silence" if it ended and
                       \* was dropped without a word
          journal,     \* native-operations.json; an entry may lack the server's id
          link,        \* the controller's connection
          session,     \* number of the last session
          sentOn,      \* session of an operation's request
          alive,       \* TRUE while the server still has that session
          broker,      \* TRUE while operations are given the session's client
          suspended,   \* suspendedMutations
          pending,     \* reconcilePending
          recon,       \* the reconciliation in progress
          before, looked, \* history: journaled for a server that is known when the
                       \* session began; looked up in it
          losses, quits

server  == vars
ops     == <<mem, call, cancelled, told, journal, sentOn>>
ui      == <<pressed, submitting>>
control == <<link, session, alive, broker, suspended, pending, recon, before, looked>>
bounded == <<losses, quits>>
recoveryVars == <<server, ops, ui, control, bounded>>
-----------------------------------------------------------------------------
Ended == {"succeeded", "failed", "cancelled", "unknown"}

Active(o) == mem[o] \in {"queued", "running", "sent"}

NoRecon == [pc |-> "idle", todo |-> {}, delete |-> {}, restore |-> {}]

RecoveryInit ==
  /\ Init
  /\ pressed = {} /\ submitting = None
  /\ mem = [o \in Ops |-> "none"]
  /\ call = [o \in Ops |-> None]
  /\ cancelled = {}
  /\ told = [o \in Ops |-> "nothing"]
  /\ journal = [o \in Ops |-> "none"]
  /\ link = "down" /\ session = 0 /\ sentOn = [o \in Ops |-> 0]
  /\ alive = FALSE /\ broker = FALSE
  /\ suspended = {} /\ pending = FALSE /\ recon = NoRecon
  /\ before = {} /\ looked = {}
  /\ losses = 0 /\ quits = 0

(* nativeOperationJournal.Put: the entry is bound to the server that the   *)
(* client is connected to, the first time that it is.                      *)
Put(o) ==
  journal' = [journal EXCEPT ![o] = IF @ = "bound" \/ broker THEN "bound" ELSE "unbound"]
-----------------------------------------------------------------------------
(* The user interface.  It tests for a connection and then submits, and    *)
(* the controller may lose the connection in between.                      *)
Press(o) ==
  /\ submitting = None
  /\ o \notin pressed /\ 1 .. o - 1 \subseteq pressed
  /\ broker
  /\ submitting' = o
  /\ pressed' = pressed \cup {o}
  /\ UNCHANGED <<server, ops, control, bounded>>

Refused(o) == \E x \in Ops : Active(x) /\ (Fingerprint[x] = Fingerprint[o] \/ Scope[x] = Scope[o])

(* Coordinator.Submit, of a mutation. *)
Submit ==
  /\ submitting # None
  /\ LET o == submitting IN
     \/ Refused(o) /\ UNCHANGED ops
     \/ /\ ~Refused(o)
        /\ Put(o)
        /\ mem' = [mem EXCEPT ![o] = "queued"]
        /\ UNCHANGED <<call, cancelled, told, sentOn>>
  /\ submitting' = None
  /\ UNCHANGED <<server, pressed, control, bounded>>
-----------------------------------------------------------------------------
SlipKept(s) == FALSE   \* an ended operation is done with

Kept(s) == s = "unknown"   \* outcomes with which an operation stays in the journal

(* Coordinator.finish *)
Finish(o, s) ==
  /\ mem' = [mem EXCEPT ![o] = s]
  /\ call' = [call EXCEPT ![o] = None]
  /\ IF Kept(s) THEN Put(o) ELSE journal' = [journal EXCEPT ![o] = "none"]
  /\ UNCHANGED <<cancelled, told, sentOn>>

(* Coordinator.execute gets a worker, or notices first that it is cancelled. *)
Run(o) ==
  /\ mem[o] = "queued"
  /\ Cardinality({x \in Ops : mem[x] \in {"running", "sent"}}) < Workers
  /\ mem' = [mem EXCEPT ![o] = "running"]
  /\ Put(o)
  /\ UNCHANGED <<server, call, cancelled, told, sentOn, ui, control, bounded>>

CancelQueued(o) ==
  /\ mem[o] = "queued" /\ o \in cancelled
  /\ Finish(o, "cancelled")
  /\ UNCHANGED <<server, ui, control, bounded>>

(* The executor waits for the broker's client, and sends. *)
Send(o, c) ==
  /\ mem[o] = "running"
  /\ broker /\ alive
  /\ Call(c, o, Payload)
  /\ mem' = [mem EXCEPT ![o] = "sent"]
  /\ call' = [call EXCEPT ![o] = c]
  /\ sentOn' = [sentOn EXCEPT ![o] = session]
  /\ UNCHANGED <<cancelled, told, journal, ui, control, bounded>>

FailToSend(o) ==
  /\ mem[o] = "running"
  /\ broker \/ o \in cancelled
  /\ Finish(o, "unknown")
  /\ UNCHANGED <<server, ui, control, bounded>>

SlipReported(a) == IF a.kind = "error" THEN "failed" ELSE "succeeded"  \* no other answer is one

(* nativeOperationFailure: every error that the server returns is a        *)
(* failure of the operation, the pending receipt and the unknown outcome   *)
(* included.                                                               *)
Reported(a) == IF a.kind = "result" THEN "succeeded" ELSE "failed"

Receive(o) ==
  /\ mem[o] = "sent"
  /\ alive /\ sentOn[o] = session
  /\ pc[call[o]] = "done"
  /\ Finish(o, Reported(answer[call[o]]))
  /\ UNCHANGED <<server, ui, control, bounded>>

(* The session ends, the operation is cancelled or its time is up.         *)
LoseAnswer(o) ==
  /\ mem[o] = "sent"
  /\ Finish(o, "unknown")
  /\ UNCHANGED <<server, ui, control, bounded>>
-----------------------------------------------------------------------------
(* The controller.  startReconciliation: nothing unless all the mutations  *)
(* that a suspension cancelled have ended.                                 *)
MayReconcile(wanted, waitingFor, up) ==
  wanted /\ recon.pc = "idle" /\ up /\ waitingFor = {}

SlipReconAfterChange(rest) == recon

ReconAfterChange(rest) ==
  IF MayReconcile(pending, rest, link = "up") THEN [NoRecon EXCEPT !.pc = "read"] ELSE recon

Idling == recon.pc # "restore"   \* the controller is not in the middle of a plan

(* applyOperationOutcome: a cancelled operation is passed over, and so is  *)
(* an unknown outcome of one that the suspension cancelled.                *)
Shown(o) ==
  IF mem[o] \notin Ended \/ (mem[o] = "unknown" /\ o \in suspended) THEN told[o]
  ELSE IF mem[o] = "cancelled" THEN "silence" ELSE mem[o]

(* coordinator.Changed: show what has ended, forget it. *)
HandleChanged ==
  /\ Idling
  /\ \E o \in Ops : mem[o] \in Ended
  /\ mem' = [o \in Ops |-> IF mem[o] \in Ended THEN "none" ELSE mem[o]]
  /\ told' = [o \in Ops |-> Shown(o)]
  /\ suspended' = {o \in suspended : mem[o] \notin Ended}
  /\ recon' = ReconAfterChange(suspended')
  /\ UNCHANGED <<server, call, cancelled, journal, sentOn, ui, link, session, alive, broker,
                 pending, before, looked, bounded>>

Connect ==
  /\ link = "down"
  /\ session < MaxSessions
  /\ link' = "up" /\ alive' = TRUE /\ session' = session + 1
  /\ pending' = TRUE
  /\ recon' = IF MayReconcile(TRUE, suspended, TRUE) THEN [NoRecon EXCEPT !.pc = "read"] ELSE recon
  /\ before' = {o \in Ops : journal[o] = "bound"} /\ looked' = {}
  /\ UNCHANGED <<server, ops, ui, broker, suspended, bounded>>

SlipBrokerAfterLoss == broker   \* the broker keeps the client of the old session

BrokerAfterLoss == FALSE

(* clearConnection, with what follows it: reconnecting, or waiting for the *)
(* user.                                                                   *)
ClearConnection(next) ==
  /\ link' = next
  /\ alive' = FALSE
  /\ broker' = BrokerAfterLoss
  /\ pending' = FALSE
  /\ recon' = NoRecon
  /\ UNCHANGED <<session, before, looked>>

LoseConnection ==
  /\ link = "up"
  /\ Idling
  /\ alive => losses < MaxLosses
  /\ losses' = IF alive THEN losses + 1 ELSE losses
  /\ ClearConnection("down")
  /\ UNCHANGED <<server, ops, ui, suspended, quits>>

(* On iOS: the app goes to the background, and returns. *)
Suspend ==
  /\ link # "suspended"
  /\ Idling
  /\ suspended' = suspended \cup {o \in Ops : Active(o)}
  /\ cancelled' = cancelled \cup {o \in Ops : Active(o)}
  /\ ClearConnection("suspended")
  /\ UNCHANGED <<server, mem, call, told, journal, sentOn, ui, bounded>>

Resume ==
  /\ link \in {"suspended", "paused"}   \* ... or the user retries
  /\ link' = "down"
  /\ UNCHANGED <<server, ops, ui, session, alive, broker, suspended, pending, recon, before, looked,
                 bounded>>
-----------------------------------------------------------------------------
(* nativeOperationJournal.inspect *)
ReadJournal ==
  /\ recon.pc = "read"
  /\ recon' = [recon EXCEPT !.pc = "look", !.todo = {o \in Ops : journal[o] # "none"}]
  /\ UNCHANGED <<server, ops, ui, link, session, alive, broker, suspended, pending, before, looked,
                 bounded>>

Repeatable(o) ==
  /\ o \in Safe
  /\ \A x \in recon.restore : Fingerprint[x] # Fingerprint[o] /\ Scope[x] # Scope[o]

(* The next entry: one that lacks the server's id is counted as unknown,   *)
(* for the others GetCommandReceiptStatus is asked.                        *)
Look ==
  /\ recon.pc = "look"
  /\ \E o \in recon.todo :
     /\ \A x \in recon.todo : o <= x
     /\ \/ /\ journal[o] # "bound"
           /\ recon' = [recon EXCEPT !.todo = @ \ {o}]
           /\ UNCHANGED looked
        \/ /\ journal[o] = "bound" /\ alive
           /\ LET status == receipt[o].status IN
              recon' = [recon EXCEPT
                !.todo = @ \ {o},
                !.delete = IF status \in {"completed", "failed"} THEN @ \cup {o} ELSE @,
                !.restore = IF status = "absent" /\ Repeatable(o) THEN @ \cup {o} ELSE @]
           /\ looked' = looked \cup {o}
  /\ UNCHANGED <<server, ops, ui, link, session, alive, broker, suspended, pending, before, bounded>>

(* apply: the settled ones go, ... *)
ApplyPlan ==
  /\ recon.pc = "look" /\ recon.todo = {}
  /\ journal' = [o \in Ops |-> IF o \in recon.delete THEN "none" ELSE journal[o]]
  /\ recon' = [recon EXCEPT !.pc = "restore"]
  /\ UNCHANGED <<server, mem, call, cancelled, told, sentOn, ui, link, session, alive, broker,
                 suspended, pending, before, looked, bounded>>

Owned(o) == mem[o] # "none" \/ \E x \in Ops : Active(x) /\ Fingerprint[x] = Fingerprint[o]

Blocked(o) == ~Owned(o) /\ \E x \in Ops : Active(x) /\ Scope[x] = Scope[o]

(* ... those that can be repeated are given back to the coordinator,       *)
(* Coordinator.Restore, ...                                                *)
RestoreNext ==
  /\ recon.pc = "restore"
  /\ \E o \in recon.restore :
     /\ \A x \in recon.restore : o <= x
     /\ \/ /\ Blocked(o)
           /\ ClearConnection("paused")
           /\ UNCHANGED ops
        \/ /\ ~Blocked(o)
           /\ recon' = [recon EXCEPT !.restore = @ \ {o}]
           /\ UNCHANGED <<link, session, alive, broker, pending, before, looked>>
           /\ \/ Owned(o) /\ UNCHANGED ops
              \/ /\ ~Owned(o)
                 /\ Put(o)
                 /\ mem' = [mem EXCEPT ![o] = "queued"]
                 /\ cancelled' = cancelled \ {o}
                 /\ UNCHANGED <<call, told, sentOn>>
  /\ UNCHANGED <<server, ui, suspended, bounded>>

(* ... and then operations are let through to the server. *)
Admit ==
  /\ recon.pc = "restore" /\ recon.restore = {}
  /\ recon' = NoRecon
  /\ pending' = FALSE
  /\ broker' = TRUE
  /\ UNCHANGED <<server, ops, ui, link, session, alive, suspended, before, looked, bounded>>
-----------------------------------------------------------------------------
(* The app ends at any time and is started again. *)
Quit ==
  /\ quits < MaxQuits /\ restarts + quits < MaxEnds
  /\ quits' = quits + 1
  /\ submitting' = None
  /\ mem' = [o \in Ops |-> "none"]
  /\ call' = [o \in Ops |-> None]
  /\ cancelled' = {}
  /\ told' = [o \in Ops |-> IF mem[o] \in {"failed", "cancelled"} THEN "silence" ELSE told[o]]
  /\ link' = "down" /\ alive' = FALSE /\ broker' = FALSE
  /\ suspended' = {} /\ pending' = FALSE /\ recon' = NoRecon
  /\ UNCHANGED <<server, journal, sentOn, pressed, session, before, looked, losses>>

ServerStep(c) ==
  /\ Step(c)
  /\ UNCHANGED <<ops, ui, control, bounded>>

RestartServer ==
  /\ restarts + quits < MaxEnds
  /\ Restart
  /\ alive' = FALSE
  /\ UNCHANGED <<ops, ui, link, session, broker, suspended, pending, recon, before, looked, bounded>>

OpStep(o) == \/ Run(o) \/ CancelQueued(o)
             \/ \E c \in Calls : Send(o, c)
             \/ FailToSend(o) \/ Receive(o) \/ LoseAnswer(o)

Recover == HandleChanged \/ ReadJournal \/ Look \/ ApplyPlan \/ RestoreNext \/ Admit

RecoveryNext ==
  \/ \E o \in Ops : Press(o)
  \/ Submit
  \/ \E o \in Ops : Run(o)
  \/ \E o \in Ops : CancelQueued(o)
  \/ \E o \in Ops, c \in Calls : Send(o, c)
  \/ \E o \in Ops : FailToSend(o)
  \/ \E o \in Ops : Receive(o)
  \/ \E o \in Ops : LoseAnswer(o)
  \/ HandleChanged
  \/ Connect
  \/ LoseConnection
  \/ Suspend
  \/ Resume
  \/ ReadJournal
  \/ Look
  \/ ApplyPlan
  \/ RestoreNext
  \/ Admit
  \/ Quit
  \/ \E c \in Calls : ServerStep(c)
  \/ RestartServer

RecoverySpec == RecoveryInit /\ [][RecoveryNext]_recoveryVars
-----------------------------------------------------------------------------
RecoveryTypeOK ==
  /\ pressed \subseteq Ops /\ submitting \in Ops \cup {None}
  /\ mem \in [Ops -> Ended \cup {"none", "queued", "running", "sent"}]
  /\ call \in [Ops -> Calls \cup {None}]
  /\ cancelled \subseteq Ops
  /\ told \in [Ops -> {"nothing", "succeeded", "failed", "unknown", "silence"}]
  /\ journal \in [Ops -> {"none", "unbound", "bound"}]
  /\ link \in {"down", "up", "paused", "suspended"}
  /\ session \in 0 .. MaxSessions /\ sentOn \in [Ops -> 0 .. MaxSessions]
  /\ alive \in BOOLEAN /\ broker \in BOOLEAN /\ pending \in BOOLEAN
  /\ suspended \subseteq Ops
  /\ recon \in [pc : {"idle", "read", "look", "restore"}, todo : SUBSET Ops,
                delete : SUBSET Ops, restore : SUBSET Ops]
  /\ before \subseteq Ops /\ looked \subseteq Ops
  /\ losses \in 0 .. MaxLosses /\ quits \in 0 .. MaxQuits
  /\ \A o \in Ops : mem[o] = "sent" <=> call[o] # None
  /\ broker \/ recon.pc # "idle" => link = "up"

Sent(o) == {c \in Calls : key[c] = o}

(* An operation that was sent leaves the journal only when the server has  *)
(* its outcome on record, when it ended as failed, of which the user is    *)
(* told unless the app ends first, or when it was cancelled while it       *)
(* waited to be repeated, of which the user is told nothing.  No crash of  *)
(* either side, no lost answer and no replay makes the client forget one   *)
(* whose outcome is unknown.                                               *)
NothingForgotten ==
  \A o \in Ops :
    Sent(o) # {} /\ journal[o] = "none" =>
      \/ receipt[o].status \in {"completed", "failed"}
      \/ mem[o] \in {"failed", "cancelled"}       \* the controller has not handled it yet
      \/ told[o] \in {"failed", "silence"}

(* The user is told of success only when the operation took effect; an     *)
(* operation that is replayed takes effect once at most, and one that is   *)
(* not safe to repeat is sent once at most.                                *)
SuccessIsReal ==
  /\ \A o \in Ops : told[o] = "succeeded" => \E c \in Sent(o) : c \in effects /\ outcome[c] = "ok"
  /\ \A c, d \in effects : key[c] = key[d] => c = d
  /\ \A o \in Ops \ Safe : Cardinality(Sent(o)) <= 1

(* No operation reaches the server of a new session before the receipts of *)
(* all that was journaled for it when the session began have been looked   *)
(* up in it.  Of an entry that lacks the server's id no receipt is asked.  *)
VerifiedBeforeAdmitted == broker => \A o \in before : journal[o] # "none" => o \in looked

(* Once connected, operations are let through, unless the connection ends. *)
RecoveryEnds == pending ~> broker \/ link # "up"

(* Goroutines are scheduled, requests end by their timeouts; users, crashes*)
(* and the network owe nothing.                                            *)
FairSpec ==
  /\ RecoverySpec
  /\ \A o \in Ops : WF_recoveryVars(OpStep(o))
  /\ WF_recoveryVars(Recover)
  /\ WF_recoveryVars(LoseConnection /\ ~alive)
-----------------------------------------------------------------------------
(* What the documents say and the code does not keep to. *)

(* docs/native-client.md, "a pending receipt means the original outcome is *)
(* unknown ...; it is never guessed": an operation that the user was told  *)
(* has failed did not succeed.                                             *)
FailureIsNotGuessed ==
  \A o \in Ops : told[o] = "failed" => \A c \in Sent(o) : outcome[c] # "ok"

(* ADR 0003, "a mutation whose request may have reached the server becomes *)
(* outcome-unknown and remains journaled".                                 *)
ReachedServerStaysJournaled ==
  \A o \in Ops : mem[o] = "cancelled" => Sent(o) = {}

(* ADR 0003, "return to Ciwi and confirm automatic reconnection": that the *)
(* journal is reconciled never ends the attempts to connect.               *)
NeverPaused == link # "paused"
=============================================================================
