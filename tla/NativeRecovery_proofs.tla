------------------------ MODULE NativeRecovery_proofs ------------------------
(***************************************************************************)
(* What the server and the client promise, for any number of keys,         *)
(* commands, calls, operations, sessions, losses and restarts of either    *)
(* side.                                                                   *)
(*                                                                         *)
(* The server's part is about the holder of a key: the call that has the   *)
(* claim, or had it and got as far as to execute the command.  A key has   *)
(* one holder at most, for a claim is granted on an absent row only and    *)
(* rows never go away.  Its theorems are about Spec, the receipts whoever  *)
(* calls them.                                                             *)
(*                                                                         *)
(* The client is one of the callers (ServerKeepsReceipts), so the server's *)
(* invariant is part of its own.  The client's part is about who may be    *)
(* sent: an operation that was not submitted is nowhere (Fresh), one that  *)
(* is not safe to repeat waits to be sent only once (NotSentYet), one at   *)
(* work is in the journal or its outcome on record (Remembered), and a     *)
(* plan deletes and restores only what it has looked up (PlanFits).        *)
(***************************************************************************)
EXTENDS NativeRecovery, FiniteSetTheorems, TLAPS

(* Calls that have begun know what they ask for; those that have not ended *)
(* have no answer, and no effect before the command is executed.           *)
CallsFit ==
  \A c \in Calls :
    /\ pc[c] # "idle" => key[c] \in Keys /\ payload[c] \in Payloads
    /\ pc[c] \in Underway \cup {"idle"} => answer[c].kind = "none"
    /\ pc[c] \in (Underway \cup {"idle"}) \ {"record"} => outcome[c] = "none" /\ c \notin effects
    /\ pc[c] = "record" => outcome[c] # "none"
    /\ outcome[c] = "ok" => c \in effects

Holds(c) == pc[c] \in Claiming \/ c \in effects \/ outcome[c] # "none"

HoldersFit ==
  /\ \A c \in Calls : Holds(c) =>
       receipt[key[c]].status # "absent" /\ receipt[key[c]].payload = payload[c]
  /\ \A c \in Calls : pc[c] \in Claiming => receipt[key[c]].status = "pending"
  /\ \A c, d \in Calls : Holds(c) /\ Holds(d) /\ key[c] = key[d] => c = d

(* What a receipt says is what its holder has done. *)
ReceiptsFit ==
  \A k \in Keys :
    receipt[k].status \in {"completed", "failed"} =>
      LET d == receipt[k].by IN
      /\ d \in Calls /\ key[d] = k /\ payload[d] = receipt[k].payload
      /\ pc[d] = "done"
      /\ outcome[d] = IF receipt[k].status = "completed" THEN "ok" ELSE "error"

(* Who is given an outcome is given what the receipt says. *)
AnswersFit ==
  \A c \in Calls :
    /\ answer[c].kind = "result" =>
         receipt[key[c]].status = "completed" /\ receipt[key[c]].by = answer[c].of
    /\ answer[c].kind = "error" =>
         receipt[key[c]].status = "failed" /\ receipt[key[c]].by = answer[c].of
    /\ answer[c].kind \in {"result", "error"} => receipt[key[c]].payload = payload[c]

ReceiptsInv ==
  /\ TypeOK /\ CallsFit /\ HoldersFit /\ ReceiptsFit /\ AnswersFit
  /\ PendingHasAnOwner

LEMMA ReceiptsBegin == Init => ReceiptsInv
<1> SUFFICES ASSUME Init PROVE ReceiptsInv
  OBVIOUS
<1> USE DEF Init, Absent, Reply
<1>1. TypeOK
  BY RestartsAssumption DEF TypeOK, Receipt, Answer, Underway, Claiming
<1>2. CallsFit
  BY DEF CallsFit, Underway, Claiming
<1>3. HoldersFit
  BY DEF HoldersFit, Holds, Claiming
<1>4. ReceiptsFit /\ AnswersFit /\ PendingHasAnOwner
  BY DEF ReceiptsFit, AnswersFit, PendingHasAnOwner
<1> QED
  BY <1>1, <1>2, <1>3, <1>4 DEF ReceiptsInv

(* A step of one call leaves the others where they are. *)
LEMMA ReceiptsTypeStep == TypeOK /\ CallsFit /\ [Next]_vars => TypeOK'
<1> SUFFICES ASSUME TypeOK, CallsFit, [Next]_vars
             PROVE  TypeOK'
  OBVIOUS
<1> USE DEF TypeOK, Underway, Claiming
<1>1. ASSUME NEW c \in Calls, NEW k \in Keys, NEW p \in Payloads, Call(c, k, p)
      PROVE  TypeOK'
  BY <1>1 DEF Call, MoveTo
<1>2. ASSUME NEW c \in Calls, Claim(c) PROVE TypeOK'
  <2>1. payload[c] \in Payloads
    BY <1>2 DEF CallsFit, Claim
  <2>2. [status |-> "pending", payload |-> payload[c], by |-> None] \in Receipt
    BY <2>1 DEF Receipt
  <2> QED
    BY <1>2, <2>2 DEF Claim, MoveTo
<1>3. ASSUME NEW c \in Calls, FailToClaim(c) PROVE TypeOK'
  BY <1>3 DEF FailToClaim, Return, MoveTo, Reply, Answer
<1>4. ASSUME NEW c \in Calls, ReadBack(c) PROVE TypeOK'
  BY <1>4 DEF ReadBack, Return, MoveTo, Reply, Answer
<1>5. ASSUME NEW c \in Calls, ReplayReceipt(c) PROVE TypeOK'
  <2>1. key[c] \in Keys
    BY <1>5 DEF CallsFit, ReplayReceipt
  <2>2. receipt[key[c]] \in Receipt
    BY <2>1
  <2>3. Replayed(receipt[key[c]]) \in Answer
    BY <2>2 DEF Replayed, Reply, Answer, Receipt
  <2>4. /\ Reply("conflict", None) \in Answer
        /\ Reply("internal", None) \in Answer
    BY DEF Reply, Answer
  <2> QED
    BY <1>5, <2>3, <2>4 DEF ReplayReceipt, Return, MoveTo
<1>6. ASSUME NEW c \in Calls, Execute(c) PROVE TypeOK'
  BY <1>6 DEF Execute, MoveTo
<1>7. ASSUME NEW c \in Calls, Record(c) PROVE TypeOK'
  <2>1. key[c] \in Keys
    BY <1>7 DEF CallsFit, Record
  <2>4. receipt[key[c]] \in Receipt
    BY <2>1
  <2>2. Recorded(c) \in Receipt
    BY <2>4 DEF Recorded, Receipt
  <2>3. /\ Reply(IF outcome[c] = "ok" THEN "result" ELSE "error", c) \in Answer
        /\ Reply("internal", None) \in Answer
    BY DEF Reply, Answer
  <2> QED
    BY <1>7, <2>2, <2>3 DEF Record, Return, MoveTo
<1>8. CASE Restart
  <2>1. \A r \in Receipt : AfterRestart(r) \in Receipt
    BY DEF AfterRestart, Receipt
  <2> QED
    BY <1>8, <2>1, RestartsAssumption DEF Restart
<1>9. CASE UNCHANGED vars
  BY <1>9 DEF vars
<1> QED
  BY <1>1, <1>2, <1>3, <1>4, <1>5, <1>6, <1>7, <1>8, <1>9 DEF Next, Step

LEMMA CallsStep == TypeOK /\ CallsFit /\ [Next]_vars => CallsFit'
<1> SUFFICES ASSUME TypeOK, CallsFit, [Next]_vars
             PROVE  CallsFit'
  OBVIOUS
<1> USE DEF TypeOK, CallsFit, Underway, Claiming, Reply,
            Return, MoveTo
<1>1. ASSUME NEW c \in Calls, NEW k \in Keys, NEW p \in Payloads, Call(c, k, p)
      PROVE  CallsFit'
  BY <1>1 DEF Call
<1>2. ASSUME NEW c \in Calls, Claim(c) PROVE CallsFit'
  BY <1>2 DEF Claim
<1>3. ASSUME NEW c \in Calls, FailToClaim(c) PROVE CallsFit'
  BY <1>3 DEF FailToClaim
<1>4. ASSUME NEW c \in Calls, ReadBack(c) PROVE CallsFit'
  BY <1>4 DEF ReadBack
<1>5. ASSUME NEW c \in Calls, ReplayReceipt(c) PROVE CallsFit'
  BY <1>5 DEF ReplayReceipt
<1>6. ASSUME NEW c \in Calls, Execute(c) PROVE CallsFit'
  BY <1>6 DEF Execute
<1>7. ASSUME NEW c \in Calls, Record(c) PROVE CallsFit'
  BY <1>7 DEF Record
<1>8. CASE Restart
  BY <1>8 DEF Restart
<1>9. CASE UNCHANGED vars
  BY <1>9 DEF vars
<1> QED
  BY <1>1, <1>2, <1>3, <1>4, <1>5, <1>6, <1>7, <1>8, <1>9 DEF Next, Step

(* The row that a call records: its claim, settled. *)
LEMMA RecordedFields ==
  ASSUME TypeOK, CallsFit, NEW c \in Calls, pc[c] = "record"
  PROVE  /\ key[c] \in Keys
         /\ Recorded(c).by = c
         /\ Recorded(c).payload = receipt[key[c]].payload
         /\ Recorded(c).status = IF outcome[c] = "ok" THEN "completed" ELSE "failed"
<1>1. key[c] \in Keys
  BY DEF CallsFit
<1>2. receipt[key[c]] \in Receipt
  BY <1>1 DEF TypeOK
<1> QED
  BY <1>1, <1>2 DEF Recorded, Receipt

LEMMA HoldersStep ==
  TypeOK /\ CallsFit /\ HoldersFit /\ [Next]_vars => HoldersFit'
<1> SUFFICES ASSUME TypeOK, CallsFit, HoldersFit, [Next]_vars
             PROVE  HoldersFit'
  OBVIOUS
<1> USE DEF TypeOK, CallsFit, HoldersFit, Holds, Underway, Claiming,
            Return, MoveTo
<1>1. ASSUME NEW c \in Calls, NEW k \in Keys, NEW p \in Payloads, Call(c, k, p)
      PROVE  HoldersFit'
  BY <1>1 DEF Call
<1>2. ASSUME NEW c \in Calls, Claim(c) PROVE HoldersFit'
  <2>1. CASE Claimable(key[c])
    BY <1>2, <2>1 DEF Claim, Claimable
  <2>2. CASE ~Claimable(key[c])
    BY <1>2, <2>2 DEF Claim
  <2> QED
    BY <2>1, <2>2
<1>3. ASSUME NEW c \in Calls, FailToClaim(c) PROVE HoldersFit'
  BY <1>3 DEF FailToClaim
<1>4. ASSUME NEW c \in Calls, ReadBack(c) PROVE HoldersFit'
  BY <1>4 DEF ReadBack
<1>5. ASSUME NEW c \in Calls, ReplayReceipt(c) PROVE HoldersFit'
  BY <1>5 DEF ReplayReceipt
<1>6. ASSUME NEW c \in Calls, Execute(c) PROVE HoldersFit'
  BY <1>6 DEF Execute
<1>7. ASSUME NEW c \in Calls, Record(c) PROVE HoldersFit'
  BY <1>7, RecordedFields DEF Record
<1>8. CASE Restart
  BY <1>8 DEF Restart, AfterRestart, Receipt
<1>9. CASE UNCHANGED vars
  BY <1>9 DEF vars
<1> QED
  BY <1>1, <1>2, <1>3, <1>4, <1>5, <1>6, <1>7, <1>8, <1>9 DEF Next, Step

LEMMA ReceiptsStep ==
  TypeOK /\ CallsFit /\ HoldersFit /\ ReceiptsFit /\ [Next]_vars => ReceiptsFit'
<1> SUFFICES ASSUME TypeOK, CallsFit, HoldersFit, ReceiptsFit, [Next]_vars
             PROVE  ReceiptsFit'
  OBVIOUS
<1> USE DEF TypeOK, CallsFit, ReceiptsFit, Underway, Claiming,
            Return, MoveTo
<1>1. ASSUME NEW c \in Calls, NEW k \in Keys, NEW p \in Payloads, Call(c, k, p)
      PROVE  ReceiptsFit'
  BY <1>1 DEF Call
<1>2. ASSUME NEW c \in Calls, Claim(c) PROVE ReceiptsFit'
  BY <1>2 DEF Claim, Claimable
<1>3. ASSUME NEW c \in Calls, FailToClaim(c) PROVE ReceiptsFit'
  BY <1>3 DEF FailToClaim
<1>4. ASSUME NEW c \in Calls, ReadBack(c) PROVE ReceiptsFit'
  BY <1>4 DEF ReadBack
<1>5. ASSUME NEW c \in Calls, ReplayReceipt(c) PROVE ReceiptsFit'
  BY <1>5 DEF ReplayReceipt
<1>6. ASSUME NEW c \in Calls, Execute(c) PROVE ReceiptsFit'
  BY <1>6 DEF Execute
<1>7. ASSUME NEW c \in Calls, Record(c) PROVE ReceiptsFit'
  <2>1. receipt[key[c]].payload = payload[c]
    BY <1>7 DEF HoldersFit, Holds, Record
  <2>2. /\ key[c] \in Keys /\ Recorded(c).by = c /\ Recorded(c).payload = payload[c]
        /\ Recorded(c).status = IF outcome[c] = "ok" THEN "completed" ELSE "failed"
    BY <1>7, <2>1, RecordedFields DEF Record
  <2>3. outcome[c] \in {"ok", "error"}
    BY <1>7 DEF Record
  <2> QED
    BY <1>7, <2>1, <2>2, <2>3 DEF Record
<1>8. CASE Restart
  BY <1>8 DEF Restart, AfterRestart, Receipt
<1>9. CASE UNCHANGED vars
  BY <1>9 DEF vars
<1> QED
  BY <1>1, <1>2, <1>3, <1>4, <1>5, <1>6, <1>7, <1>8, <1>9 DEF Next, Step

LEMMA AnswersStep ==
  TypeOK /\ CallsFit /\ HoldersFit /\ AnswersFit /\ [Next]_vars => AnswersFit'
<1> SUFFICES ASSUME TypeOK, CallsFit, HoldersFit, AnswersFit, [Next]_vars
             PROVE  AnswersFit'
  OBVIOUS
<1> USE DEF TypeOK, CallsFit, AnswersFit, Underway, Claiming, Return,
            MoveTo, Reply
<1>1. ASSUME NEW c \in Calls, NEW k \in Keys, NEW p \in Payloads, Call(c, k, p)
      PROVE  AnswersFit'
  BY <1>1 DEF Call
<1>2. ASSUME NEW c \in Calls, Claim(c) PROVE AnswersFit'
  BY <1>2 DEF Claim, Claimable
<1>3. ASSUME NEW c \in Calls, FailToClaim(c) PROVE AnswersFit'
  BY <1>3 DEF FailToClaim
<1>4. ASSUME NEW c \in Calls, ReadBack(c) PROVE AnswersFit'
  BY <1>4 DEF ReadBack
<1>5. ASSUME NEW c \in Calls, ReplayReceipt(c) PROVE AnswersFit'
  BY <1>5 DEF ReplayReceipt, Replayed, SameCommand
<1>6. ASSUME NEW c \in Calls, Execute(c) PROVE AnswersFit'
  BY <1>6 DEF Execute
<1>7. ASSUME NEW c \in Calls, Record(c) PROVE AnswersFit'
  <2>1. receipt[key[c]].payload = payload[c]
    BY <1>7 DEF HoldersFit, Holds, Record
  <2>2. /\ key[c] \in Keys /\ Recorded(c).by = c /\ Recorded(c).payload = payload[c]
        /\ Recorded(c).status = IF outcome[c] = "ok" THEN "completed" ELSE "failed"
    BY <1>7, <2>1, RecordedFields DEF Record
  <2>3. outcome[c] \in {"ok", "error"}
    BY <1>7 DEF Record
  <2> QED
    BY <1>7, <2>1, <2>2, <2>3 DEF Record
<1>8. CASE Restart
  BY <1>8 DEF Restart, AfterRestart, Receipt
<1>9. CASE UNCHANGED vars
  BY <1>9 DEF vars
<1> QED
  BY <1>1, <1>2, <1>3, <1>4, <1>5, <1>6, <1>7, <1>8, <1>9 DEF Next, Step

LEMMA PendingStep ==
  TypeOK /\ CallsFit /\ PendingHasAnOwner /\ [Next]_vars
    => PendingHasAnOwner'
<1> SUFFICES ASSUME TypeOK, CallsFit, PendingHasAnOwner, [Next]_vars
             PROVE  PendingHasAnOwner'
  OBVIOUS
<1> USE DEF TypeOK, CallsFit, PendingHasAnOwner, Underway, Claiming,
            Return, MoveTo, Reply
<1>1. ASSUME NEW c \in Calls, NEW k \in Keys, NEW p \in Payloads, Call(c, k, p)
      PROVE  PendingHasAnOwner'
  BY <1>1 DEF Call
<1>2. ASSUME NEW c \in Calls, Claim(c) PROVE PendingHasAnOwner'
  BY <1>2 DEF Claim, Claimable
<1>3. ASSUME NEW c \in Calls, FailToClaim(c) PROVE PendingHasAnOwner'
  BY <1>3 DEF FailToClaim
<1>4. ASSUME NEW c \in Calls, ReadBack(c) PROVE PendingHasAnOwner'
  BY <1>4 DEF ReadBack
<1>5. ASSUME NEW c \in Calls, ReplayReceipt(c) PROVE PendingHasAnOwner'
  BY <1>5 DEF ReplayReceipt
<1>6. ASSUME NEW c \in Calls, Execute(c) PROVE PendingHasAnOwner'
  BY <1>6 DEF Execute
<1>7. ASSUME NEW c \in Calls, Record(c) PROVE PendingHasAnOwner'
  BY <1>7, RecordedFields DEF Record
<1>8. CASE Restart
  BY <1>8 DEF Restart, AfterRestart, Receipt
<1>9. CASE UNCHANGED vars
  BY <1>9 DEF vars
<1> QED
  BY <1>1, <1>2, <1>3, <1>4, <1>5, <1>6, <1>7, <1>8, <1>9 DEF Next, Step

LEMMA ReceiptsInvStep == ReceiptsInv /\ [Next]_vars => ReceiptsInv'
BY ReceiptsTypeStep, CallsStep, HoldersStep, ReceiptsStep, AnswersStep, PendingStep DEF ReceiptsInv

(* The invariant of the receipts, whoever calls them. *)
THEOREM ReceiptsInvHolds == Spec => []ReceiptsInv
<1> QED
  BY ReceiptsInvStep, ReceiptsBegin, PTL DEF Spec
-----------------------------------------------------------------------------
(* The table and the calls keep their types (sqlite_command_receipts.go).  *)
THEOREM ReceiptsTyped == Spec => []TypeOK
<1>1. ReceiptsInv => TypeOK
  BY DEF ReceiptsInv
<1> QED
  BY <1>1, ReceiptsInvHolds, PTL

(* executeIdempotentCommand: at most one call of a key takes effect.       *)
THEOREM EffectsHappenOnce == Spec => []AtMostOnce
<1>1. ReceiptsInv => AtMostOnce
  BY DEF ReceiptsInv, TypeOK, HoldersFit, Holds, AtMostOnce
<1> QED
  BY <1>1, ReceiptsInvHolds, PTL

(* Whoever is given an outcome is given that of the one execution of his   *)
(* own command, however often he asks.                                     *)
THEOREM OutcomesAreTrue == Spec => []AnswersAreTrue
<1>1. ReceiptsInv => AnswersAreTrue
  <2> SUFFICES ASSUME ReceiptsInv PROVE AnswersAreTrue
    OBVIOUS
  <2> USE DEF ReceiptsInv, TypeOK
  <2>1. ASSUME NEW c \in Calls, answer[c].kind \in {"result", "error"}
        PROVE  key[c] \in Keys /\ receipt[key[c]].status \in {"completed", "failed"}
    BY <2>1 DEF AnswersFit, CallsFit, Underway, Claiming
  <2>2. ASSUME NEW c \in Calls, answer[c].kind \in {"result", "error"}
        PROVE  LET d == answer[c].of IN
               /\ d \in Calls
               /\ key[d] = key[c] /\ payload[d] = payload[c]
               /\ answer[c].kind = "result" => d \in effects /\ outcome[d] = "ok"
               /\ answer[c].kind = "error" => outcome[d] = "error"
    BY <2>1, <2>2 DEF AnswersFit, ReceiptsFit, CallsFit
  <2>3. ASSUME NEW c \in Calls, NEW d \in Calls,
               answer[c].kind \in {"result", "error"}, answer[d].kind \in {"result", "error"},
               key[c] = key[d]
        PROVE  answer[c] = answer[d]
    <3>1. answer[c].kind = answer[d].kind /\ answer[c].of = answer[d].of
      BY <2>3 DEF AnswersFit
    <3> QED
      BY <3>1 DEF Answer
  <2> QED
    BY <2>2, <2>3 DEF AnswersAreTrue
<1> QED
  BY <1>1, ReceiptsInvHolds, PTL

(* A pending receipt has a call at work or was left by a failed statement. *)
THEOREM PendingIsOwned == Spec => []PendingHasAnOwner
<1>1. ReceiptsInv => PendingHasAnOwner
  BY DEF ReceiptsInv
<1> QED
  BY <1>1, ReceiptsInvHolds, PTL

(* What a receipt says in the end is said for ever, and to one command.    *)
THEOREM ReceiptsStay == Spec => ReceiptIsFinal
<1> DEFINE Stays == \A k \in Keys :
             /\ receipt[k].status \notin {"absent", "pending"} => receipt'[k] = receipt[k]
             /\ receipt[k].status # "absent" =>
                  receipt'[k].status # "absent" /\ receipt'[k].payload = receipt[k].payload
<1>1. ReceiptsInv /\ [Next]_vars => [Stays]_vars
  <2> SUFFICES ASSUME ReceiptsInv, Next PROVE Stays
    BY DEF vars
  <2> USE DEF ReceiptsInv, TypeOK
  <2>1. ASSUME UNCHANGED receipt PROVE Stays
    BY <2>1
  <2>2. ASSUME NEW c \in Calls, Claim(c) PROVE Stays
    BY <2>2 DEF Claim, Claimable
  <2>3. ASSUME NEW c \in Calls, Record(c) PROVE Stays
    BY <2>3, RecordedFields DEF Record
  <2>4. CASE Restart
    BY <2>4 DEF Restart, AfterRestart, Receipt
  <2> QED
    BY <2>1, <2>2, <2>3, <2>4
       DEF Next, Step, Call, FailToClaim, ReadBack,
           ReplayReceipt, Execute
<1> QED
  BY <1>1, ReceiptsInvHolds, PTL DEF Spec, ReceiptIsFinal
-----------------------------------------------------------------------------
Settled(o) == receipt[o].status \in {"completed", "failed"}

(* The server's invariant, and that an idle call carries no key. *)
ServerFits == ReceiptsInv /\ \A c \in Calls : pc[c] = "idle" => key[c] = None

Fresh(o) ==
  /\ mem[o] = "none" /\ journal[o] = "none" /\ Sent(o) = {}
  /\ o \notin before \cup looked \cup recon.todo \cup recon.delete \cup recon.restore

NotYetSubmitted ==
  /\ submitting # None => submitting \in pressed
  /\ \A o \in Ops : o \notin pressed \/ submitting = o => Fresh(o)

NotSentYet == \A o \in Ops \ Safe : mem[o] \in {"queued", "running"} => Sent(o) = {}

SentOnce == \A o \in Ops \ Safe, c, d \in Calls : key[c] = o /\ key[d] = o => c = d

WaitsForItsOwn == \A o \in Ops : mem[o] = "sent" => key[call[o]] = o

(* Its end was not a success, and the journal is done with it. *)
Dismissed(o) == mem[o] \in {"failed", "cancelled"} \/ told[o] \in {"failed", "silence"}

Remembered ==
  \A o \in Ops :
    journal[o] = "none" =>
      /\ Active(o) => (o \in before => o \in looked)
      /\ Active(o) \/ mem[o] \in {"succeeded", "unknown"} => Settled(o)
      /\ Sent(o) # {} => Settled(o) \/ Dismissed(o)

SuccessFits ==
  \A o \in Ops : "succeeded" \in {told[o], mem[o]} => \E c \in Sent(o) : c \in effects /\ outcome[c] = "ok"

PlanFits ==
  /\ recon.pc \in {"idle", "read"} => recon = [NoRecon EXCEPT !.pc = recon.pc]
  /\ \A o \in recon.delete : Settled(o)
  /\ recon.delete \cup recon.restore \subseteq looked
  /\ recon.restore \subseteq Safe
  /\ recon.pc = "restore" => recon.todo = {}
  /\ recon.pc \in {"look", "restore"} \/ broker =>
       \A o \in before : journal[o] # "none" => o \in looked \cup recon.todo
  /\ \A o \in before : journal[o] = "unbound" => o \in looked
  /\ broker => recon.pc = "idle" /\ ~pending

IInv == /\ RecoveryTypeOK /\ ServerFits
        /\ NotYetSubmitted /\ NotSentYet /\ SentOnce /\ WaitsForItsOwn
        /\ Remembered /\ SuccessFits /\ PlanFits
-----------------------------------------------------------------------------
(* The server. *)
LEMMA ServerBegins == RecoveryInit => ServerFits
BY ReceiptsBegin DEF RecoveryInit, Init, ServerFits

(* What a step of the program is for the server. *)
LEMMA ServerSteps ==
  ASSUME [RecoveryNext]_recoveryVars
  PROVE  \/ UNCHANGED server
         \/ \E o \in Ops, c \in Calls : Send(o, c) /\ Call(c, o, Payload)
         \/ \E c \in Calls : Step(c)
         \/ Restart
<1>1. CASE UNCHANGED recoveryVars
  BY <1>1 DEF recoveryVars, server, vars
<1>2. ASSUME NEW o \in Ops, NEW c \in Calls, Send(o, c) PROVE Call(c, o, Payload)
  BY <1>2 DEF Send
<1> QED
  BY <1>1, <1>2 DEF RecoveryNext, Press, Submit, Run, CancelQueued, FailToSend, Receive, LoseAnswer,
       HandleChanged, Connect, LoseConnection, Suspend, Resume, ReadJournal, Look, ApplyPlan,
       RestoreNext, Admit, Quit, ServerStep, RestartServer

LEMMA ServerInvariant == ASSUME ServerFits, [RecoveryNext]_recoveryVars PROVE ReceiptsInv'
<1>1. [Next]_vars
  BY ServerSteps, KeysAssumption DEF Next, vars, server
<1> QED
  BY <1>1, ReceiptsInvStep DEF ServerFits

(* What a call has asked for, has done and has on record stays. *)
LEMMA ServerKeeps ==
  ASSUME ServerFits, [RecoveryNext]_recoveryVars
  PROVE  /\ ServerFits'
         /\ \A o \in Ops : Settled(o) => Settled(o)'
         /\ \A c \in Calls : c \in effects => c \in effects'
         /\ \A c \in Calls : outcome[c] = "ok" => outcome'[c] = "ok"
         /\ \/ key' = key
            \/ \E o \in Ops, c \in Calls :
                 /\ Send(o, c) /\ key[c] = None /\ key'[c] = o
                 /\ \A d \in Calls \ {c} : key'[d] = key[d]
<1> USE DEF ServerFits, ReceiptsInv, TypeOK
<1>1. ReceiptsInv'
  BY ServerInvariant
<1>2. CASE UNCHANGED server
  BY <1>1, <1>2 DEF server, vars, Settled
<1>3. ASSUME NEW o \in Ops, NEW c \in Calls, Send(o, c), Call(c, o, Payload)
      PROVE  /\ \A d \in Calls : pc'[d] = "idle" => key'[d] = None
             /\ UNCHANGED <<receipt, effects, outcome>>
             /\ key[c] = None /\ key'[c] = o
             /\ \A d \in Calls \ {c} : key'[d] = key[d]
  BY <1>3 DEF Call, MoveTo
<1>4. ASSUME NEW c \in Calls, Step(c)
      PROVE  /\ \A d \in Calls : pc'[d] = "idle" => pc[d] = "idle"
             /\ UNCHANGED key
             /\ \A o \in Ops : Settled(o) => Settled(o)'
             /\ \A d \in Calls : d \in effects => d \in effects'
             /\ \A d \in Calls : outcome[d] = "ok" => outcome'[d] = "ok"
  <2> USE DEF Settled, MoveTo, Return
  <2>1. CASE Claim(c)
    BY <2>1, KeysAssumption DEF Claim, Claimable
  <2>2. CASE FailToClaim(c)
    BY <2>2 DEF FailToClaim
  <2>3. CASE ReadBack(c)
    BY <2>3 DEF ReadBack
  <2>4. CASE ReplayReceipt(c)
    BY <2>4 DEF ReplayReceipt
  <2>5. CASE Execute(c)
    <3>1. outcome[c] = "none"
      BY <2>5 DEF Execute, CallsFit, Underway, Claiming
    <3> QED
      BY <2>5, <3>1 DEF Execute
  <2>6. CASE Record(c)
    <3>1. ASSUME receipt' = [receipt EXCEPT ![key[c]] = Recorded(c)],
                 receipt[key[c]].status = "pending"
          PROVE  \A o \in Ops : Settled(o) => Settled(o)'
      BY <3>1
    <3> QED
      BY <2>6, <3>1 DEF Record
  <2> QED
    BY <1>4, <2>1, <2>2, <2>3, <2>4, <2>5, <2>6 DEF Step
<1>5. ASSUME Restart
      PROVE  /\ \A d \in Calls : pc'[d] = "idle" => pc[d] = "idle"
             /\ UNCHANGED <<key, outcome>>
             /\ \A o \in Ops : Settled(o) => Settled(o)'
             /\ \A d \in Calls : d \in effects => d \in effects'
  BY <1>5, KeysAssumption DEF Restart, AfterRestart, Settled
<1>6. CASE \E o \in Ops, c \in Calls : Send(o, c) /\ Call(c, o, Payload)
  <2>1. PICK o \in Ops, c \in Calls : Send(o, c) /\ Call(c, o, Payload)
    BY <1>6
  <2> QED
    BY <1>1, <1>3, <2>1 DEF Settled
<1>7. CASE (\E c \in Calls : Step(c)) \/ Restart
  BY <1>1, <1>4, <1>5, <1>7
<1> QED
  BY <1>2, <1>6, <1>7, ServerSteps

(* A result is that of a command of the same key that took effect. *)
LEMMA ResultIsReal ==
  ASSUME ServerFits, NEW c \in Calls, answer[c].kind = "result", key[c] \in Ops
  PROVE  /\ Settled(key[c])
         /\ \E d \in Sent(key[c]) : d \in effects /\ outcome[d] = "ok"
<1> USE DEF ServerFits, ReceiptsInv
<1>1. receipt[key[c]].status = "completed" /\ receipt[key[c]].by = answer[c].of
  BY DEF AnswersFit
<1>2. /\ answer[c].of \in Calls /\ key[answer[c].of] = key[c] /\ outcome[answer[c].of] = "ok"
  BY <1>1, KeysAssumption DEF ReceiptsFit
<1>3. answer[c].of \in effects
  BY <1>2 DEF CallsFit
<1> QED
  BY <1>1, <1>2, <1>3 DEF Settled, Sent

LEMMA SentKeeps ==
  ASSUME ServerFits, [RecoveryNext]_recoveryVars, NEW o \in Ops
  PROVE  /\ Sent(o) \subseteq Sent(o)'
         /\ (\A c \in Calls : ~Send(o, c)) => Sent(o)' = Sent(o)
<1>1. CASE key' = key
  BY <1>1 DEF Sent
<1>2. ASSUME NEW x \in Ops, NEW c \in Calls, Send(x, c), key[c] = None, key'[c] = x,
             \A d \in Calls \ {c} : key'[d] = key[d]
      PROVE  /\ Sent(o) \subseteq Sent(o)'
             /\ (\A d \in Calls : ~Send(o, d)) => Sent(o)' = Sent(o)
  <2>1. key[c] # o
    BY <1>2, NoneAssumption, KeysAssumption
  <2>2. CASE x = o
    BY <1>2, <2>1, <2>2 DEF Sent
  <2>3. CASE x # o
    BY <1>2, <2>1, <2>3 DEF Sent
  <2> QED
    BY <2>2, <2>3
<1> QED
  BY <1>1, <1>2, ServerKeeps
-----------------------------------------------------------------------------
(* The client's variables. *)
Plans == [pc : {"idle", "read", "look", "restore"}, todo : SUBSET Ops,
          delete : SUBSET Ops, restore : SUBSET Ops]

LEMMA Limits ==
  MaxSessions \in Nat /\ MaxLosses \in Nat /\ MaxQuits \in Nat /\ MaxEnds \in Nat
BY BoundsAssumption

LEMMA FirstPlans == NoRecon \in Plans /\ [NoRecon EXCEPT !.pc = "read"] \in Plans
BY DEF NoRecon, Plans

OpsTypes ==
  /\ mem \in [Ops -> Ended \cup {"none", "queued", "running", "sent"}]
  /\ call \in [Ops -> Calls \cup {None}]
  /\ cancelled \subseteq Ops
  /\ told \in [Ops -> {"nothing", "succeeded", "failed", "unknown", "silence"}]
  /\ journal \in [Ops -> {"none", "unbound", "bound"}]
  /\ sentOn \in [Ops -> 0 .. MaxSessions]
  /\ \A o \in Ops : mem[o] = "sent" <=> call[o] # None

ControlTypes ==
  /\ link \in {"down", "up", "paused", "suspended"} /\ session \in 0 .. MaxSessions
  /\ alive \in BOOLEAN /\ broker \in BOOLEAN /\ pending \in BOOLEAN
  /\ suspended \subseteq Ops /\ recon \in Plans
  /\ before \subseteq Ops /\ looked \subseteq Ops
  /\ broker \/ recon.pc # "idle" => link = "up"

OtherTypes ==
  /\ pressed \subseteq Ops /\ submitting \in Ops \cup {None}
  /\ losses \in 0 .. MaxLosses /\ quits \in 0 .. MaxQuits

LEMMA Types == RecoveryTypeOK <=> OpsTypes /\ ControlTypes /\ OtherTypes
BY DEF RecoveryTypeOK, OpsTypes, ControlTypes, OtherTypes, Plans

LEMMA OpsStep ==
  ASSUME RecoveryTypeOK, [RecoveryNext]_recoveryVars
  PROVE  OpsTypes'
<1> USE Types DEF OpsTypes
<1>1. CASE UNCHANGED ops
  BY <1>1 DEF ops
<1>2. CASE Submit
  <2>1. submitting \in Ops /\ ~Refused(submitting) => mem[submitting] # "sent"
    BY <1>2 DEF RecoveryTypeOK, Submit, Refused, Active
  <2> QED
    BY <1>1, <1>2, <2>1, NoneAssumption DEF Submit, Put
<1>3. ASSUME NEW o \in Ops, Run(o) PROVE OpsTypes'
  BY <1>3 DEF Run, Put
<1>4. ASSUME NEW o \in Ops, NEW s \in Ended, Finish(o, s) PROVE OpsTypes'
  BY <1>4 DEF Finish, Put, Ended
<1>5. ASSUME NEW o \in Ops, CancelQueued(o) \/ FailToSend(o) \/ Receive(o) \/ LoseAnswer(o)
      PROVE  OpsTypes'
  BY <1>4, <1>5 DEF CancelQueued, FailToSend, Receive, LoseAnswer, Reported, Ended
<1>6. ASSUME NEW o \in Ops, NEW c \in Calls, Send(o, c) PROVE OpsTypes'
  BY <1>6, NoneAssumption DEF ControlTypes, Send
<1>7. CASE HandleChanged
  BY <1>7 DEF HandleChanged, Shown, Ended
<1>8. CASE ApplyPlan
  BY <1>8 DEF ApplyPlan
<1>9. CASE RestoreNext
  <2>1. PICK o \in recon.restore :
          \/ UNCHANGED ops
          \/ /\ ~Owned(o) /\ Put(o) /\ mem' = [mem EXCEPT ![o] = "queued"]
             /\ cancelled' = cancelled \ {o} /\ UNCHANGED <<call, told, sentOn>>
    BY <1>9 DEF RestoreNext
  <2>2. o \in Ops /\ (~Owned(o) => mem[o] = "none")
    BY DEF ControlTypes, Plans, Owned
  <2> QED
    BY <1>1, <2>1, <2>2 DEF Put
<1>10. CASE Quit
  BY <1>10 DEF Quit
<1>11. CASE UNCHANGED recoveryVars
  BY <1>1, <1>11 DEF recoveryVars
<1> QED
  BY <1>1, <1>2, <1>3, <1>5, <1>6, <1>7, <1>8, <1>9, <1>10, <1>11
     DEF RecoveryNext, Press, Connect, LoseConnection, Suspend, Resume, ReadJournal, Look, Admit, ServerStep,
         RestartServer, ops

LEMMA ControlStep ==
  ASSUME RecoveryTypeOK, [RecoveryNext]_recoveryVars
  PROVE  ControlTypes'
<1> USE Types DEF ControlTypes
<1>1. CASE UNCHANGED control
  BY <1>1 DEF control
<1>2. CASE HandleChanged
  <2>1. recon' = IF MayReconcile(pending, suspended', link = "up")
                 THEN [NoRecon EXCEPT !.pc = "read"] ELSE recon
    BY <1>2 DEF HandleChanged, ReconAfterChange
  <2>2. MayReconcile(pending, suspended', link = "up") => link = "up"
    BY DEF MayReconcile
  <2>3. suspended' \subseteq Ops /\ UNCHANGED <<link, session, alive, broker, pending, before, looked>>
    BY <1>2 DEF HandleChanged
  <2> QED
    BY <2>1, <2>2, <2>3, FirstPlans
<1>3. CASE Connect
  <2>1. recon' = recon \/ recon' = [NoRecon EXCEPT !.pc = "read"]
    BY <1>3 DEF Connect
  <2> QED
    <3>1. recon' \in Plans
      BY <2>1, FirstPlans
    <3>2. session' \in 0 .. MaxSessions
      BY <1>3, Limits DEF Connect
    <3>3. before' \subseteq Ops /\ looked' \subseteq Ops
      BY <1>3 DEF Connect
    <3>4. /\ link' = "up" /\ alive' = TRUE /\ broker' = broker /\ pending' = TRUE
          /\ suspended' = suspended
      BY <1>3 DEF Connect
    <3> QED
      BY <3>1, <3>2, <3>3, <3>4
<1>4. ASSUME NEW l \in {"down", "paused", "suspended"}, ClearConnection(l), suspended' \subseteq Ops
      PROVE  ControlTypes'
  <2>1. NoRecon.pc = "idle"
    BY DEF NoRecon
  <2> QED
    BY <1>4, <2>1, FirstPlans DEF ClearConnection, BrokerAfterLoss
<1>5. CASE LoseConnection \/ Suspend
  BY <1>4, <1>5 DEF LoseConnection, Suspend
<1>6. CASE Resume
  BY <1>6 DEF Resume
<1>7. CASE ReadJournal
  <2>1. recon' \in Plans /\ recon'.pc = "look"
    BY <1>7 DEF ReadJournal, Plans
  <2> QED
    BY <1>7, <2>1 DEF ReadJournal
<1>8. CASE Look
  <2>1. PICK o \in recon.todo, D \in SUBSET Ops, R \in SUBSET Ops :
          /\ recon' = [recon EXCEPT !.todo = @ \ {o}, !.delete = D, !.restore = R]
          /\ looked' \subseteq looked \cup {o}
    <3>1. PICK o \in recon.todo :
            \/ recon' = [recon EXCEPT !.todo = @ \ {o}] /\ UNCHANGED looked
            \/ /\ recon' = [recon EXCEPT !.todo = @ \ {o},
                    !.delete = IF receipt[o].status \in {"completed", "failed"}
                               THEN @ \cup {o} ELSE @,
                    !.restore = IF receipt[o].status = "absent" /\ Repeatable(o)
                                THEN @ \cup {o} ELSE @]
               /\ looked' = looked \cup {o}
      BY <1>8 DEF Look
    <3>5. CASE recon' = [recon EXCEPT !.todo = @ \ {o}] /\ UNCHANGED looked
      <4>1. recon' = [recon EXCEPT !.todo = @ \ {o}, !.delete = recon.delete, !.restore = recon.restore]
        BY <3>5 DEF Plans
      <4>2. recon.delete \in SUBSET Ops /\ recon.restore \in SUBSET Ops /\ looked' \subseteq looked \cup {o}
        BY <3>5 DEF Plans
      <4> QED
        BY <4>1, <4>2
    <3> DEFINE D == IF receipt[o].status \in {"completed", "failed"}
                    THEN recon.delete \cup {o} ELSE recon.delete
               R == IF receipt[o].status = "absent" /\ Repeatable(o)
                    THEN recon.restore \cup {o} ELSE recon.restore
    <3>2. o \in Ops /\ recon.delete \subseteq Ops /\ recon.restore \subseteq Ops
      BY DEF Plans
    <3>3. D \in SUBSET Ops /\ R \in SUBSET Ops
      BY <3>2
    <3>4. CASE recon' = [recon EXCEPT !.todo = @ \ {o}, !.delete = D, !.restore = R]
               /\ looked' = looked \cup {o}
      <4> HIDE DEF D, R
      <4> QED
        BY <3>3, <3>4
    <3> QED
      BY <3>1, <3>4, <3>5
  <2>2. recon' \in Plans /\ recon'.pc = recon.pc /\ looked' \subseteq Ops
    <3> USE DEF Plans
    <3>1. recon' \in Plans /\ recon'.pc = recon.pc
      BY <2>1
    <3> QED
      BY <2>1, <3>1
  <2> QED
    BY <1>8, <2>2 DEF Look
<1>9. CASE ApplyPlan
  <2>1. recon' \in Plans /\ recon'.pc = "restore"
    BY <1>9 DEF ApplyPlan, Plans
  <2> QED
    BY <1>9, <2>1 DEF ApplyPlan
<1>10. CASE RestoreNext
  <2>1. CASE ClearConnection("paused")
    BY <1>4, <1>10, <2>1 DEF RestoreNext
  <2>2. ASSUME NEW o \in recon.restore, recon' = [recon EXCEPT !.restore = @ \ {o}],
               UNCHANGED <<link, session, alive, broker, pending, before, looked>>
        PROVE  ControlTypes'
    <3>1. recon' \in Plans /\ recon'.pc = recon.pc
      BY <2>2 DEF Plans
    <3> QED
      BY <1>10, <2>2, <3>1 DEF RestoreNext
  <2> QED
    BY <1>10, <2>1, <2>2 DEF RestoreNext
<1>11. CASE Admit
  BY <1>11, FirstPlans DEF Admit
<1>12. CASE Quit
  <2>1. NoRecon.pc = "idle"
    BY DEF NoRecon
  <2> QED
    BY <1>12, <2>1, FirstPlans DEF Quit
<1>13. CASE RestartServer
  BY <1>13 DEF RestartServer
<1>14. CASE UNCHANGED recoveryVars
  BY <1>1, <1>14 DEF recoveryVars
<1> QED
  BY <1>1, <1>2, <1>3, <1>5, <1>6, <1>7, <1>8, <1>9, <1>10, <1>11, <1>12, <1>13, <1>14
     DEF RecoveryNext, Press, Submit, Run, CancelQueued, Send, FailToSend, Receive, LoseAnswer, ServerStep

LEMMA TypeStep ==
  ASSUME RecoveryTypeOK, [RecoveryNext]_recoveryVars
  PROVE  RecoveryTypeOK'
<1>1. OtherTypes'
  <2> USE Limits, Types DEF OtherTypes
  <2>1. CASE UNCHANGED <<ui, bounded>>
    BY <2>1 DEF ui, bounded
  <2>2. CASE (\E o \in Ops : Press(o)) \/ Submit
    BY <2>2 DEF Press, Submit, bounded
  <2>3. CASE LoseConnection \/ Quit
    BY <2>3 DEF LoseConnection, Quit, ui
  <2> QED
    BY <2>1, <2>2, <2>3 DEF RecoveryNext, recoveryVars, Run, CancelQueued, Send, FailToSend, Receive, LoseAnswer,
         HandleChanged, Connect, Suspend, Resume, ReadJournal, Look, ApplyPlan, RestoreNext,
         Admit, ServerStep, RestartServer
<1> QED
  BY <1>1, OpsStep, ControlStep DEF RecoveryTypeOK, OpsTypes, ControlTypes, OtherTypes, Plans
-----------------------------------------------------------------------------
(* What a step may do to an operation. *)
Same(o)      == mem'[o] = mem[o] /\ journal'[o] = journal[o] /\ told'[o] = told[o]
Submitted(o) == /\ submitting = o /\ submitting' = None /\ ~Active(o)
                /\ mem'[o] = "queued" /\ journal'[o] # "none" /\ told'[o] = told[o]
Restored(o)  == /\ recon.pc = "restore" /\ o \in recon.restore /\ mem[o] = "none"
                /\ mem'[o] = "queued" /\ journal'[o] # "none" /\ told'[o] = told[o]
Proceeds(o)  == /\ \/ mem[o] = "queued" /\ mem'[o] = "running" /\ journal'[o] # "none"
                   \/ mem[o] = "running" /\ mem'[o] = "sent" /\ journal'[o] = journal[o]
                /\ told'[o] = told[o]
Ends(o)      == /\ Active(o) /\ mem'[o] \in Ended /\ told'[o] = told[o]
                /\ journal'[o] = "none" <=> mem'[o] # "unknown"
                /\ mem'[o] = "succeeded" =>
                     Settled(o) /\ \E c \in Sent(o) : c \in effects /\ outcome[c] = "ok"
Forgotten(o) == /\ mem'[o] = "none" /\ journal'[o] = journal[o]
                /\ \/ told'[o] = told[o] /\ mem[o] \notin {"failed", "cancelled"}
                   \/ told'[o] = "silence" /\ mem[o] \in {"failed", "cancelled"}
                   \/ told'[o] = mem[o] /\ mem[o] \in {"succeeded", "failed", "unknown"}
Deleted(o)   == /\ recon.pc = "look" /\ o \in recon.delete /\ journal'[o] = "none"
                /\ mem'[o] = mem[o] /\ told'[o] = told[o]

StaysBound(o) == journal[o] = "bound" => journal'[o] # "unbound"

Moves(o) ==
  /\ StaysBound(o)
  /\ \/ Same(o) \/ Submitted(o) \/ Restored(o) \/ Proceeds(o) \/ Ends(o)
     \/ Forgotten(o) \/ Deleted(o)

LEMMA FinishMoves ==
  ASSUME IInv, NEW o \in Ops, Active(o), NEW s \in Ended, Finish(o, s),
         s = "succeeded" => Settled(o) /\ \E c \in Sent(o) : c \in effects /\ outcome[c] = "ok",
         NEW x \in Ops
  PROVE  Moves(x)
<1>1. /\ mem \in [Ops -> Ended \cup {"none", "queued", "running", "sent"}]
      /\ told \in [Ops -> {"nothing", "succeeded", "failed", "unknown", "silence"}]
      /\ journal \in [Ops -> {"none", "unbound", "bound"}]
  BY DEF IInv, RecoveryTypeOK
<1>2. CASE x # o
  BY <1>1, <1>2 DEF Finish, Put, Moves, StaysBound, Same
<1>3. CASE x = o
  <2>1. mem'[o] = s /\ told'[o] = told[o]
    BY <1>1 DEF Finish
  <2>2. (journal'[o] = "none" <=> s # "unknown") /\ StaysBound(o)
    BY <1>1 DEF Finish, Put, Kept, StaysBound
  <2> QED
    BY <1>3, <2>1, <2>2 DEF Moves, Ends
<1> QED
  BY <1>2, <1>3

LEMMA OpMoves ==
  ASSUME IInv, [RecoveryNext]_recoveryVars, NEW x \in Ops
  PROVE  Moves(x)
<1>1. /\ mem \in [Ops -> Ended \cup {"none", "queued", "running", "sent"}]
      /\ told \in [Ops -> {"nothing", "succeeded", "failed", "unknown", "silence"}]
      /\ journal \in [Ops -> {"none", "unbound", "bound"}]
      /\ call \in [Ops -> Calls \cup {None}]
      /\ \A o \in Ops : mem[o] = "sent" <=> call[o] # None
  BY DEF IInv, RecoveryTypeOK
<1>2. CASE UNCHANGED <<mem, told, journal>>
  BY <1>2 DEF Moves, StaysBound, Same
<1>3. CASE Submit
  <2>1. UNCHANGED ops => UNCHANGED <<mem, told, journal>>
    BY DEF ops
  <2>2. submitting \in Ops /\ (~Refused(submitting) => ~Active(submitting))
    BY <1>3 DEF IInv, RecoveryTypeOK, Submit, Refused
  <2>3. ASSUME x = submitting, ~Refused(x), Put(x), mem' = [mem EXCEPT ![x] = "queued"],
               UNCHANGED told, submitting' = None
        PROVE  Submitted(x) /\ StaysBound(x)
    BY <1>1, <2>2, <2>3 DEF Submitted, Put, StaysBound
  <2>4. ASSUME NEW o \in Ops, x # o, Put(o), mem' = [mem EXCEPT ![o] = "queued"], UNCHANGED told
        PROVE  Same(x) /\ StaysBound(x)
    BY <1>1, <2>4 DEF Same, Put, StaysBound
  <2> QED
    BY <1>2, <1>3, <2>1, <2>2, <2>3, <2>4 DEF Submit, Moves
<1>4. ASSUME NEW o \in Ops, Run(o) PROVE Moves(x)
  BY <1>1, <1>4 DEF Run, Put, Moves, StaysBound, Same, Proceeds
<1>5. ASSUME NEW o \in Ops, NEW c \in Calls, Send(o, c) PROVE Moves(x)
  BY <1>1, <1>5 DEF Send, Moves, StaysBound, Same, Proceeds
<1>6. ASSUME NEW o \in Ops, CancelQueued(o) \/ FailToSend(o) \/ LoseAnswer(o) PROVE Moves(x)
  BY <1>6, FinishMoves DEF CancelQueued, FailToSend, LoseAnswer, Active, Ended
<1>7. ASSUME NEW o \in Ops, Receive(o) PROVE Moves(x)
  <2>1. Active(o) /\ call[o] \in Calls /\ key[call[o]] = o
    BY <1>1, <1>7 DEF Receive, Active, IInv, WaitsForItsOwn
  <2>2. answer[call[o]].kind = "result" =>
          Settled(o) /\ \E c \in Sent(o) : c \in effects /\ outcome[c] = "ok"
    BY <2>1, ResultIsReal DEF IInv
  <2>3. Reported(answer[call[o]]) \in Ended
          /\ (Reported(answer[call[o]]) = "succeeded" => answer[call[o]].kind = "result")
    BY DEF Reported, Ended
  <2> QED
    BY <1>7, <2>1, <2>2, <2>3, FinishMoves DEF Receive
<1>8. CASE HandleChanged
  BY <1>1, <1>8 DEF HandleChanged, Shown, Ended, Moves, StaysBound, Same, Forgotten
<1>9. CASE ApplyPlan
  BY <1>1, <1>9 DEF ApplyPlan, Moves, StaysBound, Same, Deleted
<1>10. CASE RestoreNext
  <2>1. PICK o \in recon.restore :
          \/ UNCHANGED ops
          \/ /\ ~Owned(o) /\ Put(o) /\ mem' = [mem EXCEPT ![o] = "queued"]
             /\ UNCHANGED told
    BY <1>10 DEF RestoreNext
  <2>2. UNCHANGED ops => UNCHANGED <<mem, told, journal>>
    BY DEF ops
  <2>3. o \in Ops /\ recon.pc = "restore"
    BY <1>10 DEF IInv, RecoveryTypeOK, RestoreNext
  <2>4. ASSUME x = o, ~Owned(o), Put(o), mem' = [mem EXCEPT ![o] = "queued"], UNCHANGED told
        PROVE  Restored(x) /\ StaysBound(x)
    BY <1>1, <2>3, <2>4 DEF Restored, Put, Owned, StaysBound
  <2>5. ASSUME x # o, Put(o), mem' = [mem EXCEPT ![o] = "queued"], UNCHANGED told
        PROVE  Same(x) /\ StaysBound(x)
    BY <1>1, <2>5 DEF Same, Put, StaysBound
  <2> QED
    BY <1>2, <2>1, <2>2, <2>4, <2>5 DEF Moves
<1>11. CASE Quit
  BY <1>1, <1>11 DEF Quit, Moves, StaysBound, Forgotten
<1> QED
  BY <1>2, <1>3, <1>4, <1>5, <1>6, <1>7, <1>8, <1>9, <1>10, <1>11
     DEF RecoveryNext, recoveryVars, ops, Press, Connect, LoseConnection, Suspend, Resume, ReadJournal, Look, Admit,
         ServerStep, RestartServer
-----------------------------------------------------------------------------
(* The reconciliation. *)
LEMMA Rejournaled ==
  ASSUME IInv, [RecoveryNext]_recoveryVars, NEW o \in before, journal[o] = "none", journal'[o] # "none"
  PROVE  o \in looked
<1>1. o \in Ops /\ Moves(o)
  BY OpMoves DEF IInv, RecoveryTypeOK
<1>2. CASE Submitted(o)
  BY <1>1, <1>2 DEF Submitted, IInv, NotYetSubmitted, Fresh
<1>3. CASE Restored(o)
  BY <1>3 DEF Restored, IInv, PlanFits
<1>4. CASE Proceeds(o) \/ Ends(o)
  <2>1. Active(o)
    BY <1>4 DEF Proceeds, Ends, Active
  <2> QED
    BY <1>1, <2>1 DEF IInv, Remembered
<1> QED
  BY <1>1, <1>2, <1>3, <1>4 DEF Moves, Same, Forgotten, Deleted

Verified == \A o \in before : journal[o] # "none" => o \in looked \cup recon.todo

LEMMA StaysVerified ==
  ASSUME IInv, [RecoveryNext]_recoveryVars, Verified, before' = before,
         looked \cup recon.todo \subseteq looked' \cup recon'.todo
  PROVE  Verified'
BY Rejournaled DEF Verified

LEMMA StaysKnown ==
  ASSUME IInv, [RecoveryNext]_recoveryVars, before' = before, looked \subseteq looked'
  PROVE  \A o \in before' : journal'[o] = "unbound" => o \in looked'
<1> SUFFICES ASSUME NEW o \in before, journal'[o] = "unbound" PROVE o \in looked
  OBVIOUS
<1>1. o \in Ops /\ journal[o] \in {"none", "unbound", "bound"}
  BY DEF IInv, RecoveryTypeOK
<1>2. journal[o] # "bound"
  BY <1>1, OpMoves DEF Moves, StaysBound
<1> QED
  BY <1>1, <1>2, Rejournaled DEF IInv, PlanFits

LEMMA PlanStep ==
  ASSUME IInv, [RecoveryNext]_recoveryVars
  PROVE  PlanFits'
<1> USE DEF PlanFits
<1>0. before' = before /\ looked \subseteq looked' =>
        \A o \in before' : journal'[o] = "unbound" => o \in looked'
  BY StaysKnown
<1>1. /\ PlanFits /\ recon \in Plans /\ (broker \/ recon.pc # "idle" => link = "up")
      /\ \A o \in Ops : Settled(o) => Settled(o)'
      /\ (recon.pc \in {"look", "restore"} \/ broker => Verified)
      /\ broker \in BOOLEAN /\ pending \in BOOLEAN
  BY ServerKeeps DEF IInv, RecoveryTypeOK, Plans, Verified
<1>2. recon.delete \subseteq Ops /\ recon.restore \subseteq Ops /\ recon.todo \subseteq Ops
  BY <1>1 DEF Plans
<1>3. CASE UNCHANGED <<recon, before, looked, broker, pending>>
  <2>1. Verified => Verified'
    BY <1>3, StaysVerified
  <2> QED
    BY <1>0, <1>1, <1>2, <1>3, <2>1 DEF Verified
<1>4. ASSUME recon' = [NoRecon EXCEPT !.pc = "read"], ~broker',
             \A o \in before' : journal'[o] = "unbound" => o \in looked'
      PROVE  PlanFits'
  BY <1>4 DEF NoRecon
<1>5. ASSUME recon' = NoRecon, ~broker',
             \A o \in before' : journal'[o] = "unbound" => o \in looked'
      PROVE  PlanFits'
  BY <1>5 DEF NoRecon
<1>6. CASE HandleChanged
  <2>1. /\ recon' = IF MayReconcile(pending, suspended', link = "up")
                    THEN [NoRecon EXCEPT !.pc = "read"] ELSE recon
        /\ UNCHANGED <<before, looked, broker, pending>>
    BY <1>6 DEF HandleChanged, ReconAfterChange
  <2>2. MayReconcile(pending, suspended', link = "up") => pending
    BY DEF MayReconcile
  <2> QED
    BY <1>0, <1>1, <1>3, <1>4, <2>1, <2>2
<1>7. CASE Connect
  <2>1. /\ recon' = recon \/ recon' = [NoRecon EXCEPT !.pc = "read"]
        /\ link = "down" /\ broker' = broker
        /\ before' = {o \in Ops : journal[o] = "bound"} /\ journal' = journal
    BY <1>7 DEF Connect, ops
  <2>2. recon.pc = "idle" /\ ~broker /\ [NoRecon EXCEPT !.pc = "idle"] = NoRecon
    BY <1>1, <2>1 DEF NoRecon
  <2> QED
    BY <1>1, <1>4, <1>5, <2>1, <2>2
<1>8. ASSUME NEW l, ClearConnection(l) PROVE PlanFits'
  BY <1>0, <1>5, <1>8 DEF ClearConnection, BrokerAfterLoss
<1>9. CASE LoseConnection \/ Suspend
  BY <1>8, <1>9 DEF LoseConnection, Suspend
<1>10. CASE ReadJournal
  <2>1. /\ recon = [NoRecon EXCEPT !.pc = "read"]
        /\ recon' = [recon EXCEPT !.pc = "look", !.todo = {o \in Ops : journal[o] # "none"}]
        /\ UNCHANGED <<before, looked, broker, pending, journal>> /\ ~broker
    BY <1>1, <1>10 DEF ReadJournal, ops
  <2>2. recon'.pc = "look" /\ recon'.todo = {o \in Ops : journal[o] # "none"}
        /\ recon'.delete = {} /\ recon'.restore = {}
    BY <2>1 DEF NoRecon
  <2>3. before \subseteq Ops
    BY DEF IInv, RecoveryTypeOK
  <2> QED
    BY <1>0, <2>1, <2>2, <2>3
<1>11. CASE Look
  <2>1. PICK o \in recon.todo :
          \/ /\ journal[o] # "bound"
             /\ recon' = [recon EXCEPT !.todo = @ \ {o}]
             /\ UNCHANGED looked
          \/ /\ recon' = [recon EXCEPT
                  !.todo = @ \ {o},
                  !.delete = IF receipt[o].status \in {"completed", "failed"} THEN @ \cup {o} ELSE @,
                  !.restore = IF receipt[o].status = "absent" /\ Repeatable(o) THEN @ \cup {o} ELSE @]
             /\ looked' = looked \cup {o}
    BY <1>11 DEF Look
  <2>2. recon.pc = "look" /\ UNCHANGED <<before, broker, pending, receipt, journal>>
    BY <1>11 DEF Look, server, vars, ops
  <2>6. \A x \in Ops : Settled(x)' <=> Settled(x)
    BY <2>2 DEF Settled
  <2>7. CASE journal[o] # "bound" /\ recon' = [recon EXCEPT !.todo = @ \ {o}] /\ UNCHANGED looked
    <3>1. /\ recon'.pc = "look" /\ recon'.todo = recon.todo \ {o}
          /\ recon'.delete = recon.delete /\ recon'.restore = recon.restore
      BY <1>1, <2>2, <2>7 DEF Plans
    <3>2. o \in before => journal[o] = "none" \/ o \in looked
      BY <1>1, <2>7 DEF IInv, RecoveryTypeOK
    <3>3. Verified'
      BY <1>1, <2>2, <2>7, <3>1, <3>2 DEF Verified
    <3> QED
      BY <1>0, <1>1, <1>2, <2>2, <2>6, <2>7, <3>1, <3>3 DEF Verified
  <2>8. CASE /\ recon' = [recon EXCEPT
                  !.todo = @ \ {o},
                  !.delete = IF receipt[o].status \in {"completed", "failed"} THEN @ \cup {o} ELSE @,
                  !.restore = IF receipt[o].status = "absent" /\ Repeatable(o) THEN @ \cup {o} ELSE @]
             /\ looked' = looked \cup {o}
    <3>1. /\ recon'.pc = "look" /\ recon'.todo = recon.todo \ {o}
          /\ recon'.delete \subseteq IF Settled(o) THEN recon.delete \cup {o} ELSE recon.delete
          /\ recon'.restore \subseteq IF o \in Safe THEN recon.restore \cup {o} ELSE recon.restore
      BY <1>1, <2>2, <2>8 DEF Plans, Settled, Repeatable
    <3>2. Verified'
      BY <1>1, <2>2, <2>8, <3>1, StaysVerified
    <3> QED
      BY <1>0, <1>1, <1>2, <2>2, <2>6, <2>8, <3>1, <3>2 DEF Verified
  <2> QED
    BY <2>1, <2>7, <2>8
<1>12. CASE ApplyPlan
  <2>1. /\ recon' = [recon EXCEPT !.pc = "restore"] /\ recon.pc = "look" /\ recon.todo = {}
        /\ UNCHANGED <<before, looked, broker, pending>>
    BY <1>12 DEF ApplyPlan
  <2>2. /\ recon'.pc = "restore" /\ recon'.todo = {} /\ recon'.delete = recon.delete
        /\ recon'.restore = recon.restore
    BY <1>1, <2>1 DEF Plans
  <2>3. Verified'
    BY <1>1, <2>1, <2>2, StaysVerified
  <2> QED
    BY <1>0, <1>1, <1>2, <2>1, <2>2, <2>3 DEF Verified
<1>13. CASE RestoreNext
  <2>1. CASE ClearConnection("paused")
    BY <1>8, <2>1
  <2>2. ASSUME NEW o \in recon.restore, recon' = [recon EXCEPT !.restore = @ \ {o}],
               UNCHANGED <<broker, pending, before, looked>>
        PROVE  PlanFits'
    <3>1. /\ recon'.pc = recon.pc /\ recon'.todo = recon.todo /\ recon'.delete = recon.delete
          /\ recon'.restore \subseteq recon.restore /\ recon.pc = "restore"
      BY <1>1, <1>13, <2>2 DEF Plans, RestoreNext
    <3>2. Verified'
      BY <1>1, <2>2, <3>1, StaysVerified
    <3> QED
      BY <1>0, <1>1, <1>2, <2>2, <3>1, <3>2 DEF Verified
  <2> QED
    BY <1>13, <2>1, <2>2 DEF RestoreNext
<1>14. CASE Admit
  <2>1. /\ recon.pc = "restore" /\ recon' = NoRecon /\ pending' = FALSE
        /\ UNCHANGED <<before, looked, journal>>
    BY <1>14 DEF Admit, ops
  <2>2. recon'.pc = "idle" /\ recon'.todo = {} /\ recon'.delete = {} /\ recon'.restore = {}
          /\ recon' = [NoRecon EXCEPT !.pc = recon'.pc]
    BY <2>1 DEF NoRecon
  <2> QED
    BY <1>0, <1>1, <2>1, <2>2 DEF Verified
<1>15. CASE Quit
  BY <1>0, <1>5, <1>15 DEF Quit
<1> QED
  BY <1>3, <1>6, <1>7, <1>9, <1>10, <1>11, <1>12, <1>13, <1>14, <1>15
     DEF RecoveryNext, recoveryVars, control, Press, Submit, Run, CancelQueued, Send, FailToSend, Receive, LoseAnswer,
         Resume, ServerStep, RestartServer
-----------------------------------------------------------------------------
(* Who may be sent. *)
LEMMA SendsMove ==
  ASSUME IInv, NEW o \in Ops, NEW c \in Calls, Send(o, c)
  PROVE  mem[o] = "running" /\ mem'[o] = "sent" /\ call'[o] = c
BY DEF IInv, RecoveryTypeOK, Send

LEMMA NotSentYetStep ==
  ASSUME IInv, [RecoveryNext]_recoveryVars
  PROVE  NotSentYet'
<1> SUFFICES ASSUME NEW o \in Ops \ Safe, mem'[o] \in {"queued", "running"}
             PROVE  Sent(o)' = {}
  BY DEF NotSentYet
<1>1. Sent(o) = {}
  <2>1. CASE Submitted(o)
    BY <2>1 DEF Submitted, IInv, NotYetSubmitted, Fresh
  <2>2. ~Restored(o)
    BY DEF Restored, IInv, PlanFits
  <2>3. CASE mem[o] \in {"queued", "running"}
    BY <2>3 DEF IInv, NotSentYet
  <2> QED
    BY <2>1, <2>2, <2>3, OpMoves DEF Moves, Same, Proceeds, Ends, Ended, Forgotten, Deleted
<1>2. \A c \in Calls : ~Send(o, c)
  BY SendsMove
<1> QED
  BY <1>1, <1>2, SentKeeps DEF IInv

LEMMA SentOnceStep ==
  ASSUME IInv, [RecoveryNext]_recoveryVars
  PROVE  SentOnce'
<1>1. CASE key' = key
  BY <1>1 DEF IInv, SentOnce
<1>2. ASSUME NEW x \in Ops, NEW c \in Calls, Send(x, c), key'[c] = x,
             \A d \in Calls \ {c} : key'[d] = key[d]
      PROVE  SentOnce'
  <2>1. x \notin Safe => \A d \in Calls : key[d] # x
    BY <1>2, SendsMove DEF IInv, NotSentYet, Sent
  <2> QED
    BY <1>2, <2>1 DEF IInv, SentOnce
<1> QED
  BY <1>1, <1>2, ServerKeeps DEF IInv

LEMMA StillWaits ==
  ASSUME IInv, [RecoveryNext]_recoveryVars, NEW o \in Ops, mem'[o] = "sent", \A c \in Calls : ~Send(o, c)
  PROVE  mem[o] = "sent" /\ call'[o] = call[o]
<1>1. /\ mem \in [Ops -> Ended \cup {"none", "queued", "running", "sent"}]
      /\ call \in [Ops -> Calls \cup {None}]
  BY DEF IInv, RecoveryTypeOK
<1>2. CASE UNCHANGED <<mem, call>>
  BY <1>2
<1>3. CASE UNCHANGED call /\ \E x \in Ops, s \in {"queued", "running"} : mem' = [mem EXCEPT ![x] = s]
  BY <1>1, <1>3
<1>4. ASSUME NEW x \in Ops, NEW s \in Ended, Finish(x, s) PROVE mem[o] = "sent" /\ call'[o] = call[o]
  BY <1>1, <1>4 DEF Finish, Ended
<1>5. ASSUME NEW x \in Ops, CancelQueued(x) \/ FailToSend(x) \/ Receive(x) \/ LoseAnswer(x)
      PROVE  mem[o] = "sent" /\ call'[o] = call[o]
  BY <1>4, <1>5 DEF CancelQueued, FailToSend, Receive, LoseAnswer, Reported, Ended
<1>6. ASSUME NEW x \in Ops, NEW c \in Calls, Send(x, c) PROVE mem[o] = "sent" /\ call'[o] = call[o]
  <2>1. x # o
    BY <1>6
  <2> QED
    BY <1>1, <1>6, <2>1 DEF Send
<1>7. CASE HandleChanged
  BY <1>1, <1>7 DEF HandleChanged
<1>8. CASE Quit
  BY <1>8 DEF Quit
<1>9. CASE Submit \/ RestoreNext \/ \E x \in Ops : Run(x)
  <2>1. recon.restore \subseteq Ops /\ submitting \in Ops \cup {None}
    BY DEF IInv, RecoveryTypeOK
  <2>2. CASE UNCHANGED ops
    BY <1>2, <2>2 DEF ops
  <2>3. CASE ~UNCHANGED ops
    BY <1>3, <1>9, <2>1, <2>3 DEF Submit, RestoreNext, Run
  <2> QED
    BY <2>2, <2>3
<1> QED
  BY <1>2, <1>5, <1>6, <1>7, <1>8, <1>9
     DEF RecoveryNext, recoveryVars, ops, Press, Connect, LoseConnection, Suspend, Resume, ReadJournal, Look, ApplyPlan,
         Admit, ServerStep, RestartServer

LEMMA WaitsStep ==
  ASSUME IInv, [RecoveryNext]_recoveryVars
  PROVE  WaitsForItsOwn'
<1> SUFFICES ASSUME NEW o \in Ops, mem'[o] = "sent" PROVE key'[call'[o]] = o
  BY DEF WaitsForItsOwn
<1>1. ASSUME NEW c \in Calls, Send(o, c) PROVE key'[call'[o]] = o
  <2>1. key'[c] = o
    BY <1>1 DEF Send, Call, IInv, ServerFits, ReceiptsInv, TypeOK
  <2> QED
    BY <1>1, <2>1, SendsMove
<1>2. ASSUME \A c \in Calls : ~Send(o, c) PROVE key'[call'[o]] = o
  <2>1. mem[o] = "sent" /\ call'[o] = call[o]
    BY <1>2, StillWaits
  <2>2. call[o] \in Calls /\ key[call[o]] = o
    BY <2>1 DEF IInv, RecoveryTypeOK, WaitsForItsOwn
  <2> QED
    BY <2>1, <2>2, SentKeeps DEF IInv, Sent
<1> QED
  BY <1>1, <1>2
-----------------------------------------------------------------------------
(* What is remembered. *)
LEMMA SuccessStep ==
  ASSUME IInv, [RecoveryNext]_recoveryVars
  PROVE  SuccessFits'
<1> SUFFICES ASSUME NEW o \in Ops, told'[o] = "succeeded" \/ mem'[o] = "succeeded"
             PROVE  \E c \in Sent(o)' : c \in effects' /\ outcome'[c] = "ok"
  BY DEF SuccessFits
<1>1. \E c \in Sent(o) : c \in effects /\ outcome[c] = "ok"
  BY OpMoves DEF Moves, Same, Submitted, Restored, Proceeds, Ends, Forgotten, Deleted, IInv, SuccessFits
<1> QED
  BY <1>1, SentKeeps, ServerKeeps DEF IInv, Sent

LEMMA HistoryStep ==
  ASSUME [RecoveryNext]_recoveryVars
  PROVE  \/ before' = before /\ looked \subseteq looked'
         \/ before' = {x \in Ops : journal[x] = "bound"} /\ journal' = journal
BY DEF RecoveryNext, recoveryVars, ops, control, Press, Submit, Run, CancelQueued, Send, FailToSend, Receive,
       LoseAnswer, HandleChanged, Connect, LoseConnection, Suspend, Resume, ReadJournal, Look,
       ApplyPlan, RestoreNext, Admit, Quit, ServerStep, RestartServer, ClearConnection

LEMMA RememberedStep ==
  ASSUME IInv, [RecoveryNext]_recoveryVars
  PROVE  Remembered'
<1> SUFFICES ASSUME NEW o \in Ops, journal'[o] = "none"
             PROVE  /\ Active(o)' => (o \in before' => o \in looked')
                    /\ Active(o)' \/ mem'[o] \in {"succeeded", "unknown"} => Settled(o)'
                    /\ Sent(o)' # {} => Settled(o)' \/ Dismissed(o)'
  BY DEF Remembered
<1>1. Settled(o) => Settled(o)'
  BY ServerKeeps DEF IInv
<1>2. o \in before' => o \in looked' \/ (o \in before /\ o \notin looked)
  BY HistoryStep
<1>3. mem'[o] # "sent" \/ mem[o] # "running" => Sent(o)' = Sent(o)
  BY SendsMove, SentKeeps DEF IInv
<1>4. journal[o] = "none" =>
        /\ Active(o) => (o \in before => o \in looked)
        /\ Active(o) \/ mem[o] \in {"succeeded", "unknown"} => Settled(o)
        /\ Sent(o) # {} => Settled(o) \/ Dismissed(o)
  BY DEF IInv, Remembered
<1>5. CASE Same(o)
  BY <1>1, <1>2, <1>3, <1>4, <1>5 DEF Same, Active, Dismissed
<1>9. CASE Forgotten(o)
  BY <1>1, <1>2, <1>3, <1>4, <1>9 DEF Forgotten, Active, Dismissed
<1>6. CASE Proceeds(o)
  BY <1>1, <1>2, <1>3, <1>4, <1>6 DEF Proceeds, Active
<1>7. CASE Ends(o)
  BY <1>1, <1>7 DEF Ends, Ended, Active, Dismissed
<1>8. CASE Deleted(o)
  <2>1. Settled(o) /\ o \in looked
    BY <1>8 DEF Deleted, IInv, PlanFits
  <2> QED
    BY <1>1, <1>2, <2>1
<1> QED
  BY <1>5, <1>6, <1>7, <1>8, <1>9, OpMoves DEF Moves, Submitted, Restored

Involved == before \cup looked \cup recon.todo \cup recon.delete \cup recon.restore

LEMMA InvolvedStep ==
  ASSUME IInv, [RecoveryNext]_recoveryVars, NEW o \in Ops, o \notin Involved, journal[o] = "none"
  PROVE  o \notin Involved'
<1> USE DEF Involved
<1>1. recon \in Plans
  BY DEF IInv, RecoveryTypeOK, Plans
<1>2. CASE UNCHANGED <<before, looked, recon>>
  BY <1>2
<1>3. ASSUME recon' \in {recon, NoRecon, [NoRecon EXCEPT !.pc = "read"]},
             o \notin before', o \notin looked'
      PROVE  o \notin Involved'
  BY <1>3 DEF NoRecon
<1>4. CASE HandleChanged \/ Connect \/ Admit \/ Quit
  BY <1>3, <1>4 DEF HandleChanged, ReconAfterChange, Connect, Admit, Quit
<1>5. CASE LoseConnection \/ Suspend
  BY <1>3, <1>5 DEF LoseConnection, Suspend, ClearConnection
<1>6. CASE ReadJournal
  BY <1>1, <1>6 DEF ReadJournal, Plans
<1>7. CASE Look
  <2>1. CASE \E x \in recon.todo : recon' = [recon EXCEPT !.todo = @ \ {x}] /\ UNCHANGED looked
    BY <1>1, <1>7, <2>1 DEF Look, Plans
  <2>2. CASE \E x \in recon.todo :
               /\ recon' = [recon EXCEPT
                    !.todo = @ \ {x},
                    !.delete = IF receipt[x].status \in {"completed", "failed"} THEN @ \cup {x} ELSE @,
                    !.restore = IF receipt[x].status = "absent" /\ Repeatable(x) THEN @ \cup {x} ELSE @]
               /\ looked' = looked \cup {x}
    <3>1. PICK x \in recon.todo :
               /\ recon' = [recon EXCEPT
                    !.todo = @ \ {x},
                    !.delete = IF receipt[x].status \in {"completed", "failed"} THEN @ \cup {x} ELSE @,
                    !.restore = IF receipt[x].status = "absent" /\ Repeatable(x) THEN @ \cup {x} ELSE @]
               /\ looked' = looked \cup {x}
      BY <2>2
    <3>2. /\ recon'.todo = recon.todo \ {x}
          /\ recon'.delete \subseteq recon.delete \cup {x}
          /\ recon'.restore \subseteq recon.restore \cup {x}
      BY <1>1, <3>1 DEF Plans
    <3> QED
      BY <1>7, <3>1, <3>2 DEF Look
  <2> QED
    BY <1>7, <2>1, <2>2 DEF Look
<1>8. CASE ApplyPlan
  BY <1>1, <1>8 DEF ApplyPlan, Plans
<1>9. CASE RestoreNext
  <2>1. CASE ClearConnection("paused")
    BY <1>3, <2>1 DEF ClearConnection
  <2>2. ASSUME NEW x \in recon.restore, recon' = [recon EXCEPT !.restore = @ \ {x}],
               UNCHANGED <<before, looked>>
        PROVE  o \notin Involved'
    BY <1>1, <2>2 DEF Plans
  <2> QED
    BY <1>9, <2>1, <2>2 DEF RestoreNext
<1> QED
  BY <1>2, <1>4, <1>5, <1>6, <1>7, <1>8, <1>9
     DEF RecoveryNext, recoveryVars, control, Press, Submit, Run, CancelQueued, Send, FailToSend, Receive, LoseAnswer,
         Resume, ServerStep, RestartServer

LEMMA NotYetSubmittedStep ==
  ASSUME IInv, [RecoveryNext]_recoveryVars
  PROVE  NotYetSubmitted'
<1>1. /\ pressed \subseteq pressed'
      /\ \/ submitting' = submitting \/ submitting' = None
         \/ \E o \in Ops : Press(o) /\ submitting' = o
  BY DEF RecoveryNext, recoveryVars, ui, Press, Submit, Run, CancelQueued, Send, FailToSend, Receive, LoseAnswer,
         HandleChanged, Connect, LoseConnection, Suspend, Resume, ReadJournal, Look, ApplyPlan,
         RestoreNext, Admit, Quit, ServerStep, RestartServer
<1>2. submitting' # None => submitting' \in pressed'
  BY <1>1 DEF Press, IInv, NotYetSubmitted
<1>3. ASSUME NEW o \in Ops, Fresh(o), ~Submitted(o) PROVE Fresh(o)'
  <2>1. mem'[o] = "none" /\ journal'[o] = "none"
    BY <1>3, OpMoves DEF Fresh, Moves, Same, Restored, Proceeds, Ends, Active, Forgotten, Deleted
  <2>2. Sent(o)' = {}
    BY <1>3, <2>1, SendsMove, SentKeeps DEF Fresh, IInv
  <2>3. o \notin Involved'
    BY <1>3, InvolvedStep DEF Fresh, Involved
  <2> QED
    BY <2>1, <2>2, <2>3 DEF Fresh, Involved
<1>4. ASSUME NEW o \in Ops, o \notin pressed' \/ submitting' = o PROVE Fresh(o)'
  <2>1. o \notin pressed \/ submitting = o
    BY <1>1, <1>4, NoneAssumption, KeysAssumption DEF Press
  <2>2. ~Submitted(o)
    BY <1>1, <1>4, NoneAssumption, KeysAssumption DEF Submitted, IInv, NotYetSubmitted
  <2> QED
    BY <1>3, <2>1, <2>2 DEF IInv, NotYetSubmitted
<1> QED
  BY <1>2, <1>4 DEF NotYetSubmitted
-----------------------------------------------------------------------------
LEMMA Begins == RecoveryInit => IInv
<1> SUFFICES ASSUME RecoveryInit PROVE IInv
  OBVIOUS
<1> USE DEF RecoveryInit
<1>1. RecoveryTypeOK
  <2>1. OpsTypes
    BY Limits, NoneAssumption DEF OpsTypes, Ended
  <2>2. ControlTypes
    <3>1. NoRecon.pc = "idle" /\ 0 \in 0 .. MaxSessions
      BY Limits DEF NoRecon
    <3> QED
      BY <3>1, FirstPlans DEF ControlTypes
  <2>3. OtherTypes
    BY Limits DEF OtherTypes
  <2> QED
    BY <2>1, <2>2, <2>3, Types
<1>2. ServerFits
  BY ServerBegins
<1>3. \A o \in Ops : Sent(o) = {}
  BY NoneAssumption, KeysAssumption DEF Sent, Init
<1>4. /\ recon.todo = {} /\ recon.delete = {} /\ recon.restore = {} /\ recon.pc = "idle"
      /\ recon = [NoRecon EXCEPT !.pc = recon.pc]
  BY DEF NoRecon
<1>5. PlanFits
  BY <1>4 DEF PlanFits
<1>6. NotYetSubmitted
  BY <1>3, <1>4, NoneAssumption DEF NotYetSubmitted, Fresh
<1>7. NotSentYet /\ SentOnce /\ WaitsForItsOwn /\ Remembered /\ SuccessFits
  BY <1>3, NoneAssumption DEF NotSentYet, SentOnce, WaitsForItsOwn, Remembered, SuccessFits, Active, Sent
<1> QED
  BY <1>1, <1>2, <1>5, <1>6, <1>7 DEF IInv

LEMMA IInvStep == IInv /\ [RecoveryNext]_recoveryVars => IInv'
<1> SUFFICES ASSUME IInv, [RecoveryNext]_recoveryVars PROVE IInv'
  OBVIOUS
<1>1. RecoveryTypeOK' /\ ServerFits'
  BY TypeStep, ServerKeeps DEF IInv
<1>2. NotYetSubmitted' /\ NotSentYet' /\ SentOnce' /\ WaitsForItsOwn'
  BY NotYetSubmittedStep, NotSentYetStep, SentOnceStep, WaitsStep
<1>3. Remembered' /\ SuccessFits' /\ PlanFits'
  BY RememberedStep, SuccessStep, PlanStep
<1> QED
  BY <1>1, <1>2, <1>3 DEF IInv

(* The invariant of the client and the server together. *)
THEOREM InvariantHolds == RecoverySpec => []IInv
BY Begins, IInvStep, PTL DEF RecoverySpec
-----------------------------------------------------------------------------
(* The coordinator, the journal and the controller keep their types; an    *)
(* operation waits for an answer exactly when it has been sent, and only a *)
(* connected controller lets one through (adapters/gio, app.go).           *)
THEOREM TypeCorrect == RecoverySpec => []RecoveryTypeOK
<1>1. IInv => RecoveryTypeOK
  BY DEF IInv
<1> QED
  BY <1>1, InvariantHolds, PTL

(* Coordinator.finish, nativeOperationJournal.apply: an operation that was *)
(* sent leaves the journal only with its outcome on record at the server,  *)
(* after an end as failed, or after it was cancelled in the queue; what    *)
(* ended with an unknown outcome is kept until the server knows it.        *)
THEOREM Remembers == RecoverySpec => []NothingForgotten
<1>1. IInv => NothingForgotten
  BY DEF IInv, Remembered, NothingForgotten, Settled, Dismissed
<1> QED
  BY <1>1, InvariantHolds, PTL

(* The user is told of success only of what took effect, a replay takes    *)
(* effect once, and what is not safe to repeat is sent once.               *)
THEOREM TellsTheTruth == RecoverySpec => []SuccessIsReal
<1>1. IInv => SuccessIsReal
  <2> SUFFICES ASSUME IInv PROVE SuccessIsReal
    OBVIOUS
  <2>1. \A o \in Ops : told[o] = "succeeded" => \E c \in Sent(o) : c \in effects /\ outcome[c] = "ok"
    BY DEF IInv, SuccessFits
  <2>2. \A c, d \in effects : key[c] = key[d] => c = d
    BY DEF IInv, ServerFits, ReceiptsInv, TypeOK, HoldersFit, Holds
  <2>3. ASSUME NEW o \in Ops \ Safe PROVE Cardinality(Sent(o)) <= 1
    <3>1. CASE Sent(o) = {}
      <4>1. Cardinality(Sent(o)) = 0
        BY <3>1, FS_EmptySet, Zenon
      <4> QED
        BY <4>1
    <3>2. ASSUME NEW c \in Sent(o) PROVE Cardinality(Sent(o)) <= 1
      <4>1. Sent(o) = {c}
        BY <3>2 DEF Sent, IInv, SentOnce
      <4> QED
        <5>1. Cardinality(Sent(o)) = 1
          BY <4>1, FS_Singleton, Zenon
        <5> QED
          BY <5>1
    <3> QED
      BY <3>1, <3>2
  <2> QED
    BY <2>1, <2>2, <2>3 DEF SuccessIsReal
<1> QED
  BY <1>1, InvariantHolds, PTL

(* nativeOperationJournal.inspect: the broker gets the new session's client*)
(* only when the receipts of all that was journaled for its server as the  *)
(* session began were looked up.                                           *)
THEOREM VerifiesFirst == RecoverySpec => []VerifiedBeforeAdmitted
<1>1. IInv => VerifiedBeforeAdmitted
  <2> SUFFICES ASSUME IInv, broker PROVE \A o \in before : journal[o] # "none" => o \in looked
    BY DEF VerifiedBeforeAdmitted
  <2>1. recon.pc = "idle" /\ recon = [NoRecon EXCEPT !.pc = recon.pc]
    BY DEF IInv, PlanFits
  <2>2. recon.todo = {}
    BY <2>1 DEF NoRecon
  <2> QED
    BY <2>2 DEF IInv, PlanFits
<1> QED
  BY <1>1, InvariantHolds, PTL

(* Of the client's and the server's steps together, those of the server    *)
(* are a behaviour of the receipts by themselves, with operations as keys: *)
(* the client calls only calls that are not in use, and each call asks for *)
(* one operation, so that what is proved of the receipts holds with this   *)
(* client (executeIdempotentCommand, Coordinator.execute).                 *)
THEOREM ServerKeepsReceipts == RecoverySpec => Spec
<1>1. RecoveryInit => Init
  BY DEF RecoveryInit
<1>2. [RecoveryNext]_recoveryVars => [Next]_vars
  BY ServerSteps, KeysAssumption DEF Next, vars, server
<1> QED
  BY <1>1, <1>2, PTL DEF RecoverySpec, Spec

(* What the server promises of its receipts, it promises this client: the  *)
(* command of an operation takes effect once at most, however often it is  *)
(* sent and whichever side restarts, and every outcome that the client is  *)
(* given is that of its own command and stays the one on record.           *)
THEOREM ClientIsServed ==
  RecoverySpec => []AtMostOnce /\ []AnswersAreTrue /\ ReceiptIsFinal
<1> QED
  BY ServerKeepsReceipts, EffectsHappenOnce, OutcomesAreTrue, ReceiptsStay, PTL
=============================================================================
