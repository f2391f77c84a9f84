--------------------------- MODULE CommandReceipts ---------------------------
(***************************************************************************)
(* The receipts that make a command with an idempotency key happen at most *)
(* once: the table command_receipts and the calls of                       *)
(* executeIdempotentCommand that are in progress in the server.            *)
(*                                                                         *)
(* A call is one request that reached a handler.  Its steps are the single *)
(* statements on the table and the command itself, and the calls of one    *)
(* key interleave.  The result of a command is told apart by the call that *)
(* executed it, the command (operation and fingerprint) by its payload.    *)
(* A call without a key executes directly and is not part of this module.  *)
(*                                                                         *)
(* A definition named Slip... is the next one with a plausible mistake in  *)
(* it, put in its place to see that a property notices.                    *)
(***************************************************************************)
EXTENDS Naturals

CONSTANTS Keys, Payloads, Calls,
          None,         \* no key, payload or call
          StoreFails,   \* TRUE when statements on the table may fail
          MaxRestarts   \* bound: restarts of the server

ASSUME NoneAssumption == None \notin Keys \cup Payloads \cup Calls
ASSUME RestartsAssumption == MaxRestarts \in Nat /\ StoreFails \in BOOLEAN

VARIABLES receipt,   \* command_receipts, by key
          pc,        \* where each call is
          key,       \* what it asked for
          payload,
          outcome,   \* how the command it executed ended
          answer,    \* what it returned
          effects,   \* history: the calls whose command took effect, if only in part
          restarts

vars == <<receipt, pc, key, payload, outcome, answer, effects, restarts>>
-----------------------------------------------------------------------------
Absent == [status |-> "absent", payload |-> None, by |-> None]

Receipt == [status : {"absent", "pending", "completed", "failed", "outcome_unknown"},
            payload : Payloads \cup {None}, by : Calls \cup {None}]

(* "result" and "error" carry the outcome of the execution `of'; the other *)
(* kinds are errors of the receipt protocol itself.                        *)
Answer == [kind : {"none", "result", "error", "conflict", "pending", "unknown", "internal"},
           of : Calls \cup {None}]

Reply(kind, c) == [kind |-> kind, of |-> c]

Claiming  == {"claimed", "execute", "record"}   \* calls that hold the claim of their key
Underway  == Claiming \cup {"claim", "taken"}

Init ==
  /\ receipt = [k \in Keys |-> Absent]
  /\ pc = [c \in Calls |-> "idle"]
  /\ key = [c \in Calls |-> None]
  /\ payload = [c \in Calls |-> None]
  /\ outcome = [c \in Calls |-> "none"]
  /\ answer = [c \in Calls |-> Reply("none", None)]
  /\ effects = {}
  /\ restarts = 0

MoveTo(c, to) == pc' = [pc EXCEPT ![c] = to]

Return(c, kind, of) ==
  /\ MoveTo(c, "done")
  /\ answer' = [answer EXCEPT ![c] = Reply(kind, of)]

Call(c, k, p) ==
  /\ pc[c] = "idle"
  /\ MoveTo(c, "claim")
  /\ key' = [key EXCEPT ![c] = k]
  /\ payload' = [payload EXCEPT ![c] = p]
  /\ UNCHANGED <<receipt, outcome, answer, effects, restarts>>
-----------------------------------------------------------------------------
SlipClaimable(k) == receipt[k].status \in {"absent", "failed"}  \* lets one retry what failed

Claimable(k) == receipt[k].status = "absent"

(* INSERT OR IGNORE, whose row count says whose the key is. *)
Claim(c) ==
  /\ pc[c] = "claim"
  /\ LET k == key[c] IN
     \/ /\ Claimable(k)
        /\ receipt' = [receipt EXCEPT ![k] = [status |-> "pending", payload |-> payload[c], by |-> None]]
        /\ MoveTo(c, "claimed")
     \/ ~Claimable(k) /\ MoveTo(c, "taken") /\ UNCHANGED receipt
  /\ UNCHANGED <<key, payload, outcome, answer, effects, restarts>>

(* The request was cancelled, or the database failed: nothing is claimed. *)
FailToClaim(c) ==
  /\ pc[c] = "claim"
  /\ Return(c, "internal", None)
  /\ UNCHANGED <<receipt, key, payload, outcome, effects, restarts>>

(* The claim ends with reading the receipt, which may fail as well; the    *)
(* receipt of a key that was claimed is then left pending.                 *)
ReadBack(c) ==
  /\ pc[c] = "claimed"
  /\ \/ MoveTo(c, "execute") /\ UNCHANGED answer
     \/ StoreFails /\ Return(c, "internal", None)
  /\ UNCHANGED <<receipt, key, payload, outcome, effects, restarts>>

SlipSameCommand(c, r) == TRUE

SameCommand(c, r) == r.payload = payload[c]

Replayed(r) ==
  CASE r.status = "completed"       -> Reply("result", r.by)
    [] r.status = "failed"          -> Reply("error", r.by)
    [] r.status = "outcome_unknown" -> Reply("unknown", None)
    [] OTHER                        -> Reply("pending", None)

(* The key was used before. *)
ReplayReceipt(c) ==
  /\ pc[c] = "taken"
  /\ LET r == receipt[key[c]] IN
     \/ ~SameCommand(c, r) /\ Return(c, "conflict", None)
     \/ /\ SameCommand(c, r)
        /\ MoveTo(c, "done")
        /\ answer' = [answer EXCEPT ![c] = Replayed(r)]
     \/ StoreFails /\ Return(c, "internal", None)
  /\ UNCHANGED <<receipt, key, payload, outcome, effects, restarts>>
-----------------------------------------------------------------------------
(* A command that returns an error may have taken effect in part. *)
Execute(c) ==
  /\ pc[c] = "execute"
  /\ \/ outcome' = [outcome EXCEPT ![c] = "ok"] /\ effects' = effects \cup {c}
     \/ outcome' = [outcome EXCEPT ![c] = "error"] /\ effects' \in {effects, effects \cup {c}}
  /\ MoveTo(c, "record")
  /\ UNCHANGED <<receipt, key, payload, answer, restarts>>

Recorded(c) ==
  [receipt[key[c]] EXCEPT !.status = IF outcome[c] = "ok" THEN "completed" ELSE "failed", !.by = c]

(* CompleteCommandReceipt, or FailCommandReceipt.  When the row cannot be  *)
(* written, the caller is told so, and not what the command has done.      *)
Record(c) ==
  /\ pc[c] = "record"
  /\ \/ /\ receipt[key[c]].status = "pending"
        /\ receipt' = [receipt EXCEPT ![key[c]] = Recorded(c)]
        /\ Return(c, IF outcome[c] = "ok" THEN "result" ELSE "error", c)
     \/ /\ StoreFails \/ receipt[key[c]].status # "pending"
        /\ Return(c, "internal", None)
        /\ UNCHANGED receipt
  /\ UNCHANGED <<key, payload, outcome, effects, restarts>>

SlipAfterRestart(r) == r

AfterRestart(r) == IF r.status = "pending" THEN [r EXCEPT !.status = "outcome_unknown"] ELSE r

(* The server ends, in the middle of commands perhaps, and starts again;   *)
(* it marks what is pending before it serves.                              *)
Restart ==
  /\ restarts < MaxRestarts
  /\ restarts' = restarts + 1
  /\ receipt' = [k \in Keys |-> AfterRestart(receipt[k])]
  /\ pc' = [c \in Calls |-> IF pc[c] \in Underway THEN "cut" ELSE pc[c]]
  /\ \E partly \in SUBSET {c \in Calls : pc[c] = "execute"} : effects' = effects \cup partly
  /\ UNCHANGED <<key, payload, outcome, answer>>

Step(c) == \/ Claim(c) \/ FailToClaim(c) \/ ReadBack(c) \/ ReplayReceipt(c)
           \/ Execute(c) \/ Record(c)

Next ==
  \/ \E c \in Calls, k \in Keys, p \in Payloads : Call(c, k, p)
  \/ \E c \in Calls : Step(c)
  \/ Restart

Spec == Init /\ [][Next]_vars
-----------------------------------------------------------------------------
TypeOK ==
  /\ receipt \in [Keys -> Receipt]
  /\ pc \in [Calls -> Underway \cup {"idle", "done", "cut"}]
  /\ key \in [Calls -> Keys \cup {None}]
  /\ payload \in [Calls -> Payloads \cup {None}]
  /\ outcome \in [Calls -> {"none", "ok", "error"}]
  /\ answer \in [Calls -> Answer]
  /\ effects \subseteq Calls
  /\ restarts \in 0 .. MaxRestarts

(* However many calls carry a key, whatever they carry it for, and         *)
(* whenever the server restarts, at most one of them takes effect.         *)
AtMostOnce == \A c, d \in effects : key[c] = key[d] => c = d

(* Who is given an outcome is given that of his own command, and all who   *)
(* are given one for a key are given the same.                             *)
AnswersAreTrue ==
  /\ \A c \in Calls : answer[c].kind \in {"result", "error"} =>
       LET d == answer[c].of IN
       /\ d \in Calls
       /\ key[d] = key[c] /\ payload[d] = payload[c]
       /\ answer[c].kind = "result" => d \in effects /\ outcome[d] = "ok"
       /\ answer[c].kind = "error" => outcome[d] = "error"
  /\ \A c, d \in Calls :
       /\ answer[c].kind \in {"result", "error"} /\ answer[d].kind \in {"result", "error"}
       /\ key[c] = key[d]
       => answer[c] = answer[d]

(* A receipt is pending only while a call has the claim, unless the        *)
(* database failed between the claim and the record: no restart and no     *)
(* failed command leaves a key that answers `pending' for ever.            *)
PendingHasAnOwner ==
  \A k \in Keys :
    receipt[k].status = "pending" =>
      \E c \in Calls : key[c] = k /\ (pc[c] \in Claiming \/ answer[c].kind = "internal")

(* What a receipt says in the end stays, and it is for one command only.   *)
ReceiptIsFinal ==
  [][\A k \in Keys :
       /\ receipt[k].status \notin {"absent", "pending"} => receipt'[k] = receipt[k]
       /\ receipt[k].status # "absent" =>
            receipt'[k].status # "absent" /\ receipt'[k].payload = receipt[k].payload]_vars
=============================================================================
