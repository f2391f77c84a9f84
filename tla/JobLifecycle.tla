---------------------------- MODULE JobLifecycle ----------------------------
(***************************************************************************)
(* What the job queue promises to those who use it: the life of a job      *)
(* execution, without calls in progress, lists, clocks or restarts.  A job *)
(* is queued, then leased to one agent, which either loses the lease or    *)
(* runs the job; it ends once, with one outcome.  A job that waits may be  *)
(* removed, a job that ended may be removed, a job that runs may not.      *)
(* The owner is chosen by the lease and kept from then on: a job's record  *)
(* says to the end who had the lease when it left the queue.               *)
(***************************************************************************)
CONSTANTS Jobs, Agents, NoAgent

VARIABLES status, owner

vars == <<status, owner>>

Init ==
  /\ status = [j \in Jobs |-> "absent"]
  /\ owner = [j \in Jobs |-> NoAgent]

Create(S) ==
  /\ \A j \in S : status[j] = "absent"
  /\ status' = [j \in Jobs |-> IF j \in S THEN "queued" ELSE status[j]]
  /\ UNCHANGED owner

Lease(j, a) ==
  /\ status[j] = "queued"
  /\ owner[j] = NoAgent
  /\ status' = [status EXCEPT ![j] = "leased"]
  /\ owner' = [owner EXCEPT ![j] = a]

LoseLease(j) ==
  /\ status[j] = "leased"
  /\ owner[j] # NoAgent
  /\ status' = [status EXCEPT ![j] = "queued"]
  /\ owner' = [owner EXCEPT ![j] = NoAgent]

Start(j) ==
  /\ status[j] \in {"queued", "leased"}
  /\ status' = [status EXCEPT ![j] = "running"]
  /\ UNCHANGED owner

End(j, outcome) ==
  /\ status[j] \in {"queued", "leased", "running"}
  /\ status' = [status EXCEPT ![j] = outcome]
  /\ UNCHANGED owner

Remove(S) ==
  /\ \/ \A j \in S : status[j] \in {"queued", "leased"}
     \/ \A j \in S : status[j] \in {"succeeded", "failed"}
  /\ status' = [j \in Jobs |-> IF j \in S THEN "deleted" ELSE status[j]]
  /\ owner' = [j \in Jobs |-> IF j \in S THEN NoAgent ELSE owner[j]]

Next ==
  \/ \E S \in SUBSET Jobs : Create(S) \/ Remove(S)
  \/ \E j \in Jobs, a \in Agents : Lease(j, a)
  \/ \E j \in Jobs : LoseLease(j) \/ Start(j)
  \/ \E j \in Jobs, outcome \in {"succeeded", "failed"} : End(j, outcome)

Spec == Init /\ [][Next]_vars
=============================================================================
