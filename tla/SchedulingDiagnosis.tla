------------------------ MODULE SchedulingDiagnosis ------------------------
(***************************************************************************)
(* Which agent may take a job (internal/requirements): the comparison of   *)
(* requirements with capabilities, which the store uses for leases and the *)
(* views use to say why a job waits.                                       *)
(*                                                                         *)
(* Capabilities are a function from names to values, None where there is   *)
(* none; the shells are a set.  A tool's version is a number, or a text    *)
(* that is no version.  A requirement is a record of its kind, name,       *)
(* operator and value; requirements on containers are the agent's matter.  *)
(***************************************************************************)
EXTENDS Naturals, FiniteSets

CONSTANT None

\* ToolConstraintMatch: texts that are no versions can only be equal.
ToolMatches(actual, op, value) ==
  /\ actual # None
  /\ \/ op = "any"
     \/ op \in {"", "="} /\ actual = value
     \/ /\ actual \in Nat /\ value \in Nat
        /\ \/ op = ">=" /\ actual >= value
           \/ op = ">"  /\ actual > value
           \/ op = "<=" /\ actual <= value
           \/ op = "<"  /\ actual < value

\* MatchCapabilities
Satisfies(caps, r) ==
  CASE r.kind = "container" -> TRUE
    [] r.kind = "tool"  -> ToolMatches(caps[r.name], r.op, r.value)
    [] r.kind = "shell" -> r.value \in caps.shells
    [] OTHER            -> caps[r.name] = r.value

Matches(required, caps) == \A r \in required : Satisfies(caps, r)

SlipAvailable(s) == s.freshness = "online" /\ s.authorized /\ ~s.deactivated /\ ~s.busy  \* an update is ignored

\* agentAvailabilityIssues: none.
Available(s) == s.freshness = "online" /\ s.authorized /\ ~s.deactivated /\ ~s.updating /\ ~s.busy

\* DiagnoseScheduling
Diagnose(required, snapshots) ==
  LET matching == {s \in snapshots : Matches(required, s.caps)} IN
  IF \E s \in matching : Available(s) THEN "ready"
  ELSE IF matching # {} THEN "waiting" ELSE "incompatible"
=============================================================================
