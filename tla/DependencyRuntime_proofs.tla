----------------------- MODULE DependencyRuntime_proofs -----------------------
EXTENDS DependencyRuntime, TLAPS, FiniteSetTheorems, WellFoundedInduction

Flagged == chainBlocked \cup needsBlocked

(* Executions that exist have a spec, and the first attempts are in place. *)
SpecsAssigned ==
  \A e \in Execs : /\ specOf[e] = 0 <=> status[e] = "absent"
                   /\ e \in Specs => specOf[e] = e

(* The histories know every success and every deletion. *)
HistoryComplete ==
  \A e \in Execs : /\ status[e] = "succeeded" => specOf[e] \in succeededOnce
                   /\ status[e] = "deleted" => specOf[e] \in removed

(* An execution that was handed out has no blocker, and gets none. *)
HandedOutUnflagged ==
  \A e \in Execs : /\ status[e] \in {"leased", "running"} => e \notin Flagged
                   /\ e \in owed => e \notin Flagged /\ status[e] # "absent"

(* What the reconciliation has decided still fits the table when it writes *)
RunFits ==
  /\ run.pc \in {"clear", "fail", "merge"} =>
       run.job \in Execs /\ status[run.job] # "absent" /\ run.flag \in {"chain", "needs"}
  /\ run.pc = "clear" /\ run.flag = "chain" => Fulfilled(ChainDeps[specOf[run.job]])
  /\ run.pc = "clear" /\ run.flag = "needs" => Fulfilled(Needs[specOf[run.job]])
  /\ run.pc = "merge" => status[run.job] \in Terminal \cup {"deleted"}

(* ... and so does what a rerun has checked. *)
CloneFits ==
  /\ clone.pc # "none" => clone.job \in Execs /\ specOf[clone.job] \in Specs
  /\ clone.pc = "create" => Fulfilled(Needs[specOf[clone.job]])

RowsFit ==
  SpecsAssigned /\ HistoryComplete /\ HandedOutUnflagged /\ ReleasedAfterDependencies

IInv == TypeOK /\ RowsFit /\ RunFits /\ CancelsOnlyWaiting /\ CloneFits

(* What the reconciliation has decided is the same after a step. *)
SameDecision == run'.pc = run.pc /\ run'.job = run.job /\ run'.flag = run.flag

(* What a step may do to the rows without taking anything away from what   *)
(* was found out about them.                                               *)
Onward ==
  /\ \A e \in Execs : /\ specOf[e] # 0 => specOf'[e] = specOf[e]
                      /\ status[e] # "absent" => status'[e] # "absent"
                      /\ status[e] \in Terminal \cup {"deleted"} => status'[e] \in Terminal \cup {"deleted"}
  /\ succeededOnce \subseteq succeededOnce'
  /\ removed \subseteq removed'
-----------------------------------------------------------------------------
(* A nonempty set of executions has a newest one. *)
LEMMA NewestExists ==
  ASSUME NEW S \in SUBSET Execs, S # {}
  PROVE  \E x \in S : \A y \in S : y <= x
<1> DEFINE R == OpToRel(<, Nat)
           T == {MaxExecs - x : x \in S}
<1>1. T \subseteq Nat /\ T # {}
  <2>1. \A x \in S : MaxExecs - x \in Nat
    BY SizeAssumption DEF Execs
  <2> QED BY <2>1
<1>2. IsWellFoundedOn(R, Nat)
  BY NatLessThanWellFounded
<1>3. PICK t \in T : \A u \in T : ~(<<u, t>> \in R)
  <2> HIDE DEF T, R
  <2> QED BY <1>1, <1>2, WFMin
<1>4. PICK x \in S : t = MaxExecs - x
  BY <1>3
<1>5. ASSUME NEW y \in S PROVE y <= x
  <2>1. ~(<<MaxExecs - y, t>> \in R)
    BY <1>3
  <2>2. MaxExecs - y \in Nat /\ t \in Nat
    BY <1>1, <1>3
  <2>3. ~(MaxExecs - y < t)
    BY <2>1, <2>2 DEF OpToRel
  <2> QED BY <2>3, <1>4, SizeAssumption DEF Execs
<1> QED BY <1>5
-----------------------------------------------------------------------------
LEMMA FulfilledStays ==
  ASSUME succeededOnce \subseteq succeededOnce', removed \subseteq removed',
         NEW deps, Fulfilled(deps)
  PROVE  Fulfilled(deps)'
BY DEF Fulfilled

(* A list on which all dependencies are met shows that they were fulfilled *)
LEMMA MetIsFulfilled ==
  ASSUME TypeOK, RowsFit, NEW deps \in Seq(SUBSET Specs), AllMet(deps)
  PROVE  Fulfilled(deps)
<1> SUFFICES ASSUME NEW i \in 1 .. Len(deps)
             PROVE  deps[i] # {} /\ deps[i] \subseteq succeededOnce \cup removed
  BY DEF Fulfilled
<1> DEFINE group == deps[i]
           found == LatestAttempts(group)
<1>1. group \subseteq Specs
  OBVIOUS
<1>2. Standing(group) = "met"
  BY DEF AllMet
<1>3. found # {} /\ \A e \in found : status[e] = "succeeded"
  <2> HIDE DEF group
  <2> QED BY <1>2 DEF Standing
<1>4. group # {}
  BY <1>3 DEF LatestAttempts
<1>5. ASSUME NEW s \in group, s \notin removed PROVE s \in succeededOnce
  <2> DEFINE S == {e \in Execs : Exists(e) /\ specOf[e] = s}
  <2>1. s \in Specs /\ s \in Execs
    BY <1>1, <1>5, SizeAssumption DEF Specs, Execs
  <2>2. specOf[s] = s /\ specOf[s] # 0
    BY <2>1 DEF RowsFit, SpecsAssigned, Specs
  <2>3. status[s] # "absent" /\ status[s] # "deleted"
    BY <2>1, <2>2, <1>5 DEF RowsFit, SpecsAssigned, HistoryComplete
  <2>4. Exists(s)
    BY <2>1, <2>3 DEF TypeOK, Exists
  <2>5. PICK x \in S : \A y \in S : y <= x
    <3>1. S \in SUBSET Execs /\ S # {}
      BY <2>1, <2>2, <2>4
    <3> HIDE DEF S
    <3> QED BY <3>1, NewestExists
  <2>6. x \in found
    BY <2>5, <1>5 DEF LatestAttempts
  <2> QED BY <2>5, <2>6, <1>3 DEF RowsFit, HistoryComplete
<1> QED BY <1>4, <1>5

(* What a rerun has checked stays true. *)
LEMMA CloneKept ==
  ASSUME IInv, Onward, clone' = clone
  PROVE  CloneFits'
<1>1. ASSUME clone.pc # "none"
      PROVE  clone.job \in Execs /\ specOf'[clone.job] = specOf[clone.job] /\ specOf[clone.job] \in Specs
  BY <1>1 DEF IInv, CloneFits, Onward, Specs
<1>2. ASSUME clone.pc = "create" PROVE Fulfilled(Needs[specOf[clone.job]])'
  <2> DEFINE d == Needs[specOf[clone.job]]
  <2>1. Fulfilled(d)
    BY <1>2 DEF IInv, CloneFits
  <2>2. d' = d
    BY <1>1, <1>2
  <2> QED BY <2>1, <2>2 DEF Fulfilled, Onward
<1> QED BY <1>1, <1>2 DEF CloneFits

(* What the reconciliation has decided stays true. *)
LEMMA RunKept ==
  ASSUME IInv, Onward, SameDecision,
         \A e \in Execs : status[e] = "queued" /\ e \in Flagged =>
            /\ status'[e] \notin {"leased", "running"}
            /\ status'[e] = "queued" => e \in Flagged'
  PROVE  RunFits' /\ CancelsOnlyWaiting'
<1> DEFINE j == run.job
<1>0. run'.pc = run.pc /\ run'.job = run.job /\ run'.flag = run.flag
  BY DEF SameDecision
<1>1. ASSUME run.pc \in {"clear", "fail", "merge"}
      PROVE  j \in Execs /\ specOf'[j] = specOf[j] /\ status[j] # "absent" /\ status'[j] # "absent"
  BY <1>1 DEF IInv, RunFits, Onward, RowsFit, SpecsAssigned
<1>2. ASSUME run.pc = "clear", run.flag = "chain" PROVE Fulfilled(ChainDeps[specOf[run.job]])'
  <2> DEFINE d == ChainDeps[specOf[run.job]]
  <2>1. Fulfilled(d)
    BY <1>2 DEF IInv, RunFits
  <2>2. d' = d
    BY <1>0, <1>1, <1>2
  <2> QED BY <2>1, <2>2 DEF Fulfilled, Onward
<1>3. ASSUME run.pc = "clear", run.flag = "needs" PROVE Fulfilled(Needs[specOf[run.job]])'
  <2> DEFINE d == Needs[specOf[run.job]]
  <2>1. Fulfilled(d)
    BY <1>3 DEF IInv, RunFits
  <2>2. d' = d
    BY <1>0, <1>1, <1>3
  <2> QED BY <2>1, <2>2 DEF Fulfilled, Onward
<1>4. run.pc = "merge" => status'[j] \in Terminal \cup {"deleted"}
  BY <1>1 DEF IInv, RunFits, Onward
<1>5. RunFits'
  BY <1>0, <1>1, <1>2, <1>3, <1>4 DEF RunFits, IInv
<1>6. ASSUME run.pc = "fail"
      PROVE  status'[j] \notin {"leased", "running"} /\ (status'[j] = "queued" => j \in Flagged')
  <2>1. status[j] \notin {"leased", "running"} /\ (status[j] = "queued" => j \in Flagged)
    BY <1>6 DEF IInv, CancelsOnlyWaiting, Flagged
  <2>2. CASE status[j] = "queued"
    BY <2>1, <2>2, <1>1, <1>6
  <2>3. CASE status[j] # "queued"
    <3>1. status[j] \in Terminal \cup {"deleted"}
      BY <1>1, <1>6, <2>1, <2>3 DEF IInv, TypeOK, Active, Pending
    <3> QED BY <3>1, <1>1, <1>6 DEF Onward, Terminal
  <2> QED BY <2>2, <2>3
<1>7. CancelsOnlyWaiting'
  BY <1>0, <1>6 DEF CancelsOnlyWaiting, Flagged
<1> QED BY <1>5, <1>7
-----------------------------------------------------------------------------
(* One status changes. *)
LEMMA StatusStep ==
  ASSUME IInv, NEW e \in Execs, NEW s \in Active \cup Terminal,
         status[e] \in Active,
         status' = [status EXCEPT ![e] = s],
         UNCHANGED <<specOf, chainBlocked, needsBlocked, removed>>,
         succeededOnce' = IF s = "succeeded" THEN succeededOnce \cup {specOf[e]} ELSE succeededOnce,
         s \in {"leased", "running"} => e \notin Flagged,
         s = "queued" => status[e] = "leased",
         owed' \subseteq owed \cup {e},
         e \in owed' => e \notin Flagged
  PROVE  /\ RowsFit' /\ Onward
         /\ \A x \in Execs : status[x] = "queued" /\ x \in Flagged =>
              /\ status'[x] \notin {"leased", "running"}
              /\ status'[x] = "queued" => x \in Flagged'
<1>1. /\ status'[e] = s
      /\ \A x \in Execs \ {e} : status'[x] = status[x]
      /\ s # "absent" /\ s # "deleted"
      /\ status[e] # "absent" /\ status[e] # "deleted"
  BY DEF IInv, TypeOK, Active, Pending, Terminal
<1>2. succeededOnce \subseteq succeededOnce' /\ removed \subseteq removed'
  OBVIOUS
<1>3. SpecsAssigned'
  BY <1>1 DEF SpecsAssigned, IInv, RowsFit
<1>4. HistoryComplete'
  BY <1>1, <1>2 DEF HistoryComplete, IInv, RowsFit
<1>5. HandedOutUnflagged'
  BY <1>1 DEF HandedOutUnflagged, IInv, RowsFit, Flagged
<1>6. ReleasedAfterDependencies'
  <2> SUFFICES ASSUME NEW x \in Execs, status'[x] \in Active
               PROVE  /\ x \in needsBlocked \/ Fulfilled(Needs[specOf[x]])'
                      /\ x \in Specs /\ x \notin chainBlocked => Fulfilled(ChainDeps[x])'
    BY <1>3 DEF ReleasedAfterDependencies
  <2>1. status[x] \in Active
    BY <1>1
  <2>2. /\ x \in needsBlocked \/ Fulfilled(Needs[specOf[x]])
        /\ x \in Specs /\ x \notin chainBlocked => Fulfilled(ChainDeps[x])
    BY <2>1 DEF IInv, RowsFit, ReleasedAfterDependencies
  <2> QED BY <2>2, <1>2 DEF Fulfilled
<1>7. Onward
  BY <1>1, <1>2 DEF Onward, Active, Pending, Terminal
<1>8. ASSUME NEW x \in Execs, status[x] = "queued", x \in Flagged
      PROVE  /\ status'[x] \notin {"leased", "running"}
             /\ status'[x] = "queued" => x \in Flagged'
  BY <1>1, <1>8 DEF Flagged
<1> QED BY <1>3, <1>4, <1>5, <1>6, <1>7, <1>8 DEF RowsFit

(* No row changes. *)
LEMMA RowsUnchanged ==
  ASSUME IInv, UNCHANGED <<rows, owed, history>>
  PROVE  /\ RowsFit' /\ Onward
         /\ \A x \in Execs : status[x] = "queued" /\ x \in Flagged =>
              /\ status'[x] \notin {"leased", "running"}
              /\ status'[x] = "queued" => x \in Flagged'
<1>1. RowsFit'
  BY DEF IInv, RowsFit, rows, history, SpecsAssigned, HistoryComplete, HandedOutUnflagged,
         ReleasedAfterDependencies, Fulfilled, Flagged
<1>2. Onward
  BY DEF Onward, rows, history
<1> QED BY <1>1, <1>2 DEF rows, Flagged

(* Deleted rows lose their flags; their specs are remembered. *)
LEMMA DeleteStep ==
  ASSUME IInv, NEW S \in SUBSET Execs, \A e \in S : status[e] # "absent", DeleteExecutions(S)
  PROVE  /\ RowsFit' /\ Onward
         /\ \A x \in Execs : status[x] = "queued" /\ x \in Flagged =>
              /\ status'[x] \notin {"leased", "running"}
              /\ status'[x] = "queued" => x \in Flagged'
<1>1. /\ \A x \in S : status'[x] = "deleted"
      /\ \A x \in Execs \ S : status'[x] = status[x]
      /\ UNCHANGED <<specOf, owed, succeededOnce>>
  BY DEF DeleteExecutions, IInv, TypeOK
<1>2. /\ chainBlocked' = chainBlocked \ S /\ needsBlocked' = needsBlocked \ S
      /\ \A x \in S : specOf[x] \in removed'
      /\ removed \subseteq removed'
  BY DEF DeleteExecutions
<1>3. SpecsAssigned'
  BY <1>1 DEF SpecsAssigned, IInv, RowsFit
<1>4. HistoryComplete'
  BY <1>1, <1>2 DEF HistoryComplete, IInv, RowsFit
<1>5. HandedOutUnflagged'
  BY <1>1, <1>2 DEF HandedOutUnflagged, IInv, RowsFit, Flagged
<1>6. ReleasedAfterDependencies'
  <2> SUFFICES ASSUME NEW x \in Execs, status'[x] \in Active
               PROVE  /\ x \in needsBlocked' \/ Fulfilled(Needs[specOf[x]])'
                      /\ x \in Specs /\ x \notin chainBlocked' => Fulfilled(ChainDeps[x])'
    BY DEF ReleasedAfterDependencies
  <2>1. status[x] \in Active /\ x \notin S
    BY <1>1 DEF Active, Pending
  <2>2. /\ x \in needsBlocked \/ Fulfilled(Needs[specOf[x]])
        /\ x \in Specs /\ x \notin chainBlocked => Fulfilled(ChainDeps[x])
    BY <2>1 DEF IInv, RowsFit, ReleasedAfterDependencies
  <2> QED BY <2>1, <2>2, <1>1, <1>2 DEF Fulfilled
<1>7. Onward
  BY <1>1, <1>2 DEF Onward, Terminal
<1>8. ASSUME NEW x \in Execs, status[x] = "queued", x \in Flagged
      PROVE  /\ status'[x] \notin {"leased", "running"}
             /\ status'[x] = "queued" => x \in Flagged'
  BY <1>1, <1>2, <1>8 DEF Flagged
<1> QED BY <1>3, <1>4, <1>5, <1>6, <1>7, <1>8 DEF RowsFit

(* A rerun adds a row. *)
LEMMA CreateRerunStep ==
  ASSUME IInv, CreateRerun
  PROVE  /\ RowsFit' /\ Onward
         /\ \A x \in Execs : status[x] = "queued" /\ x \in Flagged =>
              /\ status'[x] \notin {"leased", "running"}
              /\ status'[x] = "queued" => x \in Flagged'
<1> DEFINE d == specOf[clone.job]
<1>1. clone.job \in Execs /\ d \in Specs /\ d # 0 /\ Fulfilled(Needs[d])
  BY DEF CreateRerun, IInv, CloneFits, Specs
<1>2. PICK n \in Execs : /\ IsNext(n)
                         /\ specOf' = [specOf EXCEPT ![n] = d]
                         /\ status' = [status EXCEPT ![n] = "queued"]
                         /\ chainBlocked' = IF clone.chain THEN chainBlocked \cup {n} ELSE chainBlocked
                         /\ needsBlocked' = IF clone.needs THEN needsBlocked \cup {n} ELSE needsBlocked
  BY DEF CreateRerun
<1> HIDE DEF d
<1>3. status[n] = "absent" /\ n \notin Specs
  BY <1>2 DEF IInv, RowsFit, SpecsAssigned, IsNext, Specs
<1>4. /\ specOf'[n] = d /\ status'[n] = "queued"
      /\ \A x \in Execs \ {n} : specOf'[x] = specOf[x] /\ status'[x] = status[x]
      /\ UNCHANGED <<owed, succeededOnce, removed>>
  BY <1>2 DEF CreateRerun, history, IInv, TypeOK
<1>5. /\ chainBlocked \subseteq chainBlocked' /\ chainBlocked' \subseteq chainBlocked \cup {n}
      /\ needsBlocked \subseteq needsBlocked' /\ needsBlocked' \subseteq needsBlocked \cup {n}
  BY <1>2
<1>6. SpecsAssigned'
  BY <1>1, <1>3, <1>4 DEF SpecsAssigned, IInv, RowsFit
<1>7. HistoryComplete'
  BY <1>4 DEF HistoryComplete, IInv, RowsFit
<1>8. HandedOutUnflagged'
  BY <1>3, <1>4, <1>5 DEF HandedOutUnflagged, IInv, RowsFit, Flagged
<1>9. ReleasedAfterDependencies'
  <2> SUFFICES ASSUME NEW x \in Execs, status'[x] \in Active
               PROVE  /\ x \in needsBlocked' \/ Fulfilled(Needs[specOf[x]])'
                      /\ x \in Specs /\ x \notin chainBlocked' => Fulfilled(ChainDeps[x])'
    BY DEF ReleasedAfterDependencies
  <2>1. CASE x = n
    <3>1. specOf'[x] = d /\ x \notin Specs
      BY <2>1, <1>3, <1>4
    <3>2. Fulfilled(Needs[specOf[x]])'
      BY <3>1, <1>1, <1>4 DEF Fulfilled
    <3> QED BY <3>1, <3>2
  <2>2. CASE x # n
    <3>1. status[x] \in Active /\ specOf'[x] = specOf[x]
      BY <2>2, <1>4
    <3>2. /\ x \in needsBlocked \/ Fulfilled(Needs[specOf[x]])
          /\ x \in Specs /\ x \notin chainBlocked => Fulfilled(ChainDeps[x])
      BY <3>1 DEF IInv, RowsFit, ReleasedAfterDependencies
    <3> QED BY <3>1, <3>2, <1>4, <1>5 DEF Fulfilled
  <2> QED BY <2>1, <2>2
<1>10. Onward
  BY <1>2, <1>3, <1>4 DEF Onward, IsNext, Terminal
<1>11. ASSUME NEW x \in Execs, status[x] = "queued", x \in Flagged
       PROVE  /\ status'[x] \notin {"leased", "running"}
              /\ status'[x] = "queued" => x \in Flagged'
  BY <1>3, <1>4, <1>5, <1>11 DEF Flagged
<1> QED BY <1>6, <1>7, <1>8, <1>9, <1>10, <1>11 DEF RowsFit
-----------------------------------------------------------------------------
(* What a reconciliation starts with is in its type. *)
LEMMA TransitionsBound ==
  Listed \in 0 .. MaxExecs /\ MaxTransitions - 1 \in 0 .. 3 * MaxExecs /\ MaxTransitions - 1 = 3 * Listed
<1> DEFINE S == {e \in Execs : Exists(e)}
           n == Cardinality(S)
<1>1. IsFiniteSet(Execs) /\ Cardinality(Execs) <= MaxExecs
  <2>1. MaxExecs \in Int /\ 1 \in Int
    BY SizeAssumption
  <2>2. IsFiniteSet(1 .. MaxExecs) /\ Cardinality(1 .. MaxExecs) = IF 1 > MaxExecs THEN 0 ELSE MaxExecs - 1 + 1
    BY <2>1, FS_Interval
  <2> QED BY <2>2, SizeAssumption DEF Execs
<1>2. S \in SUBSET Execs
  OBVIOUS
<1>3. IsFiniteSet(S) /\ n <= Cardinality(Execs)
  <2> HIDE DEF S
  <2> QED BY <1>1, <1>2, FS_Subset
<1>4. n \in Nat /\ Cardinality(Execs) \in Nat
  <2> HIDE DEF S
  <2> QED BY <1>1, <1>3, FS_CardinalityType
<1>5. MaxTransitions = 3 * n + 1 /\ Listed = n
  BY DEF MaxTransitions, Listed
<1> HIDE DEF n
<1> QED BY <1>1, <1>3, <1>4, <1>5, SizeAssumption

LEMMA IdleFacts == Idle \in RunState /\ Idle.pc = "idle"
<1>1. 0 \in 0 .. MaxExecs /\ 0 \in 0 .. 3 * MaxExecs
  BY SizeAssumption
<1> QED BY <1>1 DEF Idle, RunState

LEMMA ListStep ==
  ASSUME IInv, NEW left \in 0 .. 3 * MaxExecs, NEW listed \in 0 .. MaxExecs, NEW created \in Nat,
         ListAndDecide(left, listed, created),
         UNCHANGED <<rows, owed, history>>
  PROVE  run' \in RunState /\ unseen' \in BOOLEAN /\ RunFits' /\ CancelsOnlyWaiting'
<1>1. CASE run' = Idle
  <2>1. run' \in RunState /\ run'.pc = "idle"
    BY <1>1, IdleFacts
  <2>2. unseen' \in BOOLEAN
    BY DEF ListAndDecide
  <2> QED BY <2>1, <2>2 DEF RunFits, CancelsOnlyWaiting
<1>2. CASE run' # Idle
  <2>0. PICK e \in Decidable : \E pc \in Decision(e) :
           run' = [pc |-> pc, job |-> e, flag |-> Flag(e), left |-> left,
                   listed |-> listed, created |-> created]
    BY <1>2 DEF ListAndDecide
  <2>1. PICK pc \in Decision(e) :
           run' = [pc |-> pc, job |-> e, flag |-> Flag(e), left |-> left,
                   listed |-> listed, created |-> created]
    BY <2>0
  <2>2. pc \in {"clear", "fail"} /\ Flag(e) \in {"chain", "needs"}
    BY DEF Decision, Flag
  <2>3. e \in Execs /\ status[e] = "queued" /\ e \in Flagged
    BY DEF Decidable, Flagged
  <2>4. run'.pc = pc /\ run'.job = e /\ run'.flag = Flag(e)
    BY <2>1
  <2>5. run' \in RunState /\ unseen' \in BOOLEAN
    <3>1. e \in 0 .. MaxExecs
      BY <2>3, SizeAssumption DEF Execs
    <3>2. run' \in RunState
      BY <2>1, <2>2, <3>1 DEF RunState
    <3> QED BY <3>2 DEF ListAndDecide
  <2>6. specOf[e] \in Specs
    BY <2>3, SizeAssumption DEF IInv, RowsFit, SpecsAssigned, TypeOK, Specs
  <2>7. ASSUME pc = "clear" PROVE Fulfilled(Deps(e))
    <3>1. AllMet(Deps(e))
      BY <2>7 DEF Decision
    <3>2. Deps(e) \in Seq(SUBSET Specs)
      BY <2>6, GraphAssumption DEF Deps
    <3> QED BY <3>1, <3>2, MetIsFulfilled DEF IInv
  <2>8. UNCHANGED <<specOf, status, chainBlocked, needsBlocked, succeededOnce, removed>>
    BY DEF rows, history
  <2>9. RunFits'
    <3>1. run'.pc = "clear" /\ run'.flag = "chain" => Fulfilled(ChainDeps[specOf[run.job]])'
      <4> SUFFICES ASSUME pc = "clear", Flag(e) = "chain" PROVE Fulfilled(ChainDeps[specOf[run.job]])'
        BY <2>4
      <4>1. Fulfilled(ChainDeps[specOf[e]])
        BY <2>7 DEF Flag, Deps
      <4> QED BY <4>1, <2>4, <2>8 DEF Fulfilled
    <3>2. run'.pc = "clear" /\ run'.flag = "needs" => Fulfilled(Needs[specOf[run.job]])'
      <4> SUFFICES ASSUME pc = "clear", Flag(e) = "needs" PROVE Fulfilled(Needs[specOf[run.job]])'
        BY <2>4
      <4>1. Fulfilled(Needs[specOf[e]])
        BY <2>7 DEF Flag, Deps
      <4> QED BY <4>1, <2>4, <2>8 DEF Fulfilled
    <3> QED BY <3>1, <3>2, <2>2, <2>3, <2>4, <2>8 DEF RunFits
  <2>10. CancelsOnlyWaiting'
    BY <2>3, <2>4, <2>8 DEF CancelsOnlyWaiting, Flagged
  <2> QED BY <2>5, <2>9, <2>10
<1> QED BY <1>1, <1>2

(* A flag is taken from a row of which it is known that it may go. *)
LEMMA UnflagStep ==
  ASSUME IInv, NEW e \in Execs, NEW flag,
         Unflag(e, flag), UNCHANGED <<specOf, status, owed, history>>,
         \/ status[e] \in Terminal
         \/ /\ flag = "chain" => Fulfilled(ChainDeps[specOf[e]])
            /\ flag = "needs" => Fulfilled(Needs[specOf[e]])
  PROVE  RowsFit' /\ Onward
<1>1. /\ chainBlocked' \subseteq chainBlocked /\ chainBlocked \subseteq chainBlocked' \cup {e}
      /\ needsBlocked' \subseteq needsBlocked /\ needsBlocked \subseteq needsBlocked' \cup {e}
      /\ flag # "chain" => chainBlocked' = chainBlocked
      /\ flag # "needs" => needsBlocked' = needsBlocked
  BY DEF Unflag
<1>2. UNCHANGED <<succeededOnce, removed>>
  BY DEF history
<1>3. SpecsAssigned' /\ HistoryComplete'
  BY <1>2 DEF SpecsAssigned, HistoryComplete, IInv, RowsFit
<1>4. HandedOutUnflagged'
  BY <1>1 DEF HandedOutUnflagged, IInv, RowsFit, Flagged
<1>5. ReleasedAfterDependencies'
  <2> SUFFICES ASSUME NEW x \in Execs, status[x] \in Active
               PROVE  /\ x \in needsBlocked' \/ Fulfilled(Needs[specOf[x]])'
                      /\ x \in Specs /\ x \notin chainBlocked' => Fulfilled(ChainDeps[x])'
    BY DEF ReleasedAfterDependencies
  <2>1. /\ x \in needsBlocked \/ Fulfilled(Needs[specOf[x]])
        /\ x \in Specs /\ x \notin chainBlocked => Fulfilled(ChainDeps[x])
    BY DEF IInv, RowsFit, ReleasedAfterDependencies
  <2>2. x = e => status[e] \notin Terminal
    BY DEF Active, Pending, Terminal
  <2>3. x \in Specs => specOf[x] = x
    BY DEF IInv, RowsFit, SpecsAssigned
  <2>4. x \in needsBlocked' \/ Fulfilled(Needs[specOf[x]])
    BY <1>1, <2>1, <2>2
  <2>5. x \in Specs /\ x \notin chainBlocked' => Fulfilled(ChainDeps[x])
    BY <1>1, <2>1, <2>2, <2>3
  <2> QED BY <2>4, <2>5, <1>2 DEF Fulfilled
<1>6. Onward
  BY <1>2 DEF Onward
<1> QED BY <1>3, <1>4, <1>5, <1>6 DEF RowsFit
-----------------------------------------------------------------------------
LEMMA StartReconcileStep ==
  ASSUME IInv, NEW w \in waiting, StartReconcile(w)
  PROVE  IInv'
<1>1. UNCHANGED <<rows, owed, clone, starting, faults, history>>
  BY DEF StartReconcile
<1>2. RowsFit' /\ Onward
  BY <1>1, RowsUnchanged
<1>3. ListAndDecide(MaxTransitions - 1, Listed, 0)
  BY DEF StartReconcile
<1>4. run' \in RunState /\ unseen' \in BOOLEAN /\ RunFits' /\ CancelsOnlyWaiting'
  <2> DEFINE left == MaxTransitions - 1
             listed == Listed
  <2>1. /\ left \in 0 .. 3 * MaxExecs /\ listed \in 0 .. MaxExecs /\ 0 \in Nat
        /\ ListAndDecide(left, listed, 0)
    BY <1>3, TransitionsBound
  <2> HIDE DEF left, listed
  <2> QED BY <2>1, <1>1, ListStep
<1>5. TypeOK'
  BY <1>1, <1>4 DEF IInv, TypeOK, rows, history, StartReconcile
<1> QED BY <1>1, <1>2, <1>4, <1>5, CloneKept DEF IInv

LEMMA RelistStep ==
  ASSUME IInv, RelistAfterChange
  PROVE  IInv'
<1>1. UNCHANGED <<rows, owed, waiting, clone, starting, faults, history>>
  BY DEF RelistAfterChange
<1>2. RowsFit' /\ Onward
  BY <1>1, RowsUnchanged
<1>3. run' \in RunState /\ unseen' \in BOOLEAN /\ RunFits' /\ CancelsOnlyWaiting'
  <2>1. CASE run.left > 0 /\ ListAndDecide(run.left - 1, run.listed, run.created)
    <3>1. run.left \in 0 .. 3 * MaxExecs /\ run.listed \in 0 .. MaxExecs /\ run.created \in Nat
      BY DEF IInv, TypeOK, RunState
    <3>2. run.left - 1 \in 0 .. 3 * MaxExecs
      BY <3>1, <2>1, SizeAssumption
    <3> QED BY <2>1, <3>1, <3>2, <1>1, ListStep
  <2>2. CASE run' = Idle /\ unseen' = TRUE
    BY <2>2, IdleFacts DEF RunFits, CancelsOnlyWaiting, IInv, TypeOK
  <2> QED BY <2>1, <2>2 DEF RelistAfterChange
<1>4. TypeOK'
  BY <1>1, <1>3 DEF IInv, TypeOK, rows, history
<1> QED BY <1>1, <1>2, <1>3, <1>4, CloneKept DEF IInv

(* After these steps the reconciliation has nothing in hand. *)
LEMMA RunAgain ==
  ASSUME IInv, run' = Idle \/ run' = [run EXCEPT !.pc = "again"]
  PROVE  run' \in RunState /\ RunFits' /\ CancelsOnlyWaiting'
<1>1. run' \in RunState /\ run'.pc \in {"idle", "again"}
  BY IdleFacts DEF IInv, TypeOK, RunState
<1> QED BY <1>1 DEF RunFits, CancelsOnlyWaiting

LEMMA ClearBlockerStep ==
  ASSUME IInv, ClearBlocker
  PROVE  IInv'
<1>1. UNCHANGED <<specOf, status, owed, waiting, clone, starting, faults, history, unseen>>
  BY DEF ClearBlocker, Aborted, rows
<1>2. run' \in RunState /\ RunFits' /\ CancelsOnlyWaiting'
  BY RunAgain DEF ClearBlocker, Aborted
<1>3. RowsFit' /\ Onward /\ chainBlocked' \subseteq Execs /\ needsBlocked' \subseteq Execs
  <2>1. CASE Unflag(run.job, run.flag)
    <3>1. run.job \in Execs
      BY DEF ClearBlocker, IInv, RunFits
    <3>2. /\ run.flag = "chain" => Fulfilled(ChainDeps[specOf[run.job]])
          /\ run.flag = "needs" => Fulfilled(Needs[specOf[run.job]])
      BY DEF ClearBlocker, IInv, RunFits
    <3>3. RowsFit' /\ Onward
      BY <2>1, <3>1, <3>2, <1>1, UnflagStep
    <3> QED BY <2>1, <3>3 DEF Unflag, IInv, TypeOK
  <2>2. CASE UNCHANGED rows
    BY <2>2, <1>1, RowsUnchanged DEF IInv, TypeOK, rows
  <2> QED BY <2>1, <2>2 DEF ClearBlocker, Aborted
<1>4. TypeOK'
  BY <1>1, <1>2, <1>3 DEF IInv, TypeOK, history
<1> QED BY <1>1, <1>2, <1>3, <1>4, CloneKept DEF IInv

LEMMA FailBlockedJobStep ==
  ASSUME IInv, FailBlockedJob
  PROVE  IInv'
<1> DEFINE e == run.job
<1>1. /\ UNCHANGED <<specOf, chainBlocked, needsBlocked, owed, waiting, clone, starting, faults,
                     history, unseen>>
      /\ run.pc = "fail" /\ e \in Execs
  BY DEF FailBlockedJob, Aborted, rows, IInv, RunFits
<1>2. CASE status[e] = "queued" /\ status' = [status EXCEPT ![e] = "failed"] /\ run' = [run EXCEPT !.pc = "merge"]
  <2>1. RowsFit' /\ Onward
    BY <1>1, <1>2, StatusStep DEF history, Active, Pending, Terminal, IInv, RowsFit, HandedOutUnflagged
  <2>2. status'[e] = "failed" /\ status' \in [Execs -> Active \cup Terminal \cup {"absent", "deleted"}]
    BY <1>1, <1>2 DEF IInv, TypeOK, Terminal
  <2>3. run'.pc = "merge" /\ run'.job = e /\ run'.flag = run.flag /\ run' \in RunState
    BY <1>2 DEF IInv, TypeOK, RunState
  <2>4. RunFits' /\ CancelsOnlyWaiting'
    BY <2>2, <2>3, <1>1 DEF RunFits, CancelsOnlyWaiting, Terminal, IInv
  <2>5. TypeOK'
    BY <1>1, <2>2, <2>3 DEF IInv, TypeOK, history
  <2> QED BY <1>1, <2>1, <2>4, <2>5, CloneKept DEF IInv
<1>3. CASE status[e] \in Terminal /\ run' = [run EXCEPT !.pc = "merge"] /\ UNCHANGED rows
  <2>1. RowsFit' /\ Onward
    BY <1>1, <1>3, RowsUnchanged
  <2>2. run'.pc = "merge" /\ run'.job = e /\ run'.flag = run.flag /\ run' \in RunState
    BY <1>3 DEF IInv, TypeOK, RunState
  <2>3. RunFits' /\ CancelsOnlyWaiting'
    BY <1>3, <2>2, <1>1 DEF RunFits, CancelsOnlyWaiting, Terminal, IInv, rows
  <2>4. TypeOK'
    BY <1>1, <1>3, <2>2 DEF IInv, TypeOK, rows, history
  <2> QED BY <1>1, <2>1, <2>3, <2>4, CloneKept DEF IInv
<1>4. CASE Aborted
  <2>1. RowsFit' /\ Onward
    BY <1>1, <1>4, RowsUnchanged DEF Aborted
  <2>2. run' \in RunState /\ RunFits' /\ CancelsOnlyWaiting'
    BY <1>4, RunAgain DEF Aborted
  <2>3. TypeOK'
    BY <1>1, <1>4, <2>2 DEF IInv, TypeOK, rows, history, Aborted
  <2> QED BY <1>1, <2>1, <2>2, <2>3, CloneKept DEF IInv
<1> QED BY <1>2, <1>3, <1>4 DEF FailBlockedJob

LEMMA FinishFailStep ==
  ASSUME IInv, FinishFailBlockedJob
  PROVE  IInv'
<1>1. UNCHANGED <<specOf, status, owed, waiting, clone, starting, faults, history, unseen>>
  BY DEF FinishFailBlockedJob, Aborted, rows
<1>2. run' \in RunState /\ RunFits' /\ CancelsOnlyWaiting'
  BY RunAgain DEF FinishFailBlockedJob, Aborted
<1>3. RowsFit' /\ Onward /\ chainBlocked' \subseteq Execs /\ needsBlocked' \subseteq Execs
  <2>1. CASE Exists(run.job) /\ Unflag(run.job, run.flag)
    <3>1. run.job \in Execs /\ status[run.job] \in Terminal
      BY <2>1 DEF FinishFailBlockedJob, IInv, RunFits, Exists, Active, Pending
    <3>2. RowsFit' /\ Onward
      BY <2>1, <3>1, <1>1, UnflagStep
    <3> QED BY <2>1, <3>2 DEF Unflag, IInv, TypeOK
  <2>2. CASE UNCHANGED rows
    BY <2>2, <1>1, RowsUnchanged DEF IInv, TypeOK, rows
  <2> QED BY <2>1, <2>2 DEF FinishFailBlockedJob, Aborted
<1>4. TypeOK'
  BY <1>1, <1>2, <1>3 DEF IInv, TypeOK, history
<1> QED BY <1>1, <1>2, <1>3, <1>4, CloneKept DEF IInv

LEMMA ReconcileFailsStep ==
  ASSUME IInv, ReconcileFails
  PROVE  IInv'
<1>1. UNCHANGED <<rows, owed, clone, starting, history>> /\ run' = Idle /\ unseen' = TRUE
  BY DEF ReconcileFails
<1>2. RowsFit' /\ Onward
  BY <1>1, RowsUnchanged
<1>3. run' \in RunState /\ RunFits' /\ CancelsOnlyWaiting'
  BY <1>1, RunAgain
<1>4. faults' \in 0 .. MaxFaults /\ waiting' \subseteq waiting
  BY UsersAssumption DEF ReconcileFails, IInv, TypeOK
<1>5. TypeOK'
  BY <1>1, <1>3, <1>4 DEF IInv, TypeOK, rows, history
<1> QED BY <1>1, <1>2, <1>3, <1>5, CloneKept DEF IInv
-----------------------------------------------------------------------------
(* A status changes while the reconciliation and the rerun do not. *)
LEMMA StatusIInv ==
  ASSUME IInv, NEW e \in Execs, NEW s \in Active \cup Terminal,
         status[e] \in Active,
         status' = [status EXCEPT ![e] = s],
         UNCHANGED <<specOf, chainBlocked, needsBlocked, run, clone, starting, removed>>,
         succeededOnce' = IF s = "succeeded" THEN succeededOnce \cup {specOf[e]} ELSE succeededOnce,
         s \in {"leased", "running"} => e \notin Flagged,
         s = "queued" => status[e] = "leased",
         owed' \subseteq owed \cup {e},
         e \in owed' => e \notin Flagged,
         waiting' \subseteq Execs \cup {Maintenance},
         unseen' \in BOOLEAN,
         faults' \in 0 .. MaxFaults
  PROVE  IInv'
<1>1. /\ RowsFit' /\ Onward
      /\ \A x \in Execs : status[x] = "queued" /\ x \in Flagged =>
           /\ status'[x] \notin {"leased", "running"}
           /\ status'[x] = "queued" => x \in Flagged'
  BY StatusStep
<1>2. RunFits' /\ CancelsOnlyWaiting'
  BY <1>1, RunKept DEF SameDecision
<1>3. status' \in [Execs -> Active \cup Terminal \cup {"absent", "deleted"}]
  BY DEF IInv, TypeOK
<1>4. succeededOnce' \subseteq Specs
  <2>1. specOf[e] \in 0 .. NumSpecs /\ specOf[e] # 0
    BY DEF IInv, TypeOK, RowsFit, SpecsAssigned, Active, Pending
  <2>2. specOf[e] \in Specs
    BY <2>1, SizeAssumption DEF Specs
  <2> QED BY <2>2 DEF IInv, TypeOK
<1>5. TypeOK'
  BY <1>3, <1>4 DEF IInv, TypeOK
<1> QED BY <1>1, <1>2, <1>5, CloneKept DEF IInv

LEMMA LeaseStep ==
  ASSUME IInv, NEW e \in Execs, LeaseJobExecution(e)
  PROVE  IInv'
<1>1. status[e] = "queued" /\ e \notin Flagged
  BY DEF LeaseJobExecution, Leasable, Flagged
<1>2. /\ status' = [status EXCEPT ![e] = "leased"]
      /\ owed' = owed \cup {e}
      /\ UNCHANGED <<specOf, chainBlocked, needsBlocked, waiting, run, clone, starting, faults,
                     succeededOnce, removed, unseen>>
  BY DEF LeaseJobExecution, history
<1> QED BY <1>1, <1>2, StatusIInv DEF Active, Pending, Terminal, IInv, TypeOK

LEMMA RequeueStep ==
  ASSUME IInv, NEW e \in Execs, RequeueJobExecution(e)
  PROVE  IInv'
<1>1. status[e] = "leased" /\ (e \in owed => e \notin Flagged)
  BY DEF RequeueJobExecution, IInv, RowsFit, HandedOutUnflagged
<1>2. /\ status' = [status EXCEPT ![e] = "queued"]
      /\ UNCHANGED <<specOf, chainBlocked, needsBlocked, owed, waiting, run, clone, starting,
                     faults, succeededOnce, removed, unseen>>
  BY DEF RequeueJobExecution, history
<1> QED BY <1>1, <1>2, StatusIInv DEF Active, Pending, Terminal, IInv, TypeOK

LEMMA ReportRunningStep ==
  ASSUME IInv, NEW e \in Execs, ReportRunning(e)
  PROVE  IInv'
<1>1. status[e] \in Pending /\ e \notin Flagged
  BY DEF ReportRunning, IInv, RowsFit, HandedOutUnflagged
<1>2. /\ status' = [status EXCEPT ![e] = "running"]
      /\ UNCHANGED <<specOf, chainBlocked, needsBlocked, owed, waiting, run, clone, starting,
                     faults, succeededOnce, removed, unseen>>
  BY DEF ReportRunning, history
<1> QED BY <1>1, <1>2, StatusIInv DEF Active, Pending, Terminal, IInv, TypeOK

(* A terminal report, with its reconciliation or without. *)
LEMMA StoreEndStep ==
  ASSUME IInv, NEW e \in Execs, NEW s \in Terminal, StoreEnd(e, s),
         UNCHANGED <<specOf, chainBlocked, needsBlocked, run, clone, starting, removed>>,
         owed' \subseteq owed, waiting' \subseteq Execs \cup {Maintenance},
         unseen' \in BOOLEAN, faults' \in 0 .. MaxFaults
  PROVE  IInv'
<1>1. e \in owed /\ e \notin Flagged
  BY DEF StoreEnd, IInv, RowsFit, HandedOutUnflagged
<1>2. CASE /\ status[e] \in Active
           /\ status' = [status EXCEPT ![e] = s]
           /\ succeededOnce' = IF s = "succeeded" THEN succeededOnce \cup {specOf[e]} ELSE succeededOnce
  <2>1. s # "queued" /\ s \notin {"leased", "running"}
    BY DEF Terminal
  <2> QED BY <1>1, <1>2, <2>1, StatusIInv
<1>3. CASE UNCHANGED <<status, succeededOnce>>
  <2>1. RowsFit'
    BY <1>1, <1>3 DEF IInv, RowsFit, SpecsAssigned, HistoryComplete, HandedOutUnflagged,
                      ReleasedAfterDependencies, Fulfilled, Flagged
  <2>2. Onward /\ Flagged' = Flagged
    BY <1>1, <1>3 DEF Onward, Flagged
  <2>3. RunFits' /\ CancelsOnlyWaiting'
    BY <1>1, <1>3, <2>2, RunKept DEF SameDecision
  <2>4. TypeOK'
    BY <1>1, <1>3 DEF IInv, TypeOK
  <2> QED BY <1>1, <2>1, <2>2, <2>3, <2>4, CloneKept DEF IInv
<1> QED BY <1>2, <1>3 DEF StoreEnd

LEMMA ReportEndStep ==
  ASSUME IInv, NEW e \in Execs, NEW s \in Terminal, ReportEnd(e, s)
  PROVE  IInv'
<1>1. /\ StoreEnd(e, s)
      /\ owed' = owed \ {e} /\ waiting' = waiting \cup {e}
      /\ UNCHANGED <<specOf, chainBlocked, needsBlocked, run, clone, starting, faults, removed,
                     unseen>>
  BY DEF ReportEnd
<1> QED BY <1>1, StoreEndStep DEF IInv, TypeOK

LEMMA ReportEndFailsStep ==
  ASSUME IInv, NEW e \in Execs, NEW s \in Terminal, ReportEndFails(e, s)
  PROVE  IInv'
<1>1. /\ StoreEnd(e, s) /\ unseen' = TRUE
      /\ UNCHANGED <<specOf, chainBlocked, needsBlocked, owed, waiting, run, clone, starting, removed>>
  BY DEF ReportEndFails
<1>2. faults' \in 0 .. MaxFaults
  BY UsersAssumption DEF ReportEndFails, IInv, TypeOK
<1> QED BY <1>1, <1>2, StoreEndStep DEF IInv, TypeOK

LEMMA FailTimedOutStep ==
  ASSUME IInv, NEW e \in Execs, FailTimedOutJobExecution(e)
  PROVE  IInv'
<1>1. status[e] = "running" /\ e \notin Flagged
  BY DEF FailTimedOutJobExecution, IInv, RowsFit, HandedOutUnflagged
<1>2. /\ status' = [status EXCEPT ![e] = "failed"]
      /\ waiting' = waiting \cup {Maintenance}
      /\ UNCHANGED <<specOf, chainBlocked, needsBlocked, owed, run, clone, starting,
                     faults, succeededOnce, removed, unseen>>
  BY DEF FailTimedOutJobExecution, history
<1> QED BY <1>1, <1>2, StatusIInv DEF Active, Pending, Terminal, IInv, TypeOK

LEMMA UntoldFailureStep ==
  ASSUME IInv, NEW e \in Execs, CancelJobExecution(e) \/ FailUnresolvedSecrets(e)
  PROVE  IInv'
<1>1. status[e] \in Active /\ (e \in owed => e \notin Flagged)
  BY DEF CancelJobExecution, FailUnresolvedSecrets, Leasable, Active, Pending, IInv, RowsFit,
         HandedOutUnflagged
<1>2. /\ status' = [status EXCEPT ![e] = "failed"]
      /\ UNCHANGED <<specOf, chainBlocked, needsBlocked, owed, waiting, run, clone, starting,
                     faults, succeededOnce, removed>>
      /\ unseen' = TRUE
  BY DEF CancelJobExecution, FailUnresolvedSecrets, history
<1> QED BY <1>1, <1>2, StatusIInv DEF Active, Pending, Terminal, IInv, TypeOK

LEMMA DeleteIInv ==
  ASSUME IInv, NEW S \in SUBSET Execs, \A e \in S : status[e] # "absent", DeleteExecutions(S)
  PROVE  IInv'
<1>1. /\ RowsFit' /\ Onward
      /\ \A x \in Execs : status[x] = "queued" /\ x \in Flagged =>
           /\ status'[x] \notin {"leased", "running"}
           /\ status'[x] = "queued" => x \in Flagged'
  BY DeleteStep
<1>2. UNCHANGED <<specOf, owed, waiting, run, clone, starting, faults, succeededOnce>>
  BY DEF DeleteExecutions
<1>3. RunFits' /\ CancelsOnlyWaiting'
  BY <1>1, <1>2, RunKept DEF SameDecision
<1>4. removed' \subseteq Specs
  <2>1. \A e \in S : specOf[e] \in 0 .. NumSpecs /\ specOf[e] # 0
    BY DEF IInv, TypeOK, RowsFit, SpecsAssigned
  <2>2. \A e \in S : specOf[e] \in Specs
    BY <2>1, SizeAssumption DEF Specs
  <2> QED BY <2>2 DEF IInv, TypeOK, DeleteExecutions
<1>5. status' \in [Execs -> Active \cup Terminal \cup {"absent", "deleted"}]
  BY DEF DeleteExecutions, IInv, TypeOK
<1>6. TypeOK'
  BY <1>2, <1>4, <1>5 DEF DeleteExecutions, IInv, TypeOK
<1> QED BY <1>1, <1>2, <1>3, <1>6, CloneKept DEF IInv
LEMMA BeginRerunStep ==
  ASSUME IInv, NEW e \in Execs, BeginRerun(e)
  PROVE  IInv'
<1>1. UNCHANGED <<rows, owed, waiting, run, starting, faults, history, unseen>>
  BY DEF BeginRerun
<1>2. RowsFit' /\ Onward /\ RunFits' /\ CancelsOnlyWaiting'
  BY <1>1, RowsUnchanged, RunKept DEF SameDecision
<1>3. clone' = [pc |-> "check", job |-> e, chain |-> e \in chainBlocked, needs |-> e \in needsBlocked]
  BY DEF BeginRerun
<1>4. clone' \in CloneState
  <2>1. e \in 0 .. MaxExecs
    BY SizeAssumption DEF Execs
  <2>2. (e \in chainBlocked) \in BOOLEAN /\ (e \in needsBlocked) \in BOOLEAN
    OBVIOUS
  <2> QED BY <1>3, <2>1, <2>2, Zenon DEF CloneState
<1>5. CloneFits'
  <2>1. status[e] # "absent"
    BY DEF BeginRerun, Terminal
  <2>2. specOf[e] \in Specs
    BY <2>1, SizeAssumption DEF IInv, TypeOK, RowsFit, SpecsAssigned, Specs
  <2>3. clone'.pc = "check" /\ clone'.job = e
    BY <1>3
  <2> QED BY <2>2, <2>3, <1>1 DEF CloneFits, rows
<1>6. TypeOK'
  BY <1>1, <1>4 DEF IInv, TypeOK, rows, history
<1> QED BY <1>2, <1>5, <1>6 DEF IInv

LEMMA NoCloneFacts == NoClone \in CloneState /\ NoClone.pc = "none"
<1>1. 0 \in 0 .. MaxExecs
  BY SizeAssumption
<1> QED BY <1>1 DEF NoClone, CloneState

LEMMA CheckRerunStep ==
  ASSUME IInv, CheckRerun
  PROVE  IInv'
<1>1. UNCHANGED <<rows, owed, waiting, run, starting, faults, history, unseen>>
  BY DEF CheckRerun
<1>2. RowsFit' /\ Onward /\ RunFits' /\ CancelsOnlyWaiting'
  BY <1>1, RowsUnchanged, RunKept DEF SameDecision
<1> DEFINE s == specOf[clone.job]
<1>3. clone.pc = "check" /\ clone.job \in Execs /\ s \in Specs
  BY DEF CheckRerun, IInv, CloneFits
<1>4. CASE clone' = NoClone
  BY <1>4, NoCloneFacts, <1>1, <1>2 DEF IInv, TypeOK, CloneFits, rows, history
<1>5. CASE clone' # NoClone
  <2>1. /\ AllMet(Needs[s])
        /\ \/ clone' = [clone EXCEPT !.pc = "create", !.needs = FALSE]
           \/ clone' = [clone EXCEPT !.pc = "create"]
    BY <1>5 DEF CheckRerun
  <2>2. clone' \in CloneState /\ clone'.pc = "create" /\ clone'.job = clone.job
    BY <2>1 DEF IInv, TypeOK, CloneState
  <2>3. Fulfilled(Needs[s])
    <3>1. Needs[s] \in Seq(SUBSET Specs)
      BY <1>3, GraphAssumption
    <3> QED BY <3>1, <2>1, MetIsFulfilled DEF IInv
  <2>4. CloneFits'
    BY <2>2, <2>3, <1>1, <1>3 DEF CloneFits, Fulfilled, rows, history
  <2> QED BY <2>2, <2>4, <1>1, <1>2 DEF IInv, TypeOK, rows, history
<1> QED BY <1>4, <1>5

(* A rerun is counted, and leaves to the reconciliation what it decided. *)
LEMMA RerunCounted ==
  ASSUME TypeOK, CreateRerun
  PROVE  SameDecision /\ run' \in RunState
<1>1. CASE run.pc = "idle"
  BY <1>1 DEF CreateRerun, SameDecision, TypeOK
<1>2. CASE run.pc # "idle"
  BY <1>2 DEF CreateRerun, SameDecision, TypeOK, RunState
<1> QED BY <1>1, <1>2

LEMMA CreateRerunIInv ==
  ASSUME IInv, CreateRerun
  PROVE  IInv'
<1>0. SameDecision /\ run' \in RunState
  BY RerunCounted DEF IInv
<1>1. RowsFit' /\ Onward /\ RunFits' /\ CancelsOnlyWaiting'
  BY <1>0, CreateRerunStep, RunKept
<1>2. CloneFits' /\ clone' \in CloneState
  BY NoCloneFacts DEF CreateRerun, CloneFits
<1>3. PICK n \in Execs : /\ specOf' = [specOf EXCEPT ![n] = specOf[clone.job]]
                         /\ status' = [status EXCEPT ![n] = "queued"]
                         /\ chainBlocked' = IF clone.chain THEN chainBlocked \cup {n} ELSE chainBlocked
                         /\ needsBlocked' = IF clone.needs THEN needsBlocked \cup {n} ELSE needsBlocked
  BY DEF CreateRerun
<1>4. specOf[clone.job] \in 0 .. NumSpecs
  BY DEF CreateRerun, IInv, CloneFits, TypeOK
<1>5. /\ specOf' \in [Execs -> 0 .. NumSpecs]
      /\ status' \in [Execs -> Active \cup Terminal \cup {"absent", "deleted"}]
      /\ chainBlocked' \subseteq Execs /\ needsBlocked' \subseteq Execs
  BY <1>3, <1>4 DEF IInv, TypeOK, Active, Pending
<1>6. TypeOK'
  BY <1>0, <1>2, <1>5 DEF IInv, TypeOK, CreateRerun, history
<1> QED BY <1>1, <1>2, <1>6 DEF IInv

LEMMA RestartStep ==
  ASSUME IInv, Restart
  PROVE  IInv'
<1>1. UNCHANGED <<rows, owed, history, unseen>> /\ run' = Idle /\ clone' = NoClone
  BY DEF Restart
<1>2. RowsFit' /\ Onward
  BY <1>1, RowsUnchanged
<1>3. RunFits' /\ CancelsOnlyWaiting' /\ CloneFits'
  BY <1>1, IdleFacts, NoCloneFacts DEF RunFits, CancelsOnlyWaiting, CloneFits
<1>4. faults' \in 0 .. MaxFaults
  BY UsersAssumption DEF Restart, IInv, TypeOK
<1>5. TypeOK'
  BY <1>1, <1>4, IdleFacts, NoCloneFacts DEF IInv, TypeOK, Restart, rows, history, StartupCallers
<1> QED BY <1>2, <1>3, <1>5 DEF IInv

LEMMA StartServingStep ==
  ASSUME IInv, StartServing
  PROVE  IInv'
<1>1. UNCHANGED <<rows, owed, waiting, run, clone, faults, history, unseen>> /\ starting' = FALSE
  BY DEF StartServing
<1>2. RowsFit' /\ Onward /\ RunFits' /\ CancelsOnlyWaiting'
  BY <1>1, RowsUnchanged, RunKept DEF SameDecision
<1> QED BY <1>1, <1>2, CloneKept DEF IInv, TypeOK, rows, history

LEMMA StutterStep ==
  ASSUME IInv, UNCHANGED vars
  PROVE  IInv'
<1>1. UNCHANGED <<rows, owed, waiting, run, clone, starting, faults, history, unseen>>
  BY DEF vars, rows, history
<1>2. RowsFit' /\ Onward /\ RunFits' /\ CancelsOnlyWaiting'
  BY <1>1, RowsUnchanged, RunKept DEF SameDecision
<1> QED BY <1>1, <1>2, CloneKept DEF IInv, TypeOK, rows, history

LEMMA InitIInv == Init => IInv
<1> SUFFICES ASSUME Init PROVE IInv
  OBVIOUS
<1>1. Specs \subseteq Execs /\ 0 \notin Specs /\ Specs \subseteq 0 .. NumSpecs /\ 0 \in 0 .. NumSpecs
  BY SizeAssumption DEF Specs, Execs
<1>2. /\ specOf \in [Execs -> 0 .. NumSpecs]
      /\ status \in [Execs -> Active \cup Terminal \cup {"absent", "deleted"}]
      /\ \A e \in Execs : specOf[e] = IF e \in Specs THEN e ELSE 0
      /\ \A e \in Execs : status[e] = IF e \in Specs THEN "queued" ELSE "absent"
  BY <1>1 DEF Init, Active, Pending
<1>3. chainBlocked \subseteq Specs /\ needsBlocked \subseteq Specs
  BY DEF Init
<1>4. 0 \in 0 .. MaxFaults
  BY UsersAssumption
<1>5. TypeOK
  BY <1>1, <1>2, <1>3, <1>4, IdleFacts, NoCloneFacts DEF Init, TypeOK
<1>6. SpecsAssigned /\ HistoryComplete /\ HandedOutUnflagged
  BY <1>1, <1>2 DEF Init, SpecsAssigned, HistoryComplete, HandedOutUnflagged
<1>7. ReleasedAfterDependencies
  <2> SUFFICES ASSUME NEW e \in Execs, status[e] \in Active
               PROVE  /\ e \in needsBlocked \/ Fulfilled(Needs[specOf[e]])
                      /\ e \in Specs /\ e \notin chainBlocked => Fulfilled(ChainDeps[e])
    BY DEF ReleasedAfterDependencies
  <2>1. e \in Specs /\ specOf[e] = e
    BY <1>2 DEF Active, Pending
  <2>2. e \in needsBlocked \/ Needs[e] = <<>>
    BY <2>1 DEF Init
  <2>3. e \in chainBlocked \/ ChainDeps[e] = <<>>
    BY <2>1 DEF Init
  <2>4. Fulfilled(<<>>)
    BY DEF Fulfilled
  <2> QED BY <2>1, <2>2, <2>3, <2>4
<1>8. RunFits /\ CancelsOnlyWaiting /\ CloneFits
  BY IdleFacts, NoCloneFacts DEF Init, RunFits, CancelsOnlyWaiting, CloneFits
<1> QED BY <1>5, <1>6, <1>7, <1>8 DEF IInv, RowsFit

LEMMA NextIInv == IInv /\ [Next]_vars => IInv'
<1> SUFFICES ASSUME IInv, [Next]_vars PROVE IInv'
  OBVIOUS
<1>1. ASSUME NEW w \in waiting, StartReconcile(w) PROVE IInv'
  BY <1>1, StartReconcileStep
<1>2. CASE RelistAfterChange
  BY <1>2, RelistStep
<1>3. CASE ClearBlocker
  BY <1>3, ClearBlockerStep
<1>4. CASE FailBlockedJob
  BY <1>4, FailBlockedJobStep
<1>5. CASE FinishFailBlockedJob
  BY <1>5, FinishFailStep
<1>6. ASSUME NEW e \in Execs, LeaseJobExecution(e) PROVE IInv'
  BY <1>6, LeaseStep
<1>7. ASSUME NEW e \in Execs, RequeueJobExecution(e) PROVE IInv'
  BY <1>7, RequeueStep
<1>8. ASSUME NEW e \in Execs, ReportRunning(e) PROVE IInv'
  BY <1>8, ReportRunningStep
<1>9. ASSUME NEW e \in Execs, NEW s \in Terminal, ReportEnd(e, s) PROVE IInv'
  BY <1>9, ReportEndStep
<1>22. ASSUME NEW e \in Execs, NEW s \in Terminal, ReportEndFails(e, s) PROVE IInv'
  BY <1>22, ReportEndFailsStep
<1>23. CASE ReconcileFails
  BY <1>23, ReconcileFailsStep
<1>10. ASSUME NEW e \in Execs, FailTimedOutJobExecution(e) PROVE IInv'
  BY <1>10, FailTimedOutStep
<1>11. ASSUME NEW e \in Execs, CancelJobExecution(e) PROVE IInv'
  BY <1>11, UntoldFailureStep
<1>12. ASSUME NEW e \in Execs, FailUnresolvedSecrets(e) PROVE IInv'
  BY <1>12, UntoldFailureStep
<1>13. ASSUME NEW e \in Execs, DeleteQueuedJobExecution(e) PROVE IInv'
  <2>1. {e} \in SUBSET Execs /\ status[e] # "absent" /\ DeleteExecutions({e})
    BY <1>13 DEF DeleteQueuedJobExecution, Pending
  <2> QED BY <2>1, DeleteIInv
<1>14. CASE ClearQueuedJobExecutions
  <2> DEFINE S == {e \in Execs : status[e] \in Pending}
  <2>1. S \in SUBSET Execs /\ (\A e \in S : status[e] # "absent") /\ DeleteExecutions(S)
    BY <1>14 DEF ClearQueuedJobExecutions, Pending
  <2> HIDE DEF S
  <2> QED BY <2>1, DeleteIInv
<1>15. ASSUME NEW S \in SUBSET Execs, FlushJobExecutionHistory(S) PROVE IInv'
  <2>1. (\A e \in S : status[e] # "absent") /\ DeleteExecutions(S)
    BY <1>15 DEF FlushJobExecutionHistory, Terminal
  <2> QED BY <2>1, DeleteIInv
<1>16. ASSUME NEW e \in Execs, BeginRerun(e) PROVE IInv'
  BY <1>16, BeginRerunStep
<1>17. CASE CheckRerun
  BY <1>17, CheckRerunStep
<1>18. CASE CreateRerun
  BY <1>18, CreateRerunIInv
<1>19. CASE Restart
  BY <1>19, RestartStep
<1>20. CASE StartServing
  BY <1>20, StartServingStep
<1>21. CASE UNCHANGED vars
  BY <1>21, StutterStep
<1> QED BY <1>1, <1>2, <1>3, <1>4, <1>5, <1>6, <1>7, <1>8, <1>9, <1>10, <1>11, <1>12, <1>13,
           <1>14, <1>15, <1>16, <1>17, <1>18, <1>19, <1>20, <1>21, <1>22, <1>23 DEF Next

(* The inductive invariant: what a caller of the reconciliation or of a    *)
(* rerun found out in a list still holds of the rows when it writes.       *)
THEOREM InvariantHolds == Spec => []IInv
<1>1. Init => IInv
  BY InitIInv
<1>2. IInv /\ [Next]_vars => IInv'
  BY NextIInv
<1> QED
  BY <1>1, <1>2, PTL DEF Spec

(* Type correctness of the rows, the reconciliation and the rerun. *)
THEOREM TypeCorrect == Spec => []TypeOK
<1>1. IInv => TypeOK
  BY DEF IInv
<1> QED
  BY <1>1, InvariantHolds, PTL

(* No execution is released before its dependencies were fulfilled, for    *)
(* any graph of pipelines and needs, any number of reruns and faults.        *)
THEOREM ReleaseFollowsDependencies == Spec => []ReleasedAfterDependencies
<1>1. IInv => ReleasedAfterDependencies
  BY DEF IInv, RowsFit
<1> QED
  BY <1>1, InvariantHolds, PTL

(* The runtime never fails an execution that an agent may have begun. *)
THEOREM OnlyWaitingIsCancelled == Spec => []CancelsOnlyWaiting
<1>1. IInv => CancelsOnlyWaiting
  BY DEF IInv
<1> QED
  BY <1>1, InvariantHolds, PTL
-----------------------------------------------------------------------------
(* What is left to be decided, and how long a reconciliation may go on.    *)

(* Only executions that exist have flags. *)
FlagsOfRows == \A e \in Flagged : Exists(e)

(* A row that was decided on has its flag until the reconciliation takes   *)
(* it, or is deleted; and a deletion is a change that nobody asked the     *)
(* runtime to look at.                                                     *)
RunHoldsFlag ==
  run.pc \in {"clear", "fail", "merge"} /\ Exists(run.job) =>
    /\ run.flag = "chain" => run.job \in chainBlocked
    /\ run.flag = "needs" => run.job \in needsBlocked

LostIsUnseen == run.pc \in {"clear", "fail", "merge"} /\ ~unseen => Exists(run.job)

SeenInv == FlagsOfRows /\ RunHoldsFlag /\ LostIsUnseen /\ NothingLeftUndecided

(* What a step does that takes no flag away and decides nothing. *)
Apart ==
  /\ SameDecision
  /\ unseen' \in {unseen, TRUE}
  /\ \A e \in Execs : Exists(e) /\ unseen' # TRUE => Exists(e)'
  /\ \A e \in Execs : Exists(e)' /\ e \in chainBlocked => e \in chainBlocked'
  /\ \A e \in Execs : Exists(e)' /\ e \in needsBlocked => e \in needsBlocked'
  /\ \A e \in Execs : Exists(e)' => Exists(e) \/ status[e] = "absent"
  /\ \A e \in Flagged' : Exists(e)'

LEMMA ApartKeeps ==
  ASSUME IInv, SeenInv, Apart
  PROVE  FlagsOfRows' /\ RunHoldsFlag' /\ LostIsUnseen'
<1>1. run.pc \in {"clear", "fail", "merge"} => run.job \in Execs /\ status[run.job] # "absent"
  BY DEF IInv, RunFits
<1>2. FlagsOfRows'
  BY DEF Apart, FlagsOfRows
<1>3. RunHoldsFlag'
  <2> SUFFICES ASSUME run.pc \in {"clear", "fail", "merge"}, Exists(run.job)'
               PROVE  /\ run.flag = "chain" => run.job \in chainBlocked'
                      /\ run.flag = "needs" => run.job \in needsBlocked'
    BY DEF Exists, RunHoldsFlag, Apart, SameDecision
  <2>1. Exists(run.job)
    BY <1>1 DEF Apart, SameDecision, Exists
  <2> QED BY <2>1, <1>1 DEF Apart, SameDecision, SeenInv, RunHoldsFlag, Exists
<1>4. LostIsUnseen'
  <2> SUFFICES ASSUME run.pc \in {"clear", "fail", "merge"}, ~unseen' PROVE Exists(run.job)'
    BY DEF Exists, LostIsUnseen, Apart, SameDecision
  <2>1. ~unseen
    BY DEF Apart
  <2> QED BY <2>1, <1>1 DEF Apart, SameDecision, SeenInv, LostIsUnseen, Exists
<1> QED BY <1>2, <1>3, <1>4

(* Handing an execution out, taking it back, and its start change nothing  *)
(* that the runtime looks at.                                              *)
LEMMA DecidableSame ==
  ASSUME UNCHANGED <<specOf, chainBlocked, needsBlocked>>,
         \A x \in Execs : /\ status'[x] \in Active <=> status[x] \in Active
                          /\ status'[x] = "succeeded" <=> status[x] = "succeeded"
                          /\ status'[x] \in Terminal <=> status[x] \in Terminal
                          /\ x \in Flagged => status'[x] = status[x]
  PROVE  Decidable' = Decidable
<1>1. \A x \in Execs : Exists(x)' <=> Exists(x)
  BY DEF Exists
<1>2. ASSUME NEW g PROVE LatestAttempts(g)' = LatestAttempts(g)
  BY <1>1 DEF LatestAttempts
<1>3. ASSUME NEW g PROVE Standing(g)' = Standing(g)
  <2>1. LatestAttempts(g) \subseteq Execs
    BY DEF LatestAttempts
  <2>2. LatestAttempts(g)' = LatestAttempts(g)
    BY <1>2
  <2> QED BY <2>1, <2>2 DEF Standing
<1>4. ASSUME NEW d PROVE (AllMet(d)' <=> AllMet(d)) /\ (IsFailed(d)' <=> IsFailed(d))
  BY <1>3 DEF AllMet, IsFailed
<1>5. ASSUME NEW e \in Execs PROVE e \in Decidable' <=> e \in Decidable
  <2>1. Deps(e)' = Deps(e)
    BY DEF Deps
  <2>2. (AllMet(Deps(e))' <=> AllMet(Deps(e))) /\ (IsFailed(Deps(e))' <=> IsFailed(Deps(e)))
    <3> DEFINE d == Deps(e)
    <3>1. d' = d
      BY <2>1
    <3>2. (AllMet(d)' <=> AllMet(d)) /\ (IsFailed(d)' <=> IsFailed(d))
      BY <1>3, <3>1 DEF AllMet, IsFailed
    <3> QED BY <3>2
  <2> QED BY <2>2 DEF Decidable, Flagged
<1> QED BY <1>5 DEF Decidable

(* The rows stay, and so does what is decided on them. *)
LEMMA DecidableStays ==
  ASSUME UNCHANGED rows
  PROVE  Decidable' = Decidable /\ (\A e \in Execs : Exists(e)' <=> Exists(e)) /\ Flagged' = Flagged
<1>1. UNCHANGED <<specOf, status, chainBlocked, needsBlocked>>
  BY DEF rows
<1> QED BY <1>1, DecidableSame DEF Exists, Flagged

(* A list that finds something decides on a row that has the flag; one     *)
(* that finds nothing leaves nothing.                                      *)
LEMMA ListSees ==
  ASSUME IInv, SeenInv, NEW left, NEW listed, NEW created, ListAndDecide(left, listed, created),
         UNCHANGED rows
  PROVE  SeenInv'
<1>1. FlagsOfRows'
  BY DecidableStays DEF SeenInv, FlagsOfRows, Exists, rows, Flagged
<1>2. CASE Decidable = {} /\ run' = Idle
  <2>1. RunHoldsFlag' /\ LostIsUnseen'
    BY <1>2 DEF RunHoldsFlag, LostIsUnseen, Idle
  <2>2. NothingLeftUndecided'
    BY <1>2, DecidableStays DEF NothingLeftUndecided
  <2> QED BY <1>1, <2>1, <2>2 DEF SeenInv
<1>3. CASE \E e \in Decidable : \E pc \in Decision(e) :
             run' = [pc |-> pc, job |-> e, flag |-> Flag(e), left |-> left,
                   listed |-> listed, created |-> created]
  <2>1. PICK e \in Decidable : \E pc \in Decision(e) :
             run' = [pc |-> pc, job |-> e, flag |-> Flag(e), left |-> left,
                   listed |-> listed, created |-> created]
    BY <1>3
  <2>2. run'.pc \in {"clear", "fail"} /\ run'.job = e /\ run'.flag = Flag(e)
    BY <2>1 DEF Decision
  <2>3. Exists(e) /\ Exists(e)' /\ e \in chainBlocked \cup needsBlocked
    BY DEF Decidable, Exists, Active, Pending, rows
  <2>4. RunHoldsFlag'
    <3>1. (Flag(e) = "chain" => e \in chainBlocked) /\ (Flag(e) = "needs" => e \in needsBlocked)
      BY <2>3 DEF Flag
    <3> QED BY <3>1, <2>2 DEF RunHoldsFlag, rows
  <2>5. LostIsUnseen'
    BY <2>2, <2>3 DEF LostIsUnseen, Exists
  <2>6. NothingLeftUndecided'
    BY <2>2 DEF NothingLeftUndecided
  <2> QED BY <1>1, <2>4, <2>5, <2>6 DEF SeenInv
<1> QED BY <1>2, <1>3 DEF ListAndDecide

(* A call that does not find the row leaves the rest undecided; but then   *)
(* the row was deleted since the list.                                     *)
LEMMA AbortSees ==
  ASSUME SeenInv, Aborted, UNCHANGED unseen, unseen
  PROVE  SeenInv'
<1>1. FlagsOfRows'
  BY DecidableStays DEF SeenInv, FlagsOfRows, Exists, rows, Flagged, Aborted
<1>2. run'.pc = "idle"
  BY DEF Aborted, Idle
<1> QED BY <1>1, <1>2 DEF SeenInv, RunHoldsFlag, LostIsUnseen, NothingLeftUndecided

(* A reconciliation gives up, and it is on record that it did not look. *)
LEMMA GivenUpSees ==
  ASSUME SeenInv, UNCHANGED rows, run' = Idle, unseen' = TRUE
  PROVE  SeenInv'
<1>1. FlagsOfRows'
  BY DecidableStays DEF SeenInv, FlagsOfRows, Exists, rows, Flagged
<1> QED BY <1>1 DEF SeenInv, RunHoldsFlag, LostIsUnseen, NothingLeftUndecided, Idle

(* The reconciliation goes on to "merge" or to the next list. *)
LEMMA GoesOnSees ==
  ASSUME IInv, SeenInv, run.pc \in {"clear", "fail", "merge"}, Exists(run.job),
         \/ run' = [run EXCEPT !.pc = "again"] /\ Unflag(run.job, run.flag)
         \/ run' = [run EXCEPT !.pc = "merge"] /\ UNCHANGED <<chainBlocked, needsBlocked>>,
         \A e \in Execs : Exists(e)' <=> Exists(e)
  PROVE  SeenInv'
<1>1. run'.pc \in {"again", "merge"} /\ run'.job = run.job /\ run'.flag = run.flag
  BY DEF IInv, TypeOK, RunState
<1>2. run.job \in Execs
  BY DEF IInv, RunFits
<1>3. chainBlocked' \subseteq chainBlocked /\ needsBlocked' \subseteq needsBlocked
  BY DEF Unflag
<1>4. chainBlocked \subseteq Execs /\ needsBlocked \subseteq Execs
  BY DEF IInv, TypeOK
<1>5. FlagsOfRows'
  <2> SUFFICES ASSUME NEW e \in Flagged' PROVE Exists(e)'
    BY DEF FlagsOfRows
  <2>1. e \in Flagged /\ e \in Execs
    BY <1>3, <1>4 DEF Flagged
  <2> QED BY <2>1 DEF SeenInv, FlagsOfRows
<1>6. RunHoldsFlag'
  <2> SUFFICES ASSUME run'.pc = "merge"
               PROVE  /\ run'.flag = "chain" => run'.job \in chainBlocked'
                      /\ run'.flag = "needs" => run'.job \in needsBlocked'
    BY <1>1 DEF RunHoldsFlag
  <2>1. UNCHANGED <<chainBlocked, needsBlocked>>
    BY DEF IInv, TypeOK, RunState
  <2> QED BY <2>1, <1>1 DEF SeenInv, RunHoldsFlag
<1>7. Exists(run.job)'
  BY <1>1, <1>2 DEF Exists
<1>8. LostIsUnseen'
  BY <1>1, <1>7 DEF LostIsUnseen, Exists
<1>9. NothingLeftUndecided'
  BY <1>1 DEF NothingLeftUndecided
<1> QED BY <1>5, <1>6, <1>8, <1>9 DEF SeenInv

LEMMA ReconcileSees ==
  ASSUME IInv, SeenInv, Reconcile
  PROVE  SeenInv'
<1>1. ASSUME NEW w \in waiting, StartReconcile(w) PROVE SeenInv'
  BY <1>1, ListSees DEF StartReconcile
<1>2. CASE RelistAfterChange
  <2>1. CASE ListAndDecide(run.left - 1, run.listed, run.created)
    BY <1>2, <2>1, ListSees DEF RelistAfterChange
  <2>2. CASE run' = Idle /\ unseen' = TRUE
    BY <1>2, <2>2, GivenUpSees DEF RelistAfterChange
  <2> QED BY <1>2, <2>1, <2>2 DEF RelistAfterChange
<1>3. CASE ClearBlocker \/ FinishFailBlockedJob
  <2>1. CASE ~Exists(run.job)
    <3>1. unseen
      BY <1>3, <2>1 DEF ClearBlocker, FinishFailBlockedJob, SeenInv, LostIsUnseen
    <3> QED BY <1>3, <2>1, <3>1, AbortSees DEF ClearBlocker, FinishFailBlockedJob
  <2>2. CASE Exists(run.job)
    <3>1. \A e \in Execs : Exists(e)' <=> Exists(e)
      BY <1>3, <2>2 DEF ClearBlocker, FinishFailBlockedJob, Exists
    <3> QED BY <1>3, <2>2, <3>1, GoesOnSees DEF ClearBlocker, FinishFailBlockedJob
  <2> QED BY <2>1, <2>2
<1>4. CASE FailBlockedJob
  <2>1. run.job \in Execs /\ run.pc = "fail"
    BY <1>4 DEF FailBlockedJob, IInv, RunFits
  <2>2. CASE ~Exists(run.job)
    <3>1. unseen
      BY <2>1, <2>2 DEF SeenInv, LostIsUnseen
    <3>2. Aborted
      BY <1>4, <2>2 DEF FailBlockedJob, Exists, Active, Pending
    <3> QED BY <1>4, <3>1, <3>2, AbortSees DEF FailBlockedJob
  <2>3. CASE Exists(run.job)
    <3>1. status[run.job] \notin {"leased", "running"}
      BY <2>1 DEF IInv, CancelsOnlyWaiting
    <3>2. /\ run' = [run EXCEPT !.pc = "merge"]
          /\ UNCHANGED <<chainBlocked, needsBlocked>>
          /\ \A e \in Execs : Exists(e)' <=> Exists(e)
      BY <1>4, <2>1, <2>3, <3>1 DEF FailBlockedJob, Exists, rows, IInv, TypeOK, Active, Pending, Terminal
    <3> QED BY <2>1, <2>3, <3>2, GoesOnSees
  <2> QED BY <2>2, <2>3
<1> QED BY <1>1, <1>2, <1>3, <1>4 DEF Reconcile

(* A status changes among those of an execution that exists. *)
LEMMA StatusApart ==
  ASSUME IInv, SeenInv, run' = run, unseen' \in {unseen, TRUE},
         UNCHANGED <<chainBlocked, needsBlocked>>,
         \A e \in Execs : Exists(e)' <=> Exists(e)
  PROVE  FlagsOfRows' /\ RunHoldsFlag' /\ LostIsUnseen'
<1>1. chainBlocked \subseteq Execs /\ needsBlocked \subseteq Execs
  BY DEF IInv, TypeOK
<1>2. \A e \in Flagged' : Exists(e)'
  BY <1>1 DEF SeenInv, FlagsOfRows, Flagged
<1>3. Apart
  BY <1>2 DEF Apart, SameDecision
<1> QED BY <1>3, ApartKeeps

LEMMA StatusExists ==
  ASSUME IInv, NEW e \in Execs, NEW s \in Active \cup Terminal, status' = [status EXCEPT ![e] = s],
         Exists(e)
  PROVE  \A x \in Execs : Exists(x)' <=> Exists(x)
BY DEF IInv, TypeOK, Exists

LEMMA RowStepsSee ==
  ASSUME IInv, SeenInv,
         \/ \E e \in Execs : \/ LeaseJobExecution(e) \/ RequeueJobExecution(e) \/ ReportRunning(e)
                             \/ \E s \in Terminal : ReportEnd(e, s) \/ ReportEndFails(e, s)
                             \/ FailTimedOutJobExecution(e) \/ CancelJobExecution(e)
                             \/ FailUnresolvedSecrets(e)
  PROVE  SeenInv'
<1>1. PICK e \in Execs : \/ LeaseJobExecution(e) \/ RequeueJobExecution(e) \/ ReportRunning(e)
                         \/ \E s \in Terminal : ReportEnd(e, s) \/ ReportEndFails(e, s)
                         \/ FailTimedOutJobExecution(e) \/ CancelJobExecution(e)
                         \/ FailUnresolvedSecrets(e)
  OBVIOUS
<1>2. UNCHANGED <<specOf, chainBlocked, needsBlocked, run>> /\ unseen' \in {unseen, TRUE}
  BY <1>1 DEF LeaseJobExecution, RequeueJobExecution, ReportRunning, ReportEnd, ReportEndFails,
              StoreEnd, FailTimedOutJobExecution, CancelJobExecution, FailUnresolvedSecrets
<1>3. \A x \in Execs : Exists(x)' <=> Exists(x)
  <2>1. CASE status' = status
    BY <2>1 DEF Exists
  <2>2. CASE status' # status
    <3>1. Exists(e)
      BY <1>1, <2>2 DEF LeaseJobExecution, RequeueJobExecution, ReportRunning, ReportEnd,
              ReportEndFails, StoreEnd, FailTimedOutJobExecution, CancelJobExecution,
              FailUnresolvedSecrets, Leasable, Exists, Active, Pending
    <3>2. \E s \in Active \cup Terminal : status' = [status EXCEPT ![e] = s]
      BY <1>1, <2>2 DEF LeaseJobExecution, RequeueJobExecution, ReportRunning, ReportEnd,
              ReportEndFails, StoreEnd, FailTimedOutJobExecution, CancelJobExecution,
              FailUnresolvedSecrets, Active, Pending, Terminal
    <3> QED BY <3>1, <3>2, StatusExists
  <2> QED BY <2>1, <2>2
<1>4. FlagsOfRows' /\ RunHoldsFlag' /\ LostIsUnseen'
  BY <1>2, <1>3, StatusApart
<1>5. NothingLeftUndecided'
  <2>1. CASE LeaseJobExecution(e) \/ RequeueJobExecution(e) \/ ReportRunning(e)
    <3>1. e \notin Flagged /\ status[e] \in Active
      BY <2>1 DEF LeaseJobExecution, RequeueJobExecution, ReportRunning, Leasable, Flagged, Pending,
                  Active, IInv, RowsFit, HandedOutUnflagged
    <3>2. PICK s \in Active : status' = [status EXCEPT ![e] = s]
      BY <2>1 DEF LeaseJobExecution, RequeueJobExecution, ReportRunning, Active, Pending
    <3>3. \A x \in Execs : /\ status'[x] \in Active <=> status[x] \in Active
                           /\ status'[x] = "succeeded" <=> status[x] = "succeeded"
                           /\ status'[x] \in Terminal <=> status[x] \in Terminal
                           /\ x \in Flagged => status'[x] = status[x]
      BY <3>1, <3>2 DEF IInv, TypeOK, Active, Pending, Terminal
    <3>4. Decidable' = Decidable
      BY <1>2, <3>3, DecidableSame
    <3>5. UNCHANGED <<run, waiting, unseen>>
      BY <2>1 DEF LeaseJobExecution, RequeueJobExecution, ReportRunning
    <3> QED BY <3>4, <3>5 DEF SeenInv, NothingLeftUndecided
  <2>2. CASE (\E s \in Terminal : ReportEnd(e, s)) \/ FailTimedOutJobExecution(e)
    <3>1. waiting' # {}
      BY <2>2 DEF ReportEnd, FailTimedOutJobExecution
    <3> QED BY <3>1 DEF NothingLeftUndecided
  <2>3. CASE CancelJobExecution(e) \/ FailUnresolvedSecrets(e) \/ \E s \in Terminal : ReportEndFails(e, s)
    BY <2>3 DEF CancelJobExecution, FailUnresolvedSecrets, ReportEndFails, NothingLeftUndecided
  <2> QED BY <1>1, <2>1, <2>2, <2>3
<1> QED BY <1>4, <1>5 DEF SeenInv

LEMMA DeleteSees ==
  ASSUME IInv, SeenInv, NEW S \in SUBSET Execs, \A e \in S : status[e] # "absent", DeleteExecutions(S)
  PROVE  SeenInv'
<1>1. /\ \A x \in Execs : status'[x] = IF x \in S THEN "deleted" ELSE status[x]
      /\ chainBlocked' = chainBlocked \ S /\ needsBlocked' = needsBlocked \ S
      /\ unseen' = TRUE /\ run' = run
  BY DEF DeleteExecutions
<1>2. \A x \in Execs : Exists(x)' <=> Exists(x) /\ x \notin S
  BY <1>1 DEF Exists, Active, Pending, Terminal
<1>3. chainBlocked \subseteq Execs /\ needsBlocked \subseteq Execs
  BY DEF IInv, TypeOK
<1>4. \A e \in Flagged' : Exists(e)'
  BY <1>1, <1>2, <1>3 DEF SeenInv, FlagsOfRows, Flagged
<1>5. Apart
  BY <1>1, <1>2, <1>4 DEF Apart, SameDecision
<1>6. NothingLeftUndecided'
  BY <1>1 DEF NothingLeftUndecided
<1> QED BY <1>5, <1>6, ApartKeeps DEF SeenInv

LEMMA CreateRerunSees ==
  ASSUME IInv, SeenInv, CreateRerun
  PROVE  SeenInv'
<1>1. PICK n \in Execs : /\ IsNext(n)
                         /\ status' = [status EXCEPT ![n] = "queued"]
                         /\ chainBlocked' = IF clone.chain THEN chainBlocked \cup {n} ELSE chainBlocked
                         /\ needsBlocked' = IF clone.needs THEN needsBlocked \cup {n} ELSE needsBlocked
  BY DEF CreateRerun
<1>2. SameDecision /\ unseen' = TRUE
  BY RerunCounted DEF CreateRerun, IInv
<1>3. status[n] = "absent"
  BY <1>1 DEF IInv, RowsFit, SpecsAssigned, IsNext
<1>4. \A x \in Execs : Exists(x)' <=> Exists(x) \/ x = n
  BY <1>1, <1>3 DEF Exists, IInv, TypeOK, Active, Pending
<1>5. chainBlocked \subseteq Execs /\ needsBlocked \subseteq Execs
  BY DEF IInv, TypeOK
<1>6. Flagged' \subseteq Flagged \cup {n}
  BY <1>1 DEF Flagged
<1>7. \A e \in Flagged' : Exists(e)'
  BY <1>4, <1>5, <1>6 DEF SeenInv, FlagsOfRows, Flagged
<1>8. Apart
  BY <1>1, <1>2, <1>3, <1>4, <1>7 DEF Apart
<1>9. NothingLeftUndecided'
  BY <1>2 DEF NothingLeftUndecided
<1> QED BY <1>8, <1>9, ApartKeeps DEF SeenInv

LEMMA RowsStaySees ==
  ASSUME IInv, SeenInv, UNCHANGED <<rows, run, waiting, unseen>>
  PROVE  SeenInv'
<1>1. UNCHANGED <<chainBlocked, needsBlocked>> /\ (\A e \in Execs : Exists(e)' <=> Exists(e))
  BY DEF rows, Exists
<1>2. FlagsOfRows' /\ RunHoldsFlag' /\ LostIsUnseen'
  BY <1>1, StatusApart
<1>3. NothingLeftUndecided'
  BY DecidableStays DEF SeenInv, NothingLeftUndecided
<1> QED BY <1>2, <1>3 DEF SeenInv

LEMMA RestartSees ==
  ASSUME IInv, SeenInv, Restart
  PROVE  SeenInv'
<1>1. FlagsOfRows'
  BY DecidableStays DEF SeenInv, FlagsOfRows, Exists, rows, Flagged, Restart
<1>2. run'.pc = "idle" /\ waiting' # {}
  BY DEF Restart, Idle, StartupCallers
<1> QED BY <1>1, <1>2 DEF SeenInv, RunHoldsFlag, LostIsUnseen, NothingLeftUndecided

LEMMA NextSees == IInv /\ SeenInv /\ [Next]_vars => SeenInv'
<1> SUFFICES ASSUME IInv, SeenInv, [Next]_vars PROVE SeenInv'
  OBVIOUS
<1>1. CASE Reconcile
  BY <1>1, ReconcileSees
<1>2. ASSUME NEW e \in Execs,
             \/ LeaseJobExecution(e) \/ RequeueJobExecution(e) \/ ReportRunning(e)
             \/ \E s \in Terminal : ReportEnd(e, s) \/ ReportEndFails(e, s)
             \/ FailTimedOutJobExecution(e) \/ CancelJobExecution(e) \/ FailUnresolvedSecrets(e)
      PROVE  SeenInv'
  BY <1>2, RowStepsSee
<1>3. ASSUME NEW e \in Execs, DeleteQueuedJobExecution(e) PROVE SeenInv'
  <2>1. {e} \in SUBSET Execs /\ status[e] # "absent" /\ DeleteExecutions({e})
    BY <1>3 DEF DeleteQueuedJobExecution, Pending
  <2> QED BY <2>1, DeleteSees
<1>4. CASE ClearQueuedJobExecutions
  <2> DEFINE S == {e \in Execs : status[e] \in Pending}
  <2>1. S \in SUBSET Execs /\ (\A e \in S : status[e] # "absent") /\ DeleteExecutions(S)
    BY <1>4 DEF ClearQueuedJobExecutions, Pending
  <2> HIDE DEF S
  <2> QED BY <2>1, DeleteSees
<1>5. ASSUME NEW S \in SUBSET Execs, FlushJobExecutionHistory(S) PROVE SeenInv'
  <2>1. (\A e \in S : status[e] # "absent") /\ DeleteExecutions(S)
    BY <1>5 DEF FlushJobExecutionHistory, Terminal
  <2> QED BY <2>1, DeleteSees
<1>6. CASE CreateRerun
  BY <1>6, CreateRerunSees
<1>7. CASE Restart
  BY <1>7, RestartSees
<1>8. CASE (\E e \in Execs : BeginRerun(e)) \/ CheckRerun \/ StartServing \/ UNCHANGED vars
  <2>1. UNCHANGED <<rows, run, waiting, unseen>>
    BY <1>8 DEF BeginRerun, CheckRerun, StartServing, vars, rows
  <2> QED BY <2>1, RowsStaySees
<1>9. CASE ReconcileFails
  BY <1>9, GivenUpSees DEF ReconcileFails
<1> QED BY <1>1, <1>2, <1>3, <1>4, <1>5, <1>6, <1>7, <1>8, <1>9 DEF Next, Reconcile

LEMMA InitSees == Init => SeenInv
<1> SUFFICES ASSUME Init PROVE SeenInv
  OBVIOUS
<1>1. run.pc = "idle"
  BY DEF Init, Idle
<1>2. FlagsOfRows
  <2>1. \A e \in Flagged : e \in Specs /\ e \in Execs
    BY SizeAssumption DEF Init, Flagged, Specs, Execs
  <2> QED BY <2>1 DEF Init, FlagsOfRows, Exists, Active, Pending
<1>3. Decidable = {}
  <2> SUFFICES ASSUME NEW e \in Decidable PROVE FALSE
    OBVIOUS
  <2>1. e \in Execs /\ e \in Flagged /\ status[e] = "queued" /\ (AllMet(Deps(e)) \/ IsFailed(Deps(e)))
    BY DEF Decidable, Flagged
  <2>2. e \in Specs /\ specOf[e] = e
    BY <2>1 DEF Init
  <2>3. Deps(e) # <<>>
    BY <2>1, <2>2 DEF Deps, Init, Flagged
  <2>4. Deps(e) \in Seq(SUBSET Specs)
    BY <2>2, GraphAssumption DEF Deps
  <2>5. 1 \in 1 .. Len(Deps(e))
    <3> DEFINE d == Deps(e)
    <3> HIDE DEF d
    <3>1. d \in Seq(SUBSET Specs) /\ d # <<>> => 1 \in 1 .. Len(d)
      OBVIOUS
    <3> QED BY <3>1, <2>3, <2>4 DEF d
  <2>6. \A g : Standing(g) = "wait"
    <3> SUFFICES ASSUME NEW g PROVE Standing(g) = "wait"
      OBVIOUS
    <3>1. \A x \in LatestAttempts(g) : x \in Execs /\ Exists(x)
      BY DEF LatestAttempts
    <3>2. \A x \in LatestAttempts(g) : status[x] \in Active
      BY <3>1 DEF Exists, Init, Active, Pending, Terminal
    <3> QED BY <3>2 DEF Standing
  <2> QED BY <2>1, <2>5, <2>6 DEF AllMet, IsFailed
<1> QED BY <1>1, <1>2, <1>3 DEF SeenInv, RunHoldsFlag, LostIsUnseen, NothingLeftUndecided
-----------------------------------------------------------------------------
(* A reconciliation takes one flag in each of its transitions.  It begins  *)
(* with at most two flags for each execution of its first list, and a      *)
(* rerun adds at most two.                                                 *)
Flags == Cardinality(chainBlocked) + Cardinality(needsBlocked)

Budget ==
  /\ run.pc \in {"clear", "fail", "merge"} => Flags + run.listed <= run.left + 2 * run.created
  /\ run.pc = "again" => Flags + run.listed < run.left + 2 * run.created

LEMMA ExecsFinite == IsFiniteSet(Execs)
<1>1. MaxExecs \in Int /\ 1 \in Int
  BY SizeAssumption
<1> QED BY <1>1, FS_Interval DEF Execs

LEMMA FlagsType ==
  ASSUME TypeOK
  PROVE  /\ IsFiniteSet(chainBlocked) /\ IsFiniteSet(needsBlocked)
         /\ Cardinality(chainBlocked) \in Nat /\ Cardinality(needsBlocked) \in Nat /\ Flags \in Nat
<1>1. IsFiniteSet(chainBlocked) /\ IsFiniteSet(needsBlocked)
  BY ExecsFinite, FS_Subset DEF TypeOK
<1>2. Cardinality(chainBlocked) \in Nat /\ Cardinality(needsBlocked) \in Nat
  BY <1>1, FS_CardinalityType
<1> QED BY <1>1, <1>2 DEF Flags

LEMMA FlagsAtMost ==
  ASSUME TypeOK, FlagsOfRows
  PROVE  Flags + Listed <= MaxTransitions - 1
<1> DEFINE S == {e \in Execs : Exists(e)}
<1>1. chainBlocked \subseteq S /\ needsBlocked \subseteq S
  BY DEF FlagsOfRows, Flagged, TypeOK
<1>2. IsFiniteSet(S)
  BY ExecsFinite, FS_Subset, S \subseteq Execs
<1>3. MaxTransitions = 3 * Cardinality(S) + 1 /\ Listed = Cardinality(S)
  BY DEF MaxTransitions, Listed
<1> HIDE DEF S
<1>4. Cardinality(chainBlocked) <= Cardinality(S) /\ Cardinality(needsBlocked) <= Cardinality(S)
  BY <1>1, <1>2, FS_Subset
<1>5. Cardinality(S) \in Nat
  BY <1>2, FS_CardinalityType
<1> QED BY <1>3, <1>4, <1>5, FlagsType DEF Flags

LEMMA FewerFlags ==
  ASSUME TypeOK, chainBlocked' \subseteq chainBlocked, needsBlocked' \subseteq needsBlocked
  PROVE  Flags' <= Flags /\ Flags' \in Nat /\ Flags \in Nat
<1>1. IsFiniteSet(chainBlocked) /\ IsFiniteSet(needsBlocked) /\ Flags \in Nat
  BY FlagsType
<1>2. /\ IsFiniteSet(chainBlocked') /\ Cardinality(chainBlocked') <= Cardinality(chainBlocked)
      /\ IsFiniteSet(needsBlocked') /\ Cardinality(needsBlocked') <= Cardinality(needsBlocked)
  BY <1>1, FS_Subset
<1>3. /\ Cardinality(chainBlocked') \in Nat /\ Cardinality(needsBlocked') \in Nat
      /\ Cardinality(chainBlocked) \in Nat /\ Cardinality(needsBlocked) \in Nat
  BY <1>1, <1>2, FS_CardinalityType
<1> QED BY <1>1, <1>2, <1>3 DEF Flags

LEMMA OneFlagLess ==
  ASSUME IInv, RunHoldsFlag, run.pc \in {"clear", "merge"}, Exists(run.job), Unflag(run.job, run.flag)
  PROVE  Flags' = Flags - 1
<1> DEFINE j == run.job
<1>1. run.flag \in {"chain", "needs"}
  BY DEF IInv, RunFits
<1>2. IsFiniteSet(chainBlocked) /\ IsFiniteSet(needsBlocked) /\ Cardinality(chainBlocked) \in Nat
      /\ Cardinality(needsBlocked) \in Nat
  BY FlagsType DEF IInv
<1>3. CASE run.flag = "chain"
  <2>1. j \in chainBlocked /\ chainBlocked' = chainBlocked \ {j} /\ needsBlocked' = needsBlocked
    BY <1>3 DEF RunHoldsFlag, Unflag
  <2>2. Cardinality(chainBlocked \ {j}) = Cardinality(chainBlocked) - 1
    BY <1>2, <2>1, FS_RemoveElement
  <2> QED BY <2>1, <2>2, <1>2 DEF Flags
<1>4. CASE run.flag = "needs"
  <2>1. j \in needsBlocked /\ needsBlocked' = needsBlocked \ {j} /\ chainBlocked' = chainBlocked
    BY <1>4 DEF RunHoldsFlag, Unflag
  <2>2. Cardinality(needsBlocked \ {j}) = Cardinality(needsBlocked) - 1
    BY <1>2, <2>1, FS_RemoveElement
  <2> QED BY <2>1, <2>2, <1>2 DEF Flags
<1> QED BY <1>1, <1>3, <1>4

LEMMA MoreFlags ==
  ASSUME TypeOK, NEW n, chainBlocked' \in {chainBlocked, chainBlocked \cup {n}},
         needsBlocked' \in {needsBlocked, needsBlocked \cup {n}}
  PROVE  Flags' <= Flags + 2 /\ Flags' \in Nat /\ Flags \in Nat
<1>1. ASSUME NEW S, IsFiniteSet(S), NEW T \in {S, S \cup {n}}
      PROVE  Cardinality(T) \in Nat /\ Cardinality(S) \in Nat /\ Cardinality(T) <= Cardinality(S) + 1
  BY <1>1, FS_CardinalityType, FS_AddElement
<1>2. IsFiniteSet(chainBlocked) /\ IsFiniteSet(needsBlocked)
  BY FlagsType
<1>3. Cardinality(chainBlocked') \in Nat /\ Cardinality(chainBlocked) \in Nat
      /\ Cardinality(chainBlocked') <= Cardinality(chainBlocked) + 1
  BY <1>1, <1>2
<1>4. Cardinality(needsBlocked') \in Nat /\ Cardinality(needsBlocked) \in Nat
      /\ Cardinality(needsBlocked') <= Cardinality(needsBlocked) + 1
  BY <1>1, <1>2
<1> QED BY <1>3, <1>4 DEF Flags

LEMMA ListBudget ==
  ASSUME TypeOK, NEW left \in Nat, NEW listed \in Nat, NEW created \in Nat,
         Flags + listed <= left + 2 * created, ListAndDecide(left, listed, created), UNCHANGED rows
  PROVE  Budget'
<1>1. Flags' = Flags
  BY DEF Flags, rows
<1>2. CASE run' = Idle
  BY <1>2 DEF Budget, Idle
<1>3. CASE run' # Idle
  <2>1. PICK e \in Decidable, pc \in {"clear", "fail"} :
           run' = [pc |-> pc, job |-> e, flag |-> Flag(e), left |-> left,
                   listed |-> listed, created |-> created]
    BY <1>3 DEF ListAndDecide, Decision
  <2> QED BY <2>1, <1>1 DEF Budget
<1> QED BY <1>2, <1>3

LEMMA NextBudget == IInv /\ FlagsOfRows /\ RunHoldsFlag /\ Budget /\ [Next]_vars => Budget'
<1> SUFFICES ASSUME IInv, FlagsOfRows, RunHoldsFlag, Budget, [Next]_vars
             PROVE  Budget'
  OBVIOUS
<1>0. TypeOK /\ Flags \in Nat
  BY FlagsType DEF IInv
<1>01. run.left \in Nat /\ run.listed \in Nat /\ run.created \in Nat
  BY <1>0 DEF TypeOK, RunState
<1>1. ASSUME NEW w \in waiting, StartReconcile(w) PROVE Budget'
  <2> DEFINE left == MaxTransitions - 1
             listed == Listed
  <2>1. /\ left \in Nat /\ listed \in Nat /\ 0 \in Nat
        /\ Flags + listed <= left + 2 * 0
    BY <1>0, <1>1, TransitionsBound, FlagsAtMost, SizeAssumption
  <2>2. ListAndDecide(left, listed, 0) /\ UNCHANGED rows
    BY <1>1 DEF StartReconcile
  <2> HIDE DEF left, listed
  <2> QED BY <1>0, <2>1, <2>2, ListBudget
<1>2. CASE RelistAfterChange
  <2>1. CASE run.left > 0 /\ ListAndDecide(run.left - 1, run.listed, run.created)
    <3>1. run.left - 1 \in Nat /\ Flags + run.listed <= run.left - 1 + 2 * run.created
      BY <1>0, <1>01, <1>2, <2>1 DEF RelistAfterChange, Budget
    <3> QED BY <1>0, <1>01, <1>2, <2>1, <3>1, ListBudget DEF RelistAfterChange
  <2>2. CASE run' = Idle
    BY <2>2 DEF Budget, Idle
  <2> QED BY <1>2, <2>1, <2>2 DEF RelistAfterChange
<1>3. CASE ClearBlocker \/ FinishFailBlockedJob
  <2>1. CASE run' = Idle
    BY <2>1 DEF Budget, Idle
  <2>2. CASE run' # Idle
    <3>1. /\ run.pc \in {"clear", "merge"} /\ Exists(run.job) /\ Unflag(run.job, run.flag)
          /\ run' = [run EXCEPT !.pc = "again"]
      BY <1>3, <2>2 DEF ClearBlocker, FinishFailBlockedJob, Aborted
    <3>2. Flags' = Flags - 1
      BY <3>1, OneFlagLess
    <3>3. run'.pc = "again" /\ run'.left = run.left /\ run'.listed = run.listed /\ run'.created = run.created
      BY <3>1 DEF IInv, TypeOK, RunState
    <3>4. Flags + run.listed <= run.left + 2 * run.created
      BY <3>1 DEF Budget
    <3>5. Flags' + run'.listed < run'.left + 2 * run'.created
      BY <3>2, <3>3, <3>4, <1>0, <1>01
    <3> QED BY <3>3, <3>5 DEF Budget
  <2> QED BY <2>1, <2>2
<1>4. CASE FailBlockedJob
  <2>1. CASE run' = Idle
    BY <2>1 DEF Budget, Idle
  <2>2. CASE run' # Idle
    <3>1. /\ run.pc = "fail" /\ run' = [run EXCEPT !.pc = "merge"]
          /\ UNCHANGED <<chainBlocked, needsBlocked>>
      BY <1>4, <2>2 DEF FailBlockedJob, Aborted, rows
    <3>2. run'.pc = "merge" /\ run'.left = run.left /\ run'.listed = run.listed /\ run'.created = run.created
      BY <3>1 DEF IInv, TypeOK, RunState
    <3> QED BY <3>1, <3>2 DEF Budget, Flags
  <2> QED BY <2>1, <2>2
<1>5. CASE run' = run /\ chainBlocked' \subseteq chainBlocked /\ needsBlocked' \subseteq needsBlocked
  <2>1. Flags' <= Flags /\ Flags' \in Nat /\ Flags \in Nat
    BY <1>0, <1>5, FewerFlags
  <2> QED BY <1>5, <2>1, <1>01 DEF Budget
<1>6. CASE CreateRerun
  <2>1. PICK n \in Execs :
           /\ chainBlocked' = IF clone.chain THEN chainBlocked \cup {n} ELSE chainBlocked
           /\ needsBlocked' = IF clone.needs THEN needsBlocked \cup {n} ELSE needsBlocked
    BY <1>6 DEF CreateRerun
  <2>2. Flags' <= Flags + 2 /\ Flags' \in Nat
    BY <1>0, <2>1, MoreFlags
  <2>3. CASE run.pc = "idle"
    BY <1>6, <2>3 DEF CreateRerun, Budget
  <2>4. CASE run.pc # "idle"
    <3>1. /\ run'.pc = run.pc /\ run'.left = run.left /\ run'.listed = run.listed
          /\ run'.created = run.created + 1
      BY <1>6, <2>4 DEF CreateRerun, IInv, TypeOK, RunState
    <3> QED BY <3>1, <2>2, <1>0, <1>01 DEF Budget
  <2> QED BY <2>3, <2>4
<1>7. CASE Restart \/ ReconcileFails
  BY <1>7 DEF Restart, ReconcileFails, Budget, Idle
<1>8. ASSUME NEW e \in Execs,
             \/ LeaseJobExecution(e) \/ RequeueJobExecution(e) \/ ReportRunning(e)
             \/ \E s \in Terminal : ReportEnd(e, s) \/ ReportEndFails(e, s)
             \/ FailTimedOutJobExecution(e) \/ CancelJobExecution(e) \/ FailUnresolvedSecrets(e)
      PROVE  Budget'
  BY <1>5, <1>8 DEF LeaseJobExecution, RequeueJobExecution, ReportRunning, ReportEnd, ReportEndFails,
          FailTimedOutJobExecution, CancelJobExecution, FailUnresolvedSecrets
<1>9. CASE (\E e \in Execs : DeleteQueuedJobExecution(e)) \/ ClearQueuedJobExecutions
           \/ \E S \in SUBSET Execs : FlushJobExecutionHistory(S)
  BY <1>5, <1>9 DEF DeleteQueuedJobExecution, ClearQueuedJobExecutions, FlushJobExecutionHistory,
          DeleteExecutions
<1>10. CASE (\E e \in Execs : BeginRerun(e)) \/ CheckRerun \/ StartServing \/ UNCHANGED vars
  BY <1>5, <1>10 DEF BeginRerun, CheckRerun, StartServing, vars, rows
<1> QED BY <1>1, <1>2, <1>3, <1>4, <1>6, <1>7, <1>8, <1>9, <1>10 DEF Next

LEMMA BudgetConverges == TypeOK /\ Budget => Converges
<1> SUFFICES ASSUME TypeOK, Budget, run.pc = "again", run.left = 0 PROVE 2 * run.created > run.listed
  BY DEF Converges
<1>1. /\ Flags \in Nat /\ run.listed \in Nat /\ run.created \in Nat
      /\ Flags + run.listed < run.left + 2 * run.created
  BY FlagsType DEF Budget, TypeOK, RunState
<1> QED BY <1>1
-----------------------------------------------------------------------------
(* The bound on the transitions of a reconciliation ends it only if more   *)
(* than half as many reruns were created while it went on as its first     *)
(* list had executions, whatever else happens to the rows meanwhile        *)
(* (reconcileBlockedJobExecutions, RerunJobExecution).                     *)
THEOREM ReconciliationConverges == Spec => []Converges
<1>1. Init => SeenInv /\ Budget
  BY InitSees DEF Init, Budget, Idle
<1>2. IInv /\ SeenInv /\ Budget /\ [Next]_vars => (SeenInv /\ Budget)'
  BY NextSees, NextBudget DEF SeenInv
<1>3. IInv /\ Budget => Converges
  BY BudgetConverges DEF IInv
<1> QED
  BY <1>1, <1>2, <1>3, InvariantHolds, PTL DEF Spec

(* Whenever nobody reconciles or is about to, and everything since the     *)
(* last list was a change that asks for reconciliation, nothing is left to *)
(* be decided (reconcileBlockedJobExecutions and who calls it).            *)
THEOREM NothingIsLeftUndecided == Spec => []NothingLeftUndecided
<1>1. Init => SeenInv
  BY InitSees
<1>2. IInv /\ SeenInv /\ [Next]_vars => SeenInv'
  BY NextSees
<1>3. SeenInv => NothingLeftUndecided
  BY DEF SeenInv
<1> QED
  BY <1>1, <1>2, <1>3, InvariantHolds, PTL DEF Spec
=============================================================================
