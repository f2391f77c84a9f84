----------------------------- MODULE JobHistory -----------------------------
(***************************************************************************)
(* How a list of executions is shown (internal/server/jobhistory): the     *)
(* queue and the history as pages of cards, a card for each chain, run or  *)
(* ad-hoc job, its sections, rows and summary; and what a cancelled        *)
(* execution names as its cause (handlers_blocked_by.go).                  *)
(*                                                                         *)
(* A list has the newest execution first; an execution's id is its age, so *)
(* that the order of ids is that of CreatedUTC.  An execution is a record  *)
(* of its status, root (the first of its attempts), chain, run, pipeline,  *)
(* job, the three indices, blocked (it waits for others) and cause (what   *)
(* the text of its error says).  None stands for metadata that is not set. *)
(*                                                                         *)
(* A definition named Slip... is the next one with a plausible mistake in  *)
(* it, put in its place to see that a property notices.                    *)
(***************************************************************************)
EXTENDS Naturals, Sequences, FiniteSets, SequencesExt

CONSTANTS None, MaxLimit   \* the largest page

Active   == {"queued", "leased", "running"}
Terminal == {"succeeded", "failed"}

(* LatestJobExecutionAttempts: what no other of its root is newer than. *)
LatestAttempts(list) ==
  SelectSeq(list, LAMBDA x : \A y \in ToSet(list) : y.root = x.root => y.id <= x.id)

Waits(x) == x.status = "queued" /\ x.blocked
-----------------------------------------------------------------------------
\* Cards and pages.

\* chainCardKey, pipelineCardKey
CardKey(x) ==
  IF x.chain # None THEN <<"chain", x.chain>>
  ELSE IF x.run # None THEN <<"pipeline", x.run, x.pipeline>> ELSE <<"job", x.id>>

(* Keys in the order in which Key first meets them in the list. *)
KeysInOrder(list, Key(_)) ==
  FoldLeft(LAMBDA keys, x : IF Key(x) \in ToSet(keys) THEN keys ELSE Append(keys, Key(x)), <<>>, list)

(* A card has all executions of its key and those to be shown, and is left *)
(* out when it has none of these.                                          *)
ExecutionCards(list, Visible(_)) ==
  LET keys == KeysInOrder(list, CardKey)
      Card(k) == LET all == SelectSeq(list, LAMBDA x : CardKey(x) = k) IN
                 [key |-> k, all |-> all, visible |-> SelectSeq(all, Visible)]
  IN  SelectSeq([n \in DOMAIN keys |-> Card(keys[n])], LAMBDA c : c.visible # <<>>)

SlipListed(list, active) ==  \* superseded attempts are shown as well
  ExecutionCards(list, LAMBDA x : (x.status \in Active) = active)

\* The cards of the queue and those of the history.
Listed(list, active) ==
  LET latest == ToSet(LatestAttempts(list)) IN
  ExecutionCards(list, LAMBDA x : x \in latest /\ (x.status \in Active) = active)

\* parseQueryInt: a number out of its bounds is set to the bound.
Clamped(n, low, high) == IF n < low THEN low ELSE IF n > high THEN high ELSE n

\* paginateCards
Page(cards, offset, limit) ==
  LET size == Clamped(limit, 1, MaxLimit) IN
  SubSeq(cards, offset + 1, IF offset + size > Len(cards) THEN Len(cards) ELSE offset + size)
-----------------------------------------------------------------------------
\* What a card shows.

\* The later chain position, job and matrix entry first, else the newer.
Before(x, y) ==
  LET differ == SelectSeq(<<"chainIndex", "jobIndex", "matrix">>,
                          LAMBDA k : x[k] # None /\ y[k] # None /\ x[k] # y[k])
  IN  IF differ = <<>> THEN x.id > y.id ELSE x[differ[1]] > y[differ[1]]

\* pipelineSectionKey
SectionKey(x) ==
  IF x.run # None THEN <<"section", x.run, x.pipeline>>
  ELSE IF x.pipeline # None THEN <<"section", x.pipeline>> ELSE <<"section", x.id>>

MatrixKey(x) == IF x.matrix = None \/ x.job = None THEN None ELSE <<x.run, x.pipeline, x.job>>

\* buildSectionItems: neighbours of one matrix make a group.
Items(list) ==
  FoldLeft(LAMBDA items, x :
             IF items # <<>> /\ MatrixKey(x) # None /\ Last(items).key = MatrixKey(x)
             THEN [items EXCEPT ![Len(items)].jobs = Append(@, x)]
             ELSE Append(items, [key |-> MatrixKey(x), jobs |-> <<x>>]),
           <<>>, list)

Sections(card) ==
  LET ordered == SortSeq(card.visible, Before)
      keys == KeysInOrder(ordered, SectionKey)
  IN  [n \in DOMAIN keys |->
        [key |-> keys[n], items |-> Items(SelectSeq(ordered, LAMBDA x : SectionKey(x) = keys[n]))]]

Count(list, Test(_)) == Len(SelectSeq(list, Test))

\* summarizeCard: of the latest attempts of all the card has, shown or not.
Summary(card) ==
  LET jobs == LatestAttempts(card.all) IN
  [total      |-> Len(jobs),
   succeeded  |-> Count(jobs, LAMBDA x : x.status = "succeeded"),
   failed     |-> Count(jobs, LAMBDA x : x.status = "failed"),
   waiting    |-> Count(jobs, Waits),
   inProgress |-> Count(jobs, LAMBDA x : x.status \in Active /\ ~Waits(x))]

\* progressJobViews, of a section: the latest attempts, shown or not.
Progress(card, key) ==
  SelectSeq(LatestAttempts(card.all), LAMBDA x : SectionKey(x) = key)
-----------------------------------------------------------------------------
(* What a cancelled execution names as its cause: the newest of the latest *)
(* attempts of that job in its run, or of that pipeline in its chain, that *)
(* failed.                                                                 *)
IsDependencyBlocked(x) == x.status = "failed" /\ ~x.started /\ x.cause # None

BlockedDependency(x, list) ==
  LET Fits(y) == /\ y.status = "failed"
                 /\ IF x.cause.kind = "required job"
                    THEN y.job = x.cause.of /\ y.pipeline = x.pipeline /\ (x.run # None => y.run = x.run)
                    ELSE y.pipeline = x.cause.of /\ (x.chain # None => y.chain = x.chain)
      candidates == SelectSeq(LatestAttempts(list), Fits)
  IN  IF candidates = <<>> THEN None
      ELSE CHOOSE y \in ToSet(candidates) : \A z \in ToSet(candidates) : z.id <= y.id
=============================================================================
