----------------------------- MODULE MCJobViews -----------------------------
(* Instances of JobViews for TLC. *)
EXTENDS JobViews

CONSTANTS a1, a2

TwoAgents == {a1, a2}

(* An agent has a compiler, of some version or none. *)
Machine(go) == [agent_id |-> None, os |-> "linux", go |-> go, shells |-> {"posix"}]
TwoMachines == {Machine(1), Machine(2)}

Linux == [kind |-> "os", name |-> "os", op |-> "", value |-> "linux"]
Posix == [kind |-> "shell", name |-> "shell", op |-> "", value |-> "posix"]
NewGo == [kind |-> "tool", name |-> "go", op |-> ">=", value |-> 2]
OnA1  == [kind |-> "agent", name |-> "agent_id", op |-> "", value |-> a1]

Job == [id |-> 0, root |-> 0, chain |-> None, run |-> None, pipeline |-> None, job |-> None,
        chainIndex |-> None, jobIndex |-> None, matrix |-> None, needs |-> None, blocked |-> FALSE,
        status |-> "queued", started |-> FALSE, cause |-> None, holder |-> None, retry |-> "none",
        requires |-> {Linux, Posix}]

(* Two builds of a matrix and a test that needs them; two pipelines in a   *)
(* chain, the first with two jobs; one job, with a requirement or without. *)
Build(m) == [Job EXCEPT !.run = 1, !.pipeline = "app", !.job = "build", !.jobIndex = 0, !.matrix = m]
Test     == [Job EXCEPT !.run = 1, !.pipeline = "app", !.job = "test", !.jobIndex = 1,
                        !.needs = "build", !.blocked = TRUE]
First(n) == [Job EXCEPT !.chain = 1, !.run = 1, !.pipeline = "app", !.job = n, !.chainIndex = 0, !.jobIndex = n]
Second   == [Job EXCEPT !.chain = 1, !.run = 3, !.pipeline = "site", !.job = 0, !.chainIndex = 1,
                        !.jobIndex = 0, !.needs = "app", !.blocked = TRUE]

Matrix == <<Build(0), Build(1), Test>>
Chain  == <<First(0), First(1), Second>>
Alone  == <<Job>>
Needy  == <<[Job EXCEPT !.requires = {NewGo}]>>
Pinned == <<[Job EXCEPT !.requires = {OnA1, Linux}]>>

Alike  == [a \in TwoAgents |-> Machine(1)]
Unlike == [a \in TwoAgents |-> IF a = a1 THEN Machine(1) ELSE Machine(2)]

Lists == [orders |-> {Matrix, Chain, Alone}, jobs |-> 4, events |-> 0, machines |-> {Alike}]
Fleet == [orders |-> {Needy, Pinned}, jobs |-> 2, events |-> 2, machines |-> {Unlike}]
ListsAndFleet == {Lists, Fleet}
=============================================================================
