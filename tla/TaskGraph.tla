------------------------------ MODULE TaskGraph ------------------------------
(* The task graph of a run before it is released: the planner that slices a goal  *)
(* into tasks (default_planner), the barrier the graph has to pass                 *)
(* (validate_task_graph) and the profile each task is assigned to.                 *)
(*                                                                                 *)
(* A task is named by its kind and a number; a graph is the sequence of its nodes,  *)
(* [id, deps], in the order the planner lists them.  A request has what planning   *)
(* looks at: the review policy, whether there is a project, how many acceptance    *)
(* criteria there are and whether they are independent, the budgets, and how many  *)
(* slots of each kind the fleet has.                                               *)
EXTENDS Integers, Sequences, FiniteSets, FiniteSetsExt

Kind(t) == t[1]

TaskKind == {"work", "integration", "verification", "rework", "review", "gate", "final"}
TaskName == TaskKind \X Nat

Graph == Seq([id : TaskName, deps : SUBSET TaskName])

\* What planning counts with.
PlanRequest(req) == req.criteria \in Nat /\ req.maxWorkers \in Int /\ req.maxTasks \in Int

ReviewRequired(req) ==
    \/ req.policy = "always"
    \/ req.policy = "auto" /\ (req.project # "none" \/ req.criteria > 0)
--------------------------------------------------------------------------------
(* default_planner.                                                               *)

\* Slices of work: what the criteria, the workers and the task budget allow, once the
\* tasks that join and check them are paid for.
Fanout(req) ==
    LET overhead == IF ReviewRequired(req) THEN 4 ELSE 2
    IN  Min({req.criteria, Max({1, req.maxWorkers}), Max({0, req.maxTasks - overhead})})

Parallel(req) == req.independent /\ Fanout(req) >= 2

Node(kind, n, deps) == [id |-> <<kind, n>>, deps |-> deps]

Slices(req) == IF Parallel(req) THEN Fanout(req) ELSE 1

DefaultPlan(req) ==
    LET work        == [i \in 1 .. Slices(req) |-> Node("work", i, {})]
        joined      == IF ~Parallel(req) THEN <<>>
                       ELSE <<Node("integration", 1, {work[i].id : i \in DOMAIN work})>>
        implemented == <<IF Parallel(req) THEN "integration" ELSE "work", 1>>
        checked     == IF ~ReviewRequired(req) THEN <<>>
                       ELSE <<Node("review", 1, {implemented}),
                              Node("gate", 1, {<<"review", 1>>})>>
        last        == IF ReviewRequired(req) THEN <<"gate", 1>> ELSE implemented
    IN  work \o joined \o checked \o <<Node("final", 1, {last})>>
--------------------------------------------------------------------------------
(* validate_task_graph.                                                           *)

Ids(nodes) == {nodes[i].id : i \in DOMAIN nodes}

Deps(nodes, t) == UNION {nodes[i].deps : i \in {j \in DOMAIN nodes : nodes[j].id = t}}

\* Kahn's algorithm, round by round: the nodes whose known dependencies are in its order
\* already.
Rounds(nodes) ==
    LET after[k \in 0 .. Len(nodes)] ==
            IF k = 0 THEN {}
            ELSE {t \in Ids(nodes) : Deps(nodes, t) \cap Ids(nodes) \subseteq after[k - 1]}
    IN  after

Ordered(nodes) == Rounds(nodes)[Len(nodes)]

\* The dependencies of t, and theirs, and so on.
Back(nodes, t) ==
    LET back[k \in 0 .. Len(nodes)] ==
            IF k = 0 THEN Deps(nodes, t)
            ELSE back[k - 1] \cup UNION {Deps(nodes, a) : a \in back[k - 1]}
    IN  back

Ancestors(nodes, t) == Back(nodes, t)[Len(nodes)] \cap Ids(nodes)

Finals(nodes) == {t \in Ids(nodes) : Kind(t) = "final"}

CheckKinds  == {"verification", "rework"}
ReviewKinds == {"review", "verification"}
CodeKinds   == {"work", "rework"}

\* If there is verification or rework, the final task comes after some of it.
FanIn(nodes) ==
    (\E t \in Ids(nodes) : Kind(t) \in CheckKinds)
        => \A f \in Finals(nodes) : \E a \in Ancestors(nodes, f) : Kind(a) \in CheckKinds

\* (Mutant: a dependency on a later node of a cycle is not noticed.)
ValidCyclic(nodes, maxTasks) ==
    /\ nodes # <<>> /\ Cardinality(Ids(nodes)) = Len(nodes) /\ Len(nodes) <= maxTasks
    /\ \A t \in Ids(nodes) : Deps(nodes, t) \subseteq Ids(nodes) \ {t}
    /\ Cardinality(Finals(nodes)) = 1 /\ FanIn(nodes)

Valid(nodes, maxTasks) ==
    /\ nodes # <<>>
    /\ Cardinality(Ids(nodes)) = Len(nodes)                          \* no duplicates
    /\ Cardinality(Ids(nodes)) <= maxTasks
    /\ \A t \in Ids(nodes) : Deps(nodes, t) \subseteq Ids(nodes) \ {t}
    /\ Ordered(nodes) = Ids(nodes)                                   \* a DAG
    /\ Cardinality(Finals(nodes)) = 1
    /\ FanIn(nodes)
--------------------------------------------------------------------------------
(* The profile a task is assigned to, of a fleet with so many slots of each kind.  *)

SlotsOfKind(fleet, kind) == {<<kind, i>> : i \in 1 .. fleet[kind]}

\* The first planner, else the first worker, else a name that no slot has.
PlannerProfile(fleet) ==
    IF SlotsOfKind(fleet, "planner") = {} /\ SlotsOfKind(fleet, "worker") # {}
    THEN <<"worker", 1>> ELSE <<"planner", 1>>

ReviewerProfile(fleet) ==
    IF SlotsOfKind(fleet, "reviewer") # {} THEN <<"reviewer", 1>> ELSE PlannerProfile(fleet)

\* Execution tasks go round the workers.
WorkerProfile(fleet, i) == <<"worker", IF fleet.worker = 0 THEN 1 ELSE 1 + (i % fleet.worker)>>

OnPlanner  == {"gate", "final"}
OnReviewer == {"review"}

\* The execution tasks planned before t.
WorkerIndex(nodes, t) ==
    LET at == CHOOSE i \in DOMAIN nodes : nodes[i].id = t
    IN  Cardinality({i \in 1 .. at - 1 : Kind(nodes[i].id) \notin OnPlanner \cup OnReviewer})

\* The task a rework takes over from: the last one that implements.
Implementation(nodes) ==
    nodes[Max({i \in DOMAIN nodes : Kind(nodes[i].id) \in CodeKinds})].id

ProfileForHint(nodes, fleet, t) ==
    CASE Kind(t) \in OnPlanner  -> PlannerProfile(fleet)
      [] Kind(t) \in OnReviewer -> ReviewerProfile(fleet)
      [] OTHER                  -> WorkerProfile(fleet, WorkerIndex(nodes, t))

\* A rework that was added to the graph is given to whoever implemented it.
Assignee(nodes, fleet, t) ==
    ProfileForHint(nodes, fleet, IF t \in Ids(nodes) THEN t
                                 ELSE IF Kind(t) = "rework" THEN Implementation(nodes) ELSE t)

Implementers(nodes, fleet) ==
    {Assignee(nodes, fleet, t) : t \in {u \in Ids(nodes) : Kind(u) \in CodeKinds}}
================================================================================
