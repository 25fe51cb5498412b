------------------------------ MODULE Delegation ------------------------------
(* The subagents that workers delegate to, and the leases they are counted by: the    *)
(* hooks of plugin.py, which run in the worker, and the fleet's release (state.py).    *)
(*                                                                                     *)
(* A session is one attempt of a worker at its task.  A subagent's lease is an          *)
(* anonymous reservation of the task until the child starts, and is named by the child  *)
(* from then on; a worker's lease is named by the session.                              *)
EXTENDS Naturals, FiniteSets

CONSTANTS Session, Task, TaskOf,
          Child,         \* subagents
          MaxChildren,   \* HCA_MAX_SUBAGENT_CREDITS
          MaxAsk,        \* bound: children in one delegation
          none

ASSUME DelegationAssumption ==
    /\ TaskOf \in [Session -> Task]
    /\ MaxChildren \in Nat /\ MaxAsk \in Nat
    /\ none \notin Session

VARIABLES
    live, ended, \* sessions whose process runs, and that are over
    workers,     \* worker leases
    reserve,     \* of a task: its reservations
    active,      \* leases of children
    call,        \* of a session: the step of its delegate_task call
    asked, left, \* the children of that call; those reserved, later those yet to start
    doing,       \* of a child
    parent,      \* of a child: its session
    raced        \* a budget was read in the middle of another change of the leases

leases   == <<workers, reserve, active>>
sessions == <<live, ended, call, asked, left>>
children == <<doing, parent>>
delegationVars == <<leases, sessions, children, raced>>

DelegationInit ==
    /\ live = {} /\ ended = {} /\ workers = {} /\ active = {}
    /\ reserve = [t \in Task |-> 0]
    /\ call = [s \in Session |-> "none"]
    /\ asked = [s \in Session |-> 0]
    /\ left = [s \in Session |-> 0]
    /\ doing = [c \in Child |-> "unborn"]
    /\ parent = [c \in Child |-> none]
    /\ raced = FALSE

\* The anonymous leases of all tasks.
Reservations == UNION {{t} \X (1 .. reserve[t]) : t \in Task}

\* active_lease_credits of kind subagent.
SubagentCredits == Cardinality(Reservations) + Cardinality(active)

Owned(t) == {c \in Child : parent[c] # none /\ TaskOf[parent[c]] = t}

\* Attempts at a task follow each other: the next starts when the last is settled.
Startable(s) ==
    /\ s \notin live \cup ended
    /\ \A d \in live \cup workers : TaskOf[d] # TaskOf[s]

\* A worker is spawned and leased.
Start(s) ==
    /\ Startable(s)
    /\ live' = live \cup {s}
    /\ workers' = workers \cup {s}
    /\ call' = [call EXCEPT ![s] = "idle"]
    /\ UNCHANGED <<reserve, active, ended, asked, left, children, raced>>

\* (Mutant: only children that have started are counted.)
FitsStarted(n) == Cardinality(active) + n <= MaxChildren

Fits(n) == SubagentCredits + n <= MaxChildren

\* on_pre_tool_call reads the budget; a call that does not fit is blocked and changes nothing.
AskBudget(s) ==
    /\ s \in live /\ call[s] = "idle"
    /\ \E n \in 1 .. MaxAsk : /\ Fits(n)
                              /\ asked' = [asked EXCEPT ![s] = n]
    /\ left' = [left EXCEPT ![s] = 0]
    /\ call' = [call EXCEPT ![s] = "reserve"]
    /\ raced' = (raced \/ (\E d \in Session : call[d] = "reserve")
                       \/ (\E c \in Child : doing[c] = "starting"))
    /\ UNCHANGED <<leases, live, ended, children>>

\* (Mutant: a reservation is written once more than was asked for.)
ReserveOneMore(s) ==
    /\ s \in live /\ call[s] = "reserve"
    /\ reserve' = [reserve EXCEPT ![TaskOf[s]] = @ + 1]
    /\ left' = [left EXCEPT ![s] = @ + 1]
    /\ call' = [call EXCEPT ![s] = IF left[s] = asked[s] THEN "run" ELSE "reserve"]
    /\ UNCHANGED <<workers, active, live, ended, asked, children, raced>>

\* One reservation at a time.
Reserve(s) ==
    /\ s \in live /\ call[s] = "reserve"
    /\ reserve' = [reserve EXCEPT ![TaskOf[s]] = @ + 1]
    /\ left' = [left EXCEPT ![s] = @ + 1]
    /\ call' = [call EXCEPT ![s] = IF left[s] + 1 = asked[s] THEN "run" ELSE "reserve"]
    /\ UNCHANGED <<workers, active, live, ended, asked, children, raced>>

\* (Mutant: the reservation stays when the child starts.)
KeepReservation(s, c) ==
    /\ s \in live /\ call[s] = "run" /\ left[s] > 0 /\ doing[c] = "unborn"
    /\ left' = [left EXCEPT ![s] = @ - 1]
    /\ doing' = [doing EXCEPT ![c] = "starting"]
    /\ parent' = [parent EXCEPT ![c] = s]
    /\ UNCHANGED <<leases, live, ended, call, asked, raced>>

\* on_subagent_start deletes the task's oldest reservation ...
DropReservation(s, c) ==
    /\ s \in live /\ call[s] = "run" /\ left[s] > 0 /\ doing[c] = "unborn"
    /\ reserve' = [reserve EXCEPT ![TaskOf[s]] = IF @ > 0 THEN @ - 1 ELSE 0]
    /\ left' = [left EXCEPT ![s] = @ - 1]
    /\ doing' = [doing EXCEPT ![c] = "starting"]
    /\ parent' = [parent EXCEPT ![c] = s]
    /\ UNCHANGED <<workers, active, live, ended, call, asked, raced>>

\* ... and then inserts the lease of the child.
LeaseChild(c) ==
    /\ doing[c] = "starting"
    /\ active' = active \cup {c}
    /\ doing' = [doing EXCEPT ![c] = "runs"]
    /\ UNCHANGED <<workers, reserve, sessions, parent, raced>>

\* A child that is never started leaves its reservation behind.
ChildNotStarted(s) ==
    /\ s \in live /\ call[s] = "run" /\ left[s] > 0
    /\ left' = [left EXCEPT ![s] = @ - 1]
    /\ UNCHANGED <<leases, live, ended, call, asked, children, raced>>

\* (Mutant: the end of a child releases what its task holds.)
ChildStopsOwner(c) ==
    /\ doing[c] = "runs"
    /\ active' = active \ Owned(TaskOf[parent[c]])
    /\ doing' = [doing EXCEPT ![c] = "gone"]
    /\ UNCHANGED <<workers, reserve, sessions, parent, raced>>

\* on_subagent_stop releases the lease of that child.
ChildStops(c) ==
    /\ doing[c] = "runs"
    /\ active' = active \ {c}
    /\ doing' = [doing EXCEPT ![c] = "gone"]
    /\ UNCHANGED <<workers, reserve, sessions, parent, raced>>

CallReturns(s) ==
    /\ s \in live /\ call[s] = "run" /\ left[s] = 0
    /\ \A c \in Child : parent[c] = s => doing[c] = "gone"
    /\ call' = [call EXCEPT ![s] = "idle"]
    /\ UNCHANGED <<leases, live, ended, asked, left, children, raced>>

\* release_leases_by_owner: the reservations and children's leases of one task.
ReleaseOwner(t) ==
    /\ reserve' = [reserve EXCEPT ![t] = 0]
    /\ active' = active \ Owned(t)

Over(s) ==
    /\ live' = live \ {s}
    /\ ended' = ended \cup {s}
    /\ call' = [call EXCEPT ![s] = "none"]
    /\ asked' = [asked EXCEPT ![s] = 0]
    /\ left' = [left EXCEPT ![s] = 0]

\* The session ends in good order: on_session_end.
SessionEnds(s) ==
    /\ s \in live /\ call[s] = "idle"
    /\ ReleaseOwner(TaskOf[s])
    /\ Over(s)
    /\ UNCHANGED <<workers, children, raced>>

\* The process dies, its children with it, and no hook runs.
SessionDies(s) ==
    /\ s \in live
    /\ Over(s)
    /\ doing' = [c \in Child |-> IF parent[c] = s THEN "gone" ELSE doing[c]]
    /\ UNCHANGED <<leases, parent, raced>>

\* (Mutant: only the worker lease is released.)
SettleWorker(s) ==
    /\ s \in ended \cap workers
    /\ workers' = workers \ {s}
    /\ UNCHANGED <<reserve, active, sessions, children, raced>>

\* The sweep, or the reap, of a dead worker by the fleet.
Settle(s) ==
    /\ s \in ended \cap workers
    /\ workers' = workers \ {s}
    /\ ReleaseOwner(TaskOf[s])
    /\ UNCHANGED <<sessions, children, raced>>

Delegating ==
    \/ \E s \in Session : \/ AskBudget(s) \/ Reserve(s) \/ ChildNotStarted(s)
                          \/ CallReturns(s) \/ SessionEnds(s) \/ SessionDies(s) \/ Settle(s)
    \/ \E c \in Child : \/ LeaseChild(c) \/ ChildStops(c)
                        \/ \E s \in Session : DropReservation(s, c)
--------------------------------------------------------------------------------
\* Leases, reservations and what each session and child is at (plugin.py).
DelegationTypeOK ==
    /\ live \subseteq Session /\ ended \subseteq Session \ live
    /\ workers \subseteq Session /\ active \subseteq Child
    /\ reserve \in [Task -> Nat]
    /\ call \in [Session -> {"none", "idle", "reserve", "run"}]
    /\ asked \in [Session -> 0 .. MaxAsk] /\ left \in [Session -> 0 .. MaxAsk]
    /\ doing \in [Child -> {"unborn", "starting", "runs", "gone"}]
    /\ parent \in [Child -> Session \cup {none}]
    /\ raced \in BOOLEAN

\* Subagents stay within their budget as long as nobody reads it while another session
\* reserves or turns a reservation into a lease (on_pre_tool_call, on_subagent_start).
BudgetKept == ~raced => SubagentCredits <= MaxChildren

\* Whatever is raced for, one worker's subagents stay within the budget.
WorkerWithinBudget ==
    \A t \in Task : reserve[t] + Cardinality(active \cap Owned(t)) <= MaxChildren

\* A child that runs is counted, until it stops or its session is over: neither a late
\* release of an earlier attempt at the task nor the end of another child takes its lease.
RunningChildIsCounted == \A c \in Child : doing[c] = "runs" => c \in active

\* No credit leaks: once a task has no worker and no worker lease, it has no reservation and
\* no child's lease, whether its sessions ended in order or died with their children.
NoCreditLeaks ==
    \A t \in Task : (\A s \in live \cup workers : TaskOf[s] # t)
                    => reserve[t] = 0 /\ active \cap Owned(t) = {}
================================================================================
