----------------------------- MODULE FleetState -----------------------------
(***************************************************************************)
(* What HCA's processes share: the Kanban board (upstream Hermes), the     *)
(* durable run records and worker leases of StateDB (state.py, leases.py), *)
(* and the worker processes that tmux holds, one slot per concrete         *)
(* profile.  Every variable here outlives the process that writes it; the  *)
(* modules that extend this one add the local state of the actors.         *)
(*                                                                         *)
(* The k-th claim of task t is the attempt <<t, k>>.  It stands for the    *)
(* upstream current_run_id, for the runs row and the lease written for it  *)
(* and for the process, so a process is told from a later one on the same  *)
(* PID by its exact identity, as pid_start_ticks does in the code.         *)
(***************************************************************************)
EXTENDS Naturals, FiniteSets

CONSTANTS
    Runs,         \* high-level HCA runs sharing one board
    Tasks,        \* Kanban tasks of all of them
    Slots,        \* concrete profiles: one tmux session each
    OwnerOf,      \* [Tasks -> Runs]: the run whose persisted graph has the task
    SlotOf,       \* [Tasks -> Slots]: the assignee chosen when the task was made
    DependsOn,    \* [Tasks -> SUBSET Tasks]: parents in the Kanban DAG
    MaxTries      \* bound on the attempts at one task

ASSUME FleetAssumption ==
    /\ IsFiniteSet(Tasks)
    /\ OwnerOf \in [Tasks -> Runs]
    /\ SlotOf \in [Tasks -> Slots]
    /\ DependsOn \in [Tasks -> SUBSET Tasks]
    /\ MaxTries \in Nat \ {0}

VARIABLES
    status,       \* upstream: the status column of a task
    claim,        \* upstream: current_run_id, 0 when the task is unclaimed
    tries,        \* upstream: attempts claimed so far at a task
    rec,          \* StateDB.runs: the status of the row of an attempt
    lease,        \* StateDB.leases, kind "worker": the attempts holding a credit
    live          \* the attempts whose process exists

boardVars == <<status, claim, tries>>
fleetVars == <<status, claim, tries, rec, lease, live>>

Attempts == Tasks \X (1..MaxTries)
NoAttempt == <<>>

AttemptsOf(t) == {t} \X (1..MaxTries)
OnSlot(s) == {a \in Attempts : SlotOf[a[1]] = s}
TasksOf(r) == {t \in Tasks : OwnerOf[t] = r}

Status == {"todo", "ready", "running", "done", "blocked"}

\* TERMINAL_TASK_STATUSES, for the statuses that occur here.
TerminalTask == {"done", "blocked"}

\* A row's status is "running" until somebody settles it; "absent" is no row.
RecStatus == {"absent", "running", "completed", "crashed", "superseded",
              "cancelled", "todo", "ready", "blocked"}

FleetTypeOK ==
    /\ status \in [Tasks -> Status]
    /\ claim \in [Tasks -> 0..MaxTries]
    /\ tries \in [Tasks -> 0..MaxTries]
    /\ rec \in [Attempts -> RecStatus]
    /\ lease \in SUBSET Attempts
    /\ live \in SUBSET Attempts

\* A planned graph: nothing claimed, no worker was ever started.
FleetInit ==
    /\ status = [t \in Tasks |-> "todo"]
    /\ claim = [t \in Tasks |-> 0]
    /\ tries = [t \in Tasks |-> 0]
    /\ rec = [a \in Attempts |-> "absent"]
    /\ lease = {}
    /\ live = {}

-----------------------------------------------------------------------------
(* StateDB: queries and updates of one connection each.                    *)

\* list_runs(status="running")
RunningRecords == {a \in Attempts : rec[a] = "running"}

\* latest_run_for_task finds a row and that row is running.  Rows are
\* ordered by started_at, which grows with the attempt number.
Latest(t, a) ==
    /\ a \in AttemptsOf(t)
    /\ rec[a] # "absent"
    /\ \A b \in AttemptsOf(t) : rec[b] # "absent" => b[2] <= a[2]

LatestRunning(t) == {a \in AttemptsOf(t) : Latest(t, a) /\ rec[a] = "running"}

\* _live_owned_worker_tasks, for one task: latest row running and the exact
\* process identity still there.  (Mutant: trust the upstream status.)
LiveOwnedByStatus(t) == status[t] = "running"
LiveOwned(t) == LatestRunning(t) \cap live # {}

\* A settled row carries the upstream status, with done spelt "completed".
SettledAs(st) == IF st = "done" THEN "completed" ELSE st

MarkRunStatus(S, st) == rec' = [a \in Attempts |-> IF a \in S THEN st ELSE rec[a]]

\* release_worker_lease deletes by the (board, task) prefix, whatever attempt
\* the lease was taken for.  (Mutant: only the current claim's lease.)
ReleaseClaimLease(t) == lease' = lease \ {<<t, claim[t]>>}
ReleaseWorkerLease(t) == lease' = lease \ AttemptsOf(t)

-----------------------------------------------------------------------------
(* Upstream Kanban, as src/ uses it.                                       *)

\* recompute_ready: promote every task whose parents are done.
Promoted ==
    [t \in Tasks |->
        IF status[t] = "todo" /\ \A u \in DependsOn[t] : status[u] = "done"
        THEN "ready" ELSE status[t]]

\* reclaim_task resets a task to ready and drops its claim.  It would do that
\* to a finished task as well, which is why the caller looks first; a task
\* that was never claimed is refused.
Reclaimable(t) == status[t] \notin {"todo", "ready"}

ReclaimTask(t) ==
    /\ status' = [status EXCEPT ![t] = "ready"]
    /\ claim' = [claim EXCEPT ![t] = 0]
    /\ UNCHANGED tries

BlockTask(t) ==
    /\ status' = [status EXCEPT ![t] = "blocked"]
    /\ claim' = [claim EXCEPT ![t] = 0]
    /\ UNCHANGED tries

-----------------------------------------------------------------------------
(* Worker processes.                                                       *)

\* kanban_complete or kanban_block, called by the worker that holds the claim.
\* The process lives on for a while afterwards.
WorkerReports(a, st) ==
    /\ a \in live
    /\ status[a[1]] = "running"
    /\ claim[a[1]] = a[2]
    /\ status' = [status EXCEPT ![a[1]] = st]
    /\ claim' = [claim EXCEPT ![a[1]] = 0]
    /\ UNCHANGED <<tries, rec, lease, live>>

\* The process ends: it had reported, or it crashed.
WorkerExits(a) ==
    /\ a \in live
    /\ live' = live \ {a}
    /\ UNCHANGED <<status, claim, tries, rec, lease>>

Worker ==
    \E a \in Attempts :
        \/ \E st \in TerminalTask : WorkerReports(a, st)
        \/ WorkerExits(a)

=============================================================================
