--------------------------- MODULE WorkerDispatch ---------------------------
(***************************************************************************)
(* The controller tick: how HCA turns ready Kanban tasks into worker       *)
(* processes, and settles the workers that ended.                          *)
(*                                                                         *)
(* A controller runs KanbanOrchestrator.tick for its run over and over:    *)
(* read the statuses, reap what is no longer running, and, if the wave has *)
(* room, dispatch_tick: sweep dead worker identities, reserve slots, let   *)
(* upstream dispatch_once claim and spawn; then reap once more.  An        *)
(* observer is a CLI status or collect: the same tick with dispatch=False, *)
(* in another process.  Every database transaction, signal and spawn is a  *)
(* step of its own, so workers, the controllers of other runs and          *)
(* observers interleave with it, and a controller can die in between.      *)
(***************************************************************************)
EXTENDS FleetState, RunStates

CONSTANTS
    Controllers,      \* detached controllers, at most one per run (run lock)
    Observers,        \* CLI processes that only project a run
    RunOf,            \* [Controllers \cup Observers -> Runs]
    Wave,             \* spec.concurrency
    MaxSequences,     \* max_total_sequences: the sequence-credit ceiling
    MaxReplacements,  \* budgets.max_supervisor_replacements
    MaxCrashes        \* bound on the controller crashes considered

Actors == Controllers \cup Observers

ASSUME DispatchAssumption ==
    /\ RunOf \in [Actors -> Runs]
    /\ Controllers \cap Observers = {}
    /\ \A p, q \in Controllers : RunOf[p] = RunOf[q] => p = q
    /\ Wave \in Nat \ {0}
    /\ MaxSequences \in Nat
    /\ MaxReplacements \in Nat
    /\ MaxCrashes \in Nat

VARIABLES
    run,          \* RunStore: the state of each run
    used,         \* StateDB.meta: supervisor_replacements of each run
    board,        \* the holder of upstream's dispatch lock, {} or {p}
    pc,           \* where each actor is in its tick
    snap,         \* the statuses it read
    pass,         \* which reap of the tick it is: 1 before the dispatch, 2 after
                  \* it, 3 after the evidence
    verdict,      \* the run state its evidence leads to
    reaping,      \* tasks of that snapshot still to be reaped
    sweeping,     \* running rows still to be checked by the identity sweep
    cur,          \* the attempt in hand; <<t, 0>>: task t, no row to settle
    quota,        \* what the wave has left (max_spawn)
    reserved,     \* Reservations.reserved: profiles reserved this tick
    cap,          \* admitted_cap: upstream's max_in_progress
    spawned,      \* workers dispatch_once spawned so far
    crashes       \* controller crashes so far

localVars == <<pc, snap, pass, verdict, reaping, sweeping, cur, quota, reserved, cap,
               spawned>>
vars == <<fleetVars, used, run, board, localVars, crashes>>

PC == {"idle", "reap", "release", "sweep", "judge", "settle", "reclaim", "charge",
       "close", "reserve", "enter", "claim", "launch", "record", "lease",
       "evidence", "verdict", "reread", "commit"}

\* The actor is inside upstream's dispatch_once.
InDispatchOnce == {"claim", "launch", "record", "lease"}

NoTasks == [t \in Tasks |-> "todo"]

DispatchTypeOK ==
    /\ FleetTypeOK
    /\ used \in [Runs -> Nat]
    /\ run \in [Runs -> RunState]
    /\ board \in SUBSET Controllers
    /\ pc \in [Actors -> PC]
    /\ snap \in [Actors -> [Tasks -> Status]]
    /\ pass \in [Actors -> 1..3]
    /\ verdict \in [Actors -> RunState]
    /\ reaping \in [Actors -> SUBSET Tasks]
    /\ sweeping \in [Actors -> SUBSET Attempts]
    /\ cur \in [Actors -> (Tasks \X (0..MaxTries)) \cup {NoAttempt}]
    /\ quota \in [Actors -> Nat]
    /\ reserved \in [Actors -> SUBSET Slots]
    /\ cap \in [Actors -> Nat]
    /\ spawned \in [Actors -> Nat]
    /\ crashes \in Nat

Init ==
    /\ FleetInit
    /\ used = [r \in Runs |-> 0]
    /\ run = [r \in Runs |-> "running"]
    /\ board = {}
    /\ pc = [p \in Actors |-> "idle"]
    /\ snap = [p \in Actors |-> NoTasks]
    /\ pass = [p \in Actors |-> 1]
    /\ verdict = [p \in Actors |-> "running"]
    /\ reaping = [p \in Actors |-> {}]
    /\ sweeping = [p \in Actors |-> {}]
    /\ cur = [p \in Actors |-> NoAttempt]
    /\ quota = [p \in Actors |-> 0]
    /\ reserved = [p \in Actors |-> {}]
    /\ cap = [p \in Actors |-> 0]
    /\ spawned = [p \in Actors |-> 0]
    /\ crashes = 0

-----------------------------------------------------------------------------
Mine(p) == TasksOf(RunOf[p])

Goto(p, l) == pc' = [pc EXCEPT ![p] = l]

\* The tick's local variables go out of scope.
Forget(p) ==
    /\ Goto(p, "idle")
    /\ snap' = [snap EXCEPT ![p] = NoTasks]
    /\ pass' = [pass EXCEPT ![p] = 1]
    /\ verdict' = [verdict EXCEPT ![p] = "running"]
    /\ reaping' = [reaping EXCEPT ![p] = {}]
    /\ sweeping' = [sweeping EXCEPT ![p] = {}]
    /\ cur' = [cur EXCEPT ![p] = NoAttempt]
    /\ quota' = [quota EXCEPT ![p] = 0]
    /\ reserved' = [reserved EXCEPT ![p] = {}]
    /\ cap' = [cap EXCEPT ![p] = 0]
    /\ spawned' = [spawned EXCEPT ![p] = 0]

\* _statuses, then the list of tasks _reconcile_leases will look at.
ReadStatuses(p) ==
    /\ snap' = [snap EXCEPT ![p] = [t \in Tasks |->
                   IF t \in Mine(p) THEN status[t] ELSE "todo"]]
    /\ reaping' = [reaping EXCEPT ![p] = {t \in Mine(p) : status[t] # "running"}]
    /\ Goto(p, "reap")

\* The controller polls while its run is active; status and collect project
\* every run that is not finished for good.
Polls(p) ==
    IF p \in Controllers
    THEN run[RunOf[p]] \notin TerminalState \cup {"needs_input", "stopping"}
    ELSE run[RunOf[p]] \notin FinalState

TickBegin(p) ==
    /\ pc[p] = "idle"
    /\ Polls(p)
    /\ ReadStatuses(p)
    /\ UNCHANGED <<fleetVars, used, run, board, pass, verdict, sweeping, cur, quota,
                   reserved, cap, spawned, crashes>>

-----------------------------------------------------------------------------
(* _reconcile_leases                                                       *)

\* One task of the snapshot: a live worker keeps its row and its lease.
ReapRead(p, t) ==
    /\ pc[p] = "reap"
    /\ t \in reaping[p]
    /\ reaping' = [reaping EXCEPT ![p] = @ \ {t}]
    /\ IF LiveOwned(t)
       THEN UNCHANGED <<pc, cur>>
       ELSE /\ cur' = [cur EXCEPT ![p] =
                          IF LatestRunning(t) = {} THEN <<t, 0>>
                          ELSE CHOOSE a \in LatestRunning(t) : TRUE]
            /\ Goto(p, "release")
    /\ UNCHANGED <<fleetVars, used, run, board, snap, pass, verdict, sweeping,
                   quota, reserved, cap, spawned, crashes>>

\* Settle the row that was read, if it was running, and release the task's
\* leases whatever row they were taken for.
ReapRelease(p) ==
    /\ pc[p] = "release"
    /\ MarkRunStatus({cur[p]}, SettledAs(snap[p][cur[p][1]]))
    /\ ReleaseWorkerLease(cur[p][1])
    /\ cur' = [cur EXCEPT ![p] = NoAttempt]
    /\ Goto(p, "reap")
    /\ UNCHANGED <<boardVars, live, used, run, board, snap, pass, verdict, reaping,
                   sweeping, quota, reserved, cap, spawned, crashes>>

\* _active_wave_count: workers that occupy the wave, known or presumed.  A
\* running task whose recorded worker is known dead is left out: the sweep
\* will reclaim it.  (Mutant: count only the tasks whose status is running.)
ActiveByStatus(p) == {t \in Mine(p) : snap[p][t] = "running"}
Active(p) ==
    {t \in Mine(p) :
        \/ LiveOwned(t)
        \/ snap[p][t] # "running" /\ LatestRunning(t) # {}
        \/ snap[p][t] = "running" /\ LatestRunning(t) = {}}

DeclaredTerminal(p) == \A t \in Mine(p) : snap[p][t] \in TerminalTask

ReapOver(p) == pc[p] = "reap" /\ reaping[p] = {}

\* Only the first reap of a controller's tick is followed by a dispatch, and
\* only when the wave has room.
MayDispatch(p) ==
    /\ p \in Controllers
    /\ pass[p] = 1
    /\ ~DeclaredTerminal(p)
    /\ Cardinality(Active(p)) < Wave

\* The rows the identity sweep will go through, and what the wave has left.
BeginDispatch(p) ==
    /\ ReapOver(p)
    /\ MayDispatch(p)
    /\ quota' = [quota EXCEPT ![p] = Wave - Cardinality(Active(p))]
    /\ sweeping' = [sweeping EXCEPT ![p] = {a \in RunningRecords : a[1] \in Mine(p)}]
    /\ Goto(p, "sweep")
    /\ UNCHANGED <<fleetVars, used, run, board, snap, pass, verdict, reaping, cur,
                   reserved, cap, spawned, crashes>>

SkipDispatch(p) ==
    /\ ReapOver(p)
    /\ ~MayDispatch(p)
    /\ Goto(p, IF pass[p] = 3 THEN "commit" ELSE "evidence")
    /\ UNCHANGED <<fleetVars, used, run, board, snap, pass, verdict, reaping,
                   sweeping, cur, quota, reserved, cap, spawned, crashes>>

-----------------------------------------------------------------------------
(* _reconcile_owned_worker_identities                                      *)

\* First the process: a row whose exact identity still exists is left alone.
SweepIdentity(p, a) ==
    /\ pc[p] = "sweep"
    /\ a \in sweeping[p]
    /\ sweeping' = [sweeping EXCEPT ![p] = @ \ {a}]
    /\ IF a \in live
       THEN UNCHANGED <<pc, cur>>
       ELSE /\ cur' = [cur EXCEPT ![p] = a]
            /\ Goto(p, "judge")
    /\ UNCHANGED <<fleetVars, used, run, board, snap, pass, verdict, reaping, quota,
                   reserved, cap, spawned, crashes>>

\* (Mutant: done is not recognised.)
BlockedUpstream(t) == status[t] = "blocked"
SettledUpstream(t) == status[t] \in TerminalTask

\* Only then the upstream status, which the worker may have settled before it
\* exited.
SweepJudge(p) ==
    /\ pc[p] = "judge"
    /\ Goto(p, IF SettledUpstream(cur[p][1]) THEN "settle" ELSE "reclaim")
    /\ snap' = [snap EXCEPT ![p][cur[p][1]] = status[cur[p][1]]]
    /\ UNCHANGED <<fleetVars, used, run, board, pass, verdict, reaping, sweeping,
                   cur, quota, reserved, cap, spawned, crashes>>

\* The dead worker had settled its task: no replacement.
SweepSettle(p) ==
    /\ pc[p] = "settle"
    /\ MarkRunStatus({cur[p]}, SettledAs(snap[p][cur[p][1]]))
    /\ ReleaseWorkerLease(cur[p][1])
    /\ cur' = [cur EXCEPT ![p] = NoAttempt]
    /\ Goto(p, "sweep")
    /\ UNCHANGED <<boardVars, live, used, run, board, snap, pass, verdict, reaping,
                   sweeping, quota, reserved, cap, spawned, crashes>>

\* The worker died under its claim: give the task back.
SweepReclaim(p) ==
    /\ pc[p] = "reclaim"
    /\ IF Reclaimable(cur[p][1])
       THEN ReclaimTask(cur[p][1]) /\ Goto(p, "charge") /\ UNCHANGED cur
       ELSE /\ UNCHANGED boardVars
            /\ cur' = [cur EXCEPT ![p] = NoAttempt]
            /\ Goto(p, "sweep")
    /\ UNCHANGED <<rec, lease, live, used, run, board, snap, pass, verdict, reaping,
                   sweeping, quota, reserved, cap, spawned, crashes>>

\* supervisor_replacements is under the run's budget.  (Mutant: one too many.)
BudgetNotExceeded(r) == used[r] <= MaxReplacements
BudgetLeft(r) == used[r] < MaxReplacements

\* Charge the replacement to the run's budget, or block the task when the
\* budget is used up.
SweepCharge(p) ==
    LET r == RunOf[p]  t == cur[p][1] IN
    /\ pc[p] = "charge"
    /\ IF BudgetLeft(r)
       THEN used' = [used EXCEPT ![r] = @ + 1] /\ UNCHANGED boardVars
       ELSE BlockTask(t) /\ UNCHANGED used
    /\ Goto(p, "close")
    /\ UNCHANGED <<rec, lease, live, run, board, snap, pass, verdict, reaping,
                   sweeping, cur, quota, reserved, cap, spawned, crashes>>

\* Either way the attempt is over.
SweepClose(p) ==
    /\ pc[p] = "close"
    /\ MarkRunStatus({cur[p]}, "crashed")
    /\ ReleaseWorkerLease(cur[p][1])
    /\ cur' = [cur EXCEPT ![p] = NoAttempt]
    /\ Goto(p, "sweep")
    /\ UNCHANGED <<boardVars, live, used, run, board, snap, pass, verdict, reaping,
                   sweeping, quota, reserved, cap, spawned, crashes>>

SweepDone(p) ==
    /\ pc[p] = "sweep"
    /\ sweeping[p] = {}
    /\ Goto(p, "reserve")
    /\ UNCHANGED <<fleetVars, used, run, board, snap, pass, verdict, reaping,
                   sweeping, cur, quota, reserved, cap, spawned, crashes>>

-----------------------------------------------------------------------------
(* recompute_ready, pre_reserve_ready and admitted_cap                     *)

\* admit's sequence gate, over a tick: every reservation made before counts as
\* a pending sequence.
CreditsAllow(S) == S # {} => Cardinality(lease) + Cardinality(S) <= MaxSequences

\* Slots a set S of ready tasks of this run may reserve: one task per slot,
\* no slot with a running row, within the wave and, counting the credit of
\* every lease held and every reservation made before it, within the
\* sequence ceiling.  The memory, disk and role gates may refuse any of them,
\* so any such set can result.
MayReserve(p, S) ==
    /\ \A t \in S : Promoted[t] = "ready" /\ t \in Mine(p)
    /\ \A t, u \in S : SlotOf[t] = SlotOf[u] => t = u
    /\ \A t \in S : OnSlot(SlotOf[t]) \cap RunningRecords = {}
    /\ Cardinality(S) <= quota[p]
    /\ CreditsAllow(S)

Reserve(p) ==
    /\ pc[p] = "reserve"
    /\ status' = Promoted
    /\ \E S \in SUBSET Mine(p) :
          /\ MayReserve(p, S)
          /\ reserved' = [reserved EXCEPT ![p] = {SlotOf[t] : t \in S}]
          /\ cap' = [cap EXCEPT ![p] =
                        LET n == Cardinality({t \in Tasks : Promoted[t] = "running"})
                                 + Cardinality(S)
                        IN IF n < Wave THEN n ELSE Wave]
    /\ Goto(p, "enter")
    /\ UNCHANGED <<claim, tries, rec, lease, live, used, run, board, snap, pass,
                   verdict, reaping, sweeping, cur, quota, spawned, crashes>>

-----------------------------------------------------------------------------
(* Upstream dispatch_once and the spawn_fn HCA hands to it                 *)

\* After dispatch_once the statuses are read afresh and reaped once more.
AfterDispatch(p) ==
    /\ ReadStatuses(p)
    /\ pass' = [pass EXCEPT ![p] = 2]
    /\ reserved' = [reserved EXCEPT ![p] = {}]
    /\ cap' = [cap EXCEPT ![p] = 0]
    /\ spawned' = [spawned EXCEPT ![p] = 0]
    /\ quota' = [quota EXCEPT ![p] = 0]
    /\ UNCHANGED <<verdict, sweeping, cur>>

\* One dispatcher at a time; dispatch_once returns skipped_locked otherwise.
DispatchEnter(p) ==
    /\ pc[p] = "enter"
    /\ IF board = {}
       THEN /\ board' = {p}
            /\ Goto(p, "claim")
            /\ UNCHANGED <<snap, pass, verdict, reaping, sweeping, cur, quota,
                           reserved, cap, spawned>>
       ELSE AfterDispatch(p) /\ UNCHANGED board
    /\ UNCHANGED <<fleetVars, used, run, crashes>>

\* Upstream chooses among all ready tasks of the board, not among the
\* reserved ones, within the limits it was given.
DispatchClaim(p, t) ==
    /\ pc[p] = "claim"
    /\ spawned[p] < Cardinality(reserved[p])
    /\ Cardinality({u \in Tasks : status[u] = "running"}) < cap[p]
    /\ status[t] = "ready"
    /\ \A u \in Tasks : SlotOf[u] = SlotOf[t] => status[u] # "running"
    /\ tries[t] < MaxTries
    /\ status' = [status EXCEPT ![t] = "running"]
    /\ tries' = [tries EXCEPT ![t] = @ + 1]
    /\ claim' = [claim EXCEPT ![t] = tries[t] + 1]
    /\ cur' = [cur EXCEPT ![p] = <<t, tries[t] + 1>>]
    /\ Goto(p, "launch")
    /\ UNCHANGED <<rec, lease, live, used, run, board, snap, pass, verdict, reaping,
                   sweeping, quota, reserved, cap, spawned, crashes>>

\* Upstream's own crash detection: a claim whose process is gone goes back, or
\* is blocked when upstream's failure limit is reached (auto_blocked).
DispatchReclaim(p, t) ==
    /\ pc[p] = "claim"
    /\ status[t] = "running"
    /\ <<t, claim[t]>> \notin live
    /\ ReclaimTask(t) \/ BlockTask(t)
    /\ UNCHANGED <<rec, lease, live, used, run, board, localVars, crashes>>

\* spawn_fn has no admission left to decide, only to refuse.
MaySpawn(p, t) == OwnerOf[t] = RunOf[p] /\ SlotOf[t] \in reserved[p]

\* spawn_fn raises and upstream blocks the task.
SpawnRaises(p) ==
    /\ BlockTask(cur[p][1])
    /\ cur' = [cur EXCEPT ![p] = NoAttempt]
    /\ Goto(p, "claim")

LaunchRefused(p) ==
    /\ pc[p] = "launch"
    /\ ~MaySpawn(p, cur[p][1])
    /\ SpawnRaises(p)
    /\ UNCHANGED <<rec, lease, live, used, run, board, snap, pass, verdict, reaping,
                   sweeping, quota, reserved, cap, spawned, crashes>>

\* Rows still running on the slot are superseded, their leases untouched.
Supersede(s) == MarkRunStatus(OnSlot(s) \cap RunningRecords, "superseded")

\* respawn-pane -k: the slot's process is killed and the worker starts in its
\* place.  (Mutant: it starts beside the old one.)
StartBeside(s, a) == live' = live \cup {a}
Respawn(s, a) == live' = (live \ OnSlot(s)) \cup {a}

Launch(p) ==
    LET s == SlotOf[cur[p][1]] IN
    /\ pc[p] = "launch"
    /\ MaySpawn(p, cur[p][1])
    /\ Supersede(s)
    /\ Respawn(s, cur[p])
    /\ Goto(p, "record")
    /\ UNCHANGED <<boardVars, lease, used, run, board, snap, pass, verdict, reaping,
                   sweeping, cur, quota, reserved, cap, spawned, crashes>>

\* The launch fails after the rows were superseded: before the slot is touched
\* (no launch spec), or after the worker's identity or directory could not be
\* attested and its session was killed.
LaunchFails(p) ==
    LET s == SlotOf[cur[p][1]] IN
    /\ pc[p] = "launch"
    /\ MaySpawn(p, cur[p][1])
    /\ Supersede(s)
    /\ live' \in {live, live \ OnSlot(s)}
    /\ SpawnRaises(p)
    /\ UNCHANGED <<lease, used, run, board, snap, pass, verdict, reaping, sweeping,
                   quota, reserved, cap, spawned, crashes>>

\* upsert_run
RecordRun(p) ==
    /\ pc[p] = "record"
    /\ MarkRunStatus({cur[p]}, "running")
    /\ Goto(p, "lease")
    /\ UNCHANGED <<boardVars, lease, live, used, run, board, snap, pass, verdict,
                   reaping, sweeping, cur, quota, reserved, cap, spawned, crashes>>

\* acquire_worker_lease
TakeLease(p) ==
    /\ pc[p] = "lease"
    /\ lease' = lease \cup {cur[p]}
    /\ spawned' = [spawned EXCEPT ![p] = @ + 1]
    /\ cur' = [cur EXCEPT ![p] = NoAttempt]
    /\ Goto(p, "claim")
    /\ UNCHANGED <<boardVars, rec, live, used, run, board, snap, pass, verdict,
                   reaping, sweeping, quota, reserved, cap, crashes>>

DispatchLeave(p) ==
    /\ pc[p] = "claim"
    /\ board' = {}
    /\ AfterDispatch(p)
    /\ UNCHANGED <<fleetVars, used, run, crashes>>

-----------------------------------------------------------------------------
(* The evidence and the run state it leads to                              *)

\* A finished task is proven by the row of an attempt, settled or not: its run
\* id and the PID that was bound.  (Mutant: only by a row settled as completed.)
ProvenOnceSettled(t) == \E a \in AttemptsOf(t) : rec[a] = "completed"
Proven(t) == \E a \in AttemptsOf(t) : rec[a] # "absent"

\* derive_final_state when no worker is live.
Derived(S) ==
    IF \E t \in S : status[t] = "blocked" THEN "blocked"
    ELSE IF \E t \in S : status[t] # "done" THEN "running"
    ELSE IF \E t \in S : ~Proven(t) THEN "blocked"
    ELSE "completed"

\* _build_evidence: the tasks first ...
ReadEvidence(p) ==
    /\ pc[p] = "evidence"
    /\ verdict' = [verdict EXCEPT ![p] = Derived(Mine(p))]
    /\ Goto(p, "verdict")
    /\ UNCHANGED <<fleetVars, used, run, board, snap, pass, reaping, sweeping, cur,
                   quota, reserved, cap, spawned, crashes>>

\* (Mutant: a worker that has reported does not count.)
LiveAtWork(p) == \E t \in Mine(p) : status[t] = "running" /\ LiveOwned(t)
AnyLive(p) == \E t \in Mine(p) : LiveOwned(t)

\* ... then the live workers, any of which keeps the run running.
CheckLive(p) ==
    /\ pc[p] = "verdict"
    /\ IF AnyLive(p)
       THEN /\ verdict' = [verdict EXCEPT ![p] = "running"]
            /\ Goto(p, "commit")
       ELSE Goto(p, "reread") /\ UNCHANGED verdict
    /\ UNCHANGED <<fleetVars, used, run, board, snap, pass, reaping, sweeping, cur,
                   quota, reserved, cap, spawned, crashes>>

\* With no worker left the statuses are read and reaped a last time.
ReapAtLast(p) ==
    /\ pc[p] = "reread"
    /\ ReadStatuses(p)
    /\ pass' = [pass EXCEPT ![p] = 3]
    /\ UNCHANGED <<fleetVars, used, run, board, verdict, sweeping, cur, quota,
                   reserved, cap, spawned, crashes>>

\* _reconcile_from_evidence, and the tick is over.
Commit(p) ==
    /\ pc[p] = "commit"
    /\ run' = [run EXCEPT ![RunOf[p]] = SafeSet(@, verdict[p])]
    /\ Forget(p)
    /\ UNCHANGED <<fleetVars, used, board, crashes>>

-----------------------------------------------------------------------------
\* The controller process dies; what it wrote stays.  Another is launched for
\* the run by the next command that finds it missing.
Crash(p) ==
    /\ pc[p] # "idle"
    /\ crashes < MaxCrashes
    /\ crashes' = crashes + 1
    /\ board' = board \ {p}
    /\ Forget(p)
    /\ UNCHANGED <<fleetVars, used, run>>

Reap(p) ==
    \/ \E t \in Tasks : ReapRead(p, t)
    \/ ReapRelease(p)
    \/ BeginDispatch(p)
    \/ SkipDispatch(p)

Sweep(p) ==
    \/ \E a \in Attempts : SweepIdentity(p, a)
    \/ SweepJudge(p)
    \/ SweepSettle(p)
    \/ SweepReclaim(p)
    \/ SweepCharge(p)
    \/ SweepClose(p)
    \/ SweepDone(p)

DispatchOnce(p) ==
    \/ DispatchEnter(p)
    \/ \E t \in Tasks : DispatchClaim(p, t) \/ DispatchReclaim(p, t)
    \/ LaunchRefused(p)
    \/ Launch(p)
    \/ LaunchFails(p)
    \/ RecordRun(p)
    \/ TakeLease(p)
    \/ DispatchLeave(p)

Conclude(p) == ReadEvidence(p) \/ CheckLive(p) \/ ReapAtLast(p) \/ Commit(p)

Tick(p) ==
    \/ TickBegin(p)
    \/ Reap(p)
    \/ Sweep(p)
    \/ Reserve(p)
    \/ DispatchOnce(p)
    \/ Conclude(p)

WorkerStep == Worker /\ UNCHANGED <<used, run, board, localVars, crashes>>

\* Every run is over and every worker gone: the system may stop here only.
Terminated ==
    /\ \A p \in Actors : pc[p] = "idle" /\ ~Polls(p)
    /\ live = {}
    /\ UNCHANGED vars

Next ==
    \/ \E p \in Actors : Tick(p)
    \/ \E p \in Controllers : Crash(p)
    \/ WorkerStep
    \/ Terminated

Spec == Init /\ [][Next]_vars

-----------------------------------------------------------------------------
(* Properties                                                              *)

\* The launcher of the attempt has not yet written its row or its lease.
InFlight(a) == \E p \in Controllers : pc[p] \in {"record", "lease"} /\ cur[p] = a

\* Two live workers never share a slot, hence no task has two live workers:
\* neither a reclaim, a retry, a second controller nor a controller that died
\* half way through a spawn duplicates a worker (run_in_slot, spawn_fn).
OneWorkerPerSlot ==
    \A a, b \in live : SlotOf[a[1]] = SlotOf[b[1]] => a = b

\* Once its spawn is over, a live worker has a running row and holds its
\* credit until it exits, also between the moment it reports its task done and
\* the moment its process ends (_reconcile_leases, leases.py).
LiveWorkerHoldsCredit ==
    \A a \in live : InFlight(a) \/ (rec[a] = "running" /\ a \in lease)

\* A run never has more live workers than its wave, counting those that have
\* reported their task but not yet exited (_active_wave_count).
WaveRespected ==
    \A r \in Runs : Cardinality({a \in live : OwnerOf[a[1]] = r}) <= Wave

\* An attempt that got as far as a process or a row.
Launched(a) == a \in live \/ rec[a] # "absent"

\* Another attempt at the task was launched after this one.
Replaced(a) == \E b \in AttemptsOf(a[1]) : a[2] < b[2] /\ Launched(b)

\* Every replacement of a worker whose row was settled as crashed is charged to
\* its run, once, and a run is charged at most its budget, whatever the
\* controllers of other runs and observers do and wherever a controller dies
\* (_reconcile_owned_worker_identities).  One that dies between the reclaim and
\* the end of the sweep of that row leaves it running, and it is settled otherwise.
ReplacementsCharged ==
    \A r \in Runs :
        /\ Cardinality({a \in Attempts : /\ OwnerOf[a[1]] = r
                                         /\ rec[a] = "crashed"
                                         /\ Replaced(a)}) <= used[r]
        /\ used[r] <= MaxReplacements

\* Finished work is never handed out again, although reclaim_task would reset
\* it: a worker that commits its task and exits while the controller sweeps
\* must not be replaced.
DoneStaysDone ==
    [][\A t \in Tasks : status[t] = "done" => status'[t] = "done"]_vars

\* A completed run leaves nothing behind: its tasks are done, none of them is
\* handed out again, no process runs for it and no row or credit is held
\* (tick, _reconcile_from_evidence).
CompletedRunIsClean ==
    \A r \in Runs : run[r] = "completed" =>
        /\ \A t \in TasksOf(r) : status[t] = "done"
        /\ \A a \in live \cup lease \cup RunningRecords : OwnerOf[a[1]] # r

\* The controller takes its next step: it polls until the run is over, and a
\* status command launches it again when it has died.
FairSpec == Spec /\ \A p \in Controllers : WF_vars(Tick(p))

\* The credit of a worker that is gone comes back, whoever died on the way, for
\* as long as the run has a controller, which it has not when it is blocked
\* (_reconcile_leases, the reap at the end of a tick).
CreditsReturnedWhileActive ==
    \A a \in Attempts :
        (a \in lease /\ a \notin live)
            ~> (a \notin lease \/ run[OwnerOf[a[1]]] = "blocked")

\* Once its tasks are done and its workers gone, a run is completed: no order
\* of exit, reap and evidence leaves it running, or blocks it for good (tick,
\* derive_final_state, _safe_set).
DoneRunCompletes ==
    \A r \in Runs :
        ( /\ \A t \in TasksOf(r) : status[t] = "done"
          /\ \A a \in live : OwnerOf[a[1]] # r ) ~> run[r] = "completed"

-----------------------------------------------------------------------------
(* The inductive invariant behind OneWorkerPerSlot and DoneStaysDone.      *)

SweepPC == {"sweep", "judge", "settle", "reclaim", "charge", "close"}

\* What the actor has in hand, where it has something in hand.
CurOK ==
    \A p \in Actors :
        /\ pc[p] = "release" => cur[p] # NoAttempt
        /\ pc[p] \in (SweepPC \ {"sweep"}) \cup {"launch", "record", "lease"}
              => cur[p] \in Attempts

\* Only controllers dispatch, and only the holder of the lock is inside
\* dispatch_once.
LockOK ==
    \A p \in Actors :
        /\ pc[p] \in SweepPC \cup {"reserve", "enter"} \cup InDispatchOnce
              => p \in Controllers
        /\ pc[p] \in InDispatchOnce => board = {p}

\* An attempt upstream has not handed out yet has no process and no claim.
FreshOK ==
    /\ \A a \in live : a[2] <= tries[a[1]]
    /\ \A p \in Actors :
          pc[p] \in {"launch", "record", "lease"} => cur[p][2] <= tries[cur[p][1]]

\* A running row is the row of the only process its task can have.
RecordOK ==
    /\ \A a \in RunningRecords, b \in live : a[1] = b[1] => a = b
    /\ \A p \in Actors : pc[p] = "record" =>
          \A b \in live : SlotOf[b[1]] = SlotOf[cur[p][1]] => b = cur[p]

\* A reap or a settle never writes "running" into a row.
SnapOK ==
    \A p \in Actors :
        /\ \A t \in reaping[p] : snap[p][t] # "running"
        /\ pc[p] \notin {"reap", "release"} => reaping[p] = {}
        /\ pc[p] \in {"release", "settle"} => snap[p][cur[p][1]] # "running"

\* Between reading a row as running and reclaiming its task, the sweep deals
\* with tasks of its own run, of which no other process exists.
SweepOK ==
    \A p \in Actors :
        /\ \A a \in sweeping[p] :
              /\ pc[p] \in SweepPC
              /\ OwnerOf[a[1]] = RunOf[p]
              /\ \A b \in live : b[1] = a[1] => b = a
        /\ pc[p] \in SweepPC \ {"sweep"} =>
              /\ OwnerOf[cur[p][1]] = RunOf[p]
              /\ \A b \in live : b[1] # cur[p][1]

\* What is about to be reset or blocked is not finished and cannot finish.
UnfinishedOK ==
    \A p \in Actors :
        /\ pc[p] \in {"reclaim", "charge"} => status[cur[p][1]] # "done"
        /\ pc[p] = "launch" =>
              /\ status[cur[p][1]] # "done"
              /\ \A b \in live : b[1] = cur[p][1] => claim[b[1]] # b[2]

\* Together: no step breaks them, and they imply that slots are not shared and
\* that what reclaim_task and block_task overwrite is never finished work.
DispatchInv ==
    /\ DispatchTypeOK
    /\ CurOK
    /\ LockOK
    /\ FreshOK
    /\ OneWorkerPerSlot
    /\ RecordOK
    /\ SnapOK
    /\ SweepOK
    /\ UnfinishedOK

-----------------------------------------------------------------------------
(* What the code is meant to do and does not: no run keeps checking these, *)
(* the README says how each fails.                                         *)

\* A task whose slot still hosts an exiting worker is deferred by admission; it
\* stays ready and is not claimed only to be refused by spawn_fn and blocked
\* (the comment on admitted_cap in dispatch_tick).
DeferralsStayReady ==
    \A p \in Controllers :
        /\ pc[p] = "launch"
        /\ OwnerOf[cur[p][1]] = RunOf[p]
        /\ OnSlot(SlotOf[cur[p][1]]) \cap RunningRecords \cap live # {}
        => MaySpawn(p, cur[p][1])

\* A credit whose worker is gone is returned (_reconcile_leases and the
\* sweep), whatever step of the tick the controller died in and whatever
\* became of the run.
CreditsReturned ==
    \A a \in Attempts : (a \in lease /\ a \notin live) ~> a \notin lease
=============================================================================
