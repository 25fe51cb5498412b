# Hermes Concurrent Agents: a verification project

Hermes Concurrent Agents (HCA, `src/src/hca`) takes a goal, plans it as a small
task graph on an upstream Hermes Kanban board, runs the tasks in worker
processes held by tmux panes, and derives the outcome of the run from what the
board and the processes show. It has no central server: short CLI commands, one
detached controller process per run, the workers, a legacy fleet supervisor and
plugin hooks inside the workers all share one SQLite file, one Kanban board and
one tmux server. What can go wrong here is mostly a matter of order, so that is
what the modules are about.

Paths below are relative to `src/src/hca` unless they begin with `src/`.

## 1. Inventory

| component | source | state it keeps | operations |
|---|---|---|---|
| run store and run-state machine | `run.py` | `hca_runs.state`, questions, events | `create_run`, `set_state`, `add_question`, `answer_question`, `append_event`, `list_events` |
| service commands | `service.py` | none of its own; writes the run store | `run`, `reconcile`, `status`, `collect`, `respond`, `recover`, `stop`, `expire` |
| worker dispatch | `kanban_orchestrator.py`, `kanban.py`, `routing.py` | `SlotReservations` of a tick; the supervisor-replacement counter in `meta` | `tick`, `execute`, `start`, `_reconcile_leases`, `_reconcile_owned_worker_identities`, `pre_reserve_ready`, `spawn_fn`, `dispatch_tick` |
| durable state | `state.py`, `leases.py`, `process_identity.py` | run rows, leases, meta, leader lock | `upsert_run`, `mark_run_status`, `acquire_worker_lease`, `release_worker_lease`, `latest_run_for_task` |
| slots and workers | `tmux.py`, `worker_launch.py` | one tmux session per concrete profile | `run_in_slot` (respawn with kill), identity attestation |
| evidence gate | `evidence.py`, `result.py` | none | `derive_final_state`, `review_required` |
| controller process | `controller.py` | identity file, launch lock, run lock | `launch_controller`, `run_controller`, `stop_controller` |
| review loop | `kanban_orchestrator.py` 957-1200 | run events, Kanban links | `advance`, `_open_review_gate`, `_block_review_gate`, `validate_git_result` |
| stop and recovery | `kanban_orchestrator.py` 1652-1932 | rows, leases, meta | `cancel`, `expire`, `recover`, `_terminate_process_group` |
| planning | `decompose.py`, `kanban_orchestrator.py` 152-622 | the Kanban graph | `validate_task_graph`, `default_planner`, `plan` |
| admission gates | `resources.py` | the hysteresis flag in `meta` | `admit` |
| supervisor | `supervisor.py` | leader lock, running rows | `reconcile`, `dispatch_once` |
| subagent leases | `plugin.py` | subagent leases | the four hooks |
| migrations | `migrations.py` | schema version, backup file | `apply_migrations` |
| the rest | `workspaces.py`, `team.py`, `cli.py`, `plugin_tools.py`, `config.py`, `doctor.py`, ... | none the above reads back | parsing, rendering, probes |

**Interaction.** A command or a controller calls `FleetService.reconcile`, which
calls `KanbanOrchestrator.tick`: read the upstream statuses; reap
(`_reconcile_leases`); if the wave has room, `dispatch_tick`, which sweeps the
identities of the recorded workers, reserves slots through `admit` and hands
`spawn_fn` to upstream's `dispatch_once`; reap again; build evidence. Then
`_reconcile_from_evidence` writes the run state. Workers report to the board on
their own. Upstream Hermes (the board, `dispatch_once`, `reclaim_task`,
`recompute_ready`) is not in the repository: it is modelled from the way
`kanban.py` and `kanban_orchestrator.py` use it, and marked external.

**What is hard.** Nothing is one transaction: statuses, rows, leases, processes
and the run state are read and written on separate connections, by processes
that do not lock each other out (two commands, or a command and a controller,
tick the same run; controllers of two runs share the ceiling). A worker reports
its task as done before its process ends, so "done upstream" and "slot free" are
different facts. A controller can die between spawning a worker and recording
it. A PID can be reused, so rows carry the process's start time. Rows, leases
and tmux state survive every process that wrote them. `PROJECT.json` lists each
hazard at its line with the properties that watch it.

**What makes each part correct.** Dispatch: no slot or task ever has two
workers, finished work is never handed out again, a live worker holds its
credit, credits of dead workers return, the wave and the replacement budget
hold, a completed run leaves nothing behind. Run store: only the transitions of
the table happen, a finished run is never reopened, a stop is never turned into
a completion. Controllers: one process conducts a run, a stop signals only that
process, nobody keeps the run lock for nothing. Stop and recovery: a cancelled
run has no process, recovery does not reset finished work. Review: no more than
`max_review_cycles` reviews, nothing final before the last of them accepts, no
acceptance by the implementer. Evidence: a run is completed only when every task
is done, proven and, where required, reviewed; honest work is not failed.
Planning: what `validate_task_graph` accepts can run to its end. Admission:
a closed gate opens at the low mark only; workers and subagents stay within
their ceilings. Migrations: the version marker never claims a step that is not
there, and no run is lost.

## 2. Modules

| module | what it is |
|---|---|
| `RunStates` | the eleven run states, `VALID_TRANSITIONS`, and what `_safe_set` makes of a target; no variables |
| `FleetState` | the shared state (board, rows, leases, processes) and the operations of one transaction on it |
| `WorkerDispatch` | the controller tick, observers, workers and controller crashes over `FleetState` |
| `RunMachine` | the promise of `run.py`: a state that moves along `VALID_TRANSITIONS` only |
| `RunLifecycle` | one run and every process that writes its state: `hca run`, its controller, status, respond and stop commands |
| `SoleController` | the promise of `controller.py`: one process at a time conducts the run, and none comes back |
| `ControllerProcess` | launchers, controllers, a stop, the two locks, the identity file and PIDs that are used again |
| `StateStore` | the database: opening, stamping, backup, steps, restore; and the run command that looks its idempotency key up |
| `Delegation` | subagents: the budget, reservations and leases, and the plugin's hooks |
| `Admission` | the memory and disk gates, the sequence ceiling and the drain flag, on top of `Delegation` |
| `TaskGraph` | planning as operators: the default planner, the barrier a graph has to pass, the assignment of profiles; no variables |
| `ReviewLoop` | one run from planning to its outcome over a board with reviews and reworks, on top of `TaskGraph` |
| `MC...` | the small instances for TLC |
| `WorkerDispatchProofs`, `RunLifecycleProofs`, `ControllerProcessProofs`, `StateStoreProofs`, `AdmissionProofs`, `TaskGraphProofs` | theorems |
| `ReviewLoopProofs`, `ReviewGateProofs` | theorems about `ReviewLoop`: those that hold however ticks interleave, and those that need them one at a time |

The modules look at one system from different sides, and each leaves to another
what that one keeps. `WorkerDispatch` has every transaction on the board, the
rows, the leases and the processes, and reduces the run's state to what a tick
writes; `RunLifecycle` has every writer of the run's state and reduces the board
to one task; `ReviewLoop` has the whole graph, and reduces dispatch to waves.
Both of the first assume one controller per run, which `ControllerProcess`
shows to be so (`OneConductor`). `Admission` refines the one nondeterministic
refusal of `WorkerDispatch`'s `Reserve`.

### WorkerDispatch and the code

The k-th claim of a task is the attempt `<<t, k>>`; it stands for upstream's
`current_run_id`, for the run row and lease written for it, and for its process
with its exact identity (PID and start ticks), so a stale row never matches a
later process.

| variable | code |
|---|---|
| `status`, `claim`, `tries` | the task's upstream status, `current_run_id`, number of claims |
| `rec` | `StateDB.runs.status` of an attempt |
| `lease` | `StateDB.leases`, kind `worker` |
| `live` | processes in tmux panes |
| `used` | `meta["supervisor_replacements:<run>"]` |
| `run` | `hca_runs.state` |
| `board` | upstream's dispatch lock |
| `pc`, `snap`, `pass`, `reaping`, ... | the local variables of one `tick` |

| actions | code |
|---|---|
| `TickBegin`, `ReapRead`, `ReapRelease`, `BeginDispatch`, `SkipDispatch` | `tick`, `_statuses`, `_reconcile_leases`, `_active_wave_count`, `_dispatch_tick` |
| `SweepIdentity`, `SweepJudge`, `SweepSettle`, `SweepReclaim`, `SweepCharge`, `SweepClose`, `SweepDone` | `_reconcile_owned_worker_identities` |
| `Reserve`, `DispatchEnter`, `DispatchLeave` | `dispatch_tick`, `pre_reserve_ready`, `admit` |
| `DispatchClaim`, `DispatchReclaim` | upstream `dispatch_once` (external) |
| `LaunchRefused`, `Launch`, `LaunchFails`, `RecordRun`, `TakeLease` | `spawn_fn` |
| `ReadEvidence`, `CheckLive`, `ReapAtLast`, `Commit` | `_build_evidence`, `derive_final_state`, `_reconcile_from_evidence` |
| `Crash` | the controller is killed; a command launches another |
| `WorkerReports`, `WorkerExits` | a worker calls `kanban_complete` or `kanban_block`; its process ends |

Every database transaction, every signal and every spawn is a step of its own, except
that a row is settled and the leases of its task are released in one.
An observer is a `status` or `collect`: the same tick with `dispatch=False` in
another process, without the run lock.

Abstracted: role caps, memory, disk and backend health are one nondeterministic
choice in `Reserve` (any of them may hold a task back); the order in which
upstream picks among ready tasks is free; a worker's result is whether it is
done or blocked. Left out of this module: the foreground `execute` loop, strays
and the review gate (`ReviewLoop`), stop and respond (`RunLifecycle`), recover.

### RunLifecycle and the code

A process (`hca run`, the controller, each command) has a place `pc` and local
variables `frame`. A change of the run's state is a small program of its own,
because `set_state` and `_safe_set` read and write on different connections:
`SafeLook` (is there something to do?), `CheckTransition` (read and validate),
`WriteState`. `frame.todo` holds the changes a command still has to make,
`cont` and `raised` where it goes on when they are made or when one raises.

| variable | code |
|---|---|
| `state` | `hca_runs.state` |
| `task`, `worker` | the status of the run's task on the board; its worker process is alive and recorded |
| `question` | an open row of `hca_questions` for the task |
| `detached` | the `run.detached` event |
| `late` | the wall-time deadline has passed |
| `frame[p].seen`, `.was` | the evidence of a tick; the state `respond` read first |

| actions | code |
|---|---|
| `SafeLook`, `CheckTransition`, `WriteState` | `RunStore.set_state`, `FleetService._safe_set` |
| `Reconcile`, `Dispatch`, `Evidence`, `SyncQuestions`, `Derive` | `reconcile`, `_reconcile_projection`, `tick`, `_build_evidence`, `_sync_questions_from_evidence`, `derive_final_state`, `_reconcile_from_evidence` |
| `StartPlanning`, `Plan`, `PlanRejected`, `RunRaises`, `Fail` | `FleetService.run` up to the graph, and its `except` branch |
| `Start`, `RecordDetached` / `ExecuteTurn`, `ExecuteEnds` | the detached and the foreground branch: `start`, `execute` |
| `Ensure`, `Launch`, `LaunchRaises` | `_ensure_controller`, `launch_controller` |
| `Poll`, `Polled`, `Exit`, `Expire`, `GiveUp` | `run_controller`, `expire` |
| `Status`; `Respond`, `Release`, `Redispatch`, `Answer`, `Resume` | `status`; `respond` |
| `Stop`, `Halt`, `Terminate`, `TerminateUnsafe`, `Block` | `stop`, `stop_controller`, `_stop_owned_workers` |
| `WorkerReports`, `WorkerExits`, `DeadlinePasses`, `Crash` | a worker, the clock, a kill of the controller |

Abstracted: the board is one task and `done` means done, proven and, where
required, reviewed; what a tick does to many tasks is `WorkerDispatch`'s
subject, here it is `DispatchTick`. A launch is one step because the new
controller does nothing to the run before it has found its own identity file,
which the launcher writes last (`controller.py` 227-236). `hca collect` is a
status command without its last step, so observers stand for both. The planner
of the Kanban backend never asks for input, so planning ends in a graph, in a
rejection or in an exception.

### ControllerProcess and the code

| variable | code |
|---|---|
| `launchLock`, `runLock` | `<run>.launch.lock`, `<run>.lock`: `flock`s, which end with their process |
| `identity` | `<run>.pid.json`: the process whose PID and start ticks it holds |
| `place`, `pid`, `note`, `asked` | of a controller process: where it is, its PID, the identity it read back, SIGTERM noted |
| `at`, `child` | of a launcher: its step, what it started |
| `strangers` | PIDs that processes of somebody else have |
| `stopAt`, `aim`, `struck` | of a stop: its step, the identity it read, what its last signal reached |
| `over` | the run is in a state the controller leaves |

| actions | code |
|---|---|
| `LaunchLock`, `LauncherStep`, `LaunchFails` | `launch_controller` |
| `TakeRunLock`, `TurnedAway`, `SeeOwnName`, `GiveUpWaiting`, `Enter` | `run_controller` up to its loop |
| `LoopHead`, `Beat`, `ReadBack`, `WriteBack`, `Exit` | the loop and its `finally` |
| `StopTerm`, `StopSeen`, `StopKill` | `stop_controller` |
| `Die`, `StrangerComes`, `StrangerGoes`, `RunMoves` | kills, PIDs given away, the run's state |

Abstracted: what a turn of the loop does to the run, and the times: a poll may
see the process or not, a deadline may pass at any moment.

### StateStore and the code

A schema is the set of the steps whose tables and columns exist; a client opens
the database (`RunStore._init`, `StateDB._init`, `apply_migrations`) and then
gives one command. `marker` is `meta.schema_version`, `rows` the runs of
`hca_runs`, all with one idempotency key; `reached` and `snapshot` are what a
client has read and backed up. Each connection, each migration transaction and
each file copy is a step, and a client may die after any of them.

### Delegation, Admission and the code

A session is one attempt of a worker at its task. `workers` are its leases of
kind `worker`; `reserve` counts a task's anonymous subagent leases and `active`
holds those named after a child, as `on_pre_tool_call` and `on_subagent_start`
write them. `on_subagent_stop`, `on_session_end` and the fleet's
`release_leases_by_owner` are `ChildStops`, `SessionEnds` and `Settle`. A session
may die at any step and then none of its hooks runs.

An admitter (a controller's `pre_reserve_ready`, or the supervisor) goes through
the memory and the disk gate (`Look` reads the flag, `Judge` judges a probe and
writes it), counts the credits with the reservations it has (`ReserveSlot`), and
spawns. `Wait` is every other reason to end a wave. Pressures are `low`, `mid`,
`high` and `unknown`, by the two marks they are compared with. The same decision
of the supervisor looks at the drain file first.

### TaskGraph, ReviewLoop and the code

A task is a kind and a number. `DefaultPlan`, `Valid` and `Assignee` are
`default_planner`, `validate_task_graph` and `_nodes_to_children`; the driver plans
with them, releases the graph (`Release`), records the mapping (`RecordPlan`) and
then ticks.

| variable | code |
|---|---|
| `status`, `parents`, `verdict`, `root`, `stray` | the board; results of done reviews; the aggregation task; a task some worker created |
| `live` | tasks whose worker process is there |
| `children` | the mapping of the last `run.kanban_root` event |
| `handled`, `outcome` | what `run.review_rework`, `run.review_accepted` and `run.review_blocked` say |
| `full` | the run has 500 events, and later ones are not returned |
| `head`, `dirty`, `claimed` | a worktree's last commit, whether it has uncommitted changes, the commit a task reported |
| `pc`, `seen`, `about`, `judged` | the locals of a tick |

| actions | code |
|---|---|
| `Reject`, `Release`, `RecordPlan` | `plan` with its preflights, its release of the graph and its mapping |
| `NothingToDo`, `OpenGate`, `UnblockGate`, `ReblockGate`, `RecordOutcome` | `advance`, `_open_review_gate`, `_block_review_gate` |
| `CreateRework`, `CreateReview`, `LinkReview`, `RecordRoot`, `RecordRound` | a rework round, write by write |
| `Quarantine`, `DispatchSome`, `DispatchNone`, `WaveOver` | strays; a wave of `execute`, `start` or `tick` |
| `Close`, `Judge`, `Commit` | `_maybe_close_root`, `_build_evidence` with `validate_git_result`, `derive_final_state`, `_reconcile_from_evidence` |
| `Crash`, `Relaunch` | the controller is killed, and launched again |
| `WorkerDone`, `WorkerReports`, `WorkerExits`, `WorkerDies`, `WorkerExpands` | workers |

Abstracted: a worktree's history is linear, so "is an ancestor of its head" is a
comparison; a result is accepted, rejected or malformed; slots, leases and
replacement budgets are `WorkerDispatch`'s, a wave starts any admissible set. The
deadline of a run is in `RunLifecycle`.

## 3. Runs

| run | instance | question |
|---|---|---|
| `dispatch_wave` | one run, three tasks, two of them in a chain on one slot, wave 1, fair controller | does every live worker hold a credit, is the wave kept, does completion leave nothing behind, is a run whose work is done completed? |
| `dispatch_crash` | two tasks on one slot, the controller dies twice, anywhere | is a slot ever shared, is every replacement charged within the budget, does a dead worker's credit always come back while the run is active? |
| `dispatch_two_runs` | two runs whose tasks share a slot | is finished work kept, does the inductive invariant of the proofs hold? |
| `run_one_writer` | detached, no commands, a crash, launches that fail | does the run implement its state machine? |
| `run_stop` | detached, two stops, a crash | is a cancelled run quiet, wherever its controller was interrupted? |
| `run_foreground` | foreground, an answer and a stop at any moment | is stale evidence ever written as a completion? |
| `run_settles` | detached, a crash, repeated status, fair | does every run come to rest? |
| `controller` | three controller processes, two launchers, a stop, two PIDs, fair | is there one conductor, which a stop finds and signals alone, and is the run lock passed on? |
| `store` | three clients, any version to begin with, one after the other | do marker, schema and runs stay together through failures and crashes? |
| `admission` | a controller, the supervisor, two attempts at a task, two children | do the gates keep their hysteresis, workers and subagents their ceilings, and does every credit come back? |
| `review` | ten requests, three graphs of another planner, one fault, an observer, fair | is nothing final before the last review accepts, is the budget of reviews kept, does the run settle? |
| `review_status` | the same without faults | finding: a status command blocks a run that can go on |

**Bounds.** In dispatch `MaxTries` bounds the claims per task (an attempt and its
replacement), `MaxCrashes` the crashes of controllers, and `Tasks`, `Slots`,
`Runs` the instance. Two tasks are enough for every pairwise interaction the
code has (a task and its sibling on a slot, a task and its parent, tasks of two
runs), and the third of `dispatch_wave` lets two of them happen together; two
attempts are what it takes for a stale row or lease. In a run's life one command
of a kind is enough for a race with the controller and two for a race between
commands; commands repeat without bound and only the controller's crashes are
counted. Three controller processes are one that leaves, one that conducts and
one that is launched on top of them; two PIDs for the three and for strangers
mean that a PID is soon used again. A stranger comes only while a stop is under
way, one at a time: at other times its PID would only be a dead identity. Three
clients of the database are one that dies half-way, one that repairs, and one
that repeats the run command; each inserts at most one run.

`admission` has what its gates are about twice: two admitters, two attempts at
one task, two children for two places (`MaxAsk` bounds what one delegation asks
for). The same instance with the two sessions at two tasks, which then delegate at
the same time, was run too and passes (6.7 million states). `review` has every
way through planning: one reviewer or none, a fan-out that fits the task budget
and one that does not, no criteria, a project that is no repository, a gateway
that dispatches. `MaxFaults` is one crash of the driver or one death of a worker;
one worker of a run leaves a mess or misreports its commit; workers create a
stray task only in the requests that review always. In `store` and `review`
`Overlap` is FALSE: openers of the database, and ticks of the driver and the
observer, follow each other, the tick cut short by a crash included. What
happens otherwise is in section 5.

**Deadlock** is checked except in `controller`: dispatch may stop only when every
run is over and every worker gone (`Terminated`), a run's processes only when
each has returned (`Quiescent`), a review loop only when its driver has left. In
`controller` the system may stop when every process has had its turn, since each
controller process of the instance lives once.

**Fairness.** Dispatch: only the controller is fair. It is a loop
(`run_controller`) whose blocking calls have timeouts, and a command that finds
it dead launches it again (`_ensure_controller`). A run's life: a command that
has begun goes on, a status command is issued again and again (somebody, or a
cron job, looks at the run), and the deadline passes. Nothing is assumed of
workers, of answers or of stops: where a worker must have exited, the property
says so. Controllers: processes that run go on running; nobody has to launch, to
stop or to die. Review: the driver and the workers go on, which is what the
deadlines of both are for, and a dispatch that is possible again and again is
made at last (strong fairness): admission is not refused for ever. Settling is
promised only of runs that nobody disturbs; without that a crash need not be
followed by a relaunch.

**Finding.** `review_status` checks a sentence of the repository that the code
does not keep; `PROJECT.json` quotes it with its line. `advance` is part of every
tick, also of the one a status command makes. After a review that rejects it
stages the last rework; with that, the count of reviews has reached
`max_review_cycles`, and the evidence of the same tick, which counts again, takes
the gate for one that waits for nobody. It derives `blocked` for a run whose
rework is ready. The driver meets the same case when admission defers the rework.

## 4. Proofs

`WorkerDispatchProofs` proves for every set of runs, tasks, slots, observers and
controllers, every graph and every bound, from `FleetAssumption` and
`DispatchAssumption` (finitely many tasks, functions on the right domains, one
controller per run as the run lock ensures):

- `InvariantHolds`: `Spec => []DispatchInv`;
- `TypeCorrect`: `Spec => []DispatchTypeOK`;
- `NoDuplicateWorker`: `Spec => []OneWorkerPerSlot`;
- `FinishedWorkIsKept`: `Spec => DoneStaysDone`;
- `EveryReplacementIsCharged`: `Spec => []ReplacementsCharged`;

and under the hypothesis `Calm`

- `CreditIsHeld`, `WaveIsRespected` and `CompletionIsClean`
  (`LiveWorkerHoldsCredit`, `WaveRespected`, `CompletedRunIsClean`).

`NoDuplicateWorker` and `FinishedWorkIsKept` are not inductive. A slot is not shared because a spawn kills
what the pane held, and a task has one worker because the claim is upstream's,
made under its lock, with a fresh attempt number (`LockOK`, `FreshOK`). That a
finished task is not reset is the delicate part: `reclaim_task` would reset it,
and the sweep's look at the upstream status comes after its look at the process.
The invariant therefore says that between the two no other process of that task
exists (`SweepOK`, which rests on `RecordOK`: a running row is the row of the
only process its task can have), and so what was not finished then cannot become
finished before the reclaim (`UnfinishedOK`). `SnapOK` says that no reap writes
`running` into a row, without which `RecordOK` would not be preserved. One lemma
per action, each with one step per conjunct it can disturb.

The charge of a replacement and its launch are two steps, and other processes and
crashes come between. `EveryReplacementIsCharged` counts: the attempts of a run
that were settled as crashed and replaced, one charge each. `NewestOK` says that what
is swept or charged is the last attempt of its task that was launched, so an attempt
is charged before the next one starts. `ChargedOK` relates the counter to the
attempts: it covers those settled as crashed and those charged whose row is still to be
written (`Closing`), and leaves out only the last attempt of a task that was given up
when the budget was spent, because nothing can start that task again (`Dropped`). A
controller that dies before it writes the row leaves it running; then the earlier
crashed attempts of the task were replaced by this one, and they are covered
(`CrashCounted`). Only a controller that dies between the reclaim and the charge
hands out a replacement for free: its row is never settled as crashed (section 5).

`Calm` is: no crash of a controller, no status command that reaps beside it, and no
spawn into a slot that is still occupied. The last is said of the constants: no two
tasks share a slot, or there is one controller with wave 1. Each of the three is
needed (section 5); `dispatch_wave` is an instance, with a slot shared.
`CreditOK` follows a credit from the claim to the reap: a live worker has a running
row and a lease, or its controller is about to write them; a task in the hands of the
spawn or with a process is not handed out again (`Handed`); and the steps of a tick
take neither row nor credit from a live worker (`Spares`). `WaveOK` adds what the tick
has counted: the rows running now and the room it has computed never exceed the wave
(`WaveOf`, `Keeps`). `CleanOK` says that completion is derived after the last of the
run's rows has been settled, and that nothing can be claimed after it (`CleanOf`,
`CleanRun`, `HeldBy`, `Within`).

`RunLifecycleProofs` proves from `LifecycleAssumption` (the processes are
different ones) and for every set of commands and every bound:

- `LifecycleTypeCorrect`: `Spec => []LifecycleTypeOK`;
- `CompletionIsEarned`: `Spec => []CompletedIsDone`. The state is written long
  after the evidence was read, so the invariant (`ClaimsHold`) speaks of the
  process, not of the state: whoever has `completed` in hand, or evidence it
  would derive it from, has seen the task done and no worker, and that is a
  condition nobody can undo. A reclaim, a release and a block all ask for a
  task that is not done, and a worker is only started for a ready one;
- `UndisturbedRunFollowsMachine`: without commands `Spec => TableRespected`, the
  refinement of `RunMachine`. It would be false with commands (section 5). The
  invariant is `OneWriter`: until `hca run` is over there is no controller, and
  afterwards only the controller moves, so the state a transition was validated
  against is still the state when it is written (`Validated`);
- `CancellationIsQuiet`: `Spec => []CancelledRunIsQuiet` under `StopsOnly`: stops
  alone are issued, any number of them, once `hca run` is over; each part of the
  hypothesis is needed (section 5). Launches may fail, the controller may crash,
  the worker may survive its signals. The invariant (`CancelOK`) goes with the
  process again: a stop past the halt has no controller beside it, and with the
  run command over nobody is left who could launch one (`LaunchedOK`, `Steady`); it
  takes the worker out before it blocks the task, and whoever has `cancelled` in
  hand has nothing left to dispatch (`StopOK`).

Its lemmas are laid out in three layers: control flow (what `Goto`, `Perform`,
`Leave` and `Pop` do to the places and the hands of processes), then `Quiet`
(every step but the writes, the launch and the halt leaves the state alone and
does not bring its process to the write), then one case per remaining step.

`ControllerProcessProofs` proves for every number of controllers, launchers and
PIDs, from `ControllerAssumption` (`none` and `stranger` are nobody):

- `OneConductorAtATime`: `Spec => OneConductor`, the refinement of
  `SoleController`. The reason is the run lock: whoever is past it holds it;
- `ConductorFound`: `Spec => []ConductorIsNamed`;
- `LaunchesAreEffective`: `Spec => LaunchIsEffective`;
- `SignalsAreSafe`: `Spec => []SignalsHitTheNamed`: two live processes have two
  PIDs, and what was aimed at is verified to live before each signal.

The invariant relates the launch lock to the steps of launchers and the identity
file to the process that conducts. Where a PID on file was given to a new
controller (`reused`) or a launcher failed between start and naming (`botched`)
the file says nothing, and the two theorems about it say so.

`StateStoreProofs` proves for every set of clients:

- `MarkerIsBacked`: `Spec => []SchemaBacksMarker`, with any `Overlap`: a marker
  is written in the transaction of its step, and a snapshot is one read;
- `OpenedDatabaseIsCurrent`, `MigrationCanBeRepeated`, `KeyHasOneRun`
  (`OpenedIsCurrent`, `StaysMigratable`, `OneRunPerKey`), `NoRunIsLost` and
  `MarkerIsNeverReset`, under the hypothesis that openers do
  not overlap. The invariant says what the one who is opening may find: a
  snapshot is then never older than the runs in the file.

`AdmissionProofs` proves for every set of sessions, tasks, children and
admitters and for all limits, from `DelegationAssumption` and
`AdmissionAssumption`:

- `AdmissionTypesCorrect` (`AdmissionTypeOK`);
- `GatesKeepHysteresis` (`HysteresisKept`): with one admitter at a time the
  flag in the database is up for every gate that was crossed, and an admitter
  that is past a gate finds it not crossed (`GatesOK`);
- `WavesFitTheCeiling` (`CeilingKept`): an admitter asks for no more once it
  holds a wave, and what it holds it has counted (`CeilingOK`);
- `WorkerFitsItsBudget`, `SubagentsFitTheirBudget` (`WorkerWithinBudget`,
  `BudgetKept`, the latter while no two sessions race): the invariant
  (`BudgetsOK`) adds to the leases the children that are about to take one and
  what a session has still to reserve;
- `RunningChildKeepsLease`, `LeasesEndWithTheWorker` (`RunningChildIsCounted`,
  `NoCreditLeaks`): attempts at a task follow each other (`SessionsOK`), so one session at most answers for
  its leases (`LeasesOK`), and a child that starts or runs has a session that
  waits for it (`ChildrenOK`).

Credits are the cardinality of the set `Reservations` of a task and a number, as
the rows of the lease table are; `AddReservation`, `DropReservations` and
`TaskShare` say how reserving, dropping and looking at one task change it.


`TaskGraphProofs` proves about the operators of planning, for every graph and every
request:

- `BarrierIsSound`: what `Valid` accepts has no cycle. `_topo_order` takes nodes in
  rounds; a set of tasks that wait for each other is missed by each round;
- `FinalComesAfterChecks`: who works an accepted graph off in its order has verified
  or reworked something before the final task;
- `PlannerPassesBarrier`: `DefaultPlan` passes the barrier exactly if the task
  budget has room for one slice and what follows it. That this is the only way to
  be refused is what lets the review loop assume a plan it can finish.

The rounds and the ancestors are recursive functions. The library's induction
theorems cannot be used on them; `Induction` and `Iteration` at the head of the
module state induction over a set of numbers and the existence of an iterated
function, both from the well-foundedness of `<`, and everything else cites these.

`ReviewLoopProofs` proves from `ReviewAssumption` (numbers that are numbers, two
actors, and other planners' graphs without tasks of the kinds `review` and `gate`),
for all requests, graphs and faults, and with ticks that interleave at every write:

- `ReviewTypes` (`ReviewTypeOK`), `ReviewsStayInBudget` (`ReviewsBounded`) and
  `CompletedRunIsAccepted` (`CompletedIsAccepted`).

The last two need to know what a mapping of tasks can look like. A mapping is the
planned graph and whole rounds of rework and review (`Whole`); rounds are staged in
order, each because the review before it rejected (`StagingOK`), and a round is
named by its number, so a second actor that stages it finds it there. Tasks start
after their parents (`ParentsOK`), so all rounds before one that is staged are done,
and in one worktree one task works at a time: the commit of an honest task is the
head of its worktree or has been built on (`CommitsOK`). What a completed run
promises (`Finished`) cannot be undone, because no accepted run gets another round.

`ReviewGateProofs` goes on from there with what needs ticks that do not interleave:

- `FinalTaskWaits` (`FinalWaitsForAcceptance`) and `HonestWorkStays`
  (`HonestWorkIsNotFailed`), under the hypothesis `~Overlap`. The first is false
  without it (section 5); the second is proved with it because its argument uses
  that the mapping an evidence judges is the one on record;
- `BlockedForCause` (`ForegroundBlocksForCause`), without a hypothesis: it speaks of
  runs nobody interfered with, and an interleaved status counts as interference.

A tick may be cut short between any two writes, so what the board, the mapping and
the events say of one round may differ. `UnrecordedOK` says that at most the round
after the last recorded review is on the board and not in the mapping, and
`OrphanOK` that a recorded one may lack the event that asked for it; in both cases
nothing of it has been dispatched before a tick has dealt with it. `WatchOK` says
what the tick under way has read. `GateOK` then has three cases for a gate that is
not blocked: its review accepted; a tick is about to block it and there is nothing
else to do (`Holding`); or the run is blocked, and the gate waits for a review that
is never dispatched (`Stuck`), which is how the crash between the two events of a
round ends.

**Model-checked only.** The liveness properties (`DoneRunCompletes`,
`CreditsReturnedWhileActive`, `ActiveRunSettles`, `LockIsPassedOn`,
`OverRunIsLeft`, `RunSettles`): the prover has no fairness and no `ENABLED`.
`CheckingKeepsRunning` is the finding, and false. Every other property of a run is
a theorem. Recursive operators are out of the prover's reach; no module
uses them.

## 5. What holds on part of the system only, or not at all

The modules state these properties, or let them be stated, for every instance;
the instances named here break them. This is why the runs above are the ones
they are, and what a change of the code would have to mend. The properties that
no run keeps are at the end of `WorkerDispatch` and `RunLifecycle`.

| property | broken by | how |
|---|---|---|
| `CeilingKept` | two admitters at once; the controllers of two runs | both read the credits before either has inserted a lease |
| `HysteresisKept` | two admitters at once | each reads the flag, probes, and writes the flag; the one that probed earlier writes later |
| `BudgetKept` | two sessions that delegate at once | both read the budget before either has inserted its reservations; each worker's own budget is kept |
| `WaveRespected` | a crash of the controller, wave 1 | a worker that was spawned but not recorded and has reported is not counted |
| `LiveWorkerHoldsCredit` | any crash; an observer; a slot that is still occupied | a crash between spawn and lease; a status command that read the task's status before the spawn releases by prefix (`leases.py:8-10` promises otherwise); a launch into a slot whose worker has reported but not exited fails before it kills it, with the old row already superseded (another run, or wave 2 and two ready tasks on the slot) |
| every replacement is charged (`ReplacementsCharged` is about workers settled as crashed) | a crash of the controller | it dies between the reclaim and the charge: the row stays running, is settled some other way, and the replacement is free |
| `DeferralsStayReady` | wave 2, one slot still occupied | upstream is given a number, and claims the deferred task in place of the admitted one; `spawn_fn` refuses it and it is blocked |
| `CreditsReturned` | wave 2, fair controller | a sibling blocks the run; its controller stops before the other worker's credit is reaped |
| `TableRespected` | a status or a stop beside the controller | the check and the write of `set_state` are two connections (`run.py:330`); a run that is over is active again (`run.py:9-12`) |
| `StopNeverCompletes` | a stop beside the controller | the controller writes `completed` over `stopping` (`run.py:59` allows it; `docs/running-a-team.md:26-27` of the repository promises a cancelled run) |
| `CancelledRunIsQuiet` | `hca run` not yet over; a status command or an answer beside the stop | the run command is not stopped: it plans or dispatches after the stop; the status command launches a controller between the halt and the block; the answer releases the task the stop has blocked |
| `BlockedRunAdvances` | repeated status, fair | nothing leads from `blocked` to `completed` (`run.py:62`), though `service.py:476-477` says a later tick advances it |
| `AnswersDoNotRevive` | an answer and a stop | `respond` asks whether the question is open, not whether the run is |
| `AnsweredRunResumes` | an answer, fair | the question is stored before the state becomes `needs_input`: an answer in between finds another state and does not resume the run |
| `QuestionsMirrorBlocks` | an answer | evidence older than the answer stores the question again |
| `ActiveRunSettles` | an answer and nobody looking at the run | the answer makes the run active while its controller, which saw it waiting, is about to exit |
| `ConductorIsNamed` | a PID that is used again | a controller that was given the PID on file takes the name for its own (`controller.py:231` compares no ticks) |
| an effective launch | a controller about to leave | a launcher finds it alive and launches nothing; the next command does |
| `MarkerMovesForward`, `NoRunLost`, `OpenedIsCurrent`, `StaysMigratable` | `Overlap`: two openers of an old database | one fails on a column the other has added and puts its snapshot back over the other's runs and marker (`migrations.py:12`, `state.py:137`) |
| `OneRunPerKey` | `Overlap`: two retries at once | both look the key up before either inserts (`plugin_schemas.py:104` promises one run) |
| a drained fleet admits nothing | the controller of a run | only the supervisor looks at the drain file (`docs/deployment-guide.md:57`) |
| subagents count against the sequences | a delegation | admission counts subagents, delegation does not look at the sequences (`docs/subagent-policy.md:37`) |
| `CheckingKeepsRunning` | a status command | the finding; the driver's own tick does the same when admission defers the last rework, or when a review is accepted between `advance` and the evidence |
| `FinalWaitsForAcceptance` | `Overlap` | `_block_review_gate` unblocks the gate first: for a moment it is ready, and the other tick dispatches it |
| the mapping only grows | `Overlap` | a status command that read the mapping before a rework writes its own over it |
| a rejected round goes on | a crash of the driver | between `run.kanban_root` and `run.review_rework`: the next tick counts the new review, finds the budget spent, and holds the gate with the rework pending |
| an accepted run completes | 500 events | a later `run.kanban_root` or `run.review_accepted` is not returned (`run.py:451`), and the gate is not opened, or opened at every tick |
| honest work is not failed | a rework worker that dies over its changes | the task that implemented first is validated in the same worktree, which is dirty; the run fails before the retry |
| a foreground run ends settled | a review that is not accepted, while its worker still exits | `execute` leaves its loop on the outcome and derives `running`; nobody drives the run any more |
| a completed run has closed its root | a task that is done between `_maybe_close_root` and the evidence | the evidence completes the run, and no tick follows |
| a run with a foreign graph ends | a graph without a gate, reviewed | `advance` finds no gate and raises, at every tick |

Seen while modelling and outside what the modules distinguish: a dependency that
is listed twice makes `_topo_order` report a cycle; `max_tasks` binds planning
only, a rework goes beyond it; the barrier wants the final task behind
`verification` and `rework` nodes, not behind reviews (`decompose.py:17-18`); the
rework of a fan-out works in the last slice's workspace rather than in the
integration's, whose commit nobody validates.

## 6. Which hazard is watched by what

`PROJECT.json` lists the hazards at their lines. Interleavings and stale reads of
dispatch are `WorkerDispatch`'s, those of the run's state `RunLifecycle`'s, those
of processes and PIDs `ControllerProcess`'s; a tick cut short is `ReviewLoop`'s,
an opening cut short `StateStore`'s, counters and thresholds at their limits are
`Admission`'s. Four hazards have no property that holds: two of `recover`, one of
the supervisor and one of `hca down` (section 8); a fifth, the questions that
come back, is `QuestionsMirrorBlocks` above.

## 7. Plan

1. `OperatorCommands`: `recover` and a stop over many tasks, composed with the
   tick over `FleetState`.
2. What `Calm` excludes, one by one: which part of `CreditOK` survives a crash once
   the next tick has swept.
3. The composition of `ReviewLoop` with the deadline of `RunLifecycle`.

## 8. Not modelled, and why

- `recover`: it reads a running row, terminates its process and reclaims by task.
  The code does not refuse a row whose identity does not match (1712) and goes on
  to reclaim, so a row that is stale takes the attempt that replaced it with it,
  and its lease; a crash between the mark and the charge (1739-1760) makes the
  retry recover again. It needs the whole of `WorkerDispatch` and one more actor,
  and is left to the plan.
- A stop over many tasks: `RunLifecycle` has one.
- `supervisor.reconcile` (69-73) and `hca down --kill` (`cli.py` 315-319): the
  legacy fleet loop and its end, which write rows without the claims and credits
  that belong to them. Nothing else in the code reads those rows as theirs.
- A gateway that starts to dispatch while a run is on: every `dispatch_tick`
  looks again and refuses, the plan does so once.
- `workspaces.py`, `team.py`, `config.py`, profiles and presets: directories,
  YAML and text, written once before a run and read back as constants. Of a
  worktree `ReviewLoop` has the commits and whether it is clean, as a linear
  history: amended commits are not distinguished.
- `cli.py`, `plugin_tools.py`: parsing and rendering around the commands.
- `doctor.py`, `observe.py`, logs and benchmarks: they read.
- Worker argument building and prompts: their wording matters, their order does
  not. Role hints that no planner of the repository gives.
- Upstream Hermes: external; its claims, reclaims and unblocks are modelled from
  the calls this repository makes.
