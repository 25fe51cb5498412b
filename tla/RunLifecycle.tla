---------------------------- MODULE RunLifecycle ----------------------------
(***************************************************************************)
(* One high-level run and every process that writes its state: the run     *)
(* command that creates it, its detached controller, and the status,       *)
(* respond and stop commands an operator issues meanwhile (service.py,     *)
(* controller.py, run.py).                                                 *)
(*                                                                         *)
(* RunStore.set_state reads the state on one connection, validates the     *)
(* transition, and writes on another; nothing locks a run between the two. *)
(* So each command is a program whose state changes are three steps: look, *)
(* check, write.  The Kanban board is one task and its worker here; how a  *)
(* tick dispatches and reaps many of them is WorkerDispatch's subject.     *)
(***************************************************************************)
EXTENDS RunStates, Naturals, Sequences

CONSTANTS
    Creator,      \* the process of `hca run`
    Controller,   \* the run's controller process, relaunched under one identity
    Observers,    \* processes of `hca run-status`, and of `hca collect`, which
                  \* is the same command without the last step
    Responders,   \* processes of `hca respond`
    Stoppers,     \* processes of `hca stop`
    Detach,       \* hca run --detach
    FailClosed,   \* spec.input_policy = "fail_closed"
    Patient,      \* the operator waits for `hca run` to return
    LaunchFails,  \* starting a controller process may fail
    MaxCrashes    \* bound on controller crashes

Clients == Observers \cup Responders \cup Stoppers
Actors == {Creator, Controller} \cup Clients

ASSUME LifecycleAssumption ==
    /\ Creator # Controller
    /\ {Creator, Controller} \cap Clients = {}
    /\ Observers \cap Responders = {}
    /\ (Observers \cup Responders) \cap Stoppers = {}
    /\ {Detach, FailClosed, Patient, LaunchFails} \subseteq BOOLEAN
    /\ MaxCrashes \in Nat

VARIABLES
    state,        \* hca_runs.state
    task,         \* the status of the run's task on the board, with block_kind
                  \* needs_input told from other blocks; "done" is done, proven
                  \* and reviewed; "none": no graph yet
    worker,       \* a worker process of the task is alive and recorded
    question,     \* an open question about the task is stored
    detached,     \* the run.detached event is stored
    late,         \* the run's wall-time deadline has passed
    crashes,      \* controller crashes so far
    pc,           \* where each process is
    frame         \* its local variables

boardVars == <<task, worker>>
vars == <<state, task, worker, question, detached, late, crashes, pc, frame>>

TaskStatus == {"none", "ready", "running", "needs_input", "blocked", "failed", "done"}

\* The state changes a process has in front of it: set_state raises when the
\* transition is illegal, _safe_set does nothing.
Set(st) == [to |-> st, safe |-> FALSE]
Try(st) == [to |-> st, safe |-> TRUE]
Change == [to : RunState, safe : BOOLEAN]

\* Where a process is: between changes of the state, or making one.
Label == {"idle", "off", "end", "create", "plan", "start", "execute", "detach",
          "ensure", "launch", "poll", "polled", "exit", "expire", "giveup",
          "reconcile", "dispatch", "evidence", "sync", "derive", "release",
          "redispatch", "answer", "resume", "halt", "terminate", "block", "fail"}

Setting == {"set", "check", "write"}

PC == Label \cup Setting

Seen == [task : TaskStatus, worker : BOOLEAN]

\* todo: changes still to make; cont, raised: where to go when they are made or
\* when one raises; seen: the evidence; was: the state a respond began with.
Frame == [todo : Seq(Change), cont : Label, raised : Label, seen : Seen, was : RunState]

Blank == [todo |-> <<>>, cont |-> "idle", raised |-> "idle",
          seen |-> [task |-> "none", worker |-> FALSE], was |-> "queued"]

LifecycleTypeOK ==
    /\ state \in RunState
    /\ task \in TaskStatus
    /\ worker \in BOOLEAN
    /\ question \in BOOLEAN
    /\ detached \in BOOLEAN
    /\ late \in BOOLEAN
    /\ crashes \in Nat
    /\ pc \in [Actors -> PC]
    /\ frame \in [Actors -> Frame]

\* create_run has inserted the run.
Init ==
    /\ state = "queued"
    /\ task = "none"
    /\ worker = FALSE
    /\ question = FALSE
    /\ detached = FALSE
    /\ late = FALSE
    /\ crashes = 0
    /\ pc = [p \in Actors |-> IF p = Creator THEN "create"
                              ELSE IF p = Controller THEN "off" ELSE "idle"]
    /\ frame = [p \in Actors |-> Blank]

-----------------------------------------------------------------------------
(* Control flow                                                            *)

Goto(p, l) == pc' = [pc EXCEPT ![p] = l] /\ UNCHANGED frame

\* Where a process is when its command is over.
EndOf(p) == IF p = Creator THEN "end" ELSE IF p = Controller THEN "exit" ELSE "idle"

Return(p) ==
    /\ pc' = [pc EXCEPT ![p] = EndOf(p)]
    /\ frame' = [frame EXCEPT ![p] = Blank]

\* Make the changes Q, then go on at l, or at r when one of them raises.
Perform(p, Q, l, r) ==
    /\ pc' = [pc EXCEPT ![p] = "set"]
    /\ frame' = [frame EXCEPT ![p].todo = Q, ![p].cont = l, ![p].raised = r]

-----------------------------------------------------------------------------
(* RunStore.set_state and FleetService._safe_set                           *)

\* Leave set_state for l.
Leave(p, l) ==
    /\ pc' = [pc EXCEPT ![p] = l]
    /\ frame' = [frame EXCEPT ![p] =
                    IF l = EndOf(p) THEN Blank ELSE [Blank EXCEPT !.was = frame[p].was]]

\* The change at hand has been made, or was skipped.
Pop(p) ==
    IF Len(frame[p].todo) = 1
    THEN Leave(p, frame[p].cont)
    ELSE /\ frame' = [frame EXCEPT ![p].todo = Tail(@)]
         /\ pc' = [pc EXCEPT ![p] = "set"]

\* _safe_set looks first: nothing to do, or not permitted.
SafeLook(p) ==
    LET c == Head(frame[p].todo) IN
    /\ pc[p] = "set"
    /\ c.safe
    /\ IF state = c.to \/ ~CanTransition(state, c.to)
       THEN Pop(p)
       ELSE Goto(p, "check")
    /\ UNCHANGED <<state, boardVars, question, detached, late, crashes>>

\* set_state reads the state and validates the transition ...
CheckTransition(p) ==
    LET c == Head(frame[p].todo) IN
    /\ pc[p] = "check" \/ (pc[p] = "set" /\ ~c.safe)
    /\ IF CanTransition(state, c.to)
       THEN Goto(p, "write")
       ELSE Leave(p, frame[p].raised)
    /\ UNCHANGED <<state, boardVars, question, detached, late, crashes>>

\* ... and writes on another connection, whatever the state is by then.
WriteState(p) ==
    /\ pc[p] = "write"
    /\ state' = Head(frame[p].todo).to
    /\ Pop(p)
    /\ UNCHANGED <<boardVars, question, detached, late, crashes>>

SetState(p) == SafeLook(p) \/ CheckTransition(p) \/ WriteState(p)

-----------------------------------------------------------------------------
(* Ticks: dispatch, evidence, commit                                       *)

\* One dispatch_tick over a board of one task: a ready task gets a worker
\* unless admission defers it, a dead worker's task is handed back or, when the
\* replacement budget is used up, blocked.
DispatchTick ==
    \/ UNCHANGED boardVars
    \/ task = "ready" /\ task' = "running" /\ worker' = TRUE
    \/ task = "running" /\ ~worker /\ task' \in {"ready", "blocked"} /\ UNCHANGED worker

Dispatch(p) ==
    /\ pc[p] = "dispatch"
    /\ DispatchTick
    /\ Goto(p, "evidence")
    /\ UNCHANGED <<state, question, detached, late, crashes>>

\* _build_evidence
Evidence(p) ==
    /\ pc[p] = "evidence"
    /\ frame' = [frame EXCEPT ![p].seen = [task |-> task, worker |-> worker]]
    /\ pc' = [pc EXCEPT ![p] = "sync"]
    /\ UNCHANGED <<state, boardVars, question, detached, late, crashes>>

\* _sync_questions_from_evidence: one open question per task that needs input.
SyncQuestions(p) ==
    /\ pc[p] = "sync"
    /\ question' = (question \/ (frame[p].seen.task = "needs_input" /\ ~FailClosed))
    /\ Goto(p, "derive")
    /\ UNCHANGED <<state, boardVars, detached, late, crashes>>

\* derive_final_state.  (Mutants: a live worker does not hold the run back; the
\* task's status is taken for the run's.)
DerivedFromBoard(e) ==
    CASE e.task \in {"none", "blocked"} -> "blocked"
      [] e.task \in {"ready", "running"} -> "running"
      [] e.task = "needs_input" -> IF FailClosed THEN "failed" ELSE "needs_input"
      [] e.task = "failed" -> "failed"
      [] e.task = "done" -> "completed"

DerivedVerbatim(e) == IF e.worker THEN "running" ELSE e.task

Derived(e) == IF e.worker THEN "running" ELSE DerivedFromBoard(e)

\* A foreground run that ends with unfinished work is blocked, live worker or
\* not: its observation window is exhausted.
Verdict(p) ==
    IF p = Creator /\ frame[p].seen.task \in {"ready", "running"}
    THEN "blocked" ELSE Derived(frame[p].seen)

\* A run with an independent reviewer passes through review.
Changes(v) ==
    IF v = "completed" THEN {<<Try("completed")>>, <<Try("review"), Try("completed")>>}
    ELSE {<<Try(v)>>}

\* What a command does once the run reflects the evidence, and when
\* set_state raised on the way.
AfterCommit(p) ==
    IF p = Controller THEN "polled" ELSE IF p = Creator THEN "end" ELSE "ensure"
CommitRaised(p) ==
    IF p = Controller THEN "polled" ELSE IF p = Creator THEN "fail" ELSE "idle"

\* _reconcile_from_evidence: a run still planning is running first.
Derive(p) ==
    /\ pc[p] = "derive"
    /\ \E Q \in Changes(Verdict(p)) :
          Perform(p, IF state = "planning" THEN <<Set("running")>> \o Q ELSE Q,
                  AfterCommit(p), CommitRaised(p))
    /\ UNCHANGED <<state, boardVars, question, detached, late, crashes>>

Tick(p) == Dispatch(p) \/ Evidence(p) \/ SyncQuestions(p) \/ Derive(p)

-----------------------------------------------------------------------------
(* hca run                                                                 *)

StartPlanning(p) ==
    /\ pc[p] = "create"
    /\ Perform(p, <<Set("planning")>>, "plan", "fail")
    /\ UNCHANGED <<state, boardVars, question, detached, late, crashes>>

\* The run's one graph is recorded: detach, or execute in the foreground.
Plan(p) ==
    /\ pc[p] = "plan"
    /\ task = "none"
    /\ task' = "ready"
    /\ IF Detach
       THEN Perform(p, <<Set("running")>>, "start", "fail")
       ELSE Goto(p, "execute")
    /\ UNCHANGED <<state, worker, question, detached, late, crashes>>

\* No dispatchable graph.
PlanRejected(p) ==
    /\ pc[p] = "plan"
    /\ IF state = "blocked" THEN Return(p)
       ELSE Perform(p, <<Set("blocked")>>, "end", "fail")
    /\ UNCHANGED <<state, boardVars, question, detached, late, crashes>>

\* Planning, or start(), raised.
RunRaises(p) ==
    /\ pc[p] \in {"plan", "start"}
    /\ Goto(p, "fail")
    /\ UNCHANGED <<state, boardVars, question, detached, late, crashes>>

Fail(p) ==
    /\ pc[p] = "fail"
    /\ Perform(p, <<Set("failed")>>, "end", "end")
    /\ UNCHANGED <<state, boardVars, question, detached, late, crashes>>

\* start(): the first wave ...
Start(p) ==
    /\ pc[p] = "start"
    /\ DispatchTick
    /\ Goto(p, "detach")
    /\ UNCHANGED <<state, question, detached, late, crashes>>

\* ... then run.detached, and only then the controller.
RecordDetached(p) ==
    /\ pc[p] = "detach"
    /\ detached' = TRUE
    /\ Goto(p, "ensure")
    /\ UNCHANGED <<state, boardVars, question, late, crashes>>

\* execute(): one turn of the loop, which looks at the board only.
ExecuteTurn(p) ==
    /\ pc[p] = "execute"
    /\ DispatchTick
    /\ UNCHANGED <<state, question, detached, late, crashes, pc, frame>>

\* The loop ends when the work is settled and no worker is left, or when the
\* observation window is exhausted.
ExecuteEnds(p) ==
    /\ pc[p] = "execute"
    /\ Goto(p, "evidence")
    /\ UNCHANGED <<state, boardVars, question, detached, late, crashes>>

Run(p) ==
    \/ StartPlanning(p)
    \/ Plan(p)
    \/ PlanRejected(p)
    \/ RunRaises(p)
    \/ Fail(p)
    \/ Start(p)
    \/ RecordDetached(p)
    \/ ExecuteTurn(p)
    \/ ExecuteEnds(p)

-----------------------------------------------------------------------------
(* _ensure_controller and the controller                                   *)

NoController == FinalState \cup {"needs_input", "stopping"}

Ensure(p) ==
    /\ pc[p] = "ensure"
    /\ IF detached /\ state \notin NoController THEN Goto(p, "launch") ELSE Return(p)
    /\ UNCHANGED <<state, boardVars, question, detached, late, crashes>>

\* launch_controller, under the launch lock: a controller that is still there,
\* be it about to exit, is not started a second time.  The command is over with
\* that.  (Mutant: hca run goes on to execute the run itself.)
ExecuteToo(p) == IF p = Creator THEN "execute" ELSE EndOf(p)
AfterLaunch(p) == EndOf(p)
Launch(p) ==
    /\ pc[p] = "launch"
    /\ pc' = [pc EXCEPT ![p] = AfterLaunch(p),
                        ![Controller] = IF @ = "off" THEN "poll" ELSE @]
    /\ frame' = [frame EXCEPT ![p] = Blank]
    /\ UNCHANGED <<state, boardVars, question, detached, late, crashes>>

\* The process cannot be started.  run and respond fail closed: they stop the
\* workers and block the run.
LaunchRaises(p) ==
    /\ pc[p] = "launch"
    /\ LaunchFails
    /\ pc[Controller] = "off"
    /\ IF p \in Observers THEN Return(p) ELSE Goto(p, "terminate")
    /\ UNCHANGED <<state, boardVars, question, detached, late, crashes>>

\* After an iteration: stop, clean up at the deadline, or go on.  (Mutant: the
\* deadline is not looked at.)
PollAgain(p) == "poll"
NextRound(p) == IF late THEN "expire" ELSE "poll"

\* What ends the polling loop.
Stops == TerminalState \cup {"needs_input", "stopping"}

Poll(p) ==
    /\ pc[p] = "poll"
    /\ IF state \in Stops THEN Return(p) ELSE Goto(p, "reconcile")
    /\ UNCHANGED <<state, boardVars, question, detached, late, crashes>>

Polled(p) ==
    /\ pc[p] = "polled"
    /\ IF state \in Stops THEN Return(p) ELSE Goto(p, NextRound(p))
    /\ UNCHANGED <<state, boardVars, question, detached, late, crashes>>

Exit(p) ==
    /\ pc[p] = "exit"
    /\ Goto(p, "off")
    /\ UNCHANGED <<state, boardVars, question, detached, late, crashes>>

\* expire(): the deadline is not a cancellation, the run fails.
Expire(p) ==
    /\ pc[p] = "expire"
    /\ IF state \in FinalState THEN Return(p)
       ELSE Perform(p, <<Set("stopping")>>, "terminate", "giveup")
    /\ UNCHANGED <<state, boardVars, question, detached, late, crashes>>

\* The except branch of expire().
GiveUp(p) ==
    /\ pc[p] = "giveup"
    /\ Perform(p, <<Set("blocked")>>, "exit", "exit")
    /\ UNCHANGED <<state, boardVars, question, detached, late, crashes>>

\* reconcile() and _reconcile_projection(): a finished run is left alone; only
\* a projection does not dispatch.
Reconcile(p) ==
    /\ pc[p] = "reconcile"
    /\ Goto(p, IF state \in FinalState THEN AfterCommit(p)
               ELSE IF p \in Observers THEN "evidence" ELSE "dispatch")
    /\ UNCHANGED <<state, boardVars, question, detached, late, crashes>>

Control(p) == Poll(p) \/ Polled(p) \/ Exit(p) \/ Expire(p) \/ GiveUp(p)

-----------------------------------------------------------------------------
(* hca status, respond and stop                                            *)

MayBegin(p) == pc[p] = "idle" /\ (Patient => pc[Creator] = "end")

Status(p) ==
    /\ p \in Observers
    /\ MayBegin(p)
    /\ Goto(p, "reconcile")
    /\ UNCHANGED <<state, boardVars, question, detached, late, crashes>>

\* respond() asks that the question is open, not what became of the run.
Respond(p) ==
    /\ p \in Responders
    /\ MayBegin(p)
    /\ question
    /\ frame' = [frame EXCEPT ![p].was = state]
    /\ pc' = [pc EXCEPT ![p] = "release"]
    /\ UNCHANGED <<state, boardVars, question, detached, late, crashes>>

\* unblock_task releases any blocked task, and refuses any other.
Release(p) ==
    /\ pc[p] = "release"
    /\ IF task \in {"needs_input", "blocked"}
       THEN task' = "ready" /\ Goto(p, "redispatch")
       ELSE UNCHANGED task /\ Return(p)
    /\ UNCHANGED <<state, worker, question, detached, late, crashes>>

\* The released task is dispatched at once.
Redispatch(p) ==
    /\ pc[p] = "redispatch"
    /\ DispatchTick
    /\ Goto(p, "answer")
    /\ UNCHANGED <<state, question, detached, late, crashes>>

\* answer_question
Answer(p) ==
    /\ pc[p] = "answer"
    /\ question' = FALSE
    /\ IF question THEN Goto(p, "resume") ELSE Return(p)
    /\ UNCHANGED <<state, boardVars, detached, late, crashes>>

\* The run was waiting for this answer: it runs again.
Resume(p) ==
    /\ pc[p] = "resume"
    /\ IF frame[p].was = "needs_input" /\ ~question
       THEN Perform(p, <<Set("running")>>, "reconcile", "idle")
       ELSE Goto(p, "reconcile")
    /\ UNCHANGED <<state, boardVars, question, detached, late, crashes>>

\* stop(): the run is marked first, so that no controller is launched again.
Stop(p) ==
    /\ p \in Stoppers
    /\ MayBegin(p)
    /\ state \notin FinalState
    /\ Perform(p, <<Set("stopping")>>, "halt", "idle")
    /\ UNCHANGED <<state, boardVars, question, detached, late, crashes>>

\* stop_controller returns when the controller is gone, wherever it was.
\* (Mutant: it is only signalled.)
SignalController(p) == Goto(p, "terminate")
StopController(p) ==
    /\ pc' = [pc EXCEPT ![p] = "terminate", ![Controller] = "off"]
    /\ frame' = [frame EXCEPT ![Controller] = Blank]

Halt(p) ==
    /\ pc[p] = "halt"
    /\ IF detached THEN StopController(p) ELSE Goto(p, "terminate")
    /\ UNCHANGED <<state, boardVars, question, detached, late, crashes>>

-----------------------------------------------------------------------------
(* _stop_owned_workers: stop, the deadline, and a launch that failed       *)

Cleaned(p) ==
    IF p \in Stoppers THEN Set("cancelled")
    ELSE IF p = Controller THEN Set("failed") ELSE Try("blocked")

NotCleaned(p) ==
    IF p \in Stoppers \cup {Controller} THEN Set("blocked") ELSE Try("blocked")

WhenRaised(p) ==
    IF p = Controller THEN "giveup" ELSE IF p = Creator THEN "fail" ELSE "idle"

\* A failure to record that too ends a controller.
WhenNotCleaned(p) == IF p = Controller THEN "exit" ELSE WhenRaised(p)

\* No graph, no worker: nothing to terminate.
Terminate(p) ==
    /\ pc[p] = "terminate"
    /\ worker' = FALSE
    /\ IF task = "none"
       THEN Perform(p, <<Cleaned(p)>>, EndOf(p), WhenRaised(p))
       ELSE Goto(p, "block")
    /\ UNCHANGED <<state, task, question, detached, late, crashes>>

\* The worker's identity cannot be verified, or it survives the signals: its
\* task keeps its claim.
TerminateUnsafe(p) ==
    /\ pc[p] = "terminate"
    /\ worker
    /\ Perform(p, <<NotCleaned(p)>>, EndOf(p), WhenNotCleaned(p))
    /\ UNCHANGED <<state, boardVars, question, detached, late, crashes>>

\* What could still be dispatched is blocked.  (Mutant: only what was running.)
ClaimedWork == {"running"}
Dispatchable == {"ready", "running"}
Block(p) ==
    /\ pc[p] = "block"
    /\ task' = IF task \in Dispatchable THEN "blocked" ELSE task
    /\ Perform(p, <<Cleaned(p)>>, EndOf(p), WhenRaised(p))
    /\ UNCHANGED <<state, worker, question, detached, late, crashes>>

CleanUp(p) == Terminate(p) \/ TerminateUnsafe(p) \/ Block(p)

-----------------------------------------------------------------------------
(* The surroundings                                                        *)

\* The worker reports to the board, and lives on for a while.
WorkerReports ==
    /\ worker
    /\ task = "running"
    /\ task' \in {"needs_input", "blocked", "failed", "done"}
    /\ UNCHANGED worker

\* The worker's process ends: it had reported, or it crashed.
WorkerExits ==
    /\ worker
    /\ worker' = FALSE
    /\ UNCHANGED task

WorkerStep ==
    /\ WorkerReports \/ WorkerExits
    /\ UNCHANGED <<state, question, detached, late, crashes, pc, frame>>

DeadlinePasses ==
    /\ ~late
    /\ late' = TRUE
    /\ UNCHANGED <<state, boardVars, question, detached, crashes, pc, frame>>

\* The controller is killed.
Crash ==
    /\ pc[Controller] # "off"
    /\ crashes < MaxCrashes
    /\ crashes' = crashes + 1
    /\ pc' = [pc EXCEPT ![Controller] = "off"]
    /\ frame' = [frame EXCEPT ![Controller] = Blank]
    /\ UNCHANGED <<state, boardVars, question, detached, late>>

\* Every process has returned and no worker is left.
Quiescent ==
    /\ pc[Creator] = "end"
    /\ pc[Controller] = "off"
    /\ \A p \in Clients : pc[p] = "idle"
    /\ ~worker
    /\ UNCHANGED vars

\* What a process does once its command has begun.
Proceed(p) ==
    \/ SetState(p)
    \/ Tick(p)
    \/ Run(p)
    \/ Ensure(p) \/ Launch(p) \/ LaunchRaises(p)
    \/ Control(p)
    \/ Reconcile(p)
    \/ Release(p) \/ Redispatch(p) \/ Answer(p) \/ Resume(p)
    \/ Halt(p)
    \/ CleanUp(p)

Begin(p) == Status(p) \/ Respond(p) \/ Stop(p)

Next ==
    \/ \E p \in Actors : Proceed(p) \/ Begin(p)
    \/ WorkerStep
    \/ DeadlinePasses
    \/ Crash
    \/ Quiescent

Spec == Init /\ [][Next]_vars

\* A command once begun goes on, a status command is issued again and again,
\* and the deadline passes.
FairSpec ==
    /\ Spec
    /\ \A p \in Actors : WF_vars(Proceed(p))
    /\ \A p \in Observers : WF_vars(Status(p))
    /\ WF_vars(DeadlinePasses)

-----------------------------------------------------------------------------
(* Properties                                                              *)

\* Only the transitions of the table happen, so a finished run is never
\* reopened: set_state validates every change it makes (run.py).
Machine == INSTANCE RunMachine
TableRespected == Machine!Spec

\* A run is completed only when its work is done and no worker is left, by
\* whichever of the concurrent ticks, stops and answers the state was written
\* (_reconcile_from_evidence, derive_final_state).
CompletedIsDone == state = "completed" => task = "done" /\ ~worker

\* A cancelled run has no worker and nothing that could be dispatched again:
\* cancellation is not fabricated (stop, cancel, _stop_owned_workers).
CancelledRunIsQuiet == state = "cancelled" => ~worker /\ task \notin Dispatchable

\* An active run comes to an end, waits for input or is being stopped: some
\* controller polls it until then, whatever raced with the last one's exit, and
\* at the deadline it is cleaned up (run_controller, _ensure_controller, expire).
ActiveRunSettles == state \notin Stops ~> state \in Stops

-----------------------------------------------------------------------------
(* What the code is meant to do and does not: no run keeps checking these,  *)
(* the README says how each fails.                                          *)

\* A stop is never turned into a completion (stop).
StopNeverCompletes == [][state = "stopping" => state' # "completed"]_vars

\* An answer does not revive a run that is over: no task of it is released and
\* dispatched (respond).
AnswersDoNotRevive ==
    \A p \in Responders : pc[p] = "redispatch" => frame[p].was \notin FinalState

\* A blocked run advances when the board later satisfies the evidence gate
\* (_reconcile_projection).
BlockedRunAdvances ==
    (state = "blocked" /\ task = "done" /\ ~worker) ~> state # "blocked"

\* A run whose input was answered does not go on waiting for it
\* (_sync_questions_from_evidence, respond).
AnsweredRunResumes ==
    (state = "needs_input" /\ ~question) ~> (state # "needs_input" \/ question)

\* Once the answers given are recorded, an open question mirrors a task that
\* waits for input, so a completed run has none (_sync_questions_from_evidence).
QuestionsMirrorBlocks ==
    state = "completed" /\ (\A p \in Responders : pc[p] = "idle") => ~question
=============================================================================
