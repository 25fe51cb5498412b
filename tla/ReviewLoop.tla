------------------------------ MODULE ReviewLoop ------------------------------
(* The review loop of one run: its task graph is planned and put on the board, a        *)
(* driver (the foreground run command, or the detached controller) and status commands  *)
(* tick over it, and every tick starts with advance, which opens the review gate, holds  *)
(* it, or stages a rework and another review.                                           *)
(*                                                                                      *)
(* A tick is cut at every write to the board and to the event log, since it can die      *)
(* between any two of them.  A worker that changes a project reports the commit it made; *)
(* the evidence checks that against the worktree.  What becomes of the leases and slots  *)
(* of workers is WorkerDispatch.                                                         *)
EXTENDS TaskGraph, RunStates

CONSTANTS Requests,        \* what may be asked for: see TaskGraph, and cycles, wave, detach,
                           \* strays: whether its workers create tasks of their own
          Injected,        \* graphs of other planners than default_planner
          Driver, Observer,
          MaxFaults,       \* bound: crashes of the driver, deaths of workers
          Overlap          \* may ticks of the two interleave?

ASSUME ReviewAssumption ==
    /\ Driver # Observer /\ MaxFaults \in Nat /\ Overlap \in BOOLEAN
    /\ \A req \in Requests : PlanRequest(req) /\ req.cycles \in Nat /\ req.wave \in Nat \ {0}
    /\ \A graph \in Injected :
           graph \in Graph /\ \A t \in Ids(graph) : Kind(t) \notin {"review", "gate"}

VARIABLES
    request, nodes,   \* what is asked for, and the graph planned for it
    status, parents,  \* of the tasks on the board
    verdict,          \* of the reviews that are done
    live,             \* tasks whose worker process is there
    stray,            \* a task that some worker created
    root,             \* the aggregation task
    children,         \* event kanban_root: the tasks of the run
    handled,          \* events review_accepted, _rework, _blocked: the reviews they name
    outcome,          \* open, or what review_accepted, review_blocked say
    full,             \* list_events has its 500 events: later ones are not seen
    state,            \* of the run
    pc, seen, about, judged,  \* of an actor: its step, the mapping it read, the review it
                              \* is at, what it made of the evidence
    head, dirty,      \* of a workspace: its last commit; those with uncommitted changes
    claimed,          \* of a code task that is done: the commit it reported, 0 for nothing
    sloppy,           \* some worker left a mess, or misreported
    failures, disturbed  \* somebody else had a hand in it: a fault, a status, full

board  == <<status, parents, verdict, live, stray, root>>
events == <<children, handled, outcome, full>>
asked  == <<request, nodes>>
git    == <<head, dirty, claimed, sloppy>>
faults == <<failures, disturbed>>
locals == <<pc, seen, about, judged>>
vars   == <<asked, git, board, events, state, locals, faults>>

Actors == {Driver, Observer}

Root == <<"root", 1>>
Gate == <<"gate", 1>>

Goto(a, step) == pc' = [pc EXCEPT ![a] = step]

\* What an actor holds goes with its tick.
Forget(a) ==
    /\ seen' = [seen EXCEPT ![a] = {}]
    /\ about' = [about EXCEPT ![a] = Root]
    /\ judged' = [judged EXCEPT ![a] = "running"]

Foreground == ~request.detach

\* Its workspaces are worktrees of a repository.
InGit == request.project = "git"
--------------------------------------------------------------------------------
(* The board, as src/ uses Hermes Kanban.                                           *)

\* recompute_ready
Promoted(st, par) ==
    [t \in DOMAIN st |-> IF st[t] = "todo" /\ \A u \in par[t] : st[u] = "done"
                         THEN "ready" ELSE st[t]]

With(f, x, v) == [y \in DOMAIN f \cup {x} |-> IF y = x THEN v ELSE f[y]]

\* create_task: with the idempotency key of one that is there it changes nothing.
Create(t, after) ==
    /\ parents' = IF t \in DOMAIN parents THEN parents ELSE With(parents, t, after)
    /\ status' = IF t \in DOMAIN status THEN status
                 ELSE Promoted(With(status, t, "todo"), parents')

\* unblock_task: back to where its parents put it.
Unblocked(t) == IF status[t] = "blocked" THEN [status EXCEPT ![t] = "todo"] ELSE status

Open(t) == status' = Promoted(Unblocked(t), parents)

DoneAt(S) == {t \in S : status[t] = "done"}

Done(t) ==
    /\ t \in live /\ status[t] = "running"
    /\ status' = [status EXCEPT ![t] = "done"]
    /\ UNCHANGED <<parents, live, stray, root>>

Verdicts == {"accept", "reject", "malformed"}

\* kanban_complete of a worker; its process is still there.
WorkerDone(t, v) ==
    /\ Kind(t) \notin CodeKinds /\ Done(t)
    /\ verdict' = IF Kind(t) \in ReviewKinds THEN With(verdict, t, v) ELSE verdict
    /\ UNCHANGED <<git, faults>>

\* A rework that was staged goes on in the workspace of what it reworks.
Workspace(t) == IF t \in Ids(nodes) THEN t ELSE Implementation(nodes)

\* What a worker that wrote code may report: its commit, an older one, or nothing.  It
\* may leave uncommitted changes in a worktree.  Bound: one worker of a run does so.
WorkerReports(t, age, clean) ==
    LET w == Workspace(t) IN
    /\ Kind(t) \in CodeKinds /\ Done(t)
    /\ head' = [head EXCEPT ![w] = @ + 1]
    /\ claimed' = With(claimed, t, CASE age = "new"  -> head[w] + 1
                                     [] age = "old"  -> head[w]
                                     [] age = "none" -> 0)
    /\ dirty' = IF clean THEN dirty \ {w} ELSE dirty \cup {w}
    /\ LET misreports == age # "new" \/ ~clean IN
       ~(sloppy /\ misreports) /\ sloppy' = (sloppy \/ misreports)
    /\ UNCHANGED <<verdict, faults>>

WorkerExits(t) ==
    /\ t \in live /\ status[t] # "running"
    /\ live' = live \ {t}
    /\ UNCHANGED <<git, status, parents, verdict, stray, root, faults>>

\* A worker dies over its task, perhaps in the middle of an edit.
WorkerDies(t) ==
    /\ failures < MaxFaults /\ t \in live /\ status[t] = "running"
    /\ live' = live \ {t}
    /\ dirty' \in {dirty} \cup IF InGit /\ Kind(t) \in CodeKinds
                               THEN {dirty \cup {Workspace(t)}} ELSE {}
    /\ sloppy' = (sloppy \/ dirty' # dirty)
    /\ failures' = failures + 1 /\ disturbed' = TRUE
    /\ UNCHANGED <<head, claimed, status, parents, verdict, stray, root>>

\* A worker creates a task of its own: it has upstream's tools.
WorkerExpands ==
    /\ request.strays /\ stray = "none"
    /\ stray' = "ready"
    /\ UNCHANGED <<git, status, parents, verdict, live, root, faults>>

Worker ==
    /\ \E t \in live :
           \/ \E v \in Verdicts : WorkerDone(t, v)
           \/ \E age \in {"new", "none"} \cup (IF InGit THEN {"old"} ELSE {}),
                 clean \in {TRUE, ~InGit} : WorkerReports(t, age, clean)
           \/ WorkerExits(t) \/ WorkerExpands
    /\ UNCHANGED <<asked, events, state, locals>>

Death ==
    /\ \E t \in live : WorkerDies(t)
    /\ UNCHANGED <<asked, events, state, locals>>
--------------------------------------------------------------------------------
NoTask == [t \in {} |-> "todo"]

Init ==
    /\ request \in Requests
    /\ nodes \in {DefaultPlan(request)}
                     \cup (IF ReviewRequired(request) THEN {} ELSE Injected)
    /\ status = NoTask /\ parents = NoTask /\ verdict = NoTask
    /\ live = {} /\ stray = "none" /\ root = "none"
    /\ head = [t \in {u \in Ids(nodes) : Kind(u) \in CodeKinds} |-> 1]
    /\ dirty = {} /\ claimed = [t \in {} |-> 0] /\ sloppy = FALSE
    /\ children = {} /\ handled = {} /\ outcome = "open" /\ full = FALSE
    /\ state = "planning"
    /\ pc = [a \in Actors |-> IF a = Driver THEN "plan" ELSE "idle"]
    /\ seen = [a \in Actors |-> {}]
    /\ about = [a \in Actors |-> Root]
    /\ judged = [a \in Actors |-> "running"]
    /\ failures = 0 /\ disturbed = FALSE

\* dispatcher_ownership: a gateway that is up and dispatches would take the tasks.
Conflict == request.gateway = "dispatching"

\* _workspace_for_spec: a project has to be a repository, so that its workers get worktrees.
Isolated == request.project # "directory"

Plannable == ~Conflict /\ Isolated /\ Valid(nodes, request.maxTasks)

\* A run that cannot be planned puts nothing on the board.
Reject ==
    /\ pc[Driver] = "plan" /\ ~Plannable
    /\ state' = SafeSet(state, "blocked")
    /\ Goto(Driver, "end")
    /\ UNCHANGED <<asked, git, board, events, seen, about, judged, faults>>

\* The graph goes in as todo, the gate is blocked before anything is promoted, and the
\* root is held: HCA completes it itself.
Release ==
    /\ pc[Driver] = "plan" /\ Plannable
    /\ parents' = [t \in Ids(nodes) |-> Deps(nodes, t)]
    /\ status' = Promoted([t \in Ids(nodes) |-> IF Kind(t) = "gate" THEN "blocked" ELSE "todo"],
                          parents')
    /\ root' = "blocked"
    /\ Goto(Driver, "record")
    /\ UNCHANGED <<asked, git, verdict, live, stray, events, state, seen, about, judged, faults>>

\* The mapping is recorded; a detached run submits its first wave at once.
RecordPlan ==
    /\ pc[Driver] = "record"
    /\ children' = Ids(nodes)
    /\ seen' = [seen EXCEPT ![Driver] = Ids(nodes)]
    /\ IF Foreground THEN Goto(Driver, "head") /\ UNCHANGED state
       ELSE Goto(Driver, "start") /\ state' = SafeSet(state, "running")
    /\ UNCHANGED <<asked, git, board, handled, outcome, full, about, judged, faults>>
--------------------------------------------------------------------------------
(* A tick: advance.                                                                 *)

InTick == {"advance", "accepted", "hold", "held", "review", "link", "root", "round",
           "quarantine", "wave", "close", "judge", "commit"}

MayBegin(a) == Overlap \/ \A b \in Actors \ {a} : pc[b] \notin InTick

\* The controller leaves a run that is over; execute does not look.
Begin(a) ==
    /\ pc[a] = IF a = Driver THEN "head" ELSE "idle"
    /\ MayBegin(a)
    /\ IF a = Driver THEN Foreground \/ state \notin TerminalState ELSE state \notin FinalState
    /\ seen' = [seen EXCEPT ![a] = children]
    /\ IF children = {}
       THEN Goto(a, "commit") /\ judged' = [judged EXCEPT ![a] = "blocked"]
       ELSE Goto(a, "advance") /\ UNCHANGED judged
    /\ disturbed' = (disturbed \/ a = Observer)
    /\ UNCHANGED <<asked, git, board, events, state, about, failures>>

Leave ==
    /\ pc[Driver] = "head" /\ ~Foreground /\ state \in TerminalState
    /\ Goto(Driver, "end")
    /\ UNCHANGED <<asked, git, board, events, state, seen, about, judged, faults>>

DoneReviews(S) == {t \in DoneAt(S) : Kind(t) \in ReviewKinds}
ReviewCount(S) == Cardinality({t \in S : Kind(t) = "review"})
Latest(S)      == CHOOSE t \in DoneReviews(S) : \A u \in DoneReviews(S) : u[2] <= t[2]

\* There is no review to act on.
Settled(a) ==
    \/ ~ReviewRequired(request) \/ outcome # "open"
    \/ DoneReviews(seen[a]) # {} => Latest(seen[a]) \in handled

\* (Mutant: anything that is not a rejection will do.)
NotRejected(v) == v # "reject"
Accepting(v)   == v = "accept"

\* (Mutant: the budget is one review more.)
ExhaustedLate(a) ==
    \/ verdict[Latest(seen[a])] # "reject" \/ ReviewCount(seen[a]) > request.cycles
Exhausted(a) ==
    \/ verdict[Latest(seen[a])] # "reject" \/ ReviewCount(seen[a]) >= request.cycles

SelfReview ==
    Assignee(nodes, request.fleet, Implementation(nodes)) = ReviewerProfile(request.fleet)

NothingToDo(a) ==
    /\ pc[a] = "advance" /\ Settled(a)
    /\ Goto(a, "quarantine")
    /\ UNCHANGED <<asked, git, board, events, state, seen, about, judged, faults>>

OpenGate(a) ==
    /\ pc[a] = "advance" /\ ~Settled(a) /\ Accepting(verdict[Latest(seen[a])])
    /\ Open(Gate)
    /\ about' = [about EXCEPT ![a] = Latest(seen[a])]
    /\ Goto(a, "accepted")
    /\ UNCHANGED <<asked, git, parents, verdict, live, stray, root, events, state, seen, judged,
                   faults>>

\* _block_review_gate records a new reason: it unblocks the gate ...
UnblockGate(a) ==
    /\ pc[a] = "advance" /\ ~Settled(a) /\ ~Accepting(verdict[Latest(seen[a])])
    /\ Exhausted(a) \/ SelfReview
    /\ Open(Gate)
    /\ about' = [about EXCEPT ![a] = Latest(seen[a])]
    /\ Goto(a, "hold")
    /\ UNCHANGED <<asked, git, parents, verdict, live, stray, root, events, state, seen, judged,
                   faults>>

\* ... and blocks it again, if that made it ready.
ReblockGate(a) ==
    /\ pc[a] = "hold"
    /\ status' = IF status[Gate] \in {"ready", "running"}
                 THEN [status EXCEPT ![Gate] = "blocked"] ELSE status
    /\ Goto(a, "held")
    /\ UNCHANGED <<asked, git, parents, verdict, live, stray, root, events, state, seen, about,
                   judged, faults>>

RecordOutcome(a) ==
    /\ pc[a] \in {"accepted", "held"}
    /\ IF full THEN UNCHANGED <<handled, outcome>>
       ELSE /\ handled' = handled \cup {about[a]}
            /\ outcome' = IF pc[a] = "held" THEN "blocked" ELSE "accepted"
    /\ Goto(a, "quarantine")
    /\ UNCHANGED <<asked, git, board, children, full, state, seen, about, judged, faults>>
--------------------------------------------------------------------------------
(* A tick: a rework.  Its tasks are named after the review that asked for them, as their *)
(* idempotency keys are.                                                                *)

ReworkOf(r) == <<"rework", r[2] + 1>>
ReviewOf(r) == <<"review", r[2] + 1>>

CreateRework(a) ==
    /\ pc[a] = "advance" /\ ~Settled(a) /\ ~Accepting(verdict[Latest(seen[a])])
    /\ ~Exhausted(a) /\ ~SelfReview
    /\ Create(ReworkOf(Latest(seen[a])), {Latest(seen[a])})
    /\ about' = [about EXCEPT ![a] = Latest(seen[a])]
    /\ Goto(a, "review")
    /\ UNCHANGED <<asked, git, verdict, live, stray, root, events, state, seen, judged, faults>>

CreateReview(a) ==
    /\ pc[a] = "review"
    /\ Create(ReviewOf(about[a]), {ReworkOf(about[a])})
    /\ Goto(a, "link")
    /\ UNCHANGED <<asked, git, verdict, live, stray, root, events, state, seen, about, judged,
                   faults>>

\* link_tasks puts the new review before the gate; then recompute_ready.
LinkReview(a) ==
    /\ pc[a] = "link"
    /\ parents' = [parents EXCEPT ![Gate] = @ \cup {ReviewOf(about[a])}]
    /\ status' = Promoted(status, parents')
    /\ Goto(a, "root")
    /\ UNCHANGED <<asked, git, verdict, live, stray, root, events, state, seen, about, judged,
                   faults>>

\* The new mapping is the old one the tick has read, and the two tasks.
RecordRoot(a) ==
    /\ pc[a] = "root"
    /\ seen' = [seen EXCEPT ![a] = @ \cup {ReworkOf(about[a]), ReviewOf(about[a])}]
    /\ children' = IF full THEN children ELSE seen'[a]
    /\ Goto(a, "round")
    /\ UNCHANGED <<asked, git, board, handled, outcome, full, state, about, judged, faults>>

\* (Mutant: the review it asked for is marked, not the one that asked.)
RecordRoundNew(a) ==
    /\ pc[a] = "round"
    /\ handled' = IF full THEN handled ELSE handled \cup {ReviewOf(about[a])}
    /\ Goto(a, "quarantine")
    /\ UNCHANGED <<asked, git, board, children, outcome, full, state, seen, about, judged, faults>>

RecordRound(a) ==
    /\ pc[a] = "round"
    /\ handled' = IF full THEN handled ELSE handled \cup {about[a]}
    /\ Goto(a, "quarantine")
    /\ UNCHANGED <<asked, git, board, children, outcome, full, state, seen, about, judged, faults>>

Advance(a) ==
    \/ NothingToDo(a) \/ OpenGate(a) \/ UnblockGate(a) \/ ReblockGate(a) \/ RecordOutcome(a)
    \/ CreateRework(a) \/ CreateReview(a) \/ LinkReview(a) \/ RecordRoot(a) \/ RecordRound(a)
--------------------------------------------------------------------------------
(* A tick: dispatch.                                                                *)

\* A task outside the graph is made undispatchable, if a tick comes by in time.
Quarantine(a) ==
    /\ pc[a] = "quarantine"
    /\ stray' = IF stray = "ready" THEN "blocked" ELSE stray
    /\ Goto(a, IF a = Driver THEN "wave" ELSE "close")
    /\ UNCHANGED <<asked, git, status, parents, verdict, live, root, events, state, seen, about,
                   judged, faults>>

AllTerminal(S) == \A t \in S : status[t] \in {"done", "blocked"}

\* (Mutant: a worker less is taken for the end.)
IdleIsDone(S) == S \cap live = {}
AllDone(S)    == AllTerminal(S) /\ S \cap live = {}

\* What the driver does not dispatch after: execute leaves its loop, a tick goes on.
NoMoreWork ==
    \/ outcome = "blocked"
    \/ IF Foreground THEN AllDone(seen[Driver]) ELSE AllTerminal(seen[Driver])

WaveOver ==
    /\ pc[Driver] = "wave" /\ NoMoreWork
    /\ Goto(Driver, "close")
    /\ UNCHANGED <<asked, git, board, events, state, seen, about, judged, faults>>

\* execute goes round again; a tick goes on to the evidence; start leaves it to the
\* controller.
Dispatched == Goto(Driver, IF pc[Driver] = "wave" /\ ~Foreground THEN "close" ELSE "head")

AtWave == pc[Driver] = "start" \/ (pc[Driver] = "wave" /\ ~NoMoreWork)

Of(t) == Assignee(nodes, request.fleet, t)

Places == request.wave - Cardinality(seen[Driver] \cap live)

\* The sweep of a tick that has places: tasks of dead workers are ready again.
Swept ==
    Promoted([t \in DOMAIN status |->
                  IF Places > 0 /\ t \in seen[Driver] \ live /\ status[t] = "running"
                  THEN "ready" ELSE status[t]], parents)

\* One wave: ready tasks of the mapping, one to a profile, within what is left of it.
DispatchSome(S) ==
    /\ AtWave
    /\ S # {} /\ S \subseteq {t \in seen[Driver] : Swept[t] = "ready"}
    /\ Cardinality(S) <= Places
    /\ \A t \in S : \A u \in (S \ {t}) \cup live : Of(t) # Of(u)
    /\ status' = [t \in DOMAIN status |-> IF t \in S THEN "running" ELSE Swept[t]]
    /\ live' = live \cup S
    /\ Dispatched
    /\ UNCHANGED <<asked, git, parents, verdict, stray, root, events, state, seen, about, judged,
                   faults>>

\* Nothing is admitted.  A stray that upstream claims instead is refused a worker, and
\* blocked.
DispatchNone ==
    /\ AtWave
    /\ status' = Swept
    /\ stray' \in {stray, IF stray = "ready" THEN "blocked" ELSE stray}
    /\ Dispatched
    /\ UNCHANGED <<asked, git, parents, verdict, live, root, events, state, seen, about, judged,
                   faults>>
--------------------------------------------------------------------------------
(* A tick: evidence.                                                                *)

\* _maybe_close_root
Close(a) ==
    /\ pc[a] = "close"
    /\ root' = IF \A t \in seen[a] : status[t] = "done" THEN "done" ELSE root
    /\ Goto(a, "judge")
    /\ UNCHANGED <<asked, git, status, parents, verdict, live, stray, events, state, seen, about,
                   judged, faults>>

\* A gate that only waits for a review does not block the run.
GateHeld(S) ==
    \/ DoneReviews(S) = {}
    \/ verdict[Latest(S)] = "reject" /\ ReviewCount(S) < request.cycles

Blocked(S) ==
    {t \in S : status[t] = "blocked" /\ ~(Kind(t) = "gate" /\ GateHeld(S))}

\* A later task of the run works on in the workspace of t.
WorkedOn(S, t) ==
    \E u \in S : /\ Kind(u) = "rework" /\ Workspace(u) = Workspace(t)
                 /\ Kind(t) = "rework" => t[2] < u[2]

\* (Mutant: a commit that a rework built on has to be the last one still.)
AtHead(S, t) ==
    /\ claimed[t] # 0 /\ Workspace(t) \notin dirty
    /\ claimed[t] = head[Workspace(t)]

\* validate_git_result
Committed(S, t) ==
    /\ claimed[t] # 0 /\ Workspace(t) \notin dirty
    /\ claimed[t] = head[Workspace(t)] \/ WorkedOn(S, t)

Failed(S) == {t \in S : InGit /\ t \in DOMAIN claimed /\ ~Committed(S, t)}
Empty(S)  == {t \in S : t \in DOMAIN claimed /\ claimed[t] = 0}

\* (Mutant: any review that accepted will do, whoever wrote it.)
AcceptedOnce(S) ==
    ReviewRequired(request) => \E t \in DoneReviews(S) : verdict[t] = "accept"

\* The reviewer implemented nothing of it.
Independent == ReviewerProfile(request.fleet) \notin Implementers(nodes, request.fleet)

Accepted(S) ==
    ReviewRequired(request)
        => DoneReviews(S) # {} /\ verdict[Latest(S)] = "accept" /\ Independent

\* derive_final_state; execute gives a reason when it left work unfinished.
Derived(a) ==
    LET S == seen[a] IN
    IF S \cap live # {} THEN "running"
    ELSE IF Failed(S) # {} THEN "failed"
    ELSE IF Blocked(S) # {} THEN "blocked"
    ELSE IF ~AllTerminal(S) THEN IF a = Driver /\ Foreground THEN "blocked" ELSE "running"
    ELSE IF Empty(S) = {} /\ Accepted(S) THEN "completed" ELSE "blocked"

Judge(a) ==
    /\ pc[a] = "judge"
    /\ judged' = [judged EXCEPT ![a] = Derived(a)]
    /\ Goto(a, "commit")
    /\ UNCHANGED <<asked, git, board, events, state, seen, about, faults>>

\* _reconcile_from_evidence.  Its event may be the one that fills list_events.
Commit(a) ==
    LET executing == IF state = "planning" THEN "running" ELSE state
        verified  == IF judged[a] = "completed" /\ \E t \in seen[a] : Kind(t) \in ReviewKinds
                     THEN SafeSet(executing, "review") ELSE executing
    IN  /\ pc[a] = "commit"
        /\ state' = SafeSet(verified, judged[a])
        /\ full' \in {full, TRUE}
        /\ disturbed' = (disturbed \/ full')
        /\ Goto(a, CASE a = Observer -> "idle"
                     [] a = Driver   -> IF Foreground THEN "end" ELSE "head")
        /\ Forget(a)
        /\ UNCHANGED <<asked, git, board, children, handled, outcome, failures>>
--------------------------------------------------------------------------------
\* The driver is killed.  Only a controller is started again.
Crash ==
    /\ failures < MaxFaults /\ ~Foreground /\ pc[Driver] \notin {"plan", "end"}
    /\ failures' = failures + 1 /\ disturbed' = TRUE
    /\ Goto(Driver, "end") /\ Forget(Driver)
    /\ UNCHANGED <<asked, git, board, events, state>>

\* _ensure_controller of a status, or of a resume.
Relaunch ==
    /\ ~Foreground /\ pc[Driver] = "end" /\ state \notin TerminalState
    /\ Goto(Driver, "head")
    /\ UNCHANGED <<asked, git, board, events, state, seen, about, judged, faults>>

Tick(a) == Begin(a) \/ Advance(a) \/ Quarantine(a) \/ Close(a) \/ Judge(a) \/ Commit(a)

Plan == Reject \/ Release \/ RecordPlan

Drive ==
    \/ Plan \/ Tick(Driver) \/ Leave \/ WaveOver \/ DispatchNone
    \/ \E S \in SUBSET seen[Driver] : DispatchSome(S)

Terminated == pc[Driver] = "end" /\ pc[Observer] = "idle" /\ live = {} /\ UNCHANGED vars

Next == Drive \/ Tick(Observer) \/ Worker \/ Death \/ Crash \/ Relaunch \/ Terminated

Spec == Init /\ [][Next]_vars

Ended == state \in TerminalState \/ pc[Driver] = "end"

Created == DOMAIN status

\* The review that was asked for last, whether the mapping has it or not.
LastReview ==
    CHOOSE t \in Created : /\ Kind(t) = "review"
                           /\ \A u \in Created : Kind(u) = "review" => u[2] <= t[2]

LastAccepted == LastReview \in DOMAIN verdict /\ verdict[LastReview] = "accept"

Reviewed == ReviewRequired(request) /\ Created # {}

--------------------------------------------------------------------------------
(* Properties.                                                                      *)

\* Every variable has the values the code gives it; events name tasks that are there, and
\* what is kept of a task is kept of those that are done.
ReviewTypeOK ==
    /\ DOMAIN parents = Created /\ live \subseteq Created
    /\ status \in [Created -> {"todo", "ready", "running", "blocked", "done"}]
    /\ \A t \in Created : parents[t] \subseteq Created \ {t}
    /\ verdict \in [{t \in DoneAt(Created) : Kind(t) \in ReviewKinds} -> Verdicts]
    /\ DOMAIN claimed = {t \in DoneAt(Created) : Kind(t) \in CodeKinds}
    /\ \A t \in DOMAIN claimed : claimed[t] \in 0 .. head[Workspace(t)]
    /\ dirty \subseteq DOMAIN head /\ sloppy \in BOOLEAN
    /\ children \subseteq Created /\ handled \subseteq DOMAIN verdict
    /\ outcome \in {"open", "accepted", "blocked"} /\ full \in BOOLEAN
    /\ stray \in {"none", "ready", "blocked"} /\ root \in {"none", "blocked", "done"}
    /\ state \in RunState
    /\ pc \in [Actors -> InTick \cup {"idle", "plan", "record", "start", "head", "end"}]
    /\ \A a \in Actors : seen[a] \subseteq Created

\* The final task of a reviewed run is not ready, let alone run, before the review that was
\* asked for last has accepted: whatever ticks, crashes and replays of a half-staged rework
\* came before, no earlier verdict opens the way.
FinalWaitsForAcceptance ==
    Reviewed => (status[<<"final", 1>>] \in {"ready", "running", "done"} => LastAccepted)

\* A completed run has no task left on the board, mapped or not; its last review accepted
\* and was not by an implementer; and every worktree of it is clean, at a commit that one
\* of its tasks reported.
CompletedIsAccepted ==
    state = "completed"
        => /\ \A t \in Created : status[t] = "done"
           /\ Reviewed => LastAccepted /\ Independent
           /\ InGit => /\ dirty = {}
                       /\ \A w \in DOMAIN head : \E t \in DOMAIN claimed :
                              Workspace(t) = w /\ claimed[t] = head[w]

\* A run fails only over a worker's mess or misreport: honest work stays good when a
\* rework commits on top of it.
HonestWorkIsNotFailed == state = "failed" => sloppy

\* However often staging a rework is cut short and done again, a run has no more reviews
\* than its budget, max_review_cycles.
ReviewsBounded == Reviewed => ReviewCount(Created) <= Max({1, request.cycles})

Unplannable ==
    \/ Conflict \/ ~Isolated
    \/ IF nodes = DefaultPlan(request)
       THEN request.maxTasks < (IF ReviewRequired(request) THEN 4 ELSE 2)
       ELSE ~Valid(nodes, request.maxTasks)

\* A foreground run nobody interfered with is blocked only if it could not be planned, a
\* review ended it, it can never have an independent one, or a worker reported nothing:
\* the foreground command does not give up on a graph that can go on.
ForegroundBlocksForCause ==
    Foreground /\ ~disturbed /\ state = "blocked"
        => \/ outcome = "blocked" \/ Unplannable \/ sloppy
           \/ ReviewRequired(request) /\ ~Independent

\* Checking a detached run does not block it while it has a task that can be dispatched
\* (the comment in derive_final_state, evidence.py:210).
CheckingKeepsRunning ==
    [][(pc[Observer] = "commit" /\ ~Foreground /\ state = "running" /\ state' = "blocked")
           => (\A t \in seen[Observer] : status[t] # "ready")]_vars

\* A run nobody interferes with settles: its driver leaves it, or its state is terminal,
\* after no more than the rounds of review it may have.
RunSettles == ~disturbed ~> (Ended \/ disturbed)

\* The driver and the workers go on, and admission is not refused for ever.
FairSpec ==
    /\ Spec
    /\ WF_vars(Drive) /\ WF_vars(Worker)
    /\ SF_vars(\E S \in SUBSET seen[Driver] : DispatchSome(S))
================================================================================
