--------------------------- MODULE ReviewLoopProofs ---------------------------
(* Proofs about ReviewLoop, for all requests and graphs, and however the ticks of  *)
(* two actors interleave: its types, the budget of its reviews, and what holds of  *)
(* a completed run.                                                                *)
(*                                                                                 *)
(* None of these is inductive alone.  A run may end only because its last review   *)
(* accepted, and that means something only because rounds are staged one after the *)
(* other (StagingOK), each task starts after its parents (ParentsOK), so that only *)
(* one task works in a worktree at a time and its commit is what the next builds   *)
(* on (CommitsOK).  Base is the conjunction; ReviewGateProofs continues from it    *)
(* with what needs ticks that do not interleave.                                   *)
EXTENDS ReviewLoop, TaskGraphProofs

--------------------------------------------------------------------------------
(* Names, and the inductive invariant.                                           *)

Review(k) == <<"review", k>>
Rework(k) == <<"rework", k>>
Final     == <<"final", 1>>
Reviewing == ReviewRequired(request)

\* The reviews among S are the first so many.
Numbered(S) ==
    /\ ReviewCount(S) \in Nat
    /\ {t \in S : Kind(t) = "review"} = {Review(k) : k \in 1 .. ReviewCount(S)}

Later == 2 .. request.cycles

\* A mapping of the run: nothing, or its graph and whole rounds.
Whole(S) ==
    /\ S # {} => Ids(nodes) \subseteq S
    /\ Reviewing => /\ S # {} => Numbered(S)
                    /\ \A k \in Later : Rework(k) \in S <=> Review(k) \in S

Mapping(S) == S \subseteq Created /\ Whole(S)

\* The tasks of S that work in a worktree.
Code(S) == {t \in S : Kind(t) \in CodeKinds}

\* The default planner makes the graph of a reviewed run; what is not of the graph is a
\* task of a later round.
GraphOK ==
    /\ request \in Requests /\ nodes \in Graph
    /\ Reviewing => nodes = DefaultPlan(request)
    /\ ~Reviewing => \A t \in Ids(nodes) : Kind(t) \notin {"review", "gate"}
    /\ Created # {} => Valid(nodes, request.maxTasks) /\ Ids(nodes) \subseteq Created
    /\ Created \subseteq Ids(nodes) \cup IF Reviewing THEN {Rework(k) : k \in Later} \cup {Review(k) : k \in Later} ELSE {}
    /\ head \in [Code(Ids(nodes)) -> Nat \ {0}]

\* Where a tick stages a round, and where it is at a review at all.
Asks == {"review", "link", "root", "round"}
Handling == {"accepted", "hold", "held"} \cup Asks

\* An actor that has a mapping, and one that is at a review of it.
HandlingOK(a) ==
    /\ pc[a] \in InTick \ {"commit"} => seen[a] # {}
    /\ pc[a] \in Handling =>
          /\ Reviewing
          /\ \E k \in 1 .. IF request.cycles > 1 THEN request.cycles ELSE 1 : about[a] = Review(k)
          /\ about[a] \in seen[a] \cap DOMAIN verdict
          /\ pc[a] = "accepted" <=> verdict[about[a]] = "accept"
    /\ pc[a] \in Asks => /\ verdict[about[a]] = "reject" /\ ~SelfReview
                         /\ about[a][2] + 1 \in Later
                         /\ ReworkOf(about[a]) \in Created
    /\ pc[a] \in Asks \ {"review"} => ReviewOf(about[a]) \in Created

\* Rounds are staged in order, each because the review before it rejected.
StagingOK ==
    /\ Reviewing /\ Created # {} => Numbered(Created)
    /\ Reviewing => \A k \in Later :
          /\ Review(k) \in Created => Rework(k) \in Created
          /\ Rework(k) \in Created => /\ Review(k - 1) \in DOMAIN verdict
                                      /\ verdict[Review(k - 1)] = "reject" /\ ~SelfReview
    /\ Mapping(children) /\ \A a \in Actors : Mapping(seen[a]) /\ HandlingOK(a)

\* Not started.
Waiting == {"todo", "ready"}

\* Until the first wave nothing has run, and a mapping is recorded before anything does.
FreshOK ==
    /\ children = {} \/ pc[Driver] = "start" =>
          /\ \A t \in Created : status[t] \in Waiting \cup {"blocked"}
          /\ live = {} /\ Created \subseteq Ids(nodes) /\ outcome = "open"
    /\ pc[Driver] = "start" => seen[Driver] = children /\ children # {}
    /\ pc[Driver] \in {"plan", "record"} => children = {}
    /\ pc[Driver] = "record" => Created # {}
    /\ pc[Driver] = "plan" => Created = {}
    /\ live # {} => children # {}
    /\ \A a \in Actors : seen[a] # {} => children # {}

\* Tasks have the parents they were planned with, and start after them.
ParentsOK ==
    /\ \A t \in Created \cap Ids(nodes) : t # Gate => parents[t] = Deps(nodes, t)
    /\ Reviewing /\ Created # {} => \A u \in parents[Gate] : Kind(u) = "review"
    /\ Reviewing => \A k \in Later : /\ Rework(k) \in Created => parents[Rework(k)] = {Review(k - 1)}
                                     /\ Review(k) \in Created => parents[Review(k)] = {Rework(k)}
    /\ \A t \in Created : t # Gate =>
            /\ status[t] # "blocked"
            /\ status[t] # "todo" => \A u \in parents[t] : status[u] = "done"

\* A later rework has committed in the worktree that t works in.
Superseded(t) ==
    \E u \in DOMAIN claimed : /\ Kind(u) = "rework" /\ Workspace(u) = Workspace(t)
                              /\ Kind(t) = "rework" => t[2] < u[2]

\* Honest workers leave nothing behind, and what they committed is the head, or built on.
CommitsOK ==
    ~sloppy => /\ dirty = {}
               /\ \A t \in DOMAIN claimed : /\ claimed[t] # 0
                                            /\ claimed[t] = head[Workspace(t)] \/ Superseded(t)

\* What a completed run promises.
Finished ==
    /\ Created # {}
    /\ \A t \in Created : status[t] = "done"
    /\ Reviewed => LastAccepted /\ Independent
    /\ InGit => /\ dirty = {}
                /\ \A w \in DOMAIN head : \E t \in DOMAIN claimed :
                       Workspace(t) = w /\ claimed[t] = head[w]

CompletedOK ==
    /\ \A a \in Actors : pc[a] = "commit" /\ judged[a] = "completed" => Finished
    /\ state = "completed" => Finished


--------------------------------------------------------------------------------
(* States, numbers, and the graph of a reviewed run.                               *)

LEMMA SafeSetStays == \A s, d : SafeSet(s, d) \in {s, d}
BY DEF SafeSet

LEMMA MaxOfNumbers ==
  ASSUME NEW n \in Nat, NEW S \in SUBSET (1 .. n), S # {}
  PROVE  Max(S) \in S /\ \A x \in S : x <= Max(S)
<1> DEFINE HasMax(T) == \E x \in T : \A y \in T : x >= y
           G == {m \in Nat : \A T \in SUBSET (1 .. m) : T # {} => HasMax(T)}
<1>1. 0 \in G
  <2>1. 1 .. 0 = {} OBVIOUS
  <2> QED BY <2>1
<1>2. ASSUME NEW m \in Nat, m \in G PROVE m + 1 \in G
  <2> SUFFICES ASSUME NEW T \in SUBSET (1 .. m + 1), T # {} PROVE HasMax(T) BY <1>2
  <2>1. CASE m + 1 \in T BY <2>1
  <2>2. CASE m + 1 \notin T
    <3>1. T \in SUBSET (1 .. m) BY <2>2
    <3> QED BY <1>2, <3>1
  <2> QED BY <2>1, <2>2
<1>3. \A m \in Nat : m \in G
  <2> HIDE DEF G
  <2> QED BY <1>1, <1>2, Induction
<1>4. HasMax(S) BY <1>3
<1>5. Max(S) = CHOOSE x \in S : \A y \in S : x >= y BY DEF Max
<1> QED BY <1>4, <1>5

\* The reviews of S are the first n: then there are n.
LEMMA CountReviews ==
  ASSUME NEW S, NEW n \in Nat, {t \in S : Kind(t) = "review"} = {Review(k) : k \in 1 .. n}
  PROVE  ReviewCount(S) = n /\ Numbered(S)
<1> DEFINE f == [k \in 1 .. n |-> Review(k)]
           R == {Review(k) : k \in 1 .. n}
<1>1. IsFiniteSet(1 .. n) /\ Cardinality(1 .. n) = n BY FS_Interval
<1>2. f \in Bijection(1 .. n, R)
  BY DEF Bijection, Injection, Surjection, IsInjective, Review
<1>3. Cardinality(R) = n BY <1>1, <1>2, FS_Bijection DEF ExistsBijection
<1> QED BY <1>3 DEF ReviewCount, Numbered

\* What the default planner makes for a run that is reviewed.
LEMMA ReviewedGraph ==
  ASSUME request \in Requests, Reviewing, nodes = DefaultPlan(request)
  PROVE  /\ nodes \in Graph
         /\ Works(request) \cup {Review(1), Gate, Final} \subseteq Ids(nodes)
         /\ \A t \in Ids(nodes) : t \in Works(request) \cup {<<"integration", 1>>, Review(1), Gate, Final}
         /\ <<"work", 1>> \in Works(request)
         /\ \A t \in Works(request) : Kind(t) = "work" /\ Deps(nodes, t) = {}
         /\ <<"integration", 1>> \in Ids(nodes) => Deps(nodes, <<"integration", 1>>) = Works(request)
         /\ \/ Deps(nodes, Review(1)) = {<<"integration", 1>>} /\ <<"integration", 1>> \in Ids(nodes)
            \/ Deps(nodes, Review(1)) = {<<"work", 1>>} /\ Works(request) = {<<"work", 1>>}
         /\ Deps(nodes, Gate) = {Review(1)}
         /\ Deps(nodes, Final) = {Gate}
<1>1. PlanRequest(request) BY ReviewAssumption
<1>2. Slices(request) \in Nat \ {0} BY <1>1, SlicesBounded
<1>3. <<"work", 1>> \in Works(request) /\ \A t \in Works(request) : Kind(t) = "work"
  BY <1>2 DEF Works, Kind
<1>4. ~Parallel(request) => Works(request) = {<<"work", 1>>} BY DEF Works, Slices
<1> DEFINE plan == DefaultPlan(request)
           join == IF Parallel(request) THEN {<<"integration", 1>>} ELSE {}
<1>5. /\ plan \in Graph
      /\ Ids(plan) = Works(request) \cup join \cup {<<"review", 1>>, <<"gate", 1>>}
                        \cup {<<"final", 1>>}
      /\ \A t \in Works(request) : Deps(plan, t) = {}
      /\ \A t \in join : Deps(plan, t) = Works(request)
      /\ Deps(plan, <<"review", 1>>) = {Implemented(request)}
      /\ Deps(plan, <<"gate", 1>>) = {<<"review", 1>>}
      /\ Deps(plan, <<"final", 1>>) = {<<"gate", 1>>}
  BY <1>1, PlanShape DEF Reviewing
<1>6. <<"integration", 1>> \notin Works(request) BY <1>3 DEF Kind
<1>7. <<"integration", 1>> \in Ids(plan) => Parallel(request)
  BY <1>5, <1>6
<1> HIDE DEF plan
<1>8. nodes = plan BY DEF plan
<1> QED BY <1>3, <1>4, <1>5, <1>7, <1>8 DEF Review, Gate, Final, Implemented

\* A staged rework has a workspace: that of the last slice.
LEMMA ImplementationWrites ==
  ASSUME request \in Requests, Reviewing, nodes = DefaultPlan(request)
  PROVE  Implementation(nodes) \in Works(request)
<1> DEFINE at == {i \in DOMAIN nodes : Kind(nodes[i].id) \in CodeKinds}
<1>1. nodes \in Graph /\ <<"work", 1>> \in Ids(nodes) BY ReviewedGraph
<1>2. at # {} BY <1>1 DEF Ids, Kind, CodeKinds
<1>3. at \in SUBSET (1 .. Len(nodes)) /\ Len(nodes) \in Nat BY <1>1 DEF Graph
<1>4. Max(at) \in at
  <2> HIDE DEF at
  <2> QED BY <1>2, <1>3, MaxOfNumbers
<1>5. Implementation(nodes) \in Ids(nodes) /\ Kind(Implementation(nodes)) \in CodeKinds
  BY <1>4 DEF Implementation, Ids
<1> QED BY <1>5, ReviewedGraph DEF Kind, CodeKinds, Review, Gate, Final

LEMMA MaxOfTwo ==
  ASSUME NEW n \in Nat
  PROVE  Max({1, n}) = IF n > 1 THEN n ELSE 1
<1> DEFINE m == IF n > 1 THEN n ELSE 1
<1>1. m \in {1, n} \cup {1} /\ \A y \in {1, n} : m >= y OBVIOUS
<1>2. \A x \in {1, n} : (\A y \in {1, n} : x >= y) => x = m OBVIOUS
<1>3. m \in {1, n} OBVIOUS
<1> QED BY <1>1, <1>2, <1>3 DEF Max

--------------------------------------------------------------------------------
(* Which steps change what.                                                        *)

\* Work touches the board and its repository, and no run state.
Elsewhere == UNCHANGED <<asked, events, state, locals>>

Reports(t) == \E age \in {"new", "none", "old"}, clean \in BOOLEAN : WorkerReports(t, age, clean)

Toils(t) ==
    /\ Elsewhere
    /\ \/ \E v \in Verdicts : WorkerDone(t, v)
       \/ Reports(t) \/ WorkerExits(t) \/ WorkerExpands \/ WorkerDies(t)

Dispatching == DispatchNone \/ \E S \in SUBSET seen[Driver] : DispatchSome(S)

Others == Plan \/ Leave \/ WaveOver \/ Dispatching \/ Crash \/ Relaunch \/ UNCHANGED vars

LEMMA Steps == Next => Others \/ (\E a \in Actors : Tick(a)) \/ \E t \in live : Toils(t)
<1> SUFFICES ASSUME Next PROVE Others \/ (\E a \in Actors : Tick(a)) \/ \E t \in live : Toils(t)
  OBVIOUS
<1>1. CASE Drive
  <2>1. CASE Tick(Driver) BY <2>1 DEF Actors
  <2> QED BY <1>1, <2>1 DEF Drive, Others, Dispatching
<1>2. CASE Tick(Observer) BY <1>2 DEF Actors
<1>3. CASE Worker
  <2> SUFFICES ASSUME NEW t \in live,
                      \/ \E v \in Verdicts : WorkerDone(t, v)
                      \/ \E age \in {"new", "none"} \cup (IF InGit THEN {"old"} ELSE {}),
                            clean \in {TRUE, ~InGit} : WorkerReports(t, age, clean)
                      \/ WorkerExits(t) \/ WorkerExpands,
                      Elsewhere
               PROVE  Toils(t)
    BY <1>3 DEF Worker, Elsewhere
  <2>1. {TRUE, ~InGit} \subseteq BOOLEAN
        /\ {"new", "none"} \cup (IF InGit THEN {"old"} ELSE {}) \subseteq {"new", "none", "old"}
    OBVIOUS
  <2> QED BY <2>1 DEF Toils, Reports
<1>4. CASE Death BY <1>4 DEF Death, Toils, Elsewhere
<1> QED BY <1>1, <1>2, <1>3, <1>4 DEF Next, Others, Terminated

\* The graph that was planned stays.
LEMMA AskedFrame == [Next]_vars => UNCHANGED asked
<1> SUFFICES ASSUME Next PROVE UNCHANGED asked BY DEF vars
<1>1. CASE Others
  BY <1>1 DEF Others, Plan, Reject, Release, RecordPlan, Leave, WaveOver, Dispatching, DispatchNone,
              DispatchSome, Crash, Relaunch, vars
<1>2. ASSUME NEW a \in Actors, Tick(a) PROVE UNCHANGED asked
  BY <1>2 DEF Tick, Begin, Advance, Quarantine, Close, Judge, Commit, NothingToDo, OpenGate, UnblockGate,
              ReblockGate, RecordOutcome, CreateRework, CreateReview, LinkReview, RecordRoot, RecordRound
<1>3. ASSUME NEW t \in live, Toils(t) PROVE UNCHANGED asked BY <1>3 DEF Toils, Elsewhere
<1> QED BY <1>1, <1>2, <1>3, Steps

\* The work on t is reported as done.
Finishes(t) == (\E v \in Verdicts : WorkerDone(t, v)) \/ Reports(t)

BoardStep ==
    \/ Release \/ Dispatching
    \/ \E a \in Actors : \/ OpenGate(a) \/ UnblockGate(a) \/ ReblockGate(a)
                         \/ CreateRework(a) \/ CreateReview(a) \/ LinkReview(a)
    \/ \E t \in live : Finishes(t)

\* What does not change, and the steps by which it does.
Frames ==
    /\ UNCHANGED <<status, parents>> \/ BoardStep
    /\ UNCHANGED verdict \/ \E t \in live, v \in Verdicts : WorkerDone(t, v)
    /\ live' \subseteq live \/ \E S \in SUBSET seen[Driver] : DispatchSome(S)
    /\ UNCHANGED git \/ \E t \in live : Reports(t) \/ WorkerDies(t)
    /\ UNCHANGED children \/ RecordPlan \/ \E a \in Actors : RecordRoot(a)
    /\ UNCHANGED <<handled, outcome>> \/ \E a \in Actors : RecordOutcome(a) \/ RecordRound(a)
    /\ UNCHANGED full \/ \E a \in Actors : Commit(a)
    /\ UNCHANGED state \/ Reject \/ RecordPlan \/ \E a \in Actors : Commit(a)
    /\ stray' \in {stray, "ready", "blocked"} /\ root' \in {root, "blocked", "done"}

LEMMA StepFrames == Next => Frames
<1> SUFFICES ASSUME Next PROVE Frames OBVIOUS
<1> USE DEF Frames, Finishes, BoardStep, board, events, git, vars
<1>1. CASE Others
  <2>1. CASE Plan BY <2>1 DEF Plan, Reject, Release, RecordPlan
  <2>2. CASE Dispatching BY <2>2 DEF Dispatching, DispatchNone, DispatchSome
  <2>3. CASE Leave \/ WaveOver \/ Crash \/ Relaunch \/ UNCHANGED vars
    BY <2>3 DEF Leave, WaveOver, Crash, Relaunch
  <2> QED BY <1>1, <2>1, <2>2, <2>3 DEF Others
<1>2. ASSUME NEW a \in Actors, Tick(a) PROVE Frames
  <2>1. CASE Begin(a) \/ Quarantine(a) \/ Close(a) \/ Judge(a) \/ NothingToDo(a)
    BY <2>1 DEF Begin, Quarantine, Close, Judge, NothingToDo
  <2>2. CASE Commit(a) BY <2>2 DEF Commit
  <2>3. CASE OpenGate(a) \/ UnblockGate(a) \/ ReblockGate(a)
    BY <2>3 DEF OpenGate, UnblockGate, ReblockGate
  <2>4. CASE CreateRework(a) \/ CreateReview(a) \/ LinkReview(a)
    BY <2>4 DEF CreateRework, CreateReview, LinkReview
  <2>5. CASE RecordOutcome(a) \/ RecordRoot(a) \/ RecordRound(a)
    BY <2>5 DEF RecordOutcome, RecordRoot, RecordRound
  <2> QED BY <1>2, <2>1, <2>2, <2>3, <2>4, <2>5 DEF Tick, Advance
<1>3. ASSUME NEW t \in live, Toils(t) PROVE Frames
  <2>1. CASE \E v \in Verdicts : WorkerDone(t, v)
    <3>1. UNCHANGED <<events, state, git, live, stray, root>>
      BY <1>3, <2>1 DEF Toils, Elsewhere, WorkerDone, Done
    <3> QED BY <2>1, <3>1
  <2>2. CASE Reports(t)
    <3>1. UNCHANGED <<events, state, verdict, live, stray, root>>
      BY <1>3, <2>2 DEF Toils, Elsewhere, Reports, WorkerReports, Done
    <3> QED BY <2>2, <3>1
  <2>3. CASE WorkerExits(t) \/ WorkerExpands BY <1>3, <2>3 DEF Toils, Elsewhere, WorkerExits, WorkerExpands
  <2>4. CASE WorkerDies(t) BY <1>3, <2>4 DEF Toils, Elsewhere, WorkerDies
  <2> QED BY <1>3, <2>1, <2>2, <2>3, <2>4 DEF Toils
<1> QED BY <1>1, <1>2, <1>3, Steps

--------------------------------------------------------------------------------
(* What a step does to the board.                                                  *)

Status == {"todo", "ready", "running", "blocked", "done"}

\* The types of the board, the verdicts, the event log and the actors.
BoardOK ==
    /\ DOMAIN parents = Created /\ live \subseteq Created
    /\ status \in [Created -> Status]
    /\ \A t \in Created : parents[t] \subseteq Created \ {t}

VerdictsOK ==
    /\ verdict \in [{t \in DoneAt(Created) : Kind(t) \in ReviewKinds} -> Verdicts]
    /\ DOMAIN claimed = {t \in DoneAt(Created) : Kind(t) \in CodeKinds}
    /\ \A t \in DOMAIN claimed : claimed[t] \in 0 .. head[Workspace(t)]
    /\ dirty \subseteq DOMAIN head /\ sloppy \in BOOLEAN

EventsOK ==
    /\ children \subseteq Created /\ handled \subseteq DOMAIN verdict
    /\ outcome \in {"open", "accepted", "blocked"} /\ full \in BOOLEAN
    /\ stray \in {"none", "ready", "blocked"} /\ root \in {"none", "blocked", "done"}
    /\ state \in RunState

LocalsOK ==
    /\ pc \in [Actors -> InTick \cup {"idle", "plan", "record", "start", "head", "end"}]
    /\ \A a \in Actors : seen[a] \subseteq Created
    /\ DOMAIN seen = Actors /\ DOMAIN about = Actors /\ judged \in [Actors -> RunState]
    /\ disturbed \in BOOLEAN

TypesOK == BoardOK /\ VerdictsOK /\ EventsOK /\ LocalsOK

\* What a step may do to a task that is there: what is done stays done, and was worked on;
\* only the gate is ever blocked, or gets another parent; and what starts has all its
\* parents done.
BoardMoves ==
    /\ \/ \E t \in live : Finishes(t)
       \/ \A t \in Created' : status'[t] = "done" => t \in Created /\ status[t] = "done"
    /\ \A t \in Created :
          /\ t \in Created'
          /\ status[t] = "done" => status'[t] = "done"
          /\ status'[t] = "done" => status[t] = "done" \/ (status[t] = "running" /\ t \in live)
          /\ t # Gate => /\ status'[t] = "blocked" => status[t] = "blocked"
                         /\ parents'[t] = parents[t]
                         /\ status[t] = "todo" /\ status'[t] # "todo"
                              => \A u \in parents[t] : status[u] = "done"
    /\ \A t \in Created' \ Created :
          /\ status'[t] # "done"
          /\ t # Gate => /\ status'[t] # "blocked"
                         /\ status'[t] # "todo" => \A u \in parents'[t] : u \in Created /\ status[u] = "done"

LEMMA PromotedIs ==
  \A st, par : /\ DOMAIN Promoted(st, par) = DOMAIN st
               /\ \A t \in DOMAIN st :
                     Promoted(st, par)[t] = IF st[t] = "todo" /\ \A u \in par[t] : st[u] = "done"
                                            THEN "ready" ELSE st[t]
BY DEF Promoted

LEMMA OpenMoves ==
  ASSUME BoardOK, Gate \in Created, Open(Gate), UNCHANGED parents
  PROVE  /\ Created' = Created /\ status' \in [Created -> Status]
         /\ \A t \in Created \ {Gate} :
               status'[t] = IF status[t] = "todo" /\ \A u \in parents[t] : status[u] = "done"
                            THEN "ready" ELSE status[t]
         /\ status'[Gate] = IF status[Gate] \in {"todo", "blocked"}
                            THEN IF \A u \in parents[Gate] : status[u] = "done" THEN "ready" ELSE "todo"
                            ELSE status[Gate]
<1> DEFINE st == Unblocked(Gate)
<1>1. st \in [Created -> Status] BY DEF BoardOK, Unblocked, Status
<1>2. /\ \A t \in Created \ {Gate} : st[t] = status[t]
      /\ st[Gate] = IF status[Gate] = "blocked" THEN "todo" ELSE status[Gate]
  BY DEF BoardOK, Unblocked
<1>3. \A t \in Created : st[t] = "done" <=> status[t] = "done" BY <1>2
<1>4. status' = Promoted(st, parents) BY DEF Open
<1> HIDE DEF st
<1>5. \A t \in Created : (\A u \in parents[t] : st[u] = "done") <=> (\A u \in parents[t] : status[u] = "done")
  BY <1>3 DEF BoardOK
<1>6. /\ DOMAIN status' = Created
      /\ \A t \in Created : status'[t] = IF st[t] = "todo" /\ \A u \in parents[t] : status[u] = "done"
                                         THEN "ready" ELSE st[t]
  BY <1>1, <1>4, <1>5, PromotedIs
<1>7. status' \in [Created -> Status]
  <2>1. status' = [t \in Created |-> status'[t]] BY <1>4, <1>6 DEF Promoted
  <2> QED BY <1>1, <1>6, <2>1 DEF Status
<1> QED BY <1>2, <1>6, <1>7 DEF Created

LEMMA CreateMoves ==
  ASSUME BoardOK, NEW t, NEW after \in SUBSET (Created \ {t}), Create(t, after)
  PROVE  /\ Created' = Created \cup {t} /\ DOMAIN parents' = Created'
         /\ status' \in [Created' -> Status]
         /\ \A u \in Created :
               /\ parents'[u] = parents[u]
               /\ \/ status'[u] = status[u]
                  \/ status[u] = "todo" /\ status'[u] = "ready" /\ \A v \in parents[u] : status[v] = "done"
         /\ t \notin Created =>
               /\ parents'[t] = after
               /\ status'[t] = IF \A v \in after : status[v] = "done" THEN "ready" ELSE "todo"
         /\ t \in Created => UNCHANGED <<status, parents>>
<1>1. CASE t \in Created
  <2>1. UNCHANGED <<status, parents>> BY <1>1 DEF Create, BoardOK, Created
  <2> QED BY <1>1, <2>1 DEF BoardOK, Created
<1>2. CASE t \notin Created
  <2> DEFINE st == With(status, t, "todo")
  <2>1. parents' = With(parents, t, after) /\ status' = Promoted(st, parents')
    BY <1>2 DEF Create, BoardOK, Created
  <2>2. /\ DOMAIN parents' = Created \cup {t}
        /\ \A u \in Created : parents'[u] = parents[u]
        /\ parents'[t] = after
    BY <1>2, <2>1 DEF With, BoardOK
  <2>3. /\ DOMAIN st = Created \cup {t} /\ st[t] = "todo"
        /\ \A u \in Created : st[u] = status[u]
        /\ \A u \in Created \cup {t} : st[u] \in Status
    BY <1>2 DEF With, BoardOK, Created, Status
  <2> HIDE DEF st
  <2>4. /\ DOMAIN status' = Created \cup {t}
        /\ \A u \in Created \cup {t} :
              status'[u] = IF st[u] = "todo" /\ \A v \in parents'[u] : st[v] = "done"
                           THEN "ready" ELSE st[u]
    BY <2>1, <2>3, PromotedIs
  <2>5. status' = [u \in Created \cup {t} |-> status'[u]] BY <2>1, <2>3, <2>4 DEF Promoted
  <2>6. \A u \in Created \cup {t} : status'[u] \in Status BY <2>3, <2>4 DEF Status
  <2>7. Created' = Created \cup {t} BY <2>4 DEF Created
  <2>8. status' \in [Created' -> Status] BY <2>5, <2>6, <2>7
  <2>9. ASSUME NEW u \in Created
        PROVE  \/ status'[u] = status[u]
               \/ status[u] = "todo" /\ status'[u] = "ready" /\ \A v \in parents[u] : status[v] = "done"
    BY <2>2, <2>3, <2>4, <2>9 DEF BoardOK
  <2>10. status'[t] = IF \A v \in after : status[v] = "done" THEN "ready" ELSE "todo"
    BY <1>2, <2>2, <2>3, <2>4
  <2> QED BY <1>2, <2>2, <2>7, <2>8, <2>9, <2>10
<1> QED BY <1>1, <1>2

LEMMA LinkMoves ==
  ASSUME BoardOK, NEW a \in Actors, LinkReview(a), Gate \in Created
  PROVE  /\ Created' = Created /\ DOMAIN parents' = Created /\ status' \in [Created -> Status]
         /\ parents'[Gate] = parents[Gate] \cup {ReviewOf(about[a])}
         /\ \A t \in Created \ {Gate} : parents'[t] = parents[t]
         /\ \A t \in Created :
               status'[t] = IF status[t] = "todo" /\ \A u \in parents'[t] : status[u] = "done"
                            THEN "ready" ELSE status[t]
<1>1. /\ parents' = [parents EXCEPT ![Gate] = @ \cup {ReviewOf(about[a])}]
      /\ status' = Promoted(status, parents')
  BY DEF LinkReview
<1>2. /\ DOMAIN parents' = Created
      /\ parents'[Gate] = parents[Gate] \cup {ReviewOf(about[a])}
      /\ \A t \in Created \ {Gate} : parents'[t] = parents[t]
  BY <1>1 DEF BoardOK
<1>3. /\ DOMAIN status' = Created
      /\ \A t \in Created :
               status'[t] = IF status[t] = "todo" /\ \A u \in parents'[t] : status[u] = "done"
                            THEN "ready" ELSE status[t]
  BY <1>1 DEF Promoted, Created
<1>4. status' \in [Created -> Status]
  <2>1. status' = [t \in Created |-> status'[t]] BY <1>1, <1>3 DEF Promoted
  <2>2. \A t \in Created : status'[t] \in Status BY <1>3 DEF BoardOK, Status
  <2> QED BY <2>1, <2>2
<1> QED BY <1>2, <1>3, <1>4 DEF Created

LEMMA SweepMoves ==
  ASSUME BoardOK
  PROVE  /\ DOMAIN Swept = Created /\ Swept \in [Created -> Status]
         /\ \A t \in Created :
               \/ Swept[t] = status[t]
               \/ status[t] = "running" /\ t \notin live /\ Swept[t] = "ready"
               \/ /\ status[t] = "todo" /\ Swept[t] = "ready"
                  /\ \A u \in parents[t] : status[u] = "done"
<1> DEFINE lost(t) == Places > 0 /\ t \in seen[Driver] \ live /\ status[t] = "running"
           st == [t \in Created |-> IF lost(t) THEN "ready" ELSE status[t]]
<1>1. Swept = Promoted(st, parents) BY DEF Swept, Created
<1>2. /\ DOMAIN st = Created
      /\ \A t \in Created : /\ st[t] \in Status /\ (st[t] = "done" <=> status[t] = "done")
                            /\ \/ st[t] = status[t]
                               \/ status[t] = "running" /\ t \notin live /\ st[t] = "ready"
  BY DEF BoardOK, Status
<1> HIDE DEF st
<1>3. \A t \in Created : (\A u \in parents[t] : st[u] = "done") <=> (\A u \in parents[t] : status[u] = "done")
  BY <1>2 DEF BoardOK
<1>4. /\ DOMAIN Swept = Created
      /\ \A t \in Created : Swept[t] = IF st[t] = "todo" /\ \A u \in parents[t] : status[u] = "done"
                                       THEN "ready" ELSE st[t]
  BY <1>1, <1>2, <1>3, PromotedIs
<1>5. Swept \in [Created -> Status]
  <2>1. Swept = [t \in Created |-> Swept[t]] BY <1>1, <1>4 DEF Promoted
  <2>2. \A t \in Created : Swept[t] \in Status BY <1>2, <1>4 DEF Status
  <2> QED BY <2>1, <2>2
<1> QED BY <1>2, <1>4, <1>5

LEMMA DispatchMoves ==
  ASSUME BoardOK, Dispatching, seen[Driver] \subseteq Created
  PROVE  /\ AtWave /\ Created' = Created /\ UNCHANGED parents /\ status' \in [Created -> Status]
         /\ \A t \in Created :
               \/ status'[t] = status[t]
               \/ status[t] = "running" /\ t \notin live /\ status'[t] \in {"ready", "running"}
               \/ status[t] = "ready" /\ status'[t] = "running" /\ t \in seen[Driver]
               \/ /\ status[t] = "todo"
                  /\ status'[t] = "ready" \/ (status'[t] = "running" /\ t \in seen[Driver])
                  /\ \A u \in parents[t] : status[u] = "done"
         /\ live \subseteq live'
         /\ \A t \in live' \ live : t \in seen[Driver] /\ status'[t] = "running"
<1>1. CASE DispatchNone
  BY <1>1, SweepMoves DEF DispatchNone, Created
<1>2. ASSUME NEW S \in SUBSET seen[Driver], DispatchSome(S)
      PROVE  /\ AtWave /\ UNCHANGED parents /\ live' = live \cup S
             /\ status' = [t \in Created |-> IF t \in S THEN "running" ELSE Swept[t]]
             /\ \A t \in S : Swept[t] = "ready"
  BY <1>2 DEF DispatchSome, Created
<1>3. ASSUME NEW S \in SUBSET seen[Driver], DispatchSome(S)
      PROVE  /\ Created' = Created /\ status' \in [Created -> Status]
             /\ \A t \in Created :
               \/ status'[t] = status[t]
               \/ status[t] = "running" /\ t \notin live /\ status'[t] \in {"ready", "running"}
               \/ status[t] = "ready" /\ status'[t] = "running" /\ t \in seen[Driver]
               \/ /\ status[t] = "todo"
                  /\ status'[t] = "ready" \/ (status'[t] = "running" /\ t \in seen[Driver])
                  /\ \A u \in parents[t] : status[u] = "done"
             /\ \A t \in S : status'[t] = "running"
  BY <1>2, <1>3, SweepMoves DEF Created, Status
<1> QED BY <1>1, <1>2, <1>3 DEF Dispatching

LEMMA ReleaseMoves ==
  ASSUME GraphOK, FreshOK, Release
  PROVE  /\ Created = {} /\ Created' = Ids(nodes) /\ DOMAIN parents' = Ids(nodes)
         /\ Valid(nodes, request.maxTasks)
         /\ \A t \in Ids(nodes) : parents'[t] = Deps(nodes, t) /\ parents'[t] \subseteq Ids(nodes) \ {t}
         /\ status' \in [Ids(nodes) -> Waiting \cup {"blocked"}]
         /\ \A t \in Ids(nodes) : /\ status'[t] = "blocked" <=> t = Gate
                                  /\ status'[t] = "ready" => parents'[t] = {}
<1> DEFINE st == [t \in Ids(nodes) |-> IF Kind(t) = "gate" THEN "blocked" ELSE "todo"]
<1>1. /\ Plannable /\ Created = {}
      /\ parents' = [t \in Ids(nodes) |-> Deps(nodes, t)] /\ status' = Promoted(st, parents')
  BY DEF Release, FreshOK
<1>2. Valid(nodes, request.maxTasks) BY <1>1 DEF Plannable
<1>3. \A t \in Ids(nodes) : Deps(nodes, t) \subseteq Ids(nodes) \ {t} BY <1>2 DEF Valid
<1>4. \A t \in Ids(nodes) : Kind(t) = "gate" <=> t = Gate
  <2>1. CASE Reviewing
    BY <2>1, ReviewedGraph DEF GraphOK, Kind, Gate, Final, Review
  <2>2. CASE ~Reviewing BY <2>2 DEF GraphOK, Gate, Kind
  <2> QED BY <2>1, <2>2
<1>5. /\ DOMAIN status' = Ids(nodes)
      /\ \A t \in Ids(nodes) :
            status'[t] = IF st[t] = "todo" /\ \A u \in parents'[t] : st[u] = "done"
                         THEN "ready" ELSE st[t]
  BY <1>1 DEF Promoted
<1>6. \A t \in Ids(nodes) : st[t] = IF t = Gate THEN "blocked" ELSE "todo" BY <1>4
<1>7. status' = [t \in Ids(nodes) |-> status'[t]] BY <1>1, <1>5 DEF Promoted
<1> HIDE DEF st
<1>8. \A t \in Ids(nodes) : parents'[t] = Deps(nodes, t) /\ parents'[t] \subseteq Ids(nodes) \ {t}
  BY <1>1, <1>3
<1>9. ASSUME NEW t \in Ids(nodes)
      PROVE  /\ status'[t] \in Waiting \cup {"blocked"} /\ (status'[t] = "blocked" <=> t = Gate)
             /\ status'[t] = "ready" => parents'[t] = {}
  <2>1. ASSUME st[t] = "todo", \A u \in parents'[t] : st[u] = "done" PROVE parents'[t] = {}
    BY <1>6, <1>8, <2>1
  <2> QED BY <1>5, <1>6, <2>1 DEF Waiting
<1> QED BY <1>1, <1>2, <1>5, <1>7, <1>8, <1>9 DEF Created

--------------------------------------------------------------------------------
(* Names, rounds and what is asked of the latest review.                           *)

\* What a reviewed run has before any round.
Names == Works(request) \cup {<<"integration", 1>>, Review(1), Gate, Final}
            \cup {Rework(k) : k \in Later} \cup {Review(k) : k \in Later}

LEMMA ReviewedNames ==
  ASSUME GraphOK, Reviewing
  PROVE  /\ Created \subseteq Names /\ Later \subseteq Nat \ {0, 1}
         /\ Created # {} => Works(request) \cup {Review(1), Gate, Final} \subseteq Created
         /\ \A t \in Names : /\ Kind(t) \in ReviewKinds => \E k \in Nat \ {0} : t = Review(k)
                             /\ Kind(t) = "rework" => \E k \in Later : t = Rework(k)
                             /\ Kind(t) = "gate" => t = Gate
                             /\ Kind(t) \in CodeKinds <=> t \in Works(request) \cup {Rework(k) : k \in Later}
         /\ \A t \in Ids(nodes) : Kind(t) # "rework"
         /\ \A k \in Later : Rework(k) \notin Ids(nodes) /\ Review(k) \notin Ids(nodes)
         /\ Implementation(nodes) \in Works(request)
         /\ Code(Ids(nodes)) = Works(request)
<1>1. /\ Works(request) \cup {Review(1), Gate, Final} \subseteq Ids(nodes)
      /\ \A t \in Ids(nodes) : t \in Works(request) \cup {<<"integration", 1>>, Review(1), Gate, Final}
      /\ \A t \in Works(request) : Kind(t) = "work"
      /\ Implementation(nodes) \in Works(request)
  BY ReviewedGraph, ImplementationWrites DEF GraphOK
<1>2. Later \subseteq Nat \ {0, 1} BY ReviewAssumption DEF GraphOK, Later
<1>3. Created \subseteq Names BY <1>1 DEF GraphOK, Names
<1>4. ASSUME NEW t \in Names
      PROVE  /\ Kind(t) \in ReviewKinds => \E k \in Nat \ {0} : t = Review(k)
             /\ Kind(t) = "rework" => \E k \in Later : t = Rework(k)
             /\ Kind(t) = "gate" => t = Gate
             /\ Kind(t) \in CodeKinds <=> t \in Works(request) \cup {Rework(k) : k \in Later}
  <2>1. CASE t \in Works(request)
    <3>1. Kind(t) = "work" BY <1>1, <2>1
    <3> QED BY <2>1, <3>1 DEF ReviewKinds, CodeKinds
  <2>2. CASE t \in {<<"integration", 1>>, Review(1), Gate, Final}
    <3>1. Kind(t) \notin CodeKinds BY <2>2 DEF Kind, CodeKinds, Review, Gate, Final
    <3>2. t \notin Works(request) BY <1>1, <3>1 DEF CodeKinds
    <3>3. \A k \in Later : t # Rework(k) BY <2>2 DEF Rework, Review, Gate, Final
    <3> QED BY <2>2, <3>1, <3>2, <3>3 DEF Kind, ReviewKinds, CodeKinds, Review, Gate, Final
  <2>3. ASSUME NEW k \in Later, t = Rework(k) PROVE Kind(t) = "rework" BY <2>3 DEF Kind, Rework
  <2>4. ASSUME NEW k \in Later, t = Review(k)
        PROVE  Kind(t) = "review" /\ t \notin Works(request) /\ \A j \in Later : t # Rework(j)
    <3>1. Kind(t) = "review" BY <2>4 DEF Kind, Review
    <3> QED BY <1>1, <2>4, <3>1 DEF Review, Rework
  <2>5. CASE \E k \in Later : t = Rework(k) BY <2>3, <2>5 DEF ReviewKinds, CodeKinds
  <2>6. CASE \E k \in Later : t = Review(k) BY <1>2, <2>4, <2>6 DEF ReviewKinds, CodeKinds
  <2> QED BY <2>1, <2>2, <2>5, <2>6 DEF Names
<1>5. ASSUME NEW t \in Ids(nodes) PROVE Kind(t) # "rework" /\ (Kind(t) \in CodeKinds <=> t \in Works(request))
  <2>1. CASE t \in Works(request) BY <1>1, <2>1 DEF CodeKinds
  <2>2. CASE t \in {<<"integration", 1>>, Review(1), Gate, Final}
    <3>1. Kind(t) \notin CodeKinds /\ Kind(t) # "rework"
      BY <2>2 DEF Kind, CodeKinds, Review, Gate, Final
    <3> QED BY <1>1, <3>1 DEF CodeKinds
  <2> QED BY <1>1, <2>1, <2>2
<1>6. ASSUME NEW k \in Later PROVE Rework(k) \notin Ids(nodes) /\ Review(k) \notin Ids(nodes)
  <2>1. Rework(k) \notin Ids(nodes) BY <1>5 DEF Kind, Rework
  <2>2. Kind(Review(k)) = "review" /\ k # 1 BY <1>2 DEF Kind, Review
  <2>3. Review(k) \notin Works(request) BY <1>1, <2>2
  <2>4. Review(k) \notin {<<"integration", 1>>, Review(1), Gate, Final}
    BY <2>2 DEF Review, Gate, Final
  <2> QED BY <1>1, <2>1, <2>3, <2>4
<1>7. Code(Ids(nodes)) = Works(request) BY <1>1, <1>5 DEF Code
<1>8. Created # {} => Works(request) \cup {Review(1), Gate, Final} \subseteq Created
  BY <1>1 DEF GraphOK
<1> QED BY <1>1, <1>2, <1>3, <1>4, <1>5, <1>6, <1>7, <1>8

\* The latest review is the last of those that are done.
LEMMA LatestIs ==
  ASSUME GraphOK, Reviewing, NEW S, Mapping(S), DoneReviews(S) # {}
  PROVE  /\ Latest(S) \in DoneReviews(S)
         /\ \E k \in 1 .. ReviewCount(S) :
               /\ Latest(S) = Review(k)
               /\ \A j \in Nat : Review(j) \in DoneReviews(S) => j <= k
         /\ ReviewCount(S) \in Nat
<1>1. S # {} /\ S \subseteq Created BY DEF Mapping, Whole, DoneReviews, DoneAt
<1>2. Numbered(S) BY <1>1 DEF Mapping, Whole
<1> DEFINE D == {k \in 1 .. ReviewCount(S) : Review(k) \in DoneReviews(S)}
<1>3. \A t \in DoneReviews(S) : \E k \in D : t = Review(k)
  <2> SUFFICES ASSUME NEW t \in DoneReviews(S) PROVE \E k \in D : t = Review(k) OBVIOUS
  <2>1. t \in S /\ Kind(t) \in ReviewKinds /\ t \in Created BY <1>1 DEF DoneReviews, DoneAt
  <2>2. PICK j \in Nat : t = Review(j) BY <2>1, ReviewedNames
  <2>3. Kind(t) = "review" BY <2>2 DEF Kind, Review
  <2> QED BY <1>2, <2>1, <2>3 DEF Numbered
<1>4. D # {} /\ D \in SUBSET (1 .. ReviewCount(S)) /\ ReviewCount(S) \in Nat BY <1>2, <1>3 DEF Numbered
<1>5. PICK m \in D : \A j \in D : j <= m
  <2> HIDE DEF D
  <2> QED BY <1>4, MaxOfNumbers
<1>6. \A j : Review(j)[2] = j BY DEF Review
<1>7. \A t \in DoneReviews(S) : t[2] <= Review(m)[2] BY <1>3, <1>5, <1>6
<1>8. Latest(S) \in DoneReviews(S) /\ \A u \in DoneReviews(S) : u[2] <= Latest(S)[2]
  BY <1>5, <1>7 DEF Latest
<1>9. PICK k \in D : Latest(S) = Review(k) BY <1>3, <1>8
<1>10. \A j \in Nat : Review(j) \in DoneReviews(S) => j <= k BY <1>6, <1>8, <1>9
<1> QED BY <1>4, <1>8, <1>9, <1>10

\* What a tick that has not settled knows of the review it is at.
LEMMA Unsettled ==
  ASSUME GraphOK, StagingOK, LocalsOK, BoardOK, VerdictsOK, NEW a \in Actors, pc[a] = "advance", ~Settled(a)
  PROVE  /\ Reviewing /\ outcome = "open" /\ Latest(seen[a]) \notin handled
         /\ Latest(seen[a]) \in DoneReviews(seen[a]) /\ Latest(seen[a]) \in DOMAIN verdict
         /\ Latest(seen[a]) \in seen[a] /\ Latest(seen[a]) \in Created
         /\ ReviewCount(seen[a]) \in Nat
         /\ \E k \in 1 .. ReviewCount(seen[a]) :
               /\ Latest(seen[a]) = Review(k)
               /\ k \in 1 .. IF request.cycles > 1 THEN request.cycles ELSE 1
               /\ ReworkOf(Latest(seen[a])) = Rework(k + 1) /\ ReviewOf(Latest(seen[a])) = Review(k + 1)
               /\ \A j \in Nat : Review(j) \in DoneReviews(seen[a]) => j <= k
<1>1. Reviewing /\ outcome = "open" /\ DoneReviews(seen[a]) # {} /\ Latest(seen[a]) \notin handled
  BY DEF Settled, Reviewing
<1>2. Mapping(seen[a]) /\ seen[a] \subseteq Created BY DEF StagingOK, HandlingOK, Mapping, Whole
<1>3. /\ Latest(seen[a]) \in DoneReviews(seen[a]) /\ ReviewCount(seen[a]) \in Nat
      /\ \E k \in 1 .. ReviewCount(seen[a]) :
               /\ Latest(seen[a]) = Review(k)
               /\ \A j \in Nat : Review(j) \in DoneReviews(seen[a]) => j <= k
  BY <1>1, <1>2, LatestIs
<1>4. \A t \in DoneReviews(seen[a]) : t \in seen[a] /\ t \in Created /\ t \in DOMAIN verdict
  BY <1>2 DEF DoneReviews, DoneAt, VerdictsOK
<1>5. \A k \in Nat : Review(k) \in Created => k \in 1 .. IF request.cycles > 1 THEN request.cycles ELSE 1
  <2> SUFFICES ASSUME NEW k \in Nat, Review(k) \in Names
               PROVE  k \in 1 .. IF request.cycles > 1 THEN request.cycles ELSE 1
    BY <1>1, ReviewedNames
  <2>1. request.cycles \in Nat BY ReviewAssumption DEF GraphOK
  <2>2. Review(k) \notin Works(request)
    <3>1. Kind(Review(k)) = "review" BY DEF Kind, Review
    <3>2. "review" \notin CodeKinds /\ Works(request) \subseteq Ids(nodes)
      BY <1>1, ReviewedGraph DEF CodeKinds, GraphOK
    <3> QED BY <3>1, <3>2, <1>1, ReviewedNames DEF Code
  <2>3. Review(k) \notin {<<"integration", 1>>, Gate, Final} /\ \A j \in Later : Review(k) # Rework(j)
    BY DEF Review, Rework, Gate, Final
  <2>4. k = 1 \/ k \in Later BY <2>2, <2>3 DEF Names, Review
  <2> QED BY <2>1, <2>4 DEF Later
<1>6. ReviewCount(seen[a]) \in Nat BY <1>3
<1> QED BY <1>1, <1>3, <1>4, <1>5 DEF ReworkOf, ReviewOf, Rework, Review

LEMMA BoardSteps ==
  ASSUME TypesOK, GraphOK, StagingOK, FreshOK, ParentsOK, Next
  PROVE  BoardOK' /\ BoardMoves
<1> USE DEF TypesOK
<1>1. seen[Driver] \subseteq Created /\ \A a \in Actors : seen[a] \subseteq Created
  BY DEF StagingOK, HandlingOK, Mapping, Whole, Actors
<1>2. live' \subseteq Created
  <2>1. CASE live' \subseteq live BY <2>1 DEF BoardOK
  <2>2. CASE \E S \in SUBSET seen[Driver] : DispatchSome(S)
    BY <1>1, <2>2 DEF DispatchSome, BoardOK
  <2> QED BY <2>1, <2>2, StepFrames DEF Frames
<1>3. CASE UNCHANGED <<status, parents>> BY <1>2, <1>3 DEF BoardOK, BoardMoves, Created
<1>4. CASE Release
  BY <1>4, <1>2, ReleaseMoves DEF BoardOK, BoardMoves, Waiting, Status
<1>5. CASE Dispatching
  <2>1. BoardOK' BY <1>1, <1>2, <1>5, DispatchMoves DEF BoardOK, Created
  <2>2. BoardMoves BY <1>1, <1>5, DispatchMoves DEF BoardMoves
  <2> QED BY <2>1, <2>2
<1>6. ASSUME NEW a \in Actors, OpenGate(a) \/ UnblockGate(a) PROVE BoardOK' /\ BoardMoves
  <2>1. Open(Gate) /\ UNCHANGED parents /\ ~Settled(a) /\ pc[a] = "advance"
    BY <1>6 DEF OpenGate, UnblockGate
  <2>2. Gate \in Created BY <2>1, Unsettled, ReviewedNames
  <2>3. BoardOK' BY <1>2, <2>1, <2>2, OpenMoves DEF BoardOK, Created
  <2>4. BoardMoves BY <2>1, <2>2, OpenMoves DEF BoardMoves
  <2> QED BY <2>3, <2>4
<1>7. ASSUME NEW a \in Actors, ReblockGate(a) PROVE BoardOK' /\ BoardMoves
  BY <1>2, <1>7 DEF ReblockGate, BoardOK, BoardMoves, Created, Status
<1>8. ASSUME NEW a \in Actors, CreateRework(a) PROVE BoardOK' /\ BoardMoves
  <2> DEFINE r == Latest(seen[a])
  <2>1. /\ r \in Created /\ ReworkOf(r) # r /\ ReworkOf(r) # Gate
        /\ Create(ReworkOf(r), {r})
    BY <1>8, Unsettled DEF CreateRework, ReworkOf, Review, Gate
  <2> HIDE DEF r
  <2>2. {r} \in SUBSET (Created \ {ReworkOf(r)}) BY <2>1
  <2> DEFINE t == ReworkOf(r)
  <2>3. t # Gate BY <2>1
  <2> HIDE DEF t
  <2>4. Create(t, {r}) /\ {r} \in SUBSET (Created \ {t}) BY <2>1, <2>2 DEF t
  <2> QED BY <1>2, <2>3, <2>4, CreateMoves DEF BoardOK, BoardMoves
<1>9. ASSUME NEW a \in Actors, CreateReview(a) PROVE BoardOK' /\ BoardMoves
  <2> DEFINE r == ReworkOf(about[a])
             t == ReviewOf(about[a])
  <2>1. r \in Created /\ Create(t, {r}) BY <1>9 DEF CreateReview, StagingOK, HandlingOK, Asks
  <2>2. t # r /\ t # Gate BY DEF ReworkOf, ReviewOf, Gate
  <2> HIDE DEF t, r
  <2>3. {r} \in SUBSET (Created \ {t}) BY <2>1, <2>2
  <2> QED BY <1>2, <2>1, <2>2, <2>3, CreateMoves DEF BoardOK, BoardMoves
<1>10. ASSUME NEW a \in Actors, LinkReview(a) PROVE BoardOK' /\ BoardMoves
  <2>1. Reviewing /\ ReviewOf(about[a]) \in Created /\ about[a] \in seen[a]
    BY <1>10 DEF LinkReview, StagingOK, HandlingOK, Asks, Handling
  <2>2. Gate \in Created /\ ReviewOf(about[a]) # Gate
    BY <1>1, <2>1, ReviewedNames DEF ReviewOf, Gate
  <2> QED BY <1>2, <1>10, <2>1, <2>2, LinkMoves DEF BoardOK, BoardMoves
<1>11. ASSUME NEW t \in live, Finishes(t) PROVE BoardOK' /\ BoardMoves
  <2>1. Done(t) BY <1>11 DEF Finishes, WorkerDone, Reports, WorkerReports
  <2> QED BY <1>2, <1>11, <2>1 DEF Done, BoardOK, BoardMoves, Created, Status
<1> QED BY <1>3, <1>4, <1>5, <1>6, <1>7, <1>8, <1>9, <1>10, <1>11, StepFrames DEF Frames, BoardStep

LEMMA WorkspaceIs ==
  ASSUME GraphOK, NEW t \in Created, Kind(t) \in CodeKinds
  PROVE  Workspace(t) \in Code(Ids(nodes)) /\ Workspace(t) \in DOMAIN head
<1>1. CASE t \in Ids(nodes) BY <1>1 DEF Workspace, Code, GraphOK
<1>2. CASE t \notin Ids(nodes)
  <2>1. Reviewing BY <1>2 DEF GraphOK
  <2>2. Implementation(nodes) \in Code(Ids(nodes)) BY <2>1, ReviewedNames
  <2> QED BY <1>2, <2>2 DEF Workspace, GraphOK
<1> QED BY <1>1, <1>2

LEMMA VerdictsSteps ==
  ASSUME TypesOK, GraphOK, StagingOK, FreshOK, ParentsOK, Next
  PROVE  /\ VerdictsOK'
         /\ DOMAIN verdict \subseteq DOMAIN verdict'
         /\ \A t \in DOMAIN verdict : verdict'[t] = verdict[t]
         /\ head' \in [Code(Ids(nodes)) -> Nat \ {0}]
<1> USE DEF TypesOK
<1>1. BoardOK' /\ BoardMoves BY BoardSteps
<1>2. UNCHANGED nodes /\ \A t : Workspace(t)' = Workspace(t) BY AskedFrame DEF asked, Workspace
<1>3. head \in [Code(Ids(nodes)) -> Nat \ {0}] BY DEF GraphOK
<1>4. ASSUME NEW t \in live, Finishes(t)
      PROVE  /\ t \in Created /\ status[t] = "running" /\ Created' = Created
             /\ DoneAt(Created)' = DoneAt(Created) \cup {t} /\ t \notin DoneAt(Created)
  BY <1>4 DEF Finishes, WorkerDone, Reports, WorkerReports, Done, DoneAt, Created, BoardOK
<1>5. ASSUME NEW t \in live, NEW v \in Verdicts, WorkerDone(t, v)
      PROVE  /\ VerdictsOK' /\ DOMAIN verdict \subseteq DOMAIN verdict'
             /\ \A u \in DOMAIN verdict : verdict'[u] = verdict[u]
             /\ head' \in [Code(Ids(nodes)) -> Nat \ {0}]
  <2>1. UNCHANGED git /\ Kind(t) \notin CodeKinds
        /\ verdict' = IF Kind(t) \in ReviewKinds THEN With(verdict, t, v) ELSE verdict
    BY <1>5 DEF WorkerDone
  <2>2. /\ DoneAt(Created)' = DoneAt(Created) \cup {t} /\ t \notin DoneAt(Created)
        /\ DoneAt(Created') \subseteq DoneAt(Created)'
    BY <1>4, <1>5 DEF DoneAt, Finishes
  <2>3. verdict' \in [{u \in DoneAt(Created)' : Kind(u) \in ReviewKinds} -> Verdicts]
        /\ DOMAIN verdict \subseteq DOMAIN verdict' /\ \A u \in DOMAIN verdict : verdict'[u] = verdict[u]
    BY <2>1, <2>2 DEF VerdictsOK, With
  <2>4. DOMAIN claimed' = {u \in DoneAt(Created)' : Kind(u) \in CodeKinds}
    BY <2>1, <2>2 DEF VerdictsOK, git
  <2> QED BY <1>2, <1>3, <2>1, <2>3, <2>4 DEF VerdictsOK, git
<1>6. ASSUME NEW t \in live, Reports(t)
      PROVE  /\ VerdictsOK' /\ UNCHANGED verdict
             /\ head' \in [Code(Ids(nodes)) -> Nat \ {0}]
  <2>0. PICK w : w = Workspace(t) OBVIOUS
  <2>1. PICK c : /\ Kind(t) \in CodeKinds /\ head' = [head EXCEPT ![w] = @ + 1]
                 /\ claimed' = With(claimed, t, c) /\ c \in {0, head[w], head[w] + 1}
                 /\ dirty' \subseteq dirty \cup {w} /\ sloppy' \in BOOLEAN /\ UNCHANGED verdict
    <3> PICK age \in {"new", "none", "old"}, clean \in BOOLEAN : WorkerReports(t, age, clean)
      BY <1>6 DEF Reports
    <3> DEFINE d == CASE age = "new"  -> head[w] + 1
                     [] age = "old"  -> head[w]
                     [] age = "none" -> 0
    <3>1. d \in {0, head[w], head[w] + 1} OBVIOUS
    <3>2. claimed' = With(claimed, t, d) /\ head' = [head EXCEPT ![w] = @ + 1] /\ Kind(t) \in CodeKinds
      BY <2>0 DEF WorkerReports
    <3>3. dirty' \subseteq dirty \cup {w} /\ UNCHANGED verdict BY <2>0 DEF WorkerReports
    <3>4. sloppy' \in BOOLEAN BY DEF WorkerReports, VerdictsOK
    <3> QED BY <3>1, <3>2, <3>3, <3>4
  <2>2. /\ DoneAt(Created)' = DoneAt(Created) \cup {t} /\ t \notin DoneAt(Created)
        /\ t \in Created
    BY <1>4, <1>6 DEF Finishes
  <2>3. w \in Code(Ids(nodes)) BY <2>0, <2>1, <2>2, WorkspaceIs
  <2>4. head' \in [Code(Ids(nodes)) -> Nat \ {0}] /\ DOMAIN head' = DOMAIN head
        /\ \A u \in DOMAIN head : head[u] \in Nat /\ head[u] <= head'[u]
        /\ head'[w] = head[w] + 1
    BY <1>3, <2>1, <2>3
  <2>5. DOMAIN claimed' = {u \in DoneAt(Created)' : Kind(u) \in CodeKinds}
        /\ t \notin DOMAIN claimed
        /\ \A u \in DOMAIN claimed : claimed'[u] = claimed[u] /\ u # t
        /\ claimed'[t] = c /\ DOMAIN claimed' = DOMAIN claimed \cup {t}
    BY <2>1, <2>2 DEF VerdictsOK, With
  <2>6. \A u \in DOMAIN claimed : u \in Created /\ Kind(u) \in CodeKinds BY DEF VerdictsOK, DoneAt
  <2>7. \A u \in DOMAIN claimed : Workspace(u) \in DOMAIN head BY <2>6, WorkspaceIs
  <2>8. \A u \in DOMAIN claimed' : claimed'[u] \in 0 .. head'[Workspace(u)]
    <3>1. ASSUME NEW u \in DOMAIN claimed PROVE claimed'[u] \in 0 .. head'[Workspace(u)]
      BY <2>4, <2>5, <2>7 DEF VerdictsOK
    <3>2. claimed'[t] \in 0 .. head'[w]
      <4>1. head[w] \in Nat BY <1>3, <2>3
      <4>2. c \in 0 .. head[w] + 1 BY <2>1, <4>1
      <4>3. head'[w] = head[w] + 1
        <5>1. w \in DOMAIN head /\ head' = [head EXCEPT ![w] = @ + 1] BY <1>3, <2>1, <2>3
        <5> QED BY <5>1
      <4>4. claimed'[t] = c
        <5>1. claimed' = With(claimed, t, c) BY <2>1
        <5> QED BY <5>1 DEF With
      <4> QED BY <4>2, <4>3, <4>4
    <3>3. ASSUME NEW u \in DOMAIN claimed' PROVE claimed'[u] \in 0 .. head'[Workspace(u)]
      <4>1. CASE u = t BY <2>0, <3>2, <4>1
      <4>2. CASE u \in DOMAIN claimed BY <3>1, <4>2
      <4>3. DOMAIN claimed' = DOMAIN claimed \cup {t} BY <2>1 DEF With
      <4> QED BY <4>1, <4>2, <4>3
    <3> QED BY <3>3
  <2>9. \A u : Workspace(u)' = Workspace(u) BY <1>2
  <2>10. verdict' \in [{u \in DoneAt(Created)' : Kind(u) \in ReviewKinds} -> Verdicts]
    <3>1. Kind(t) \notin ReviewKinds BY <2>1 DEF CodeKinds, ReviewKinds
    <3> QED BY <2>1, <2>2, <3>1 DEF VerdictsOK
  <2>11. dirty' \subseteq DOMAIN head' BY <1>3, <2>1, <2>3, <2>4 DEF VerdictsOK
  <2> QED BY <2>1, <2>4, <2>5, <2>8, <2>9, <2>10, <2>11 DEF VerdictsOK
<1>7. CASE ~\E t \in live : Finishes(t)
  <2>1. UNCHANGED verdict BY <1>7, StepFrames DEF Frames, Finishes
  <2>2. DoneAt(Created)' = DoneAt(Created) BY <1>1, <1>7 DEF BoardMoves, DoneAt
  <2>3. UNCHANGED <<head, claimed>> /\ dirty' \subseteq DOMAIN head /\ sloppy' \in BOOLEAN
    <3>1. CASE UNCHANGED git BY <3>1 DEF git, VerdictsOK
    <3>2. ASSUME NEW t \in live, WorkerDies(t)
          PROVE  UNCHANGED <<head, claimed>> /\ dirty' \subseteq DOMAIN head /\ sloppy' \in BOOLEAN
      <4>1. /\ UNCHANGED <<head, claimed>> /\ sloppy' \in BOOLEAN /\ t \in Created
            /\ dirty' = dirty \/ (dirty' = dirty \cup {Workspace(t)} /\ Kind(t) \in CodeKinds)
        BY <3>2 DEF WorkerDies, VerdictsOK, BoardOK
      <4> QED BY <4>1, WorkspaceIs DEF VerdictsOK
    <3> QED BY <1>7, <3>1, <3>2, StepFrames DEF Frames, Finishes
  <2> QED BY <1>2, <1>3, <2>1, <2>2, <2>3 DEF VerdictsOK
<1> QED BY <1>5, <1>6, <1>7 DEF Finishes

--------------------------------------------------------------------------------
(* What a step does to what its actor holds, and that it leaves the other alone.   *)

\* The steps of one actor.
Drives == Plan \/ Leave \/ WaveOver \/ Dispatching \/ Crash \/ Relaunch

Acts(a) == Tick(a) \/ (a = Driver /\ Drives)

LEMMA WhoActs == Next => (\E a \in Actors : Acts(a)) \/ (\E t \in live : Toils(t)) \/ UNCHANGED vars
<1> Driver \in Actors BY DEF Actors
<1> QED BY Steps DEF Others, Drives, Acts

LEMMA OthersStay ==
  ASSUME LocalsOK, NEW a \in Actors, Acts(a)
  PROVE  \A b \in Actors \ {a} : /\ pc'[b] = pc[b] /\ seen'[b] = seen[b]
                                 /\ about'[b] = about[b] /\ judged'[b] = judged[b]
<1> USE DEF Goto, Forget, LocalsOK, locals
<1>1. CASE a = Driver /\ Drives
  <2>1. CASE Plan BY <1>1, <2>1 DEF Plan, Reject, Release, RecordPlan
  <2>2. CASE Dispatching BY <1>1, <2>2 DEF Dispatching, DispatchNone, DispatchSome, Dispatched
  <2>3. CASE Leave \/ WaveOver \/ Relaunch BY <1>1, <2>3 DEF Leave, WaveOver, Relaunch
  <2>4. CASE Crash BY <1>1, <2>4 DEF Crash
  <2> QED BY <1>1, <2>1, <2>2, <2>3, <2>4 DEF Drives
<1>2. CASE Tick(a)
  <2>1. CASE Begin(a) BY <2>1 DEF Begin
  <2>2. CASE Commit(a) BY <2>2 DEF Commit
  <2>3. CASE Quarantine(a) \/ Close(a) \/ Judge(a) BY <2>3 DEF Quarantine, Close, Judge
  <2>4. CASE NothingToDo(a) \/ OpenGate(a) \/ UnblockGate(a) \/ ReblockGate(a) \/ RecordOutcome(a)
    BY <2>4 DEF NothingToDo, OpenGate, UnblockGate, ReblockGate, RecordOutcome
  <2>5. CASE CreateRework(a) \/ CreateReview(a) \/ LinkReview(a) \/ RecordRoot(a) \/ RecordRound(a)
    BY <2>5 DEF CreateRework, CreateReview, LinkReview, RecordRoot, RecordRound
  <2> QED BY <1>2, <2>1, <2>2, <2>3, <2>4, <2>5 DEF Tick, Advance
<1> QED BY <1>1, <1>2 DEF Acts

LEMMA LocalsMove ==
  ASSUME LocalsOK, NEW a \in Actors, Acts(a)
  PROVE  /\ pc' \in [Actors -> InTick \cup {"idle", "plan", "record", "start", "head", "end"}]
         /\ DOMAIN seen' = Actors /\ DOMAIN about' = Actors /\ judged' \in [Actors -> RunState]
         /\ disturbed' \in BOOLEAN /\ (disturbed => disturbed')
         /\ \/ seen'[a] \in {seen[a], {}}
            \/ Begin(a) /\ seen'[a] = children
            \/ a = Driver /\ RecordPlan /\ seen'[a] = Ids(nodes)
            \/ RecordRoot(a) /\ seen'[a] = seen[a] \cup {ReworkOf(about[a]), ReviewOf(about[a])}
<1> USE DEF Goto, Forget, LocalsOK, locals, InTick, RunState, faults
<1>1. CASE a = Driver /\ Drives
  <2>1. CASE Plan BY <1>1, <2>1 DEF Plan, Reject, Release, RecordPlan
  <2>2. CASE Dispatching BY <1>1, <2>2 DEF Dispatching, DispatchNone, DispatchSome, Dispatched
  <2>3. CASE Leave \/ WaveOver \/ Relaunch BY <1>1, <2>3 DEF Leave, WaveOver, Relaunch
  <2>4. CASE Crash BY <1>1, <2>4 DEF Crash
  <2> QED BY <1>1, <2>1, <2>2, <2>3, <2>4 DEF Drives
<1>2. CASE Tick(a)
  <2>1. CASE Begin(a) BY <2>1 DEF Begin
  <2>2. CASE Commit(a)
    <3>1. \E step \in {"idle", "end", "head"} : pc' = [pc EXCEPT ![a] = step]
      <4>1. CASE a = Observer BY <2>2, <4>1, ReviewAssumption DEF Commit
      <4>2. CASE a = Driver BY <2>2, <4>2, ReviewAssumption DEF Commit
      <4> QED BY <4>1, <4>2 DEF Actors
    <3>2. pc' \in [Actors -> InTick \cup {"idle", "plan", "record", "start", "head", "end"}]
      BY <3>1
    <3>3. disturbed' \in BOOLEAN /\ (disturbed => disturbed') BY <2>2 DEF Commit
    <3>4. /\ seen' = [seen EXCEPT ![a] = {}] /\ about' = [about EXCEPT ![a] = Root]
          /\ judged' = [judged EXCEPT ![a] = "running"]
      BY <2>2 DEF Commit
    <3> QED BY <3>2, <3>3, <3>4
  <2>3. CASE Quarantine(a) \/ Close(a) BY <2>3 DEF Quarantine, Close
  <2>4. CASE Judge(a)
    <3>1. Derived(a) \in RunState BY DEF Derived
    <3> QED BY <2>4, <3>1 DEF Judge
  <2>5. CASE NothingToDo(a) \/ OpenGate(a) \/ UnblockGate(a) \/ ReblockGate(a) \/ RecordOutcome(a)
    BY <2>5 DEF NothingToDo, OpenGate, UnblockGate, ReblockGate, RecordOutcome
  <2>6. CASE CreateRework(a) \/ CreateReview(a) \/ LinkReview(a) \/ RecordRound(a)
    BY <2>6 DEF CreateRework, CreateReview, LinkReview, RecordRound
  <2>7. CASE RecordRoot(a) BY <2>7 DEF RecordRoot
  <2> QED BY <1>2, <2>1, <2>2, <2>3, <2>4, <2>5, <2>6, <2>7 DEF Tick, Advance
<1> QED BY <1>1, <1>2 DEF Acts

\* Work changes nothing of a tick, and the graph stays.
LEMMA ToilsStay ==
  ASSUME NEW t \in live, Toils(t)
  PROVE  UNCHANGED <<pc, seen, about, judged, children, handled, outcome, full, state, parents>>
         /\ (disturbed => disturbed')
BY DEF Toils, Elsewhere, events, locals, WorkerDone, Reports, WorkerReports, Done, WorkerExits,
       WorkerExpands, WorkerDies, faults

LEMMA TypesSteps ==
  ASSUME TypesOK, GraphOK, StagingOK, FreshOK, ParentsOK, Next
  PROVE  TypesOK' /\ Created \subseteq Created' /\ (disturbed => disturbed')
<1> USE DEF TypesOK
<1>1. BoardOK' /\ BoardMoves BY BoardSteps
<1>2. VerdictsOK' /\ DOMAIN verdict \subseteq DOMAIN verdict' BY VerdictsSteps
<1>3. Created \subseteq Created' BY <1>1 DEF BoardMoves
<1>4. ASSUME NEW a \in Actors, pc[a] \in Asks \ {"review"}
      PROVE  /\ ReworkOf(about[a]) \in Created /\ ReviewOf(about[a]) \in Created
             /\ seen[a] \subseteq Created /\ about[a] \in DOMAIN verdict
  BY <1>4 DEF StagingOK, HandlingOK, Mapping, Whole, Handling, Asks
<1>5. pc[Driver] = "record" => Ids(nodes) \subseteq Created BY DEF FreshOK, GraphOK
<1>6. EventsOK'
  <2>1. children' \subseteq Created'
    <3>1. CASE UNCHANGED children BY <1>3, <3>1 DEF EventsOK
    <3>2. CASE RecordPlan BY <1>3, <1>5, <3>2 DEF RecordPlan
    <3>3. ASSUME NEW a \in Actors, RecordRoot(a) PROVE children' \subseteq Created'
      BY <1>3, <1>4, <3>3 DEF RecordRoot, EventsOK, Asks, LocalsOK
    <3> QED BY <3>1, <3>2, <3>3, StepFrames DEF Frames
  <2>2. handled' \subseteq DOMAIN verdict' /\ outcome' \in {"open", "accepted", "blocked"}
    <3>1. CASE UNCHANGED <<handled, outcome>> BY <1>2, <3>1 DEF EventsOK
    <3>2. ASSUME NEW a \in Actors, RecordOutcome(a)
          PROVE  handled' \subseteq DOMAIN verdict' /\ outcome' \in {"open", "accepted", "blocked"}
      <4>1. about[a] \in DOMAIN verdict BY <3>2 DEF RecordOutcome, StagingOK, HandlingOK, Handling
      <4> QED BY <1>2, <3>2, <4>1 DEF RecordOutcome, EventsOK
    <3>3. ASSUME NEW a \in Actors, RecordRound(a)
          PROVE  handled' \subseteq DOMAIN verdict' /\ outcome' \in {"open", "accepted", "blocked"}
      BY <1>2, <1>4, <3>3 DEF RecordRound, EventsOK, Asks
    <3> QED BY <3>1, <3>2, <3>3, StepFrames DEF Frames
  <2>3. full' \in BOOLEAN
    BY StepFrames DEF Frames, EventsOK, Commit
  <2>4. state' \in RunState
    <3>1. CASE UNCHANGED state BY <3>1 DEF EventsOK
    <3>2. CASE Reject \/ RecordPlan
      BY <3>2, SafeSetStays DEF Reject, RecordPlan, RunState, EventsOK
    <3>3. ASSUME NEW a \in Actors, Commit(a) PROVE state' \in RunState
      <4>1. judged[a] \in RunState BY DEF LocalsOK
      <4>2. \E s \in {state, "running", "review"} : state' = SafeSet(s, judged[a])
        BY <3>3, SafeSetStays DEF Commit
      <4> QED BY <4>1, <4>2, SafeSetStays DEF EventsOK, RunState
    <3> QED BY <3>1, <3>2, <3>3, StepFrames DEF Frames
  <2>5. stray' \in {"none", "ready", "blocked"} /\ root' \in {"none", "blocked", "done"}
    BY StepFrames DEF Frames, EventsOK
  <2> QED BY <2>1, <2>2, <2>3, <2>4, <2>5 DEF EventsOK
<1>7. LocalsOK' /\ (disturbed => disturbed')
  <2>1. CASE UNCHANGED vars BY <1>3, <2>1 DEF vars, locals, faults, LocalsOK
  <2>2. ASSUME NEW t \in live, Toils(t) PROVE LocalsOK' /\ (disturbed => disturbed')
    <3>1. disturbed' \in BOOLEAN
      BY <2>2 DEF LocalsOK, Toils, WorkerDone, Reports, WorkerReports, WorkerExits, WorkerExpands,
                  WorkerDies, faults
    <3> QED BY <1>3, <2>2, <3>1, ToilsStay DEF LocalsOK
  <2>3. ASSUME NEW a \in Actors, Acts(a) PROVE LocalsOK' /\ (disturbed => disturbed')
    <3>1. seen'[a] \subseteq Created'
      <4>1. CASE seen'[a] \in {seen[a], {}} BY <1>3, <4>1 DEF LocalsOK
      <4>2. CASE Begin(a) /\ seen'[a] = children BY <1>3, <4>2 DEF EventsOK
      <4>3. CASE a = Driver /\ RecordPlan /\ seen'[a] = Ids(nodes)
        BY <1>3, <1>5, <4>3 DEF RecordPlan
      <4>4. CASE RecordRoot(a) /\ seen'[a] = seen[a] \cup {ReworkOf(about[a]), ReviewOf(about[a])}
        BY <1>3, <1>4, <4>4 DEF RecordRoot, Asks
      <4> QED BY <2>3, <4>1, <4>2, <4>3, <4>4, LocalsMove
    <3>2. \A b \in Actors \ {a} : seen'[b] \subseteq Created'
      BY <1>3, <2>3, OthersStay DEF LocalsOK
    <3> QED BY <2>3, <3>1, <3>2, LocalsMove DEF LocalsOK
  <2> QED BY <2>1, <2>2, <2>3, WhoActs
<1> QED BY <1>1, <1>2, <1>3, <1>6, <1>7

--------------------------------------------------------------------------------
(* Which tasks a step adds.                                                        *)

\* A tick of a adds a task of round k, which the review before it asked for.
Adds(a, k) ==
    /\ Reviewing /\ k \in Later /\ ~SelfReview
    /\ Review(k - 1) \in seen[a] \cap DOMAIN verdict /\ verdict[Review(k - 1)] = "reject"
    /\ about'[a] = Review(k - 1)
    /\ \/ /\ CreateRework(a) /\ Latest(seen[a]) = Review(k - 1)
          /\ Create(Rework(k), {Review(k - 1)}) /\ Created' = Created \cup {Rework(k)}
       \/ /\ CreateReview(a) /\ about[a] = Review(k - 1)
          /\ Rework(k) \in Created
          /\ Create(Review(k), {Rework(k)}) /\ Created' = Created \cup {Review(k)}

LEMMA Additions ==
  ASSUME TypesOK, GraphOK, StagingOK, NEW a \in Actors, CreateRework(a) \/ CreateReview(a)
  PROVE  \E k \in Later : Adds(a, k)
<1> USE DEF TypesOK
<1>1. CASE CreateRework(a)
  <2>1. /\ pc[a] = "advance" /\ ~Settled(a) /\ ~Accepting(verdict[Latest(seen[a])])
        /\ ~Exhausted(a) /\ ~SelfReview
        /\ Create(ReworkOf(Latest(seen[a])), {Latest(seen[a])})
        /\ about'[a] = Latest(seen[a])
    BY <1>1 DEF CreateRework, LocalsOK
  <2>2. /\ Reviewing /\ Latest(seen[a]) \in DOMAIN verdict /\ Latest(seen[a]) \in seen[a]
        /\ ReviewCount(seen[a]) \in Nat /\ Latest(seen[a]) \in Created
    BY <2>1, Unsettled
  <2>3. PICK j \in 1 .. ReviewCount(seen[a]) :
               /\ Latest(seen[a]) = Review(j) /\ ReworkOf(Latest(seen[a])) = Rework(j + 1)
    BY <2>1, Unsettled
  <2>4. request.cycles \in Nat BY ReviewAssumption DEF GraphOK
  <2>5. verdict[Review(j)] = "reject" /\ ReviewCount(seen[a]) < request.cycles
    BY <2>1, <2>2, <2>3, <2>4 DEF Exhausted
  <2>6. j + 1 \in Later /\ (j + 1) - 1 = j BY <2>2, <2>4, <2>5 DEF Later
  <2>7. Create(Rework(j + 1), {Review(j)}) BY <2>1, <2>3
  <2>8. {Review(j)} \in SUBSET (Created \ {Rework(j + 1)}) BY <2>2, <2>3 DEF Review, Rework
  <2>9. Created' = Created \cup {Rework(j + 1)}
    <3> DEFINE r == Review(j)
               t == Rework(j + 1)
    <3>1. Create(t, {r}) /\ {r} \in SUBSET (Created \ {t}) BY <2>7, <2>8
    <3> HIDE DEF r, t
    <3>2. Created' = Created \cup {t} BY <3>1, CreateMoves
    <3> QED BY <3>2 DEF t
  <2> QED BY <1>1, <2>1, <2>2, <2>3, <2>5, <2>6, <2>7, <2>9 DEF Adds
<1>2. CASE CreateReview(a)
  <2>1. /\ pc[a] = "review" /\ Create(ReviewOf(about[a]), {ReworkOf(about[a])})
        /\ about'[a] = about[a]
    BY <1>2 DEF CreateReview
  <2>2. /\ Reviewing /\ ~SelfReview /\ about[a] \in seen[a] \cap DOMAIN verdict
        /\ verdict[about[a]] = "reject" /\ about[a][2] + 1 \in Later /\ ReworkOf(about[a]) \in Created
        /\ \E j \in 1 .. IF request.cycles > 1 THEN request.cycles ELSE 1 : about[a] = Review(j)
    BY <2>1 DEF StagingOK, HandlingOK, Asks, Handling
  <2>3. PICK j \in 1 .. IF request.cycles > 1 THEN request.cycles ELSE 1 : about[a] = Review(j) BY <2>2
  <2>4. /\ j + 1 \in Later /\ (j + 1) - 1 = j
        /\ ReworkOf(about[a]) = Rework(j + 1) /\ ReviewOf(about[a]) = Review(j + 1)
    BY <2>2, <2>3 DEF ReworkOf, ReviewOf, Review, Rework
  <2> DEFINE r == Rework(j + 1)
             t == Review(j + 1)
  <2>5. Create(t, {r}) /\ r \in Created /\ r # t BY <2>1, <2>2, <2>4 DEF Review, Rework
  <2>6. Created' = Created \cup {t}
    <3> HIDE DEF r, t
    <3>1. {r} \in SUBSET (Created \ {t}) BY <2>5
    <3> QED BY <2>5, <3>1, CreateMoves
  <2> QED BY <1>2, <2>1, <2>2, <2>3, <2>4, <2>5, <2>6 DEF Adds
<1> QED BY <1>1, <1>2

LEMMA CreatedIs ==
  ASSUME TypesOK, GraphOK, StagingOK, FreshOK, Next
  PROVE  Created' = Created \/ Release \/ \E a \in Actors : \E k \in Later : Adds(a, k)
<1> USE DEF TypesOK
<1>1. CASE UNCHANGED <<status, parents>> BY <1>1 DEF Created
<1>2. CASE Dispatching BY <1>2, DispatchMoves DEF LocalsOK, Actors
<1>3. ASSUME NEW a \in Actors, OpenGate(a) \/ UnblockGate(a) PROVE Created' = Created
  <2>1. Open(Gate) /\ UNCHANGED parents /\ ~Settled(a) /\ pc[a] = "advance"
    BY <1>3 DEF OpenGate, UnblockGate
  <2>2. Gate \in Created BY <2>1, Unsettled, ReviewedNames
  <2> QED BY <2>1, <2>2, OpenMoves
<1>4. ASSUME NEW a \in Actors, ReblockGate(a) PROVE Created' = Created
  BY <1>4 DEF ReblockGate, Created
<1>5. ASSUME NEW a \in Actors, LinkReview(a) PROVE Created' = Created
  BY <1>5 DEF LinkReview, Promoted, Created
<1>6. ASSUME NEW t \in live, Finishes(t) PROVE Created' = Created
  BY <1>6 DEF Finishes, WorkerDone, Reports, WorkerReports, Done, Created
<1> QED BY <1>1, <1>2, <1>3, <1>4, <1>5, <1>6, Additions, StepFrames DEF Frames, BoardStep

LEMMA GraphSteps ==
  ASSUME TypesOK, GraphOK, StagingOK, FreshOK, ParentsOK, Next
  PROVE  GraphOK'
<1>1. UNCHANGED <<request, nodes>> BY AskedFrame DEF asked
<1>2. head' \in [Code(Ids(nodes)) -> Nat \ {0}] BY VerdictsSteps
<1>3. Created' # {} => Valid(nodes, request.maxTasks) /\ Ids(nodes) \subseteq Created'
  <2>1. CASE Created' = Created BY <2>1 DEF GraphOK
  <2>2. CASE Release BY <2>2, ReleaseMoves
  <2>3. ASSUME NEW a \in Actors, NEW k \in Later, Adds(a, k)
        PROVE  Valid(nodes, request.maxTasks) /\ Ids(nodes) \subseteq Created'
    <3>1. Review(k - 1) \in Created /\ Created \subseteq Created'
      BY <2>3, TypesSteps DEF Adds, TypesOK, LocalsOK
    <3> QED BY <3>1 DEF GraphOK
  <2> QED BY <2>1, <2>2, <2>3, CreatedIs
<1>4. Created' \subseteq Ids(nodes) \cup IF Reviewing THEN {Rework(k) : k \in Later} \cup {Review(k) : k \in Later} ELSE {}
  <2>1. CASE Created' = Created BY <2>1 DEF GraphOK
  <2>2. CASE Release BY <2>2, ReleaseMoves
  <2>3. ASSUME NEW a \in Actors, NEW k \in Later, Adds(a, k)
        PROVE  Reviewing /\ Created' \subseteq Ids(nodes) \cup {Rework(j) : j \in Later} \cup {Review(j) : j \in Later}
    <3>1. Reviewing /\ (Created' = Created \cup {Rework(k)} \/ Created' = Created \cup {Review(k)})
      BY <2>3 DEF Adds
    <3> QED BY <3>1 DEF GraphOK
  <2> QED BY <2>1, <2>2, <2>3, CreatedIs
<1> QED BY <1>1, <1>2, <1>3, <1>4 DEF GraphOK, Reviewing, Later

--------------------------------------------------------------------------------
(* Before the first wave.                                                          *)

Started == {"plan", "record", "start"}

LEMMA DriverStarts ==
  ASSUME LocalsOK, Next
  PROVE  \/ UNCHANGED <<pc, seen>> /\ ~RecordPlan /\ ~Release
         \/ \E a \in Actors : Acts(a) /\ a # Driver /\ pc'[Driver] = pc[Driver] /\ seen'[Driver] = seen[Driver]
         \/ Acts(Driver) /\ pc'[Driver] \notin Started
         \/ Release /\ pc[Driver] = "plan" /\ pc'[Driver] = "record"
         \/ RecordPlan /\ pc[Driver] = "record" /\ pc'[Driver] = "start"
<1>1. CASE UNCHANGED vars
  BY <1>1 DEF vars, locals, Release, RecordPlan, Goto, LocalsOK, Actors
<1>2. ASSUME NEW t \in live, Toils(t) PROVE UNCHANGED <<pc, seen>> /\ ~RecordPlan /\ ~Release
  <2>1. UNCHANGED <<pc, seen>> BY <1>2, ToilsStay
  <2> QED BY <2>1 DEF Release, RecordPlan, Goto, LocalsOK, Actors
<1>3. ASSUME NEW a \in Actors, Acts(a), a # Driver
      PROVE  pc'[Driver] = pc[Driver] /\ seen'[Driver] = seen[Driver]
  BY <1>3, OthersStay DEF Actors
<1>4. CASE Acts(Driver)
  <2> USE DEF Goto, LocalsOK, Started, Actors
  <2>1. CASE Plan BY <1>4, <2>1 DEF Plan, Reject, Release, RecordPlan
  <2>2. CASE Dispatching BY <1>4, <2>2 DEF Dispatching, DispatchNone, DispatchSome, Dispatched
  <2>3. CASE Leave \/ WaveOver \/ Relaunch \/ Crash BY <1>4, <2>3 DEF Leave, WaveOver, Relaunch, Crash
  <2>4. CASE Begin(Driver) \/ Quarantine(Driver) \/ Close(Driver) \/ Judge(Driver)
    BY <1>4, <2>4 DEF Begin, Quarantine, Close, Judge
  <2>5. CASE Commit(Driver)
    <3>1. pc' = [pc EXCEPT ![Driver] = IF Foreground THEN "end" ELSE "head"]
      BY <2>5, ReviewAssumption DEF Commit
    <3> QED BY <1>4, <3>1
  <2>6. CASE Advance(Driver)
    BY <1>4, <2>6 DEF Advance, NothingToDo, OpenGate, UnblockGate, ReblockGate, RecordOutcome, CreateRework, CreateReview,
                LinkReview, RecordRoot, RecordRound
  <2> QED BY <1>4, <2>1, <2>2, <2>3, <2>4, <2>5, <2>6 DEF Acts, Drives, Tick
<1> QED BY <1>1, <1>2, <1>3, <1>4, WhoActs

LEMMA FreshSteps ==
  ASSUME TypesOK, GraphOK, StagingOK, FreshOK, ParentsOK, Next
  PROVE  FreshOK' /\ (children # {} => children' # {})
<1> USE DEF TypesOK
<1> DEFINE fresh == children = {} \/ pc[Driver] = "start"
<1>1. Created # {} => Ids(nodes) # {} BY DEF GraphOK, Valid, Ids, Graph
<1>2. ASSUME NEW a \in Actors, pc[a] \in Handling PROVE ~fresh
  <2>1. about[a] \in DOMAIN verdict BY <1>2 DEF StagingOK, HandlingOK
  <2>2. about[a] \in Created /\ status[about[a]] = "done" BY <2>1 DEF VerdictsOK, DoneAt
  <2> QED BY <2>2 DEF FreshOK, Waiting
<1>3. ASSUME NEW a \in Actors, pc[a] = "advance", ~Settled(a) PROVE ~fresh
  <2>1. Latest(seen[a]) \in DoneReviews(seen[a]) /\ Latest(seen[a]) \in Created BY <1>3, Unsettled
  <2> QED BY <2>1 DEF FreshOK, Waiting, DoneReviews, DoneAt
<1>4. ASSUME children # {} PROVE children' # {}
  <2>1. ASSUME NEW a \in Actors, RecordRoot(a) PROVE children' # {}
    BY <1>4, <2>1 DEF RecordRoot, LocalsOK
  <2>2. ~RecordPlan BY <1>4 DEF RecordPlan, FreshOK
  <2> QED BY <1>4, <2>1, <2>2, StepFrames DEF Frames
<1>5. fresh => \/ UNCHANGED <<status, live, parents>> \/ Release
               \/ Dispatching /\ pc[Driver] = "start" /\ children # {}
  <2> SUFFICES ASSUME fresh PROVE \/ UNCHANGED <<status, live, parents>> \/ Release
                                  \/ Dispatching /\ pc[Driver] = "start" /\ children # {}
    OBVIOUS
  <2>1. live = {} BY DEF FreshOK
  <2>2. Dispatching => pc[Driver] = "start" /\ children # {}
    <3>1. Dispatching => AtWave BY DEF Dispatching, DispatchNone, DispatchSome
    <3>2. pc[Driver] = "wave" => seen[Driver] # {} BY DEF StagingOK, HandlingOK, InTick, Actors
    <3> QED BY <3>1, <3>2 DEF AtWave, FreshOK, Actors
  <2>3. ~\E a \in Actors : \/ OpenGate(a) \/ UnblockGate(a) \/ ReblockGate(a)
                           \/ CreateRework(a) \/ CreateReview(a) \/ LinkReview(a)
    BY <1>2, <1>3 DEF OpenGate, UnblockGate, ReblockGate, CreateRework, CreateReview, LinkReview, Handling, Asks
  <2>4. (\E S \in SUBSET seen[Driver] : DispatchSome(S)) => Dispatching BY DEF Dispatching
  <2> HIDE DEF fresh
  <2> QED BY <2>1, <2>2, <2>3, <2>4, StepFrames DEF Frames, BoardStep
<1>6. children' = children \/ (RecordPlan /\ children = {}) \/ ~fresh
  <2>1. ASSUME NEW a \in Actors, RecordRoot(a) PROVE ~fresh
    BY <1>2, <2>1 DEF RecordRoot, Handling, Asks
  <2>2. RecordPlan => children = {} BY DEF RecordPlan, FreshOK
  <2> HIDE DEF fresh
  <2> QED BY <2>1, <2>2, StepFrames DEF Frames
<1>7. Created \subseteq Created' BY TypesSteps
<1>8. /\ pc'[Driver] = "start" => \/ pc[Driver] = "start" /\ seen'[Driver] = seen[Driver] /\ ~RecordPlan
                                  \/ RecordPlan
      /\ pc'[Driver] = "plan" => pc[Driver] = "plan" /\ ~RecordPlan /\ ~Release
      /\ pc'[Driver] = "record" => (pc[Driver] = "record" /\ ~RecordPlan) \/ Release
      /\ Dispatching => pc'[Driver] \notin Started
      /\ Release => pc[Driver] = "plan" /\ pc'[Driver] = "record"
      /\ RecordPlan => pc'[Driver] \in {"start", "head"}
  BY DriverStarts DEF Started, Release, RecordPlan, Goto, LocalsOK, Actors, Dispatching, DispatchNone, DispatchSome, Dispatched
<1>9. children' = {} \/ pc'[Driver] = "start" => fresh
  BY <1>4, <1>8 DEF RecordPlan, FreshOK
<1>10. UNCHANGED <<request, nodes>> BY AskedFrame DEF asked
<1>18. fresh => outcome' = outcome
  <2>1. ASSUME NEW a \in Actors, RecordOutcome(a) \/ RecordRound(a) PROVE ~fresh \/ outcome' = outcome
    BY <1>2, <2>1 DEF RecordOutcome, RecordRound, Handling
  <2> HIDE DEF fresh
  <2> QED BY <2>1, StepFrames DEF Frames
<1> DEFINE Fresh1 == /\ \A t \in Created : status[t] \in Waiting \cup {"blocked"}
                     /\ live = {} /\ Created \subseteq Ids(nodes) /\ outcome = "open"
<1>11. children' = {} \/ pc'[Driver] = "start" => Fresh1'
  <2> SUFFICES ASSUME fresh, children' = {} \/ pc'[Driver] = "start" PROVE Fresh1' BY <1>9
  <2>1. Fresh1 /\ outcome' = outcome BY <1>18 DEF FreshOK
  <2>2. CASE UNCHANGED <<status, live, parents>> BY <1>10, <2>1, <2>2 DEF Created
  <2>3. CASE Release
    <3>1. UNCHANGED live BY <2>3 DEF Release
    <3> QED BY <1>10, <2>1, <2>3, <3>1, ReleaseMoves DEF Waiting
  <2>4. ~(Dispatching /\ children # {}) BY <1>4, <1>8 DEF Started
  <2> QED BY <1>5, <2>2, <2>3, <2>4
<1>12. pc'[Driver] = "start" => seen'[Driver] = children' /\ children' # {}
  <2>1. RecordPlan => seen'[Driver] = Ids(nodes) /\ children' = Ids(nodes) /\ Ids(nodes) # {}
    BY <1>1 DEF RecordPlan, FreshOK, LocalsOK, Actors
  <2> QED BY <1>6, <1>8, <2>1 DEF FreshOK
<1>13. pc'[Driver] \in {"plan", "record"} => children' = {}
  BY <1>6, <1>8 DEF FreshOK, Release, RecordPlan
<1>14. pc'[Driver] = "record" => Created' # {}
  <2>1. Release => Created' # {}
    <3>1. Release => Ids(nodes) # {} BY ReleaseMoves DEF Valid, Ids, Graph, GraphOK
    <3> QED BY <3>1, ReleaseMoves
  <2> QED BY <1>7, <1>8, <2>1 DEF FreshOK
<1>15. pc'[Driver] = "plan" => Created' = {}
  <2>1. ASSUME NEW a \in Actors, NEW k \in Later, Adds(a, k) PROVE Created # {}
    BY <2>1 DEF Adds, LocalsOK
  <2> QED BY <1>8, <2>1, CreatedIs DEF FreshOK
<1>16. live' # {} => children' # {}
  <2>1. ASSUME NEW S \in SUBSET seen[Driver], DispatchSome(S) PROVE children # {}
    BY <2>1 DEF DispatchSome, FreshOK, Actors
  <2> QED BY <1>4, <2>1, StepFrames DEF Frames, FreshOK
<1>17. ASSUME NEW a \in Actors PROVE seen'[a] # {} => children' # {}
  <2>1. seen[a] # {} => children' # {} BY <1>4 DEF FreshOK
  <2>2. CASE Acts(a)
    <3>1. RecordPlan => children' = Ids(nodes) BY DEF RecordPlan
    <3>2. Begin(a) => UNCHANGED children BY DEF Begin, events
    <3>3. RecordRoot(a) => seen[a] # {} BY DEF RecordRoot, StagingOK, HandlingOK, InTick
    <3> QED BY <2>1, <2>2, <3>1, <3>2, <3>3, LocalsMove
  <2>3. CASE ~Acts(a)
    <3>1. seen'[a] = seen[a]
      <4>1. ASSUME NEW b \in Actors, Acts(b) PROVE seen'[a] = seen[a] BY <2>3, <4>1, OthersStay
      <4>2. ASSUME NEW t \in live, Toils(t) PROVE seen'[a] = seen[a] BY <4>2, ToilsStay
      <4>3. UNCHANGED vars => seen'[a] = seen[a] BY DEF vars, locals
      <4> QED BY <4>1, <4>2, <4>3, WhoActs
    <3> QED BY <2>1, <3>1
  <2> QED BY <2>2, <2>3
<1> HIDE DEF fresh
<1> QED BY <1>4, <1>11, <1>12, <1>13, <1>14, <1>15, <1>16, <1>17 DEF FreshOK, Waiting

--------------------------------------------------------------------------------
(* Tasks keep the parents they got, and start after them.                          *)

LEMMA ParentsSteps ==
  ASSUME TypesOK, GraphOK, StagingOK, FreshOK, ParentsOK, Next
  PROVE  ParentsOK'
<1> USE DEF TypesOK
<1>1. BoardMoves /\ BoardOK' BY BoardSteps
<1>2. UNCHANGED <<request, nodes>> BY AskedFrame DEF asked
<1>3. Created \subseteq Created' BY <1>1 DEF BoardMoves
<1>4. \A t \in Created : t # Gate => parents'[t] = parents[t] BY <1>1 DEF BoardMoves
<1>5. ASSUME NEW a \in Actors, NEW k \in Later, Adds(a, k)
      PROVE  /\ Created' \ Created \subseteq {Rework(k), Review(k)}
             /\ Rework(k) \notin Created => parents'[Rework(k)] = {Review(k - 1)}
             /\ Review(k) \in Created' \ Created => parents'[Review(k)] = {Rework(k)}
             /\ parents'[Gate] = parents[Gate]
             /\ Gate \in Created /\ Reviewing
  <2>1. Gate \in Created /\ Reviewing /\ Review(k - 1) \in Created /\ k \in Nat
    BY <1>5, ReviewedNames DEF Adds, LocalsOK
  <2>2. ASSUME NEW t, NEW r, r # t, r \in Created, Create(t, {r})
        PROVE  (t \notin Created => parents'[t] = {r}) /\ parents'[Gate] = parents[Gate] /\ Created' = Created \cup {t}
    <3>1. {r} \in SUBSET (Created \ {t}) BY <2>2
    <3> QED BY <2>1, <2>2, <3>1, CreateMoves
  <2>3. CASE CreateRework(a) /\ Create(Rework(k), {Review(k - 1)})
    BY <2>1, <2>2, <2>3 DEF Rework, Review
  <2>4. CASE CreateReview(a) /\ Rework(k) \in Created /\ Create(Review(k), {Rework(k)})
    <3>1. Rework(k) # Review(k) BY DEF Rework, Review
    <3> QED BY <2>1, <2>2, <2>4, <3>1
  <2> QED BY <1>5, <2>3, <2>4 DEF Adds
<1>6. ASSUME NEW t \in Created' \cap Ids(nodes), t # Gate PROVE parents'[t] = Deps(nodes, t)
  <2>1. CASE t \in Created BY <1>4, <1>6, <2>1 DEF ParentsOK
  <2>2. CASE Release BY <2>2, ReleaseMoves
  <2>3. ASSUME NEW a \in Actors, NEW k \in Later, Adds(a, k) PROVE t \in Created
    BY <1>5, <1>6, <2>3, ReviewedNames
  <2> QED BY <1>6, <2>1, <2>2, <2>3, CreatedIs
<1>7. ASSUME Reviewing, Created' # {}, NEW u \in parents'[Gate] PROVE Kind(u) = "review"
  <2>1. CASE Release
    BY <1>7, <2>1, ReleaseMoves, ReviewedGraph DEF GraphOK, Kind, Review
  <2>2. ASSUME NEW a \in Actors, NEW k \in Later, Adds(a, k) PROVE Kind(u) = "review"
    BY <1>5, <1>7, <2>2 DEF ParentsOK
  <2>3. CASE Created' = Created /\ ~Release
    <3>1. Gate \in Created BY <1>7, <2>3, ReviewedNames
    <3>2. CASE UNCHANGED parents BY <1>7, <2>3, <3>2 DEF ParentsOK
    <3>3. ASSUME NEW a \in Actors, LinkReview(a) PROVE Kind(u) = "review"
      <4>1. u \in parents[Gate] \cup {ReviewOf(about[a])} BY <1>7, <3>1, <3>3, LinkMoves
      <4> QED BY <1>7, <2>3, <4>1 DEF ParentsOK, Kind, ReviewOf
    <3>4. ASSUME NEW a \in Actors, CreateRework(a) \/ CreateReview(a) PROVE Kind(u) = "review"
      BY <2>2, <3>4, Additions
    <3>5. UNCHANGED parents \/ \E a \in Actors : LinkReview(a) \/ CreateRework(a) \/ CreateReview(a)
      BY <2>3, StepFrames DEF Frames, BoardStep, Dispatching, DispatchNone, DispatchSome, OpenGate, UnblockGate,
              ReblockGate, Finishes, WorkerDone, Reports, WorkerReports, Done
    <3> QED BY <3>2, <3>3, <3>4, <3>5
  <2> QED BY <2>1, <2>2, <2>3, CreatedIs
<1>8. ASSUME Reviewing, NEW k \in Later
      PROVE  /\ Rework(k) \in Created' => parents'[Rework(k)] = {Review(k - 1)}
             /\ Review(k) \in Created' => parents'[Review(k)] = {Rework(k)}
  <2>1. Rework(k) # Gate /\ Review(k) # Gate BY DEF Rework, Review, Gate
  <2>2. /\ Rework(k) \in Created => parents'[Rework(k)] = {Review(k - 1)}
        /\ Review(k) \in Created => parents'[Review(k)] = {Rework(k)}
    BY <1>4, <1>8, <2>1 DEF ParentsOK
  <2>3. Release => Rework(k) \notin Created' /\ Review(k) \notin Created'
    BY <1>8, ReleaseMoves, ReviewedNames
  <2>4. ASSUME NEW a \in Actors, NEW j \in Later, Adds(a, j)
        PROVE  /\ Rework(k) \in Created' \ Created => k = j
               /\ Review(k) \in Created' \ Created => k = j
    BY <1>5, <2>4 DEF Rework, Review
  <2>5. ASSUME NEW a \in Actors, NEW j \in Later, Adds(a, j)
        PROVE  /\ Rework(k) \in Created' \ Created => parents'[Rework(k)] = {Review(k - 1)}
               /\ Review(k) \in Created' \ Created => parents'[Review(k)] = {Rework(k)}
    BY <1>5, <2>4, <2>5
  <2> QED BY <2>2, <2>3, <2>5, CreatedIs
<1>9. ASSUME NEW t \in Created', t # Gate
      PROVE  /\ status'[t] # "blocked"
             /\ status'[t] # "todo" => \A u \in parents'[t] : status'[u] = "done"
  <2>1. \A u \in Created : status[u] = "done" => status'[u] = "done" BY <1>1 DEF BoardMoves
  <2>2. CASE t \in Created
    <3>1. parents[t] \subseteq Created BY <2>2 DEF BoardOK
    <3>2. status'[t] # "blocked" BY <1>1, <1>9, <2>2 DEF BoardMoves, ParentsOK
    <3>3. ASSUME status'[t] # "todo", NEW u \in parents'[t] PROVE status'[u] = "done"
      <4>1. u \in parents[t] /\ u \in Created BY <1>4, <1>9, <2>2, <3>1, <3>3
      <4>2. status[u] = "done" BY <1>1, <1>9, <2>2, <3>3, <4>1 DEF BoardMoves, ParentsOK
      <4> QED BY <2>1, <4>1, <4>2
    <3> QED BY <3>2, <3>3
  <2>3. CASE t \notin Created BY <1>1, <1>9, <2>1, <2>3 DEF BoardMoves
  <2> QED BY <2>2, <2>3
<1> QED BY <1>2, <1>6, <1>7, <1>8, <1>9 DEF ParentsOK, Reviewing, Later

--------------------------------------------------------------------------------
(* Rounds are worked off one after the other; a commit that is not the last of its  *)
(* worktree has been built on.                                                     *)

WorksDone == \A t \in Works(request) : t \in Created /\ status[t] = "done"

LEMMA FirstReviewDone ==
  ASSUME TypesOK, GraphOK, ParentsOK, Reviewing, Review(1) \in Created, status[Review(1)] # "todo"
  PROVE  WorksDone
<1> USE DEF TypesOK
<1>1. /\ Works(request) \cup {Review(1), Gate, Final} \subseteq Created
      /\ Review(1) # Gate /\ Review(1) \in Ids(nodes)
      /\ \A t \in Ids(nodes) : t \in Created
  BY ReviewedNames, ReviewedGraph DEF Review, Gate, GraphOK
<1>2. parents[Review(1)] = Deps(nodes, Review(1)) BY <1>1 DEF ParentsOK
<1>3. \A u \in Deps(nodes, Review(1)) : status[u] = "done" BY <1>1, <1>2 DEF ParentsOK
<1>4. CASE Deps(nodes, Review(1)) = {<<"integration", 1>>} /\ <<"integration", 1>> \in Ids(nodes)
  <2>1. /\ <<"integration", 1>> \in Created \cap Ids(nodes) /\ <<"integration", 1>> # Gate
        /\ Deps(nodes, <<"integration", 1>>) = Works(request)
    BY <1>1, <1>4, ReviewedGraph DEF Gate, GraphOK
  <2>2. parents[<<"integration", 1>>] = Works(request) BY <2>1 DEF ParentsOK
  <2>3. status[<<"integration", 1>>] = "done" BY <1>3, <1>4
  <2> QED BY <1>1, <2>1, <2>2, <2>3 DEF ParentsOK, WorksDone
<1>5. CASE Deps(nodes, Review(1)) = {<<"work", 1>>} /\ Works(request) = {<<"work", 1>>}
  BY <1>1, <1>3, <1>5 DEF WorksDone
<1> QED BY <1>4, <1>5, ReviewedGraph DEF GraphOK

\* Everything before round k is done.
Behind(k) ==
    /\ WorksDone
    /\ \A j \in 1 .. k - 1 : /\ Review(j) \in Created /\ status[Review(j)] = "done"
                             /\ j \in Later => Rework(j) \in Created /\ status[Rework(j)] = "done"

LEMMA EarlierDone ==
  ASSUME TypesOK, GraphOK, StagingOK, ParentsOK, Reviewing
  PROVE  \A k \in Later : Rework(k) \in Created => Behind(k)
<1> USE DEF TypesOK
<1> DEFINE G == {m \in Nat : \A k \in Later : k <= m /\ Rework(k) \in Created => Behind(k)}
<1>1. Later \subseteq Nat \ {0, 1} /\ request.cycles \in Nat BY ReviewAssumption DEF GraphOK, Later
<1>2. 0 \in G BY <1>1
<1>3. ASSUME NEW m \in Nat, m \in G PROVE m + 1 \in G
  <2> SUFFICES ASSUME NEW k \in Later, k = m + 1, Rework(k) \in Created PROVE Behind(k)
    BY <1>1, <1>3
  <2>1. Review(k - 1) \in Created /\ status[Review(k - 1)] = "done"
    BY DEF StagingOK, HandlingOK, VerdictsOK, DoneAt
  <2>2. CASE k - 1 \in Later
    <3>1. Rework(k - 1) \in Created /\ parents[Review(k - 1)] = {Rework(k - 1)}
      BY <2>1, <2>2 DEF StagingOK, HandlingOK, ParentsOK
    <3>2. Review(k - 1) # Gate BY DEF Review, Gate
    <3>3. status[Rework(k - 1)] = "done" BY <2>1, <3>1, <3>2 DEF ParentsOK
    <3>4. Behind(k - 1) BY <1>1, <1>3, <2>2, <3>1
    <3>5. \A j \in 1 .. k - 1 : j = k - 1 \/ j \in 1 .. (k - 1) - 1 BY <1>1
    <3> QED BY <2>1, <3>1, <3>3, <3>4, <3>5 DEF Behind
  <2>3. CASE k - 1 \notin Later
    <3>1. k = 2 BY <1>1, <2>3 DEF Later
    <3>2. Review(1) \in Created /\ status[Review(1)] = "done" BY <2>1, <3>1
    <3>3. WorksDone BY <3>2, FirstReviewDone
    <3>4. 1 .. k - 1 = {1} /\ 1 \notin Later BY <1>1, <3>1
    <3> QED BY <3>2, <3>3, <3>4 DEF Behind
  <2> QED BY <2>2, <2>3
<1>4. \A m \in Nat : m \in G
  <2> HIDE DEF G
  <2> QED BY <1>2, <1>3, Induction
<1> QED BY <1>1, <1>4

\* Who else has committed in the worktree that t works in.
LEMMA TheOthersBefore ==
  ASSUME TypesOK, GraphOK, StagingOK, ParentsOK,
         NEW t \in Created, Kind(t) \in CodeKinds, status[t] # "done",
         NEW u \in DOMAIN claimed, Workspace(u) = Workspace(t)
  PROVE  Kind(t) = "rework" /\ (Kind(u) = "rework" => u[2] < t[2])
<1> USE DEF TypesOK
<1>1. u \in Created /\ status[u] = "done" /\ Kind(u) \in CodeKinds /\ u # t BY DEF VerdictsOK, DoneAt
<1>2. CASE u \in Ids(nodes) /\ t \in Ids(nodes) BY <1>1, <1>2 DEF Workspace
<1>3. CASE ~(u \in Ids(nodes) /\ t \in Ids(nodes))
  <2>1. Reviewing BY <1>1, <1>3 DEF GraphOK
  <2>2. \A x \in Created : Kind(x) \in CodeKinds <=> x \in Works(request) \cup {Rework(k) : k \in Later}
    BY <2>1, ReviewedNames
  <2>3. Works(request) \subseteq Ids(nodes) /\ \A x \in Works(request) : Kind(x) = "work"
    BY <2>1, ReviewedGraph DEF GraphOK
  <2>4. Later \subseteq Nat \ {0, 1} /\ \A k \in Later : Rework(k) \notin Ids(nodes) BY <2>1, ReviewedNames
  <2>5. CASE t \in Works(request)
    <3>1. PICK k \in Later : u = Rework(k) BY <1>1, <1>3, <2>2, <2>3, <2>5
    <3>2. WorksDone BY <1>1, <2>1, <3>1, EarlierDone DEF Behind
    <3> QED BY <2>5, <3>2 DEF WorksDone
  <2>6. ASSUME NEW k \in Later, t = Rework(k) PROVE Kind(t) = "rework" /\ (Kind(u) = "rework" => u[2] < t[2])
    <3>1. Kind(t) = "rework" /\ t[2] = k BY <2>6 DEF Kind, Rework
    <3>2. ASSUME Kind(u) = "rework" PROVE u[2] < t[2]
      <4>1. u \notin Works(request) BY <2>3, <3>2
      <4>2. PICK j \in Later : u = Rework(j) BY <1>1, <2>2, <4>1
      <4>3. u[2] = j /\ j # k BY <1>1, <2>6, <4>2 DEF Rework
      <4>4. ASSUME j > k PROVE FALSE
        <5>1. Behind(j) BY <1>1, <2>1, <4>2, EarlierDone
        <5>2. k \in 1 .. j - 1 BY <2>4, <4>4
        <5> QED BY <2>6, <5>1, <5>2 DEF Behind
      <4> QED BY <2>4, <3>1, <4>3, <4>4
    <3> QED BY <3>1, <3>2
  <2> QED BY <2>2, <2>5, <2>6
<1> QED BY <1>2, <1>3

LEMMA CommitsSteps ==
  ASSUME TypesOK, GraphOK, StagingOK, FreshOK, ParentsOK, CommitsOK, Next
  PROVE  CommitsOK'
<1> USE DEF TypesOK
<1>1. \A x : Workspace(x)' = Workspace(x) BY AskedFrame DEF asked, Workspace
<1>2. CASE UNCHANGED git
  BY <1>1, <1>2 DEF git, CommitsOK, Superseded
<1>3. ASSUME NEW t \in live, WorkerDies(t) PROVE CommitsOK'
  <2>1. UNCHANGED <<head, claimed>> /\ (~sloppy' => ~sloppy /\ dirty' = dirty) BY <1>3 DEF WorkerDies
  <2> QED BY <1>1, <2>1 DEF CommitsOK, Superseded
<1>4. ASSUME NEW t \in live, Reports(t) PROVE CommitsOK'
  <2> SUFFICES ASSUME ~sloppy' PROVE CommitsOK' BY DEF CommitsOK
  <2>0. PICK w : w = Workspace(t) OBVIOUS
  <2>1. PICK age \in {"new", "none", "old"}, clean \in BOOLEAN : WorkerReports(t, age, clean)
    BY <1>4 DEF Reports
  <2>2. ~sloppy /\ age = "new" /\ clean /\ Kind(t) \in CodeKinds /\ t \in live /\ status[t] = "running"
    BY <2>1 DEF WorkerReports, Done
  <2>3. head' = [head EXCEPT ![w] = @ + 1] BY <2>0, <2>1 DEF WorkerReports
  <2>4. claimed' = With(claimed, t, head[w] + 1) BY <2>0, <2>1, <2>2 DEF WorkerReports
  <2>5. dirty' = {}
    <3>1. dirty' = dirty \ {w} BY <2>0, <2>1, <2>2 DEF WorkerReports
    <3>2. dirty = {} BY <2>2 DEF CommitsOK
    <3> QED BY <3>1, <3>2
  <2>6. t \in Created /\ t \notin DOMAIN claimed /\ status[t] # "done"
    BY <2>2 DEF BoardOK, VerdictsOK, DoneAt
  <2>7. w \in DOMAIN head BY <2>0, <2>2, <2>6, WorkspaceIs
  <2>8. head[w] \in Nat BY <2>7 DEF GraphOK
  <2>9. DOMAIN claimed' = DOMAIN claimed \cup {t} BY <2>4 DEF With
  <2>10. claimed'[t] = head[w] + 1 BY <2>4 DEF With
  <2>11. \A u \in DOMAIN claimed : claimed'[u] = claimed[u] BY <2>4, <2>6 DEF With
  <2>12. head'[w] = head[w] + 1 BY <2>3, <2>7
  <2>13. \A x : x # w => head'[x] = head[x] BY <2>3
  <2>14. ASSUME NEW u \in DOMAIN claimed'
         PROVE  claimed'[u] # 0 /\ (claimed'[u] = head'[Workspace(u)] \/ Superseded(u)')
    <3>1. CASE u = t
      <4>1. claimed'[u] = head[w] + 1 BY <2>10, <3>1
      <4>2. head'[Workspace(u)] = head[w] + 1 BY <2>0, <2>12, <3>1
      <4> QED BY <2>8, <4>1, <4>2
    <3>2. CASE u \in DOMAIN claimed
      <4>1. claimed[u] # 0 /\ (claimed[u] = head[Workspace(u)] \/ Superseded(u))
        BY <2>2, <3>2 DEF CommitsOK
      <4>2. claimed'[u] = claimed[u] BY <2>11, <3>2
      <4>3. Superseded(u) => Superseded(u)' BY <1>1, <2>9 DEF Superseded
      <4>4. CASE Workspace(u) = w
        <5>1. Kind(t) = "rework" /\ (Kind(u) = "rework" => u[2] < t[2])
          BY <2>0, <2>2, <2>6, <3>2, <4>4, TheOthersBefore
        <5>2. Superseded(u)' BY <1>1, <2>0, <2>9, <4>4, <5>1 DEF Superseded
        <5> QED BY <4>1, <4>2, <5>2
      <4>5. CASE Workspace(u) # w
        <5>1. head'[Workspace(u)] = head[Workspace(u)] BY <2>13, <4>5
        <5> QED BY <4>1, <4>2, <4>3, <5>1
      <4> QED BY <4>4, <4>5
    <3> QED BY <2>9, <3>1, <3>2
  <2> QED BY <1>1, <2>5, <2>14 DEF CommitsOK
<1> QED BY <1>2, <1>3, <1>4, StepFrames DEF Frames

--------------------------------------------------------------------------------
(* The rounds that are staged.                                                     *)

LEMMA WholeRound ==
  ASSUME TypesOK, GraphOK, StagingOK, NEW a \in Actors, pc[a] \in Asks
  PROVE  Whole(seen[a] \cup {ReworkOf(about[a]), ReviewOf(about[a])})
<1> USE DEF TypesOK
<1>1. /\ Reviewing /\ about[a] \in seen[a] /\ about[a][2] + 1 \in Later /\ Whole(seen[a])
      /\ \E j \in 1 .. IF request.cycles > 1 THEN request.cycles ELSE 1 : about[a] = Review(j)
  BY DEF StagingOK, HandlingOK, Asks, Handling, Mapping
<1>2. request.cycles \in Nat BY ReviewAssumption DEF GraphOK
<1>3. PICK j \in Nat \ {0} : about[a] = Review(j) BY <1>1, <1>2
<1>4. PICK k \in Later : k = j + 1 /\ ReworkOf(about[a]) = Rework(k) /\ ReviewOf(about[a]) = Review(k)
  BY <1>1, <1>3 DEF Review, Rework, ReviewOf, ReworkOf
<1>5. PICK S : S = seen[a] OBVIOUS
<1>6. Numbered(S) /\ Review(j) \in S /\ Ids(nodes) \subseteq S BY <1>1, <1>3, <1>5 DEF Whole
<1>7. PICK n \in Nat : n = ReviewCount(S) /\ {t \in S : Kind(t) = "review"} = {Review(i) : i \in 1 .. n}
  BY <1>6 DEF Numbered
<1>8. j \in 1 .. n
  <2>1. Kind(Review(j)) = "review" BY DEF Kind, Review
  <2>2. PICK i \in 1 .. n : Review(j) = Review(i) BY <1>6, <1>7, <2>1
  <2> QED BY <2>2 DEF Review
<1>9. \A i \in Later : Rework(i) \in S <=> Review(i) \in S BY <1>1, <1>5 DEF Whole
<1> DEFINE T == S \cup {Rework(k), Review(k)}
<1>10. Numbered(T)
  <2>1. Kind(Review(k)) = "review" /\ Kind(Rework(k)) # "review" BY DEF Kind, Review, Rework
  <2>2. CASE k \in 1 .. n
    <3>1. Review(k) \in S /\ Rework(k) \in S BY <1>7, <1>9, <2>2
    <3>2. T = S BY <3>1
    <3> QED BY <1>6, <3>2
  <2>3. CASE k \notin 1 .. n
    <3>1. k = n + 1 BY <1>3, <1>4, <1>8, <2>3
    <3>2. {t \in T : Kind(t) = "review"} = {t \in S : Kind(t) = "review"} \cup {Review(k)} BY <2>1
    <3>3. 1 .. n + 1 = (1 .. n) \cup {n + 1} OBVIOUS
    <3>4. {Review(i) : i \in 1 .. n + 1} = {Review(i) : i \in 1 .. n} \cup {Review(n + 1)} BY <3>3
    <3>5. {t \in T : Kind(t) = "review"} = {Review(i) : i \in 1 .. n + 1} BY <1>7, <3>1, <3>2, <3>4
    <3> HIDE DEF T
    <3> QED BY <3>5, CountReviews
  <2> QED BY <2>2, <2>3
<1>11. ASSUME NEW i \in Later PROVE Rework(i) \in T <=> Review(i) \in T
  BY <1>9 DEF Review, Rework
<1>12. Ids(nodes) \subseteq T BY <1>6
<1>13. Whole(T)
  <2> HIDE DEF T
  <2> QED BY <1>10, <1>11, <1>12 DEF Whole
<1> QED BY <1>4, <1>5, <1>13

LEMMA PlanIsWhole ==
  ASSUME GraphOK
  PROVE  Whole(Ids(nodes)) /\ (Reviewing => Numbered(Ids(nodes)))
<1>1. CASE ~Reviewing BY <1>1 DEF Whole
<1>2. CASE Reviewing
  <2>1. \A k \in Later : Rework(k) \notin Ids(nodes) /\ Review(k) \notin Ids(nodes) BY <1>2, ReviewedNames
  <2>2. {t \in Ids(nodes) : Kind(t) = "review"} = {Review(1)}
    BY <1>2, ReviewedGraph DEF GraphOK, Kind, Review, Gate, Final
  <2>3. {Review(k) : k \in 1 .. 1} = {Review(1)} OBVIOUS
  <2>4. Numbered(Ids(nodes)) BY <2>2, <2>3, CountReviews
  <2> QED BY <2>1, <2>4 DEF Whole
<1> QED BY <1>1, <1>2

LEMMA RoundsSteps ==
  ASSUME TypesOK, GraphOK, StagingOK, FreshOK, ParentsOK, Next
  PROVE  /\ Reviewing /\ Created' # {} => Numbered(Created')
         /\ Reviewing => \A k \in Later :
                /\ Review(k) \in Created' => Rework(k) \in Created'
                /\ Rework(k) \in Created' => /\ Review(k - 1) \in DOMAIN verdict'
                                             /\ verdict'[Review(k - 1)] = "reject" /\ ~SelfReview
<1> USE DEF TypesOK
<1>1. Created \subseteq Created' BY TypesSteps
<1>2. DOMAIN verdict \subseteq DOMAIN verdict' /\ \A r \in DOMAIN verdict : verdict'[r] = verdict[r]
  BY VerdictsSteps
<1>3. ASSUME NEW a \in Actors, NEW k \in Later, Adds(a, k) PROVE Numbered(Created')
  <2>1. /\ Created # {} /\ Review(k - 1) \in Created /\ Reviewing /\ k \in Nat \ {0, 1}
        /\ Created' = Created \cup {Rework(k)} \/ Created' = Created \cup {Review(k)}
    BY <1>3, ReviewedNames DEF Adds, LocalsOK
  <2>2. PICK n \in Nat : {t \in Created : Kind(t) = "review"} = {Review(i) : i \in 1 .. n}
    BY <2>1 DEF StagingOK, Numbered
  <2>3. Kind(Review(k)) = "review" /\ Kind(Rework(k)) # "review" /\ Kind(Review(k - 1)) = "review"
    BY DEF Kind, Review, Rework
  <2>4. k - 1 \in 1 .. n
    <3>1. PICK i \in 1 .. n : Review(k - 1) = Review(i) BY <2>1, <2>2, <2>3
    <3> QED BY <3>1 DEF Review
  <2>5. CASE {t \in Created' : Kind(t) = "review"} = {t \in Created : Kind(t) = "review"}
    BY <2>2, <2>5, CountReviews
  <2>6. CASE Created' = Created \cup {Review(k)} /\ Review(k) \notin Created
    <3>1. k \notin 1 .. n BY <2>2, <2>6
    <3>2. k = n + 1 BY <2>1, <2>4, <3>1
    <3>3. {t \in Created' : Kind(t) = "review"} = {t \in Created : Kind(t) = "review"} \cup {Review(n + 1)}
      BY <2>3, <2>6, <3>2
    <3>4. 1 .. n + 1 = (1 .. n) \cup {n + 1} OBVIOUS
    <3>5. {Review(i) : i \in 1 .. n + 1} = {Review(i) : i \in 1 .. n} \cup {Review(n + 1)} BY <3>4
    <3>6. PICK m \in Nat : m = n + 1 OBVIOUS
    <3>7. PICK C : C = Created' OBVIOUS
    <3>8. {t \in C : Kind(t) = "review"} = {Review(i) : i \in 1 .. m}
      BY <2>2, <3>3, <3>5, <3>6, <3>7
    <3>9. Numbered(C) BY <3>8, CountReviews
    <3> QED BY <3>7, <3>9
  <2> QED BY <2>1, <2>3, <2>5, <2>6
<1>4. Reviewing /\ Created' # {} => Numbered(Created')
  <2>1. CASE Created' = Created BY <2>1 DEF StagingOK
  <2>2. CASE Release
    <3>1. Created' = Ids(nodes) BY <2>2, ReleaseMoves
    <3> QED BY <3>1, PlanIsWhole
  <2> QED BY <1>3, <2>1, <2>2, CreatedIs
<1>5. ASSUME Reviewing, NEW k \in Later
      PROVE  /\ Review(k) \in Created' => Rework(k) \in Created'
             /\ Rework(k) \in Created' => /\ Review(k - 1) \in DOMAIN verdict'
                                          /\ verdict'[Review(k - 1)] = "reject" /\ ~SelfReview
  <2>1. /\ Review(k) \in Created => Rework(k) \in Created'
        /\ Rework(k) \in Created => /\ Review(k - 1) \in DOMAIN verdict'
                                    /\ verdict'[Review(k - 1)] = "reject" /\ ~SelfReview
    BY <1>1, <1>2, <1>5 DEF StagingOK
  <2>2. Release => Rework(k) \notin Created' /\ Review(k) \notin Created'
    BY <1>5, ReleaseMoves, ReviewedNames
  <2>3. ASSUME NEW a \in Actors, NEW j \in Later, Adds(a, j)
        PROVE  /\ Review(k) \in Created' \ Created => Rework(k) \in Created'
               /\ Rework(k) \in Created' \ Created => /\ Review(k - 1) \in DOMAIN verdict'
                                                      /\ verdict'[Review(k - 1)] = "reject" /\ ~SelfReview
    <3>1. ASSUME Review(k) \in Created' \ Created PROVE k = j /\ Rework(k) \in Created'
      <4>0. Created' = Created \cup {Rework(j)} \/ (Created' = Created \cup {Review(j)} /\ Rework(j) \in Created)
        BY <2>3 DEF Adds
      <4>1. Created' = Created \cup {Review(j)} /\ Rework(j) \in Created
        BY <3>1, <4>0 DEF Rework, Review
      <4> QED BY <1>1, <3>1, <4>1 DEF Review
    <3>2. ASSUME Rework(k) \in Created' \ Created PROVE k = j BY <2>3, <3>2 DEF Adds, Rework, Review
    <3> QED BY <1>2, <2>3, <3>1, <3>2 DEF Adds
  <2> QED BY <2>1, <2>2, <2>3, CreatedIs
<1> QED BY <1>4, <1>5

LEMMA MappingSteps ==
  ASSUME TypesOK, GraphOK, StagingOK, FreshOK, ParentsOK, Next
  PROVE  Mapping(children)' /\ \A a \in Actors : Mapping(seen[a])'
<1> USE DEF TypesOK
<1>1. UNCHANGED <<request, nodes>> BY AskedFrame DEF asked
<1>2. \A S : Whole(S)' <=> Whole(S) BY <1>1 DEF Whole, Reviewing, Later
<1>3. children' \subseteq Created' /\ \A a \in Actors : seen'[a] \subseteq Created'
  BY TypesSteps DEF EventsOK, LocalsOK
<1>4. Whole(children) /\ \A a \in Actors : Whole(seen[a]) BY DEF StagingOK, Mapping
<1>5. \A a \in Actors : RecordRoot(a) => Whole(seen[a] \cup {ReworkOf(about[a]), ReviewOf(about[a])})
  BY WholeRound DEF RecordRoot, Asks
<1>6. Whole(Ids(nodes)) BY PlanIsWhole
<1>7. PICK C : C = children' OBVIOUS
<1>8. Whole(C)
  <2>1. CASE UNCHANGED children BY <1>4, <1>7, <2>1
  <2>2. CASE RecordPlan BY <1>6, <1>7, <2>2 DEF RecordPlan
  <2>3. ASSUME NEW a \in Actors, RecordRoot(a) PROVE Whole(C)
    <3>1. children' = children \/ children' = seen[a] \cup {ReworkOf(about[a]), ReviewOf(about[a])}
      BY <2>3 DEF RecordRoot, LocalsOK
    <3> QED BY <1>4, <1>5, <1>7, <2>3, <3>1
  <2> QED BY <2>1, <2>2, <2>3, StepFrames DEF Frames
<1>9. Mapping(children)' BY <1>1, <1>2, <1>3, <1>7, <1>8 DEF Mapping, Whole, Reviewing, Later
<1>10. ASSUME NEW a \in Actors PROVE Mapping(seen[a])'
  <2>1. PICK S : S = seen'[a] OBVIOUS
  <2>2. Whole({}) BY DEF Whole
  <2>3. Whole(S)
    <3>1. CASE seen'[a] = seen[a] BY <1>4, <2>1, <3>1
    <3>2. CASE Acts(a) BY <1>4, <1>5, <1>6, <2>1, <2>2, <3>2, LocalsMove
    <3>3. seen'[a] = seen[a] \/ Acts(a)
      <4>1. ASSUME NEW b \in Actors, Acts(b), b # a PROVE seen'[a] = seen[a] BY <4>1, OthersStay
      <4>2. ASSUME NEW t \in live, Toils(t) PROVE seen'[a] = seen[a] BY <4>2, ToilsStay
      <4>3. UNCHANGED vars => seen'[a] = seen[a] BY DEF vars, locals
      <4> QED BY <4>1, <4>2, <4>3, WhoActs
    <3> QED BY <3>1, <3>2, <3>3
  <2> QED BY <1>1, <1>3, <2>1, <2>3 DEF Mapping, Whole, Reviewing, Later
<1> QED BY <1>9, <1>10

LEMMA HandlingSteps ==
  ASSUME TypesOK, GraphOK, StagingOK, FreshOK, ParentsOK, Next, NEW a \in Actors
  PROVE  HandlingOK(a)'
<1> USE DEF TypesOK
<1>1. UNCHANGED <<request, nodes>> BY AskedFrame DEF asked
<1>2. Created \subseteq Created' BY TypesSteps
<1>3. DOMAIN verdict \subseteq DOMAIN verdict' /\ \A r \in DOMAIN verdict : verdict'[r] = verdict[r]
  BY VerdictsSteps
<1>4. SelfReview' = SelfReview /\ Reviewing' = Reviewing /\ Later' = Later
  BY <1>1 DEF SelfReview, Reviewing, Later
<1>5. HandlingOK(a) BY DEF StagingOK
<1>6. CASE pc'[a] = pc[a] /\ seen'[a] = seen[a] /\ about'[a] = about[a]
  <2>1. /\ pc[a] \in Handling => about[a] \in DOMAIN verdict' /\ verdict'[about[a]] = verdict[about[a]]
        /\ pc[a] \in Asks => ReworkOf(about[a]) \in Created'
        /\ pc[a] \in Asks \ {"review"} => ReviewOf(about[a]) \in Created'
    BY <1>2, <1>3, <1>5 DEF HandlingOK
  <2>2. Asks \subseteq Handling BY DEF Handling
  <2>3. ReworkOf(about[a])' = ReworkOf(about[a]) /\ ReviewOf(about[a])' = ReviewOf(about[a])
    BY <1>6 DEF ReworkOf, ReviewOf
  <2> QED BY <1>1, <1>4, <1>5, <1>6, <2>1, <2>2, <2>3 DEF HandlingOK
<1>7. CASE pc'[a] \notin InTick
  BY <1>7 DEF HandlingOK, InTick, Handling, Asks
<1>8. CASE pc'[a] = "commit"
  BY <1>8 DEF HandlingOK, Handling, Asks
<1>9. CASE pc'[a] \in {"advance", "quarantine", "wave", "close", "judge"} /\ seen'[a] # {}
  BY <1>9 DEF HandlingOK, Handling, Asks
<1>10. CASE OpenGate(a) \/ UnblockGate(a)
  <2>1. /\ pc[a] = "advance" /\ ~Settled(a) /\ pc'[a] \in {"accepted", "hold"}
        /\ pc'[a] = "accepted" <=> verdict[Latest(seen[a])] = "accept"
        /\ about'[a] = Latest(seen[a]) /\ seen'[a] = seen[a] /\ verdict' = verdict
    BY <1>10 DEF OpenGate, UnblockGate, Goto, LocalsOK, Accepting
  <2>2. /\ Reviewing /\ Latest(seen[a]) \in seen[a] \cap DOMAIN verdict
        /\ \E k \in 1 .. IF request.cycles > 1 THEN request.cycles ELSE 1 : Latest(seen[a]) = Review(k)
    BY <2>1, Unsettled
  <2>3. pc'[a] \notin Asks BY <2>1 DEF Asks
  <2> QED BY <1>1, <1>4, <2>1, <2>2, <2>3 DEF HandlingOK
<1>11. CASE ReblockGate(a)
  <2>1. pc[a] = "hold" /\ pc'[a] = "held" /\ about'[a] = about[a] /\ seen'[a] = seen[a] /\ verdict' = verdict
    BY <1>11 DEF ReblockGate, Goto, LocalsOK
  <2>2. pc[a] \in Handling /\ pc'[a] \notin Asks /\ pc[a] \in InTick \ {"commit"}
    BY <2>1 DEF Asks, Handling, InTick
  <2> QED BY <1>1, <1>4, <1>5, <2>1, <2>2 DEF HandlingOK
<1>12. CASE CreateRework(a)
  <2>1. PICK k \in Later : Adds(a, k) BY <1>12, Additions
  <2>2. /\ pc[a] = "advance" /\ ~Settled(a) /\ pc'[a] = "review" /\ seen'[a] = seen[a] /\ verdict' = verdict
        /\ about'[a] = Latest(seen[a])
    BY <1>12 DEF CreateRework, Goto, LocalsOK
  <2>3. /\ Reviewing /\ Latest(seen[a]) \in seen[a] \cap DOMAIN verdict
        /\ \E j \in 1 .. IF request.cycles > 1 THEN request.cycles ELSE 1 : Latest(seen[a]) = Review(j)
    BY <2>2, Unsettled
  <2>4. /\ Latest(seen[a]) = Review(k - 1) /\ verdict[Review(k - 1)] = "reject" /\ ~SelfReview
    BY <2>1, <2>2 DEF Adds
  <2>5. k \in Nat /\ Review(k - 1)[2] + 1 = k /\ ReworkOf(Review(k - 1)) = Rework(k)
    BY <2>3, ReviewedNames DEF Review, Rework, ReworkOf
  <2>6. Rework(k) \in Created'
    <3>1. CASE CreateReview(a) BY <2>2, <3>1 DEF CreateReview
    <3>2. CASE Created' = Created \cup {Rework(k)} BY <3>2
    <3> QED BY <2>1, <3>1, <3>2 DEF Adds
  <2>7. ReworkOf(about[a])' = Rework(k) BY <2>2, <2>4, <2>5 DEF ReworkOf
  <2> QED BY <1>1, <1>4, <2>2, <2>3, <2>4, <2>5, <2>6, <2>7 DEF HandlingOK
<1>13. CASE CreateReview(a) \/ LinkReview(a) \/ RecordRoot(a)
  <2>1. /\ pc[a] \in Asks /\ pc'[a] \in Asks /\ pc[a] \in InTick \ {"commit"}
        /\ about'[a] = about[a] /\ seen[a] \subseteq seen'[a] /\ verdict' = verdict
    <3>1. CASE CreateReview(a) BY <3>1 DEF CreateReview, Goto, LocalsOK, Asks, InTick
    <3>2. CASE LinkReview(a) BY <3>2 DEF LinkReview, Goto, LocalsOK, Asks, InTick
    <3>3. CASE RecordRoot(a)
      <4>1. pc[a] = "root" /\ pc'[a] = "round" /\ about' = about /\ verdict' = verdict
        BY <3>3 DEF RecordRoot, Goto, LocalsOK, board
      <4>2. seen'[a] = seen[a] \cup {ReworkOf(about[a]), ReviewOf(about[a])}
        BY <3>3 DEF RecordRoot, LocalsOK
      <4> QED BY <4>1, <4>2 DEF Asks, InTick
    <3> QED BY <1>13, <3>1, <3>2, <3>3
  <2>2. pc[a] \in Handling /\ pc'[a] # "accepted" /\ pc[a] # "accepted" BY <2>1 DEF Handling, Asks
  <2>3. ReviewOf(about[a]) \in Created'
    <3>1. CASE CreateReview(a)
      <4>1. PICK k \in Later : Adds(a, k) BY <3>1, Additions
      <4>2. about[a] = Review(k - 1) /\ Created' = Created \cup {Review(k)}
        BY <3>1, <4>1 DEF Adds, CreateReview, CreateRework
      <4>3. Reviewing BY <2>2, <1>5 DEF HandlingOK
      <4>4. ReviewOf(about[a]) = Review(k) BY <4>2, <4>3, ReviewedNames DEF Review, ReviewOf
      <4> QED BY <4>2, <4>4
    <3>2. CASE LinkReview(a) \/ RecordRoot(a)
      BY <1>2, <1>5, <3>2 DEF HandlingOK, LinkReview, RecordRoot, Asks
    <3> QED BY <1>13, <3>1, <3>2
  <2>4. ReworkOf(about[a])' = ReworkOf(about[a]) /\ ReviewOf(about[a])' = ReviewOf(about[a])
    BY <2>1 DEF ReworkOf, ReviewOf
  <2> QED BY <1>1, <1>2, <1>4, <1>5, <2>1, <2>2, <2>3, <2>4 DEF HandlingOK
<1>14. CASE NothingToDo(a) \/ RecordOutcome(a) \/ RecordRound(a) \/ Quarantine(a) \/ Close(a)
  <2>1. pc'[a] \in {"quarantine", "wave", "close", "judge"} /\ seen'[a] = seen[a] /\ pc[a] \in InTick \ {"commit"}
    BY <1>14 DEF NothingToDo, RecordOutcome, RecordRound, Quarantine, Close, Goto, LocalsOK, InTick
  <2> QED BY <1>5, <1>9, <2>1 DEF HandlingOK
<1>15. CASE Begin(a)
  BY <1>8, <1>9, <1>15 DEF Begin, Goto, LocalsOK
<1>16. CASE Judge(a) BY <1>8, <1>16 DEF Judge, Goto, LocalsOK
<1>17. CASE Commit(a)
  <2>1. pc'[a] \in {"idle", "end", "head"}
    <3>1. CASE a = Observer BY <1>17, <3>1, ReviewAssumption DEF Commit, Goto, LocalsOK
    <3>2. CASE a = Driver BY <1>17, <3>2, ReviewAssumption DEF Commit, Goto, LocalsOK
    <3> QED BY <3>1, <3>2 DEF Actors
  <2> QED BY <1>7, <2>1 DEF InTick
<1>18. CASE a = Driver /\ Drives
  <2>1. CASE Plan \/ Leave \/ Crash \/ Relaunch
    <3>1. pc'[a] \notin InTick
      BY <1>18, <2>1 DEF Plan, Reject, Release, RecordPlan, Leave, Crash, Relaunch, Goto, LocalsOK, InTick
    <3> QED BY <1>7, <3>1
  <2>2. CASE WaveOver BY <1>5, <1>9, <1>18, <2>2 DEF WaveOver, Goto, LocalsOK, HandlingOK, InTick
  <2>3. CASE Dispatching
    <3>1. pc'[a] = "head" \/ (pc'[a] = "close" /\ pc[a] = "wave" /\ seen'[a] = seen[a])
      BY <1>18, <2>3 DEF Dispatching, DispatchNone, DispatchSome, Dispatched, Goto, LocalsOK
    <3> QED BY <1>5, <1>7, <1>9, <3>1 DEF HandlingOK, InTick
  <2> QED BY <1>18, <2>1, <2>2, <2>3 DEF Drives
<1>19. ASSUME NEW b \in Actors, Acts(b), b # a PROVE pc'[a] = pc[a] /\ seen'[a] = seen[a] /\ about'[a] = about[a]
  BY <1>19, OthersStay
<1>20. ASSUME NEW t \in live, Toils(t) PROVE pc'[a] = pc[a] /\ seen'[a] = seen[a] /\ about'[a] = about[a]
  BY <1>20, ToilsStay
<1>21. UNCHANGED vars => pc'[a] = pc[a] /\ seen'[a] = seen[a] /\ about'[a] = about[a] BY DEF vars, locals
<1>22. Acts(a) => \/ OpenGate(a) \/ UnblockGate(a) \/ ReblockGate(a) \/ CreateRework(a)
                  \/ CreateReview(a) \/ LinkReview(a) \/ RecordRoot(a)
                  \/ NothingToDo(a) \/ RecordOutcome(a) \/ RecordRound(a) \/ Quarantine(a) \/ Close(a)
                  \/ Begin(a) \/ Judge(a) \/ Commit(a) \/ (a = Driver /\ Drives)
  BY DEF Acts, Tick, Advance
<1> QED BY <1>6, <1>10, <1>11, <1>12, <1>13, <1>14, <1>15, <1>16, <1>17, <1>18, <1>19, <1>20, <1>21,
           <1>22, WhoActs

LEMMA StagingSteps ==
  ASSUME TypesOK, GraphOK, StagingOK, FreshOK, ParentsOK, Next
  PROVE  StagingOK'
<1>1. UNCHANGED <<request, nodes>> BY AskedFrame DEF asked
<1>2. SelfReview' = SelfReview /\ Reviewing' = Reviewing /\ Later' = Later
  BY <1>1 DEF SelfReview, Reviewing, Later
<1> QED BY <1>2, RoundsSteps, MappingSteps, HandlingSteps DEF StagingOK

--------------------------------------------------------------------------------
(* What is completed is finished, and stays so.                                    *)

LEMMA LastReviewIs ==
  ASSUME GraphOK, StagingOK, Reviewing, Created # {}
  PROVE  /\ ReviewCount(Created) \in Nat \ {0}
         /\ LastReview = Review(ReviewCount(Created)) /\ LastReview \in Created
         /\ \A k \in Nat : Review(k) \in Created <=> k \in 1 .. ReviewCount(Created)
<1>1. PICK n \in Nat : n = ReviewCount(Created) /\ {t \in Created : Kind(t) = "review"} = {Review(k) : k \in 1 .. n}
  BY DEF StagingOK, Numbered
<1>2. \A k : Kind(Review(k)) = "review" /\ Review(k)[2] = k BY DEF Kind, Review
<1>3. \A k \in Nat : Review(k) \in Created <=> k \in 1 .. n
  <2> SUFFICES ASSUME NEW k \in Nat PROVE Review(k) \in Created <=> k \in 1 .. n OBVIOUS
  <2>1. ASSUME Review(k) \in Created PROVE k \in 1 .. n
    <3>1. PICK i \in 1 .. n : Review(k) = Review(i) BY <1>1, <1>2, <2>1
    <3> QED BY <3>1 DEF Review
  <2>2. k \in 1 .. n => Review(k) \in Created BY <1>1
  <2> QED BY <2>1, <2>2
<1>4. Review(1) \in Created BY ReviewedNames
<1>5. 1 \in 1 .. n BY <1>3, <1>4
<1>6. n \in 1 .. n BY <1>1, <1>5
<1>7. Review(n) \in Created /\ Kind(Review(n)) = "review" BY <1>1, <1>2, <1>3, <1>6
<1>8. \A u \in Created : Kind(u) = "review" => \E k \in 1 .. n : u = Review(k) BY <1>1
<1>9. \A u \in Created : Kind(u) = "review" => u[2] <= Review(n)[2] BY <1>2, <1>8
<1>10. LastReview \in Created /\ Kind(LastReview) = "review" /\ \A u \in Created : Kind(u) = "review" => u[2] <= LastReview[2]
  BY <1>7, <1>9 DEF LastReview
<1>11. PICK k \in 1 .. n : LastReview = Review(k) BY <1>8, <1>10
<1>12. k = n
  <2>1. n <= k BY <1>2, <1>7, <1>10, <1>11
  <2> QED BY <2>1
<1> QED BY <1>1, <1>3, <1>5, <1>10, <1>11, <1>12

LEMMA FinishedStays ==
  ASSUME TypesOK, GraphOK, StagingOK, FreshOK, ParentsOK, Finished, Next
  PROVE  Finished'
<1> USE DEF TypesOK
<1>1. UNCHANGED <<request, nodes>> BY AskedFrame DEF asked
<1>2. Created' = Created
  <2>1. ~Release BY DEF Release, FreshOK, Finished
  <2>2. ASSUME NEW a \in Actors, NEW k \in Later, Adds(a, k) PROVE Created' = Created
    <3>1. Reviewing /\ Review(k - 1) \in DOMAIN verdict /\ verdict[Review(k - 1)] = "reject" BY <2>2 DEF Adds
    <3>2. LastReview \in DOMAIN verdict /\ verdict[LastReview] = "accept"
      BY <3>1 DEF Finished, Reviewed, Reviewing, LastAccepted
    <3>3. k \in Nat \ {0, 1} /\ Review(k - 1) \in Created BY <3>1, ReviewedNames DEF VerdictsOK, DoneAt
    <3>4. PICK n \in Nat : /\ n = ReviewCount(Created) /\ LastReview = Review(n)
                           /\ \A j \in Nat : Review(j) \in Created <=> j \in 1 .. n
      BY <3>1, LastReviewIs DEF Finished
    <3>5. k - 1 \in 1 .. n /\ k - 1 # n BY <3>1, <3>2, <3>3, <3>4
    <3>6. Review(k) \in Created BY <3>3, <3>4, <3>5
    <3>7. Rework(k) \in Created BY <3>1, <3>6 DEF StagingOK
    <3> QED BY <2>2, <3>6, <3>7 DEF Adds
  <2> QED BY <2>1, <2>2, CreatedIs
<1>3. \A t \in Created : status'[t] = "done" BY BoardSteps DEF BoardMoves, Finished
<1>4. Reviewed' => LastAccepted' /\ Independent'
  <2>1. LastReview' = LastReview BY <1>2 DEF LastReview
  <2>2. Reviewed' = Reviewed /\ Independent' = Independent BY <1>1, <1>2 DEF Reviewed, Independent
  <2>3. LastAccepted => LastAccepted' BY <2>1, VerdictsSteps DEF LastAccepted
  <2> QED BY <2>2, <2>3 DEF Finished
<1>5. UNCHANGED git
  <2>1. \A t \in live : status[t] = "done" BY DEF Finished, BoardOK
  <2>2. ~\E t \in live : Reports(t) \/ WorkerDies(t)
    BY <2>1 DEF Reports, WorkerReports, Done, WorkerDies
  <2> QED BY <2>2, StepFrames DEF Frames
<1>6. \A t : Workspace(t)' = Workspace(t) BY <1>1 DEF Workspace
<1> QED BY <1>1, <1>2, <1>3, <1>4, <1>5, <1>6 DEF Finished, git, InGit

LEMMA NamesAreTasks ==
  ASSUME NEW g \in Graph, NEW t \in Ids(g)
  PROVE  t \in TaskName
<1>1. PICK i \in DOMAIN g : t = g[i].id BY DEF Ids
<1> DEFINE N == [id : TaskName, deps : SUBSET TaskName]
<1>2. g \in Seq(N) /\ i \in 1 .. Len(g) BY <1>1 DEF Graph
<1>3. g[i] \in N
  <2> HIDE DEF N
  <2> QED BY <1>2, ElementOfSeq
<1> QED BY <1>1, <1>3

\* The last of the tasks that committed in a worktree has its head for a commit.
LEMMA HeadIsClaimed ==
  ASSUME TypesOK, GraphOK, Created # {}, NEW S, S = Created, Failed(S) = {}, InGit,
         \A t \in Created : status[t] = "done", NEW w \in DOMAIN head
  PROVE  w \notin dirty /\ \E t \in DOMAIN claimed : Workspace(t) = w /\ claimed[t] = head[w]
<1> USE DEF TypesOK
<1>1. w \in Ids(nodes) /\ Kind(w) \in CodeKinds BY DEF GraphOK, Code
<1>2. w \in Created /\ Workspace(w) = w BY <1>1 DEF GraphOK, Workspace
<1>3. \A t \in Created : Kind(t) \in CodeKinds => t \in DOMAIN claimed BY DEF VerdictsOK, DoneAt
<1>4. \A t \in Created : Kind(t) \in CodeKinds => Committed(S, t) BY <1>3 DEF Failed
<1>5. w \in DOMAIN claimed /\ Committed(S, w) BY <1>1, <1>2, <1>3, <1>4
<1>6. w \notin dirty /\ (claimed[w] = head[w] \/ WorkedOn(S, w)) BY <1>2, <1>5 DEF Committed
<1>7. CASE WorkedOn(S, w)
  <2>1. PICK u \in Created : Kind(u) = "rework" /\ Workspace(u) = w /\ (Kind(w) = "rework" => w[2] < u[2])
    BY <1>2, <1>7 DEF WorkedOn
  <2>2. CASE ~Reviewing
    <3>1. u \in Ids(nodes) /\ u = w BY <2>1, <2>2 DEF GraphOK, Workspace
    <3>2. w[2] \in Nat
      <4>1. w \in TaskName BY <1>1, NamesAreTasks DEF GraphOK
      <4> QED BY <4>1 DEF TaskName
    <3> QED BY <2>1, <3>1, <3>2
  <2>3. CASE Reviewing
    <3>1. /\ \A t \in Created : Kind(t) = "rework" => \E k \in Later : t = Rework(k)
          /\ \A k \in Later : Rework(k) \notin Ids(nodes)
      BY <2>3, ReviewedNames
    <3>2. request.cycles \in Nat BY ReviewAssumption DEF GraphOK
    <3>3. PICK M : M = {k \in Later : Rework(k) \in Created} OBVIOUS
    <3>4. M \in SUBSET (1 .. request.cycles) /\ M # {} BY <2>1, <3>1, <3>2, <3>3 DEF Later
    <3>5. PICK m \in M : \A x \in M : x <= m BY <3>2, <3>4, MaxOfNumbers
    <3>6. /\ Workspace(Rework(m)) = w /\ Rework(m) \in Created
          /\ Kind(Rework(m)) = "rework" /\ Rework(m)[2] = m
      BY <2>1, <3>1, <3>3, <3>5 DEF Workspace, Kind, Rework
    <3>7. Kind(Rework(m)) \in CodeKinds BY <3>6 DEF CodeKinds
    <3>8. Rework(m) \in DOMAIN claimed /\ Committed(S, Rework(m)) BY <1>3, <1>4, <3>6, <3>7
    <3>9. ~WorkedOn(S, Rework(m))
      <4>1. ASSUME NEW v \in Created, Kind(v) = "rework" PROVE v[2] <= m
        <5>1. PICK k \in M : v = Rework(k) BY <3>1, <3>3, <4>1
        <5> QED BY <3>5, <5>1 DEF Rework
      <4>2. ASSUME NEW v \in Created, Kind(v) = "rework" PROVE ~(m < v[2])
        <5>1. PICK k \in M : v = Rework(k) BY <3>1, <3>3, <4>2
        <5>2. k \in Nat /\ m \in Nat BY <3>4
        <5> QED BY <3>5, <5>1, <5>2 DEF Rework
      <4> QED BY <3>6, <4>2 DEF WorkedOn
    <3>10. claimed[Rework(m)] = head[w] BY <3>6, <3>8, <3>9 DEF Committed
    <3> QED BY <1>6, <3>6, <3>8, <3>10
  <2> QED BY <2>2, <2>3
<1> QED BY <1>2, <1>5, <1>6, <1>7

LEMMA JudgedFinished ==
  ASSUME TypesOK, GraphOK, StagingOK, FreshOK, ParentsOK,
         NEW a \in Actors, pc[a] = "judge", Derived(a) = "completed"
  PROVE  Finished
<1> USE DEF TypesOK
<1>1. PICK S : S = seen[a] OBVIOUS
<1>2. Failed(S) = {} /\ Blocked(S) = {} /\ AllTerminal(S) /\ Accepted(S) BY <1>1 DEF Derived
<1>3. S # {} /\ S \subseteq Created /\ Whole(S) /\ Mapping(S)
  BY <1>1 DEF StagingOK, HandlingOK, Mapping, InTick
<1>4. Created # {} /\ Ids(nodes) \subseteq S BY <1>3 DEF Whole
<1>5. \A t \in S : status[t] = "done"
  <2> SUFFICES ASSUME NEW t \in S, status[t] = "blocked" PROVE FALSE BY <1>2 DEF AllTerminal
  <2>1. t = Gate /\ t \in Created BY <1>3 DEF ParentsOK
  <2>2. Kind(t) = "gate" /\ GateHeld(S) BY <1>2 DEF Blocked
  <2>3. Reviewing
    <3>1. CASE ~Reviewing BY <2>1, <2>2, <3>1 DEF GraphOK
    <3> QED BY <3>1
  <2> QED BY <1>2, <2>2, <2>3 DEF Accepted, GateHeld, Reviewing
<1>6. S = Created /\ (Reviewed => LastAccepted /\ Independent)
  <2>1. CASE ~Reviewing BY <1>3, <1>4, <2>1 DEF GraphOK, Reviewed, Reviewing
  <2>2. CASE Reviewing
    <3>1. PICK n \in Nat : n = ReviewCount(S) /\ {t \in S : Kind(t) = "review"} = {Review(k) : k \in 1 .. n}
      BY <1>3, <2>2 DEF Whole, Numbered
    <3>2. \A k : Kind(Review(k)) = "review" BY DEF Kind, Review
    <3>3. DoneReviews(S) # {} /\ verdict[Latest(S)] = "accept" /\ Independent
      BY <1>2, <2>2 DEF Accepted, Reviewing
    <3>4. PICK l \in 1 .. n : /\ Latest(S) = Review(l)
                              /\ \A j \in Nat : Review(j) \in DoneReviews(S) => j <= l
      BY <1>3, <2>2, <3>1, <3>3, LatestIs
    <3>5. l = n
      <4>1. n \in 1 .. n /\ n >= l BY <3>4
      <4>2. Review(n) \in S BY <3>1, <4>1
      <4>3. Review(n) \in DoneReviews(S) BY <1>5, <3>2, <4>2 DEF DoneReviews, DoneAt, ReviewKinds
      <4> QED BY <3>4, <4>1, <4>3
    <3>6. verdict[Review(n)] = "accept" BY <3>3, <3>4, <3>5
    <3>7. PICK c \in Nat \ {0} : /\ c = ReviewCount(Created) /\ LastReview = Review(c)
                                 /\ \A k \in Nat : Review(k) \in Created <=> k \in 1 .. c
      BY <1>4, <2>2, LastReviewIs
    <3>8. c = n
      <4>1. Review(n) \in S BY <3>1, <3>4
      <4>2. n \in 1 .. c BY <1>3, <3>7, <4>1
      <4>3. ASSUME c > n PROVE FALSE
        <5>1. Review(n + 1) \in Created BY <3>7, <4>3
        <5>2. n + 1 \in Later
          <6>1. Review(n + 1) \in Names /\ n + 1 # 1 BY <2>2, <3>4, <5>1, ReviewedNames
          <6>2. Kind(Review(n + 1)) = "review" BY <3>2
          <6>3. Review(n + 1) \notin Works(request) BY <2>2, <6>2, ReviewedGraph DEF GraphOK
          <6>4. \E k \in Later : Review(n + 1) = Review(k)
            BY <6>1, <6>3 DEF Names, Review, Rework, Gate, Final
          <6> QED BY <6>4 DEF Review
        <5>3. verdict[Review((n + 1) - 1)] = "reject" BY <2>2, <5>1, <5>2 DEF StagingOK
        <5> QED BY <3>6, <5>3
      <4> QED BY <4>2, <4>3
    <3>9. Created \subseteq S
      <4>1. \A k \in Later : Review(k) \in Created => Review(k) \in S /\ Rework(k) \in S
        <5> SUFFICES ASSUME NEW k \in Later, Review(k) \in Created PROVE Review(k) \in S /\ Rework(k) \in S
          OBVIOUS
        <5>1. k \in Nat BY <2>2, ReviewedNames
        <5>2. Review(k) \in S BY <3>1, <3>7, <3>8, <5>1
        <5> QED BY <1>3, <2>2, <5>2 DEF Whole
      <4>2. \A k \in Later : Rework(k) \in Created => Rework(k) \in S
        <5> SUFFICES ASSUME NEW k \in Later, Rework(k) \in Created PROVE Rework(k) \in S
          OBVIOUS
        <5>1. k \in Nat \ {0, 1} BY <2>2, ReviewedNames
        <5>2. Review(k - 1) \in Created /\ verdict[Review(k - 1)] = "reject"
          BY <2>2 DEF StagingOK, VerdictsOK, DoneAt
        <5>3. k - 1 \in 1 .. n /\ k - 1 # n BY <3>6, <3>7, <3>8, <5>1, <5>2
        <5>4. Review(k) \in Created BY <3>7, <3>8, <5>1, <5>3
        <5> QED BY <4>1, <5>4
      <4> QED BY <1>4, <2>2, <4>1, <4>2 DEF GraphOK
    <3>10. LastReview \in DOMAIN verdict
      <4>1. LastReview \in Created /\ Kind(LastReview) = "review" BY <1>4, <2>2, <3>2, <3>7, LastReviewIs
      <4>2. status[LastReview] = "done" BY <1>5, <3>9, <4>1
      <4> QED BY <4>1, <4>2 DEF VerdictsOK, DoneAt, ReviewKinds
    <3> QED BY <1>3, <3>3, <3>6, <3>7, <3>8, <3>9, <3>10 DEF LastAccepted
  <2> QED BY <2>1, <2>2
<1>7. InGit => dirty = {} /\ \A w \in DOMAIN head : \E t \in DOMAIN claimed : Workspace(t) = w /\ claimed[t] = head[w]
  <2>1. dirty \subseteq DOMAIN head BY DEF VerdictsOK
  <2>2. ASSUME InGit, NEW w \in DOMAIN head
        PROVE  w \notin dirty /\ \E t \in DOMAIN claimed : Workspace(t) = w /\ claimed[t] = head[w]
    BY <1>2, <1>4, <1>5, <1>6, <2>2, HeadIsClaimed
  <2> QED BY <2>1, <2>2
<1> QED BY <1>4, <1>5, <1>6, <1>7 DEF Finished

LEMMA CompletedSteps ==
  ASSUME TypesOK, GraphOK, StagingOK, FreshOK, ParentsOK, CompletedOK, Next
  PROVE  CompletedOK'
<1> USE DEF TypesOK
<1>1. Finished => Finished' BY FinishedStays
<1>2. ASSUME NEW a \in Actors, pc'[a] = "commit", judged'[a] = "completed" PROVE Finished'
  <2>1. CASE pc'[a] = pc[a] /\ judged'[a] = judged[a] BY <1>1, <1>2, <2>1 DEF CompletedOK
  <2>2. CASE Judge(a)
    <3>1. pc[a] = "judge" /\ Derived(a) = "completed" BY <1>2, <2>2 DEF Judge, LocalsOK
    <3>2. Finished BY <3>1, JudgedFinished
    <3> QED BY <1>1, <3>2
  <2>3. CASE Begin(a) BY <1>2, <2>3 DEF Begin, Goto, LocalsOK
  <2>4. CASE Acts(a) /\ ~Judge(a) /\ ~Begin(a)
    <3>1. CASE Tick(a) /\ ~Commit(a)
      BY <1>2, <2>4, <3>1 DEF Tick, Quarantine, Close, Advance, NothingToDo, OpenGate, UnblockGate,
            ReblockGate, RecordOutcome, CreateRework, CreateReview, LinkReview, RecordRoot, RecordRound, Goto, LocalsOK
    <3>2. CASE Commit(a)
      <4>1. judged' = [judged EXCEPT ![a] = "running"] BY <3>2 DEF Commit, Forget
      <4> QED BY <1>2, <4>1 DEF LocalsOK
    <3>3. CASE a = Driver /\ Drives
      BY <1>2, <3>3 DEF Drives, Plan, Reject, Release, RecordPlan, Leave, WaveOver, Dispatching, DispatchNone,
            DispatchSome, Dispatched, Crash, Relaunch, Goto, LocalsOK
    <3> QED BY <2>4, <3>1, <3>2, <3>3 DEF Acts
  <2>5. ASSUME NEW b \in Actors, Acts(b), b # a PROVE pc'[a] = pc[a] /\ judged'[a] = judged[a]
    BY <2>5, OthersStay
  <2>6. ASSUME NEW t \in live, Toils(t) PROVE pc'[a] = pc[a] /\ judged'[a] = judged[a] BY <2>6, ToilsStay
  <2>7. UNCHANGED vars => pc'[a] = pc[a] /\ judged'[a] = judged[a] BY DEF vars, locals
  <2> QED BY <2>1, <2>2, <2>3, <2>4, <2>5, <2>6, <2>7, WhoActs
<1>3. ASSUME state' = "completed" PROVE Finished'
  <2>1. CASE state = "completed" BY <1>1, <2>1 DEF CompletedOK
  <2>2. CASE state # "completed"
    <3>1. ~Reject /\ ~RecordPlan BY <1>3, <2>2, SafeSetStays DEF Reject, RecordPlan
    <3>2. ASSUME NEW a \in Actors, Commit(a) PROVE Finished
      <4>1. PICK s \in {state, "running", "review"} : state' = SafeSet(s, judged[a])
        BY <3>2, SafeSetStays DEF Commit
      <4>2. judged[a] = "completed" BY <1>3, <2>2, <4>1, SafeSetStays
      <4> QED BY <3>2, <4>2 DEF Commit, CompletedOK
    <3> QED BY <1>1, <1>3, <2>2, <3>1, <3>2, StepFrames DEF Frames
  <2> QED BY <2>1, <2>2
<1> QED BY <1>2, <1>3 DEF CompletedOK

--------------------------------------------------------------------------------
(* The invariant of the loop, whoever ticks.                                       *)

Base == TypesOK /\ GraphOK /\ StagingOK /\ FreshOK /\ ParentsOK /\ CommitsOK /\ CompletedOK

LEMMA InitBase == Init => Base
<1> SUFFICES ASSUME Init PROVE Base OBVIOUS
<1>1. /\ request \in Requests /\ Created = {} /\ DOMAIN parents = {} /\ DOMAIN verdict = {}
      /\ DOMAIN claimed = {} /\ live = {} /\ children = {} /\ handled = {} /\ dirty = {}
  BY DEF Init, NoTask, Created
<1>2. nodes = DefaultPlan(request) \/ (nodes \in Injected /\ ~Reviewing)
  BY DEF Init, Reviewing
<1>3. nodes \in Graph
  <2>1. nodes = DefaultPlan(request) => nodes \in Graph BY <1>1, ReviewAssumption, PlanShape
  <2>2. nodes \in Injected => nodes \in Graph BY ReviewAssumption
  <2> QED BY <1>2, <2>1, <2>2
<1>4. ~Reviewing => \A t \in Ids(nodes) : Kind(t) \notin {"review", "gate"}
  <2>1. CASE nodes \in Injected BY <2>1, ReviewAssumption
  <2>2. CASE nodes = DefaultPlan(request) /\ ~Reviewing
    <3>1. PlanRequest(request) BY <1>1, ReviewAssumption
    <3> DEFINE plan == DefaultPlan(request)
               join == IF Parallel(request) THEN {<<"integration", 1>>} ELSE {}
    <3>2. Ids(plan) = Works(request) \cup join \cup {} \cup {<<"final", 1>>}
      BY <2>2, <3>1, PlanShape DEF Reviewing
    <3> HIDE DEF plan
    <3>3. Ids(nodes) = Works(request) \cup join \cup {} \cup {<<"final", 1>>} BY <2>2, <3>2 DEF plan
    <3> QED BY <3>3 DEF Works, Kind
  <2> QED BY <1>2, <2>1, <2>2
<1>5. Reviewing => nodes = DefaultPlan(request) BY <1>2
<1>6. head \in [Code(Ids(nodes)) -> Nat \ {0}] BY DEF Init, Code
<1>7. GraphOK BY <1>1, <1>3, <1>4, <1>5, <1>6 DEF GraphOK
<1>8. BoardOK
  <2>1. status \in [Created -> Status] BY <1>1 DEF Init, NoTask
  <2> QED BY <1>1, <2>1 DEF BoardOK
<1>9. VerdictsOK
  <2>1. DoneAt(Created) = {} BY <1>1 DEF DoneAt
  <2>2. verdict \in [{t \in DoneAt(Created) : Kind(t) \in ReviewKinds} -> Verdicts]
    BY <2>1 DEF Init, NoTask
  <2> QED BY <1>1, <2>1, <2>2 DEF VerdictsOK, Init
<1>10. EventsOK BY <1>1 DEF EventsOK, Init, RunState
<1>11. LocalsOK BY DEF LocalsOK, Init, RunState
<1>12. \A a \in Actors : seen[a] = {} /\ pc[a] \in {"plan", "idle"} /\ judged[a] = "running" BY DEF Init
<1>13. StagingOK
  <2>1. Mapping({}) BY DEF Mapping, Whole
  <2>2. \A a \in Actors : HandlingOK(a) BY <1>12 DEF HandlingOK, InTick, Handling, Asks
  <2> QED BY <1>1, <1>12, <2>1, <2>2 DEF StagingOK
<1>14. FreshOK
  <2>1. Driver \in Actors /\ pc[Driver] = "plan" BY DEF Init, Actors
  <2>2. outcome = "open" BY DEF Init
  <2> QED BY <1>1, <1>12, <2>1, <2>2 DEF FreshOK
<1>15. ParentsOK BY <1>1 DEF ParentsOK
<1>16. CommitsOK BY <1>1 DEF CommitsOK
<1>17. CompletedOK BY <1>12 DEF CompletedOK, Init
<1> QED BY <1>7, <1>8, <1>9, <1>10, <1>11, <1>13, <1>14, <1>15, <1>16, <1>17 DEF Base, TypesOK

LEMMA BaseStays == Base /\ [Next]_vars => Base'
<1> SUFFICES ASSUME Base, [Next]_vars PROVE Base' OBVIOUS
<1>1. CASE Next
  BY <1>1, TypesSteps, GraphSteps, StagingSteps, FreshSteps, ParentsSteps, CommitsSteps, CompletedSteps DEF Base
<1>2. CASE UNCHANGED vars
  <2>1. TypesOK'
    BY <1>2 DEF vars, asked, git, board, events, locals, faults, Base, TypesOK, BoardOK, VerdictsOK, EventsOK,
                LocalsOK, Created, DoneAt, Workspace
  <2>2. GraphOK' BY <1>2 DEF vars, asked, git, board, Base, GraphOK, Created, Reviewing, Later, Code
  <2>3. StagingOK'
    BY <1>2 DEF vars, asked, board, events, locals, Base, StagingOK, HandlingOK, Mapping, Whole, Created, Reviewing, Later,
                SelfReview, ReworkOf, ReviewOf
  <2>4. FreshOK' BY <1>2 DEF vars, asked, board, events, locals, Base, FreshOK, Created
  <2>5. ParentsOK' BY <1>2 DEF vars, asked, board, Base, ParentsOK, Created, Reviewing, Later
  <2>6. CommitsOK' BY <1>2 DEF vars, asked, git, Base, CommitsOK, Superseded, Workspace
  <2>7. CompletedOK'
    BY <1>2 DEF vars, asked, git, board, locals, Base, CompletedOK, Finished, Created, Reviewed, LastAccepted,
                LastReview, Independent, InGit, Workspace
  <2> QED BY <2>1, <2>2, <2>3, <2>4, <2>5, <2>6, <2>7 DEF Base
<1> QED BY <1>1, <1>2

LEMMA Based == Spec => []Base
BY InitBase, BaseStays, PTL DEF Spec

\* Whatever is planned, and however its tasks are staged, linked, dispatched and recorded
\* by ticks of two actors that may interleave at every write: the board, the verdicts, the
\* event log and the commits keep to their types, and no event names a task or a review
\* that is not there.
THEOREM ReviewTypes == Spec => []ReviewTypeOK
<1>1. Base => ReviewTypeOK
  BY DEF Base, TypesOK, BoardOK, VerdictsOK, EventsOK, LocalsOK, ReviewTypeOK, Status
<1> QED BY <1>1, Based, PTL

\* _advance_review_gate never stages more reviews than max_review_cycles allows: not when a
\* rework is cut short and staged again, not when a status stages it at the same time.
THEOREM ReviewsStayInBudget == Spec => []ReviewsBounded
<1>1. Base => ReviewsBounded
  <2> SUFFICES ASSUME Base, Reviewed PROVE ReviewCount(Created) <= Max({1, request.cycles})
    BY DEF ReviewsBounded
  <2>1. PICK n \in Nat \ {0} : n = ReviewCount(Created) /\ LastReview = Review(n) /\ Review(n) \in Created
    BY LastReviewIs DEF Base, Reviewed, Reviewing
  <2>2. Review(n) \in Names /\ Reviewing BY <2>1, ReviewedNames DEF Base, Reviewed, Reviewing
  <2>3. Kind(Review(n)) = "review" BY DEF Kind, Review
  <2>4. Review(n) \notin Works(request) BY <2>2, <2>3, ReviewedGraph DEF Base, GraphOK
  <2>5. n = 1 \/ n \in Later BY <2>2, <2>4 DEF Names, Review, Rework, Gate, Final
  <2>6. request.cycles \in Nat BY ReviewAssumption DEF Base, GraphOK
  <2>7. n <= 1 \/ n <= request.cycles BY <2>5, <2>6 DEF Later
  <2>8. Max({1, request.cycles}) = IF request.cycles > 1 THEN request.cycles ELSE 1
    BY <2>6, MaxOfTwo
  <2> QED BY <2>1, <2>6, <2>7, <2>8
<1> QED BY <1>1, Based, PTL

\* A run that advance, dispatch and derive_final_state bring to completed has nothing left
\* to do, was accepted by the last of its reviews, and its worktrees are clean at commits
\* that its tasks reported; nothing that follows makes that untrue.
THEOREM CompletedRunIsAccepted == Spec => []CompletedIsAccepted
<1>1. Base => CompletedIsAccepted BY DEF Base, CompletedOK, Finished, CompletedIsAccepted
<1> QED BY <1>1, Based, PTL
================================================================================
