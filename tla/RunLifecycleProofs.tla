-------------------------- MODULE RunLifecycleProofs --------------------------
(***************************************************************************)
(* Proofs about RunLifecycle, for every set of commands and every bound:   *)
(* its states are well typed, a completed run is done, a run that no       *)
(* command is issued against follows its state machine, and a run against  *)
(* which only stops are issued is quiet once it is cancelled.              *)
(*                                                                         *)
(* The last two rest on what the launch hands over: until hca run is over  *)
(* there is no controller, and after that only the controller dispatches   *)
(* and, but for the stops, writes.                                         *)
(***************************************************************************)
EXTENDS RunLifecycle, SequenceTheorems, TLAPS

-----------------------------------------------------------------------------
(* Control flow: every process is at a label of its own, and has a change   *)
(* in hand while it is making one.                                         *)

ControlOK ==
    /\ pc \in [Actors -> PC]
    /\ frame \in [Actors -> Frame]
    /\ \A p \in Actors : pc[p] \in Setting => frame[p].todo # <<>>

DataOK ==
    /\ state \in RunState
    /\ task \in TaskStatus
    /\ worker \in BOOLEAN
    /\ question \in BOOLEAN
    /\ detached \in BOOLEAN
    /\ late \in BOOLEAN
    /\ crashes \in Nat

\* Only process p moves, to l.
Moves(p, l) == pc' = [pc EXCEPT ![p] = l]

\* The work is done and no worker is left.
SettledDone == task = "done" /\ ~worker

\* The changes Q end in a completion.
Finishes(Q) == \E i \in 1 .. Len(Q) : Q[i].to = "completed"

\* A process with these locals would complete the run: it has seen that the work
\* is done, or has the change in hand.
Claims(f) == (f.seen.task = "done" /\ ~f.seen.worker) \/ Finishes(f.todo)

\* The changes Q end in a cancellation.
Cancels(Q) == \E i \in 1 .. Len(Q) : Q[i].to = "cancelled"

\* A process with these locals cancels nothing, and launches no controller
\* without a look at the run.
Mild(f) == ~Cancels(f.todo) /\ f.cont # "launch" /\ f.raised # "launch"

\* Process p moves alone, and if it is mild it stays so: it goes to launch a
\* controller for a detached run only, and only a stop takes a cancellation in
\* hand.
Steady(p) ==
    /\ \A q \in Actors \ {p} : pc'[q] = pc[q] /\ frame'[q] = frame[q]
    /\ Mild(frame[p]) =>
          /\ pc'[p] = "launch" => detached
          /\ p \notin Stoppers => Mild(frame'[p])

\* Nobody comes to claim a completion.
Unclaimed == \A q \in Actors : Claims(frame'[q]) => Claims(frame[q])

LEMMA ActorsAreActors == Creator \in Actors /\ Controller \in Actors /\ Creator # Controller
BY LifecycleAssumption DEF Actors

\* The control locals of a command that is over are well typed.
LEMMA BlankTyped == Blank \in Frame
<1>1. <<>> \in Seq(Change)
  OBVIOUS
<1>2. [task |-> "none", worker |-> FALSE] \in Seen
  BY DEF Seen, TaskStatus
<1>3. "idle" \in Label /\ "queued" \in RunState
  BY DEF Label, RunState
<1> QED
  BY <1>1, <1>2, <1>3 DEF Blank, Frame

LEMMA EmptyFinishesNothing == ~Finishes(<<>>)
BY DEF Finishes

LEMMA BlankClaimsNothing == ~Claims(Blank) /\ \A st : ~Claims([Blank EXCEPT !.was = st])
BY EmptyFinishesNothing DEF Claims, Blank

LEMMA BlankIsMild == Mild(Blank) /\ \A st : Mild([Blank EXCEPT !.was = st])
BY DEF Mild, Cancels, Blank

\* A label is a place that is not inside set_state.
LEMMA LabelPlaces == \A l \in Label : l \in PC /\ l \notin Setting
BY DEF Label, PC, Setting

LEMMA EndIsLabel == \A p : EndOf(p) \in Label
BY DEF EndOf, Label

\* Going to a label keeps the locals.
LEMMA GotoLabel ==
    ASSUME ControlOK, NEW p \in Actors, NEW l \in Label, Goto(p, l)
    PROVE  ControlOK' /\ Moves(p, l) /\ Unclaimed
BY LabelPlaces DEF ControlOK, Goto, Moves, Unclaimed

\* Going on inside set_state keeps the change in hand.
LEMMA GotoSetting ==
    ASSUME ControlOK, NEW p \in Actors, NEW l \in Setting, Goto(p, l),
           pc[p] \in Setting
    PROVE  ControlOK' /\ Moves(p, l) /\ Unclaimed
BY DEF ControlOK, Goto, Moves, PC, Unclaimed

LEMMA GotoSteady ==
    ASSUME ControlOK, NEW p \in Actors, NEW l, Goto(p, l), l = "launch" => detached
    PROVE  Steady(p)
BY DEF ControlOK, Goto, Steady

LEMMA ReturnEnds ==
    ASSUME ControlOK, NEW p \in Actors, Return(p)
    PROVE  ControlOK' /\ Moves(p, EndOf(p)) /\ Unclaimed /\ Steady(p)
<1>1. ControlOK' /\ Moves(p, EndOf(p))
  BY LabelPlaces, EndIsLabel, BlankTyped DEF ControlOK, Return, Moves
<1>2. frame'[p] = Blank /\ \A q \in Actors \ {p} : frame'[q] = frame[q]
  BY DEF ControlOK, Return
<1>3. Steady(p)
  BY <1>1, <1>2, BlankIsMild DEF Steady, ControlOK, Moves, EndOf
<1> QED
  BY <1>1, <1>2, <1>3, BlankClaimsNothing DEF Unclaimed

\* Leaving set_state, with the changes made or raised.
LEMMA LeaveGoes ==
    ASSUME ControlOK, NEW p \in Actors, NEW l \in Label, Leave(p, l)
    PROVE  /\ ControlOK' /\ Moves(p, l) /\ Unclaimed
           /\ (Mild(frame[p]) => l # "launch") => Steady(p)
<1>1. [Blank EXCEPT !.was = frame[p].was] \in Frame
  BY BlankTyped DEF ControlOK, Frame
<1>2. ControlOK' /\ Moves(p, l)
  BY <1>1, LabelPlaces, BlankTyped DEF ControlOK, Leave, Moves
<1>3. /\ frame'[p] = Blank \/ frame'[p] = [Blank EXCEPT !.was = frame[p].was]
      /\ \A q \in Actors \ {p} : frame'[q] = frame[q]
  BY DEF ControlOK, Leave
<1>4. ASSUME Mild(frame[p]) => l # "launch"
      PROVE  Steady(p)
  BY <1>2, <1>3, <1>4, BlankIsMild DEF Steady, ControlOK, Moves
<1> QED
  BY <1>2, <1>3, <1>4, BlankClaimsNothing DEF Unclaimed

\* A command that begins to make changes has the first one in hand.
LEMMA PerformBegins ==
    ASSUME ControlOK, NEW p \in Actors, NEW Q \in Seq(Change), Q # <<>>,
           NEW l \in Label, NEW r \in Label, Perform(p, Q, l, r)
    PROVE  /\ ControlOK' /\ Moves(p, "set")
           /\ \A q \in Actors :
                 Claims(frame'[q]) => Claims(frame[q]) \/ (q = p /\ Finishes(Q))
           /\ (p \notin Stoppers => ~Cancels(Q)) /\ l # "launch" /\ r # "launch"
                 => Steady(p)
<1>1. [frame[p] EXCEPT !.todo = Q, !.cont = l, !.raised = r] \in Frame
  BY DEF ControlOK, Frame
<1>2. frame' = [frame EXCEPT ![p] = [frame[p] EXCEPT !.todo = Q, !.cont = l, !.raised = r]]
  BY DEF ControlOK, Perform, Frame
<1>3. frame' \in [Actors -> Frame]
  BY <1>1, <1>2 DEF ControlOK
<1>4. /\ frame'[p].todo = Q /\ frame'[p].seen = frame[p].seen
      /\ frame'[p].cont = l /\ frame'[p].raised = r
      /\ \A q \in Actors \ {p} : frame'[q] = frame[q]
  BY <1>2 DEF ControlOK, Frame
<1>5. pc' = [pc EXCEPT ![p] = "set"]
  BY DEF Perform
<1>6. \A q \in Actors :
         Claims(frame'[q]) => Claims(frame[q]) \/ (q = p /\ Finishes(Q))
  BY <1>4 DEF Claims
<1>7. ASSUME p \notin Stoppers => ~Cancels(Q), l # "launch", r # "launch"
      PROVE  Steady(p)
  <2>1. pc'[p] = "set" /\ \A q \in Actors \ {p} : pc'[q] = pc[q]
    BY <1>5 DEF ControlOK
  <2> QED
    BY <1>4, <1>7, <2>1 DEF Steady, Mild
<1> QED
  BY <1>3, <1>4, <1>5, <1>6, <1>7 DEF ControlOK, Moves, PC, Setting

\* The change in hand is a change.
LEMMA InHand ==
    ASSUME ControlOK, NEW p \in Actors, pc[p] \in Setting
    PROVE  /\ Head(frame[p].todo) \in Change
           /\ Tail(frame[p].todo) \in Seq(Change)
           /\ Len(frame[p].todo) \in Nat
           /\ Len(frame[p].todo) # 1 => Tail(frame[p].todo) # <<>>
<1>1. frame[p].todo \in Seq(Change) /\ frame[p].todo # <<>>
  BY DEF ControlOK, Frame
<1>2. /\ Head(frame[p].todo) \in Change
      /\ Tail(frame[p].todo) \in Seq(Change)
      /\ Len(Tail(frame[p].todo)) = Len(frame[p].todo) - 1
  BY <1>1, HeadTailProperties
<1>3. Len(frame[p].todo) \in Nat /\ Len(frame[p].todo) # 0
  BY <1>1, LenProperties, EmptySeq
<1>4. ASSUME Len(frame[p].todo) # 1
      PROVE  Tail(frame[p].todo) # <<>>
  <2>1. Len(Tail(frame[p].todo)) # 0
    BY <1>2, <1>3, <1>4
  <2> QED
    BY <2>1, EmptySeq
<1> QED
  BY <1>2, <1>3, <1>4

\* A change made or skipped: the next one, or on.
LEMMA PopGoes ==
    ASSUME ControlOK, NEW p \in Actors, pc[p] \in Setting, Pop(p)
    PROVE  ControlOK' /\ Unclaimed /\ Steady(p) /\ \E l \in Label \cup {"set"} : Moves(p, l)
<1>1. CASE Len(frame[p].todo) = 1
  <2>1. frame[p].cont \in Label
    BY DEF ControlOK, Frame
  <2> QED
    BY <1>1, <2>1, LeaveGoes DEF Pop, Mild
<1>2. CASE Len(frame[p].todo) # 1
  <2> DEFINE T == Tail(frame[p].todo)
  <2>1. T \in Seq(Change) /\ T # <<>>
    BY <1>2, InHand
  <2>2. [frame[p] EXCEPT !.todo = T] \in Frame
    BY <2>1 DEF ControlOK, Frame
  <2>3. frame' = [frame EXCEPT ![p] = [frame[p] EXCEPT !.todo = T]] /\ Moves(p, "set")
    BY <1>2 DEF Pop, ControlOK, Frame, Moves
  <2>4. frame' \in [Actors -> Frame]
    BY <2>2, <2>3 DEF ControlOK
  <2>5. /\ frame'[p].todo = T /\ frame'[p].seen = frame[p].seen
        /\ frame'[p].cont = frame[p].cont /\ frame'[p].raised = frame[p].raised
        /\ \A q \in Actors \ {p} : frame'[q] = frame[q]
    BY <2>3 DEF ControlOK, Frame
  <2>6. ControlOK'
    BY <2>1, <2>3, <2>4, <2>5 DEF ControlOK, Moves, PC, Setting
  <2>7. /\ Finishes(T) => Finishes(frame[p].todo)
        /\ Cancels(T) => Cancels(frame[p].todo)
    <3>1. frame[p].todo \in Seq(Change) /\ frame[p].todo # <<>>
      BY DEF ControlOK, Frame
    <3>2. /\ Len(T) = Len(frame[p].todo) - 1 /\ Len(T) \in Nat
          /\ \A i \in 1 .. Len(T) : T[i] = frame[p].todo[i + 1]
      BY <2>1, <3>1, HeadTailProperties, LenProperties
    <3>3. \A i \in 1 .. Len(T) : i + 1 \in 1 .. Len(frame[p].todo)
      BY <3>2
    <3> QED
      BY <3>2, <3>3 DEF Finishes, Cancels
  <2>8. Unclaimed
    BY <2>5, <2>7 DEF Unclaimed, Claims
  <2>9. Steady(p)
    <3>1. pc'[p] = "set" /\ \A q \in Actors \ {p} : pc'[q] = pc[q]
      BY <2>3 DEF ControlOK, Moves
    <3> QED
      BY <2>5, <2>7, <3>1 DEF Steady, Mild
  <2> QED
    BY <2>3, <2>6, <2>8, <2>9
<1> QED
  BY <1>1, <1>2

-----------------------------------------------------------------------------
(* What the steps of a process do.  All but the writes, the launch and the  *)
(* halt are quiet: the state stays, and the process does not get to write.  *)

Typed == ControlOK /\ DataOK

Working(p) == pc[p] \notin {"end", "off"}

\* What a completion rests on stays, and nobody claims one without it.
Kept == SettledDone => SettledDone'

Sound ==
    /\ Kept
    /\ \A q \in Actors : Claims(frame'[q]) => Claims(frame[q]) \/ SettledDone

Quiet(p) ==
    /\ Typed'
    /\ Sound
    /\ Steady(p)
    /\ state' = state
    /\ \E l \in PC \ {"write"} : Moves(p, l)

LEMMA LabelIsQuiet == \A l \in Label \cup {"set", "check"} : l \in PC \ {"write"}
BY DEF Label, PC, Setting

LEMMA OneChange == \A c \in Change : <<c>> \in Seq(Change) /\ <<c>> # <<>>
OBVIOUS

LEMMA UnclaimedSound ==
    ASSUME Unclaimed, Kept
    PROVE  Sound
BY DEF Unclaimed, Sound

LEMMA OneChangeFinishes == \A c \in Change : c.to # "completed" => ~Finishes(<<c>>)
BY DEF Finishes

LEMMA OneChangeCancels == \A c \in Change : c.to # "cancelled" => ~Cancels(<<c>>)
BY DEF Cancels

LEMMA ChangesTyped == \A st \in RunState : Set(st) \in Change /\ Try(st) \in Change
BY DEF Set, Try, Change

\* The board stays typed, whatever a dispatch does to it.
LEMMA DispatchTyped ==
    ASSUME task \in TaskStatus, worker \in BOOLEAN, DispatchTick
    PROVE  task' \in TaskStatus /\ worker' \in BOOLEAN /\ Kept
<1>1. CASE UNCHANGED boardVars
  BY <1>1 DEF boardVars, Kept, SettledDone
<1>2. CASE task = "ready" /\ task' = "running" /\ worker' = TRUE
  BY <1>2 DEF TaskStatus, Kept, SettledDone
<1>3. CASE task = "running" /\ task' \in {"ready", "blocked"} /\ UNCHANGED worker
  BY <1>3 DEF TaskStatus, Kept, SettledDone
<1> QED
  BY <1>1, <1>2, <1>3 DEF DispatchTick

LEMMA SafeLookStep ==
    ASSUME Typed, NEW p \in Actors, SafeLook(p)
    PROVE  Quiet(p) /\ Working(p)
<1> USE DEF Typed
<1>1. pc[p] \in Setting /\ DataOK' /\ state' = state /\ Working(p) /\ Kept
  BY DEF SafeLook, Setting, DataOK, boardVars, Working, Kept, SettledDone
<1>2. CASE Pop(p)
  BY <1>1, <1>2, PopGoes, UnclaimedSound, LabelIsQuiet DEF Quiet
<1>3. CASE Goto(p, "check")
  BY <1>1, <1>3, GotoSetting, GotoSteady, UnclaimedSound, LabelIsQuiet DEF Quiet, Setting
<1> QED
  BY <1>2, <1>3 DEF SafeLook

\* A process gets to write with a change that the table has.
LEMMA CheckTransitionStep ==
    ASSUME Typed, NEW p \in Actors, CheckTransition(p)
    PROVE  /\ Typed' /\ Working(p) /\ state' = state /\ Sound /\ Steady(p)
           /\ \/ Quiet(p)
              \/ /\ Moves(p, "write")
                 /\ frame' = frame
                 /\ CanTransition(state, Head(frame[p].todo).to)
<1> USE DEF Typed
<1>1. pc[p] \in Setting /\ DataOK' /\ state' = state /\ Working(p) /\ Kept
  BY DEF CheckTransition, Setting, DataOK, boardVars, Working, Kept, SettledDone
<1>2. CASE Goto(p, "write") /\ CanTransition(state, Head(frame[p].todo).to)
  <2>1. ControlOK' /\ Moves(p, "write") /\ Sound /\ Steady(p)
    BY <1>1, <1>2, GotoSetting, GotoSteady, UnclaimedSound DEF Setting
  <2> QED
    BY <1>1, <1>2, <2>1 DEF Goto
<1>3. CASE Leave(p, frame[p].raised)
  <2>1. frame[p].raised \in Label
    BY DEF ControlOK, Frame
  <2> QED
    BY <1>1, <1>3, <2>1, LeaveGoes, UnclaimedSound, LabelIsQuiet DEF Quiet, Mild
<1> QED
  BY <1>2, <1>3 DEF CheckTransition

LEMMA WriteStateStep ==
    ASSUME Typed, NEW p \in Actors, WriteState(p)
    PROVE  /\ Typed' /\ Working(p) /\ pc[p] = "write" /\ Sound /\ Steady(p)
           /\ state' = "cancelled" => Cancels(frame[p].todo)
           /\ state' = "completed" => Claims(frame[p])
           /\ state' = Head(frame[p].todo).to
           /\ \E l \in PC \ {"write"} : Moves(p, l)
<1> USE DEF Typed
<1>1. pc[p] \in Setting /\ pc[p] = "write" /\ Working(p) /\ Pop(p)
  BY DEF WriteState, Setting, Working
<1>2. Head(frame[p].todo).to \in RunState
  BY <1>1, InHand DEF Change
<1>3. DataOK' /\ state' = Head(frame[p].todo).to /\ Kept
  BY <1>2 DEF WriteState, DataOK, boardVars, Kept, SettledDone
<1>4. /\ Head(frame[p].todo).to = "completed" => Claims(frame[p])
      /\ Head(frame[p].todo).to = "cancelled" => Cancels(frame[p].todo)
  <2>1. frame[p].todo \in Seq(Change) /\ frame[p].todo # <<>>
    BY <1>1 DEF ControlOK, Frame
  <2>2. Head(frame[p].todo) = frame[p].todo[1] /\ 1 \in 1 .. Len(frame[p].todo)
    BY <2>1, HeadTailProperties, EmptySeq
  <2> QED
    BY <2>2 DEF Claims, Finishes, Cancels
<1> QED
  BY <1>1, <1>3, <1>4, PopGoes, UnclaimedSound, LabelIsQuiet

\* The evidence of typed statuses derives a state.
LEMMA DerivedTyped == \A e \in Seen : Derived(e) \in RunState
<1> SUFFICES ASSUME NEW e \in Seen PROVE Derived(e) \in RunState
  OBVIOUS
<1>1. e.task \in TaskStatus
  BY DEF Seen
<1>2. DerivedFromBoard(e) \in RunState
  BY <1>1 DEF DerivedFromBoard, TaskStatus, RunState
<1> QED
  BY <1>2 DEF Derived, RunState

LEMMA TickStep ==
    ASSUME Typed, NEW p \in Actors, Tick(p)
    PROVE  Quiet(p) /\ Working(p)
<1> USE DEF Typed
<1>1. CASE Dispatch(p)
  <2>1. DataOK' /\ state' = state /\ Working(p) /\ Kept /\ Goto(p, "evidence")
    BY <1>1, DispatchTyped DEF Dispatch, DataOK, Working
  <2> QED
    BY <2>1, GotoLabel, GotoSteady, UnclaimedSound, LabelIsQuiet DEF Quiet, Label
<1>2. CASE Evidence(p)
  <2> DEFINE e == [task |-> task, worker |-> worker]
  <2>1. DataOK' /\ state' = state /\ Working(p) /\ Moves(p, "sync") /\ Kept
    BY <1>2 DEF Evidence, DataOK, Working, boardVars, Moves, Kept, SettledDone
  <2>2. e \in Seen
    BY DEF DataOK, Seen
  <2>3. [frame[p] EXCEPT !.seen = e] \in Frame
    BY <2>2 DEF ControlOK, Frame
  <2>4. frame' = [frame EXCEPT ![p] = [frame[p] EXCEPT !.seen = e]]
    BY <1>2 DEF Evidence, ControlOK, Frame
  <2>5. frame' \in [Actors -> Frame] /\ \A q \in Actors \ {p} : frame'[q] = frame[q]
    BY <2>3, <2>4 DEF ControlOK
  <2>6. ControlOK'
    BY <2>1, <2>5, LabelPlaces DEF ControlOK, Moves, Label
  <2>7. /\ frame'[p].seen = e /\ frame'[p].todo = frame[p].todo
        /\ frame'[p].cont = frame[p].cont /\ frame'[p].raised = frame[p].raised
    BY <2>4 DEF ControlOK, Frame
  <2>8. Sound
    BY <2>1, <2>5, <2>7 DEF Sound, Claims, SettledDone
  <2>9. Steady(p)
    <3>1. pc'[p] = "sync" /\ \A q \in Actors \ {p} : pc'[q] = pc[q]
      BY <2>1 DEF ControlOK, Moves
    <3> QED
      BY <2>5, <2>7, <3>1 DEF Steady, Mild
  <2> QED
    BY <2>1, <2>6, <2>8, <2>9, LabelIsQuiet DEF Quiet, Label
<1>3. CASE SyncQuestions(p)
  <2>1. DataOK' /\ state' = state /\ Working(p) /\ Kept /\ Goto(p, "derive")
    BY <1>3, LifecycleAssumption DEF SyncQuestions, DataOK, Working, boardVars, Kept, SettledDone
  <2> QED
    BY <2>1, GotoLabel, GotoSteady, UnclaimedSound, LabelIsQuiet DEF Quiet, Label
<1>4. CASE Derive(p)
  <2>1. DataOK' /\ state' = state /\ Working(p) /\ Kept
    BY <1>4 DEF Derive, DataOK, Working, boardVars, Kept, SettledDone
  <2>2. Verdict(p) \in RunState
    BY DerivedTyped DEF Verdict, ControlOK, Frame, RunState
  <2>3. \A Q \in Changes(Verdict(p)) : Q \in Seq(Change) /\ Q # <<>>
    <3>1. \A c, d \in Change : <<c, d>> \in Seq(Change) /\ <<c, d>> # <<>>
      OBVIOUS
    <3>2. {Try("review"), Try("completed"), Try(Verdict(p))} \subseteq Change
      BY <2>2, ChangesTyped DEF RunState
    <3> QED
      BY <3>1, <3>2, OneChange DEF Changes
  <2>4. PICK Q \in Changes(Verdict(p)) :
          Perform(p, IF state = "planning" THEN <<Set("running")>> \o Q ELSE Q,
                  AfterCommit(p), CommitRaised(p))
    BY <1>4 DEF Derive
  <2> DEFINE R == IF state = "planning" THEN <<Set("running")>> \o Q ELSE Q
  <2>5. R \in Seq(Change) /\ R # <<>>
    <3>1. <<Set("running")>> \in Seq(Change) /\ <<Set("running")>> # <<>>
      BY OneChange, ChangesTyped DEF RunState
    <3> QED
      BY <2>3, <3>1, ConcatProperties, ConcatEqualIffEmpty
  <2>6. AfterCommit(p) \in Label \ {"launch"} /\ CommitRaised(p) \in Label \ {"launch"}
    BY DEF AfterCommit, CommitRaised, Label
  <2>7. ControlOK' /\ Moves(p, "set")
    BY <2>4, <2>5, <2>6, PerformBegins
  <2>8. Finishes(R) => Claims(frame[p])
    <3>1. Finishes(R) => Finishes(Q)
      <4>1. CASE state = "planning"
        <5>1. R = <<Set("running")>> \o Q /\ Len(<<Set("running")>>) = 1
          BY <4>1
        <5>2. <<Set("running")>> \in Seq(Change) /\ Q \in Seq(Change)
          BY <2>3, OneChange, ChangesTyped DEF RunState
        <5>3. /\ Len(R) = 1 + Len(Q) /\ Len(Q) \in Nat
              /\ R[1] = Set("running")
              /\ \A i \in 2 .. Len(R) : R[i] = Q[i - 1]
          BY <5>1, <5>2, ConcatProperties, LenProperties
        <5>4. R[1].to # "completed"
          BY <5>3 DEF Set
        <5>5. \A i \in 2 .. Len(R) : i - 1 \in 1 .. Len(Q)
          BY <5>3
        <5> QED
          BY <5>3, <5>4, <5>5 DEF Finishes
      <4>2. CASE state # "planning"
        BY <4>2
      <4> QED
        BY <4>1, <4>2
    <3>2. ASSUME Finishes(Q)
          PROVE  Verdict(p) = "completed"
      BY <3>2 DEF Changes, Finishes, Try
    <3>3. ASSUME Verdict(p) = "completed"
          PROVE  frame[p].seen.task = "done" /\ ~frame[p].seen.worker
      <4>1. frame[p].seen.task \in TaskStatus
        BY DEF ControlOK, Frame, Seen
      <4> QED
        BY <3>3, <4>1 DEF Verdict, Derived, DerivedFromBoard, TaskStatus
    <3> QED
      BY <3>1, <3>2, <3>3 DEF Claims
  <2>9. Unclaimed
    BY <2>4, <2>5, <2>6, <2>8, PerformBegins DEF Unclaimed
  <2>10. ~Cancels(R)
    <3>1. Verdict(p) # "cancelled"
      <4>1. frame[p].seen.task \in TaskStatus
        BY DEF ControlOK, Frame, Seen
      <4> QED
        BY <4>1 DEF Verdict, Derived, DerivedFromBoard, TaskStatus
    <3>2. ~Cancels(Q)
      BY <3>1 DEF Changes, Cancels, Try
    <3>3. CASE state = "planning"
      <4>1. R = <<Set("running")>> \o Q /\ Len(<<Set("running")>>) = 1
        BY <3>3
      <4>2. <<Set("running")>> \in Seq(Change) /\ Q \in Seq(Change)
        BY <2>3, OneChange, ChangesTyped DEF RunState
      <4>3. /\ Len(R) = 1 + Len(Q) /\ Len(Q) \in Nat
            /\ R[1] = Set("running")
            /\ \A i \in 2 .. Len(R) : R[i] = Q[i - 1]
        BY <4>1, <4>2, ConcatProperties, LenProperties
      <4>4. R[1].to # "cancelled"
        BY <4>3 DEF Set
      <4>5. \A i \in 2 .. Len(R) : i - 1 \in 1 .. Len(Q)
        BY <4>3
      <4> QED
        BY <3>2, <4>3, <4>4, <4>5 DEF Cancels
    <3> QED
      BY <3>2, <3>3
  <2>11. Steady(p)
    BY <2>4, <2>5, <2>6, <2>10, PerformBegins
  <2> QED
    BY <2>1, <2>7, <2>9, <2>11, UnclaimedSound, LabelIsQuiet DEF Quiet
<1> QED
  BY <1>1, <1>2, <1>3, <1>4 DEF Tick

\* The three ways in which most steps go on.
Onward(p) ==
    \/ \E l \in Label : (l = "launch" => detached) /\ Goto(p, l)
    \/ Return(p)
    \/ \E c \in Change, l, r \in Label \ {"launch"} :
          /\ c.to # "completed"
          /\ c.to = "cancelled" => p \in Stoppers
          /\ Perform(p, <<c>>, l, r)

LEMMA QuietOnward ==
    ASSUME Typed, NEW p \in Actors, DataOK', state' = state, Kept, Onward(p)
    PROVE  Quiet(p)
<1> USE DEF Typed
<1>1. CASE \E l \in Label : (l = "launch" => detached) /\ Goto(p, l)
  BY <1>1, GotoLabel, GotoSteady, UnclaimedSound, LabelIsQuiet DEF Quiet
<1>2. CASE Return(p)
  BY <1>2, ReturnEnds, EndIsLabel, UnclaimedSound, LabelIsQuiet DEF Quiet
<1>3. ASSUME NEW c \in Change, NEW l \in Label \ {"launch"}, NEW r \in Label \ {"launch"},
             c.to # "completed", c.to = "cancelled" => p \in Stoppers,
             Perform(p, <<c>>, l, r)
      PROVE  Quiet(p)
  <2>1. /\ <<c>> \in Seq(Change) /\ <<c>> # <<>> /\ ~Finishes(<<c>>)
        /\ p \notin Stoppers => ~Cancels(<<c>>)
    BY <1>3, OneChange, OneChangeFinishes, OneChangeCancels
  <2>2. ControlOK' /\ Moves(p, "set") /\ Unclaimed /\ Steady(p)
    BY <1>3, <2>1, PerformBegins DEF Unclaimed
  <2> QED
    BY <2>2, UnclaimedSound, LabelIsQuiet DEF Quiet
<1> QED
  BY <1>1, <1>2, <1>3 DEF Onward

LEMMA RunStep ==
    ASSUME Typed, NEW p \in Actors, Run(p), ~ExecuteTurn(p)
    PROVE  Quiet(p) /\ Working(p)
<1> USE DEF Typed
<1>1. CASE StartPlanning(p)
  <2>1. DataOK' /\ state' = state /\ Working(p) /\ Kept
    BY <1>1 DEF StartPlanning, DataOK, Working, boardVars, Kept, SettledDone
  <2>2. Onward(p)
    BY <1>1, ChangesTyped DEF StartPlanning, Onward, Label, RunState, Set, Try
  <2> QED
    BY <2>1, <2>2, QuietOnward
<1>2. CASE Plan(p)
  <2>1. DataOK' /\ state' = state /\ Working(p) /\ Kept
    BY <1>2 DEF Plan, DataOK, TaskStatus, Working, Kept, SettledDone
  <2>2. Onward(p)
    BY <1>2, ChangesTyped DEF Plan, Onward, Label, RunState, Set, Try
  <2> QED
    BY <2>1, <2>2, QuietOnward
<1>3. CASE PlanRejected(p)
  <2>1. DataOK' /\ state' = state /\ Working(p) /\ Kept
    BY <1>3 DEF PlanRejected, DataOK, Working, boardVars, Kept, SettledDone
  <2>2. Onward(p)
    BY <1>3, ChangesTyped DEF PlanRejected, Onward, Label, RunState, Set, Try
  <2> QED
    BY <2>1, <2>2, QuietOnward
<1>4. CASE RunRaises(p)
  <2>1. DataOK' /\ state' = state /\ Working(p) /\ Kept
    BY <1>4 DEF RunRaises, DataOK, Working, boardVars, Kept, SettledDone
  <2>2. Onward(p)
    BY <1>4 DEF RunRaises, Onward, Label
  <2> QED
    BY <2>1, <2>2, QuietOnward
<1>5. CASE Fail(p)
  <2>1. DataOK' /\ state' = state /\ Working(p) /\ Kept
    BY <1>5 DEF Fail, DataOK, Working, boardVars, Kept, SettledDone
  <2>2. Onward(p)
    BY <1>5, ChangesTyped DEF Fail, Onward, Label, RunState, Set, Try
  <2> QED
    BY <2>1, <2>2, QuietOnward
<1>6. CASE Start(p)
  <2>1. DataOK' /\ state' = state /\ Working(p) /\ Kept
    BY <1>6, DispatchTyped DEF Start, DataOK, Working, boardVars, Kept, SettledDone
  <2>2. Onward(p)
    BY <1>6 DEF Start, Onward, Label
  <2> QED
    BY <2>1, <2>2, QuietOnward
<1>7. CASE RecordDetached(p)
  <2>1. DataOK' /\ state' = state /\ Working(p) /\ Kept
    BY <1>7 DEF RecordDetached, DataOK, Working, boardVars, Kept, SettledDone
  <2>2. Onward(p)
    BY <1>7 DEF RecordDetached, Onward, Label
  <2> QED
    BY <2>1, <2>2, QuietOnward
<1>8. CASE ExecuteEnds(p)
  <2>1. DataOK' /\ state' = state /\ Working(p) /\ Kept
    BY <1>8 DEF ExecuteEnds, DataOK, Working, boardVars, Kept, SettledDone
  <2>2. Onward(p)
    BY <1>8 DEF ExecuteEnds, Onward, Label
  <2> QED
    BY <2>1, <2>2, QuietOnward
<1> QED
  BY <1>1, <1>2, <1>3, <1>4, <1>5, <1>6, <1>7, <1>8 DEF Run

LEMMA ControlStep ==
    ASSUME Typed, NEW p \in Actors, Ensure(p) \/ LaunchRaises(p) \/ Reconcile(p) \/ Control(p)
    PROVE  Quiet(p) /\ Working(p)
<1> USE DEF Typed
<1>1. CASE Ensure(p)
  <2>1. DataOK' /\ state' = state /\ Working(p) /\ Kept
    BY <1>1 DEF Ensure, DataOK, Working, boardVars, Kept, SettledDone
  <2>2. Onward(p)
    BY <1>1 DEF Ensure, Onward, Label
  <2> QED
    BY <2>1, <2>2, QuietOnward
<1>2. CASE LaunchRaises(p)
  <2>1. DataOK' /\ state' = state /\ Working(p) /\ Kept
    BY <1>2 DEF LaunchRaises, DataOK, Working, boardVars, Kept, SettledDone
  <2>2. Onward(p)
    BY <1>2 DEF LaunchRaises, Onward, Label
  <2> QED
    BY <2>1, <2>2, QuietOnward
<1>3. CASE Reconcile(p)
  <2>1. DataOK' /\ state' = state /\ Working(p) /\ Kept
    BY <1>3 DEF Reconcile, DataOK, Working, boardVars, Kept, SettledDone
  <2>2. Onward(p)
    BY <1>3 DEF Reconcile, Onward, Label, AfterCommit
  <2> QED
    BY <2>1, <2>2, QuietOnward
<1>4. CASE Poll(p)
  <2>1. DataOK' /\ state' = state /\ Working(p) /\ Kept
    BY <1>4 DEF Poll, DataOK, Working, boardVars, Kept, SettledDone
  <2>2. Onward(p)
    BY <1>4 DEF Poll, Onward, Label
  <2> QED
    BY <2>1, <2>2, QuietOnward
<1>5. CASE Polled(p)
  <2>1. DataOK' /\ state' = state /\ Working(p) /\ Kept
    BY <1>5 DEF Polled, DataOK, Working, boardVars, Kept, SettledDone
  <2>2. Onward(p)
    BY <1>5 DEF Polled, Onward, Label, NextRound
  <2> QED
    BY <2>1, <2>2, QuietOnward
<1>6. CASE Exit(p)
  <2>1. DataOK' /\ state' = state /\ Working(p) /\ Kept
    BY <1>6 DEF Exit, DataOK, Working, boardVars, Kept, SettledDone
  <2>2. Onward(p)
    BY <1>6 DEF Exit, Onward, Label
  <2> QED
    BY <2>1, <2>2, QuietOnward
<1>7. CASE Expire(p)
  <2>1. DataOK' /\ state' = state /\ Working(p) /\ Kept
    BY <1>7 DEF Expire, DataOK, Working, boardVars, Kept, SettledDone
  <2>2. Onward(p)
    BY <1>7, ChangesTyped DEF Expire, Onward, Label, RunState, Set, Try
  <2> QED
    BY <2>1, <2>2, QuietOnward
<1>8. CASE GiveUp(p)
  <2>1. DataOK' /\ state' = state /\ Working(p) /\ Kept
    BY <1>8 DEF GiveUp, DataOK, Working, boardVars, Kept, SettledDone
  <2>2. Onward(p)
    BY <1>8, ChangesTyped DEF GiveUp, Onward, Label, RunState, Set, Try
  <2> QED
    BY <2>1, <2>2, QuietOnward
<1> QED
  BY <1>1, <1>2, <1>3, <1>4, <1>5, <1>6, <1>7, <1>8 DEF Control

LEMMA AnswerStep ==
    ASSUME Typed, NEW p \in Actors, Release(p) \/ Redispatch(p) \/ Answer(p) \/ Resume(p)
    PROVE  Quiet(p) /\ Working(p)
<1> USE DEF Typed
<1>1. CASE Release(p)
  <2>1. DataOK' /\ state' = state /\ Working(p) /\ Kept
    BY <1>1 DEF Release, DataOK, TaskStatus, Working, Kept, SettledDone
  <2>2. Onward(p)
    BY <1>1 DEF Release, Onward, Label
  <2> QED
    BY <2>1, <2>2, QuietOnward
<1>2. CASE Redispatch(p)
  <2>1. DataOK' /\ state' = state /\ Working(p) /\ Kept
    BY <1>2, DispatchTyped DEF Redispatch, DataOK, Working, boardVars, Kept, SettledDone
  <2>2. Onward(p)
    BY <1>2 DEF Redispatch, Onward, Label
  <2> QED
    BY <2>1, <2>2, QuietOnward
<1>3. CASE Answer(p)
  <2>1. DataOK' /\ state' = state /\ Working(p) /\ Kept
    BY <1>3 DEF Answer, DataOK, Working, boardVars, Kept, SettledDone
  <2>2. Onward(p)
    BY <1>3 DEF Answer, Onward, Label
  <2> QED
    BY <2>1, <2>2, QuietOnward
<1>4. CASE Resume(p)
  <2>1. DataOK' /\ state' = state /\ Working(p) /\ Kept
    BY <1>4 DEF Resume, DataOK, Working, boardVars, Kept, SettledDone
  <2>2. Onward(p)
    BY <1>4, ChangesTyped DEF Resume, Onward, Label, RunState, Set, Try
  <2> QED
    BY <2>1, <2>2, QuietOnward
<1> QED
  BY <1>1, <1>2, <1>3, <1>4

LEMMA CleanedTyped ==
    ASSUME NEW p
    PROVE  /\ Cleaned(p) \in Change /\ Cleaned(p).to # "completed"
           /\ Cleaned(p).to = "cancelled" => p \in Stoppers
           /\ NotCleaned(p) \in Change /\ NotCleaned(p).to = "blocked"
           /\ WhenRaised(p) \in Label \ {"launch"} /\ WhenNotCleaned(p) \in Label \ {"launch"}
<1>1. {"cancelled", "failed", "blocked"} \subseteq RunState \ {"completed"}
  BY DEF RunState
<1>2. \A st : Set(st).to = st /\ Try(st).to = st
  BY DEF Set, Try
<1>3. /\ Cleaned(p) \in {Set("cancelled"), Set("failed"), Try("blocked")}
      /\ p \notin Stoppers => Cleaned(p) \in {Set("failed"), Try("blocked")}
  BY DEF Cleaned
<1>4. NotCleaned(p) \in {Set("blocked"), Try("blocked")}
  BY DEF NotCleaned
<1>5. WhenRaised(p) \in Label \ {"launch"} /\ WhenNotCleaned(p) \in Label \ {"launch"}
  BY DEF WhenRaised, WhenNotCleaned, Label
<1> QED
  BY <1>1, <1>2, <1>3, <1>4, <1>5, ChangesTyped

LEMMA CleanUpStep ==
    ASSUME Typed, NEW p \in Actors, CleanUp(p)
    PROVE  Quiet(p) /\ Working(p)
<1> USE DEF Typed
<1>1. CASE Terminate(p)
  <2>1. DataOK' /\ state' = state /\ Working(p) /\ Kept
    BY <1>1 DEF Terminate, DataOK, Working, boardVars, Kept, SettledDone
  <2>2. Onward(p)
    BY <1>1, CleanedTyped, EndIsLabel DEF Terminate, Onward, Label, EndOf
  <2> QED
    BY <2>1, <2>2, QuietOnward
<1>2. CASE TerminateUnsafe(p)
  <2>1. DataOK' /\ state' = state /\ Working(p) /\ Kept
    BY <1>2 DEF TerminateUnsafe, DataOK, Working, boardVars, Kept, SettledDone
  <2>2. Onward(p)
    BY <1>2, CleanedTyped, EndIsLabel DEF TerminateUnsafe, Onward, Label, EndOf
  <2> QED
    BY <2>1, <2>2, QuietOnward
<1>3. CASE Block(p)
  <2>1. DataOK' /\ state' = state /\ Working(p) /\ Kept
    BY <1>3 DEF Block, DataOK, TaskStatus, Dispatchable, Working, Kept, SettledDone
  <2>2. Onward(p)
    BY <1>3, CleanedTyped, EndIsLabel DEF Block, Onward, Label, EndOf
  <2> QED
    BY <2>1, <2>2, QuietOnward
<1> QED
  BY <1>1, <1>2, <1>3 DEF CleanUp

LEMMA ExecuteTurnStep ==
    ASSUME Typed, NEW p \in Actors, ExecuteTurn(p)
    PROVE  Quiet(p) /\ Working(p)
<1> USE DEF Typed
<1>1. Typed' /\ state' = state /\ Working(p) /\ Kept /\ Unclaimed
  BY DispatchTyped DEF ExecuteTurn, DataOK, ControlOK, Working, Unclaimed
<1>2. Moves(p, "execute") /\ Steady(p)
  BY DEF ExecuteTurn, Moves, ControlOK, Steady
<1> QED
  BY <1>1, <1>2, UnclaimedSound, LabelIsQuiet DEF Quiet, Label

\* A launch ends the command and leaves a controller.
LEMMA LaunchStep ==
    ASSUME Typed, NEW p \in Actors, Launch(p)
    PROVE  /\ Typed' /\ Working(p) /\ state' = state /\ Sound
           /\ pc' = [pc EXCEPT ![p] = EndOf(p),
                              ![Controller] = IF @ = "off" THEN "poll" ELSE @]
<1> USE DEF Typed
<1>1. DataOK' /\ state' = state /\ Working(p) /\ Kept
  BY DEF Launch, DataOK, Working, boardVars, Kept, SettledDone
<1>2. pc' = [pc EXCEPT ![p] = EndOf(p),
                      ![Controller] = IF @ = "off" THEN "poll" ELSE @]
  BY DEF Launch, AfterLaunch
<1>3. pc' \in [Actors -> PC]
  BY <1>2, ActorsAreActors, EndIsLabel, LabelPlaces DEF ControlOK, Label
<1>4. frame' \in [Actors -> Frame]
  BY BlankTyped DEF Launch, ControlOK
<1>5. ASSUME NEW q \in Actors, pc'[q] \in Setting
      PROVE  frame'[q].todo # <<>>
  <2>1. q # p /\ pc[q] = pc'[q]
    BY <1>2, <1>5, ActorsAreActors, EndIsLabel, LabelPlaces DEF ControlOK, Label, Setting, EndOf
  <2>2. frame'[q] = frame[q]
    BY <2>1 DEF Launch, ControlOK
  <2> QED
    BY <1>5, <2>1, <2>2 DEF ControlOK
<1>6. Unclaimed
  <2>1. frame'[p] = Blank /\ \A q \in Actors \ {p} : frame'[q] = frame[q]
    BY DEF Launch, ControlOK
  <2> QED
    BY <2>1, BlankClaimsNothing DEF Unclaimed
<1> QED
  BY <1>1, <1>2, <1>3, <1>4, <1>5, <1>6, UnclaimedSound DEF ControlOK

\* A stop takes the controller out, wherever it is.
LEMMA HaltStep ==
    ASSUME Typed, NEW p \in Actors, Halt(p)
    PROVE  Typed' /\ Working(p) /\ state' = state /\ Sound
<1> USE DEF Typed
<1>1. DataOK' /\ state' = state /\ Working(p) /\ Kept
  BY DEF Halt, DataOK, Working, boardVars, Kept, SettledDone
<1>2. CASE Goto(p, "terminate")
  BY <1>1, <1>2, GotoLabel, UnclaimedSound DEF Label
<1>3. CASE StopController(p)
  <2>1. pc' \in [Actors -> PC] /\ frame' \in [Actors -> Frame]
    BY <1>3, BlankTyped, LabelPlaces DEF StopController, ControlOK, Label
  <2>2. ASSUME NEW q \in Actors, pc'[q] \in Setting
        PROVE  frame'[q].todo # <<>>
    BY <1>3, <2>2 DEF StopController, ControlOK, Setting
  <2>3. Unclaimed
    <3>1. \A q \in Actors : frame'[q] = frame[q] \/ frame'[q] = Blank
      BY <1>3 DEF StopController, ControlOK
    <3> QED
      BY <3>1, BlankClaimsNothing DEF Unclaimed
  <2> QED
    BY <1>1, <2>1, <2>2, <2>3, UnclaimedSound DEF ControlOK
<1> QED
  BY <1>2, <1>3 DEF Halt

\* A client that begins a command.
LEMMA BeginStep ==
    ASSUME Typed, NEW p \in Actors, Begin(p)
    PROVE  Typed' /\ state' = state /\ Sound
<1> USE DEF Typed
<1>1. CASE Status(p)
  <2>1. DataOK' /\ state' = state /\ Kept /\ Goto(p, "reconcile")
    BY <1>1 DEF Status, DataOK, boardVars, Kept, SettledDone
  <2> QED
    BY <2>1, GotoLabel, UnclaimedSound DEF Label
<1>2. CASE Respond(p)
  <2>1. [frame[p] EXCEPT !.was = state] \in Frame
    BY DEF ControlOK, DataOK, Frame
  <2>2. frame' = [frame EXCEPT ![p] = [frame[p] EXCEPT !.was = state]]
    BY <1>2 DEF Respond, ControlOK, Frame
  <2>3. frame' \in [Actors -> Frame] /\ \A q \in Actors \ {p} : frame'[q] = frame[q]
    BY <2>1, <2>2 DEF ControlOK
  <2>4. frame'[p].todo = frame[p].todo /\ frame'[p].seen = frame[p].seen
    BY <2>2 DEF ControlOK, Frame
  <2>5. ControlOK'
    BY <1>2, <2>3, LabelPlaces DEF Respond, ControlOK, Label
  <2>6. Unclaimed
    BY <2>3, <2>4 DEF Unclaimed, Claims
  <2>7. DataOK' /\ state' = state /\ Kept
    BY <1>2 DEF Respond, DataOK, boardVars, Kept, SettledDone
  <2> QED
    BY <2>5, <2>6, <2>7, UnclaimedSound
<1>3. CASE Stop(p)
  <2>1. DataOK' /\ state' = state /\ Kept
    BY <1>3 DEF Stop, DataOK, boardVars, Kept, SettledDone
  <2>2. Onward(p)
    BY <1>3, ChangesTyped DEF Stop, Onward, Label, RunState, Set
  <2> QED
    BY <2>1, <2>2, QuietOnward DEF Quiet
<1> QED
  BY <1>1, <1>2, <1>3 DEF Begin

\* Nobody's step: the board, the clock, a crash of the controller.
LEMMA SurroundingsStep ==
    ASSUME Typed, WorkerStep \/ DeadlinePasses \/ Crash \/ Quiescent \/ UNCHANGED vars
    PROVE  /\ Typed' /\ state' = state /\ Sound
           /\ \/ pc' = pc /\ frame' = frame
              \/ Moves(Controller, "off")
<1> USE DEF Typed
<1>1. CASE WorkerStep
  <2>1. Typed' /\ state' = state /\ Kept /\ pc' = pc /\ frame' = frame
    BY <1>1 DEF WorkerStep, WorkerReports, WorkerExits, DataOK, ControlOK, TaskStatus,
                Kept, SettledDone
  <2> QED
    BY <2>1 DEF Sound
<1>2. CASE DeadlinePasses
  BY <1>2 DEF DeadlinePasses, DataOK, ControlOK, boardVars, Sound, Kept, SettledDone
<1>3. CASE Crash
  <2>1. DataOK' /\ state' = state /\ Moves(Controller, "off") /\ Kept
    BY <1>3 DEF Crash, DataOK, boardVars, Moves, Kept, SettledDone
  <2>2. pc' \in [Actors -> PC] /\ frame' \in [Actors -> Frame]
    BY <1>3, BlankTyped, LabelPlaces DEF Crash, ControlOK, Label
  <2>3. ASSUME NEW q \in Actors, pc'[q] \in Setting
        PROVE  frame'[q].todo # <<>>
    BY <1>3, <2>3 DEF Crash, ControlOK, Setting
  <2>4. Unclaimed
    <3>1. \A q \in Actors : frame'[q] = frame[q] \/ frame'[q] = Blank
      BY <1>3 DEF Crash, ControlOK
    <3> QED
      BY <3>1, BlankClaimsNothing DEF Unclaimed
  <2> QED
    BY <2>1, <2>2, <2>3, <2>4, UnclaimedSound DEF ControlOK
<1>4. CASE Quiescent \/ UNCHANGED vars
  BY <1>4 DEF Quiescent, vars, boardVars, DataOK, ControlOK, Sound, Kept, SettledDone
<1> QED
  BY <1>1, <1>2, <1>3, <1>4

\* What a process does once its command has begun.
LEMMA ProceedStep ==
    ASSUME Typed, NEW p \in Actors, Proceed(p)
    PROVE  /\ Working(p)
           /\ \/ Quiet(p)
              \/ CheckTransition(p) \/ WriteState(p) \/ Launch(p) \/ Halt(p)
BY SafeLookStep, CheckTransitionStep, WriteStateStep, TickStep, RunStep,
   ExecuteTurnStep, ControlStep, AnswerStep, CleanUpStep, LaunchStep, HaltStep
   DEF Proceed, SetState

-----------------------------------------------------------------------------
(* Type correctness                                                        *)

LEMMA InitTyped == Init => Typed
<1> SUFFICES ASSUME Init PROVE Typed
  OBVIOUS
<1>1. DataOK
  BY DEF Init, DataOK, RunState, TaskStatus
<1>2. pc \in [Actors -> Label] /\ frame \in [Actors -> Frame]
  BY BlankTyped DEF Init, Label
<1> QED
  BY <1>1, <1>2, LabelPlaces DEF Typed, ControlOK

LEMMA NextTyped == Typed /\ [Next]_vars => Typed'
<1> SUFFICES ASSUME Typed, [Next]_vars PROVE Typed'
  OBVIOUS
<1>1. ASSUME NEW p \in Actors, Proceed(p) PROVE Typed'
  BY <1>1, ProceedStep, CheckTransitionStep, WriteStateStep, LaunchStep, HaltStep
     DEF Quiet
<1>2. ASSUME NEW p \in Actors, Begin(p) PROVE Typed'
  BY <1>2, BeginStep
<1>3. CASE WorkerStep \/ DeadlinePasses \/ Crash \/ Quiescent \/ UNCHANGED vars
  BY <1>3, SurroundingsStep
<1> QED
  BY <1>1, <1>2, <1>3 DEF Next

LEMMA TypedAlways == Spec => []Typed
BY InitTyped, NextTyped, PTL DEF Spec

\* Every state of a run and of the processes around it is well typed, whatever
\* commands are issued.
THEOREM LifecycleTypeCorrect == Spec => []LifecycleTypeOK
<1>1. Typed => LifecycleTypeOK
  BY DEF Typed, ControlOK, DataOK, LifecycleTypeOK
<1> QED
  BY <1>1, TypedAlways, PTL

-----------------------------------------------------------------------------
(* A completed run is done                                                 *)

\* Whoever claims a completion is right, and stays right: work that is done with
\* no worker left is never taken up again.
ClaimsHold ==
    (state = "completed" \/ \E p \in Actors : Claims(frame[p])) => SettledDone

LEMMA InitClaims == Init => ClaimsHold
BY BlankClaimsNothing DEF Init, ClaimsHold

LEMMA NextClaims == Typed /\ ClaimsHold /\ [Next]_vars => ClaimsHold'
<1> SUFFICES ASSUME Typed, ClaimsHold, [Next]_vars PROVE ClaimsHold'
  OBVIOUS
<1>1. ASSUME Sound, state' = state \/ (state' = "completed" => SettledDone)
      PROVE  ClaimsHold'
  BY <1>1 DEF Sound, Kept, ClaimsHold
<1>2. ASSUME NEW p \in Actors, WriteState(p) PROVE ClaimsHold'
  <2>1. Sound /\ (state' = "completed" => Claims(frame[p]))
    BY <1>2, WriteStateStep
  <2> QED
    BY <1>1, <2>1 DEF ClaimsHold
<1>3. ASSUME NEW p \in Actors, Proceed(p) PROVE ClaimsHold'
  <2>1. CASE WriteState(p)
    BY <1>2, <2>1
  <2>2. CASE Quiet(p)
    BY <1>1, <2>2 DEF Quiet
  <2>3. CASE CheckTransition(p) \/ Launch(p) \/ Halt(p)
    BY <1>1, <2>3, CheckTransitionStep, LaunchStep, HaltStep
  <2> QED
    BY <1>3, <2>1, <2>2, <2>3, ProceedStep
<1>4. ASSUME NEW p \in Actors, Begin(p) PROVE ClaimsHold'
  BY <1>1, <1>4, BeginStep
<1>5. CASE WorkerStep \/ DeadlinePasses \/ Crash \/ Quiescent \/ UNCHANGED vars
  BY <1>1, <1>5, SurroundingsStep
<1> QED
  BY <1>3, <1>4, <1>5 DEF Next

\* Whatever status, answer and stop commands run against the run command and its
\* controller, and whenever the controller crashes, a completed run has its work
\* done and no worker left (_reconcile_from_evidence, derive_final_state).
THEOREM CompletionIsEarned == Spec => []CompletedIsDone
<1>1. ClaimsHold => CompletedIsDone
  BY DEF ClaimsHold, CompletedIsDone, SettledDone
<1>2. Spec => []ClaimsHold
  BY TypedAlways, InitClaims, NextClaims, PTL DEF Spec
<1> QED
  BY <1>1, <1>2, PTL

-----------------------------------------------------------------------------
(* A run without commands follows its state machine                        *)

\* Until the run command is over there is no controller.
Alone == pc[Creator] # "end" => pc[Controller] = "off"

\* A process about to write a state has checked the transition from this one.
Validated ==
    \A p \in Actors :
        pc[p] = "write" => CanTransition(state, Head(frame[p].todo).to)

OneWriter == Typed /\ Alone /\ Validated

\* The other of the two is at rest.
LEMMA OthersRest ==
    ASSUME Clients = {}, OneWriter, NEW p \in Actors, Working(p),
           NEW q \in Actors \ {p}
    PROVE  /\ pc[q] \in {"end", "off"}
           /\ \/ p = Creator /\ q = Controller /\ pc[q] = "off"
              \/ p = Controller /\ q = Creator /\ pc[q] = "end"
<1>1. Actors = {Creator, Controller}
  BY DEF Actors
<1>2. CASE p = Creator
  BY <1>1, <1>2, ActorsAreActors DEF OneWriter, Alone, Working
<1>3. CASE p = Controller
  BY <1>1, <1>3, ActorsAreActors DEF OneWriter, Alone, Working
<1> QED
  BY <1>1, <1>2, <1>3

\* So a process that moves leaves nobody about to write, but possibly itself.
LEMMA MoveKeepsWriters ==
    ASSUME Clients = {}, OneWriter, NEW p \in Actors, Working(p),
           NEW l \in PC, Moves(p, l)
    PROVE  /\ Alone'
           /\ \A q \in Actors \ {p} : pc'[q] # "write"
           /\ pc'[p] = l
<1>1. pc'[p] = l /\ \A q \in Actors \ {p} : pc'[q] = pc[q]
  BY DEF OneWriter, Typed, ControlOK, Moves
<1>2. \A q \in Actors \ {p} : pc'[q] # "write"
  BY <1>1, OthersRest
<1>3. CASE p = Creator
  BY <1>1, <1>3, OthersRest, ActorsAreActors DEF Alone
<1>4. CASE p = Controller
  BY <1>1, <1>4, OthersRest, ActorsAreActors DEF Alone
<1>5. p \in {Creator, Controller}
  BY DEF Actors
<1> QED
  BY <1>1, <1>2, <1>3, <1>4, <1>5

LEMMA InitOneWriter == Init => OneWriter
<1> SUFFICES ASSUME Init PROVE OneWriter
  OBVIOUS
<1>1. Typed
  BY InitTyped
<1>2. Alone
  BY ActorsAreActors DEF Init, Alone
<1>3. \A p \in Actors : pc[p] # "write"
  BY DEF Init
<1> QED
  BY <1>1, <1>2, <1>3 DEF OneWriter, Validated

\* Each step keeps the invariant, and takes the run along its machine.
LEMMA NextOneWriter ==
    ASSUME Clients = {}, OneWriter, [Next]_vars
    PROVE  OneWriter' /\ (state' = state \/ Machine!Next)
<1> USE DEF OneWriter
<1>1. Typed'
  BY NextTyped
<1>2. ASSUME NEW p \in Actors, Quiet(p), Working(p)
      PROVE  OneWriter' /\ state' = state
  <2>1. PICK l \in PC \ {"write"} : Moves(p, l)
    BY <1>2 DEF Quiet
  <2>2. Alone' /\ \A q \in Actors : pc'[q] # "write"
    BY <1>2, <2>1, MoveKeepsWriters
  <2> QED
    BY <1>1, <1>2, <2>2 DEF Validated, Quiet
<1>3. ASSUME NEW p \in Actors, CheckTransition(p)
      PROVE  OneWriter' /\ state' = state
  <2>1. CASE Quiet(p)
    BY <1>2, <1>3, <2>1, CheckTransitionStep
  <2>2. CASE /\ Moves(p, "write") /\ frame' = frame
             /\ CanTransition(state, Head(frame[p].todo).to)
    <3>1. state' = state /\ Working(p) /\ "write" \in PC
      BY <1>3, CheckTransitionStep DEF PC, Setting
    <3>2. Alone' /\ \A q \in Actors \ {p} : pc'[q] # "write"
      BY <2>2, <3>1, MoveKeepsWriters
    <3>3. CanTransition(state', Head(frame'[p].todo).to)
      BY <2>2, <3>1
    <3> QED
      BY <1>1, <3>1, <3>2, <3>3 DEF Validated
  <2> QED
    BY <1>3, <2>1, <2>2, CheckTransitionStep
<1>4. ASSUME NEW p \in Actors, WriteState(p)
      PROVE  OneWriter' /\ Machine!Next
  <2>1. Working(p) /\ pc[p] = "write" /\ state' = Head(frame[p].todo).to
    BY <1>4, WriteStateStep
  <2>2. PICK l \in PC \ {"write"} : Moves(p, l)
    BY <1>4, WriteStateStep
  <2>3. Alone' /\ \A q \in Actors : pc'[q] # "write"
    BY <2>1, <2>2, MoveKeepsWriters
  <2>4. CanTransition(state, state')
    BY <2>1 DEF Validated
  <2>5. state' \in RunState
    BY <1>1 DEF Typed, DataOK
  <2>6. Machine!Next
    BY <2>4, <2>5 DEF Machine!Next, Machine!CanTransition, CanTransition,
                      Machine!ValidTransitions, ValidTransitions, Machine!RunState, RunState
  <2> QED
    BY <1>1, <2>3, <2>6 DEF Validated
<1>5. ASSUME NEW p \in Actors, Launch(p)
      PROVE  OneWriter' /\ state' = state
  <2>1. Working(p) /\ state' = state
    BY <1>5, LaunchStep
  <2>2. pc' = [pc EXCEPT ![p] = EndOf(p),
                        ![Controller] = IF @ = "off" THEN "poll" ELSE @]
    BY <1>5, LaunchStep
  <2>3. \A q \in Actors \ {p} : pc[q] \in {"end", "off"}
    BY <2>1, OthersRest
  <2>4. \A q \in Actors : pc'[q] # "write"
    BY <2>2, <2>3, ActorsAreActors DEF Typed, ControlOK, EndOf
  <2>5. pc'[Creator] = "end"
    <3>1. CASE p = Creator
      BY <2>2, <3>1, ActorsAreActors DEF Typed, ControlOK, EndOf
    <3>2. CASE p = Controller
      BY <2>1, <2>2, <3>2, OthersRest, ActorsAreActors DEF Typed, ControlOK
    <3> QED
      BY <3>1, <3>2 DEF Actors
  <2> QED
    BY <1>1, <2>1, <2>4, <2>5 DEF Alone, Validated
<1>6. ASSUME NEW p \in Actors, Halt(p)
      PROVE  OneWriter' /\ state' = state
  <2>1. Working(p) /\ state' = state
    BY <1>6, HaltStep
  <2>2. CASE Goto(p, "terminate")
    <3>1. Moves(p, "terminate")
      BY <2>2 DEF Goto, Moves
    <3>2. Quiet(p)
      BY <1>1, <1>6, <2>1, <2>2, <3>1, HaltStep, GotoSteady, LabelIsQuiet
         DEF Quiet, Label, Typed
    <3> QED
      BY <1>2, <2>1, <3>2
  <2>3. CASE StopController(p)
    <3>1. \A q \in Actors : pc'[q] # "write"
      BY <2>1, <2>3, OthersRest DEF StopController, Typed, ControlOK
    <3>2. pc'[Controller] = "off"
      BY <2>3, ActorsAreActors DEF StopController, Typed, ControlOK
    <3> QED
      BY <1>1, <2>1, <3>1, <3>2 DEF Alone, Validated
  <2> QED
    BY <1>6, <2>2, <2>3 DEF Halt
<1>7. CASE \E p \in Actors : Begin(p)
  BY <1>7 DEF Begin, Status, Respond, Stop, Clients
<1>8. CASE WorkerStep \/ DeadlinePasses \/ Crash \/ Quiescent \/ UNCHANGED vars
  <2>1. state' = state
    BY <1>8, SurroundingsStep
  <2>2. CASE pc' = pc /\ frame' = frame
    BY <1>1, <2>1, <2>2 DEF Alone, Validated
  <2>3. CASE Moves(Controller, "off")
    <3>1. pc'[Controller] = "off" /\ pc'[Creator] = pc[Creator]
      BY <2>3, ActorsAreActors DEF Moves, Typed, ControlOK
    <3>2. ASSUME NEW q \in Actors, pc'[q] = "write"
          PROVE  CanTransition(state', Head(frame'[q].todo).to)
      <4>1. q = Creator /\ pc[Creator] = "write" /\ frame'[q] = frame[q]
        <5>1. q = Creator /\ pc[Creator] = "write"
          BY <3>1, <3>2 DEF Actors
        <5> QED
          BY <1>8, <5>1, ActorsAreActors
             DEF WorkerStep, DeadlinePasses, Crash, Quiescent, vars, Typed, ControlOK
      <4> QED
        BY <2>1, <4>1 DEF Validated
    <3> QED
      BY <1>1, <2>1, <3>1, <3>2 DEF Alone, Validated
  <2> QED
    BY <1>8, <2>2, <2>3, SurroundingsStep
<1>9. ASSUME NEW p \in Actors, Proceed(p)
      PROVE  OneWriter' /\ (state' = state \/ Machine!Next)
  BY <1>2, <1>3, <1>4, <1>5, <1>6, <1>9, ProceedStep
<1> QED
  BY <1>7, <1>8, <1>9 DEF Next

\* A run whose command and controller are left alone moves along the transition
\* table only: the check of set_state is the one that counts, although nothing
\* locks the run between check and write (RunStore.set_state, launch_controller).
THEOREM UndisturbedRunFollowsMachine ==
    ASSUME Clients = {}
    PROVE  Spec => TableRespected
<1>1. Init => Machine!Init
  BY DEF Init, Machine!Init
<1>2. OneWriter /\ [Next]_vars => OneWriter' /\ [Machine!Next]_state
  BY NextOneWriter
<1> QED
  BY <1>1, <1>2, InitOneWriter, PTL DEF Spec, TableRespected, Machine!Spec

-----------------------------------------------------------------------------
(* A cancelled run is quiet                                                *)

\* Stops alone are issued against the run, once hca run has returned.
StopsOnly == Patient /\ Observers = {} /\ Responders = {}

\* No worker is left, and no work to start one for.
NothingLeft == ~worker /\ task \notin Dispatchable

\* The run command is over and there is no controller.
AtRest == pc[Creator] = "end" /\ pc[Controller] = "off"

\* A stop is past the halt: it takes the workers out, or records how that went.
Clearing(s) ==
    \/ pc[s] \in {"terminate", "block"}
    \/ pc[s] \in Setting /\ frame[s].cont = "idle"

\* Where a stop is: it marks the run as stopping, halts the controller, clears the
\* board, and records the outcome, one change each.
StopOnCourse(s) ==
    \/ pc[s] \in {"idle", "halt", "terminate", "block"}
    \/ /\ pc[s] \in Setting
       /\ frame[s].raised = "idle"
       /\ \E c \in Change :
             /\ frame[s].todo = <<c>>
             /\ \/ frame[s].cont = "idle"
                \/ frame[s].cont = "halt" /\ c.to # "cancelled"

\* Only a detached run has a controller, and only once hca run is over.
LaunchedOK ==
    /\ Mild(frame[Creator]) /\ Mild(frame[Controller])
    /\ pc[Creator] = "launch" \/ pc[Controller] # "off" => detached
    /\ Alone

\* A stop comes after hca run; once it is past the halt there is no controller,
\* before it blocks the board it has taken the worker out, and it records a
\* cancellation when nothing is left.
StopOK(s) ==
    /\ StopOnCourse(s)
    /\ pc[s] # "idle" => pc[Creator] = "end"
    /\ Clearing(s) => pc[Controller] = "off"
    /\ pc[s] = "block" => ~worker
    /\ pc[s] \in Setting /\ Cancels(frame[s].todo) => NothingLeft

CancelledOK == state = "cancelled" => NothingLeft /\ AtRest

CancelOK == LaunchedOK /\ (\A s \in Stoppers : StopOK(s)) /\ CancelledOK

LEMMA OneChangeInHand ==
    ASSUME NEW c \in Change
    PROVE  /\ Len(<<c>>) = 1 /\ Head(<<c>>) = c
           /\ Cancels(<<c>>) <=> c.to = "cancelled"
BY DEF Cancels

LEMMA StopsAreClients ==
    ASSUME StopsOnly
    PROVE  /\ Actors = {Creator, Controller} \cup Stoppers
           /\ Creator \notin Stoppers /\ Controller \notin Stoppers
BY LifecycleAssumption DEF StopsOnly, Actors, Clients

LEMMA InitCancel == StopsOnly /\ Init => CancelOK
<1> SUFFICES ASSUME StopsOnly, Init PROVE CancelOK
  OBVIOUS
<1>1. \A p \in Actors : frame[p] = Blank
  BY DEF Init
<1>2. /\ pc[Creator] = "create" /\ pc[Controller] = "off"
      /\ \A s \in Stoppers : pc[s] = "idle"
  BY StopsAreClients, ActorsAreActors DEF Init
<1>3. LaunchedOK
  BY <1>1, <1>2, ActorsAreActors, BlankIsMild DEF LaunchedOK, Alone
<1>4. \A s \in Stoppers : StopOK(s)
  BY <1>2 DEF StopOK, StopOnCourse, Clearing, Setting
<1>5. CancelledOK
  BY DEF Init, CancelledOK
<1> QED
  BY <1>3, <1>4, <1>5 DEF CancelOK

\* The steps of the run command and of its controller.  Neither goes on once a
\* stop is past the halt, and neither cancels.
LEMMA LaunchersKeepCancel ==
    ASSUME StopsOnly, Typed, CancelOK, Typed',
           NEW p \in {Creator, Controller}, Proceed(p)
    PROVE  CancelOK'
<1> USE DEF Typed
<1>1. /\ p \in Actors /\ p \notin Stoppers /\ Working(p)
      /\ Creator # Controller /\ Creator \in Actors /\ Controller \in Actors
  BY ProceedStep, StopsAreClients, ActorsAreActors
<1>2. ~AtRest /\ state # "cancelled"
  BY <1>1 DEF AtRest, Working, CancelOK, CancelledOK
<1>3. detached => detached'
  BY <1>1 DEF Proceed, SetState, SafeLook, CheckTransition, WriteState, Tick, Dispatch,
     Evidence, SyncQuestions, Derive, Run, StartPlanning, Plan, PlanRejected, RunRaises,
     Fail, Start, RecordDetached, ExecuteTurn, ExecuteEnds, Ensure, Launch, LaunchRaises,
     Control, Poll, Polled, Exit, Expire, GiveUp, Reconcile, Release, Redispatch, Answer,
     Resume, Halt, CleanUp, Terminate, TerminateUnsafe, Block
<1>4. ASSUME NEW s \in Stoppers, pc'[s] = pc[s], frame'[s] = frame[s],
             pc[Creator] = "end" => pc'[Creator] = "end"
      PROVE  StopOK(s)'
  <2>1. s \in Actors /\ StopOK(s)
    BY StopsAreClients DEF CancelOK
  <2>2. CASE pc[s] = "idle"
    BY <1>4, <2>2 DEF StopOK, StopOnCourse, Clearing, Setting
  <2>3. CASE pc[s] # "idle"
    <3>1. pc[Creator] = "end" /\ pc'[Creator] = "end" /\ ~Clearing(s)
      BY <1>2, <1>4, <2>1, <2>3 DEF StopOK, AtRest
    <3>2. pc[s] = "halt" \/ (pc[s] \in Setting /\ ~Cancels(frame[s].todo))
      BY <2>1, <2>3, <3>1, OneChangeInHand DEF StopOK, StopOnCourse, Clearing
    <3>3. StopOnCourse(s)' /\ ~Clearing(s)'
      BY <1>4, <2>1, <3>1 DEF StopOK, StopOnCourse, Clearing
    <3> QED
      BY <1>4, <3>1, <3>2, <3>3 DEF StopOK, Setting
  <2> QED
    BY <2>2, <2>3
<1>5. pc[Creator] = "end" => p = Controller
  BY <1>1 DEF Working
<1>6. p = Creator => pc[Controller] = "off"
  BY <1>1 DEF CancelOK, LaunchedOK, Alone, Working
<1>7. ASSUME Steady(p), state' = "cancelled" => Cancels(frame[p].todo)
      PROVE  CancelOK'
  <2>1. Mild(frame[p]) /\ state' # "cancelled"
    BY <1>7 DEF CancelOK, LaunchedOK, Mild
  <2>2. /\ \A q \in Actors \ {p} : pc'[q] = pc[q] /\ frame'[q] = frame[q]
        /\ pc'[p] = "launch" => detached
        /\ Mild(frame'[p])
    BY <1>1, <1>7, <2>1 DEF Steady
  <2>3. LaunchedOK'
    <3>1. CASE p = Creator
      BY <1>1, <1>3, <1>6, <2>2, <3>1 DEF CancelOK, LaunchedOK, Alone
    <3>2. CASE p = Controller
      BY <1>1, <1>3, <2>2, <3>2 DEF CancelOK, LaunchedOK, Alone, Working
    <3> QED
      BY <3>1, <3>2
  <2>4. \A s \in Stoppers : StopOK(s)'
    BY <1>1, <1>4, <1>5, <2>2, StopsAreClients
  <2> QED
    BY <2>1, <2>3, <2>4 DEF CancelOK, CancelledOK
<1>8. CASE Launch(p)
  <2>1. /\ state' = state
        /\ pc' = [pc EXCEPT ![p] = EndOf(p),
                           ![Controller] = IF @ = "off" THEN "poll" ELSE @]
        /\ pc[p] = "launch" /\ detached' = detached
        /\ frame' = [frame EXCEPT ![p] = Blank]
    BY <1>1, <1>8, LaunchStep DEF Launch
  <2>2. detached
    BY <1>1, <2>1 DEF CancelOK, LaunchedOK
  <2>3. /\ pc'[Creator] = "end"
        /\ \A s \in Stoppers : pc'[s] = pc[s] /\ frame'[s] = frame[s]
    <3>1. p = Controller => pc[Creator] = "end"
      BY <1>1 DEF CancelOK, LaunchedOK, Alone, Working
    <3> QED
      BY <1>1, <2>1, <3>1, StopsAreClients DEF ControlOK, EndOf
  <2>4. LaunchedOK'
    <3>1. Mild(frame'[Creator]) /\ Mild(frame'[Controller])
      BY <1>1, <2>1, BlankIsMild DEF CancelOK, LaunchedOK, ControlOK
    <3> QED
      BY <2>1, <2>2, <2>3, <3>1 DEF LaunchedOK, Alone
  <2> QED
    BY <1>2, <1>4, <2>1, <2>3, <2>4 DEF CancelOK, CancelledOK
<1>9. CASE Halt(p)
  <2>1. state' = state /\ detached' = detached /\ pc[p] = "halt"
    BY <1>9 DEF Halt
  <2>2. CASE Goto(p, "terminate")
    BY <1>1, <1>2, <1>7, <2>1, <2>2, GotoSteady
  <2>3. CASE StopController(p)
    <3>1. /\ pc'[Controller] = "off"
          /\ \A s \in Stoppers : pc'[s] = pc[s] /\ frame'[s] = frame[s]
          /\ pc'[Creator] # "launch"
          /\ pc[Creator] = "end" => pc'[Creator] = "end"
      BY <1>1, <2>1, <2>3, StopsAreClients
         DEF StopController, ControlOK, CancelOK, LaunchedOK, Alone, Working
    <3>2. Mild(frame'[Creator]) /\ Mild(frame'[Controller])
      BY <1>1, <2>3, BlankIsMild DEF StopController, ControlOK, CancelOK, LaunchedOK
    <3>3. LaunchedOK'
      BY <3>1, <3>2 DEF LaunchedOK, Alone
    <3> QED
      BY <1>2, <1>4, <2>1, <3>1, <3>3 DEF CancelOK, CancelledOK
  <2> QED
    BY <1>9, <2>2, <2>3 DEF Halt
<1>10. CASE CheckTransition(p) \/ WriteState(p)
  BY <1>1, <1>2, <1>7, <1>10, CheckTransitionStep, WriteStateStep
<1>11. CASE Quiet(p)
  BY <1>2, <1>7, <1>11 DEF Quiet
<1> QED
  BY <1>1, <1>8, <1>9, <1>10, <1>11, ProceedStep

\* What a stop that is on its course may do.
LEMMA StopProceeds ==
    ASSUME NEW p \in Stoppers, StopOnCourse(p), Proceed(p)
    PROVE  \/ SafeLook(p) \/ CheckTransition(p) \/ WriteState(p)
           \/ Halt(p) \/ Terminate(p) \/ TerminateUnsafe(p) \/ Block(p)
<1>1. pc[p] \in {"idle", "halt", "terminate", "block", "set", "check", "write"}
  BY DEF StopOnCourse, Setting
<1>2. ~Tick(p)
  BY <1>1 DEF Tick, Dispatch, Evidence, SyncQuestions, Derive
<1>3. ~Run(p)
  BY <1>1 DEF Run, StartPlanning, Plan, PlanRejected, RunRaises, Fail, Start,
              RecordDetached, ExecuteTurn, ExecuteEnds
<1>4. ~Ensure(p) /\ ~Launch(p) /\ ~LaunchRaises(p) /\ ~Reconcile(p) /\ ~Control(p)
  BY <1>1 DEF Ensure, Launch, LaunchRaises, Reconcile, Control, Poll, Polled, Exit,
              Expire, GiveUp
<1>5. ~Release(p) /\ ~Redispatch(p) /\ ~Answer(p) /\ ~Resume(p)
  BY <1>1 DEF Release, Redispatch, Answer, Resume
<1> QED
  BY <1>2, <1>3, <1>4, <1>5 DEF Proceed, SetState, CleanUp

\* A step of a stop is never one towards work on the board.
LEMMA StopKeepsBoard ==
    ASSUME Typed, NEW p \in Stoppers, StopOnCourse(p), Proceed(p) \/ Stop(p)
    PROVE  /\ worker' => worker
           /\ NothingLeft => NothingLeft'
           /\ detached' = detached
<1>1. CASE SafeLook(p) \/ CheckTransition(p) \/ WriteState(p) \/ Halt(p) \/ Stop(p)
  BY <1>1 DEF SafeLook, CheckTransition, WriteState, Halt, Stop, boardVars, NothingLeft
<1>2. CASE Terminate(p) \/ TerminateUnsafe(p)
  BY <1>2 DEF Terminate, TerminateUnsafe, boardVars, NothingLeft
<1>3. CASE Block(p)
  BY <1>3 DEF Block, NothingLeft, Dispatchable
<1> QED
  BY <1>1, <1>2, <1>3, StopProceeds

\* The change of a stop that is made, or cannot be made, ends its stage.
LEMMA StopLeaves ==
    ASSUME StopsOnly, Typed, NEW p \in Stoppers, StopOK(p), pc[p] \in Setting,
           Pop(p) \/ Leave(p, frame[p].raised)
    PROVE  pc'[p] \in {"idle", "halt"}
<1>1. PICK c \in Change : frame[p].todo = <<c>>
  BY DEF StopOK, StopOnCourse, Setting
<1>2. frame[p].raised = "idle" /\ frame[p].cont \in {"idle", "halt"}
  BY DEF StopOK, StopOnCourse, Setting
<1>3. Len(frame[p].todo) = 1
  BY <1>1, OneChangeInHand
<1>4. p \in Actors
  BY StopsAreClients
<1> QED
  BY <1>2, <1>3, <1>4 DEF Pop, Leave, Typed, ControlOK

\* A change that a stop takes in hand.
LEMMA StopTakesChange ==
    ASSUME StopsOnly, Typed, NEW p \in Stoppers, NEW c \in Change, NEW l,
           Perform(p, <<c>>, l, "idle"), l = "idle" \/ (l = "halt" /\ c.to # "cancelled")
    PROVE  /\ StopOnCourse(p)' /\ pc'[p] = "set" /\ frame'[p].cont = l
           /\ Cancels(frame'[p].todo) => c.to = "cancelled"
<1>1. p \in Actors
  BY StopsAreClients
<1>2. pc'[p] = "set"
  BY <1>1 DEF Perform, Typed, ControlOK
<1>3. frame'[p].todo = <<c>> /\ frame'[p].cont = l /\ frame'[p].raised = "idle"
  BY <1>1 DEF Perform, Typed, ControlOK, Frame
<1> QED
  BY <1>2, <1>3, OneChangeInHand DEF StopOnCourse, Setting

\* A stop begins by itself.
LEMMA StopSteady ==
    ASSUME StopsOnly, Typed, NEW p \in Stoppers, Stop(p)
    PROVE  Steady(p)
<1>1. <<Set("stopping")>> \in Seq(Change) /\ <<Set("stopping")>> # <<>>
  BY OneChange, ChangesTyped DEF RunState
<1>2. "halt" \in Label \ {"launch"} /\ "idle" \in Label \ {"launch"}
  BY DEF Label
<1>3. p \in Actors
  BY StopsAreClients
<1> QED
  BY <1>1, <1>2, <1>3, PerformBegins DEF Stop, Typed

\* A stop goes its course.
LEMMA StopGoesOn ==
    ASSUME StopsOnly, Typed, NEW p \in Stoppers, StopOK(p), Proceed(p) \/ Stop(p)
    PROVE  /\ StopOnCourse(p)'
           /\ pc[Creator] = "end"
           /\ Clearing(p)' => Clearing(p) \/ Halt(p)
           /\ pc'[p] = "block" => ~worker'
           /\ pc'[p] \in Setting /\ Cancels(frame'[p].todo) => NothingLeft'
<1> USE DEF Typed
<1>1. p \in Actors /\ StopOnCourse(p) /\ p \notin {Creator, Controller}
  BY StopsAreClients DEF StopOK
<1>2. pc[Creator] = "end"
  <2>1. CASE pc[p] # "idle"
    BY <2>1 DEF StopOK
  <2>2. CASE pc[p] = "idle"
    <3>1. Stop(p)
      BY <1>1, <2>2, StopProceeds DEF SafeLook, CheckTransition, WriteState, Halt,
         Terminate, TerminateUnsafe, Block
    <3> QED
      BY <3>1 DEF Stop, MayBegin, StopsOnly
  <2> QED
    BY <2>1, <2>2
<1>3. Cleaned(p) = Set("cancelled") /\ NotCleaned(p) = Set("blocked")
  BY DEF Cleaned, NotCleaned
<1>4. EndOf(p) = "idle" /\ WhenRaised(p) = "idle" /\ WhenNotCleaned(p) = "idle"
  BY <1>1 DEF EndOf, WhenRaised, WhenNotCleaned
<1>5. \A st \in RunState : Set(st) \in Change /\ Set(st).to = st
  BY ChangesTyped DEF Set
<1>6. {"cancelled", "blocked", "stopping"} \subseteq RunState
  BY DEF RunState
<1>7. ASSUME pc[p] \in Setting, Pop(p) \/ Leave(p, frame[p].raised)
      PROVE  /\ StopOnCourse(p)' /\ ~Clearing(p)'
             /\ pc'[p] # "block" /\ pc'[p] \notin Setting
  <2>1. pc'[p] \in {"idle", "halt"}
    BY <1>7, StopLeaves
  <2> QED
    BY <2>1 DEF StopOnCourse, Clearing, Setting
<1>8. ASSUME pc[p] \in Setting, NEW l \in Setting, Goto(p, l), NothingLeft => NothingLeft'
      PROVE  /\ StopOnCourse(p)' /\ (Clearing(p)' => Clearing(p))
             /\ pc'[p] # "block"
             /\ pc'[p] \in Setting /\ Cancels(frame'[p].todo) => NothingLeft'
  <2>1. pc'[p] = l /\ frame'[p] = frame[p]
    BY <1>1, <1>8 DEF Goto, ControlOK
  <2> QED
    BY <1>1, <1>8, <2>1 DEF StopOK, StopOnCourse, Clearing, Setting
<1>9. CASE SafeLook(p) \/ CheckTransition(p) \/ WriteState(p)
  <2>1. pc[p] \in Setting
    BY <1>9 DEF SafeLook, CheckTransition, WriteState, Setting
  <2>2. NothingLeft => NothingLeft'
    BY <1>1, StopKeepsBoard
  <2>3. Pop(p) \/ Leave(p, frame[p].raised) \/ \E l \in Setting : Goto(p, l)
    BY <1>9 DEF SafeLook, CheckTransition, WriteState, Setting
  <2> QED
    BY <1>2, <1>7, <1>8, <2>1, <2>2, <2>3
<1>10. CASE Halt(p)
  <2>1. pc'[p] = "terminate"
    BY <1>1, <1>10 DEF Halt, Goto, StopController, ControlOK
  <2> QED
    BY <1>2, <1>10, <2>1 DEF StopOnCourse, Setting
<1>11. CASE Terminate(p)
  <2>1. pc[p] = "terminate" /\ ~worker' /\ task' = task
    BY <1>11 DEF Terminate
  <2>2. CASE task = "none"
    <3>1. Perform(p, <<Set("cancelled")>>, "idle", "idle")
      BY <1>3, <1>4, <1>11, <2>2 DEF Terminate
    <3>2. NothingLeft'
      BY <2>1, <2>2 DEF NothingLeft, Dispatchable
    <3> QED
      BY <1>2, <1>5, <1>6, <2>1, <3>1, <3>2, StopTakesChange DEF Clearing
  <2>3. CASE task # "none"
    <3>1. pc'[p] = "block"
      BY <1>1, <1>11, <2>3 DEF Terminate, Goto, ControlOK
    <3> QED
      BY <1>2, <2>1, <3>1 DEF StopOnCourse, Setting, Clearing
  <2> QED
    BY <2>2, <2>3
<1>12. CASE TerminateUnsafe(p)
  <2>1. pc[p] = "terminate" /\ Perform(p, <<Set("blocked")>>, "idle", "idle")
    BY <1>3, <1>4, <1>12 DEF TerminateUnsafe
  <2> QED
    BY <1>2, <1>5, <1>6, <2>1, StopTakesChange DEF Clearing
<1>13. CASE Block(p)
  <2>1. pc[p] = "block" /\ Perform(p, <<Set("cancelled")>>, "idle", "idle")
    BY <1>3, <1>4, <1>13 DEF Block
  <2>2. NothingLeft'
    BY <1>13, <2>1 DEF Block, StopOK, NothingLeft, Dispatchable
  <2> QED
    BY <1>2, <1>5, <1>6, <2>1, <2>2, StopTakesChange DEF Clearing
<1>14. CASE Stop(p)
  <2>1. Perform(p, <<Set("stopping")>>, "halt", "idle")
    BY <1>14 DEF Stop
  <2>2. /\ StopOnCourse(p)' /\ pc'[p] = "set" /\ frame'[p].cont = "halt"
        /\ ~Cancels(frame'[p].todo)
    BY <1>5, <1>6, <2>1, StopTakesChange
  <2> QED
    BY <1>2, <2>2 DEF Clearing
<1> QED
  BY <1>1, <1>9, <1>10, <1>11, <1>12, <1>13, <1>14, StopProceeds

\* The steps of a stop.  It disturbs nobody but the controller, which it takes out.
LEMMA StopKeepsCancel ==
    ASSUME StopsOnly, Typed, CancelOK, NEW p \in Stoppers, Proceed(p) \/ Stop(p)
    PROVE  CancelOK'
<1> USE DEF Typed
<1>1. /\ p \in Actors /\ p \notin {Creator, Controller} /\ StopOK(p) /\ StopOnCourse(p)
      /\ Creator \in Actors /\ Controller \in Actors /\ Creator # Controller
  BY StopsAreClients, ActorsAreActors DEF CancelOK, StopOK
<1>2. /\ worker' => worker
      /\ NothingLeft => NothingLeft'
      /\ detached' = detached
  BY <1>1, StopKeepsBoard
<1>3. /\ \A q \in Actors \ {p, Controller} : pc'[q] = pc[q] /\ frame'[q] = frame[q]
      /\ \/ pc'[Controller] = pc[Controller] /\ frame'[Controller] = frame[Controller]
         \/ pc'[Controller] = "off" /\ frame'[Controller] = Blank
      /\ Halt(p) => pc'[Controller] = "off"
  <2>1. CASE Halt(p)
    <3>1. CASE detached
      BY <1>1, <2>1, <3>1 DEF Halt, StopController, ControlOK
    <3>2. CASE ~detached
      BY <1>1, <2>1, <3>2 DEF Halt, Goto, ControlOK, CancelOK, LaunchedOK
    <3> QED
      BY <3>1, <3>2
  <2>2. CASE ~Halt(p)
    <3>1. Steady(p)
      BY <1>1, <2>2, StopProceeds, SafeLookStep, CheckTransitionStep, WriteStateStep,
         CleanUpStep, StopSteady DEF Quiet, CleanUp
    <3> QED
      BY <1>1, <2>2, <3>1 DEF Steady
  <2> QED
    BY <2>1, <2>2
<1>4. LaunchedOK'
  BY <1>1, <1>2, <1>3, BlankIsMild DEF CancelOK, LaunchedOK, Alone
<1>5. pc[Creator] = "end" /\ pc'[Creator] = "end"
  BY <1>1, <1>3, StopGoesOn
<1>6. StopOK(p)'
  <2>1. Clearing(p)' => pc'[Controller] = "off"
    BY <1>1, <1>3, StopGoesOn DEF StopOK
  <2> QED
    BY <1>1, <1>5, <2>1, StopGoesOn DEF StopOK
<1>7. ASSUME NEW s \in Stoppers \ {p}
      PROVE  StopOK(s)'
  <2>1. s \in Actors /\ s # Controller /\ StopOK(s)
    BY StopsAreClients DEF CancelOK
  <2>2. pc'[s] = pc[s] /\ frame'[s] = frame[s]
    BY <1>3, <2>1
  <2>3. StopOnCourse(s)' /\ (Clearing(s)' => Clearing(s))
    BY <2>1, <2>2 DEF StopOK, StopOnCourse, Clearing
  <2> QED
    BY <1>2, <1>3, <1>5, <2>1, <2>2, <2>3 DEF StopOK
<1>8. CancelledOK'
  <2>1. CASE state' = state
    BY <1>2, <1>3, <1>5, <2>1 DEF CancelOK, CancelledOK, AtRest
  <2>2. CASE WriteState(p) /\ state' = "cancelled"
    <3>1. pc[p] \in Setting /\ Cancels(frame[p].todo)
      BY <1>1, <2>2, WriteStateStep DEF Setting
    <3>2. NothingLeft /\ Clearing(p)
      BY <1>1, <3>1, OneChangeInHand DEF StopOK, StopOnCourse, Clearing, Setting
    <3> QED
      BY <1>1, <1>2, <1>3, <1>5, <3>2 DEF CancelledOK, AtRest, StopOK
  <2>3. state' = state \/ WriteState(p)
    BY <1>1, StopProceeds DEF SafeLook, CheckTransition, Halt, Terminate, TerminateUnsafe,
       Block, Stop
  <2> QED
    BY <2>1, <2>2, <2>3 DEF CancelledOK
<1> QED
  BY <1>4, <1>6, <1>7, <1>8 DEF CancelOK

\* The board, the clock, a crash of the controller.
LEMMA SurroundingsKeepCancel ==
    ASSUME StopsOnly, Typed, CancelOK,
           WorkerStep \/ DeadlinePasses \/ Crash \/ Quiescent \/ UNCHANGED vars
    PROVE  CancelOK'
<1> USE DEF Typed
<1>1. /\ Creator \in Actors /\ Controller \in Actors /\ Creator # Controller
      /\ Stoppers \subseteq Actors /\ Controller \notin Stoppers
  BY StopsAreClients, ActorsAreActors
<1>2. /\ state' = state /\ detached' = detached
      /\ worker' => worker
      /\ NothingLeft => NothingLeft'
  BY DEF WorkerStep, WorkerReports, WorkerExits, DeadlinePasses, Crash, Quiescent, vars,
         boardVars, NothingLeft, Dispatchable
<1>3. /\ \A q \in Actors \ {Controller} : pc'[q] = pc[q] /\ frame'[q] = frame[q]
      /\ \/ pc'[Controller] = pc[Controller] /\ frame'[Controller] = frame[Controller]
         \/ pc'[Controller] = "off" /\ frame'[Controller] = Blank
  BY <1>1 DEF WorkerStep, DeadlinePasses, Crash, Quiescent, vars, ControlOK
<1>4. LaunchedOK'
  BY <1>1, <1>2, <1>3, BlankIsMild DEF CancelOK, LaunchedOK, Alone
<1>5. ASSUME NEW s \in Stoppers
      PROVE  StopOK(s)'
  <2>1. pc'[s] = pc[s] /\ frame'[s] = frame[s] /\ StopOK(s) /\ pc'[Creator] = pc[Creator]
    BY <1>1, <1>3 DEF CancelOK
  <2>2. StopOnCourse(s)' /\ (Clearing(s)' => Clearing(s))
    BY <2>1 DEF StopOK, StopOnCourse, Clearing
  <2> QED
    BY <1>2, <1>3, <2>1, <2>2 DEF StopOK
<1>6. CancelledOK'
  BY <1>1, <1>2, <1>3 DEF CancelOK, CancelledOK, AtRest
<1> QED
  BY <1>4, <1>5, <1>6 DEF CancelOK

LEMMA NextCancel == StopsOnly /\ Typed /\ CancelOK /\ [Next]_vars => CancelOK'
<1> SUFFICES ASSUME StopsOnly, Typed, CancelOK, [Next]_vars PROVE CancelOK'
  OBVIOUS
<1>1. Typed'
  BY NextTyped
<1>2. ASSUME NEW p \in Actors, Proceed(p) PROVE CancelOK'
  BY <1>1, <1>2, StopsAreClients, LaunchersKeepCancel, StopKeepsCancel
<1>3. ASSUME NEW p \in Actors, Begin(p) PROVE CancelOK'
  <2>1. p \in Stoppers /\ Stop(p)
    BY <1>3 DEF Begin, Status, Respond, Stop, StopsOnly
  <2> QED
    BY <2>1, StopKeepsCancel
<1>4. CASE WorkerStep \/ DeadlinePasses \/ Crash \/ Quiescent \/ UNCHANGED vars
  BY <1>4, SurroundingsKeepCancel
<1> QED
  BY <1>2, <1>3, <1>4 DEF Next

\* Stops alone are issued, as many as one likes, once hca run is over: a run that
\* is cancelled has no worker and nothing to dispatch, whatever its controller was
\* doing when it was halted and whenever it crashed (stop, cancel,
\* _stop_owned_workers).  What StopsOnly excludes refutes it: hca run dispatches
\* after the stop, an answer releases a task the stop has blocked, a status command
\* relaunches a controller after the halt.
THEOREM CancellationIsQuiet ==
    ASSUME StopsOnly
    PROVE  Spec => []CancelledRunIsQuiet
<1>1. CancelOK => CancelledRunIsQuiet
  BY DEF CancelOK, CancelledOK, NothingLeft, CancelledRunIsQuiet
<1>2. Init => CancelOK
  BY InitCancel
<1>3. Typed /\ CancelOK /\ [Next]_vars => CancelOK'
  BY NextCancel
<1> QED
  BY <1>1, <1>2, <1>3, TypedAlways, PTL DEF Spec
=============================================================================
