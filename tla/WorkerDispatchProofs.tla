------------------------ MODULE WorkerDispatchProofs ------------------------
(***************************************************************************)
(* Proofs about WorkerDispatch, for every set of runs, tasks, slots,       *)
(* controllers and observers and every value of the limits.                *)
(***************************************************************************)
EXTENDS WorkerDispatch, FiniteSetTheorems, TLAPS

\* The tasks a controller counts are finitely many.
LEMMA ActiveFinite ==
    ASSUME NEW p \in Actors
    PROVE  IsFiniteSet(Active(p)) /\ Cardinality(Active(p)) \in Nat
<1>1. Active(p) \in SUBSET Tasks
  BY DEF Active, Mine, TasksOf
<1>2. IsFiniteSet(Active(p))
  BY <1>1, FleetAssumption, FS_Subset
<1> QED
  BY <1>2, FS_CardinalityType

\* The number of running tasks is a natural number, and so is the number of
\* tasks in a set of reservations.
LEMMA TaskCount ==
    ASSUME NEW S \in SUBSET Tasks
    PROVE  Cardinality(S) \in Nat
BY FleetAssumption, FS_Subset, FS_CardinalityType

\* recompute_ready yields a status for every task.
LEMMA PromotedType ==
    ASSUME DispatchTypeOK
    PROVE  Promoted \in [Tasks -> Status]
BY DEF DispatchTypeOK, FleetTypeOK, Promoted, Status

\* Upstream statuses are run-row statuses once settled.
LEMMA SettledType ==
    ASSUME NEW st \in Status
    PROVE  SettledAs(st) \in RecStatus
BY DEF SettledAs, Status, RecStatus

\* An attempt in hand names a task.
LEMMA CurTask ==
    ASSUME DispatchTypeOK, NEW p \in Actors, cur[p] # NoAttempt
    PROVE  cur[p] = <<cur[p][1], cur[p][2]>> /\ cur[p][1] \in Tasks
           /\ cur[p][2] \in 0..MaxTries
BY DEF DispatchTypeOK

\* An attempt is a task with a positive number.
LEMMA AttemptShape ==
    ASSUME NEW a \in Attempts
    PROVE  a = <<a[1], a[2]>> /\ a[1] \in Tasks /\ a[2] \in 1..MaxTries
           /\ a # NoAttempt /\ a \in Tasks \X (0..MaxTries)
BY DEF Attempts, NoAttempt

\* "Unclaimed" is a claim number.
LEMMA ZeroTry == 0 \in 0..MaxTries
BY FleetAssumption

\* Resetting or blocking a task keeps the board well typed.
LEMMA BoardType ==
    ASSUME DispatchTypeOK, NEW t, ReclaimTask(t) \/ BlockTask(t)
    PROVE  /\ status' \in [Tasks -> Status]
           /\ claim' \in [Tasks -> 0..MaxTries]
           /\ tries' \in [Tasks -> 0..MaxTries]
<1>1. {"ready", "blocked"} \subseteq Status
  BY DEF Status
<1> QED
  BY <1>1, ZeroTry, ZenonT(60) DEF DispatchTypeOK, FleetTypeOK, ReclaimTask, BlockTask

-----------------------------------------------------------------------------
\* Init satisfies the inductive invariant.
LEMMA InitInv == Init => DispatchInv
<1> SUFFICES ASSUME Init PROVE DispatchInv
  OBVIOUS
<1>1. DispatchTypeOK
  BY DispatchAssumption, FleetAssumption
     DEF Init, FleetInit, DispatchTypeOK, FleetTypeOK, Status, RecStatus, PC, NoTasks,
         Attempts, RunState
<1>2. CurOK /\ LockOK /\ FreshOK /\ OneWorkerPerSlot /\ RecordOK /\ SnapOK /\ SweepOK
      /\ UnfinishedOK
  BY DEF Init, FleetInit, CurOK, LockOK, FreshOK, OneWorkerPerSlot, RecordOK, SnapOK,
         SweepOK, UnfinishedOK, InDispatchOnce, SweepPC, RunningRecords
<1> QED
  BY <1>1, <1>2 DEF DispatchInv

-----------------------------------------------------------------------------
(* Type correctness.                                                       *)

\* The reap writes well-typed rows, whatever it read.
LEMMA ReapType ==
    ASSUME DispatchTypeOK, CurOK, NEW p \in Actors, Reap(p)
    PROVE  DispatchTypeOK'
<1> USE DEF DispatchTypeOK, FleetTypeOK, PC, fleetVars, Goto
<1>1. ASSUME NEW t \in Tasks, ReapRead(p, t)
      PROVE  DispatchTypeOK'
  <2>1. LatestRunning(t) # {} =>
          (CHOOSE a \in LatestRunning(t) : TRUE) \in Tasks \X (0..MaxTries)
    BY AttemptShape DEF LatestRunning, AttemptsOf, Attempts
  <2>2. <<t, 0>> \in Tasks \X (0..MaxTries)
    BY FleetAssumption
  <2>3. cur' \in [Actors -> (Tasks \X (0..MaxTries)) \cup {NoAttempt}]
    BY <1>1, <2>1, <2>2, ZenonT(60) DEF ReapRead
  <2>4. pc' \in [Actors -> PC] /\ reaping' \in [Actors -> SUBSET Tasks]
    BY <1>1 DEF ReapRead
  <2> QED
    BY <1>1, <2>3, <2>4 DEF ReapRead
<1>2. CASE ReapRelease(p)
  <2>1. cur[p] # NoAttempt
    BY <1>2 DEF ReapRelease, CurOK
  <2>2. SettledAs(snap[p][cur[p][1]]) \in RecStatus
    BY <2>1, CurTask, SettledType
  <2>3. rec' \in [Attempts -> RecStatus] /\ lease' \in SUBSET Attempts
    BY <1>2, <2>2 DEF ReapRelease, MarkRunStatus, ReleaseWorkerLease
  <2> QED
    BY <1>2, <2>3 DEF ReapRelease, boardVars
<1>3. CASE BeginDispatch(p)
  <2>1. Wave - Cardinality(Active(p)) \in Nat
    BY <1>3, ActiveFinite, DispatchAssumption DEF BeginDispatch, MayDispatch
  <2>2. {a \in RunningRecords : a[1] \in Mine(p)} \in SUBSET Attempts
    BY DEF RunningRecords
  <2> QED
    BY <1>3, <2>1, <2>2 DEF BeginDispatch
<1>4. CASE SkipDispatch(p)
  BY <1>4 DEF SkipDispatch
<1> QED
  BY <1>1, <1>2, <1>3, <1>4 DEF Reap

\* The identity sweep writes well-typed rows, statuses and budgets.
LEMMA SweepType ==
    ASSUME DispatchTypeOK, CurOK, NEW p \in Actors, Sweep(p)
    PROVE  DispatchTypeOK'
<1> USE DEF DispatchTypeOK, FleetTypeOK, PC, fleetVars, boardVars, Goto
<1>1. ASSUME NEW a \in Attempts, SweepIdentity(p, a)
      PROVE  DispatchTypeOK'
  <2>1. a \in Tasks \X (0..MaxTries)
    BY AttemptShape
  <2> QED
    BY <1>1, <2>1, ZenonT(60) DEF SweepIdentity
<1>2. CASE SweepJudge(p)
  <2>1. cur[p][1] \in Tasks
    BY <1>2, AttemptShape DEF SweepJudge, SettledUpstream, CurOK, SweepPC
  <2> QED
    BY <1>2, <2>1 DEF SweepJudge, SettledUpstream
<1>3. CASE SweepSettle(p)
  <2>1. SettledAs(snap[p][cur[p][1]]) \in RecStatus
    BY <1>3, AttemptShape, SettledType DEF SweepSettle, CurOK, SweepPC
  <2> QED
    BY <1>3, <2>1 DEF SweepSettle, MarkRunStatus, ReleaseWorkerLease
<1>4. CASE SweepReclaim(p)
  <2>1. status' \in [Tasks -> Status] /\ claim' \in [Tasks -> 0..MaxTries]
        /\ tries' \in [Tasks -> 0..MaxTries]
    BY <1>4, BoardType DEF SweepReclaim
  <2> QED
    BY <1>4, <2>1 DEF SweepReclaim
<1>5. CASE SweepCharge(p)
  <2>1. status' \in [Tasks -> Status] /\ claim' \in [Tasks -> 0..MaxTries]
        /\ tries' \in [Tasks -> 0..MaxTries]
    BY <1>5, BoardType DEF SweepCharge, BudgetLeft
  <2>2. used' \in [Runs -> Nat]
    BY <1>5, SMTT(30) DEF SweepCharge, BudgetLeft
  <2> QED
    BY <1>5, <2>1, <2>2 DEF SweepCharge
<1>6. CASE SweepClose(p)
  BY <1>6 DEF SweepClose, MarkRunStatus, ReleaseWorkerLease, RecStatus
<1>7. CASE SweepDone(p)
  BY <1>7 DEF SweepDone
<1> QED
  BY <1>1, <1>2, <1>3, <1>4, <1>5, <1>6, <1>7 DEF Sweep

\* Beginning a tick, or reading the statuses again after a dispatch.
LEMMA ReadType ==
    ASSUME DispatchTypeOK, NEW p \in Actors, ReadStatuses(p)
    PROVE  /\ snap' \in [Actors -> [Tasks -> Status]]
           /\ reaping' \in [Actors -> SUBSET Tasks]
           /\ pc' \in [Actors -> PC]
<1>1. [t \in Tasks |-> IF t \in Mine(p) THEN status[t] ELSE "todo"] \in [Tasks -> Status]
  BY DEF DispatchTypeOK, FleetTypeOK, Status
<1>2. {t \in Mine(p) : status[t] # "running"} \in SUBSET Tasks
  BY DEF Mine, TasksOf
<1> QED
  BY <1>1, <1>2 DEF DispatchTypeOK, ReadStatuses, Goto, PC

\* A tick begins with the first read.
LEMMA TickBeginType ==
    ASSUME DispatchTypeOK, NEW p \in Actors, TickBegin(p)
    PROVE  DispatchTypeOK'
BY ReadType DEF TickBegin, DispatchTypeOK, FleetTypeOK, fleetVars

\* Promotion and reservation.
LEMMA ReserveType ==
    ASSUME DispatchTypeOK, NEW p \in Actors, Reserve(p)
    PROVE  DispatchTypeOK'
<1>1. status' \in [Tasks -> Status]
  BY PromotedType DEF Reserve
<1>2. PICK S \in SUBSET Mine(p) :
        /\ reserved' = [reserved EXCEPT ![p] = {SlotOf[t] : t \in S}]
        /\ cap' = [cap EXCEPT ![p] =
                      LET n == Cardinality({t \in Tasks : Promoted[t] = "running"})
                               + Cardinality(S)
                      IN IF n < Wave THEN n ELSE Wave]
  BY DEF Reserve
<1>3. S \in SUBSET Tasks
  BY <1>2 DEF Mine, TasksOf
<1>4. {SlotOf[t] : t \in S} \in SUBSET Slots
  BY <1>3, FleetAssumption
<1>5. Cardinality({t \in Tasks : Promoted[t] = "running"}) + Cardinality(S) \in Nat
  BY <1>3, TaskCount
<1>6. cap' \in [Actors -> Nat] /\ reserved' \in [Actors -> SUBSET Slots]
  BY <1>2, <1>4, <1>5, DispatchAssumption DEF DispatchTypeOK
<1> QED
  BY <1>1, <1>6 DEF Reserve, DispatchTypeOK, FleetTypeOK, Goto, PC

\* Everything dispatch_once and spawn_fn write is well typed.
LEMMA DispatchType ==
    ASSUME DispatchTypeOK, CurOK, LockOK, NEW p \in Actors, DispatchOnce(p)
    PROVE  DispatchTypeOK'
<1> USE DEF DispatchTypeOK, FleetTypeOK, PC, fleetVars, boardVars, localVars, Goto
<1>1. CASE DispatchEnter(p)
  <2>1. p \in Controllers
    BY <1>1 DEF DispatchEnter, LockOK
  <2>2. CASE board = {}
    <3>1. {p} \in SUBSET Controllers
      BY <2>1
    <3>2. board' = {p} /\ pc' = [pc EXCEPT ![p] = "claim"]
      BY <1>1, <2>2 DEF DispatchEnter
    <3>3. UNCHANGED <<fleetVars, used, run, crashes, snap, pass, verdict, reaping,
                      sweeping, cur, quota, reserved, cap, spawned>>
      BY <1>1, <2>2 DEF DispatchEnter
    <3> QED
      BY <3>1, <3>2, <3>3
  <2>3. CASE board # {}
    <3>1. AfterDispatch(p) /\ UNCHANGED board
          /\ UNCHANGED <<fleetVars, used, run, crashes>>
      BY <1>1, <2>3 DEF DispatchEnter
    <3>2. ReadStatuses(p)
      BY <3>1 DEF AfterDispatch
    <3>3. /\ snap' \in [Actors -> [Tasks -> Status]]
          /\ reaping' \in [Actors -> SUBSET Tasks]
          /\ pc' \in [Actors -> PC]
      BY <3>2, ReadType
    <3>4. pass' \in [Actors -> 1..3] /\ quota' \in [Actors -> Nat]
      BY <3>1 DEF AfterDispatch
    <3>5. /\ reserved' \in [Actors -> SUBSET Slots]
          /\ cap' \in [Actors -> Nat]
          /\ spawned' \in [Actors -> Nat]
          /\ UNCHANGED <<verdict, sweeping, cur>>
      BY <3>1 DEF AfterDispatch
    <3> QED
      BY <3>1, <3>3, <3>4, <3>5
  <2> QED
    BY <2>2, <2>3
<1>2. ASSUME NEW t \in Tasks, DispatchClaim(p, t)
      PROVE  DispatchTypeOK'
  <2>1. tries[t] + 1 \in 0..MaxTries
    BY <1>2, FleetAssumption DEF DispatchClaim
  <2>2. <<t, tries[t] + 1>> \in Tasks \X (0..MaxTries)
    BY <2>1
  <2>3. tries' \in [Tasks -> 0..MaxTries] /\ claim' \in [Tasks -> 0..MaxTries]
    BY <1>2, <2>1 DEF DispatchClaim
  <2>4. status' \in [Tasks -> Status]
    BY <1>2 DEF DispatchClaim, Status
  <2>5. cur' \in [Actors -> (Tasks \X (0..MaxTries)) \cup {NoAttempt}]
    BY <1>2, <2>2 DEF DispatchClaim
  <2> QED
    BY <1>2, <2>3, <2>4, <2>5 DEF DispatchClaim
<1>3. ASSUME NEW t \in Tasks, DispatchReclaim(p, t)
      PROVE  DispatchTypeOK'
  BY <1>3, BoardType DEF DispatchReclaim
<1>4. CASE LaunchRefused(p)
  BY <1>4, BoardType DEF LaunchRefused, SpawnRaises
<1>5. CASE Launch(p)
  <2>1. cur[p] \in Attempts
    BY <1>5 DEF Launch, Respawn, CurOK
  <2>2. rec' \in [Attempts -> RecStatus]
    BY <1>5 DEF Launch, Respawn, Supersede, MarkRunStatus, RecStatus
  <2> QED
    BY <1>5, <2>1, <2>2 DEF Launch, Respawn
<1>6. CASE LaunchFails(p)
  <2>1. rec' \in [Attempts -> RecStatus]
    BY <1>6 DEF LaunchFails, Supersede, MarkRunStatus, RecStatus
  <2>2. live' \in SUBSET Attempts
    BY <1>6 DEF LaunchFails
  <2>3. /\ status' \in [Tasks -> Status]
        /\ claim' \in [Tasks -> 0..MaxTries]
        /\ tries' \in [Tasks -> 0..MaxTries]
    BY <1>6, BoardType DEF LaunchFails, SpawnRaises
  <2> QED
    BY <1>6, <2>1, <2>2, <2>3 DEF LaunchFails, SpawnRaises
<1>7. CASE RecordRun(p)
  <2>1. rec' \in [Attempts -> RecStatus]
    BY <1>7 DEF RecordRun, MarkRunStatus, RecStatus
  <2> QED
    BY <1>7, <2>1 DEF RecordRun
<1>8. CASE TakeLease(p)
  <2>1. cur[p] \in Attempts
    BY <1>8 DEF TakeLease, CurOK
  <2> QED
    BY <1>8, <2>1 DEF TakeLease
<1>9. CASE DispatchLeave(p)
  BY <1>9, ReadType DEF DispatchLeave, AfterDispatch
<1> QED
  BY <1>1, <1>2, <1>3, <1>4, <1>5, <1>6, <1>7, <1>8, <1>9 DEF DispatchOnce

\* The evidence leads to a run state, and so does every permitted transition.
LEMMA ConcludeType ==
    ASSUME DispatchTypeOK, NEW p \in Actors, Conclude(p)
    PROVE  DispatchTypeOK'
<1> USE DEF DispatchTypeOK, FleetTypeOK, PC, fleetVars, Goto
<1>1. CASE ReadEvidence(p)
  <2>1. Derived(Mine(p)) \in RunState
    BY DEF Derived, RunState
  <2> QED
    BY <1>1, <2>1 DEF ReadEvidence
<1>2. CASE CheckLive(p)
  BY <1>2 DEF CheckLive, RunState
<1>3. CASE ReapAtLast(p)
  BY <1>3, ReadType DEF ReapAtLast
<1>4. CASE Commit(p)
  <2>1. \A src, dst \in RunState : SafeSet(src, dst) \in RunState
    BY DEF SafeSet
  <2>2. run' \in [Runs -> RunState]
    BY <1>4, <2>1, DispatchAssumption DEF Commit
  <2> QED
    BY <1>4, <2>2 DEF Commit, Forget, NoTasks, Status, RunState
<1> QED
  BY <1>1, <1>2, <1>3, <1>4 DEF Conclude

\* A crash loses only the local state.
LEMMA CrashType ==
    ASSUME DispatchTypeOK, NEW p \in Controllers, Crash(p)
    PROVE  DispatchTypeOK'
BY DEF Crash, Forget, Goto, NoTasks, Status, DispatchTypeOK, FleetTypeOK, PC, fleetVars,
       Actors, RunState

\* A worker only writes statuses, and ends.
LEMMA WorkerType ==
    ASSUME DispatchTypeOK, WorkerStep
    PROVE  DispatchTypeOK'
<1> USE DEF DispatchTypeOK, FleetTypeOK, localVars
<1>1. ASSUME NEW a \in Attempts, NEW st \in TerminalTask, WorkerReports(a, st)
      PROVE  FleetTypeOK'
  BY <1>1, ZeroTry DEF WorkerReports, TerminalTask, Status
<1>2. ASSUME NEW a \in Attempts, WorkerExits(a)
      PROVE  FleetTypeOK'
  BY <1>2 DEF WorkerExits
<1> QED
  BY <1>1, <1>2 DEF WorkerStep, Worker

-----------------------------------------------------------------------------
(* The inductive invariant: one lemma per action.                          *)

\* Resetting or blocking any task while every other actor stays where it is
\* leaves what is in hand unfinished.
LEMMA ResetUnfinished ==
    ASSUME DispatchInv, NEW t \in Tasks, ReclaimTask(t) \/ BlockTask(t),
           live' \subseteq live,
           \A q \in Actors : pc'[q] \in {"reclaim", "charge", "launch"} =>
              /\ cur'[q] = cur[q]
              /\ pc[q] \in {"reclaim", "charge", "launch"}
              /\ pc'[q] = "launch" <=> pc[q] = "launch"
    PROVE  UnfinishedOK'
<1> USE DEF DispatchInv, DispatchTypeOK, FleetTypeOK
<1>1. \A b \in live : b[1] \in Tasks /\ b[2] # 0
  BY AttemptShape
<1>2. \A u \in Tasks : status'[u] = "done" => status[u] = "done"
  BY DEF ReclaimTask, BlockTask
<1>3. \A u \in Tasks : claim'[u] = claim[u] \/ claim'[u] = 0
  BY DEF ReclaimTask, BlockTask
<1>4. \A q \in Actors : pc[q] \in {"reclaim", "charge", "launch"} => cur[q][1] \in Tasks
  BY AttemptShape DEF CurOK, SweepPC
<1> QED
  BY <1>1, <1>2, <1>3, <1>4 DEF UnfinishedOK

\* Dropping the local state of an actor, with or without its lock, is harmless.
LEMMA ForgetInv ==
    ASSUME DispatchInv, DispatchTypeOK', NEW p \in Actors, Forget(p),
           UNCHANGED fleetVars, board' = board \/ board' = board \ {p}
    PROVE  DispatchInv'
<1> USE DEF DispatchInv, DispatchTypeOK, FleetTypeOK, Forget, Goto, fleetVars
<1>1. CurOK' /\ FreshOK' /\ OneWorkerPerSlot' /\ UnfinishedOK'
  BY DEF CurOK, SweepPC, FreshOK, OneWorkerPerSlot, UnfinishedOK
<1>2. LockOK'
  BY DEF LockOK, InDispatchOnce, SweepPC
<1>3. RecordOK' /\ SnapOK'
  BY DEF RecordOK, RunningRecords, SnapOK
<1>4. SweepOK'
  BY DEF SweepOK, SweepPC
<1> QED
  BY <1>1, <1>2, <1>3, <1>4

\* Reading the statuses disturbs nothing.
LEMMA TickBeginInv ==
    ASSUME DispatchInv, NEW p \in Actors, TickBegin(p)
    PROVE  DispatchInv'
<1> USE DEF DispatchInv, DispatchTypeOK, FleetTypeOK, InDispatchOnce, Goto, fleetVars, boardVars,
           localVars
<1>1. DispatchTypeOK'
  BY TickBeginType
<1>2. CurOK'
  BY DispatchAssumption DEF TickBegin, ReadStatuses, Mine, TasksOf,
         CurOK, SweepPC
<1>3. LockOK'
  BY DispatchAssumption DEF TickBegin, ReadStatuses, Mine, TasksOf,
         CurOK, LockOK, SweepPC
<1>4. SnapOK'
  BY DispatchAssumption DEF TickBegin, ReadStatuses, Mine, TasksOf,
         SnapOK, CurOK
<1>5. FreshOK'
  BY DispatchAssumption DEF TickBegin, ReadStatuses, Mine, TasksOf,
         FreshOK, CurOK
<1>6. OneWorkerPerSlot'
  BY DispatchAssumption DEF TickBegin, ReadStatuses, Mine, TasksOf,
         OneWorkerPerSlot, CurOK
<1>7. RecordOK'
  BY DispatchAssumption DEF TickBegin, ReadStatuses, Mine, TasksOf,
         RecordOK, RunningRecords, OneWorkerPerSlot, CurOK, LockOK, SnapOK
<1>8. SweepOK'
  BY DispatchAssumption DEF TickBegin, ReadStatuses, Mine, TasksOf,
         SweepOK, SweepPC, CurOK, LockOK, RecordOK, RunningRecords
<1>9. UnfinishedOK'
  BY DispatchAssumption DEF TickBegin, ReadStatuses, Mine, TasksOf,
         UnfinishedOK, SweepOK, SweepPC, CurOK, LockOK, FreshOK
<1> QED
  BY <1>1, <1>2, <1>3, <1>4, <1>5, <1>6, <1>7, <1>8, <1>9

\* The reap takes a task in hand and looks at its latest row.
LEMMA ReapReadInv ==
    ASSUME DispatchInv, NEW p \in Actors, NEW t \in Tasks, ReapRead(p, t)
    PROVE  DispatchInv'
<1> USE DEF DispatchInv, DispatchTypeOK, FleetTypeOK, InDispatchOnce, Goto, fleetVars, boardVars,
           localVars
<1>1. DispatchTypeOK'
  BY ReapType DEF Reap
<1>2. CurOK'
  <2>1. <<t, 0>> # NoAttempt
    BY DEF NoAttempt
  <2>2. LatestRunning(t) # {} => (CHOOSE a \in LatestRunning(t) : TRUE) # NoAttempt
    BY AttemptShape DEF LatestRunning, AttemptsOf, Attempts
  <2> QED
    BY <2>1, <2>2 DEF ReapRead, CurOK, SweepPC
<1>3. LockOK'
  BY DispatchAssumption DEF ReapRead, LatestRunning, Latest, AttemptsOf, NoAttempt,
         CurOK, LockOK, SweepPC
<1>4. SnapOK'
  BY DispatchAssumption, SMTT(30) DEF ReapRead, LatestRunning, Latest, AttemptsOf, NoAttempt,
         SnapOK, CurOK
<1>5. FreshOK'
  BY DispatchAssumption DEF ReapRead, LatestRunning, Latest, AttemptsOf, NoAttempt,
         FreshOK, CurOK
<1>6. OneWorkerPerSlot'
  BY DispatchAssumption DEF ReapRead, LatestRunning, Latest, AttemptsOf, NoAttempt,
         OneWorkerPerSlot, CurOK
<1>7. RecordOK'
  BY DispatchAssumption DEF ReapRead, LatestRunning, Latest, AttemptsOf, NoAttempt,
         RecordOK, RunningRecords, OneWorkerPerSlot, CurOK, LockOK, SnapOK
<1>8. SweepOK'
  BY DispatchAssumption DEF ReapRead, LatestRunning, Latest, AttemptsOf, NoAttempt,
         SweepOK, SweepPC, CurOK, LockOK, RecordOK, RunningRecords
<1>9. UnfinishedOK'
  BY DispatchAssumption DEF ReapRead, LatestRunning, Latest, AttemptsOf, NoAttempt,
         UnfinishedOK, SweepOK, SweepPC, CurOK, LockOK, FreshOK
<1> QED
  BY <1>1, <1>2, <1>3, <1>4, <1>5, <1>6, <1>7, <1>8, <1>9

\* The reap settles a row; SnapOK says with what.
LEMMA ReapReleaseInv ==
    ASSUME DispatchInv, NEW p \in Actors, ReapRelease(p)
    PROVE  DispatchInv'
<1> USE DEF DispatchInv, DispatchTypeOK, FleetTypeOK, InDispatchOnce, Goto, fleetVars, boardVars,
           localVars
<1>1. DispatchTypeOK'
  BY ReapType DEF Reap
<1>2. CurOK'
  BY DispatchAssumption DEF ReapRelease, MarkRunStatus, SettledAs,
         CurOK, SweepPC
<1>3. LockOK'
  BY DispatchAssumption DEF ReapRelease, MarkRunStatus, SettledAs,
         CurOK, LockOK, SweepPC
<1>4. SnapOK'
  BY DispatchAssumption DEF ReapRelease, MarkRunStatus, SettledAs,
         SnapOK, CurOK
<1>5. FreshOK'
  BY DispatchAssumption DEF ReapRelease, MarkRunStatus, SettledAs,
         FreshOK, CurOK
<1>6. OneWorkerPerSlot'
  BY DispatchAssumption DEF ReapRelease, MarkRunStatus, SettledAs,
         OneWorkerPerSlot, CurOK
<1>7. RecordOK'
  BY DispatchAssumption DEF ReapRelease, MarkRunStatus, SettledAs,
         RecordOK, RunningRecords, OneWorkerPerSlot, CurOK, LockOK, SnapOK
<1>8. SweepOK'
  BY DispatchAssumption DEF ReapRelease, MarkRunStatus, SettledAs,
         SweepOK, SweepPC, CurOK, LockOK, RecordOK, RunningRecords
<1>9. UnfinishedOK'
  BY DispatchAssumption DEF ReapRelease, MarkRunStatus, SettledAs,
         UnfinishedOK, SweepOK, SweepPC, CurOK, LockOK, FreshOK
<1> QED
  BY <1>1, <1>2, <1>3, <1>4, <1>5, <1>6, <1>7, <1>8, <1>9

\* A step that only moves an actor on to its conclusion disturbs nothing.
LEMMA QuietInv ==
    ASSUME DispatchInv, DispatchTypeOK', NEW p \in Actors,
           NEW l \in {"evidence", "verdict", "reread", "commit"}, Goto(p, l),
           UNCHANGED <<fleetVars, board, snap, reaping, sweeping, cur>>,
           pc[p] \notin SweepPC, reaping[p] = {}
    PROVE  DispatchInv'
<1> USE DEF DispatchInv, DispatchTypeOK, FleetTypeOK, Goto, fleetVars
<1>1. CurOK' /\ FreshOK' /\ OneWorkerPerSlot' /\ UnfinishedOK'
  BY DEF CurOK, SweepPC, FreshOK, OneWorkerPerSlot, UnfinishedOK
<1>2. LockOK'
  BY DEF LockOK, InDispatchOnce, SweepPC
<1>3. RecordOK' /\ SnapOK'
  BY DEF RecordOK, RunningRecords, SnapOK
<1>4. SweepOK'
  BY DEF SweepOK, SweepPC
<1> QED
  BY <1>1, <1>2, <1>3, <1>4

\* Without a dispatch the tick goes on to its conclusion.
LEMMA SkipDispatchInv ==
    ASSUME DispatchInv, NEW p \in Actors, SkipDispatch(p)
    PROVE  DispatchInv'
<1>1. DispatchTypeOK'
  BY ReapType DEF Reap, DispatchInv
<1>2. pc[p] \notin SweepPC /\ reaping[p] = {}
  BY DEF SkipDispatch, ReapOver, SweepPC
<1>3. Goto(p, "commit") \/ Goto(p, "evidence")
  BY DEF SkipDispatch
<1> QED
  BY <1>1, <1>2, <1>3, QuietInv DEF SkipDispatch

\* When the reap is over, the rows read as running are, by RecordOK, the rows
\* of the only processes of their tasks.
LEMMA BeginDispatchInv ==
    ASSUME DispatchInv, NEW p \in Actors, BeginDispatch(p)
    PROVE  DispatchInv'
<1> USE DEF DispatchInv, DispatchTypeOK, FleetTypeOK, Goto, fleetVars
<1>1. DispatchTypeOK'
  BY ReapType DEF Reap
<1>2. /\ p \in Controllers
      /\ sweeping' = [sweeping EXCEPT ![p] = {a \in RunningRecords : a[1] \in Mine(p)}]
      /\ pc' = [pc EXCEPT ![p] = "sweep"]
      /\ UNCHANGED <<snap, reaping, cur, board>>
      /\ UNCHANGED fleetVars
      /\ pc[p] = "reap" /\ reaping[p] = {}
  BY DEF BeginDispatch, MayDispatch, ReapOver
<1>3. CurOK' /\ FreshOK' /\ OneWorkerPerSlot' /\ UnfinishedOK' /\ SnapOK'
  BY <1>2 DEF CurOK, FreshOK, OneWorkerPerSlot, UnfinishedOK, SnapOK
<1>4. LockOK'
  BY <1>2 DEF LockOK, InDispatchOnce
<1>5. RecordOK'
  BY <1>2 DEF RecordOK, RunningRecords
<1>6. \A a \in sweeping'[p] : /\ OwnerOf[a[1]] = RunOf[p]
                              /\ \A b \in live : b[1] = a[1] => b = a
  BY <1>2 DEF RecordOK, Mine, TasksOf
<1>7. SweepOK'
  BY <1>2, <1>6 DEF SweepOK, SweepPC
<1> QED
  BY <1>1, <1>3, <1>4, <1>5, <1>7

\* The sweep takes a dead row in hand: by SweepOK its task has no process.
LEMMA SweepIdentityInv ==
    ASSUME DispatchInv, NEW p \in Actors, NEW a \in Attempts, SweepIdentity(p, a)
    PROVE  DispatchInv'
<1> USE DEF DispatchInv, DispatchTypeOK, FleetTypeOK, InDispatchOnce, Goto, fleetVars, boardVars,
           localVars
<1>1. DispatchTypeOK'
  BY SweepType DEF Sweep
<1>2. CurOK'
  BY DispatchAssumption DEF SweepIdentity,
         CurOK, SweepPC
<1>3. LockOK'
  BY DispatchAssumption DEF SweepIdentity,
         CurOK, LockOK, SweepPC
<1>4. SnapOK'
  BY DispatchAssumption DEF SweepIdentity,
         SnapOK, CurOK
<1>5. FreshOK'
  BY DispatchAssumption DEF SweepIdentity,
         FreshOK, CurOK
<1>6. OneWorkerPerSlot'
  BY DispatchAssumption DEF SweepIdentity,
         OneWorkerPerSlot, CurOK
<1>7. RecordOK'
  BY DispatchAssumption DEF SweepIdentity,
         RecordOK, RunningRecords, OneWorkerPerSlot, CurOK, LockOK, SnapOK
<1>8. SweepOK'
  BY DispatchAssumption DEF SweepIdentity,
         SweepOK, SweepPC, CurOK, LockOK, RecordOK, RunningRecords
<1>9. UnfinishedOK'
  BY DispatchAssumption DEF SweepIdentity,
         UnfinishedOK, SweepOK, SweepPC, CurOK, LockOK, FreshOK
<1> QED
  BY <1>1, <1>2, <1>3, <1>4, <1>5, <1>6, <1>7, <1>8, <1>9

\* The status read decides: reclaim is chosen only for unfinished work.
LEMMA SweepJudgeInv ==
    ASSUME DispatchInv, NEW p \in Actors, SweepJudge(p)
    PROVE  DispatchInv'
<1> USE DEF DispatchInv, DispatchTypeOK, FleetTypeOK, InDispatchOnce, Goto, fleetVars, boardVars,
           localVars
<1>1. DispatchTypeOK'
  BY SweepType DEF Sweep
<1>2. CurOK'
  BY DispatchAssumption DEF SweepJudge, SettledUpstream, TerminalTask,
         CurOK, SweepPC
<1>3. LockOK'
  BY DispatchAssumption DEF SweepJudge, SettledUpstream, TerminalTask,
         CurOK, LockOK, SweepPC
<1>4. SnapOK'
  <2>1. cur[p][1] \in Tasks /\ reaping[p] = {}
    BY AttemptShape DEF SweepJudge, SettledUpstream, CurOK, SweepPC, SnapOK
  <2>2. CASE status[cur[p][1]] \in TerminalTask
    <3>1. snap'[p][cur[p][1]] # "running"
      BY <2>1, <2>2 DEF SweepJudge, SettledUpstream, TerminalTask
    <3> QED
      BY <2>1, <2>2, <3>1 DEF SweepJudge, SettledUpstream, SnapOK
  <2>3. CASE status[cur[p][1]] \notin TerminalTask
    BY <2>1, <2>3 DEF SweepJudge, SettledUpstream, SnapOK
  <2> QED
    BY <2>2, <2>3
<1>5. FreshOK'
  BY DispatchAssumption DEF SweepJudge, SettledUpstream, TerminalTask,
         FreshOK, CurOK
<1>6. OneWorkerPerSlot'
  BY DispatchAssumption DEF SweepJudge, SettledUpstream, TerminalTask,
         OneWorkerPerSlot, CurOK
<1>7. RecordOK'
  BY DispatchAssumption DEF SweepJudge, SettledUpstream, TerminalTask,
         RecordOK, RunningRecords, OneWorkerPerSlot, CurOK, LockOK, SnapOK
<1>8. SweepOK'
  BY DispatchAssumption DEF SweepJudge, SettledUpstream, TerminalTask,
         SweepOK, SweepPC, CurOK, LockOK, RecordOK, RunningRecords
<1>9. UnfinishedOK'
  BY DispatchAssumption DEF SweepJudge, SettledUpstream, TerminalTask,
         UnfinishedOK, SweepOK, SweepPC, CurOK, LockOK, FreshOK
<1> QED
  BY <1>1, <1>2, <1>3, <1>4, <1>5, <1>6, <1>7, <1>8, <1>9

\* Settling writes a terminal status.
LEMMA SweepSettleInv ==
    ASSUME DispatchInv, NEW p \in Actors, SweepSettle(p)
    PROVE  DispatchInv'
<1> USE DEF DispatchInv, DispatchTypeOK, FleetTypeOK, InDispatchOnce, Goto, fleetVars, boardVars,
           localVars
<1>1. DispatchTypeOK'
  BY SweepType DEF Sweep
<1>2. CurOK'
  BY DispatchAssumption DEF SweepSettle, MarkRunStatus, SettledAs,
         CurOK, SweepPC
<1>3. LockOK'
  BY DispatchAssumption DEF SweepSettle, MarkRunStatus, SettledAs,
         CurOK, LockOK, SweepPC
<1>4. SnapOK'
  BY DispatchAssumption DEF SweepSettle, MarkRunStatus, SettledAs,
         SnapOK, CurOK
<1>5. FreshOK'
  BY DispatchAssumption DEF SweepSettle, MarkRunStatus, SettledAs,
         FreshOK, CurOK
<1>6. OneWorkerPerSlot'
  BY DispatchAssumption DEF SweepSettle, MarkRunStatus, SettledAs,
         OneWorkerPerSlot, CurOK
<1>7. RecordOK'
  BY DispatchAssumption DEF SweepSettle, MarkRunStatus, SettledAs,
         RecordOK, RunningRecords, OneWorkerPerSlot, CurOK, LockOK, SnapOK
<1>8. SweepOK'
  BY DispatchAssumption DEF SweepSettle, MarkRunStatus, SettledAs,
         SweepOK, SweepPC, CurOK, LockOK, RecordOK, RunningRecords
<1>9. UnfinishedOK'
  BY DispatchAssumption DEF SweepSettle, MarkRunStatus, SettledAs,
         UnfinishedOK, SweepOK, SweepPC, CurOK, LockOK, FreshOK
<1> QED
  BY <1>1, <1>2, <1>3, <1>4, <1>5, <1>6, <1>7, <1>8, <1>9

\* Reclaiming resets a task that UnfinishedOK says is not finished.
LEMMA SweepReclaimInv ==
    ASSUME DispatchInv, NEW p \in Actors, SweepReclaim(p)
    PROVE  DispatchInv'
<1> USE DEF DispatchInv, DispatchTypeOK, FleetTypeOK, InDispatchOnce, Goto, fleetVars, boardVars,
           localVars
<1>1. DispatchTypeOK'
  BY SweepType DEF Sweep
<1>2. CurOK'
  BY DispatchAssumption DEF SweepReclaim, ReclaimTask,
         CurOK, SweepPC
<1>3. LockOK'
  BY DispatchAssumption DEF SweepReclaim, ReclaimTask,
         CurOK, LockOK, SweepPC
<1>4. SnapOK'
  BY DispatchAssumption, SMTT(30) DEF SweepReclaim, ReclaimTask,
         SnapOK, CurOK
<1>5. FreshOK'
  BY DispatchAssumption, ZenonT(60) DEF SweepReclaim, ReclaimTask,
         FreshOK, CurOK
<1>6. OneWorkerPerSlot'
  BY DispatchAssumption DEF SweepReclaim, ReclaimTask,
         OneWorkerPerSlot, CurOK
<1>7. RecordOK'
  <2>1. UNCHANGED <<rec, live>> /\ pc'[p] # "record"
        /\ \A q \in Actors \ {p} : pc'[q] = pc[q] /\ cur'[q] = cur[q]
    BY DEF SweepReclaim
  <2> QED
    BY <2>1 DEF RecordOK, RunningRecords
<1>8. SweepOK'
  <2>1. /\ UNCHANGED <<live, sweeping>>
        /\ pc'[p] \in {"sweep", "charge"}
        /\ pc'[p] = "charge" => cur'[p] = cur[p]
        /\ \A q \in Actors \ {p} : pc'[q] = pc[q] /\ cur'[q] = cur[q]
    BY DEF SweepReclaim
  <2>2. \A q \in Actors : sweeping'[q] = sweeping[q]
    BY <2>1
  <2>3. pc[p] = "reclaim"
    BY DEF SweepReclaim
  <2> QED
    BY <2>1, <2>2, <2>3, SMTT(30) DEF SweepOK, SweepPC
<1>9. UnfinishedOK'
  <2>1. cur[p][1] \in Tasks
    BY AttemptShape DEF SweepReclaim, CurOK, SweepPC
  <2>2. CASE Reclaimable(cur[p][1])
    BY <2>1, <2>2, ResetUnfinished DEF SweepReclaim
  <2>3. CASE ~Reclaimable(cur[p][1])
    BY <2>3 DEF SweepReclaim, UnfinishedOK
  <2> QED
    BY <2>2, <2>3
<1> QED
  BY <1>1, <1>2, <1>3, <1>4, <1>5, <1>6, <1>7, <1>8, <1>9

\* Charging may block the task just reset.
LEMMA SweepChargeInv ==
    ASSUME DispatchInv, NEW p \in Actors, SweepCharge(p)
    PROVE  DispatchInv'
<1> USE DEF DispatchInv, DispatchTypeOK, FleetTypeOK, InDispatchOnce, Goto, fleetVars, boardVars,
           localVars
<1>1. DispatchTypeOK'
  BY SweepType DEF Sweep
<1>2. CurOK'
  BY DispatchAssumption DEF SweepCharge, BudgetLeft, BlockTask,
         CurOK, SweepPC
<1>3. LockOK'
  BY DispatchAssumption DEF SweepCharge, BudgetLeft, BlockTask,
         CurOK, LockOK, SweepPC
<1>4. SnapOK'
  BY DispatchAssumption DEF SweepCharge, BudgetLeft, BlockTask,
         SnapOK, CurOK
<1>5. FreshOK'
  BY DispatchAssumption DEF SweepCharge, BudgetLeft, BlockTask,
         FreshOK, CurOK
<1>6. OneWorkerPerSlot'
  BY DispatchAssumption DEF SweepCharge, BudgetLeft, BlockTask,
         OneWorkerPerSlot, CurOK
<1>7. RecordOK'
  BY DispatchAssumption DEF SweepCharge, BudgetLeft, BlockTask,
         RecordOK, RunningRecords, OneWorkerPerSlot, CurOK, LockOK, SnapOK
<1>8. SweepOK'
  BY DispatchAssumption DEF SweepCharge, BudgetLeft, BlockTask,
         SweepOK, SweepPC, CurOK, LockOK, RecordOK, RunningRecords
<1>9. UnfinishedOK'
  <2>1. cur[p][1] \in Tasks
    BY AttemptShape DEF SweepCharge, BudgetLeft, CurOK, SweepPC
  <2>2. CASE BlockTask(cur[p][1])
    BY <2>1, <2>2, ResetUnfinished DEF SweepCharge, BudgetLeft
  <2>3. CASE UNCHANGED boardVars
    BY <2>3 DEF SweepCharge, BudgetLeft, UnfinishedOK
  <2> QED
    BY <2>2, <2>3 DEF SweepCharge, BudgetLeft
<1> QED
  BY <1>1, <1>2, <1>3, <1>4, <1>5, <1>6, <1>7, <1>8, <1>9

\* Closing a row writes a terminal status.
LEMMA SweepCloseInv ==
    ASSUME DispatchInv, NEW p \in Actors, SweepClose(p)
    PROVE  DispatchInv'
<1> USE DEF DispatchInv, DispatchTypeOK, FleetTypeOK, InDispatchOnce, Goto, fleetVars, boardVars,
           localVars
<1>1. DispatchTypeOK'
  BY SweepType DEF Sweep
<1>2. CurOK'
  BY DispatchAssumption DEF SweepClose, MarkRunStatus,
         CurOK, SweepPC
<1>3. LockOK'
  BY DispatchAssumption DEF SweepClose, MarkRunStatus,
         CurOK, LockOK, SweepPC
<1>4. SnapOK'
  BY DispatchAssumption DEF SweepClose, MarkRunStatus,
         SnapOK, CurOK
<1>5. FreshOK'
  BY DispatchAssumption DEF SweepClose, MarkRunStatus,
         FreshOK, CurOK
<1>6. OneWorkerPerSlot'
  BY DispatchAssumption DEF SweepClose, MarkRunStatus,
         OneWorkerPerSlot, CurOK
<1>7. RecordOK'
  BY DispatchAssumption DEF SweepClose, MarkRunStatus,
         RecordOK, RunningRecords, OneWorkerPerSlot, CurOK, LockOK, SnapOK
<1>8. SweepOK'
  BY DispatchAssumption DEF SweepClose, MarkRunStatus,
         SweepOK, SweepPC, CurOK, LockOK, RecordOK, RunningRecords
<1>9. UnfinishedOK'
  BY DispatchAssumption DEF SweepClose, MarkRunStatus,
         UnfinishedOK, SweepOK, SweepPC, CurOK, LockOK, FreshOK
<1> QED
  BY <1>1, <1>2, <1>3, <1>4, <1>5, <1>6, <1>7, <1>8, <1>9

\* The sweep ends.
LEMMA SweepDoneInv ==
    ASSUME DispatchInv, NEW p \in Actors, SweepDone(p)
    PROVE  DispatchInv'
<1> USE DEF DispatchInv, DispatchTypeOK, FleetTypeOK, InDispatchOnce, Goto, fleetVars, boardVars,
           localVars
<1>1. DispatchTypeOK'
  BY SweepType DEF Sweep
<1>2. CurOK'
  BY DispatchAssumption DEF SweepDone,
         CurOK, SweepPC
<1>3. LockOK'
  BY DispatchAssumption DEF SweepDone,
         CurOK, LockOK, SweepPC
<1>4. SnapOK'
  BY DispatchAssumption DEF SweepDone,
         SnapOK, CurOK
<1>5. FreshOK'
  BY DispatchAssumption DEF SweepDone,
         FreshOK, CurOK
<1>6. OneWorkerPerSlot'
  BY DispatchAssumption DEF SweepDone,
         OneWorkerPerSlot, CurOK
<1>7. RecordOK'
  BY DispatchAssumption DEF SweepDone,
         RecordOK, RunningRecords, OneWorkerPerSlot, CurOK, LockOK, SnapOK
<1>8. SweepOK'
  BY DispatchAssumption DEF SweepDone,
         SweepOK, SweepPC, CurOK, LockOK, RecordOK, RunningRecords
<1>9. UnfinishedOK'
  BY DispatchAssumption DEF SweepDone,
         UnfinishedOK, SweepOK, SweepPC, CurOK, LockOK, FreshOK
<1> QED
  BY <1>1, <1>2, <1>3, <1>4, <1>5, <1>6, <1>7, <1>8, <1>9

\* Promotion makes tasks ready, never done.
LEMMA ReserveInv ==
    ASSUME DispatchInv, NEW p \in Actors, Reserve(p)
    PROVE  DispatchInv'
<1> USE DEF DispatchInv, DispatchTypeOK, FleetTypeOK, InDispatchOnce, Goto, fleetVars, boardVars,
           localVars
<1>1. DispatchTypeOK'
  BY ReserveType
<1>2. CurOK'
  BY DispatchAssumption DEF Reserve, Promoted,
         CurOK, SweepPC
<1>3. LockOK'
  BY DispatchAssumption DEF Reserve, Promoted,
         CurOK, LockOK, SweepPC
<1>4. SnapOK'
  BY DispatchAssumption DEF Reserve, Promoted,
         SnapOK, CurOK
<1>5. FreshOK'
  BY DispatchAssumption DEF Reserve, Promoted,
         FreshOK, CurOK
<1>6. OneWorkerPerSlot'
  BY DispatchAssumption DEF Reserve, Promoted,
         OneWorkerPerSlot, CurOK
<1>7. RecordOK'
  BY DispatchAssumption DEF Reserve, Promoted,
         RecordOK, RunningRecords, OneWorkerPerSlot, CurOK, LockOK, SnapOK
<1>8. SweepOK'
  BY DispatchAssumption DEF Reserve, Promoted,
         SweepOK, SweepPC, CurOK, LockOK, RecordOK, RunningRecords
<1>9. UnfinishedOK'
  <2>1. \A t \in Tasks : status'[t] = "done" => status[t] = "done"
    BY DEF Reserve, Promoted
  <2>2. \A q \in Actors : pc'[q] \in {"reclaim", "charge", "launch"} =>
           pc'[q] = pc[q] /\ cur'[q] = cur[q] /\ cur[q][1] \in Tasks
    BY AttemptShape DEF Reserve, CurOK, SweepPC
  <2> QED
    BY <2>1, <2>2 DEF Reserve, UnfinishedOK
<1> QED
  BY <1>1, <1>2, <1>3, <1>4, <1>5, <1>6, <1>7, <1>8, <1>9

\* Taking the dispatch lock, or skipping the dispatch.
LEMMA DispatchEnterInv ==
    ASSUME DispatchInv, NEW p \in Actors, DispatchEnter(p)
    PROVE  DispatchInv'
<1> USE DEF DispatchInv, DispatchTypeOK, FleetTypeOK, InDispatchOnce, Goto, fleetVars, boardVars,
           localVars
<1>1. DispatchTypeOK'
  BY DispatchType DEF DispatchOnce
<1>2. CurOK'
  BY DispatchAssumption DEF DispatchEnter, AfterDispatch, ReadStatuses, Mine, TasksOf,
         CurOK, SweepPC
<1>3. LockOK'
  <2>1. p \in Controllers
    BY DEF DispatchEnter, LockOK
  <2>2. CASE board = {}
    BY <2>1, <2>2 DEF DispatchEnter, LockOK
  <2>3. CASE board # {}
    BY <2>3 DEF DispatchEnter, AfterDispatch, ReadStatuses, LockOK
  <2> QED
    BY <2>2, <2>3
<1>4. SnapOK'
  <2>1. CASE board = {}
    BY <2>1 DEF DispatchEnter, SnapOK
  <2>2. CASE board # {}
    <3>1. /\ snap' = [snap EXCEPT ![p] = [t \in Tasks |->
                           IF t \in Mine(p) THEN status[t] ELSE "todo"]]
          /\ reaping' = [reaping EXCEPT ![p] = {t \in Mine(p) : status[t] # "running"}]
          /\ pc' = [pc EXCEPT ![p] = "reap"] /\ UNCHANGED cur
      BY <2>2 DEF DispatchEnter, AfterDispatch, ReadStatuses
    <3> QED
      BY <3>1 DEF SnapOK, Mine, TasksOf
  <2> QED
    BY <2>1, <2>2
<1>5. FreshOK'
  BY DispatchAssumption, SMTT(30) DEF DispatchEnter, AfterDispatch, ReadStatuses, Mine, TasksOf,
         FreshOK, CurOK
<1>6. OneWorkerPerSlot'
  BY DispatchAssumption DEF DispatchEnter, AfterDispatch, ReadStatuses, Mine, TasksOf,
         OneWorkerPerSlot, CurOK
<1>7. RecordOK'
  <2>1. UNCHANGED <<rec, live, cur>> /\ pc'[p] # "record"
        /\ \A q \in Actors \ {p} : pc'[q] = pc[q]
    BY DEF DispatchEnter, AfterDispatch, ReadStatuses
  <2> QED
    BY <2>1 DEF RecordOK, RunningRecords
<1>8. SweepOK'
  <2>1. UNCHANGED <<sweeping, live, cur>> /\ pc'[p] \notin SweepPC
        /\ \A q \in Actors \ {p} : pc'[q] = pc[q]
    BY DEF DispatchEnter, AfterDispatch, ReadStatuses, SweepPC
  <2>2. sweeping[p] = {}
    BY DEF DispatchEnter, SweepOK, SweepPC
  <2> QED
    BY <2>1, <2>2, SMTT(30) DEF SweepOK
<1>9. UnfinishedOK'
  BY DispatchAssumption DEF DispatchEnter, AfterDispatch, ReadStatuses, Mine, TasksOf,
         UnfinishedOK, SweepOK, SweepPC, CurOK, LockOK, FreshOK
<1> QED
  BY <1>1, <1>2, <1>3, <1>4, <1>5, <1>6, <1>7, <1>8, <1>9

\* A claim takes an attempt nobody used, so no process can report it.
LEMMA DispatchClaimInv ==
    ASSUME DispatchInv, NEW p \in Actors, NEW t \in Tasks, DispatchClaim(p, t)
    PROVE  DispatchInv'
<1> USE DEF DispatchInv, DispatchTypeOK, FleetTypeOK, InDispatchOnce, Goto, fleetVars, boardVars,
           localVars
<1>1. DispatchTypeOK'
  BY DispatchType DEF DispatchOnce
<1>2. CurOK'
  <2>1. <<t, tries[t] + 1>> \in Attempts
    BY FleetAssumption DEF DispatchClaim, Attempts
  <2> QED
    BY <2>1 DEF DispatchClaim, CurOK
<1>3. LockOK'
  BY DispatchAssumption DEF DispatchClaim, Attempts,
         CurOK, LockOK, SweepPC
<1>4. SnapOK'
  BY DispatchAssumption DEF DispatchClaim, Attempts,
         SnapOK, CurOK
<1>5. FreshOK'
  BY DispatchAssumption DEF DispatchClaim, Attempts,
         FreshOK, CurOK
<1>6. OneWorkerPerSlot'
  BY DispatchAssumption DEF DispatchClaim, Attempts,
         OneWorkerPerSlot, CurOK
<1>7. RecordOK'
  BY DispatchAssumption DEF DispatchClaim, Attempts,
         RecordOK, RunningRecords, OneWorkerPerSlot, CurOK, LockOK, SnapOK
<1>8. SweepOK'
  BY DispatchAssumption DEF DispatchClaim, Attempts,
         SweepOK, SweepPC, CurOK, LockOK, RecordOK, RunningRecords
<1>9. UnfinishedOK'
  BY DispatchAssumption DEF DispatchClaim, Attempts,
         UnfinishedOK, SweepOK, SweepPC, CurOK, LockOK, FreshOK
<1> QED
  BY <1>1, <1>2, <1>3, <1>4, <1>5, <1>6, <1>7, <1>8, <1>9

\* Upstream takes back the claim of a dead process.
LEMMA DispatchReclaimInv ==
    ASSUME DispatchInv, NEW p \in Actors, NEW t \in Tasks, DispatchReclaim(p, t)
    PROVE  DispatchInv'
<1> USE DEF DispatchInv, DispatchTypeOK, FleetTypeOK, InDispatchOnce, Goto, fleetVars, boardVars,
           localVars
<1>1. DispatchTypeOK'
  BY DispatchType DEF DispatchOnce
<1>2. CurOK'
  BY DispatchAssumption DEF DispatchReclaim, ReclaimTask, BlockTask,
         CurOK, SweepPC
<1>3. LockOK'
  BY DispatchAssumption DEF DispatchReclaim, ReclaimTask, BlockTask,
         CurOK, LockOK, SweepPC
<1>4. SnapOK'
  BY DispatchAssumption DEF DispatchReclaim, ReclaimTask, BlockTask,
         SnapOK, CurOK
<1>5. FreshOK'
  BY DispatchAssumption DEF DispatchReclaim, ReclaimTask, BlockTask,
         FreshOK, CurOK
<1>6. OneWorkerPerSlot'
  BY DispatchAssumption DEF DispatchReclaim, ReclaimTask, BlockTask,
         OneWorkerPerSlot, CurOK
<1>7. RecordOK'
  BY DispatchAssumption DEF DispatchReclaim, ReclaimTask, BlockTask,
         RecordOK, RunningRecords, OneWorkerPerSlot, CurOK, LockOK, SnapOK
<1>8. SweepOK'
  BY DispatchAssumption DEF DispatchReclaim, ReclaimTask, BlockTask,
         SweepOK, SweepPC, CurOK, LockOK, RecordOK, RunningRecords
<1>9. UnfinishedOK'
  BY ResetUnfinished DEF DispatchReclaim
<1> QED
  BY <1>1, <1>2, <1>3, <1>4, <1>5, <1>6, <1>7, <1>8, <1>9

\* A refused spawn blocks the task just claimed.
LEMMA LaunchRefusedInv ==
    ASSUME DispatchInv, NEW p \in Actors, LaunchRefused(p)
    PROVE  DispatchInv'
<1> USE DEF DispatchInv, DispatchTypeOK, FleetTypeOK, InDispatchOnce, Goto, fleetVars, boardVars,
           localVars
<1>1. DispatchTypeOK'
  BY DispatchType DEF DispatchOnce
<1>2. CurOK'
  BY DispatchAssumption DEF LaunchRefused, SpawnRaises, BlockTask,
         CurOK, SweepPC
<1>3. LockOK'
  BY DispatchAssumption DEF LaunchRefused, SpawnRaises, BlockTask,
         CurOK, LockOK, SweepPC
<1>4. SnapOK'
  BY DispatchAssumption DEF LaunchRefused, SpawnRaises, BlockTask,
         SnapOK, CurOK
<1>5. FreshOK'
  BY DispatchAssumption DEF LaunchRefused, SpawnRaises, BlockTask,
         FreshOK, CurOK
<1>6. OneWorkerPerSlot'
  BY DispatchAssumption DEF LaunchRefused, SpawnRaises, BlockTask,
         OneWorkerPerSlot, CurOK
<1>7. RecordOK'
  BY DispatchAssumption DEF LaunchRefused, SpawnRaises, BlockTask,
         RecordOK, RunningRecords, OneWorkerPerSlot, CurOK, LockOK, SnapOK
<1>8. SweepOK'
  BY DispatchAssumption DEF LaunchRefused, SpawnRaises, BlockTask,
         SweepOK, SweepPC, CurOK, LockOK, RecordOK, RunningRecords
<1>9. UnfinishedOK'
  <2>1. cur[p][1] \in Tasks
    BY AttemptShape DEF LaunchRefused, CurOK
  <2> QED
    BY <2>1, ResetUnfinished DEF LaunchRefused, SpawnRaises
<1> QED
  BY <1>1, <1>2, <1>3, <1>4, <1>5, <1>6, <1>7, <1>8, <1>9

\* The spawn empties the slot, and the sweep of no other run has this task.
LEMMA LaunchInv ==
    ASSUME DispatchInv, NEW p \in Actors, Launch(p)
    PROVE  DispatchInv'
<1> USE DEF DispatchInv, DispatchTypeOK, FleetTypeOK, InDispatchOnce, Goto, fleetVars, boardVars,
           localVars
<1>1. DispatchTypeOK'
  BY DispatchType DEF DispatchOnce
<1>2. CurOK'
  BY DispatchAssumption DEF Launch, Respawn, Supersede, MarkRunStatus, OnSlot, MaySpawn,
         CurOK, SweepPC
<1>3. LockOK'
  BY DispatchAssumption DEF Launch, Respawn, Supersede, MarkRunStatus, OnSlot, MaySpawn,
         CurOK, LockOK, SweepPC
<1>4. SnapOK'
  BY DispatchAssumption DEF Launch, Respawn, Supersede, MarkRunStatus, OnSlot, MaySpawn,
         SnapOK, CurOK
<1>5. FreshOK'
  BY DispatchAssumption DEF Launch, Respawn, Supersede, MarkRunStatus, OnSlot, MaySpawn,
         FreshOK, CurOK
<1>6. OneWorkerPerSlot'
  BY DispatchAssumption DEF Launch, Respawn, Supersede, MarkRunStatus, OnSlot, MaySpawn,
         OneWorkerPerSlot, CurOK
<1>7. RecordOK'
  <2> DEFINE s == SlotOf[cur[p][1]]
  <2>1. cur[p] \in Attempts /\ board = {p}
    BY DEF Launch, Respawn, CurOK, LockOK
  <2>2. \A b \in live' : b = cur[p] \/ (b \in live /\ SlotOf[b[1]] # s)
    BY DEF Launch, Respawn, OnSlot
  <2>3. \A a \in RunningRecords' : a \in RunningRecords /\ SlotOf[a[1]] # s
    BY DEF Launch, Respawn, Supersede, MarkRunStatus, OnSlot, RunningRecords
  <2>4. \A a \in RunningRecords', b \in live' : a[1] = b[1] => a = b
    BY <2>2, <2>3 DEF RecordOK
  <2>5. \A q \in Actors : pc'[q] = "record" => q = p
    BY <2>1 DEF Launch, Respawn, LockOK
  <2>6. UNCHANGED cur
    BY DEF Launch, Respawn
  <2> QED
    BY <2>2, <2>4, <2>5, <2>6 DEF RecordOK
<1>8. SweepOK'
  <2>1. p \in Controllers /\ OwnerOf[cur[p][1]] = RunOf[p] /\ sweeping[p] = {}
    BY DEF Launch, Respawn, MaySpawn, LockOK, SweepOK, SweepPC
  <2>2. \A q \in Actors \ {p} : pc[q] \in SweepPC => RunOf[q] # RunOf[p]
    BY <2>1, DispatchAssumption DEF LockOK, SweepPC
  <2>3. live' \subseteq live \cup {cur[p]} /\ UNCHANGED <<sweeping, cur>>
        /\ pc'[p] \notin SweepPC /\ \A q \in Actors \ {p} : pc'[q] = pc[q]
    BY DEF Launch, Respawn, SweepPC
  <2> QED
    BY <2>1, <2>2, <2>3 DEF SweepOK
<1>9. UnfinishedOK'
  <2>1. UNCHANGED <<status, claim, cur>> /\ live' \subseteq live \cup {cur[p]}
        /\ pc' = [pc EXCEPT ![p] = "record"] /\ pc[p] = "launch" /\ cur[p] \in Attempts
    BY DEF Launch, Respawn, CurOK
  <2>2. \A q \in Actors \ {p} : pc'[q] = pc[q] /\ pc[q] # "launch"
    BY <2>1, DispatchAssumption DEF LockOK
  <2> QED
    BY <2>1, <2>2 DEF UnfinishedOK
<1> QED
  BY <1>1, <1>2, <1>3, <1>4, <1>5, <1>6, <1>7, <1>8, <1>9

\* A failed spawn only removes processes and running rows.
LEMMA LaunchFailsInv ==
    ASSUME DispatchInv, NEW p \in Actors, LaunchFails(p)
    PROVE  DispatchInv'
<1> USE DEF DispatchInv, DispatchTypeOK, FleetTypeOK, InDispatchOnce, Goto, fleetVars, boardVars,
           localVars
<1>1. DispatchTypeOK'
  BY DispatchType DEF DispatchOnce
<1>2. CurOK'
  BY DispatchAssumption DEF LaunchFails, Supersede, MarkRunStatus, OnSlot, SpawnRaises, BlockTask,
         CurOK, SweepPC
<1>3. LockOK'
  BY DispatchAssumption DEF LaunchFails, Supersede, MarkRunStatus, OnSlot, SpawnRaises, BlockTask,
         CurOK, LockOK, SweepPC
<1>4. SnapOK'
  BY DispatchAssumption DEF LaunchFails, Supersede, MarkRunStatus, OnSlot, SpawnRaises, BlockTask,
         SnapOK, CurOK
<1>5. FreshOK'
  BY DispatchAssumption DEF LaunchFails, Supersede, MarkRunStatus, OnSlot, SpawnRaises, BlockTask,
         FreshOK, CurOK
<1>6. OneWorkerPerSlot'
  BY DispatchAssumption DEF LaunchFails, Supersede, MarkRunStatus, OnSlot, SpawnRaises, BlockTask,
         OneWorkerPerSlot, CurOK
<1>7. RecordOK'
  BY DispatchAssumption DEF LaunchFails, Supersede, MarkRunStatus, OnSlot, SpawnRaises, BlockTask,
         RecordOK, RunningRecords, OneWorkerPerSlot, CurOK, LockOK, SnapOK
<1>8. SweepOK'
  BY DispatchAssumption DEF LaunchFails, Supersede, MarkRunStatus, OnSlot, SpawnRaises, BlockTask,
         SweepOK, SweepPC, CurOK, LockOK, RecordOK, RunningRecords
<1>9. UnfinishedOK'
  <2>1. cur[p][1] \in Tasks
    BY AttemptShape DEF LaunchFails, CurOK
  <2> QED
    BY <2>1, ResetUnfinished DEF LaunchFails, SpawnRaises
<1> QED
  BY <1>1, <1>2, <1>3, <1>4, <1>5, <1>6, <1>7, <1>8, <1>9

\* The new row belongs to the only process on its slot.
LEMMA RecordRunInv ==
    ASSUME DispatchInv, NEW p \in Actors, RecordRun(p)
    PROVE  DispatchInv'
<1> USE DEF DispatchInv, DispatchTypeOK, FleetTypeOK, InDispatchOnce, Goto, fleetVars, boardVars,
           localVars
<1>1. DispatchTypeOK'
  BY DispatchType DEF DispatchOnce
<1>2. CurOK'
  BY DispatchAssumption DEF RecordRun, MarkRunStatus,
         CurOK, SweepPC
<1>3. LockOK'
  BY DispatchAssumption DEF RecordRun, MarkRunStatus,
         CurOK, LockOK, SweepPC
<1>4. SnapOK'
  BY DispatchAssumption DEF RecordRun, MarkRunStatus,
         SnapOK, CurOK
<1>5. FreshOK'
  BY DispatchAssumption DEF RecordRun, MarkRunStatus,
         FreshOK, CurOK
<1>6. OneWorkerPerSlot'
  BY DispatchAssumption DEF RecordRun, MarkRunStatus,
         OneWorkerPerSlot, CurOK
<1>7. RecordOK'
  <2>1. cur[p] \in Attempts
    BY DEF RecordRun, CurOK
  <2>2. \A a \in RunningRecords' : a \in RunningRecords \/ a = cur[p]
    BY DEF RecordRun, MarkRunStatus, RunningRecords
  <2>3. \A b \in live : SlotOf[b[1]] = SlotOf[cur[p][1]] => b = cur[p]
    BY DEF RecordRun, RecordOK
  <2>4. UNCHANGED <<live, cur>> /\ \A q \in Actors : pc'[q] = "record" => pc[q] = "record"
    BY DEF RecordRun
  <2> QED
    BY <2>2, <2>3, <2>4 DEF RecordOK
<1>8. SweepOK'
  BY DispatchAssumption DEF RecordRun, MarkRunStatus,
         SweepOK, SweepPC, CurOK, LockOK, RecordOK, RunningRecords
<1>9. UnfinishedOK'
  BY DispatchAssumption DEF RecordRun, MarkRunStatus,
         UnfinishedOK, SweepOK, SweepPC, CurOK, LockOK, FreshOK
<1> QED
  BY <1>1, <1>2, <1>3, <1>4, <1>5, <1>6, <1>7, <1>8, <1>9

\* A lease is nobody else's business.
LEMMA TakeLeaseInv ==
    ASSUME DispatchInv, NEW p \in Actors, TakeLease(p)
    PROVE  DispatchInv'
<1> USE DEF DispatchInv, DispatchTypeOK, FleetTypeOK, InDispatchOnce, Goto, fleetVars, boardVars,
           localVars
<1>1. DispatchTypeOK'
  BY DispatchType DEF DispatchOnce
<1>2. CurOK'
  BY DispatchAssumption DEF TakeLease,
         CurOK, SweepPC
<1>3. LockOK'
  BY DispatchAssumption DEF TakeLease,
         CurOK, LockOK, SweepPC
<1>4. SnapOK'
  BY DispatchAssumption DEF TakeLease,
         SnapOK, CurOK
<1>5. FreshOK'
  BY DispatchAssumption DEF TakeLease,
         FreshOK, CurOK
<1>6. OneWorkerPerSlot'
  BY DispatchAssumption DEF TakeLease,
         OneWorkerPerSlot, CurOK
<1>7. RecordOK'
  BY DispatchAssumption DEF TakeLease,
         RecordOK, RunningRecords, OneWorkerPerSlot, CurOK, LockOK, SnapOK
<1>8. SweepOK'
  BY DispatchAssumption DEF TakeLease,
         SweepOK, SweepPC, CurOK, LockOK, RecordOK, RunningRecords
<1>9. UnfinishedOK'
  BY DispatchAssumption DEF TakeLease,
         UnfinishedOK, SweepOK, SweepPC, CurOK, LockOK, FreshOK
<1> QED
  BY <1>1, <1>2, <1>3, <1>4, <1>5, <1>6, <1>7, <1>8, <1>9

\* Leaving dispatch_once gives the lock back.
LEMMA DispatchLeaveInv ==
    ASSUME DispatchInv, NEW p \in Actors, DispatchLeave(p)
    PROVE  DispatchInv'
<1> USE DEF DispatchInv, DispatchTypeOK, FleetTypeOK, InDispatchOnce, Goto, fleetVars, boardVars,
           localVars
<1>1. DispatchTypeOK'
  BY DispatchType DEF DispatchOnce
<1>2. CurOK'
  BY DispatchAssumption DEF DispatchLeave, AfterDispatch, ReadStatuses, Mine, TasksOf,
         CurOK, SweepPC
<1>3. LockOK'
  <2>1. board = {p}
    BY DEF DispatchLeave, LockOK
  <2>2. \A q \in Actors \ {p} : pc[q] \notin InDispatchOnce
    BY <2>1 DEF LockOK
  <2> QED
    BY <2>2 DEF DispatchLeave, AfterDispatch, ReadStatuses, LockOK
<1>4. SnapOK'
  BY DispatchAssumption DEF DispatchLeave, AfterDispatch, ReadStatuses, Mine, TasksOf,
         SnapOK, CurOK
<1>5. FreshOK'
  BY DispatchAssumption DEF DispatchLeave, AfterDispatch, ReadStatuses, Mine, TasksOf,
         FreshOK, CurOK
<1>6. OneWorkerPerSlot'
  BY DispatchAssumption DEF DispatchLeave, AfterDispatch, ReadStatuses, Mine, TasksOf,
         OneWorkerPerSlot, CurOK
<1>7. RecordOK'
  BY DispatchAssumption DEF DispatchLeave, AfterDispatch, ReadStatuses, Mine, TasksOf,
         RecordOK, RunningRecords, OneWorkerPerSlot, CurOK, LockOK, SnapOK
<1>8. SweepOK'
  BY DispatchAssumption DEF DispatchLeave, AfterDispatch, ReadStatuses, Mine, TasksOf,
         SweepOK, SweepPC, CurOK, LockOK, RecordOK, RunningRecords
<1>9. UnfinishedOK'
  BY DispatchAssumption DEF DispatchLeave, AfterDispatch, ReadStatuses, Mine, TasksOf,
         UnfinishedOK, SweepOK, SweepPC, CurOK, LockOK, FreshOK
<1> QED
  BY <1>1, <1>2, <1>3, <1>4, <1>5, <1>6, <1>7, <1>8, <1>9

\* A worker reports only a claimed attempt of its own, and only exits.
LEMMA WorkerInv ==
    ASSUME DispatchInv, WorkerStep
    PROVE  DispatchInv'
<1> USE DEF DispatchInv, DispatchTypeOK, FleetTypeOK, localVars
<1>1. DispatchTypeOK'
  BY WorkerType
<1>2. /\ live' \subseteq live
      /\ UNCHANGED <<rec, tries, localVars, board>>
  BY DEF WorkerStep, Worker, WorkerReports, WorkerExits
<1>3. CurOK' /\ LockOK' /\ FreshOK' /\ OneWorkerPerSlot' /\ RecordOK' /\ SnapOK' /\ SweepOK'
  BY <1>2 DEF CurOK, LockOK, FreshOK, OneWorkerPerSlot, RecordOK, RunningRecords, SnapOK,
              SweepOK
<1>4. UnfinishedOK'
  <2>1. \A b \in live : b[1] \in Tasks /\ b[2] # 0
    BY AttemptShape
  <2>2. \A q \in Actors : pc[q] \in {"reclaim", "charge", "launch"} => cur[q][1] \in Tasks
    BY AttemptShape DEF CurOK, SweepPC
  <2>3. ASSUME NEW a \in Attempts, NEW st \in TerminalTask, WorkerReports(a, st)
        PROVE  UnfinishedOK'
    <3>1. \A q \in Actors : pc[q] \in {"reclaim", "charge", "launch"} => cur[q][1] # a[1]
      <4>1. a \in live /\ claim[a[1]] = a[2]
        BY <2>3 DEF WorkerReports
      <4>2. \A q \in Actors : pc[q] \in {"reclaim", "charge"} => cur[q][1] # a[1]
        BY <4>1 DEF SweepOK, SweepPC
      <4>3. \A q \in Actors : pc[q] = "launch" => cur[q][1] # a[1]
        BY <4>1 DEF UnfinishedOK
      <4> QED
        BY <4>2, <4>3
    <3>2. \A u \in Tasks : u # a[1] => status'[u] = status[u] /\ claim'[u] = claim[u]
      BY <2>3 DEF WorkerReports
    <3> QED
      BY <1>2, <2>2, <3>1, <3>2 DEF UnfinishedOK
  <2>4. ASSUME NEW a \in Attempts, WorkerExits(a)
        PROVE  UnfinishedOK'
    BY <1>2, <2>4 DEF WorkerExits, UnfinishedOK
  <2> QED
    BY <2>3, <2>4 DEF WorkerStep, Worker
<1> QED
  BY <1>1, <1>3, <1>4

\* Nor does reading them again for the last reap.
LEMMA ReapAtLastInv ==
    ASSUME DispatchInv, NEW p \in Actors, ReapAtLast(p)
    PROVE  DispatchInv'
<1> USE DEF DispatchInv, DispatchTypeOK, FleetTypeOK, InDispatchOnce, Goto, fleetVars, boardVars,
           localVars
<1>1. DispatchTypeOK'
  BY ConcludeType DEF Conclude
<1>2. CurOK'
  BY DispatchAssumption DEF ReapAtLast, ReadStatuses, Mine, TasksOf,
         CurOK, SweepPC
<1>3. LockOK'
  BY DispatchAssumption DEF ReapAtLast, ReadStatuses, Mine, TasksOf,
         CurOK, LockOK, SweepPC
<1>4. SnapOK'
  BY DispatchAssumption DEF ReapAtLast, ReadStatuses, Mine, TasksOf,
         SnapOK, CurOK
<1>5. FreshOK'
  BY DispatchAssumption DEF ReapAtLast, ReadStatuses, Mine, TasksOf,
         FreshOK, CurOK
<1>6. OneWorkerPerSlot'
  BY DispatchAssumption DEF ReapAtLast, ReadStatuses, Mine, TasksOf,
         OneWorkerPerSlot, CurOK
<1>7. RecordOK'
  BY DispatchAssumption DEF ReapAtLast, ReadStatuses, Mine, TasksOf,
         RecordOK, RunningRecords, OneWorkerPerSlot, CurOK, LockOK, SnapOK
<1>8. SweepOK'
  BY DispatchAssumption DEF ReapAtLast, ReadStatuses, Mine, TasksOf,
         SweepOK, SweepPC, CurOK, LockOK, RecordOK, RunningRecords
<1>9. UnfinishedOK'
  BY DispatchAssumption DEF ReapAtLast, ReadStatuses, Mine, TasksOf,
         UnfinishedOK, SweepOK, SweepPC, CurOK, LockOK, FreshOK
<1> QED
  BY <1>1, <1>2, <1>3, <1>4, <1>5, <1>6, <1>7, <1>8, <1>9

\* The conclusion of a tick changes the state of its run and nothing else.
LEMMA ConcludeInv ==
    ASSUME DispatchInv, NEW p \in Actors, Conclude(p)
    PROVE  DispatchInv'
<1>1. DispatchTypeOK'
  BY ConcludeType DEF DispatchInv
<1>2. CASE ReadEvidence(p)
  <2>1. pc[p] \notin SweepPC /\ reaping[p] = {}
    BY <1>2 DEF ReadEvidence, DispatchInv, SnapOK, SweepPC
  <2> QED
    BY <1>1, <1>2, <2>1, QuietInv DEF ReadEvidence
<1>3. CASE CheckLive(p)
  <2>1. pc[p] \notin SweepPC /\ reaping[p] = {}
    BY <1>3 DEF CheckLive, DispatchInv, SnapOK, SweepPC
  <2>2. Goto(p, "commit") \/ Goto(p, "reread")
    BY <1>3 DEF CheckLive
  <2> QED
    BY <1>1, <1>3, <2>1, <2>2, QuietInv DEF CheckLive
<1>4. CASE ReapAtLast(p)
  BY <1>4, ReapAtLastInv
<1>5. CASE Commit(p)
  BY <1>1, <1>5, ForgetInv DEF Commit
<1> QED
  BY <1>2, <1>3, <1>4, <1>5 DEF Conclude

\* No step breaks the invariant.
LEMMA NextInv == DispatchInv /\ [Next]_vars => DispatchInv'
<1> SUFFICES ASSUME DispatchInv, [Next]_vars PROVE DispatchInv'
  OBVIOUS
<1>1. ASSUME NEW p \in Actors, Tick(p) PROVE DispatchInv'
  <2>1. CASE TickBegin(p)
    BY <2>1, TickBeginInv
  <2>2. CASE Reap(p)
    BY <2>2, ReapReadInv, ReapReleaseInv, BeginDispatchInv, SkipDispatchInv DEF Reap
  <2>3. CASE Sweep(p)
    BY <2>3, SweepIdentityInv, SweepJudgeInv, SweepSettleInv, SweepReclaimInv,
       SweepChargeInv, SweepCloseInv, SweepDoneInv DEF Sweep
  <2>4. CASE Reserve(p)
    BY <2>4, ReserveInv
  <2>5. CASE DispatchOnce(p)
    BY <2>5, DispatchEnterInv, DispatchClaimInv, DispatchReclaimInv, LaunchRefusedInv,
       LaunchInv, LaunchFailsInv, RecordRunInv, TakeLeaseInv, DispatchLeaveInv
       DEF DispatchOnce
  <2>6. CASE Conclude(p)
    BY <2>6, ConcludeInv
  <2> QED
    BY <1>1, <2>1, <2>2, <2>3, <2>4, <2>5, <2>6 DEF Tick
<1>2. ASSUME NEW p \in Controllers, Crash(p) PROVE DispatchInv'
  BY <1>2, CrashType, ForgetInv DEF Crash, DispatchInv, Actors, fleetVars
<1>3. CASE WorkerStep
  BY <1>3, WorkerInv
<1>4. CASE UNCHANGED vars
  <2>1. UNCHANGED <<status, claim, tries, rec, lease, live>> /\ UNCHANGED localVars
        /\ UNCHANGED <<used, run, board, crashes>>
    BY <1>4 DEF vars, fleetVars
  <2>2. DispatchTypeOK' /\ CurOK' /\ LockOK' /\ FreshOK' /\ OneWorkerPerSlot'
    BY <2>1 DEF DispatchInv, localVars, DispatchTypeOK, FleetTypeOK, CurOK, LockOK, FreshOK,
                OneWorkerPerSlot
  <2>3. RecordOK' /\ SnapOK' /\ SweepOK' /\ UnfinishedOK'
    BY <2>1 DEF DispatchInv, localVars, RecordOK, RunningRecords, SnapOK, SweepOK,
                UnfinishedOK
  <2> QED
    BY <2>2, <2>3 DEF DispatchInv
<1>5. CASE Terminated
  BY <1>4, <1>5 DEF Terminated
<1> QED
  BY <1>1, <1>2, <1>3, <1>4, <1>5 DEF Next

\* The inductive invariant holds in every reachable state, whatever the
\* number of runs, controllers, observers and crashes.
THEOREM InvariantHolds == Spec => []DispatchInv
BY InitInv, NextInv, PTL DEF Spec

\* Every reachable state is well typed.
THEOREM TypeCorrect == Spec => []DispatchTypeOK
<1>1. DispatchInv => DispatchTypeOK
  BY DEF DispatchInv
<1> QED
  BY <1>1, InvariantHolds, PTL

\* No two live workers ever share a slot, so no task ever has two: crashes of
\* the controller half way through a spawn, replacements and the controllers
\* of other runs included.
THEOREM NoDuplicateWorker == Spec => []OneWorkerPerSlot
<1>1. DispatchInv => OneWorkerPerSlot
  BY DEF DispatchInv
<1> QED
  BY <1>1, InvariantHolds, PTL

-----------------------------------------------------------------------------
\* A step from a state of the invariant leaves finished tasks finished: the
\* only steps that could reset one are those UnfinishedOK speaks of.
LEMMA DoneStep ==
    ASSUME DispatchInv, [Next]_vars, NEW t \in Tasks, status[t] = "done"
    PROVE  status'[t] = "done"
<1> USE DEF DispatchInv, DispatchTypeOK, FleetTypeOK, fleetVars, boardVars
<1>1. ASSUME NEW p \in Actors, Tick(p) PROVE status'[t] = "done"
  <2>1. CASE TickBegin(p) \/ Reap(p)
    BY <2>1 DEF TickBegin, Reap, ReapRead, ReapRelease, BeginDispatch, SkipDispatch
  <2>2. CASE Sweep(p)
    <3>1. CASE SweepReclaim(p)
      BY <3>1 DEF SweepReclaim, ReclaimTask, UnfinishedOK
    <3>2. CASE SweepCharge(p)
      BY <3>2 DEF SweepCharge, BudgetLeft, BlockTask, UnfinishedOK
    <3>3. CASE UNCHANGED status
      BY <3>3
    <3> QED
      BY <2>2, <3>1, <3>2, <3>3
         DEF Sweep, SweepIdentity, SweepJudge, SettledUpstream, SweepSettle, SweepClose,
             SweepDone
  <2>3. CASE Reserve(p)
    BY <2>3 DEF Reserve, Promoted
  <2>4. CASE DispatchOnce(p)
    <3>1. CASE LaunchRefused(p) \/ LaunchFails(p)
      BY <3>1 DEF LaunchRefused, LaunchFails, SpawnRaises, BlockTask, UnfinishedOK
    <3>2. ASSUME NEW u \in Tasks, DispatchClaim(p, u) \/ DispatchReclaim(p, u)
          PROVE  status'[t] = "done"
      BY <3>2 DEF DispatchClaim, DispatchReclaim, ReclaimTask, BlockTask
    <3>3. CASE UNCHANGED status
      BY <3>3
    <3> QED
      BY <2>4, <3>1, <3>2, <3>3
         DEF DispatchOnce, DispatchEnter, Launch, Respawn, RecordRun, TakeLease, DispatchLeave
  <2>5. CASE Conclude(p)
    BY <2>5 DEF Conclude, ReadEvidence, CheckLive, ReapAtLast, Commit
  <2> QED
    BY <1>1, <2>1, <2>2, <2>3, <2>4, <2>5 DEF Tick
<1>2. ASSUME NEW p \in Controllers, Crash(p) PROVE status'[t] = "done"
  BY <1>2 DEF Crash
<1>3. CASE WorkerStep
  BY <1>3 DEF WorkerStep, Worker, WorkerReports, WorkerExits
<1>4. CASE UNCHANGED vars \/ Terminated
  BY <1>4 DEF Terminated, vars
<1> QED
  BY <1>1, <1>2, <1>3, <1>4 DEF Next

\* Finished work is never handed out again: not by the sweep of a worker that
\* exits while it is being judged, not by a spawn that fails.
THEOREM FinishedWorkIsKept == Spec => DoneStaysDone
<1>1. DispatchInv /\ [Next]_vars =>
         [\A t \in Tasks : status[t] = "done" => status'[t] = "done"]_vars
  BY DoneStep
<1> QED
  BY <1>1, InvariantHolds, PTL DEF Spec, DoneStaysDone

-----------------------------------------------------------------------------
(* Replacements are charged.                                               *)

\* An attempt with a row, after which nothing was launched for its task.
Newest(a) ==
    /\ rec[a] # "absent"
    /\ \A b \in AttemptsOf(a[1]) : Launched(b) => b[2] <= a[2]

\* What a controller settles, sweeps or charges is the last that was launched of
\* its task, and what it starts is what upstream has just handed out.
NewestOK ==
    /\ \A a \in RunningRecords : Newest(a)
    /\ \A a \in Attempts : rec[a] # "absent" => a[2] <= tries[a[1]]
    /\ \A p \in Actors :
          /\ \A a \in sweeping[p] : Newest(a)
          /\ pc[p] = "release" /\ cur[p] \in Attempts => rec[cur[p]] # "absent"
          /\ pc[p] \in SweepPC \ {"sweep"} => Newest(cur[p]) /\ cur[p] \notin sweeping[p]
          /\ pc[p] \in {"launch", "record", "lease"} => cur[p][2] = tries[cur[p][1]]
          /\ pc[p] \in {"record", "lease"} => OwnerOf[cur[p][1]] = RunOf[p]
          /\ pc[p] = "record" => \A a \in RunningRecords : a[1] # cur[p][1]

\* A step that starts nothing: no process, no row, and no more in hand than the
\* rows it has read.
LocalStep(p) ==
    /\ UNCHANGED tries
    /\ live' \subseteq live
    /\ \A a \in Attempts :
          /\ rec'[a] = "absent" <=> rec[a] = "absent"
          /\ rec'[a] = "running" => rec[a] = "running"
          /\ rec'[a] = "crashed" =>
                rec[a] = "crashed" \/ (pc[p] = "close" /\ cur[p] = a)
    /\ \A t \in Tasks : status[t] = "blocked" =>
          status'[t] = "blocked" \/ (pc[p] = "reclaim" /\ cur[p][1] = t)
    /\ \A q \in Actors \ {p} :
          pc'[q] = pc[q] /\ cur'[q] = cur[q] /\ sweeping'[q] = sweeping[q]
    /\ \/ pc'[p] \notin SweepPC /\ sweeping'[p] \subseteq sweeping[p]
       \/ pc'[p] = "sweep" /\ sweeping'[p] \subseteq sweeping[p]
       \/ /\ pc'[p] = "sweep" /\ pc[p] \notin SweepPC
          /\ sweeping'[p] \subseteq {a \in RunningRecords : a[1] \in Mine(p)}
       \/ /\ pc'[p] \in SweepPC /\ pc[p] \in SweepPC \ {"sweep", "close"}
          /\ cur'[p] = cur[p] /\ sweeping'[p] = sweeping[p]
       \/ /\ pc'[p] = "judge" /\ cur'[p] \in sweeping[p]
          /\ sweeping'[p] = sweeping[p] \ {cur'[p]}
    /\ pc'[p] = "close" => pc[p] = "charge"
    /\ pc'[p] \in {"launch", "record", "lease"} => pc'[p] = pc[p] /\ cur'[p] = cur[p]
    /\ pc'[p] = "release" /\ cur'[p] \in Attempts => rec[cur'[p]] # "absent"

\* Such a step leaves what was the last attempt the last one.
LEMMA LocalNewest ==
    ASSUME DispatchInv, DispatchInv', NewestOK, NEW p \in Actors, LocalStep(p)
    PROVE  NewestOK'
<1> USE DEF DispatchInv, DispatchTypeOK, FleetTypeOK, LocalStep
<1>1. \A a \in Attempts : AttemptsOf(a[1]) \subseteq Attempts
  BY DEF Attempts, AttemptsOf
<1>2. \A a \in Attempts : Newest(a) => Newest(a)'
  BY <1>1, SMTT(30) DEF Newest, Launched
<1>3. \A a \in RunningRecords' : a \in RunningRecords
  BY DEF RunningRecords
<1>4. \A a \in RunningRecords' : Newest(a)'
  BY <1>2, <1>3 DEF NewestOK, RunningRecords
<1>5. \A a \in Attempts : rec'[a] # "absent" => a[2] <= tries'[a[1]]
  BY DEF NewestOK
<1>6. ASSUME NEW q \in Actors, q # p
      PROVE  /\ \A a \in sweeping'[q] : Newest(a)'
             /\ pc'[q] = "release" /\ cur'[q] \in Attempts => rec'[cur'[q]] # "absent"
             /\ pc'[q] \in SweepPC \ {"sweep"} => Newest(cur[q])' /\ cur'[q] \notin sweeping'[q]
             /\ pc'[q] \in {"launch", "record", "lease"} => cur'[q][2] = tries'[cur'[q][1]]
             /\ pc'[q] \in {"record", "lease"} => OwnerOf[cur'[q][1]] = RunOf[q]
             /\ pc'[q] = "record" => \A a \in RunningRecords' : a[1] # cur'[q][1]
  <2>1. pc'[q] = pc[q] /\ cur'[q] = cur[q] /\ sweeping'[q] = sweeping[q]
    BY <1>6
  <2>2. \A a \in sweeping[q] : Newest(a)'
    BY <1>2 DEF NewestOK
  <2>3. pc[q] \in SweepPC \ {"sweep"} => Newest(cur[q])'
    BY <1>2, <2>1 DEF NewestOK, CurOK, SweepPC
  <2> QED
    BY <1>3, <2>1, <2>2, <2>3 DEF NewestOK, Newest
<1>7. \A a \in sweeping'[p] : Newest(a)'
  <2>1. sweeping'[p] \subseteq sweeping[p] \cup RunningRecords
    OBVIOUS
  <2> QED
    BY <1>2, <2>1 DEF NewestOK, RunningRecords
<1>8. pc'[p] \in SweepPC \ {"sweep"} => Newest(cur[p])' /\ cur'[p] \notin sweeping'[p]
  <2>1. ASSUME pc'[p] \in SweepPC \ {"sweep"}, pc[p] \in SweepPC \ {"sweep"},
               cur'[p] = cur[p], sweeping'[p] = sweeping[p]
        PROVE  Newest(cur[p])' /\ cur'[p] \notin sweeping'[p]
    <3>1. cur[p] \in Attempts /\ Newest(cur[p]) /\ cur[p] \notin sweeping[p]
      BY <2>1 DEF CurOK, NewestOK, SweepPC
    <3>2. Newest(cur[p])'
      BY <1>2, <2>1, <3>1
    <3> QED
      BY <2>1, <3>1, <3>2
  <2>2. ASSUME cur'[p] \in sweeping[p], sweeping'[p] = sweeping[p] \ {cur'[p]}
        PROVE  Newest(cur[p])' /\ cur'[p] \notin sweeping'[p]
    <3>1. cur'[p] \in Attempts /\ Newest(cur'[p])
      BY <2>2 DEF NewestOK
    <3>2. Newest(cur[p])'
      BY <1>2, <3>1
    <3> QED
      BY <2>2, <3>2
  <2> QED
    BY <2>1, <2>2
<1>9. /\ pc'[p] = "release" /\ cur'[p] \in Attempts => rec'[cur'[p]] # "absent"
      /\ pc'[p] \in {"launch", "record", "lease"} => cur'[p][2] = tries'[cur'[p][1]]
      /\ pc'[p] \in {"record", "lease"} => OwnerOf[cur'[p][1]] = RunOf[p]
      /\ pc'[p] = "record" => \A a \in RunningRecords' : a[1] # cur'[p][1]
  BY <1>3 DEF NewestOK
<1> QED
  BY <1>4, <1>5, <1>6, <1>7, <1>8, <1>9, ZenonT(30) DEF NewestOK

\* Reading the statuses and reaping starts nothing.
LEMMA LocalReap ==
    ASSUME DispatchInv, NewestOK, NEW p \in Actors, TickBegin(p) \/ Reap(p)
    PROVE  LocalStep(p)
<1> USE DEF DispatchInv, DispatchTypeOK, FleetTypeOK, fleetVars, boardVars, Goto
<1>1. CASE TickBegin(p)
  BY <1>1 DEF TickBegin, ReadStatuses, LocalStep, SweepPC
<1>2. ASSUME NEW t \in Tasks, ReapRead(p, t) PROVE LocalStep(p)
  <2>1. \A a \in LatestRunning(t) : rec[a] # "absent"
    BY DEF LatestRunning
  <2>2. <<t, 0>> \notin Attempts
    BY DEF Attempts
  <2>3. pc'[p] = "release" /\ cur'[p] \in Attempts => rec[cur'[p]] # "absent"
    <3>1. pc[p] = "reap"
      BY <1>2 DEF ReapRead
    <3>2. pc'[p] = "release" => cur'[p] = <<t, 0>> \/ cur'[p] \in LatestRunning(t)
      BY <1>2, <3>1 DEF ReapRead
    <3> QED
      BY <2>1, <2>2, <3>2
  <2>4. pc'[p] \in {"reap", "release"}
    BY <1>2 DEF ReapRead
  <2>5. /\ UNCHANGED <<fleetVars, sweeping>>
        /\ \A q \in Actors \ {p} : pc'[q] = pc[q] /\ cur'[q] = cur[q]
    BY <1>2 DEF ReapRead
  <2> QED
    BY <2>3, <2>4, <2>5 DEF LocalStep, SweepPC
<1>3. CASE ReapRelease(p)
  <2>1. cur[p] # NoAttempt /\ cur[p][1] \in Tasks
    BY <1>3, CurTask DEF ReapRelease, CurOK
  <2>2. SettledAs(snap[p][cur[p][1]]) \notin {"absent", "running", "crashed"}
    <3>1. snap[p][cur[p][1]] \in Status
      BY <2>1
    <3>2. snap[p][cur[p][1]] # "running"
      BY <1>3 DEF ReapRelease, SnapOK
    <3> QED
      BY <3>1, <3>2 DEF SettledAs, Status
  <2>3. cur[p] \in Attempts => rec[cur[p]] # "absent"
    BY <1>3 DEF ReapRelease, NewestOK
  <2>4. pc'[p] = "reap"
    BY <1>3 DEF ReapRelease
  <2>5. \A a \in Attempts :
          /\ rec'[a] = "absent" <=> rec[a] = "absent"
          /\ rec'[a] = "running" => rec[a] = "running"
          /\ rec'[a] = "crashed" => rec[a] = "crashed"
    BY <1>3, <2>2, <2>3 DEF ReapRelease, MarkRunStatus
  <2> QED
    BY <1>3, <2>4, <2>5 DEF ReapRelease, LocalStep, SweepPC
<1>4. CASE BeginDispatch(p)
  BY <1>4 DEF BeginDispatch, ReapOver, LocalStep, SweepPC
<1>5. CASE SkipDispatch(p)
  BY <1>5 DEF SkipDispatch, LocalStep, SweepPC
<1> QED
  BY <1>1, <1>2, <1>3, <1>4, <1>5 DEF Reap

\* The identity sweep starts nothing, and only its end writes "crashed".
LEMMA LocalSweep ==
    ASSUME DispatchInv, NewestOK, NEW p \in Actors, Sweep(p)
    PROVE  LocalStep(p)
<1> USE DEF DispatchInv, DispatchTypeOK, FleetTypeOK, fleetVars, boardVars, Goto
<1>1. ASSUME NEW a \in Attempts, SweepIdentity(p, a) PROVE LocalStep(p)
  <2>1. CASE a \in live
    BY <1>1, <2>1 DEF SweepIdentity, LocalStep, SweepPC
  <2>2. CASE a \notin live
    BY <1>1, <2>2 DEF SweepIdentity, LocalStep, SweepPC
  <2> QED
    BY <2>1, <2>2
<1>2. CASE SweepJudge(p)
  BY <1>2 DEF SweepJudge, LocalStep, SweepPC
<1>3. CASE SweepSettle(p)
  <2>1. cur[p] \in Attempts /\ cur[p][1] \in Tasks /\ rec[cur[p]] # "absent"
    BY <1>3, AttemptShape DEF SweepSettle, CurOK, NewestOK, SweepPC, Newest
  <2>2. SettledAs(snap[p][cur[p][1]]) \notin {"absent", "running", "crashed"}
    <3>1. snap[p][cur[p][1]] \in Status
      BY <2>1
    <3>2. snap[p][cur[p][1]] # "running"
      BY <1>3 DEF SweepSettle, SnapOK
    <3> QED
      BY <3>1, <3>2 DEF SettledAs, Status
  <2>3. \A a \in Attempts :
          /\ rec'[a] = "absent" <=> rec[a] = "absent"
          /\ rec'[a] = "running" => rec[a] = "running"
          /\ rec'[a] = "crashed" => rec[a] = "crashed"
    BY <1>3, <2>1, <2>2 DEF SweepSettle, MarkRunStatus
  <2> QED
    BY <1>3, <2>3 DEF SweepSettle, LocalStep, SweepPC
<1>4. CASE SweepReclaim(p)
  BY <1>4 DEF SweepReclaim, ReclaimTask, LocalStep, SweepPC
<1>5. CASE SweepCharge(p)
  <2>1. UNCHANGED tries /\ \A t \in Tasks : status[t] = "blocked" => status'[t] = "blocked"
    BY <1>5 DEF SweepCharge, BlockTask
  <2> QED
    BY <1>5, <2>1 DEF SweepCharge, LocalStep, SweepPC
<1>6. CASE SweepClose(p)
  <2>1. cur[p] \in Attempts /\ rec[cur[p]] # "absent"
    BY <1>6 DEF SweepClose, CurOK, NewestOK, SweepPC, Newest
  <2>2. \A a \in Attempts :
          /\ rec'[a] = "absent" <=> rec[a] = "absent"
          /\ rec'[a] = "running" => rec[a] = "running"
          /\ rec'[a] = "crashed" => rec[a] = "crashed" \/ (pc[p] = "close" /\ cur[p] = a)
    BY <1>6, <2>1 DEF SweepClose, MarkRunStatus
  <2> QED
    BY <1>6, <2>2 DEF SweepClose, LocalStep, SweepPC
<1>7. CASE SweepDone(p)
  BY <1>7 DEF SweepDone, LocalStep, SweepPC
<1> QED
  BY <1>1, <1>2, <1>3, <1>4, <1>5, <1>6, <1>7 DEF Sweep

\* Neither do the remaining steps, a crash of the controller included.
LEMMA LocalRest ==
    ASSUME DispatchInv, NewestOK, NEW p \in Actors,
           \/ Reserve(p) \/ DispatchEnter(p) \/ DispatchLeave(p)
           \/ \E t \in Tasks : DispatchReclaim(p, t)
           \/ LaunchRefused(p) \/ LaunchFails(p) \/ TakeLease(p)
           \/ Conclude(p) \/ (p \in Controllers /\ Crash(p))
    PROVE  LocalStep(p)
<1> USE DEF DispatchInv, DispatchTypeOK, FleetTypeOK, fleetVars, boardVars, localVars, Goto
<1>1. CASE Reserve(p)
  <2>1. UNCHANGED <<tries, rec, live, cur, sweeping>> /\ status' = Promoted
        /\ pc' = [pc EXCEPT ![p] = "enter"]
    BY <1>1 DEF Reserve
  <2> QED
    BY <2>1 DEF Promoted, LocalStep, SweepPC
<1>2. CASE DispatchEnter(p) \/ DispatchLeave(p)
  BY <1>2 DEF DispatchEnter, DispatchLeave, AfterDispatch, ReadStatuses, LocalStep, SweepPC
<1>3. ASSUME NEW t \in Tasks, DispatchReclaim(p, t) PROVE LocalStep(p)
  <2>1. pc[p] = "claim" /\ UNCHANGED <<tries, rec, live, cur, sweeping, pc>>
    BY <1>3 DEF DispatchReclaim, ReclaimTask, BlockTask
  <2>2. \A u \in Tasks : status[u] = "blocked" => status'[u] = "blocked"
    BY <1>3 DEF DispatchReclaim, ReclaimTask, BlockTask
  <2> QED
    BY <2>1, <2>2 DEF LocalStep, SweepPC
<1>4. CASE LaunchRefused(p)
  BY <1>4 DEF LaunchRefused, SpawnRaises, BlockTask, LocalStep, SweepPC
<1>5. CASE LaunchFails(p)
  <2>1. \A a \in Attempts :
          /\ rec'[a] = "absent" <=> rec[a] = "absent"
          /\ rec'[a] = "running" => rec[a] = "running"
          /\ rec'[a] = "crashed" => rec[a] = "crashed"
    BY <1>5 DEF LaunchFails, Supersede, MarkRunStatus, RunningRecords
  <2>2. UNCHANGED <<tries, sweeping>> /\ live' \subseteq live
        /\ pc' = [pc EXCEPT ![p] = "claim"] /\ cur' = [cur EXCEPT ![p] = NoAttempt]
        /\ \A u \in Tasks : status[u] = "blocked" => status'[u] = "blocked"
    BY <1>5 DEF LaunchFails, SpawnRaises, BlockTask
  <2> QED
    BY <2>1, <2>2 DEF LocalStep, SweepPC
<1>6. CASE TakeLease(p)
  BY <1>6 DEF TakeLease, LocalStep, SweepPC
<1>7. CASE Conclude(p)
  BY <1>7 DEF Conclude, ReadEvidence, CheckLive, ReapAtLast, Commit, Forget, ReadStatuses,
              LocalStep, SweepPC
<1>8. CASE p \in Controllers /\ Crash(p)
  BY <1>8 DEF Crash, Forget, LocalStep, SweepPC
<1> QED
  BY <1>1, <1>2, <1>3, <1>4, <1>5, <1>6, <1>7, <1>8

\* No attempt was made yet.
LEMMA InitNewest == Init => NewestOK
BY DEF Init, FleetInit, NewestOK, RunningRecords, Newest, SweepPC

\* A claim hands out an attempt of which there is neither process nor row.
LEMMA ClaimNewest ==
    ASSUME DispatchInv, NewestOK, NEW p \in Actors, NEW t \in Tasks, DispatchClaim(p, t)
    PROVE  NewestOK'
<1> USE DEF DispatchInv, DispatchTypeOK, FleetTypeOK, Goto, boardVars
<1>1. /\ UNCHANGED <<rec, live, sweeping>>
      /\ pc[p] = "claim" /\ board = {p}
      /\ pc' = [pc EXCEPT ![p] = "launch"]
      /\ cur' = [cur EXCEPT ![p] = <<t, tries[t] + 1>>]
      /\ tries' = [tries EXCEPT ![t] = @ + 1]
  BY DEF DispatchClaim, LockOK, InDispatchOnce
<1>2. \A a \in Attempts : a[1] \in Tasks /\ a[2] \in Nat
  BY AttemptShape, FleetAssumption
<1>3. \A u \in Tasks : tries[u] \in Nat /\ tries'[u] \in Nat /\ tries[u] <= tries'[u]
  BY <1>1, FleetAssumption
<1>4. \A a \in Attempts : Newest(a) => Newest(a)'
  BY <1>1 DEF Newest, Launched
<1>5. \A a \in RunningRecords' : Newest(a)'
  BY <1>1, <1>4 DEF NewestOK, RunningRecords
<1>6. \A a \in Attempts : rec'[a] # "absent" => a[2] <= tries'[a[1]]
  BY <1>1, <1>2, <1>3 DEF NewestOK
<1>7. \A q \in Actors : \A a \in sweeping'[q] : Newest(a)'
  BY <1>1, <1>4 DEF NewestOK
<1>8. \A q \in Actors \ {p} : pc[q] \notin {"launch", "record", "lease"}
  BY <1>1 DEF LockOK, InDispatchOnce
<1>9. ASSUME NEW q \in Actors
      PROVE  /\ pc'[q] = "release" /\ cur'[q] \in Attempts => rec'[cur'[q]] # "absent"
             /\ pc'[q] \in SweepPC \ {"sweep"} => Newest(cur[q])' /\ cur'[q] \notin sweeping'[q]
             /\ pc'[q] \in {"launch", "record", "lease"} => cur'[q][2] = tries'[cur'[q][1]]
             /\ pc'[q] \in {"record", "lease"} => OwnerOf[cur'[q][1]] = RunOf[q]
             /\ pc'[q] = "record" => \A a \in RunningRecords' : a[1] # cur'[q][1]
  <2>1. CASE q = p
    BY <1>1, <2>1 DEF SweepPC
  <2>2. CASE q # p
    <3>1. pc'[q] = pc[q] /\ cur'[q] = cur[q] /\ sweeping'[q] = sweeping[q]
      BY <1>1, <2>2
    <3>2. pc[q] \in SweepPC \ {"sweep"} => cur[q] \in Attempts /\ Newest(cur[q])
      BY DEF NewestOK, CurOK, SweepPC
    <3>3. pc[q] \in SweepPC \ {"sweep"} => Newest(cur[q])'
      BY <1>4, <3>1, <3>2
    <3>4. RunningRecords' = RunningRecords
      BY <1>1 DEF RunningRecords
    <3> QED
      BY <1>1, <1>8, <2>2, <3>1, <3>3, <3>4 DEF NewestOK
  <2> QED
    BY <2>1, <2>2
<1> QED
  BY <1>5, <1>6, <1>7, <1>9, Zenon DEF NewestOK

\* Both steps that bring an attempt to life: no other attempt at the task is.
LEMMA StartNewest ==
    ASSUME DispatchInv, NewestOK, NEW p \in Actors, Launch(p) \/ RecordRun(p)
    PROVE  NewestOK'
<1> USE DEF DispatchInv, DispatchTypeOK, FleetTypeOK, Goto, boardVars
<1> DEFINE c == cur[p]
<1>1. /\ UNCHANGED <<tries, cur, sweeping>>
      /\ pc[p] \in {"launch", "record"}
      /\ \E l \in {"record", "lease"} : pc' = [pc EXCEPT ![p] = l]
      /\ c \in Attempts /\ p \in Controllers
      /\ OwnerOf[c[1]] = RunOf[p]
      /\ c[2] = tries[c[1]]
  BY DEF Launch, RecordRun, MaySpawn, CurOK, LockOK, InDispatchOnce, NewestOK
<1>2. /\ \A a \in Attempts : a # c => /\ rec'[a] = "absent" <=> rec[a] = "absent"
                                      /\ rec'[a] = "running" => rec[a] = "running"
                                      /\ a \in live' => a \in live
      /\ rec[c] # "absent" => rec'[c] # "absent"
      /\ live' \subseteq live \cup {c}
  BY <1>1 DEF Launch, RecordRun, Supersede, Respawn, MarkRunStatus, RunningRecords
<1>3. ASSUME NEW a \in RunningRecords' PROVE a = c \/ (a \in RunningRecords /\ a[1] # c[1])
  <2>1. a \in Attempts /\ rec'[a] = "running"
    BY DEF RunningRecords
  <2>2. CASE Launch(p)
    <3>1. a \in RunningRecords \ OnSlot(SlotOf[c[1]])
      BY <2>1, <2>2 DEF Launch, Supersede, MarkRunStatus, RunningRecords
    <3> QED
      BY <2>1, <3>1 DEF OnSlot
  <2>3. CASE RecordRun(p)
    <3>1. a # c => a \in RunningRecords
      BY <2>1, <2>3, <1>2 DEF RunningRecords
    <3> QED
      BY <2>3, <3>1 DEF RecordRun, NewestOK
  <2> QED
    BY <2>2, <2>3
<1>4. \A a \in Attempts : a[2] \in Nat /\ a = <<a[1], a[2]>>
  BY AttemptShape, FleetAssumption
<1>5. \A a \in Attempts : AttemptsOf(a[1]) \subseteq Attempts /\ \A b \in AttemptsOf(a[1]) : b[1] = a[1]
  BY DEF AttemptsOf, Attempts
<1>6. ASSUME NEW a \in Attempts, a[1] # c[1], Newest(a) PROVE Newest(a)'
  <2>1. \A b \in AttemptsOf(a[1]) : Launched(b)' => Launched(b)
    BY <1>2, <1>5, <1>6 DEF Launched
  <2>2. rec'[a] # "absent"
    BY <1>2, <1>6 DEF Newest
  <2> QED
    BY <1>6, <2>1, <2>2 DEF Newest
<1>7. ASSUME NEW a \in Attempts, a = c, rec'[a] # "absent" PROVE Newest(a)'
  <2>1. \A b \in AttemptsOf(c[1]) : rec[b] # "absent" \/ b \in live => b[2] <= c[2]
    BY <1>1, <1>5, <1>4 DEF NewestOK, FreshOK
  <2>2. \A b \in AttemptsOf(c[1]) : Launched(b)' => b = c \/ Launched(b)
    BY <1>1, <1>2, <1>5 DEF Launched
  <2>3. c[2] \in Nat
    BY <1>1, <1>4
  <2>4. \A b \in AttemptsOf(c[1]) : Launched(b)' => b[2] <= c[2]
    BY <2>1, <2>2, <2>3 DEF Launched
  <2> QED
    BY <1>7, <2>4 DEF Newest
<1>8. \A a \in RunningRecords' : Newest(a)'
  <2> SUFFICES ASSUME NEW a \in RunningRecords' PROVE Newest(a)'
    OBVIOUS
  <2>1. rec'[a] # "absent" /\ a \in Attempts
    BY DEF RunningRecords
  <2>2. a = c \/ (a \in RunningRecords /\ a[1] # c[1])
    BY <1>3
  <2> QED
    BY <1>6, <1>7, <2>1, <2>2 DEF NewestOK
<1>9. \A a \in Attempts : rec'[a] # "absent" => a[2] <= tries'[a[1]]
  BY <1>1, <1>2, <1>4 DEF NewestOK
<1>10. \A q \in Actors \ {p} : /\ pc[q] \notin InDispatchOnce
                               /\ pc'[q] = pc[q] /\ cur'[q] = cur[q]
                               /\ sweeping'[q] = sweeping[q]
  BY <1>1 DEF LockOK, InDispatchOnce
<1>11. ASSUME NEW q \in Actors, pc[q] \in SweepPC, NEW a \in Attempts, Newest(a),
              OwnerOf[a[1]] = RunOf[q]
       PROVE  Newest(a)'
  <2>1. q # p /\ q \in Controllers
    BY <1>1, <1>11 DEF LockOK, SweepPC
  <2>2. a[1] # c[1]
    BY <1>1, <1>11, <2>1, DispatchAssumption
  <2> QED
    BY <1>6, <1>11, <2>2
<1>12. \A q \in Actors : \A a \in sweeping'[q] : Newest(a)'
  BY <1>1, <1>11 DEF SweepOK, NewestOK
<1>13. ASSUME NEW q \in Actors, q # p, pc'[q] \in SweepPC \ {"sweep"}
       PROVE  Newest(cur[q])' /\ cur'[q] \notin sweeping'[q]
  <2>1. pc[q] \in SweepPC \ {"sweep"} /\ cur'[q] = cur[q] /\ sweeping'[q] = sweeping[q]
    BY <1>10, <1>13
  <2>2. cur[q] \in Attempts /\ Newest(cur[q]) /\ cur[q] \notin sweeping[q]
        /\ OwnerOf[cur[q][1]] = RunOf[q]
    BY <2>1 DEF CurOK, NewestOK, SweepOK, SweepPC
  <2>3. pc[q] \in SweepPC
    BY <2>1
  <2>4. Newest(cur[q])'
    BY <1>11, <2>1, <2>2, <2>3
  <2> QED
    BY <2>1, <2>2, <2>4
<1>14. ASSUME NEW q \in Actors
       PROVE  /\ pc'[q] = "release" /\ cur'[q] \in Attempts => rec'[cur'[q]] # "absent"
              /\ pc'[q] \in SweepPC \ {"sweep"} => Newest(cur[q])' /\ cur'[q] \notin sweeping'[q]
              /\ pc'[q] \in {"launch", "record", "lease"} => cur'[q][2] = tries'[cur'[q][1]]
              /\ pc'[q] \in {"record", "lease"} => OwnerOf[cur'[q][1]] = RunOf[q]
              /\ pc'[q] = "record" => \A a \in RunningRecords' : a[1] # cur'[q][1]
  <2>1. CASE q = p
    <3>1. pc'[p] \in {"record", "lease"} /\ cur'[p] = c
      BY <1>1
    <3>2. pc'[p] = "record" => Launch(p)
      BY DEF RecordRun
    <3>3. Launch(p) => \A a \in RunningRecords' : a[1] # c[1]
      <4> SUFFICES ASSUME Launch(p), NEW a \in RunningRecords' PROVE a[1] # c[1]
        OBVIOUS
      <4>1. a \in Attempts /\ rec'[a] = "running"
        BY DEF RunningRecords
      <4>2. a \in RunningRecords \ OnSlot(SlotOf[c[1]])
        BY <4>1 DEF Launch, Supersede, MarkRunStatus, RunningRecords
      <4> QED
        BY <4>1, <4>2 DEF OnSlot
    <3> QED
      BY <1>1, <2>1, <3>1, <3>2, <3>3 DEF SweepPC
  <2>2. CASE q # p
    <3>1. pc[q] \notin InDispatchOnce /\ pc'[q] = pc[q] /\ cur'[q] = cur[q]
      BY <1>10, <2>2
    <3>2. pc[q] = "release" /\ cur[q] \in Attempts => rec'[cur[q]] # "absent"
      BY <1>2 DEF NewestOK
    <3> QED
      BY <1>13, <2>2, <3>1, <3>2 DEF InDispatchOnce
  <2> QED
    BY <2>1, <2>2
<1> QED
  BY <1>8, <1>9, <1>12, <1>14, Zenon DEF NewestOK

\* A worker that reports or exits launches nothing.
LEMMA WorkerNewest ==
    ASSUME DispatchInv, NewestOK, WorkerStep
    PROVE  NewestOK'
<1>1. live' \subseteq live /\ UNCHANGED <<tries, rec, pc, cur, sweeping>>
  BY DEF WorkerStep, Worker, WorkerReports, WorkerExits, localVars, DispatchInv,
         DispatchTypeOK, FleetTypeOK
<1>2. \A a : Newest(a) => Newest(a)'
  BY <1>1 DEF Newest, Launched
<1>3. RunningRecords' = RunningRecords
  BY <1>1 DEF RunningRecords
<1> QED
  BY <1>1, <1>2, <1>3 DEF NewestOK

\* The attempt is charged for or its task given up; its row is still to be written.
Closing(a) == \E p \in Controllers : pc[p] = "close" /\ cur[p] = a

\* A task given up when the budget was spent: it is blocked, no controller can
\* start it again, and what is left of it is at most a row about to be closed.
Dropped(t) ==
    /\ status[t] = "blocked"
    /\ \A a \in AttemptsOf(t) : a \notin live /\ (rec[a] = "running" => Closing(a))
    /\ \A p \in Controllers : RunOf[p] = OwnerOf[t] =>
          /\ pc[p] \in (SweepPC \ {"sweep", "close"}) \cup {"launch", "record"}
                => cur[p][1] # t
          /\ \A a \in sweeping[p] : a[1] # t

\* What the run's counter stands for: its crashed attempts, their rows closed or
\* about to be, except the last one of a task that was given up.
Counted(r) ==
    {a \in Attempts : /\ OwnerOf[a[1]] = r
                      /\ rec[a] = "crashed" \/ Closing(a)
                      /\ Dropped(a[1]) => Replaced(a)}

\* The counter covers what it stands for and keeps to the budget.
ChargedOK ==
    \A r \in Runs : Cardinality(Counted(r)) <= used[r] /\ used[r] <= MaxReplacements

\* Two controllers of one run are one.
LEMMA SameController ==
    ASSUME NEW p \in Controllers, NEW q \in Controllers, RunOf[p] = RunOf[q]
    PROVE  p = q
BY DispatchAssumption

\* Only the end of a charge makes a row one that is about to be closed.
LEMMA LocalClosing ==
    ASSUME DispatchInv, NEW p \in Actors, LocalStep(p), NEW a \in Attempts
    PROVE  /\ Closing(a)' => Closing(a) \/ (pc[p] = "charge" /\ cur[p] = a)
           /\ rec'[a] = "crashed" => rec[a] = "crashed" \/ Closing(a)
           /\ Closing(a) /\ ~(pc[p] = "close" /\ cur[p] = a) => Closing(a)'
<1>1. \A q \in Controllers : q \in Actors
  BY DEF Actors
<1>2. pc'[p] = "close" => pc[p] = "charge" /\ cur'[p] = cur[p]
  BY DEF LocalStep, SweepPC
<1>3. pc[p] = "close" => p \in Controllers
  BY DEF DispatchInv, LockOK, SweepPC
<1> QED
  BY <1>1, <1>2, <1>3 DEF LocalStep, Closing

\* A step that starts nothing leaves a task that was given up alone, unless it
\* drops the row it was about to close.
LEMMA LocalDropped ==
    ASSUME DispatchInv, NewestOK, NEW p \in Actors, LocalStep(p), NEW t \in Tasks, Dropped(t),
           pc[p] = "close" /\ cur[p][1] = t => rec'[cur[p]] # "running"
    PROVE  Dropped(t)'
<1> USE DEF DispatchInv, DispatchTypeOK, FleetTypeOK
<1>1. AttemptsOf(t) \subseteq Attempts /\ \A a \in AttemptsOf(t) : a[1] = t
  BY DEF AttemptsOf, Attempts
<1>2. status'[t] = "blocked"
  <2>1. pc[p] = "reclaim" => OwnerOf[cur[p][1]] = RunOf[p] /\ p \in Controllers
    BY DEF SweepOK, LockOK, SweepPC
  <2>2. ~(pc[p] = "reclaim" /\ cur[p][1] = t)
    BY <2>1 DEF Dropped, SweepPC
  <2> QED
    BY <2>2 DEF Dropped, LocalStep
<1>3. \A a \in AttemptsOf(t) : a \notin live' /\ (rec'[a] = "running" => Closing(a)')
  <2> SUFFICES ASSUME NEW a \in AttemptsOf(t)
               PROVE  a \notin live' /\ (rec'[a] = "running" => Closing(a)')
    OBVIOUS
  <2>1. a \notin live'
    BY <1>1 DEF Dropped, LocalStep
  <2>2. ASSUME rec'[a] = "running" PROVE Closing(a)'
    <3>1. Closing(a)
      BY <1>1, <2>2 DEF Dropped, LocalStep
    <3>2. ~(pc[p] = "close" /\ cur[p] = a)
      BY <1>1, <2>2
    <3> QED
      BY <1>1, <3>1, <3>2, LocalClosing
  <2> QED
    BY <2>1, <2>2
<1>4. ASSUME NEW q \in Controllers, RunOf[q] = OwnerOf[t]
      PROVE  /\ pc'[q] \in (SweepPC \ {"sweep", "close"}) \cup {"launch", "record"}
                   => cur'[q][1] # t
             /\ \A a \in sweeping'[q] : a[1] # t
  <2>1. CASE q # p
    <3>1. pc'[q] = pc[q] /\ cur'[q] = cur[q] /\ sweeping'[q] = sweeping[q]
      BY <2>1 DEF LocalStep, Actors
    <3> QED
      BY <1>4, <3>1 DEF Dropped
  <2>2. CASE q = p
    <3>1. ASSUME pc[p] \notin SweepPC, NEW a \in RunningRecords PROVE a[1] # t
      <4>1. a[1] = t => Closing(a)
        BY <3>1, AttemptShape DEF RunningRecords, Dropped, AttemptsOf
      <4>2. ASSUME NEW o \in Controllers, pc[o] = "close", cur[o] = a PROVE a[1] # t
        <5>1. OwnerOf[a[1]] = RunOf[o]
          BY <4>2 DEF SweepOK, SweepPC, Actors
        <5>2. pc[p] # "close"
          BY <3>1 DEF SweepPC
        <5> QED
          BY <1>4, <2>2, <4>2, <5>1, <5>2, SameController
      <4> QED
        BY <4>1, <4>2 DEF Closing
    <3>2. \A a \in sweeping[p] : a[1] # t
      BY <1>4, <2>2 DEF Dropped
    <3>3. \A a \in sweeping'[p] : a[1] # t
      BY <3>1, <3>2 DEF LocalStep
    <3>4. \/ pc'[p] \notin SweepPC
          \/ pc'[p] = "sweep"
          \/ pc[p] \in SweepPC \ {"sweep", "close"} /\ cur'[p] = cur[p]
          \/ cur'[p] \in sweeping[p]
      BY DEF LocalStep
    <3>5. pc'[p] \in SweepPC \ {"sweep", "close"} => cur'[p][1] # t
      BY <1>4, <2>2, <3>2, <3>4 DEF Dropped
    <3>6. pc'[p] \in {"launch", "record"} => cur'[p][1] # t
      BY <1>4, <2>2 DEF Dropped, LocalStep
    <3> QED
      BY <2>2, <3>3, <3>5, <3>6
  <2> QED
    BY <2>1, <2>2
<1> QED
  BY <1>2, <1>3, <1>4 DEF Dropped

\* So do the steps that start something: they start it for a task that is ready.
LEMMA ForwardDropped ==
    ASSUME DispatchInv, NewestOK, NEW t \in Tasks, Dropped(t), NEW p \in Actors,
           (\E u \in Tasks : DispatchClaim(p, u)) \/ Launch(p) \/ RecordRun(p)
    PROVE  /\ Dropped(t)'
           /\ \A a \in AttemptsOf(t) : Launched(a)' => Launched(a)
<1> USE DEF DispatchInv, DispatchTypeOK, FleetTypeOK, Goto, boardVars
<1>1. AttemptsOf(t) \subseteq Attempts /\ \A a \in AttemptsOf(t) : a[1] = t
  BY DEF AttemptsOf, Attempts
<1>2. CASE \E u \in Tasks : DispatchClaim(p, u)
  <2>1. PICK u \in Tasks : DispatchClaim(p, u)
    BY <1>2
  <2>2. u # t
    BY <2>1 DEF DispatchClaim, Dropped
  <2>3. /\ UNCHANGED <<rec, live, sweeping>> /\ status'[t] = status[t]
        /\ pc' = [pc EXCEPT ![p] = "launch"]
        /\ cur' = [cur EXCEPT ![p] = <<u, tries[u] + 1>>]
    BY <2>1, <2>2 DEF DispatchClaim
  <2>4. \A q \in Controllers : q \in Actors
    BY DEF Actors
  <2>5. pc[p] # "close"
    BY <2>1 DEF DispatchClaim
  <2>6. \A a \in AttemptsOf(t) : Closing(a) => Closing(a)'
    BY <2>3, <2>4, <2>5 DEF Closing
  <2> QED
    BY <2>2, <2>3, <2>4, <2>6 DEF Dropped, Launched
<1>3. CASE Launch(p) \/ RecordRun(p)
  <2>1. /\ UNCHANGED <<status, cur, sweeping>>
        /\ pc[p] \in {"launch", "record"}
        /\ \E l \in {"record", "lease"} : pc' = [pc EXCEPT ![p] = l]
        /\ cur[p] \in Attempts /\ p \in Controllers
        /\ OwnerOf[cur[p][1]] = RunOf[p]
    BY <1>3 DEF Launch, RecordRun, MaySpawn, CurOK, LockOK, InDispatchOnce, NewestOK
  <2>2. cur[p][1] # t
    BY <2>1 DEF Dropped
  <2>3. \A a \in AttemptsOf(t) : /\ rec[a] = "absent" => rec'[a] = "absent"
                                 /\ rec'[a] = "running" => rec[a] = "running"
                                 /\ a \in live' => a \in live
    BY <1>1, <1>3, <2>2 DEF Launch, RecordRun, Supersede, Respawn, MarkRunStatus, RunningRecords
  <2>4. \A q \in Controllers : q \in Actors
    BY DEF Actors
  <2>5. \A q \in Controllers : /\ cur'[q] = cur[q] /\ sweeping'[q] = sweeping[q]
                               /\ pc'[q] = pc[q] \/ q = p
    BY <2>1, <2>4
  <2>6. \A a \in AttemptsOf(t) : a \notin live' /\ (rec'[a] = "running" => Closing(a)')
    <3>1. \A a \in AttemptsOf(t) : Closing(a) => Closing(a)'
      BY <2>1, <2>5 DEF Closing
    <3> QED
      BY <2>3, <3>1 DEF Dropped
  <2>7. ASSUME NEW q \in Controllers, RunOf[q] = OwnerOf[t]
        PROVE  /\ pc'[q] \in (SweepPC \ {"sweep", "close"}) \cup {"launch", "record"}
                     => cur'[q][1] # t
               /\ \A a \in sweeping'[q] : a[1] # t
    BY <2>2, <2>5, <2>7 DEF Dropped
  <2>8. Dropped(t)'
    BY <2>1, <2>6, <2>7 DEF Dropped
  <2> QED
    BY <2>3, <2>8 DEF Launched
<1> QED
  BY <1>2, <1>3

\* And a task that was given up has no worker.
LEMMA WorkerDropped ==
    ASSUME DispatchInv, WorkerStep, NEW t \in Tasks, Dropped(t)
    PROVE  Dropped(t)'
<1> USE DEF DispatchInv, DispatchTypeOK, FleetTypeOK
<1>1. live' \subseteq live /\ UNCHANGED <<rec, pc, cur, sweeping>>
  BY DEF WorkerStep, Worker, WorkerReports, WorkerExits, localVars
<1>2. status'[t] = "blocked"
  BY DEF WorkerStep, Worker, WorkerReports, WorkerExits, Dropped
<1> QED
  BY <1>1, <1>2 DEF Dropped, Closing

\* The number of counted attempts is a natural number.
LEMMA CountedFinite ==
    ASSUME NEW r \in Runs
    PROVE  IsFiniteSet(Counted(r)) /\ Cardinality(Counted(r)) \in Nat
<1>1. IsFiniteSet(1..MaxTries)
  BY FleetAssumption, FS_Interval
<1>2. IsFiniteSet(Attempts)
  BY <1>1, FleetAssumption, FS_Product DEF Attempts
<1> QED
  BY <1>2, FS_Subset, FS_CardinalityType DEF Counted

\* What is counted grows by the attempts newly charged for at most.
LEMMA NothingCounted ==
    ASSUME NEW r \in Runs, NEW X,
           \A t \in Tasks : Dropped(t) =>
              Dropped(t)' /\ \A a \in AttemptsOf(t) : Launched(a)' => Launched(a),
           \A a \in Attempts : rec'[a] = "crashed" \/ Closing(a)'
                                   => rec[a] = "crashed" \/ Closing(a) \/ a \in X
    PROVE  Counted(r)' \subseteq Counted(r) \cup X
<1> SUFFICES ASSUME NEW a \in Counted(r)', a \notin X PROVE a \in Counted(r)
  OBVIOUS
<1>1. a \in Attempts /\ a[1] \in Tasks /\ OwnerOf[a[1]] = r
      /\ (rec[a] = "crashed" \/ Closing(a))
  BY AttemptShape DEF Counted
<1>2. ASSUME Dropped(a[1]) PROVE Replaced(a)
  <2>1. Replaced(a)'
    BY <1>1, <1>2 DEF Counted
  <2> QED
    BY <1>1, <1>2, <2>1 DEF Replaced
<1> QED
  BY <1>1, <1>2 DEF Counted

\* Antisymmetry, which the SMT backend is better told than asked.
LEMMA Same == \A m, n \in Nat : m <= n /\ n <= m => m = n
OBVIOUS

\* The same for the strict order.
LEMMA Below == \A m, n \in Nat : m <= n /\ m # n => m < n
OBVIOUS

\* One element more.
LEMMA OneMore ==
    ASSUME NEW S, IsFiniteSet(S), NEW x
    PROVE  IsFiniteSet(S \cup {x}) /\ Cardinality(S \cup {x}) <= Cardinality(S) + 1
<1>1. Cardinality(S) \in Nat
  BY FS_CardinalityType
<1>2. Cardinality(S \cup {x}) = IF x \in S THEN Cardinality(S) ELSE Cardinality(S) + 1
  BY FS_AddElement
<1> QED
  BY <1>1, <1>2, FS_AddElement

\* The charge: one more is counted and charged, or the task is given up.
LEMMA ChargeCounted ==
    ASSUME DispatchInv, DispatchInv', NewestOK, ChargedOK, NEW p \in Actors, SweepCharge(p)
    PROVE  ChargedOK'
<1> USE DEF DispatchInv, DispatchTypeOK, FleetTypeOK, Goto, boardVars
<1>1. LocalStep(p)
  BY LocalSweep DEF Sweep
<1>c. PICK c \in Attempts : c = cur[p] /\ pc[p] = "charge"
  BY DEF SweepCharge, CurOK, SweepPC
<1>2. /\ c \in Attempts /\ c[1] \in Tasks /\ OwnerOf[c[1]] = RunOf[p]
      /\ \A b \in live : b[1] # c[1]
      /\ Newest(c) /\ c \notin sweeping[p] /\ p \in Controllers
      /\ \A a \in sweeping[p] : Newest(a)
  BY <1>c, AttemptShape DEF SweepOK, NewestOK, LockOK, SweepPC
<1>3. \A t \in Tasks : Dropped(t) => Dropped(t)'
  BY <1>1, <1>c, LocalDropped
<1>4. \A a \in Attempts : Launched(a)' => Launched(a)
  BY <1>1 DEF LocalStep, Launched
<1>5. \A t \in Tasks : AttemptsOf(t) \subseteq Attempts
  BY DEF AttemptsOf, Attempts
<1>6. \A a \in Attempts : rec'[a] = "crashed" \/ Closing(a)'
                              => rec[a] = "crashed" \/ Closing(a) \/ a \in {c}
  BY <1>1, <1>c, LocalClosing
<1>7. \A r \in Runs : Counted(r)' \subseteq Counted(r) \cup {c}
  BY <1>3, <1>4, <1>5, <1>6, NothingCounted
<1>8. ASSUME NEW r \in Runs, r # RunOf[p] PROVE Counted(r)' \subseteq Counted(r)
  BY <1>2, <1>7, <1>8 DEF Counted
<1>9. RunOf[p] \in Runs
  BY DispatchAssumption
<1>10. CASE BudgetLeft(RunOf[p])
  <2>1. used' = [used EXCEPT ![RunOf[p]] = @ + 1]
    BY <1>10 DEF SweepCharge
  <2> SUFFICES ASSUME NEW r \in Runs
               PROVE  Cardinality(Counted(r)') <= used'[r] /\ used'[r] <= MaxReplacements
    BY DEF ChargedOK
  <2>2. CASE r # RunOf[p]
    <3>1. Cardinality(Counted(r)') <= Cardinality(Counted(r))
      BY <1>8, <2>2, CountedFinite, FS_Subset
    <3>2. used'[r] = used[r]
      BY <2>1, <2>2
    <3>3. Cardinality(Counted(r)') \in Nat
      BY <1>8, <2>2, CountedFinite, FS_Subset, FS_CardinalityType
    <3> QED
      BY <3>1, <3>2, <3>3, CountedFinite DEF ChargedOK
  <2>3. CASE r = RunOf[p]
    <3>1. IsFiniteSet(Counted(r) \cup {c})
          /\ Cardinality(Counted(r) \cup {c}) <= Cardinality(Counted(r)) + 1
      BY CountedFinite, OneMore
    <3>2. Cardinality(Counted(r)') <= Cardinality(Counted(r) \cup {c})
          /\ Cardinality(Counted(r)') \in Nat /\ Cardinality(Counted(r) \cup {c}) \in Nat
      BY <1>7, <3>1, FS_Subset, FS_CardinalityType
    <3>3. used'[r] = used[r] + 1 /\ used[r] < MaxReplacements
      BY <1>9, <1>10, <2>1, <2>3 DEF BudgetLeft
    <3>4. Cardinality(Counted(r)) <= used[r] /\ Cardinality(Counted(r)) \in Nat
      BY CountedFinite DEF ChargedOK
    <3>5. used[r] \in Nat /\ MaxReplacements \in Nat
      BY DispatchAssumption
    <3> QED
      BY <3>1, <3>2, <3>3, <3>4, <3>5
  <2> QED
    BY <2>2, <2>3
<1>11. CASE ~BudgetLeft(RunOf[p])
  <2>1. /\ UNCHANGED <<used, live, sweeping, rec, cur>> /\ BlockTask(c[1])
        /\ pc' = [pc EXCEPT ![p] = "close"]
    BY <1>c, <1>11 DEF SweepCharge
  <2>2. \A b \in Attempts : b = <<b[1], b[2]>> /\ b[2] \in Nat
    BY AttemptShape, FleetAssumption
  <2>3. ASSUME NEW b \in Attempts, b[1] = c[1], Newest(b) PROVE b = c
    <3>1. c \in AttemptsOf(b[1]) /\ b \in AttemptsOf(c[1])
      BY <1>2, <2>3 DEF Attempts, AttemptsOf
    <3>2. b[2] <= c[2] /\ c[2] <= b[2]
      <4>1. Launched(b) /\ Launched(c)
        BY <1>2, <2>3 DEF Newest, Launched
      <4> QED
        BY <1>2, <2>3, <3>1, <4>1 DEF Newest
    <3>3. b[2] \in Nat /\ c[2] \in Nat
      BY <2>2
    <3>4. b = <<b[1], b[2]>> /\ c = <<c[1], c[2]>>
      BY <2>2
    <3>5. b[2] = c[2]
      BY <3>2, <3>3, Same, Zenon
    <3> QED
      BY <2>3, <3>4, <3>5
  <2>4. \A a \in AttemptsOf(c[1]) : a \in Attempts /\ a[1] = c[1]
    BY <1>2 DEF AttemptsOf, Attempts
  <2>5. \A a \in AttemptsOf(c[1]) : a \notin live' /\ (rec'[a] = "running" => Closing(a)')
    <3> SUFFICES ASSUME NEW a \in AttemptsOf(c[1])
                 PROVE  a \notin live' /\ (rec'[a] = "running" => Closing(a)')
      OBVIOUS
    <3>1. rec[a] = "running" => a = c
      BY <2>3, <2>4 DEF NewestOK, RunningRecords
    <3>2. Closing(c)'
      BY <1>c, <1>2, <2>1 DEF Closing, Actors
    <3> QED
      BY <1>2, <2>1, <2>4, <3>1, <3>2
  <2>6. ASSUME NEW q \in Controllers, RunOf[q] = OwnerOf[c[1]]
        PROVE  /\ pc'[q] \notin (SweepPC \ {"sweep", "close"}) \cup {"launch", "record"}
               /\ \A a \in sweeping'[q] : a[1] # c[1]
    <3>1. q = p
      BY <1>2, <2>6, DispatchAssumption
    <3>2. \A a \in sweeping[p] : a[1] # c[1]
      BY <1>2, <2>3
    <3> QED
      BY <2>1, <3>1, <3>2
  <2>7. Dropped(c[1])'
    BY <1>2, <2>1, <2>5, <2>6 DEF Dropped, BlockTask
  <2>8. ~Replaced(c)'
    <3>1. \A b \in AttemptsOf(c[1]) : Launched(b)' => b[2] <= c[2]
      BY <1>2, <1>4, <2>4 DEF Newest
    <3> QED
      BY <1>2, <2>2, <2>4, <3>1 DEF Replaced
  <2>9. \A r \in Runs : Counted(r)' \subseteq Counted(r)
    BY <1>7, <2>7, <2>8 DEF Counted
  <2> SUFFICES ASSUME NEW r \in Runs
               PROVE  Cardinality(Counted(r)') <= used'[r] /\ used'[r] <= MaxReplacements
    BY DEF ChargedOK
  <2>10. Cardinality(Counted(r)') <= Cardinality(Counted(r))
         /\ Cardinality(Counted(r)') \in Nat
    BY <2>9, CountedFinite, FS_Subset, FS_CardinalityType
  <2> QED
    BY <2>1, <2>10, CountedFinite DEF ChargedOK
<1> QED
  BY <1>10, <1>11

\* A step that does not touch the counter may only count less.
LEMMA FewerCounted ==
    ASSUME ChargedOK, \A r \in Runs : Counted(r)' \subseteq Counted(r), UNCHANGED used,
           used \in [Runs -> Nat]
    PROVE  ChargedOK'
<1> SUFFICES ASSUME NEW r \in Runs
             PROVE  Cardinality(Counted(r)') <= used'[r] /\ used'[r] <= MaxReplacements
  BY DEF ChargedOK
<1>1. /\ Cardinality(Counted(r)') <= Cardinality(Counted(r))
      /\ Cardinality(Counted(r)') \in Nat /\ Cardinality(Counted(r)) \in Nat
  BY CountedFinite, FS_Subset, FS_CardinalityType
<1>2. Cardinality(Counted(r)) <= used[r] /\ used[r] <= MaxReplacements
  BY DEF ChargedOK
<1> QED
  BY <1>1, <1>2

\* Nothing is counted, and nothing charged.
LEMMA InitCharged == Init => ChargedOK
<1> SUFFICES ASSUME Init PROVE ChargedOK
  OBVIOUS
<1>1. \A r \in Runs : Counted(r) = {} /\ used[r] = 0
  BY DEF Init, FleetInit, Counted, Closing, Actors
<1> QED
  BY <1>1, FS_EmptySet, DispatchAssumption DEF ChargedOK

\* A controller that dies counts no more.  If it leaves a row that was about to
\* be closed, the earlier crashed attempts of that task have been replaced.
LEMMA CrashCounted ==
    ASSUME DispatchInv, NewestOK, NEW p \in Controllers, LocalStep(p), UNCHANGED fleetVars,
           pc'[p] = "idle", NEW r \in Runs
    PROVE  Counted(r)' \subseteq Counted(r)
<1> USE DEF DispatchInv, DispatchTypeOK, FleetTypeOK
<1>1. p \in Actors /\ UNCHANGED <<status, rec, live>>
  BY DEF Actors, fleetVars
<1> SUFFICES ASSUME NEW a \in Counted(r)' PROVE a \in Counted(r)
  OBVIOUS
<1>2. /\ a \in Attempts /\ a[1] \in Tasks /\ OwnerOf[a[1]] = r
      /\ a = <<a[1], a[2]>> /\ a[2] \in Nat
      /\ Dropped(a[1])' => Replaced(a)'
  BY AttemptShape, FleetAssumption DEF Counted
<1>3. \A q \in Controllers : pc'[q] = "close" => q # p /\ pc[q] = "close" /\ cur[q] = cur'[q]
  BY <1>1 DEF LocalStep, Actors
<1>4. rec[a] = "crashed" \/ Closing(a)
  BY <1>1, <1>3 DEF Counted, Closing
<1>5. Replaced(a)' => Replaced(a)
  BY <1>1 DEF Replaced, Launched
<1>6. ASSUME Dropped(a[1]) PROVE Replaced(a)
  <2>1. CASE pc[p] = "close" /\ cur[p][1] = a[1] /\ rec[cur[p]] = "running"
    <3>1. PICK c \in Attempts : c = cur[p]
      BY <2>1 DEF CurOK, SweepPC, Actors
    <3>2. Newest(c) /\ OwnerOf[c[1]] = RunOf[p] /\ c[1] = a[1] /\ rec[c] = "running"
      BY <1>1, <2>1, <3>1 DEF NewestOK, SweepOK, SweepPC
    <3>3. ASSUME rec[a] # "crashed" PROVE FALSE
      <4>1. PICK q \in Controllers : pc'[q] = "close" /\ cur'[q] = a
        BY <1>1, <3>3 DEF Counted, Closing
      <4>2. q # p /\ pc[q] = "close" /\ cur[q] = a
        BY <1>3, <4>1
      <4>3. OwnerOf[a[1]] = RunOf[q]
        BY <4>2 DEF SweepOK, SweepPC, Actors
      <4> QED
        BY <3>2, <4>2, <4>3, SameController
    <3>4. Launched(a) /\ Launched(c)
      BY <3>2, <3>3 DEF Launched
    <3>5. a \in AttemptsOf(c[1]) /\ c \in AttemptsOf(a[1])
      BY <1>2, <3>1, <3>2 DEF AttemptsOf, Attempts
    <3>6. a[2] <= c[2]
      BY <3>2, <3>4, <3>5 DEF Newest
    <3>7. c = <<c[1], c[2]>> /\ c[2] \in Nat /\ a # c
      BY <3>1, <3>2, <3>3, AttemptShape, FleetAssumption
    <3>8. a[2] # c[2]
      BY <1>2, <3>2, <3>7
    <3>9. a[2] < c[2]
      BY <1>2, <3>6, <3>7, <3>8, Below, Zenon
    <3> QED
      BY <3>4, <3>5, <3>9 DEF Replaced
  <2>2. CASE ~(pc[p] = "close" /\ cur[p][1] = a[1] /\ rec[cur[p]] = "running")
    <3>1. Dropped(a[1])'
      BY <1>1, <1>2, <1>6, <2>2, LocalDropped
    <3> QED
      BY <1>2, <1>5, <3>1
  <2> QED
    BY <2>1, <2>2
<1> QED
  BY <1>2, <1>4, <1>6 DEF Counted

\* Every step keeps the two invariants; a controller may die in any of them.
LEMMA ChargeNext ==
    ASSUME DispatchInv, DispatchInv', NewestOK, ChargedOK, [Next]_vars
    PROVE  NewestOK' /\ ChargedOK'
<1>1. ASSUME NEW p \in Actors, LocalStep(p), UNCHANGED used, pc[p] # "charge",
             pc[p] = "close" => rec'[cur[p]] # "running"
      PROVE  NewestOK' /\ ChargedOK'
  <2>1. \A t \in Tasks : Dropped(t) =>
           Dropped(t)' /\ \A a \in AttemptsOf(t) : Launched(a)' => Launched(a)
    BY <1>1, LocalDropped DEF LocalStep, Launched, AttemptsOf, Attempts
  <2>2. \A a \in Attempts : rec'[a] = "crashed" \/ Closing(a)'
                                => rec[a] = "crashed" \/ Closing(a) \/ a \in {}
    BY <1>1, LocalClosing
  <2>3. \A r \in Runs : Counted(r)' \subseteq Counted(r)
    BY <2>1, <2>2, NothingCounted
  <2> QED
    BY <1>1, <2>3, LocalNewest, FewerCounted DEF DispatchInv, DispatchTypeOK
<1>2. ASSUME NEW p \in Actors,
             (\E t \in Tasks : DispatchClaim(p, t)) \/ Launch(p) \/ RecordRun(p)
      PROVE  NewestOK' /\ ChargedOK'
  <2>1. \A a \in Attempts : rec'[a] = "crashed" \/ Closing(a)'
                                => rec[a] = "crashed" \/ Closing(a) \/ a \in {}
    <3>1. \A a \in Attempts : rec'[a] = "crashed" => rec[a] = "crashed"
      BY <1>2 DEF DispatchClaim, Launch, Supersede, MarkRunStatus, RecordRun
    <3>2. \A q \in Controllers : pc'[q] = "close" => pc[q] = "close" /\ cur'[q] = cur[q]
      BY <1>2 DEF DispatchClaim, Launch, RecordRun, Goto, DispatchInv, DispatchTypeOK, Actors
    <3> QED
      BY <3>1, <3>2 DEF Closing
  <2>2. UNCHANGED used
    BY <1>2 DEF DispatchClaim, Launch, RecordRun
  <2>3. \A r \in Runs : Counted(r)' \subseteq Counted(r)
    BY <1>2, <2>1, ForwardDropped, NothingCounted
  <2> QED
    BY <1>2, <2>2, <2>3, ClaimNewest, StartNewest, FewerCounted
       DEF DispatchInv, DispatchTypeOK
<1>3. ASSUME NEW p \in Actors, Tick(p) PROVE NewestOK' /\ ChargedOK'
  <2>1. CASE TickBegin(p) \/ Reap(p)
    <3>1. UNCHANGED used /\ pc[p] \notin {"charge", "close"}
      BY <2>1 DEF TickBegin, Reap, ReapRead, ReapRelease, BeginDispatch, SkipDispatch, ReapOver
    <3> QED
      BY <1>1, <2>1, <3>1, LocalReap
  <2>2. CASE SweepCharge(p)
    BY <2>2, LocalSweep, LocalNewest, ChargeCounted DEF Sweep
  <2>3. CASE Sweep(p) /\ ~SweepCharge(p)
    <3>1. UNCHANGED used /\ pc[p] # "charge"
      BY <2>3 DEF Sweep, SweepIdentity, SweepJudge, SweepSettle, SweepReclaim, SweepClose,
                  SweepDone
    <3>2. pc[p] = "close" => rec'[cur[p]] # "running"
      <4>1. pc[p] = "close" => SweepClose(p) /\ cur[p] \in Attempts
        BY <2>3 DEF Sweep, SweepIdentity, SweepJudge, SweepSettle, SweepReclaim, SweepDone,
                    DispatchInv, CurOK, SweepPC
      <4> QED
        BY <4>1 DEF SweepClose, MarkRunStatus
    <3> QED
      BY <1>1, <2>3, <3>1, <3>2, LocalSweep
  <2>4. CASE (\E t \in Tasks : DispatchClaim(p, t)) \/ Launch(p) \/ RecordRun(p)
    BY <1>2, <2>4
  <2>5. CASE \/ Reserve(p) \/ DispatchEnter(p) \/ DispatchLeave(p)
             \/ \E t \in Tasks : DispatchReclaim(p, t)
             \/ LaunchRefused(p) \/ LaunchFails(p) \/ TakeLease(p) \/ Conclude(p)
    <3>1. UNCHANGED used /\ pc[p] \notin {"charge", "close"}
      BY <2>5 DEF Reserve, DispatchEnter, DispatchLeave, DispatchReclaim, LaunchRefused,
         LaunchFails, TakeLease, Conclude, ReadEvidence, CheckLive, ReapAtLast, Commit
    <3> QED
      BY <1>1, <2>5, <3>1, LocalRest
  <2> QED
    BY <1>3, <2>1, <2>2, <2>3, <2>4, <2>5 DEF Tick, DispatchOnce
<1>4. ASSUME NEW p \in Controllers, Crash(p) PROVE NewestOK' /\ ChargedOK'
  <2>1. p \in Actors /\ UNCHANGED <<used, fleetVars>>
    BY <1>4 DEF Actors, Crash
  <2>2. LocalStep(p)
    BY <1>4, <2>1, LocalRest
  <2>3. pc'[p] = "idle"
    BY <1>4, <2>1 DEF Crash, Forget, Goto, DispatchInv, DispatchTypeOK
  <2>4. \A r \in Runs : Counted(r)' \subseteq Counted(r)
    BY <1>4, <2>1, <2>2, <2>3, CrashCounted
  <2> QED
    BY <2>1, <2>2, <2>4, LocalNewest, FewerCounted DEF DispatchInv, DispatchTypeOK
<1>5. CASE WorkerStep
  <2>1. UNCHANGED <<rec, used>> /\ live' \subseteq live
    BY <1>5 DEF WorkerStep, Worker, WorkerReports, WorkerExits, DispatchInv,
                DispatchTypeOK, FleetTypeOK
  <2>2. \A a \in Attempts : Closing(a)' => Closing(a)
    BY <1>5 DEF WorkerStep, localVars, Closing
  <2>3. \A r \in Runs : Counted(r)' \subseteq Counted(r) \cup {}
    BY <1>5, <2>1, <2>2, WorkerDropped, NothingCounted DEF Launched
  <2> QED
    BY <1>5, <2>1, <2>3, WorkerNewest, FewerCounted DEF DispatchInv, DispatchTypeOK
<1>6. CASE UNCHANGED vars \/ Terminated
  <2>1. UNCHANGED <<status, tries, rec, live, used, pc, cur, sweeping>>
    BY <1>6 DEF Terminated, vars, fleetVars, localVars
  <2>2. NewestOK' /\ ChargedOK'
    <3>1. NewestOK'
      BY <2>1 DEF NewestOK, Newest, Launched, RunningRecords
    <3>2. \A t \in Tasks : Dropped(t) => Dropped(t)'
      BY <2>1 DEF Dropped, Closing
    <3>3. \A r \in Runs : Counted(r)' \subseteq Counted(r) \cup {}
      BY <2>1, <3>2, NothingCounted DEF Launched, Closing
    <3> QED
      BY <2>1, <3>1, <3>3, FewerCounted DEF DispatchInv, DispatchTypeOK
  <2> QED
    BY <2>2
<1> QED
  BY <1>3, <1>4, <1>5, <1>6 DEF Next

\* What a run is charged is what its crashed workers cost it.
LEMMA ChargedSuffices == ChargedOK /\ used \in [Runs -> Nat] => ReplacementsCharged
<1> SUFFICES ASSUME ChargedOK, used \in [Runs -> Nat], NEW r \in Runs,
                    NEW S, S = {a \in Attempts : /\ OwnerOf[a[1]] = r
                                                 /\ rec[a] = "crashed"
                                                 /\ Replaced(a)}
             PROVE  Cardinality(S) <= used[r] /\ used[r] <= MaxReplacements
  BY DEF ReplacementsCharged
<1>1. S \subseteq Counted(r)
  BY DEF Counted
<1>2. Cardinality(S) <= Cardinality(Counted(r)) /\ Cardinality(S) \in Nat
  BY <1>1, CountedFinite, FS_Subset, FS_CardinalityType
<1> QED
  BY <1>2, CountedFinite DEF ChargedOK

\* Replacements of workers settled as crashed are charged, once, and stay within
\* the budget, whatever other controllers and observers do and wherever a
\* controller dies (_reconcile_owned_worker_identities).
THEOREM EveryReplacementIsCharged == Spec => []ReplacementsCharged
<1>1. Init => NewestOK /\ ChargedOK
  BY InitNewest, InitCharged
<1>2. DispatchInv /\ DispatchInv' /\ NewestOK /\ ChargedOK /\ [Next]_vars
        => NewestOK' /\ ChargedOK'
  BY ChargeNext
<1>3. DispatchInv /\ ChargedOK => ReplacementsCharged
  BY ChargedSuffices DEF DispatchInv, DispatchTypeOK
<1> QED
  BY <1>1, <1>2, <1>3, InvariantHolds, PTL DEF Spec

-----------------------------------------------------------------------------
(* Live workers keep their rows and credits.                               *)

\* What the next theorems assume, and cannot do without (README 5): controllers
\* do not die, no status command reaps beside them, and either no two tasks share
\* a slot or there is one controller that runs one task at a time.  Workers still
\* crash, launches fail, and the controllers of other runs claim and reclaim.
Calm ==
    /\ MaxCrashes = 0
    /\ Observers = {}
    /\ \/ \A t, u \in Tasks : SlotOf[t] = SlotOf[u] => t = u
       \/ Wave = 1 /\ \A p, q \in Controllers : p = q

\* A task in the hands of spawn_fn, or with a process, is not waiting.
Handed(t, n) == status[t] \notin {"todo", "ready"} /\ (status[t] = "running" => claim[t] = n)

\* Why a live worker keeps its row and its credit: a reap has in hand only tasks
\* of its own run without a process, a launch only a task upstream has just handed
\* out, on a slot that is free.
CreditOK ==
    /\ LiveWorkerHoldsCredit
    /\ \A p \in Actors :
          /\ pc[p] = "lease" => rec[cur[p]] = "running"
          /\ reaping[p] \subseteq Mine(p)
          /\ pc[p] = "release" => /\ OwnerOf[cur[p][1]] = RunOf[p]
                                  /\ \A a \in live : a[1] # cur[p][1]
          /\ pc[p] = "launch" /\ OwnerOf[cur[p][1]] = RunOf[p] =>
                Handed(cur[p][1], cur[p][2])
          /\ pc[p] = "launch" /\ MaySpawn(p, cur[p][1]) =>
                OnSlot(SlotOf[cur[p][1]]) \cap live = {}
    /\ \A a \in live : /\ Handed(a[1], a[2])
                       /\ \E p \in Controllers : RunOf[p] = OwnerOf[a[1]]

\* A step that takes neither row nor credit from a live worker, nor puts its task
\* back among those that wait.
Spares(p) ==
    /\ live' \subseteq live
    /\ \A a \in live' : rec'[a] = rec[a] /\ (a \in lease => a \in lease')
    /\ \A a \in Attempts : rec[a] = "running" =>
          rec'[a] = "running" \/ OwnerOf[a[1]] = RunOf[p] \/ board = {p}
    /\ \A t \in Tasks :
          \/ status'[t] = status[t] /\ claim'[t] = claim[t]
          \/ status'[t] \in TerminalTask
          \/ status[t] = "todo"
          \/ (\A b \in live : b[1] # t) /\ (OwnerOf[t] = RunOf[p] \/ board = {p})
    /\ \A q \in Actors \ {p} : /\ pc'[q] = pc[q] /\ cur'[q] = cur[q]
                               /\ reaping'[q] = reaping[q] /\ reserved'[q] = reserved[q]
    /\ reaping'[p] \subseteq Mine(p)
    /\ pc[p] \notin {"record", "lease"} /\ pc'[p] \notin {"launch", "record", "lease"}
    /\ pc'[p] = "release" => /\ OwnerOf[cur'[p][1]] = RunOf[p]
                             /\ \A a \in live : a[1] # cur'[p][1]

\* In a calm fleet a run has one actor.
LEMMA Alone ==
    ASSUME Calm
    PROVE  Actors = Controllers /\ \A p, q \in Actors : RunOf[p] = RunOf[q] => p = q
BY DispatchAssumption DEF Calm, Actors

\* Such a step keeps CreditOK.
LEMMA SparesCredit ==
    ASSUME Calm, DispatchInv, NewestOK, CreditOK, NEW p \in Actors, Spares(p)
    PROVE  CreditOK'
<1> USE Alone DEF DispatchInv, DispatchTypeOK, FleetTypeOK
<1>1. \A a \in live : a \in Attempts /\ a[1] \in Tasks
  BY AttemptShape
<1>2. LiveWorkerHoldsCredit'
  <2> SUFFICES ASSUME NEW a \in live'
               PROVE  InFlight(a)' \/ (rec'[a] = "running" /\ a \in lease')
    BY DEF LiveWorkerHoldsCredit
  <2>1. a \in live /\ rec'[a] = rec[a] /\ (a \in lease => a \in lease')
    BY DEF Spares
  <2>2. CASE InFlight(a)
    <3>1. PICK q \in Controllers : pc[q] \in {"record", "lease"} /\ cur[q] = a
      BY <2>2 DEF InFlight
    <3>2. pc'[q] = pc[q] /\ cur'[q] = cur[q]
      BY <3>1 DEF Spares
    <3> QED
      BY <3>1, <3>2 DEF InFlight
  <2>3. CASE ~InFlight(a)
    BY <2>1, <2>3 DEF CreditOK, LiveWorkerHoldsCredit
  <2> QED
    BY <2>2, <2>3
<1>3. ASSUME NEW q \in Actors, q # p
      PROVE  /\ pc'[q] = "lease" => rec'[cur'[q]] = "running"
             /\ pc'[q] = "release" => /\ OwnerOf[cur'[q][1]] = RunOf[q]
                                      /\ \A a \in live' : a[1] # cur'[q][1]
             /\ reaping'[q] \subseteq Mine(q)
             /\ pc'[q] = "launch" /\ OwnerOf[cur'[q][1]] = RunOf[q] =>
                   Handed(cur[q][1], cur[q][2])'
             /\ pc'[q] = "launch" /\ MaySpawn(q, cur[q][1])' =>
                   OnSlot(SlotOf[cur'[q][1]]) \cap live' = {}
  <2>1. /\ pc'[q] = pc[q] /\ cur'[q] = cur[q] /\ reaping'[q] = reaping[q]
        /\ reserved'[q] = reserved[q] /\ live' \subseteq live
        /\ RunOf[q] # RunOf[p]
    BY <1>3 DEF Spares
  <2>2. pc[q] = "lease" => rec'[cur[q]] = "running"
    <3> SUFFICES ASSUME pc[q] = "lease" PROVE rec'[cur[q]] = "running"
      OBVIOUS
    <3>1. /\ cur[q] \in Attempts /\ rec[cur[q]] = "running" /\ OwnerOf[cur[q][1]] = RunOf[q]
          /\ board = {q}
      BY DEF CreditOK, NewestOK, CurOK, LockOK, InDispatchOnce
    <3>2. rec[cur[q]] = "running" =>
             rec'[cur[q]] = "running" \/ OwnerOf[cur[q][1]] = RunOf[p] \/ board = {p}
      BY <3>1, Zenon DEF Spares
    <3> QED
      BY <1>3, <2>1, <3>1, <3>2
  <2>3. ASSUME pc[q] = "launch", OwnerOf[cur[q][1]] = RunOf[q]
        PROVE  Handed(cur[q][1], cur[q][2])'
    <3>1. cur[q][1] \in Tasks /\ board = {q} /\ Handed(cur[q][1], cur[q][2])
      BY <2>3, AttemptShape DEF CreditOK, CurOK, LockOK, InDispatchOnce
    <3>2. board # {p} /\ OwnerOf[cur[q][1]] # RunOf[p]
      BY <1>3, <2>1, <2>3, <3>1
    <3> DEFINE t == cur[q][1]
    <3>3. \/ status'[t] = status[t] /\ claim'[t] = claim[t]
          \/ status'[t] \in TerminalTask
          \/ status[t] = "todo"
      BY <3>1, <3>2, Zenon DEF Spares
    <3> QED
      BY <2>1, <3>1, <3>3 DEF Handed, TerminalTask
  <2>4. MaySpawn(q, cur[q][1])' => MaySpawn(q, cur[q][1])
    BY <2>1 DEF MaySpawn
  <2> QED
    BY <2>1, <2>2, <2>3, <2>4 DEF CreditOK, Mine
<1>4. ASSUME NEW a \in live' PROVE Handed(a[1], a[2])'
  <2>1. a \in live /\ a[1] \in Tasks /\ Handed(a[1], a[2])
    BY <1>1 DEF Spares, CreditOK
  <2>2. \/ status'[a[1]] = status[a[1]] /\ claim'[a[1]] = claim[a[1]]
        \/ status'[a[1]] \in TerminalTask
        \/ status[a[1]] = "todo"
    BY <2>1, Zenon DEF Spares
  <2> QED
    BY <2>1, <2>2 DEF Handed, TerminalTask
<1>5. \A a \in live' : \E q \in Controllers : RunOf[q] = OwnerOf[a[1]]
  BY DEF Spares, CreditOK
<1>6. /\ pc'[p] = "release" => /\ OwnerOf[cur'[p][1]] = RunOf[p]
                               /\ \A a \in live' : a[1] # cur'[p][1]
      /\ reaping'[p] \subseteq Mine(p)
      /\ pc'[p] \notin {"launch", "lease"}
  BY DEF Spares
<1> QED
  BY <1>2, <1>3, <1>4, <1>5, <1>6, Zenon DEF CreditOK, Mine

\* A row of a live worker that nobody is recording is the one the reap finds.
LEMMA LiveIsOwned ==
    ASSUME Calm, DispatchInv, NewestOK, CreditOK, NEW p \in Actors,
           pc[p] \notin {"record", "lease"},
           NEW a \in live, OwnerOf[a[1]] = RunOf[p]
    PROVE  LiveOwned(a[1]) /\ rec[a] = "running" /\ a \in lease
<1> USE Alone DEF DispatchInv, DispatchTypeOK, FleetTypeOK
<1>1. ~InFlight(a)
  <2> SUFFICES ASSUME NEW q \in Controllers, pc[q] \in {"record", "lease"}, cur[q] = a
               PROVE  FALSE
    BY DEF InFlight
  <2>1. OwnerOf[a[1]] = RunOf[q] /\ q \in Actors
    BY DEF NewestOK
  <2> QED
    BY <2>1
<1>2. rec[a] = "running" /\ a \in lease
  BY <1>1 DEF CreditOK, LiveWorkerHoldsCredit
<1>3. Newest(a) /\ a \in AttemptsOf(a[1])
  BY <1>2, AttemptShape DEF NewestOK, RunningRecords, AttemptsOf
<1>4. a \in LatestRunning(a[1])
  BY <1>2, <1>3 DEF LatestRunning, Latest, Newest, Launched
<1> QED
  BY <1>2, <1>4 DEF LiveOwned

\* Reading the statuses and reaping spares the live workers.
LEMMA SparesReap ==
    ASSUME Calm, DispatchInv, NewestOK, CreditOK, NEW p \in Actors, TickBegin(p) \/ Reap(p)
    PROVE  Spares(p)
<1> USE DEF DispatchInv, DispatchTypeOK, FleetTypeOK, fleetVars, boardVars, Goto
<1>m. Mine(p) \subseteq Tasks /\ \A t \in Mine(p) : OwnerOf[t] = RunOf[p]
  BY DEF Mine, TasksOf
<1>r. reaping[p] \subseteq Mine(p)
  BY DEF CreditOK
<1>1. CASE TickBegin(p)
  BY <1>1 DEF TickBegin, ReadStatuses, Spares
<1>2. ASSUME NEW t \in Tasks, ReapRead(p, t) PROVE Spares(p)
  <2>1. /\ pc[p] = "reap" /\ t \in reaping[p]
        /\ UNCHANGED <<fleetVars, reserved>>
        /\ reaping' = [reaping EXCEPT ![p] = @ \ {t}]
        /\ \A q \in Actors \ {p} : pc'[q] = pc[q] /\ cur'[q] = cur[q]
        /\ \/ pc'[p] = "reap"
           \/ pc'[p] = "release" /\ ~LiveOwned(t) /\ cur'[p][1] = t
    <3>1. \A a \in LatestRunning(t) : a[1] = t
      BY DEF LatestRunning, AttemptsOf
    <3> QED
      BY <1>2, <3>1 DEF ReapRead
  <2>2. ~LiveOwned(t) => \A a \in live : a[1] # t
    BY <1>m, <1>r, <2>1, LiveIsOwned
  <2> QED
    BY <1>m, <1>r, <2>1, <2>2 DEF Spares
<1>3. CASE ReapRelease(p)
  <2>1. /\ OwnerOf[cur[p][1]] = RunOf[p] /\ \A a \in live : a[1] # cur[p][1]
        /\ pc[p] = "release"
    BY <1>3 DEF ReapRelease, CreditOK
  <2>2. /\ \A a \in Attempts : a # cur[p] => rec'[a] = rec[a]
        /\ \A a \in Attempts : a[1] # cur[p][1] /\ a \in lease => a \in lease'
    BY <1>3 DEF ReapRelease, MarkRunStatus, ReleaseWorkerLease, AttemptsOf
  <2>3. UNCHANGED <<boardVars, live, reaping, reserved>> /\ pc' = [pc EXCEPT ![p] = "reap"]
        /\ cur' = [cur EXCEPT ![p] = NoAttempt]
    BY <1>3 DEF ReapRelease
  <2> QED
    BY <1>r, <2>1, <2>2, <2>3 DEF Spares
<1>4. CASE BeginDispatch(p)
  BY <1>r, <1>4 DEF BeginDispatch, ReapOver, Spares
<1>5. CASE SkipDispatch(p)
  BY <1>r, <1>5 DEF SkipDispatch, ReapOver, Spares
<1> QED
  BY <1>1, <1>2, <1>3, <1>4, <1>5 DEF Reap

\* The identity sweep deals with workers that are gone.
LEMMA SparesSweep ==
    ASSUME Calm, DispatchInv, NewestOK, CreditOK, NEW p \in Actors, Sweep(p)
    PROVE  Spares(p)
<1> USE DEF DispatchInv, DispatchTypeOK, FleetTypeOK, fleetVars, boardVars, Goto
<1>r. reaping[p] \subseteq Mine(p)
  BY DEF CreditOK
<1>1. ASSUME NEW a \in Attempts, SweepIdentity(p, a) PROVE Spares(p)
  <2>1. /\ UNCHANGED <<fleetVars, reaping, reserved>> /\ pc[p] = "sweep"
        /\ pc'[p] \in {"sweep", "judge"}
        /\ \A q \in Actors \ {p} : pc'[q] = pc[q] /\ cur'[q] = cur[q]
    BY <1>1 DEF SweepIdentity
  <2> QED
    BY <1>r, <2>1 DEF Spares
<1>2. CASE SweepJudge(p)
  BY <1>r, <1>2 DEF SweepJudge, Spares
<1>3. CASE SweepSettle(p) \/ SweepReclaim(p) \/ SweepCharge(p) \/ SweepClose(p)
  <2>1. /\ OwnerOf[cur[p][1]] = RunOf[p] /\ \A a \in live : a[1] # cur[p][1]
        /\ pc[p] \in {"settle", "reclaim", "charge", "close"}
    BY <1>3 DEF SweepSettle, SweepReclaim, SweepCharge, SweepClose, SweepOK, SweepPC
  <2>2. /\ \A a \in Attempts : a # cur[p] => rec'[a] = rec[a]
        /\ \A a \in Attempts : a[1] # cur[p][1] /\ a \in lease => a \in lease'
    BY <1>3 DEF SweepSettle, SweepReclaim, SweepCharge, SweepClose, MarkRunStatus,
                ReleaseWorkerLease, AttemptsOf
  <2>3. \A t \in Tasks \ {cur[p][1]} : status'[t] = status[t] /\ claim'[t] = claim[t]
    BY <1>3 DEF SweepSettle, SweepReclaim, SweepCharge, SweepClose, ReclaimTask,
                BlockTask
  <2>4. /\ UNCHANGED <<live, reaping, reserved>>
        /\ pc'[p] \in {"sweep", "charge", "close"}
        /\ \A q \in Actors \ {p} : pc'[q] = pc[q] /\ cur'[q] = cur[q]
    BY <1>3 DEF SweepSettle, SweepReclaim, SweepCharge, SweepClose
  <2> QED
    BY <1>r, <2>1, <2>2, <2>3, <2>4 DEF Spares
<1>6. CASE SweepDone(p)
  BY <1>r, <1>6 DEF SweepDone, Spares
<1> QED
  BY <1>1, <1>2, <1>3, <1>6 DEF Sweep

\* A step that leaves the board, the rows and the workers alone spares them.
LEMMA QuietSpares ==
    ASSUME NEW p \in Actors, UNCHANGED fleetVars,
           pc[p] \notin {"record", "lease"},
           pc'[p] \notin {"launch", "record", "lease", "release"},
           \A q \in Actors \ {p} : /\ pc'[q] = pc[q] /\ cur'[q] = cur[q]
                                    /\ reaping'[q] = reaping[q] /\ reserved'[q] = reserved[q],
           reaping[p] \subseteq Mine(p),
           reaping'[p] \subseteq reaping[p] \cup Mine(p)
    PROVE  Spares(p)
BY DEF fleetVars, Spares

\* The dispatch lock, the evidence and the run's state concern no worker.
LEMMA QuietStep ==
    ASSUME DispatchTypeOK, CreditOK, NEW p \in Actors,
           DispatchEnter(p) \/ DispatchLeave(p) \/ Conclude(p)
    PROVE  Spares(p)
<1>1. reaping[p] \subseteq Mine(p)
  BY DEF CreditOK
<1>2. CASE DispatchEnter(p) \/ DispatchLeave(p)
  <2>1. /\ UNCHANGED fleetVars
        /\ pc[p] \notin {"record", "lease"}
        /\ pc'[p] \notin {"launch", "record", "lease", "release"}
        /\ reaping'[p] \subseteq reaping[p] \cup Mine(p)
    BY <1>2 DEF DispatchEnter, DispatchLeave, AfterDispatch, ReadStatuses, Goto, DispatchTypeOK
  <2>2. \A q \in Actors \ {p} : /\ pc'[q] = pc[q] /\ cur'[q] = cur[q]
                                /\ reaping'[q] = reaping[q] /\ reserved'[q] = reserved[q]
    BY <1>2 DEF DispatchEnter, DispatchLeave, AfterDispatch, ReadStatuses, Goto, DispatchTypeOK
  <2> QED
    BY <1>1, <2>1, <2>2, QuietSpares
<1>3. CASE Conclude(p)
  <2>1. /\ UNCHANGED fleetVars
        /\ pc[p] \notin {"record", "lease"}
        /\ pc'[p] \notin {"launch", "record", "lease", "release"}
        /\ reaping'[p] \subseteq reaping[p] \cup Mine(p)
    BY <1>3 DEF Conclude, ReadEvidence, CheckLive, ReapAtLast, Commit, Forget, ReadStatuses,
                Goto, DispatchTypeOK
  <2>2. \A q \in Actors \ {p} : /\ pc'[q] = pc[q] /\ cur'[q] = cur[q]
                                /\ reaping'[q] = reaping[q] /\ reserved'[q] = reserved[q]
    BY <1>3 DEF Conclude, ReadEvidence, CheckLive, ReapAtLast, Commit, Forget, ReadStatuses,
                Goto, DispatchTypeOK
  <2> QED
    BY <1>1, <2>1, <2>2, QuietSpares
<1> QED
  BY <1>2, <1>3

\* A task whose claim has no process has none.
LEMMA ClaimOfLive ==
    ASSUME DispatchTypeOK, CreditOK, NEW t \in Tasks, status[t] = "running",
           <<t, claim[t]>> \notin live
    PROVE  \A b \in live : b[1] # t
<1> SUFFICES ASSUME NEW b \in live, b[1] = t PROVE FALSE
  OBVIOUS
<1>1. Handed(b[1], b[2])
  BY DEF CreditOK
<1>2. claim[t] = b[2]
  BY <1>1 DEF Handed
<1>3. b \in Attempts
  BY DEF DispatchTypeOK, FleetTypeOK
<1>4. b = <<b[1], b[2]>>
  BY <1>3, AttemptShape
<1>5. b = <<t, claim[t]>>
  BY <1>2, <1>4
<1> QED
  BY <1>5

\* Upstream reclaims the dead, and a failed launch finds its slot empty.
LEMMA SparesRest ==
    ASSUME Calm, DispatchInv, NewestOK, CreditOK, NEW p \in Actors,
           \/ Reserve(p) \/ DispatchEnter(p) \/ DispatchLeave(p)
           \/ \E t \in Tasks : DispatchReclaim(p, t)
           \/ LaunchRefused(p) \/ LaunchFails(p) \/ Conclude(p)
    PROVE  Spares(p)
<1> USE DEF DispatchInv, DispatchTypeOK, FleetTypeOK, fleetVars, boardVars, localVars, Goto
<1>r. reaping[p] \subseteq Mine(p)
  BY DEF CreditOK
<1>1. CASE Reserve(p)
  <2>1. UNCHANGED <<claim, rec, lease, live, cur, reaping>> /\ status' = Promoted
        /\ pc[p] = "reserve" /\ pc' = [pc EXCEPT ![p] = "enter"]
        /\ \A q \in Actors \ {p} : reserved'[q] = reserved[q]
    BY <1>1 DEF Reserve
  <2> QED
    BY <1>r, <2>1 DEF Promoted, Spares
<1>2. CASE DispatchEnter(p) \/ DispatchLeave(p) \/ Conclude(p)
  BY <1>2, QuietStep
<1>3. ASSUME NEW t \in Tasks, DispatchReclaim(p, t) PROVE Spares(p)
  <2>1. /\ pc[p] = "claim" /\ UNCHANGED <<rec, lease, live, pc, cur, reaping, reserved>>
        /\ \A u \in Tasks \ {t} : status'[u] = status[u] /\ claim'[u] = claim[u]
        /\ status[t] = "running" /\ <<t, claim[t]>> \notin live
    BY <1>3 DEF DispatchReclaim, ReclaimTask, BlockTask
  <2>2. \A b \in live : b[1] # t
    BY <2>1, ClaimOfLive
  <2>3. board = {p}
    BY <2>1 DEF LockOK, InDispatchOnce
  <2> QED
    BY <1>r, <2>1, <2>2, <2>3 DEF Spares
<1>4. CASE LaunchRefused(p)
  <2>1. pc[p] = "launch" /\ UNCHANGED <<rec, lease, live, reaping, reserved>>
        /\ pc' = [pc EXCEPT ![p] = "claim"] /\ cur' = [cur EXCEPT ![p] = NoAttempt]
        /\ BlockTask(cur[p][1])
    BY <1>4 DEF LaunchRefused, SpawnRaises
  <2> QED
    BY <1>r, <2>1 DEF BlockTask, TerminalTask, Spares
<1>5. CASE LaunchFails(p)
  <2>1. pc[p] = "launch" /\ UNCHANGED <<lease, reaping, reserved>> /\ live' \subseteq live
        /\ pc' = [pc EXCEPT ![p] = "claim"] /\ cur' = [cur EXCEPT ![p] = NoAttempt]
        /\ BlockTask(cur[p][1]) /\ MaySpawn(p, cur[p][1])
    BY <1>5 DEF LaunchFails, SpawnRaises
  <2>2. \A a \in Attempts : a \notin OnSlot(SlotOf[cur[p][1]]) => rec'[a] = rec[a]
    BY <1>5 DEF LaunchFails, Supersede, MarkRunStatus
  <2>3. OnSlot(SlotOf[cur[p][1]]) \cap live = {} /\ board = {p}
    BY <2>1 DEF CreditOK, LockOK, InDispatchOnce
  <2>4. \A a \in live' : rec'[a] = rec[a] /\ (a \in lease => a \in lease')
    BY <2>1, <2>2, <2>3
  <2> QED
    BY <1>r, <2>1, <2>3, <2>4 DEF BlockTask, TerminalTask, Spares
<1> QED
  BY <1>1, <1>2, <1>3, <1>4, <1>5

\* The live workers of a run.
WorkersOf(r) == {a \in live : OwnerOf[a[1]] = r}

\* The room a controller has counted on stays there: what the wave has left, what
\* it has reserved and what it has spawned add up.
WaveOf(p) ==
    LET n == Cardinality(WorkersOf(RunOf[p]))  m == Cardinality(reserved[p]) IN
    /\ n <= Wave
    /\ IsFiniteSet(reserved[p])
    /\ pc[p] \in SweepPC \cup {"reserve"} => n + quota[p] <= Wave
    /\ pc[p] \in {"enter", "claim", "launch"} => n + m <= Wave + spawned[p]
    /\ pc[p] \in {"record", "lease"} => n + m <= Wave + spawned[p] + 1
    /\ pc[p] = "launch" => spawned[p] < m

\* ... for every controller.
WaveOK == \A p \in Actors : WaveOf(p)

\* Attempts are finitely many,
LEMMA AttemptsFinite == IsFiniteSet(Attempts)
<1>1. IsFiniteSet(1..MaxTries)
  BY FleetAssumption, FS_Interval
<1> QED
  BY <1>1, FleetAssumption, FS_Product DEF Attempts

\* and so are live workers,
LEMMA WorkersFinite ==
    ASSUME DispatchTypeOK, NEW r
    PROVE  IsFiniteSet(WorkersOf(r)) /\ Cardinality(WorkersOf(r)) \in Nat
BY AttemptsFinite, FS_Subset, FS_CardinalityType DEF WorkersOf, DispatchTypeOK, FleetTypeOK

\* and reservations.
LEMMA ReservedCount ==
    ASSUME WaveOK, NEW p \in Actors
    PROVE  IsFiniteSet(reserved[p]) /\ Cardinality(reserved[p]) \in Nat
BY FS_CardinalityType DEF WaveOK, WaveOf

\* When a task is claimed for this controller no process is on its slot.
LEMMA SlotIsFree ==
    ASSUME Calm, DispatchInv, CreditOK, WaveOK, NEW p \in Actors, NEW t \in Tasks,
           DispatchClaim(p, t)
    PROVE  OnSlot(SlotOf[t]) \cap live = {}
<1> SUFFICES ASSUME NEW b \in live, b \in Attempts, SlotOf[b[1]] = SlotOf[t] PROVE FALSE
  BY DEF OnSlot
<1>1. Handed(b[1], b[2]) /\ b[1] \in Tasks /\ \E q \in Controllers : RunOf[q] = OwnerOf[b[1]]
  BY AttemptShape DEF CreditOK
<1>2. status[t] = "ready" /\ spawned[p] < Cardinality(reserved[p]) /\ pc[p] = "claim"
  BY DEF DispatchClaim
<1>3. CASE \A u, v \in Tasks : SlotOf[u] = SlotOf[v] => u = v
  BY <1>1, <1>2, <1>3 DEF Handed
<1>4. CASE Wave = 1 /\ \A q, r \in Controllers : q = r
  <2>1. b \in WorkersOf(RunOf[p])
    BY <1>1, <1>4, Alone DEF WorkersOf
  <2>2. Cardinality(WorkersOf(RunOf[p])) + Cardinality(reserved[p]) <= 1 + spawned[p]
    BY <1>2, <1>4 DEF WaveOK, WaveOf
  <2>3. spawned[p] \in Nat /\ Cardinality(WorkersOf(RunOf[p])) \in Nat
    BY WorkersFinite DEF DispatchInv, DispatchTypeOK
  <2>4. Cardinality(WorkersOf(RunOf[p])) = 0
    BY <1>2, <2>2, <2>3, ReservedCount
  <2> QED
    BY <2>1, <2>4, WorkersFinite, FS_EmptySet DEF DispatchInv
<1> QED
  BY <1>3, <1>4 DEF Calm

\* Upstream hands out a task without a process, on a free slot.
LEMMA ClaimCredit ==
    ASSUME Calm, DispatchInv, NewestOK, CreditOK, WaveOK, NEW p \in Actors, NEW t \in Tasks,
           DispatchClaim(p, t)
    PROVE  CreditOK'
<1> USE DEF DispatchInv, DispatchTypeOK, FleetTypeOK
<1>1. /\ UNCHANGED <<rec, lease, live, reaping, reserved>>
      /\ pc[p] = "claim" /\ board = {p} /\ status[t] = "ready"
      /\ pc' = [pc EXCEPT ![p] = "launch"]
      /\ cur' = [cur EXCEPT ![p] = <<t, tries[t] + 1>>]
      /\ status' = [status EXCEPT ![t] = "running"]
      /\ claim' = [claim EXCEPT ![t] = tries[t] + 1]
  BY DEF DispatchClaim, Goto, LockOK, InDispatchOnce
<1>2. OnSlot(SlotOf[t]) \cap live = {}
  BY SlotIsFree
<1>3. \A q \in Actors \ {p} : /\ pc[q] \notin InDispatchOnce
                              /\ pc'[q] = pc[q] /\ cur'[q] = cur[q]
  BY <1>1 DEF LockOK, InDispatchOnce
<1>4. \A a \in live : InFlight(a)' <=> InFlight(a)
  BY <1>1, <1>3, Alone DEF InFlight, InDispatchOnce
<1>5. LiveWorkerHoldsCredit'
  BY <1>1, <1>4 DEF CreditOK, LiveWorkerHoldsCredit
<1>6. ASSUME NEW a \in live PROVE Handed(a[1], a[2])'
  <2>1. Handed(a[1], a[2]) /\ a[1] \in Tasks
    BY AttemptShape DEF CreditOK
  <2>2. a[1] # t
    BY <1>1, <2>1 DEF Handed
  <2> QED
    BY <1>1, <2>1, <2>2 DEF Handed
<1>7. status'[t] = "running" /\ claim'[t] = tries[t] + 1
  BY <1>1
<1>8. ASSUME NEW q \in Actors
      PROVE  /\ pc'[q] = "lease" => rec'[cur'[q]] = "running"
             /\ reaping'[q] \subseteq Mine(q)
             /\ pc'[q] = "release" => /\ OwnerOf[cur'[q][1]] = RunOf[q]
                                      /\ \A a \in live' : a[1] # cur'[q][1]
             /\ pc'[q] = "launch" => /\ Handed(cur[q][1], cur[q][2])'
                                     /\ OnSlot(SlotOf[cur'[q][1]]) \cap live' = {}
  <2>1. CASE q = p
    <3>1. pc'[p] = "launch" /\ cur'[p] = <<t, tries[t] + 1>>
      BY <1>1
    <3>2. Handed(cur[p][1], cur[p][2])'
      BY <1>7, <3>1 DEF Handed
    <3> QED
      BY <1>1, <1>2, <2>1, <3>1, <3>2 DEF CreditOK
  <2>2. CASE q # p
    BY <1>1, <1>3, <2>2 DEF CreditOK, InDispatchOnce
  <2> QED
    BY <2>1, <2>2
<1> QED
  BY <1>1, <1>5, <1>6, <1>8, Zenon DEF CreditOK, Mine

\* No worker was started yet.
LEMMA InitCredit == Init => CreditOK
BY DEF Init, FleetInit, CreditOK, LiveWorkerHoldsCredit

\* The holder of the dispatch lock is alone in dispatch_once.
LEMMA OnlyDispatcher ==
    ASSUME DispatchInv, NEW p \in Actors, pc[p] \in InDispatchOnce
    PROVE  p \in Controllers /\ \A q \in Actors \ {p} : pc[q] \notin InDispatchOnce
BY DEF DispatchInv, LockOK

\* A launch kills nobody: the slot is free.
LEMMA LaunchCredit ==
    ASSUME Calm, DispatchInv, NewestOK, CreditOK, NEW p \in Actors, Launch(p)
    PROVE  CreditOK'
<1> USE DEF DispatchInv, DispatchTypeOK, FleetTypeOK
<1>0. pc[p] = "launch" /\ cur[p] \in Attempts
  BY DEF Launch, Respawn, CurOK
<1>c. PICK c \in Attempts : c = cur[p]
  BY <1>0
<1>1. /\ UNCHANGED <<boardVars, lease, cur, reaping, reserved>>
      /\ pc' = [pc EXCEPT ![p] = "record"]
      /\ OwnerOf[c[1]] = RunOf[p] /\ MaySpawn(p, c[1])
      /\ live' = (live \ OnSlot(SlotOf[c[1]])) \cup {c}
      /\ \A a \in Attempts \ OnSlot(SlotOf[c[1]]) : rec'[a] = rec[a]
  BY <1>0, <1>c DEF Launch, Respawn, Supersede, MarkRunStatus, MaySpawn, Goto
<1>2. c[1] \in Tasks /\ Handed(c[1], c[2])
  BY <1>0, <1>1, <1>c, AttemptShape DEF CreditOK
<1>3. p \in Controllers /\ \A q \in Actors \ {p} : pc[q] \notin InDispatchOnce
  BY <1>0, OnlyDispatcher DEF InDispatchOnce
<1>4. \A q \in Actors \ {p} : pc'[q] = pc[q]
  BY <1>1
<1>5. LiveWorkerHoldsCredit'
  <2> SUFFICES ASSUME NEW a \in live'
               PROVE  InFlight(a)' \/ (rec'[a] = "running" /\ a \in lease')
    BY DEF LiveWorkerHoldsCredit
  <2>1. CASE a = c
    BY <1>1, <1>3, <1>c, <2>1 DEF InFlight
  <2>2. CASE a # c
    <3>1. a \in live /\ a \in Attempts \ OnSlot(SlotOf[c[1]])
      BY <1>1, <2>2
    <3>2. ~InFlight(a)
      BY <1>0, <1>3, Alone DEF InFlight, InDispatchOnce
    <3>3. rec[a] = "running" /\ a \in lease
      BY <3>1, <3>2 DEF CreditOK, LiveWorkerHoldsCredit
    <3> QED
      BY <1>1, <3>1, <3>3 DEF boardVars
  <2> QED
    BY <2>1, <2>2
<1>6. ASSUME NEW a \in live'
      PROVE  Handed(a[1], a[2])' /\ \E q \in Controllers : RunOf[q] = OwnerOf[a[1]]
  <2>1. Handed(a[1], a[2]) /\ \E q \in Controllers : RunOf[q] = OwnerOf[a[1]]
    BY <1>1, <1>2, <1>3 DEF CreditOK
  <2> QED
    BY <1>1, <2>1 DEF Handed, boardVars
<1>7. ASSUME NEW q \in Actors
      PROVE  /\ pc'[q] \notin {"lease", "launch"}
             /\ reaping'[q] \subseteq Mine(q)
             /\ pc'[q] = "release" => /\ OwnerOf[cur'[q][1]] = RunOf[q]
                                      /\ \A a \in live' : a[1] # cur'[q][1]
  <2>1. CASE q = p
    BY <1>1, <2>1 DEF CreditOK
  <2>2. CASE q # p
    <3>1. pc[q] \notin {"lease", "launch"} /\ pc'[q] = pc[q]
      BY <1>3, <1>4, <2>2 DEF InDispatchOnce
    <3>2. RunOf[q] # RunOf[p]
      BY <2>2, Alone
    <3>3. pc[q] = "release" => /\ OwnerOf[cur[q][1]] = RunOf[q]
                               /\ \A a \in live : a[1] # cur[q][1]
      BY DEF CreditOK
    <3>4. pc[q] = "release" => \A a \in live' : a[1] # cur[q][1]
      BY <1>1, <3>2, <3>3
    <3> QED
      BY <1>1, <3>1, <3>3, <3>4 DEF CreditOK
  <2> QED
    BY <2>1, <2>2
<1> QED
  BY <1>5, <1>6, <1>7, Zenon DEF CreditOK, Mine

\* Recording the row and taking the credit completes a spawn.
LEMMA RecordCredit ==
    ASSUME Calm, DispatchInv, NewestOK, CreditOK, NEW p \in Actors,
           RecordRun(p) \/ TakeLease(p)
    PROVE  CreditOK'
<1> USE DEF DispatchInv, DispatchTypeOK, FleetTypeOK
<1>0. pc[p] \in {"record", "lease"} /\ cur[p] \in Attempts
  BY DEF RecordRun, TakeLease, CurOK
<1>c. PICK c \in Attempts : c = cur[p]
  BY <1>0
<1>1. /\ UNCHANGED <<boardVars, live, reaping, reserved>>
      /\ \A q \in Actors \ {p} : pc'[q] = pc[q] /\ cur'[q] = cur[q]
      /\ \/ pc'[p] = "lease" /\ cur'[p] = c /\ rec'[c] = "running"
         \/ pc'[p] = "claim" /\ c \in lease' /\ rec[c] = "running"
      /\ \A a \in Attempts : /\ rec[a] = "running" => rec'[a] = "running"
                             /\ a \in lease => a \in lease'
  BY <1>c DEF RecordRun, TakeLease, MarkRunStatus, Goto, CreditOK
<1>3. p \in Controllers /\ \A q \in Actors \ {p} : pc[q] \notin InDispatchOnce
  BY <1>0, OnlyDispatcher DEF InDispatchOnce
<1>5. LiveWorkerHoldsCredit'
  <2> SUFFICES ASSUME NEW a \in live'
               PROVE  InFlight(a)' \/ (rec'[a] = "running" /\ a \in lease')
    BY DEF LiveWorkerHoldsCredit
  <2>0. a \in Attempts /\ a \in live
    BY <1>1
  <2>1. CASE a = c
    <3>1. CASE pc'[p] = "lease" /\ cur'[p] = c
      BY <1>3, <2>1, <3>1 DEF InFlight
    <3>2. CASE c \in lease' /\ rec[c] = "running"
      BY <1>1, <2>1, <3>2
    <3> QED
      BY <1>1, <3>1, <3>2
  <2>2. CASE a # c
    <3>2. ~InFlight(a)
      BY <1>3, <1>c, <2>2, Alone DEF InFlight, InDispatchOnce
    <3> QED
      BY <1>1, <2>0, <3>2 DEF CreditOK, LiveWorkerHoldsCredit
  <2> QED
    BY <2>1, <2>2
<1>6. ASSUME NEW a \in live'
      PROVE  Handed(a[1], a[2])' /\ \E q \in Controllers : RunOf[q] = OwnerOf[a[1]]
  BY <1>1 DEF CreditOK, Handed, boardVars
<1>7. ASSUME NEW q \in Actors
      PROVE  /\ pc'[q] = "lease" => rec'[cur'[q]] = "running"
             /\ pc'[q] # "launch"
             /\ reaping'[q] \subseteq Mine(q)
             /\ pc'[q] = "release" => /\ OwnerOf[cur'[q][1]] = RunOf[q]
                                      /\ \A a \in live' : a[1] # cur'[q][1]
  <2>1. CASE q = p
    BY <1>1, <2>1 DEF CreditOK
  <2>2. CASE q # p
    <3>1. pc[q] \notin {"lease", "launch"} /\ pc'[q] = pc[q] /\ cur'[q] = cur[q]
      BY <1>1, <1>3, <2>2 DEF InDispatchOnce
    <3> QED
      BY <1>1, <3>1 DEF CreditOK
  <2> QED
    BY <2>1, <2>2
<1> QED
  BY <1>5, <1>6, <1>7, Zenon DEF CreditOK, Mine

\* A worker that reports keeps its credit until it exits.
LEMMA WorkerCredit ==
    ASSUME DispatchInv, CreditOK, WorkerStep
    PROVE  CreditOK'
<1> USE DEF DispatchInv, DispatchTypeOK, FleetTypeOK
<1>1. /\ live' \subseteq live
      /\ UNCHANGED <<rec, lease, pc, cur, reaping, reserved>>
  BY DEF WorkerStep, Worker, WorkerReports, WorkerExits, localVars
<1>2. \A t \in Tasks : \/ status'[t] = status[t] /\ claim'[t] = claim[t]
                       \/ status'[t] \in TerminalTask
  BY DEF WorkerStep, Worker, WorkerReports, WorkerExits
<1>3. LiveWorkerHoldsCredit'
  BY <1>1 DEF CreditOK, LiveWorkerHoldsCredit, InFlight
<1>4. ASSUME NEW t \in Tasks, NEW n, Handed(t, n) PROVE Handed(t, n)'
  BY <1>2, <1>4 DEF Handed, TerminalTask
<1>5. \A a \in live' : Handed(a[1], a[2])' /\ \E q \in Controllers : RunOf[q] = OwnerOf[a[1]]
  BY <1>1, <1>4, AttemptShape DEF CreditOK
<1>6. ASSUME NEW q \in Actors
      PROVE  /\ pc'[q] = "lease" => rec'[cur'[q]] = "running"
             /\ reaping'[q] \subseteq Mine(q)
             /\ pc'[q] = "release" => /\ OwnerOf[cur'[q][1]] = RunOf[q]
                                      /\ \A a \in live' : a[1] # cur'[q][1]
             /\ pc'[q] = "launch" /\ OwnerOf[cur'[q][1]] = RunOf[q] =>
                   Handed(cur[q][1], cur[q][2])'
             /\ pc'[q] = "launch" /\ MaySpawn(q, cur[q][1])' =>
                   OnSlot(SlotOf[cur'[q][1]]) \cap live' = {}
  <2>1. pc[q] = "launch" => cur[q][1] \in Tasks
    BY AttemptShape DEF CurOK
  <2>2. pc[q] = "launch" /\ OwnerOf[cur[q][1]] = RunOf[q] => Handed(cur[q][1], cur[q][2])'
    <3> SUFFICES ASSUME pc[q] = "launch", OwnerOf[cur[q][1]] = RunOf[q]
                 PROVE  Handed(cur[q][1], cur[q][2])'
      OBVIOUS
    <3>1. Handed(cur[q][1], cur[q][2])
      BY DEF CreditOK
    <3> QED
      BY <1>1, <1>2, <2>1, <3>1 DEF Handed, TerminalTask
  <2> QED
    BY <1>1, <2>2 DEF CreditOK, MaySpawn
<1> QED
  BY <1>3, <1>5, <1>6, Zenon DEF CreditOK, Mine

-----------------------------------------------------------------------------
(* The wave.                                                               *)

\* Fewer workers are a smaller number.
LEMMA WorkersShrink ==
    ASSUME DispatchTypeOK, live' \subseteq live, NEW r
    PROVE  Cardinality(WorkersOf(r)') <= Cardinality(WorkersOf(r))
           /\ Cardinality(WorkersOf(r)') \in Nat
<1>1. WorkersOf(r)' \subseteq WorkersOf(r)
  BY DEF WorkersOf
<1> QED
  BY <1>1, WorkersFinite, FS_Subset, FS_CardinalityType

\* What an actor may do to its wave without room being made for it first.
Keeps(p) ==
    /\ live' \subseteq live
    /\ \A q \in Actors \ {p} : /\ pc'[q] = pc[q] /\ quota'[q] = quota[q]
                               /\ reserved'[q] = reserved[q] /\ spawned'[q] = spawned[q]
    /\ reserved'[p] \in {reserved[p], {}}
    /\ pc'[p] \in SweepPC \cup {"reserve"} =>
          pc[p] \in SweepPC \cup {"reserve"} /\ quota'[p] = quota[p]
    /\ pc'[p] \in {"enter", "claim"} =>
          /\ pc[p] \in {"enter", "claim", "launch"}
          /\ reserved'[p] = reserved[p] /\ spawned'[p] = spawned[p]
    /\ pc'[p] \notin {"launch", "record"}
    /\ pc'[p] = "lease" =>
          pc[p] = "record" /\ reserved'[p] = reserved[p] /\ spawned'[p] = spawned[p]

\* The quantities of the wave are numbers.
LEMMA WaveNumbers ==
    ASSUME DispatchTypeOK, WaveOK, NEW q \in Actors
    PROVE  /\ Cardinality(WorkersOf(RunOf[q])) \in Nat
           /\ Cardinality(reserved[q]) \in Nat
           /\ quota[q] \in Nat /\ spawned[q] \in Nat /\ Wave \in Nat
BY WorkersFinite, ReservedCount, DispatchAssumption DEF DispatchTypeOK

\* An actor whose own state stays is no worse off when its run has no more
\* workers than before.
LEMMA WaveGrows ==
    ASSUME DispatchTypeOK, WaveOK, NEW q \in Actors,
           Cardinality(WorkersOf(RunOf[q])') <= Cardinality(WorkersOf(RunOf[q])),
           Cardinality(WorkersOf(RunOf[q])') \in Nat,
           pc'[q] = pc[q], quota'[q] = quota[q],
           reserved'[q] = reserved[q], spawned'[q] = spawned[q]
    PROVE  WaveOf(q)'
<1> DEFINE n == Cardinality(WorkersOf(RunOf[q]))
           k == Cardinality(WorkersOf(RunOf[q])')
           m == Cardinality(reserved[q])
<1>1. k <= n /\ k \in Nat
  OBVIOUS
<1>2. n \in Nat /\ m \in Nat /\ quota[q] \in Nat /\ spawned[q] \in Nat /\ Wave \in Nat
  BY WaveNumbers
<1>3. WaveOf(q)
  BY DEF WaveOK
<1> HIDE DEF n, k, m
<1>4. /\ n <= Wave
      /\ IsFiniteSet(reserved[q])
      /\ pc[q] \in SweepPC \cup {"reserve"} => n + quota[q] <= Wave
      /\ pc[q] \in {"enter", "claim", "launch"} => n + m <= Wave + spawned[q]
      /\ pc[q] \in {"record", "lease"} => n + m <= Wave + spawned[q] + 1
      /\ pc[q] = "launch" => spawned[q] < m
  BY <1>3 DEF WaveOf, n, m
<1>5. /\ k <= Wave
      /\ IsFiniteSet(reserved[q])
      /\ pc[q] \in SweepPC \cup {"reserve"} => k + quota[q] <= Wave
      /\ pc[q] \in {"enter", "claim", "launch"} => k + m <= Wave + spawned[q]
      /\ pc[q] \in {"record", "lease"} => k + m <= Wave + spawned[q] + 1
      /\ pc[q] = "launch" => spawned[q] < m
  BY <1>1, <1>2, <1>4
<1> QED
  BY <1>5 DEF WaveOf, k, m, SweepPC

\* ... as when no worker is started.
LEMMA OthersWave ==
    ASSUME DispatchTypeOK, WaveOK, live' \subseteq live, NEW q \in Actors,
           pc'[q] = pc[q], quota'[q] = quota[q],
           reserved'[q] = reserved[q], spawned'[q] = spawned[q]
    PROVE  WaveOf(q)'
BY WorkersShrink, WaveGrows

\* Such a step keeps the wave.
LEMMA KeepsWave ==
    ASSUME DispatchTypeOK, WaveOK, NEW p \in Actors, Keeps(p)
    PROVE  WaveOK'
<1>1. ASSUME NEW q \in Actors, q # p PROVE WaveOf(q)'
  BY <1>1, OthersWave DEF Keeps
<1> DEFINE n == Cardinality(WorkersOf(RunOf[p]))
           k == Cardinality(WorkersOf(RunOf[p])')
           m == Cardinality(reserved[p])
<1>2. k <= n /\ k \in Nat
  BY WorkersShrink DEF Keeps
<1>3. n \in Nat /\ m \in Nat /\ quota[p] \in Nat /\ spawned[p] \in Nat /\ Wave \in Nat
  BY WaveNumbers
<1>4. WaveOf(p)
  BY DEF WaveOK
<1>5. IsFiniteSet(reserved'[p])
  BY <1>4, FS_EmptySet DEF Keeps, WaveOf
<1> HIDE DEF n, k, m
<1>6. /\ n <= Wave
      /\ pc[p] \in SweepPC \cup {"reserve"} => n + quota[p] <= Wave
      /\ pc[p] \in {"enter", "claim", "launch"} => n + m <= Wave + spawned[p]
      /\ pc[p] = "record" => n + m <= Wave + spawned[p] + 1
  BY <1>4 DEF WaveOf, n, m
<1>7. /\ k <= Wave
      /\ pc'[p] \in SweepPC \cup {"reserve"} => k + quota'[p] <= Wave
      /\ pc'[p] \in {"enter", "claim"} => k + m <= Wave + spawned'[p]
      /\ pc'[p] = "lease" => k + m <= Wave + spawned'[p] + 1
      /\ pc'[p] \in {"enter", "claim", "lease"} => reserved'[p] = reserved[p]
      /\ pc'[p] \notin {"launch", "record"}
  BY <1>2, <1>3, <1>6 DEF Keeps
<1>8. WaveOf(p)'
  BY <1>5, <1>7 DEF WaveOf, k, m, SweepPC
<1> QED
  BY <1>1, <1>8 DEF WaveOK

\* A worker makes room when it exits, and not before.
LEMMA WorkerWave ==
    ASSUME DispatchTypeOK, WaveOK, WorkerStep
    PROVE  WaveOK'
<1>1. live' \subseteq live /\ UNCHANGED localVars
  BY DEF WorkerStep, Worker, WorkerReports, WorkerExits, DispatchTypeOK, FleetTypeOK
<1>2. ASSUME NEW q \in Actors PROVE WaveOf(q)'
  BY <1>1, OthersWave DEF localVars
<1> QED
  BY <1>2 DEF WaveOK

\* Nothing is reserved and nobody works.
LEMMA InitWave == Init => WaveOK
<1> SUFFICES ASSUME Init, NEW q \in Actors PROVE WaveOf(q)
  BY DEF WaveOK
<1>1. WorkersOf(RunOf[q]) = {} /\ reserved[q] = {} /\ pc[q] = "idle"
  BY DEF Init, FleetInit, WorkersOf
<1> QED
  BY <1>1, FS_EmptySet, DispatchAssumption DEF WaveOf, SweepPC

\* Every step but the ones that make room and the ones that fill it.
LEMMA TickKeeps ==
    ASSUME DispatchTypeOK, NEW p \in Actors,
           \/ TickBegin(p) \/ Sweep(p) \/ Conclude(p)
           \/ \E t \in Tasks : ReapRead(p, t) \/ DispatchReclaim(p, t)
           \/ ReapRelease(p) \/ SkipDispatch(p)
           \/ DispatchEnter(p) \/ DispatchLeave(p)
           \/ LaunchRefused(p) \/ LaunchFails(p) \/ RecordRun(p)
    PROVE  Keeps(p)
<1> USE DEF DispatchTypeOK, FleetTypeOK, fleetVars, Goto
<1>1. CASE TickBegin(p) \/ Conclude(p)
  BY <1>1 DEF TickBegin, ReadStatuses, Conclude, ReadEvidence, CheckLive, ReapAtLast, Commit,
              Forget, Keeps, SweepPC
<1>2. CASE Sweep(p)
  <2>1. /\ UNCHANGED <<live, quota, reserved, spawned>>
        /\ \A q \in Actors \ {p} : pc'[q] = pc[q]
        /\ pc[p] \in SweepPC /\ pc'[p] \in SweepPC \cup {"reserve"}
    BY <1>2 DEF Sweep, SweepIdentity, SweepJudge, SweepSettle, SweepReclaim, SweepCharge,
                SweepClose, SweepDone, SweepPC
  <2> QED
    BY <2>1 DEF Keeps, SweepPC
<1>3. CASE \/ \E t \in Tasks : ReapRead(p, t) \/ DispatchReclaim(p, t)
           \/ ReapRelease(p) \/ SkipDispatch(p)
  <2>1. /\ UNCHANGED <<live, quota, reserved, spawned>>
        /\ \A q \in Actors \ {p} : pc'[q] = pc[q]
        /\ \/ pc'[p] \in {"reap", "release", "commit", "evidence"}
           \/ pc[p] = "claim" /\ pc'[p] = "claim"
    BY <1>3 DEF ReapRead, ReapRelease, SkipDispatch, ReapOver, DispatchReclaim, localVars
  <2> QED
    BY <2>1 DEF Keeps, SweepPC
<1>4. CASE DispatchEnter(p) \/ DispatchLeave(p)
  BY <1>4 DEF DispatchEnter, DispatchLeave, AfterDispatch, ReadStatuses, Keeps, SweepPC
<1>5. CASE LaunchRefused(p) \/ LaunchFails(p) \/ RecordRun(p)
  <2>1. /\ UNCHANGED <<quota, reserved, spawned>> /\ live' \subseteq live
        /\ \A q \in Actors \ {p} : pc'[q] = pc[q]
        /\ \/ pc[p] = "launch" /\ pc'[p] = "claim"
           \/ pc[p] = "record" /\ pc'[p] = "lease"
    BY <1>5 DEF LaunchRefused, LaunchFails, SpawnRaises, RecordRun
  <2> QED
    BY <2>1 DEF Keeps, SweepPC
<1> QED
  BY <1>1, <1>2, <1>3, <1>4, <1>5

\* What the wave has left when the dispatch begins is what it has left.
LEMMA CountedAsActive ==
    ASSUME Calm, DispatchInv, NewestOK, CreditOK, NEW p \in Actors,
           pc[p] \notin {"record", "lease"}
    PROVE  Cardinality(WorkersOf(RunOf[p])) <= Cardinality(Active(p))
<1> DEFINE W == WorkersOf(RunOf[p])
           A == Active(p)
           f == [a \in W |-> a[1]]
<1>1. ASSUME NEW a \in W PROVE a[1] \in A
  <2>1. a \in live /\ OwnerOf[a[1]] = RunOf[p] /\ a[1] \in Tasks
    BY AttemptShape DEF WorkersOf, DispatchInv, DispatchTypeOK, FleetTypeOK
  <2>2. LiveOwned(a[1])
    BY <2>1, LiveIsOwned
  <2> QED
    BY <2>1, <2>2 DEF Active, Mine, TasksOf
<1>2. \A a, b \in W : a[1] = b[1] => a = b
  BY DEF WorkersOf, DispatchInv, OneWorkerPerSlot
<1>3. f \in Injection(W, A)
  BY <1>1, <1>2 DEF Injection, IsInjective
<1>4. IsFiniteSet(A)
  BY ActiveFinite
<1> QED
  BY <1>3, <1>4, FS_Injection

\* The dispatch begins with the room the count of active tasks leaves.
LEMMA BeginWave ==
    ASSUME Calm, DispatchInv, NewestOK, CreditOK, WaveOK, NEW p \in Actors, BeginDispatch(p)
    PROVE  WaveOK'
<1> USE DEF DispatchInv, DispatchTypeOK, FleetTypeOK, fleetVars, Goto
<1>1. /\ UNCHANGED <<live, reserved, spawned>>
      /\ pc[p] = "reap" /\ pc' = [pc EXCEPT ![p] = "sweep"]
      /\ quota' = [quota EXCEPT ![p] = Wave - Cardinality(Active(p))]
      /\ Cardinality(Active(p)) < Wave
  BY DEF BeginDispatch, ReapOver, MayDispatch
<1>2. ASSUME NEW q \in Actors, q # p PROVE WaveOf(q)'
  BY <1>1, <1>2, OthersWave
<1>3. Cardinality(WorkersOf(RunOf[p])) <= Cardinality(Active(p))
  BY <1>1, CountedAsActive
<1>4. /\ Cardinality(WorkersOf(RunOf[p])) \in Nat /\ Cardinality(Active(p)) \in Nat
      /\ Wave \in Nat
  BY WaveNumbers, ActiveFinite
<1>5. WorkersOf(RunOf[p])' = WorkersOf(RunOf[p])
  BY <1>1 DEF WorkersOf
<1>6. IsFiniteSet(reserved[p])
  BY DEF WaveOK, WaveOf
<1>7. WaveOf(p)'
  BY <1>1, <1>3, <1>4, <1>5, <1>6 DEF WaveOf, SweepPC
<1> QED
  BY <1>2, <1>7 DEF WaveOK

\* A set of tasks reserves at most as many slots.
LEMMA SlotCount ==
    ASSUME NEW S \in SUBSET Tasks
    PROVE  /\ IsFiniteSet({SlotOf[t] : t \in S})
           /\ Cardinality({SlotOf[t] : t \in S}) <= Cardinality(S)
<1> DEFINE R == {SlotOf[t] : t \in S}
           f == [t \in S |-> SlotOf[t]]
<1>1. f \in Surjection(S, R)
  BY DEF Surjection
<1>2. IsFiniteSet(S)
  BY FleetAssumption, FS_Subset
<1> QED
  BY <1>1, <1>2, FS_Surjection

\* It reserves no more slots than it has room for,
LEMMA ReserveWave ==
    ASSUME DispatchTypeOK, WaveOK, NEW p \in Actors, Reserve(p)
    PROVE  WaveOK'
<1> USE DEF DispatchTypeOK, FleetTypeOK, Goto
<1>1. /\ UNCHANGED <<live, quota, spawned>>
      /\ pc[p] = "reserve" /\ pc' = [pc EXCEPT ![p] = "enter"]
  BY DEF Reserve
<1>2. PICK S \in SUBSET Mine(p) :
         MayReserve(p, S) /\ reserved' = [reserved EXCEPT ![p] = {SlotOf[t] : t \in S}]
  BY DEF Reserve
<1>3. S \in SUBSET Tasks
  BY <1>2 DEF Mine, TasksOf
<1>4. ASSUME NEW q \in Actors, q # p PROVE WaveOf(q)'
  BY <1>1, <1>2, <1>4, OthersWave
<1> DEFINE n == Cardinality(WorkersOf(RunOf[p]))
           m == Cardinality({SlotOf[t] : t \in S})
<1>5. n + quota[p] <= Wave /\ n <= Wave
  BY <1>1 DEF WaveOK, WaveOf
<1>6. m <= Cardinality(S) /\ Cardinality(S) <= quota[p]
  BY <1>2, <1>3, SlotCount DEF MayReserve
<1>7. n \in Nat /\ quota[p] \in Nat /\ spawned[p] \in Nat /\ Wave \in Nat
  BY WaveNumbers
<1>8. IsFiniteSet({SlotOf[t] : t \in S}) /\ m \in Nat /\ Cardinality(S) \in Nat
  BY <1>3, SlotCount, TaskCount, FS_CardinalityType
<1>9. WorkersOf(RunOf[p])' = WorkersOf(RunOf[p]) /\ reserved'[p] = {SlotOf[t] : t \in S}
  BY <1>1, <1>2 DEF WorkersOf
<1> HIDE DEF n, m
<1>10. n + m <= Wave + spawned[p]
  BY <1>5, <1>6, <1>7, <1>8
<1>11. WaveOf(p)'
  BY <1>1, <1>5, <1>8, <1>9, <1>10 DEF WaveOf, n, m, SweepPC
<1> QED
  BY <1>4, <1>11 DEF WaveOK

\* upstream claims while reservations are left,
LEMMA ClaimWave ==
    ASSUME DispatchTypeOK, WaveOK, NEW p \in Actors, NEW t \in Tasks, DispatchClaim(p, t)
    PROVE  WaveOK'
<1> USE DEF DispatchTypeOK, FleetTypeOK, Goto
<1>1. /\ UNCHANGED <<live, quota, spawned, reserved>>
      /\ pc[p] = "claim" /\ pc' = [pc EXCEPT ![p] = "launch"]
      /\ spawned[p] < Cardinality(reserved[p])
  BY DEF DispatchClaim
<1>2. ASSUME NEW q \in Actors, q # p PROVE WaveOf(q)'
  BY <1>1, <1>2, OthersWave
<1>3. WorkersOf(RunOf[p])' = WorkersOf(RunOf[p])
  BY <1>1 DEF WorkersOf
<1>4. WaveOf(p)'
  BY <1>1, <1>3 DEF WaveOK, WaveOf, SweepPC
<1> QED
  BY <1>2, <1>4 DEF WaveOK

\* each launch uses one up,
LEMMA LaunchWave ==
    ASSUME Calm, DispatchInv, WaveOK, NEW p \in Actors, Launch(p)
    PROVE  WaveOK'
<1> USE DEF DispatchInv, DispatchTypeOK, FleetTypeOK, Goto
<1>1. /\ UNCHANGED <<quota, spawned, reserved>>
      /\ pc[p] = "launch" /\ pc' = [pc EXCEPT ![p] = "record"]
      /\ OwnerOf[cur[p][1]] = RunOf[p]
      /\ live' \subseteq live \cup {cur[p]}
  BY DEF Launch, Respawn, MaySpawn
<1>2. ASSUME NEW q \in Actors, q # p PROVE WaveOf(q)'
  <2>1. RunOf[q] # RunOf[p]
    BY <1>2, Alone
  <2>2. WorkersOf(RunOf[q])' \subseteq WorkersOf(RunOf[q])
    BY <1>1, <2>1 DEF WorkersOf
  <2>3. /\ Cardinality(WorkersOf(RunOf[q])') <= Cardinality(WorkersOf(RunOf[q]))
        /\ Cardinality(WorkersOf(RunOf[q])') \in Nat
    BY <2>2, WorkersFinite, FS_Subset, FS_CardinalityType
  <2>4. UNCHANGED <<pc[q], quota[q], spawned[q], reserved[q]>>
    BY <1>1, <1>2
  <2> QED
    BY <2>3, <2>4, WaveGrows DEF WaveOK
<1> DEFINE W == WorkersOf(RunOf[p])
<1>3. W' \subseteq W \cup {cur[p]}
  BY <1>1 DEF WorkersOf
<1>4. Cardinality(W') <= Cardinality(W) + 1 /\ Cardinality(W') \in Nat
      /\ Cardinality(W) \in Nat
  <2>1. IsFiniteSet(W) /\ Cardinality(W) \in Nat
    BY WorkersFinite
  <2>2. IsFiniteSet(W \cup {cur[p]}) /\ Cardinality(W \cup {cur[p]}) <= Cardinality(W) + 1
    BY <2>1, OneMore
  <2>3. Cardinality(W') <= Cardinality(W \cup {cur[p]}) /\ IsFiniteSet(W')
    BY <1>3, <2>2, FS_Subset
  <2>4. Cardinality(W') \in Nat /\ Cardinality(W \cup {cur[p]}) \in Nat
    BY <2>2, <2>3, FS_CardinalityType
  <2> QED
    BY <2>1, <2>2, <2>3, <2>4
<1>5. /\ Cardinality(W) + Cardinality(reserved[p]) <= Wave + spawned[p]
      /\ spawned[p] < Cardinality(reserved[p])
      /\ IsFiniteSet(reserved[p])
  BY <1>1 DEF WaveOK, WaveOf
<1>6. Cardinality(reserved[p]) \in Nat /\ spawned[p] \in Nat /\ Wave \in Nat
  BY WaveNumbers
<1>7. /\ Cardinality(W') <= Wave
      /\ Cardinality(W') + Cardinality(reserved[p]) <= Wave + spawned[p] + 1
  BY <1>4, <1>5, <1>6
<1>8. WaveOf(p)'
  BY <1>1, <1>5, <1>7 DEF WaveOf, SweepPC
<1> QED
  BY <1>2, <1>8 DEF WaveOK

\* and is counted as spawned once it holds its credit.
LEMMA LeaseWave ==
    ASSUME DispatchTypeOK, WaveOK, NEW p \in Actors, TakeLease(p)
    PROVE  WaveOK'
<1> USE DEF DispatchTypeOK, FleetTypeOK, Goto
<1>1. /\ UNCHANGED <<live, quota, reserved>>
      /\ pc[p] = "lease" /\ pc' = [pc EXCEPT ![p] = "claim"]
      /\ spawned' = [spawned EXCEPT ![p] = @ + 1]
  BY DEF TakeLease
<1>2. ASSUME NEW q \in Actors, q # p PROVE WaveOf(q)'
  BY <1>1, <1>2, OthersWave
<1>3. WorkersOf(RunOf[p])' = WorkersOf(RunOf[p])
  BY <1>1 DEF WorkersOf
<1>4. Cardinality(WorkersOf(RunOf[p])) + Cardinality(reserved[p]) <= Wave + spawned[p] + 1
      /\ Cardinality(WorkersOf(RunOf[p])) <= Wave /\ IsFiniteSet(reserved[p])
  BY <1>1 DEF WaveOK, WaveOf
<1>5. spawned'[p] = spawned[p] + 1 /\ spawned[p] \in Nat /\ Wave \in Nat
      /\ Cardinality(WorkersOf(RunOf[p])) \in Nat /\ Cardinality(reserved[p]) \in Nat
  BY <1>1, WaveNumbers
<1>6. WaveOf(p)'
  BY <1>1, <1>3, <1>4, <1>5 DEF WaveOf, SweepPC
<1> QED
  BY <1>2, <1>6 DEF WaveOK

-----------------------------------------------------------------------------
(* A completed run is clean.                                               *)

\* The rows and credits of a run.
HeldBy(r) == {a \in lease \cup RunningRecords : OwnerOf[a[1]] = r}

\* The verdict "completed" is only reached with every task done, and committed
\* when there is neither a process nor a row nor a credit left.
CleanOf(p) ==
    verdict[p] = "completed" =>
        /\ \A t \in Mine(p) : status[t] = "done"
        /\ pc[p] \in {"verdict", "reread", "reap", "release", "commit"}
        /\ pc[p] # "verdict" => WorkersOf(RunOf[p]) = {}
        /\ pc[p] \in {"reap", "release", "commit"} =>
              /\ pass[p] = 3
              /\ \A a \in HeldBy(RunOf[p]) :
                    a[1] \in reaping[p] \/ (pc[p] = "release" /\ cur[p][1] = a[1])
        /\ pc[p] = "release" => \A a \in RunningRecords : a[1] = cur[p][1] => a = cur[p]

\* A completed run: its tasks are done, nothing is left, and nobody acts for it.
CleanRun(r) ==
    run[r] = "completed" =>
        /\ \A t \in TasksOf(r) : status[t] = "done"
        /\ WorkersOf(r) = {} /\ HeldBy(r) = {}
        /\ \A p \in Actors : RunOf[p] = r => pc[p] = "idle"

\* ... for every controller and every run.
CleanOK == (\A p \in Actors : CleanOf(p)) /\ (\A r \in Runs : CleanRun(r))

\* No run is completed yet.
LEMMA InitClean == Init => CleanOK
BY DEF Init, FleetInit, CleanOK, CleanOf, CleanRun

\* What a controller brings to life, records or takes a credit for is of its
\* own run, and so is the state it writes.
Within(p) ==
    /\ \A a \in Attempts : OwnerOf[a[1]] # RunOf[p] =>
          /\ a \in live' => a \in live
          /\ a \in lease' => a \in lease
          /\ rec'[a] = "running" => rec[a] = "running"
    /\ \A r \in Runs : run'[r] = run[r] \/ (r = RunOf[p] /\ Commit(p))
    /\ \A q \in Actors \ {p} :
          /\ pc'[q] = pc[q] /\ verdict'[q] = verdict[q] /\ pass'[q] = pass[q]
          /\ reaping'[q] = reaping[q] /\ cur'[q] = cur[q]

\* Every step of a tick stays within its run.
LEMMA StaysWithin ==
    ASSUME DispatchInv, NewestOK, NEW p \in Actors, Tick(p)
    PROVE  Within(p)
<1> USE DEF DispatchInv, DispatchTypeOK, FleetTypeOK, fleetVars, boardVars, localVars, Goto
<1>1. CASE TickBegin(p)
  BY <1>1 DEF TickBegin, ReadStatuses, Within
<1>2. CASE Reap(p) \/ Sweep(p) \/ LaunchRefused(p) \/ LaunchFails(p)
  <2>1. LocalStep(p)
    BY <1>2, LocalReap, LocalSweep, LocalRest
  <2>2. lease' \subseteq lease /\ UNCHANGED run
    BY <1>2 DEF Reap, ReapRead, ReapRelease, BeginDispatch, SkipDispatch, Sweep,
       SweepIdentity, SweepJudge, SweepSettle, SweepReclaim, SweepCharge, SweepClose,
       SweepDone, LaunchRefused, LaunchFails, ReleaseWorkerLease
  <2> DEFINE Own == \A q \in Actors \ {p} :
                        /\ pc'[q] = pc[q] /\ verdict'[q] = verdict[q] /\ pass'[q] = pass[q]
                        /\ reaping'[q] = reaping[q] /\ cur'[q] = cur[q]
  <2>3. ASSUME Reap(p) PROVE Own
    BY <2>3 DEF Reap, ReapRead, ReapRelease, BeginDispatch, SkipDispatch
  <2>4. ASSUME Sweep(p) PROVE Own
    BY <2>4 DEF Sweep, SweepIdentity, SweepJudge, SweepSettle, SweepReclaim, SweepCharge,
       SweepClose, SweepDone
  <2>5. ASSUME LaunchRefused(p) \/ LaunchFails(p) PROVE Own
    BY <2>5 DEF LaunchRefused, LaunchFails, SpawnRaises
  <2>6. Own
    BY <1>2, <2>3, <2>4, <2>5
  <2> QED
    BY <2>1, <2>2, <2>6 DEF LocalStep, Within
<1>3. CASE Reserve(p) \/ DispatchEnter(p) \/ DispatchLeave(p)
           \/ \E t \in Tasks : DispatchClaim(p, t) \/ DispatchReclaim(p, t)
  <2>1. UNCHANGED <<live, lease, rec, run>>
    BY <1>3 DEF Reserve, DispatchEnter, DispatchLeave, DispatchClaim, DispatchReclaim
  <2> DEFINE Own == \A q \in Actors \ {p} :
                        /\ pc'[q] = pc[q] /\ verdict'[q] = verdict[q] /\ pass'[q] = pass[q]
                        /\ reaping'[q] = reaping[q] /\ cur'[q] = cur[q]
  <2>3. ASSUME Reserve(p) PROVE Own
    BY <2>3 DEF Reserve
  <2>4. ASSUME DispatchEnter(p) \/ DispatchLeave(p) PROVE Own
    BY <2>4 DEF DispatchEnter, DispatchLeave, AfterDispatch, ReadStatuses
  <2>5. ASSUME NEW t \in Tasks, DispatchClaim(p, t) \/ DispatchReclaim(p, t) PROVE Own
    BY <2>5 DEF DispatchClaim, DispatchReclaim
  <2>6. Own
    BY <1>3, <2>3, <2>4, <2>5
  <2> QED
    BY <2>1, <2>6 DEF Within
<1>4. CASE Launch(p) \/ RecordRun(p) \/ TakeLease(p)
  <2>1. OwnerOf[cur[p][1]] = RunOf[p]
    BY <1>4 DEF Launch, MaySpawn, RecordRun, TakeLease, NewestOK
  <2>2. /\ \A a \in Attempts : a # cur[p] =>
              /\ a \in live' => a \in live
              /\ a \in lease' => a \in lease
              /\ rec'[a] = "running" => rec[a] = "running"
        /\ UNCHANGED <<run, verdict, pass, reaping>>
        /\ \A q \in Actors \ {p} : pc'[q] = pc[q] /\ cur'[q] = cur[q]
    BY <1>4 DEF Launch, Respawn, Supersede, MarkRunStatus, RecordRun, TakeLease
  <2> QED
    BY <2>1, <2>2 DEF Within
<1>5. CASE Conclude(p)
  <2>1. UNCHANGED fleetVars
        /\ \A r \in Runs : run'[r] = run[r] \/ (r = RunOf[p] /\ Commit(p))
    BY <1>5 DEF Conclude, ReadEvidence, CheckLive, ReapAtLast, Commit
  <2>2. \A q \in Actors \ {p} :
          /\ pc'[q] = pc[q] /\ verdict'[q] = verdict[q] /\ pass'[q] = pass[q]
          /\ reaping'[q] = reaping[q] /\ cur'[q] = cur[q]
    BY <1>5 DEF Conclude, ReadEvidence, CheckLive, ReapAtLast, Commit, Forget, ReadStatuses
  <2> QED
    BY <2>1, <2>2 DEF Within
<1> QED
  BY <1>1, <1>2, <1>3, <1>4, <1>5 DEF Tick, DispatchOnce

\* What a controller does leaves the verdict of another one true.
LEMMA OthersClean ==
    ASSUME Calm, DispatchInv, DispatchInv', CreditOK, CleanOK, [Next]_vars,
           NEW p \in Actors, Within(p), NEW q \in Actors, q # p
    PROVE  CleanOf(q)'
<1> USE DEF DispatchInv, DispatchTypeOK, FleetTypeOK
<1> SUFFICES ASSUME verdict[q] = "completed" PROVE CleanOf(q)'
  BY DEF CleanOf, Within
<1>1. RunOf[q] # RunOf[p]
  BY Alone
<1>2. CleanOf(q)
  BY DEF CleanOK
<1>3. \A t \in Mine(q) : status'[t] = "done"
  <2> SUFFICES ASSUME NEW t \in Mine(q) PROVE status'[t] = "done"
    OBVIOUS
  <2>1. t \in Tasks /\ status[t] = "done"
    BY <1>2 DEF CleanOf, Mine, TasksOf
  <2> QED
    BY <2>1, DoneStep
<1>4. /\ WorkersOf(RunOf[q])' \subseteq WorkersOf(RunOf[q])
      /\ HeldBy(RunOf[q])' \subseteq HeldBy(RunOf[q])
  <2>1. \A a \in Attempts : OwnerOf[a[1]] = RunOf[q] =>
           /\ a \in live' => a \in live
           /\ a \in lease' => a \in lease
           /\ rec'[a] = "running" => rec[a] = "running"
    BY <1>1 DEF Within
  <2>2. live' \subseteq Attempts /\ lease' \subseteq Attempts
    OBVIOUS
  <2>3. WorkersOf(RunOf[q])' \subseteq WorkersOf(RunOf[q])
    BY <2>1, <2>2 DEF WorkersOf
  <2>4. \A a \in HeldBy(RunOf[q])' : a \in HeldBy(RunOf[q])
    BY <2>1, <2>2 DEF HeldBy, RunningRecords
  <2> QED
    BY <2>3, <2>4
<1>5. /\ pc'[q] = pc[q] /\ verdict'[q] = verdict[q] /\ pass'[q] = pass[q]
      /\ reaping'[q] = reaping[q] /\ cur'[q] = cur[q]
  BY DEF Within
<1>6. /\ pc'[q] \in {"verdict", "reread", "reap", "release", "commit"}
      /\ pc'[q] # "verdict" => WorkersOf(RunOf[q])' = {}
      /\ pc'[q] \in {"reap", "release", "commit"} => pass'[q] = 3
  BY <1>2, <1>4, <1>5 DEF CleanOf
<1>7. pc'[q] \in {"reap", "release", "commit"} =>
         \A a \in HeldBy(RunOf[q])' :
            a[1] \in reaping'[q] \/ (pc'[q] = "release" /\ cur'[q][1] = a[1])
  BY <1>2, <1>4, <1>5 DEF CleanOf
<1>8. pc'[q] = "release" => \A a \in RunningRecords' : a[1] = cur'[q][1] => a = cur'[q]
  <2> SUFFICES ASSUME pc[q] = "release", NEW a \in RunningRecords', a[1] = cur[q][1]
               PROVE  a = cur[q]
    BY <1>5
  <2>1. a \in Attempts /\ rec'[a] = "running"
    BY DEF RunningRecords
  <2>3. OwnerOf[a[1]] # RunOf[p]
    BY <1>1 DEF CreditOK
  <2>4. a \in RunningRecords
    BY <2>1, <2>3 DEF Within, RunningRecords
  <2> QED
    BY <1>2, <2>4 DEF CleanOf
<1> QED
  BY <1>3, <1>5, <1>6, <1>7, <1>8 DEF CleanOf, Mine

\* The reap that follows the verdict takes every row and credit of the run.
LEMMA ReapClean ==
    ASSUME Calm, DispatchInv, DispatchInv', NewestOK, CreditOK, CleanOK, [Next]_vars,
           NEW p \in Actors, Reap(p)
    PROVE  CleanOf(p)'
<1> USE DEF DispatchInv, DispatchTypeOK, FleetTypeOK, fleetVars, boardVars, Goto
<1>0. UNCHANGED verdict /\ UNCHANGED pass /\ UNCHANGED live
  BY DEF Reap, ReapRead, ReapRelease, BeginDispatch, SkipDispatch
<1> SUFFICES ASSUME verdict[p] = "completed" PROVE CleanOf(p)'
  BY <1>0 DEF CleanOf
<1>1. CleanOf(p)
  BY DEF CleanOK
<1>2. \A t \in Mine(p) : status'[t] = "done"
  <2> SUFFICES ASSUME NEW t \in Mine(p) PROVE status'[t] = "done"
    OBVIOUS
  <2>1. t \in Tasks /\ status[t] = "done"
    BY <1>1 DEF CleanOf, Mine, TasksOf
  <2> QED
    BY <2>1, DoneStep
<1>3. pc[p] \in {"reap", "release"}
  BY DEF Reap, ReapRead, ReapRelease, BeginDispatch, SkipDispatch, ReapOver
<1>4. /\ pass'[p] = 3 /\ pass[p] = 3
      /\ WorkersOf(RunOf[p]) = {} /\ WorkersOf(RunOf[p])' = {}
  BY <1>0, <1>1, <1>3 DEF CleanOf, WorkersOf
<1>5. \A a \in HeldBy(RunOf[p]) :
         a[1] \in reaping[p] \/ (pc[p] = "release" /\ cur[p][1] = a[1])
  BY <1>1, <1>3 DEF CleanOf
<1> DEFINE Reaps ==
        /\ pc'[p] \in {"reap", "release", "commit"}
        /\ \A a \in HeldBy(RunOf[p])' :
              a[1] \in reaping'[p] \/ (pc'[p] = "release" /\ cur'[p][1] = a[1])
        /\ pc'[p] = "release" =>
              \A a \in RunningRecords' : a[1] = cur'[p][1] => a = cur'[p]
<1>6. ASSUME NEW t \in Tasks, ReapRead(p, t) PROVE Reaps
  <2>1. /\ pc[p] = "reap" /\ t \in reaping[p] /\ UNCHANGED fleetVars
        /\ reaping'[p] = reaping[p] \ {t}
    BY <1>6 DEF ReapRead
  <2>2. ~LiveOwned(t)
    <3>1. OwnerOf[t] = RunOf[p]
      BY <2>1 DEF CreditOK, Mine, TasksOf
    <3>2. \A a \in AttemptsOf(t) : a[1] = t
      BY DEF AttemptsOf
    <3> QED
      BY <1>4, <3>1, <3>2 DEF LiveOwned, LatestRunning, WorkersOf
  <2>3. /\ cur'[p] = IF LatestRunning(t) = {} THEN <<t, 0>>
                     ELSE CHOOSE a \in LatestRunning(t) : TRUE
        /\ pc'[p] = "release"
    BY <1>6, <2>2 DEF ReapRead
  <2>4. \A a \in RunningRecords : a[1] = t => a \in LatestRunning(t)
    BY AttemptShape DEF NewestOK, Newest, Launched, RunningRecords, LatestRunning, Latest,
       AttemptsOf
  <2>5. ASSUME NEW a \in LatestRunning(t), NEW b \in LatestRunning(t) PROVE a = b
    <3>1. /\ a \in {t} \X (1..MaxTries) /\ b \in {t} \X (1..MaxTries)
          /\ a[2] <= b[2] /\ b[2] <= a[2]
      BY DEF LatestRunning, Latest, AttemptsOf
    <3>2. /\ a = <<t, a[2]>> /\ b = <<t, b[2]>>
          /\ a[2] \in 1..MaxTries /\ b[2] \in 1..MaxTries /\ MaxTries \in Nat
      BY <3>1, FleetAssumption
    <3> HIDE DEF DispatchInv, DispatchTypeOK, FleetTypeOK
    <3>3. a[2] = b[2]
      BY <3>1, <3>2
    <3> QED
      BY <3>2, <3>3
  <2>6. cur'[p][1] = t
    BY <2>3 DEF LatestRunning, AttemptsOf
  <2>7. HeldBy(RunOf[p])' = HeldBy(RunOf[p]) /\ RunningRecords' = RunningRecords
    BY <2>1 DEF HeldBy, RunningRecords
  <2>8. \A a \in RunningRecords : a[1] = t => a = cur'[p]
    BY <2>3, <2>4, <2>5
  <2>9. \A a \in HeldBy(RunOf[p])' : a[1] \in reaping'[p] \/ cur'[p][1] = a[1]
    BY <1>5, <2>1, <2>6, <2>7
  <2> QED
    BY <2>3, <2>6, <2>7, <2>8, <2>9, Zenon
<1>7. ASSUME ReapRelease(p) PROVE Reaps
  <2>1. /\ pc[p] = "release" /\ pc'[p] = "reap" /\ UNCHANGED reaping
        /\ lease' = lease \ AttemptsOf(cur[p][1])
        /\ \A a \in Attempts : a # cur[p] => rec'[a] = rec[a]
    BY <1>7 DEF ReapRelease, MarkRunStatus, ReleaseWorkerLease
  <2>2. cur[p] \in Attempts => rec'[cur[p]] # "running"
    <3>1. cur[p][1] \in Tasks /\ snap[p][cur[p][1]] # "running"
      BY <2>1, CurTask DEF CurOK, SnapOK
    <3> QED
      BY <1>7, <3>1 DEF ReapRelease, MarkRunStatus, SettledAs
  <2>3. \A a \in RunningRecords : a[1] = cur[p][1] => a = cur[p]
    BY <1>1, <2>1 DEF CleanOf
  <2>4. ASSUME NEW a \in HeldBy(RunOf[p])' PROVE a[1] \in reaping'[p]
    <3>0. a \in Attempts
      BY <2>4 DEF HeldBy, RunningRecords
    <3>1. a \in HeldBy(RunOf[p]) /\ a[1] # cur[p][1]
      <4>1. CASE a \in lease'
        BY <2>1, <2>4, <3>0, <4>1, AttemptShape DEF HeldBy, AttemptsOf
      <4>2. CASE a \in RunningRecords'
        <5>1. a # cur[p] /\ a \in RunningRecords
          BY <2>1, <2>2, <3>0, <4>2 DEF RunningRecords
        <5> QED
          BY <2>3, <2>4, <5>1 DEF HeldBy
      <4> QED
        BY <2>4, <4>1, <4>2 DEF HeldBy
    <3> QED
      BY <1>5, <2>1, <3>1
  <2>5. pc'[p] \in {"reap", "release", "commit"} /\ pc'[p] # "release"
    BY <2>1
  <2>6. \A a \in HeldBy(RunOf[p])' : a[1] \in reaping'[p]
    BY <2>4
  <2> QED
    BY <2>5, <2>6, Zenon
<1>8. ASSUME BeginDispatch(p) PROVE Reaps
  BY <1>4, <1>8 DEF BeginDispatch, MayDispatch
<1>9. ASSUME SkipDispatch(p) PROVE Reaps
  <2>1. /\ pc[p] = "reap" /\ pc'[p] = "commit" /\ UNCHANGED <<fleetVars, reaping>>
    BY <1>4, <1>9 DEF SkipDispatch, ReapOver
  <2>2. HeldBy(RunOf[p])' = HeldBy(RunOf[p])
    BY <2>1 DEF HeldBy, RunningRecords
  <2>3. \A a \in HeldBy(RunOf[p])' : a[1] \in reaping'[p]
    BY <1>5, <2>1, <2>2
  <2>4. pc'[p] \in {"reap", "release", "commit"} /\ pc'[p] # "release"
    BY <2>1
  <2> QED
    BY <2>3, <2>4, Zenon
<1> HIDE DEF Reaps
<1>10. Reaps
  BY <1>6, <1>7, <1>8, <1>9, Zenon DEF Reap
<1> USE DEF Reaps
<1>11. /\ pc'[p] \in {"verdict", "reread", "reap", "release", "commit"}
       /\ pc'[p] # "verdict" => WorkersOf(RunOf[p])' = {}
       /\ pc'[p] \in {"reap", "release", "commit"} => pass'[p] = 3
  BY <1>4, <1>10
<1> QED
  BY <1>2, <1>10, <1>11 DEF CleanOf, Mine

\* A run that is not over is declared completed on evidence only.
LEMMA ConcludeClean ==
    ASSUME Calm, DispatchInv, DispatchInv', NewestOK, CreditOK, CleanOK, [Next]_vars,
           NEW p \in Actors, Conclude(p)
    PROVE  CleanOf(p)'
<1> USE DEF DispatchInv, DispatchTypeOK, FleetTypeOK, fleetVars, boardVars, Goto
<1>0. UNCHANGED fleetVars
  BY DEF Conclude, ReadEvidence, CheckLive, ReapAtLast, Commit
<1>1. CASE ReadEvidence(p)
  <2>1. pc'[p] = "verdict" /\ verdict'[p] = Derived(Mine(p))
    BY <1>1 DEF ReadEvidence
  <2>2. Derived(Mine(p)) = "completed" => \A t \in Mine(p) : status[t] = "done"
    BY DEF Derived
  <2> QED
    BY <1>0, <2>1, <2>2 DEF CleanOf, Mine
<1>2. CASE CheckLive(p)
  <2>1. CASE AnyLive(p)
    BY <1>2, <2>1 DEF CheckLive, CleanOf
  <2>2. CASE ~AnyLive(p)
    <3>1. pc[p] = "verdict" /\ pc'[p] = "reread" /\ verdict'[p] = verdict[p]
      BY <1>2, <2>2 DEF CheckLive
    <3>2. WorkersOf(RunOf[p]) = {}
      <4> SUFFICES ASSUME NEW a \in live, OwnerOf[a[1]] = RunOf[p] PROVE FALSE
        BY DEF WorkersOf
      <4>1. a[1] \in Mine(p)
        BY AttemptShape DEF Mine, TasksOf
      <4> QED
        BY <2>2, <3>1, <4>1, LiveIsOwned DEF AnyLive
    <3>3. WorkersOf(RunOf[p])' = {}
      BY <1>0, <3>2 DEF WorkersOf
    <3>4. verdict[p] = "completed" => \A t \in Mine(p) : status[t] = "done"
      BY DEF CleanOK, CleanOf
    <3> QED
      BY <1>0, <3>1, <3>3, <3>4 DEF CleanOf, Mine
  <2> QED
    BY <2>1, <2>2
<1>3. CASE ReapAtLast(p)
  <2> SUFFICES ASSUME verdict[p] = "completed" PROVE CleanOf(p)'
    BY <1>3 DEF ReapAtLast, CleanOf
  <2>1. /\ pc[p] = "reread" /\ pc'[p] = "reap" /\ pass'[p] = 3
        /\ reaping'[p] = {t \in Mine(p) : status[t] # "running"}
    BY <1>3 DEF ReapAtLast, ReadStatuses
  <2>2. (\A t \in Mine(p) : status[t] = "done") /\ WorkersOf(RunOf[p]) = {}
    BY <2>1 DEF CleanOK, CleanOf
  <2>3. WorkersOf(RunOf[p])' = {}
    BY <1>0, <2>2 DEF WorkersOf
  <2>4. reaping'[p] = Mine(p)
    BY <2>1, <2>2
  <2>5. \A a \in HeldBy(RunOf[p])' : a[1] \in Mine(p)
    BY <1>0, AttemptShape DEF HeldBy, RunningRecords, Mine, TasksOf
  <2> QED
    BY <1>0, <2>1, <2>2, <2>3, <2>4, <2>5 DEF CleanOf, Mine
<1>4. CASE Commit(p)
  BY <1>4 DEF Commit, Forget, CleanOf
<1> QED
  BY <1>1, <1>2, <1>3, <1>4 DEF Conclude

\* A controller with the verdict in hand goes on to commit it, or drops it.
LEMMA OwnClean ==
    ASSUME Calm, DispatchInv, DispatchInv', NewestOK, CreditOK, CleanOK, [Next]_vars,
           NEW p \in Actors, Tick(p)
    PROVE  CleanOf(p)'
<1> USE DEF DispatchInv, DispatchTypeOK, FleetTypeOK, fleetVars, boardVars, localVars, Goto
<1>1. CASE Reap(p)
  BY <1>1, ReapClean
<1>2. CASE Conclude(p)
  BY <1>2, ConcludeClean
<1>3. CASE TickBegin(p) \/ Sweep(p) \/ Reserve(p) \/ DispatchOnce(p)
  <2>1. UNCHANGED verdict
    BY <1>3 DEF TickBegin, Sweep, SweepIdentity, SweepJudge, SweepSettle, SweepReclaim,
       SweepCharge, SweepClose, SweepDone, Reserve, DispatchOnce, DispatchEnter, DispatchLeave,
       AfterDispatch, DispatchClaim, DispatchReclaim, LaunchRefused, Launch, LaunchFails,
       RecordRun, TakeLease
  <2>2. pc[p] \notin {"verdict", "reread", "reap", "release", "commit"}
    BY <1>3 DEF TickBegin, Sweep, SweepIdentity, SweepJudge, SweepSettle, SweepReclaim,
       SweepCharge, SweepClose, SweepDone, Reserve, DispatchOnce, DispatchEnter, DispatchLeave,
       DispatchClaim, DispatchReclaim, LaunchRefused, Launch, LaunchFails,
       RecordRun, TakeLease
  <2>3. verdict[p] # "completed"
    BY <2>2 DEF CleanOK, CleanOf
  <2> QED
    BY <2>1, <2>3 DEF CleanOf
<1> QED
  BY <1>1, <1>2, <1>3 DEF Tick

\* Nobody acts for a run that is completed.
LEMMA NoTickOnceCompleted ==
    ASSUME Calm, DispatchTypeOK, CleanOK, NEW p \in Actors, Tick(p)
    PROVE  run[RunOf[p]] # "completed"
<1> SUFFICES ASSUME run[RunOf[p]] = "completed" PROVE FALSE
  OBVIOUS
<1>1. RunOf[p] \in Runs /\ pc[p] = "idle"
  BY DispatchAssumption DEF CleanOK, CleanRun, Actors
<1>2. TickBegin(p)
  BY <1>1 DEF Tick, Reap, ReapRead, ReapRelease, BeginDispatch, SkipDispatch, ReapOver,
     Sweep, SweepIdentity, SweepJudge, SweepSettle, SweepReclaim,
     SweepCharge, SweepClose, SweepDone, Reserve, DispatchOnce, DispatchEnter, DispatchLeave,
     DispatchClaim, DispatchReclaim, LaunchRefused, Launch, LaunchFails,
     RecordRun, TakeLease, Conclude, ReadEvidence, CheckLive, ReapAtLast, Commit
<1> QED
  BY <1>2 DEF TickBegin, Polls, TerminalState, FinalState

\* A step of a tick keeps completed runs clean, and completes only clean ones.
LEMMA TickCleanRun ==
    ASSUME Calm, DispatchInv, DispatchInv', NewestOK, CreditOK, CleanOK, [Next]_vars,
           NEW p \in Actors, Tick(p), NEW r \in Runs
    PROVE  CleanRun(r)'
<1> USE DEF DispatchInv, DispatchTypeOK, FleetTypeOK
<1> SUFFICES ASSUME run'[r] = "completed" PROVE CleanRun(r)'
  BY DEF CleanRun
<1>1. Within(p)
  BY StaysWithin
<1>2. CASE r # RunOf[p]
  <2>1. run[r] = "completed"
    BY <1>1, <1>2 DEF Within
  <2>2. /\ \A t \in TasksOf(r) : status[t] = "done"
        /\ WorkersOf(r) = {} /\ HeldBy(r) = {}
        /\ \A q \in Actors : RunOf[q] = r => pc[q] = "idle"
    BY <2>1 DEF CleanOK, CleanRun
  <2>3. \A t \in TasksOf(r) : status'[t] = "done"
    <3> SUFFICES ASSUME NEW t \in TasksOf(r) PROVE status'[t] = "done"
      OBVIOUS
    <3>1. t \in Tasks /\ status[t] = "done"
      BY <2>2 DEF TasksOf
    <3> QED
      BY <3>1, DoneStep
  <2>4. \A a \in Attempts : OwnerOf[a[1]] = r =>
           /\ a \in live' => a \in live
           /\ a \in lease' => a \in lease
           /\ rec'[a] = "running" => rec[a] = "running"
    BY <1>1, <1>2 DEF Within
  <2>5. live' \subseteq Attempts /\ lease' \subseteq Attempts
    OBVIOUS
  <2>6. \A a \in WorkersOf(r)' : a \in WorkersOf(r)
    BY <2>4, <2>5 DEF WorkersOf
  <2>7. \A a \in HeldBy(r)' : a \in HeldBy(r)
    BY <2>4, <2>5 DEF HeldBy, RunningRecords
  <2>8. \A q \in Actors : RunOf[q] = r => pc'[q] = "idle"
    BY <1>1, <1>2, <2>2 DEF Within
  <2> QED
    BY <2>2, <2>3, <2>6, <2>7, <2>8 DEF CleanRun, TasksOf
<1>3. CASE r = RunOf[p]
  <2>1. run[r] # "completed"
    BY <1>3, NoTickOnceCompleted
  <2>2. Commit(p)
    BY <1>1, <2>1 DEF Within
  <2>3. /\ pc[p] = "commit" /\ pc'[p] = "idle" /\ UNCHANGED fleetVars
        /\ run'[r] = SafeSet(run[r], verdict[p])
    BY <1>3, <2>2 DEF Commit, Forget, Goto
  <2>4. verdict[p] = "completed"
    BY <2>1, <2>3 DEF SafeSet
  <2>5. reaping[p] = {}
    BY <2>3 DEF SnapOK
  <2>6. (\A t \in TasksOf(r) : status[t] = "done") /\ WorkersOf(r) = {} /\ HeldBy(r) = {}
    BY <1>3, <2>3, <2>4, <2>5 DEF CleanOK, CleanOf, Mine
  <2>7. WorkersOf(r)' = {} /\ HeldBy(r)' = {} /\ \A t \in TasksOf(r) : status'[t] = "done"
    BY <2>3, <2>6 DEF WorkersOf, HeldBy, RunningRecords, fleetVars
  <2>8. \A q \in Actors : RunOf[q] = r => q = p
    BY <1>3, Alone
  <2> QED
    BY <2>3, <2>7, <2>8 DEF CleanRun, TasksOf
<1> QED
  BY <1>2, <1>3

\* A step of a worker only empties what a completed run has to have emptied.
LEMMA QuietClean ==
    ASSUME Calm, DispatchInv, CleanOK, [Next]_vars, live' \subseteq live,
           UNCHANGED <<rec, lease, run, pc, verdict, pass, reaping, cur>>
    PROVE  CleanOK'
<1> USE DEF DispatchInv, DispatchTypeOK, FleetTypeOK
<1>1. \A r : WorkersOf(r)' \subseteq WorkersOf(r)
  BY DEF WorkersOf
<1>2. \A r : HeldBy(r)' = HeldBy(r)
  BY DEF HeldBy, RunningRecords
<1>3. \A t \in Tasks : status[t] = "done" => status'[t] = "done"
  BY DoneStep
<1>4. ASSUME NEW p \in Actors PROVE CleanOf(p)'
  <2> SUFFICES ASSUME verdict[p] = "completed" PROVE CleanOf(p)'
    BY DEF CleanOf
  <2>1. CleanOf(p)
    BY DEF CleanOK
  <2>2. \A t \in Mine(p) : status'[t] = "done"
    BY <1>3, <2>1 DEF CleanOf, Mine, TasksOf
  <2>3. WorkersOf(RunOf[p])' \subseteq WorkersOf(RunOf[p]) /\ HeldBy(RunOf[p])' = HeldBy(RunOf[p])
    BY <1>1, <1>2
  <2>4. RunningRecords' = RunningRecords
    BY DEF RunningRecords
  <2> QED
    BY <2>1, <2>2, <2>3, <2>4 DEF CleanOf, Mine
<1>5. ASSUME NEW r \in Runs PROVE CleanRun(r)'
  <2> SUFFICES ASSUME run[r] = "completed" PROVE CleanRun(r)'
    BY DEF CleanRun
  <2>1. CleanRun(r)
    BY DEF CleanOK
  <2>2. \A t \in TasksOf(r) : status'[t] = "done"
    BY <1>3, <2>1 DEF CleanRun, TasksOf
  <2>3. WorkersOf(r)' \subseteq WorkersOf(r) /\ HeldBy(r)' = HeldBy(r)
    BY <1>1, <1>2
  <2> QED
    BY <2>1, <2>2, <2>3 DEF CleanRun, TasksOf
<1> QED
  BY <1>4, <1>5 DEF CleanOK

\* A step of a tick keeps CleanOK.
LEMMA TickClean ==
    ASSUME Calm, DispatchInv, DispatchInv', NewestOK, CreditOK, CleanOK, [Next]_vars,
           NEW p \in Actors, Tick(p)
    PROVE  CleanOK'
<1>1. ASSUME NEW q \in Actors PROVE CleanOf(q)'
  BY OwnClean, OthersClean, StaysWithin
<1> QED
  BY <1>1, TickCleanRun DEF CleanOK

-----------------------------------------------------------------------------
(* The theorems about a calm fleet.                                        *)

\* The invariant of a calm fleet.
CalmInv == NewestOK /\ ChargedOK /\ CreditOK /\ WaveOK /\ CleanOK

\* It holds initially.
LEMMA CalmInit == Init => CalmInv
BY InitNewest, InitCharged, InitCredit, InitWave, InitClean DEF CalmInv

\* Every step of a tick keeps CreditOK,
LEMMA CalmCredit ==
    ASSUME Calm, DispatchInv, CalmInv, NEW p \in Actors, Tick(p)
    PROVE  CreditOK'
<1> USE DEF CalmInv
<1>1. CASE TickBegin(p) \/ Reap(p) \/ Sweep(p)
  BY <1>1, SparesReap, SparesSweep, SparesCredit
<1>2. CASE \/ Reserve(p) \/ DispatchEnter(p) \/ DispatchLeave(p)
           \/ \E t \in Tasks : DispatchReclaim(p, t)
           \/ LaunchRefused(p) \/ LaunchFails(p) \/ Conclude(p)
  BY <1>2, SparesRest, SparesCredit
<1>3. CASE (\E t \in Tasks : DispatchClaim(p, t)) \/ Launch(p) \/ RecordRun(p) \/ TakeLease(p)
  BY <1>3, ClaimCredit, LaunchCredit, RecordCredit
<1> QED
  BY <1>1, <1>2, <1>3 DEF Tick, DispatchOnce

\* and WaveOK.
LEMMA CalmWave ==
    ASSUME Calm, DispatchInv, CalmInv, NEW p \in Actors, Tick(p)
    PROVE  WaveOK'
<1> USE DEF CalmInv
<1>t. DispatchTypeOK
  BY DEF DispatchInv
<1>1. CASE \/ TickBegin(p) \/ Sweep(p) \/ Conclude(p)
           \/ \E t \in Tasks : ReapRead(p, t) \/ DispatchReclaim(p, t)
           \/ ReapRelease(p) \/ SkipDispatch(p)
           \/ DispatchEnter(p) \/ DispatchLeave(p)
           \/ LaunchRefused(p) \/ LaunchFails(p) \/ RecordRun(p)
  BY <1>t, <1>1, TickKeeps, KeepsWave
<1>2. CASE BeginDispatch(p) \/ Launch(p)
  BY <1>2, BeginWave, LaunchWave
<1>3. CASE Reserve(p) \/ TakeLease(p) \/ \E t \in Tasks : DispatchClaim(p, t)
  BY <1>t, <1>3, ReserveWave, LeaseWave, ClaimWave
<1> QED
  BY <1>1, <1>2, <1>3 DEF Tick, Reap, DispatchOnce

\* Every step keeps the invariant.
LEMMA CalmNext ==
    ASSUME Calm, DispatchInv, DispatchInv', CalmInv, [Next]_vars
    PROVE  CalmInv'
<1>1. NewestOK' /\ ChargedOK'
  BY ChargeNext DEF CalmInv
<1>2. CASE \E p \in Actors : Tick(p)
  BY <1>1, <1>2, CalmCredit, CalmWave, TickClean DEF CalmInv
<1>3. CASE \E p \in Controllers : Crash(p)
  BY <1>3 DEF Crash, Calm, DispatchInv, DispatchTypeOK
<1>4. CASE WorkerStep
  <2>1. CreditOK' /\ WaveOK'
    BY <1>4, WorkerCredit, WorkerWave DEF CalmInv, DispatchInv
  <2>2. live' \subseteq live /\ UNCHANGED <<rec, lease, run, pc, verdict, pass, reaping, cur>>
    BY <1>4 DEF WorkerStep, Worker, WorkerReports, WorkerExits, localVars
  <2> QED
    BY <1>1, <2>1, <2>2, QuietClean DEF CalmInv
<1>5. CASE UNCHANGED vars \/ Terminated
  <2>1. UNCHANGED <<fleetVars, localVars, run>>
    BY <1>5 DEF Terminated, vars
  <2>2. CreditOK'
    BY <2>1 DEF CalmInv, CreditOK, LiveWorkerHoldsCredit, InFlight, Handed, MaySpawn,
       fleetVars, localVars
  <2>3. WaveOK'
    BY <2>1 DEF CalmInv, WaveOK, WaveOf, WorkersOf, fleetVars, localVars
  <2>4. CleanOK'
    BY <2>1, QuietClean DEF CalmInv, fleetVars, localVars
  <2> QED
    BY <1>1, <2>2, <2>3, <2>4 DEF CalmInv
<1> QED
  BY <1>2, <1>3, <1>4, <1>5 DEF Next

\* A calm fleet keeps it for ever.
LEMMA CalmHolds == ASSUME Calm PROVE Spec => [](DispatchInv /\ CalmInv)
<1>1. Init => CalmInv
  BY CalmInit
<1>2. DispatchInv /\ DispatchInv' /\ CalmInv /\ [Next]_vars => CalmInv'
  BY CalmNext
<1> QED
  BY <1>1, <1>2, InvariantHolds, PTL DEF Spec

\* In a calm fleet a live worker has a running row and a credit from the end of
\* its spawn to its exit (_reconcile_leases, leases.py).
THEOREM CreditIsHeld == ASSUME Calm PROVE Spec => []LiveWorkerHoldsCredit
<1>1. DispatchInv /\ CalmInv => LiveWorkerHoldsCredit
  BY DEF CalmInv, CreditOK
<1> QED
  BY <1>1, CalmHolds, PTL

\* In a calm fleet no run has more live workers than its wave, those that have
\* reported and not exited included (_active_wave_count, pre_reserve_ready).
THEOREM WaveIsRespected == ASSUME Calm PROVE Spec => []WaveRespected
<1>1. DispatchInv /\ CalmInv => WaveRespected
  <2> SUFFICES ASSUME DispatchInv, CalmInv, NEW r \in Runs
               PROVE  Cardinality(WorkersOf(r)) <= Wave
    BY DEF WaveRespected, WorkersOf
  <2>1. CASE \E p \in Controllers : RunOf[p] = r
    BY <2>1, Alone DEF CalmInv, WaveOK, WaveOf
  <2>2. CASE ~\E p \in Controllers : RunOf[p] = r
    <3>1. WorkersOf(r) = {}
      BY <2>2 DEF CalmInv, CreditOK, WorkersOf
    <3> QED
      BY <3>1, FS_EmptySet, DispatchAssumption
  <2> QED
    BY <2>1, <2>2
<1> QED
  BY <1>1, CalmHolds, PTL

\* In a calm fleet a completed run has its tasks done and neither a process nor a
\* row nor a credit left, and this stays so (tick, _reconcile_from_evidence).
THEOREM CompletionIsClean == ASSUME Calm PROVE Spec => []CompletedRunIsClean
<1>1. DispatchInv /\ CalmInv => CompletedRunIsClean
  BY DEF CalmInv, CleanOK, CleanRun, CompletedRunIsClean, WorkersOf, HeldBy
<1> QED
  BY <1>1, CalmHolds, PTL
=============================================================================
