--------------------------- MODULE AdmissionProofs ---------------------------
(* Proofs about Delegation and Admission, for any number of sessions, tasks,      *)
(* children and admitters and for all limits.  First the leases and who answers    *)
(* for them, then the budgets, then the gates and the ceiling of the admitters.    *)
EXTENDS Admission, FiniteSetTheorems, TLAPS

Starting == {c \in Child : doing[c] = "starting"}

\* The children that have, or are about to get, a lease: all of them, and those of a task.
Kids      == active \cup Starting
KidsOf(t) == Kids \cap Owned(t)

Pending(s) == IF call[s] = "reserve" THEN asked[s] - left[s] ELSE 0

\* Attempts at a task follow each other, and each has its worker lease while it lives.
SessionsOK ==
    /\ live \subseteq workers
    /\ \A s, d \in workers : TaskOf[s] = TaskOf[d] => s = d
    /\ \A s \in Session : s \notin live => call[s] = "none"
    /\ \A s \in Session : call[s] = "reserve" => left[s] < asked[s]
    /\ \A s \in Session : call[s] \in {"reserve", "run"} => left[s] <= reserve[TaskOf[s]]

\* A child that starts or runs has a session that waits for it; who runs is counted.
ChildrenOK ==
    /\ \A c \in Child : doing[c] = "unborn" <=> parent[c] = none
    /\ \A c \in Child : doing[c] \in {"starting", "runs"}
                            => parent[c] \in live /\ call[parent[c]] = "run"
    /\ \A c \in active : doing[c] \in {"runs", "gone"}
    /\ RunningChildIsCounted

\* Somebody answers for each lease.
LeasesOK ==
    /\ \A t \in Task : reserve[t] > 0 => \E s \in workers : TaskOf[s] = t
    /\ \A c \in active : \E s \in workers : TaskOf[s] = TaskOf[parent[c]]

\* One worker keeps to the budget, with what it is about to reserve; all of them do while
\* nobody races.
BudgetsOK ==
    /\ IsFiniteSet(workers) /\ IsFiniteSet(Reservations) /\ IsFiniteSet(Kids)
    /\ \A t \in Task : reserve[t] + Cardinality(KidsOf(t)) <= MaxChildren
    /\ \A s \in Session :
           reserve[TaskOf[s]] + Cardinality(KidsOf(TaskOf[s])) + Pending(s) <= MaxChildren
    /\ ~raced =>
           /\ \A s, d \in Session : call[s] = "reserve" /\ call[d] = "reserve" => s = d
           /\ Cardinality(Reservations) + Cardinality(Kids) <= MaxChildren
           /\ \A s \in Session :
                  Cardinality(Reservations) + Cardinality(Kids) + Pending(s) <= MaxChildren

LeaseInv == DelegationTypeOK /\ SessionsOK /\ ChildrenOK /\ LeasesOK

DelegationInv == LeaseInv /\ BudgetsOK

\* What Admission lets happen to the leases.
DelegationStep == (\E s \in Session : Start(s)) \/ Delegating \/ UNCHANGED delegationVars
--------------------------------------------------------------------------------
(* Leases.                                                                        *)

LEMMA LeaseInit == DelegationInit => LeaseInv
<1> USE DelegationAssumption
<1> SUFFICES ASSUME DelegationInit PROVE LeaseInv OBVIOUS
<1>1. DelegationTypeOK
  <2>1. 0 \in 0 .. MaxAsk OBVIOUS
  <2>2. asked \in [Session -> 0 .. MaxAsk] /\ left \in [Session -> 0 .. MaxAsk]
    BY <2>1 DEF DelegationInit
  <2> QED BY <2>2 DEF DelegationInit, DelegationTypeOK
<1>2. SessionsOK BY DEF DelegationInit, SessionsOK
<1>3. ChildrenOK BY DEF DelegationInit, ChildrenOK, RunningChildIsCounted
<1>4. LeasesOK BY DEF DelegationInit, LeasesOK
<1> QED BY <1>1, <1>2, <1>3, <1>4 DEF LeaseInv

LEMMA LeaseStep == LeaseInv /\ DelegationStep => LeaseInv'
<1> SUFFICES ASSUME LeaseInv, DelegationStep PROVE LeaseInv' OBVIOUS
<1> USE DelegationAssumption DEF LeaseInv, DelegationTypeOK, SessionsOK, ChildrenOK, LeasesOK,
        RunningChildIsCounted, Owned, leases, sessions, children
<1>1. ASSUME NEW s \in Session, Start(s) PROVE LeaseInv'
  BY <1>1 DEF Start, Startable
<1>2. ASSUME NEW s \in Session, AskBudget(s) PROVE LeaseInv'
  BY <1>2 DEF AskBudget
<1>3. ASSUME NEW s \in Session, Reserve(s) PROVE LeaseInv'
  BY <1>3 DEF Reserve
<1>4. ASSUME NEW s \in Session, NEW c \in Child, DropReservation(s, c) PROVE LeaseInv'
  BY <1>4 DEF DropReservation
<1>5. ASSUME NEW c \in Child, LeaseChild(c) PROVE LeaseInv'
  BY <1>5 DEF LeaseChild
<1>6. ASSUME NEW s \in Session, ChildNotStarted(s) PROVE LeaseInv'
  BY <1>6 DEF ChildNotStarted
<1>7. ASSUME NEW c \in Child, ChildStops(c) PROVE LeaseInv'
  BY <1>7 DEF ChildStops
<1>8. ASSUME NEW s \in Session, CallReturns(s) PROVE LeaseInv'
  BY <1>8 DEF CallReturns
<1>9. ASSUME NEW s \in Session, SessionEnds(s) PROVE LeaseInv'
  BY <1>9 DEF SessionEnds, ReleaseOwner, Over
<1>10. ASSUME NEW s \in Session, SessionDies(s) PROVE LeaseInv'
  BY <1>10 DEF SessionDies, Over
<1>11. ASSUME NEW s \in Session, Settle(s) PROVE LeaseInv'
  BY <1>11 DEF Settle, ReleaseOwner
<1>12. CASE UNCHANGED delegationVars
  BY <1>12 DEF delegationVars
<1> QED
  BY <1>1, <1>2, <1>3, <1>4, <1>5, <1>6, <1>7, <1>8, <1>9, <1>10, <1>11, <1>12
  DEF DelegationStep, Delegating
--------------------------------------------------------------------------------
(* Budgets.                                                                       *)

\* A task has no more reservations than all tasks together.
LEMMA TaskShare ==
    ASSUME DelegationTypeOK, IsFiniteSet(Reservations), NEW t \in Task
    PROVE  reserve[t] <= Cardinality(Reservations)
<1> DEFINE f == [i \in 1 .. reserve[t] |-> <<t, i>>]
<1>1. reserve[t] \in Nat BY DEF DelegationTypeOK
<1>2. f \in [1 .. reserve[t] -> Reservations]
  <2> SUFFICES ASSUME NEW i \in 1 .. reserve[t] PROVE <<t, i>> \in Reservations OBVIOUS
  <2> QED BY DEF Reservations
<1>3. \A i, j \in 1 .. reserve[t] : f[i] = f[j] => i = j OBVIOUS
<1>4. f \in Injection(1 .. reserve[t], Reservations)
  BY <1>2, <1>3 DEF Injection, IsInjective
<1>5. Cardinality(1 .. reserve[t]) <= Cardinality(Reservations) BY <1>4, FS_Injection
<1>6. Cardinality(1 .. reserve[t]) = reserve[t] BY <1>1, FS_Interval
<1> QED BY <1>5, <1>6

\* One more reservation is one more lease.
LEMMA AddReservation ==
    ASSUME DelegationTypeOK, IsFiniteSet(Reservations), NEW t \in Task,
           reserve' = [reserve EXCEPT ![t] = @ + 1]
    PROVE  /\ IsFiniteSet(Reservations')
           /\ Cardinality(Reservations') = Cardinality(Reservations) + 1
<1>1. reserve \in [Task -> Nat] BY DEF DelegationTypeOK
<1>2. <<t, reserve[t] + 1>> \notin Reservations BY <1>1 DEF Reservations
<1>3. Reservations' = Reservations \cup {<<t, reserve[t] + 1>>}
  <2> SUFFICES ASSUME NEW u, NEW i
               PROVE  <<u, i>> \in Reservations' <=>
                          <<u, i>> \in Reservations \/ <<u, i>> = <<t, reserve[t] + 1>>
    BY DEF Reservations
  <2> QED BY <1>1 DEF Reservations
<1> QED BY <1>2, <1>3, FS_AddElement, FS_CardinalityType

\* One reservation less is one lease less.
LEMMA DropReservations ==
    ASSUME DelegationTypeOK, IsFiniteSet(Reservations), NEW t \in Task, reserve[t] > 0,
           reserve' = [reserve EXCEPT ![t] = @ - 1]
    PROVE  /\ IsFiniteSet(Reservations')
           /\ Cardinality(Reservations') = Cardinality(Reservations) - 1
<1>1. reserve \in [Task -> Nat] BY DEF DelegationTypeOK
<1>2. <<t, reserve[t]>> \in Reservations BY <1>1 DEF Reservations
<1>3. Reservations' = Reservations \ {<<t, reserve[t]>>}
  <2> SUFFICES ASSUME NEW u, NEW i
               PROVE  <<u, i>> \in Reservations' <=>
                          <<u, i>> \in Reservations /\ <<u, i>> # <<t, reserve[t]>>
    BY DEF Reservations
  <2> QED BY <1>1 DEF Reservations
<1> QED BY <1>2, <1>3, FS_RemoveElement, FS_CardinalityType

\* The reservations of a task that are dropped leave those of the others.
LEMMA ClearReservations ==
    ASSUME DelegationTypeOK, IsFiniteSet(Reservations), NEW t \in Task,
           reserve' = [reserve EXCEPT ![t] = 0]
    PROVE  /\ IsFiniteSet(Reservations')
           /\ Cardinality(Reservations') <= Cardinality(Reservations)
<1>1. reserve \in [Task -> Nat] BY DEF DelegationTypeOK
<1>2. Reservations' \subseteq Reservations BY <1>1 DEF Reservations
<1> QED BY <1>2, FS_Subset

\* Fewer children need fewer places.
LEMMA FewerKids ==
    ASSUME IsFiniteSet(Kids), Kids' \subseteq Kids, parent' = parent
    PROVE  /\ IsFiniteSet(Kids') /\ Cardinality(Kids') <= Cardinality(Kids)
           /\ Cardinality(Kids) \in Nat /\ Cardinality(Kids') \in Nat
           /\ \A t \in Task : /\ Cardinality(KidsOf(t)') <= Cardinality(KidsOf(t))
                              /\ Cardinality(KidsOf(t)) \in Nat
                              /\ Cardinality(KidsOf(t)') \in Nat
<1>1. IsFiniteSet(Kids') /\ Cardinality(Kids') <= Cardinality(Kids) BY FS_Subset
<1>2. ASSUME NEW t \in Task
      PROVE  /\ Cardinality(KidsOf(t)') <= Cardinality(KidsOf(t))
             /\ Cardinality(KidsOf(t)) \in Nat /\ Cardinality(KidsOf(t)') \in Nat
  <2>1. KidsOf(t)' \subseteq KidsOf(t) BY DEF KidsOf, Owned
  <2>2. IsFiniteSet(KidsOf(t)) BY FS_Subset DEF KidsOf
  <2> QED BY <2>1, <2>2, FS_Subset, FS_CardinalityType
<1> QED BY <1>1, <1>2, FS_CardinalityType

LEMMA BudgetInit == DelegationInit => BudgetsOK
<1> SUFFICES ASSUME DelegationInit PROVE BudgetsOK OBVIOUS
<1>1. Reservations = {} BY DEF DelegationInit, Reservations
<1>2. Kids = {} BY DEF DelegationInit, Kids, Starting
<1>3. \A t : KidsOf(t) = {} BY <1>2 DEF KidsOf
<1>4. \A s \in Session : Pending(s) = 0 BY DEF DelegationInit, Pending
<1> QED
  BY <1>1, <1>2, <1>3, <1>4, DelegationAssumption, FS_EmptySet DEF DelegationInit, BudgetsOK

\* A step that takes no place keeps every budget.
LEMMA CalmStep ==
    ASSUME LeaseInv, BudgetsOK, IsFiniteSet(workers'), IsFiniteSet(Reservations'),
           Cardinality(Reservations') <= Cardinality(Reservations),
           \A t \in Task : reserve'[t] \in Nat /\ reserve'[t] <= reserve[t],
           Kids' \subseteq Kids, parent' = parent, raced' = raced,
           \A s \in Session : call'[s] = "reserve" =>
                call[s] = "reserve" /\ asked'[s] = asked[s] /\ left'[s] = left[s]
    PROVE  BudgetsOK'
<1> USE DelegationAssumption
<1>1. /\ IsFiniteSet(Kids') /\ Cardinality(Kids') <= Cardinality(Kids)
      /\ Cardinality(Kids) \in Nat /\ Cardinality(Kids') \in Nat
      /\ \A t \in Task : /\ Cardinality(KidsOf(t)') <= Cardinality(KidsOf(t))
                         /\ Cardinality(KidsOf(t)) \in Nat
                         /\ Cardinality(KidsOf(t)') \in Nat
  BY FewerKids DEF BudgetsOK
<1>2. Cardinality(Reservations) \in Nat /\ Cardinality(Reservations') \in Nat
  BY FS_CardinalityType DEF BudgetsOK
<1>3. ASSUME NEW s \in Session
      PROVE  Pending(s)' <= Pending(s) /\ Pending(s) \in Nat /\ Pending(s)' \in Nat
  <2>1. asked[s] \in Nat /\ left[s] \in Nat /\ (call[s] = "reserve" => left[s] < asked[s])
    BY DEF LeaseInv, DelegationTypeOK, SessionsOK
  <2> QED BY <2>1 DEF Pending
<1>4. \A t \in Task : reserve[t] \in Nat BY DEF LeaseInv, DelegationTypeOK
<1>5. ASSUME NEW t \in Task PROVE reserve'[t] + Cardinality(KidsOf(t)') <= MaxChildren
  <2>1. reserve[t] + Cardinality(KidsOf(t)) <= MaxChildren BY DEF BudgetsOK
  <2> QED BY <2>1, <1>1, <1>4
<1>6. ASSUME NEW s \in Session
      PROVE  reserve'[TaskOf[s]] + Cardinality(KidsOf(TaskOf[s])') + Pending(s)' <= MaxChildren
  <2>1. reserve[TaskOf[s]] + Cardinality(KidsOf(TaskOf[s])) + Pending(s) <= MaxChildren
    BY DEF BudgetsOK
  <2>2. TaskOf[s] \in Task OBVIOUS
  <2> QED BY <2>1, <2>2, <1>1, <1>3, <1>4
<1>7. ASSUME ~raced
      PROVE  /\ \A s, d \in Session : call'[s] = "reserve" /\ call'[d] = "reserve" => s = d
             /\ Cardinality(Reservations') + Cardinality(Kids') <= MaxChildren
             /\ \A s \in Session : Cardinality(Reservations') + Cardinality(Kids')
                                       + Pending(s)' <= MaxChildren
  <2>1. \A s, d \in Session : call[s] = "reserve" /\ call[d] = "reserve" => s = d
    BY <1>7 DEF BudgetsOK
  <2>2. Cardinality(Reservations) + Cardinality(Kids) <= MaxChildren BY <1>7 DEF BudgetsOK
  <2>3. ASSUME NEW s \in Session
        PROVE  Cardinality(Reservations') + Cardinality(Kids') + Pending(s)' <= MaxChildren
    <3>1. Cardinality(Reservations) + Cardinality(Kids) + Pending(s) <= MaxChildren
      BY <1>7 DEF BudgetsOK
    <3> QED BY <3>1, <1>1, <1>2, <1>3
  <2> QED BY <2>1, <2>2, <2>3, <1>1, <1>2
<1> QED BY <1>1, <1>5, <1>6, <1>7 DEF BudgetsOK

\* The budget is read: what it has room for is pending.
LEMMA AskStep ==
    ASSUME LeaseInv, BudgetsOK, NEW s \in Session, AskBudget(s)
    PROVE  BudgetsOK'
<1> USE DelegationAssumption DEF LeaseInv, DelegationTypeOK
<1>1. UNCHANGED <<workers, reserve, active, doing, parent>>
  BY DEF AskBudget, leases, children
<1>2. Reservations' = Reservations /\ Kids' = Kids /\ \A t : KidsOf(t)' = KidsOf(t)
  BY <1>1 DEF Reservations, Kids, Starting, KidsOf, Owned
<1>3. PICK n \in 1 .. MaxAsk : Fits(n) /\ asked' = [asked EXCEPT ![s] = n] BY DEF AskBudget
<1>4. Pending(s)' = n /\ \A d \in Session \ {s} : Pending(d)' = Pending(d)
  BY <1>3 DEF AskBudget, Pending
<1>5. /\ IsFiniteSet(active) /\ Cardinality(active) \in Nat /\ Cardinality(Reservations) \in Nat
      /\ IsFiniteSet(Kids) /\ IsFiniteSet(Reservations) /\ Cardinality(Kids) \in Nat
  <2>1. IsFiniteSet(Kids) /\ IsFiniteSet(Reservations) BY DEF BudgetsOK
  <2>2. active \subseteq Kids BY DEF Kids
  <2> QED BY <2>1, <2>2, FS_Subset, FS_CardinalityType
<1>6. Cardinality(Reservations) + Cardinality(active) + n <= MaxChildren
  BY <1>3 DEF Fits, SubagentCredits
<1>7. reserve[TaskOf[s]] + Cardinality(KidsOf(TaskOf[s])) + n <= MaxChildren
  <2>1. TaskOf[s] \in Task /\ reserve[TaskOf[s]] \in Nat OBVIOUS
  <2>2. reserve[TaskOf[s]] <= Cardinality(Reservations) BY <2>1, <1>5, TaskShare
  <2>3. KidsOf(TaskOf[s]) \subseteq active
    BY DEF AskBudget, KidsOf, Kids, Starting, Owned, ChildrenOK, SessionsOK
  <2>4. /\ Cardinality(KidsOf(TaskOf[s])) <= Cardinality(active)
        /\ Cardinality(KidsOf(TaskOf[s])) \in Nat
    BY <2>3, <1>5, FS_Subset, FS_CardinalityType
  <2> QED BY <2>1, <2>2, <2>4, <1>5, <1>6
<1>8. ASSUME ~raced'
      PROVE  /\ \A d, e \in Session : call'[d] = "reserve" /\ call'[e] = "reserve" => d = e
             /\ \A d \in Session : Cardinality(Reservations) + Cardinality(Kids)
                                       + Pending(d)' <= MaxChildren
             /\ Cardinality(Reservations) + Cardinality(Kids) <= MaxChildren
  <2>1. ~raced /\ Starting = {} /\ \A d \in Session : call[d] # "reserve"
    BY <1>8 DEF AskBudget, Starting
  <2>2. Kids = active BY <2>1 DEF Kids
  <2>3. \A d \in Session \ {s} : Pending(d)' = 0 BY <1>4, <2>1 DEF Pending
  <2>4. \A d \in Session \ {s} : call'[d] # "reserve" BY <2>1 DEF AskBudget
  <2> QED BY <2>2, <2>3, <2>4, <1>4, <1>5, <1>6
<1>9. ASSUME NEW d \in Session
      PROVE  reserve'[TaskOf[d]] + Cardinality(KidsOf(TaskOf[d])') + Pending(d)' <= MaxChildren
  <2>1. CASE d = s BY <2>1, <1>1, <1>2, <1>4, <1>7
  <2>2. CASE d # s BY <2>2, <1>1, <1>2, <1>4 DEF BudgetsOK
  <2> QED BY <2>1, <2>2
<1> QED BY <1>1, <1>2, <1>8, <1>9 DEF BudgetsOK

\* A reservation is written: what was pending is taken.
LEMMA ReserveStep ==
    ASSUME LeaseInv, BudgetsOK, NEW s \in Session, Reserve(s)
    PROVE  BudgetsOK'
<1> USE DelegationAssumption DEF LeaseInv, DelegationTypeOK
<1> DEFINE t == TaskOf[s]
<1>1. UNCHANGED <<workers, active, doing, parent, raced, asked>> BY DEF Reserve, children
<1>2. Kids' = Kids /\ \A u : KidsOf(u)' = KidsOf(u)
  BY <1>1 DEF Kids, Starting, KidsOf, Owned
<1>3. t \in Task /\ reserve' = [reserve EXCEPT ![t] = @ + 1] BY DEF Reserve
<1>4. /\ IsFiniteSet(Reservations') /\ Cardinality(Reservations') = Cardinality(Reservations) + 1
      /\ Cardinality(Reservations) \in Nat
  BY <1>3, AddReservation, FS_CardinalityType DEF BudgetsOK
<1>5. Cardinality(Kids) \in Nat BY FS_CardinalityType DEF BudgetsOK
<1>6. \A u \in Task : Cardinality(KidsOf(u)) \in Nat
  BY FS_Subset, FS_CardinalityType DEF BudgetsOK, KidsOf
<1>7. /\ Pending(s) \in Nat /\ Pending(s)' = Pending(s) - 1
      /\ \A d \in Session \ {s} : Pending(d)' = Pending(d) /\ call'[d] = call[d]
  BY <1>1 DEF Reserve, Pending, SessionsOK
<1>8. reserve[t] + Cardinality(KidsOf(t)) + Pending(s) <= MaxChildren BY DEF BudgetsOK
<1>9. \A d \in Session \ {s} : TaskOf[d] = t => call[d] = "none"
  BY DEF Reserve, SessionsOK
<1>10. ASSUME NEW u \in Task PROVE reserve'[u] + Cardinality(KidsOf(u)') <= MaxChildren
  <2>1. CASE u = t BY <2>1, <1>1, <1>2, <1>3, <1>6, <1>7, <1>8 DEF Reserve, SessionsOK, Pending
  <2>2. CASE u # t BY <2>2, <1>2, <1>3 DEF BudgetsOK
  <2> QED BY <2>1, <2>2
<1>11. ASSUME NEW d \in Session
       PROVE  reserve'[TaskOf[d]] + Cardinality(KidsOf(TaskOf[d])') + Pending(d)' <= MaxChildren
  <2>1. CASE d = s BY <2>1, <1>2, <1>3, <1>6, <1>7, <1>8
  <2>2. CASE d # s /\ TaskOf[d] = t
    <3>1. Pending(d)' = 0 BY <2>2, <1>7, <1>9 DEF Pending
    <3> QED BY <2>2, <3>1, <1>2, <1>3, <1>6, <1>10
  <2>3. CASE TaskOf[d] # t BY <2>3, <1>2, <1>3, <1>7 DEF BudgetsOK
  <2> QED BY <2>1, <2>2, <2>3
<1>12. ASSUME ~raced
       PROVE  /\ \A d, e \in Session : call'[d] = "reserve" /\ call'[e] = "reserve" => d = e
              /\ Cardinality(Reservations') + Cardinality(Kids') <= MaxChildren
              /\ \A d \in Session : Cardinality(Reservations') + Cardinality(Kids')
                                        + Pending(d)' <= MaxChildren
  <2>1. \A d \in Session \ {s} : call[d] # "reserve" BY <1>12 DEF BudgetsOK, Reserve
  <2>2. Cardinality(Reservations) + Cardinality(Kids) + Pending(s) <= MaxChildren
    BY <1>12 DEF BudgetsOK
  <2>3. \A d \in Session \ {s} : Pending(d)' = 0 BY <2>1, <1>7 DEF Pending
  <2>4. Pending(s)' \in Nat BY <1>1 DEF Reserve, Pending, SessionsOK
  <2> QED BY <2>1, <2>2, <2>3, <2>4, <1>2, <1>4, <1>5, <1>7
<1> QED BY <1>1, <1>2, <1>4, <1>10, <1>11, <1>12 DEF BudgetsOK

\* A child starts: it takes the place of a reservation of its task.
LEMMA DropStep ==
    ASSUME LeaseInv, BudgetsOK, NEW s \in Session, NEW c \in Child, DropReservation(s, c)
    PROVE  BudgetsOK'
<1> USE DelegationAssumption DEF LeaseInv, DelegationTypeOK
<1> DEFINE t == TaskOf[s]
<1>1. UNCHANGED <<workers, active, call, asked, raced>> BY DEF DropReservation
<1>2. t \in Task /\ reserve[t] > 0 /\ reserve' = [reserve EXCEPT ![t] = @ - 1]
  <2>1. reserve[t] > 0
    <3>1. s \in Session /\ left[s] > 0 /\ call[s] = "run" BY DEF DropReservation
    <3>2. left[s] \in Nat /\ reserve[TaskOf[s]] \in Nat OBVIOUS
    <3>3. left[s] <= reserve[TaskOf[s]] BY <3>1 DEF SessionsOK
    <3> QED BY <3>1, <3>2, <3>3
  <2>2. (IF reserve[t] > 0 THEN reserve[t] - 1 ELSE 0) = reserve[t] - 1 BY <2>1
  <2>3. reserve' = [reserve EXCEPT ![t] = IF reserve[t] > 0 THEN reserve[t] - 1 ELSE 0]
    BY DEF DropReservation
  <2> QED BY <2>1, <2>2, <2>3, Zenon
<1>3. /\ IsFiniteSet(Reservations') /\ Cardinality(Reservations') = Cardinality(Reservations) - 1
      /\ Cardinality(Reservations) \in Nat
  BY <1>2, DropReservations, FS_CardinalityType DEF BudgetsOK
<1>4. c \notin Kids /\ Kids' = Kids \cup {c}
  BY DEF DropReservation, Kids, Starting, ChildrenOK
<1>5. c \notin KidsOf(t) /\ KidsOf(t)' = KidsOf(t) \cup {c}
  BY <1>4 DEF DropReservation, KidsOf, Owned, ChildrenOK
<1>6. \A u \in Task \ {t} : KidsOf(u)' = KidsOf(u)
  BY <1>4 DEF DropReservation, KidsOf, Owned, ChildrenOK
<1>7. /\ IsFiniteSet(Kids') /\ Cardinality(Kids') = Cardinality(Kids) + 1
      /\ Cardinality(Kids) \in Nat
  BY <1>4, FS_AddElement, FS_CardinalityType DEF BudgetsOK
<1>8. \A u \in Task : IsFiniteSet(KidsOf(u)) /\ Cardinality(KidsOf(u)) \in Nat
  BY FS_Subset, FS_CardinalityType DEF BudgetsOK, KidsOf
<1>9. Cardinality(KidsOf(t)') = Cardinality(KidsOf(t)) + 1
  BY <1>2, <1>5, <1>8, FS_AddElement
<1>10. \A u \in Task : reserve'[u] + Cardinality(KidsOf(u)') = reserve[u] + Cardinality(KidsOf(u))
  BY <1>2, <1>6, <1>8, <1>9
<1>11. \A d \in Session : Pending(d)' = Pending(d) BY DEF DropReservation, Pending
<1>12. Cardinality(Reservations') + Cardinality(Kids') = Cardinality(Reservations) + Cardinality(Kids)
  BY <1>3, <1>7
<1>13. \A d \in Session : TaskOf[d] \in Task OBVIOUS
<1> QED BY <1>1, <1>3, <1>7, <1>10, <1>11, <1>12, <1>13 DEF BudgetsOK

LEMMA BudgetStep == DelegationInv /\ DelegationStep => BudgetsOK'
<1> SUFFICES ASSUME DelegationInv, DelegationStep PROVE BudgetsOK' OBVIOUS
<1> USE DelegationAssumption DEF DelegationInv
<1> DEFINE Same == Reservations' = Reservations /\ reserve' = reserve
<1>1. /\ LeaseInv /\ BudgetsOK /\ DelegationTypeOK /\ IsFiniteSet(Reservations)
      /\ Cardinality(Reservations) \in Nat /\ \A t \in Task : reserve[t] \in Nat
  BY FS_CardinalityType DEF LeaseInv, DelegationTypeOK, BudgetsOK
<1>2. \A s \in Session : /\ IsFiniteSet(workers \cup {s}) /\ IsFiniteSet(workers \ {s})
                         /\ IsFiniteSet(workers)
  BY FS_AddElement, FS_RemoveElement DEF BudgetsOK
<1>3. ASSUME reserve' = reserve PROVE Reservations' = Reservations
  BY <1>3 DEF Reservations
<1>4. ASSUME active' \subseteq active, doing' = doing PROVE Kids' \subseteq Kids
  BY <1>4 DEF Kids, Starting
<1>5. ASSUME NEW s \in Session, Start(s) PROVE BudgetsOK'
  <2>1. IsFiniteSet(workers') BY <1>2, <1>5 DEF Start
  <2>2. \A d \in Session : call'[d] = "reserve" =>
            call[d] = "reserve" /\ asked'[d] = asked[d] /\ left'[d] = left[d]
    BY <1>1, <1>5 DEF Start, DelegationTypeOK
  <2> QED BY <1>1, <1>3, <1>4, <1>5, <2>1, <2>2, CalmStep DEF Start, children
<1>6. ASSUME NEW s \in Session, AskBudget(s) PROVE BudgetsOK' BY <1>1, <1>6, AskStep
<1>7. ASSUME NEW s \in Session, Reserve(s) PROVE BudgetsOK' BY <1>1, <1>7, ReserveStep
<1>8. ASSUME NEW s \in Session, NEW c \in Child, DropReservation(s, c) PROVE BudgetsOK'
  BY <1>1, <1>8, DropStep
<1>9. ASSUME NEW c \in Child, LeaseChild(c) PROVE BudgetsOK'
  <2>1. Kids' \subseteq Kids BY <1>9 DEF LeaseChild, Kids, Starting
  <2> QED BY <1>1, <1>3, <1>9, <2>1, CalmStep DEF LeaseChild, sessions, BudgetsOK
<1>10. ASSUME NEW s \in Session, ChildNotStarted(s) PROVE BudgetsOK'
  BY <1>1, <1>3, <1>4, <1>10, CalmStep DEF ChildNotStarted, leases, children, BudgetsOK
<1>11. ASSUME NEW c \in Child, ChildStops(c) PROVE BudgetsOK'
  <2>1. Kids' \subseteq Kids BY <1>11 DEF ChildStops, Kids, Starting, LeaseInv, DelegationTypeOK
  <2> QED BY <1>1, <1>3, <1>11, <2>1, CalmStep DEF ChildStops, sessions, BudgetsOK
<1>12. ASSUME NEW s \in Session, CallReturns(s) PROVE BudgetsOK'
  BY <1>1, <1>3, <1>4, <1>12, CalmStep DEF CallReturns, leases, children, BudgetsOK
<1>13. ASSUME NEW t \in Task, ReleaseOwner(t)
       PROVE  /\ IsFiniteSet(Reservations')
              /\ Cardinality(Reservations') <= Cardinality(Reservations)
              /\ \A u \in Task : reserve'[u] \in Nat /\ reserve'[u] <= reserve[u]
              /\ active' \subseteq active
  <2>1. reserve' = [reserve EXCEPT ![t] = 0] /\ active' \subseteq active
    BY <1>13 DEF ReleaseOwner
  <2>2. \A u \in Task : reserve'[u] \in Nat /\ reserve'[u] <= reserve[u]
    BY <1>1, <2>1 DEF DelegationTypeOK
  <2> QED BY <1>1, <2>1, <2>2, ClearReservations
<1>14. ASSUME NEW s \in Session, SessionEnds(s) PROVE BudgetsOK'
  <2>1. \A d \in Session : call'[d] = "reserve" =>
            call[d] = "reserve" /\ asked'[d] = asked[d] /\ left'[d] = left[d]
    BY <1>1, <1>14 DEF SessionEnds, Over, DelegationTypeOK
  <2>2. ReleaseOwner(TaskOf[s]) /\ TaskOf[s] \in Task BY <1>14 DEF SessionEnds
  <2> QED BY <1>1, <1>2, <1>4, <1>13, <1>14, <2>1, <2>2, CalmStep DEF SessionEnds, children
<1>15. ASSUME NEW s \in Session, SessionDies(s) PROVE BudgetsOK'
  <2>1. Kids' \subseteq Kids
    BY <1>15 DEF SessionDies, leases, Kids, Starting, LeaseInv, DelegationTypeOK
  <2>2. \A d \in Session : call'[d] = "reserve" =>
            call[d] = "reserve" /\ asked'[d] = asked[d] /\ left'[d] = left[d]
    BY <1>1, <1>15 DEF SessionDies, Over, DelegationTypeOK
  <2> QED BY <1>1, <1>3, <1>15, <2>1, <2>2, CalmStep DEF SessionDies, leases, BudgetsOK
<1>16. ASSUME NEW s \in Session, Settle(s) PROVE BudgetsOK'
  BY <1>1, <1>2, <1>4, <1>13, <1>16, CalmStep DEF Settle, sessions, children
<1>17. CASE UNCHANGED delegationVars
  BY <1>1, <1>3, <1>4, <1>17, CalmStep DEF delegationVars, leases, sessions, children, BudgetsOK
<1> QED
  BY <1>5, <1>6, <1>7, <1>8, <1>9, <1>10, <1>11, <1>12, <1>14, <1>15, <1>16, <1>17
  DEF DelegationStep, Delegating
--------------------------------------------------------------------------------
(* Gates and the ceiling.                                                         *)

\* One admitter at a time reads a gate's flag, judges and writes it: the flag is up for
\* every gate that was crossed, and whoever is past a gate finds it not crossed.
GatesOK ==
    /\ mixed => crossed = {}
    /\ \A a \in Admitter : gate[a] = "disk" => at[a] \in {"look", "judge"}
    /\ ~mixed =>
           /\ \A a, b \in Admitter : at[a] # "idle" /\ at[b] # "idle" => a = b
           /\ crossed \subseteq closed
           /\ \A a \in Admitter : at[a] = "judge" => (sawClosed[a] <=> gate[a] \in closed)
           /\ \A a \in Admitter : gate[a] = "disk" => "memory" \notin crossed
           /\ HysteresisKept

\* What an admitter holds it has counted with the workers there are; it asks for no more
\* once it holds a wave.
CeilingOK ==
    /\ \A a \in Admitter : at[a] = "idle" => held[a] = 0
    /\ \A a \in Admitter : at[a] \in {"look", "judge", "count"} => held[a] < Wave
    /\ CeilingKept

AdmissionInv == DelegationInv /\ AdmissionTypeOK /\ GatesOK /\ CeilingOK

LEMMA AdmissionInit == Init => AdmissionInv
<1> SUFFICES ASSUME Init PROVE AdmissionInv OBVIOUS
<1> USE AdmissionAssumption, DelegationAssumption
<1>1. DelegationInv BY LeaseInit, BudgetInit DEF Init, DelegationInv
<1>2. AdmissionTypeOK
  <2>1. 0 \in 0 .. Wave OBVIOUS
  <2> QED BY <1>1, <2>1 DEF Init, AdmissionTypeOK, Gate, DelegationInv, LeaseInv
<1>3. GatesOK BY DEF Init, GatesOK, HysteresisKept
<1>4. Cardinality(workers) = 0 BY FS_EmptySet DEF Init, DelegationInit
<1>5. CeilingOK BY <1>4 DEF Init, CeilingOK, CeilingKept
<1> QED BY <1>1, <1>2, <1>3, <1>5 DEF AdmissionInv

LEMMA DelegationSteps == DelegationInv /\ [Next]_vars => DelegationInv'
<1> SUFFICES ASSUME DelegationInv, [Next]_vars PROVE DelegationInv' OBVIOUS
<1>1. DelegationStep
  BY DEF Next, vars, Admitting, Drain, Begin, Look, Judge, Wait, ReserveSlot, Spawn, EndTick,
         DelegationStep
<1> QED BY <1>1, LeaseStep, BudgetStep DEF DelegationInv

LEMMA AdmissionTypes == AdmissionInv /\ [Next]_vars => AdmissionTypeOK'
<1> SUFFICES ASSUME AdmissionInv, [Next]_vars PROVE AdmissionTypeOK' OBVIOUS
<1> USE AdmissionAssumption DEF AdmissionInv, AdmissionTypeOK, Gate, gates, judging
<1>1. DelegationTypeOK' BY DelegationSteps DEF DelegationInv, LeaseInv
<1>2. CASE Drain BY <1>1, <1>2 DEF Drain
<1>3. ASSUME NEW a \in Admitter, Begin(a) PROVE AdmissionTypeOK' BY <1>1, <1>3 DEF Begin
<1>4. ASSUME NEW a \in Admitter, Look(a) PROVE AdmissionTypeOK' BY <1>1, <1>4 DEF Look
<1>5. ASSUME NEW a \in Admitter, NEW r \in Reading, Judge(a, r) PROVE AdmissionTypeOK'
  BY <1>1, <1>5 DEF Judge, LeaveLoop
<1>6. ASSUME NEW a \in Admitter, Wait(a) PROVE AdmissionTypeOK' BY <1>1, <1>6 DEF Wait, LeaveLoop
<1>7. ASSUME NEW a \in Admitter, ReserveSlot(a) PROVE AdmissionTypeOK'
  <2>1. held[a] + 1 \in 0 .. Wave BY <1>7 DEF ReserveSlot, CeilingOK
  <2> QED BY <1>1, <1>7, <2>1 DEF ReserveSlot
<1>8. ASSUME NEW a \in Admitter, Spawn(a) PROVE AdmissionTypeOK' BY <1>1, <1>8 DEF Spawn
<1>9. ASSUME NEW a \in Admitter, EndTick(a) PROVE AdmissionTypeOK' BY <1>1, <1>9 DEF EndTick
<1>10. CASE UNCHANGED <<gates, judging>> BY <1>1, <1>10
<1> QED
  BY <1>2, <1>3, <1>4, <1>5, <1>6, <1>7, <1>8, <1>9, <1>10 DEF Next, Admitting, vars

LEMMA GatesStep == AdmissionInv /\ [Next]_vars => GatesOK'
<1> SUFFICES ASSUME AdmissionInv, [Next]_vars PROVE GatesOK' OBVIOUS
<1> USE DEF AdmissionInv, AdmissionTypeOK, Gate, gates, judging, GatesOK, HysteresisKept
<1>1. CASE Drain BY <1>1 DEF Drain
<1>2. ASSUME NEW a \in Admitter, Begin(a) PROVE GatesOK'
  <2>1. CASE mixed' BY <1>2, <2>1 DEF Begin
  <2>2. CASE ~mixed'
    <3>1. ~mixed /\ \A b \in Admitter \ {a} : at[b] = "idle" BY <1>2, <2>2 DEF Begin
    <3>2. at' = [at EXCEPT ![a] = "look"] /\ crossed' = crossed
          /\ UNCHANGED <<closed, gate, sawClosed>> BY <1>2, <2>2 DEF Begin
    <3>3. gate[a] = "memory" BY <1>2 DEF Begin
    <3>4. \A b \in Admitter : at'[b] # "idle" => b = a BY <3>1, <3>2
    <3>5. \A b \in Admitter : gate[b] = "memory" BY <3>1, <3>3
    <3> QED BY <2>2, <3>1, <3>2, <3>4, <3>5
  <2> QED BY <2>1, <2>2
<1>3. ASSUME NEW a \in Admitter, Look(a) PROVE GatesOK' BY <1>3 DEF Look
<1>4. ASSUME NEW a \in Admitter, NEW r \in Reading, Judge(a, r) PROVE GatesOK'
  <2> USE <1>4 DEF Judge, Reading, Blocked
  <2>1. CASE mixed
    <3>1. crossed' = {} /\ mixed' BY <2>1
    <3>2. \A b \in Admitter \ {a} : at'[b] = at[b] /\ gate'[b] = gate[b] BY DEF LeaveLoop
    <3>3. gate'[a] = "disk" => at'[a] = "look" BY DEF LeaveLoop
    <3> QED BY <3>1, <3>2, <3>3
  <2>2. CASE ~mixed
    <3>1. /\ at[a] = "judge" /\ (sawClosed[a] <=> gate[a] \in closed)
          /\ \A b \in Admitter \ {a} : at[b] = "idle" /\ gate[b] = "memory"
      BY <2>2
    <3>2. crossed' \subseteq closed' BY <2>2, <3>1
    <3>3. ~Blocked(sawClosed[a], r) => gate[a] \notin crossed' BY <2>2, <3>1
    <3>4. \A b \in Admitter \ {a} : at'[b] = "idle" /\ gate'[b] = "memory"
      BY <3>1 DEF LeaveLoop
    <3>5. gate'[a] = "disk" => at'[a] = "look" /\ "memory" \notin crossed'
      BY <3>1, <3>3 DEF LeaveLoop
    <3>6. at'[a] = "count" => crossed' = {}
      BY <2>2, <3>1, <3>3 DEF LeaveLoop
    <3>7. at'[a] # "judge" /\ mixed' = mixed BY DEF LeaveLoop
    <3> QED BY <2>2, <3>2, <3>4, <3>5, <3>6, <3>7
  <2> QED BY <2>1, <2>2
<1>5. ASSUME NEW a \in Admitter, Wait(a) PROVE GatesOK' BY <1>5 DEF Wait, LeaveLoop
<1>6. ASSUME NEW a \in Admitter, ReserveSlot(a) PROVE GatesOK' BY <1>6 DEF ReserveSlot
<1>7. ASSUME NEW a \in Admitter, Spawn(a) PROVE GatesOK' BY <1>7 DEF Spawn
<1>8. ASSUME NEW a \in Admitter, EndTick(a) PROVE GatesOK' BY <1>8 DEF EndTick
<1>9. CASE UNCHANGED <<gates, judging>> BY <1>9
<1> QED
  BY <1>1, <1>2, <1>3, <1>4, <1>5, <1>6, <1>7, <1>8, <1>9 DEF Next, Admitting, vars

LEMMA CeilingStep == AdmissionInv /\ [Next]_vars => CeilingOK'
<1> SUFFICES ASSUME AdmissionInv, [Next]_vars PROVE CeilingOK' OBVIOUS
<1> USE AdmissionAssumption
    DEF AdmissionInv, AdmissionTypeOK, gates, judging, GatesOK, CeilingOK, CeilingKept
<1>1. /\ IsFiniteSet(workers) /\ Cardinality(workers) \in Nat
      /\ Cardinality(Reservations) \in Nat /\ Cardinality(active) \in Nat
  <2>1. IsFiniteSet(workers) /\ IsFiniteSet(Reservations) /\ IsFiniteSet(active)
    BY FS_Subset DEF DelegationInv, BudgetsOK, Kids
  <2> QED BY <2>1, FS_CardinalityType
<1>2. CASE Drain BY <1>1, <1>2 DEF Drain, delegationVars, leases
<1>3. ASSUME NEW a \in Admitter, Begin(a) PROVE CeilingOK'
  BY <1>1, <1>3 DEF Begin, delegationVars, leases
<1>4. ASSUME NEW a \in Admitter, Look(a) PROVE CeilingOK'
  BY <1>1, <1>4 DEF Look, delegationVars, leases
<1>5. ASSUME NEW a \in Admitter, NEW r \in Reading, Judge(a, r) PROVE CeilingOK'
  BY <1>1, <1>5 DEF Judge, LeaveLoop, delegationVars, leases
<1>6. ASSUME NEW a \in Admitter, Wait(a) PROVE CeilingOK'
  BY <1>1, <1>6 DEF Wait, LeaveLoop, delegationVars, leases
<1>7. ASSUME NEW a \in Admitter, ReserveSlot(a) PROVE CeilingOK'
  <2>1. Cardinality(workers) + (held[a] + 1) <= MaxSequences
    BY <1>1, <1>7 DEF ReserveSlot, CreditsFit, LeaseCredits, SubagentCredits
  <2> QED BY <1>1, <1>7, <2>1 DEF ReserveSlot, delegationVars, leases
<1>8. ASSUME NEW a \in Admitter, Spawn(a) PROVE CeilingOK'
  <2>1. PICK s \in Session : Start(s) BY <1>8 DEF Spawn
  <2>2. Cardinality(workers') \in Nat /\ Cardinality(workers') <= Cardinality(workers) + 1
    <3>1. workers' = workers \cup {s} BY <2>1 DEF Start
    <3>2. /\ IsFiniteSet(workers \cup {s})
          /\ Cardinality(workers \cup {s}) =
                 IF s \in workers THEN Cardinality(workers) ELSE Cardinality(workers) + 1
      BY <1>1, FS_AddElement
    <3> QED BY <1>1, <3>1, <3>2
  <2>3. ASSUME ~mixed, NEW b \in Admitter
        PROVE  Cardinality(workers') + held'[b] <= MaxSequences
    <3>1. Cardinality(workers) + held[a] <= MaxSequences /\ held[a] > 0
      BY <2>3, <1>8 DEF Spawn
    <3>2. CASE b = a BY <1>1, <1>8, <2>2, <3>1, <3>2 DEF Spawn
    <3>3. CASE b # a
      <4>1. held'[b] = 0 BY <1>8, <2>3, <3>3 DEF Spawn
      <4> QED BY <1>1, <2>2, <3>1, <4>1
    <3> QED BY <3>2, <3>3
  <2>4. \A b \in Admitter : at'[b] = "idle" => held'[b] = 0 BY <1>8 DEF Spawn
  <2> QED BY <1>8, <2>3, <2>4 DEF Spawn
<1>9. ASSUME NEW a \in Admitter, EndTick(a) PROVE CeilingOK'
  BY <1>1, <1>9 DEF EndTick, delegationVars, leases
<1>10. CASE Delegating /\ UNCHANGED <<gates, judging>>
  <2>1. workers' \subseteq workers
    BY <1>10 DEF Delegating, AskBudget, Reserve, DropReservation, LeaseChild, ChildNotStarted,
                 ChildStops, CallReturns, SessionEnds, SessionDies, Settle, leases
  <2>2. Cardinality(workers') <= Cardinality(workers) /\ Cardinality(workers') \in Nat
    BY <1>1, <2>1, FS_Subset, FS_CardinalityType
  <2> QED BY <1>1, <1>10, <2>2
<1>11. CASE UNCHANGED vars BY <1>11 DEF vars, delegationVars, leases
<1> QED
  BY <1>2, <1>3, <1>4, <1>5, <1>6, <1>7, <1>8, <1>9, <1>10, <1>11 DEF Next, Admitting
--------------------------------------------------------------------------------
\* Whatever sessions, children and admitters do, each step keeps the leases, the budgets, the
\* gates and the counts in hand (plugin.py, resources.admit, kanban.pre_reserve_ready).
THEOREM AdmissionInvariant == Spec => []AdmissionInv
<1>1. AdmissionInv /\ [Next]_vars => AdmissionInv'
  BY DelegationSteps, AdmissionTypes, GatesStep, CeilingStep DEF AdmissionInv
<1> QED BY AdmissionInit, <1>1, PTL DEF Spec

\* Every reachable state is well typed, and no admitter holds more than a wave
\* (pre_reserve_ready).
THEOREM AdmissionTypesCorrect == Spec => []AdmissionTypeOK
<1>1. AdmissionInv => AdmissionTypeOK BY DEF AdmissionInv
<1> QED BY AdmissionInvariant, <1>1, PTL

\* A gate that has closed opens at its low watermark only, while admitters come one after
\* the other (resources.admit).
THEOREM GatesKeepHysteresis == Spec => []HysteresisKept
<1>1. AdmissionInv => HysteresisKept BY DEF AdmissionInv, GatesOK, HysteresisKept
<1> QED BY AdmissionInvariant, <1>1, PTL

\* Workers and reservations stay within the sequence ceiling, while admitters come one after
\* the other (resources.admit, pre_reserve_ready).
THEOREM WavesFitTheCeiling == Spec => []CeilingKept
<1>1. AdmissionInv => CeilingKept BY DEF AdmissionInv, CeilingOK
<1> QED BY AdmissionInvariant, <1>1, PTL

\* The subagents of one worker stay within the budget whatever races (on_pre_tool_call).
THEOREM WorkerFitsItsBudget == Spec => []WorkerWithinBudget
<1>1. ASSUME AdmissionInv PROVE WorkerWithinBudget
  <2> USE <1>1 DEF AdmissionInv, DelegationInv, BudgetsOK
  <2> SUFFICES ASSUME NEW t \in Task
               PROVE  reserve[t] + Cardinality(active \cap Owned(t)) <= MaxChildren
    BY DEF WorkerWithinBudget
  <2>1. active \cap Owned(t) \subseteq KidsOf(t) /\ IsFiniteSet(KidsOf(t))
    BY FS_Subset DEF KidsOf, Kids
  <2>2. /\ Cardinality(active \cap Owned(t)) <= Cardinality(KidsOf(t))
        /\ Cardinality(active \cap Owned(t)) \in Nat /\ Cardinality(KidsOf(t)) \in Nat
    BY <2>1, FS_Subset, FS_CardinalityType
  <2>3. reserve[t] \in Nat BY DEF LeaseInv, DelegationTypeOK
  <2> QED BY <2>2, <2>3, DelegationAssumption
<1> QED BY AdmissionInvariant, <1>1, PTL

\* The subagents of all workers together stay within the fleet's budget as long as no two of
\* them race for its last place (on_pre_tool_call, on_subagent_start).
THEOREM SubagentsFitTheirBudget == Spec => []BudgetKept
<1>1. ASSUME AdmissionInv PROVE BudgetKept
  <2> USE <1>1 DEF AdmissionInv, DelegationInv, BudgetsOK
  <2>1. /\ IsFiniteSet(active) /\ Cardinality(active) <= Cardinality(Kids)
        /\ Cardinality(active) \in Nat /\ Cardinality(Kids) \in Nat
        /\ Cardinality(Reservations) \in Nat
    BY FS_Subset, FS_CardinalityType DEF Kids
  <2> QED BY <2>1, DelegationAssumption DEF BudgetKept, SubagentCredits
<1> QED BY AdmissionInvariant, <1>1, PTL

\* A child that runs keeps its lease: no release, late or of another's, takes it
\* (on_subagent_stop, on_session_end).
THEOREM RunningChildKeepsLease == Spec => []RunningChildIsCounted
<1>1. ASSUME AdmissionInv PROVE RunningChildIsCounted
  BY <1>1 DEF AdmissionInv, DelegationInv, LeaseInv, ChildrenOK, LeasesOK, DelegationTypeOK,
              RunningChildIsCounted
<1> QED BY AdmissionInvariant, <1>1, PTL

\* A task without a worker has no lease left: releases are not too narrow either
\* (on_session_end, the fleet's release).
THEOREM LeasesEndWithTheWorker == Spec => []NoCreditLeaks
<1>1. ASSUME AdmissionInv PROVE NoCreditLeaks
  <2> USE <1>1 DEF AdmissionInv, DelegationInv, LeaseInv, ChildrenOK, LeasesOK, DelegationTypeOK
  <2>1. ASSUME NEW t \in Task, \A s \in live \cup workers : TaskOf[s] # t
        PROVE  reserve[t] = 0 /\ active \cap Owned(t) = {}
    BY <2>1 DEF Owned
  <2> QED BY <2>1 DEF NoCreditLeaks
<1> QED BY AdmissionInvariant, <1>1, PTL
================================================================================
