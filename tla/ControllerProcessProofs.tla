----------------------- MODULE ControllerProcessProofs -----------------------
(* Proofs about ControllerProcess, for any number of processes, launchers and    *)
(* PIDs.  The invariant has three layers: who holds which lock and PID; what the  *)
(* identity file says while no PID on file is given away; and, while moreover no   *)
(* launcher fails half way, that one process at a time is alive.                  *)
EXTENDS ControllerProcess, TLAPS

Launching == {"clear", "started", "polled"}
Started   == {"started", "polled"}

\* Locks have the holder their places say, and no two processes share a PID.
HoldersOK ==
    /\ \A c \in Controller : place[c] \in {"wait"} \cup Conducting => runLock = c
    /\ runLock # none => place[runLock] \in {"wait", "leave", "mark", "shut"} \cup Conducting
    /\ \A l \in Launcher : at[l] # "out" <=> launchLock = l
    /\ \A l \in Launcher : at[l] \in Started => child[l] \in Controller
    /\ \A l \in Launcher : at[l] \in Started => place[child[l]] # "unborn"
    /\ identity # none => place[identity] # "unborn"
    /\ \A c \in Controller : place[c] \in {"unborn", "boot", "wait"} => note[c] = none
    /\ \A c \in Controller : note[c] # none => place[note[c]] # "unborn"
    /\ \A c, d \in Controller : Live(c) /\ Live(d) /\ pid[c] = pid[d] => c = d
    /\ \A c \in Controller : Live(c) => pid[c] \notin strangers

\* What the file says can be relied on.
NamedOK ==
    ~reused =>
        /\ \A c \in Controller : place[c] \in Conducting => identity = c
        /\ \A c \in Controller : place[c] = "mark" /\ SamePID(c, note[c])
                                     => note[c] = c /\ identity = c
        /\ \A c \in Controller : Live(c) /\ SamePID(c, identity) => identity = c
        /\ \A l \in Launcher : at[l] \in Launching => ~Alive(identity)
        /\ \A l \in Launcher : at[l] \in Started =>
               \A c \in Controller : Live(c) /\ pid[c] = pid[child[l]] => c = child[l]

\* One process at a time.
AloneOK ==
    ~botched /\ ~reused =>
        /\ \A l \in Launcher, c \in Controller : at[l] = "clear" => ~Live(c)
        /\ \A l \in Launcher, c \in Controller :
               at[l] \in Started /\ Live(c) => c = child[l]
        /\ \A c \in Controller :
               (\A l \in Launcher : at[l] \notin Launching) /\ Live(c) => identity = c

Inv == ControllerTypeOK /\ HoldersOK /\ NamedOK /\ AloneOK /\ SignalsHitTheNamed
--------------------------------------------------------------------------------
LEMMA InitInv == Init => Inv
<1> SUFFICES ASSUME Init PROVE Inv OBVIOUS
<1>1. (CHOOSE p \in PID : TRUE) \in PID BY ControllerAssumption
<1>2. ControllerTypeOK BY <1>1 DEF Init, ControllerTypeOK, Place, Conducting, Ending
<1>3. HoldersOK BY ControllerAssumption DEF Init, HoldersOK, Live, Conducting, Started
<1>4. NamedOK BY DEF Init, NamedOK, Live, Conducting, SamePID, Launching, Started, Alive
<1>5. AloneOK BY DEF Init, AloneOK, Live, Started
<1> QED BY <1>2, <1>3, <1>4, <1>5 DEF Init, Inv, SignalsHitTheNamed

--------------------------------------------------------------------------------
(* Steps.                                                                        *)

\* Every step keeps the types.
LEMMA TypeStep == Inv /\ [Next]_vars => ControllerTypeOK'
<1> SUFFICES ASSUME Inv, [Next]_vars PROVE ControllerTypeOK' OBVIOUS
<1> USE ControllerAssumption DEF Inv, ControllerTypeOK, Place, Conducting, Ending
<1>1. ASSUME NEW l \in Launcher, LaunchLock(l) PROVE ControllerTypeOK'
  BY <1>1 DEF LaunchLock, files, procs, callers, stopper
<1>2. ASSUME NEW l \in Launcher, LaunchFound(l) PROVE ControllerTypeOK'
  BY <1>2 DEF LaunchFound, files, procs, callers, stopper
<1>3. ASSUME NEW l \in Launcher, LaunchClear(l) PROVE ControllerTypeOK'
  BY <1>3 DEF LaunchClear, files, procs, callers, stopper
<1>4. ASSUME NEW l \in Launcher, LaunchStart(l) PROVE ControllerTypeOK'
  BY <1>4 DEF LaunchStart, files, procs, callers, stopper, FreePID
<1>5. ASSUME NEW l \in Launcher, LaunchPoll(l) PROVE ControllerTypeOK'
  BY <1>5 DEF LaunchPoll, files, procs, callers, stopper
<1>6. ASSUME NEW l \in Launcher, LaunchName(l) PROVE ControllerTypeOK'
  BY <1>6 DEF LaunchName, files, procs, callers, stopper
<1>7. ASSUME NEW l \in Launcher, LaunchRefused(l) PROVE ControllerTypeOK'
  BY <1>7 DEF LaunchRefused, files, procs, callers, stopper
<1>8. ASSUME NEW l \in Launcher, LaunchFails(l) PROVE ControllerTypeOK'
  BY <1>8 DEF LaunchFails, files, procs, callers, stopper
<1>9. ASSUME NEW c \in Controller, TakeRunLock(c) PROVE ControllerTypeOK'
  BY <1>9 DEF TakeRunLock, files, procs, callers, stopper, ToPlace
<1>10. ASSUME NEW c \in Controller, TurnedAway(c) PROVE ControllerTypeOK'
  BY <1>10 DEF TurnedAway, files, procs, callers, stopper, ToPlace
<1>11. ASSUME NEW c \in Controller, SeeOwnName(c) PROVE ControllerTypeOK'
  BY <1>11 DEF SeeOwnName, files, procs, callers, stopper, ToPlace
<1>12. ASSUME NEW c \in Controller, GiveUpWaiting(c) PROVE ControllerTypeOK'
  BY <1>12 DEF GiveUpWaiting, files, procs, callers, stopper, ToPlace
<1>13. ASSUME NEW c \in Controller, Enter(c) PROVE ControllerTypeOK'
  BY <1>13 DEF Enter, files, procs, callers, stopper, ToPlace
<1>14. ASSUME NEW c \in Controller, LoopHead(c) PROVE ControllerTypeOK'
  BY <1>14 DEF LoopHead, files, procs, callers, stopper, ToPlace
<1>15. ASSUME NEW c \in Controller, Beat(c) PROVE ControllerTypeOK'
  BY <1>15 DEF Beat, files, procs, callers, stopper, ToPlace
<1>16. ASSUME NEW c \in Controller, ReadBack(c) PROVE ControllerTypeOK'
  BY <1>16 DEF ReadBack, files, procs, callers, stopper, ToPlace
<1>17. ASSUME NEW c \in Controller, WriteBack(c) PROVE ControllerTypeOK'
  BY <1>17 DEF WriteBack, files, procs, callers, stopper, ToPlace
<1>18. ASSUME NEW c \in Controller, Exit(c) PROVE ControllerTypeOK'
  BY <1>18 DEF Exit, files, procs, callers, stopper, ToPlace, End, Reached
<1>19. ASSUME NEW c \in Controller, Die(c) PROVE ControllerTypeOK'
  BY <1>19 DEF Die, files, procs, callers, stopper, ToPlace, End, Reached
<1>20. CASE StopTerm
  BY <1>20 DEF StopTerm, files, procs, callers, stopper, End, Reached
<1>21. CASE StopSeen
  BY <1>21 DEF StopSeen, files, procs, callers, stopper
<1>22. CASE StopKill
  BY <1>22 DEF StopKill, files, procs, callers, stopper, End, Reached
<1>23. CASE StrangerComes
  BY <1>23 DEF StrangerComes, files, procs, callers, stopper, FreePID
<1>24. CASE StrangerGoes
  BY <1>24 DEF StrangerGoes, files, procs, callers, stopper
<1>25. CASE RunMoves
  BY <1>25 DEF RunMoves, files, procs, callers, stopper
<1>26. CASE UNCHANGED vars
  BY <1>26 DEF vars, files, procs, callers, stopper
<1> QED
  BY <1>1, <1>2, <1>3, <1>4, <1>5, <1>6, <1>7, <1>8, <1>9, <1>10, <1>11, <1>12, <1>13, <1>14, <1>15, <1>16, <1>17, <1>18, <1>19, <1>20, <1>21, <1>22, <1>23, <1>24, <1>25, <1>26 DEF Next, LauncherStep, ControllerStep

\* Locks and PIDs.
LEMMA HoldersStep == Inv /\ [Next]_vars => HoldersOK'
<1> SUFFICES ASSUME Inv, [Next]_vars PROVE HoldersOK' OBVIOUS
<1> USE ControllerAssumption DEF Inv, ControllerTypeOK, HoldersOK, Place, Conducting, Ending, Live, Started
<1>1. ASSUME NEW l \in Launcher, LaunchLock(l) PROVE HoldersOK'
  BY <1>1 DEF LaunchLock, files, procs, callers, stopper
<1>2. ASSUME NEW l \in Launcher, LaunchFound(l) PROVE HoldersOK'
  BY <1>2 DEF LaunchFound, files, procs, callers, stopper
<1>3. ASSUME NEW l \in Launcher, LaunchClear(l) PROVE HoldersOK'
  BY <1>3 DEF LaunchClear, files, procs, callers, stopper
<1>4. ASSUME NEW l \in Launcher, LaunchStart(l) PROVE HoldersOK'
  BY <1>4 DEF LaunchStart, files, procs, callers, stopper, FreePID
<1>5. ASSUME NEW l \in Launcher, LaunchPoll(l) PROVE HoldersOK'
  BY <1>5 DEF LaunchPoll, files, procs, callers, stopper
<1>6. ASSUME NEW l \in Launcher, LaunchName(l) PROVE HoldersOK'
  BY <1>6 DEF LaunchName, files, procs, callers, stopper
<1>7. ASSUME NEW l \in Launcher, LaunchRefused(l) PROVE HoldersOK'
  BY <1>7 DEF LaunchRefused, files, procs, callers, stopper
<1>8. ASSUME NEW l \in Launcher, LaunchFails(l) PROVE HoldersOK'
  BY <1>8 DEF LaunchFails, files, procs, callers, stopper
<1>9. ASSUME NEW c \in Controller, TakeRunLock(c) PROVE HoldersOK'
  BY <1>9 DEF TakeRunLock, files, procs, callers, stopper, ToPlace
<1>10. ASSUME NEW c \in Controller, TurnedAway(c) PROVE HoldersOK'
  BY <1>10 DEF TurnedAway, files, procs, callers, stopper, ToPlace
<1>11. ASSUME NEW c \in Controller, SeeOwnName(c) PROVE HoldersOK'
  BY <1>11 DEF SeeOwnName, files, procs, callers, stopper, ToPlace
<1>12. ASSUME NEW c \in Controller, GiveUpWaiting(c) PROVE HoldersOK'
  BY <1>12 DEF GiveUpWaiting, files, procs, callers, stopper, ToPlace
<1>13. ASSUME NEW c \in Controller, Enter(c) PROVE HoldersOK'
  BY <1>13 DEF Enter, files, procs, callers, stopper, ToPlace
<1>14. ASSUME NEW c \in Controller, LoopHead(c) PROVE HoldersOK'
  BY <1>14 DEF LoopHead, files, procs, callers, stopper, ToPlace
<1>15. ASSUME NEW c \in Controller, Beat(c) PROVE HoldersOK'
  BY <1>15 DEF Beat, files, procs, callers, stopper, ToPlace
<1>16. ASSUME NEW c \in Controller, ReadBack(c) PROVE HoldersOK'
  BY <1>16 DEF ReadBack, files, procs, callers, stopper, ToPlace
<1>17. ASSUME NEW c \in Controller, WriteBack(c) PROVE HoldersOK'
  BY <1>17 DEF WriteBack, files, procs, callers, stopper, ToPlace
<1>18. ASSUME NEW c \in Controller, Exit(c) PROVE HoldersOK'
  BY <1>18 DEF Exit, files, procs, callers, stopper, ToPlace, End, Reached
<1>19. ASSUME NEW c \in Controller, Die(c) PROVE HoldersOK'
  BY <1>19 DEF Die, files, procs, callers, stopper, ToPlace, End, Reached
<1>20. CASE StopTerm
  BY <1>20 DEF StopTerm, files, procs, callers, stopper, End, Reached
<1>21. CASE StopSeen
  BY <1>21 DEF StopSeen, files, procs, callers, stopper
<1>22. CASE StopKill
  BY <1>22 DEF StopKill, files, procs, callers, stopper, End, Reached
<1>23. CASE StrangerComes
  BY <1>23 DEF StrangerComes, files, procs, callers, stopper, FreePID
<1>24. CASE StrangerGoes
  BY <1>24 DEF StrangerGoes, files, procs, callers, stopper
<1>25. CASE RunMoves
  BY <1>25 DEF RunMoves, files, procs, callers, stopper
<1>26. CASE UNCHANGED vars
  BY <1>26 DEF vars, files, procs, callers, stopper
<1> QED
  BY <1>1, <1>2, <1>3, <1>4, <1>5, <1>6, <1>7, <1>8, <1>9, <1>10, <1>11, <1>12, <1>13, <1>14, <1>15, <1>16, <1>17, <1>18, <1>19, <1>20, <1>21, <1>22, <1>23, <1>24, <1>25, <1>26 DEF Next, LauncherStep, ControllerStep

\* The identity file.
LEMMA NamedStep == Inv /\ [Next]_vars => NamedOK'
<1> SUFFICES ASSUME Inv, [Next]_vars PROVE NamedOK' OBVIOUS
<1> USE ControllerAssumption DEF Inv, ControllerTypeOK, HoldersOK, NamedOK, Place, Conducting, Ending, Live, Started, Launching, SamePID, Alive
<1>1. ASSUME NEW l \in Launcher, LaunchLock(l) PROVE NamedOK'
  BY <1>1 DEF LaunchLock, files, procs, callers, stopper
<1>2. ASSUME NEW l \in Launcher, LaunchFound(l) PROVE NamedOK'
  BY <1>2 DEF LaunchFound, files, procs, callers, stopper
<1>3. ASSUME NEW l \in Launcher, LaunchClear(l) PROVE NamedOK'
  BY <1>3 DEF LaunchClear, files, procs, callers, stopper
<1>4. ASSUME NEW l \in Launcher, LaunchStart(l) PROVE NamedOK'
  <2> PICK c \in Controller, p \in PID :
        /\ place[c] = "unborn" /\ FreePID(p)
        /\ place' = [place EXCEPT ![c] = "boot"]
        /\ pid' = [pid EXCEPT ![c] = p]
        /\ child' = [child EXCEPT ![l] = c]
        /\ reused' = (reused \/ (identity # none /\ pid[identity] = p))
    BY <1>4 DEF LaunchStart
  <2>1. /\ at[l] = "clear" /\ at' = [at EXCEPT ![l] = "started"]
        /\ UNCHANGED <<over, files, note, asked, botched, strangers, stopper>>
    BY <1>4 DEF LaunchStart
  <2> SUFFICES ASSUME ~reused' PROVE NamedOK' BY DEF NamedOK
  <2>2. ~reused /\ (identity # none => pid[identity] # p) OBVIOUS
  <2>3. identity # c BY ControllerAssumption
  <2> USE <2>1, <2>2, <2>3 DEF files
  <2>a. \A d \in Controller : (place[d] \in Conducting => identity = d)' OBVIOUS
  <2>b. \A d \in Controller : (place[d] = "mark" /\ SamePID(d, note[d])
                                     => note[d] = d /\ identity = d)' OBVIOUS
  <2>c. \A d \in Controller : (Live(d) /\ SamePID(d, identity) => identity = d)' OBVIOUS
  <2>d. \A k \in Launcher : (at[k] \in Launching => ~Alive(identity))' OBVIOUS
  <2>e. \A k \in Launcher : (at[k] \in Started =>
               \A d \in Controller : Live(d) /\ pid[d] = pid[child[k]] => d = child[k])'
    BY DEF FreePID
  <2> QED BY <2>a, <2>b, <2>c, <2>d, <2>e DEF NamedOK
<1>5. ASSUME NEW l \in Launcher, LaunchPoll(l) PROVE NamedOK'
  BY <1>5 DEF LaunchPoll, files, procs, callers, stopper
<1>6. ASSUME NEW l \in Launcher, LaunchName(l) PROVE NamedOK'
  BY <1>6 DEF LaunchName, files, procs, callers, stopper
<1>7. ASSUME NEW l \in Launcher, LaunchRefused(l) PROVE NamedOK'
  BY <1>7 DEF LaunchRefused, files, procs, callers, stopper
<1>8. ASSUME NEW l \in Launcher, LaunchFails(l) PROVE NamedOK'
  BY <1>8 DEF LaunchFails, files, procs, callers, stopper
<1>9. ASSUME NEW c \in Controller, TakeRunLock(c) PROVE NamedOK'
  BY <1>9 DEF TakeRunLock, files, procs, callers, stopper, ToPlace
<1>10. ASSUME NEW c \in Controller, TurnedAway(c) PROVE NamedOK'
  BY <1>10 DEF TurnedAway, files, procs, callers, stopper, ToPlace
<1>11. ASSUME NEW c \in Controller, SeeOwnName(c) PROVE NamedOK'
  BY <1>11 DEF SeeOwnName, files, procs, callers, stopper, ToPlace
<1>12. ASSUME NEW c \in Controller, GiveUpWaiting(c) PROVE NamedOK'
  BY <1>12 DEF GiveUpWaiting, files, procs, callers, stopper, ToPlace
<1>13. ASSUME NEW c \in Controller, Enter(c) PROVE NamedOK'
  BY <1>13 DEF Enter, files, procs, callers, stopper, ToPlace
<1>14. ASSUME NEW c \in Controller, LoopHead(c) PROVE NamedOK'
  BY <1>14 DEF LoopHead, files, procs, callers, stopper, ToPlace
<1>15. ASSUME NEW c \in Controller, Beat(c) PROVE NamedOK'
  BY <1>15 DEF Beat, files, procs, callers, stopper, ToPlace
<1>16. ASSUME NEW c \in Controller, ReadBack(c) PROVE NamedOK'
  BY <1>16 DEF ReadBack, files, procs, callers, stopper, ToPlace
<1>17. ASSUME NEW c \in Controller, WriteBack(c) PROVE NamedOK'
  BY <1>17 DEF WriteBack, files, procs, callers, stopper, ToPlace
<1>18. ASSUME NEW c \in Controller, Exit(c) PROVE NamedOK'
  BY <1>18 DEF Exit, files, procs, callers, stopper, ToPlace, End, Reached
<1>19. ASSUME NEW c \in Controller, Die(c) PROVE NamedOK'
  BY <1>19 DEF Die, files, procs, callers, stopper, ToPlace, End, Reached
<1>20. CASE StopTerm
  BY <1>20 DEF StopTerm, files, procs, callers, stopper, End, Reached
<1>21. CASE StopSeen
  BY <1>21 DEF StopSeen, files, procs, callers, stopper
<1>22. CASE StopKill
  BY <1>22 DEF StopKill, files, procs, callers, stopper, End, Reached
<1>23. CASE StrangerComes
  BY <1>23 DEF StrangerComes, files, procs, callers, stopper, FreePID
<1>24. CASE StrangerGoes
  BY <1>24 DEF StrangerGoes, files, procs, callers, stopper
<1>25. CASE RunMoves
  BY <1>25 DEF RunMoves, files, procs, callers, stopper
<1>26. CASE UNCHANGED vars
  BY <1>26 DEF vars, files, procs, callers, stopper
<1> QED
  BY <1>1, <1>2, <1>3, <1>4, <1>5, <1>6, <1>7, <1>8, <1>9, <1>10, <1>11, <1>12, <1>13, <1>14, <1>15, <1>16, <1>17, <1>18, <1>19, <1>20, <1>21, <1>22, <1>23, <1>24, <1>25, <1>26 DEF Next, LauncherStep, ControllerStep

\* One process at a time.
LEMMA AloneStep == Inv /\ [Next]_vars => AloneOK'
<1> SUFFICES ASSUME Inv, [Next]_vars PROVE AloneOK' OBVIOUS
<1> USE ControllerAssumption DEF Inv, ControllerTypeOK, HoldersOK, NamedOK, AloneOK, Place, Conducting, Ending, Live, Started, Launching, SamePID, Alive
<1>1. ASSUME NEW l \in Launcher, LaunchLock(l) PROVE AloneOK'
  BY <1>1 DEF LaunchLock, files, procs, callers, stopper
<1>2. ASSUME NEW l \in Launcher, LaunchFound(l) PROVE AloneOK'
  BY <1>2 DEF LaunchFound, files, procs, callers, stopper
<1>3. ASSUME NEW l \in Launcher, LaunchClear(l) PROVE AloneOK'
  BY <1>3 DEF LaunchClear, files, procs, callers, stopper
<1>4. ASSUME NEW l \in Launcher, LaunchStart(l) PROVE AloneOK'
  BY <1>4 DEF LaunchStart, files, procs, callers, stopper, FreePID
<1>5. ASSUME NEW l \in Launcher, LaunchPoll(l) PROVE AloneOK'
  BY <1>5 DEF LaunchPoll, files, procs, callers, stopper
<1>6. ASSUME NEW l \in Launcher, LaunchName(l) PROVE AloneOK'
  BY <1>6 DEF LaunchName, files, procs, callers, stopper
<1>7. ASSUME NEW l \in Launcher, LaunchRefused(l) PROVE AloneOK'
  BY <1>7 DEF LaunchRefused, files, procs, callers, stopper
<1>8. ASSUME NEW l \in Launcher, LaunchFails(l) PROVE AloneOK'
  <2> USE <1>8 DEF LaunchFails, files, procs, callers, stopper
  <2> SUFFICES ASSUME ~botched', ~reused' PROVE AloneOK' OBVIOUS
  <2>1. at[l] \in {"locked", "clear"} /\ ~botched /\ ~reused OBVIOUS
  <2>2. place' = place /\ pid' = pid /\ identity' = identity OBVIOUS
  <2>3. \A k \in Launcher : at[k] # "out" => k = l OBVIOUS
  <2>4. \A k \in Launcher : at'[k] = "out" BY <2>3
  <2>5. ASSUME NEW c \in Controller, Live(c) PROVE identity = c
    <3>1. CASE at[l] = "clear" BY <3>1, <2>1, <2>5
    <3>2. CASE at[l] = "locked" BY <3>2, <2>1, <2>3, <2>5
    <3> QED BY <3>1, <3>2, <2>1
  <2> QED BY <2>2, <2>4, <2>5
<1>9. ASSUME NEW c \in Controller, TakeRunLock(c) PROVE AloneOK'
  BY <1>9 DEF TakeRunLock, files, procs, callers, stopper, ToPlace
<1>10. ASSUME NEW c \in Controller, TurnedAway(c) PROVE AloneOK'
  BY <1>10 DEF TurnedAway, files, procs, callers, stopper, ToPlace
<1>11. ASSUME NEW c \in Controller, SeeOwnName(c) PROVE AloneOK'
  BY <1>11 DEF SeeOwnName, files, procs, callers, stopper, ToPlace
<1>12. ASSUME NEW c \in Controller, GiveUpWaiting(c) PROVE AloneOK'
  BY <1>12 DEF GiveUpWaiting, files, procs, callers, stopper, ToPlace
<1>13. ASSUME NEW c \in Controller, Enter(c) PROVE AloneOK'
  BY <1>13 DEF Enter, files, procs, callers, stopper, ToPlace
<1>14. ASSUME NEW c \in Controller, LoopHead(c) PROVE AloneOK'
  BY <1>14 DEF LoopHead, files, procs, callers, stopper, ToPlace
<1>15. ASSUME NEW c \in Controller, Beat(c) PROVE AloneOK'
  BY <1>15 DEF Beat, files, procs, callers, stopper, ToPlace
<1>16. ASSUME NEW c \in Controller, ReadBack(c) PROVE AloneOK'
  BY <1>16 DEF ReadBack, files, procs, callers, stopper, ToPlace
<1>17. ASSUME NEW c \in Controller, WriteBack(c) PROVE AloneOK'
  BY <1>17 DEF WriteBack, files, procs, callers, stopper, ToPlace
<1>18. ASSUME NEW c \in Controller, Exit(c) PROVE AloneOK'
  BY <1>18 DEF Exit, files, procs, callers, stopper, ToPlace, End, Reached
<1>19. ASSUME NEW c \in Controller, Die(c) PROVE AloneOK'
  BY <1>19 DEF Die, files, procs, callers, stopper, ToPlace, End, Reached
<1>20. CASE StopTerm
  BY <1>20 DEF StopTerm, files, procs, callers, stopper, End, Reached
<1>21. CASE StopSeen
  BY <1>21 DEF StopSeen, files, procs, callers, stopper
<1>22. CASE StopKill
  BY <1>22 DEF StopKill, files, procs, callers, stopper, End, Reached
<1>23. CASE StrangerComes
  BY <1>23 DEF StrangerComes, files, procs, callers, stopper, FreePID
<1>24. CASE StrangerGoes
  BY <1>24 DEF StrangerGoes, files, procs, callers, stopper
<1>25. CASE RunMoves
  BY <1>25 DEF RunMoves, files, procs, callers, stopper
<1>26. CASE UNCHANGED vars
  BY <1>26 DEF vars, files, procs, callers, stopper
<1> QED
  BY <1>1, <1>2, <1>3, <1>4, <1>5, <1>6, <1>7, <1>8, <1>9, <1>10, <1>11, <1>12, <1>13, <1>14, <1>15, <1>16, <1>17, <1>18, <1>19, <1>20, <1>21, <1>22, <1>23, <1>24, <1>25, <1>26 DEF Next, LauncherStep, ControllerStep

\* What a signal reaches.
LEMMA SignalStep == Inv /\ [Next]_vars => SignalsHitTheNamed'
<1> SUFFICES ASSUME Inv, [Next]_vars PROVE SignalsHitTheNamed' OBVIOUS
<1> USE ControllerAssumption DEF Inv, ControllerTypeOK, HoldersOK, SignalsHitTheNamed, Live, Alive
<1>1. ASSUME NEW l \in Launcher, LaunchLock(l) PROVE SignalsHitTheNamed'
  BY <1>1 DEF LaunchLock, files, procs, callers, stopper
<1>2. ASSUME NEW l \in Launcher, LaunchFound(l) PROVE SignalsHitTheNamed'
  BY <1>2 DEF LaunchFound, files, procs, callers, stopper
<1>3. ASSUME NEW l \in Launcher, LaunchClear(l) PROVE SignalsHitTheNamed'
  BY <1>3 DEF LaunchClear, files, procs, callers, stopper
<1>4. ASSUME NEW l \in Launcher, LaunchStart(l) PROVE SignalsHitTheNamed'
  BY <1>4 DEF LaunchStart, files, procs, callers, stopper, FreePID
<1>5. ASSUME NEW l \in Launcher, LaunchPoll(l) PROVE SignalsHitTheNamed'
  BY <1>5 DEF LaunchPoll, files, procs, callers, stopper
<1>6. ASSUME NEW l \in Launcher, LaunchName(l) PROVE SignalsHitTheNamed'
  BY <1>6 DEF LaunchName, files, procs, callers, stopper
<1>7. ASSUME NEW l \in Launcher, LaunchRefused(l) PROVE SignalsHitTheNamed'
  BY <1>7 DEF LaunchRefused, files, procs, callers, stopper
<1>8. ASSUME NEW l \in Launcher, LaunchFails(l) PROVE SignalsHitTheNamed'
  BY <1>8 DEF LaunchFails, files, procs, callers, stopper
<1>9. ASSUME NEW c \in Controller, TakeRunLock(c) PROVE SignalsHitTheNamed'
  BY <1>9 DEF TakeRunLock, files, procs, callers, stopper, ToPlace
<1>10. ASSUME NEW c \in Controller, TurnedAway(c) PROVE SignalsHitTheNamed'
  BY <1>10 DEF TurnedAway, files, procs, callers, stopper, ToPlace
<1>11. ASSUME NEW c \in Controller, SeeOwnName(c) PROVE SignalsHitTheNamed'
  BY <1>11 DEF SeeOwnName, files, procs, callers, stopper, ToPlace
<1>12. ASSUME NEW c \in Controller, GiveUpWaiting(c) PROVE SignalsHitTheNamed'
  BY <1>12 DEF GiveUpWaiting, files, procs, callers, stopper, ToPlace
<1>13. ASSUME NEW c \in Controller, Enter(c) PROVE SignalsHitTheNamed'
  BY <1>13 DEF Enter, files, procs, callers, stopper, ToPlace
<1>14. ASSUME NEW c \in Controller, LoopHead(c) PROVE SignalsHitTheNamed'
  BY <1>14 DEF LoopHead, files, procs, callers, stopper, ToPlace
<1>15. ASSUME NEW c \in Controller, Beat(c) PROVE SignalsHitTheNamed'
  BY <1>15 DEF Beat, files, procs, callers, stopper, ToPlace
<1>16. ASSUME NEW c \in Controller, ReadBack(c) PROVE SignalsHitTheNamed'
  BY <1>16 DEF ReadBack, files, procs, callers, stopper, ToPlace
<1>17. ASSUME NEW c \in Controller, WriteBack(c) PROVE SignalsHitTheNamed'
  BY <1>17 DEF WriteBack, files, procs, callers, stopper, ToPlace
<1>18. ASSUME NEW c \in Controller, Exit(c) PROVE SignalsHitTheNamed'
  BY <1>18 DEF Exit, files, procs, callers, stopper, ToPlace, End, Reached
<1>19. ASSUME NEW c \in Controller, Die(c) PROVE SignalsHitTheNamed'
  BY <1>19 DEF Die, files, procs, callers, stopper, ToPlace, End, Reached
<1>20. CASE StopTerm
  BY <1>20 DEF StopTerm, files, procs, callers, stopper, End, Reached
<1>21. CASE StopSeen
  BY <1>21 DEF StopSeen, files, procs, callers, stopper
<1>22. CASE StopKill
  BY <1>22 DEF StopKill, files, procs, callers, stopper, End, Reached
<1>23. CASE StrangerComes
  BY <1>23 DEF StrangerComes, files, procs, callers, stopper, FreePID
<1>24. CASE StrangerGoes
  BY <1>24 DEF StrangerGoes, files, procs, callers, stopper
<1>25. CASE RunMoves
  BY <1>25 DEF RunMoves, files, procs, callers, stopper
<1>26. CASE UNCHANGED vars
  BY <1>26 DEF vars, files, procs, callers, stopper
<1> QED
  BY <1>1, <1>2, <1>3, <1>4, <1>5, <1>6, <1>7, <1>8, <1>9, <1>10, <1>11, <1>12, <1>13, <1>14, <1>15, <1>16, <1>17, <1>18, <1>19, <1>20, <1>21, <1>22, <1>23, <1>24, <1>25, <1>26 DEF Next, LauncherStep, ControllerStep

\* The inductive invariant holds, and with it ControllerTypeOK, SignalsHitTheNamed and
\* ConductorIsNamed (controller.py).
THEOREM ControllerInvariant == Spec => []Inv
<1>1. Inv /\ [Next]_vars => Inv'
  BY TypeStep, HoldersStep, NamedStep, AloneStep, SignalStep DEF Inv
<1> QED BY InitInv, <1>1, PTL DEF Spec

\* A stop signals the process it read the identity of and nothing else (stop_controller).
THEOREM SignalsAreSafe == Spec => []SignalsHitTheNamed
<1>1. Inv => SignalsHitTheNamed BY DEF Inv
<1> QED BY ControllerInvariant, <1>1, PTL

\* Who conducts the run can be found (run_controller, launch_controller).
THEOREM ConductorFound == Spec => []ConductorIsNamed
<1>1. Inv => ConductorIsNamed BY DEF Inv, NamedOK, ConductorIsNamed
<1> QED BY ControllerInvariant, <1>1, PTL

\* A launch whose launcher survives it is effective (launch_controller).
THEOREM LaunchesAreEffective == Spec => LaunchIsEffective
<1> DEFINE Won == \A c \in Controller :
              place[c] = "boot" /\ place'[c] = "leave" => botched \/ reused
<1>1. Inv /\ [Next]_vars => [Won]_vars
  <2> SUFFICES ASSUME Inv, [Next]_vars, NEW d \in Controller,
                      place[d] = "boot", place'[d] = "leave", ~botched, ~reused
               PROVE FALSE
    BY DEF Won
  <2> USE DEF Inv, ControllerTypeOK
  <2>2. PICK c \in Controller : ControllerStep(c)
    BY DEF Next, vars, procs, LauncherStep, LaunchLock, LaunchFound, LaunchClear, LaunchStart,
           LaunchPoll, LaunchName, LaunchRefused, LaunchFails, Die, End, StopTerm, StopSeen,
           StopKill, StrangerComes, StrangerGoes, RunMoves
  <2>3. TurnedAway(d)
    BY <2>2 DEF ControllerStep, TakeRunLock, TurnedAway, SeeOwnName, GiveUpWaiting, Enter, LoopHead,
                Beat, ReadBack, WriteBack, Exit, End, ToPlace
  <2>4. Live(d) /\ Live(runLock) /\ runLock # d /\ runLock \in Controller
    BY <2>3 DEF TurnedAway, HoldersOK, Live, Conducting
  <2>5. \A l \in Launcher : at[l] # "clear" BY <2>4 DEF AloneOK
  <2>6. \A l \in Launcher : at[l] \notin Started BY <2>4 DEF AloneOK
  <2>7. identity = d /\ identity = runLock BY <2>4, <2>5, <2>6 DEF AloneOK, Launching, Started
  <2> QED BY <2>4, <2>7
<1>2. []Inv /\ [][Next]_vars => [][Won]_vars BY <1>1, PTL
<1> QED BY ControllerInvariant, <1>2 DEF LaunchIsEffective, Won, Spec
--------------------------------------------------------------------------------
(* The refinement.                                                               *)

Who  == {c \in Controller : place[c] \in Conducting}
Past == {c \in Controller : place[c] \in Ending}

\* While one process conducts the run, the lock keeps every other from doing so.
LEMMA AtMostOne == ASSUME Inv, NEW c \in Controller, place[c] \in Conducting \cup {"wait"}
                   PROVE Who \subseteq {c}
<1> QED BY DEF Who, Inv, HoldersOK

\* A process that goes where nobody conducts is a step of the promise, or none at all.
LEMMA MoveRefines ==
    ASSUME Inv, NEW c \in Controller, NEW w \in Place, place' = [place EXCEPT ![c] = w],
           \/ place[c] = "wait" /\ w \in {"ready", "leave", "gone"}
           \/ place[c] \in Conducting /\ w \in Conducting \cup Ending
           \/ place[c] \in {"unborn", "boot"} /\ w \in {"boot", "wait"} \cup Ending
           \/ place[c] \in Ending /\ w \in Ending
    PROVE  [Sole!Next]_(Sole!svars)
<1> USE DEF Inv, ControllerTypeOK, Place, Conducting, Ending
<1>1. Who' = (Who \ {c}) \cup (IF w \in Conducting THEN {c} ELSE {}) BY DEF Who
<1>2. Past' = (Past \ {c}) \cup (IF w \in Ending THEN {c} ELSE {}) BY DEF Past
<1>3. CASE place[c] = "wait" /\ w = "ready"
  <2>1. Who = {} /\ c \notin Past BY <1>3, AtMostOne DEF Who, Past
  <2>2. Sole!Take(c) BY <1>1, <1>2, <1>3, <2>1 DEF Sole!Take, Who, Past
  <2> QED BY <2>2 DEF Sole!Next
<1>4. CASE place[c] \in Conducting /\ w \in Ending
  <2>1. Who = {c} BY <1>4, AtMostOne DEF Who
  <2>2. Sole!Give(c) BY <1>1, <1>2, <1>4, <2>1 DEF Sole!Give, Who, Past
  <2> QED BY <2>2 DEF Sole!Next
<1>5. CASE place[c] \in {"unborn", "boot", "wait"} /\ w \in Ending
  <2>1. Sole!Pass(c) BY <1>1, <1>2, <1>5 DEF Sole!Pass, Who, Past
  <2> QED BY <2>1 DEF Sole!Next
<1>6. CASE (place[c] \in Conducting <=> w \in Conducting) /\ (place[c] \in Ending <=> w \in Ending)
  <2>1. Who' = Who /\ Past' = Past BY <1>1, <1>2, <1>6 DEF Who, Past
  <2> QED BY <2>1 DEF Sole!svars, Who, Past
<1> QED BY <1>3, <1>4, <1>5, <1>6

\* A signal ends the one process it reaches.
LEMMA EndRefines ==
    ASSUME Inv, NEW c \in Controller, Live(c), NEW S, S \subseteq {c}, End(S)
    PROVE  [Sole!Next]_(Sole!svars)
<1>1. CASE S = {c}
  <2>1. place' = [place EXCEPT ![c] = "gone"]
    BY <1>1 DEF End, Inv, ControllerTypeOK
  <2>2. place[c] \in Place \ {"unborn", "gone"} BY DEF Live, Inv, ControllerTypeOK
  <2> QED BY <2>1, <2>2, MoveRefines DEF Place, Conducting, Ending
<1>2. CASE S = {}
  <2>1. place' = place BY <1>2 DEF End, Inv, ControllerTypeOK
  <2> QED BY <2>1 DEF Sole!svars
<1> QED BY <1>1, <1>2

LEMMA StepRefines == Inv /\ [Next]_vars => [Sole!Next]_(Sole!svars)
<1> SUFFICES ASSUME Inv, [Next]_vars PROVE [Sole!Next]_(Sole!svars) OBVIOUS
<1> USE ControllerAssumption DEF Place, Conducting, Ending
<1>1. ASSUME NEW l \in Launcher, LauncherStep(l), ~LaunchStart(l)
      PROVE  [Sole!Next]_(Sole!svars)
  BY <1>1 DEF LauncherStep, LaunchFound, LaunchClear, LaunchPoll, LaunchName, LaunchRefused,
              procs, Sole!svars
<1>2. ASSUME NEW l \in Launcher, LaunchLock(l) \/ LaunchFails(l) PROVE [Sole!Next]_(Sole!svars)
  BY <1>2 DEF LaunchLock, LaunchFails, procs, Sole!svars
<1>3. ASSUME NEW l \in Launcher, LaunchStart(l) PROVE [Sole!Next]_(Sole!svars)
  <2>1. PICK c \in Controller : place[c] = "unborn" /\ place' = [place EXCEPT ![c] = "boot"]
    BY <1>3 DEF LaunchStart
  <2> QED BY <2>1, MoveRefines
<1>4. ASSUME NEW c \in Controller, ControllerStep(c), ~Exit(c) PROVE [Sole!Next]_(Sole!svars)
  <2>1. CASE TakeRunLock(c) BY <2>1, MoveRefines DEF TakeRunLock, ToPlace
  <2>2. CASE TurnedAway(c) BY <2>2, MoveRefines DEF TurnedAway, ToPlace
  <2>3. CASE SeeOwnName(c) BY <2>3, MoveRefines DEF SeeOwnName, ToPlace
  <2>4. CASE GiveUpWaiting(c) BY <2>4, MoveRefines DEF GiveUpWaiting, ToPlace
  <2>5. CASE Enter(c) BY <2>5, MoveRefines DEF Enter, ToPlace
  <2>6. CASE LoopHead(c) BY <2>6, MoveRefines DEF LoopHead, ToPlace
  <2>7. CASE Beat(c) BY <2>7, MoveRefines DEF Beat, ToPlace
  <2>8. CASE ReadBack(c) BY <2>8, MoveRefines DEF ReadBack, ToPlace
  <2>9. CASE WriteBack(c) BY <2>9, MoveRefines DEF WriteBack, ToPlace
  <2> QED BY <1>4, <2>1, <2>2, <2>3, <2>4, <2>5, <2>6, <2>7, <2>8, <2>9 DEF ControllerStep
<1>5. ASSUME NEW c \in Controller, Exit(c) \/ Die(c) PROVE [Sole!Next]_(Sole!svars)
  BY <1>5, EndRefines DEF Exit, Die, Live
<1>6. CASE StopTerm
  <2>1. identity \in Controller /\ Live(identity) BY <1>6 DEF StopTerm, Alive, Inv, ControllerTypeOK
  <2>2. Reached(identity) \ {stranger} \subseteq {identity}
    BY <2>1 DEF Reached, Inv, HoldersOK
  <2>3. UNCHANGED place \/ End(Reached(identity) \ {stranger}) BY <1>6 DEF StopTerm
  <2> QED BY <2>1, <2>2, <2>3, EndRefines DEF Sole!svars
<1>7. CASE StopKill
  <2>1. aim \in Controller /\ Live(aim) BY <1>7 DEF StopKill, Alive, Inv, ControllerTypeOK
  <2>2. Reached(aim) \subseteq {aim} BY <2>1 DEF Reached, Inv, HoldersOK
  <2> QED BY <1>7, <2>1, <2>2, EndRefines DEF StopKill
<1>8. CASE StopSeen \/ StrangerComes \/ StrangerGoes \/ RunMoves \/ UNCHANGED vars
  BY <1>8 DEF StopSeen, StrangerComes, StrangerGoes, RunMoves, vars, procs, Sole!svars
<1> QED BY <1>1, <1>2, <1>3, <1>4, <1>5, <1>6, <1>7, <1>8 DEF Next

\* However launchers, kills and restarts interleave, one process at a time conducts the run
\* (controller.py:164): the processes implement SoleController.
THEOREM OneConductorAtATime == Spec => OneConductor
<1>1. Init => Sole!Init BY DEF Init, Sole!Init, Conducting, Ending
<1> QED BY <1>1, StepRefines, ControllerInvariant, PTL DEF Spec, OneConductor, Sole!Spec
================================================================================
