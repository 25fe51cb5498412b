-------------------------- MODULE ControllerProcess --------------------------
(* The detached controller of one run (controller.py): the launchers that        *)
(* start it under the launch lock, the controllers that compete for the run      *)
(* lock, the identity file that names the one to be found again, and the stop    *)
(* that signals only the process the file names.                                 *)
(*                                                                               *)
(* A controller stands for one process: its PID, which the system may give to    *)
(* another process after it, and its start ticks, which it shares with nobody.   *)
(* The identity file holds PID and ticks, so it holds a controller; both locks   *)
(* are flocks, free as soon as their holder is dead.  A liveness test and the    *)
(* signal that directly follows it are one step.                                 *)
EXTENDS Naturals

CONSTANTS Controller,   \* the processes that may be started
          Launcher,     \* callers of launch_controller
          PID,
          none,
          stranger      \* a process that is no controller of this run

ASSUME ControllerAssumption ==
    /\ PID # {}
    /\ none \notin Controller \cup Launcher
    /\ stranger \notin Controller \cup {none}

VARIABLES
    over,         \* the store says terminal, needs_input or stopping
    launchLock,   \* the launcher that holds <run>.launch.lock
    runLock,      \* the controller that holds <run>.lock
    identity,     \* <run>.pid.json
    place, pid,   \* of a controller: where it is, its PID
    note,         \* what its last read of the identity file returned
    asked,        \* controllers whose _STOP is set
    at, child,    \* of a launcher: where it is, the process it started
    strangers,    \* PIDs held by other processes
    stopAt, aim,  \* of stop_controller: where it is, the process it aims at
    struck,       \* the processes its last signal reached
    botched,      \* a launcher died or failed between the start and the naming
    reused        \* a controller was given the PID that was on file

files   == <<launchLock, runLock, identity>>
procs   == <<place, pid, note, asked>>
callers == <<at, child, botched, reused>>
stopper == <<stopAt, aim, struck>>
vars    == <<over, files, procs, callers, strangers, stopper>>

Conducting == {"ready", "work", "turn"}
Ending     == {"leave", "mark", "shut", "gone"}
Place      == {"unborn", "boot", "wait"} \cup Conducting \cup Ending

Live(c) == place[c] \notin {"unborn", "gone"}

\* process_identity_matches and the command line: exactly that process lives.
Alive(c) == c # none /\ Live(c)

SamePID(c, d) == d # none /\ pid[d] = pid[c]

Init ==
    /\ over \in BOOLEAN
    /\ launchLock = none /\ runLock = none /\ identity = none
    /\ place = [c \in Controller |-> "unborn"]
    /\ pid = [c \in Controller |-> CHOOSE p \in PID : TRUE]   \* meaningless before the start
    /\ note = [c \in Controller |-> none]
    /\ asked = {}
    /\ at = [l \in Launcher |-> "out"]
    /\ child = [l \in Launcher |-> none]
    /\ botched = FALSE /\ reused = FALSE
    /\ strangers = {}
    /\ stopAt = "out" /\ aim = none /\ struck = {}
--------------------------------------------------------------------------------
(* launch_controller.                                                            *)

LaunchLock(l) ==
    /\ at[l] = "out" /\ launchLock = none
    /\ \E c \in Controller : place[c] = "unborn"   \* bound: the starts
    /\ launchLock' = l
    /\ at' = [at EXCEPT ![l] = "locked"]
    /\ UNCHANGED <<over, runLock, identity, procs, child, botched, reused, strangers, stopper>>

\* The controller on file lives: the launch is done.
LaunchFound(l) ==
    /\ at[l] = "locked" /\ Alive(identity)
    /\ launchLock' = none
    /\ at' = [at EXCEPT ![l] = "out"]
    /\ UNCHANGED <<over, runLock, identity, procs, child, botched, reused, strangers, stopper>>

\* (Mutant: the controller on file is not looked at.)
LaunchClearAnyway(l) ==
    /\ at[l] = "locked"
    /\ at' = [at EXCEPT ![l] = "clear"]
    /\ UNCHANGED <<over, files, procs, child, botched, reused, strangers, stopper>>

LaunchClear(l) ==
    /\ at[l] = "locked" /\ ~Alive(identity)
    /\ at' = [at EXCEPT ![l] = "clear"]
    /\ UNCHANGED <<over, files, procs, child, botched, reused, strangers, stopper>>

FreePID(p) == p \notin strangers /\ \A c \in Controller : Live(c) => pid[c] # p

LaunchStart(l) ==
    /\ at[l] = "clear"
    /\ \E c \in Controller, p \in PID :
        /\ place[c] = "unborn" /\ FreePID(p)
        /\ place' = [place EXCEPT ![c] = "boot"]
        /\ pid' = [pid EXCEPT ![c] = p]
        /\ child' = [child EXCEPT ![l] = c]
        /\ reused' = (reused \/ (identity # none /\ pid[identity] = p))
    /\ at' = [at EXCEPT ![l] = "started"]
    /\ UNCHANGED <<over, files, note, asked, botched, strangers, stopper>>

\* proc.poll() still says that it runs; it may be gone when the file is written.
LaunchPoll(l) ==
    /\ at[l] = "started" /\ Live(child[l])
    /\ at' = [at EXCEPT ![l] = "polled"]
    /\ UNCHANGED <<over, files, procs, child, botched, reused, strangers, stopper>>

LaunchName(l) ==
    /\ at[l] = "polled"
    /\ identity' = child[l]
    /\ launchLock' = none
    /\ at' = [at EXCEPT ![l] = "out"]
    /\ child' = [child EXCEPT ![l] = none]
    /\ UNCHANGED <<over, runLock, procs, botched, reused, strangers, stopper>>

\* "detached controller failed to start".
LaunchRefused(l) ==
    /\ at[l] = "started" /\ ~Live(child[l])
    /\ launchLock' = none
    /\ at' = [at EXCEPT ![l] = "out"]
    /\ child' = [child EXCEPT ![l] = none]
    /\ UNCHANGED <<over, runLock, identity, procs, botched, reused, strangers, stopper>>

\* The caller is killed, or one of its calls raises: the lock is free either way.
LaunchFails(l) ==
    /\ at[l] # "out"
    /\ launchLock' = none
    /\ at' = [at EXCEPT ![l] = "out"]
    /\ child' = [child EXCEPT ![l] = none]
    /\ botched' = (botched \/ at[l] \in {"started", "polled"})
    /\ UNCHANGED <<over, runLock, identity, procs, reused, strangers, stopper>>

LauncherStep(l) ==
    \/ LaunchFound(l) \/ LaunchClear(l) \/ LaunchStart(l)
    \/ LaunchPoll(l) \/ LaunchName(l) \/ LaunchRefused(l)
--------------------------------------------------------------------------------
(* run_controller.                                                               *)

ToPlace(c, w) == place' = [place EXCEPT ![c] = w]

\* Processes end: what they knew is lost and their lock is free.
End(S) ==
    /\ place' = [c \in Controller |-> IF c \in S THEN "gone" ELSE place[c]]
    /\ note' = [c \in Controller |-> IF c \in S THEN none ELSE note[c]]
    /\ asked' = asked \ S
    /\ runLock' = IF runLock \in S THEN none ELSE runLock

\* (Mutant: the lock is shared.)
TakeRunLockShared(c) ==
    /\ place[c] = "boot"
    /\ runLock' = c
    /\ ToPlace(c, "wait")
    /\ UNCHANGED <<over, launchLock, identity, pid, note, asked, callers, strangers, stopper>>

TakeRunLock(c) ==
    /\ place[c] = "boot" /\ runLock = none
    /\ runLock' = c
    /\ ToPlace(c, "wait")
    /\ UNCHANGED <<over, launchLock, identity, pid, note, asked, callers, strangers, stopper>>

\* LOCK_NB fails: another process conducts the run, or is about to.
TurnedAway(c) ==
    /\ place[c] = "boot" /\ runLock # none
    /\ ToPlace(c, "leave")
    /\ UNCHANGED <<over, files, pid, note, asked, callers, strangers, stopper>>

\* (Mutant: any name will do.)
SeeSomeName(c) ==
    /\ place[c] = "wait" /\ identity # none
    /\ ToPlace(c, "ready")
    /\ UNCHANGED <<over, files, pid, note, asked, callers, strangers, stopper>>

\* The file carries its PID (the ticks are not compared).
SeeOwnName(c) ==
    /\ place[c] = "wait" /\ SamePID(c, identity)
    /\ ToPlace(c, "ready")
    /\ UNCHANGED <<over, files, pid, note, asked, callers, strangers, stopper>>

\* (Mutant: no deadline for the name.)
WaitForName(c) == FALSE /\ UNCHANGED vars

\* Two seconds without a name.
GiveUpWaiting(c) ==
    /\ place[c] = "wait" /\ ~SamePID(c, identity)
    /\ ToPlace(c, "leave")
    /\ UNCHANGED <<over, files, pid, note, asked, callers, strangers, stopper>>

\* The signal handlers are installed and the spec is read; without one it returns.
Enter(c) ==
    /\ place[c] = "ready"
    /\ ToPlace(c, "work") \/ ToPlace(c, "leave")
    /\ UNCHANGED <<over, files, pid, note, asked, callers, strangers, stopper>>

\* (Mutant: only _STOP ends the loop.)
LoopOn(c) ==
    /\ place[c] = "work"
    /\ ToPlace(c, IF c \in asked THEN "leave" ELSE "turn")
    /\ UNCHANGED <<over, files, pid, note, asked, callers, strangers, stopper>>

\* Head of the loop: _STOP, then get_run; reconcile is entered when neither ends it.
LoopHead(c) ==
    /\ place[c] = "work"
    /\ ToPlace(c, IF c \in asked \/ over THEN "leave" ELSE "turn")
    /\ UNCHANGED <<over, files, pid, note, asked, callers, strangers, stopper>>

\* reconcile is done, the file is written with a new heartbeat.  The loop ends on the
\* state read before that write, on the deadline, or because reconcile raised.
Beat(c) ==
    /\ place[c] = "turn"
    /\ \/ identity' = c /\ (ToPlace(c, "work") \/ ToPlace(c, "leave"))
       \/ ToPlace(c, "leave") /\ UNCHANGED identity
    /\ UNCHANGED <<over, launchLock, runLock, pid, note, asked, callers, strangers, stopper>>

\* finally: the file is read, and written back as read if it carries this PID.
ReadBack(c) ==
    /\ place[c] = "leave"
    /\ note' = [note EXCEPT ![c] = identity]
    /\ ToPlace(c, "mark")
    /\ UNCHANGED <<over, files, pid, asked, callers, strangers, stopper>>

WriteBack(c) ==
    /\ place[c] = "mark"
    /\ identity' = IF SamePID(c, note[c]) THEN note[c] ELSE identity
    /\ note' = [note EXCEPT ![c] = none]
    /\ ToPlace(c, "shut")
    /\ UNCHANGED <<over, launchLock, runLock, pid, asked, callers, strangers, stopper>>

\* The lock is closed and the process ends.
Exit(c) ==
    /\ place[c] = "shut"
    /\ End({c})
    /\ UNCHANGED <<over, launchLock, identity, pid, callers, strangers, stopper>>

ControllerStep(c) ==
    \/ TakeRunLock(c) \/ TurnedAway(c) \/ SeeOwnName(c) \/ GiveUpWaiting(c)
    \/ Enter(c) \/ LoopHead(c) \/ Beat(c) \/ ReadBack(c) \/ WriteBack(c) \/ Exit(c)

\* Killed from outside, at any point.
Die(c) ==
    /\ Live(c)
    /\ End({c})
    /\ UNCHANGED <<over, launchLock, identity, pid, callers, strangers, stopper>>
--------------------------------------------------------------------------------
(* stop_controller.                                                              *)

\* The processes a signal to the PID of c reaches.
Reached(c) == {d \in Controller : Live(d) /\ pid[d] = pid[c]}
                  \cup IF pid[c] \in strangers THEN {stranger} ELSE {}

\* SIGTERM: a controller in its loop notes it, one without handlers dies of it.
StopTerm ==
    /\ stopAt = "out" /\ Alive(identity)
    /\ aim' = identity
    /\ struck' = Reached(identity)
    /\ stopAt' = "grace"
    /\ LET hit == Reached(identity) \ {stranger} IN
       \/ /\ \A c \in hit : place[c] \in {"work", "turn", "leave", "mark", "shut"}
          /\ asked' = asked \cup hit
          /\ UNCHANGED <<place, note, runLock>>
       \/ /\ \A c \in hit : place[c] \notin {"work", "turn"}
          /\ End(hit)
    /\ UNCHANGED <<over, launchLock, identity, pid, callers, strangers>>

\* It went within the grace period.
StopSeen ==
    /\ stopAt \in {"grace", "killed"} /\ ~Alive(aim)
    /\ stopAt' = "out"
    /\ aim' = none /\ struck' = {}
    /\ UNCHANGED <<over, files, procs, callers, strangers>>

\* (Mutant: the identity is not verified again.)
StopKillAnyway ==
    /\ stopAt = "grace"
    /\ struck' = Reached(aim)
    /\ stopAt' = "killed"
    /\ End(Reached(aim))
    /\ UNCHANGED <<over, launchLock, identity, pid, callers, strangers, aim>>

\* The grace period is over: the identity is verified again, then SIGKILL.
StopKill ==
    /\ stopAt = "grace" /\ Alive(aim)
    /\ struck' = Reached(aim)
    /\ stopAt' = "killed"
    /\ End(Reached(aim))
    /\ UNCHANGED <<over, launchLock, identity, pid, callers, strangers, aim>>
--------------------------------------------------------------------------------
\* PIDs of other processes; bound: they come while a stop is under way, one at a time.
StrangerComes == \E p \in PID :
    /\ FreePID(p) /\ strangers = {} /\ stopAt # "out"
    /\ strangers' = strangers \cup {p}
    /\ UNCHANGED <<over, files, procs, callers, stopper>>

StrangerGoes == \E p \in strangers :
    /\ strangers' = strangers \ {p}
    /\ UNCHANGED <<over, files, procs, callers, stopper>>

\* The run ends, is asked a question, is stopped, or goes on after an answer.
RunMoves ==
    /\ over' = ~over
    /\ UNCHANGED <<files, procs, callers, strangers, stopper>>

Next ==
    \/ \E l \in Launcher : LaunchLock(l) \/ LauncherStep(l) \/ LaunchFails(l)
    \/ \E c \in Controller : ControllerStep(c) \/ Die(c)
    \/ StopTerm \/ StopSeen \/ StopKill
    \/ StrangerComes \/ StrangerGoes \/ RunMoves

\* Processes that run go on running; nobody has to launch, stop or die.
Fairness ==
    /\ \A l \in Launcher : WF_vars(LauncherStep(l))
    /\ \A c \in Controller : WF_vars(ControllerStep(c))

Spec == Init /\ [][Next]_vars

FairSpec == Spec /\ Fairness
--------------------------------------------------------------------------------
\* Processes, files and names stay what the code makes them (controller.py).
ControllerTypeOK ==
    /\ {over, botched, reused} \subseteq BOOLEAN
    /\ launchLock \in Launcher \cup {none}
    /\ runLock \in Controller \cup {none}
    /\ identity \in Controller \cup {none}
    /\ place \in [Controller -> Place]
    /\ pid \in [Controller -> PID]
    /\ note \in [Controller -> Controller \cup {none}]
    /\ asked \subseteq Controller
    /\ at \in [Launcher -> {"out", "locked", "clear", "started", "polled"}]
    /\ child \in [Launcher -> Controller \cup {none}]
    /\ strangers \subseteq PID
    /\ stopAt \in {"out", "grace", "killed"}
    /\ aim \in Controller \cup {none}
    /\ struck \subseteq Controller \cup {stranger}

\* The detailed model implements the promise: conducting and retired are read off the
\* places of the processes (run_controller, controller.py:215-290).
Sole == INSTANCE SoleController WITH
            Process    <- Controller,
            conducting <- {c \in Controller : place[c] \in Conducting},
            retired    <- {c \in Controller : place[c] \in Ending}

\* "Start exactly one detached controller" (launch_controller, controller.py:164): however
\* launchers, kills and restarts interleave, one process at a time conducts the run.
OneConductor == Sole!Spec

\* The process that conducts the run is the one the identity file names with PID and
\* ticks, so that a stop and the next launch find it, as long as no controller was given
\* the PID that was on file: run_controller compares the PIDs alone (controller.py:231).
ConductorIsNamed ==
    ~reused => \A c \in Controller : place[c] \in Conducting => identity = c

\* As long as no launcher fails between the start and the naming, and no PID on file is
\* given away, a controller that was started never loses the race for the run lock: the launch was effective.
LaunchIsEffective ==
    [][\A c \in Controller : place[c] = "boot" /\ place'[c] = "leave" => botched \/ reused]_vars

\* "PID reuse between TERM and KILL must never target a replacement process"
\* (controller.py:194): every process a stop signals is the one it read the identity of.
SignalsHitTheNamed == struck \subseteq {aim}

\* A controller that was never named, whose launcher died for instance, does not keep
\* the run lock for ever: it conducts the run or lets go.
LockIsPassedOn ==
    \A c \in Controller :
        (runLock = c /\ place[c] \notin Conducting) ~> (runLock # c \/ place[c] \in Conducting)

\* A run that stays finished, stopping or waiting for an answer is left by its controllers.
OverRunIsLeft ==
    \A c \in Controller : <>[]over => <>[](place[c] \notin Conducting)
================================================================================
