----------------------------- MODULE RunMachine -----------------------------
(* What run.py promises about a run: its state moves along VALID_TRANSITIONS *)
(* and never otherwise, so a finished run stays as it ended.                 *)
EXTENDS RunStates

VARIABLE state

Init == state = "queued"

Next == \E st \in RunState : CanTransition(state, st) /\ state' = st

Spec == Init /\ [][Next]_state
=============================================================================
