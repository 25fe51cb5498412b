------------------------------ MODULE RunStates ------------------------------
(* The run-state machine of run.py: the states of a high-level run and the   *)
(* transitions the store accepts.                                            *)

RunState == {"queued", "planning", "running", "needs_input", "review", "rework",
             "stopping", "completed", "blocked", "failed", "cancelled"}

\* TERMINAL_STATES: what ends a controller.  A blocked run may still be resumed.
TerminalState == {"completed", "blocked", "failed", "cancelled"}

\* What no command touches any more.
FinalState == {"completed", "failed", "cancelled"}

\* Any active state may turn to failed or blocked (_ALWAYS).
ValidTransitions ==
    LET always == {"failed", "blocked"} IN
    [ queued      |-> {"planning", "stopping"} \cup always,
      planning    |-> {"running", "needs_input", "stopping"} \cup always,
      running     |-> {"review", "needs_input", "rework", "stopping", "completed"}
                         \cup always,
      needs_input |-> {"running", "planning", "stopping"} \cup always,
      review      |-> {"rework", "completed", "stopping"} \cup always,
      rework      |-> {"running", "review", "stopping"} \cup always,
      stopping    |-> {"cancelled", "completed"} \cup always,
      completed   |-> {},
      blocked     |-> {"planning", "running", "stopping"},
      failed      |-> {},
      cancelled   |-> {} ]

CanTransition(src, dst) == src = dst \/ dst \in ValidTransitions[src]

\* _safe_set: a transition the table does not have is silently not made.
SafeSet(src, dst) == IF CanTransition(src, dst) THEN dst ELSE src
=============================================================================
