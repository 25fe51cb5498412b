---------------------------- MODULE SoleController ----------------------------
(* What the controller processes of one run promise together: whatever is       *)
(* launched, killed or forgotten, the run is conducted by at most one process    *)
(* at a time, and a process that has given the run up never takes it again.      *)
(* ControllerProcess implements this specification.                              *)
CONSTANT Process

VARIABLES conducting,   \* the processes that conduct the run
          retired       \* those that never will again

svars == <<conducting, retired>>

Init == conducting = {} /\ retired = {}

Take(p) == /\ conducting = {}
           /\ p \notin retired
           /\ conducting' = {p}
           /\ UNCHANGED retired

Give(p) == /\ conducting = {p}
           /\ conducting' = {}
           /\ retired' = retired \cup {p}

\* A process ends without having conducted.
Pass(p) == /\ p \notin conducting
           /\ retired' = retired \cup {p}
           /\ UNCHANGED conducting

Next == \E p \in Process : Take(p) \/ Give(p) \/ Pass(p)

Spec == Init /\ [][Next]_svars
================================================================================
