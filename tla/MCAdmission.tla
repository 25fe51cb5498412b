----------------------------- MODULE MCAdmission -----------------------------
(* Admission for TLC: two attempts at one task, and the two admitters.            *)
EXTENDS Admission, TLC

CONSTANT t1

TwoAttempts == [s \in Session |-> t1]
Children    == Permutations(Child)
================================================================================
