-------------------------- MODULE MCWorkerDispatch --------------------------
(* Values for model checking WorkerDispatch.  Tasks are listed with their   *)
(* slot and their parents; t1 and t3 share a slot, and t3 follows t1, so a  *)
(* worker that has reported but not exited is in the way of the next one.   *)
EXTENDS WorkerDispatch, TLC

CONSTANTS r1, r2, t1, t2, t3, s1, s2, c1, c2, o1

OneRun == (t1 :> r1) @@ (t2 :> r1) @@ (t3 :> r1)
OneRun2 == (t1 :> r1) @@ (t2 :> r1)
TwoRuns == (t1 :> r1) @@ (t2 :> r2)

SharedSlot == (t1 :> s1) @@ (t2 :> s2) @@ (t3 :> s1)
OwnSlots == (t1 :> s1) @@ (t2 :> s2)
SameSlot == (t1 :> s1) @@ (t2 :> s1)

Chain == (t1 :> {}) @@ (t2 :> {}) @@ (t3 :> {t1})
NoParents == (t1 :> {}) @@ (t2 :> {})
Pair == (t1 :> {}) @@ (t2 :> {t1})

OneController == (c1 :> r1)
WithObserver == (c1 :> r1) @@ (o1 :> r1)
TwoControllers == (c1 :> r1) @@ (c2 :> r2)
=============================================================================
