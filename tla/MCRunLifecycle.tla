--------------------------- MODULE MCRunLifecycle ---------------------------
(* Instances of RunLifecycle for TLC.                                        *)
EXTENDS RunLifecycle

CONSTANTS run, ctl, o1, o2, a1, s1, s2
=============================================================================
