---------------------------- MODULE MCStateStore -----------------------------
(* The state database for TLC.                                                   *)
EXTENDS StateStore
================================================================================
