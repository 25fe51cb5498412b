------------------------- MODULE MCControllerProcess -------------------------
(* The controllers of one run for TLC: with two PIDs for three processes and a    *)
(* stranger, a PID that becomes free is soon taken by something else.             *)
EXTENDS ControllerProcess
================================================================================
