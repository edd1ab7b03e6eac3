------------------------------ MODULE Callers ------------------------------
(* The threads of a program that call into doscalls.c, for the modules whose *)
(* components are used by the same threads.                                  *)
CONSTANTS Thread, Null

ASSUME CallersAssumption == Null \notin Thread
=============================================================================
