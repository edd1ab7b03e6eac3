----------------------------- MODULE MCEventSem -----------------------------
(* Three threads on one event semaphore. *)
EXTENDS EventSem

CONSTANTS t1, t2, t3

MCGarbage == {-1, 0, 1}
=============================================================================
