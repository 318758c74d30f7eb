---------------------------- MODULE MCSemaphore ----------------------------
(* An instance of Semaphore for TLC.  Threads would be interchangeable, but *)
(* symmetry is not sound for liveness.                                      *)
EXTENDS Semaphore

CONSTANTS t1, t2, t3
=============================================================================
