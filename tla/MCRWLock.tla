------------------------------ MODULE MCRWLock ------------------------------
(* An instance of RWLock for TLC.  Threads would be interchangeable, but    *)
(* symmetry is not sound for liveness.                                      *)
EXTENDS RWLock

CONSTANTS t1, t2, t3
=============================================================================
