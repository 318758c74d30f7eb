------------------------------ MODULE MCTaskq ------------------------------
(* Instances of Taskq for TLC.                                             *)
EXTENDS Taskq, TLC

\* Workers are interchangeable, and so are clients (safety runs only).
Symmetry == Permutations(Worker) \cup Permutations(Client)
=============================================================================
