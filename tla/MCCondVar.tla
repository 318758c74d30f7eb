----------------------------- MODULE MCCondVar -----------------------------
(* Model values for the run of module CondVar. *)
EXTENDS CondVar, TLC

CONSTANTS t1, t2, t3
=============================================================================
