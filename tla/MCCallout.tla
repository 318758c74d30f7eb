----------------------------- MODULE MCCallout -----------------------------
(* Model values for the runs of module Callout. *)
EXTENDS Callout, TLC

CONSTANTS t1, t2, w1, w2, k1, k2, i1, i2

Symmetry == Permutations(Timer) \cup Permutations(Worker)
=============================================================================
