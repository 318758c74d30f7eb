------------------------------- MODULE MCCallb -------------------------------
(* Three daemons that are created, work, stop and exit, and two suspends.   *)
EXTENDS Callb
=============================================================================
