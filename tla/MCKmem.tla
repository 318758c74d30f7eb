------------------------------- MODULE MCKmem -------------------------------
(* An instance of Kmem for TLC.                                             *)
EXTENDS Kmem, TLC

CONSTANTS s1, s2

\* Three buffers: enough to overflow from a CPU into the depot.
MCChunks == (s1 :> 2) @@ (s2 :> 1)

\* Two magazine sizes: one resize.
MCMagSizes == <<1, 2>>

\* Clients and CPUs are interchangeable.
Symmetry == Permutations(Client) \cup Permutations(CPU)
=============================================================================
