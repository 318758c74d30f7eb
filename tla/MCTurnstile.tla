---------------------------- MODULE MCTurnstile ----------------------------
(* An instance of Turnstile for TLC: a blocking chain T4, T3, T2, T1 whose   *)
(* hash chains alternate 1, 2, 1, so that two walks can meet head on.        *)
EXTENDS Turnstile, TLC

CONSTANTS T1, T2, T3, T4, A, B, C

\* A and C hash to the same chain, below the chain of B.
MCChainOf == (A :> 1) @@ (B :> 2) @@ (C :> 1)

\* Locks are taken in the order C, B, A: no cycles.
MCWants == (T1 :> <<A>>) @@ (T2 :> <<B, A>>) @@ (T3 :> <<C, B>>) @@ (T4 :> <<C, A>>)

\* Each waiter above the thread that blocks it; and a mix with a tie, in
\* which some walks stop early.
MCBasePri ==
  {(T1 :> 1) @@ (T2 :> 2) @@ (T3 :> 3) @@ (T4 :> 4),
   (T1 :> 1) @@ (T2 :> 3) @@ (T3 :> 3) @@ (T4 :> 2)}
=============================================================================
