----------------------------- MODULE RWAbstract -----------------------------
(***************************************************************************)
(* What rwlock.c promises its clients, without the lock word: who holds    *)
(* the lock, who has committed to wait for it, and how a hold is passed    *)
(* on.  Three promises of the block comment of rwlock.c are built in:      *)
(* a reader is not let in past a waiting writer, a lock with waiters is    *)
(* never released but handed to some of them in the same step, and an      *)
(* exiting reader always hands it to a writer.  Which writer, and which    *)
(* readers, is left open.                                                  *)
(***************************************************************************)
CONSTANTS Thread

VARIABLES
  holding,    \* Thread -> "N", "R" or "W"
  waiting     \* Thread -> "N", "R" or "W"

vars == <<holding, waiting>>

Mode == {"R", "W"}

Init ==
  /\ holding = [t \in Thread |-> "N"]
  /\ waiting = [t \in Thread |-> "N"]

Holds(t, m) == holding[t] = m
Waits(t, m) == waiting[t] = m

Free == \A t \in Thread : Holds(t, "N")
NobodyWaits == \A t \in Thread : Waits(t, "N")

\* A request for m would be granted at once.
Available(m) ==
  IF m = "R" THEN \A t \in Thread : ~Holds(t, "W") /\ ~Waits(t, "W")
             ELSE Free

Acquire(t, m) ==
  /\ Holds(t, "N") /\ Waits(t, "N")
  /\ Available(m)
  /\ holding' = [holding EXCEPT ![t] = m]
  /\ UNCHANGED waiting

\* Commit to wait, only for a lock that is held.
Wait(t, m) ==
  /\ Holds(t, "N") /\ Waits(t, "N")
  /\ ~Available(m)
  /\ ~Free
  /\ waiting' = [waiting EXCEPT ![t] = m]
  /\ UNCHANGED holding

OnlyHolder(t) == \A u \in Thread \ {t} : Holds(u, "N")

Release(t) ==
  /\ ~Holds(t, "N")
  /\ ~OnlyHolder(t) \/ NobodyWaits
  /\ holding' = [holding EXCEPT ![t] = "N"]
  /\ UNCHANGED waiting

\* The waiting threads S are granted the lock; t keeps it in mode m, or gives
\* it up if m = "N".
Grant(t, m, S) ==
  /\ holding' = [u \in Thread |-> IF u \in S THEN waiting[u]
                                  ELSE IF u = t THEN m ELSE holding[u]]
  /\ waiting' = [u \in Thread |-> IF u \in S THEN "N" ELSE waiting[u]]

\* The last holder hands the lock to one waiting writer or, if it is a writer,
\* to waiting readers.
PassOn(t) ==
  /\ ~Holds(t, "N") /\ OnlyHolder(t)
  /\ \/ \E w \in Thread : Waits(w, "W") /\ Grant(t, "N", {w})
     \/ /\ Holds(t, "W")
        /\ \E S \in (SUBSET Thread) \ {{}} :
             (\A r \in S : Waits(r, "R")) /\ Grant(t, "N", S)

Downgrade(t) ==
  /\ Holds(t, "W")
  /\ holding' = [holding EXCEPT ![t] = "R"]
  /\ UNCHANGED waiting

\* A thread that has just downgraded lets waiting readers in.
Admit(t) ==
  /\ Holds(t, "R")
  /\ \E S \in (SUBSET Thread) \ {{}} :
       (\A r \in S : Waits(r, "R")) /\ Grant(t, "R", S)

Upgrade(t) ==
  /\ Holds(t, "R") /\ OnlyHolder(t)
  /\ \A u \in Thread : ~Waits(u, "W")
  /\ holding' = [holding EXCEPT ![t] = "W"]
  /\ UNCHANGED waiting

Next ==
  \E t \in Thread :
    \/ \E m \in Mode : Acquire(t, m) \/ Wait(t, m)
    \/ Release(t) \/ PassOn(t) \/ Downgrade(t) \/ Admit(t) \/ Upgrade(t)

Spec == Init /\ [][Next]_vars
=============================================================================
