----------------------------- MODULE Semaphore -----------------------------
(***************************************************************************)
(* Counting semaphores: uts/common/os/semaphore.c.                         *)
(*                                                                         *)
(* All of the code between disp_lock_enter() and disp_lock_exit() or       *)
(* swtch() runs under the sleep queue lock, so it is one step.  A thread   *)
(* woken by sema_v() is not handed the semaphore: it tries again, later,   *)
(* and meanwhile the count may be taken by others, or the thread may find  *)
(* that a signal is pending and give up.                                   *)
(***************************************************************************)
EXTENDS Naturals, Sequences, FiniteSets

CONSTANTS
  Thread,     \* kernel threads that use the semaphore
  Pri,        \* priorities a thread may have of its own
  EPri,       \* priorities it may inherit
  Count,      \* the count given to sema_init()
  MaxCount    \* bound on s_count (the code has none but the width of int)

ASSUME SemaphoreAssumption ==
  /\ IsFiniteSet(Thread)
  /\ Pri \subseteq Nat /\ EPri \subseteq Nat \ {0}
  /\ Count \in Nat /\ MaxCount \in Nat /\ Count <= MaxCount

VARIABLES
  s_count,    \* the count
  s_slpq,     \* the sleep queue, a sequence of threads
  state,      \* Thread -> "idle", "asleep" (t_wchan = the semaphore) or "woken"
  wakeable,   \* Thread -> T_WAKEABLE: it sleeps in sema_p_sig()
  sig,        \* Thread -> a signal (or sysabort, or exit) is pending
  t_pri,      \* Thread -> its own priority
  t_epri      \* Thread -> the priority it inherits; 0 if none

pri == <<t_pri, t_epri>>
vars == <<s_count, s_slpq, state, wakeable, sig, pri>>

\* DISP_PRIO: the inherited priority, if there is one, even if it is the lower one.
DispPrio == [t \in Thread |-> IF t_epri[t] # 0 THEN t_epri[t] ELSE t_pri[t]]

TypeOK ==
  /\ s_count \in 0 .. MaxCount
  /\ s_slpq \in Seq(Thread)
  /\ state \in [Thread -> {"idle", "asleep", "woken"}]
  /\ wakeable \in [Thread -> BOOLEAN]
  /\ sig \in [Thread -> BOOLEAN]
  /\ t_pri \in [Thread -> Pri]
  /\ t_epri \in [Thread -> {0} \cup EPri]

Init ==
  /\ s_count = Count
  /\ s_slpq = <<>>
  /\ state = [t \in Thread |-> "idle"]
  /\ wakeable = [t \in Thread |-> FALSE]
  /\ sig = [t \in Thread |-> FALSE]
  /\ t_pri \in [Thread -> Pri]
  /\ t_epri = [t \in Thread |-> 0]

-----------------------------------------------------------------------------
InsertAt(q, k, t) ==
  [i \in 1 .. Len(q) + 1 |-> IF i < k THEN q[i] ELSE IF i = k THEN t ELSE q[i - 1]]

RemoveAt(q, k) ==
  [i \in 1 .. Len(q) - 1 |-> IF i < k THEN q[i] ELSE q[i + 1]]

\* Mutant: stop at the first thread of the same priority.
QueuePlaceBeforeEqual(q, k, t, p) ==
  /\ \A i \in 1 .. k - 1 : p[t] < p[q[i]]
  /\ k <= Len(q) => p[t] >= p[q[k]]

\* The walk of sema_queue() and SEMA_BLOCK stops at k: at the first thread with
\* a lower priority than t.
QueuePlace(q, k, t, p) ==
  /\ \A i \in 1 .. k - 1 : p[t] <= p[q[i]]
  /\ k <= Len(q) => p[t] > p[q[k]]

\* sema_queue() of t on q, giving r.
SemaQueue(q, r, t, p) ==
  \E k \in 1 .. Len(q) + 1 : QueuePlace(q, k, t, p) /\ r = InsertAt(q, k, t)

\* Go to sleep: SEMA_BLOCK.
SemaBlock(t, w) ==
  /\ SemaQueue(s_slpq, s_slpq', t, DispPrio)
  /\ state' = [state EXCEPT ![t] = "asleep"]
  /\ wakeable' = [wakeable EXCEPT ![t] = w]

\* Dequeue the first sleeper and make it runnable.
WakeFirst(others) ==
  /\ s_slpq' = Tail(s_slpq)
  /\ state' = [others EXCEPT ![Head(s_slpq)] = "woken"]

\* sema_p() (w = FALSE) or sema_p_sig() (w = TRUE), called or tried again: take
\* one, or sleep if the count is zero.
Try(t, w) ==
  /\ IF s_count > 0
       THEN /\ s_count' = s_count - 1
            /\ state' = [state EXCEPT ![t] = "idle"]
            /\ wakeable' = [wakeable EXCEPT ![t] = FALSE]
            /\ UNCHANGED s_slpq
       ELSE SemaBlock(t, w) /\ UNCHANGED s_count
  /\ UNCHANGED <<sig, pri>>

SemaP(t, w) == state[t] = "idle" /\ Try(t, w)

\* After swtch(): the thread has been woken and runs again.  In sema_p_sig() it
\* first looks for a signal.
Retry(t) ==
  /\ state[t] = "woken"
  /\ ~(wakeable[t] /\ sig[t])
  /\ Try(t, wakeable[t])

\* Mutant: the interrupted thread just returns.
InterruptedDropsV(t) ==
  /\ state[t] = "woken"
  /\ wakeable[t] /\ sig[t]
  /\ state' = [state EXCEPT ![t] = "idle"]
  /\ wakeable' = [wakeable EXCEPT ![t] = FALSE]
  /\ sig' = [sig EXCEPT ![t] = FALSE]
  /\ UNCHANGED <<s_count, s_slpq, pri>>

\* sema_p_sig() returns 1.  In case sema_v() and the interrupt happened at the
\* same time, the sema_v() is passed on to the next thread.
Interrupted(t) ==
  /\ state[t] = "woken"
  /\ wakeable[t] /\ sig[t]
  /\ LET gone == [state EXCEPT ![t] = "idle"]
     IN  IF s_slpq # <<>> /\ s_count > 0
           THEN WakeFirst(gone)
           ELSE state' = gone /\ UNCHANGED s_slpq
  /\ wakeable' = [wakeable EXCEPT ![t] = FALSE]
  /\ sig' = [sig EXCEPT ![t] = FALSE]
  /\ UNCHANGED <<s_count, pri>>

\* Mutant: wake a sleeper only when the count was zero.
SemaVWakesIfZero ==
  /\ s_count < MaxCount
  /\ s_count' = s_count + 1
  /\ IF s_slpq # <<>> /\ s_count = 0
       THEN WakeFirst(state)
       ELSE UNCHANGED <<s_slpq, state>>
  /\ UNCHANGED <<wakeable, sig, pri>>

\* sema_v(): the count goes up and the first sleeper, if any, is woken.
SemaV ==
  /\ s_count < MaxCount
  /\ s_count' = s_count + 1
  /\ IF s_slpq # <<>>
       THEN WakeFirst(state)
       ELSE UNCHANGED <<s_slpq, state>>
  /\ UNCHANGED <<wakeable, sig, pri>>

\* sema_tryp() that succeeds.
SemaTryp(t) ==
  /\ state[t] = "idle"
  /\ s_count > 0
  /\ s_count' = s_count - 1
  /\ UNCHANGED <<s_slpq, state, wakeable, sig, pri>>

-----------------------------------------------------------------------------
(* What the rest of the kernel does to a thread on the queue.              *)

\* Mutant: the thread is left on the queue.
UnsleepKeepsQueue(t) ==
  /\ state[t] = "asleep"
  /\ wakeable[t] /\ sig[t]
  /\ state' = [state EXCEPT ![t] = "woken"]
  /\ UNCHANGED <<s_count, s_slpq, wakeable, sig, pri>>

\* setrun() of an interruptible sleeper with a signal, by the sender of the
\* signal or by the thread itself before its swtch(): sema_unsleep().
SemaUnsleep(t) ==
  /\ state[t] = "asleep"
  /\ wakeable[t] /\ sig[t]
  /\ \E k \in 1 .. Len(s_slpq) : s_slpq[k] = t /\ s_slpq' = RemoveAt(s_slpq, k)
  /\ state' = [state EXCEPT ![t] = "woken"]
  /\ UNCHANGED <<s_count, wakeable, sig, pri>>

\* A signal is posted, or taken back before ISSIG(t, FORREAL) sees it.
Signal(t) ==
  /\ sig' = [sig EXCEPT ![t] = ~@]
  /\ UNCHANGED <<s_count, s_slpq, state, wakeable, pri>>

\* sema_change_pri() of a sleeper: dequeue it and queue it under its new priority.
SemaChangePri(t) ==
  IF state[t] = "asleep"
  THEN \E k \in 1 .. Len(s_slpq) :
         s_slpq[k] = t /\ SemaQueue(RemoveAt(s_slpq, k), s_slpq', t, DispPrio')
  ELSE UNCHANGED s_slpq

\* thread_change_pri(): the test is on t_pri, so that a sleeper which inherits is
\* queued again although its dispatch priority stays the same.
ThreadChangePri(t, p) ==
  /\ p # t_pri[t]
  /\ t_pri' = [t_pri EXCEPT ![t] = p]
  /\ UNCHANGED t_epri
  /\ SemaChangePri(t)
  /\ UNCHANGED <<s_count, state, wakeable, sig>>

\* thread_change_epri(): turnstiles will a priority to t, or waive it.
ThreadChangeEpri(t, p) ==
  /\ p # t_epri[t]
  /\ t_epri' = [t_epri EXCEPT ![t] = p]
  /\ UNCHANGED t_pri
  /\ SemaChangePri(t)
  /\ UNCHANGED <<s_count, state, wakeable, sig>>

-----------------------------------------------------------------------------
Next ==
  \/ SemaV
  \/ \E t \in Thread :
       \/ \E w \in BOOLEAN : SemaP(t, w)
       \/ Retry(t) \/ Interrupted(t) \/ SemaTryp(t)
       \/ SemaUnsleep(t) \/ Signal(t)
       \/ \E p \in Pri : ThreadChangePri(t, p)
       \/ \E p \in {0} \cup EPri : ThreadChangeEpri(t, p)

Spec == Init /\ [][Next]_vars

\* A thread made runnable runs again and completes its turn of the loop.
Fairness == \A t \in Thread : WF_vars(Retry(t) \/ Interrupted(t))

FairSpec == Spec /\ Fairness

-----------------------------------------------------------------------------
(* Properties.                                                             *)

Woken == {t \in Thread : state[t] = "woken"}

Queued(q, t) == \E i \in 1 .. Len(q) : q[i] = t

\* The sleep queue holds each sleeping thread exactly once, and no other; a
\* thread that is not on it cannot be woken a second time.
QueueIsSleepers ==
  /\ \A t \in Thread : state[t] = "asleep" <=> Queued(s_slpq, t)
  /\ \A i, j \in 1 .. Len(s_slpq) : i # j => s_slpq[i] # s_slpq[j]

\* No sema_v() is lost: while threads sleep although the count is not zero, at
\* least as many threads are on their way to try again.
NoLostV == s_slpq # <<>> => s_count <= Cardinality(Woken)

Before(q, t, u) == \E i, j \in 1 .. Len(q) : i < j /\ q[i] = t /\ q[j] = u

\* One of the priorities of t has changed: it is queued again if it is asleep.
Changed(t) == t_pri'[t] # t_pri[t] \/ t_epri'[t] # t_epri[t]

\* t must stand before u: its dispatch priority is higher; or they are equal, t was
\* queued and keeps its place, and u was behind t, has just gone to sleep, or has
\* just been queued again.
Precedes(t, u) ==
  \/ DispPrio'[t] > DispPrio'[u]
  \/ /\ DispPrio'[t] = DispPrio'[u]
     /\ Queued(s_slpq, t) /\ ~Changed(t)
     /\ Before(s_slpq, t, u) \/ ~Queued(s_slpq, u) \/ Changed(u)

\* The head of the queue is the thread the next sema_v() wakes.  Every step leaves
\* the queue in order of dispatch priority and, among equals, of the time they were
\* queued: a thread is overtaken by an equal only when one of its own priorities
\* changes, be it one that does not show because it inherits (sema_change_pri()).
PriorityThenFifo ==
  [][\A t, u \in Thread :
       t # u /\ Queued(s_slpq', t) /\ Queued(s_slpq', u) /\ Precedes(t, u)
         => Before(s_slpq', t, u)]_vars

\* The semaphore does not stay available while threads sleep on it.
CountIsUsed == (s_count > 0 /\ s_slpq # <<>>) ~> (s_count = 0 \/ s_slpq = <<>>)
=============================================================================
