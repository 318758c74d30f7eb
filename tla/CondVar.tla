------------------------------ MODULE CondVar ------------------------------
(***************************************************************************)
(* Condition variables: uts/common/os/condvar.c, one condition variable    *)
(* with its mutex mp and clients that use it the usual way.                *)
(*                                                                         *)
(* What happens under the lock of the sleep queue is one step.  The sleep  *)
(* queue is a set: its order decides who is woken first, never whether.    *)
(* Time is relative: left[t] ticks remain until the time t was given,      *)
(* fire[t] until its callout is due.  Callouts are what module Callout     *)
(* shows of them: one that is due is executed some time, untimeout()       *)
(* cancels it or waits for its handler.                                    *)
(*                                                                         *)
(* cv_wait_sig_swap() takes the steps of cv_wait_sig().                    *)
(*                                                                         *)
(* The clients wait while `ready', which mp protects, is false, and set it *)
(* under mp; whoever sets it calls cv_broadcast(), with or without mp.     *)
(***************************************************************************)
EXTENDS Integers, FiniteSets

CONSTANTS
  Thread,
  Waiter,         \* the threads that wait; the others may be interrupt threads
  NoThread,       \* mp is free
  CV_MAX_WAITERS,
  MaxDelta        \* bound on the ticks given to a timed wait

ASSUME CondVarAssumption ==
  /\ IsFiniteSet(Thread) /\ Waiter \subseteq Thread /\ NoThread \notin Thread
  /\ CV_MAX_WAITERS \in Nat \ {0} /\ MaxDelta \in Nat \ {0}

VARIABLES
  cv_waiters,
  sleepq,     \* threads on the sleep queue for this condition variable
  mp,         \* the mutex: its owner
  ready,      \* the clients' condition
  pc,         \* Thread -> where it is in the wait functions
  kind,       \* Thread -> which of them it is in
  call,       \* Thread -> where it is in cv_signal(), cv_broadcast()
  sig,        \* Thread -> a signal, or another reason to return, is pending
  left,       \* Thread -> tim - lbolt, 0 once that is <= 0
  timeleft,   \* Thread -> the local: what left was at the call
  fire,       \* Thread -> c_runtime - lbolt, 0 once that is <= 0
  timeout     \* Thread -> state of its callout

client == <<ready, call>>
time == <<left, timeleft, fire>>
vars == <<cv_waiters, sleepq, mp, client, pc, kind, sig, time, timeout>>

Kind == {"cv_wait", "cv_wait_sig", "cv_timedwait", "cv_timedwait_sig", "cv_wait_stop"}
Timed == {"cv_timedwait", "cv_timedwait_sig", "cv_wait_stop"}
Sig == {"cv_wait_sig", "cv_timedwait_sig"}
PC == {"out", "in", "arm", "armed", "blocked", "released", "swtch", "untimeout", "done_cv",
       "stop", "enter", "schedctl", "issig_pending", "issig", "reenter"}

\* Types of the variables.
TypeOK ==
  /\ cv_waiters \in 0 .. CV_MAX_WAITERS
  /\ sleepq \in SUBSET Thread
  /\ mp \in Thread \cup {NoThread}
  /\ ready \in BOOLEAN
  /\ pc \in [Thread -> PC]
  /\ kind \in [Thread -> Kind \cup {"none"}]
  /\ call \in [Thread -> {"none", "owes", "cv_signal", "cv_broadcast"}]
  /\ sig \in [Thread -> BOOLEAN]
  /\ left \in [Thread -> 0 .. MaxDelta]
  /\ timeleft \in [Thread -> 0 .. MaxDelta]
  /\ fire \in [Thread -> 0 .. MaxDelta]
  /\ timeout \in [Thread -> {"none", "pending", "running", "ran"}]

Init ==
  /\ cv_waiters = 0 /\ sleepq = {} /\ mp = NoThread /\ ready = FALSE
  /\ pc = [t \in Thread |-> "out"]
  /\ kind = [t \in Thread |-> "none"]
  /\ call = [t \in Thread |-> "none"]
  /\ sig = [t \in Thread |-> FALSE]
  /\ left = [t \in Thread |-> 0]
  /\ timeleft = [t \in Thread |-> 0]
  /\ fire = [t \in Thread |-> 0]
  /\ timeout = [t \in Thread |-> "none"]

Goto(t, where) == pc' = [pc EXCEPT ![t] = where]

\* The same, if that may be the return from the function.
GotoOrReturn(t, where) ==
  /\ Goto(t, where)
  /\ kind' = [kind EXCEPT ![t] = IF where = "in" THEN "none" ELSE @]

-----------------------------------------------------------------------------
(* The count of waiters and the sleep queue.                               *)

\* cv_block(): the count saturates.
Sleep(t) ==
  /\ cv_waiters' = IF cv_waiters < CV_MAX_WAITERS THEN cv_waiters + 1 ELSE cv_waiters
  /\ sleepq' = sleepq \cup {t}

SleepqUnsleep(t) == sleepq' = sleepq \ {t}

\* The first thread in the queue, if there is one.
SleepqWakeone ==
  \/ sleepq = {} /\ UNCHANGED sleepq
  \/ \E t \in sleepq : sleepq' = sleepq \ {t}

SleepqWakeall == sleepq' = {}

\* setrun(), which calls cv_unsleep() if the thread is asleep.
Setrun(t) ==
  IF t \in sleepq
    THEN /\ SleepqUnsleep(t)
         /\ cv_waiters' = IF cv_waiters # CV_MAX_WAITERS THEN cv_waiters - 1 ELSE cv_waiters
    ELSE UNCHANGED <<sleepq, cv_waiters>>

-----------------------------------------------------------------------------
(* cv_wait(), cv_wait_sig(), cv_timedwait(), cv_timedwait_sig(),           *)
(* cv_wait_stop()                                                          *)

\* A call, by a client that holds mp and has found its condition false.  A
\* timed wait whose time has passed returns at once, but for a check for signals.
CvWait(t, k, delta) ==
  /\ pc[t] = "in" /\ call[t] = "none" /\ ~ready
  /\ IF k \in Timed THEN delta > 0 \/ k \in Sig ELSE delta = 0
  /\ kind' = [kind EXCEPT ![t] = k]
  /\ left' = [left EXCEPT ![t] = delta]
  /\ timeleft' = [timeleft EXCEPT ![t] = delta]
  /\ Goto(t, IF k \notin Timed THEN "armed" ELSE IF delta > 0 THEN "arm" ELSE "issig_pending")
  /\ UNCHANGED <<cv_waiters, sleepq, mp, client, sig, fire, timeout>>

\* What a timed wait passes to realtime_timeout(); cv_wait_stop() subtracts lbolt
\* again.
Ticks(t) == IF kind[t] = "cv_wait_stop" THEN left[t] ELSE timeleft[t]

\* realtime_timeout(setrun, t, ticks), which adds ticks to the time it is now, but
\* at least one.
RealtimeTimeout(t) ==
  /\ pc[t] = "arm"
  /\ fire' = [fire EXCEPT ![t] = IF Ticks(t) > 0 THEN Ticks(t) ELSE 1]
  /\ timeleft' = [timeleft EXCEPT ![t] = 0]
  /\ timeout' = [timeout EXCEPT ![t] = "pending"]
  /\ Goto(t, "armed")
  /\ UNCHANGED <<cv_waiters, sleepq, mp, client, kind, sig, left>>

\* cv_block(), still holding mp.
CvBlock(t) ==
  /\ pc[t] = "armed"
  /\ Sleep(t)
  /\ Goto(t, "blocked")
  /\ UNCHANGED <<mp, client, kind, sig, time, timeout>>

\* schedctl_block() has to drop mp to start another lwp: what t has found under mp
\* no longer holds, so it does not wait at all.
NotBlocking(t) ==
  /\ pc[t] = "armed" /\ kind[t] \in Sig
  /\ mp' = NoThread
  /\ Goto(t, "schedctl")
  /\ UNCHANGED <<cv_waiters, sleepq, client, kind, sig, time, timeout>>

\* mutex_exit(mp)
MutexExitBlocked(t) ==
  /\ pc[t] = "blocked"
  /\ mp' = NoThread
  /\ Goto(t, "released")
  /\ UNCHANGED <<cv_waiters, sleepq, client, kind, sig, time, timeout>>

\* Mutant: only signals are looked for, since the callout wakes the thread.
WakeSelfIfSignalled(t) == kind[t] \in Sig /\ sig[t]

\* Is there a reason not to sleep that came before cv_block()?
WakeSelf(t) == (kind[t] \in Timed /\ left[t] = 0) \/ (kind[t] \in Sig /\ sig[t])

CheckSelf(t) ==
  /\ pc[t] = "released"
  /\ IF WakeSelf(t) THEN Setrun(t) ELSE UNCHANGED <<sleepq, cv_waiters>>
  /\ Goto(t, "swtch")
  /\ UNCHANGED <<mp, client, kind, sig, time, timeout>>

\* swtch() returns, the thread having been taken off the sleep queue.
Swtch(t) ==
  /\ pc[t] = "swtch"
  /\ t \notin sleepq
  /\ Goto(t, IF kind[t] \in Timed \ Sig THEN "untimeout" ELSE "enter")
  /\ UNCHANGED <<cv_waiters, sleepq, mp, client, kind, sig, time, timeout>>

\* Mutant: the wait goes on although schedctl_block() has dropped mp.
AfterEnterWaits(t) ==
  IF pc[t] = "schedctl" THEN "armed"
  ELSE IF pc[t] = "reenter" \/ kind[t] \notin Sig THEN "in"
  ELSE IF kind[t] \in Timed THEN "untimeout" ELSE "issig_pending"

\* cv_timedwait_sig() calls untimeout() after mutex_enter(mp), the others before.
AfterEnter(t) ==
  IF pc[t] = "reenter" \/ kind[t] \notin Sig THEN "in"
  ELSE IF kind[t] \in Timed THEN "untimeout" ELSE "issig_pending"

\* mutex_enter(mp), after swtch(), in schedctl_block() or after issig().
MutexEnterAgain(t) ==
  /\ pc[t] \in {"enter", "schedctl", "reenter"} /\ mp = NoThread
  /\ mp' = t
  /\ GotoOrReturn(t, AfterEnter(t))
  /\ UNCHANGED <<cv_waiters, sleepq, client, sig, time, timeout>>

AfterUntimeout(t) ==
  IF kind[t] \in Sig THEN "issig_pending"
  ELSE IF kind[t] = "cv_wait_stop" THEN "stop" ELSE "enter"

\* Mutant: nobody looks whether the handler is running.
ExecutingNever(t) == FALSE

Executing(t) == timeout[t] \in {"running", "ran"}

\* untimeout(): cancel the callout, or find it gone, or wait for it.  The times are
\* not used any more.
Untimeout(t) ==
  /\ pc[t] = "untimeout"
  /\ timeout' = [timeout EXCEPT ![t] = IF @ = "pending" THEN "none" ELSE @]
  /\ Goto(t, IF Executing(t) THEN "done_cv" ELSE AfterUntimeout(t))
  /\ left' = [left EXCEPT ![t] = 0]
  /\ fire' = [fire EXCEPT ![t] = 0]
  /\ UNCHANGED <<cv_waiters, sleepq, mp, client, kind, sig, timeleft>>

\* The handler has completed.
UntimeoutDone(t) ==
  /\ pc[t] = "done_cv" /\ timeout[t] = "none"
  /\ Goto(t, AfterUntimeout(t))
  /\ UNCHANGED <<cv_waiters, sleepq, mp, client, kind, sig, time, timeout>>

\* cv_wait_stop() stops until there is no more reason to.
Stop(t) ==
  /\ pc[t] = "stop"
  /\ Goto(t, "enter")
  /\ UNCHANGED <<cv_waiters, sleepq, mp, client, kind, sig, time, timeout>>

\* ISSIG_PENDING: mp is dropped for issig().
IssigPending(t) ==
  /\ pc[t] = "issig_pending"
  /\ mp' = IF sig[t] THEN NoThread ELSE mp
  /\ GotoOrReturn(t, IF sig[t] THEN "issig" ELSE "in")
  /\ UNCHANGED <<cv_waiters, sleepq, client, sig, time, timeout>>

\* issig() discards a signal, or stops for it, or leaves it to be taken when the
\* thread returns to user level.
Issig(t, taken) ==
  /\ pc[t] = "issig"
  /\ sig' = [sig EXCEPT ![t] = ~taken]
  /\ Goto(t, "reenter")
  /\ UNCHANGED <<cv_waiters, sleepq, mp, client, kind, time, timeout>>

-----------------------------------------------------------------------------
(* cv_signal(), cv_broadcast()                                             *)

\* A call of cv_broadcast() by a client that owes it, of cv_signal() by any other.
\* The count is read without a lock: nothing is done if it is 0.
CvWakeup(t) ==
  /\ pc[t] \in {"out", "in"} /\ call[t] \in {"none", "owes"}
  /\ call' = [call EXCEPT ![t] = IF cv_waiters = 0 THEN "none"
                                 ELSE IF @ = "owes" THEN "cv_broadcast" ELSE "cv_signal"]
  /\ UNCHANGED <<cv_waiters, sleepq, mp, ready, pc, kind, sig, time, timeout>>

\* Mutant: the saturated count is decremented like any other.
SignalledCountNoMask == IF cv_waiters > 0 THEN cv_waiters - 1 ELSE 0

\* A count that is not saturated is exact and is decremented; a saturated one is
\* reset when no thread is found.  CV_MAX_WAITERS is a power of 2: the remainder is
\* what CV_WAITERS_MASK leaves.
SignalledCount ==
  IF cv_waiters % CV_MAX_WAITERS # 0 THEN cv_waiters - 1
  ELSE IF sleepq = {} THEN 0 ELSE cv_waiters

CvSignal(t) ==
  /\ call[t] = "cv_signal"
  /\ cv_waiters' = SignalledCount
  /\ SleepqWakeone
  /\ call' = [call EXCEPT ![t] = "none"]
  /\ UNCHANGED <<mp, ready, pc, kind, sig, time, timeout>>

CvBroadcast(t) ==
  /\ call[t] = "cv_broadcast"
  /\ SleepqWakeall
  /\ cv_waiters' = 0
  /\ call' = [call EXCEPT ![t] = "none"]
  /\ UNCHANGED <<mp, ready, pc, kind, sig, time, timeout>>

-----------------------------------------------------------------------------
(* The clients.                                                            *)

MutexEnter(t) ==
  /\ pc[t] = "out" /\ mp = NoThread /\ call[t] = "none"
  /\ mp' = t
  /\ Goto(t, "in")
  /\ UNCHANGED <<cv_waiters, sleepq, client, kind, sig, time, timeout>>

MutexExit(t) ==
  /\ pc[t] = "in" /\ call[t] \in {"none", "owes"}
  /\ mp' = NoThread
  /\ Goto(t, "out")
  /\ UNCHANGED <<cv_waiters, sleepq, client, kind, sig, time, timeout>>

SetReady(t, r) ==
  /\ pc[t] = "in" /\ call[t] = "none" /\ r # ready
  /\ ready' = r
  /\ call' = [call EXCEPT ![t] = IF r THEN "owes" ELSE "none"]
  /\ UNCHANGED <<cv_waiters, sleepq, mp, pc, kind, sig, time, timeout>>

-----------------------------------------------------------------------------
(* The clock, callouts and signals.                                        *)

Less(f) == [t \in Thread |-> IF f[t] > 0 THEN f[t] - 1 ELSE 0]

Tick ==
  /\ \E t \in Thread : left[t] > 0 \/ fire[t] > 0
  /\ left' = Less(left)
  /\ fire' = Less(fire)
  /\ UNCHANGED <<cv_waiters, sleepq, mp, client, pc, kind, sig, timeleft, timeout>>

\* callout_execute() starts t's callout; its handler is setrun(); it is done.
CalloutStart(t) ==
  /\ timeout[t] = "pending" /\ fire[t] = 0
  /\ timeout' = [timeout EXCEPT ![t] = "running"]
  /\ UNCHANGED <<cv_waiters, sleepq, mp, client, pc, kind, sig, time>>

CalloutSetrun(t) ==
  /\ timeout[t] = "running"
  /\ Setrun(t)
  /\ timeout' = [timeout EXCEPT ![t] = "ran"]
  /\ UNCHANGED <<mp, client, pc, kind, sig, time>>

CalloutDone(t) ==
  /\ timeout[t] = "ran"
  /\ timeout' = [timeout EXCEPT ![t] = "none"]
  /\ UNCHANGED <<cv_waiters, sleepq, mp, client, pc, kind, sig, time>>

\* A signal is posted, by eat_signal() of sig.c: a sleeper with T_WAKEABLE, which
\* cv_block_sig() sets, is made runnable.
EatSignal(t) ==
  /\ ~sig[t]
  /\ sig' = [sig EXCEPT ![t] = TRUE]
  /\ IF kind[t] \in Sig THEN Setrun(t) ELSE UNCHANGED <<sleepq, cv_waiters>>
  /\ UNCHANGED <<mp, client, pc, kind, time, timeout>>

\* The signal is taken, out of the functions.
Psig(t) ==
  /\ pc[t] = "out" /\ sig[t]
  /\ sig' = [sig EXCEPT ![t] = FALSE]
  /\ UNCHANGED <<cv_waiters, sleepq, mp, client, pc, kind, time, timeout>>

-----------------------------------------------------------------------------
\* Steps of t inside the wait functions that do not need mp.
Proceed(t) ==
  \/ RealtimeTimeout(t) \/ CvBlock(t) \/ NotBlocking(t) \/ MutexExitBlocked(t)
  \/ CheckSelf(t) \/ Swtch(t) \/ Untimeout(t) \/ UntimeoutDone(t) \/ Stop(t)
  \/ IssigPending(t)
  \/ \E taken \in BOOLEAN : Issig(t, taken)
Callout(t) == CalloutStart(t) \/ CalloutSetrun(t) \/ CalloutDone(t)

Next ==
  \/ \E t \in Thread :
       \/ CvWakeup(t) \/ CvSignal(t) \/ CvBroadcast(t)
       \/ MutexEnter(t) \/ MutexExit(t)
       \/ \E r \in BOOLEAN : SetReady(t, r)
  \/ \E t \in Waiter :
       \/ \E k \in Kind, delta \in 0 .. MaxDelta : CvWait(t, k, delta)
       \/ Proceed(t) \/ MutexEnterAgain(t)
       \/ Callout(t) \/ EatSignal(t) \/ Psig(t)
  \/ Tick

Spec == Init /\ [][Next]_vars

-----------------------------------------------------------------------------
(* Properties.                                                             *)

\* The count is exact unless it is saturated: cv_signal() and cv_broadcast(),
\* which do nothing if it is 0, never overlook a thread, and cv_signal() never
\* decrements it below the number of threads that remain.
CountIsExact ==
  cv_waiters # CV_MAX_WAITERS => cv_waiters = Cardinality(sleepq)

\* No wakeup is lost between the test of the condition and the sleep: nobody
\* sleeps while the condition is true and everybody who set it has called
\* cv_broadcast().
NoLostWakeup ==
  ready /\ (\A t \in Thread : call[t] \notin {"owes", "cv_broadcast"}) => sleepq = {}

\* Places in the functions where the code relies on holding mp.
Holding(t) ==
  \/ pc[t] \in {"in", "arm", "armed", "blocked", "issig_pending"}
  \/ pc[t] \in {"untimeout", "done_cv"} /\ kind[t] \in Sig

\* Every path through the wait functions returns with mp, although three places
\* drop it, and without its timeout: a thread that has returned is not hit by a
\* late setrun() when it sleeps for something else.
ReturnsClean ==
  \A t \in Thread :
    /\ Holding(t) <=> mp = t
    /\ pc[t] \in {"in", "out"} => timeout[t] = "none"

\* A thread that sleeps after it has looked whether it should will be woken: its
\* callout is yet to call setrun(), even if the callout was due before the thread was
\* on the queue, and there is no signal that came too early to wake it.
NoSleeperIsForgotten ==
  \A t \in sleepq :
    pc[t] = "swtch" =>
      /\ kind[t] \in Timed => timeout[t] \in {"pending", "running"}
      /\ kind[t] \in Sig => ~sig[t]
=============================================================================
