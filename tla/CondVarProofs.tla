--------------------------- MODULE CondVarProofs ---------------------------
(***************************************************************************)
(* Proofs about module CondVar, for any number of threads, any limit of    *)
(* the count and any times: the four invariants the run checks.            *)
(***************************************************************************)
EXTENDS CondVar, FiniteSetTheorems, TLAPS

-----------------------------------------------------------------------------
(* The inductive invariant.                                                *)

\* Who is on the sleep queue is between cv_block() and swtch().
SleepersBlocked ==
  \A t \in sleepq : pc[t] \in {"blocked", "released", "swtch"}

\* Which of the functions a thread can be in, by its place in them.
KindFits ==
  \A t \in Thread :
    /\ kind[t] = "none" <=> pc[t] \in {"out", "in"}
    /\ pc[t] \in {"arm", "untimeout", "done_cv"} => kind[t] \in Timed
    /\ pc[t] = "stop" => kind[t] \in Timed \ Sig
    /\ pc[t] = "schedctl" => kind[t] \in Sig

\* mp is held where the code relies on it, and nowhere else.
HoldingIsOwning == \A t \in Thread : Holding(t) <=> mp = t

\* A callout exists from realtime_timeout() to untimeout(), which
\* cv_timedwait_sig() calls only after mutex_enter(), and no longer.
TimeoutFits ==
  \A t \in Thread :
    /\ timeout[t] # "none" =>
         /\ kind[t] \in Timed
         /\ \/ pc[t] \in {"armed", "blocked", "released", "swtch", "schedctl",
                          "untimeout", "done_cv"}
            \/ pc[t] = "enter" /\ kind[t] \in Sig
    /\ pc[t] = "done_cv" => timeout[t] # "pending"

\* The test that made a thread wait holds until it has released mp.
TestStillHolds ==
  ready => \A t \in Thread : pc[t] \notin {"arm", "armed", "blocked"}

\* The callout is never due before the time the thread was given has passed: one
\* that has started before the thread looks for itself leaves left[t] = 0 to find.
NeverEarly ==
  \A t \in Thread :
    /\ pc[t] = "arm" => left[t] <= timeleft[t]
    /\ pc[t] \in {"armed", "blocked", "released"} /\ kind[t] \in Timed =>
         IF timeout[t] = "pending" THEN left[t] <= fire[t] ELSE left[t] = 0

IInv ==
  /\ TypeOK /\ SleepersBlocked /\ KindFits /\ HoldingIsOwning /\ TimeoutFits
  /\ TestStillHolds /\ NeverEarly
  /\ CountIsExact /\ NoLostWakeup /\ NoSleeperIsForgotten

-----------------------------------------------------------------------------
(* The count of waiters.                                                   *)

\* The sleep queue is finite and the count of its threads changes by one.
LEMMA SleepqCardinality ==
  ASSUME TypeOK
  PROVE  /\ Cardinality(sleepq) \in Nat
         /\ Cardinality(sleepq) = 0 <=> sleepq = {}
         /\ \A t \in Thread \ sleepq : Cardinality(sleepq \cup {t}) = Cardinality(sleepq) + 1
         /\ \A t \in sleepq : Cardinality(sleepq \ {t}) = Cardinality(sleepq) - 1
<1>1. IsFiniteSet(sleepq)
  BY CondVarAssumption, FS_Subset DEF TypeOK
<1> QED
  BY <1>1, FS_CardinalityType, FS_EmptySet, FS_AddElement, FS_RemoveElement

\* What CV_WAITERS_MASK leaves of the count is 0 if there is no waiter and if the
\* count is saturated.
LEMMA WaitersMask ==
  ASSUME TypeOK
  PROVE  cv_waiters % CV_MAX_WAITERS = 0 <=> cv_waiters \in {0, CV_MAX_WAITERS}
<1>1. CASE cv_waiters = CV_MAX_WAITERS
  BY <1>1, CondVarAssumption DEF TypeOK
<1>2. CASE cv_waiters < CV_MAX_WAITERS
  BY <1>2, CondVarAssumption DEF TypeOK
<1> QED
  BY <1>1, <1>2, CondVarAssumption DEF TypeOK

\* setrun(), by a callout, a signal or the thread itself, keeps the count exact.
LEMMA SetrunProperties ==
  ASSUME TypeOK, CountIsExact, NEW t \in Thread, Setrun(t)
  PROVE  /\ sleepq' = sleepq \ {t}
         /\ cv_waiters' \in 0 .. CV_MAX_WAITERS
         /\ CountIsExact'
<1>1. CASE t \in sleepq
  BY <1>1, SleepqCardinality, CondVarAssumption
  DEF Setrun, SleepqUnsleep, CountIsExact, TypeOK
<1>2. CASE t \notin sleepq
  BY <1>2 DEF Setrun, CountIsExact, TypeOK
<1> QED
  BY <1>1, <1>2

-----------------------------------------------------------------------------
(* Every step preserves the invariant.                                     *)

\* A wait function is called with mp held and the condition false.
LEMMA CvWaitStep ==
  ASSUME IInv, NEW t \in Thread, NEW k \in Kind, NEW delta \in 0 .. MaxDelta,
         CvWait(t, k, delta)
  PROVE  IInv'
  BY DEF IInv, TypeOK, SleepersBlocked, KindFits, HoldingIsOwning,
    TimeoutFits, TestStillHolds, NeverEarly, CountIsExact, NoLostWakeup,
    NoSleeperIsForgotten, CvWait, Goto, client, PC, Kind, Holding

\* The callout is set while mp is held.
LEMMA RealtimeTimeoutStep ==
  ASSUME IInv, NEW t \in Thread, RealtimeTimeout(t)
  PROVE  IInv'
<1>1. (TypeOK /\ SleepersBlocked /\ KindFits /\ HoldingIsOwning
       /\ TestStillHolds /\ NeverEarly /\ CountIsExact /\ NoLostWakeup
       /\ NoSleeperIsForgotten)'
  BY CondVarAssumption DEF IInv, TypeOK, SleepersBlocked, KindFits,
    HoldingIsOwning, TestStillHolds, NeverEarly, CountIsExact,
    NoLostWakeup, NoSleeperIsForgotten, RealtimeTimeout, Goto, Ticks,
    client, PC, Holding
<1>2. TimeoutFits'
  BY DEF IInv, TypeOK, KindFits, TimeoutFits, RealtimeTimeout, Goto
<1> QED
  BY <1>1, <1>2 DEF IInv

\* A thread goes on the sleep queue while mp is held, so the condition is false.
LEMMA CvBlockStep ==
  ASSUME IInv, NEW t \in Thread, CvBlock(t)
  PROVE  IInv'
<1>1. (TypeOK /\ SleepersBlocked /\ KindFits /\ HoldingIsOwning
       /\ TimeoutFits /\ TestStillHolds /\ NeverEarly
       /\ NoSleeperIsForgotten)'
  BY CondVarAssumption DEF IInv, TypeOK, SleepersBlocked, KindFits,
    HoldingIsOwning, TimeoutFits, TestStillHolds, NeverEarly,
    NoSleeperIsForgotten, CvBlock, Goto, Sleep, client, time, PC, Holding
<1>2. CountIsExact'
  BY CondVarAssumption, SleepqCardinality DEF IInv, TypeOK,
    SleepersBlocked, CountIsExact, CvBlock, Sleep
<1>3. NoLostWakeup'
  BY DEF IInv, TestStillHolds, NoLostWakeup, CvBlock, client
<1> QED
  BY <1>1, <1>2, <1>3 DEF IInv

\* schedctl_block() drops mp: the thread is not going to sleep.
LEMMA NotBlockingStep ==
  ASSUME IInv, NEW t \in Thread, NotBlocking(t)
  PROVE  IInv'
  BY CondVarAssumption DEF IInv, TypeOK, SleepersBlocked, KindFits,
    HoldingIsOwning, TimeoutFits, TestStillHolds, NeverEarly, CountIsExact,
    NoLostWakeup, NoSleeperIsForgotten, NotBlocking, Goto, client, time,
    PC, Holding

\* mp is released by a thread that is on the queue or has been woken already.
LEMMA MutexExitBlockedStep ==
  ASSUME IInv, NEW t \in Thread, MutexExitBlocked(t)
  PROVE  IInv'
  BY CondVarAssumption DEF IInv, TypeOK, SleepersBlocked, KindFits,
    HoldingIsOwning, TimeoutFits, TestStillHolds, NeverEarly, CountIsExact,
    NoLostWakeup, NoSleeperIsForgotten, MutexExitBlocked, Goto, client,
    time, PC, Holding

\* The thread looks itself for what came before it was on the queue.
LEMMA CheckSelfStep ==
  ASSUME IInv, NEW t \in Thread, CheckSelf(t)
  PROVE  IInv'
<1>1. (TypeOK /\ SleepersBlocked /\ KindFits /\ HoldingIsOwning
       /\ TimeoutFits /\ TestStillHolds /\ NeverEarly /\ CountIsExact
       /\ NoLostWakeup)'
  BY SetrunProperties DEF IInv, TypeOK, SleepersBlocked, KindFits,
    HoldingIsOwning, TimeoutFits, TestStillHolds, NeverEarly, CountIsExact,
    NoLostWakeup, CheckSelf, Goto, client, time, PC, Holding
<1>2. NoSleeperIsForgotten'
  BY SetrunProperties DEF IInv, NeverEarly, NoSleeperIsForgotten,
    CheckSelf, Goto, WakeSelf
<1> QED
  BY <1>1, <1>2 DEF IInv

\* The thread runs again.
LEMMA SwtchStep ==
  ASSUME IInv, NEW t \in Thread, Swtch(t)
  PROVE  IInv'
  BY DEF IInv, TypeOK, SleepersBlocked, KindFits, HoldingIsOwning,
    TimeoutFits, TestStillHolds, NeverEarly, CountIsExact, NoLostWakeup,
    NoSleeperIsForgotten, Swtch, Goto, client, time, PC, Holding

\* mp is taken again.
LEMMA MutexEnterAgainStep ==
  ASSUME IInv, NEW t \in Thread, MutexEnterAgain(t)
  PROVE  IInv'
<1>1. (TypeOK /\ SleepersBlocked /\ KindFits /\ HoldingIsOwning
       /\ TestStillHolds /\ NeverEarly /\ CountIsExact /\ NoLostWakeup
       /\ NoSleeperIsForgotten)'
  BY CondVarAssumption DEF IInv, TypeOK, SleepersBlocked, KindFits,
    HoldingIsOwning, TestStillHolds, NeverEarly, CountIsExact,
    NoLostWakeup, NoSleeperIsForgotten, MutexEnterAgain, AfterEnter,
    GotoOrReturn, client, time, PC, Goto, Holding
<1>2. TimeoutFits'
  BY DEF IInv, KindFits, TimeoutFits, MutexEnterAgain, AfterEnter,
    GotoOrReturn, Goto
<1> QED
  BY <1>1, <1>2 DEF IInv

\* The callout is cancelled, gone or waited for.
LEMMA UntimeoutStep ==
  ASSUME IInv, NEW t \in Thread, Untimeout(t)
  PROVE  IInv'
  BY CondVarAssumption DEF IInv, TypeOK, SleepersBlocked, KindFits,
    HoldingIsOwning, TimeoutFits, TestStillHolds, NeverEarly, CountIsExact,
    NoLostWakeup, NoSleeperIsForgotten, Untimeout, AfterUntimeout, Goto,
    client, PC, Holding, Executing

\* The handler untimeout() waits for has completed.
LEMMA UntimeoutDoneStep ==
  ASSUME IInv, NEW t \in Thread, UntimeoutDone(t)
  PROVE  IInv'
  BY DEF IInv, TypeOK, SleepersBlocked, KindFits, HoldingIsOwning,
    TimeoutFits, TestStillHolds, NeverEarly, CountIsExact, NoLostWakeup,
    NoSleeperIsForgotten, UntimeoutDone, AfterUntimeout, Goto, client,
    time, PC, Holding

\* cv_wait_stop() goes on to mutex_enter().
LEMMA StopStep ==
  ASSUME IInv, NEW t \in Thread, Stop(t)
  PROVE  IInv'
  BY DEF IInv, TypeOK, SleepersBlocked, KindFits, HoldingIsOwning,
    TimeoutFits, TestStillHolds, NeverEarly, CountIsExact, NoLostWakeup,
    NoSleeperIsForgotten, Stop, Goto, client, time, PC, Holding

\* mp is dropped if a signal is pending.
LEMMA IssigPendingStep ==
  ASSUME IInv, NEW t \in Thread, IssigPending(t)
  PROVE  IInv'
  BY CondVarAssumption DEF IInv, TypeOK, SleepersBlocked, KindFits,
    HoldingIsOwning, TimeoutFits, TestStillHolds, NeverEarly, CountIsExact,
    NoLostWakeup, NoSleeperIsForgotten, IssigPending, GotoOrReturn, client,
    time, PC, Goto, Holding

\* issig() runs without mp.
LEMMA IssigStep ==
  ASSUME IInv, NEW t \in Thread, NEW taken \in BOOLEAN, Issig(t, taken)
  PROVE  IInv'
  BY DEF IInv, TypeOK, SleepersBlocked, KindFits, HoldingIsOwning,
    TimeoutFits, TestStillHolds, NeverEarly, CountIsExact, NoLostWakeup,
    NoSleeperIsForgotten, Issig, Goto, client, time, PC, Holding

\* The count is read without a lock: if it is 0, nobody sleeps.
LEMMA CvWakeupStep ==
  ASSUME IInv, NEW t \in Thread, CvWakeup(t)
  PROVE  IInv'
<1>1. (TypeOK /\ SleepersBlocked /\ KindFits /\ HoldingIsOwning
       /\ TimeoutFits /\ TestStillHolds /\ NeverEarly /\ CountIsExact
       /\ NoSleeperIsForgotten)'
  BY DEF IInv, TypeOK, SleepersBlocked, KindFits, HoldingIsOwning,
    TimeoutFits, TestStillHolds, NeverEarly, CountIsExact,
    NoSleeperIsForgotten, CvWakeup, time, Holding
<1>2. NoLostWakeup'
  BY CondVarAssumption, SleepqCardinality DEF IInv, CountIsExact,
    NoLostWakeup, CvWakeup
<1> QED
  BY <1>1, <1>2 DEF IInv

\* cv_signal() wakes one thread, whichever it is.
LEMMA CvSignalStep ==
  ASSUME IInv, NEW t \in Thread, CvSignal(t)
  PROVE  IInv'
  BY CondVarAssumption, SleepqCardinality, WaitersMask DEF IInv, TypeOK,
    SleepersBlocked, KindFits, HoldingIsOwning, TimeoutFits,
    TestStillHolds, NeverEarly, CountIsExact, NoLostWakeup,
    NoSleeperIsForgotten, CvSignal, SignalledCount, SleepqWakeone, time,
    Holding

\* cv_broadcast() wakes all of them.
LEMMA CvBroadcastStep ==
  ASSUME IInv, NEW t \in Thread, CvBroadcast(t)
  PROVE  IInv'
  BY CondVarAssumption, FS_EmptySet DEF IInv, TypeOK, SleepersBlocked,
    KindFits, HoldingIsOwning, TimeoutFits, TestStillHolds, NeverEarly,
    CountIsExact, NoLostWakeup, NoSleeperIsForgotten, CvBroadcast,
    SleepqWakeall, time, Holding

\* A client takes mp.
LEMMA MutexEnterStep ==
  ASSUME IInv, NEW t \in Thread, MutexEnter(t)
  PROVE  IInv'
  BY CondVarAssumption DEF IInv, TypeOK, SleepersBlocked, KindFits,
    HoldingIsOwning, TimeoutFits, TestStillHolds, NeverEarly, CountIsExact,
    NoLostWakeup, NoSleeperIsForgotten, MutexEnter, Goto, client, time, PC,
    Holding

\* A client releases mp.
LEMMA MutexExitStep ==
  ASSUME IInv, NEW t \in Thread, MutexExit(t)
  PROVE  IInv'
  BY CondVarAssumption DEF IInv, TypeOK, SleepersBlocked, KindFits,
    HoldingIsOwning, TimeoutFits, TestStillHolds, NeverEarly, CountIsExact,
    NoLostWakeup, NoSleeperIsForgotten, MutexExit, Goto, client, time, PC,
    Holding

\* A client sets the condition, which it can only while nobody is about to sleep.
LEMMA SetReadyStep ==
  ASSUME IInv, NEW t \in Thread, NEW r \in BOOLEAN, SetReady(t, r)
  PROVE  IInv'
<1>1. (TypeOK /\ SleepersBlocked /\ KindFits /\ HoldingIsOwning
       /\ TimeoutFits /\ NeverEarly /\ CountIsExact /\ NoLostWakeup
       /\ NoSleeperIsForgotten)'
  BY DEF IInv, TypeOK, SleepersBlocked, KindFits, HoldingIsOwning,
    TimeoutFits, NeverEarly, CountIsExact, NoLostWakeup,
    NoSleeperIsForgotten, SetReady, time, Holding
<1>2. TestStillHolds'
  BY DEF IInv, HoldingIsOwning, TestStillHolds, SetReady, Holding
<1> QED
  BY <1>1, <1>2 DEF IInv

\* Time passes for the thread and for its callout alike.
LEMMA TickStep ==
  ASSUME IInv, Tick
  PROVE  IInv'
  BY CondVarAssumption DEF IInv, TypeOK, SleepersBlocked, KindFits,
    HoldingIsOwning, TimeoutFits, TestStillHolds, NeverEarly, CountIsExact,
    NoLostWakeup, NoSleeperIsForgotten, Tick, Less, client, Holding

\* The callout starts, its time having passed.
LEMMA CalloutStartStep ==
  ASSUME IInv, NEW t \in Thread, CalloutStart(t)
  PROVE  IInv'
  BY DEF IInv, TypeOK, SleepersBlocked, KindFits, HoldingIsOwning,
    TimeoutFits, TestStillHolds, NeverEarly, CountIsExact, NoLostWakeup,
    NoSleeperIsForgotten, CalloutStart, client, time, Holding

\* The callout takes the thread off the queue, if it is on it.
LEMMA CalloutSetrunStep ==
  ASSUME IInv, NEW t \in Thread, CalloutSetrun(t)
  PROVE  IInv'
  BY SetrunProperties DEF IInv, TypeOK, SleepersBlocked, KindFits,
    HoldingIsOwning, TimeoutFits, TestStillHolds, NeverEarly, CountIsExact,
    NoLostWakeup, NoSleeperIsForgotten, CalloutSetrun, client, time,
    Holding

\* The handler returns.
LEMMA CalloutDoneStep ==
  ASSUME IInv, NEW t \in Thread, CalloutDone(t)
  PROVE  IInv'
  BY DEF IInv, TypeOK, SleepersBlocked, KindFits, HoldingIsOwning,
    TimeoutFits, TestStillHolds, NeverEarly, CountIsExact, NoLostWakeup,
    NoSleeperIsForgotten, CalloutDone, client, time, Holding

\* A signal takes the thread off the queue, if it may.
LEMMA EatSignalStep ==
  ASSUME IInv, NEW t \in Thread, EatSignal(t)
  PROVE  IInv'
  BY SetrunProperties DEF IInv, TypeOK, SleepersBlocked, KindFits,
    HoldingIsOwning, TimeoutFits, TestStillHolds, NeverEarly, CountIsExact,
    NoLostWakeup, NoSleeperIsForgotten, EatSignal, client, time, Holding

\* A signal is taken at user level.
LEMMA PsigStep ==
  ASSUME IInv, NEW t \in Thread, Psig(t)
  PROVE  IInv'
  BY DEF IInv, TypeOK, SleepersBlocked, KindFits, HoldingIsOwning,
    TimeoutFits, TestStillHolds, NeverEarly, CountIsExact, NoLostWakeup,
    NoSleeperIsForgotten, Psig, client, time, Holding

-----------------------------------------------------------------------------
(* The theorems.                                                           *)

\* Every state the clients of the condition variable can reach satisfies the
\* inductive invariant.
THEOREM Inductive == Spec => []IInv
<1>1. Init => IInv
  <2> SUFFICES ASSUME Init PROVE IInv
    OBVIOUS
  <2>1. sig \in [Thread -> BOOLEAN]
    BY DEF Init
  <2>2. 0 \in 0 .. CV_MAX_WAITERS /\ 0 \in 0 .. MaxDelta
    BY CondVarAssumption
  <2>4. TypeOK
    BY <2>1, <2>2, Zenon DEF Init, TypeOK, PC
  <2>3. CountIsExact /\ HoldingIsOwning
    BY CondVarAssumption, FS_EmptySet
    DEF Init, CountIsExact, HoldingIsOwning, Holding
  <2> QED
    BY <2>3, <2>4
    DEF Init, IInv, SleepersBlocked, KindFits, TimeoutFits, TestStillHolds, NeverEarly,
        NoLostWakeup, NoSleeperIsForgotten
<1>2. IInv /\ [Next]_vars => IInv'
  <2> SUFFICES ASSUME IInv, [Next]_vars PROVE IInv'
    OBVIOUS
  <2>1. CASE UNCHANGED vars
    BY <2>1
    DEF vars, client, time, IInv, TypeOK, SleepersBlocked, KindFits, HoldingIsOwning,
        TimeoutFits, TestStillHolds, NeverEarly, CountIsExact, NoLostWakeup,
        NoSleeperIsForgotten, Holding
  <2>2. ASSUME NEW t \in Thread,
               \/ CvWakeup(t) \/ CvSignal(t) \/ CvBroadcast(t)
               \/ MutexEnter(t) \/ MutexExit(t)
               \/ \E r \in BOOLEAN : SetReady(t, r)
        PROVE  IInv'
    BY <2>2, CvWakeupStep, CvSignalStep, CvBroadcastStep, MutexEnterStep, MutexExitStep,
       SetReadyStep
  <2>3. ASSUME NEW t \in Waiter, NEW k \in Kind, NEW delta \in 0 .. MaxDelta,
               CvWait(t, k, delta)
        PROVE  IInv'
    BY <2>3, CvWaitStep, CondVarAssumption
  <2>4. ASSUME NEW t \in Waiter, Proceed(t) PROVE IInv'
    BY <2>4, CondVarAssumption, RealtimeTimeoutStep, CvBlockStep, NotBlockingStep,
       MutexExitBlockedStep, CheckSelfStep, SwtchStep, UntimeoutStep, UntimeoutDoneStep,
       StopStep, IssigPendingStep, IssigStep
    DEF Proceed
  <2>5. ASSUME NEW t \in Waiter,
               MutexEnterAgain(t) \/ Callout(t) \/ EatSignal(t) \/ Psig(t)
        PROVE  IInv'
    BY <2>5, CondVarAssumption, MutexEnterAgainStep, CalloutStartStep, CalloutSetrunStep,
       CalloutDoneStep, EatSignalStep, PsigStep
    DEF Callout
  <2> QED
    BY <2>1, <2>2, <2>3, <2>4, <2>5, TickStep DEF Next
<1> QED
  BY <1>1, <1>2, PTL DEF Spec

\* A count that is not saturated is the number of threads on the sleep queue,
\* whatever the order of cv_block(), cv_signal(), cv_broadcast(), signals and
\* callouts: none of them leaves it too low, so no thread is overlooked.
THEOREM CountHolds == Spec => []CountIsExact
<1>1. IInv => CountIsExact
  BY DEF IInv
<1> QED
  BY <1>1, Inductive, PTL

\* Nobody sleeps through a change of the condition: the thread is on the queue
\* before mp is released, so cv_broadcast(), called later, finds it.
THEOREM WakeupsHold == Spec => []NoLostWakeup
<1>1. IInv => NoLostWakeup
  BY DEF IInv
<1> QED
  BY <1>1, Inductive, PTL

\* Every path out of the wait functions has taken mp again and has got rid of its
\* callout.
THEOREM ReturnsHold == Spec => []ReturnsClean
<1>1. IInv => ReturnsClean
  BY DEF IInv, ReturnsClean, HoldingIsOwning, KindFits, TimeoutFits, Timed
<1> QED
  BY <1>1, Inductive, PTL

\* A thread that goes to sleep although its callout has already called setrun(), or
\* a signal has already been posted, finds out for itself.
THEOREM SleepersHold == Spec => []NoSleeperIsForgotten
<1>1. IInv => NoSleeperIsForgotten
  BY DEF IInv
<1> QED
  BY <1>1, Inductive, PTL
=============================================================================
