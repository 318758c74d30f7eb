----------------------------- MODULE Turnstile -----------------------------
(***************************************************************************)
(* Turnstiles and priority inheritance: uts/common/os/turnstile.c.         *)
(*                                                                         *)
(* A thread that must wait for a kernel synchronization object donates its *)
(* turnstile to it, sleeps, and wills its priority down the blocking chain *)
(* (turnstile_block); an owner that finds waiters waives what it inherited *)
(* from them and wakes them (turnstile_wakeup).  A sleeper's thread lock   *)
(* is the lock of the hash chain of the object it sleeps on, so the walk   *)
(* down a blocking chain takes hash chain locks in an order nobody chose;  *)
(* turnstile_interlock() decides who spins and who backs off.              *)
(*                                                                         *)
(* The locks t_lockp may point at are the hash chains, numbered by address *)
(* order, and one dispatcher lock per thread, written as the thread, which *)
(* stands for the lock of the CPU or the run queue the thread is on.  Each *)
(* load of t_lockp, lock_try() and lock_clear() of the walk is a step.     *)
(* The objects are abstracted to an owner and a waiters bit (the modules   *)
(* Mutex and RWLock model their words), an object is handed off to one     *)
(* thread at a time, base priorities do not change, and SOBJ_USER_PI       *)
(* objects are left out.                                                   *)
(***************************************************************************)
EXTENDS Integers, Sequences, FiniteSets, FiniteSetsExt, Functions

CONSTANTS
  Thread,     \* the kernel threads; also names their turnstiles
  Lock,       \* the synchronization objects
  Handoff,    \* the choices of handoff to consider
  ChainOf,    \* Lock -> number of the hash chain, TURNSTILE_CHAIN(sobj)
  Wants,      \* Thread -> the objects it acquires, in this order, then releases
  BasePri,    \* the assignments of base priorities to consider
  NoThread,
  NoLock

ASSUME TurnstileAssumption ==
  /\ NoThread \notin Thread /\ NoLock \notin Lock
  /\ Handoff \subseteq SUBSET Lock
  /\ ChainOf \in [Lock -> Nat]
  /\ Wants \in [Thread -> Seq(Lock)]
  /\ BasePri \subseteq [Thread -> Nat \ {0}]

VARIABLES
  handoff,      \* the objects released by direct handoff (writers of a rwlock);
                \* the others wake every waiter (mutexes)
  owner,        \* Lock -> SOBJ_OWNER
  waiters,      \* Lock -> its waiters bit
  holder,       \* chain or dispatcher lock -> the thread that holds it
  t_lockp,      \* Thread -> its thread lock
  t_wchan,      \* Thread -> the object it sleeps on; NoLock if t_sobj_ops is NULL
  t_ts,         \* Thread -> its turnstile
  t_pri,        \* Thread -> its own priority
  t_epri,       \* Thread -> inherited priority
  t_prioinv,    \* Thread -> the turnstiles it inherits from
  ts_sobj,      \* turnstile -> the object it is active for
  ts_sleepq,    \* turnstile -> its sleepers, highest priority first
  ts_free,      \* turnstile -> its freelist
  ts_inheritor, \* turnstile -> the thread that inherits from it
  ts_epri,      \* turnstile -> the priority willed through it
  pc,           \* Thread -> where it is
  cur,          \* Thread -> local "t" of turnstile_block()
  olp,          \* Thread -> local "olp" of turnstile_interlock()
  nthreads,     \* Thread -> local "nthreads" of turnstile_wakeup()
  held          \* Thread -> number of objects of Wants it owns

objects == <<owner, waiters>>
turnstiles == <<t_ts, ts_sobj, ts_free>>
pri == <<t_epri, t_prioinv, ts_inheritor, ts_epri>>
locals == <<cur, olp, nthreads>>
vars == <<handoff, t_pri, objects, holder, t_lockp, t_wchan, turnstiles, pri, ts_sleepq, pc, locals, held>>

Chain == {ChainOf[l] : l \in Lock}
DispLock == Chain \cup Thread

\* Program points, named for what the thread does next.
Label == {"run", "release", "block", "sleep", "walk", "try", "recheck", "lost",
          "drop", "again", "swtch", "exit", "waive", "wake", "done", "panic"}

TypeOK ==
  /\ handoff \in Handoff
  /\ owner \in [Lock -> Thread \cup {NoThread}] /\ waiters \in [Lock -> BOOLEAN]
  /\ holder \in [DispLock -> Thread \cup {NoThread}]
  /\ t_lockp \in [Thread -> DispLock] /\ t_wchan \in [Thread -> Lock \cup {NoLock}]
  /\ t_ts \in [Thread -> Thread] /\ ts_sobj \in [Thread -> Lock \cup {NoLock}]
  /\ ts_sleepq \in [Thread -> Seq(Thread)] /\ ts_free \in [Thread -> Seq(Thread)]
  /\ t_pri \in BasePri /\ t_epri \in [Thread -> Nat] /\ ts_epri \in [Thread -> Nat]
  /\ t_prioinv \in [Thread -> SUBSET Thread]
  /\ ts_inheritor \in [Thread -> Thread \cup {NoThread}]
  /\ pc \in [Thread -> Label] /\ cur \in [Thread -> Thread]
  /\ olp \in [Thread -> DispLock \cup {NoLock}]
  /\ nthreads \in [Thread -> Nat] /\ held \in [Thread -> Nat]

Init ==
  /\ handoff \in Handoff
  /\ owner = [l \in Lock |-> NoThread] /\ waiters = [l \in Lock |-> FALSE]
  /\ holder = [k \in DispLock |-> NoThread]
  /\ t_lockp = [t \in Thread |-> t] /\ t_wchan = [t \in Thread |-> NoLock]
  /\ t_ts = [t \in Thread |-> t] /\ ts_sobj = [t \in Thread |-> NoLock]
  /\ ts_sleepq = [t \in Thread |-> <<>>] /\ ts_free = [t \in Thread |-> <<>>]
  /\ t_pri \in BasePri /\ t_epri = [t \in Thread |-> 0] /\ ts_epri = [t \in Thread |-> 0]
  /\ t_prioinv = [t \in Thread |-> {}]
  /\ ts_inheritor = [t \in Thread |-> NoThread]
  /\ pc = [t \in Thread |-> "run"] /\ cur = [t \in Thread |-> t]
  /\ olp = [t \in Thread |-> NoLock]
  /\ nthreads = [t \in Thread |-> 0] /\ held = [t \in Thread |-> 0]

-----------------------------------------------------------------------------
Max2(a, b) == IF a > b THEN a ELSE b

\* DISP_PRIO: the inherited priority, if there is one.
DispPrio(t) == IF t_epri[t] # 0 THEN t_epri[t] ELSE t_pri[t]

Goto(c, l) == pc' = [pc EXCEPT ![c] = l]

Free(k) == holder[k] = NoThread
Held(c, k) == [holder EXCEPT ![k] = c]
Cleared(k) == [holder EXCEPT ![k] = NoThread]

\* The object c asks for next, and the one it is giving up.
Wanted(c) == Wants[c][held[c] + 1]
Leaving(c) == Wants[c][held[c]]

\* turnstile_lookup(): the active turnstile of l, found by its sleepers.
TurnstileOf(l) == CHOOSE ts \in Thread : ts_sobj[ts] = l
Active(l) == \E ts \in Thread : ts_sobj[ts] = l

\* sleepq_insert(): behind the threads of the same or a higher priority.
Insert(q, t, p) ==
  SelectSeq(q, LAMBDA u : DispPrio(u) >= p) \o <<t>>
    \o SelectSeq(q, LAMBDA u : DispPrio(u) < p)

\* turnstile_change_pri(): dequeue the sleeper and insert it where it belongs.
Requeue(t, p) ==
  IF t_wchan[t] = NoLock THEN ts_sleepq
  ELSE [ts_sleepq EXCEPT ![t_ts[t]] =
          Insert(SelectSeq(@, LAMBDA u : u # t), t, p)]

\* Mutant: compares with the priority the owner has inherited already, so that
\* a second turnstile is not recorded.
InvertedByPrio(o, epri) == epri > DispPrio(o)

\* turnstile_pi_inherit(): o inherits epri from ts, unless it needs no more.
Inverted(o, epri) == epri > t_pri[o]

Inherit(ts, o, epri) ==
  IF ~Inverted(o, epri)
  THEN UNCHANGED pri
  ELSE /\ ts_inheritor' = [ts_inheritor EXCEPT ![ts] = IF @ = NoThread THEN o ELSE @]
       /\ ts_epri' = [ts_epri EXCEPT ![ts] =
                        IF ts_inheritor[ts] = NoThread THEN epri ELSE Max2(@, epri)]
       /\ t_prioinv' = [t_prioinv EXCEPT ![o] =
                          IF ts_inheritor[ts] = NoThread THEN @ \cup {ts} ELSE @]
       /\ t_epri' = [t_epri EXCEPT ![o] = IF epri > DispPrio(o) THEN epri ELSE @]

-----------------------------------------------------------------------------
(* Acquiring an object.                                                     *)

\* The object is free: taken with one atomic instruction, without turnstiles.
Acquire(c) ==
  /\ pc[c] = "run" /\ held[c] < Len(Wants[c])
  /\ owner[Wanted(c)] = NoThread
  /\ owner' = [owner EXCEPT ![Wanted(c)] = c]
  /\ held' = [held EXCEPT ![c] = @ + 1]
  /\ UNCHANGED <<waiters, holder, t_lockp, t_wchan, turnstiles, pri, ts_sleepq, pc, locals>>

\* turnstile_lookup() by a thread that must wait; the waiters bit is set while
\* the hash chain is locked.
Lookup(c) ==
  /\ pc[c] = "run" /\ held[c] < Len(Wants[c])
  /\ owner[Wanted(c)] # NoThread
  /\ Free(ChainOf[Wanted(c)])
  /\ holder' = Held(c, ChainOf[Wanted(c)])
  /\ waiters' = [waiters EXCEPT ![Wanted(c)] = TRUE]
  /\ Goto(c, "block")
  /\ UNCHANGED <<owner, t_lockp, t_wchan, turnstiles, pri, ts_sleepq, locals, held>>

\* thread_lock_high(curthread)
LockSelf(c) ==
  /\ pc[c] = "block"
  /\ Free(t_lockp[c])
  /\ holder' = Held(c, t_lockp[c])
  /\ Goto(c, "sleep")
  /\ UNCHANGED <<objects, t_lockp, t_wchan, turnstiles, pri, ts_sleepq, locals, held>>

\* The first waiter's turnstile becomes the object's, later ones go on its
\* freelist; THREAD_SLEEP() points t_lockp at the chain and drops the old lock.
Sleep(c) ==
  LET l == Wanted(c)
      ts == IF Active(l) THEN TurnstileOf(l) ELSE t_ts[c]
  IN
  /\ pc[c] = "sleep"
  /\ ts_sobj' = [ts_sobj EXCEPT ![ts] = l]
  /\ ts_free' = [ts_free EXCEPT ![ts] = IF Active(l) THEN <<t_ts[c]>> \o @ ELSE @]
  /\ t_ts' = [t_ts EXCEPT ![c] = ts]
  /\ holder' = Cleared(t_lockp[c])
  /\ t_lockp' = [t_lockp EXCEPT ![c] = ChainOf[l]]
  /\ t_wchan' = [t_wchan EXCEPT ![c] = l]
  /\ ts_sleepq' = [ts_sleepq EXCEPT ![ts] = Insert(@, c, DispPrio(c))]
  /\ cur' = [cur EXCEPT ![c] = c]
  /\ Goto(c, "walk")
  /\ UNCHANGED <<objects, pri, olp, nthreads, held>>

-----------------------------------------------------------------------------
(* Following the blocking chain.  The walker holds the thread lock of cur.  *)

Owner(c) == owner[t_wchan[cur[c]]]

\* The while condition: cur sleeps on an object that has an owner.
Blocked(c) == t_wchan[cur[c]] # NoLock /\ Owner(c) # NoThread

\* "olp = *olpp", unless the chain is a cycle.
ReadOlp(c) ==
  /\ pc[c] = "walk" /\ Blocked(c)
  /\ IF Owner(c) = c
     THEN Goto(c, "panic") /\ UNCHANGED olp
     ELSE Goto(c, "try") /\ olp' = [olp EXCEPT ![c] = t_lockp[Owner(c)]]
  /\ UNCHANGED <<objects, holder, t_lockp, t_wchan, turnstiles, pri, ts_sleepq, cur, nthreads,
                 held>>

\* turnstile_pi_inherit(), then move on to the owner; cur's lock is dropped
\* unless it is the owner's too.
Will(c, h) ==
  LET t == cur[c]
      o == Owner(c)
      inv == Inverted(o, DispPrio(t))
  IN
  /\ Inherit(t_ts[t], o, DispPrio(t))
  /\ ts_sleepq' = IF DispPrio(t) > DispPrio(o) THEN Requeue(o, DispPrio(t)) ELSE ts_sleepq
  /\ holder' = IF t_lockp[t] = t_lockp[o] THEN h ELSE [h EXCEPT ![t_lockp[t]] = NoThread]
  /\ cur' = [cur EXCEPT ![c] = o]
  /\ olp' = [olp EXCEPT ![c] = NoLock]
  /\ Goto(c, IF inv THEN "walk" ELSE "swtch")
  /\ UNCHANGED <<objects, t_lockp, t_wchan, turnstiles, nthreads, held>>

\* "olp == wlp": both threads are behind the same lock.
SameLock(c) ==
  /\ pc[c] = "try" /\ olp[c] = t_lockp[cur[c]]
  /\ Will(c, holder)

\* lock_try(olp) succeeds.
TryLock(c) ==
  /\ pc[c] = "try" /\ olp[c] # t_lockp[cur[c]]
  /\ Free(olp[c])
  /\ holder' = Held(c, olp[c])
  /\ Goto(c, "recheck")
  /\ UNCHANGED <<objects, t_lockp, t_wchan, turnstiles, pri, ts_sleepq, locals, held>>

\* "olp == *olpp": still the owner's lock, or else drop it and look again.
StillRight(c) == olp[c] = t_lockp[Owner(c)]

Recheck(c) ==
  /\ pc[c] = "recheck"
  /\ IF StillRight(c)
     THEN Will(c, holder)
     ELSE /\ holder' = Cleared(olp[c])
          /\ Goto(c, "walk")
          /\ UNCHANGED <<objects, t_lockp, t_wchan, turnstiles, pri, ts_sleepq, locals, held>>

\* A held hash chain lock below ours: out of order, so we are the one to lose.
MustLose(c) == olp[c] \in Chain /\ olp[c] < t_lockp[cur[c]]

\* lock_try(olp) fails out of order: drop the waiter's lock.
Lose(c) ==
  /\ pc[c] = "try" /\ olp[c] # t_lockp[cur[c]]
  /\ ~Free(olp[c]) /\ MustLose(c)
  /\ holder' = Cleared(t_lockp[cur[c]])
  /\ Goto(c, "lost")
  /\ UNCHANGED <<objects, t_lockp, t_wchan, turnstiles, pri, ts_sleepq, locals, held>>

\* Mutant: come back at once.
RetryAtOnce(c) ==
  /\ pc[c] = "lost"
  /\ Goto(c, "again")
  /\ UNCHANGED <<objects, holder, t_lockp, t_wchan, turnstiles, pri, ts_sleepq, locals, held>>

\* lock_set(olp): wait until the winner is done, by taking the lock it holds.
AwaitWinner(c) ==
  /\ pc[c] = "lost" /\ Free(olp[c])
  /\ holder' = Held(c, olp[c])
  /\ Goto(c, "drop")
  /\ UNCHANGED <<objects, t_lockp, t_wchan, turnstiles, pri, ts_sleepq, locals, held>>

\* lock_clear(olp)
DropOlp(c) ==
  /\ pc[c] = "drop"
  /\ holder' = Cleared(olp[c])
  /\ Goto(c, "again")
  /\ UNCHANGED <<objects, t_lockp, t_wchan, turnstiles, pri, ts_sleepq, locals, held>>

\* Restart from curthread, which may have been woken meanwhile.
Restart(c) ==
  /\ pc[c] = "again"
  /\ Free(t_lockp[c])
  /\ holder' = Held(c, t_lockp[c])
  /\ cur' = [cur EXCEPT ![c] = c]
  /\ olp' = [olp EXCEPT ![c] = NoLock]
  /\ Goto(c, "walk")
  /\ UNCHANGED <<objects, t_lockp, t_wchan, turnstiles, pri, ts_sleepq, nthreads, held>>

\* In order: spin until the owner's lock is released or changes.
Spin(c) ==
  /\ pc[c] = "try" /\ olp[c] # t_lockp[cur[c]]
  /\ ~Free(olp[c]) /\ ~MustLose(c)
  /\ ~StillRight(c)
  /\ Goto(c, "walk")
  /\ UNCHANGED <<objects, holder, t_lockp, t_wchan, turnstiles, pri, ts_sleepq, locals, held>>

\* The end of the chain: thread_unlock(t), swtch().
EndWalk(c) ==
  /\ \/ pc[c] = "walk" /\ ~Blocked(c)
     \/ pc[c] = "swtch" /\ cur[c] # c
  /\ holder' = Cleared(t_lockp[cur[c]])
  /\ cur' = [cur EXCEPT ![c] = c]
  /\ Goto(c, "swtch")
  /\ UNCHANGED <<objects, t_lockp, t_wchan, turnstiles, pri, ts_sleepq, olp, nthreads, held>>

\* turnstile_block() returns: a mutex is tried again, a handed-off lock is ours.
Resume(c) ==
  /\ pc[c] = "swtch" /\ cur[c] = c
  /\ t_wchan[c] = NoLock
  /\ held' = [held EXCEPT ![c] = IF owner[Wanted(c)] = c THEN @ + 1 ELSE @]
  /\ Goto(c, "run")
  /\ UNCHANGED <<objects, holder, t_lockp, t_wchan, turnstiles, pri, ts_sleepq, locals>>

-----------------------------------------------------------------------------
(* Releasing an object.                                                     *)

\* With everything it wanted, a thread starts to release, last one first.
BeginRelease(c) ==
  /\ pc[c] = "run" /\ held[c] = Len(Wants[c])
  /\ Goto(c, "release")
  /\ UNCHANGED <<objects, holder, t_lockp, t_wchan, turnstiles, pri, ts_sleepq, locals, held>>

\* No waiters bit: the owner is cleared with one instruction.
ReleaseFast(c) ==
  /\ pc[c] = "release" /\ held[c] > 0
  /\ ~waiters[Leaving(c)]
  /\ owner' = [owner EXCEPT ![Leaving(c)] = NoThread]
  /\ held' = [held EXCEPT ![c] = @ - 1]
  /\ UNCHANGED <<waiters, holder, t_lockp, t_wchan, turnstiles, pri, ts_sleepq, pc, locals>>

\* The slow path: turnstile_lookup(), then the new owner and waiters bit.
ReleaseSlow(c) ==
  LET l == Leaving(c)
      q == ts_sleepq[TurnstileOf(l)]
  IN
  /\ pc[c] = "release" /\ held[c] > 0
  /\ waiters[l] /\ Free(ChainOf[l])
  /\ holder' = Held(c, ChainOf[l])
  /\ owner' = [owner EXCEPT ![l] = IF l \in handoff THEN Head(q) ELSE NoThread]
  /\ waiters' = [waiters EXCEPT ![l] = l \in handoff /\ Len(q) > 1]
  /\ nthreads' = [nthreads EXCEPT ![c] = IF l \in handoff THEN 1 ELSE Len(q)]
  /\ Goto(c, "waive")
  /\ UNCHANGED <<t_lockp, t_wchan, turnstiles, pri, ts_sleepq, cur, olp, held>>

\* Mutant: the turnstile that is being given up still counts.
InheritedWith(ts, t) == Max({0} \cup {ts_epri[x] : x \in t_prioinv[t]})

\* turnstile_pi_tsdelete(): what the inheritor still inherits without ts.
InheritedWithout(ts, t) == Max({0} \cup {ts_epri[x] : x \in t_prioinv[t] \ {ts}})

\* turnstile_pi_waive(), under curthread's thread lock.
Waive(c) ==
  LET ts == TurnstileOf(Leaving(c))
      new_epri == InheritedWithout(ts, c)
  IN
  /\ pc[c] = "waive"
  /\ Goto(c, "wake")
  /\ IF ts_inheritor[ts] = NoThread
     THEN UNCHANGED pri
     ELSE /\ Free(t_lockp[c])
          /\ t_prioinv' = [t_prioinv EXCEPT ![c] = @ \ {ts}]
          /\ t_epri' = [t_epri EXCEPT ![c] = IF new_epri # DispPrio(c) THEN new_epri ELSE @]
          /\ ts_inheritor' = [ts_inheritor EXCEPT ![ts] = NoThread]
          /\ UNCHANGED ts_epri
  /\ UNCHANGED <<objects, holder, t_lockp, t_wchan, turnstiles, ts_sleepq, locals, held>>

\* Mutant: the spare turnstile stays on the freelist.
DequeueKeepsSpare(t) ==
  LET ts == t_ts[t]
      last == Len(ts_sleepq[ts]) = 1
  IN
  /\ t_ts' = [t_ts EXCEPT ![t] = IF last THEN ts ELSE Head(ts_free[ts])]
  /\ ts_free' = ts_free
  /\ ts_sobj' = [ts_sobj EXCEPT ![ts] = IF last THEN NoLock ELSE @]
  /\ ts_sleepq' = [ts_sleepq EXCEPT ![ts] = Tail(@)]

\* turnstile_dequeue(): the woken thread leaves with a free turnstile, or with
\* the one that is now inactive.  Nobody inherits from it: turnstile_wakeup()
\* has waived that before it wakes anyone.
Dequeue(t) ==
  LET ts == t_ts[t]
      last == ts_free[ts] = <<>>
  IN
  /\ t_ts' = [t_ts EXCEPT ![t] = IF last THEN ts ELSE Head(ts_free[ts])]
  /\ ts_free' = [ts_free EXCEPT ![ts] = IF last THEN @ ELSE Tail(@)]
  /\ ts_sobj' = [ts_sobj EXCEPT ![ts] = IF last THEN NoLock ELSE @]
  /\ ts_sleepq' = [ts_sleepq EXCEPT ![ts] = Tail(@)]

\* CL_WAKEUP() puts the thread behind a dispatcher lock; a thread the object
\* was handed to inherits from those that still wait.
Wake(c) ==
  LET l == Leaving(c)
      ts == TurnstileOf(l)
      t == Head(ts_sleepq[ts])
      rest == Tail(ts_sleepq[ts])
  IN
  /\ pc[c] = "wake" /\ nthreads[c] > 0
  /\ Free(t)
  /\ Dequeue(t)
  /\ t_lockp' = [t_lockp EXCEPT ![t] = t]
  /\ t_wchan' = [t_wchan EXCEPT ![t] = NoLock]
  /\ IF owner[l] = t
     THEN Inherit(ts, t, IF rest = <<>> THEN 0 ELSE DispPrio(Head(rest)))
     ELSE UNCHANGED pri
  /\ nthreads' = [nthreads EXCEPT ![c] = @ - 1]
  /\ UNCHANGED <<objects, holder, pc, cur, olp, held>>

\* disp_lock_exit(&tc->tc_lock)
EndWakeup(c) ==
  /\ pc[c] = "wake" /\ nthreads[c] = 0
  /\ holder' = Cleared(ChainOf[Leaving(c)])
  /\ held' = [held EXCEPT ![c] = @ - 1]
  /\ Goto(c, "release")
  /\ UNCHANGED <<objects, t_lockp, t_wchan, turnstiles, pri, ts_sleepq, locals>>

\* Everything has been released.
Finish(c) ==
  /\ pc[c] = "release" /\ held[c] = 0
  /\ Goto(c, "done")
  /\ UNCHANGED <<objects, holder, t_lockp, t_wchan, turnstiles, pri, ts_sleepq, locals, held>>

-----------------------------------------------------------------------------
Step(c) ==
  /\ \/ Acquire(c) \/ Lookup(c) \/ LockSelf(c) \/ Sleep(c)
     \/ ReadOlp(c) \/ SameLock(c) \/ TryLock(c) \/ Recheck(c)
     \/ Lose(c) \/ AwaitWinner(c) \/ DropOlp(c) \/ Restart(c) \/ Spin(c) \/ EndWalk(c) \/ Resume(c)
     \/ BeginRelease(c) \/ ReleaseFast(c) \/ ReleaseSlow(c) \/ Waive(c) \/ Wake(c)
     \/ EndWakeup(c) \/ Finish(c)
  /\ UNCHANGED <<handoff, t_pri>>

AllDone == \A c \in Thread : pc[c] = "done"

Next == (\E c \in Thread : Step(c)) \/ (AllDone /\ UNCHANGED vars)

Spec == Init /\ [][Next]_vars

\* Interrupts are blocked while dispatcher locks are held and each thread has a
\* processor: no thread stops in the middle of this code.
FairSpec == Spec /\ \A c \in Thread : WF_vars(Step(c))

\* Steps that take a lock somebody waits for: lock_set(), or the lock_try() of a
\* walk in the right order.
TakesLock(c) ==
  /\ \/ Lookup(c) \/ LockSelf(c) \/ AwaitWinner(c) \/ Restart(c) \/ Waive(c) \/ Wake(c)
     \/ TryLock(c) /\ ~MustLose(c)
  /\ UNCHANGED <<handoff, t_pri>>

\* As FairSpec, and a lock that is free again and again is taken by who spins for it;
\* but how long a thread keeps an object is its own affair.
SpinFairSpec ==
  /\ Spec
  /\ \A c \in Thread :
       WF_vars(pc[c] \notin {"run", "release"} /\ Step(c)) /\ SF_vars(TakesLock(c))

-----------------------------------------------------------------------------
(* Properties.                                                              *)

Sleeping(t) == t_wchan[t] # NoLock

\* turnstile_block() has put the thread to sleep and not finished the walk.
Willing(c) == pc[c] \in {"walk", "try", "recheck", "lost", "drop", "again"}

\* turnstile_wakeup() is at work.
Waking(c) == pc[c] \in {"waive", "wake"}

\* Priority inheritance works: when no walk and no wakeup is under way, no
\* sleeper has a higher priority than the thread that owns what it waits for,
\* and every sleep queue is in priority order, whatever the blocking chains
\* did while they were walked (the purpose of the loop in turnstile_block()).
NoInversion ==
  (\A c \in Thread : ~Willing(c) /\ ~Waking(c)) =>
     /\ \A t \in Thread :
          Sleeping(t) /\ owner[t_wchan[t]] # NoThread
            => DispPrio(owner[t_wchan[t]]) >= DispPrio(t)
     /\ \A ts \in Thread : \A i, j \in DOMAIN ts_sleepq[ts] :
          i < j => DispPrio(ts_sleepq[ts][i]) >= DispPrio(ts_sleepq[ts][j])

\* No thread keeps a priority it has no claim to: what it inherits is exactly
\* the most that was willed to it through turnstiles of objects it owns or is
\* giving up, and each of them has a sleeper of that priority (the ASSERTs on
\* ts_inheritor, and turnstile_pi_waive()).
BoostIsJustified ==
  /\ \A t \in Thread : t_epri[t] = Max({0} \cup {ts_epri[ts] : ts \in t_prioinv[t]})
  /\ \A t, ts \in Thread : ts \in t_prioinv[t] <=> ts_inheritor[ts] = t
  /\ \A ts \in Thread : ts_inheritor[ts] # NoThread =>
       /\ ts_sobj[ts] # NoLock
       /\ \/ owner[ts_sobj[ts]] = ts_inheritor[ts]
          \/ /\ pc[ts_inheritor[ts]] = "waive"
             /\ Leaving(ts_inheritor[ts]) = ts_sobj[ts]
       /\ \E t \in Range(ts_sleepq[ts]) : DispPrio(t) >= ts_epri[ts]

\* Turnstiles are neither lost nor shared: a thread that is awake has an
\* inactive turnstile of its own, and the sleepers of an object share one
\* active turnstile that holds the others' spares (turnstile_dequeue() relies
\* on an empty freelist meaning the last waiter).
TurnstilesConserved ==
  /\ \A t \in Thread :
       IF Sleeping(t)
       THEN /\ ts_sobj[t_ts[t]] = t_wchan[t]
            /\ t \in Range(ts_sleepq[t_ts[t]])
       ELSE /\ ts_sobj[t_ts[t]] = NoLock
            /\ ts_sleepq[t_ts[t]] = <<>> /\ ts_free[t_ts[t]] = <<>>
            /\ \A u \in Thread \ {t} : t_ts[u] # t_ts[t]
  /\ \A ts \in Thread : ts_sobj[ts] # NoLock =>
       /\ Len(ts_free[ts]) = Len(ts_sleepq[ts]) - 1
       /\ \A u \in Thread \ {ts} : ts_sobj[u] # ts_sobj[ts]
  /\ Thread = Range(t_ts) \cup UNION {Range(ts_free[ts]) : ts \in Thread}

\* Everyone finishes: no deadlock of walks that meet, no cycle found where there is
\* none, no sleeper left behind.  This holds as long as, in the end, at most one
\* walker loses: the order of the chain locks makes the other one the winner, and
\* lock_set() keeps the loser away until the winner is done.
OneLoserFinishes ==
  \A c \in Thread : <>[](\A d \in Thread \ {c} : pc[d] # "lost") => <>AllDone

\* The comment of turnstile_interlock(): defining a winner prevents livelock, so every
\* walk down a blocking chain ends, given spin locks that let nobody starve.
WalksEnd == \A c \in Thread : Willing(c) ~> ~Willing(c)
=============================================================================
