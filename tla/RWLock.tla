------------------------------- MODULE RWLock -------------------------------
(***************************************************************************)
(* Readers/writer locks: uts/common/os/rwlock.c and the fast paths of      *)
(* uts/sparc/v9/ml/lock_prim.s, with the turnstile the waiters sleep on.   *)
(*                                                                         *)
(* The lock word rw_wwwh is split into its fields.  Every update of it is  *)
(* a cas loop, an atomic add or a store under the chain lock; a cas that   *)
(* fails changes nothing and is retried, so each loop is one step, taken   *)
(* when its cas succeeds.  What is not atomic is kept apart: the busy test *)
(* before turnstile_lookup(), the waiters bits set under it, the load of   *)
(* the word in rw_exit_wakeup() and the store that hands the lock over,    *)
(* the two halves of rw_downgrade(), and each single wakeup.               *)
(*                                                                         *)
(* The two sleep queues of the turnstile are sequences, highest priority   *)
(* first and first come first served within a priority (sleepq_insert).    *)
(* Priorities may change at any time, also of sleeping threads.            *)
(***************************************************************************)
EXTENDS Naturals, Sequences, FiniteSets, SequencesExt

CONSTANTS
  Thread,     \* kernel threads that use the lock
  Pri,        \* dispatch priorities
  NoThread,   \* no owner
  DeadLock    \* RW_DOUBLE_LOCK, the owner field of a destroyed lock

ASSUME RWLockAssumption ==
  /\ IsFiniteSet(Thread) /\ NoThread \notin Thread
  /\ DeadLock \notin Thread \cup {NoThread}
  /\ Pri \subseteq Nat \ {0}

VARIABLES
  rw_wait,    \* RW_HAS_WAITERS
  rw_want,    \* RW_WRITE_WANTED
  rw_owner,   \* owner when RW_WRITE_LOCKED is set, else NoThread
  rw_count,   \* hold count when RW_WRITE_LOCKED is clear
  tc_lock,    \* holder of the turnstile hash chain lock
  sleepq,     \* ts_sleepq: [{"R", "W"} -> sequence of threads]
  wakeup,     \* [q, n]: queue and number of threads turnstile_wakeup() has yet to wake
  pri,        \* Thread -> DISP_PRIO(t)
  kpri,       \* Thread -> t_kpri_req
  mode,       \* Thread -> "R" or "W", the way it holds or requests the lock
  pc          \* Thread -> where it is

word == <<rw_wait, rw_want, rw_owner, rw_count>>
turnstile == <<sleepq, wakeup>>
vars == <<rw_wait, rw_want, rw_owner, rw_count, tc_lock, sleepq, wakeup, pri,
          kpri, mode, pc>>

Mode == {"R", "W"}

Label == {"idle", "enter", "lookup", "setwait", "block", "asleep", "held",
          "xlookup", "handoff", "wake", "dlookup", "dwakeup", "dwake"}

\* Types of the variables.
TypeOK ==
  /\ rw_wait \in BOOLEAN
  /\ rw_want \in BOOLEAN
  /\ rw_owner \in Thread \cup {NoThread, DeadLock}
  /\ rw_count \in Nat
  /\ tc_lock \in Thread \cup {NoThread}
  /\ sleepq \in [Mode -> Seq(Thread)]
  /\ wakeup \in [q : Mode, n : Nat]
  /\ pri \in [Thread -> Pri]
  /\ kpri \in [Thread -> Nat]
  /\ mode \in [Thread -> Mode]
  /\ pc \in [Thread -> Label]

Init ==
  /\ rw_wait = FALSE
  /\ rw_want = FALSE
  /\ rw_owner = NoThread
  /\ rw_count = 0
  /\ tc_lock = NoThread
  /\ sleepq = [q \in Mode |-> <<>>]
  /\ wakeup = [q |-> "R", n |-> 0]
  /\ pri \in [Thread -> Pri]
  /\ kpri = [t \in Thread |-> 0]
  /\ mode = [t \in Thread |-> "R"]
  /\ pc = [t \in Thread |-> "idle"]

-----------------------------------------------------------------------------
Goto(t, l) == pc' = [pc EXCEPT ![t] = l]

Locked == rw_owner # NoThread \/ rw_count > 0             \* RW_LOCKED
WriteClaimed == rw_owner # NoThread \/ rw_want            \* RW_WRITE_CLAIMED

\* lock_busy of rw_enter_sleep()
Busy(m) == IF m = "R" THEN WriteClaimed ELSE Locked

\* old + lock_value
AddLock(t, m) ==
  /\ IF m = "R" THEN rw_count' = rw_count + 1 /\ UNCHANGED rw_owner
                ELSE rw_owner' = t /\ UNCHANGED rw_count
  /\ UNCHANGED <<rw_wait, rw_want>>

\* Mutant: THREAD_KPRI_REQUEST() is forgotten.
NoKpriRequest(t) == UNCHANGED kpri

KpriRequest(t) == kpri' = [kpri EXCEPT ![t] = @ + 1]
KpriRelease(t) == kpri' = [kpri EXCEPT ![t] = @ - 1]

\* The walk of sleepq_insert() stops at k, behind the threads of the same or a
\* higher priority.
QueuePlace(q, k, t, p) ==
  /\ \A i \in 1 .. k - 1 : p[q[i]] >= p[t]
  /\ k <= Len(q) => p[q[k]] < p[t]

\* sleepq_insert(): sleep queue m is q with t in its place.
SleepqInsert(m, q, t, p) ==
  \E k \in 1 .. Len(q) + 1 :
    QueuePlace(q, k, t, p) /\ sleepq' = [sleepq EXCEPT ![m] = InsertAt(q, k, t)]

TsWaiters == Len(sleepq["R"]) + Len(sleepq["W"])          \* ts_waiters

-----------------------------------------------------------------------------
(* rw_enter(), rw_enter_sleep()                                            *)

\* A client calls rw_enter(lp, m); a reader requests kernel priority first.
RwEnter(t, m) ==
  /\ pc[t] = "idle"
  /\ rw_owner # DeadLock
  /\ mode' = [mode EXCEPT ![t] = m]
  /\ IF m = "R" THEN KpriRequest(t) ELSE UNCHANGED kpri
  /\ Goto(t, "enter")
  /\ UNCHANGED <<word, tc_lock, turnstile, pri>>

\* Take the lock unless it is busy; if it is, block.  This is the fast path as
\* well as the top of the loop of rw_enter_sleep().
EnterTry(t) ==
  /\ pc[t] = "enter"
  /\ IF Busy(mode[t])
       THEN Goto(t, "lookup") /\ UNCHANGED word
       ELSE Goto(t, "held") /\ AddLock(t, mode[t])
  /\ UNCHANGED <<tc_lock, turnstile, pri, kpri, mode>>

EnterLookup(t) ==
  /\ pc[t] = "lookup"
  /\ tc_lock = NoThread
  /\ tc_lock' = t
  /\ Goto(t, "setwait")
  /\ UNCHANGED <<word, turnstile, pri, kpri, mode>>

\* Mutant: the bits are set although the lock has become free meanwhile.
SetWaitUnchecked(t) ==
  /\ pc[t] = "setwait"
  /\ rw_wait' = TRUE
  /\ rw_want' = (rw_want \/ mode[t] = "W")
  /\ Goto(t, "block")
  /\ UNCHANGED <<rw_owner, rw_count, tc_lock, turnstile, pri, kpri, mode>>

\* Set lock_wait only if the lock is still busy, else turnstile_exit() and try
\* again.  Once the cas succeeds the decision to block is final.
SetWait(t) ==
  /\ pc[t] = "setwait"
  /\ IF Busy(mode[t])
       THEN /\ rw_wait' = TRUE
            /\ rw_want' = (rw_want \/ mode[t] = "W")
            /\ Goto(t, "block")
            /\ UNCHANGED tc_lock
       ELSE /\ tc_lock' = NoThread
            /\ Goto(t, "enter")
            /\ UNCHANGED <<rw_wait, rw_want>>
  /\ UNCHANGED <<rw_owner, rw_count, turnstile, pri, kpri, mode>>

\* Drop kernel priority if a reader, and turnstile_block().
Block(t) ==
  /\ pc[t] = "block"
  /\ IF mode[t] = "R" THEN KpriRelease(t) ELSE UNCHANGED kpri
  /\ SleepqInsert(mode[t], sleepq[mode[t]], t, pri)
  /\ tc_lock' = NoThread
  /\ Goto(t, "asleep")
  /\ UNCHANGED <<word, wakeup, pri, mode>>

\* rw_tryenter() that succeeds; one that fails leaves everything as it was.  A
\* writer requires the whole word to be zero.
RwTryenter(t, m) ==
  /\ pc[t] = "idle"
  /\ IF m = "R" THEN ~WriteClaimed /\ KpriRequest(t)
                ELSE ~Locked /\ ~rw_wait /\ ~rw_want /\ UNCHANGED kpri
  /\ AddLock(t, m)
  /\ mode' = [mode EXCEPT ![t] = m]
  /\ Goto(t, "held")
  /\ UNCHANGED <<tc_lock, turnstile, pri>>

-----------------------------------------------------------------------------
(* rw_exit(), rw_exit_wakeup()                                             *)

\* This exit leaves the lock unheld.
FinalExit(t) == IF mode[t] = "R" THEN rw_count = 1 ELSE TRUE

\* Not the final exit of a lock with waiters: just drop it.
RwExit(t) ==
  /\ pc[t] = "held"
  /\ ~(FinalExit(t) /\ rw_wait)
  /\ IF mode[t] = "R"
       THEN rw_count' = rw_count - 1 /\ KpriRelease(t) /\ UNCHANGED rw_owner
       ELSE rw_owner' = NoThread /\ UNCHANGED <<rw_count, kpri>>
  /\ Goto(t, "idle")
  /\ UNCHANGED <<rw_wait, rw_want, tc_lock, turnstile, pri, mode>>

\* The final exit of a lock with waiters: the word is left alone until the
\* chain lock is held.
RwExitFinal(t) ==
  /\ pc[t] = "held"
  /\ FinalExit(t) /\ rw_wait
  /\ Goto(t, "xlookup")
  /\ UNCHANGED <<word, tc_lock, turnstile, pri, kpri, mode>>

ExitLookup(t) ==
  /\ pc[t] = "xlookup"
  /\ tc_lock = NoThread
  /\ tc_lock' = t
  /\ Goto(t, "handoff")
  /\ UNCHANGED <<word, turnstile, pri, kpri, mode>>

\* Mutant: all blocked readers, whatever their priority.
AllReadersToWake(n) == n = Len(sleepq["R"])

\* rw_readers_to_wake() returns n: the leading readers whose priority is not below
\* that of the first blocked writer.
ReadersToWake(n) ==
  LET wpri == IF sleepq["W"] = <<>> THEN 0 ELSE pri[Head(sleepq["W"])]
      rq   == sleepq["R"]
  IN  /\ \A i \in 1 .. n : pri[rq[i]] >= wpri
      /\ n < Len(rq) => pri[rq[n + 1]] < wpri

\* t_kpri_req++ for the first n blocked readers, on their behalf.
KpriGrant(n) ==
  LET granted == {sleepq["R"][i] : i \in 1 .. n}
  IN  [t \in Thread |-> IF t \in granted THEN kpri[t] + 1 ELSE kpri[t]]

\* Hand the lock to n readers at once.
GrantReaders(n) ==
  /\ rw_count' = n
  /\ rw_owner' = NoThread
  /\ rw_wait' = (TsWaiters > n)
  /\ rw_want' = (sleepq["W"] # <<>>)
  /\ kpri' = KpriGrant(n)
  /\ wakeup' = [q |-> "R", n |-> n]

\* Hand the lock to the first blocked writer.
GrantWriter ==
  /\ rw_owner' = Head(sleepq["W"])
  /\ rw_count' = 0
  /\ rw_wait' = (TsWaiters > 1)
  /\ rw_want' = (Len(sleepq["W"]) > 1)
  /\ wakeup' = [q |-> "W", n |-> 1]
  /\ UNCHANGED kpri

\* Mutant: the old policy, writers always win.
HandoffWritersWin(t) ==
  /\ pc[t] = "handoff"
  /\ \E n \in 0 .. Len(sleepq["R"]) :
       ReadersToWake(n) /\ IF sleepq["W"] = <<>> THEN GrantReaders(n) ELSE GrantWriter
  /\ Goto(t, "wake")
  /\ UNCHANGED <<tc_lock, sleepq, pri, mode>>

\* Mutant: an exiting reader prefers readers, as an exiting writer does.
HandoffReadersFirst(t) ==
  /\ pc[t] = "handoff"
  /\ \E n \in 0 .. Len(sleepq["R"]) :
       ReadersToWake(n) /\ IF n > 0 THEN GrantReaders(n) ELSE GrantWriter
  /\ Goto(t, "wake")
  /\ UNCHANGED <<tc_lock, sleepq, pri, mode>>

\* Writers grant the lock to readers of the same or a higher priority than the
\* first writer; otherwise, and whenever a reader exits, a writer gets it.
Handoff(t) ==
  /\ pc[t] = "handoff"
  /\ \E n \in 0 .. Len(sleepq["R"]) :
       ReadersToWake(n) /\ IF mode[t] = "W" /\ n > 0 THEN GrantReaders(n) ELSE GrantWriter
  /\ Goto(t, "wake")
  /\ UNCHANGED <<tc_lock, sleepq, pri, mode>>

\* turnstile_wakeup(): dequeue and make runnable the next thread.  It returns
\* from rw_enter_sleep() holding the lock.
WakeNext(t) ==
  /\ pc[t] \in {"wake", "dwake"}
  /\ wakeup.n > 0
  /\ pc' = [pc EXCEPT ![Head(sleepq[wakeup.q])] = "held"]
  /\ sleepq' = [sleepq EXCEPT ![wakeup.q] = Tail(@)]
  /\ wakeup' = [wakeup EXCEPT !.n = @ - 1]
  /\ UNCHANGED <<word, tc_lock, pri, kpri, mode>>

\* Drop the chain lock; an exiting reader then drops its kernel priority.
WakeDone(t) ==
  /\ pc[t] = "wake"
  /\ wakeup.n = 0
  /\ tc_lock' = NoThread
  /\ IF mode[t] = "R" THEN KpriRelease(t) ELSE UNCHANGED kpri
  /\ Goto(t, "idle")
  /\ UNCHANGED <<word, turnstile, pri, mode>>

-----------------------------------------------------------------------------
(* rw_downgrade(), rw_tryupgrade()                                         *)

\* The atomic add that turns the write lock into one read lock.
RwDowngrade(t) ==
  /\ pc[t] = "held"
  /\ mode[t] = "W"
  /\ KpriRequest(t)
  /\ rw_owner' = NoThread
  /\ rw_count' = 1
  /\ mode' = [mode EXCEPT ![t] = "R"]
  /\ Goto(t, IF rw_wait THEN "dlookup" ELSE "held")
  /\ UNCHANGED <<rw_wait, rw_want, tc_lock, turnstile, pri>>

DowngradeLookup(t) ==
  /\ pc[t] = "dlookup"
  /\ tc_lock = NoThread
  /\ tc_lock' = t
  /\ Goto(t, "dwakeup")
  /\ UNCHANGED <<word, turnstile, pri, kpri, mode>>

\* Add the holds of the readers to be woken; clear the waiters bit if nobody
\* else waits.
DowngradeGrant(t) ==
  /\ pc[t] = "dwakeup"
  /\ \E n \in 0 .. Len(sleepq["R"]) :
       /\ ReadersToWake(n)
       /\ rw_count' = rw_count + n
       /\ rw_wait' = (rw_wait /\ ~(n > 0 /\ TsWaiters = n))
       /\ kpri' = KpriGrant(n)
       /\ wakeup' = [q |-> "R", n |-> n]
  /\ Goto(t, "dwake")
  /\ UNCHANGED <<rw_want, rw_owner, tc_lock, sleepq, pri, mode>>

DowngradeDone(t) ==
  /\ pc[t] = "dwake"
  /\ wakeup.n = 0
  /\ tc_lock' = NoThread
  /\ Goto(t, "held")
  /\ UNCHANGED <<word, turnstile, pri, kpri, mode>>

\* Mutant: the write-wanted bit and the other readers are not looked at.
TryupgradeUnchecked(t) ==
  /\ pc[t] = "held"
  /\ mode[t] = "R"
  /\ rw_owner' = t
  /\ rw_count' = 0
  /\ KpriRelease(t)
  /\ mode' = [mode EXCEPT ![t] = "W"]
  /\ UNCHANGED <<rw_wait, rw_want, tc_lock, turnstile, pri, pc>>

\* rw_tryupgrade() that succeeds: the caller is the only reader, and no writer
\* waits.
RwTryupgrade(t) ==
  /\ pc[t] = "held"
  /\ mode[t] = "R"
  /\ rw_count = 1 /\ rw_owner = NoThread /\ ~rw_want
  /\ rw_owner' = t
  /\ rw_count' = 0
  /\ KpriRelease(t)
  /\ mode' = [mode EXCEPT ![t] = "W"]
  /\ UNCHANGED <<rw_wait, rw_want, tc_lock, turnstile, pri, pc>>

-----------------------------------------------------------------------------
(* Destruction, initialisation and changes of priority                     *)

\* rw_destroy() of a lock nobody uses (it panics unless the word is zero).
RwDestroy ==
  /\ \A t \in Thread : pc[t] = "idle"
  /\ ~Locked /\ ~rw_wait /\ ~rw_want
  /\ rw_owner' = DeadLock
  /\ UNCHANGED <<rw_wait, rw_want, rw_count, tc_lock, turnstile, pri, kpri, mode, pc>>

RwInit ==
  /\ rw_owner = DeadLock
  /\ rw_owner' = NoThread /\ rw_count' = 0 /\ rw_wait' = FALSE /\ rw_want' = FALSE
  /\ UNCHANGED <<tc_lock, turnstile, pri, kpri, mode, pc>>

\* A priority of t changes, be it one that does not show because t inherits another.
\* A sleeper's thread lock is the chain lock, and turnstile_change_pri() moves it to
\* its new place in the queue, behind its equals.
ChangePri(t, p) ==
  /\ pri' = [pri EXCEPT ![t] = p]
  /\ IF pc[t] = "asleep"
       THEN /\ tc_lock = NoThread
            /\ \E i \in 1 .. Len(sleepq[mode[t]]) :
                 /\ sleepq[mode[t]][i] = t
                 /\ SleepqInsert(mode[t], RemoveAt(sleepq[mode[t]], i), t, pri')
       ELSE UNCHANGED sleepq
  /\ UNCHANGED <<word, tc_lock, wakeup, kpri, mode, pc>>

-----------------------------------------------------------------------------
EnterStep(t) == EnterTry(t) \/ EnterLookup(t) \/ SetWait(t) \/ Block(t)

ExitStep(t) ==
  \/ RwExit(t) \/ RwExitFinal(t) \/ ExitLookup(t) \/ Handoff(t)
  \/ WakeNext(t) \/ WakeDone(t)

DowngradeStep(t) == DowngradeLookup(t) \/ DowngradeGrant(t) \/ DowngradeDone(t)

Next ==
  \/ \E t \in Thread :
       \/ \E m \in Mode : RwEnter(t, m) \/ RwTryenter(t, m)
       \/ EnterStep(t) \/ ExitStep(t) \/ DowngradeStep(t)
       \/ RwDowngrade(t) \/ RwTryupgrade(t)
       \/ \E p \in Pri : ChangePri(t, p)
  \/ RwDestroy
  \/ RwInit

Spec == Init /\ [][Next]_vars

\* Threads in the lock code keep running, and a holder eventually exits (it
\* may first change its hold any number of times).  A spinner for the chain
\* lock eventually gets it.
Fairness ==
  \A t \in Thread :
    /\ WF_vars(\/ EnterStep(t) \/ DowngradeStep(t)
               \/ Handoff(t) \/ WakeNext(t) \/ WakeDone(t))
    /\ SF_vars(EnterLookup(t) \/ ExitLookup(t) \/ DowngradeLookup(t))
    /\ SF_vars(RwExit(t) \/ RwExitFinal(t))

FairSpec == Spec /\ Fairness

-----------------------------------------------------------------------------
(* Properties.                                                             *)

\* Threads that turnstile_wakeup() is about to wake: the lock is theirs.
Granted == {sleepq[wakeup.q][i] : i \in 1 .. wakeup.n}

HoldPC == {"held", "xlookup", "handoff", "dlookup", "dwakeup", "dwake"}

Holders(m) ==
  {t \in Thread : mode[t] = m /\ (pc[t] \in HoldPC \/ t \in Granted)}

\* Threads whose decision to block is final and that have not been granted
\* the lock.
Waiters(m) ==
  {t \in Thread : /\ mode[t] = m
                  /\ pc[t] = "block" \/ (pc[t] = "asleep" /\ t \notin Granted)}

\* The word names exactly the threads that hold the lock or to which it is
\* being handed: one writer, or a count that is exact.  A writer therefore
\* excludes everybody else, and each waiter wakes up holding the lock (rule
\* (3) of rwlock.c), across handoffs, downgrades and upgrades.
WordMatchesHolders ==
  /\ Holders("W") = {rw_owner} \cap Thread
  /\ rw_count = Cardinality(Holders("R"))
  /\ Holders("W") = {} \/ Holders("R") = {}

\* HAS_WAITERS and WRITE_WANTED say exactly who waits, even between the store
\* that hands the lock over and the wakeups (rule (2) of rwlock.c), and are never
\* set in a free lock (consequence (a) of turnstile.c and the ASSERT before
\* turnstile_block()).
BitsMatchWaiters ==
  /\ rw_wait <=> Waiters("R") \cup Waiters("W") # {}
  /\ rw_want <=> Waiters("W") # {}
  /\ rw_wait \/ rw_want => Locked

\* Kernel priority is requested exactly by the threads that hold, or are about
\* to take, a read lock: the request a reader drops when it blocks is made
\* again on its behalf by the thread that wakes it.
KpriBalanced ==
  \A t \in Thread :
    kpri[t] = IF mode[t] = "R" /\ (pc[t] \notin {"idle", "asleep"} \/ t \in Granted)
                THEN 1 ELSE 0

\* Requirements (3) and (4) of the wakeup policy: a writer passes the lock over
\* blocked readers only to a writer of higher priority than all of them, and
\* lets readers in only if none has a lower priority than a blocked writer.
\* In both cases nobody of higher priority in the same queue is passed over.
WriterPriorityPolicy ==
  [][\A t \in Thread : pc[t] = "handoff" /\ mode[t] = "W" /\ pc'[t] = "wake" =>
       LET granted == {sleepq[wakeup'.q][i] : i \in 1 .. wakeup'.n}
           others(q) == ToSet(sleepq[q]) \ granted
       IN  \A g \in granted :
             IF wakeup'.q = "W"
               THEN /\ \A r \in others("R") : pri[g] > pri[r]
                    /\ \A w \in others("W") : pri[g] >= pri[w]
               ELSE /\ \A w \in others("W") : pri[g] >= pri[w]
                    /\ \A r \in others("R") : pri[g] >= pri[r]]_vars

\* What the abstract lock calls holding and waiting.
Holding == [t \in Thread |-> IF t \in Holders("R") THEN "R"
                             ELSE IF t \in Holders("W") THEN "W" ELSE "N"]
Waiting == [t \in Thread |-> IF t \in Waiters("R") THEN "R"
                             ELSE IF t \in Waiters("W") THEN "W" ELSE "N"]

\* The lock implements the abstract readers/writer lock.
Abstract == INSTANCE RWAbstract WITH holding <- Holding, waiting <- Waiting

\* Every step is a step of the abstract lock or changes neither holders nor
\* waiters.
ImplementsRWAbstract == Abstract!Spec

\* From some time on all threads have the same priority, and none changes.
EqualForGood ==
  /\ <>[](\A t, u \in Thread : pri[t] = pri[u])
  /\ <>[][\A t \in Thread, p \in Pri : ~ChangePri(t, p)]_vars

\* Requirement (5): if all threads have equal priority, none of them starves: whoever
\* sleeps gets the lock, whatever priorities did before.
NoStarvation ==
  EqualForGood => \A t \in Thread : pc[t] = "asleep" ~> pc[t] = "held"
=============================================================================
