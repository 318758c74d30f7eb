------------------------------- MODULE Mutex -------------------------------
(***************************************************************************)
(* Adaptive mutexes: uts/common/os/mutex.c, the sparc v9 fast paths in     *)
(* uts/sparc/v9/ml/lock_prim.s, and as much of the dispatcher as they      *)
(* depend on (CPU_THREAD, preemption, the mutex_exit() restart).           *)
(*                                                                         *)
(* One mutex is modelled.  Its word m_owner holds the owner and, in bit 0, *)
(* the waiters bit; the word is 0 when the mutex is free.  mutex_exit()    *)
(* tests the word and clears it with two plain instructions, so a thread   *)
(* that decides to block races with an owner that has already decided not  *)
(* to look for waiters.  Every load and store that takes part in that race *)
(* (orders (2M) and (3M) of the Big Theory Statement) is a step here;      *)
(* between them any other thread, on any other CPU, may take steps.        *)
(* Steps are sequentially consistent: the membars in the code are what     *)
(* makes the listed loads and stores appear in program order.              *)
(*                                                                         *)
(* The turnstile of the mutex is abstracted to the set of threads asleep   *)
(* on it (all of them are woken together, so their order is irrelevant)    *)
(* and the lock of its hash chain.  Panics are states, pc = "panic", which *)
(* are shown to be unreachable.                                            *)
(***************************************************************************)
EXTENDS Naturals

CONSTANTS
  Thread,     \* kernel threads that use the mutex
  CPU,        \* the processors on cpu_list
  NoThread    \* NULL owner; as a cpu_thread, the idle thread

ASSUME MutexAssumption == NoThread \notin Thread

VARIABLES
  m_owner,    \* MUTEX_OWNER(lp): a thread or NoThread
  m_waiters,  \* MUTEX_HAS_WAITERS(lp)
  m_dead,     \* the word carries MUTEX_DEAD (destroyed, not yet re-initialised)
  tc_lock,    \* holder of the lock of the turnstile hash chain
  ts_q,       \* threads asleep on the mutex's turnstile (TS_WRITER_Q)
  cpu_thread, \* CPU -> the thread running there (cpu_t.cpu_thread)
  pc,         \* Thread -> where it is in the mutex code
  owner,      \* Thread -> local variable "owner" of mutex_vector_enter()
  scan        \* Thread -> CPUs it has not yet looked at in the do loops

lock == <<m_owner, m_waiters, m_dead>>
locals == <<owner, scan>>
vars == <<m_owner, m_waiters, m_dead, tc_lock, ts_q, cpu_thread, pc, owner, scan>>

\* Program points, named for the code about to be executed.
Label == {"idle", "enter", "spin", "try", "scan1", "lookup", "setw", "scan2",
          "check", "block", "abort", "swtch", "cs", "exit", "clear", "vexit",
          "vclear", "wakeup", "dead", "panic"}

\* The points where mutex_vector_enter() relies on its local "owner".
OwnerSeen == {"scan1", "lookup", "setw", "scan2", "check"}

\* Types; the locals are set only where the code still uses them.
TypeOK ==
  /\ m_owner \in Thread \cup {NoThread}
  /\ m_waiters \in BOOLEAN
  /\ m_dead \in BOOLEAN
  /\ tc_lock \in Thread \cup {NoThread}
  /\ ts_q \in SUBSET Thread
  /\ cpu_thread \in [CPU -> Thread \cup {NoThread}]
  /\ pc \in [Thread -> Label]
  /\ owner \in [Thread -> Thread \cup {NoThread}]
  /\ scan \in [Thread -> SUBSET CPU]
  /\ \A t \in Thread :
       /\ owner[t] \in Thread => pc[t] \in OwnerSeen
       /\ scan[t] # {} => pc[t] \in {"scan1", "scan2"}

Init ==
  /\ m_owner = NoThread
  /\ m_waiters = FALSE
  /\ m_dead = FALSE
  /\ tc_lock = NoThread
  /\ ts_q = {}
  /\ cpu_thread = [c \in CPU |-> NoThread]
  /\ pc = [t \in Thread |-> "idle"]
  /\ owner = [t \in Thread |-> NoThread]
  /\ scan = [t \in Thread |-> {}]

-----------------------------------------------------------------------------
OnCPU(t) == \E c \in CPU : cpu_thread[c] = t

\* A step of t's own code: t is on a processor and its next instruction is at l.
At(t, l) == OnCPU(t) /\ pc[t] = l

Goto(t, l) == pc' = [pc EXCEPT ![t] = l]

\* The casn of the fast paths: acquire only if the whole word is zero.
WordZero == m_owner = NoThread /\ ~m_waiters

Acquire(t) == m_owner' = t /\ m_waiters' = FALSE /\ UNCHANGED m_dead

\* MUTEX_CLEAR_LOCK_AND_WAITERS
ClearWord == m_owner' = NoThread /\ m_waiters' = FALSE /\ UNCHANGED m_dead

ForgetLocals(t) ==
  /\ owner' = [owner EXCEPT ![t] = NoThread]
  /\ scan' = [scan EXCEPT ![t] = {}]

-----------------------------------------------------------------------------
(* Acquiring.                                                              *)

\* A client decides to take a live mutex it does not hold.
CallEnter(t) ==
  /\ At(t, "idle")
  /\ ~m_dead
  /\ Goto(t, "enter")
  /\ UNCHANGED <<lock, tc_lock, ts_q, cpu_thread, locals>>

\* mutex_enter(): casn; on failure branch to mutex_vector_enter().
MutexEnter(t) ==
  /\ At(t, "enter")
  /\ IF WordZero
       THEN Acquire(t) /\ Goto(t, "cs")
       ELSE Goto(t, "spin") /\ UNCHANGED lock
  /\ UNCHANGED <<tc_lock, ts_q, cpu_thread, locals>>

\* mutex_tryenter() that succeeds.  One that fails returns 0 from
\* mutex_vector_tryenter() and changes nothing.
MutexTryenter(t) ==
  /\ At(t, "idle")
  /\ ~m_dead
  /\ WordZero
  /\ Acquire(t)
  /\ Goto(t, "cs")
  /\ UNCHANGED <<tc_lock, ts_q, cpu_thread, locals>>

\* Top of the for loop of mutex_vector_enter(): load the owner.
SpinLoad(t) ==
  /\ At(t, "spin")
  /\ Goto(t, CASE m_owner = NoThread -> "try"
               [] m_owner = t        -> "panic"     \* recursive mutex_enter
               [] OTHER              -> "scan1")
  /\ IF m_owner \in Thread \ {t}
       THEN /\ owner' = [owner EXCEPT ![t] = m_owner]
            /\ scan' = [scan EXCEPT ![t] = CPU]
       ELSE UNCHANGED locals
  /\ UNCHANGED <<lock, tc_lock, ts_q, cpu_thread>>

\* Mutant: the owner was seen NULL, so the lock is taken without a cas.
SpinTryNoCas(t) ==
  /\ At(t, "try")
  /\ Acquire(t)
  /\ Goto(t, "cs")
  /\ UNCHANGED <<tc_lock, ts_q, cpu_thread, locals>>

\* The owner was NULL: mutex_tryenter(), and around the loop if it fails.
SpinTry(t) ==
  /\ At(t, "try")
  /\ IF WordZero
       THEN Acquire(t) /\ Goto(t, "cs")
       ELSE Goto(t, "spin") /\ UNCHANGED lock
  /\ UNCHANGED <<tc_lock, ts_q, cpu_thread, locals>>

\* One iteration of a do loop over the CPUs: spin again if the owner is found
\* running (the first loop), or give up blocking (the second).
ScanCPU(t, here, found, done) ==
  /\ At(t, here)
  /\ \E c \in scan[t] :
       IF cpu_thread[c] = owner[t]
         THEN /\ Goto(t, found)
              /\ ForgetLocals(t)
         ELSE /\ Goto(t, IF scan[t] = {c} THEN done ELSE here)
              /\ scan' = [scan EXCEPT ![t] = @ \ {c}]
              /\ UNCHANGED owner
  /\ UNCHANGED <<lock, tc_lock, ts_q, cpu_thread>>

\* First search, with preemption disabled.
ScanOwner(t) == ScanCPU(t, "scan1", "spin", "lookup")

\* turnstile_lookup(): spin for the lock of the hash chain.
TurnstileLookup(t) ==
  /\ At(t, "lookup")
  /\ tc_lock = NoThread
  /\ tc_lock' = t
  /\ Goto(t, "setw")
  /\ UNCHANGED <<lock, ts_q, cpu_thread, locals>>

\* Mutant: the waiters bit is set and the CPUs are not looked at again.
SetWaitersNoRescan(t) ==
  /\ At(t, "setw")
  /\ m_waiters' = (m_owner # NoThread)
  /\ Goto(t, "check")
  /\ UNCHANGED <<m_owner, m_dead, tc_lock, ts_q, cpu_thread, locals>>

\* MUTEX_SET_WAITERS: set the bit by cas unless the word is zero.
SetWaiters(t) ==
  /\ At(t, "setw")
  /\ m_waiters' = (m_owner # NoThread)
  /\ scan' = [scan EXCEPT ![t] = CPU]
  /\ Goto(t, "scan2")
  /\ UNCHANGED <<m_owner, m_dead, tc_lock, ts_q, cpu_thread, owner>>

\* Second search, after the waiters bit is globally visible.
RescanOwner(t) == ScanCPU(t, "scan2", "abort", "check")

\* If owner and waiters bit are unchanged, block.
CheckBlock(t) ==
  /\ At(t, "check")
  /\ Goto(t, IF m_owner = owner[t] /\ m_waiters THEN "block" ELSE "abort")
  /\ ForgetLocals(t)
  /\ UNCHANGED <<lock, tc_lock, ts_q, cpu_thread>>

\* turnstile_exit(), and around the loop.
TurnstileExit(t) ==
  /\ At(t, "abort")
  /\ tc_lock' = NoThread
  /\ Goto(t, "spin")
  /\ UNCHANGED <<lock, ts_q, cpu_thread, locals>>

\* turnstile_block() up to swtch(): go to sleep, check that the mutex is owned,
\* drop the chain lock.
TurnstileBlock(t) ==
  /\ At(t, "block")
  /\ ts_q' = ts_q \cup {t}
  /\ IF m_owner = NoThread
       THEN Goto(t, "panic") /\ UNCHANGED tc_lock   \* unowned mutex
       ELSE Goto(t, "swtch") /\ tc_lock' = NoThread
  /\ UNCHANGED <<lock, cpu_thread, locals>>

\* swtch() out of turnstile_block(): give up the processor.  The thread may
\* have been woken already.  It resumes at the top of the loop.
Swtch(t) ==
  /\ At(t, "swtch")
  /\ cpu_thread' = [c \in CPU |-> IF cpu_thread[c] = t THEN NoThread
                                                       ELSE cpu_thread[c]]
  /\ Goto(t, "spin")
  /\ UNCHANGED <<lock, tc_lock, ts_q, locals>>

-----------------------------------------------------------------------------
(* Releasing.                                                              *)

\* The owner calls mutex_exit().
CallExit(t) ==
  /\ At(t, "cs")
  /\ Goto(t, "exit")
  /\ UNCHANGED <<lock, tc_lock, ts_q, cpu_thread, locals>>

\* mutex_exit(): ldn of the word and compare with curthread.
ExitLoad(t) ==
  /\ At(t, "exit")
  /\ Goto(t, IF m_owner = t /\ ~m_waiters THEN "clear" ELSE "vexit")
  /\ UNCHANGED <<lock, tc_lock, ts_q, cpu_thread, locals>>

\* mutex_exit(): the stn that clears the lock.
ExitClear(t) ==
  /\ At(t, "clear")
  /\ ClearWord
  /\ Goto(t, "idle")
  /\ UNCHANGED <<tc_lock, ts_q, cpu_thread, locals>>

\* mutex_vector_exit(): panic unless owner, then turnstile_lookup().
VectorExit(t) ==
  /\ At(t, "vexit")
  /\ IF m_owner # t
       THEN Goto(t, "panic") /\ UNCHANGED tc_lock   \* mutex_exit: not owner
       ELSE tc_lock = NoThread /\ tc_lock' = t /\ Goto(t, "vclear")
  /\ UNCHANGED <<lock, ts_q, cpu_thread, locals>>

\* mutex_vector_exit(): MUTEX_CLEAR_LOCK_AND_WAITERS.
VectorClear(t) ==
  /\ At(t, "vclear")
  /\ ClearWord
  /\ Goto(t, "wakeup")
  /\ UNCHANGED <<tc_lock, ts_q, cpu_thread, locals>>

\* turnstile_wakeup(): make one more of the waiters runnable.
WakeWaiter(t) ==
  /\ At(t, "wakeup")
  /\ \E w \in ts_q : ts_q' = ts_q \ {w}
  /\ UNCHANGED <<lock, tc_lock, cpu_thread, pc, locals>>

\* No waiter is left: turnstile_wakeup(), or turnstile_exit() when there never
\* was a turnstile, drops the chain lock.
WakeupDone(t) ==
  /\ At(t, "wakeup")
  /\ ts_q = {}
  /\ tc_lock' = NoThread
  /\ Goto(t, "idle")
  /\ UNCHANGED <<lock, ts_q, cpu_thread, locals>>

-----------------------------------------------------------------------------
(* Destroying and re-initialising, by the owner, once nobody else is in    *)
(* the mutex code (the duty of the client).                                *)

\* mutex_destroy() of a mutex that the caller owns, or of a free one.
MutexDestroy(t) ==
  /\ At(t, "cs") \/ (At(t, "idle") /\ WordZero)
  /\ \A u \in Thread \ {t} : pc[u] = "idle"
  /\ IF ~WordZero /\ (m_owner # t \/ (m_waiters /\ ts_q # {}))
       THEN Goto(t, "panic") /\ UNCHANGED lock      \* not owner; has waiters
       ELSE /\ m_dead' = TRUE
            /\ m_owner' = t
            /\ m_waiters' = FALSE
            /\ Goto(t, "dead")
  /\ UNCHANGED <<tc_lock, ts_q, cpu_thread, locals>>

\* Mutant: the word is not zeroed.
MutexInitKeepsOwner(t) ==
  /\ At(t, "dead")
  /\ m_dead' = FALSE
  /\ Goto(t, "idle")
  /\ UNCHANGED <<m_owner, m_waiters, tc_lock, ts_q, cpu_thread, locals>>

MutexInit(t) ==
  /\ At(t, "dead")
  /\ m_dead' = FALSE
  /\ m_owner' = NoThread
  /\ m_waiters' = FALSE
  /\ Goto(t, "idle")
  /\ UNCHANGED <<tc_lock, ts_q, cpu_thread, locals>>

-----------------------------------------------------------------------------
(* The dispatcher.                                                         *)

\* A thread at LOCK_LEVEL (it holds a dispatcher lock) or that has called
\* kpreempt_disable() is not preempted, nor is one already in swtch().
Preemptible(t) == tc_lock # t /\ pc[t] \notin {"scan1", "swtch"}

\* Mutant: the PC is left alone by the interrupt.
PreemptNoRestart(c) ==
  /\ cpu_thread[c] \in Thread
  /\ Preemptible(cpu_thread[c])
  /\ cpu_thread' = [cpu_thread EXCEPT ![c] = NoThread]
  /\ UNCHANGED <<lock, tc_lock, ts_q, pc, locals>>

\* An interrupt preempts the thread on c.  If it interrupted the critical
\* region of mutex_exit(), pil_interrupt resets the PC to the beginning.
Preempt(c) ==
  /\ cpu_thread[c] \in Thread
  /\ Preemptible(cpu_thread[c])
  /\ pc' = [pc EXCEPT ![cpu_thread[c]] = IF @ = "clear" THEN "exit" ELSE @]
  /\ cpu_thread' = [cpu_thread EXCEPT ![c] = NoThread]
  /\ UNCHANGED <<lock, tc_lock, ts_q, locals>>

\* resume(): the thread is not asleep and has left any processor it was on.
Resume(c, t) ==
  /\ cpu_thread[c] = NoThread
  /\ ~OnCPU(t)
  /\ t \notin ts_q
  /\ cpu_thread' = [cpu_thread EXCEPT ![c] = t]
  /\ UNCHANGED <<lock, tc_lock, ts_q, pc, locals>>

-----------------------------------------------------------------------------
EnterStep(t) ==
  \/ MutexEnter(t) \/ SpinLoad(t) \/ SpinTry(t) \/ ScanOwner(t)
  \/ TurnstileLookup(t) \/ SetWaiters(t) \/ RescanOwner(t) \/ CheckBlock(t)
  \/ TurnstileExit(t) \/ TurnstileBlock(t) \/ Swtch(t)

ExitStep(t) ==
  \/ ExitLoad(t) \/ ExitClear(t) \/ VectorExit(t) \/ VectorClear(t)
  \/ WakeWaiter(t) \/ WakeupDone(t)

ClientStep(t) ==
  \/ CallEnter(t) \/ MutexTryenter(t) \/ CallExit(t)
  \/ MutexDestroy(t) \/ MutexInit(t)

Next ==
  \/ \E t \in Thread : EnterStep(t) \/ ExitStep(t) \/ ClientStep(t)
  \/ \E c \in CPU : Preempt(c)
  \/ \E c \in CPU, t \in Thread : Resume(c, t)

Spec == Init /\ [][Next]_vars

\* The dispatcher gives every runnable thread a processor again and again, and
\* a time slice is longer than a few instructions, so that an owner which is
\* scheduled infinitely often gets through its critical section and through the
\* restartable region of mutex_exit() (strong fairness: preemption disables
\* these steps over and over).  Code that cannot be preempted only needs weak
\* fairness.
Fairness ==
  /\ \A t \in Thread :
       /\ WF_vars(EnterStep(t) \/ ExitStep(t))
       /\ SF_vars(CallExit(t) \/ ExitLoad(t))
       /\ SF_vars(ExitClear(t))
       /\ SF_vars(\E c \in CPU : Resume(c, t))
  /\ \A c \in CPU : WF_vars(Preempt(c))

\* The spin lock of a hash chain is held for a bounded number of instructions:
\* a thread that spins for it in mutex_vector_exit(), scheduled again and
\* again, eventually finds it free.
ChainLockFairness ==
  \A t \in Thread : []<>At(t, "vexit") => []<>(pc[t] # "vexit")

FairSpec == Spec /\ Fairness /\ ChainLockFairness

-----------------------------------------------------------------------------
(* Properties.                                                             *)

\* Threads between a successful acquisition and the store that releases it.
Holds(t) == pc[t] \in {"cs", "exit", "clear", "vexit", "vclear", "dead"}

\* Mutual exclusion: whoever is past mutex_enter()/mutex_tryenter() and has
\* not released is the owner in the lock word, so there is only one.
MutualExclusion == \A t \in Thread : Holds(t) => m_owner = t

\* A thread is in the wakeup loop of mutex_vector_exit(), under the chain lock.
Waking == \E t \in Thread : pc[t] = "wakeup" /\ tc_lock = t

\* No missed wakeup: while threads sleep on the mutex and nobody is in the
\* middle of waking them, the mutex has an owner and the waiters bit that will
\* make that owner call mutex_vector_exit() (consequence (a) in turnstile.c).
NoMissedWakeup ==
  ts_q # {} /\ ~Waking => m_owner # NoThread /\ m_waiters

\* No panic of the mutex code is reachable: no thread blocks on an unowned
\* mutex (turnstile_block), releases a mutex it does not own or enters
\* recursively.  (That nobody waits for a mutex which is destroyed is up to clients.)
NeverPanics == \A t \in Thread : pc[t] # "panic"

\* Every thread that goes to sleep on the mutex is eventually woken, provided
\* owners release it.
SleepersAreWoken == \A t \in Thread : t \in ts_q ~> t \notin ts_q
=============================================================================
