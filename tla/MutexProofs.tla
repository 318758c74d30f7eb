---------------------------- MODULE MutexProofs ----------------------------
(***************************************************************************)
(* Proofs that the adaptive mutexes of module Mutex exclude each other,    *)
(* miss no wakeup and never panic, for any number of threads and CPUs.     *)
(*                                                                         *)
(* The heart of the argument is the race between mutex_exit(), which looks *)
(* at the waiters bit and then clears the word, and mutex_vector_enter(),  *)
(* which sets the bit and then looks for the owner on every CPU.  ScanInv  *)
(* says that a blocker which has set the bit still has the owner's CPU     *)
(* ahead of it, as long as the owner has not done its clearing store.      *)
(***************************************************************************)
EXTENDS Mutex, TLAPS

\* Program points at which a thread holds the lock of the hash chain.
ChainPC == {"setw", "scan2", "check", "block", "abort", "vclear", "wakeup"}

\* The owner in the word is the one thread in the critical section.
OwnerInv == \A t \in Thread : m_owner = t <=> Holds(t)

\* The waiters bit is only ever set in a word that has an owner.
BitInv == m_waiters => m_owner # NoThread

ChainInv == \A t \in Thread : tc_lock = t <=> pc[t] \in ChainPC

\* A thread past mutex_exit()'s test, and not yet past its store, is running.
RunInv == \A u \in Thread : pc[u] = "clear" => OnCPU(u)

\* A sleeper has left turnstile_block()'s first half, and takes no step.
SleepInv ==
  \A t \in ts_q : pc[t] \in {"swtch", "spin"} /\ (pc[t] = "spin" => ~OnCPU(t))

\* Nobody else is in the code of a destroyed mutex.
DeadInv ==
  \A t \in Thread : pc[t] = "dead" =>
    m_dead /\ \A u \in Thread \ {t} : pc[u] = "idle"

\* An owner about to clear the word has not overlooked a sleeper.
ClearInv == \A u \in Thread : pc[u] = "clear" /\ ts_q # {} => Waking

\* A blocker in its second search, the bit being set, has yet to look at the
\* CPU of an owner that is about to clear the word.
ScanInv ==
  \A t, u \in Thread :
    pc[t] = "scan2" /\ m_waiters /\ pc[u] = "clear" /\ owner[t] = u =>
      \E c \in scan[t] : cpu_thread[c] = u

\* After the search, the owner that was looked for is not about to clear it.
CheckInv ==
  \A t, u \in Thread :
    pc[t] = "check" /\ m_waiters /\ pc[u] = "clear" => owner[t] # u

\* A thread that goes to sleep does so on an owned mutex with the bit set, and
\* no owner is about to clear it.
BlockInv ==
  \A t \in Thread : pc[t] = "block" =>
    /\ m_waiters
    /\ m_owner # NoThread
    /\ \A u \in Thread : pc[u] # "clear"

\* The inductive invariant.
IInv ==
  /\ TypeOK
  /\ OwnerInv /\ BitInv /\ ChainInv /\ RunInv /\ SleepInv /\ DeadInv
  /\ NoMissedWakeup /\ NeverPanics
  /\ ClearInv /\ ScanInv /\ CheckInv /\ BlockInv

-----------------------------------------------------------------------------
(* The steps that change the owner, one lemma each.                        *)

\* Any successful cas on a zero word preserves the invariant.
LEMMA AcquireStep ==
  ASSUME IInv, NEW t \in Thread,
         OnCPU(t), pc[t] \in {"idle", "enter", "try"}, WordZero,
         Acquire(t), Goto(t, "cs"),
         UNCHANGED <<tc_lock, ts_q, cpu_thread, locals>>
  PROVE  IInv'
<1> USE DEF OwnerSeen, Label, OnCPU, At, Goto, WordZero, Acquire, locals
<1>1. TypeOK'
  BY DEF IInv, TypeOK
<1>2. (OwnerInv /\ BitInv /\ ChainInv /\ DeadInv)'
  BY DEF IInv, TypeOK, OwnerInv, BitInv, ChainInv, DeadInv, Holds, ChainPC
<1>3. (RunInv /\ SleepInv /\ NeverPanics)'
  BY DEF IInv, RunInv, SleepInv, NeverPanics
<1>4. (NoMissedWakeup /\ ClearInv)'
  BY DEF IInv, NoMissedWakeup, ClearInv, Waking
<1>5. (ScanInv /\ CheckInv /\ BlockInv)'
  BY DEF IInv, ScanInv, CheckInv, BlockInv
<1> QED
  BY <1>1, <1>2, <1>3, <1>4, <1>5 DEF IInv

\* The clearing store of mutex_exit(): no sleeper depends on the word, and no
\* blocker is about to become one.
LEMMA ExitClearStep ==
  ASSUME IInv, NEW t \in Thread, ExitClear(t)
  PROVE  IInv'
<1> USE DEF OwnerSeen, Label, OnCPU, At, Goto, ClearWord, locals, ExitClear
<1>1. TypeOK'
  BY DEF IInv, TypeOK
<1>2. (OwnerInv /\ BitInv /\ ChainInv /\ DeadInv)'
  BY DEF IInv, TypeOK, OwnerInv, BitInv, ChainInv, DeadInv, Holds, ChainPC
<1>3. (RunInv /\ SleepInv /\ NeverPanics)'
  BY DEF IInv, RunInv, SleepInv, NeverPanics
<1>4. (NoMissedWakeup /\ ClearInv)'
  BY DEF IInv, NoMissedWakeup, ClearInv, Waking
<1>5. (ScanInv /\ CheckInv /\ BlockInv)'
  BY DEF IInv, ScanInv, CheckInv, BlockInv
<1> QED
  BY <1>1, <1>2, <1>3, <1>4, <1>5 DEF IInv

\* The clearing store of mutex_vector_exit(), under the chain lock.
LEMMA VectorClearStep ==
  ASSUME IInv, NEW t \in Thread, VectorClear(t)
  PROVE  IInv'
<1> USE DEF OwnerSeen, Label, OnCPU, At, Goto, ClearWord, locals, VectorClear
<1>1. TypeOK'
  BY DEF IInv, TypeOK
<1>2. (OwnerInv /\ BitInv /\ ChainInv /\ DeadInv)'
  BY DEF IInv, TypeOK, OwnerInv, BitInv, ChainInv, DeadInv, Holds, ChainPC
<1>3. (RunInv /\ SleepInv /\ NeverPanics)'
  BY DEF IInv, RunInv, SleepInv, NeverPanics
<1>4. (NoMissedWakeup /\ ClearInv)'
  BY DEF IInv, TypeOK, ChainInv, NoMissedWakeup, ClearInv, Waking, ChainPC
<1>5. (ScanInv /\ CheckInv /\ BlockInv)'
  BY DEF IInv, ChainInv, ScanInv, CheckInv, BlockInv, ChainPC
<1> QED
  BY <1>1, <1>2, <1>3, <1>4, <1>5 DEF IInv

\* Re-initialisation of a destroyed mutex: nobody sleeps on it.
LEMMA MutexInitStep ==
  ASSUME IInv, NEW t \in Thread, MutexInit(t)
  PROVE  IInv'
<1> USE DEF OwnerSeen, Label, OnCPU, At, Goto, locals, MutexInit
<1>1. TypeOK'
  BY DEF IInv, TypeOK
<1>2. (OwnerInv /\ BitInv /\ ChainInv /\ DeadInv)'
  BY DEF IInv, TypeOK, OwnerInv, BitInv, ChainInv, DeadInv, Holds, ChainPC
<1>3. (RunInv /\ SleepInv /\ NeverPanics)'
  BY DEF IInv, RunInv, SleepInv, NeverPanics
<1>4. (NoMissedWakeup /\ ClearInv)'
  BY DEF IInv, TypeOK, SleepInv, DeadInv, NoMissedWakeup, ClearInv
<1>5. (ScanInv /\ CheckInv /\ BlockInv)'
  BY DEF IInv, DeadInv, ScanInv, CheckInv, BlockInv
<1> QED
  BY <1>1, <1>2, <1>3, <1>4, <1>5 DEF IInv

\* mutex_destroy() by the owner, or of a free mutex, that nobody else uses: its
\* two panics are unreachable.
LEMMA MutexDestroyStep ==
  ASSUME IInv, NEW t \in Thread, MutexDestroy(t)
  PROVE  IInv'
<1> USE DEF OwnerSeen, Label, OnCPU, At, Goto, WordZero, locals
<1>1. /\ m_dead' = TRUE /\ m_owner' = t /\ m_waiters' = FALSE
      /\ Goto(t, "dead")
      /\ UNCHANGED <<tc_lock, ts_q, cpu_thread, locals>>
      /\ pc[t] \in {"cs", "idle"}
      /\ \A u \in Thread \ {t} : pc[u] = "idle"
  BY DEF MutexDestroy, IInv, TypeOK, OwnerInv, SleepInv, Holds
<1>2. ts_q = {} /\ (m_owner = t \/ m_owner = NoThread)
  BY <1>1 DEF IInv, TypeOK, SleepInv, OwnerInv, Holds
<1>3. TypeOK'
  BY <1>1, <1>2 DEF IInv, TypeOK
<1>4. (OwnerInv /\ BitInv /\ ChainInv /\ DeadInv)'
  BY <1>1, <1>2 DEF IInv, TypeOK, OwnerInv, BitInv, ChainInv, DeadInv,
    Holds, ChainPC
<1>5. (RunInv /\ SleepInv /\ NeverPanics)'
  BY <1>1, <1>2 DEF RunInv, SleepInv, NeverPanics
<1>6. (NoMissedWakeup /\ ClearInv)'
  BY <1>1, <1>2 DEF NoMissedWakeup, ClearInv
<1>7. (ScanInv /\ CheckInv /\ BlockInv)'
  BY <1>1, <1>2 DEF ScanInv, CheckInv, BlockInv
<1> QED
  BY <1>3, <1>4, <1>5, <1>6, <1>7 DEF IInv

-----------------------------------------------------------------------------
(* The other steps.                                                        *)

\* Every step of mutex_enter() and mutex_vector_enter() preserves the invariant.
LEMMA EnterStepInv ==
  ASSUME IInv, NEW t \in Thread, EnterStep(t)
  PROVE  IInv'
<1> USE DEF OwnerSeen, Label, OnCPU, At, Goto, ForgetLocals, ScanCPU, lock, locals
<1>1. CASE MutexEnter(t)
  <2>1. CASE WordZero
    BY <1>1, <2>1, AcquireStep DEF MutexEnter
  <2>2. CASE ~WordZero
    <3>1. TypeOK'
      BY <1>1, <2>2 DEF MutexEnter, IInv, TypeOK
    <3>2. (OwnerInv /\ BitInv /\ ChainInv /\ DeadInv)'
      BY <1>1, <2>2 DEF MutexEnter, IInv, TypeOK, OwnerInv, BitInv,
        ChainInv, DeadInv, Holds, ChainPC
    <3>3. (RunInv /\ SleepInv /\ NeverPanics)'
      BY <1>1, <2>2 DEF MutexEnter, IInv, TypeOK, RunInv, SleepInv,
        NeverPanics
    <3>4. (NoMissedWakeup /\ ClearInv)'
      BY <1>1, <2>2 DEF MutexEnter, IInv, TypeOK, NoMissedWakeup,
        ClearInv, Waking
    <3>5. (ScanInv /\ CheckInv /\ BlockInv)'
      BY <1>1, <2>2 DEF MutexEnter, IInv, TypeOK, ScanInv, CheckInv,
        BlockInv
    <3> QED
      BY <3>1, <3>2, <3>3, <3>4, <3>5 DEF IInv
  <2> QED
    BY <2>1, <2>2
<1>2. CASE SpinTry(t)
  <2>1. CASE WordZero
    BY <1>2, <2>1, AcquireStep DEF SpinTry
  <2>2. CASE ~WordZero
    <3>1. TypeOK'
      BY <1>2, <2>2 DEF SpinTry, IInv, TypeOK
    <3>2. (OwnerInv /\ BitInv /\ ChainInv /\ DeadInv)'
      BY <1>2, <2>2 DEF SpinTry, IInv, TypeOK, OwnerInv, BitInv,
        ChainInv, DeadInv, Holds, ChainPC
    <3>3. (RunInv /\ SleepInv /\ NeverPanics)'
      BY <1>2, <2>2 DEF SpinTry, IInv, TypeOK, RunInv, SleepInv,
        NeverPanics
    <3>4. (NoMissedWakeup /\ ClearInv)'
      BY <1>2, <2>2 DEF SpinTry, IInv, TypeOK, NoMissedWakeup,
        ClearInv, Waking
    <3>5. (ScanInv /\ CheckInv /\ BlockInv)'
      BY <1>2, <2>2 DEF SpinTry, IInv, TypeOK, ScanInv, CheckInv,
        BlockInv
    <3> QED
      BY <3>1, <3>2, <3>3, <3>4, <3>5 DEF IInv
  <2> QED
    BY <2>1, <2>2
<1>3. CASE SpinLoad(t)
  <2>1. TypeOK'
    BY <1>3 DEF SpinLoad, IInv, TypeOK
  <2>2. (OwnerInv /\ BitInv /\ ChainInv /\ DeadInv)'
    BY <1>3 DEF SpinLoad, IInv, TypeOK, OwnerInv, BitInv, ChainInv,
      DeadInv, Holds, ChainPC
  <2>3. (RunInv /\ SleepInv /\ NeverPanics)'
    BY <1>3 DEF SpinLoad, IInv, OwnerInv, RunInv, SleepInv, NeverPanics,
      Holds
  <2>4. (NoMissedWakeup /\ ClearInv)'
    BY <1>3 DEF SpinLoad, IInv, TypeOK, NoMissedWakeup, ClearInv, Waking
  <2>5. (ScanInv /\ CheckInv /\ BlockInv)'
    BY <1>3 DEF SpinLoad, IInv, TypeOK, ScanInv, CheckInv, BlockInv
  <2> QED
    BY <2>1, <2>2, <2>3, <2>4, <2>5 DEF IInv
<1>4. CASE ScanOwner(t)
  <2>1. TypeOK'
    BY <1>4 DEF ScanOwner, IInv, TypeOK, OwnerInv, Holds
  <2>2. (OwnerInv /\ BitInv /\ ChainInv /\ DeadInv)'
    BY <1>4 DEF ScanOwner, IInv, TypeOK, OwnerInv, BitInv, ChainInv,
      DeadInv, Holds, ChainPC
  <2>3. (RunInv /\ SleepInv /\ NeverPanics)'
    BY <1>4 DEF ScanOwner, IInv, TypeOK, RunInv, SleepInv, NeverPanics
  <2>4. (NoMissedWakeup /\ ClearInv)'
    BY <1>4 DEF ScanOwner, IInv, TypeOK, NoMissedWakeup, ClearInv, Waking
  <2>5. (ScanInv /\ CheckInv /\ BlockInv)'
    BY <1>4 DEF ScanOwner, IInv, TypeOK, ScanInv, CheckInv, BlockInv
  <2> QED
    BY <2>1, <2>2, <2>3, <2>4, <2>5 DEF IInv
<1>5. CASE TurnstileLookup(t)
  <2>1. TypeOK'
    BY <1>5 DEF TurnstileLookup, IInv, TypeOK
  <2>2. (OwnerInv /\ BitInv /\ ChainInv /\ DeadInv)'
    BY <1>5 DEF TurnstileLookup, IInv, TypeOK, OwnerInv, BitInv,
      ChainInv, DeadInv, Holds, ChainPC
  <2>3. (RunInv /\ SleepInv /\ NeverPanics)'
    BY <1>5 DEF TurnstileLookup, IInv, TypeOK, RunInv, SleepInv,
      NeverPanics
  <2>4. (NoMissedWakeup /\ ClearInv)'
    BY <1>5 DEF TurnstileLookup, IInv, TypeOK, NoMissedWakeup, ClearInv,
      Waking
  <2>5. (ScanInv /\ CheckInv /\ BlockInv)'
    BY <1>5 DEF TurnstileLookup, IInv, TypeOK, ScanInv, CheckInv,
      BlockInv
  <2> QED
    BY <2>1, <2>2, <2>3, <2>4, <2>5 DEF IInv
<1>6. CASE SetWaiters(t)
  <2>1. TypeOK'
    BY <1>6 DEF SetWaiters, IInv, TypeOK
  <2>2. (OwnerInv /\ BitInv /\ ChainInv /\ DeadInv)'
    BY <1>6 DEF SetWaiters, IInv, TypeOK, OwnerInv, BitInv, ChainInv,
      DeadInv, Holds, ChainPC
  <2>3. (RunInv /\ SleepInv /\ NeverPanics)'
    BY <1>6 DEF SetWaiters, IInv, TypeOK, RunInv, SleepInv, NeverPanics
  <2>4. (NoMissedWakeup /\ ClearInv)'
    BY <1>6 DEF SetWaiters, IInv, TypeOK, NoMissedWakeup, ClearInv,
      Waking
  <2>5. (ScanInv /\ CheckInv /\ BlockInv)'
    BY <1>6 DEF SetWaiters, IInv, TypeOK, ChainInv, RunInv, ScanInv,
      CheckInv, BlockInv, ChainPC
  <2> QED
    BY <2>1, <2>2, <2>3, <2>4, <2>5 DEF IInv
<1>7. CASE RescanOwner(t)
  <2>1. TypeOK'
    BY <1>7 DEF RescanOwner, IInv, TypeOK, OwnerInv, Holds
  <2>2. (OwnerInv /\ BitInv /\ ChainInv /\ DeadInv)'
    BY <1>7 DEF RescanOwner, IInv, TypeOK, OwnerInv, BitInv, ChainInv,
      DeadInv, Holds, ChainPC
  <2>3. (RunInv /\ SleepInv /\ NeverPanics)'
    BY <1>7 DEF RescanOwner, IInv, TypeOK, RunInv, SleepInv, NeverPanics
  <2>4. (NoMissedWakeup /\ ClearInv)'
    BY <1>7 DEF RescanOwner, IInv, TypeOK, NoMissedWakeup, ClearInv,
      Waking
  <2>5. (ScanInv /\ CheckInv /\ BlockInv)'
    BY <1>7 DEF RescanOwner, IInv, TypeOK, ScanInv, CheckInv, BlockInv
  <2> QED
    BY <2>1, <2>2, <2>3, <2>4, <2>5 DEF IInv
<1>8. CASE CheckBlock(t)
  <2>1. TypeOK'
    BY <1>8 DEF CheckBlock, IInv, TypeOK, OwnerInv, Holds
  <2>2. (OwnerInv /\ BitInv /\ ChainInv /\ DeadInv)'
    BY <1>8 DEF CheckBlock, IInv, TypeOK, OwnerInv, BitInv, ChainInv,
      DeadInv, Holds, ChainPC
  <2>3. (RunInv /\ SleepInv /\ NeverPanics)'
    BY <1>8 DEF CheckBlock, IInv, TypeOK, RunInv, SleepInv, NeverPanics
  <2>4. (NoMissedWakeup /\ ClearInv)'
    BY <1>8 DEF CheckBlock, IInv, TypeOK, NoMissedWakeup, ClearInv,
      Waking
  <2>5. (ScanInv /\ CheckInv /\ BlockInv)'
    BY <1>8 DEF CheckBlock, IInv, OwnerInv, BitInv, ScanInv, CheckInv,
      BlockInv, Holds
  <2> QED
    BY <2>1, <2>2, <2>3, <2>4, <2>5 DEF IInv
<1>9. CASE TurnstileExit(t)
  <2>1. TypeOK'
    BY <1>9 DEF TurnstileExit, IInv, TypeOK
  <2>2. (OwnerInv /\ BitInv /\ ChainInv /\ DeadInv)'
    BY <1>9 DEF TurnstileExit, IInv, TypeOK, OwnerInv, BitInv, ChainInv,
      DeadInv, Holds, ChainPC
  <2>3. (RunInv /\ SleepInv /\ NeverPanics)'
    BY <1>9 DEF TurnstileExit, IInv, TypeOK, RunInv, SleepInv,
      NeverPanics
  <2>4. (NoMissedWakeup /\ ClearInv)'
    BY <1>9 DEF TurnstileExit, IInv, ChainInv, NoMissedWakeup, ClearInv,
      Waking, ChainPC
  <2>5. (ScanInv /\ CheckInv /\ BlockInv)'
    BY <1>9 DEF TurnstileExit, IInv, TypeOK, ScanInv, CheckInv, BlockInv
  <2> QED
    BY <2>1, <2>2, <2>3, <2>4, <2>5 DEF IInv
<1>10. CASE TurnstileBlock(t)
  <2>1. TypeOK'
    BY <1>10 DEF TurnstileBlock, IInv, TypeOK
  <2>2. (OwnerInv /\ BitInv /\ ChainInv /\ DeadInv)'
    BY <1>10 DEF TurnstileBlock, IInv, TypeOK, OwnerInv, BitInv,
      ChainInv, DeadInv, BlockInv, Holds, ChainPC
  <2>3. (RunInv /\ SleepInv /\ NeverPanics)'
    BY <1>10 DEF TurnstileBlock, IInv, TypeOK, RunInv, SleepInv,
      NeverPanics, BlockInv
  <2>4. (NoMissedWakeup /\ ClearInv)'
    BY <1>10 DEF TurnstileBlock, IInv, TypeOK, NoMissedWakeup, ClearInv,
      BlockInv
  <2>5. (ScanInv /\ CheckInv /\ BlockInv)'
    BY <1>10 DEF TurnstileBlock, IInv, TypeOK, ScanInv, CheckInv,
      BlockInv
  <2> QED
    BY <2>1, <2>2, <2>3, <2>4, <2>5 DEF IInv
<1>11. CASE Swtch(t)
  <2>1. TypeOK'
    BY <1>11 DEF Swtch, IInv, TypeOK
  <2>2. (OwnerInv /\ BitInv /\ ChainInv /\ DeadInv)'
    BY <1>11 DEF Swtch, IInv, TypeOK, OwnerInv, BitInv, ChainInv,
      DeadInv, Holds, ChainPC
  <2>3. (RunInv /\ SleepInv /\ NeverPanics)'
    BY <1>11 DEF Swtch, IInv, TypeOK, RunInv, SleepInv, NeverPanics
  <2>4. (NoMissedWakeup /\ ClearInv)'
    BY <1>11 DEF Swtch, IInv, TypeOK, NoMissedWakeup, ClearInv, Waking
  <2>5. (ScanInv /\ CheckInv /\ BlockInv)'
    BY <1>11 DEF Swtch, IInv, TypeOK, ScanInv, CheckInv, BlockInv
  <2> QED
    BY <2>1, <2>2, <2>3, <2>4, <2>5 DEF IInv
<1> QED
  BY <1>1, <1>2, <1>3, <1>4, <1>5, <1>6, <1>7, <1>8, <1>9, <1>10, <1>11 DEF
    EnterStep

\* Every step of mutex_exit() and mutex_vector_exit() preserves the invariant.
LEMMA ExitStepInv ==
  ASSUME IInv, NEW t \in Thread, ExitStep(t)
  PROVE  IInv'
<1> USE DEF OwnerSeen, Label, OnCPU, At, Goto, lock, locals
<1>1. CASE ExitClear(t)
  BY <1>1, ExitClearStep
<1>2. CASE VectorClear(t)
  BY <1>2, VectorClearStep
<1>3. CASE ExitLoad(t)
  <2>1. TypeOK'
    BY <1>3 DEF ExitLoad, IInv, TypeOK
  <2>2. (OwnerInv /\ BitInv /\ ChainInv /\ DeadInv)'
    BY <1>3 DEF ExitLoad, IInv, TypeOK, OwnerInv, BitInv, ChainInv,
      DeadInv, Holds, ChainPC
  <2>3. (RunInv /\ SleepInv /\ NeverPanics)'
    BY <1>3 DEF ExitLoad, IInv, TypeOK, RunInv, SleepInv, NeverPanics
  <2>4. (NoMissedWakeup /\ ClearInv)'
    BY <1>3 DEF ExitLoad, IInv, TypeOK, NoMissedWakeup, ClearInv, Waking
  <2>5. (ScanInv /\ CheckInv /\ BlockInv)'
    BY <1>3 DEF ExitLoad, IInv, TypeOK, ScanInv, CheckInv, BlockInv
  <2> QED
    BY <2>1, <2>2, <2>3, <2>4, <2>5 DEF IInv
<1>4. CASE VectorExit(t)
  <2>1. TypeOK'
    BY <1>4 DEF VectorExit, IInv, TypeOK
  <2>2. (OwnerInv /\ BitInv /\ ChainInv /\ DeadInv)'
    BY <1>4 DEF VectorExit, IInv, TypeOK, OwnerInv, BitInv, ChainInv,
      DeadInv, Holds, ChainPC
  <2>3. (RunInv /\ SleepInv /\ NeverPanics)'
    BY <1>4 DEF VectorExit, IInv, TypeOK, OwnerInv, RunInv, SleepInv,
      NeverPanics, Holds
  <2>4. (NoMissedWakeup /\ ClearInv)'
    BY <1>4 DEF VectorExit, IInv, TypeOK, NoMissedWakeup, ClearInv,
      Waking
  <2>5. (ScanInv /\ CheckInv /\ BlockInv)'
    BY <1>4 DEF VectorExit, IInv, TypeOK, ScanInv, CheckInv, BlockInv
  <2> QED
    BY <2>1, <2>2, <2>3, <2>4, <2>5 DEF IInv
<1>5. CASE WakeWaiter(t)
  <2>1. TypeOK'
    BY <1>5 DEF WakeWaiter, IInv, TypeOK
  <2>2. (OwnerInv /\ BitInv /\ ChainInv /\ DeadInv)'
    BY <1>5 DEF WakeWaiter, IInv, TypeOK, OwnerInv, BitInv, ChainInv,
      DeadInv, Holds, ChainPC
  <2>3. (RunInv /\ SleepInv /\ NeverPanics)'
    BY <1>5 DEF WakeWaiter, IInv, TypeOK, RunInv, SleepInv, NeverPanics
  <2>4. (NoMissedWakeup /\ ClearInv)'
    BY <1>5 DEF WakeWaiter, IInv, TypeOK, NoMissedWakeup, ClearInv,
      Waking
  <2>5. (ScanInv /\ CheckInv /\ BlockInv)'
    BY <1>5 DEF WakeWaiter, IInv, TypeOK, ScanInv, CheckInv, BlockInv
  <2> QED
    BY <2>1, <2>2, <2>3, <2>4, <2>5 DEF IInv
<1>6. CASE WakeupDone(t)
  <2>1. TypeOK'
    BY <1>6 DEF WakeupDone, IInv, TypeOK
  <2>2. (OwnerInv /\ BitInv /\ ChainInv /\ DeadInv)'
    BY <1>6 DEF WakeupDone, IInv, TypeOK, OwnerInv, BitInv, ChainInv,
      DeadInv, Holds, ChainPC
  <2>3. (RunInv /\ SleepInv /\ NeverPanics)'
    BY <1>6 DEF WakeupDone, IInv, TypeOK, RunInv, SleepInv, NeverPanics
  <2>4. (NoMissedWakeup /\ ClearInv)'
    BY <1>6 DEF WakeupDone, IInv, TypeOK, NoMissedWakeup, ClearInv,
      Waking
  <2>5. (ScanInv /\ CheckInv /\ BlockInv)'
    BY <1>6 DEF WakeupDone, IInv, TypeOK, ScanInv, CheckInv, BlockInv
  <2> QED
    BY <2>1, <2>2, <2>3, <2>4, <2>5 DEF IInv
<1> QED
  BY <1>1, <1>2, <1>3, <1>4, <1>5, <1>6 DEF ExitStep

\* Every step by which a client starts or ends an operation preserves it.
LEMMA ClientStepInv ==
  ASSUME IInv, NEW t \in Thread, ClientStep(t)
  PROVE  IInv'
<1> USE DEF OwnerSeen, Label, OnCPU, At, Goto, lock, locals
<1>1. CASE MutexTryenter(t)
  BY <1>1, AcquireStep DEF MutexTryenter
<1>2. CASE MutexDestroy(t)
  BY <1>2, MutexDestroyStep
<1>3. CASE MutexInit(t)
  BY <1>3, MutexInitStep
<1>4. CASE CallEnter(t)
  <2>1. TypeOK'
    BY <1>4 DEF CallEnter, IInv, TypeOK
  <2>2. (OwnerInv /\ BitInv /\ ChainInv /\ DeadInv)'
    BY <1>4 DEF CallEnter, IInv, TypeOK, OwnerInv, BitInv, ChainInv,
      DeadInv, Holds, ChainPC
  <2>3. (RunInv /\ SleepInv /\ NeverPanics)'
    BY <1>4 DEF CallEnter, IInv, TypeOK, RunInv, SleepInv, NeverPanics
  <2>4. (NoMissedWakeup /\ ClearInv)'
    BY <1>4 DEF CallEnter, IInv, TypeOK, NoMissedWakeup, ClearInv, Waking
  <2>5. (ScanInv /\ CheckInv /\ BlockInv)'
    BY <1>4 DEF CallEnter, IInv, TypeOK, ScanInv, CheckInv, BlockInv
  <2> QED
    BY <2>1, <2>2, <2>3, <2>4, <2>5 DEF IInv
<1>5. CASE CallExit(t)
  <2>1. TypeOK'
    BY <1>5 DEF CallExit, IInv, TypeOK
  <2>2. (OwnerInv /\ BitInv /\ ChainInv /\ DeadInv)'
    BY <1>5 DEF CallExit, IInv, TypeOK, OwnerInv, BitInv, ChainInv,
      DeadInv, Holds, ChainPC
  <2>3. (RunInv /\ SleepInv /\ NeverPanics)'
    BY <1>5 DEF CallExit, IInv, TypeOK, RunInv, SleepInv, NeverPanics
  <2>4. (NoMissedWakeup /\ ClearInv)'
    BY <1>5 DEF CallExit, IInv, TypeOK, NoMissedWakeup, ClearInv, Waking
  <2>5. (ScanInv /\ CheckInv /\ BlockInv)'
    BY <1>5 DEF CallExit, IInv, TypeOK, ScanInv, CheckInv, BlockInv
  <2> QED
    BY <2>1, <2>2, <2>3, <2>4, <2>5 DEF IInv
<1> QED
  BY <1>1, <1>2, <1>3, <1>4, <1>5 DEF ClientStep

\* Preemption, with the restart of mutex_exit(), preserves the invariant.
LEMMA PreemptInv ==
  ASSUME IInv, NEW c \in CPU, Preempt(c)
  PROVE  IInv'
<1> USE DEF OwnerSeen, Label, OnCPU, lock, locals, Preempt, Preemptible
<1>1. TypeOK'
  BY DEF IInv, TypeOK
<1>2. (OwnerInv /\ BitInv /\ ChainInv /\ DeadInv)'
  BY DEF IInv, OwnerInv, BitInv, ChainInv, DeadInv, Holds, ChainPC
<1>3. (RunInv /\ SleepInv /\ NeverPanics)'
  BY DEF IInv, TypeOK, RunInv, SleepInv, NeverPanics
<1>4. (NoMissedWakeup /\ ClearInv)'
  BY DEF IInv, NoMissedWakeup, ClearInv, Waking
<1>5. (ScanInv /\ CheckInv /\ BlockInv)'
  BY DEF IInv, TypeOK, ScanInv, CheckInv, BlockInv
<1> QED
  BY <1>1, <1>2, <1>3, <1>4, <1>5 DEF IInv

\* A thread that resumes is not asleep, so it can take its next step.
LEMMA ResumeInv ==
  ASSUME IInv, NEW c \in CPU, NEW t \in Thread, Resume(c, t)
  PROVE  IInv'
<1> USE DEF OwnerSeen, Label, OnCPU, lock, locals, Resume
<1>1. TypeOK'
  BY DEF IInv, TypeOK
<1>2. (OwnerInv /\ BitInv /\ ChainInv /\ DeadInv)'
  BY DEF IInv, OwnerInv, BitInv, ChainInv, DeadInv, Holds
<1>3. (RunInv /\ SleepInv /\ NeverPanics)'
  BY MutexAssumption DEF IInv, RunInv, SleepInv, NeverPanics
<1>4. (NoMissedWakeup /\ ClearInv)'
  BY DEF IInv, NoMissedWakeup, ClearInv, Waking
<1>5. (ScanInv /\ CheckInv /\ BlockInv)'
  BY DEF IInv, OwnerInv, BitInv, ScanInv, CheckInv, BlockInv, Holds
<1> QED
  BY <1>1, <1>2, <1>3, <1>4, <1>5 DEF IInv

-----------------------------------------------------------------------------
\* IInv is an invariant of the specification.
THEOREM Inductive == Spec => []IInv
<1>1. Init => IInv
  BY MutexAssumption DEF Init, Label, IInv, TypeOK, OwnerInv, BitInv,
    ChainInv, RunInv, SleepInv, DeadInv, NoMissedWakeup, NeverPanics,
    ClearInv, ScanInv, CheckInv, BlockInv, Holds, ChainPC
<1>2. IInv /\ [Next]_vars => IInv'
  <2> SUFFICES ASSUME IInv, [Next]_vars
               PROVE  IInv'
    OBVIOUS
  <2>1. CASE UNCHANGED vars
    BY <2>1 DEF vars, OnCPU, IInv, TypeOK, OwnerInv, BitInv, ChainInv,
      RunInv, SleepInv, DeadInv, NoMissedWakeup, NeverPanics, ClearInv,
      ScanInv, CheckInv, BlockInv, Holds, Waking
  <2>2. CASE Next
    BY <2>2, EnterStepInv, ExitStepInv, ClientStepInv, PreemptInv,
      ResumeInv DEF Next
  <2> QED
    BY <2>1, <2>2
<1> QED
  BY <1>1, <1>2, PTL DEF Spec

\* Mutual exclusion: at most one thread is between mutex_enter() and the store
\* that releases the mutex, and it is the owner that the word names.
THEOREM MutualExclusionHolds == Spec => []MutualExclusion
<1>1. IInv => MutualExclusion
  BY DEF IInv, OwnerInv, MutualExclusion
<1> QED
  BY <1>1, Inductive, PTL

\* No wakeup is missed: a mutex on which threads sleep has an owner that will
\* see the waiters bit, whatever the interleaving of mutex_exit() with blockers
\* and with preemption.
THEOREM NoMissedWakeupHolds == Spec => []NoMissedWakeup
<1>1. IInv => NoMissedWakeup
  BY DEF IInv
<1> QED
  BY <1>1, Inductive, PTL

\* No panic of the mutex and turnstile code is reachable.
THEOREM NeverPanicsHolds == Spec => []NeverPanics
<1>1. IInv => NeverPanics
  BY DEF IInv
<1> QED
  BY <1>1, Inductive, PTL

\* The variables keep their types.
THEOREM TypeCorrect == Spec => []TypeOK
<1>1. IInv => TypeOK
  BY DEF IInv
<1> QED
  BY <1>1, Inductive, PTL
=============================================================================
