------------------------------- MODULE Taskq -------------------------------
(***************************************************************************)
(* Task queues: uts/common/os/taskq.c.                                     *)
(*                                                                         *)
(* A task queue is created, used and destroyed again and again; between    *)
(* lives it sits in taskq_cache.  Everything done while tq_lock is held is *)
(* one step; the places where the lock is dropped (task_alloc(),           *)
(* task_free(), cv_wait(), the execution of a task) separate steps.  The   *)
(* tasks of one life are numbered in the order in which they are queued.   *)
(* Any client, and any task while it executes, may dispatch.               *)
(***************************************************************************)
EXTENDS Naturals, Sequences, FiniteSets

CONSTANTS
  Worker,     \* the threads of the queue; nthreads is their number
  Client,     \* threads that create, wait for, suspend and destroy it
  MinAlloc,   \* argument minalloc of taskq_create()
  MaxAlloc,   \* argument maxalloc
  Prepopulate,\* TASKQ_PREPOPULATE
  KMFlags,    \* the flags dispatchers use: a subset of {"SLEEP", "NOSLEEP"}
  MaxTask,    \* bound on the number of tasks in one life
  Nobody

ASSUME TaskqAssumption ==
  /\ IsFiniteSet(Worker) /\ Worker # {} /\ IsFiniteSet(Client)
  /\ Worker \cap Client = {}
  /\ Nobody \notin Worker \cup Client
  /\ MinAlloc \in Nat /\ MaxAlloc \in Nat /\ MaxTask \in Nat
  /\ Prepopulate \in BOOLEAN
  /\ KMFlags \subseteq {"SLEEP", "NOSLEEP"}

VARIABLES
  tq_live,    \* FALSE while the structure is in taskq_cache
  tq_flag,    \* TASKQ_ACTIVE
  tq_active, tq_nthreads, tq_nalloc, tq_minalloc,
  tq_freelist,\* the number of task structures on it
  tq_task,    \* the queue of scheduled tasks, a sequence of task numbers
  suspender,  \* the client that holds tq_threadlock as RW_WRITER
  wpc,        \* Worker -> where it is in taskq_thread()
  wtask,      \* Worker -> the task it has taken, 0 if none
  dpc,        \* Worker and Client -> where it is in task_alloc(), <<>> if not there
  cpc,        \* Client -> where it is in taskq_wait(), taskq_destroy()
  ntask,      \* tasks queued so far in this life
  done,       \* tasks completed so far in this life
  before      \* Client -> tasks queued when it called taskq_wait()

life == <<tq_live, tq_flag, tq_minalloc>>
counts == <<tq_active, tq_nthreads>>
pool == <<tq_nalloc, tq_freelist>>
tq == <<life, counts, pool, tq_task>>
threads == <<wpc, wtask>>
history == <<ntask, done, before>>
vars == <<tq, suspender, threads, dpc, cpc, history>>

Dispatcher == Worker \cup Client

\* Destroying are the places in taskq_destroy().  "wait", "pwait" and "dwait" are
\* the cv_wait() on tq_wait_cv of taskq_wait(), of the taskq_wait() that
\* taskq_destroy() calls and of its own loop; in "wtest", "ptest" and "dtest" the
\* client is about to have tq_lock and to test the condition.
Destroying == {"pwait", "ptest", "stop", "dwait", "dtest", "dfree"}
CPC == {"idle", "wait", "wtest"} \cup Destroying
WPC == {"none", "loop", "cvwait", "signalled", "got", "exec", "finish", "free", "gone"}
DPC == {<<>>} \cup ({"check", "alloc"} \X {"SLEEP", "NOSLEEP"})

TypeOK ==
  /\ tq_live \in BOOLEAN /\ tq_flag \in BOOLEAN
  /\ tq_active \in 0 .. Cardinality(Worker)
  /\ tq_nthreads \in 0 .. Cardinality(Worker)
  /\ tq_nalloc \in Nat /\ tq_minalloc \in Nat /\ tq_freelist \in Nat
  /\ tq_task \in Seq(1 .. MaxTask)
  /\ suspender \in Client \cup {Nobody}
  /\ wpc \in [Worker -> WPC]
  /\ wtask \in [Worker -> 0 .. MaxTask]
  /\ dpc \in [Dispatcher -> DPC]
  /\ cpc \in [Client -> CPC]
  /\ ntask \in 0 .. MaxTask
  /\ done \in SUBSET (1 .. MaxTask)
  /\ before \in [Client -> SUBSET (1 .. MaxTask)]

\* taskq_constructor()
Init ==
  /\ tq_live = FALSE /\ tq_flag = FALSE
  /\ tq_active = 0 /\ tq_nthreads = 0
  /\ tq_nalloc = 0 /\ tq_minalloc = 0 /\ tq_freelist = 0
  /\ tq_task = <<>>
  /\ suspender = Nobody
  /\ wpc = [w \in Worker |-> "none"]
  /\ wtask = [w \in Worker |-> 0]
  /\ dpc = [d \in Dispatcher |-> <<>>]
  /\ cpc = [c \in Client |-> "idle"]
  /\ ntask = 0 /\ done = {}
  /\ before = [c \in Client |-> {}]

-----------------------------------------------------------------------------
\* cv_broadcast(&tq->tq_wait_cv)
BroadcastWait ==
  cpc' = [c \in Client |-> CASE cpc[c] = "wait"  -> "wtest"
                             [] cpc[c] = "pwait" -> "ptest"
                             [] cpc[c] = "dwait" -> "dtest"
                             [] OTHER            -> cpc[c]]

\* cv_signal(&tq->tq_dispatch_cv)
SignalDispatch ==
  IF \E w \in Worker : wpc[w] = "cvwait"
    THEN \E w \in Worker : wpc[w] = "cvwait" /\ wpc' = [wpc EXCEPT ![w] = "signalled"]
    ELSE UNCHANGED wpc

\* Nobody has begun to destroy the queue: from then on clients must leave it
\* alone (tasks may still dispatch until the last one has completed).
InUse == tq_live /\ \A c \in Client : cpc[c] \notin Destroying

MayDispatch(d) ==
  /\ dpc[d] = <<>>
  /\ ntask + Cardinality({e \in Dispatcher : dpc[e] # <<>>}) < MaxTask
  /\ \/ d \in Client /\ InUse /\ cpc[d] = "idle"
     \/ d \in Worker /\ wpc[d] = "exec"

-----------------------------------------------------------------------------
(* taskq_create()                                                          *)

\* tq_nalloc, tq_freelist and tq_task are not initialised: they are as the
\* previous life left them.  Prepopulating adds to them.
TaskqCreate ==
  /\ ~tq_live
  /\ \A c \in Client : cpc[c] = "idle"
  /\ tq_live' = TRUE /\ tq_flag' = TRUE
  /\ tq_active' = Cardinality(Worker) /\ tq_nthreads' = Cardinality(Worker)
  /\ tq_minalloc' = MinAlloc
  /\ IF Prepopulate
       THEN tq_nalloc' = tq_nalloc + MinAlloc /\ tq_freelist' = tq_freelist + MinAlloc
       ELSE UNCHANGED pool
  /\ wpc' = [w \in Worker |-> "loop"]
  /\ ntask' = 0 /\ done' = {} /\ before' = [c \in Client |-> {}]
  /\ UNCHANGED <<tq_task, suspender, wtask, dpc, cpc>>

-----------------------------------------------------------------------------
(* taskq_dispatch(), task_alloc()                                          *)

\* Mutant: at the head of the queue.
EnqueueFirst ==
  /\ ntask' = ntask + 1
  /\ tq_task' = <<ntask + 1>> \o tq_task
  /\ SignalDispatch

\* Mutant: a sleeping thread is only told when the queue was empty.
EnqueueSignalIfEmpty ==
  /\ ntask' = ntask + 1
  /\ tq_task' = Append(tq_task, ntask + 1)
  /\ IF tq_task = <<>> THEN SignalDispatch ELSE UNCHANGED wpc

\* Queue the task at the end and tell a thread.
Enqueue ==
  /\ ntask' = ntask + 1
  /\ tq_task' = Append(tq_task, ntask + 1)
  /\ SignalDispatch

\* The first condition of task_alloc().
UseFreelist == tq_freelist > 0 /\ tq_nalloc >= tq_minalloc

\* A task structure from the freelist.
DispatchFromFreelist(d) ==
  /\ MayDispatch(d)
  /\ UseFreelist
  /\ tq_freelist' = tq_freelist - 1
  /\ Enqueue
  /\ UNCHANGED <<life, counts, tq_nalloc, suspender, wtask, dpc, cpc, done, before>>

\* Otherwise tq_lock is dropped to allocate one.
DispatchAlloc(d, km) ==
  /\ MayDispatch(d)
  /\ ~UseFreelist
  /\ dpc' = [dpc EXCEPT ![d] = <<"check", km>>]
  /\ UNCHANGED <<tq, suspender, threads, cpc, history>>

\* The limit is tested without the lock: KM_NOSLEEP callers get nothing beyond
\* it, KM_SLEEP callers are delayed.
AllocCheck(d, km) ==
  /\ dpc[d] = <<"check", km>>
  /\ dpc' = [dpc EXCEPT ![d] = IF tq_nalloc >= MaxAlloc /\ km = "NOSLEEP"
                                 THEN <<>> ELSE <<"alloc", km>>]
  /\ UNCHANGED <<tq, suspender, threads, cpc, history>>

\* kmem_cache_alloc() succeeds: take tq_lock again, count it and queue the task.
AllocDone(d, km) ==
  /\ dpc[d] = <<"alloc", km>>
  /\ tq_nalloc' = tq_nalloc + 1
  /\ Enqueue
  /\ dpc' = [dpc EXCEPT ![d] = <<>>]
  /\ UNCHANGED <<life, counts, tq_freelist, suspender, wtask, cpc, done, before>>

\* kmem_cache_alloc(KM_NOSLEEP) returns NULL, and taskq_dispatch() 0.
AllocFails(d, km) ==
  /\ dpc[d] = <<"alloc", km>>
  /\ km = "NOSLEEP"
  /\ dpc' = [dpc EXCEPT ![d] = <<>>]
  /\ UNCHANGED <<tq, suspender, threads, cpc, history>>

-----------------------------------------------------------------------------
(* taskq_thread(), task_free()                                             *)

\* Thread w goes on at pc, with task n.
Goto(w, pc, n) == wpc' = [wpc EXCEPT ![w] = pc] /\ wtask' = [wtask EXCEPT ![w] = n]

\* Mutant: the tasks behind the first are unlinked with it.
UnlinkAll(q) == <<>>

\* The queue without its first task.
Unlink(q) == Tail(q)

\* From the test of TASKQ_ACTIVE on, with tq_lock held and tq_active being
\* active: leave; sleep, and tell the waiters if all threads now do; or take the
\* first task.
Loop(w, active) ==
  \/ /\ ~tq_flag
     /\ tq_nthreads' = tq_nthreads - 1 /\ tq_active' = active
     /\ BroadcastWait
     /\ Goto(w, "gone", 0)
     /\ UNCHANGED tq_task
  \/ /\ tq_flag /\ tq_task = <<>>
     /\ tq_active' = active - 1
     /\ IF active = 1 THEN BroadcastWait ELSE UNCHANGED cpc
     /\ Goto(w, "cvwait", 0)
     /\ UNCHANGED <<tq_nthreads, tq_task>>
  \/ /\ tq_flag /\ tq_task # <<>>
     /\ tq_task' = Unlink(tq_task)
     /\ tq_active' = active
     /\ Goto(w, "got", Head(tq_task))
     /\ UNCHANGED <<tq_nthreads, cpc>>

\* tq_active, after the increment that follows cv_wait().
Active(w) == IF wpc[w] = "signalled" THEN tq_active + 1 ELSE tq_active

\* A thread enters the loop, is back from task_free() having dropped the lock
\* there, or returns from cv_wait(&tq->tq_dispatch_cv).
ThreadLoop(w) ==
  /\ wpc[w] \in {"loop", "free", "signalled"}
  /\ Loop(w, Active(w))
  /\ UNCHANGED <<life, pool, suspender, dpc, history>>

\* rw_enter(&tq->tq_threadlock, RW_READER), and the task begins.
TaskBegin(w) ==
  /\ wpc[w] = "got"
  /\ suspender = Nobody
  /\ wpc' = [wpc EXCEPT ![w] = "exec"]
  /\ UNCHANGED <<tq, suspender, wtask, dpc, cpc, history>>

\* The task returns, and the thread rw_exit()s.
TaskEnd(w) ==
  /\ wpc[w] = "exec"
  /\ dpc[w] = <<>>
  /\ done' = done \cup {wtask[w]}
  /\ wpc' = [wpc EXCEPT ![w] = "finish"]
  /\ UNCHANGED <<tq, suspender, wtask, dpc, cpc, ntask, before>>

\* Mutant: a structure given back is still counted.
CountOutNothing == UNCHANGED tq_nalloc

\* A structure goes back to task_cache.
CountOut == tq_nalloc' = tq_nalloc - 1

\* task_free(): keep the structure if there are not more than tq_minalloc and
\* go on with the loop, else give it back, with tq_lock dropped.
ThreadFree(w) ==
  /\ wpc[w] = "finish"
  /\ IF tq_nalloc <= tq_minalloc
       THEN tq_freelist' = tq_freelist + 1 /\ UNCHANGED tq_nalloc /\ Loop(w, tq_active)
       ELSE CountOut /\ Goto(w, "free", 0) /\ UNCHANGED <<tq_freelist, counts, tq_task, cpc>>
  /\ UNCHANGED <<life, suspender, dpc, history>>

-----------------------------------------------------------------------------
(* taskq_wait(), taskq_destroy(), taskq_lock()                             *)

\* Mutant: only the threads are looked at.
QuiescentIfIdle == tq_active = 0

\* The condition taskq_wait() waits for.
Quiescent == tq_task = <<>> /\ tq_active = 0

\* taskq_wait() by c; before[c] is what has been scheduled by then.
TaskqWait(c) ==
  /\ InUse
  /\ cpc[c] = "idle" /\ dpc[c] = <<>>
  /\ suspender # c
  /\ before' = [before EXCEPT ![c] = 1 .. ntask]
  /\ cpc' = [cpc EXCEPT ![c] = "wtest"]
  /\ UNCHANGED <<tq, suspender, threads, dpc, ntask, done>>

\* taskq_destroy() begins with taskq_wait().
DestroyBegins == "ptest"

\* taskq_destroy() by c, once no other client uses the queue.
TaskqDestroy(c) ==
  /\ InUse
  /\ \A d \in Client : cpc[d] = "idle" /\ dpc[d] = <<>>
  /\ suspender = Nobody
  /\ before' = [before EXCEPT ![c] = 1 .. ntask]
  /\ cpc' = [cpc EXCEPT ![c] = DestroyBegins]
  /\ UNCHANGED <<tq, suspender, threads, dpc, ntask, done>>

\* taskq_wait() has tq_lock, at first or after cv_wait(): it returns or sleeps.
TaskqWaitTest(c) ==
  /\ \/ /\ cpc[c] = "wtest"
        /\ cpc' = [cpc EXCEPT ![c] = IF Quiescent THEN "idle" ELSE "wait"]
     \/ /\ cpc[c] = "ptest"
        /\ cpc' = [cpc EXCEPT ![c] = IF Quiescent THEN "stop" ELSE "pwait"]
  /\ UNCHANGED <<tq, suspender, threads, dpc, history>>

\* The head of the loop of taskq_destroy() over tq_nthreads.
DestroyLoop(c) ==
  IF tq_nthreads # 0
    THEN cpc' = [cpc EXCEPT ![c] = "dwait"] /\ UNCHANGED tq_minalloc
    ELSE cpc' = [cpc EXCEPT ![c] = "dfree"] /\ tq_minalloc' = 0

\* taskq_wait() has returned: clear TASKQ_ACTIVE and wake all threads.
DestroyStop(c) ==
  /\ cpc[c] = "stop"
  /\ tq_flag' = FALSE
  /\ wpc' = [w \in Worker |-> IF wpc[w] = "cvwait" THEN "signalled" ELSE wpc[w]]
  /\ DestroyLoop(c)
  /\ UNCHANGED <<tq_live, counts, pool, tq_task, suspender, wtask, dpc, history>>

\* A thread has left: wait for the others, or start freeing.
DestroyWaitTest(c) ==
  /\ cpc[c] = "dtest"
  /\ DestroyLoop(c)
  /\ UNCHANGED <<tq_live, tq_flag, counts, pool, tq_task, suspender, threads, dpc, history>>

\* task_free(task_alloc()): with an empty freelist the structure freed would be
\* the one just allocated.
DestroyFree(c) ==
  /\ cpc[c] = "dfree"
  /\ tq_nalloc # 0
  /\ IF UseFreelist THEN tq_freelist' = tq_freelist - 1 /\ CountOut ELSE UNCHANGED pool
  /\ UNCHANGED <<life, counts, tq_task, suspender, threads, dpc, cpc, history>>

\* Back to taskq_cache, in the constructed state.
DestroyDone(c) ==
  /\ cpc[c] = "dfree"
  /\ tq_nalloc = 0
  /\ tq_live' = FALSE
  /\ cpc' = [cpc EXCEPT ![c] = "idle"]
  /\ UNCHANGED <<tq_flag, tq_minalloc, counts, pool, tq_task, suspender, threads, dpc, history>>

\* A client suspends all task execution: rw_enter(taskq_lock(tq), RW_WRITER).
Suspend(c) ==
  /\ InUse
  /\ cpc[c] = "idle" /\ dpc[c] = <<>>
  /\ suspender = Nobody
  /\ \A w \in Worker : wpc[w] # "exec"
  /\ suspender' = c
  /\ UNCHANGED <<tq, threads, dpc, cpc, history>>

Resume(c) ==
  /\ suspender = c
  /\ suspender' = Nobody
  /\ UNCHANGED <<tq, threads, dpc, cpc, history>>

-----------------------------------------------------------------------------
DispatchStep(d) ==
  \E km \in KMFlags : AllocCheck(d, km) \/ AllocDone(d, km) \/ AllocFails(d, km)

WaitStep(c) ==
  \/ TaskqWaitTest(c)
  \/ DestroyStop(c) \/ DestroyWaitTest(c) \/ DestroyFree(c) \/ DestroyDone(c)

Next ==
  \/ TaskqCreate
  \/ \E d \in Dispatcher :
       \/ DispatchFromFreelist(d)
       \/ \E km \in KMFlags : DispatchAlloc(d, km)
       \/ DispatchStep(d)
  \/ \E w \in Worker :
       ThreadLoop(w) \/ TaskBegin(w) \/ TaskEnd(w) \/ ThreadFree(w)
  \/ \E c \in Client :
       TaskqWait(c) \/ TaskqDestroy(c) \/ WaitStep(c) \/ Suspend(c) \/ Resume(c)

Spec == Init /\ [][Next]_vars

\* Threads run; a task returns, however often it tries to dispatch others in vain;
\* memory is found, or the allocation fails; a suspension is lifted; and, as the reader-writer lock starves no reader, a
\* thread that wants to begin a task between suspensions eventually does.
Fairness ==
  /\ \A w \in Worker :
       /\ WF_vars(ThreadLoop(w) \/ ThreadFree(w))
       /\ SF_vars(TaskBegin(w)) /\ SF_vars(TaskEnd(w))
  /\ \A d \in Dispatcher : WF_vars(DispatchStep(d))
  /\ \A c \in Client : WF_vars(WaitStep(c)) /\ WF_vars(Resume(c))

FairSpec == Spec /\ Fairness

-----------------------------------------------------------------------------
(* Properties.                                                             *)

Holding == {w \in Worker : wpc[w] \in {"got", "exec", "finish"}}

\* Each task structure counted in tq_nalloc is on the freelist, on the queue or
\* with the thread that runs its task, although task_alloc() and task_free()
\* drop tq_lock half-way; and the structure goes back to taskq_cache as the
\* constructor left it, since taskq_create() does not reset these fields.
TasksAreAccountedFor ==
  /\ tq_nalloc = tq_freelist + Len(tq_task) + Cardinality(Holding)
  /\ ~tq_live => tq_nalloc = 0 /\ tq_task = <<>> /\ suspender = Nobody

\* No lost wakeup: if a thread sleeps and has not been signalled, every queued
\* task has a signalled thread of its own coming, one that no running task can
\* hold up.
NoIdleThreadMissesTask ==
  (\E w \in Worker : wpc[w] = "cvwait") =>
     Len(tq_task) <= Cardinality({w \in Worker : wpc[w] = "signalled"})

\* taskq_wait() returns, and taskq_destroy() stops the threads, only when every
\* task scheduled before the call has completed.
WaitCoversEarlierTasks ==
  [][\A c \in Client :
       \/ cpc[c] = "wtest" /\ cpc'[c] = "idle"
       \/ cpc[c] = "ptest" /\ cpc'[c] = "stop"
       => before[c] \subseteq done]_vars

\* "Since taskqs are queues, tasks are guaranteed to be executed in the order
\* they are scheduled if nthreads == 1", in general: a task that completes has
\* overtaken fewer tasks than there are threads.
RunsInOrder ==
  \A n \in done : Cardinality((1 .. n) \ done) < Cardinality(Worker)

\* "the latter limit is only advisory for KM_SLEEP allocations": with KM_NOSLEEP
\* callers only, the task population stays within maxalloc.
NoSleepKeepsMaxalloc == KMFlags = {"NOSLEEP"} => tq_nalloc <= MaxAlloc

\* Every scheduled task completes.
TasksComplete == \A n \in 1 .. MaxTask : ntask >= n ~> n \in done

\* taskq_wait() and taskq_destroy() return.
WaitsReturn == \A c \in Client : cpc[c] # "idle" ~> cpc[c] = "idle"
=============================================================================
