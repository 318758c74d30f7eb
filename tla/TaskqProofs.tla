---------------------------- MODULE TaskqProofs ----------------------------
(***************************************************************************)
(* Proofs about module Taskq, for any number of threads, clients and tasks *)
(* and any limits: the invariants that the run checks, and what            *)
(* taskq_wait() promises.                                                  *)
(***************************************************************************)
EXTENDS Taskq, FiniteSetTheorems, FunctionTheorems, SequenceTheorems, TLAPS

-----------------------------------------------------------------------------
(* The inductive invariant.                                                *)

\* The threads of the queue that are at one of the places S.
At(S) == {w \in Worker : wpc[w] \in S}

\* The places at which a thread counts as active, as existing and has a task.
ActivePC == {"loop", "got", "exec", "finish", "free", "gone"}
ThreadPC == {"loop", "cvwait", "signalled", "got", "exec", "finish", "free"}
HoldPC == {"got", "exec", "finish"}

\* tq_active and tq_nthreads are exact (a thread that leaves stays in tq_active).
CountsFit ==
  tq_active = Cardinality(At(ActivePC)) /\ tq_nthreads = Cardinality(At(ThreadPC))

\* Clients use the queue only while it lives, for one thing at a time; the one that
\* destroys it is alone.
ClientsFit ==
  /\ \A c \in Client :
       /\ cpc[c] # "idle" \/ dpc[c] # <<>> => tq_live
       /\ cpc[c] # "idle" => dpc[c] = <<>>
       /\ cpc[c] \in Destroying =>
            suspender = Nobody /\ \A d \in Client : dpc[d] = <<>> /\ (d # c => cpc[d] = "idle")
  /\ suspender # Nobody => tq_live

\* Threads exist while the queue lives, and dispatch only from the task they execute.
WorkersFit ==
  \A w \in Worker :
    /\ dpc[w] # <<>> => wpc[w] = "exec"
    /\ ~tq_live => wpc[w] \in {"none", "gone"}
    /\ tq_live => wpc[w] # "none"
    /\ tq_live /\ tq_flag => wpc[w] # "gone"

\* Once taskq_wait() has returned to taskq_destroy() the queue stays empty and the
\* threads have nothing to do but to leave.
StopFits ==
  /\ \A c \in Client :
       /\ cpc[c] = "stop" => tq_task = <<>> /\ \A w \in Worker : wpc[w] \in {"cvwait", "signalled"}
       /\ cpc[c] \in {"dwait", "dtest", "dfree"} =>
            ~tq_flag /\ tq_task = <<>> /\ \A w \in Worker : wpc[w] \in {"signalled", "gone"}
       /\ cpc[c] = "dfree" => tq_minalloc = 0 /\ \A w \in Worker : wpc[w] = "gone"
  /\ tq_live /\ ~tq_flag => \E c \in Client : cpc[c] \in {"dwait", "dtest", "dfree"}

\* The queue holds the tasks queued last, in their order; each of the others is
\* done or with a thread.
Taken == ntask - Len(tq_task)
QueueFits ==
  /\ Len(tq_task) <= ntask
  /\ \A i \in 1 .. Len(tq_task) : tq_task[i] = Taken + i
TasksFit ==
  /\ \A w \in Holding : wtask[w] \in 1 .. Taken
  /\ done \subseteq 1 .. Taken
  /\ \A n \in (1 .. Taken) \ done : \E w \in Worker : wpc[w] \in {"got", "exec"} /\ wtask[w] = n
  /\ \A c \in Client : before[c] \subseteq 1 .. ntask

\* Whoever is in task_alloc() has room for its task.
Allocating == {d \in Dispatcher : dpc[d] # <<>>}
RoomFits == ntask + Cardinality(Allocating) <= MaxTask

IInv ==
  /\ TypeOK /\ CountsFit /\ ClientsFit /\ WorkersFit /\ StopFits
  /\ QueueFits /\ TasksFit /\ RoomFits
  /\ TasksAreAccountedFor /\ NoIdleThreadMissesTask /\ RunsInOrder

-----------------------------------------------------------------------------
(* Counting threads.                                                       *)

\* A finite set with an element more or less.
LEMMA Counting ==
  ASSUME NEW S, IsFiniteSet(S)
  PROVE  /\ Cardinality(S) \in Nat
         /\ Cardinality(S) = 0 <=> S = {}
         /\ \A x : x \notin S => Cardinality(S \cup {x}) = Cardinality(S) + 1
         /\ \A x \in S : Cardinality(S \ {x}) = Cardinality(S) - 1
         /\ \A T \in SUBSET S : IsFiniteSet(T) /\ Cardinality(T) <= Cardinality(S)
<1>1. Cardinality(S) \in Nat
  BY FS_CardinalityType
<1>2. Cardinality(S) = 0 <=> S = {}
  BY FS_EmptySet
<1>3. \A x : x \notin S => Cardinality(S \cup {x}) = Cardinality(S) + 1
  BY FS_AddElement
<1>4. \A x \in S : Cardinality(S \ {x}) = Cardinality(S) - 1
  BY FS_RemoveElement
<1>5. \A T \in SUBSET S : IsFiniteSet(T) /\ Cardinality(T) <= Cardinality(S)
  BY FS_Subset
<1> QED
  BY <1>1, <1>2, <1>3, <1>4, <1>5

\* Threads at given places are counted.
LEMMA AtCount ==
  ASSUME NEW S
  PROVE  /\ IsFiniteSet(At(S)) /\ Cardinality(At(S)) \in 0 .. Cardinality(Worker)
         /\ Cardinality(At(S)) = 0 <=> \A w \in Worker : wpc[w] \notin S
<1>1. IsFiniteSet(Worker) /\ At(S) \subseteq Worker
  BY TaskqAssumption DEF At
<1>2. /\ IsFiniteSet(At(S)) /\ Cardinality(At(S)) <= Cardinality(Worker)
      /\ Cardinality(Worker) \in Nat
  BY <1>1, Counting
<1>3. Cardinality(At(S)) \in Nat /\ (Cardinality(At(S)) = 0 <=> At(S) = {})
  BY <1>2, Counting
<1> QED
  BY <1>2, <1>3 DEF At

\* What becomes of the number when one thread moves.
LEMMA MoveCount ==
  ASSUME wpc \in [Worker -> WPC], NEW w \in Worker, NEW l, wpc' = [wpc EXCEPT ![w] = l], NEW S
  PROVE  /\ wpc[w] \in S /\ l \in S => At(S)' = At(S)
         /\ wpc[w] \notin S /\ l \notin S => At(S)' = At(S)
         /\ wpc[w] \in S /\ l \notin S => Cardinality(At(S)') = Cardinality(At(S)) - 1
         /\ wpc[w] \notin S /\ l \in S => Cardinality(At(S)') = Cardinality(At(S)) + 1
<1>1. IsFiniteSet(At(S))
  BY AtCount
<1>2. \A v \in Worker : wpc'[v] = IF v = w THEN l ELSE wpc[v]
  OBVIOUS
<1>3. /\ wpc[w] \in S => w \in At(S)
      /\ wpc[w] \notin S => w \notin At(S)
  BY DEF At
<1>4. /\ l \in S => At(S)' = At(S) \cup {w}
      /\ l \notin S => At(S)' = At(S) \ {w}
  BY <1>2 DEF At
<1> QED
  BY <1>1, <1>3, <1>4, Counting

\* Who holds a task, and who has been signalled, in these terms.
LEMMA AtNames ==
  /\ Holding = At(HoldPC)
  /\ {w \in Worker : wpc[w] = "signalled"} = At({"signalled"})
  BY DEF Holding, At, HoldPC

\* Dispatchers in task_alloc() are counted too.
LEMMA DispatcherFinite == IsFiniteSet(Dispatcher)
  BY TaskqAssumption, FS_Union DEF Dispatcher

LEMMA AllocFinite == IsFiniteSet(Allocating) /\ Cardinality(Allocating) \in Nat
<1>1. IsFiniteSet(Allocating)
  BY DispatcherFinite, Counting DEF Allocating
<1> QED
  BY <1>1, Counting

\* What becomes of that number when one of them moves.
LEMMA AllocCount ==
  ASSUME dpc \in [Dispatcher -> DPC], NEW d \in Dispatcher, NEW x, dpc' = [dpc EXCEPT ![d] = x]
  PROVE  /\ Cardinality(Allocating) \in Nat
         /\ dpc[d] = <<>> /\ x # <<>> => Cardinality(Allocating') = Cardinality(Allocating) + 1
         /\ dpc[d] # <<>> /\ x = <<>> => Cardinality(Allocating') = Cardinality(Allocating) - 1
         /\ dpc[d] # <<>> /\ x # <<>> => Allocating' = Allocating
<1>2. IsFiniteSet(Allocating)
  BY AllocFinite
<1>3. \A e \in Dispatcher : dpc'[e] = IF e = d THEN x ELSE dpc[e]
  OBVIOUS
<1>4. /\ dpc[d] # <<>> => d \in Allocating
      /\ dpc[d] = <<>> => d \notin Allocating
  BY DEF Allocating
<1>5. /\ x # <<>> => Allocating' = Allocating \cup {d}
      /\ x = <<>> => Allocating' = Allocating \ {d}
  BY <1>3 DEF Allocating
<1> QED
  BY <1>2, <1>4, <1>5, Counting

\* Fewer than all threads hold fewer tasks than there are threads.
LEMMA OthersTasks ==
  ASSUME NEW w \in Worker, NEW T,
         \A n \in T : \E v \in Worker \ {w} : wtask[v] = n
  PROVE  Cardinality(T) < Cardinality(Worker)
<1> DEFINE U == {wtask[v] : v \in Worker \ {w}}
<1>1. IsFiniteSet(Worker)
  BY TaskqAssumption
<1>2. /\ IsFiniteSet(Worker \ {w}) /\ Cardinality(Worker \ {w}) = Cardinality(Worker) - 1
      /\ Cardinality(Worker) \in Nat
  BY <1>1, Counting
<1>3. IsFiniteSet(U) /\ Cardinality(U) <= Cardinality(Worker \ {w})
  <2> DEFINE f == [v \in Worker \ {w} |-> wtask[v]]
  <2>1. f \in Surjection(Worker \ {w}, U)
    BY Fun_IsSurj
  <2> QED
    BY <1>2, <2>1, FS_Surjection
<1>4. T \subseteq U
  OBVIOUS
<1>5. Cardinality(T) <= Cardinality(U) /\ Cardinality(T) \in Nat /\ Cardinality(U) \in Nat
  BY <1>3, <1>4, Counting
<1> QED
  BY <1>2, <1>3, <1>5

-----------------------------------------------------------------------------
(* The queue.                                                              *)

\* A signal wakes a sleeping thread if there is one, and moves no other.
LEMMA SignalEffect ==
  ASSUME IInv, SignalDispatch
  PROVE  /\ wpc' \in [Worker -> WPC]
         /\ \A w \in Worker : wpc'[w] = wpc[w] \/ (wpc[w] = "cvwait" /\ wpc'[w] = "signalled")
         /\ At(ActivePC)' = At(ActivePC) /\ At(ThreadPC)' = At(ThreadPC) /\ Holding' = Holding
         /\ \/ \A w \in Worker : wpc'[w] # "cvwait"
            \/ Cardinality(At({"signalled"})') = Cardinality(At({"signalled"})) + 1
<1>1. wpc \in [Worker -> WPC]
  BY DEF IInv, TypeOK
<1>2. CASE \E w \in Worker : wpc[w] = "cvwait"
  <2>1. PICK w \in Worker : wpc[w] = "cvwait" /\ wpc' = [wpc EXCEPT ![w] = "signalled"]
    BY <1>2 DEF SignalDispatch
  <2>2. /\ At(ActivePC)' = At(ActivePC) /\ At(ThreadPC)' = At(ThreadPC)
        /\ At(HoldPC)' = At(HoldPC)
        /\ Cardinality(At({"signalled"})') = Cardinality(At({"signalled"})) + 1
    <3>1. /\ "cvwait" \notin ActivePC /\ "signalled" \notin ActivePC
          /\ "cvwait" \in ThreadPC /\ "signalled" \in ThreadPC
          /\ "cvwait" \notin HoldPC /\ "signalled" \notin HoldPC
      BY DEF ActivePC, ThreadPC, HoldPC
    <3> QED
      BY <1>1, <2>1, <3>1, MoveCount
  <2> QED
    BY <1>1, <2>1, <2>2, AtNames DEF WPC, Holding, At
<1>3. CASE ~\E w \in Worker : wpc[w] = "cvwait"
  BY <1>1, <1>3 DEF SignalDispatch, At, Holding
<1> QED
  BY <1>2, <1>3

\* A task is queued behind the others, with a thread to come for it.
LEMMA EnqueueEffect ==
  ASSUME IInv, Enqueue, ntask < MaxTask, UNCHANGED <<wtask, done, before>>
  PROVE  /\ ntask' = ntask + 1 /\ ntask' \in 0 .. MaxTask
         /\ tq_task' \in Seq(1 .. MaxTask) /\ Len(tq_task') = Len(tq_task) + 1
         /\ QueueFits' /\ TasksFit' /\ NoIdleThreadMissesTask'
<1>1. /\ tq_task \in Seq(1 .. MaxTask) /\ ntask \in Nat /\ Len(tq_task) \in Nat /\ MaxTask \in Nat
      /\ Len(tq_task) <= ntask /\ ntask + 1 \in 1 .. MaxTask
      /\ \A i \in 1 .. Len(tq_task) : tq_task[i] = Taken + i
  BY TaskqAssumption DEF IInv, TypeOK, QueueFits
<1>2. ntask' = ntask + 1 /\ tq_task' = Append(tq_task, ntask + 1)
  BY DEF Enqueue
<1>3. /\ tq_task' \in Seq(1 .. MaxTask) /\ Len(tq_task') = Len(tq_task) + 1
      /\ \A i \in 1 .. Len(tq_task) : tq_task'[i] = tq_task[i]
      /\ tq_task'[Len(tq_task) + 1] = ntask + 1
  BY <1>1, <1>2
<1>4. Taken' = Taken /\ Taken \in Nat /\ Taken + Len(tq_task) = ntask
  BY <1>1, <1>2, <1>3 DEF Taken
<1>5. /\ wpc' \in [Worker -> WPC]
      /\ \A w \in Worker : wpc'[w] = wpc[w] \/ (wpc[w] = "cvwait" /\ wpc'[w] = "signalled")
      /\ Holding' = Holding
      /\ \/ \A w \in Worker : wpc'[w] # "cvwait"
         \/ Cardinality(At({"signalled"})') = Cardinality(At({"signalled"})) + 1
  BY SignalEffect DEF Enqueue
<1>6. QueueFits'
  <2>1. \A i \in 1 .. Len(tq_task') : tq_task'[i] = Taken + i
    <3> SUFFICES ASSUME NEW i \in 1 .. Len(tq_task) + 1 PROVE tq_task'[i] = Taken + i
      BY <1>3
    <3>1. CASE i = Len(tq_task) + 1
      <4>1. tq_task'[i] = ntask + 1
        BY <1>3, <3>1
      <4>2. Taken + i = ntask + 1
        BY <1>1, <1>4, <3>1
      <4> QED
        BY <4>1, <4>2
    <3>2. CASE i # Len(tq_task) + 1
      BY <1>1, <1>3, <3>2, SMTT(30)
    <3> QED
      BY <3>1, <3>2
  <2> QED
    BY <1>1, <1>2, <1>3, <1>4, <2>1 DEF QueueFits
<1>7. TasksFit'
  <2>1. \A c \in Client : before[c] \subseteq 1 .. ntask + 1
    BY <1>1 DEF IInv, TasksFit
  <2> QED
    BY <1>2, <1>4, <1>5, <2>1 DEF IInv, TasksFit
<1>8. NoIdleThreadMissesTask'
  <2>1. CASE \A w \in Worker : wpc[w] # "cvwait"
    BY <1>5, <2>1 DEF NoIdleThreadMissesTask
  <2>2. CASE ~\A w \in Worker : wpc[w] # "cvwait"
    <3>1. Len(tq_task) <= Cardinality(At({"signalled"}))
      BY <2>2, AtNames DEF IInv, NoIdleThreadMissesTask
    <3>2. Cardinality(At({"signalled"})) \in Nat
      BY AtCount
    <3>3. (\E w \in Worker : wpc'[w] = "cvwait") =>
            Len(tq_task') <= Cardinality(At({"signalled"})')
      BY <1>1, <1>3, <1>5, <3>1, <3>2
    <3>4. At({"signalled"})' = {w \in Worker : wpc'[w] = "signalled"}
      BY DEF At
    <3> QED
      BY <3>3, <3>4 DEF NoIdleThreadMissesTask
  <2> QED
    BY <2>1, <2>2
<1> QED
  BY <1>1, <1>2, <1>3, <1>6, <1>7, <1>8

\* Whoever dispatches, or is about to, does so in a queue that is not being stopped.
LEMMA NotStopping ==
  ASSUME IInv, NEW d \in Dispatcher, MayDispatch(d) \/ dpc[d] # <<>>
  PROVE  tq_live /\ \A c \in Client : cpc[c] \notin {"stop", "dwait", "dtest", "dfree"}
<1>1. CASE d \in Worker
  <2>1. wpc[d] = "exec"
    BY <1>1, TaskqAssumption DEF IInv, WorkersFit, MayDispatch
  <2> QED
    BY <1>1, <2>1 DEF IInv, WorkersFit, StopFits
<1>2. CASE d \in Client
  BY <1>2, TaskqAssumption DEF IInv, ClientsFit, MayDispatch, InUse, Destroying
<1> QED
  BY <1>1, <1>2 DEF Dispatcher

\* The steps that queue a task preserve all that does not depend on the structures.
LEMMA EnqueuePreserves ==
  ASSUME IInv, NEW d \in Dispatcher, MayDispatch(d) \/ dpc[d] # <<>>, Enqueue, ntask < MaxTask,
         UNCHANGED <<life, counts, suspender, wtask, cpc, done, before>>,
         dpc' \in [Dispatcher -> DPC], \A e \in Dispatcher : dpc'[e] = dpc[e] \/ dpc'[e] = <<>>
  PROVE  /\ (CountsFit /\ ClientsFit /\ WorkersFit /\ StopFits /\ QueueFits /\ TasksFit)'
         /\ (NoIdleThreadMissesTask /\ RunsInOrder)'
         /\ ntask' = ntask + 1 /\ ntask' \in 0 .. MaxTask /\ tq_task' \in Seq(1 .. MaxTask)
         /\ Len(tq_task') = Len(tq_task) + 1 /\ Holding' = Holding
         /\ wpc' \in [Worker -> WPC] /\ tq_live
<1>1. tq_live /\ \A c \in Client : cpc[c] \notin {"stop", "dwait", "dtest", "dfree"}
  BY NotStopping
<1>2. /\ ntask' = ntask + 1 /\ ntask' \in 0 .. MaxTask
      /\ tq_task' \in Seq(1 .. MaxTask) /\ Len(tq_task') = Len(tq_task) + 1
      /\ QueueFits' /\ TasksFit' /\ NoIdleThreadMissesTask'
  BY EnqueueEffect
<1>3. /\ wpc' \in [Worker -> WPC] /\ Holding' = Holding
      /\ \A w \in Worker : wpc'[w] = wpc[w] \/ (wpc[w] = "cvwait" /\ wpc'[w] = "signalled")
      /\ At(ActivePC)' = At(ActivePC) /\ At(ThreadPC)' = At(ThreadPC)
  BY SignalEffect DEF Enqueue
<1>4. /\ tq_live' = tq_live /\ tq_flag' = tq_flag /\ tq_active' = tq_active
      /\ tq_nthreads' = tq_nthreads /\ suspender' = suspender /\ cpc' = cpc /\ done' = done
  BY DEF life, counts
<1>5. CountsFit'
  BY <1>3, <1>4 DEF IInv, CountsFit
<1>6. ClientsFit'
  BY <1>4 DEF IInv, ClientsFit, Dispatcher
<1>7. WorkersFit'
  BY <1>3, <1>4 DEF IInv, WorkersFit, Dispatcher
<1>8. StopFits'
  BY <1>1, <1>4 DEF IInv, StopFits
<1>9. RunsInOrder'
  BY <1>4 DEF IInv, RunsInOrder
<1> QED
  BY <1>1, <1>2, <1>3, <1>5, <1>6, <1>7, <1>8, <1>9

\* A task is queued in a structure from the freelist.
LEMMA DispatchFromFreelistStep ==
  ASSUME IInv, NEW d \in Dispatcher, DispatchFromFreelist(d)
  PROVE  IInv'
<1>1. /\ MayDispatch(d) /\ Enqueue /\ tq_freelist > 0 /\ tq_freelist' = tq_freelist - 1
      /\ UNCHANGED <<life, counts, tq_nalloc, suspender, wtask, dpc, cpc, done, before>>
  BY DEF DispatchFromFreelist, UseFreelist
<1>2. /\ dpc \in [Dispatcher -> DPC] /\ ntask \in Nat /\ MaxTask \in Nat
      /\ tq_nalloc \in Nat /\ tq_freelist \in Nat /\ tq_task \in Seq(1 .. MaxTask)
      /\ Len(tq_task) \in Nat
  BY TaskqAssumption DEF IInv, TypeOK
<1>3. ntask + Cardinality(Allocating) < MaxTask /\ Cardinality(Allocating) \in Nat
  <2>1. Cardinality(Allocating) \in Nat
    BY AllocFinite
  <2> QED
    BY <1>1, <2>1 DEF MayDispatch, Allocating
<1>4. ntask < MaxTask
  BY <1>2, <1>3
<1>5. /\ (CountsFit /\ ClientsFit /\ WorkersFit /\ StopFits /\ QueueFits /\ TasksFit)'
      /\ (NoIdleThreadMissesTask /\ RunsInOrder)'
      /\ ntask' = ntask + 1 /\ ntask' \in 0 .. MaxTask /\ tq_task' \in Seq(1 .. MaxTask)
      /\ Len(tq_task') = Len(tq_task) + 1 /\ Holding' = Holding
      /\ wpc' \in [Worker -> WPC] /\ tq_live
  BY <1>1, <1>2, <1>4, EnqueuePreserves
<1>6. TypeOK'
  <2>1. tq_freelist' \in Nat
    BY <1>1, <1>2
  <2> QED
    BY <1>1, <1>5, <2>1 DEF IInv, TypeOK, life, counts
<1>7. RoomFits'
  <2>1. Allocating' = Allocating
    BY <1>1 DEF Allocating
  <2> QED
    BY <1>2, <1>3, <1>5, <2>1 DEF RoomFits
<1>8. TasksAreAccountedFor'
  <2>1. Cardinality(Holding) \in Nat
    BY AtCount, AtNames
  <2>2. tq_live' = tq_live /\ tq_nalloc' = tq_nalloc
    BY <1>1 DEF life
  <2> QED
    BY <1>1, <1>2, <1>5, <2>1, <2>2 DEF IInv, TasksAreAccountedFor
<1> QED
  BY <1>5, <1>6, <1>7, <1>8 DEF IInv

\* A task is queued in a structure allocated for it.
LEMMA AllocDoneStep ==
  ASSUME IInv, NEW d \in Dispatcher, NEW km, AllocDone(d, km)
  PROVE  IInv'
<1>1. /\ dpc[d] = <<"alloc", km>> /\ Enqueue /\ tq_nalloc' = tq_nalloc + 1
      /\ dpc' = [dpc EXCEPT ![d] = <<>>]
      /\ UNCHANGED <<life, counts, tq_freelist, suspender, wtask, cpc, done, before>>
  BY DEF AllocDone
<1>2. /\ dpc \in [Dispatcher -> DPC] /\ ntask \in Nat /\ MaxTask \in Nat
      /\ tq_nalloc \in Nat /\ tq_freelist \in Nat /\ tq_task \in Seq(1 .. MaxTask)
      /\ Len(tq_task) \in Nat
  BY TaskqAssumption DEF IInv, TypeOK
<1>3. dpc[d] # <<>> /\ dpc' \in [Dispatcher -> DPC]
      /\ \A e \in Dispatcher : dpc'[e] = dpc[e] \/ dpc'[e] = <<>>
  BY <1>1, <1>2 DEF DPC
<1>4. /\ Cardinality(Allocating) \in Nat /\ ntask + Cardinality(Allocating) <= MaxTask
      /\ Cardinality(Allocating') = Cardinality(Allocating) - 1 /\ Cardinality(Allocating') \in Nat
  <2>1. /\ Cardinality(Allocating) \in Nat
        /\ Cardinality(Allocating') = Cardinality(Allocating) - 1
    BY <1>1, <1>2, <1>3, AllocCount
  <2>2. IsFiniteSet(Allocating')
    BY DispatcherFinite, Counting DEF Allocating
  <2> QED
    BY <2>1, <2>2, Counting DEF IInv, RoomFits
<1>5. ntask < MaxTask
  BY <1>2, <1>4
<1>6. /\ (CountsFit /\ ClientsFit /\ WorkersFit /\ StopFits /\ QueueFits /\ TasksFit)'
      /\ (NoIdleThreadMissesTask /\ RunsInOrder)'
      /\ ntask' = ntask + 1 /\ ntask' \in 0 .. MaxTask /\ tq_task' \in Seq(1 .. MaxTask)
      /\ Len(tq_task') = Len(tq_task) + 1 /\ Holding' = Holding
      /\ wpc' \in [Worker -> WPC] /\ tq_live
  BY <1>1, <1>3, <1>5, EnqueuePreserves
<1>7. TypeOK'
  <2>1. tq_nalloc' \in Nat
    BY <1>1, <1>2
  <2> QED
    BY <1>1, <1>3, <1>6, <2>1 DEF IInv, TypeOK, life, counts
<1>8. RoomFits'
  BY <1>2, <1>4, <1>6 DEF RoomFits
<1>9. TasksAreAccountedFor'
  <2>1. Cardinality(Holding) \in Nat
    BY AtCount, AtNames
  <2>2. tq_live' = tq_live /\ tq_freelist' = tq_freelist
    BY <1>1 DEF life
  <2> QED
    BY <1>1, <1>2, <1>6, <2>1, <2>2 DEF IInv, TasksAreAccountedFor
<1> QED
  BY <1>6, <1>7, <1>8, <1>9 DEF IInv

-----------------------------------------------------------------------------
(* The threads.                                                            *)

\* Where a thread is when it comes to the test of TASKQ_ACTIVE.
TurnPC == {"loop", "free", "signalled", "finish"}

\* Telling the waiters takes no client into or out of taskq_destroy(), or any of
\* its phases.
LEMMA BroadcastEffect ==
  ASSUME IInv, BroadcastWait \/ UNCHANGED cpc
  PROVE  /\ cpc' \in [Client -> CPC]
         /\ \A c \in Client :
              /\ cpc'[c] = "idle" <=> cpc[c] = "idle"
              /\ cpc'[c] \in Destroying <=> cpc[c] \in Destroying
              /\ cpc'[c] = "stop" <=> cpc[c] = "stop"
              /\ cpc'[c] \in {"dwait", "dtest"} <=> cpc[c] \in {"dwait", "dtest"}
              /\ cpc'[c] = "dfree" <=> cpc[c] = "dfree"
<1>1. cpc \in [Client -> CPC]
  BY DEF IInv, TypeOK
<1> QED
  BY <1>1 DEF BroadcastWait, CPC, Destroying

\* What a turn of the loop cannot disturb, whatever the thread does in it.
LEMMA TurnKeeps ==
  ASSUME IInv, NEW w \in Worker, wpc[w] \in TurnPC, Loop(w, Active(w)),
         UNCHANGED <<life, suspender, dpc, history>>
  PROVE  /\ cpc' \in [Client -> CPC] /\ ClientsFit' /\ WorkersFit' /\ RoomFits' /\ RunsInOrder'
         /\ tq_live
<1>1. BroadcastWait \/ UNCHANGED cpc
  BY DEF Loop
<1>2. /\ tq_live' = tq_live /\ tq_flag' = tq_flag /\ suspender' = suspender /\ dpc' = dpc
      /\ ntask' = ntask /\ done' = done
  BY DEF life, history
<1>3. wpc \in [Worker -> WPC]
  BY DEF IInv, TypeOK
<1>4. /\ tq_live /\ dpc[w] = <<>>
  BY DEF IInv, WorkersFit, TurnPC
<1>5. \A v \in Worker : v # w => wpc'[v] = wpc[v]
  BY <1>3 DEF Loop, Goto
<1>6. wpc'[w] \in {"cvwait", "got", "gone"} /\ (wpc'[w] = "gone" => ~tq_flag)
  BY <1>3 DEF Loop, Goto
<1>7. ClientsFit'
  BY <1>1, <1>2, BroadcastEffect DEF IInv, ClientsFit
<1>8. WorkersFit'
  BY <1>2, <1>4, <1>5, <1>6 DEF IInv, WorkersFit
<1>9. RoomFits' /\ RunsInOrder'
  BY <1>2 DEF IInv, RoomFits, RunsInOrder, Allocating
<1> QED
  BY <1>1, <1>4, <1>7, <1>8, <1>9, BroadcastEffect

\* A thread leaves.
LEMMA TurnLeaves ==
  ASSUME IInv, NEW w \in Worker, wpc[w] \in TurnPC, tq_live, ~tq_flag,
         tq_nthreads' = tq_nthreads - 1, tq_active' = Active(w), BroadcastWait,
         Goto(w, "gone", 0), UNCHANGED <<life, history, tq_task>>
  PROVE  /\ CountsFit' /\ StopFits' /\ QueueFits' /\ TasksFit' /\ NoIdleThreadMissesTask'
         /\ wpc' \in [Worker -> WPC] /\ wtask' \in [Worker -> 0 .. MaxTask]
         /\ Holding' = Holding /\ wpc[w] # "finish"
<1>1. /\ wpc \in [Worker -> WPC] /\ wtask \in [Worker -> 0 .. MaxTask] /\ MaxTask \in Nat
  BY TaskqAssumption DEF IInv, TypeOK
<1>2. PICK c \in Client : cpc[c] \in {"dwait", "dtest", "dfree"}
  BY DEF IInv, StopFits
<1>3. /\ tq_task = <<>> /\ wpc[w] = "signalled" /\ cpc[c] # "dfree"
      /\ \A v \in Worker : wpc[v] \in {"signalled", "gone"}
      /\ \A d \in Client : d # c => cpc[d] = "idle"
  BY <1>2 DEF IInv, StopFits, ClientsFit, TurnPC, Destroying
<1>4. wpc' = [wpc EXCEPT ![w] = "gone"] /\ wtask' = [wtask EXCEPT ![w] = 0]
  BY DEF Goto
<1>5. /\ At(HoldPC)' = At(HoldPC)
      /\ Cardinality(At(ActivePC)') = Cardinality(At(ActivePC)) + 1
      /\ Cardinality(At(ThreadPC)') = Cardinality(At(ThreadPC)) - 1
  <2>1. /\ "signalled" \notin ActivePC /\ "gone" \in ActivePC
        /\ "signalled" \in ThreadPC /\ "gone" \notin ThreadPC
        /\ "signalled" \notin HoldPC /\ "gone" \notin HoldPC
    BY DEF ActivePC, ThreadPC, HoldPC
  <2> QED
    BY <1>1, <1>3, <1>4, <2>1, MoveCount
<1>6. CountsFit'
  BY <1>3, <1>5 DEF IInv, CountsFit, Active
<1>7. /\ wpc' \in [Worker -> WPC] /\ wtask' \in [Worker -> 0 .. MaxTask]
      /\ \A v \in Worker : wpc'[v] = IF v = w THEN "gone" ELSE wpc[v]
      /\ \A v \in Worker : v # w => wtask'[v] = wtask[v]
  BY <1>1, <1>4 DEF WPC
<1>8. Holding = {} /\ Holding' = {}
  BY <1>3, <1>7 DEF Holding
<1>9. /\ tq_task' = tq_task /\ ntask' = ntask /\ done' = done /\ before' = before
      /\ tq_flag' = tq_flag /\ tq_live' = tq_live /\ tq_minalloc' = tq_minalloc
  BY DEF life, history
<1>10. QueueFits' /\ TasksFit'
  <2>1. Taken' = Taken
    BY <1>9 DEF Taken
  <2>2. \A n \in (1 .. Taken) \ done : FALSE
    BY <1>3 DEF IInv, TasksFit
  <2> QED
    BY <1>8, <1>9, <2>1, <2>2 DEF IInv, QueueFits, TasksFit
<1>11. StopFits'
  <2>1. \A d \in Client : /\ d # c => cpc'[d] = "idle"
                          /\ cpc'[c] \in {"dwait", "dtest"}
    BY <1>2, <1>3, BroadcastEffect
  <2>2. \A v \in Worker : wpc'[v] \in {"signalled", "gone"}
    BY <1>3, <1>7
  <2> QED
    BY <1>3, <1>9, <2>1, <2>2 DEF StopFits
<1>12. NoIdleThreadMissesTask'
  BY <1>3, <1>7 DEF NoIdleThreadMissesTask
<1> QED
  BY <1>3, <1>6, <1>7, <1>8, <1>10, <1>11, <1>12

\* A thread goes to sleep.
LEMMA TurnSleeps ==
  ASSUME IInv, NEW w \in Worker, wpc[w] \in TurnPC, tq_flag, tq_task = <<>>,
         tq_active' = Active(w) - 1, BroadcastWait \/ UNCHANGED cpc,
         Goto(w, "cvwait", 0), UNCHANGED <<life, history, tq_nthreads, tq_task>>
  PROVE  /\ CountsFit' /\ StopFits' /\ QueueFits' /\ TasksFit' /\ NoIdleThreadMissesTask'
         /\ wpc' \in [Worker -> WPC] /\ wtask' \in [Worker -> 0 .. MaxTask]
         /\ wpc[w] = "finish" => Cardinality(Holding') = Cardinality(Holding) - 1
         /\ wpc[w] # "finish" => Holding' = Holding
<1>1. /\ wpc \in [Worker -> WPC] /\ wtask \in [Worker -> 0 .. MaxTask] /\ MaxTask \in Nat
  BY TaskqAssumption DEF IInv, TypeOK
<1>2. wpc' = [wpc EXCEPT ![w] = "cvwait"] /\ wtask' = [wtask EXCEPT ![w] = 0]
  BY DEF Goto
<1>3. /\ wpc' \in [Worker -> WPC] /\ wtask' \in [Worker -> 0 .. MaxTask]
      /\ \A v \in Worker : wpc'[v] = IF v = w THEN "cvwait" ELSE wpc[v]
      /\ \A v \in Worker : v # w => wtask'[v] = wtask[v]
  BY <1>1, <1>2 DEF WPC
<1>4. /\ wpc[w] = "finish" => Cardinality(At(HoldPC)') = Cardinality(At(HoldPC)) - 1
      /\ wpc[w] # "finish" => At(HoldPC)' = At(HoldPC)
      /\ wpc[w] # "signalled" => Cardinality(At(ActivePC)') = Cardinality(At(ActivePC)) - 1
      /\ wpc[w] = "signalled" => At(ActivePC)' = At(ActivePC)
      /\ At(ThreadPC)' = At(ThreadPC)
  <2>1. /\ wpc[w] # "signalled" <=> wpc[w] \in ActivePC
        /\ wpc[w] = "finish" <=> wpc[w] \in HoldPC
        /\ wpc[w] \in ThreadPC
        /\ "cvwait" \notin ActivePC /\ "cvwait" \in ThreadPC /\ "cvwait" \notin HoldPC
    BY DEF ActivePC, ThreadPC, HoldPC, TurnPC
  <2> QED
    BY <1>1, <1>2, <2>1, MoveCount
<1>5. CountsFit'
  <2>1. Cardinality(At(ActivePC)) \in Nat
    BY AtCount
  <2>2. /\ tq_active = Cardinality(At(ActivePC)) /\ tq_nthreads = Cardinality(At(ThreadPC))
    BY DEF IInv, CountsFit
  <2> QED
    BY <1>4, <2>1, <2>2 DEF CountsFit, Active
<1>6. /\ tq_task' = tq_task /\ ntask' = ntask /\ done' = done /\ before' = before
      /\ tq_flag' = tq_flag /\ Taken' = Taken
  BY DEF life, history, Taken
<1>7. QueueFits'
  BY <1>6 DEF IInv, QueueFits
<1>8. TasksFit'
  <2>1. \A v \in Holding' : v \in Holding /\ wtask'[v] = wtask[v]
    BY <1>3 DEF Holding
  <2>2. \A n \in (1 .. Taken) \ done :
          \E v \in Worker : wpc'[v] \in {"got", "exec"} /\ wtask'[v] = n
    <3> SUFFICES ASSUME NEW n \in (1 .. Taken) \ done
                 PROVE  \E v \in Worker : wpc'[v] \in {"got", "exec"} /\ wtask'[v] = n
      OBVIOUS
    <3>1. PICK v \in Worker : wpc[v] \in {"got", "exec"} /\ wtask[v] = n
      BY DEF IInv, TasksFit
    <3>2. v # w
      BY <3>1 DEF TurnPC
    <3> QED
      BY <1>3, <3>1, <3>2
  <2> QED
    BY <1>6, <2>1, <2>2 DEF IInv, TasksFit
<1>9. StopFits'
  <2>1. \A c \in Client : cpc[c] \notin {"dwait", "dtest", "dfree"}
    BY DEF IInv, StopFits
  <2>2. \A c \in Client : /\ cpc'[c] \notin {"dwait", "dtest", "dfree"}
                          /\ cpc'[c] = "stop" <=> cpc[c] = "stop"
    BY <2>1, BroadcastEffect
  <2> QED
    BY <1>3, <1>6, <2>2 DEF IInv, StopFits
<1>10. NoIdleThreadMissesTask'
  <2>1. Len(tq_task') = 0
    BY <1>6
  <2>2. IsFiniteSet({v \in Worker : wpc'[v] = "signalled"})
    BY TaskqAssumption, Counting
  <2>3. Cardinality({v \in Worker : wpc'[v] = "signalled"}) \in Nat
    BY <2>2, Counting
  <2> QED
    BY <2>1, <2>3 DEF NoIdleThreadMissesTask
<1> QED
  BY <1>3, <1>4, <1>5, <1>7, <1>8, <1>9, <1>10, AtNames DEF Holding, At, HoldPC

\* A thread takes the first task.
LEMMA TurnTakes ==
  ASSUME IInv, NEW w \in Worker, wpc[w] \in TurnPC, tq_flag, tq_task # <<>>,
         tq_task' = Unlink(tq_task), tq_active' = Active(w),
         Goto(w, "got", Head(tq_task)), UNCHANGED <<life, history, tq_nthreads, cpc>>
  PROVE  /\ CountsFit' /\ StopFits' /\ QueueFits' /\ TasksFit' /\ NoIdleThreadMissesTask'
         /\ wpc' \in [Worker -> WPC] /\ wtask' \in [Worker -> 0 .. MaxTask]
         /\ tq_task' \in Seq(1 .. MaxTask) /\ Len(tq_task') = Len(tq_task) - 1
         /\ wpc[w] = "finish" => Holding' = Holding
         /\ wpc[w] # "finish" => Cardinality(Holding') = Cardinality(Holding) + 1
<1>1. /\ wpc \in [Worker -> WPC] /\ wtask \in [Worker -> 0 .. MaxTask] /\ MaxTask \in Nat
      /\ tq_task \in Seq(1 .. MaxTask) /\ Len(tq_task) \in Nat \ {0} /\ ntask \in Nat
  BY TaskqAssumption DEF IInv, TypeOK
<1>2. /\ tq_task' \in Seq(1 .. MaxTask) /\ Len(tq_task') = Len(tq_task) - 1
      /\ \A i \in 1 .. Len(tq_task) - 1 : tq_task'[i] = tq_task[i + 1]
      /\ Head(tq_task) = tq_task[1] /\ Head(tq_task) \in 0 .. MaxTask
  BY <1>1 DEF Unlink
<1>3. wpc' = [wpc EXCEPT ![w] = "got"] /\ wtask' = [wtask EXCEPT ![w] = Head(tq_task)]
  BY DEF Goto
<1>4. /\ wpc' \in [Worker -> WPC] /\ wtask' \in [Worker -> 0 .. MaxTask]
      /\ \A v \in Worker : wpc'[v] = IF v = w THEN "got" ELSE wpc[v]
      /\ \A v \in Worker : v # w => wtask'[v] = wtask[v]
      /\ wtask'[w] = Head(tq_task)
  BY <1>1, <1>2, <1>3 DEF WPC
<1>5. /\ wpc[w] = "finish" => At(HoldPC)' = At(HoldPC)
      /\ wpc[w] # "finish" => Cardinality(At(HoldPC)') = Cardinality(At(HoldPC)) + 1
      /\ wpc[w] # "signalled" => At(ActivePC)' = At(ActivePC)
      /\ wpc[w] = "signalled" => Cardinality(At(ActivePC)') = Cardinality(At(ActivePC)) + 1
      /\ At(ThreadPC)' = At(ThreadPC)
  <2>1. /\ wpc[w] # "signalled" <=> wpc[w] \in ActivePC
        /\ wpc[w] = "finish" <=> wpc[w] \in HoldPC
        /\ wpc[w] \in ThreadPC
        /\ "got" \in ActivePC /\ "got" \in ThreadPC /\ "got" \in HoldPC
    BY DEF ActivePC, ThreadPC, HoldPC, TurnPC
  <2> QED
    BY <1>1, <1>3, <2>1, MoveCount
<1>6. CountsFit'
  <2>1. /\ tq_active = Cardinality(At(ActivePC)) /\ tq_nthreads = Cardinality(At(ThreadPC))
    BY DEF IInv, CountsFit
  <2> QED
    BY <1>5, <2>1 DEF CountsFit, Active
<1>7. /\ ntask' = ntask /\ done' = done /\ before' = before /\ cpc' = cpc
      /\ tq_flag' = tq_flag /\ tq_live' = tq_live
  BY DEF life, history
<1>8. /\ Taken' = Taken + 1 /\ Taken \in Nat /\ Len(tq_task) <= ntask
      /\ \A i \in 1 .. Len(tq_task) : tq_task[i] = Taken + i
  BY <1>1, <1>2, <1>7 DEF IInv, QueueFits, Taken
<1>9. QueueFits'
  <2>1. \A i \in 1 .. Len(tq_task) - 1 : tq_task'[i] = (Taken + 1) + i
    <3> SUFFICES ASSUME NEW i \in 1 .. Len(tq_task) - 1 PROVE tq_task'[i] = (Taken + 1) + i
      OBVIOUS
    <3>1. i + 1 \in 1 .. Len(tq_task)
      BY <1>1
    <3>2. tq_task[i + 1] = Taken + (i + 1)
      BY <1>8, <3>1
    <3> QED
      BY <1>2, <1>8, <3>2
  <2>2. Len(tq_task') <= ntask'
    BY <1>1, <1>2, <1>7, <1>8
  <2> QED
    BY <1>2, <1>8, <2>1, <2>2 DEF QueueFits
<1>10. TasksFit'
  <2>1. wtask'[w] = Taken + 1
    BY <1>1, <1>2, <1>4, <1>8
  <2>2. \A v \in Holding' : wtask'[v] \in 1 .. Taken + 1
    <3> SUFFICES ASSUME NEW v \in Holding' PROVE wtask'[v] \in 1 .. Taken + 1
      OBVIOUS
    <3>1. CASE v = w
      BY <1>8, <2>1, <3>1
    <3>2. CASE v # w
      <4>1. v \in Holding /\ wtask'[v] = wtask[v]
        BY <1>4, <3>2 DEF Holding
      <4>2. wtask[v] \in 1 .. Taken
        BY <4>1 DEF IInv, TasksFit
      <4> QED
        BY <1>8, <4>1, <4>2
    <3> QED
      BY <3>1, <3>2
  <2>3. done \subseteq 1 .. Taken + 1
    BY <1>8 DEF IInv, TasksFit
  <2>4. \A n \in (1 .. Taken + 1) \ done :
          \E v \in Worker : wpc'[v] \in {"got", "exec"} /\ wtask'[v] = n
    <3> SUFFICES ASSUME NEW n \in (1 .. Taken + 1) \ done
                 PROVE  \E v \in Worker : wpc'[v] \in {"got", "exec"} /\ wtask'[v] = n
      OBVIOUS
    <3>1. CASE n = Taken + 1
      BY <1>4, <2>1, <3>1
    <3>2. CASE n # Taken + 1
      <4>1. n \in (1 .. Taken) \ done
        BY <1>8, <3>2
      <4>2. PICK v \in Worker : wpc[v] \in {"got", "exec"} /\ wtask[v] = n
        BY <4>1 DEF IInv, TasksFit
      <4>3. v # w
        BY <4>2 DEF TurnPC
      <4> QED
        BY <1>4, <4>2, <4>3
    <3> QED
      BY <3>1, <3>2
  <2> QED
    BY <1>7, <1>8, <2>2, <2>3, <2>4 DEF IInv, TasksFit
<1>11. StopFits'
  <2>1. \A c \in Client : cpc[c] \notin {"stop", "dwait", "dtest", "dfree"}
    BY DEF IInv, StopFits
  <2> QED
    BY <1>7, <2>1 DEF StopFits
<1>12. NoIdleThreadMissesTask'
  <2> SUFFICES ASSUME NEW v \in Worker, wpc'[v] = "cvwait"
               PROVE  Len(tq_task') <= Cardinality(At({"signalled"})')
    <3>1. At({"signalled"})' = {u \in Worker : wpc'[u] = "signalled"}
      BY DEF At
    <3> QED
      BY <3>1 DEF NoIdleThreadMissesTask
  <2>1. wpc[v] = "cvwait"
    BY <1>4
  <2>2. Len(tq_task) <= Cardinality(At({"signalled"}))
    BY <2>1, AtNames DEF IInv, NoIdleThreadMissesTask
  <2>3. \/ At({"signalled"})' = At({"signalled"})
        \/ Cardinality(At({"signalled"})') = Cardinality(At({"signalled"})) - 1
    <3>1. "got" \notin {"signalled"}
      OBVIOUS
    <3> QED
      BY <1>1, <1>3, <3>1, MoveCount
  <2>4. Cardinality(At({"signalled"})) \in Nat
    BY AtCount
  <2> QED
    BY <1>1, <1>2, <2>2, <2>3, <2>4
<1> QED
  BY <1>2, <1>4, <1>5, <1>6, <1>9, <1>10, <1>11, <1>12, AtNames DEF Holding, At, HoldPC

\* A turn of the loop, whatever the thread does in it: all that does not depend on
\* the structures is preserved, and the structures in use are the same, but for the
\* one the thread has given back before.
LEMMA TurnStep ==
  ASSUME IInv, NEW w \in Worker, wpc[w] \in TurnPC, Loop(w, Active(w)),
         UNCHANGED <<life, suspender, dpc, history>>
  PROVE  /\ (CountsFit /\ ClientsFit /\ WorkersFit /\ StopFits /\ QueueFits /\ TasksFit)'
         /\ (RoomFits /\ NoIdleThreadMissesTask /\ RunsInOrder)'
         /\ wpc' \in [Worker -> WPC] /\ wtask' \in [Worker -> 0 .. MaxTask]
         /\ tq_task' \in Seq(1 .. MaxTask) /\ cpc' \in [Client -> CPC]
         /\ Len(tq_task') + Cardinality(Holding') =
              (Len(tq_task) + Cardinality(Holding)) - (IF wpc[w] = "finish" THEN 1 ELSE 0)
         /\ tq_live
<1>1. /\ cpc' \in [Client -> CPC] /\ ClientsFit' /\ WorkersFit' /\ RoomFits' /\ RunsInOrder'
      /\ tq_live
  BY TurnKeeps
<1>2. tq_task \in Seq(1 .. MaxTask) /\ Len(tq_task) \in Nat /\ Cardinality(Holding) \in Nat
  BY AtCount, AtNames DEF IInv, TypeOK
<1> DEFINE Turned ==
      /\ (CountsFit /\ StopFits /\ QueueFits /\ TasksFit /\ NoIdleThreadMissesTask)'
      /\ wpc' \in [Worker -> WPC] /\ wtask' \in [Worker -> 0 .. MaxTask]
      /\ tq_task' \in Seq(1 .. MaxTask)
      /\ Len(tq_task') + Cardinality(Holding') =
           (Len(tq_task) + Cardinality(Holding)) - (IF wpc[w] = "finish" THEN 1 ELSE 0)
<1>3. CASE ~tq_flag
  <2>1. /\ tq_nthreads' = tq_nthreads - 1 /\ tq_active' = Active(w)
        /\ BroadcastWait /\ Goto(w, "gone", 0) /\ UNCHANGED tq_task
    BY <1>3 DEF Loop
  <2>2. /\ (CountsFit /\ StopFits /\ QueueFits /\ TasksFit /\ NoIdleThreadMissesTask)'
        /\ wpc' \in [Worker -> WPC] /\ wtask' \in [Worker -> 0 .. MaxTask]
        /\ Holding' = Holding /\ wpc[w] # "finish"
    BY <1>1, <1>3, <2>1, TurnLeaves
  <2>3. Turned
    BY <1>2, <2>1, <2>2
  <2> QED
    BY <1>1, <2>3
<1>4. CASE tq_flag /\ tq_task = <<>>
  <2>1. /\ tq_active' = Active(w) - 1 /\ Goto(w, "cvwait", 0)
        /\ BroadcastWait \/ UNCHANGED cpc
        /\ UNCHANGED <<tq_nthreads, tq_task>>
    BY <1>4 DEF Loop
  <2>2. /\ (CountsFit /\ StopFits /\ QueueFits /\ TasksFit /\ NoIdleThreadMissesTask)'
        /\ wpc' \in [Worker -> WPC] /\ wtask' \in [Worker -> 0 .. MaxTask]
        /\ wpc[w] = "finish" => Cardinality(Holding') = Cardinality(Holding) - 1
        /\ wpc[w] # "finish" => Holding' = Holding
    BY <1>4, <2>1, TurnSleeps
  <2>3. Turned
    BY <1>2, <2>1, <2>2
  <2> QED
    BY <1>1, <2>3
<1>5. CASE tq_flag /\ tq_task # <<>>
  <2>1. /\ tq_active' = Active(w) /\ tq_task' = Unlink(tq_task)
        /\ Goto(w, "got", Head(tq_task)) /\ UNCHANGED <<tq_nthreads, cpc>>
    BY <1>5 DEF Loop
  <2>2. /\ (CountsFit /\ StopFits /\ QueueFits /\ TasksFit /\ NoIdleThreadMissesTask)'
        /\ wpc' \in [Worker -> WPC] /\ wtask' \in [Worker -> 0 .. MaxTask]
        /\ tq_task' \in Seq(1 .. MaxTask) /\ Len(tq_task') = Len(tq_task) - 1
        /\ wpc[w] = "finish" => Holding' = Holding
        /\ wpc[w] # "finish" => Cardinality(Holding') = Cardinality(Holding) + 1
    BY <1>5, <2>1, TurnTakes
  <2>3. Turned
    BY <1>2, <2>2
  <2> QED
    BY <1>1, <2>3
<1> QED
  BY <1>3, <1>4, <1>5

\* The counters are in range when they are exact.
LEMMA CountsInRange ==
  CountsFit' => tq_active' \in 0 .. Cardinality(Worker) /\ tq_nthreads' \in 0 .. Cardinality(Worker)
<1>1. /\ IsFiniteSet(Worker) /\ At(ActivePC)' \subseteq Worker /\ At(ThreadPC)' \subseteq Worker
  BY TaskqAssumption DEF At
<1>2. /\ IsFiniteSet(At(ActivePC)') /\ IsFiniteSet(At(ThreadPC)')
      /\ Cardinality(At(ActivePC)') <= Cardinality(Worker)
      /\ Cardinality(At(ThreadPC)') <= Cardinality(Worker)
      /\ Cardinality(Worker) \in Nat
  BY <1>1, Counting
<1>3. Cardinality(At(ActivePC)') \in Nat /\ Cardinality(At(ThreadPC)') \in Nat
  BY <1>2, Counting
<1> QED
  BY <1>2, <1>3 DEF CountsFit

\* taskq_thread() comes back to the head of its loop.
LEMMA ThreadLoopStep ==
  ASSUME IInv, NEW w \in Worker, ThreadLoop(w)
  PROVE  IInv'
<1>1. /\ wpc[w] \in TurnPC /\ wpc[w] # "finish" /\ Loop(w, Active(w))
      /\ UNCHANGED <<life, pool, suspender, dpc, history>>
  BY DEF ThreadLoop, TurnPC
<1>2. /\ (CountsFit /\ ClientsFit /\ WorkersFit /\ StopFits /\ QueueFits /\ TasksFit)'
      /\ (RoomFits /\ NoIdleThreadMissesTask /\ RunsInOrder)'
      /\ wpc' \in [Worker -> WPC] /\ wtask' \in [Worker -> 0 .. MaxTask]
      /\ tq_task' \in Seq(1 .. MaxTask) /\ cpc' \in [Client -> CPC]
      /\ Len(tq_task') + Cardinality(Holding') =
           (Len(tq_task) + Cardinality(Holding)) - (IF wpc[w] = "finish" THEN 1 ELSE 0)
      /\ tq_live
  BY <1>1, TurnStep
<1>3. TypeOK'
  BY <1>1, <1>2, CountsInRange DEF IInv, TypeOK, life, pool, history
<1>4. TasksAreAccountedFor'
  <2>1. tq_live' = tq_live /\ tq_nalloc' = tq_nalloc /\ tq_freelist' = tq_freelist
    BY <1>1 DEF life, pool
  <2>2. /\ Len(tq_task) \in Nat /\ Len(tq_task') \in Nat /\ Cardinality(Holding) \in Nat
        /\ Cardinality(Holding') \in Nat /\ tq_nalloc \in Nat /\ tq_freelist \in Nat
    <3>1. IsFiniteSet(Holding')
      BY TaskqAssumption, Counting DEF Holding
    <3> QED
      BY <1>2, <3>1, Counting, AtCount, AtNames DEF IInv, TypeOK
  <2>3. tq_nalloc = tq_freelist + Len(tq_task) + Cardinality(Holding)
    BY DEF IInv, TasksAreAccountedFor
  <2>4. tq_nalloc' = tq_freelist' + Len(tq_task') + Cardinality(Holding')
    BY <1>1, <1>2, <2>1, <2>2, <2>3
  <2> QED
    BY <1>2, <2>1, <2>4 DEF TasksAreAccountedFor
<1> QED
  BY <1>2, <1>3, <1>4 DEF IInv

\* task_free().
LEMMA ThreadFreeStep ==
  ASSUME IInv, NEW w \in Worker, ThreadFree(w)
  PROVE  IInv'
<1>1. wpc[w] = "finish" /\ UNCHANGED <<life, suspender, dpc, history>>
  BY DEF ThreadFree
<1>2. /\ wpc \in [Worker -> WPC] /\ wtask \in [Worker -> 0 .. MaxTask] /\ MaxTask \in Nat
      /\ tq_task \in Seq(1 .. MaxTask) /\ Len(tq_task) \in Nat
      /\ Cardinality(Holding) \in Nat /\ tq_nalloc \in Nat /\ tq_freelist \in Nat
      /\ tq_minalloc \in Nat
      /\ tq_nalloc = tq_freelist + Len(tq_task) + Cardinality(Holding)
  BY TaskqAssumption, AtCount, AtNames DEF IInv, TypeOK, TasksAreAccountedFor
<1>3. IsFiniteSet(Holding') /\ Cardinality(Holding') \in Nat
  <2>1. IsFiniteSet(Holding')
    BY TaskqAssumption, Counting DEF Holding
  <2> QED
    BY <2>1, Counting
<1>4. CASE tq_nalloc <= tq_minalloc
  <2>1. /\ tq_freelist' = tq_freelist + 1 /\ tq_nalloc' = tq_nalloc /\ Loop(w, Active(w))
        /\ wpc[w] \in TurnPC
    BY <1>1, <1>4 DEF ThreadFree, Active, TurnPC
  <2>2. /\ (CountsFit /\ ClientsFit /\ WorkersFit /\ StopFits /\ QueueFits /\ TasksFit)'
        /\ (RoomFits /\ NoIdleThreadMissesTask /\ RunsInOrder)'
        /\ wpc' \in [Worker -> WPC] /\ wtask' \in [Worker -> 0 .. MaxTask]
        /\ tq_task' \in Seq(1 .. MaxTask) /\ cpc' \in [Client -> CPC]
        /\ Len(tq_task') + Cardinality(Holding') =
             (Len(tq_task) + Cardinality(Holding)) - (IF wpc[w] = "finish" THEN 1 ELSE 0)
        /\ tq_live
    BY <1>1, <2>1, TurnStep
  <2>3. TypeOK'
    <3>1. tq_freelist' \in Nat /\ tq_nalloc' \in Nat
      BY <1>2, <2>1
    <3> QED
      BY <1>1, <2>2, <3>1, CountsInRange DEF IInv, TypeOK, life, history
  <2>4. TasksAreAccountedFor'
    <3>1. Len(tq_task') \in Nat
      BY <2>2
    <3>2. tq_nalloc' = tq_freelist' + Len(tq_task') + Cardinality(Holding')
      BY <1>1, <1>2, <1>3, <2>1, <2>2, <3>1
    <3> QED
      BY <1>1, <2>2, <3>2 DEF TasksAreAccountedFor, life
  <2> QED
    BY <2>2, <2>3, <2>4 DEF IInv
<1>5. CASE ~(tq_nalloc <= tq_minalloc)
  <2>1. /\ tq_nalloc' = tq_nalloc - 1 /\ tq_freelist' = tq_freelist /\ tq_task' = tq_task
        /\ tq_active' = tq_active /\ tq_nthreads' = tq_nthreads /\ cpc' = cpc
        /\ wpc' = [wpc EXCEPT ![w] = "free"] /\ wtask' = [wtask EXCEPT ![w] = 0]
        /\ tq_live' = tq_live /\ tq_flag' = tq_flag /\ tq_minalloc' = tq_minalloc
        /\ suspender' = suspender /\ dpc' = dpc /\ ntask' = ntask /\ done' = done
        /\ before' = before
    BY <1>1, <1>5 DEF ThreadFree, CountOut, Goto, counts, life, history
  <2>2. /\ wpc' \in [Worker -> WPC] /\ wtask' \in [Worker -> 0 .. MaxTask]
        /\ \A v \in Worker : wpc'[v] = IF v = w THEN "free" ELSE wpc[v]
        /\ \A v \in Worker : v # w => wtask'[v] = wtask[v]
    BY <1>2, <2>1 DEF WPC
  <2>3. /\ Cardinality(At(HoldPC)') = Cardinality(At(HoldPC)) - 1
        /\ At(ActivePC)' = At(ActivePC) /\ At(ThreadPC)' = At(ThreadPC)
    <3>1. /\ "finish" \in HoldPC /\ "free" \notin HoldPC /\ "finish" \in ActivePC
          /\ "free" \in ActivePC /\ "finish" \in ThreadPC /\ "free" \in ThreadPC
      BY DEF HoldPC, ActivePC, ThreadPC
    <3> QED
      BY <1>1, <1>2, <2>1, <3>1, MoveCount
  <2>4. CountsFit'
    BY <2>1, <2>3 DEF IInv, CountsFit
  <2>5. ClientsFit' /\ WorkersFit'
    BY <1>1, <2>1, <2>2 DEF IInv, ClientsFit, WorkersFit
  <2>6. StopFits'
    BY <1>1, <2>1, <2>2 DEF IInv, StopFits
  <2>7. Cardinality(Holding') = Cardinality(Holding) - 1
    <3>1. Holding' = At(HoldPC)'
      BY DEF Holding, At, HoldPC
    <3> QED
      BY <2>3, <3>1, AtNames
  <2>8. TypeOK' /\ TasksAreAccountedFor'
    <3>1. tq_nalloc' \in Nat
      BY <1>2, <1>5, <2>1
    <3>2. tq_nalloc' = tq_freelist' + Len(tq_task') + Cardinality(Holding')
      BY <1>2, <2>1, <2>7
    <3>3. tq_live
      BY <1>1 DEF IInv, WorkersFit
    <3> QED
      BY <2>1, <2>2, <3>1, <3>2, <3>3 DEF IInv, TypeOK, TasksAreAccountedFor
  <2>9. QueueFits' /\ RoomFits' /\ RunsInOrder'
    BY <2>1 DEF IInv, QueueFits, RoomFits, RunsInOrder, Taken, Allocating
  <2>10. TasksFit'
    <3>1. \A v \in Holding' : v \in Holding /\ wtask'[v] = wtask[v]
      BY <2>2 DEF Holding
    <3>2. Taken' = Taken
      BY <2>1 DEF Taken
    <3>3. \A n \in (1 .. Taken) \ done :
            \E v \in Worker : wpc'[v] \in {"got", "exec"} /\ wtask'[v] = n
      <4> SUFFICES ASSUME NEW n \in (1 .. Taken) \ done
                   PROVE  \E v \in Worker : wpc'[v] \in {"got", "exec"} /\ wtask'[v] = n
        OBVIOUS
      <4>1. PICK v \in Worker : wpc[v] \in {"got", "exec"} /\ wtask[v] = n
        BY DEF IInv, TasksFit
      <4> QED
        BY <1>1, <2>2, <4>1
    <3> QED
      BY <2>1, <3>1, <3>2, <3>3 DEF IInv, TasksFit
  <2>11. NoIdleThreadMissesTask'
    <3>1. {v \in Worker : wpc'[v] = "signalled"} = {v \in Worker : wpc[v] = "signalled"}
      BY <1>1, <2>2
    <3> QED
      BY <2>1, <2>2, <3>1 DEF IInv, NoIdleThreadMissesTask
  <2> QED
    BY <2>4, <2>5, <2>6, <2>8, <2>9, <2>10, <2>11 DEF IInv
<1> QED
  BY <1>4, <1>5

\* A task begins.
LEMMA TaskBeginStep ==
  ASSUME IInv, NEW w \in Worker, TaskBegin(w)
  PROVE  IInv'
<1>1. wpc[w] = "got" /\ wpc' = [wpc EXCEPT ![w] = "exec"]
  BY DEF TaskBegin
<1>2. /\ tq_live' = tq_live /\ tq_flag' = tq_flag /\ tq_minalloc' = tq_minalloc
      /\ tq_active' = tq_active /\ tq_nthreads' = tq_nthreads /\ tq_nalloc' = tq_nalloc
      /\ tq_freelist' = tq_freelist /\ tq_task' = tq_task /\ suspender' = suspender
      /\ wtask' = wtask /\ dpc' = dpc /\ cpc' = cpc /\ ntask' = ntask /\ done' = done
      /\ before' = before
  BY DEF TaskBegin, tq, life, counts, pool, history
<1>3. wpc \in [Worker -> WPC]
  BY DEF IInv, TypeOK
<1>4. /\ wpc' \in [Worker -> WPC]
      /\ \A v \in Worker : wpc'[v] = IF v = w THEN "exec" ELSE wpc[v]
  BY <1>1, <1>3 DEF WPC
<1>5. /\ At(ActivePC)' = At(ActivePC) /\ At(ThreadPC)' = At(ThreadPC) /\ Holding' = Holding
      /\ {v \in Worker : wpc'[v] = "signalled"} = {v \in Worker : wpc[v] = "signalled"}
      /\ Taken' = Taken /\ Allocating' = Allocating
  BY <1>1, <1>2, <1>4 DEF At, ActivePC, ThreadPC, Holding, Taken, Allocating
<1>6. TypeOK'
  BY <1>2, <1>4 DEF IInv, TypeOK
<1>7. CountsFit' /\ ClientsFit' /\ QueueFits' /\ RoomFits' /\ RunsInOrder'
  BY <1>2, <1>5 DEF IInv, CountsFit, ClientsFit, QueueFits, RoomFits, RunsInOrder
<1>8. WorkersFit' /\ StopFits'
  BY <1>1, <1>2, <1>4 DEF IInv, WorkersFit, StopFits
<1>9. TasksFit'
  BY <1>2, <1>4, <1>5 DEF IInv, TasksFit
<1>10. TasksAreAccountedFor' /\ NoIdleThreadMissesTask'
  BY <1>2, <1>4, <1>5 DEF IInv, TasksAreAccountedFor, NoIdleThreadMissesTask
<1> QED
  BY <1>6, <1>7, <1>8, <1>9, <1>10 DEF IInv

\* A task completes.  Those queued before it that have not are with other threads.
LEMMA TaskEndStep ==
  ASSUME IInv, NEW w \in Worker, TaskEnd(w)
  PROVE  IInv'
<1>1. /\ wpc[w] = "exec" /\ dpc[w] = <<>> /\ done' = done \cup {wtask[w]}
      /\ wpc' = [wpc EXCEPT ![w] = "finish"]
  BY DEF TaskEnd
<1>2. /\ tq_live' = tq_live /\ tq_flag' = tq_flag /\ tq_minalloc' = tq_minalloc
      /\ tq_active' = tq_active /\ tq_nthreads' = tq_nthreads /\ tq_nalloc' = tq_nalloc
      /\ tq_freelist' = tq_freelist /\ tq_task' = tq_task /\ suspender' = suspender
      /\ wtask' = wtask /\ dpc' = dpc /\ cpc' = cpc /\ ntask' = ntask /\ before' = before
  BY DEF TaskEnd, tq, life, counts, pool
<1>3. /\ wpc \in [Worker -> WPC] /\ ntask \in Nat /\ ntask <= MaxTask /\ MaxTask \in Nat
      /\ tq_task \in Seq(1 .. MaxTask) /\ Len(tq_task) \in Nat
  BY TaskqAssumption DEF IInv, TypeOK
<1>4. /\ wpc' \in [Worker -> WPC]
      /\ \A v \in Worker : wpc'[v] = IF v = w THEN "finish" ELSE wpc[v]
  BY <1>1, <1>3 DEF WPC
<1>5. /\ At(ActivePC)' = At(ActivePC) /\ At(ThreadPC)' = At(ThreadPC) /\ Holding' = Holding
      /\ {v \in Worker : wpc'[v] = "signalled"} = {v \in Worker : wpc[v] = "signalled"}
      /\ Taken' = Taken /\ Allocating' = Allocating
  BY <1>1, <1>2, <1>4 DEF At, ActivePC, ThreadPC, Holding, Taken, Allocating
<1>6. wtask[w] \in 1 .. Taken /\ Taken \in Nat /\ Taken <= ntask
  <2>1. w \in Holding
    BY <1>1 DEF Holding
  <2> QED
    BY <1>3, <2>1 DEF IInv, TasksFit, QueueFits, Taken
<1>7. TypeOK'
  <2>1. wtask[w] \in 1 .. MaxTask
    BY <1>3, <1>6
  <2>2. done \in SUBSET (1 .. MaxTask)
    BY DEF IInv, TypeOK
  <2>3. done' \in SUBSET (1 .. MaxTask)
    BY <1>1, <2>1, <2>2
  <2> QED
    BY <1>2, <1>4, <2>3 DEF IInv, TypeOK
<1>8. CountsFit' /\ ClientsFit' /\ QueueFits' /\ RoomFits'
  BY <1>2, <1>5 DEF IInv, CountsFit, ClientsFit, QueueFits, RoomFits
<1>9. WorkersFit' /\ StopFits'
  BY <1>1, <1>2, <1>4 DEF IInv, WorkersFit, StopFits
<1>10. \A n \in (1 .. Taken) \ done' :
         \E v \in Worker \ {w} : wpc[v] \in {"got", "exec"} /\ wtask[v] = n
  BY <1>1 DEF IInv, TasksFit
<1>11. TasksFit'
  <2>1. \A n \in (1 .. Taken) \ done' :
          \E v \in Worker : wpc'[v] \in {"got", "exec"} /\ wtask[v] = n
    BY <1>4, <1>10
  <2>2. done' \subseteq 1 .. Taken
    BY <1>1, <1>6 DEF IInv, TasksFit
  <2> QED
    BY <1>2, <1>5, <2>1, <2>2 DEF IInv, TasksFit
<1>12. TasksAreAccountedFor' /\ NoIdleThreadMissesTask'
  BY <1>2, <1>4, <1>5 DEF IInv, TasksAreAccountedFor, NoIdleThreadMissesTask
<1>13. RunsInOrder'
  <2> SUFFICES ASSUME NEW n \in done'
               PROVE  Cardinality((1 .. n) \ done') < Cardinality(Worker)
    BY DEF RunsInOrder
  <2>1. CASE n \in done
    <3>1. n \in Nat /\ IsFiniteSet((1 .. n) \ done)
      <4>1. n \in 1 .. Taken
        BY <2>1 DEF IInv, TasksFit
      <4>2. IsFiniteSet(1 .. n)
        BY <1>6, <4>1, FS_Interval
      <4>3. (1 .. n) \ done \in SUBSET (1 .. n)
        OBVIOUS
      <4> QED
        BY <1>6, <4>1, <4>2, <4>3, Counting
    <3>2. (1 .. n) \ done' \in SUBSET ((1 .. n) \ done)
      BY <1>1
    <3>3. /\ IsFiniteSet((1 .. n) \ done')
          /\ Cardinality((1 .. n) \ done') <= Cardinality((1 .. n) \ done)
      BY <3>1, <3>2, Counting
    <3>4. Cardinality((1 .. n) \ done') \in Nat /\ Cardinality((1 .. n) \ done) \in Nat
      BY <3>1, <3>3, Counting
    <3>5. Cardinality(Worker) \in Nat
      BY TaskqAssumption, Counting
    <3>6. Cardinality((1 .. n) \ done) < Cardinality(Worker)
      BY <2>1 DEF IInv, RunsInOrder
    <3> QED
      BY <3>3, <3>4, <3>5, <3>6
  <2>2. CASE n = wtask[w]
    <3>1. \A m \in (1 .. n) \ done' : m \in (1 .. Taken) \ done'
      BY <1>6, <2>2
    <3>2. \A m \in (1 .. n) \ done' : \E v \in Worker \ {w} : wtask[v] = m
      BY <1>10, <3>1
    <3> QED
      BY <3>2, OthersTasks
  <2> QED
    BY <1>1, <2>1, <2>2
<1> QED
  BY <1>7, <1>8, <1>9, <1>11, <1>12, <1>13 DEF IInv

-----------------------------------------------------------------------------
(* The clients.                                                            *)

\* What a step that leaves the threads and the queue alone preserves.
LEMMA QueueSame ==
  ASSUME IInv, UNCHANGED <<counts, wpc, wtask, tq_task, ntask, done>>,
         \A c \in Client : before'[c] \subseteq 1 .. ntask
  PROVE  /\ CountsFit' /\ QueueFits' /\ TasksFit' /\ NoIdleThreadMissesTask' /\ RunsInOrder'
         /\ Holding' = Holding
<1>1. /\ tq_active' = tq_active /\ tq_nthreads' = tq_nthreads /\ wpc' = wpc /\ wtask' = wtask
      /\ tq_task' = tq_task /\ ntask' = ntask /\ done' = done
  BY DEF counts
<1>2. /\ Holding' = Holding /\ At(ActivePC)' = At(ActivePC) /\ At(ThreadPC)' = At(ThreadPC)
      /\ Taken' = Taken
  BY <1>1 DEF Holding, At, Taken
<1>3. CountsFit' /\ QueueFits' /\ NoIdleThreadMissesTask' /\ RunsInOrder'
  BY <1>1, <1>2 DEF IInv, CountsFit, QueueFits, NoIdleThreadMissesTask, RunsInOrder
<1>4. TasksFit'
  BY <1>1, <1>2 DEF IInv, TasksFit
<1> QED
  BY <1>2, <1>3, <1>4

\* A dispatcher goes into, on in or out of task_alloc().
LEMMA AllocMoves ==
  ASSUME IInv, NEW d \in Dispatcher, NEW x \in DPC, dpc' = [dpc EXCEPT ![d] = x],
         dpc[d] # <<>> \/ (x # <<>> /\ MayDispatch(d)),
         UNCHANGED <<tq, suspender, threads, cpc, history>>
  PROVE  IInv'
<1>1. /\ tq_live' = tq_live /\ tq_flag' = tq_flag /\ tq_minalloc' = tq_minalloc
      /\ tq_active' = tq_active /\ tq_nthreads' = tq_nthreads /\ tq_nalloc' = tq_nalloc
      /\ tq_freelist' = tq_freelist /\ tq_task' = tq_task /\ suspender' = suspender
      /\ wpc' = wpc /\ wtask' = wtask /\ cpc' = cpc /\ ntask' = ntask /\ done' = done
      /\ before' = before
  BY DEF tq, life, counts, pool, threads, history
<1>2. /\ dpc \in [Dispatcher -> DPC] /\ ntask \in Nat /\ MaxTask \in Nat
      /\ \A c \in Client : before[c] \subseteq 1 .. ntask
  BY TaskqAssumption DEF IInv, TypeOK, TasksFit
<1>3. dpc' \in [Dispatcher -> DPC] /\ \A e \in Dispatcher : dpc'[e] = IF e = d THEN x ELSE dpc[e]
  BY <1>2
<1>4. /\ CountsFit' /\ QueueFits' /\ TasksFit' /\ NoIdleThreadMissesTask' /\ RunsInOrder'
      /\ Holding' = Holding
  BY <1>1, <1>2, QueueSame DEF counts
<1>5. TypeOK'
  BY <1>1, <1>3 DEF IInv, TypeOK
<1>6. d \in Client /\ x # <<>> =>
        tq_live /\ cpc[d] = "idle" /\ \A c \in Client : cpc[c] \notin Destroying
  BY TaskqAssumption DEF IInv, ClientsFit, MayDispatch, InUse, Dispatcher
<1>7. ClientsFit'
  BY <1>1, <1>3, <1>6 DEF IInv, ClientsFit, Dispatcher
<1>8. d \in Worker => wpc[d] = "exec"
  BY TaskqAssumption DEF IInv, WorkersFit, MayDispatch
<1>9. WorkersFit' /\ StopFits'
  BY <1>1, <1>3, <1>8 DEF IInv, WorkersFit, StopFits, Dispatcher
<1>10. RoomFits'
  <2>1. /\ Cardinality(Allocating) \in Nat
        /\ dpc[d] = <<>> /\ x # <<>> => Cardinality(Allocating') = Cardinality(Allocating) + 1
        /\ dpc[d] # <<>> /\ x = <<>> => Cardinality(Allocating') = Cardinality(Allocating) - 1
        /\ dpc[d] # <<>> /\ x # <<>> => Allocating' = Allocating
    BY <1>2, AllocCount
  <2>2. dpc[d] = <<>> => x # <<>> /\ ntask + Cardinality(Allocating) < MaxTask
    BY DEF MayDispatch, Allocating
  <2>3. ntask + Cardinality(Allocating) <= MaxTask
    BY DEF IInv, RoomFits
  <2> QED
    BY <1>1, <1>2, <2>1, <2>2, <2>3 DEF RoomFits
<1>11. TasksAreAccountedFor'
  BY <1>1, <1>4 DEF IInv, TasksAreAccountedFor
<1> QED
  BY <1>4, <1>5, <1>7, <1>9, <1>10, <1>11 DEF IInv

LEMMA AllocSteps ==
  ASSUME IInv, NEW d \in Dispatcher, NEW km \in KMFlags,
         DispatchAlloc(d, km) \/ AllocCheck(d, km) \/ AllocFails(d, km)
  PROVE  IInv'
<1> DEFINE check == <<"check", km>>
           alloc == <<"alloc", km>>
<1>1. /\ check \in DPC /\ alloc \in DPC /\ <<>> \in DPC
      /\ check # <<>> /\ alloc # <<>>
  BY TaskqAssumption DEF DPC
<1>2. CASE DispatchAlloc(d, km)
  BY <1>1, <1>2, AllocMoves DEF DispatchAlloc
<1>3. CASE AllocCheck(d, km)
  <2>1. dpc[d] # <<>> /\ \E x \in DPC : dpc' = [dpc EXCEPT ![d] = x]
    BY <1>1, <1>3 DEF AllocCheck
  <2> QED
    BY <1>3, <2>1, AllocMoves DEF AllocCheck
<1>4. CASE AllocFails(d, km)
  BY <1>1, <1>4, AllocMoves DEF AllocFails
<1> QED
  BY <1>2, <1>3, <1>4

\* A queue is created.  Nothing is left of the life before it.
LEMMA TaskqCreateStep ==
  ASSUME IInv, TaskqCreate
  PROVE  IInv'
<1>1. /\ ~tq_live /\ \A c \in Client : cpc[c] = "idle"
      /\ tq_live' = TRUE /\ tq_flag' = TRUE
      /\ tq_active' = Cardinality(Worker) /\ tq_nthreads' = Cardinality(Worker)
      /\ tq_minalloc' = MinAlloc /\ wpc' = [w \in Worker |-> "loop"]
      /\ ntask' = 0 /\ done' = {} /\ before' = [c \in Client |-> {}]
      /\ tq_task' = tq_task /\ suspender' = suspender /\ wtask' = wtask /\ dpc' = dpc
      /\ cpc' = cpc
      /\ \/ tq_nalloc' = tq_nalloc + MinAlloc /\ tq_freelist' = tq_freelist + MinAlloc
         \/ tq_nalloc' = tq_nalloc /\ tq_freelist' = tq_freelist
  BY DEF TaskqCreate, pool
<1>2. /\ tq_nalloc \in Nat /\ tq_freelist \in Nat /\ MinAlloc \in Nat /\ MaxTask \in Nat
      /\ Cardinality(Worker) \in Nat /\ IsFiniteSet(Worker)
  BY TaskqAssumption, Counting DEF IInv, TypeOK
<1>3. tq_nalloc = 0 /\ tq_task = <<>> /\ Len(tq_task) = 0
  BY <1>1 DEF IInv, TasksAreAccountedFor
<1>4. Holding = {} /\ Holding' = {} /\ Cardinality(Holding) = 0 /\ Cardinality(Holding') = 0
  <2>1. Holding = {}
    BY <1>1 DEF IInv, WorkersFit, Holding
  <2>2. Holding' = {}
    BY <1>1 DEF Holding
  <2> QED
    BY <2>1, <2>2, FS_EmptySet
<1>5. tq_nalloc' = tq_freelist' + Len(tq_task') + Cardinality(Holding')
  <2>1. tq_freelist = 0
    BY <1>2, <1>3, <1>4 DEF IInv, TasksAreAccountedFor
  <2> QED
    BY <1>1, <1>2, <1>3, <1>4, <2>1
<1>6. TypeOK'
  <2>1. /\ tq_active' \in 0 .. Cardinality(Worker) /\ tq_nthreads' \in 0 .. Cardinality(Worker)
        /\ tq_nalloc' \in Nat /\ tq_freelist' \in Nat /\ tq_minalloc' \in Nat
        /\ ntask' \in 0 .. MaxTask
    BY <1>1, <1>2
  <2>2. /\ wpc' \in [Worker -> WPC] /\ done' \in SUBSET (1 .. MaxTask)
        /\ before' \in [Client -> SUBSET (1 .. MaxTask)]
    BY <1>1 DEF WPC
  <2> QED
    BY <1>1, <2>1, <2>2 DEF IInv, TypeOK
<1>7. CountsFit'
  <2>1. At(ActivePC)' = Worker /\ At(ThreadPC)' = Worker
    BY <1>1 DEF At, ActivePC, ThreadPC
  <2> QED
    BY <1>1, <2>1 DEF CountsFit
<1>8. ClientsFit'
  BY <1>1 DEF IInv, ClientsFit, Destroying
<1>9. WorkersFit'
  BY <1>1 DEF IInv, WorkersFit
<1>10. StopFits'
  BY <1>1 DEF StopFits
<1>11. QueueFits' /\ TasksFit'
  <2>1. Len(tq_task') = 0 /\ Taken' = 0
    <3>1. Len(tq_task') = 0 /\ ntask' = 0
      BY <1>1, <1>3
    <3>2. Taken' = ntask' - Len(tq_task')
      BY DEF Taken
    <3> QED
      BY <3>1, <3>2
  <2>2. /\ Len(tq_task') <= ntask' /\ \A i \in 1 .. Len(tq_task') : FALSE
        /\ \A i \in 1 .. Taken' : FALSE
    BY <1>1, <2>1
  <2>3. \A c \in Client : before'[c] = {}
    BY <1>1
  <2> QED
    BY <1>1, <1>4, <2>2, <2>3 DEF QueueFits, TasksFit
<1>12. RoomFits'
  <2>1. Allocating' = {}
    BY <1>1 DEF IInv, ClientsFit, WorkersFit, Allocating, Dispatcher
  <2>2. Cardinality(Allocating') = 0
    BY <2>1, FS_EmptySet
  <2> QED
    BY <1>1, <1>2, <2>2 DEF RoomFits
<1>13. TasksAreAccountedFor' /\ NoIdleThreadMissesTask' /\ RunsInOrder'
  BY <1>1, <1>5 DEF TasksAreAccountedFor, NoIdleThreadMissesTask, RunsInOrder
<1> QED
  BY <1>6, <1>7, <1>8, <1>9, <1>10, <1>11, <1>12, <1>13 DEF IInv

\* What a step of a client that changes only its own place preserves.
LEMMA ClientMoves ==
  ASSUME IInv, NEW c \in Client, NEW l \in CPC, cpc' = [cpc EXCEPT ![c] = l],
         UNCHANGED <<tq, suspender, threads, dpc, ntask, done>>,
         before' \in [Client -> SUBSET (1 .. MaxTask)],
         \A d \in Client : before'[d] \subseteq 1 .. ntask,
         tq_live, dpc[c] = <<>>, tq_flag,
         l \in Destroying =>
           suspender = Nobody /\ \A d \in Client : dpc[d] = <<>> /\ (d # c => cpc[d] = "idle"),
         \A d \in Client : d # c => cpc[d] \notin Destroying,
         l \notin {"dwait", "dtest", "dfree"},
         l = "stop" => tq_task = <<>> /\ \A w \in Worker : wpc[w] \in {"cvwait", "signalled"}
  PROVE  IInv'
<1>1. /\ tq_live' = tq_live /\ tq_flag' = tq_flag /\ tq_minalloc' = tq_minalloc
      /\ tq_active' = tq_active /\ tq_nthreads' = tq_nthreads /\ tq_nalloc' = tq_nalloc
      /\ tq_freelist' = tq_freelist /\ tq_task' = tq_task /\ suspender' = suspender
      /\ wpc' = wpc /\ wtask' = wtask /\ dpc' = dpc /\ ntask' = ntask /\ done' = done
  BY DEF tq, life, counts, pool, threads
<1>2. /\ CountsFit' /\ QueueFits' /\ TasksFit' /\ NoIdleThreadMissesTask' /\ RunsInOrder'
      /\ Holding' = Holding
  BY <1>1, QueueSame DEF counts
<1>3. /\ cpc' \in [Client -> CPC] /\ \A d \in Client : cpc'[d] = IF d = c THEN l ELSE cpc[d]
  BY DEF IInv, TypeOK
<1>4. TypeOK'
  BY <1>1, <1>3 DEF IInv, TypeOK
<1>5. ClientsFit'
  BY <1>1, <1>3 DEF IInv, ClientsFit
<1>6. WorkersFit'
  BY <1>1 DEF IInv, WorkersFit
<1>7. StopFits'
  BY <1>1, <1>3 DEF StopFits, Destroying
<1>8. RoomFits'
  BY <1>1 DEF IInv, RoomFits, Allocating
<1>9. TasksAreAccountedFor'
  BY <1>1, <1>2 DEF IInv, TasksAreAccountedFor
<1> QED
  BY <1>2, <1>4, <1>5, <1>6, <1>7, <1>8, <1>9 DEF IInv

\* TASKQ_ACTIVE is set while the destroyer, if there is one, has not stopped the queue.
LEMMA FlagSet ==
  ASSUME IInv, tq_live, \A c \in Client : cpc[c] \notin {"dwait", "dtest", "dfree"}
  PROVE  tq_flag
  BY DEF IInv, StopFits

\* taskq_wait() and taskq_destroy() begin.
LEMMA WaitBegins ==
  ASSUME IInv, NEW c \in Client, TaskqWait(c) \/ TaskqDestroy(c)
  PROVE  IInv'
<1>1. /\ tq_live /\ \A d \in Client : cpc[d] \notin Destroying
      /\ dpc[c] = <<>> /\ before' = [before EXCEPT ![c] = 1 .. ntask]
      /\ UNCHANGED <<tq, suspender, threads, dpc, ntask, done>>
  BY DEF TaskqWait, TaskqDestroy, InUse
<1>2. tq_flag
  BY <1>1, FlagSet DEF Destroying
<1>3. /\ before \in [Client -> SUBSET (1 .. MaxTask)] /\ ntask \in 0 .. MaxTask /\ MaxTask \in Nat
      /\ \A d \in Client : before[d] \subseteq 1 .. ntask
  BY TaskqAssumption DEF IInv, TypeOK, TasksFit
<1>4. 1 .. ntask \in SUBSET (1 .. MaxTask)
  BY <1>3
<1>5. /\ before' \in [Client -> SUBSET (1 .. MaxTask)]
      /\ \A d \in Client : before'[d] \subseteq 1 .. ntask
  <2> DEFINE all == 1 .. ntask
  <2>1. all \in SUBSET (1 .. MaxTask) /\ before' = [before EXCEPT ![c] = all]
        /\ \A d \in Client : before[d] \subseteq all
    BY <1>1, <1>3, <1>4
  <2> HIDE DEF all
  <2>2. /\ before' \in [Client -> SUBSET (1 .. MaxTask)]
        /\ \A d \in Client : before'[d] \subseteq all
    BY <1>3, <2>1
  <2> QED
    BY <2>2 DEF all
<1>6. CASE TaskqWait(c)
  <2>1. cpc' = [cpc EXCEPT ![c] = "wtest"] /\ "wtest" \in CPC /\ "wtest" \notin Destroying
    BY <1>6 DEF TaskqWait, CPC, Destroying
  <2> QED
    BY <1>1, <1>2, <1>5, <2>1, ClientMoves
<1>7. CASE TaskqDestroy(c)
  <2>1. /\ cpc' = [cpc EXCEPT ![c] = "ptest"] /\ "ptest" \in CPC /\ suspender = Nobody
        /\ \A d \in Client : cpc[d] = "idle" /\ dpc[d] = <<>>
    BY <1>7 DEF TaskqDestroy, DestroyBegins, CPC, Destroying
  <2> QED
    BY <1>1, <1>2, <1>5, <2>1, ClientMoves
<1> QED
  BY <1>6, <1>7

\* When taskq_wait() finds its condition every task that was queued is done, and
\* the threads sleep.
LEMMA QuiescentMeans ==
  ASSUME IInv, Quiescent, tq_live
  PROVE  /\ tq_task = <<>> /\ \A w \in Worker : wpc[w] \in {"cvwait", "signalled"}
         /\ 1 .. ntask \subseteq done
<1>1. \A w \in Worker : wpc[w] \notin ActivePC
  BY AtCount DEF IInv, CountsFit, Quiescent
<1>2. \A w \in Worker : wpc[w] \in {"cvwait", "signalled"}
  BY <1>1 DEF IInv, TypeOK, WPC, ActivePC, WorkersFit
<1>3. Taken = ntask
  <2>1. Len(tq_task) = 0 /\ ntask \in Nat
    BY TaskqAssumption DEF Quiescent, IInv, TypeOK
  <2> QED
    BY <2>1 DEF Taken
<1>4. \A n \in (1 .. ntask) \ done : FALSE
  BY <1>2, <1>3 DEF IInv, TasksFit
<1> QED
  BY <1>2, <1>4 DEF Quiescent

\* taskq_wait() tests its condition.
LEMMA TaskqWaitTestStep ==
  ASSUME IInv, NEW c \in Client, TaskqWaitTest(c)
  PROVE  IInv'
<1>1. /\ cpc[c] \in {"wtest", "ptest"} /\ UNCHANGED <<tq, suspender, threads, dpc, history>>
      /\ before' = before /\ ntask' = ntask /\ done' = done
  BY DEF TaskqWaitTest, history
<1>2. /\ tq_live /\ dpc[c] = <<>> /\ \A d \in Client : d # c => cpc[d] \notin Destroying
  BY <1>1 DEF IInv, ClientsFit, Destroying
<1>3. tq_flag
  BY <1>1, <1>2, FlagSet DEF Destroying
<1>4. /\ before' \in [Client -> SUBSET (1 .. MaxTask)]
      /\ \A d \in Client : before'[d] \subseteq 1 .. ntask
  BY <1>1 DEF IInv, TypeOK, TasksFit
<1>5. Quiescent => tq_task = <<>> /\ \A w \in Worker : wpc[w] \in {"cvwait", "signalled"}
  BY <1>2, QuiescentMeans
<1>6. CASE cpc[c] = "wtest"
  <2>1. PICK l \in {"idle", "wait"} : cpc' = [cpc EXCEPT ![c] = l]
    BY <1>6 DEF TaskqWaitTest
  <2>2. l \in CPC /\ l \notin Destroying
    BY DEF CPC, Destroying
  <2> QED
    BY <1>1, <1>2, <1>3, <1>4, <2>1, <2>2, ClientMoves
<1>7. CASE cpc[c] = "ptest"
  <2>1. PICK l \in {"stop", "pwait"} : cpc' = [cpc EXCEPT ![c] = l] /\ (l = "stop" => Quiescent)
    BY <1>7 DEF TaskqWaitTest
  <2>2. l \in CPC
    BY DEF CPC, Destroying
  <2>3. suspender = Nobody /\ \A d \in Client : dpc[d] = <<>> /\ (d # c => cpc[d] = "idle")
    BY <1>7 DEF IInv, ClientsFit, Destroying
  <2> QED
    BY <1>1, <1>2, <1>3, <1>4, <1>5, <2>1, <2>2, <2>3, ClientMoves
<1> QED
  BY <1>1, <1>6, <1>7

\* The head of the loop over tq_nthreads in taskq_destroy(), with the threads told
\* to leave.
LEMMA DestroyLoopStep ==
  ASSUME IInv, NEW c \in Client, cpc[c] \in {"stop", "dtest"}, DestroyLoop(c), ~tq_flag',
         wpc' \in [Worker -> WPC], \A w \in Worker : wpc'[w] \in {"signalled", "gone"},
         At(ActivePC)' = At(ActivePC), At(ThreadPC)' = At(ThreadPC),
         tq_flag' \in BOOLEAN,
         UNCHANGED <<tq_live, counts, pool, tq_task, suspender, wtask, dpc, history>>
  PROVE  IInv'
<1>1. /\ tq_live' = tq_live /\ tq_active' = tq_active /\ tq_nthreads' = tq_nthreads
      /\ tq_nalloc' = tq_nalloc /\ tq_freelist' = tq_freelist /\ tq_task' = tq_task
      /\ suspender' = suspender /\ wtask' = wtask /\ dpc' = dpc /\ ntask' = ntask
      /\ done' = done /\ before' = before
  BY DEF counts, pool, history
<1>2. PICK l \in {"dwait", "dfree"} :
        /\ cpc' = [cpc EXCEPT ![c] = l]
        /\ l = "dwait" => tq_minalloc' = tq_minalloc
        /\ l = "dfree" => tq_minalloc' = 0 /\ tq_nthreads = 0
  BY DEF DestroyLoop
<1>3. /\ tq_live /\ suspender = Nobody /\ tq_task = <<>>
      /\ \A d \in Client : dpc[d] = <<>> /\ (d # c => cpc[d] = "idle")
      /\ \A w \in Worker : wpc[w] \in {"cvwait", "signalled", "gone"}
  BY DEF IInv, ClientsFit, StopFits, Destroying
<1>4. /\ cpc' \in [Client -> CPC] /\ \A d \in Client : cpc'[d] = IF d = c THEN l ELSE cpc[d]
  BY <1>2 DEF IInv, TypeOK, CPC, Destroying
<1>5. tq_nthreads = 0 => \A w \in Worker : wpc'[w] = "gone"
  <2>1. tq_nthreads = 0 => Cardinality(At(ThreadPC)) = 0
    BY DEF IInv, CountsFit
  <2>2. tq_nthreads = 0 => At(ThreadPC) = {}
    BY <2>1, AtCount DEF At
  <2> QED
    BY <2>2 DEF At, ThreadPC
<1>6. Holding = {} /\ Holding' = {}
  BY <1>3 DEF Holding
<1>7. TypeOK'
  <2>1. tq_minalloc' \in Nat
    BY <1>2 DEF IInv, TypeOK
  <2> QED
    BY <1>1, <1>4, <2>1 DEF IInv, TypeOK
<1>8. CountsFit'
  BY <1>1 DEF IInv, CountsFit
<1>9. ClientsFit'
  BY <1>1, <1>3, <1>4 DEF IInv, ClientsFit
<1>10. WorkersFit'
  <2>1. \A w \in Worker : dpc[w] = <<>>
    BY <1>3 DEF IInv, WorkersFit
  <2> QED
    BY <1>1, <1>3, <2>1 DEF WorkersFit
<1>11. StopFits'
  BY <1>1, <1>2, <1>3, <1>4, <1>5 DEF StopFits
<1>12. QueueFits' /\ TasksFit'
  <2>1. Taken' = Taken
    BY <1>1 DEF Taken
  <2>2. \A n \in (1 .. Taken) \ done : FALSE
    BY <1>3 DEF IInv, TasksFit
  <2> QED
    BY <1>1, <1>6, <2>1, <2>2 DEF IInv, QueueFits, TasksFit
<1>13. RoomFits' /\ RunsInOrder'
  BY <1>1 DEF IInv, RoomFits, RunsInOrder, Allocating
<1>14. TasksAreAccountedFor' /\ NoIdleThreadMissesTask'
  BY <1>1, <1>3, <1>6 DEF IInv, TasksAreAccountedFor, NoIdleThreadMissesTask
<1> QED
  BY <1>7, <1>8, <1>9, <1>10, <1>11, <1>12, <1>13, <1>14 DEF IInv

\* TASKQ_ACTIVE is cleared and every sleeping thread woken.
LEMMA DestroyStopStep ==
  ASSUME IInv, NEW c \in Client, DestroyStop(c)
  PROVE  IInv'
<1>1. /\ cpc[c] = "stop" /\ DestroyLoop(c) /\ tq_flag' = FALSE
      /\ wpc' = [w \in Worker |-> IF wpc[w] = "cvwait" THEN "signalled" ELSE wpc[w]]
      /\ UNCHANGED <<tq_live, counts, pool, tq_task, suspender, wtask, dpc, history>>
  BY DEF DestroyStop
<1>2. \A w \in Worker : wpc[w] \in {"cvwait", "signalled"}
  BY <1>1 DEF IInv, StopFits
<1>3. \A w \in Worker : wpc'[w] = "signalled"
  BY <1>1, <1>2
<1>4. wpc' \in [Worker -> WPC]
  BY <1>1, <1>2 DEF WPC
<1>5. At(ActivePC)' = At(ActivePC) /\ At(ThreadPC)' = At(ThreadPC)
  BY <1>2, <1>3 DEF At, ActivePC, ThreadPC
<1> QED
  BY <1>1, <1>3, <1>4, <1>5, DestroyLoopStep

\* A thread has left.
LEMMA DestroyWaitTestStep ==
  ASSUME IInv, NEW c \in Client, DestroyWaitTest(c)
  PROVE  IInv'
<1>1. /\ cpc[c] = "dtest" /\ DestroyLoop(c) /\ tq_flag' = tq_flag /\ wpc' = wpc /\ wtask' = wtask
      /\ UNCHANGED <<tq_live, counts, pool, tq_task, suspender, dpc, history>>
  BY DEF DestroyWaitTest, threads
<1>2. ~tq_flag /\ \A w \in Worker : wpc[w] \in {"signalled", "gone"}
  BY <1>1 DEF IInv, StopFits
<1>3. wpc' \in [Worker -> WPC] /\ tq_flag' \in BOOLEAN
  BY <1>1 DEF IInv, TypeOK
<1>4. At(ActivePC)' = At(ActivePC) /\ At(ThreadPC)' = At(ThreadPC)
  BY <1>1 DEF At
<1> QED
  BY <1>1, <1>2, <1>3, <1>4, DestroyLoopStep

\* A structure on the freelist is freed.
LEMMA DestroyFreeStep ==
  ASSUME IInv, NEW c \in Client, DestroyFree(c)
  PROVE  IInv'
<1>1. /\ tq_live' = tq_live /\ tq_flag' = tq_flag /\ tq_minalloc' = tq_minalloc
      /\ tq_active' = tq_active /\ tq_nthreads' = tq_nthreads /\ tq_task' = tq_task
      /\ suspender' = suspender /\ wpc' = wpc /\ wtask' = wtask /\ dpc' = dpc /\ cpc' = cpc
      /\ ntask' = ntask /\ done' = done /\ before' = before
      /\ cpc[c] = "dfree" /\ tq_nalloc # 0
      /\ \/ tq_freelist > 0 /\ tq_freelist' = tq_freelist - 1 /\ tq_nalloc' = tq_nalloc - 1
         \/ tq_freelist' = tq_freelist /\ tq_nalloc' = tq_nalloc
  BY DEF DestroyFree, UseFreelist, CountOut, life, counts, pool, threads, history
<1>2. /\ tq_nalloc \in Nat /\ tq_freelist \in Nat /\ tq_live
      /\ \A d \in Client : before[d] \subseteq 1 .. ntask
  BY <1>1 DEF IInv, TypeOK, TasksFit, ClientsFit
<1>3. /\ CountsFit' /\ QueueFits' /\ TasksFit' /\ NoIdleThreadMissesTask' /\ RunsInOrder'
      /\ Holding' = Holding
  BY <1>1, <1>2, QueueSame DEF counts
<1>4. TypeOK'
  <2>1. tq_nalloc' \in Nat /\ tq_freelist' \in Nat
    BY <1>1, <1>2
  <2> QED
    BY <1>1, <2>1 DEF IInv, TypeOK
<1>5. ClientsFit' /\ WorkersFit' /\ StopFits' /\ RoomFits'
  BY <1>1 DEF IInv, ClientsFit, WorkersFit, StopFits, RoomFits, Allocating
<1>6. TasksAreAccountedFor'
  <2>1. Len(tq_task) \in Nat /\ Cardinality(Holding) \in Nat
    BY AtCount, AtNames DEF IInv, TypeOK
  <2>2. tq_nalloc = tq_freelist + Len(tq_task) + Cardinality(Holding)
    BY DEF IInv, TasksAreAccountedFor
  <2>3. tq_nalloc' = tq_freelist' + Len(tq_task') + Cardinality(Holding')
    BY <1>1, <1>2, <1>3, <2>1, <2>2
  <2> QED
    BY <1>1, <1>2, <2>3 DEF TasksAreAccountedFor
<1> QED
  BY <1>3, <1>4, <1>5, <1>6 DEF IInv

\* The structure goes back to taskq_cache.
LEMMA DestroyDoneStep ==
  ASSUME IInv, NEW c \in Client, DestroyDone(c)
  PROVE  IInv'
<1>1. /\ tq_live' = FALSE /\ tq_flag' = tq_flag /\ tq_minalloc' = tq_minalloc
      /\ tq_active' = tq_active /\ tq_nthreads' = tq_nthreads /\ tq_task' = tq_task
      /\ suspender' = suspender /\ wpc' = wpc /\ wtask' = wtask /\ dpc' = dpc
      /\ ntask' = ntask /\ done' = done /\ before' = before
      /\ tq_freelist' = tq_freelist /\ tq_nalloc' = tq_nalloc
      /\ cpc[c] = "dfree" /\ tq_nalloc = 0 /\ cpc' = [cpc EXCEPT ![c] = "idle"]
  BY DEF DestroyDone, counts, pool, threads, history
<1>2. \A d \in Client : before[d] \subseteq 1 .. ntask
  BY DEF IInv, TasksFit
<1>3. /\ CountsFit' /\ QueueFits' /\ TasksFit' /\ NoIdleThreadMissesTask' /\ RunsInOrder'
      /\ Holding' = Holding
  BY <1>1, <1>2, QueueSame DEF counts
<1>4. /\ suspender = Nobody /\ tq_task = <<>> /\ \A w \in Worker : wpc[w] = "gone"
      /\ \A d \in Client : dpc[d] = <<>> /\ (d # c => cpc[d] = "idle")
  BY <1>1 DEF IInv, ClientsFit, StopFits, Destroying
<1>5. cpc' \in [Client -> CPC] /\ \A d \in Client : cpc'[d] = "idle"
  BY <1>1, <1>4 DEF IInv, TypeOK, CPC
<1>6. TypeOK'
  BY <1>1, <1>5 DEF IInv, TypeOK
<1>7. ClientsFit' /\ WorkersFit' /\ StopFits'
  BY <1>1, <1>4, <1>5 DEF IInv, ClientsFit, WorkersFit, StopFits, Destroying
<1>8. RoomFits'
  BY <1>1 DEF IInv, RoomFits, Allocating
<1>9. TasksAreAccountedFor'
  BY <1>1, <1>3, <1>4 DEF IInv, TasksAreAccountedFor
<1> QED
  BY <1>3, <1>6, <1>7, <1>8, <1>9 DEF IInv

\* tq_threadlock is taken as RW_WRITER and dropped.
LEMMA SuspendSteps ==
  ASSUME IInv, NEW c \in Client, Suspend(c) \/ Resume(c)
  PROVE  IInv'
<1>1. /\ tq_live' = tq_live /\ tq_flag' = tq_flag /\ tq_minalloc' = tq_minalloc
      /\ tq_active' = tq_active /\ tq_nthreads' = tq_nthreads /\ tq_task' = tq_task
      /\ wpc' = wpc /\ wtask' = wtask /\ dpc' = dpc /\ cpc' = cpc
      /\ ntask' = ntask /\ done' = done /\ before' = before
      /\ tq_freelist' = tq_freelist /\ tq_nalloc' = tq_nalloc
      /\ \/ suspender' = c /\ InUse
         \/ suspender' = Nobody
  BY DEF Suspend, Resume, tq, life, counts, pool, threads, history
<1>2. \A d \in Client : before[d] \subseteq 1 .. ntask
  BY DEF IInv, TasksFit
<1>3. /\ CountsFit' /\ QueueFits' /\ TasksFit' /\ NoIdleThreadMissesTask' /\ RunsInOrder'
      /\ Holding' = Holding
  BY <1>1, <1>2, QueueSame DEF counts
<1>4. TypeOK'
  BY <1>1 DEF IInv, TypeOK
<1>5. ClientsFit'
  BY <1>1 DEF IInv, ClientsFit, InUse
<1>6. WorkersFit' /\ StopFits' /\ RoomFits'
  BY <1>1 DEF IInv, WorkersFit, StopFits, RoomFits, Allocating
<1>7. TasksAreAccountedFor'
  BY <1>1, <1>3 DEF IInv, TasksAreAccountedFor, InUse
<1> QED
  BY <1>3, <1>4, <1>5, <1>6, <1>7 DEF IInv

-----------------------------------------------------------------------------
(* The theorems.                                                           *)

LEMMA InitHolds == Init => IInv
<1> SUFFICES ASSUME Init PROVE IInv
  OBVIOUS
<1>1. /\ tq_live = FALSE /\ tq_flag = FALSE /\ tq_active = 0 /\ tq_nthreads = 0
      /\ tq_nalloc = 0 /\ tq_minalloc = 0 /\ tq_freelist = 0 /\ tq_task = <<>>
      /\ suspender = Nobody /\ wpc = [w \in Worker |-> "none"] /\ wtask = [w \in Worker |-> 0]
      /\ dpc = [d \in Dispatcher |-> <<>>] /\ cpc = [c \in Client |-> "idle"]
      /\ ntask = 0 /\ done = {} /\ before = [c \in Client |-> {}]
  BY DEF Init
<1>2. MaxTask \in Nat /\ IsFiniteSet(Worker) /\ Cardinality(Worker) \in Nat
  BY TaskqAssumption, Counting
<1>3. TypeOK
  <2>1. /\ tq_active \in 0 .. Cardinality(Worker) /\ tq_nthreads \in 0 .. Cardinality(Worker)
        /\ tq_nalloc \in Nat /\ tq_minalloc \in Nat /\ tq_freelist \in Nat /\ ntask \in 0 .. MaxTask
        /\ wtask \in [Worker -> 0 .. MaxTask]
    BY <1>1, <1>2
  <2>2. /\ wpc \in [Worker -> WPC] /\ dpc \in [Dispatcher -> DPC] /\ cpc \in [Client -> CPC]
        /\ done \in SUBSET (1 .. MaxTask) /\ before \in [Client -> SUBSET (1 .. MaxTask)]
        /\ tq_task \in Seq(1 .. MaxTask)
    BY <1>1 DEF WPC, DPC, CPC
  <2> QED
    BY <1>1, <2>1, <2>2 DEF TypeOK
<1>4. At(ActivePC) = {} /\ At(ThreadPC) = {} /\ Holding = {} /\ Allocating = {}
  BY <1>1 DEF At, ActivePC, ThreadPC, Holding, Allocating
<1>5. Cardinality({}) = 0
  BY FS_EmptySet
<1>6. CountsFit /\ RoomFits /\ TasksAreAccountedFor
  BY <1>1, <1>2, <1>4, <1>5 DEF CountsFit, RoomFits, TasksAreAccountedFor
<1>7. ClientsFit /\ WorkersFit /\ StopFits
  BY <1>1 DEF ClientsFit, WorkersFit, StopFits, Destroying, Dispatcher
<1>8. QueueFits /\ TasksFit
  <2>1. Taken = 0 /\ Len(tq_task) = 0
    <3>1. Len(tq_task) = 0 /\ ntask = 0
      BY <1>1
    <3> QED
      BY <3>1 DEF Taken
  <2>2. Len(tq_task) <= ntask /\ (\A i \in 1 .. Len(tq_task) : FALSE) /\ \A i \in 1 .. Taken : FALSE
    BY <1>1, <2>1
  <2> QED
    BY <1>1, <1>4, <2>2 DEF QueueFits, TasksFit
<1>9. NoIdleThreadMissesTask /\ RunsInOrder
  BY <1>1 DEF NoIdleThreadMissesTask, RunsInOrder
<1> QED
  BY <1>3, <1>6, <1>7, <1>8, <1>9 DEF IInv

\* Every step preserves the invariant.
LEMMA NextPreserves == IInv /\ [Next]_vars => IInv'
<1> SUFFICES ASSUME IInv, [Next]_vars PROVE IInv'
  OBVIOUS
<1>1. CASE TaskqCreate
  BY <1>1, TaskqCreateStep
<1>2. ASSUME NEW d \in Dispatcher, DispatchFromFreelist(d)
      PROVE  IInv'
  BY <1>2, DispatchFromFreelistStep
<1>3. ASSUME NEW d \in Dispatcher, NEW km \in KMFlags,
             DispatchAlloc(d, km) \/ AllocCheck(d, km) \/ AllocFails(d, km)
      PROVE  IInv'
  BY <1>3, AllocSteps
<1>4. ASSUME NEW d \in Dispatcher, NEW km \in KMFlags, AllocDone(d, km)
      PROVE  IInv'
  BY <1>4, AllocDoneStep
<1>5. ASSUME NEW w \in Worker, ThreadLoop(w)
      PROVE  IInv'
  BY <1>5, ThreadLoopStep
<1>6. ASSUME NEW w \in Worker, TaskBegin(w)
      PROVE  IInv'
  BY <1>6, TaskBeginStep
<1>7. ASSUME NEW w \in Worker, TaskEnd(w)
      PROVE  IInv'
  BY <1>7, TaskEndStep
<1>8. ASSUME NEW w \in Worker, ThreadFree(w)
      PROVE  IInv'
  BY <1>8, ThreadFreeStep
<1>9. ASSUME NEW c \in Client, TaskqWait(c) \/ TaskqDestroy(c)
      PROVE  IInv'
  BY <1>9, WaitBegins
<1>10. ASSUME NEW c \in Client, WaitStep(c)
       PROVE  IInv'
  BY <1>10, TaskqWaitTestStep, DestroyStopStep, DestroyWaitTestStep, DestroyFreeStep,
     DestroyDoneStep DEF WaitStep
<1>11. ASSUME NEW c \in Client, Suspend(c) \/ Resume(c)
       PROVE  IInv'
  BY <1>11, SuspendSteps
<1>12. CASE UNCHANGED vars
  <2>1. /\ UNCHANGED <<tq_live, tq_flag, tq_minalloc, tq_active, tq_nthreads>>
        /\ UNCHANGED <<tq_nalloc, tq_freelist, tq_task, suspender, wpc, wtask, dpc, cpc>>
        /\ UNCHANGED <<ntask, done, before>>
    BY <1>12 DEF vars, tq, life, counts, pool, threads, history
  <2>2. At(ActivePC)' = At(ActivePC) /\ At(ThreadPC)' = At(ThreadPC) /\ Holding' = Holding
        /\ Allocating' = Allocating /\ Taken' = Taken
    BY <2>1 DEF At, Holding, Allocating, Taken
  <2>3. TypeOK' /\ CountsFit' /\ ClientsFit' /\ WorkersFit' /\ StopFits'
    BY <2>1, <2>2 DEF IInv, TypeOK, CountsFit, ClientsFit, WorkersFit, StopFits
  <2>4. QueueFits' /\ TasksFit' /\ RoomFits' /\ RunsInOrder'
    BY <2>1, <2>2 DEF IInv, QueueFits, TasksFit, RoomFits, RunsInOrder
  <2>5. TasksAreAccountedFor' /\ NoIdleThreadMissesTask'
    BY <2>1, <2>2 DEF IInv, TasksAreAccountedFor, NoIdleThreadMissesTask
  <2> QED
    BY <2>3, <2>4, <2>5 DEF IInv
<1> QED
  BY <1>1, <1>2, <1>3, <1>4, <1>5, <1>6, <1>7, <1>8, <1>9, <1>10, <1>11, <1>12
     DEF Next, DispatchStep

\* The inductive invariant: the counters are exact, the clients and threads use the
\* queue as its life allows, the queue holds the tasks queued last and each of the
\* others is done or with a thread, through every interleaving of taskq_dispatch(),
\* taskq_thread(), taskq_wait() and taskq_destroy().
THEOREM Inductive == Spec => []IInv
<1>1. Init => IInv
  BY InitHolds
<1>2. IInv /\ [Next]_vars => IInv'
  BY NextPreserves
<1> QED
  BY <1>1, <1>2, PTL DEF Spec

\* No task structure is lost or counted twice, and the queue goes back to taskq_cache
\* as taskq_constructor() left it, for any number of threads and any limits.
THEOREM AccountingHolds == Spec => []TasksAreAccountedFor
<1>1. IInv => TasksAreAccountedFor
  BY DEF IInv
<1> QED
  BY <1>1, Inductive, PTL

\* No wakeup is lost: while a thread of taskq_thread() sleeps unsignalled, a signalled
\* one is coming for each queued task.
THEOREM WakeupsHold == Spec => []NoIdleThreadMissesTask
<1>1. IInv => NoIdleThreadMissesTask
  BY DEF IInv
<1> QED
  BY <1>1, Inductive, PTL

\* A completed task has overtaken fewer tasks than there are threads; with one thread
\* tasks complete in the order of taskq_dispatch().
THEOREM OrderHolds == Spec => []RunsInOrder
<1>1. IInv => RunsInOrder
  BY DEF IInv
<1> QED
  BY <1>1, Inductive, PTL

\* In taskq_wait(), and the call of it in taskq_destroy(), only the test of its
\* condition lets a client go.
LEMMA OnlyTheTestReturns ==
  ASSUME IInv, Next, NEW c \in Client,
         \/ cpc[c] = "wtest" /\ cpc'[c] = "idle"
         \/ cpc[c] = "ptest" /\ cpc'[c] = "stop"
  PROVE  Quiescent
<1>1. cpc \in [Client -> CPC]
  BY DEF IInv, TypeOK
<1>2. CASE UNCHANGED cpc
  BY <1>2
<1>3. CASE BroadcastWait
  BY <1>3 DEF BroadcastWait
<1>4. ASSUME NEW d \in Client, TaskqWait(d) \/ TaskqDestroy(d)
      PROVE  FALSE
  BY <1>1, <1>4 DEF TaskqWait, TaskqDestroy, DestroyBegins
<1>5. ASSUME NEW d \in Client, TaskqWaitTest(d)
      PROVE  Quiescent
  BY <1>1, <1>5 DEF TaskqWaitTest
<1>6. ASSUME NEW d \in Client, DestroyStop(d) \/ DestroyWaitTest(d) \/ DestroyDone(d)
      PROVE  FALSE
  BY <1>1, <1>6 DEF DestroyStop, DestroyWaitTest, DestroyDone, DestroyLoop
<1>7. \/ UNCHANGED cpc \/ BroadcastWait
      \/ \E d \in Client : TaskqWait(d) \/ TaskqDestroy(d) \/ WaitStep(d)
  <2>1. CASE TaskqCreate
    BY <2>1 DEF TaskqCreate
  <2>2. CASE \E d \in Dispatcher : \/ DispatchFromFreelist(d)
                                   \/ \E km \in KMFlags : DispatchAlloc(d, km)
                                   \/ DispatchStep(d)
    BY <2>2 DEF DispatchFromFreelist, DispatchAlloc, DispatchStep, AllocCheck, AllocDone,
                AllocFails
  <2>3. CASE \E w \in Worker : ThreadLoop(w) \/ TaskBegin(w) \/ TaskEnd(w) \/ ThreadFree(w)
    BY <2>3 DEF ThreadLoop, TaskBegin, TaskEnd, ThreadFree, Loop
  <2>4. CASE \E d \in Client : Suspend(d) \/ Resume(d)
    BY <2>4 DEF Suspend, Resume
  <2> QED
    BY <2>1, <2>2, <2>3, <2>4 DEF Next
<1>8. ASSUME NEW d \in Client, DestroyFree(d)
      PROVE  UNCHANGED cpc
  BY <1>8 DEF DestroyFree
<1> QED
  BY <1>2, <1>3, <1>4, <1>5, <1>6, <1>7, <1>8 DEF WaitStep

\* taskq_wait() returns, and taskq_destroy() goes on to stop the threads, only when
\* every task queued before the call has completed, whoever dispatches meanwhile.
THEOREM WaitHolds == Spec => WaitCoversEarlierTasks
<1>1. IInv /\ [Next]_vars =>
        [\A c \in Client :
           \/ cpc[c] = "wtest" /\ cpc'[c] = "idle"
           \/ cpc[c] = "ptest" /\ cpc'[c] = "stop"
           => before[c] \subseteq done]_vars
  <2> SUFFICES ASSUME IInv, Next, NEW c \in Client,
                      \/ cpc[c] = "wtest" /\ cpc'[c] = "idle"
                      \/ cpc[c] = "ptest" /\ cpc'[c] = "stop"
               PROVE  before[c] \subseteq done
    OBVIOUS
  <2>1. Quiescent
    BY OnlyTheTestReturns
  <2>2. tq_live
    BY DEF IInv, ClientsFit
  <2>3. before[c] \subseteq 1 .. ntask
    BY DEF IInv, TasksFit
  <2> QED
    BY <2>1, <2>2, <2>3, QuiescentMeans
<1> QED
  BY <1>1, Inductive, PTL DEF Spec, WaitCoversEarlierTasks
============================================================================
