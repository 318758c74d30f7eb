------------------------------ MODULE Callout ------------------------------
(***************************************************************************)
(* Callouts: uts/common/os/callout.c, one callout table of the normal type *)
(* with the task queue that executes its callouts.                         *)
(*                                                                         *)
(* All state of the table is protected by ct_lock.  It is dropped while a  *)
(* handler runs, while a structure is allocated, in cv_wait() and before   *)
(* a task is dispatched; what happens between is one step.  The hash       *)
(* chains by run time are sequences, newest first, because executors       *)
(* resume in the middle of one.                                            *)
(* The hash by id is a lookup, ids being unique: callo.h assumes that no   *)
(* id is issued again while its callout, or its user, is still around.     *)
(* Time is clock_t, compared by signed differences that may wrap.          *)
(*                                                                         *)
(* The task queue is the part of taskq.c that callout_init() reasons       *)
(* about: a fixed population of task structures, each free, queued or held *)
(* by a thread.                                                            *)
(***************************************************************************)
EXTENDS Integers, Sequences, FiniteSets, SequencesExt

CONSTANTS
  Timer,      \* users of timeout(): the argument c_arg, one callout each
  Worker,     \* the threads of ct_taskq (CALLOUT_THREADS)
  Callout,    \* callout structures, bounding how many kmem_alloc() returns
  Id,         \* callout ids
  NoId,       \* c_xid = 0
  NoCallout,  \* NULL
  TimeMod,    \* number of values of clock_t
  Buckets,    \* CALLOUT_BUCKETS
  MaxDelta,   \* bound on the delta given to timeout()
  MaxLag      \* bound, in ticks, on how far callouts fall behind the clock

ASSUME CalloutAssumption ==
  /\ IsFiniteSet(Worker) /\ Worker # {}
  /\ NoId \notin Id /\ NoCallout \notin Callout
  /\ Buckets \in Nat \ {0} /\ MaxDelta \in Nat \ {0} /\ MaxLag \in Nat
  /\ TimeMod \in Nat /\ TimeMod >= 2 * (MaxDelta + MaxLag + 3)
  /\ TimeMod % Buckets = 0
  /\ IsFiniteSet(Timer) /\ IsFiniteSet(Id) /\ Cardinality(Id) >= Cardinality(Timer)

VARIABLES
  lbolt,            \* the clock
  clock,            \* "idle", or where clock() is in callout_schedule()
  cpr_stop_callout,
  ct_curtime, ct_runtime,
  ct_freelist,      \* set of free structures
  ct_lbhash,        \* bucket -> chain of structures
  c_id,             \* Callout -> c_xid without CALLOUT_EXECUTING
  c_executing,      \* Callout -> CALLOUT_EXECUTING
  c_runtime, c_executor, c_arg,    \* read while the structure is in the table only
  queued,           \* number of callout_execute() tasks on ct_taskq
  wpc,              \* Worker -> where it is
  wcp,              \* Worker -> local cp of callout_execute() during a handler
  wruntime,         \* Worker -> its local runtime
  tpc,              \* Timer -> where its user is
  tid,              \* Timer -> the id its user was given
  tcp               \* Timer -> local cp of untimeout()

ct == <<ct_curtime, ct_runtime, ct_freelist, ct_lbhash>>
cfields == <<c_id, c_executing, c_runtime, c_executor, c_arg>>
workers == <<wpc, wcp, wruntime>>
timers == <<tpc, tid, tcp>>
vars == <<lbolt, clock, cpr_stop_callout, ct, cfields, queued, workers, timers>>

Time == 0 .. TimeMod - 1
Bucket == 0 .. Buckets - 1
WPC == {"idle", "run", "exec", "selfwait", "finish"}
TPC == {"idle", "alloc", "armed", "wait", "woken"}

\* Signed difference and sum of two times.
Diff(a, b) == ((a - b + TimeMod \div 2) % TimeMod) - TimeMod \div 2
Plus(a, n) == (a + n) % TimeMod

LBHash(r) == r % Buckets

InTable == UNION {{ct_lbhash[b][i] : i \in 1 .. Len(ct_lbhash[b])} : b \in Bucket}
Pending == {cp \in InTable : ~c_executing[cp]}

\* Types; a structure is free or on one chain, that of its run time.
TypeOK ==
  /\ lbolt \in Time /\ ct_curtime \in Time /\ ct_runtime \in Time
  /\ clock \in {"idle", "schedule", "dispatch"} /\ cpr_stop_callout \in BOOLEAN
  /\ ct_freelist \in SUBSET Callout
  /\ ct_lbhash \in [Bucket -> Seq(Callout)]
  /\ c_id \in [Callout -> Id \cup {NoId}]
  /\ c_executing \in [Callout -> BOOLEAN]
  /\ c_runtime \in [Callout -> Time]
  /\ c_executor \in [Callout -> Worker \cup {NoCallout}]
  /\ c_arg \in [Callout -> Timer \cup {NoCallout}]
  /\ queued \in 0 .. 2 * Cardinality(Worker)
  /\ wpc \in [Worker -> WPC]
  /\ wcp \in [Worker -> Callout \cup {NoCallout}]
  /\ wruntime \in [Worker -> Time]
  /\ tpc \in [Timer -> TPC]
  /\ tid \in [Timer -> Id \cup {NoId}]
  /\ tcp \in [Timer -> Callout \cup {NoCallout}]
  /\ ct_freelist \cap InTable = {}
  /\ \A b \in Bucket : \A i, j \in 1 .. Len(ct_lbhash[b]) :
       /\ LBHash(c_runtime[ct_lbhash[b][i]]) = b
       /\ i # j => ct_lbhash[b][i] # ct_lbhash[b][j]

\* callout_init()
Init ==
  /\ lbolt = 0 /\ ct_curtime = 0 /\ ct_runtime = 0
  /\ clock = "idle" /\ cpr_stop_callout = FALSE
  /\ ct_freelist = {}
  /\ ct_lbhash = [b \in Bucket |-> <<>>]
  /\ c_id = [cp \in Callout |-> NoId]
  /\ c_executing = [cp \in Callout |-> FALSE]
  /\ c_runtime = [cp \in Callout |-> 0]
  /\ c_executor = [cp \in Callout |-> NoCallout]
  /\ c_arg = [cp \in Callout |-> NoCallout]
  /\ queued = 0
  /\ wpc = [w \in Worker |-> "idle"]
  /\ wcp = [w \in Worker |-> NoCallout]
  /\ wruntime = [w \in Worker |-> 0]
  /\ tpc = [t \in Timer |-> "idle"]
  /\ tid = [t \in Timer |-> NoId]
  /\ tcp = [t \in Timer |-> NoCallout]

-----------------------------------------------------------------------------
(* timeout()                                                               *)

\* Mutant: a delta of zero is taken as it is.
RunDelayAsGiven(delta) == delta

\* At least one tick in the future.
RunDelay(delta) == IF delta <= 0 THEN 1 ELSE delta

\* CALLOUT_HASH_INSERT: at the head of the chain.
HashInsert(r, cp) == ct_lbhash' = [ct_lbhash EXCEPT ![LBHash(r)] = <<cp>> \o @]

\* Structures, and ids, are interchangeable: which of them is taken is fixed.
AnyOf(S) == CHOOSE x \in S : TRUE

\* Fill in cp for t, with an id that nobody knows, and put it on the hashes.
SetCallout(t, cp, delta) ==
  LET runtime == Plus(lbolt, RunDelay(delta))
      id      == AnyOf(Id \ ({c_id[x] : x \in InTable} \cup {tid[u] : u \in Timer}))
  IN  /\ c_runtime' = [c_runtime EXCEPT ![cp] = runtime]
      /\ c_arg' = [c_arg EXCEPT ![cp] = t]
      /\ c_id' = [c_id EXCEPT ![cp] = id]
      /\ HashInsert(runtime, cp)
      /\ tid' = [tid EXCEPT ![t] = id]
      /\ tpc' = [tpc EXCEPT ![t] = "armed"]
      /\ UNCHANGED <<lbolt, clock, cpr_stop_callout, ct_curtime, ct_runtime, c_executing,
                     c_executor, queued, workers, tcp>>

\* timeout() with a structure from the freelist.
Timeout(t, delta) ==
  /\ tpc[t] = "idle"
  /\ ct_freelist # {}
  /\ ct_freelist' = ct_freelist \ {AnyOf(ct_freelist)}
  /\ SetCallout(t, AnyOf(ct_freelist), delta)

\* The freelist is empty: callout_alloc() drops ct_lock ...
TimeoutAlloc(t) ==
  /\ tpc[t] = "idle"
  /\ ct_freelist = {}
  /\ tpc' = [tpc EXCEPT ![t] = "alloc"]
  /\ UNCHANGED <<lbolt, clock, cpr_stop_callout, ct, cfields, queued, workers, tid, tcp>>

\* ... and returns with a new structure.
TimeoutAlloced(t, delta) ==
  /\ tpc[t] = "alloc"
  /\ Callout \ (ct_freelist \cup InTable) # {}
  /\ SetCallout(t, AnyOf(Callout \ (ct_freelist \cup InTable)), delta)
  /\ UNCHANGED ct_freelist

-----------------------------------------------------------------------------
(* untimeout()                                                             *)

\* Where cp is on its chain.
Place(cp) ==
  LET chain == ct_lbhash[LBHash(c_runtime[cp])]
  IN  CHOOSE i \in 1 .. Len(chain) : chain[i] = cp

\* CALLOUT_HASH_DELETE
Without(cp) == [ct_lbhash EXCEPT ![LBHash(c_runtime[cp])] = RemoveAt(@, Place(cp))]

\* Onto the freelist.  The structure keeps its contents, of which c_xid alone may
\* be read until timeout() has set them again; the model forgets the others.
Free(cp) ==
  /\ ct_freelist' = ct_freelist \cup {cp}
  /\ c_runtime' = [c_runtime EXCEPT ![cp] = 0]
  /\ c_arg' = [c_arg EXCEPT ![cp] = NoCallout]

\* The callout has not started: take it off the hashes.  The structure goes to
\* the freelist with its old id.
UntimeoutPending(t) ==
  /\ tpc[t] = "armed"
  /\ \E cp \in Pending :
       /\ c_id[cp] = tid[t]
       /\ ct_lbhash' = Without(cp)
       /\ Free(cp)
  /\ tpc' = [tpc EXCEPT ![t] = "idle"]
  /\ tid' = [tid EXCEPT ![t] = NoId]
  /\ UNCHANGED <<lbolt, clock, cpr_stop_callout, ct_curtime, ct_runtime, c_id, c_executing,
                 c_executor, queued, workers, tcp>>

\* The callout is executing, in another thread: wait on c_done.
UntimeoutExecuting(t) ==
  /\ tpc[t] = "armed"
  /\ \E cp \in InTable :
       /\ c_id[cp] = tid[t] /\ c_executing[cp]
       /\ tcp' = [tcp EXCEPT ![t] = cp]
  /\ tpc' = [tpc EXCEPT ![t] = "wait"]
  /\ UNCHANGED <<lbolt, clock, cpr_stop_callout, ct, cfields, queued, workers, tid>>

\* Mutant: cv_wait() is trusted to return when the callout is done.
UntimeoutWokenReturns(t) ==
  /\ tpc[t] = "woken"
  /\ tpc' = [tpc EXCEPT ![t] = "idle"]
  /\ tid' = [tid EXCEPT ![t] = NoId]
  /\ tcp' = [tcp EXCEPT ![t] = NoCallout]
  /\ UNCHANGED <<lbolt, clock, cpr_stop_callout, ct, cfields, queued, workers>>

\* Back from cv_wait(): return -1, or wait again if the id is still the same.
UntimeoutWoken(t) ==
  /\ tpc[t] = "woken"
  /\ IF c_id[tcp[t]] = tid[t] /\ c_executing[tcp[t]]
       THEN tpc' = [tpc EXCEPT ![t] = "wait"] /\ UNCHANGED <<tid, tcp>>
       ELSE /\ tpc' = [tpc EXCEPT ![t] = "idle"]
            /\ tid' = [tid EXCEPT ![t] = NoId]
            /\ tcp' = [tcp EXCEPT ![t] = NoCallout]
  /\ UNCHANGED <<lbolt, clock, cpr_stop_callout, ct, cfields, queued, workers>>

\* The id is not found: return -1.  This is also what a user does who learns
\* from the handler that it has run, and does not call untimeout() at all.
UntimeoutFired(t) ==
  /\ tpc[t] = "armed"
  /\ \A cp \in InTable : c_id[cp] # tid[t]
  /\ tpc' = [tpc EXCEPT ![t] = "idle"]
  /\ tid' = [tid EXCEPT ![t] = NoId]
  /\ UNCHANGED <<lbolt, clock, cpr_stop_callout, ct, cfields, queued, workers, tcp>>

\* A handler calls untimeout() with its own id, "Stupid, but legal": it just
\* returns to the handler.
UntimeoutSelf(w) ==
  /\ wpc[w] = "exec"
  /\ wpc' = [wpc EXCEPT ![w] = IF c_executor[wcp[w]] = w THEN "exec" ELSE "selfwait"]
  /\ UNCHANGED <<lbolt, clock, cpr_stop_callout, ct, cfields, queued, wcp, wruntime, timers>>

\* A handler calls setrun() on its user, as the one of cv_timedwait() does: this
\* wakes the user, even if it sleeps on c_done by now.
HandlerSetrun(w) ==
  /\ wpc[w] = "exec"
  /\ LET t == c_arg[wcp[w]]
     IN  tpc[t] = "wait" /\ tpc' = [tpc EXCEPT ![t] = "woken"]
  /\ UNCHANGED <<lbolt, clock, cpr_stop_callout, ct, cfields, queued, workers, tid, tcp>>

-----------------------------------------------------------------------------
(* The loops over run times, shared by callout_schedule_1() and            *)
(* callout_execute().                                                      *)

\* Positions in r's chain of callouts to be run at r that nobody executes yet.
DueAt(hash, r) ==
  {i \in 1 .. Len(hash[LBHash(r)]) :
     LET cp == hash[LBHash(r)][i] IN c_runtime[cp] = r /\ ~c_executing[cp]}

\* The one that the walk along the chain reaches first.
FirstOf(S) == CHOOSE i \in S : \A j \in S : i <= j

\* From run time r up to curtime, the first callout; NoCallout, and the tick
\* after curtime, if there is none.
FirstDue(hash, r, curtime) ==
  LET due   == {s \in Time : Diff(r, s) <= 0 /\ Diff(s, curtime) <= 0 /\ DueAt(hash, s) # {}}
      first == CHOOSE s \in due : \A u \in due : Diff(s, u) <= 0
  IN  IF due = {}
        THEN [cp |-> NoCallout, runtime |-> IF Diff(r, curtime) <= 0 THEN Plus(curtime, 1) ELSE r]
        ELSE [cp |-> hash[LBHash(first)][FirstOf(DueAt(hash, first))], runtime |-> first]

-----------------------------------------------------------------------------
(* clock(), callout_schedule()                                             *)

Behind(r) == Diff(lbolt, r)

\* A tick.  Callouts fall behind by MaxLag ticks while they are stopped, and by
\* one more while handlers run.
Tick ==
  /\ clock = "idle"
  /\ Behind(ct_runtime) < MaxLag + (IF cpr_stop_callout THEN 0 ELSE 1)
  /\ \A w \in Worker : wpc[w] = "exec" => Behind(wruntime[w]) <= MaxLag
  /\ lbolt' = Plus(lbolt, 1)
  /\ clock' = "schedule"
  /\ UNCHANGED <<cpr_stop_callout, ct, cfields, queued, workers, timers>>

\* The task structures of ct_taskq.
Tasks == 2 * Cardinality(Worker)

\* callout_schedule_1(), unless callouts are stopped for a checkpoint: if a
\* callout is due, drop ct_lock ...
CalloutSchedule ==
  /\ clock = "schedule"
  /\ IF cpr_stop_callout
       THEN clock' = "idle" /\ UNCHANGED <<ct_curtime, ct_runtime>>
       ELSE LET next == FirstDue(ct_lbhash, ct_runtime, lbolt)
            IN  /\ ct_curtime' = lbolt
                /\ ct_runtime' = next.runtime
                /\ clock' = IF next.cp # NoCallout THEN "dispatch" ELSE "idle"
  /\ UNCHANGED <<lbolt, cpr_stop_callout, ct_freelist, ct_lbhash, cfields, queued,
                 workers, timers>>

\* ... and taskq_dispatch(ct_taskq, callout_execute, ct, KM_NOSLEEP), which fails
\* without a free task structure; the failure is ignored.
TaskqDispatch ==
  /\ clock = "dispatch"
  /\ clock' = "idle"
  /\ queued' = IF queued + Cardinality({w \in Worker : wpc[w] # "idle"}) < Tasks
                 THEN queued + 1 ELSE queued
  /\ UNCHANGED <<lbolt, cpr_stop_callout, ct, cfields, workers, timers>>

\* Mutant: the resume code is not told from the others.
CalloutCprStops(stop) ==
  /\ stop # cpr_stop_callout
  /\ stop => clock = "schedule" /\ Behind(ct_runtime) <= MaxLag
  /\ cpr_stop_callout' = TRUE
  /\ UNCHANGED <<lbolt, clock, ct, cfields, queued, workers, timers>>

\* callout_cpr_callb().  A checkpoint is only seen to begin when clock() is about
\* to read the flag, and does not begin while callouts are further behind than
\* MaxLag: a system stopped at every tick would never run one.
CalloutCpr(stop) ==
  /\ stop # cpr_stop_callout
  /\ stop => clock = "schedule" /\ Behind(ct_runtime) <= MaxLag
  /\ cpr_stop_callout' = stop
  /\ UNCHANGED <<lbolt, clock, ct, cfields, queued, workers, timers>>

-----------------------------------------------------------------------------
(* taskq_thread(), callout_execute()                                       *)

\* A thread of the task queue takes a task.
TaskTake(w) ==
  /\ wpc[w] = "idle"
  /\ queued > 0
  /\ queued' = queued - 1
  /\ wpc' = [wpc EXCEPT ![w] = "run"]
  /\ UNCHANGED <<lbolt, clock, cpr_stop_callout, ct, cfields, wcp, wruntime, timers>>

\* task_free(): the task structure is free again.
TaskFree(w) ==
  /\ wpc[w] = "finish"
  /\ wpc' = [wpc EXCEPT ![w] = "idle"]
  /\ UNCHANGED <<lbolt, clock, cpr_stop_callout, ct, cfields, queued, wcp, wruntime, timers>>

\* w starts the callout of next, at whose run time it is, or is through; the
\* callouts in done are complete.
Execute(w, next, done) ==
  LET start == {next.cp} \ {NoCallout}
  IN  /\ c_id' = [cp \in Callout |-> IF cp \in done THEN NoId ELSE c_id[cp]]
      /\ c_executing' = [cp \in Callout |-> cp \in start \/ (c_executing[cp] /\ cp \notin done)]
      /\ c_executor' = [cp \in Callout |-> IF cp \in start THEN w
                                            ELSE IF cp \in done THEN NoCallout
                                            ELSE c_executor[cp]]
      /\ wpc' = [wpc EXCEPT ![w] = IF start = {} THEN "finish" ELSE "exec"]
      /\ wcp' = [wcp EXCEPT ![w] = next.cp]
      /\ wruntime' = [wruntime EXCEPT ![w] = IF start = {} THEN 0 ELSE next.runtime]

\* callout_execute() up to its first handler.
ExecuteBegin(w) ==
  /\ wpc[w] = "run"
  /\ LET next == FirstDue(ct_lbhash, ct_runtime, ct_curtime)
     IN  ct_runtime' = next.runtime /\ Execute(w, next, {})
  /\ UNCHANGED <<lbolt, clock, cpr_stop_callout, ct_curtime, ct_freelist, ct_lbhash,
                 c_runtime, c_arg, queued, tpc, tid, tcp>>


\* cv_broadcast(&cp->c_done)
Broadcast(cp) ==
  tpc' = [t \in Timer |-> IF tpc[t] = "wait" /\ tcp[t] = cp THEN "woken" ELSE tpc[t]]

\* Mutant: the run time is advanced although another thread has done so.
NextRuntimeAlways(r) == Plus(ct_runtime, 1)

\* Advance the global run time if it still is the local one.
NextRuntime(r) == IF ct_runtime = r THEN Plus(r, 1) ELSE ct_runtime

\* A handler returns: free its structure, tell those who wait, and pick up at
\* c_lbnext; at the end of the chain go on with the next run time.
ExecuteNext(w) ==
  LET cp    == wcp[w]
      r     == wruntime[w]
      hash  == Without(cp)
      rest  == {i \in DueAt(hash, r) : i >= Place(cp)}
      next  == FirstDue(hash, NextRuntime(r), ct_curtime)
  IN  /\ wpc[w] = "exec"
      /\ ct_lbhash' = hash
      /\ Free(cp)
      /\ IF rest # {}
           THEN /\ Execute(w, [cp |-> hash[LBHash(r)][FirstOf(rest)], runtime |-> r], {cp})
                /\ UNCHANGED ct_runtime
           ELSE /\ Execute(w, next, {cp})
                /\ ct_runtime' = next.runtime
      /\ Broadcast(cp)
      /\ UNCHANGED <<lbolt, clock, cpr_stop_callout, ct_curtime, queued, tid, tcp>>

-----------------------------------------------------------------------------
UntimeoutStep(t) ==
  UntimeoutPending(t) \/ UntimeoutExecuting(t) \/ UntimeoutFired(t)

WorkerStep(w) == TaskTake(w) \/ TaskFree(w) \/ ExecuteBegin(w) \/ ExecuteNext(w)

Next ==
  \/ \E t \in Timer :
       \/ \E delta \in 0 .. MaxDelta : Timeout(t, delta) \/ TimeoutAlloced(t, delta)
       \/ TimeoutAlloc(t)
       \/ UntimeoutStep(t) \/ UntimeoutWoken(t)
  \/ \E w \in Worker : WorkerStep(w) \/ UntimeoutSelf(w) \/ HandlerSetrun(w)
  \/ Tick
  \/ CalloutSchedule
  \/ TaskqDispatch
  \/ \E stop \in BOOLEAN : CalloutCpr(stop)

Spec == Init /\ [][Next]_vars

\* The clock ticks, threads run, handlers return, threads that are woken run, and
\* a system that was stopped for a checkpoint is resumed.
Fairness ==
  /\ WF_vars(Tick)
  /\ WF_vars(CalloutSchedule)
  /\ WF_vars(TaskqDispatch)
  /\ WF_vars(CalloutCpr(FALSE))
  /\ \A w \in Worker : WF_vars(WorkerStep(w))
  /\ \A t \in Timer : WF_vars(UntimeoutWoken(t))

FairSpec == Spec /\ Fairness

-----------------------------------------------------------------------------
(* Properties.                                                             *)

\* No callout is passed over: one that nobody executes is due at the run time
\* the table has reached or later.  The run time only moves forward, so that a
\* callout behind it would wait for the clock to wrap.
NoneIsPassedOver == \A cp \in Pending : Diff(c_runtime[cp], ct_runtime) >= 0

\* A callout that callout_schedule() has seen to be due has a callout_execute()
\* on its way to the task queue, on it or in a thread, which will look at it
\* again.
DueHasExecutor ==
  (\E cp \in Pending : Diff(c_runtime[cp], ct_curtime) <= 0) =>
    clock = "dispatch" \/ queued > 0 \/ \E w \in Worker : wpc[w] \notin {"idle", "finish"}

\* When untimeout() returns, the handler of that id is not running and will not
\* run any more: it has either completed or been prevented from starting.
UntimeoutIsFinal ==
  \A cp \in InTable : tid[c_arg[cp]] = c_id[cp] /\ tpc[c_arg[cp]] \in {"armed", "wait", "woken"}

\* Every callout is executed unless it is cancelled.
CalloutsFire ==
  \A t \in Timer :
    (\E cp \in Pending : c_arg[cp] = t) ~> ~(\E cp \in Pending : c_arg[cp] = t)

=============================================================================
