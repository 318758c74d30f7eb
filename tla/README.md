# Kernel synchronisation and deferred work in Solaris 8: a TLA+ verification

This directory holds TLA+ models of the synchronisation primitives of the
Solaris 8 kernel and of the services built directly on them, TLC
configurations that check them on small instances, and TLAPS proofs of their
central invariants for every number of threads and processors.  The sources
are under `src/osnet_volume/usr/src/`; paths below are relative to that
directory, and `os/` stands for `uts/common/os/`.

- [The system](#the-system)
- [Modules and their correspondence to the code](#modules-and-their-correspondence-to-the-code)
- [Runs, bounds and what they show](#runs-bounds-and-what-they-show)
- [Fairness](#fairness)
- [Proofs](#proofs)
- [Where code and comments disagree](#where-code-and-comments-disagree)
- [What is not modelled](#what-is-not-modelled)
- [Plan](#plan)

## The system

The repository is a whole operating system.  This development covers the part
everything else in the kernel stands on, and which is hardest to test: the
blocking locks, the queues threads sleep on, and the services that run work
later or elsewhere.

| Component | State | Operations | Talks to |
|---|---|---|---|
| Adaptive mutexes (`os/mutex.c`, `uts/sparc/v9/ml/lock_prim.s`) | one word: owner, waiters bit | `mutex_enter`, `mutex_tryenter`, `mutex_exit`, `mutex_init`, `mutex_destroy`, vector paths | turnstiles; the dispatcher (`cpu_thread`, preemption, restart of `mutex_exit` in `uts/sun4u/ml/locore.s`) |
| Readers/writer locks (`os/rwlock.c`) | one word: waiters bit, write-wanted bit, owner or hold count | `rw_enter`, `rw_tryenter`, `rw_exit`, `rw_downgrade`, `rw_tryupgrade`, `rw_init`, `rw_destroy` | turnstiles; kernel priority requests of other threads |
| Semaphores (`os/semaphore.c`) | count, sleep queue | `sema_p`, `sema_p_sig`, `sema_tryp`, `sema_v`, callbacks `sema_unsleep`, `sema_change_pri` | signals, the scheduling classes |
| Task queues (`os/taskq.c`) | task list, freelist, counters, flags, two condition variables, an rwlock | `taskq_create`, `taskq_dispatch`, `taskq_wait`, `taskq_lock`, `taskq_destroy`, `taskq_thread` | mutexes, condition variables, rwlocks, the allocator |
| Turnstiles (`os/turnstile.c`) | hash of chains, donated turnstiles, sleep queues, inherited priorities | `turnstile_lookup`, `_block`, `_wakeup`, `_change_pri`, `_exit` | mutexes and rwlocks; the thread locks of other threads |
| Sleep queues (`os/sleepq.c`) | two-dimensional linked lists | insert, dequeue, wakeone, wakeall, unsleep | dispatcher locks |
| Condition variables (`os/condvar.c`) | `cv_waiters`, hashed sleep queue | `cv_wait*`, `cv_signal`, `cv_broadcast` | mutexes, callouts, signals |
| Callouts (`os/callout.c`) | two hash tables, run list, freelist | `timeout`, `untimeout`, `callout_schedule`, `callout_execute` | the clock, task queues, condition variables |
| Kernel memory allocator (`os/kmem.c`) | per cache: magazines of each CPU, depot, slabs | `kmem_cache_alloc`, `_free`, `_destroy`; reap, purge, resize, enable and update behind the scenes | its own task queue and timeout; constructors |
| Checkpoint/resume callbacks (`os/callb.c`, `sys/callb.h`, `uts/common/cpr/`) | table of callbacks, busy flag, events of each daemon | `callb_add`, `callb_delete`, `callb_execute_class`, `callb_generic_cpr`, `callb_is_stopped`, the `CALLB_CPR_*` macros | every kernel daemon; the suspending thread |
| Dispatcher, dispatcher locks (`uts/common/disp/`) | run queues, per-CPU current thread | `swtch`, `resume`, `preempt` | all of the above |

What is hard here:

- **Non-atomic release.** `mutex_exit()` loads the word, compares, and clears
  it with a plain store.  A thread that wants to block sets the waiters bit in
  that very word.  Correctness depends on an argument about who is running on
  which processor, spread over `mutex.c`, `turnstile.c` and the interrupt
  return path.
- **Direct handoff.** `rw_exit_wakeup()` computes the next lock word from the
  sleep queues and stores it without an atomic instruction.  It may do so only
  because nobody else can change the word then, which in turn depends on what
  readers, upgraders and downgraders may do meanwhile.
- **Stale tests.** A busy test, an owner, a limit is read before a lock is
  acquired and used after (`rw_enter_sleep`, `mutex_vector_enter`,
  `task_alloc`).
- **Wakeups with two causes.** A semaphore sleeper can be woken by `sema_v()`
  and by a signal, in either order, even before it has switched away.
- **Lives of a structure.** A mutex or task queue is destroyed and initialised
  again; `taskq_create()` relies on the state the previous life left.
- **Lock dropped in a loop.** `callout_execute()` runs handlers with `ct_lock`
  dropped, from the middle of a hash chain, in several threads, while users
  cancel and create callouts; `untimeout()` sleeps on a structure that may
  belong to somebody else when it wakes up.
- **Locks in an order nobody chose.** The thread lock of a sleeper is the lock of
  the hash chain of what it sleeps on.  A walk down a blocking chain to will a
  priority takes such locks as it finds them, while others walk the other way.
- **Layers with a lock each.** A buffer moves between a CPU, the depot and a slab,
  or is built or torn down, under different locks, which are dropped to allocate
  in between; the size of all magazines is changed underneath.
- **Rendezvous with threads that leave.** A suspend waits for each daemon to
  stop, calls functions with data on the daemon's stack, and lets daemons
  exit and arrive all the while.
- **Starvation.** Wakeup policies, signals of condition variables and strong
  ordering claims in the block comments.

`PROJECT.json` lists the most important of these hazards line by line with the
properties that would catch them going wrong.  Two of the code's are left to its
clients and covered by no property: callout ids are issued again once the counter
wraps (`os/callout.c:119`; `sys/callo.h` assumes that nobody knows the old id by
then), and a `cv_signal()` may be consumed by a thread that has timed out or been
interrupted and does not pass it on (`os/condvar.c:427`).

### What makes each component correct

- *Mutex*: one holder, which the word names; nobody sleeps on a mutex unless
  its owner is going to wake it; none of the panics is reachable by clients
  that keep the rules; sleepers are woken.
- *Rwlock*: the word names exactly the holders, the bits exactly the waiters,
  at every instant of a handoff, downgrade or upgrade; a lock with waiters is
  never free; the ASSERTs hold; kernel priority is balanced; the five
  requirements of the wakeup policy.
- *Semaphore*: no `sema_v()` is lost, whichever signals arrive; the queue is
  sorted by priority and, within one, in the order in which threads were queued.
- *Task queue*: no task is lost, run twice or left behind; `taskq_wait()` and
  `taskq_destroy()` cover every earlier task and return; a sleeping thread is
  not left sleeping while a task waits behind a running one; the structure goes
  back to its cache in constructed state.
- *Callouts*: a callout that nobody cancels is executed, and none is passed
  over; the dispatch whose failure is ignored never matters; when `untimeout()`
  has returned, its handler is not running and will not run.
- *Condition variables*: no wakeup is lost between the test of a condition and
  the sleep; the count that lets `cv_signal()` return early is right; whatever
  should end a wait does, even if it comes before the thread sleeps; a wait
  leaves with the mutex and without its timeout.
- *Turnstiles*: no priority inversion is left when the walks are over, and no
  boost without a reason; every thread has a turnstile to donate; the walks
  do not deadlock.  (They can livelock, see
  [below](#where-code-and-comments-disagree).)
- *Allocator*: no buffer is lost, given out twice or in the wrong constructed
  state; a magazine has the size and the number of rounds that are nowhere
  recorded; a destroyed cache has given everything back.
- *Checkpoint callbacks*: nobody works while the system is suspended; no callback
  of a daemon that is gone; no signal of a daemon that stops is lost; nobody
  stays stopped.

## Modules and their correspondence to the code

Each definition's source lines are in the `map` of `PROJECT.json`.  Operators
named `...Unchecked`, `...NoRescan` and the like, marked "Mutant" in their
comments, are deliberately wrong versions of the definition that follows them:
replacing the definition by its mutant must make a property fail.  They are
used nowhere else.

### `Mutex` — adaptive mutexes, instruction by instruction

One mutex, any set of threads and CPUs.  `m_owner`, `m_waiters` and `m_dead`
are the fields of the word; `ts_q` the threads asleep on its turnstile and
`tc_lock` the lock of the hash chain; `cpu_thread` the `cpu_t.cpu_thread`
pointers the spinners read; `pc`, `owner`, `scan` each thread's program counter
and locals.

- `CallEnter`/`MutexEnter`/`MutexTryenter`: the cas of the fast paths.
- `SpinLoad`, `SpinTry`, `ScanOwner`, `TurnstileLookup`, `SetWaiters`,
  `RescanOwner`, `CheckBlock`, `TurnstileExit`, `TurnstileBlock`, `Swtch`: the
  loop of `mutex_vector_enter()`, one shared load or store per step.  The two
  searches of the CPUs look at one CPU per step, in any order.  A thread that
  has called `turnstile_block()` still occupies its CPU until `Swtch`, and can
  be woken before it.
- `ExitLoad`, `ExitClear`: the two instructions of `mutex_exit()`.
  `VectorExit`, `VectorClear`, `WakeWaiter`, `WakeupDone`:
  `mutex_vector_exit()`.
- `Preempt`, `Resume`: the dispatcher, including the reset of the PC when the
  critical region of `mutex_exit()` is interrupted.  Threads that hold a
  dispatcher lock or have called `kpreempt_disable()` are not preempted.
- `MutexDestroy`, `MutexInit`: by a client that ensures nobody else uses it.

Steps are sequentially consistent.  The code puts membars exactly between the
loads and stores listed in its Big Theory Statement, which are steps here.
Which of the sleepers `turnstile_wakeup()` wakes first does not matter, since it
wakes all: `ts_q` is a set.

### `RWLock` and `RWAbstract` — readers/writer locks

`RWLock` splits the word `rw_wwwh` into `rw_wait`, `rw_want`, `rw_owner` and
`rw_count`.  A cas loop is one step, taken when its cas succeeds.  The busy
test, `turnstile_lookup()`, the setting of the bits and the blocking are
separate steps, as are the final exit's decision, its `turnstile_lookup()`, the
handoff store, each wakeup, and the two halves of `rw_downgrade()`.  `sleepq`
holds the two queues of the turnstile in the order `sleepq_insert()` keeps;
`kpri` counts the kernel priority requests of each thread; `ChangePri` changes
priorities at any time, moving sleepers in their queue, also from one to the same:
a change hidden by inheritance puts a sleeper behind its equals.  For this reason
`NoStarvation` asks that changes end some time.

`RWAbstract` says what a client is promised: who holds, who has committed to
wait, readers never pass a waiting writer, a lock with waiters is handed on in
the step that releases it, an exiting reader hands it to a writer.  `RWLock`
is shown to implement it, with holders and waiters as functions of the detailed
state: a thread chosen by `rw_exit_wakeup()` holds from the store on, before it
is dequeued.

### `Semaphore`

Everything done under the sleep queue lock is one step.  `s_slpq` is the queue;
`QueuePlace` is the loop of `sema_queue()` that looks for the place.  A thread
woken by `sema_v()` competes for the count again (`Retry`) or gives up on a
signal (`Interrupted`), in which case it passes the wakeup on, as
`sema_p_sig()` does.  `Signal`, `SemaUnsleep`, `ThreadChangePri` and
`ThreadChangeEpri` are what the rest of the kernel does to a thread on the queue.
A thread has a priority of its own, `t_pri`, and one it inherits, `t_epri`; the
queue is in order of `DispPrio`, the inherited one if there is one.
`thread_change_pri()` compares the new priority with `t_pri`, so a sleeper that
inherits is taken off the queue and put behind its equals (`SemaChangePri`) though
its `DispPrio` stays the same.  `PriorityThenFifo` says exactly that: an equal
overtakes a sleeper only when one of the sleeper's own two priorities changes.
`MaxCount` bounds `s_count`.

### `Taskq`

The life of a queue from `TaskqCreate` to `DestroyDone`, over and over.  Tasks
are numbered in the order in which they are queued.  What happens under
`tq_lock` is one step; `task_alloc()` and `task_free()` are split where they
drop it.  `cv_signal` and `cv_broadcast` move threads from "asleep" to "about
to take the lock".  Clients and running tasks dispatch; a client may suspend
execution by taking `taskq_lock()` as writer.  `ntask`, `done` and `before`
record history for the properties.  `MaxTask` bounds the tasks of one life.

### `Callout`

One callout table of the normal type.  What happens under `ct_lock` is one step;
the lock is dropped while a handler runs, in `callout_alloc()`, in `cv_wait()`
and before `taskq_dispatch()`.  `ct_lbhash` holds the chains by run time, newest
first; the hash by id is a lookup.  `c_xid` is split into `c_id` and
`c_executing`.  `FirstDue` is the loop over run times and chains that
`callout_schedule_1()` and `callout_execute()` share: between two handlers it
runs to its end under the lock.  A user (`Timer`) has at most one callout; a
handler may cancel itself, and may call `setrun()` on its user, which is how
`cv_timedwait()` uses callouts.  The task queue is reduced to what
`callout_init()` argues about: a fixed number of task structures, free, queued,
or held by a thread until `task_free()` (`Taskq` models the whole of it).
`clock_t` wraps at `TimeMod` and is compared by signed differences.  `MaxDelta`
bounds the delay asked for, `MaxLag` how far execution falls behind the clock;
`TimeMod` must exceed twice their sum by a margin, as 2^31 ticks exceed any
delay.  Users, structures and ids are finite sets; an id is not issued while
anybody knows it (`sys/callo.h` states this assumption).  Fields of a free
structure other than `c_xid` are never read and are forgotten.

### `CondVar`

One condition variable and its mutex `mp`, with clients that wait while a
condition protected by `mp` is false.  `Waiter` are the threads that wait, in any
of `cv_wait()`, `cv_timedwait()`, `cv_wait_sig()`, `cv_timedwait_sig()` and
`cv_wait_stop()`; the other threads only set the condition and call
`cv_signal()` and `cv_broadcast()`.  `kind` is the function a thread is in, `pc`
its place there: the functions are the same sequence of calls with some left
out, and each call is a step, since a callout, a signal or another thread may
act between any two.  What is done under the lock of the sleep queue is one step.
`mp` is an atomic mutex (`Mutex` is the real one); the sleep queue is a set.
`CvWakeup` is the test of `cv_waiters` without a lock, `CvSignal` and
`CvBroadcast` what follows under it.  `NotBlocking` is `schedctl_block()` that has
dropped `mp`.  Time is relative: `left` counts down to the time given, `fire` to
the callout, which may be later, as `lbolt` is read again.  Callouts are what
`Callout` shows of them.  The limit `CV_MAX_WAITERS` is a parameter, as is
`MaxDelta`, the longest wait.  The values returned are not modelled.

### `Turnstile`

Any set of threads that acquire objects one after the other (`Wants`) and release
them.  An object is an owner and a waiters bit; those of `handoff` are given to
the first sleeper, as a rwlock is to a writer, the others wake everybody, as
mutexes do.  The locks `t_lockp` may point at are the hash chains, which are
numbers, so that their order is that of addresses, and a dispatcher lock for each
thread that is not asleep; `holder` tells who holds them.

- `Lookup`, `LockSelf`, `Sleep`: `turnstile_lookup()` and `turnstile_block()` up to
  the sleep, with the donation of the turnstile.
- `ReadOlp`, `SameLock`, `TryLock`, `Recheck`, `Lose`, `AwaitWinner`, `DropOlp`,
  `Restart`, `Spin`, `EndWalk`: the loop of `turnstile_block()` and `turnstile_interlock()`,
  one access to a lock or to `t_lockp` per step.  A loser takes the lock it lost on
  and drops it again in two steps, between which the `lock_try()` of others fails.
  `Will` is `turnstile_pi_inherit()`
  and the step to the next thread; `Requeue` is `turnstile_change_pri()`, called
  when the heir is asleep itself.
- `ReleaseFast`, `ReleaseSlow`, `Waive`, `Wake`, `EndWakeup`: the release and
  `turnstile_wakeup()`, one wakeup per step; `Dequeue` is `turnstile_dequeue()`.

A cycle of owners would be the panic of a recursive or deadlocked lock (label
`panic`), where nothing more happens: `OneLoserFinishes` excludes it for clients
that lock in order.

### `Kmem`

One cache.  `cc` holds each CPU's loaded magazine, spares, rounds and magazine
size; `fmag` and `emag` are the depot with its minima and reap limits; `freelist`
and `slab_free` the slabs.  A magazine is the sequence of its slots; as in the
code it does not record how many are in use.  What happens under `cc_lock`, with
`cache_depot_lock` taken inside, is one step; `kmem_cache_alloc()` and
`kmem_cache_free()` are split where they drop it, so that the CPU's state may have
changed: before the slab layer, around the constructor, and around the allocation
of a magazine.  The thread of `kmem_taskq` reaps, purges, resizes or enables,
one CPU or magazine per step, and `Update` runs at any time.  Allocations of slabs
and magazines and constructors may fail.  `constructed` is the set of buffers
whose constructor was called last.  `MaxHeld` bounds what a client keeps.

### `Callb`

The table of callbacks, the daemons and the thread `Cpr` that suspends and
resumes.  `class` is the list of class `CB_CL_CPR_DAEMON`, `started` and `safe` the
bits of `cc_events`, `asleep` the threads on the condition variable that belongs to
their place.  A daemon is created at any time but while the threads are checked
under `pidlock`, also by the suspending thread, which syncs the file systems after
the check; it registers (`Add`, which waits while the table is closed), works, stops in its safe region (`SafeBegin`, `SafeEnd`) or exits
(`Exit`, `Delete`, `ThreadExit`).  `Cpr` locks the table, calls the callbacks
(`CallChkpt`, `ChkptWoken`, `ChkptTimeout`, `ChkptReturn`), checks every kernel
thread (`CheckPasses`, `CheckFails`), and resumes.  Its timed wait may time out even
if it has been signalled, as `cv_timedwait()` does.  Which thread is named when it
fails, and what else a suspend does, are left out.  `MaxSuspends` bounds the
number of attempts.

### MC modules and proofs

The `MC` modules add the model values and, where used, a symmetry set; `MCTurnstile`
and `MCKmem` also the functions that describe their instances.  `MutexProofs`,
`RWLockProofs`, `SemaphoreProofs`, `CondVarProofs`, `TaskqProofs`, `CallbProofs`,
`CalloutProofs` and `KmemProofs` hold the theorems about the module they are named
after.  Each module has a type invariant `TypeOK`, which is part of the inductive
invariant of the proofs.

## Runs, bounds and what they show

| Run | Instance | Shows |
|---|---|---|
| `mutex` | 2 threads, 2 CPUs, fair | one holder; no missed wakeup; no panic; every sleeper is woken |
| `rwlock` | 3 threads, 2 priorities, fair | word and bits exact, so that a lock with waiters is never free; implements `RWAbstract`; kernel priority; wakeup policy (3) and (4); and (5): no starvation once priorities are equal for good |
| `sema` | 3 threads, 2 priorities, 1 of them inherited at times, count at most 3, fair | queue exact and ordered; no lost `sema_v()`; the count is used |
| `condvar` | 2 waiters, 1 other thread, `CV_MAX_WAITERS` 2, waits of 0 or 1 tick | the count is exact unless saturated; no lost wakeup; waits return with the mutex and without the timeout; no sleeper is forgotten |
| `taskq` | 2 threads of the queue, 2 clients, 3 tasks, minalloc 1, maxalloc 2, both flags, fair | structures accounted for; no idle thread misses a task; a task overtakes fewer tasks than there are threads; waits cover earlier tasks; tasks complete, waits return |
| `taskq_maxalloc` | KM_NOSLEEP only | *violation*: maxalloc is exceeded |
| `callout_safety` | 2 users, 2 threads, delays of 0 to 2 ticks, 10 clock values, 2 chains | none passed over; due callouts have an executor, although a failed dispatch is ignored; `untimeout()` is final |
| `callout_live` | 2 users sharing 1 structure, 1 thread, fair | callouts fire, `untimeout()` returns |
| `turnstile` | 4 threads, 3 objects on 2 hash chains, with handoff of A or of B, 2 assignments of priorities, fair | no inversion remains; every boost is justified; turnstiles conserved; everyone finishes, unless several walkers keep losing |
| `turnstile_livelock` | the same with handoff of A, with spin locks that let nobody starve | *violation*: two walkers make each other lose for ever |
| `kmem` | 2 clients, 2 CPUs, 2 slabs with 3 buffers, magazines of 1 and 2 rounds | buffers conserved; magazines fit; a destroyed cache leaves nothing |
| `callb` | 3 daemons, 2 suspends, fair | no work while suspended; callbacks of registered daemons only; no lost signal; nobody stays stopped |

Why these bounds:

- *Mutex*: two threads and two CPUs are the smallest instance in which a thread
  blocks while the owner is between its load and its store, or preempted there.
  With a third thread the temporal formula takes too long to check; the three
  invariants are proved for any number of threads and CPUs.
- *RWLock*: three threads give a holder and a waiter of each kind, or two waiters of
  one; two priorities make every comparison of the policy come out both ways.  With
  four threads temporal formulas take too long; the safety properties and the
  refinement are proved for any number.
- *Semaphore*: with three threads a `sema_v()` finds two sleepers in either order
  of priority and arrival, one of which a signal takes away; a count of 3 lets
  several `sema_v()` precede any wakeup.  The higher priority is also the one
  inherited: so a thread rises to it, falls from it, and changes its own priority
  while it shows the inherited one, with equals before and behind it.  The three
  safety properties are proved in general.
- *CondVar*: two waiters reach the limit of the count, after which it stays
  there while they leave; the third thread signals while both sleep.  One tick
  suffices for time to pass before, between and after any two calls.
- *Taskq*: three tasks with two threads let one thread sleep, or be signalled,
  while the other runs a task that dispatches; maxalloc 2 and one task more
  exercise both branches of `task_alloc()` and `task_free()`.  Dispatching ends when
  `MaxTask` is reached, so `WaitsReturn` says that waits return if clients and
  tasks do not dispatch for ever, which is all the code can promise:
  `taskq_wait()` waits for a quiescent queue.
- *Callout*: two users and two threads suffice for each of the races in the
  hazards: both threads on one tick, with the first user's callout done and
  made again while the second runs.  With delays up to 2 a chain holds callouts
  of different run times; ten clock values make it wrap many times.  In the
  liveness run the users share one structure, so that it is reused by the other
  while an `untimeout()` waits for it.  It has half of the state for a reason of
  cost: temporal formulas take most of the time.
- *Turnstile*: the objects are locked in the order C, B, A, and A and C share the
  lower of two hash chains.  So a blocking chain of four threads alternates
  between the chain locks, and walks that start at different places meet with
  each holding what the other wants.  One assignment of priorities makes every
  walk go all the way, the other makes some stop early.  For the
  livelock the blocking chain leads from the lower hash chain to the upper one and
  back, with two walkers on it; which object is handed off plays no part.
- *Kmem*: three buffers and magazines of one round fill a CPU's two magazines and
  overflow into the depot; two sizes allow one resize, which a client that is
  allocating a magazine misses; a second slab appears while a first is created.
- *Callb*: with three daemons the list is cut before, at and behind the callback
  that is being called, and grows between two suspends; a second suspend finds
  what a failed first one left.

Symmetry of threads (and of users, clients, CPUs) is used in safety runs only.  Deadlock
is checked in all runs but `condvar`: there, all threads may wait in `cv_wait()`
for a condition that nobody is left to set.

Every property has a mutant of the code that violates it under the same
configuration (`mutants` in `PROJECT.json`).

## Fairness

- *Mutex*: a runnable thread is dispatched again and again (strong fairness of
  `Resume`), code that cannot be preempted proceeds (weak fairness), and a
  thread dispatched infinitely often executes at least the few instructions of
  its critical section and of the restartable region (strong fairness: a time
  slice is longer than that).  `ChainLockFairness`: the spin lock of a hash
  chain is held for a bounded number of instructions, so that a thread spinning
  for it in `mutex_vector_exit()` gets it in the end.  No fairness is given to
  clients that want the mutex: the code does not promise that they get it, and
  what is checked is that sleepers are woken.
- *RWLock*: threads in the lock code proceed, spinners for the chain lock get
  it, holders exit some time.
- *Semaphore*: a runnable thread runs.  Nobody is obliged to call `sema_v()`.
- *Taskq*: threads run, tasks return, memory is found or the allocation fails,
  suspensions are lifted.  Strong fairness of `TaskBegin`, which suspensions
  disable over and over, is what `NoStarvation` of the rwlock gives.  A task that
  runs returns, though it may dispatch before (strong fairness of `TaskEnd`).
- *Turnstile*: each thread proceeds (weak fairness of its steps).  The code runs
  with dispatcher locks held and interrupts blocked.  For the livelock more is
  granted (`SpinFairSpec`): a thread that spins for a lock gets it if it is free
  again and again (strong fairness), so that nobody's bad luck with a spin lock is to
  blame; while nothing obliges a thread to give up an object.
- *Callb*: the suspending thread proceeds and its timed wait ends; daemons that
  have been woken, or are in the midst of registering or exiting, proceed.
  Nothing obliges a daemon to end its work, to reach its safe region or to exit.
- *Callout*: the clock ticks, its threads run and handlers return; woken threads
  run; a checkpoint is followed by a resume.  Checkpoints do not begin while
  callouts are late already: a system stopped at each tick runs none.

## Proofs

The theorems hold for arbitrary sets of threads, processors, clients and daemons,
and any priorities, counts and limits, under the named assumptions of the modules:
markers like `NoThread` are no threads; where threads are counted or queued their set
is finite; priorities, counts, delays and limits are natural numbers.  Priorities are
positive (`RWLockAssumption`), since `sleepq_insert()` and `rw_readers_to_wake()` use
-1 and lower bounds that no thread has.  The prover needs no bound on the state: `MaxTask`,
`MaxSuspends` and the like are arbitrary.

In each proof there is one inductive invariant `IInv`, the conjunction of the properties
and of named parts that make them inductive, checked with TLC before it was proved;
one lemma per action, or per group of actions that change the same things, and lemmas
about the sequences and cardinalities involved.

**Mutex** (`MutexProofs`): `TypeCorrect`, `MutualExclusionHolds`,
`NoMissedWakeupHolds`, `NeverPanicsHolds`, all from `Inductive`, the invariance
of `IInv`.  `NoMissedWakeup` alone is not inductive: a thread about to block may
be doing so on a mutex about to be cleared.  The strengthening follows the
argument of the Big Theory Statement in `mutex.c`:

- `RunInv`: a thread between the load and the store of `mutex_exit()` is on a
  CPU, since preemption would have sent it back to the load;
- `ScanInv`: a blocker that has set the bit and is searching for such an owner
  still has that owner's CPU ahead of it — the owner cannot have left its CPU
  without restarting, nor can it have arrived at the store afterwards, because
  the load would have seen the bit;
- `CheckInv`, `BlockInv`: so a blocker that completes the search and finds owner
  and bit unchanged knows that the owner is not about to clear the word;
- `ClearInv`: hence an owner about to clear the word overlooks no sleeper.

`OwnerInv`, `BitInv`, `ChainInv`, `SleepInv` and `DeadInv` say who is where while
the word has an owner, the chain lock is held, a thread sleeps, the mutex is
dead.  There is a lemma for each group of steps; those that change the owner
have one each.

**Semaphore** (`SemaphoreProofs`): `QueueIsSleepersHolds` and `NoLostVHolds`
from the invariant `TypeOK /\ QueueIsSleepers /\ NoLostV`.  It rests on lemmas
about inserting into and removing from a sequence without duplicates, and on the
cardinality of the set of woken threads: each step that adds to the count while
somebody sleeps also adds a woken thread, and each woken thread that leaves
either takes from the count or wakes another.  The action property `PriorityThenFifoHolds`
needs one more invariant, that the queue is sorted by `DispPrio`: then the place that
the walk of `sema_queue()` stops at is behind everybody of the same or a higher priority,
be it called to sleep or to queue a sleeper again.

**RWLock** (`RWLockProofs`): `WordHolds`, `BitsHold`, `KpriHolds`, the action property
`PolicyHolds` and the refinement `RefinementHolds`.  What the properties need besides each
other:

- `QueueFits`: the queues hold the sleepers by what they request, each once and in the
  order of priorities (lemmas `InsertAtElements`, `RemoveAtElements` and what follows
  from them for a sorted queue);
- `ChainFits`, `WakeFits`: the chain lock is held exactly at the labels where the code
  relies on it, and wakeups are under way only then; so nobody else touches the queues
  between the handoff store and the last wakeup;
- `FinalFits`: between the decision of the final exit and the lock of the chain nothing
  can make it wrong: the waiters are still there and no reader gets in, because the
  bit `rw_want` is still set;
- `ReadWaitFits`, `DowngradeFits`, `DeadFits`: readers wait for readers only behind a
  writer, except within a downgrade; a destroyed lock has no users.

The effect of each action on who holds and who waits is a lemma of its own (`Effect`),
used by the invariant as well as by the refinement, in which every step of the lock is
a step of `RWAbstract` or leaves holders and waiters as they are.  The attempt to prove
it showed `RWAbstract` to be weaker than intended: for lack of a parenthesis, it allowed
a release to pass the lock on to nobody although threads waited.  It no longer does, and
both the run and the theorem hold for the stronger specification.

**CondVar** (`CondVarProofs`): `CountHolds`, `WakeupsHold`, `ReturnsHold`,
`SleepersHold`.  The invariant says, for every place in the wait functions, which of the
mutex, the queue and the callout the thread has there, and that the count is at least
the number of sleepers and wrong only when it is saturated.

**Taskq** (`TaskqProofs`): `AccountingHolds`, `WakeupsHold`, `OrderHolds` and the action
property `WaitHolds`.  `CountsFit` makes `tq_active` and `tq_nthreads` the cardinalities
of the threads at certain places, so that the condition of `taskq_wait()` tells where
all threads are.  `QueueFits` and `TasksFit` say that the queue holds the tasks numbered
last, in order, and that each of the others is done or with a thread that has not
finished it; from this follow `WaitCoversEarlierTasks`, and `RunsInOrder` because an
unfinished earlier task is with one of the other threads.  `ClientsFit`, `WorkersFit` and
`StopFits` are the life of the queue: whoever is in `taskq_destroy()` is alone, and after
its `taskq_wait()` nobody can dispatch any more, so that every thread that still leaves
does so from its sleep and the queue stays empty.

**Callb** (`CallbProofs`): `SuspendHolds`, `CalledHolds`, `SafeHolds`.  The list of the
class holds each registered daemon once, and a daemon between `Add` and `Delete` is in
it; the callback being called is in use, which keeps `callb_delete()` from unlinking it.
For `NoWorkWhileSuspended`: those in the list when the table is closed are told to stop
one after the other (`EarlierStarted`, `AllStarted`), those that have passed the check
are not at work (`CheckedStays`), and nobody is added as long as `Cpr` is at it
(`BusyFits`), which is all that stops a daemon created after the check.

**Callout** (`CalloutProofs`): `UntimeoutIsFinalHolds`, `NoneIsPassedOverHolds`,
`DueHasExecutorHolds`.  Times are compared by differences that wrap, so the invariant
measures them by how far they are behind `lbolt`: all the times that meet are within a
window (`MaxDelta` ahead, `MaxLag` and two ticks behind) which `CalloutAssumption` makes at
most half the range of `clock_t`; there a difference of two times is the difference of
their distances.  The parts:

- `TimesFit`, `PendingFits`: the current time of the table is not ahead of the clock, its
  run time at most one tick ahead of the current time, and what nobody executes is due at
  the run time or later;
- `RunningFits`, `WalkFits`: a thread in a handler has its callout to itself, still in the
  table, and whatever precedes it on its chain and is due on the same tick is being
  executed too.  This is the comment of `callout_execute()` that "it's OK to pick up
  where we left off", and needs that a new callout is due after the current time
  (`timeout_common()` replaces a delay below 1 by 1);
- `IdsFit`, `ArgsFit`, `WaitFits`: a user has one id and one callout, and the structure that
  `untimeout()` waits for, reused or not, is the only place its callout can be.

`DueHasExecutor` survives a failed `taskq_dispatch()` by counting: each thread holds one
task structure at most, there are twice as many structures as threads, so that some task
is queued.  `CalloutAssumption` also asks for as many ids as users, so that `timeout()`
finds one that nobody has; the model issues no id in use, which `sys/callo.h` assumes.

**Kmem** (`KmemProofs`): `BuffersConservedHolds`, `MagazinesFitHolds`,
`DestroyLeavesNothingHolds`, for any clients, CPUs, slabs, buffers per slab and magazine
sizes.  The parts of the invariant:

- `CpusFit`: the two magazines of a CPU hold exactly the rounds that its counters say and
  fit the current size; a CPU without magazines has none loaded;
- `ClientsFit`, `TaskFits`: who has a buffer in hand, what a client remembers while it
  allocates a magazine without `cc_lock`, and at which stage which maintenance task is;
- `PurgeFits`: a CPU that a resize or a destroy has purged stays without magazines until
  the task ends, and the reap limits it set cover the whole depot, even if a working set
  update comes between;
- `LayersFit`: the freelist is exactly the slabs with a free buffer, each once, and every
  slab has a buffer in use;
- `CountFits`: every magazine taken from its cache is in the depot or on a CPU;
- `Conserved`: each buffer of each slab is in exactly one place, which is a slab, a CPU's
  magazine, a full magazine of the depot, with a client (kept or in hand) or in a magazine
  being destroyed.  Magazines of the depot are numbered from the tail, so that putting one
  at the head, or taking it, renames no other place;
- `ConstructedFit`: a buffer is constructed exactly when it is outside its slab, unless it
  is on its way to the constructor.

Steps are classed by the buffers they move: none (`SamePlaces`), some from one place to
another (`Relocated`), or a slab as a whole (`SlabsChange`).  Two counting lemmas carry
the rest: `AllInSlab`, for the slab that is destroyed when its last buffer comes back, and
`InUse`, by which a destroyed cache whose buffers are all back has no slab left.
`KmemAssumption` asks that there are finitely many CPUs, that every slab has a buffer and
every magazine type a round, and that the values for "no buffer" and "no magazine" are
neither.

Only model-checked: liveness, which is out of the prover's reach, and everything about
`Turnstile`, for which no proof was attempted: for `NoInversion` and `BoostIsJustified`
the inductive invariant would have to say, of walks under way along chains of owners of any
length, which priorities are still to be willed.  `NoSleepKeepsMaxalloc` of `Taskq` and `WalksEnd` of
`Turnstile` do not hold (see below).

## Where code and comments disagree

*Advisory maxalloc.*  `os/taskq.c:31-33` says the limit "is only advisory for
KM_SLEEP allocations".  `task_alloc()` tests it after dropping `tq_lock` and
counts only after taking it again, so it is advisory for concurrent KM_NOSLEEP
callers as well (run `taskq_maxalloc`).

*Livelock of walks.*  The comment of `turnstile_interlock()` (`os/turnstile.c:292-300`)
says that an order of the hash chain locks defines a winner, to prevent livelock, and
that the loser spins "until the winner is done" by grabbing the winner's lock.  But it
does grab it (line 339), and until line 340 another walker that wants it out of order
fails in `lock_try()` and loses in turn.  In run `turnstile_livelock` T4, asleep on C,
walks over T3, asleep on B, to T2, asleep on A, and T3 walks from B to T2.  A and C share
the lower chain lock.  T3 loses to T4, takes the lower lock once T4 has gone on to the
upper one, and so makes T4 lose at the next link; T4 comes back with the lower lock while
T3 is at the upper, and so on, for as long as T1 keeps A.  It takes a repeated
coincidence of a few instructions, so that it can last but is not likely to; with at most
one walker that loses again and again everyone finishes (run `turnstile`).

Also noted, without a run of their own:

- `os/turnstile.c:38-39` requires of clients: "Once the lock is marked as having
  waiters, the owner may be changed \*only\* while holding the turnstile hash chain
  lock."  `mutex_exit()` clears the word with a plain store; a blocker can set the
  bit between its load and that store and then give up because it sees the owner
  running.  It is harmless: `NoMissedWakeup` is proved for the same model, and
  nobody is asleep when it happens.
- Rule (1) of `os/rwlock.c:129-130` says that the word is only modified by atomic
  operations, while `rw_exit_wakeup()` uses plain stores at lines 398 and 420.
  `WordMatchesHolders` and `BitsMatchWaiters` show that no update is lost, because
  only the final holder gets there, and it does under the chain lock.
- The comment on `cv_timedwait_sig()` (`os/condvar.c:258-263`) says that it returns 1
  when awakened; it returns the time left, as `untimeout()` reports it (line 343).
- `callb_is_stopped()` accepts a daemon that is marked safe and asleep.  A daemon
  in `CALLB_CPR_EXIT` is marked safe, and if it is blocked on `ct_lock` in
  `callb_delete()`, which `callb_is_stopped()` holds (`os/callb.c:327-331`, `356-369`),
  it passes, and runs on through `thread_exit()` while the system is suspended.
  `NoWorkWhileSuspended` admits a daemon that is leaving for this reason.
- If `callb_execute_class()` had to wait for another executor and finds the entry
  freed meanwhile, its `continue` (`os/callb.c:230-231`) follows `c_next`, by then
  the link of the freelist.  This does not happen, because callers execute a class
  one at a time; for a single executor, `callb_delete()` waits for
  `CALLB_EXECUTING`, so that the entry is still linked when it is left
  (`CalledIsRegistered`).
- `cv_timedwait()` returns -1 also if it was signalled but the time ran out before it
  got to `untimeout()` (`os/condvar.c:196-205`).  `callb_generic_cpr()` then fails
  without looking at `CALLB_CPR_SAFE` again (`os/callb.c:277-289`), so that a suspend
  can be given up for a daemon that did stop.  `SafeIsNoticed` says only that the
  signal is not lost.
- After the check of all threads `cpr_suspend()` calls `vfs_sync()` and `sync()`
  (`uts/common/cpr/cpr_main.c:208`, `246`), in which NFS may create an async daemon
  (`uts/common/fs/nfs/nfs_client.c:1221`).  `callb_lock_table()` holds it in
  `callb_add()` until the resume: `NoWorkWhileSuspended`.  What a daemon does before it
  registers is not covered.
- A `CB_CODE_CPR_CHKPT` that times out leaves `CALLB_CPR_START` set; the resume that
  follows clears it (`NobodyStaysStopped`).
- `cache_fmag_min` of the allocator can become -1 when a reap races with an
  allocation from the depot; a reap with such a limit takes nothing.
- `kmem_cpu_setup()` dispatches the task that enables magazines again with
  KM_NOSLEEP; if that fails, caches stay without magazines, slower but correct.

## What is not modelled

- Spin mutexes, `lockstat` hooks, lock statistics and the shortcuts taken after
  a panic (`panicstr`).
- Back-off delays: they change timing only.
- User-level priority inheritance (`SOBJ_USER_PI`), which can be interrupted, changes
  of base priorities during a walk, and handoff to several readers in `Turnstile`.
- In the allocator: debugging (redzones, audit, logs), the
  hash of buffer addresses, colouring, vmem arenas and the selection of a
  cache by size.  Panics on corrupted buffers cannot arise in the model.
- Callback classes other than `CB_CL_CPR_DAEMON`, and the stopping of user threads.
- Relaxed memory orders: the models assume that the membars of the code do
  what its comments say.
- Checkpoint/resume of task queue threads (`Callb` models any daemon; of callouts it
  is modelled).
- Real-time callout tables and the encoding of callout ids.
- Virtual memory, file systems, STREAMS, networking, drivers, system calls,
  commands and libraries: clients of these services.

## Plan

1. *Done*: `Mutex` with proofs, `RWLock` with its abstract specification,
   `Semaphore` with proofs, `Taskq`, `Callout`, `CondVar`, `Turnstile`, `Kmem`, `Callb`.
2. *Done*: proofs about `RWLock` and its implementation of `RWAbstract`, `CondVar`,
   `Taskq`, `Callb`, `Callout` and `Kmem`.  Next: `TurnstilesConserved` of `Turnstile`.
3. `Callout` continued: real-time tables executed by `softcall()`, the split of
   the id space.
4. The doubly linked sublists of `os/sleepq.c`, shown to implement the sequences
   that the other modules use.
5. Spin mutexes with interrupt levels.
