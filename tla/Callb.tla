-------------------------------- MODULE Callb --------------------------------
(***************************************************************************)
(* Checkpoint/resume callbacks: uts/common/os/callb.c, the CALLB_CPR_*     *)
(* macros of sys/callb.h that kernel daemons use, and the thread that      *)
(* stops and restarts them (uts/common/cpr/cpr_uthread.c, cpr_main.c).     *)
(*                                                                         *)
(* Each daemon registers a callb of class CB_CL_CPR_DAEMON whose function  *)
(* is callb_generic_cpr().  To suspend the system, one thread, here Cpr,   *)
(* closes the table, calls every callb with CB_CODE_CPR_CHKPT, which waits *)
(* for the daemon to reach a safe region, and then checks every kernel     *)
(* thread with callb_is_stopped(); later it calls them again with          *)
(* CB_CODE_CPR_RESUME and opens the table.  A daemon may do long work, may *)
(* exit (and unregister) at any time outside its safe region, and new ones *)
(* may be created.                                                         *)
(*                                                                         *)
(* What runs under ct_lock or cc_lockp is one step.  The four condition    *)
(* variables are explicit: a thread in "asleep" moves only after a wakeup. *)
(* A callb is identified with its daemon; freelist and names are left out. *)
(***************************************************************************)
EXTENDS Naturals, Sequences, SequencesExt

CONSTANTS
  Daemon,      \* kernel threads that follow the protocol
  Cpr,         \* the thread that suspends and resumes
  NoThread,
  MaxSuspends  \* bound: suspend attempts

ASSUME CallbAssumption ==
  /\ Cpr \notin Daemon /\ NoThread \notin Daemon
  /\ MaxSuspends \in Nat

VARIABLES
  class,      \* ct_first_cb[CB_CL_CPR_DAEMON]: the registered daemons
  executing,  \* those whose callb has CALLB_EXECUTING
  ct_busy,    \* additions are prevented
  started,    \* daemons with CALLB_CPR_START in cc_events
  safe,       \* daemons with CALLB_CPR_SAFE in cc_events
  asleep,     \* threads asleep on the condition variable of their pc
  pc,         \* Daemon -> where it is
  phase,      \* where Cpr is in the suspend and resume
  cp,         \* local "cp" of callb_execute_class(): the callb being called
  failed,     \* local "ret" of callb_execute_class() is not NULL
  unchecked,  \* kernel threads not yet passed to callb_is_stopped()
  nsuspends   \* attempts so far

table == <<class, executing, ct_busy>>
events == <<started, safe>>
cpr == <<phase, cp, failed, unchecked, nsuspends>>
vars == <<table, events, asleep, pc, cpr>>

\* Program points of a daemon: not created; in callb_add(); working; in its safe
\* region, asleep until there is work; in CALLB_CPR_SAFE_END; in callb_delete();
\* on its way through thread_exit().
Label == {"none", "add", "work", "safe", "stop", "delete", "exit"}

\* Phases of Cpr, in their order: the table is open; it is locked; in the functions
\* of the callbs with CB_CODE_CPR_CHKPT; at the check of the threads; suspended; in
\* the functions with CB_CODE_CPR_RESUME; about to open the table.
Phase == {"run", "locked", "chkpt", "wait", "chkpt_ret", "account", "check",
          "suspended", "resume_all", "resume", "resume_ret", "unlock"}

TypeOK ==
  /\ class \in Seq(Daemon) /\ executing \in SUBSET Daemon /\ ct_busy \in BOOLEAN
  /\ started \in SUBSET Daemon /\ safe \in SUBSET Daemon
  /\ asleep \in SUBSET (Daemon \cup {Cpr})
  /\ pc \in [Daemon -> Label] /\ phase \in Phase
  /\ cp \in Daemon \cup {NoThread} /\ failed \in BOOLEAN
  /\ unchecked \in SUBSET Daemon /\ nsuspends \in 0 .. MaxSuspends

\* callb_init()
Init ==
  /\ class = <<>> /\ executing = {} /\ ct_busy = FALSE
  /\ started = {} /\ safe = {} /\ asleep = {}
  /\ pc = [d \in Daemon |-> "none"]
  /\ phase = "run" /\ cp = NoThread /\ failed = FALSE
  /\ unchecked = {} /\ nsuspends = 0

-----------------------------------------------------------------------------
Awake(t) == t \notin asleep

Goto(d, l) == pc' = [pc EXCEPT ![d] = l]

Registered(d) == d \in ToSet(class)

\* Where the callb of a registered daemon is in the list.
Place(d) == CHOOSE i \in DOMAIN class : class[i] = d

\* pidlock is held, so no thread is created or leaves the thread list.
Checking == phase = "check"

-----------------------------------------------------------------------------
(* Daemons.                                                                 *)

\* thread_create() by a running thread, also by Cpr itself: after the check it calls
\* vfs_sync() and sync(), in which NFS may create an async daemon.
Spawn(d) ==
  /\ pc[d] = "none" /\ ~Checking
  /\ Goto(d, "add")
  /\ UNCHANGED <<table, events, asleep, cpr>>

\* CALLB_CPR_INIT, callb_add(): waits while the table is closed.
Add(d) ==
  /\ pc[d] = "add" /\ Awake(d)
  /\ IF ct_busy
     THEN asleep' = asleep \cup {d} /\ UNCHANGED <<class, pc>>
     ELSE class' = <<d>> \o class /\ Goto(d, "work") /\ UNCHANGED asleep
  /\ UNCHANGED <<executing, ct_busy, events, cpr>>

\* Mutant: nobody signals cc_callb_cv.
TellNobody(d) == asleep' = asleep

\* "if (cc_events & CALLB_CPR_START) cv_signal(&cc_callb_cv)"
TellCpr(d) == asleep' = IF d \in started /\ cp = d THEN asleep \ {Cpr} ELSE asleep

\* CALLB_CPR_SAFE_BEGIN
SafeBegin(d) ==
  /\ pc[d] = "work"
  /\ safe' = safe \cup {d}
  /\ TellCpr(d)
  /\ Goto(d, "safe")
  /\ UNCHANGED <<table, started, cpr>>

\* Work has arrived: on to CALLB_CPR_SAFE_END.
WorkArrives(d) ==
  /\ pc[d] = "safe"
  /\ Goto(d, "stop")
  /\ UNCHANGED <<table, events, asleep, cpr>>

\* Mutant: CALLB_CPR_SAFE_END does not look at cc_events.
NeverStop(d) == FALSE

\* CALLB_CPR_SAFE_END: wait on cc_stop_cv while a checkpoint is on.
MustStop(d) == d \in started

SafeEnd(d) ==
  /\ pc[d] = "stop" /\ Awake(d)
  /\ IF MustStop(d)
     THEN asleep' = asleep \cup {d} /\ UNCHANGED <<safe, pc>>
     ELSE safe' = safe \ {d} /\ Goto(d, "work") /\ UNCHANGED asleep
  /\ UNCHANGED <<table, started, cpr>>

\* CALLB_CPR_EXIT, up to callb_delete().
Exit(d) ==
  /\ pc[d] = "work"
  /\ safe' = safe \cup {d}
  /\ TellCpr(d)
  /\ Goto(d, "delete")
  /\ UNCHANGED <<table, started, cpr>>

\* Mutant: callb_delete() does not look at CALLB_EXECUTING.
NeverInUse(d) == FALSE

\* callb_delete(): not in the middle of executing.
InUse(d) == d \in executing

Delete(d) ==
  /\ pc[d] = "delete" /\ Awake(d)
  /\ IF InUse(d)
     THEN asleep' = asleep \cup {d} /\ UNCHANGED <<class, pc>>
     ELSE class' = RemoveAt(class, Place(d)) /\ Goto(d, "exit") /\ UNCHANGED asleep
  /\ UNCHANGED <<executing, ct_busy, events, cpr>>

\* thread_exit(): with it goes the callb_cpr_t on the daemon's stack.
ThreadExit(d) ==
  /\ pc[d] = "exit" /\ ~Checking
  /\ Goto(d, "none")
  /\ started' = started \ {d} /\ safe' = safe \ {d}
  /\ UNCHANGED <<table, asleep, cpr>>

-----------------------------------------------------------------------------
(* Suspend and resume.                                                      *)

\* callb_execute_class(): under ct_lock, go to the callb d (NoThread past the last
\* one), set its CALLB_EXECUTING and call its function; or leave the loop.
GoTo(d, call, leave) ==
  /\ cp' = d
  /\ executing' = IF d = NoThread THEN {} ELSE {d}
  /\ phase' = IF d = NoThread THEN leave ELSE call

FirstCallb == IF class = <<>> THEN NoThread ELSE Head(class)

\* cp->c_next
NextCallb == IF Place(cp) = Len(class) THEN NoThread ELSE class[Place(cp) + 1]

\* cpr_stop_kernel_threads(): callb_lock_table().
LockTable ==
  /\ phase = "run" /\ nsuspends < MaxSuspends
  /\ ct_busy' = TRUE
  /\ phase' = "locked"
  /\ nsuspends' = nsuspends + 1
  /\ UNCHANGED <<class, executing, events, asleep, pc, cp, failed, unchecked>>

BeginChkpt ==
  /\ phase = "locked"
  /\ GoTo(FirstCallb, "chkpt", "account")
  /\ UNCHANGED <<class, ct_busy, events, asleep, pc, failed, unchecked, nsuspends>>

\* callb_generic_cpr(CB_CODE_CPR_CHKPT): set START; wait until SAFE.
CallChkpt ==
  /\ phase = "chkpt"
  /\ started' = started \cup {cp}
  /\ IF cp \in safe
     THEN phase' = "chkpt_ret" /\ UNCHANGED asleep
     ELSE phase' = "wait" /\ asleep' = asleep \cup {Cpr}
  /\ UNCHANGED <<table, safe, pc, cp, failed, unchecked, nsuspends>>

\* cv_timedwait() returns: signalled, and the condition is looked at again.
ChkptWoken ==
  /\ phase = "wait" /\ Awake(Cpr)
  /\ IF cp \in safe
     THEN phase' = "chkpt_ret" /\ UNCHANGED asleep
     ELSE asleep' = asleep \cup {Cpr} /\ UNCHANGED phase
  /\ UNCHANGED <<table, events, pc, cp, failed, unchecked, nsuspends>>

\* cv_timedwait() returns -1: after callb_timeout_sec without a signal, but also when
\* the time ran out between the signal and untimeout().  SAFE is not looked at again.
ChkptTimeout ==
  /\ phase = "wait"
  /\ asleep' = asleep \ {Cpr}
  /\ failed' = TRUE
  /\ phase' = "chkpt_ret"
  /\ UNCHANGED <<table, events, pc, cp, unchecked, nsuspends>>

\* cv_broadcast(&cp->c_done_cv) wakes a daemon that waits to delete its callb.
DeleteWoken == {d \in asleep : d = cp /\ pc[d] = "delete"}

\* The function has returned: EXECUTING off, wake c_done_cv, and without dropping
\* ct_lock on to the next callb, unless this one has failed: then EBUSY, and
\* cpr_main() goes to cpr_resume().
ChkptReturn ==
  /\ phase = "chkpt_ret"
  /\ asleep' = asleep \ DeleteWoken
  /\ IF failed THEN GoTo(NoThread, "chkpt", "resume_all") ELSE GoTo(NextCallb, "chkpt", "account")
  /\ failed' = FALSE
  /\ UNCHANGED <<class, ct_busy, events, pc, unchecked, nsuspends>>

\* mutex_enter(&pidlock): the threads to account for.
BeginCheck ==
  /\ phase = "account"
  /\ unchecked' = {d \in Daemon : pc[d] # "none"}
  /\ phase' = "check"
  /\ UNCHANGED <<table, events, asleep, pc, cp, failed, nsuspends>>

\* callb_is_stopped(): registered and marked safe, and seen sleeping within
\* CALLB_MAX_RETRY delays.  ct_lock is held meanwhile, so that a daemon about to
\* run callb_delete() is seen sleeping as well, on that lock.
MarkedStopped(d) == Registered(d) /\ d \in safe

\* It may be on a processor each time, also in its safe region: on the way into its
\* wait for work, or out of it.
StillRunning(d) == pc[d] \in {"safe", "stop", "delete"} /\ Awake(d)

CheckPasses(d) ==
  /\ Checking /\ d \in unchecked
  /\ MarkedStopped(d)
  /\ unchecked' = unchecked \ {d}
  /\ UNCHANGED <<table, events, asleep, pc, phase, cp, failed, nsuspends>>

\* EBUSY, and the suspend is undone.
CheckFails(d) ==
  /\ Checking /\ d \in unchecked
  /\ ~MarkedStopped(d) \/ StillRunning(d)
  /\ unchecked' = {}
  /\ phase' = "resume_all"
  /\ UNCHANGED <<table, events, asleep, pc, cp, failed, nsuspends>>

\* cpr_stop_kernel_threads() returns 0.
Suspended ==
  /\ Checking /\ unchecked = {}
  /\ phase' = "suspended"
  /\ UNCHANGED <<table, events, asleep, pc, cp, failed, unchecked, nsuspends>>

\* The system has been brought back, or did not go down: cpr_resume().
Resume ==
  /\ phase = "suspended"
  /\ phase' = "resume_all"
  /\ UNCHANGED <<table, events, asleep, pc, cp, failed, unchecked, nsuspends>>

BeginResume ==
  /\ phase = "resume_all"
  /\ GoTo(FirstCallb, "resume", "unlock")
  /\ UNCHANGED <<class, ct_busy, events, asleep, pc, failed, unchecked, nsuspends>>

\* Mutant: cc_stop_cv of the first callb of the class is not signalled.
SignalledButFirst == {d \in asleep : d = cp /\ pc[d] = "stop" /\ d # FirstCallb}

\* callb_generic_cpr(CB_CODE_CPR_RESUME): START off, cv_signal(&cc_stop_cv).
Signalled == {d \in asleep : d = cp /\ pc[d] = "stop"}

CallResume ==
  /\ phase = "resume"
  /\ started' = started \ {cp}
  /\ asleep' = asleep \ Signalled
  /\ phase' = "resume_ret"
  /\ UNCHANGED <<table, safe, pc, cp, failed, unchecked, nsuspends>>

ResumeReturn ==
  /\ phase = "resume_ret"
  /\ asleep' = asleep \ DeleteWoken
  /\ GoTo(NextCallb, "resume", "unlock")
  /\ UNCHANGED <<class, ct_busy, events, pc, failed, unchecked, nsuspends>>

\* callb_unlock_table(): open, cv_broadcast(&ct_busy_cv).
UnlockTable ==
  /\ phase = "unlock"
  /\ ct_busy' = FALSE
  /\ asleep' = {t \in asleep : t \in Daemon => pc[t] # "add"}
  /\ phase' = "run"
  /\ UNCHANGED <<class, executing, events, pc, cp, failed, unchecked, nsuspends>>

-----------------------------------------------------------------------------
\* What a daemon does as soon as it has the CPU; how long it works, and whether
\* work arrives, is up to it.
Forced(d) == Add(d) \/ SafeEnd(d) \/ Delete(d) \/ ThreadExit(d)

DaemonStep(d) == Spawn(d) \/ SafeBegin(d) \/ WorkArrives(d) \/ Exit(d) \/ Forced(d)

\* One suspend attempt, and the resume that ends it.
Chkpt == BeginChkpt \/ CallChkpt \/ ChkptWoken \/ ChkptTimeout \/ ChkptReturn
Account == BeginCheck \/ (\E d \in Daemon : CheckPasses(d) \/ CheckFails(d)) \/ Suspended
CprStep ==
  Chkpt \/ Account \/ Resume \/ BeginResume \/ CallResume \/ ResumeReturn \/ UnlockTable

Next == (\E d \in Daemon : DaemonStep(d)) \/ LockTable \/ CprStep

Spec == Init /\ [][Next]_vars

\* A runnable thread gets to run, and a timed wait ends.
FairSpec ==
  /\ Spec
  /\ WF_vars(CprStep)
  /\ \A d \in Daemon : WF_vars(Forced(d))

-----------------------------------------------------------------------------
(* Properties.                                                              *)

\* Once cpr_stop_kernel_threads() has returned 0 no daemon is at work, however its
\* last steps interleaved with the callbacks and the check.  One created after the
\* check gets no further than callb_add(), because the table stays closed; one that
\* is leaving may still be in callb_delete() or thread_exit().
NoWorkWhileSuspended ==
  phase = "suspended" => \A d \in Daemon : pc[d] # "work"

\* While callb_execute_class() runs the function of a callb without ct_lock, the
\* callb stays in the table and the callb_cpr_t on the daemon's stack exists:
\* callb_delete() waits for it.
CalledIsRegistered ==
  phase \in {"chkpt", "wait", "chkpt_ret", "resume", "resume_ret"} =>
    Registered(cp) /\ pc[cp] \notin {"none", "exit"}

\* callb_generic_cpr() does not sleep on after its daemon became safe: neither
\* entering the safe region nor exiting loses the signal.  (If the time runs out
\* before callb_generic_cpr() gets to run, it gives up all the same.)
SafeIsNoticed ==
  phase = "wait" /\ cp \in safe => Awake(Cpr)

\* A daemon stopped in CALLB_CPR_SAFE_END, waiting for the table or waiting to
\* delete its callb gets on with it, also when the suspend failed half way.
NobodyStaysStopped ==
  \A d \in Daemon : pc[d] \in {"add", "stop", "delete"} ~> pc[d] \in {"work", "exit"}
=============================================================================
