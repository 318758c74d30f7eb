-------------------------- MODULE SemaphoreProofs --------------------------
(***************************************************************************)
(* Proofs about module Semaphore, for any number of threads and            *)
(* priorities and any bound on the count: the sleep queue is exactly the   *)
(* set of sleepers, in order of priority and of queueing, and no sema_v()  *)
(* is lost, in particular not to a thread that is interrupted by a signal  *)
(* after sema_v() has chosen it.                                           *)
(***************************************************************************)
EXTENDS Semaphore, FiniteSetTheorems, SequenceTheorems, TLAPS

\* No thread is on the queue twice.
Distinct(q) == \A i, j \in 1 .. Len(q) : i # j => q[i] # q[j]

\* Putting a thread on a queue that does not hold it.
LEMMA InsertAtProperties ==
  ASSUME NEW q \in Seq(Thread), NEW k \in 1 .. Len(q) + 1, NEW t \in Thread,
         Distinct(q), ~Queued(q, t)
  PROVE  /\ InsertAt(q, k, t) \in Seq(Thread)
         /\ Distinct(InsertAt(q, k, t))
         /\ \A u \in Thread : Queued(InsertAt(q, k, t), u) <=> Queued(q, u) \/ u = t
         /\ InsertAt(q, k, t) # <<>>
<1> DEFINE r == InsertAt(q, k, t)
<1>1. /\ Len(q) \in Nat /\ Len(q) + 1 \in Nat
      /\ \A i \in 1 .. Len(q) : q[i] \in Thread
  OBVIOUS
<1>2. /\ r \in [1 .. Len(q) + 1 -> Thread]
      /\ \A i \in 1 .. Len(q) + 1 :
           r[i] = IF i < k THEN q[i] ELSE IF i = k THEN t ELSE q[i - 1]
  BY <1>1 DEF InsertAt
<1>3. r \in Seq(Thread)
  BY <1>1, <1>2, SeqDef
<1>4. Len(r) = Len(q) + 1
  BY <1>1, <1>2, <1>3, LenProperties
<1> HIDE DEF r
<1>5. Distinct(r)
  <2> SUFFICES ASSUME NEW i \in 1 .. Len(q) + 1, NEW j \in 1 .. Len(q) + 1, i < j
               PROVE  r[i] # r[j]
    BY <1>1, <1>4 DEF Distinct
  <2>1. \A n \in 1 .. Len(q) : q[n] # t
    BY DEF Queued
  <2>2. CASE j < k
    BY <1>1, <1>2, <2>2 DEF Distinct
  <2>3. CASE i < k /\ j = k
    BY <1>1, <1>2, <2>1, <2>3
  <2>4. CASE i < k /\ k < j
    BY <1>1, <1>2, <2>4, SMTT(30) DEF Distinct
  <2>5. CASE i = k
    BY <1>1, <1>2, <2>1, <2>5
  <2>6. CASE k < i
    BY <1>1, <1>2, <2>6, SMTT(30) DEF Distinct
  <2> QED
    BY <1>1, <2>2, <2>3, <2>4, <2>5, <2>6
<1>6. ASSUME NEW u \in Thread
      PROVE  Queued(r, u) <=> Queued(q, u) \/ u = t
  <2>1. ASSUME Queued(q, u) PROVE Queued(r, u)
    <3> PICK i \in 1 .. Len(q) : q[i] = u
      BY <2>1 DEF Queued
    <3>1. r[IF i < k THEN i ELSE i + 1] = u
      BY <1>1, <1>2
    <3> QED
      BY <1>1, <1>4, <3>1 DEF Queued
  <2>2. Queued(r, t)
    BY <1>1, <1>2, <1>4 DEF Queued
  <2>3. ASSUME Queued(r, u), u # t PROVE Queued(q, u)
    <3> PICK i \in 1 .. Len(r) : r[i] = u
      BY <2>3 DEF Queued
    <3>1. q[IF i < k THEN i ELSE i - 1] = u
      BY <1>1, <1>2, <1>4, <2>3
    <3> QED
      BY <1>1, <1>2, <1>4, <2>3, <3>1 DEF Queued
  <2> QED
    BY <2>1, <2>2, <2>3
<1> QED
  BY <1>3, <1>4, <1>1, <1>5, <1>6, EmptySeq DEF r

\* Taking a thread off a queue.
LEMMA RemoveAtProperties ==
  ASSUME NEW q \in Seq(Thread), NEW k \in 1 .. Len(q), Distinct(q)
  PROVE  /\ RemoveAt(q, k) \in Seq(Thread)
         /\ Distinct(RemoveAt(q, k))
         /\ \A u \in Thread : Queued(RemoveAt(q, k), u) <=> Queued(q, u) /\ u # q[k]
<1> DEFINE r == RemoveAt(q, k)
<1>1. /\ Len(q) \in Nat /\ Len(q) - 1 \in Nat
      /\ \A i \in 1 .. Len(q) : q[i] \in Thread
  OBVIOUS
<1>2. /\ r \in [1 .. Len(q) - 1 -> Thread]
      /\ \A i \in 1 .. Len(q) - 1 : r[i] = IF i < k THEN q[i] ELSE q[i + 1]
  BY <1>1 DEF RemoveAt
<1>3. r \in Seq(Thread)
  BY <1>1, <1>2, SeqDef
<1>4. Len(r) = Len(q) - 1
  BY <1>1, <1>2, <1>3, LenProperties
<1> HIDE DEF r
<1>5. Distinct(r)
  BY <1>1, <1>2, <1>4 DEF Distinct
<1>6. ASSUME NEW u \in Thread
      PROVE  Queued(r, u) <=> Queued(q, u) /\ u # q[k]
  <2>1. ASSUME Queued(r, u) PROVE Queued(q, u) /\ u # q[k]
    <3> PICK i \in 1 .. Len(r) : r[i] = u
      BY <2>1 DEF Queued
    <3>1. PICK j \in 1 .. Len(q) : j # k /\ q[j] = u
      BY <1>1, <1>2, <1>4
    <3> QED
      BY <3>1 DEF Queued, Distinct
  <2>2. ASSUME Queued(q, u), u # q[k] PROVE Queued(r, u)
    <3> PICK i \in 1 .. Len(q) : q[i] = u
      BY <2>2 DEF Queued
    <3>1. r[IF i < k THEN i ELSE i - 1] = u
      BY <1>1, <1>2, <2>2
    <3> QED
      BY <1>1, <1>4, <2>2, <3>1 DEF Queued
  <2> QED
    BY <2>1, <2>2
<1> QED
  BY <1>3, <1>5, <1>6 DEF r

\* sema_v() and sema_p_sig() take the first thread off the queue.
LEMMA TailProperties ==
  ASSUME NEW q \in Seq(Thread), q # <<>>, Distinct(q)
  PROVE  /\ Tail(q) \in Seq(Thread)
         /\ Head(q) \in Thread /\ Queued(q, Head(q))
         /\ Distinct(Tail(q))
         /\ \A u \in Thread : Queued(Tail(q), u) <=> Queued(q, u) /\ u # Head(q)
<1>1. /\ Len(q) \in Nat \ {0}
      /\ Tail(q) \in Seq(Thread)
      /\ Len(Tail(q)) = Len(q) - 1
      /\ \A i \in 1 .. Len(q) - 1 : Tail(q)[i] = q[i + 1]
      /\ Head(q) = q[1]
  OBVIOUS
<1>2. Head(q) \in Thread /\ Queued(q, Head(q))
  BY <1>1 DEF Queued
<1>3. Distinct(Tail(q))
  BY <1>1 DEF Distinct
<1>4. ASSUME NEW u \in Thread
      PROVE  Queued(Tail(q), u) <=> Queued(q, u) /\ u # Head(q)
  <2>1. ASSUME Queued(Tail(q), u) PROVE Queued(q, u) /\ u # Head(q)
    <3> PICK i \in 1 .. Len(q) - 1 : Tail(q)[i] = u
      BY <1>1, <2>1 DEF Queued
    <3> QED
      BY <1>1 DEF Queued, Distinct
  <2>2. ASSUME Queued(q, u), u # Head(q) PROVE Queued(Tail(q), u)
    <3> PICK i \in 1 .. Len(q) : q[i] = u
      BY <2>2 DEF Queued
    <3>1. i - 1 \in 1 .. Len(q) - 1 /\ Tail(q)[i - 1] = u
      BY <1>1, <2>2
    <3> QED
      BY <1>1, <3>1 DEF Queued
  <2> QED
    BY <2>1, <2>2
<1> QED
  BY <1>1, <1>2, <1>3, <1>4

-----------------------------------------------------------------------------
\* The cardinality of the set of woken threads when a thread joins or leaves.
LEMMA WokenCardinality ==
  ASSUME NEW S, S \subseteq Thread
  PROVE  /\ IsFiniteSet(S) /\ Cardinality(S) \in Nat
         /\ \A t \in Thread : /\ t \notin S => Cardinality(S \cup {t}) = Cardinality(S) + 1
                              /\ t \in S => Cardinality(S \ {t}) = Cardinality(S) - 1
<1>1. IsFiniteSet(S)
  BY SemaphoreAssumption, FS_Subset
<1> QED
  BY <1>1, FS_CardinalityType, FS_AddElement, FS_RemoveElement

\* The inductive invariant.
IInv == TypeOK /\ QueueIsSleepers /\ NoLostV

\* What sema_queue() does to a queue that does not hold the thread.
LEMMA SemaQueueProperties ==
  ASSUME NEW q \in Seq(Thread), NEW r, NEW t \in Thread, NEW p,
         Distinct(q), ~Queued(q, t), SemaQueue(q, r, t, p)
  PROVE  /\ r \in Seq(Thread) /\ Distinct(r) /\ r # <<>>
         /\ \A u \in Thread : Queued(r, u) <=> Queued(q, u) \/ u = t
<1> PICK k \in 1 .. Len(q) + 1 : r = InsertAt(q, k, t)
  BY DEF SemaQueue
<1> QED
  BY InsertAtProperties

\* sema_p() and sema_p_sig(), by a thread that is not asleep.
LEMMA TryStep ==
  ASSUME IInv, NEW t \in Thread, NEW w \in BOOLEAN, state[t] # "asleep", Try(t, w)
  PROVE  IInv'
<1> USE DEF IInv, TypeOK, pri, QueueIsSleepers
<1>1. CASE s_count > 0
  <2>1. /\ s_count' = s_count - 1 /\ s_slpq' = s_slpq
        /\ state' = [state EXCEPT ![t] = "idle"]
        /\ wakeable' = [wakeable EXCEPT ![t] = FALSE]
        /\ UNCHANGED <<sig, pri>>
    BY <1>1 DEF Try
  <2>2. TypeOK'
    BY <1>1, <2>1, SemaphoreAssumption
  <2>3. QueueIsSleepers'
    BY <2>1 DEF Queued
  <2>4. Woken' = Woken \ {t}
    BY <2>1 DEF Woken
  <2>5. Cardinality(Woken') >= Cardinality(Woken) - 1
    <3>1. Woken \subseteq Thread
      BY DEF Woken
    <3>2. /\ Cardinality(Woken) \in Nat
          /\ t \in Woken => Cardinality(Woken \ {t}) = Cardinality(Woken) - 1
      BY <3>1, WokenCardinality
    <3>3. CASE t \in Woken
      BY <2>4, <3>2, <3>3
    <3>4. CASE t \notin Woken
      <4>1. Woken' = Woken
        BY <2>4, <3>4
      <4> QED
        BY <3>2, <4>1
    <3> QED
      BY <3>3, <3>4
  <2>6. NoLostV'
    BY <1>1, <2>1, <2>5, WokenCardinality, Woken \subseteq Thread, Woken' \subseteq Thread
    DEF NoLostV, Woken
  <2> QED
    BY <2>2, <2>3, <2>6
<1>2. CASE ~(s_count > 0)
  <2>1. /\ SemaQueue(s_slpq, s_slpq', t, DispPrio)
        /\ state' = [state EXCEPT ![t] = "asleep"]
        /\ wakeable' = [wakeable EXCEPT ![t] = w]
        /\ s_count' = 0
        /\ UNCHANGED <<sig, pri>>
    BY <1>2 DEF Try, SemaBlock
  <2>2. Distinct(s_slpq) /\ ~Queued(s_slpq, t)
    BY DEF Distinct
  <2>3. /\ s_slpq' \in Seq(Thread) /\ Distinct(s_slpq')
        /\ \A u \in Thread : Queued(s_slpq', u) <=> Queued(s_slpq, u) \/ u = t
    BY <2>1, <2>2, SemaQueueProperties
  <2>4. TypeOK'
    BY <2>1, <2>3, SemaphoreAssumption
  <2>5. QueueIsSleepers'
    BY <2>1, <2>3 DEF Distinct
  <2>6. NoLostV'
    BY <2>1, WokenCardinality, Woken' \subseteq Thread DEF NoLostV, Woken
  <2> QED
    BY <2>4, <2>5, <2>6
<1> QED
  BY <1>1, <1>2

\* What waking the first sleeper does to the queue and to the woken threads;
\* st is state, but for a thread that leaves in the same step.
LEMMA WakeFirstProperties ==
  ASSUME IInv, s_slpq # <<>>,
         NEW st \in [Thread -> {"idle", "asleep", "woken"}],
         WakeFirst(st),
         \A u \in Thread : st[u] = "asleep" <=> state[u] = "asleep"
  PROVE  /\ s_slpq' \in Seq(Thread)
         /\ state' \in [Thread -> {"idle", "asleep", "woken"}]
         /\ QueueIsSleepers'
         /\ Woken' = {u \in Thread : st[u] = "woken"} \cup {Head(s_slpq)}
         /\ Head(s_slpq) \in Thread /\ state[Head(s_slpq)] = "asleep"
<1> DEFINE h == Head(s_slpq)
<1> USE DEF IInv, TypeOK, pri, QueueIsSleepers
<1>1. Distinct(s_slpq)
  BY DEF Distinct
<1>2. /\ Tail(s_slpq) \in Seq(Thread)
      /\ h \in Thread /\ Queued(s_slpq, h)
      /\ Distinct(Tail(s_slpq))
      /\ \A u \in Thread : Queued(Tail(s_slpq), u) <=> Queued(s_slpq, u) /\ u # h
  BY <1>1, TailProperties
<1> HIDE DEF h
<1>3. s_slpq' = Tail(s_slpq) /\ state' = [st EXCEPT ![h] = "woken"]
  BY DEF WakeFirst, h
<1>4. state[h] = "asleep"
  BY <1>2
<1>5. QueueIsSleepers'
  BY <1>2, <1>3 DEF Distinct
<1>6. Woken' = {u \in Thread : st[u] = "woken"} \cup {h}
  BY <1>2, <1>3 DEF Woken
<1> QED
  BY <1>2, <1>3, <1>4, <1>5, <1>6 DEF h

\* sema_v(): if it wakes a sleeper, one more thread is on its way; if there is
\* none to wake, there is nobody to whom the count could be lost.
LEMMA SemaVStep ==
  ASSUME IInv, SemaV
  PROVE  IInv'
<1> USE DEF IInv, TypeOK, pri
<1>0. s_count' = s_count + 1 /\ s_count' \in 0 .. MaxCount /\ UNCHANGED <<wakeable, sig, pri>>
  BY SemaphoreAssumption DEF SemaV
<1>1. CASE s_slpq # <<>>
  <2> DEFINE h == Head(s_slpq)
  <2>1. /\ s_slpq' \in Seq(Thread)
        /\ state' \in [Thread -> {"idle", "asleep", "woken"}]
        /\ QueueIsSleepers'
        /\ Woken' = Woken \cup {h}
        /\ h \in Thread /\ state[h] = "asleep"
    BY <1>1, WakeFirstProperties DEF SemaV, Woken
  <2>2. Woken \subseteq Thread /\ h \notin Woken
    BY <2>1 DEF Woken
  <2>3. Cardinality(Woken') = Cardinality(Woken) + 1 /\ Cardinality(Woken) \in Nat
    BY <2>1, <2>2, WokenCardinality
  <2>4. NoLostV'
    BY <1>0, <1>1, <2>3 DEF NoLostV
  <2> QED
    BY <1>0, <2>1, <2>4
<1>2. CASE s_slpq = <<>>
  <2>1. UNCHANGED <<s_slpq, state>>
    BY <1>2 DEF SemaV
  <2> QED
    BY <1>0, <1>2, <2>1 DEF NoLostV, QueueIsSleepers, Queued
<1> QED
  BY <1>1, <1>2

\* sema_p_sig() returns 1: a sleeper takes the place of the thread that leaves.
LEMMA InterruptedStep ==
  ASSUME IInv, NEW t \in Thread, Interrupted(t)
  PROVE  IInv'
<1> USE DEF IInv, TypeOK, pri
<1> DEFINE gone == [state EXCEPT ![t] = "idle"]
<1>0. /\ state[t] = "woken" /\ UNCHANGED <<s_count, pri>>
      /\ wakeable' \in [Thread -> BOOLEAN] /\ sig' \in [Thread -> BOOLEAN]
  BY DEF Interrupted
<1>1. CASE s_slpq # <<>> /\ s_count > 0
  <2> DEFINE h == Head(s_slpq)
  <2>1. /\ gone \in [Thread -> {"idle", "asleep", "woken"}]
        /\ \A u \in Thread : gone[u] = "asleep" <=> state[u] = "asleep"
        /\ {u \in Thread : gone[u] = "woken"} = Woken \ {t}
        /\ WakeFirst(gone)
    BY <1>0, <1>1 DEF Interrupted, Woken
  <2> HIDE DEF gone
  <2>2. /\ s_slpq' \in Seq(Thread)
        /\ state' \in [Thread -> {"idle", "asleep", "woken"}]
        /\ QueueIsSleepers'
        /\ Woken' = (Woken \ {t}) \cup {h}
        /\ h \in Thread /\ state[h] = "asleep"
    BY <1>1, <2>1, WakeFirstProperties
  <2>3. Woken \subseteq Thread /\ t \in Woken /\ h \notin Woken \ {t}
    BY <1>0, <2>2 DEF Woken
  <2>4. /\ Cardinality(Woken) \in Nat
        /\ Cardinality(Woken \ {t}) = Cardinality(Woken) - 1
    BY <2>3, WokenCardinality
  <2>5. Woken \ {t} \subseteq Thread
    BY <2>3
  <2>6. Cardinality(Woken') = Cardinality(Woken)
    <3>1. Cardinality((Woken \ {t}) \cup {h}) = Cardinality(Woken \ {t}) + 1
      BY <2>2, <2>3, <2>5, WokenCardinality
    <3> QED
      BY <2>2, <2>4, <3>1
  <2>7. NoLostV'
    BY <1>0, <1>1, <2>6 DEF NoLostV
  <2> QED
    BY <1>0, <2>2, <2>7
<1>2. CASE ~(s_slpq # <<>> /\ s_count > 0)
  <2>1. state' = gone /\ s_slpq' = s_slpq
    BY <1>2 DEF Interrupted
  <2>2. QueueIsSleepers'
    BY <1>0, <2>1 DEF QueueIsSleepers, Queued
  <2>3. Woken' \subseteq Thread /\ Cardinality(Woken') \in Nat
    BY WokenCardinality, Woken' \subseteq Thread DEF Woken
  <2>4. NoLostV'
    BY <1>0, <1>2, <2>1, <2>3 DEF NoLostV
  <2> QED
    BY <1>0, <2>1, <2>2, <2>4
<1> QED
  BY <1>1, <1>2

\* sema_unsleep(): the thread leaves the queue for the set of woken threads.
LEMMA SemaUnsleepStep ==
  ASSUME IInv, NEW t \in Thread, SemaUnsleep(t)
  PROVE  IInv'
<1> USE DEF IInv, TypeOK, pri
<1>1. PICK k \in 1 .. Len(s_slpq) : s_slpq[k] = t /\ s_slpq' = RemoveAt(s_slpq, k)
  BY DEF SemaUnsleep
<1>2. /\ state[t] = "asleep" /\ state' = [state EXCEPT ![t] = "woken"]
      /\ UNCHANGED <<s_count, wakeable, sig, pri>>
  BY DEF SemaUnsleep
<1>3. Distinct(s_slpq)
  BY DEF Distinct, QueueIsSleepers
<1>4. /\ s_slpq' \in Seq(Thread) /\ Distinct(s_slpq')
      /\ \A u \in Thread : Queued(s_slpq', u) <=> Queued(s_slpq, u) /\ u # t
  BY <1>1, <1>3, RemoveAtProperties
<1>5. QueueIsSleepers'
  BY <1>2, <1>4 DEF QueueIsSleepers, Distinct
<1>6. Woken' = Woken \cup {t} /\ Woken \subseteq Thread /\ t \notin Woken
  BY <1>2 DEF Woken
<1>7. Cardinality(Woken') = Cardinality(Woken) + 1 /\ Cardinality(Woken) \in Nat
  BY <1>6, WokenCardinality
<1>8. s_slpq # <<>>
  BY <1>1
<1>9. NoLostV'
  BY <1>2, <1>7, <1>8 DEF NoLostV
<1> QED
  BY <1>2, <1>4, <1>5, <1>9

\* A change of priority, of either kind: sema_change_pri() permutes the queue.
LEMMA SemaChangePriStep ==
  ASSUME IInv, NEW t \in Thread, SemaChangePri(t),
         UNCHANGED <<s_count, state, wakeable, sig>>,
         t_pri' \in [Thread -> Pri], t_epri' \in [Thread -> {0} \cup EPri]
  PROVE  IInv'
<1> USE DEF IInv, TypeOK, pri
<1>1. Woken' = Woken
  BY DEF Woken
<1>2. CASE state[t] = "asleep"
  <2>1. PICK k \in 1 .. Len(s_slpq) :
          s_slpq[k] = t /\ SemaQueue(RemoveAt(s_slpq, k), s_slpq', t, DispPrio')
    BY <1>2 DEF SemaChangePri
  <2> DEFINE q == RemoveAt(s_slpq, k)
  <2>2. Distinct(s_slpq)
    BY DEF Distinct, QueueIsSleepers
  <2>3. /\ q \in Seq(Thread) /\ Distinct(q)
        /\ \A u \in Thread : Queued(q, u) <=> Queued(s_slpq, u) /\ u # t
    BY <2>1, <2>2, RemoveAtProperties
  <2> HIDE DEF q
  <2>4. /\ s_slpq' \in Seq(Thread) /\ Distinct(s_slpq')
        /\ \A u \in Thread : Queued(s_slpq', u) <=> Queued(q, u) \/ u = t
    BY <2>1, <2>3, SemaQueueProperties, ZenonT(30) DEF q
  <2>5. QueueIsSleepers'
    BY <1>1, <1>2, <2>3, <2>4 DEF QueueIsSleepers, Distinct
  <2>6. s_slpq # <<>>
    BY <2>1
  <2>7. NoLostV'
    BY <1>1, <2>6 DEF NoLostV
  <2> QED
    BY <1>1, <2>4, <2>5, <2>7
<1>3. CASE state[t] # "asleep"
  BY <1>1, <1>3 DEF SemaChangePri, QueueIsSleepers, Queued, NoLostV
<1> QED
  BY <1>2, <1>3

-----------------------------------------------------------------------------
\* IInv is an invariant of the specification.
THEOREM Inductive == Spec => []IInv
<1>1. Init => IInv
  BY SemaphoreAssumption
  DEF Init, IInv, TypeOK, QueueIsSleepers, Queued, NoLostV
<1>2. IInv /\ [Next]_vars => IInv'
  <2> SUFFICES ASSUME IInv, [Next]_vars
               PROVE  IInv'
    OBVIOUS
  <2>1. CASE SemaV
    BY <2>1, SemaVStep
  <2>2. ASSUME NEW t \in Thread, NEW w \in BOOLEAN, SemaP(t, w)
        PROVE  IInv'
    BY <2>2, TryStep DEF SemaP
  <2>3. ASSUME NEW t \in Thread, Retry(t)
        PROVE  IInv'
    <3>1. wakeable[t] \in BOOLEAN
      BY DEF IInv, TypeOK
    <3> QED
      BY <2>3, <3>1, TryStep DEF Retry
  <2>4. ASSUME NEW t \in Thread, Interrupted(t)
        PROVE  IInv'
    BY <2>4, InterruptedStep
  <2>5. ASSUME NEW t \in Thread, SemaTryp(t)
        PROVE  IInv'
    <3>1. Cardinality(Woken) \in Nat
      BY WokenCardinality, Woken \subseteq Thread DEF Woken
    <3> QED
      BY <2>5, <3>1, SemaphoreAssumption
      DEF SemaTryp, IInv, TypeOK, QueueIsSleepers, Queued, NoLostV, Woken, pri
  <2>6. ASSUME NEW t \in Thread, SemaUnsleep(t)
        PROVE  IInv'
    BY <2>6, SemaUnsleepStep
  <2>7. ASSUME NEW t \in Thread, Signal(t)
        PROVE  IInv'
    BY <2>7 DEF Signal, IInv, TypeOK, QueueIsSleepers, Queued, NoLostV, Woken, pri
  <2>8. ASSUME NEW t \in Thread, NEW p \in Pri, ThreadChangePri(t, p)
        PROVE  IInv'
    <3>1. t_pri' \in [Thread -> Pri] /\ t_epri' \in [Thread -> {0} \cup EPri]
      BY <2>8 DEF ThreadChangePri, IInv, TypeOK
    <3> QED
      BY <2>8, <3>1, SemaChangePriStep DEF ThreadChangePri
  <2>9. ASSUME NEW t \in Thread, NEW p \in {0} \cup EPri, ThreadChangeEpri(t, p)
        PROVE  IInv'
    <3>1. t_pri' \in [Thread -> Pri] /\ t_epri' \in [Thread -> {0} \cup EPri]
      BY <2>9 DEF ThreadChangeEpri, IInv, TypeOK
    <3> QED
      BY <2>9, <3>1, SemaChangePriStep DEF ThreadChangeEpri
  <2>10. CASE UNCHANGED vars
    BY <2>10 DEF vars, pri, IInv, TypeOK, QueueIsSleepers, Queued, NoLostV, Woken
  <2> QED
    BY <2>1, <2>2, <2>3, <2>4, <2>5, <2>6, <2>7, <2>8, <2>9, <2>10 DEF Next
<1> QED
  BY <1>1, <1>2, PTL DEF Spec

\* The sleep queue is exactly the set of sleeping threads, each of them once.
THEOREM QueueIsSleepersHolds == Spec => []QueueIsSleepers
<1>1. IInv => QueueIsSleepers
  BY DEF IInv
<1> QED
  BY <1>1, Inductive, PTL

\* No sema_v() is lost: a count that is not zero is matched by threads on their
\* way to take it as long as anybody sleeps.
THEOREM NoLostVHolds == Spec => []NoLostV
<1>1. IInv => NoLostV
  BY DEF IInv
<1> QED
  BY <1>1, Inductive, PTL

-----------------------------------------------------------------------------
(* The order of the queue.                                                 *)

\* The queue is in the order of the priorities p.
Sorted(q, p) == \A i, j \in 1 .. Len(q) : i < j => p[q[i]] >= p[q[j]]

\* In a sorted queue a thread stands before those of lower priority.
LEMMA SortedBefore ==
  ASSUME NEW q \in Seq(Thread), NEW p \in [Thread -> Nat], Sorted(q, p),
         NEW t \in Thread, NEW u \in Thread, Queued(q, t), Queued(q, u), p[t] > p[u]
  PROVE  Before(q, t, u)
<1>1. PICK i \in 1 .. Len(q) : q[i] = t
  BY DEF Queued
<1>2. PICK j \in 1 .. Len(q) : q[j] = u
  BY DEF Queued
<1>3. p[t] \in Nat /\ p[u] \in Nat
  OBVIOUS
<1>4. i < j
  <2>1. ~(j < i)
    BY <1>1, <1>2, <1>3 DEF Sorted
  <2>2. i # j
    BY <1>1, <1>2, <1>3
  <2> QED
    BY <2>1, <2>2
<1> QED
  BY <1>1, <1>2, <1>4 DEF Before

\* sema_queue() puts a thread behind those of its own or a higher priority and before
\* all others, which keep their order.
LEMMA InsertKeepsOrder ==
  ASSUME NEW q \in Seq(Thread), NEW p \in [Thread -> Nat], NEW k \in 1 .. Len(q) + 1,
         NEW x \in Thread, Sorted(q, p), QueuePlace(q, k, x, p)
  PROVE  /\ Sorted(InsertAt(q, k, x), p)
         /\ \A t, u \in Thread : Before(q, t, u) => Before(InsertAt(q, k, x), t, u)
         /\ \A t \in Thread : Queued(q, t) /\ p[t] >= p[x] => Before(InsertAt(q, k, x), t, x)
<1> DEFINE r == InsertAt(q, k, x)
<1>1. /\ Len(q) \in Nat /\ Len(q) + 1 \in Nat /\ \A i \in 1 .. Len(q) : q[i] \in Thread
      /\ \A i \in 1 .. Len(q) : p[q[i]] \in Nat
      /\ p[x] \in Nat
  OBVIOUS
<1>2. /\ r \in [1 .. Len(q) + 1 -> Thread]
      /\ \A i \in 1 .. Len(q) + 1 :
           r[i] = IF i < k THEN q[i] ELSE IF i = k THEN x ELSE q[i - 1]
  BY <1>1 DEF InsertAt
<1> HIDE DEF r
<1>3. Len(r) = Len(q) + 1
  <2>1. Len(q) + 1 \in Nat
    BY <1>1
  <2>2. r \in Seq(Thread)
    <3>1. r \in [1 .. Len(q) + 1 -> Thread]
      BY <1>2
    <3> QED
      BY <2>1, <3>1, SeqDef
  <2> QED
    BY <1>2, <2>1, <2>2, LenProperties
<1>4. /\ \A i \in 1 .. k - 1 : p[q[i]] >= p[x]
      /\ \A i \in k .. Len(q) : p[x] > p[q[i]]
  <2>1. \A i \in 1 .. k - 1 : p[q[i]] >= p[x]
    BY <1>1 DEF QueuePlace
  <2>2. ASSUME NEW i \in k .. Len(q) PROVE p[x] > p[q[i]]
    <3>1. p[x] > p[q[k]] /\ k \in 1 .. Len(q) /\ i \in 1 .. Len(q)
      BY <1>1 DEF QueuePlace
    <3>2. p[q[k]] >= p[q[i]]
      BY <1>1, <3>1 DEF Sorted
    <3> QED
      BY <1>1, <3>1, <3>2
  <2> QED
    BY <2>1, <2>2
<1>5. Sorted(r, p)
  <2> SUFFICES ASSUME NEW i \in 1 .. Len(q) + 1, NEW j \in 1 .. Len(q) + 1, i < j
               PROVE  p[r[i]] >= p[r[j]]
    BY <1>3 DEF Sorted
  <2>0. \A m, n \in 1 .. Len(q) : m < n => p[q[m]] >= p[q[n]]
    BY DEF Sorted
  <2>1. CASE j < k
    <3>1. i \in 1 .. Len(q) /\ j \in 1 .. Len(q) /\ r[i] = q[i] /\ r[j] = q[j]
      BY <1>1, <1>2, <2>1
    <3> QED
      BY <2>0, <3>1
  <2>2. CASE j = k
    BY <1>1, <1>2, <1>4, <2>2, SMTT(30)
  <2>3. CASE k < j /\ i < k
    <3>1. /\ i \in 1 .. Len(q) /\ j - 1 \in 1 .. Len(q) /\ i < j - 1
          /\ r[i] = q[i] /\ r[j] = q[j - 1]
      BY <1>1, <1>2, <2>3
    <3> QED
      BY <2>0, <3>1
  <2>4. CASE k < j /\ i = k
    <3>1. j - 1 \in k .. Len(q) /\ r[j] = q[j - 1] /\ r[i] = x /\ j - 1 \in 1 .. Len(q)
      BY <1>1, <1>2, <2>4
    <3>2. p[x] > p[q[j - 1]] /\ p[q[j - 1]] \in Nat
      BY <1>1, <1>4, <3>1
    <3> QED
      BY <1>1, <3>1, <3>2
  <2>5. CASE k < i
    <3>1. /\ i - 1 \in 1 .. Len(q) /\ j - 1 \in 1 .. Len(q) /\ i - 1 < j - 1
          /\ r[i] = q[i - 1] /\ r[j] = q[j - 1]
      BY <1>1, <1>2, <2>5
    <3> QED
      BY <2>0, <3>1
  <2> QED
    BY <2>1, <2>2, <2>3, <2>4, <2>5
<1>6. ASSUME NEW t \in Thread, NEW u \in Thread, Before(q, t, u)
      PROVE  Before(r, t, u)
  <2>1. PICK i \in 1 .. Len(q), j \in 1 .. Len(q) : i < j /\ q[i] = t /\ q[j] = u
    BY <1>6 DEF Before
  <2> DEFINE a == IF i < k THEN i ELSE i + 1
             b == IF j < k THEN j ELSE j + 1
  <2>2. a \in 1 .. Len(q) + 1 /\ b \in 1 .. Len(q) + 1 /\ a < b
    BY <1>1, <2>1
  <2>3. \A l \in 1 .. Len(q) : r[IF l < k THEN l ELSE l + 1] = q[l]
    <3> TAKE l \in 1 .. Len(q)
    <3>1. CASE l < k
      <4>1. l \in 1 .. Len(q) + 1
        BY <1>1
      <4> QED
        BY <1>2, <3>1, <4>1
    <3>2. CASE ~(l < k)
      <4>1. l + 1 \in 1 .. Len(q) + 1 /\ ~(l + 1 < k) /\ l + 1 # k /\ (l + 1) - 1 = l
        BY <1>1, <3>2
      <4>2. r[l + 1] = q[(l + 1) - 1]
        BY <1>2, <4>1
      <4> QED
        BY <3>2, <4>1, <4>2
    <3> QED
      BY <3>1, <3>2
  <2>4. r[a] = t /\ r[b] = u
    BY <2>1, <2>3
  <2> HIDE DEF a, b
  <2> QED
    BY <1>3, <2>2, <2>4 DEF Before
<1>7. ASSUME NEW t \in Thread, Queued(q, t), p[t] >= p[x]
      PROVE  Before(r, t, x)
  <2>1. PICK i \in 1 .. Len(q) : q[i] = t
    BY <1>7 DEF Queued
  <2>2. i < k
    <3>1. i \notin k .. Len(q)
      BY <1>1, <1>4, <1>7, <2>1
    <3> QED
      BY <1>1, <3>1
  <2>3. i \in 1 .. Len(r) /\ k \in 1 .. Len(r) /\ r[i] = t /\ r[k] = x
    BY <1>1, <1>2, <1>3, <2>1, <2>2
  <2> QED
    BY <2>2, <2>3 DEF Before
<1> QED
  BY <1>5, <1>6, <1>7 DEF r

\* A thread that leaves the queue leaves the others in their order.
LEMMA RemoveKeepsOrder ==
  ASSUME NEW q \in Seq(Thread), NEW p, NEW k \in 1 .. Len(q), Sorted(q, p)
  PROVE  /\ Sorted(RemoveAt(q, k), p)
         /\ \A t, u \in Thread : Before(q, t, u) /\ t # q[k] /\ u # q[k]
                                   => Before(RemoveAt(q, k), t, u)
<1> DEFINE r == RemoveAt(q, k)
<1>1. Len(q) \in Nat /\ Len(q) - 1 \in Nat /\ \A i \in 1 .. Len(q) : q[i] \in Thread
  OBVIOUS
<1>2. /\ r \in [1 .. Len(q) - 1 -> Thread]
      /\ \A i \in 1 .. Len(q) - 1 : r[i] = IF i < k THEN q[i] ELSE q[i + 1]
  BY <1>1 DEF RemoveAt
<1>3. Len(r) = Len(q) - 1
  <2>1. r \in Seq(Thread)
    BY <1>1, <1>2, SeqDef
  <2> QED
    BY <1>1, <1>2, <2>1, LenProperties
<1> HIDE DEF r
<1>4. Sorted(r, p)
  BY <1>1, <1>2, <1>3 DEF Sorted
<1>5. ASSUME NEW t \in Thread, NEW u \in Thread, Before(q, t, u), t # q[k], u # q[k]
      PROVE  Before(r, t, u)
  <2>1. PICK i \in 1 .. Len(q), j \in 1 .. Len(q) : i < j /\ q[i] = t /\ q[j] = u
    BY <1>5 DEF Before
  <2> DEFINE a == IF i < k THEN i ELSE i - 1
             b == IF j < k THEN j ELSE j - 1
  <2>2. i # k /\ j # k
    BY <1>5, <2>1
  <2>3. a \in 1 .. Len(r) /\ b \in 1 .. Len(r) /\ a < b /\ r[a] = t /\ r[b] = u
    BY <1>1, <1>2, <1>3, <2>1, <2>2
  <2> QED
    BY <2>3 DEF Before
<1> QED
  BY <1>4, <1>5 DEF r

LEMMA TailKeepsOrder ==
  ASSUME NEW q \in Seq(Thread), NEW p, q # <<>>, Sorted(q, p)
  PROVE  /\ Sorted(Tail(q), p)
         /\ \A t, u \in Thread : Before(q, t, u) /\ t # Head(q) /\ u # Head(q)
                                   => Before(Tail(q), t, u)
<1>1. /\ Len(q) \in Nat \ {0} /\ Len(Tail(q)) = Len(q) - 1
      /\ \A i \in 1 .. Len(q) - 1 : Tail(q)[i] = q[i + 1]
      /\ Head(q) = q[1]
  OBVIOUS
<1>2. Sorted(Tail(q), p)
  BY <1>1 DEF Sorted
<1>3. ASSUME NEW t \in Thread, NEW u \in Thread, Before(q, t, u), t # Head(q), u # Head(q)
      PROVE  Before(Tail(q), t, u)
  <2>1. PICK i \in 1 .. Len(q), j \in 1 .. Len(q) : i < j /\ q[i] = t /\ q[j] = u
    BY <1>3 DEF Before
  <2>2. /\ i - 1 \in 1 .. Len(q) - 1 /\ j - 1 \in 1 .. Len(q) - 1 /\ i - 1 < j - 1
        /\ Tail(q)[i - 1] = t /\ Tail(q)[j - 1] = u
    BY <1>1, <1>3, <2>1
  <2> QED
    BY <1>1, <2>2 DEF Before
<1> QED
  BY <1>2, <1>3

\* What a step has to do for the order of the queue.
Ordered ==
  /\ Sorted(s_slpq', DispPrio')
  /\ \A t, u \in Thread :
       t # u /\ Queued(s_slpq', t) /\ Queued(s_slpq', u) /\ Precedes(t, u)
         => Before(s_slpq', t, u)

\* The second disjunct of Precedes().
KeepsPlaces ==
  \A t, u \in Thread :
    (/\ t # u /\ Queued(s_slpq', t) /\ Queued(s_slpq', u)
     /\ DispPrio'[t] = DispPrio'[u] /\ Queued(s_slpq, t) /\ ~Changed(t)
     /\ Before(s_slpq, t, u) \/ ~Queued(s_slpq, u) \/ Changed(u))
    => Before(s_slpq', t, u)

\* Dispatch priorities are numbers.
LEMMA DispPrioType ==
  ASSUME TypeOK
  PROVE  DispPrio \in [Thread -> Nat]
BY SemaphoreAssumption DEF TypeOK, DispPrio

\* As long as nobody's priorities change, dispatch priorities stay.
LEMMA SameDispPrio ==
  ASSUME UNCHANGED pri
  PROVE  DispPrio' = DispPrio /\ \A t \in Thread : ~Changed(t)
BY DEF pri, DispPrio, Changed

\* The first disjunct follows from the order of priorities.
LEMMA OrderedIf ==
  ASSUME s_slpq' \in Seq(Thread), DispPrio' \in [Thread -> Nat], Sorted(s_slpq', DispPrio'), KeepsPlaces
  PROVE  Ordered
<1> SUFFICES ASSUME NEW t \in Thread, NEW u \in Thread, t # u, Queued(s_slpq', t),
                    Queued(s_slpq', u), Precedes(t, u)
             PROVE  Before(s_slpq', t, u)
  BY DEF Ordered
<1>1. CASE DispPrio'[t] > DispPrio'[u]
  BY <1>1, SortedBefore
<1>2. CASE ~(DispPrio'[t] > DispPrio'[u])
  BY <1>2 DEF Precedes, KeepsPlaces
<1> QED
  BY <1>1, <1>2

\* A step after which the queue and the priorities of all queued threads are the same.
LEMMA SameOrder ==
  ASSUME IInv, Sorted(s_slpq, DispPrio), s_slpq' = s_slpq, DispPrio' \in [Thread -> Nat],
         \A t \in Thread : Queued(s_slpq, t) => ~Changed(t) /\ DispPrio'[t] = DispPrio[t]
  PROVE  Ordered
<1>1. s_slpq \in Seq(Thread)
  BY DEF IInv, TypeOK
<1>2. \A i \in 1 .. Len(s_slpq) : DispPrio'[s_slpq[i]] = DispPrio[s_slpq[i]]
  BY <1>1 DEF Queued
<1>3. Sorted(s_slpq', DispPrio')
  BY <1>2 DEF Sorted
<1>4. KeepsPlaces
  BY DEF KeepsPlaces
<1> QED
  BY <1>1, <1>3, <1>4, OrderedIf

\* The first thread is woken.
LEMMA WakeFirstOrder ==
  ASSUME IInv, Sorted(s_slpq, DispPrio), s_slpq # <<>>, s_slpq' = Tail(s_slpq), UNCHANGED pri
  PROVE  Ordered
<1>1. /\ s_slpq \in Seq(Thread) /\ DispPrio \in [Thread -> Nat] /\ Distinct(s_slpq)
      /\ DispPrio' = DispPrio /\ \A t \in Thread : ~Changed(t)
  BY DispPrioType, SameDispPrio DEF IInv, TypeOK, QueueIsSleepers, Distinct
<1>2. /\ s_slpq' \in Seq(Thread)
      /\ \A u \in Thread : Queued(s_slpq', u) <=> Queued(s_slpq, u) /\ u # Head(s_slpq)
  BY <1>1, TailProperties
<1>3. /\ Sorted(s_slpq', DispPrio)
      /\ \A t, u \in Thread : Before(s_slpq, t, u) /\ t # Head(s_slpq) /\ u # Head(s_slpq)
                                => Before(s_slpq', t, u)
  BY <1>1, TailKeepsOrder
<1>4. KeepsPlaces
  BY <1>1, <1>2, <1>3 DEF KeepsPlaces
<1> QED
  BY <1>1, <1>2, <1>3, <1>4, OrderedIf

\* A thread goes to sleep.
LEMMA TryOrder ==
  ASSUME IInv, Sorted(s_slpq, DispPrio), NEW x \in Thread, NEW w, state[x] # "asleep", Try(x, w)
  PROVE  Ordered
<1>1. /\ s_slpq \in Seq(Thread) /\ DispPrio \in [Thread -> Nat]
      /\ Distinct(s_slpq) /\ ~Queued(s_slpq, x)
      /\ DispPrio' = DispPrio /\ \A t \in Thread : ~Changed(t)
  BY DispPrioType, SameDispPrio DEF IInv, TypeOK, QueueIsSleepers, Distinct, Try
<1>2. CASE s_count > 0
  <2>1. s_slpq' = s_slpq
    BY <1>2 DEF Try
  <2> QED
    BY <1>1, <2>1, SameOrder
<1>3. CASE ~(s_count > 0)
  <2>1. PICK k \in 1 .. Len(s_slpq) + 1 :
          QueuePlace(s_slpq, k, x, DispPrio) /\ s_slpq' = InsertAt(s_slpq, k, x)
    BY <1>3 DEF Try, SemaBlock, SemaQueue
  <2>2. /\ s_slpq' \in Seq(Thread)
        /\ \A u \in Thread : Queued(s_slpq', u) <=> Queued(s_slpq, u) \/ u = x
    BY <1>1, <2>1, InsertAtProperties
  <2>3. /\ Sorted(s_slpq', DispPrio)
        /\ \A t, u \in Thread : Before(s_slpq, t, u) => Before(s_slpq', t, u)
        /\ \A t \in Thread : Queued(s_slpq, t) /\ DispPrio[t] >= DispPrio[x] => Before(s_slpq', t, x)
    BY <1>1, <2>1, InsertKeepsOrder
  <2>4. \A t \in Thread : DispPrio[t] >= DispPrio[t]
    BY <1>1
  <2>5. KeepsPlaces
    BY <1>1, <2>2, <2>3, <2>4 DEF KeepsPlaces
  <2> QED
    BY <1>1, <2>2, <2>3, <2>5, OrderedIf
<1> QED
  BY <1>2, <1>3

\* A sleeper is taken off the queue by a signal.
LEMMA UnsleepOrder ==
  ASSUME IInv, Sorted(s_slpq, DispPrio), NEW x \in Thread, SemaUnsleep(x)
  PROVE  Ordered
<1>1. /\ s_slpq \in Seq(Thread) /\ DispPrio \in [Thread -> Nat] /\ Distinct(s_slpq)
      /\ DispPrio' = DispPrio /\ \A t \in Thread : ~Changed(t)
  BY DispPrioType, SameDispPrio DEF IInv, TypeOK, QueueIsSleepers, Distinct, SemaUnsleep
<1>2. PICK k \in 1 .. Len(s_slpq) : s_slpq[k] = x /\ s_slpq' = RemoveAt(s_slpq, k)
  BY DEF SemaUnsleep
<1>3. /\ s_slpq' \in Seq(Thread)
      /\ \A u \in Thread : Queued(s_slpq', u) <=> Queued(s_slpq, u) /\ u # x
  BY <1>1, <1>2, RemoveAtProperties
<1>4. /\ Sorted(s_slpq', DispPrio)
      /\ \A t, u \in Thread : Before(s_slpq, t, u) /\ t # x /\ u # x => Before(s_slpq', t, u)
  BY <1>1, <1>2, RemoveKeepsOrder
<1>5. KeepsPlaces
  BY <1>1, <1>3, <1>4 DEF KeepsPlaces
<1> QED
  BY <1>1, <1>3, <1>4, <1>5, OrderedIf

\* One of the priorities of a thread changes; its dispatch priority may stay.
LEMMA ChangePriOrder ==
  ASSUME IInv, Sorted(s_slpq, DispPrio), NEW x \in Thread, SemaChangePri(x), Changed(x),
         DispPrio' \in [Thread -> Nat],
         \A t \in Thread : t # x => ~Changed(t) /\ DispPrio'[t] = DispPrio[t]
  PROVE  Ordered
<1>1. s_slpq \in Seq(Thread) /\ DispPrio \in [Thread -> Nat] /\ Distinct(s_slpq)
  BY DispPrioType DEF IInv, TypeOK, QueueIsSleepers, Distinct
<1>2. CASE state[x] # "asleep"
  <2>1. s_slpq' = s_slpq /\ ~Queued(s_slpq, x)
    BY <1>2 DEF SemaChangePri, IInv, QueueIsSleepers
  <2> QED
    BY <1>1, <2>1, SameOrder
<1>3. CASE state[x] = "asleep"
  <2>1. PICK k \in 1 .. Len(s_slpq) :
          s_slpq[k] = x /\ SemaQueue(RemoveAt(s_slpq, k), s_slpq', x, DispPrio')
    BY <1>3 DEF SemaChangePri
  <2> DEFINE q == RemoveAt(s_slpq, k)
  <2>2. /\ q \in Seq(Thread) /\ Distinct(q)
        /\ \A u \in Thread : Queued(q, u) <=> Queued(s_slpq, u) /\ u # x
    BY <1>1, <2>1, RemoveAtProperties
  <2>3. /\ Sorted(q, DispPrio)
        /\ \A t, u \in Thread : Before(s_slpq, t, u) /\ t # x /\ u # x => Before(q, t, u)
    BY <1>1, <2>1, RemoveKeepsOrder
  <2> HIDE DEF q
  <2>4. PICK l \in 1 .. Len(q) + 1 :
          QueuePlace(q, l, x, DispPrio') /\ s_slpq' = InsertAt(q, l, x)
    BY <2>1 DEF SemaQueue, q
  <2>5. Sorted(q, DispPrio')
    <3>1. \A i \in 1 .. Len(q) : q[i] \in Thread /\ q[i] # x
      BY <2>2 DEF Queued
    <3>2. \A i \in 1 .. Len(q) : DispPrio'[q[i]] = DispPrio[q[i]]
      BY <1>1, <3>1
    <3> QED
      BY <2>3, <3>2 DEF Sorted
  <2>6. /\ s_slpq' \in Seq(Thread)
        /\ \A u \in Thread : Queued(s_slpq', u) <=> Queued(q, u) \/ u = x
    BY <2>2, <2>4, InsertAtProperties
  <2>7. /\ Sorted(s_slpq', DispPrio')
        /\ \A t, u \in Thread : Before(q, t, u) => Before(s_slpq', t, u)
        /\ \A t \in Thread : Queued(q, t) /\ DispPrio'[t] >= DispPrio'[x] => Before(s_slpq', t, x)
    BY <1>1, <2>2, <2>4, <2>5, InsertKeepsOrder
  <2>8. \A t \in Thread : DispPrio'[t] >= DispPrio'[t]
    BY <1>1
  <2>9. KeepsPlaces
    BY <1>1, <2>2, <2>3, <2>6, <2>7, <2>8 DEF KeepsPlaces
  <2> QED
    BY <1>1, <2>6, <2>7, <2>9, OrderedIf
<1> QED
  BY <1>2, <1>3

\* Every step keeps the order of the queue.
LEMMA NextOrder ==
  ASSUME IInv, Sorted(s_slpq, DispPrio), Next
  PROVE  Ordered
<1>0. ASSUME UNCHANGED pri
      PROVE  /\ DispPrio' = DispPrio /\ DispPrio' \in [Thread -> Nat]
             /\ \A t \in Thread : ~Changed(t)
  BY <1>0, SameDispPrio, DispPrioType DEF IInv
<1>1. CASE SemaV
  BY <1>0, <1>1, WakeFirstOrder, SameOrder DEF SemaV, WakeFirst
<1>2. ASSUME NEW t \in Thread, NEW w \in BOOLEAN, SemaP(t, w)
      PROVE  Ordered
  BY <1>2, TryOrder DEF SemaP
<1>3. ASSUME NEW t \in Thread, Retry(t)
      PROVE  Ordered
  BY <1>3, TryOrder DEF Retry
<1>4. ASSUME NEW t \in Thread, Interrupted(t)
      PROVE  Ordered
  BY <1>0, <1>4, WakeFirstOrder, SameOrder DEF Interrupted, WakeFirst
<1>5. ASSUME NEW t \in Thread, SemaTryp(t) \/ Signal(t)
      PROVE  Ordered
  BY <1>0, <1>5, SameOrder DEF SemaTryp, Signal
<1>6. ASSUME NEW t \in Thread, SemaUnsleep(t)
      PROVE  Ordered
  BY <1>6, UnsleepOrder
<1>7. ASSUME NEW t \in Thread, NEW p \in Pri, ThreadChangePri(t, p)
      PROVE  Ordered
  <2>1. /\ t_pri \in [Thread -> Pri] /\ t_epri \in [Thread -> {0} \cup EPri]
        /\ t_pri' = [t_pri EXCEPT ![t] = p] /\ t_epri' = t_epri /\ p # t_pri[t]
    BY <1>7 DEF ThreadChangePri, IInv, TypeOK
  <2>2. Changed(t) /\ DispPrio' \in [Thread -> Nat]
    BY <2>1, SemaphoreAssumption DEF Changed, DispPrio
  <2>3. \A u \in Thread : u # t => ~Changed(u) /\ DispPrio'[u] = DispPrio[u]
    BY <2>1 DEF Changed, DispPrio
  <2> QED
    BY <1>7, <2>2, <2>3, ChangePriOrder DEF ThreadChangePri
<1>8. ASSUME NEW t \in Thread, NEW p \in {0} \cup EPri, ThreadChangeEpri(t, p)
      PROVE  Ordered
  <2>1. /\ t_pri \in [Thread -> Pri] /\ t_epri \in [Thread -> {0} \cup EPri]
        /\ t_epri' = [t_epri EXCEPT ![t] = p] /\ t_pri' = t_pri /\ p # t_epri[t]
    BY <1>8 DEF ThreadChangeEpri, IInv, TypeOK
  <2>2. Changed(t) /\ DispPrio' \in [Thread -> Nat]
    BY <2>1, SemaphoreAssumption DEF Changed, DispPrio
  <2>3. \A u \in Thread : u # t => ~Changed(u) /\ DispPrio'[u] = DispPrio[u]
    BY <2>1 DEF Changed, DispPrio
  <2> QED
    BY <1>8, <2>2, <2>3, ChangePriOrder DEF ThreadChangeEpri
<1> QED
  BY <1>1, <1>2, <1>3, <1>4, <1>5, <1>6, <1>7, <1>8 DEF Next

\* sema_queue(), SEMA_BLOCK and sema_change_pri() keep the queue in order of priority
\* and, among equals, of the time they were queued, which a change of either of its
\* priorities resets for a sleeper.
THEOREM PriorityThenFifoHolds == Spec => PriorityThenFifo
<1>1. Init => Sorted(s_slpq, DispPrio)
  BY DEF Init, Sorted
<1>2. IInv /\ Sorted(s_slpq, DispPrio) /\ [Next]_vars => Sorted(s_slpq, DispPrio)'
  <2>1. ASSUME IInv, Sorted(s_slpq, DispPrio), Next PROVE Sorted(s_slpq, DispPrio)'
    BY <2>1, NextOrder DEF Ordered
  <2>2. ASSUME Sorted(s_slpq, DispPrio), UNCHANGED vars PROVE Sorted(s_slpq, DispPrio)'
    BY <2>2, SameDispPrio DEF vars, Sorted
  <2> QED
    BY <2>1, <2>2
<1>3. IInv /\ Sorted(s_slpq, DispPrio) /\ [Next]_vars =>
        [\A t, u \in Thread :
           t # u /\ Queued(s_slpq', t) /\ Queued(s_slpq', u) /\ Precedes(t, u)
             => Before(s_slpq', t, u)]_vars
  BY NextOrder DEF Ordered
<1> QED
  BY <1>1, <1>2, <1>3, Inductive, PTL DEF Spec, PriorityThenFifo
=============================================================================
