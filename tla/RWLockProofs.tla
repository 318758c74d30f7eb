---------------------------- MODULE RWLockProofs ----------------------------
(***************************************************************************)
(* Proofs about module RWLock, for any number of threads and priorities:   *)
(* the invariants and the wakeup policy that the run checks, and that the  *)
(* lock implements module RWAbstract.                                      *)
(***************************************************************************)
EXTENDS RWLock, FiniteSetTheorems, FunctionTheorems, SequenceTheorems, TLAPS

-----------------------------------------------------------------------------
(* The inductive invariant.                                                *)

\* No thread is in a queue twice.
Distinct(q) == \A i, j \in 1 .. Len(q) : i # j => q[i] # q[j]

\* t is in the queue.
Queued(q, t) == \E i \in 1 .. Len(q) : q[i] = t

\* The queue is in the order of the priorities p.
Sorted(q, p) == \A i, j \in 1 .. Len(q) : i < j => p[q[i]] >= p[q[j]]

\* The queues hold the sleepers, each in the queue of what it has requested.
QueueFits ==
  \A m \in Mode :
    /\ Distinct(sleepq[m]) /\ Sorted(sleepq[m], pri)
    /\ \A t \in Thread : Queued(sleepq[m], t) <=> pc[t] = "asleep" /\ mode[t] = m

\* The chain lock is held where the code relies on it, and nowhere else.
ChainFits ==
  \A t \in Thread :
    tc_lock = t <=> pc[t] \in {"setwait", "block", "handoff", "wake", "dwakeup", "dwake"}

\* Wakeups are under way only while the thread that makes them has the chain lock,
\* and only of threads in the queue.
WakeFits ==
  /\ wakeup.n <= Len(sleepq[wakeup.q])
  /\ wakeup.n > 0 => tc_lock \in Thread /\ pc[tc_lock] \in {"wake", "dwake"}

\* The final exit still is one when the chain lock is held: the waiters are still
\* there and, if it is a reader that exits, no other reader has got in since.
FinalFits ==
  \A t \in Thread :
    pc[t] \in {"xlookup", "handoff"} =>
      rw_wait /\ (mode[t] = "R" => rw_count = 1 /\ rw_want)

\* A thread in rw_downgrade() is a reader.
DowngradeFits ==
  \A t \in Thread : pc[t] \in {"dlookup", "dwakeup", "dwake"} => mode[t] = "R"

\* Threads wait for readers only if a writer is among them, but for the time a
\* downgrade takes to let the waiting readers in.
ReadWaitFits ==
  rw_wait /\ rw_owner = NoThread =>
    rw_want \/ \E t \in Thread : pc[t] \in {"dlookup", "dwakeup"}

\* Nobody uses a destroyed lock.
DeadFits == rw_owner = DeadLock => \A t \in Thread : pc[t] = "idle"

IInv ==
  /\ TypeOK /\ QueueFits /\ ChainFits /\ WakeFits
  /\ FinalFits /\ DowngradeFits /\ ReadWaitFits /\ DeadFits
  /\ WordMatchesHolders /\ BitsMatchWaiters /\ KpriBalanced

-----------------------------------------------------------------------------
(* The queues.                                                             *)

\* InsertAt() element by element.
LEMMA InsertAtElements ==
  ASSUME NEW q \in Seq(Thread), NEW k \in 1 .. Len(q) + 1, NEW t \in Thread
  PROVE  /\ InsertAt(q, k, t) \in Seq(Thread)
         /\ Len(InsertAt(q, k, t)) = Len(q) + 1
         /\ \A i \in 1 .. Len(q) + 1 :
              InsertAt(q, k, t)[i] = IF i < k THEN q[i] ELSE IF i = k THEN t ELSE q[i - 1]
<1> DEFINE a == SubSeq(q, 1, k - 1)
           b == SubSeq(q, k, Len(q))
           c == a \o <<t>>
           r == InsertAt(q, k, t)
<1>1. /\ Len(q) \in Nat
      /\ \A i \in 1 .. Len(q) : q[i] \in Thread
  OBVIOUS
<1>2. /\ a \in Seq(Thread) /\ Len(a) = k - 1
      /\ \A i \in 1 .. k - 1 : a[i] = q[i]
  OBVIOUS
<1>3. /\ b \in Seq(Thread) /\ Len(b) = Len(q) - k + 1
      /\ \A i \in 1 .. Len(q) - k + 1 : b[i] = q[k + i - 1]
  OBVIOUS
<1>4. r = c \o b
  BY DEF InsertAt
<1> HIDE DEF a, b, r
<1>5. /\ c \in Seq(Thread) /\ Len(c) = k
      /\ \A i \in 1 .. k : c[i] = IF i < k THEN q[i] ELSE t
  <2>1. c \in Seq(Thread) /\ Len(c) = Len(a) + 1
    BY <1>2
  <2>2. \A i \in 1 .. Len(a) + 1 : c[i] = IF i <= Len(a) THEN a[i] ELSE t
    BY <1>2
  <2> HIDE DEF c
  <2> QED
    BY <1>2, <2>1, <2>2
<1> HIDE DEF c
<1>6. r \in Seq(Thread) /\ Len(r) = Len(q) + 1
  <2>1. c \o b \in Seq(Thread) /\ Len(c \o b) = Len(c) + Len(b)
    BY <1>3, <1>5, ConcatProperties, Zenon
  <2> QED
    BY <1>1, <1>3, <1>4, <1>5, <2>1
<1>7. ASSUME NEW i \in 1 .. Len(q) + 1
      PROVE  r[i] = IF i < k THEN q[i] ELSE IF i = k THEN t ELSE q[i - 1]
  <2>1. r[i] = IF i <= Len(c) THEN c[i] ELSE b[i - Len(c)]
    BY <1>1, <1>3, <1>4, <1>5
  <2>2. CASE i <= k
    BY <1>1, <1>5, <2>1, <2>2
  <2>3. CASE i > k
    <3>1. i - k \in 1 .. Len(q) - k + 1 /\ k + (i - k) - 1 = i - 1
      BY <1>1, <2>3
    <3> QED
      BY <1>1, <1>3, <1>5, <2>1, <2>3, <3>1
  <2> QED
    BY <1>1, <2>2, <2>3
<1> QED
  BY <1>6, <1>7 DEF r

\* RemoveAt() element by element.
LEMMA RemoveAtElements ==
  ASSUME NEW q \in Seq(Thread), NEW k \in 1 .. Len(q)
  PROVE  /\ RemoveAt(q, k) \in Seq(Thread)
         /\ Len(RemoveAt(q, k)) = Len(q) - 1
         /\ \A i \in 1 .. Len(q) - 1 : RemoveAt(q, k)[i] = IF i < k THEN q[i] ELSE q[i + 1]
<1> DEFINE r == RemoveAt(q, k)
           a == SubSeq(q, 1, k - 1)
           b == SubSeq(q, k + 1, Len(q))
<1>1. /\ Len(q) \in Nat
      /\ \A i \in 1 .. Len(q) : q[i] \in Thread
  OBVIOUS
<1>2. /\ a \in Seq(Thread) /\ Len(a) = k - 1
      /\ \A i \in 1 .. k - 1 : a[i] = q[i]
  OBVIOUS
<1>3. /\ b \in Seq(Thread) /\ Len(b) = Len(q) - k
      /\ \A i \in 1 .. Len(q) - k : b[i] = q[k + i]
  OBVIOUS
<1>4. r = a \o b
  BY DEF RemoveAt
<1> HIDE DEF a, b, r
<1>5. r \in Seq(Thread) /\ Len(r) = Len(q) - 1
  <2>1. a \o b \in Seq(Thread) /\ Len(a \o b) = Len(a) + Len(b)
    BY <1>2, <1>3, ConcatProperties, Zenon
  <2> QED
    BY <1>1, <1>2, <1>3, <1>4, <2>1
<1>6. ASSUME NEW i \in 1 .. Len(q) - 1
      PROVE  r[i] = IF i < k THEN q[i] ELSE q[i + 1]
  <2>1. r[i] = IF i <= Len(a) THEN a[i] ELSE b[i - Len(a)]
    BY <1>1, <1>2, <1>3, <1>4
  <2>2. CASE i < k
    BY <1>1, <1>2, <2>1, <2>2
  <2>3. CASE i >= k
    <3>1. i - Len(a) \in 1 .. Len(q) - k /\ k + (i - Len(a)) = i + 1
      BY <1>1, <1>2, <2>3
    <3> QED
      BY <1>1, <1>2, <1>3, <2>1, <2>3, <3>1
  <2> QED
    BY <1>1, <2>2, <2>3
<1> QED
  BY <1>5, <1>6 DEF r

\* sleepq_insert() keeps the queue in order.
LEMMA InsertProperties ==
  ASSUME NEW q \in Seq(Thread), NEW k \in 1 .. Len(q) + 1, NEW t \in Thread,
         NEW p \in [Thread -> Pri],
         Distinct(q), Sorted(q, p), ~Queued(q, t), QueuePlace(q, k, t, p)
  PROVE  /\ InsertAt(q, k, t) \in Seq(Thread)
         /\ Distinct(InsertAt(q, k, t)) /\ Sorted(InsertAt(q, k, t), p)
         /\ \A u \in Thread : Queued(InsertAt(q, k, t), u) <=> Queued(q, u) \/ u = t
<1> DEFINE r == InsertAt(q, k, t)
<1>1. Len(q) \in Nat /\ \A i \in 1 .. Len(q) : q[i] \in Thread /\ q[i] # t
  BY DEF Queued
<1>2. /\ r \in Seq(Thread) /\ Len(r) = Len(q) + 1
      /\ \A i \in 1 .. Len(q) + 1 :
           r[i] = IF i < k THEN q[i] ELSE IF i = k THEN t ELSE q[i - 1]
  BY InsertAtElements, ZenonT(30)
<1> HIDE DEF r
<1>3. ASSUME NEW i \in 1 .. Len(q) + 1, NEW j \in 1 .. Len(q) + 1, i < j
      PROVE  r[i] # r[j] /\ p[r[i]] >= p[r[j]]
  <2> DEFINE Old(n) == IF n < k THEN n ELSE n - 1
  <2>1. \A n \in 1 .. Len(q) + 1 : n # k => Old(n) \in 1 .. Len(q) /\ r[n] = q[Old(n)]
    BY <1>1, <1>2
  <2>2. \A u \in Thread : p[u] \in Nat
    BY RWLockAssumption
  <2>3. CASE i # k /\ j # k
    <3>1. Old(i) < Old(j)
      BY <1>1, <1>3, <2>3
    <3> HIDE DEF Old
    <3> QED
      BY <2>1, <2>3, <3>1 DEF Distinct, Sorted
  <2>4. CASE j = k
    <3>1. r[j] = t /\ r[i] = q[i] /\ i \in 1 .. Len(q) /\ i \in 1 .. k - 1
      BY <1>1, <1>2, <1>3, <2>4
    <3> QED
      BY <1>1, <3>1 DEF QueuePlace
  <2>5. CASE i = k
    <3>1. r[i] = t /\ r[j] = q[j - 1] /\ j - 1 \in 1 .. Len(q) /\ k \in 1 .. Len(q) /\ k <= j - 1
      BY <1>1, <1>2, <1>3, <2>5
    <3>2. p[q[k]] < p[t]
      BY <3>1 DEF QueuePlace
    <3>3. k = j - 1 \/ p[q[k]] >= p[q[j - 1]]
      BY <3>1 DEF Sorted
    <3>4. p[q[k]] \in Nat /\ p[t] \in Nat /\ p[q[j - 1]] \in Nat
      BY <1>1, <2>2, <3>1
    <3> QED
      BY <1>1, <3>1, <3>2, <3>3, <3>4
  <2> QED
    BY <2>3, <2>4, <2>5
<1>4. Distinct(r) /\ Sorted(r, p)
  BY <1>1, <1>2, <1>3 DEF Distinct, Sorted
<1>5. ASSUME NEW u \in Thread
      PROVE  Queued(r, u) <=> Queued(q, u) \/ u = t
  <2>1. ASSUME Queued(q, u) PROVE Queued(r, u)
    <3> PICK i \in 1 .. Len(q) : q[i] = u
      BY <2>1 DEF Queued
    <3>1. r[IF i < k THEN i ELSE i + 1] = u
      BY <1>1, <1>2
    <3> QED
      BY <1>1, <1>2, <3>1 DEF Queued
  <2>2. Queued(r, t)
    BY <1>1, <1>2 DEF Queued
  <2>3. ASSUME Queued(r, u), u # t PROVE Queued(q, u)
    <3> PICK i \in 1 .. Len(q) + 1 : r[i] = u
      BY <1>2, <2>3 DEF Queued
    <3>1. q[IF i < k THEN i ELSE i - 1] = u
      BY <1>1, <1>2, <2>3
    <3> QED
      BY <1>1, <1>2, <2>3, <3>1 DEF Queued
  <2> QED
    BY <2>1, <2>2, <2>3
<1> QED
  BY <1>2, <1>4, <1>5 DEF r

\* Taking a thread out of a queue.
LEMMA RemoveProperties ==
  ASSUME NEW q \in Seq(Thread), NEW k \in 1 .. Len(q), NEW p, Distinct(q), Sorted(q, p)
  PROVE  /\ RemoveAt(q, k) \in Seq(Thread)
         /\ Distinct(RemoveAt(q, k)) /\ Sorted(RemoveAt(q, k), p)
         /\ \A u \in Thread : Queued(RemoveAt(q, k), u) <=> Queued(q, u) /\ u # q[k]
<1> DEFINE r == RemoveAt(q, k)
<1>1. /\ Len(q) \in Nat /\ Len(q) - 1 \in Nat
      /\ \A i \in 1 .. Len(q) : q[i] \in Thread
  OBVIOUS
<1>2. /\ r \in Seq(Thread) /\ Len(r) = Len(q) - 1
      /\ \A i \in 1 .. Len(q) - 1 : r[i] = IF i < k THEN q[i] ELSE q[i + 1]
  BY RemoveAtElements
<1> HIDE DEF r
<1>3. Distinct(r) /\ Sorted(r, p)
  <2> DEFINE Old(n) == IF n < k THEN n ELSE n + 1
  <2>1. \A n \in 1 .. Len(q) - 1 : Old(n) \in 1 .. Len(q) /\ r[n] = q[Old(n)]
    BY <1>1, <1>2
  <2>2. \A m, n \in 1 .. Len(q) - 1 : m # n => Old(m) # Old(n)
    BY <1>1
  <2>3. \A m, n \in 1 .. Len(q) - 1 : m < n => Old(m) < Old(n)
    BY <1>1
  <2> HIDE DEF Old
  <2> QED
    BY <1>2, <2>1, <2>2, <2>3, SMTT(30) DEF Distinct, Sorted
<1>4. ASSUME NEW u \in Thread
      PROVE  Queued(r, u) <=> Queued(q, u) /\ u # q[k]
  <2>1. ASSUME Queued(r, u) PROVE Queued(q, u) /\ u # q[k]
    <3> PICK i \in 1 .. Len(r) : r[i] = u
      BY <2>1 DEF Queued
    <3>1. PICK j \in 1 .. Len(q) : j # k /\ q[j] = u
      BY <1>1, <1>2
    <3> QED
      BY <3>1 DEF Queued, Distinct
  <2>2. ASSUME Queued(q, u), u # q[k] PROVE Queued(r, u)
    <3> PICK i \in 1 .. Len(q) : q[i] = u
      BY <2>2 DEF Queued
    <3>1. r[IF i < k THEN i ELSE i - 1] = u
      BY <1>1, <1>2, <2>2
    <3> QED
      BY <1>1, <1>2, <2>2, <3>1 DEF Queued
  <2> QED
    BY <2>1, <2>2
<1> QED
  BY <1>2, <1>3, <1>4 DEF r

\* turnstile_wakeup() takes the first thread off a queue.
LEMMA TailProperties ==
  ASSUME NEW q \in Seq(Thread), NEW p, q # <<>>, Distinct(q), Sorted(q, p)
  PROVE  /\ Tail(q) \in Seq(Thread) /\ Len(Tail(q)) = Len(q) - 1
         /\ \A i \in 1 .. Len(q) - 1 : Tail(q)[i] = q[i + 1]
         /\ Head(q) = q[1] /\ Head(q) \in Thread /\ 1 \in 1 .. Len(q)
         /\ Distinct(Tail(q)) /\ Sorted(Tail(q), p)
         /\ \A u \in Thread : Queued(Tail(q), u) <=> Queued(q, u) /\ u # Head(q)
<1>1. /\ Len(q) \in Nat \ {0}
      /\ Tail(q) \in Seq(Thread) /\ Len(Tail(q)) = Len(q) - 1
      /\ \A i \in 1 .. Len(q) - 1 : Tail(q)[i] = q[i + 1]
      /\ Head(q) = q[1] /\ Head(q) \in Thread
  OBVIOUS
<1>2. Distinct(Tail(q)) /\ Sorted(Tail(q), p)
  BY <1>1 DEF Distinct, Sorted
<1>3. ASSUME NEW u \in Thread
      PROVE  Queued(Tail(q), u) <=> Queued(q, u) /\ u # Head(q)
  <2>1. ASSUME Queued(Tail(q), u) PROVE Queued(q, u) /\ u # Head(q)
    <3> PICK i \in 1 .. Len(q) - 1 : Tail(q)[i] = u
      BY <1>1, <2>1 DEF Queued
    <3> QED
      BY <1>1 DEF Queued, Distinct
  <2>2. ASSUME Queued(q, u), u # Head(q) PROVE Queued(Tail(q), u)
    <3> PICK i \in 1 .. Len(q) : q[i] = u
      BY <2>2 DEF Queued
    <3>1. i - 1 \in 1 .. Len(q) - 1 /\ Tail(q)[i - 1] = q[(i - 1) + 1]
      BY <1>1, <2>2
    <3> QED
      BY <1>1, <3>1 DEF Queued
  <2> QED
    BY <2>1, <2>2
<1> QED
  BY <1>1, <1>2, <1>3

-----------------------------------------------------------------------------
(* Sets of threads.                                                        *)

\* The first n threads of a queue.
First(q, n) == {q[i] : i \in 1 .. n}

\* They are n, and the queue holds others if it is longer.
LEMMA FirstProperties ==
  ASSUME NEW q \in Seq(Thread), NEW n \in 0 .. Len(q), Distinct(q)
  PROVE  /\ First(q, n) \subseteq Thread
         /\ \A t \in First(q, n) : Queued(q, t)
         /\ IsFiniteSet(First(q, n)) /\ Cardinality(First(q, n)) = n
         /\ (\E t \in Thread : Queued(q, t) /\ t \notin First(q, n)) <=> n < Len(q)
<1> DEFINE f == [i \in 1 .. n |-> q[i]]
<1>1. Len(q) \in Nat /\ n \in Nat /\ \A i \in 1 .. n : i \in 1 .. Len(q) /\ q[i] \in Thread
  OBVIOUS
<1>2. f \in [1 .. n -> First(q, n)]
  BY DEF First
<1>3. \A i, j \in 1 .. n : f[i] = f[j] => i = j
  BY <1>1 DEF Distinct
<1>4. \A t \in First(q, n) : \E i \in 1 .. n : f[i] = t
  BY DEF First
<1>5. ExistsBijection(1 .. n, First(q, n))
  BY <1>2, <1>3, <1>4, Fun_IsBij, Fun_ExistsBij, Zenon
<1>6. IsFiniteSet(1 .. n) /\ Cardinality(1 .. n) = n
  BY <1>1, FS_Interval
<1>7. IsFiniteSet(First(q, n)) /\ Cardinality(First(q, n)) = n
  BY <1>5, <1>6, FS_Bijection
<1>8. First(q, n) \subseteq Thread /\ \A t \in First(q, n) : Queued(q, t)
  BY <1>1 DEF First, Queued
<1>9. ASSUME n < Len(q) PROVE \E t \in Thread : Queued(q, t) /\ t \notin First(q, n)
  <2>1. n + 1 \in 1 .. Len(q) /\ q[n + 1] \in Thread /\ \A i \in 1 .. n : q[i] # q[n + 1]
    BY <1>1, <1>9 DEF Distinct
  <2> QED
    BY <2>1 DEF Queued, First
<1>10. n = Len(q) => \A t \in Thread : Queued(q, t) => t \in First(q, n)
  BY DEF Queued, First
<1> QED
  BY <1>1, <1>7, <1>8, <1>9, <1>10

\* The threads to which the lock has been handed are still asleep, and there are
\* none unless somebody holds the chain lock to wake them.
LEMMA GrantedProperties ==
  ASSUME IInv
  PROVE  /\ Granted = First(sleepq[wakeup.q], wakeup.n)
         /\ Granted \subseteq Thread
         /\ \A t \in Granted : pc[t] = "asleep" /\ mode[t] = wakeup.q
         /\ wakeup.n = 0 => Granted = {}
         /\ tc_lock = NoThread => wakeup.n = 0
         /\ \A t \in Thread : pc[t] \in {"setwait", "block", "handoff", "dwakeup"} => wakeup.n = 0
<1>1. /\ wakeup.q \in Mode /\ wakeup.n \in Nat /\ sleepq[wakeup.q] \in Seq(Thread)
      /\ Distinct(sleepq[wakeup.q]) /\ wakeup.n \in 0 .. Len(sleepq[wakeup.q])
  BY DEF IInv, TypeOK, QueueFits, WakeFits
<1>2. Granted = First(sleepq[wakeup.q], wakeup.n)
  BY DEF Granted, First
<1>3. Granted \subseteq Thread /\ \A t \in Granted : Queued(sleepq[wakeup.q], t)
  BY <1>1, <1>2, FirstProperties
<1>4. \A t \in Granted : pc[t] = "asleep" /\ mode[t] = wakeup.q
  BY <1>1, <1>3 DEF IInv, QueueFits
<1>5. wakeup.n = 0 => Granted = {}
  BY <1>2 DEF First
<1>6. /\ tc_lock = NoThread => wakeup.n = 0
      /\ \A t \in Thread : pc[t] \in {"setwait", "block", "handoff", "dwakeup"} => wakeup.n = 0
  BY <1>1, RWLockAssumption DEF IInv, ChainFits, WakeFits
<1> QED
  BY <1>2, <1>3, <1>4, <1>5, <1>6

\* Counting a set to which one element, or a disjoint set, is added or from which
\* one is taken.
LEMMA Counting ==
  ASSUME NEW S, IsFiniteSet(S)
  PROVE  /\ Cardinality(S) \in Nat
         /\ Cardinality(S) = 0 <=> S = {}
         /\ \A t \in S : Cardinality(S) = 1 => S = {t}
         /\ \A t : t \notin S => Cardinality(S \cup {t}) = Cardinality(S) + 1
         /\ \A t \in S : Cardinality(S \ {t}) = Cardinality(S) - 1
         /\ \A T : IsFiniteSet(T) /\ S \cap T = {} =>
              Cardinality(S \cup T) = Cardinality(S) + Cardinality(T)
<1>1. Cardinality(S) \in Nat
  BY FS_CardinalityType
<1>2. Cardinality(S) = 0 <=> S = {}
  BY FS_EmptySet
<1>3. \A t \in S : Cardinality(S) = 1 => S = {t}
  BY FS_Singleton
<1>4. \A t : t \notin S => Cardinality(S \cup {t}) = Cardinality(S) + 1
  BY FS_AddElement
<1>5. \A t \in S : Cardinality(S \ {t}) = Cardinality(S) - 1
  BY FS_RemoveElement
<1>6. ASSUME NEW T, IsFiniteSet(T), S \cap T = {}
      PROVE  Cardinality(S \cup T) = Cardinality(S) + Cardinality(T)
  <2>1. Cardinality(S \cup T) = Cardinality(S) + Cardinality(T) - Cardinality(S \cap T)
    BY <1>6, FS_Union
  <2>2. Cardinality(S \cap T) = 0 /\ Cardinality(T) \in Nat
    BY <1>6, FS_EmptySet, FS_CardinalityType
  <2> QED
    BY <1>1, <2>1, <2>2
<1> QED
  BY <1>1, <1>2, <1>3, <1>4, <1>5, <1>6

\* There are finitely many holders.
LEMMA HoldersFinite == IsFiniteSet(Holders("R"))
  BY RWLockAssumption, FS_Subset DEF Holders

-----------------------------------------------------------------------------
(* What each action does to holders and waiters.                           *)

Effect(hr, hw, wr, ww) ==
  /\ Holders("R")' = hr /\ Holders("W")' = hw
  /\ Waiters("R")' = wr /\ Waiters("W")' = ww

NoEffect == Effect(Holders("R"), Holders("W"), Waiters("R"), Waiters("W"))

\* Threads change places and modes without becoming holders or waiters.
LEMMA NoEffectIf ==
  ASSUME Granted' = Granted,
         \A u \in Thread :
           /\ pc'[u] \in HoldPC \/ u \in Granted <=> pc[u] \in HoldPC \/ u \in Granted
           /\ pc'[u] = "block" \/ (pc'[u] = "asleep" /\ u \notin Granted) <=>
                pc[u] = "block" \/ (pc[u] = "asleep" /\ u \notin Granted)
           /\ mode'[u] = mode[u] \/ (pc[u] \notin HoldPC \cup {"block", "asleep"} /\ u \notin Granted)
  PROVE  NoEffect
  BY DEF NoEffect, Effect, Holders, Waiters

\* A thread that is woken is one of those the lock has been handed to.
LEMMA WakeNextEffect ==
  ASSUME IInv, NEW t \in Thread, WakeNext(t)
  PROVE  LET u == Head(sleepq[wakeup.q])
         IN  /\ u \in Granted /\ u \in Thread /\ Granted' = Granted \ {u}
             /\ pc' = [pc EXCEPT ![u] = "held"] /\ mode' = mode
<1> DEFINE q == sleepq[wakeup.q]
           u == Head(q)
<1>1. /\ wakeup.q \in Mode /\ wakeup.n \in Nat \ {0} /\ q \in Seq(Thread)
      /\ Distinct(q) /\ Sorted(q, pri) /\ wakeup.n <= Len(q) /\ q # <<>>
  BY DEF IInv, TypeOK, QueueFits, WakeFits, WakeNext
<1>2. /\ Tail(q) \in Seq(Thread) /\ Len(Tail(q)) = Len(q) - 1
      /\ \A i \in 1 .. Len(q) - 1 : Tail(q)[i] = q[i + 1]
      /\ u = q[1] /\ u \in Thread
  BY <1>1, TailProperties
<1>3. /\ wakeup'.q = wakeup.q /\ wakeup'.n = wakeup.n - 1 /\ sleepq'[wakeup.q] = Tail(q)
      /\ pc' = [pc EXCEPT ![u] = "held"] /\ mode' = mode
  BY <1>1 DEF WakeNext, IInv, TypeOK
<1>4. u \in Granted
  BY <1>1, <1>2 DEF Granted
<1>5. Granted' = {Tail(q)[i] : i \in 1 .. wakeup.n - 1}
  BY <1>3 DEF Granted
<1>6. \A i \in 1 .. wakeup.n - 1 :
        Tail(q)[i] = q[i + 1] /\ i + 1 \in 1 .. wakeup.n /\ q[i + 1] # q[1]
  BY <1>1, <1>2 DEF Distinct
<1>7. \A i \in 1 .. wakeup.n : q[i] # u => i - 1 \in 1 .. wakeup.n - 1 /\ Tail(q)[i - 1] = q[i]
  BY <1>1, <1>2
<1>8. ASSUME NEW v \in Granted' PROVE v \in Granted \ {u}
  <2>1. PICK i \in 1 .. wakeup.n - 1 : v = Tail(q)[i]
    BY <1>5
  <2>2. v = q[i + 1] /\ i + 1 \in 1 .. wakeup.n /\ v # u
    BY <1>2, <1>6, <2>1
  <2> QED
    BY <2>2 DEF Granted
<1>9. ASSUME NEW v \in Granted \ {u} PROVE v \in Granted'
  <2>1. PICK i \in 1 .. wakeup.n : v = q[i]
    BY DEF Granted
  <2>2. i - 1 \in 1 .. wakeup.n - 1 /\ Tail(q)[i - 1] = v
    BY <1>7, <1>9, <2>1
  <2> QED
    BY <1>5, <2>2
<1> QED
  BY <1>2, <1>3, <1>4, <1>8, <1>9

\* Most steps change neither.
LEMMA QuietSteps ==
  ASSUME IInv, NEW t \in Thread,
         \/ \E m \in Mode : RwEnter(t, m)
         \/ EnterLookup(t) \/ Block(t) \/ RwExitFinal(t) \/ ExitLookup(t)
         \/ WakeNext(t) \/ WakeDone(t) \/ DowngradeLookup(t) \/ DowngradeDone(t)
         \/ \E p \in Pri : ChangePri(t, p)
  PROVE  NoEffect
<1> USE GrantedProperties
<1>1. pc \in [Thread -> Label] /\ mode \in [Thread -> Mode]
  BY DEF IInv, TypeOK
<1>2. CASE \E m \in Mode : RwEnter(t, m)
  BY <1>1, <1>2, NoEffectIf DEF RwEnter, Goto, Granted, turnstile, HoldPC
<1>3. CASE EnterLookup(t)
  BY <1>1, <1>3, NoEffectIf DEF EnterLookup, Goto, Granted, turnstile, HoldPC
<1>4. CASE Block(t)
  <2>1. wakeup.n = 0 /\ wakeup' = wakeup
    BY <1>4 DEF Block
  <2>2. Granted' = Granted
    BY <2>1 DEF Granted
  <2> QED
    BY <1>1, <1>4, <2>2, NoEffectIf DEF Block, Goto, HoldPC
<1>5. CASE RwExitFinal(t)
  BY <1>1, <1>5, NoEffectIf DEF RwExitFinal, Goto, Granted, turnstile, HoldPC
<1>6. CASE ExitLookup(t)
  BY <1>1, <1>6, NoEffectIf DEF ExitLookup, Goto, Granted, turnstile, HoldPC
<1>7. CASE WakeNext(t)
  BY <1>1, <1>7, WakeNextEffect DEF NoEffect, Effect, Holders, Waiters, HoldPC
<1>8. CASE WakeDone(t)
  BY <1>1, <1>8, NoEffectIf DEF WakeDone, Goto, Granted, turnstile, HoldPC
<1>9. CASE DowngradeLookup(t)
  BY <1>1, <1>9, NoEffectIf DEF DowngradeLookup, Goto, Granted, turnstile, HoldPC
<1>10. CASE DowngradeDone(t)
  BY <1>1, <1>10, NoEffectIf DEF DowngradeDone, Goto, Granted, turnstile, HoldPC
<1>11. CASE \E p \in Pri : ChangePri(t, p)
  <2>1. Granted' = Granted
    <3>1. CASE pc[t] = "asleep"
      <4>1. wakeup.n = 0 /\ wakeup' = wakeup
        BY <1>11, <3>1 DEF ChangePri
      <4> QED
        BY <4>1 DEF Granted
    <3>2. CASE pc[t] # "asleep"
      BY <1>11, <3>2 DEF ChangePri, Granted
    <3> QED
      BY <3>1, <3>2
  <2> QED
    BY <1>11, <2>1, NoEffectIf DEF ChangePri
<1> QED
  BY <1>2, <1>3, <1>4, <1>5, <1>6, <1>7, <1>8, <1>9, <1>10, <1>11

\* t neither holds the lock nor waits for it.
Uninvolved(t) ==
  t \notin Holders("R") \cup Holders("W") \cup Waiters("R") \cup Waiters("W")

\* t takes the lock in mode m.
Takes(t, m) ==
  /\ Uninvolved(t)
  /\ m = "R" => Effect(Holders("R") \cup {t}, Holders("W"), Waiters("R"), Waiters("W"))
  /\ m = "W" => Effect(Holders("R"), Holders("W") \cup {t}, Waiters("R"), Waiters("W"))

LEMMA EnterTryEffect ==
  ASSUME IInv, NEW t \in Thread, EnterTry(t)
  PROVE  IF Busy(mode[t]) THEN NoEffect ELSE Takes(t, mode[t])
<1>1. pc \in [Thread -> Label] /\ mode \in [Thread -> Mode]
  BY DEF IInv, TypeOK
<1>2. Granted' = Granted /\ mode' = mode /\ t \notin Granted
  BY GrantedProperties DEF EnterTry, turnstile, Granted
<1>3. CASE Busy(mode[t])
  BY <1>1, <1>2, <1>3, NoEffectIf DEF EnterTry, Goto, HoldPC
<1>4. CASE ~Busy(mode[t])
  <2>1. pc[t] = "enter" /\ pc' = [pc EXCEPT ![t] = "held"]
    BY <1>4 DEF EnterTry, Goto
  <2>2. Uninvolved(t)
    BY <1>2, <2>1 DEF Uninvolved, Holders, Waiters, HoldPC
  <2> QED
    BY <1>1, <1>2, <1>4, <2>1, <2>2 DEF Takes, Effect, Holders, Waiters, HoldPC
<1> QED
  BY <1>3, <1>4

LEMMA RwTryenterEffect ==
  ASSUME IInv, NEW t \in Thread, NEW m \in Mode, RwTryenter(t, m)
  PROVE  Takes(t, m)
<1>1. pc \in [Thread -> Label] /\ mode \in [Thread -> Mode]
  BY DEF IInv, TypeOK
<1>2. Granted' = Granted /\ t \notin Granted
  BY GrantedProperties DEF RwTryenter, turnstile, Granted
<1>3. /\ pc[t] = "idle" /\ pc' = [pc EXCEPT ![t] = "held"]
      /\ mode' = [mode EXCEPT ![t] = m]
  BY DEF RwTryenter, Goto
<1>4. Uninvolved(t)
  BY <1>2, <1>3 DEF Uninvolved, Holders, Waiters, HoldPC
<1> QED
  BY <1>1, <1>2, <1>3, <1>4 DEF Takes, Effect, Holders, Waiters, HoldPC

LEMMA SetWaitEffect ==
  ASSUME IInv, NEW t \in Thread, SetWait(t)
  PROVE  /\ Uninvolved(t)
         /\ ~Busy(mode[t]) => NoEffect
         /\ Busy(mode[t]) /\ mode[t] = "R" =>
              Effect(Holders("R"), Holders("W"), Waiters("R") \cup {t}, Waiters("W"))
         /\ Busy(mode[t]) /\ mode[t] = "W" =>
              Effect(Holders("R"), Holders("W"), Waiters("R"), Waiters("W") \cup {t})
<1>1. pc \in [Thread -> Label] /\ mode \in [Thread -> Mode]
  BY DEF IInv, TypeOK
<1>2. Granted' = Granted /\ mode' = mode /\ t \notin Granted
  BY GrantedProperties DEF SetWait, turnstile, Granted
<1>3. /\ pc[t] = "setwait"
      /\ pc' = [pc EXCEPT ![t] = IF Busy(mode[t]) THEN "block" ELSE "enter"]
  BY DEF SetWait, Goto
<1>4. Uninvolved(t)
  BY <1>2, <1>3 DEF Uninvolved, Holders, Waiters, HoldPC
<1>5. CASE ~Busy(mode[t])
  BY <1>1, <1>2, <1>3, <1>4, <1>5, NoEffectIf DEF HoldPC
<1>6. CASE Busy(mode[t])
  BY <1>1, <1>2, <1>3, <1>4, <1>6 DEF Effect, Holders, Waiters, HoldPC
<1> QED
  BY <1>4, <1>5, <1>6

\* A thread with a writer's hold is alone, and one with a reader's hold is alone if
\* the count is 1.
LEMMA HolderAlone ==
  ASSUME IInv, NEW t \in Thread, pc[t] \in HoldPC
  PROVE  /\ mode[t] = "W" => /\ Holders("W") = {t} /\ Holders("R") = {}
                             /\ rw_owner = t /\ rw_count = 0
         /\ mode[t] = "R" => /\ t \in Holders("R") /\ Holders("W") = {}
                             /\ rw_owner = NoThread /\ rw_count \in Nat \ {0}
                             /\ rw_count = 1 => Holders("R") = {t}
         /\ t \notin Waiters("R") \cup Waiters("W")
<1>1. /\ rw_owner \in Thread \cup {NoThread, DeadLock} /\ mode[t] \in Mode
      /\ Holders("W") = {rw_owner} \cap Thread /\ rw_count = Cardinality(Holders("R"))
      /\ Holders("W") = {} \/ Holders("R") = {}
  BY DEF IInv, TypeOK, WordMatchesHolders
<1>2. t \in Holders(mode[t])
  BY DEF Holders
<1>3. rw_owner # DeadLock
  BY DEF IInv, DeadFits, HoldPC
<1>4. t \notin Waiters("R") \cup Waiters("W")
  BY DEF Waiters, HoldPC
<1>5. CASE mode[t] = "W"
  BY <1>1, <1>2, <1>4, <1>5, HoldersFinite, Counting
<1>6. CASE mode[t] = "R"
  BY <1>1, <1>2, <1>3, <1>4, <1>6, HoldersFinite, Counting
<1> QED
  BY <1>1, <1>5, <1>6 DEF Mode

LEMMA RwExitEffect ==
  ASSUME IInv, NEW t \in Thread, RwExit(t)
  PROVE  /\ mode[t] = "R" =>
              Effect(Holders("R") \ {t}, Holders("W"), Waiters("R"), Waiters("W"))
         /\ mode[t] = "W" => Effect(Holders("R"), {}, Waiters("R"), Waiters("W"))
<1>1. pc \in [Thread -> Label] /\ mode \in [Thread -> Mode]
  BY DEF IInv, TypeOK
<1>2. Granted' = Granted /\ mode' = mode /\ t \notin Granted
  BY GrantedProperties DEF RwExit, turnstile, Granted
<1>3. pc[t] = "held" /\ pc' = [pc EXCEPT ![t] = "idle"]
  BY DEF RwExit, Goto
<1>4. mode[t] = "W" => Holders("W") = {t}
  BY <1>3, HolderAlone DEF HoldPC
<1>5. /\ mode[t] = "R" =>
           Effect(Holders("R") \ {t}, Holders("W"), Waiters("R"), Waiters("W"))
      /\ mode[t] = "W" =>
           Effect(Holders("R"), Holders("W") \ {t}, Waiters("R"), Waiters("W"))
  BY <1>1, <1>2, <1>3 DEF Effect, Holders, Waiters, HoldPC
<1> QED
  BY <1>4, <1>5 DEF Effect

\* Under the chain lock nobody is between its decision to block and its sleep, and
\* no wakeup is under way: the waiters are the threads in the queues.
LEMMA QueuesAreWaiters ==
  ASSUME IInv, NEW t \in Thread, pc[t] \in {"handoff", "dwakeup"}
  PROVE  /\ Granted = {}
         /\ \A m \in Mode : Waiters(m) = {u \in Thread : Queued(sleepq[m], u)}
<1>1. Granted = {}
  BY GrantedProperties
<1>2. \A u \in Thread : pc[u] # "block"
  BY DEF IInv, ChainFits
<1>3. ASSUME NEW m \in Mode, NEW u \in Thread
      PROVE  Queued(sleepq[m], u) <=> pc[u] = "asleep" /\ mode[u] = m
  BY DEF IInv, QueueFits
<1> QED
  BY <1>1, <1>2, <1>3 DEF Waiters

\* Readers to wake are blocked readers, and all of them if no writer is blocked.
LEMMA ReadersToWakeProperties ==
  ASSUME IInv, NEW n \in 0 .. Len(sleepq["R"]), ReadersToWake(n)
  PROVE  /\ sleepq["R"] \in Seq(Thread) /\ sleepq["W"] \in Seq(Thread)
         /\ First(sleepq["R"], n) \subseteq {u \in Thread : Queued(sleepq["R"], u)}
         /\ IsFiniteSet(First(sleepq["R"], n)) /\ Cardinality(First(sleepq["R"], n)) = n
         /\ {u \in Thread : Queued(sleepq["R"], u)} \ First(sleepq["R"], n) = {} <=>
              n = Len(sleepq["R"])
         /\ {u \in Thread : Queued(sleepq["W"], u)} = {} <=> sleepq["W"] = <<>>
         /\ sleepq["W"] = <<>> => n = Len(sleepq["R"])
<1> DEFINE R == sleepq["R"]
           W == sleepq["W"]
<1>1. /\ R \in Seq(Thread) /\ W \in Seq(Thread) /\ Distinct(R) /\ Distinct(W)
      /\ pri \in [Thread -> Pri] /\ Len(R) \in Nat /\ Len(W) \in Nat
  BY DEF IInv, TypeOK, QueueFits, Mode
<1>2. /\ First(R, n) \subseteq Thread /\ \A u \in First(R, n) : Queued(R, u)
      /\ IsFiniteSet(First(R, n)) /\ Cardinality(First(R, n)) = n
      /\ (\E u \in Thread : Queued(R, u) /\ u \notin First(R, n)) <=> n < Len(R)
  BY <1>1, FirstProperties
<1>3. {u \in Thread : Queued(W, u)} = {} <=> W = <<>>
  <2>1. W # <<>> => 1 \in 1 .. Len(W) /\ W[1] \in Thread
    BY <1>1
  <2>2. W = <<>> => 1 .. Len(W) = {}
    OBVIOUS
  <2> QED
    BY <2>1, <2>2 DEF Queued
<1>4. ASSUME W = <<>> PROVE n = Len(R)
  <2>1. n < Len(R) => pri[R[n + 1]] < 0
    BY <1>4 DEF ReadersToWake
  <2>2. n < Len(R) => n + 1 \in 1 .. Len(R) /\ R[n + 1] \in Thread
    BY <1>1
  <2>3. \A u \in Thread : pri[u] \in Nat
    BY <1>1, RWLockAssumption
  <2> QED
    BY <1>1, <2>1, <2>2, <2>3
<1> QED
  BY <1>1, <1>2, <1>3, <1>4

\* The thread that hands the lock over is its only holder.
LEMMA HandoffAlone ==
  ASSUME IInv, NEW t \in Thread, pc[t] \in {"xlookup", "handoff"}
  PROVE  \A u \in Thread : pc[u] \in HoldPC => u = t
<1>1. pc \in [Thread -> Label] /\ mode \in [Thread -> Mode]
  BY DEF IInv, TypeOK
<1>2. mode[t] = "R" => rw_count = 1
  BY DEF IInv, FinalFits
<1>3. \A u \in Thread : pc[u] \in HoldPC => u \in Holders("R") \cup Holders("W")
  BY <1>1 DEF Holders, Mode
<1> QED
  BY <1>1, <1>2, <1>3, HolderAlone DEF HoldPC, Mode

\* The lock is handed over to a waiting writer or, by a writer only, to waiting
\* readers; its holder was alone and is no holder any more.
LEMMA HandoffEffect ==
  ASSUME IInv, NEW t \in Thread, Handoff(t)
  PROVE  LET R == sleepq["R"]
             W == sleepq["W"]
         IN  \/ /\ mode[t] = "W"
                /\ \E n \in 1 .. Len(R) :
                     /\ ReadersToWake(n) /\ GrantReaders(n)
                     /\ Effect(First(R, n), {}, Waiters("R") \ First(R, n), Waiters("W"))
                     /\ First(R, n) # {} /\ First(R, n) \subseteq Waiters("R")
                     /\ Granted' = First(R, n)
             \/ /\ W # <<>> /\ GrantWriter
                /\ Effect({}, {Head(W)}, Waiters("R"), Waiters("W") \ {Head(W)})
                /\ Head(W) \in Waiters("W") /\ Granted' = {Head(W)}
                /\ mode[t] = "W" => ReadersToWake(0)
<1> DEFINE R == sleepq["R"]
           W == sleepq["W"]
<1>1. pc \in [Thread -> Label] /\ mode \in [Thread -> Mode]
  BY DEF IInv, TypeOK
<1>2. /\ pc[t] = "handoff" /\ pc' = [pc EXCEPT ![t] = "wake"]
      /\ mode' = mode /\ sleepq' = sleepq
  BY DEF Handoff, Goto
<1>3. /\ Granted = {} /\ Waiters("R") = {u \in Thread : Queued(R, u)}
      /\ Waiters("W") = {u \in Thread : Queued(W, u)}
  BY <1>2, QueuesAreWaiters DEF Mode
<1>4. \A u \in Thread : pc[u] \in HoldPC => u = t
  BY <1>2, HandoffAlone
<1>5. \A u \in Thread : Queued(R, u) => mode[u] = "R" /\ pc[u] = "asleep"
  BY DEF IInv, QueueFits, Mode
<1>6. \A u \in Thread : Queued(W, u) => mode[u] = "W" /\ pc[u] = "asleep"
  BY DEF IInv, QueueFits, Mode
<1>7. PICK n \in 0 .. Len(R) :
        /\ ReadersToWake(n)
        /\ IF mode[t] = "W" /\ n > 0 THEN GrantReaders(n) ELSE GrantWriter
  BY DEF Handoff
<1>8. /\ R \in Seq(Thread) /\ W \in Seq(Thread) /\ First(R, n) \subseteq Waiters("R")
      /\ IsFiniteSet(First(R, n)) /\ Cardinality(First(R, n)) = n
      /\ Waiters("R") \ First(R, n) = {} <=> n = Len(R)
      /\ Waiters("W") = {} <=> W = <<>>
      /\ W = <<>> => n = Len(R)
  BY <1>3, <1>7, ReadersToWakeProperties
<1>9. CASE mode[t] = "W" /\ n > 0
  <2>1. n \in 1 .. Len(R) /\ GrantReaders(n)
    BY <1>7, <1>9
  <2>2. Granted' = First(R, n)
    BY <1>2, <2>1 DEF GrantReaders, Granted, First
  <2>3. First(R, n) # {}
    BY <1>8, <1>9, FS_EmptySet
  <2>4. Effect(First(R, n), {}, Waiters("R") \ First(R, n), Waiters("W"))
    BY <1>1, <1>2, <1>3, <1>4, <1>5, <1>6, <1>8, <2>2 DEF Effect, Holders, Waiters, HoldPC
  <2> QED
    BY <1>7, <1>8, <1>9, <2>1, <2>2, <2>3, <2>4
<1>10. CASE ~(mode[t] = "W" /\ n > 0)
  <2>1. GrantWriter /\ (mode[t] = "W" => ReadersToWake(0))
    BY <1>7, <1>10
  <2>2. W # <<>>
    <3>1. rw_wait /\ (mode[t] = "R" => rw_want)
      BY <1>2 DEF IInv, FinalFits
    <3>2. Waiters("R") \cup Waiters("W") # {} /\ (mode[t] = "R" => Waiters("W") # {})
      BY <3>1 DEF IInv, BitsMatchWaiters
    <3>3. n = 0 /\ W = <<>> => Waiters("R") = {} /\ Waiters("W") = {}
      <4>1. n = 0 => First(R, n) = {}
        BY DEF First
      <4> QED
        BY <1>8, <4>1
    <3> QED
      BY <1>1, <1>8, <1>10, <3>2, <3>3 DEF Mode
  <2>3. Head(W) \in Thread /\ Head(W) = W[1] /\ Queued(W, Head(W))
    BY <1>8, <2>2 DEF Queued
  <2>4. Granted' = {Head(W)}
    BY <1>2, <2>1, <2>3 DEF GrantWriter, Granted
  <2>5. Effect({}, {Head(W)}, Waiters("R"), Waiters("W") \ {Head(W)})
    BY <1>1, <1>2, <1>3, <1>4, <1>5, <1>6, <2>3, <2>4 DEF Effect, Holders, Waiters, HoldPC
  <2> QED
    BY <1>3, <2>1, <2>2, <2>3, <2>4, <2>5
<1> QED
  BY <1>9, <1>10

\* A downgrade makes a reader of the writer.
LEMMA RwDowngradeEffect ==
  ASSUME IInv, NEW t \in Thread, RwDowngrade(t)
  PROVE  Effect({t}, {}, Waiters("R"), Waiters("W"))
<1>1. pc \in [Thread -> Label] /\ mode \in [Thread -> Mode]
  BY DEF IInv, TypeOK
<1>2. Granted' = Granted /\ t \notin Granted
  BY GrantedProperties DEF RwDowngrade, turnstile, Granted
<1>3. /\ pc[t] = "held" /\ mode[t] = "W" /\ mode' = [mode EXCEPT ![t] = "R"]
      /\ pc' = [pc EXCEPT ![t] = IF rw_wait THEN "dlookup" ELSE "held"]
  BY DEF RwDowngrade, Goto
<1>4. Holders("W") = {t} /\ Holders("R") = {}
  BY <1>3, HolderAlone DEF HoldPC
<1>5. Effect(Holders("R") \cup {t}, Holders("W") \ {t}, Waiters("R"), Waiters("W"))
  BY <1>1, <1>2, <1>3 DEF Effect, Holders, Waiters, HoldPC
<1> QED
  BY <1>4, <1>5 DEF Effect

\* Then it lets waiting readers in.
LEMMA DowngradeGrantEffect ==
  ASSUME IInv, NEW t \in Thread, DowngradeGrant(t),
         NEW n \in 0 .. Len(sleepq["R"]), ReadersToWake(n), wakeup' = [q |-> "R", n |-> n]
  PROVE  LET S == First(sleepq["R"], n)
         IN  /\ Effect(Holders("R") \cup S, {}, Waiters("R") \ S, Waiters("W"))
             /\ Granted' = S /\ S \subseteq Waiters("R") /\ Granted = {}
             /\ Holders("W") = {} /\ t \in Holders("R")
<1> DEFINE S == First(sleepq["R"], n)
<1>1. pc \in [Thread -> Label] /\ mode \in [Thread -> Mode]
  BY DEF IInv, TypeOK
<1>2. /\ pc[t] = "dwakeup" /\ pc' = [pc EXCEPT ![t] = "dwake"]
      /\ mode' = mode /\ sleepq' = sleepq
  BY DEF DowngradeGrant, Goto
<1>3. Granted = {} /\ Waiters("R") = {u \in Thread : Queued(sleepq["R"], u)}
  BY <1>2, QueuesAreWaiters DEF Mode
<1>4. S \subseteq Waiters("R")
  BY <1>3, ReadersToWakeProperties
<1>5. Granted' = S
  BY <1>2 DEF Granted, First
<1>6. \A u \in S : u \in Thread /\ mode[u] = "R" /\ pc[u] = "asleep"
  BY <1>3, <1>4 DEF IInv, QueueFits, Mode
<1>7. Holders("W") = {} /\ t \in Holders("R")
  BY <1>2, HolderAlone DEF HoldPC, IInv, DowngradeFits
<1>8. Effect(Holders("R") \cup S, Holders("W"), Waiters("R") \ S, Waiters("W"))
  <2> HIDE DEF S
  <2> QED
    BY <1>1, <1>2, <1>3, <1>5, <1>6 DEF Effect, Holders, Waiters, HoldPC
<1> QED
  BY <1>3, <1>4, <1>5, <1>7, <1>8

\* An upgrade makes a writer of the only reader.
LEMMA RwTryupgradeEffect ==
  ASSUME IInv, NEW t \in Thread, RwTryupgrade(t)
  PROVE  Effect({}, {t}, Waiters("R"), Waiters("W")) /\ Holders("R") = {t}
<1>1. pc \in [Thread -> Label] /\ mode \in [Thread -> Mode]
  BY DEF IInv, TypeOK
<1>2. Granted' = Granted /\ t \notin Granted
  BY GrantedProperties DEF RwTryupgrade, turnstile, Granted
<1>3. pc[t] = "held" /\ mode[t] = "R" /\ mode' = [mode EXCEPT ![t] = "W"] /\ pc' = pc
  BY DEF RwTryupgrade
<1>4. Holders("W") = {} /\ Holders("R") = {t}
  BY <1>3, HolderAlone DEF HoldPC, RwTryupgrade
<1>5. Effect(Holders("R") \ {t}, Holders("W") \cup {t}, Waiters("R"), Waiters("W"))
  BY <1>1, <1>2, <1>3 DEF Effect, Holders, Waiters, HoldPC
<1> QED
  BY <1>4, <1>5 DEF Effect

\* A lock nobody uses has neither holders nor waiters.
LEMMA IdleEffect ==
  ASSUME IInv, RwDestroy \/ RwInit
  PROVE  NoEffect /\ Holders("R") = {} /\ Holders("W") = {} /\ Waiters("R") = {}
         /\ Waiters("W") = {} /\ \A t \in Thread : pc[t] = "idle"
<1>1. Granted' = Granted /\ pc' = pc /\ mode' = mode
  BY DEF RwDestroy, RwInit, turnstile, Granted
<1>2. \A t \in Thread : pc[t] = "idle"
  BY DEF RwDestroy, RwInit, IInv, DeadFits
<1>3. Granted = {}
  BY <1>2, GrantedProperties
<1> QED
  BY <1>1, <1>2, <1>3 DEF NoEffect, Effect, Holders, Waiters, HoldPC

-----------------------------------------------------------------------------
(* The word and the holders.                                               *)

\* Counting two queues.
LEMMA QueueCount ==
  ASSUME NEW r \in Nat, NEW w \in Nat, NEW n \in 0 .. r
  PROVE  /\ r + w > n <=> n # r \/ w # 0
         /\ r + w = n <=> n = r /\ w = 0
         /\ w > 0 => (r + w > 1 <=> r > 0 \/ w > 1)
  OBVIOUS

\* What the word has to say after a step with a given effect.
LEMMA WordFits ==
  ASSUME NEW hr, NEW hw, NEW wr, NEW ww, Effect(hr, hw, wr, ww),
         hw = {rw_owner'} \cap Thread, rw_count' = Cardinality(hr), hw = {} \/ hr = {},
         rw_wait' <=> wr \cup ww # {}, rw_want' <=> ww # {}, rw_wait' \/ rw_want' => Locked'
  PROVE  (WordMatchesHolders /\ BitsMatchWaiters)'
  BY Zenon DEF Effect, WordMatchesHolders, BitsMatchWaiters

\* The word says so when a thread takes the lock.
LEMMA TakesWord ==
  ASSUME IInv, NEW t \in Thread, NEW m \in Mode, ~Busy(m), AddLock(t, m), Takes(t, m)
  PROVE  (WordMatchesHolders /\ BitsMatchWaiters)'
<1>1. /\ rw_owner \in Thread \cup {NoThread, DeadLock} /\ rw_count \in Nat
      /\ Holders("W") = {rw_owner} \cap Thread /\ rw_count = Cardinality(Holders("R"))
      /\ rw_wait <=> Waiters("R") \cup Waiters("W") # {}
      /\ rw_want <=> Waiters("W") # {}
  BY DEF IInv, TypeOK, WordMatchesHolders, BitsMatchWaiters
<1>2. rw_owner = NoThread /\ Holders("W") = {}
  BY <1>1, RWLockAssumption DEF Busy, Locked, WriteClaimed
<1>3. /\ Waiters("R")' = Waiters("R") /\ Waiters("W")' = Waiters("W")
      /\ rw_wait' = rw_wait /\ rw_want' = rw_want /\ t \notin Holders("R")
  BY DEF Takes, Effect, AddLock, Mode, Uninvolved
<1>4. CASE m = "R"
  <2>1. /\ Holders("R")' = Holders("R") \cup {t} /\ Holders("W")' = {}
        /\ rw_owner' = NoThread /\ rw_count' = rw_count + 1
    BY <1>2, <1>4 DEF Takes, Effect, AddLock
  <2>2. Cardinality(Holders("R") \cup {t}) = Cardinality(Holders("R")) + 1
    BY <1>3, HoldersFinite, Counting
  <2>3. {rw_owner'} \cap Thread = {} /\ Locked'
    BY <1>1, <2>1, RWLockAssumption DEF Locked
  <2>4. Effect(Holders("R") \cup {t}, {}, Waiters("R"), Waiters("W"))
    BY <1>3, <2>1 DEF Effect
  <2> QED
    BY <1>1, <1>3, <2>1, <2>2, <2>3, <2>4, WordFits
<1>5. CASE m = "W"
  <2>1. /\ Holders("R")' = Holders("R") /\ Holders("W")' = {t}
        /\ rw_owner' = t /\ rw_count' = rw_count
    BY <1>2, <1>5 DEF Takes, Effect, AddLock
  <2>2. Holders("R") = {}
    BY <1>1, <1>5, HoldersFinite, Counting DEF Busy, Locked
  <2> QED
    BY <1>1, <1>3, <2>1, <2>2, RWLockAssumption DEF WordMatchesHolders, BitsMatchWaiters, Locked
<1> QED
  BY <1>4, <1>5 DEF Mode

\* And when one drops it, which it does only if others hold it or nobody waits.
LEMMA RwExitWord ==
  ASSUME IInv, NEW t \in Thread, RwExit(t)
  PROVE  (WordMatchesHolders /\ BitsMatchWaiters)'
<1>1. /\ rw_owner \in Thread \cup {NoThread, DeadLock} /\ rw_count \in Nat /\ mode[t] \in Mode
      /\ Holders("W") = {rw_owner} \cap Thread /\ rw_count = Cardinality(Holders("R"))
      /\ rw_wait <=> Waiters("R") \cup Waiters("W") # {}
      /\ rw_want <=> Waiters("W") # {}
  BY DEF IInv, TypeOK, WordMatchesHolders, BitsMatchWaiters
<1>2. /\ pc[t] = "held" /\ ~(FinalExit(t) /\ rw_wait)
      /\ rw_wait' = rw_wait /\ rw_want' = rw_want
  BY DEF RwExit
<1>3. CASE mode[t] = "R"
  <2>1. /\ Holders("R")' = Holders("R") \ {t} /\ Holders("W")' = Holders("W")
        /\ Waiters("R")' = Waiters("R") /\ Waiters("W")' = Waiters("W")
        /\ rw_owner' = rw_owner /\ rw_count' = rw_count - 1
    BY <1>3, RwExitEffect DEF Effect, RwExit
  <2>2. /\ t \in Holders("R") /\ Holders("W") = {} /\ rw_count \in Nat \ {0}
        /\ Cardinality(Holders("R") \ {t}) = Cardinality(Holders("R")) - 1
    BY <1>2, <1>3, HolderAlone, HoldersFinite, Counting DEF HoldPC
  <2>3. rw_count > 1 \/ ~rw_wait
    BY <1>2, <1>3, <2>2 DEF FinalExit
  <2>4. /\ {rw_owner'} \cap Thread = {} /\ rw_count' = Cardinality(Holders("R") \ {t})
        /\ Locked' \/ ~rw_wait
    BY <1>1, <2>1, <2>2, <2>3 DEF Locked
  <2>5. Effect(Holders("R") \ {t}, {}, Waiters("R"), Waiters("W"))
    BY <2>1, <2>2 DEF Effect
  <2>6. rw_wait' \/ rw_want' => Locked'
    BY <1>1, <1>2, <2>4
  <2> QED
    BY <1>1, <1>2, <2>4, <2>5, <2>6, WordFits
<1>4. CASE mode[t] = "W"
  <2>1. /\ Holders("R")' = Holders("R") /\ Holders("W")' = {}
        /\ Waiters("R")' = Waiters("R") /\ Waiters("W")' = Waiters("W")
        /\ rw_owner' = NoThread /\ rw_count' = rw_count
    BY <1>4, RwExitEffect DEF Effect, RwExit
  <2>2. ~rw_wait
    BY <1>2, <1>4 DEF FinalExit
  <2> QED
    BY <1>1, <1>2, <2>1, <2>2, RWLockAssumption DEF WordMatchesHolders, BitsMatchWaiters, Locked
<1> QED
  BY <1>1, <1>3, <1>4 DEF Mode

\* And when a writer becomes a reader, or the only reader a writer.
LEMMA ConversionWord ==
  ASSUME IInv, NEW t \in Thread, RwDowngrade(t) \/ RwTryupgrade(t)
  PROVE  (WordMatchesHolders /\ BitsMatchWaiters)'
<1>1. /\ rw_wait <=> Waiters("R") \cup Waiters("W") # {}
      /\ rw_want <=> Waiters("W") # {}
  BY DEF IInv, BitsMatchWaiters
<1>2. Cardinality({t}) = 1 /\ Cardinality({}) = 0
  BY FS_Singleton, FS_EmptySet
<1>3. CASE RwDowngrade(t)
  <2>1. /\ Holders("R")' = {t} /\ Holders("W")' = {}
        /\ Waiters("R")' = Waiters("R") /\ Waiters("W")' = Waiters("W")
    BY <1>3, RwDowngradeEffect DEF Effect
  <2>2. rw_owner' = NoThread /\ rw_count' = 1 /\ rw_wait' = rw_wait /\ rw_want' = rw_want
    BY <1>3 DEF RwDowngrade
  <2> QED
    BY <1>1, <1>2, <2>1, <2>2, RWLockAssumption DEF WordMatchesHolders, BitsMatchWaiters, Locked
<1>4. CASE RwTryupgrade(t)
  <2>1. /\ Holders("R")' = {} /\ Holders("W")' = {t}
        /\ Waiters("R")' = Waiters("R") /\ Waiters("W")' = Waiters("W")
    BY <1>4, RwTryupgradeEffect DEF Effect
  <2>2. rw_owner' = t /\ rw_count' = 0 /\ rw_wait' = rw_wait /\ rw_want' = rw_want
    BY <1>4 DEF RwTryupgrade
  <2> QED
    BY <1>1, <1>2, <2>1, <2>2, RWLockAssumption DEF WordMatchesHolders, BitsMatchWaiters, Locked
<1> QED
  BY <1>3, <1>4

\* And when the lock is handed over: the bits stay set for those who go on waiting.
LEMMA HandoffWord ==
  ASSUME IInv, NEW t \in Thread, Handoff(t)
  PROVE  (WordMatchesHolders /\ BitsMatchWaiters)'
<1> DEFINE R == sleepq["R"]
           W == sleepq["W"]
<1>1. /\ R \in Seq(Thread) /\ W \in Seq(Thread) /\ Len(R) \in Nat /\ Len(W) \in Nat
      /\ TsWaiters = Len(R) + Len(W)
  BY DEF IInv, TypeOK, Mode, TsWaiters
<1>2. /\ Waiters("R") = {u \in Thread : Queued(R, u)}
      /\ Waiters("W") = {u \in Thread : Queued(W, u)}
  BY QueuesAreWaiters DEF Mode, Handoff
<1>3. ASSUME NEW n \in 1 .. Len(R), ReadersToWake(n), GrantReaders(n),
             Effect(First(R, n), {}, Waiters("R") \ First(R, n), Waiters("W"))
      PROVE  (WordMatchesHolders /\ BitsMatchWaiters)'
  <2>1. /\ Cardinality(First(R, n)) = n
        /\ Waiters("R") \ First(R, n) = {} <=> n = Len(R)
        /\ Waiters("W") = {} <=> W = <<>>
    BY <1>1, <1>2, <1>3, ReadersToWakeProperties
  <2>2. W = <<>> <=> Len(W) = 0
    BY <1>1
  <2>3. /\ rw_count' = n /\ rw_owner' = NoThread /\ rw_wait' = (Len(R) + Len(W) > n)
        /\ rw_want' = (W # <<>>)
    BY <1>1, <1>3 DEF GrantReaders
  <2>4. {rw_owner'} \cap Thread = {} /\ Locked'
    BY <1>3, <2>3, RWLockAssumption DEF Locked
  <2>5. Len(R) + Len(W) > n <=> n # Len(R) \/ W # <<>>
    <3>1. n \in 0 .. Len(R)
      OBVIOUS
    <3> HIDE DEF R, W
    <3> QED
      BY <1>1, <2>2, <3>1, QueueCount
  <2>6. /\ rw_wait' <=> (Waiters("R") \ First(R, n)) \cup Waiters("W") # {}
        /\ rw_want' <=> Waiters("W") # {}
        /\ rw_count' = Cardinality(First(R, n))
    BY <2>1, <2>3, <2>5
  <2>7. Effect(First(R, n), {}, Waiters("R") \ First(R, n), Waiters("W"))
    BY <1>3
  <2> HIDE DEF R, W
  <2> QED
    BY <2>4, <2>6, <2>7, WordFits, Zenon
<1>4. ASSUME W # <<>>, GrantWriter,
             Effect({}, {Head(W)}, Waiters("R"), Waiters("W") \ {Head(W)})
      PROVE  (WordMatchesHolders /\ BitsMatchWaiters)'
  <2>1. Distinct(R) /\ Distinct(W) /\ 0 \in 0 .. Len(R) /\ 1 \in 1 .. Len(W) /\ 1 \in 0 .. Len(W)
    BY <1>1, <1>4 DEF IInv, QueueFits, Mode
  <2>2. Head(W) \in Thread /\ First(W, 1) = {Head(W)}
    BY <1>1, <1>4 DEF First
  <2>3. (\E u \in Thread : Queued(W, u) /\ u \notin First(W, 1)) <=> 1 < Len(W)
    BY <1>1, <2>1, FirstProperties
  <2>4. (\E u \in Thread : Queued(R, u) /\ u \notin First(R, 0)) <=> 0 < Len(R)
    BY <1>1, <2>1, FirstProperties
  <2>5. First(R, 0) = {}
    BY DEF First
  <2>6. /\ Waiters("R") # {} <=> Len(R) > 0
        /\ Waiters("W") \ {Head(W)} # {} <=> Len(W) > 1
    BY <1>1, <1>2, <2>2, <2>3, <2>4, <2>5
  <2>7. /\ rw_count' = 0 /\ rw_owner' = Head(W) /\ rw_wait' = (Len(R) + Len(W) > 1)
        /\ rw_want' = (Len(W) > 1) /\ Len(W) > 0
    BY <1>1, <1>4, <2>1 DEF GrantWriter
  <2>8. Cardinality({}) = 0
    BY FS_EmptySet
  <2>9. {rw_owner'} \cap Thread = {Head(W)} /\ Locked'
    BY <2>2, <2>7, RWLockAssumption DEF Locked
  <2>10. Len(R) + Len(W) > 1 <=> Len(R) > 0 \/ Len(W) > 1
    <3> HIDE DEF R, W
    <3> QED
      BY <1>1, <2>1, <2>7, QueueCount
  <2>11. /\ rw_wait' <=> Waiters("R") \cup (Waiters("W") \ {Head(W)}) # {}
         /\ rw_want' <=> Waiters("W") \ {Head(W)} # {}
         /\ rw_count' = Cardinality({})
    BY <2>6, <2>7, <2>8, <2>10
  <2>12. Effect({}, {Head(W)}, Waiters("R"), Waiters("W") \ {Head(W)})
    BY <1>4
  <2> HIDE DEF R, W
  <2> QED
    BY <2>9, <2>11, <2>12, WordFits, Zenon
<1> QED
  BY <1>3, <1>4, HandoffEffect

\* And when a downgraded hold lets readers in.
LEMMA DowngradeGrantWord ==
  ASSUME IInv, NEW t \in Thread, DowngradeGrant(t)
  PROVE  (WordMatchesHolders /\ BitsMatchWaiters)'
<1> DEFINE R == sleepq["R"]
           W == sleepq["W"]
<1>1. /\ R \in Seq(Thread) /\ W \in Seq(Thread) /\ Len(R) \in Nat /\ Len(W) \in Nat
      /\ TsWaiters = Len(R) + Len(W) /\ rw_count \in Nat
  BY DEF IInv, TypeOK, Mode, TsWaiters
<1>2. /\ Waiters("R") = {u \in Thread : Queued(R, u)}
      /\ Waiters("W") = {u \in Thread : Queued(W, u)}
  BY QueuesAreWaiters DEF Mode, DowngradeGrant
<1>3. PICK n \in 0 .. Len(R) :
        /\ ReadersToWake(n) /\ rw_count' = rw_count + n
        /\ rw_wait' = (rw_wait /\ ~(n > 0 /\ TsWaiters = n))
        /\ wakeup' = [q |-> "R", n |-> n]
  BY DEF DowngradeGrant
<1> DEFINE S == First(R, n)
<1>4. /\ Effect(Holders("R") \cup S, {}, Waiters("R") \ S, Waiters("W"))
      /\ S \subseteq Waiters("R") /\ Holders("W") = {} /\ t \in Holders("R")
  BY <1>3, DowngradeGrantEffect
<1>5. /\ IsFiniteSet(S) /\ Cardinality(S) = n
      /\ Waiters("R") \ S = {} <=> n = Len(R)
      /\ Waiters("W") = {} <=> W = <<>>
  BY <1>2, <1>3, ReadersToWakeProperties
<1> HIDE DEF S
<1>6. Holders("R") \cap S = {}
  <2>1. \A u \in Waiters("R") : pc[u] \notin HoldPC /\ u \notin Granted
    BY GrantedProperties DEF Waiters, HoldPC
  <2> QED
    BY <1>4, <2>1 DEF Holders
<1>7. Cardinality(Holders("R") \cup S) = rw_count + n /\ rw_count > 0
  BY <1>1, <1>4, <1>5, <1>6, HoldersFinite, Counting DEF IInv, WordMatchesHolders
<1>8. W = <<>> <=> Len(W) = 0
  BY <1>1
<1>9. /\ {rw_owner} \cap Thread = {} /\ rw_owner' = rw_owner /\ rw_want' = rw_want
      /\ rw_wait <=> Waiters("R") \cup Waiters("W") # {}
      /\ rw_want <=> Waiters("W") # {}
  BY <1>4 DEF IInv, WordMatchesHolders, BitsMatchWaiters, DowngradeGrant
<1>10. n > 0 <=> S # {}
  BY <1>5, FS_EmptySet
<1>11. TsWaiters = n <=> n = Len(R) /\ W = <<>>
  BY <1>1, <1>8, QueueCount
<1>12. rw_wait' <=> (Waiters("R") \ S) \cup Waiters("W") # {}
  BY <1>3, <1>4, <1>5, <1>9, <1>10, <1>11
<1>13. rw_count' = Cardinality(Holders("R") \cup S) /\ Locked'
  BY <1>1, <1>3, <1>7 DEF Locked
<1> QED
  BY <1>4, <1>9, <1>12, <1>13, WordFits

\* Kernel priority is dropped only by a thread that has requested it.
LEMMA KpriType ==
  ASSUME IInv, NEW t \in Thread
  PROVE  /\ UNCHANGED kpri \/ KpriRequest(t) => kpri' \in [Thread -> Nat]
         /\ mode[t] = "R" /\ pc[t] \notin {"idle", "asleep"} /\ KpriRelease(t) =>
              kpri' \in [Thread -> Nat]
<1>1. kpri \in [Thread -> Nat]
  BY DEF IInv, TypeOK
<1>2. ASSUME mode[t] = "R", pc[t] \notin {"idle", "asleep"} PROVE kpri[t] = 1
  BY <1>2 DEF IInv, KpriBalanced
<1> QED
  BY <1>1, <1>2 DEF KpriRequest, KpriRelease

-----------------------------------------------------------------------------
(* Every step preserves the invariant.                                     *)

\* A client asks for the lock.
LEMMA RwEnterStep ==
  ASSUME IInv, NEW t \in Thread, NEW m \in Mode, RwEnter(t, m)
  PROVE  IInv'
<1>1. Granted' = Granted /\ \A u \in Granted : pc[u] = "asleep"
  BY GrantedProperties DEF RwEnter, turnstile, Granted
<1>2. TypeOK'
  BY RWLockAssumption DEF IInv, TypeOK, DowngradeFits, RwEnter, Goto,
    KpriRequest, turnstile, word, Label, Mode
<1>3. (QueueFits /\ ChainFits /\ WakeFits /\ FinalFits /\ DowngradeFits
       /\ ReadWaitFits /\ DeadFits)'
  BY DEF IInv, QueueFits, ChainFits, WakeFits, FinalFits, DowngradeFits,
    ReadWaitFits, DeadFits, RwEnter, Goto, turnstile, word
<1>4. (WordMatchesHolders /\ BitsMatchWaiters)'
  BY QuietSteps DEF IInv, WordMatchesHolders, BitsMatchWaiters, NoEffect, Effect,
    Locked, RwEnter, word
<1>5. KpriBalanced'
  BY <1>1 DEF IInv, TypeOK, KpriBalanced, RwEnter, Goto, KpriRequest
<1> QED
  BY <1>2, <1>3, <1>4, <1>5 DEF IInv

\* The lock is taken if it is not busy.
LEMMA EnterTryStep ==
  ASSUME IInv, NEW t \in Thread, EnterTry(t)
  PROVE  IInv'
<1>1. Granted' = Granted /\ \A u \in Granted : pc[u] = "asleep"
  BY GrantedProperties DEF EnterTry, turnstile, Granted
<1>2. TypeOK'
  BY RWLockAssumption, SMTT(30) DEF IInv, TypeOK, ReadWaitFits, EnterTry, AddLock,
    Busy, Goto, turnstile, word, Label, Mode, Locked, WriteClaimed
<1>3. (QueueFits /\ ChainFits /\ WakeFits /\ FinalFits /\ DowngradeFits
       /\ ReadWaitFits /\ DeadFits)'
  BY RWLockAssumption DEF IInv, TypeOK, QueueFits, ChainFits, WakeFits,
    FinalFits, DowngradeFits, ReadWaitFits, DeadFits, EnterTry, AddLock,
    Busy, Goto, turnstile, Locked, WriteClaimed, word
<1>4. (WordMatchesHolders /\ BitsMatchWaiters)'
  <2>1. CASE Busy(mode[t])
    BY <2>1, EnterTryEffect DEF IInv, WordMatchesHolders, BitsMatchWaiters, NoEffect, Effect,
      Locked, EnterTry, word
  <2>2. CASE ~Busy(mode[t])
    BY <2>2, EnterTryEffect, TakesWord DEF IInv, TypeOK, EnterTry
  <2> QED
    BY <2>1, <2>2
<1>5. KpriBalanced'
  BY <1>1 DEF IInv, TypeOK, KpriBalanced, EnterTry, AddLock, Busy, Goto,
    Locked, WriteClaimed
<1> QED
  BY <1>2, <1>3, <1>4, <1>5 DEF IInv

\* The chain lock is taken.
LEMMA EnterLookupStep ==
  ASSUME IInv, NEW t \in Thread, EnterLookup(t)
  PROVE  IInv'
<1>1. Granted' = Granted /\ \A u \in Granted : pc[u] = "asleep"
  BY GrantedProperties DEF EnterLookup, turnstile, Granted
<1>2. (TypeOK /\ QueueFits /\ ChainFits /\ WakeFits /\ FinalFits
       /\ DowngradeFits /\ ReadWaitFits /\ DeadFits)'
  BY RWLockAssumption DEF IInv, TypeOK, QueueFits, ChainFits, WakeFits,
    FinalFits, DowngradeFits, ReadWaitFits, DeadFits, EnterLookup, Goto,
    turnstile, word, Label
<1>3. (WordMatchesHolders /\ BitsMatchWaiters)'
  BY QuietSteps DEF IInv, WordMatchesHolders, BitsMatchWaiters, NoEffect, Effect,
    Locked, EnterLookup, word
<1>4. KpriBalanced'
  BY <1>1 DEF IInv, KpriBalanced, EnterLookup, Goto
<1> QED
  BY <1>2, <1>3, <1>4 DEF IInv

\* The bits are set while the lock is busy.
LEMMA SetWaitStep ==
  ASSUME IInv, NEW t \in Thread, SetWait(t)
  PROVE  IInv'
<1>1. Granted' = Granted /\ \A u \in Granted : pc[u] = "asleep"
  BY GrantedProperties DEF SetWait, turnstile, Granted
<1>2. TypeOK'
  BY DEF IInv, TypeOK, SetWait, Busy, Goto, turnstile, Label, Locked,
    WriteClaimed
<1>3. QueueFits'
  BY DEF IInv, TypeOK, QueueFits, SetWait, Busy, Goto, turnstile, Locked,
    WriteClaimed
<1>4. ChainFits'
  BY RWLockAssumption DEF IInv, TypeOK, ChainFits, SetWait, Busy, Goto,
    Locked, WriteClaimed
<1>5. WakeFits'
  BY DEF IInv, ChainFits, WakeFits, SetWait, Busy, turnstile, Locked,
    WriteClaimed
<1>6. (FinalFits /\ DowngradeFits /\ ReadWaitFits /\ DeadFits)'
  BY DEF IInv, TypeOK, FinalFits, DowngradeFits, ReadWaitFits, DeadFits,
    SetWait, Busy, Goto, Locked, WriteClaimed, Mode
<1>7. (WordMatchesHolders /\ BitsMatchWaiters)'
  <2>1. CASE Busy(mode[t])
    <3>1. /\ rw_wait' /\ rw_want' = (rw_want \/ mode[t] = "W") /\ mode[t] \in Mode
          /\ rw_owner' = rw_owner /\ rw_count' = rw_count
      BY <2>1 DEF SetWait, IInv, TypeOK
    <3>2. Locked /\ Locked'
      BY <2>1, <3>1 DEF Busy, WriteClaimed, Locked, IInv, BitsMatchWaiters
    <3> QED
      BY <2>1, <3>1, <3>2, SetWaitEffect
         DEF IInv, WordMatchesHolders, BitsMatchWaiters, Effect, Mode
  <2>2. CASE ~Busy(mode[t])
    BY <2>2, SetWaitEffect DEF IInv, WordMatchesHolders, BitsMatchWaiters, NoEffect, Effect,
      Locked, SetWait
  <2> QED
    BY <2>1, <2>2
<1>8. KpriBalanced'
  BY <1>1 DEF IInv, TypeOK, KpriBalanced, SetWait, Busy, Goto, Locked,
    WriteClaimed
<1> QED
  BY <1>2, <1>3, <1>4, <1>5, <1>6, <1>7, <1>8 DEF IInv

\* The thread goes to sleep in its place.
LEMMA BlockStep ==
  ASSUME IInv, NEW t \in Thread, Block(t)
  PROVE  IInv'
<1> DEFINE m == mode[t]
           q == sleepq[m]
<1>1. m \in Mode /\ q \in Seq(Thread) /\ pri \in [Thread -> Pri] /\ sleepq \in [Mode -> Seq(Thread)]
  BY DEF IInv, TypeOK
<1>2. Distinct(q) /\ Sorted(q, pri) /\ ~Queued(q, t)
  BY <1>1 DEF IInv, QueueFits, Block
<1>3. PICK k \in 1 .. Len(q) + 1 :
        QueuePlace(q, k, t, pri) /\ sleepq' = [sleepq EXCEPT ![m] = InsertAt(q, k, t)]
  BY DEF Block, SleepqInsert
<1>4. /\ sleepq'[m] \in Seq(Thread) /\ Distinct(sleepq'[m]) /\ Sorted(sleepq'[m], pri)
      /\ \A u \in Thread : Queued(sleepq'[m], u) <=> Queued(q, u) \/ u = t
      /\ sleepq' \in [Mode -> Seq(Thread)] /\ \A l \in Mode : l # m => sleepq'[l] = sleepq[l]
  BY <1>1, <1>2, <1>3, InsertProperties
<1>5. wakeup.n = 0 /\ Granted = {} /\ Granted' = {}
  BY GrantedProperties DEF Block, Granted
<1>6. TypeOK'
  <2>1. kpri' \in [Thread -> Nat]
    BY KpriType DEF IInv, TypeOK, Mode, Block
  <2>2. rw_count' \in Nat
    BY DEF IInv, TypeOK, Block, word
  <2> QED
    BY <2>1, <2>2, <1>4 DEF IInv, TypeOK, Goto, Label, Block, word, turnstile
<1>7. QueueFits'
  BY <1>1, <1>4 DEF IInv, TypeOK, QueueFits, Block, Goto
<1>8. (ChainFits /\ FinalFits /\ DowngradeFits /\ ReadWaitFits /\ DeadFits)'
  BY RWLockAssumption DEF IInv, TypeOK, ChainFits, FinalFits,
    DowngradeFits, ReadWaitFits, DeadFits, Block, Goto, KpriRelease,
    SleepqInsert, QueuePlace, word
<1>9. WakeFits'
  BY <1>4, <1>5 DEF IInv, WakeFits, Block, KpriRelease, SleepqInsert,
    QueuePlace
<1>10. (WordMatchesHolders /\ BitsMatchWaiters)'
  BY QuietSteps DEF IInv, WordMatchesHolders, BitsMatchWaiters, NoEffect, Effect,
    Locked, Block, word
<1>11. KpriBalanced'
  BY <1>5 DEF IInv, TypeOK, KpriBalanced, Block, Goto, KpriRelease,
    SleepqInsert, QueuePlace
<1> QED
  BY <1>6, <1>7, <1>8, <1>9, <1>10, <1>11 DEF IInv

\* The lock is taken at once.
LEMMA RwTryenterStep ==
  ASSUME IInv, NEW t \in Thread, NEW m \in Mode, RwTryenter(t, m)
  PROVE  IInv'
<1>1. Granted' = Granted /\ \A u \in Granted : pc[u] = "asleep"
  BY GrantedProperties DEF RwTryenter, turnstile, Granted
<1>2. TypeOK'
  <2>1. kpri' \in [Thread -> Nat]
    BY KpriType DEF IInv, TypeOK, Mode, RwTryenter
  <2>2. rw_count' \in Nat
    BY DEF IInv, TypeOK, AddLock, RwTryenter, word
  <2> QED
    BY <2>1, <2>2 DEF IInv, TypeOK, Goto, Label, AddLock, RwTryenter, word, turnstile
<1>3. (QueueFits /\ ChainFits /\ WakeFits /\ FinalFits /\ DowngradeFits
       /\ ReadWaitFits /\ DeadFits)'
  BY RWLockAssumption DEF IInv, QueueFits, ChainFits, WakeFits, FinalFits,
    DowngradeFits, ReadWaitFits, DeadFits, RwTryenter, AddLock, Goto,
    Locked, WriteClaimed, turnstile
<1>4. (WordMatchesHolders /\ BitsMatchWaiters)'
  BY RwTryenterEffect, TakesWord DEF RwTryenter, Busy, Mode
<1>5. KpriBalanced'
  BY <1>1 DEF IInv, TypeOK, KpriBalanced, RwTryenter, AddLock, Goto,
    KpriRequest, Locked, WriteClaimed
<1> QED
  BY <1>2, <1>3, <1>4, <1>5 DEF IInv

\* A hold is dropped.
LEMMA RwExitStep ==
  ASSUME IInv, NEW t \in Thread, RwExit(t)
  PROVE  IInv'
<1>1. Granted' = Granted /\ \A u \in Granted : pc[u] = "asleep"
  BY GrantedProperties DEF RwExit, turnstile, Granted
<1>2. \A u \in Thread : pc[u] \in HoldPC =>
        /\ mode[u] = "W" => Holders("W") = {u} /\ Holders("R") = {} /\ rw_owner = u
        /\ mode[u] = "R" => /\ u \in Holders("R") /\ Holders("W") = {} /\ rw_owner = NoThread
                            /\ rw_count \in Nat \ {0} /\ (rw_count = 1 => Holders("R") = {u})
  BY HolderAlone
<1>3. TypeOK'
  <2>1. kpri' \in [Thread -> Nat]
    BY KpriType DEF IInv, TypeOK, Mode, RwExit
  <2>2. rw_count' \in Nat
    BY <1>2 DEF IInv, TypeOK, HoldPC, RwExit, word
  <2> QED
    BY <2>1, <2>2 DEF IInv, TypeOK, Goto, Label, HoldPC, RwExit, word, turnstile
<1>4. (QueueFits /\ ChainFits /\ WakeFits /\ DowngradeFits)'
  BY DEF IInv, QueueFits, ChainFits, WakeFits, DowngradeFits, RwExit,
    FinalExit, Goto, KpriRelease, turnstile
<1>5. FinalFits'
  BY <1>2 DEF IInv, FinalFits, RwExit, FinalExit, Goto, KpriRelease
<1>6. ReadWaitFits'
  BY <1>2 DEF IInv, ReadWaitFits, RwExit, FinalExit, Goto, KpriRelease
<1>7. DeadFits'
  BY RWLockAssumption, <1>2 DEF IInv, DeadFits, RwExit, FinalExit,
    KpriRelease
<1>8. (WordMatchesHolders /\ BitsMatchWaiters)'
  BY RwExitWord
<1>9. KpriBalanced'
  BY <1>1 DEF IInv, TypeOK, KpriBalanced, RwExit, FinalExit, Goto,
    KpriRelease
<1> QED
  BY <1>3, <1>4, <1>5, <1>6, <1>7, <1>8, <1>9 DEF IInv

\* A last exit with waiters has to wake them.
LEMMA RwExitFinalStep ==
  ASSUME IInv, NEW t \in Thread, RwExitFinal(t)
  PROVE  IInv'
<1>1. Granted' = Granted /\ \A u \in Granted : pc[u] = "asleep"
  BY GrantedProperties DEF RwExitFinal, turnstile, Granted
<1>2. \A u \in Thread : pc[u] \in HoldPC =>
        /\ mode[u] = "W" => Holders("W") = {u} /\ Holders("R") = {} /\ rw_owner = u
        /\ mode[u] = "R" => /\ u \in Holders("R") /\ Holders("W") = {} /\ rw_owner = NoThread
                            /\ rw_count \in Nat \ {0} /\ (rw_count = 1 => Holders("R") = {u})
  BY HolderAlone
<1>3. (TypeOK /\ QueueFits /\ ChainFits /\ WakeFits /\ DowngradeFits
       /\ ReadWaitFits /\ DeadFits)'
  BY DEF IInv, TypeOK, QueueFits, ChainFits, WakeFits, DowngradeFits,
    ReadWaitFits, DeadFits, RwExitFinal, FinalExit, Goto, turnstile, word,
    Label
<1>4. FinalFits'
  <2>1. /\ pc[t] = "held" /\ rw_wait /\ (mode[t] = "R" => rw_count = 1)
        /\ pc' = [pc EXCEPT ![t] = "xlookup"]
        /\ rw_wait' = rw_wait /\ rw_want' = rw_want /\ rw_count' = rw_count /\ mode' = mode
    BY DEF RwExitFinal, FinalExit, Goto, word
  <2>2. ASSUME mode[t] = "R" PROVE rw_want
    <3>1. \A u \in Thread : pc[u] \in {"dlookup", "dwakeup"} => u = t
      BY <1>2, <2>1, <2>2 DEF IInv, DowngradeFits, HoldPC
    <3> QED
      BY <1>2, <2>1, <2>2, <3>1 DEF IInv, ReadWaitFits, HoldPC
  <2> QED
    BY <2>1, <2>2 DEF IInv, TypeOK, FinalFits
<1>5. (WordMatchesHolders /\ BitsMatchWaiters)'
  BY QuietSteps DEF IInv, WordMatchesHolders, BitsMatchWaiters, NoEffect, Effect,
    Locked, RwExitFinal, word
<1>6. KpriBalanced'
  BY <1>1 DEF IInv, KpriBalanced, RwExitFinal, FinalExit, Goto
<1> QED
  BY <1>3, <1>4, <1>5, <1>6 DEF IInv

\* The chain lock is taken.
LEMMA ExitLookupStep ==
  ASSUME IInv, NEW t \in Thread, ExitLookup(t)
  PROVE  IInv'
<1>1. Granted' = Granted /\ \A u \in Granted : pc[u] = "asleep"
  BY GrantedProperties DEF ExitLookup, turnstile, Granted
<1>2. (TypeOK /\ QueueFits /\ ChainFits /\ WakeFits /\ FinalFits
       /\ DowngradeFits /\ ReadWaitFits /\ DeadFits)'
  BY RWLockAssumption DEF IInv, TypeOK, QueueFits, ChainFits, WakeFits,
    FinalFits, DowngradeFits, ReadWaitFits, DeadFits, ExitLookup, Goto,
    turnstile, word, Label
<1>3. (WordMatchesHolders /\ BitsMatchWaiters)'
  BY QuietSteps DEF IInv, WordMatchesHolders, BitsMatchWaiters, NoEffect, Effect,
    Locked, ExitLookup, word
<1>4. KpriBalanced'
  BY <1>1 DEF IInv, KpriBalanced, ExitLookup, Goto
<1> QED
  BY <1>2, <1>3, <1>4 DEF IInv

\* All wakeups have been made.
LEMMA WakeDoneStep ==
  ASSUME IInv, NEW t \in Thread, WakeDone(t)
  PROVE  IInv'
<1>1. Granted' = Granted /\ \A u \in Granted : pc[u] = "asleep"
  BY GrantedProperties DEF WakeDone, turnstile, Granted
<1>2. TypeOK'
  <2>1. kpri' \in [Thread -> Nat]
    BY KpriType DEF IInv, TypeOK, Mode, WakeDone
  <2>2. rw_count' \in Nat
    BY DEF IInv, TypeOK, WakeDone, word
  <2> QED
    BY <2>1, <2>2 DEF IInv, TypeOK, Goto, Label, WakeDone, word, turnstile
<1>3. (QueueFits /\ ChainFits /\ WakeFits /\ FinalFits /\ DowngradeFits
       /\ ReadWaitFits /\ DeadFits)'
  BY RWLockAssumption DEF IInv, TypeOK, QueueFits, ChainFits, WakeFits,
    FinalFits, DowngradeFits, ReadWaitFits, DeadFits, WakeDone, Goto,
    KpriRelease, turnstile, word
<1>4. (WordMatchesHolders /\ BitsMatchWaiters)'
  BY QuietSteps DEF IInv, WordMatchesHolders, BitsMatchWaiters, NoEffect, Effect,
    Locked, WakeDone, word
<1>5. KpriBalanced'
  BY <1>1 DEF IInv, TypeOK, KpriBalanced, WakeDone, Goto, KpriRelease
<1> QED
  BY <1>2, <1>3, <1>4, <1>5 DEF IInv

\* The chain lock is taken.
LEMMA DowngradeLookupStep ==
  ASSUME IInv, NEW t \in Thread, DowngradeLookup(t)
  PROVE  IInv'
<1>1. Granted' = Granted /\ \A u \in Granted : pc[u] = "asleep"
  BY GrantedProperties DEF DowngradeLookup, turnstile, Granted
<1>2. (TypeOK /\ QueueFits /\ ChainFits /\ WakeFits /\ FinalFits
       /\ DowngradeFits /\ ReadWaitFits /\ DeadFits)'
  BY RWLockAssumption DEF IInv, TypeOK, QueueFits, ChainFits, WakeFits,
    FinalFits, DowngradeFits, ReadWaitFits, DeadFits, DowngradeLookup,
    Goto, turnstile, word, Label
<1>3. (WordMatchesHolders /\ BitsMatchWaiters)'
  BY QuietSteps DEF IInv, WordMatchesHolders, BitsMatchWaiters, NoEffect, Effect,
    Locked, DowngradeLookup, word
<1>4. KpriBalanced'
  BY <1>1 DEF IInv, KpriBalanced, DowngradeLookup, Goto
<1> QED
  BY <1>2, <1>3, <1>4 DEF IInv

\* All wakeups have been made.
LEMMA DowngradeDoneStep ==
  ASSUME IInv, NEW t \in Thread, DowngradeDone(t)
  PROVE  IInv'
<1>1. Granted' = Granted /\ \A u \in Granted : pc[u] = "asleep"
  BY GrantedProperties DEF DowngradeDone, turnstile, Granted
<1>2. (TypeOK /\ QueueFits /\ ChainFits /\ WakeFits /\ FinalFits
       /\ DowngradeFits /\ ReadWaitFits /\ DeadFits)'
  BY RWLockAssumption DEF IInv, TypeOK, QueueFits, ChainFits, WakeFits,
    FinalFits, DowngradeFits, ReadWaitFits, DeadFits, DowngradeDone, Goto,
    turnstile, word, Label
<1>3. (WordMatchesHolders /\ BitsMatchWaiters)'
  BY QuietSteps DEF IInv, WordMatchesHolders, BitsMatchWaiters, NoEffect, Effect,
    Locked, DowngradeDone, word
<1>4. KpriBalanced'
  BY <1>1 DEF IInv, KpriBalanced, DowngradeDone, Goto
<1> QED
  BY <1>2, <1>3, <1>4 DEF IInv

\* The writer becomes a reader.
LEMMA RwDowngradeStep ==
  ASSUME IInv, NEW t \in Thread, RwDowngrade(t)
  PROVE  IInv'
<1>1. Granted' = Granted /\ \A u \in Granted : pc[u] = "asleep"
  BY GrantedProperties DEF RwDowngrade, turnstile, Granted
<1>2. \A u \in Thread : pc[u] \in HoldPC =>
        /\ mode[u] = "W" => Holders("W") = {u} /\ Holders("R") = {} /\ rw_owner = u
        /\ mode[u] = "R" => /\ u \in Holders("R") /\ Holders("W") = {} /\ rw_owner = NoThread
                            /\ rw_count \in Nat \ {0} /\ (rw_count = 1 => Holders("R") = {u})
  BY HolderAlone
<1>3. (TypeOK /\ QueueFits)'
  BY DEF IInv, TypeOK, QueueFits, RwDowngrade, Goto, KpriRequest,
    turnstile, Label, Mode
<1>4. (ChainFits /\ WakeFits /\ DowngradeFits)'
  BY DEF IInv, TypeOK, ChainFits, WakeFits, DowngradeFits, RwDowngrade,
    Goto, turnstile
<1>5. FinalFits'
  BY <1>2 DEF IInv, FinalFits, RwDowngrade, Goto
<1>6. ReadWaitFits'
  BY <1>2 DEF IInv, TypeOK, ReadWaitFits, RwDowngrade, Goto
<1>7. DeadFits'
  BY RWLockAssumption, <1>2 DEF IInv, DeadFits, RwDowngrade
<1>8. (WordMatchesHolders /\ BitsMatchWaiters)'
  BY ConversionWord
<1>9. KpriBalanced'
  BY <1>1 DEF IInv, TypeOK, KpriBalanced, RwDowngrade, Goto, KpriRequest
<1> QED
  BY <1>3, <1>4, <1>5, <1>6, <1>7, <1>8, <1>9 DEF IInv

\* The only reader becomes the writer.
LEMMA RwTryupgradeStep ==
  ASSUME IInv, NEW t \in Thread, RwTryupgrade(t)
  PROVE  IInv'
<1>1. Granted' = Granted /\ \A u \in Granted : pc[u] = "asleep"
  BY GrantedProperties DEF RwTryupgrade, turnstile, Granted
<1>2. \A u \in Thread : pc[u] \in HoldPC =>
        /\ mode[u] = "W" => Holders("W") = {u} /\ Holders("R") = {} /\ rw_owner = u
        /\ mode[u] = "R" => /\ u \in Holders("R") /\ Holders("W") = {} /\ rw_owner = NoThread
                            /\ rw_count \in Nat \ {0} /\ (rw_count = 1 => Holders("R") = {u})
  BY HolderAlone
<1>3. TypeOK'
  <2>1. kpri' \in [Thread -> Nat]
    BY KpriType DEF IInv, TypeOK, Mode, RwTryupgrade
  <2>2. rw_count' \in Nat
    BY DEF IInv, TypeOK, Mode, RwTryupgrade, word
  <2> QED
    BY <2>1, <2>2 DEF IInv, TypeOK, Goto, Label, Mode, RwTryupgrade, word, turnstile
<1>4. (QueueFits /\ ChainFits /\ WakeFits /\ DowngradeFits)'
  BY DEF IInv, QueueFits, ChainFits, WakeFits, DowngradeFits, RwTryupgrade,
    KpriRelease, turnstile
<1>5. FinalFits'
  BY <1>2 DEF IInv, FinalFits, RwTryupgrade, KpriRelease
<1>6. ReadWaitFits'
  BY <1>2 DEF IInv, ReadWaitFits, RwTryupgrade, KpriRelease
<1>7. DeadFits'
  BY RWLockAssumption, <1>2 DEF IInv, DeadFits, RwTryupgrade, KpriRelease
<1>8. (WordMatchesHolders /\ BitsMatchWaiters)'
  BY ConversionWord
<1>9. KpriBalanced'
  BY <1>1 DEF IInv, TypeOK, KpriBalanced, RwTryupgrade, KpriRelease
<1> QED
  BY <1>3, <1>4, <1>5, <1>6, <1>7, <1>8, <1>9 DEF IInv

\* The lock is handed over.
LEMMA HandoffStep ==
  ASSUME IInv, NEW t \in Thread, Handoff(t)
  PROVE  IInv'
<1> DEFINE R == sleepq["R"]
           W == sleepq["W"]
<1>1. /\ R \in Seq(Thread) /\ W \in Seq(Thread) /\ Len(R) \in Nat /\ Len(W) \in Nat
      /\ pc \in [Thread -> Label] /\ mode \in [Thread -> Mode]
  BY DEF IInv, TypeOK, Mode
<1>2. /\ pc[t] = "handoff" /\ pc' = [pc EXCEPT ![t] = "wake"]
      /\ mode' = mode /\ sleepq' = sleepq /\ pri' = pri /\ tc_lock' = tc_lock /\ tc_lock = t
  BY DEF Handoff, Goto, IInv, ChainFits
<1>3. \A u \in Thread : pc[u] \in HoldPC => u = t
  BY <1>2, HandoffAlone
<1>4. /\ Granted = {} /\ \A u \in Waiters("R") : u \in Thread /\ mode[u] = "R" /\ pc[u] = "asleep"
      /\ \A u \in Waiters("W") : u \in Thread /\ mode[u] = "W" /\ pc[u] = "asleep"
  <2>1. /\ Granted = {} /\ Waiters("R") = {u \in Thread : Queued(R, u)}
        /\ Waiters("W") = {u \in Thread : Queued(W, u)}
    BY <1>2, QueuesAreWaiters DEF Mode
  <2> QED
    BY <2>1 DEF IInv, QueueFits, Mode
<1>5. (QueueFits /\ ChainFits /\ FinalFits /\ DowngradeFits)'
  BY <1>1, <1>2, <1>3 DEF IInv, QueueFits, ChainFits, FinalFits, DowngradeFits, HoldPC
<1>6. (WordMatchesHolders /\ BitsMatchWaiters)'
  BY HandoffWord
<1>7. ASSUME NEW n \in 1 .. Len(R), ReadersToWake(n), GrantReaders(n),
             First(R, n) \subseteq Waiters("R"), Granted' = First(R, n)
      PROVE  (TypeOK /\ WakeFits /\ ReadWaitFits /\ DeadFits /\ KpriBalanced)'
  <2>1. /\ rw_count' = n /\ rw_owner' = NoThread /\ rw_wait' = (TsWaiters > n)
        /\ rw_want' = (W # <<>>) /\ wakeup' = [q |-> "R", n |-> n]
        /\ kpri' = [u \in Thread |-> IF u \in First(R, n) THEN kpri[u] + 1 ELSE kpri[u]]
    BY <1>7 DEF GrantReaders, KpriGrant, First
  <2>2. kpri' \in [Thread -> Nat] /\ wakeup' \in [q : Mode, n : Nat] /\ rw_count' \in Nat
    BY <2>1, SMTT(30) DEF IInv, TypeOK, Mode
  <2>3. TypeOK'
    <3>1. /\ rw_wait' \in BOOLEAN /\ rw_want' \in BOOLEAN
          /\ rw_owner' \in Thread \cup {NoThread, DeadLock} /\ pc' \in [Thread -> Label]
      BY <1>1, <1>2, <2>1 DEF Label
    <3> QED
      BY <1>1, <1>2, <2>2, <3>1 DEF IInv, TypeOK
  <2>4. WakeFits'
    BY <1>1, <1>2, <2>1 DEF WakeFits
  <2>5. (ReadWaitFits /\ DeadFits)'
    <3>1. W = <<>> => n = Len(R) /\ Len(W) = 0
      BY <1>1, <1>7, ReadersToWakeProperties
    <3>2. W = <<>> => ~(TsWaiters > n)
      BY <1>1, <3>1 DEF TsWaiters
    <3>3. rw_wait' => rw_want'
      BY <2>1, <3>2
    <3> QED
      BY <2>1, <3>3, RWLockAssumption DEF ReadWaitFits, DeadFits
  <2>6. KpriBalanced'
    BY <1>1, <1>2, <1>4, <1>7, <2>1 DEF IInv, KpriBalanced
  <2> QED
    BY <2>3, <2>4, <2>5, <2>6
<1>8. ASSUME W # <<>>, GrantWriter, Head(W) \in Waiters("W"), Granted' = {Head(W)}
      PROVE  (TypeOK /\ WakeFits /\ ReadWaitFits /\ DeadFits /\ KpriBalanced)'
  <2>1. /\ rw_count' = 0 /\ rw_owner' = Head(W) /\ rw_wait' = (TsWaiters > 1)
        /\ rw_want' = (Len(W) > 1) /\ wakeup' = [q |-> "W", n |-> 1] /\ kpri' = kpri
    BY <1>8 DEF GrantWriter
  <2>2. /\ Head(W) \in Thread /\ mode[Head(W)] = "W" /\ wakeup' \in [q : Mode, n : Nat]
        /\ rw_count' \in Nat /\ Len(W) >= 1
    BY <1>1, <1>4, <1>8, <2>1 DEF Mode
  <2>3. TypeOK'
    BY <1>1, <1>2, <2>1, <2>2 DEF IInv, TypeOK, Label
  <2>4. WakeFits'
    BY <1>1, <1>2, <2>1, <2>2 DEF WakeFits
  <2>5. (ReadWaitFits /\ DeadFits)'
    BY <2>1, <2>2, RWLockAssumption DEF ReadWaitFits, DeadFits
  <2>6. KpriBalanced'
    BY <1>1, <1>2, <1>4, <1>8, <2>1, <2>2 DEF IInv, KpriBalanced
  <2> QED
    BY <2>3, <2>4, <2>5, <2>6
<1> QED
  BY <1>5, <1>6, <1>7, <1>8, HandoffEffect DEF IInv

\* The next thread is woken.
LEMMA WakeNextStep ==
  ASSUME IInv, NEW t \in Thread, WakeNext(t)
  PROVE  IInv'
<1> DEFINE k == wakeup.q
           q == sleepq[k]
           u == Head(q)
<1>1. /\ k \in Mode /\ wakeup.n \in Nat \ {0} /\ q \in Seq(Thread) /\ Len(q) \in Nat
      /\ Distinct(q) /\ Sorted(q, pri) /\ wakeup.n <= Len(q) /\ q # <<>>
      /\ wakeup \in [q : Mode, n : Nat] /\ sleepq \in [Mode -> Seq(Thread)]
      /\ pc \in [Thread -> Label] /\ mode \in [Thread -> Mode]
  BY DEF IInv, TypeOK, QueueFits, WakeFits, WakeNext
<1>2. /\ Tail(q) \in Seq(Thread) /\ Len(Tail(q)) = Len(q) - 1
      /\ Distinct(Tail(q)) /\ Sorted(Tail(q), pri)
      /\ \A v \in Thread : Queued(Tail(q), v) <=> Queued(q, v) /\ v # u
  BY <1>1, TailProperties
<1>3. /\ u \in Granted /\ u \in Thread /\ Granted' = Granted \ {u}
      /\ pc' = [pc EXCEPT ![u] = "held"] /\ mode' = mode
  BY WakeNextEffect
<1>4. pc[u] = "asleep" /\ mode[u] = k /\ pc[t] \in {"wake", "dwake"} /\ u # t
  BY <1>3, GrantedProperties DEF WakeNext
<1>5. /\ wakeup' \in [q : Mode, n : Nat] /\ wakeup'.q = k /\ wakeup'.n = wakeup.n - 1
      /\ sleepq' = [sleepq EXCEPT ![k] = Tail(q)] /\ sleepq'[k] = Tail(q)
      /\ \A l \in Mode : l # k => sleepq'[l] = sleepq[l]
  <2>1. /\ wakeup' = [wakeup EXCEPT !.n = wakeup.n - 1] /\ wakeup.n - 1 \in Nat
        /\ sleepq' = [sleepq EXCEPT ![k] = Tail(q)]
    BY <1>1 DEF WakeNext
  <2>2. wakeup' \in [q : Mode, n : Nat] /\ wakeup'.q = k /\ wakeup'.n = wakeup.n - 1
    BY <1>1, <2>1
  <2>3. sleepq'[k] = Tail(q) /\ \A l \in Mode : l # k => sleepq'[l] = sleepq[l]
    BY <1>1, <2>1
  <2> QED
    BY <2>1, <2>2, <2>3
<1>6. UNCHANGED <<rw_wait, rw_want, rw_owner, rw_count, tc_lock, pri, kpri, mode>>
  BY DEF WakeNext, word
<1>7. (WordMatchesHolders /\ BitsMatchWaiters)'
  BY <1>6, QuietSteps DEF IInv, WordMatchesHolders, BitsMatchWaiters, NoEffect, Effect, Locked
<1> HIDE DEF k, q, u
<1>8. TypeOK'
  BY <1>1, <1>2, <1>3, <1>5, <1>6, SMTT(30) DEF IInv, TypeOK, Label
<1>9. QueueFits'
  BY <1>1, <1>2, <1>3, <1>4, <1>5, <1>6 DEF IInv, QueueFits, q
<1>10. ChainFits'
  BY <1>1, <1>3, <1>4, <1>6 DEF IInv, ChainFits
<1>11. WakeFits'
  BY <1>1, <1>2, <1>3, <1>4, <1>5, <1>6, SMTT(30) DEF IInv, WakeFits, ChainFits
<1>12. (FinalFits /\ DowngradeFits /\ ReadWaitFits /\ DeadFits)'
  BY <1>1, <1>3, <1>4, <1>6 DEF IInv, FinalFits, DowngradeFits, ReadWaitFits, DeadFits
<1>13. KpriBalanced'
  BY <1>1, <1>3, <1>4, <1>6 DEF IInv, KpriBalanced
<1> QED
  BY <1>7, <1>8, <1>9, <1>10, <1>11, <1>12, <1>13 DEF IInv

\* Readers are let in by the thread that has downgraded its hold.
LEMMA DowngradeGrantStep ==
  ASSUME IInv, NEW t \in Thread, DowngradeGrant(t)
  PROVE  IInv'
<1> DEFINE R == sleepq["R"]
           W == sleepq["W"]
<1>1. /\ R \in Seq(Thread) /\ W \in Seq(Thread) /\ Len(R) \in Nat /\ Len(W) \in Nat
      /\ pc \in [Thread -> Label] /\ mode \in [Thread -> Mode] /\ rw_count \in Nat
  BY DEF IInv, TypeOK, Mode
<1>2. /\ pc[t] = "dwakeup" /\ pc' = [pc EXCEPT ![t] = "dwake"]
      /\ tc_lock = t /\ UNCHANGED <<rw_want, rw_owner, tc_lock, sleepq, pri, mode>>
  BY DEF DowngradeGrant, Goto, IInv, ChainFits
<1>3. PICK n \in 0 .. Len(R) :
        /\ ReadersToWake(n) /\ rw_count' = rw_count + n
        /\ rw_wait' = (rw_wait /\ ~(n > 0 /\ TsWaiters = n))
        /\ kpri' = KpriGrant(n) /\ wakeup' = [q |-> "R", n |-> n]
  BY DEF DowngradeGrant
<1> DEFINE S == First(R, n)
<1>4. Granted' = S /\ Granted = {} /\ S \subseteq Waiters("R")
  BY <1>3, DowngradeGrantEffect
<1>5. /\ Waiters("R") = {u \in Thread : Queued(R, u)}
      /\ Waiters("W") = {u \in Thread : Queued(W, u)}
      /\ \A u \in S : u \in Thread /\ mode[u] = "R" /\ pc[u] = "asleep"
  <2>1. /\ Waiters("R") = {u \in Thread : Queued(R, u)}
        /\ Waiters("W") = {u \in Thread : Queued(W, u)}
    BY <1>2, QueuesAreWaiters DEF Mode
  <2> QED
    BY <1>4, <2>1 DEF IInv, QueueFits, Mode
<1>6. kpri' = [u \in Thread |-> IF u \in S THEN kpri[u] + 1 ELSE kpri[u]]
  BY <1>3 DEF KpriGrant, First
<1>7. /\ Waiters("R") \ S = {} <=> n = Len(R)
      /\ Waiters("W") = {} <=> W = <<>>
      /\ W = <<>> => n = Len(R) /\ Len(W) = 0
  BY <1>1, <1>3, <1>5, ReadersToWakeProperties
<1> HIDE DEF S
<1>8. \A u \in Thread : pc[u] \notin {"xlookup", "handoff"}
  <2>1. \A u \in Thread : pc[u] \in {"xlookup", "handoff"} => t = u
    BY <1>2, HandoffAlone DEF HoldPC
  <2> QED
    BY <1>2, <2>1
<1>9. TypeOK'
  <2>1. kpri' \in [Thread -> Nat] /\ wakeup' \in [q : Mode, n : Nat] /\ rw_count' \in Nat
    BY <1>1, <1>3, <1>6 DEF IInv, TypeOK, Mode
  <2> QED
    BY <1>1, <1>2, <1>3, <2>1 DEF IInv, TypeOK, Label
<1>10. (QueueFits /\ ChainFits /\ FinalFits /\ DowngradeFits)'
  BY <1>1, <1>2, <1>8 DEF IInv, QueueFits, ChainFits, FinalFits, DowngradeFits
<1>11. WakeFits'
  BY <1>1, <1>2, <1>3 DEF WakeFits
<1>12. (ReadWaitFits /\ DeadFits)'
  <2>1. rw_wait' => rw_want
    <3>1. ASSUME ~rw_want PROVE ~rw_wait'
      <4>1. Waiters("W") = {}
        BY <3>1 DEF IInv, BitsMatchWaiters
      <4>2. W = <<>> /\ n = Len(R) /\ Len(W) = 0
        BY <1>7, <4>1
      <4>3. TsWaiters = n /\ (n = 0 \/ n > 0)
        BY <1>1, <4>2 DEF TsWaiters
      <4>4. n = 0 => Waiters("R") = {}
        BY <1>1, <1>5, <4>2 DEF Queued
      <4>5. n = 0 => ~rw_wait
        BY <4>1, <4>4 DEF IInv, BitsMatchWaiters
      <4> QED
        BY <1>3, <4>3, <4>5
    <3> QED
      BY <3>1
  <2> QED
    BY <1>2, <2>1 DEF ReadWaitFits, DeadFits, IInv
<1>13. (WordMatchesHolders /\ BitsMatchWaiters)'
  BY DowngradeGrantWord
<1>14. KpriBalanced'
  BY <1>1, <1>2, <1>4, <1>5, <1>6 DEF IInv, KpriBalanced
<1> QED
  BY <1>9, <1>10, <1>11, <1>12, <1>13, <1>14 DEF IInv

\* A sleeper whose priority changes moves to its new place.
LEMMA ChangePriStep ==
  ASSUME IInv, NEW t \in Thread, NEW p \in Pri, ChangePri(t, p)
  PROVE  IInv'
<1> DEFINE m == mode[t]
           q == sleepq[m]
<1>1. /\ m \in Mode /\ q \in Seq(Thread) /\ sleepq \in [Mode -> Seq(Thread)]
      /\ Distinct(q) /\ Sorted(q, pri) /\ pri \in [Thread -> Pri]
      /\ pri' = [pri EXCEPT ![t] = p] /\ pri' \in [Thread -> Pri]
  BY DEF IInv, TypeOK, QueueFits, ChangePri
<1>2. UNCHANGED <<rw_wait, rw_want, rw_owner, rw_count, tc_lock, wakeup, kpri, mode, pc>>
  BY DEF ChangePri, word
<1>3. (WordMatchesHolders /\ BitsMatchWaiters)'
  BY <1>2, QuietSteps DEF IInv, WordMatchesHolders, BitsMatchWaiters, NoEffect, Effect, Locked
<1>4. (ChainFits /\ FinalFits /\ DowngradeFits /\ ReadWaitFits /\ DeadFits)'
  BY <1>2 DEF IInv, ChainFits, FinalFits, DowngradeFits, ReadWaitFits, DeadFits
<1>5. ASSUME NEW r \in Seq(Thread), ~Queued(r, t), Sorted(r, pri) PROVE Sorted(r, pri')
  <2>1. \A i \in 1 .. Len(r) : r[i] \in Thread /\ pri'[r[i]] = pri[r[i]]
    BY <1>1, <1>5 DEF Queued
  <2> QED
    BY <1>5, <2>1 DEF Sorted
<1>6. CASE pc[t] # "asleep"
  <2>1. sleepq' = sleepq
    BY <1>6 DEF ChangePri
  <2>2. Granted' = Granted
    BY <1>2, <2>1 DEF Granted
  <2>3. \A l \in Mode : sleepq[l] \in Seq(Thread) /\ ~Queued(sleepq[l], t)
    BY <1>1, <1>6 DEF IInv, QueueFits
  <2>4. QueueFits'
    BY <1>2, <1>5, <2>1, <2>3 DEF IInv, QueueFits
  <2>5. (TypeOK /\ WakeFits /\ KpriBalanced)'
    BY <1>1, <1>2, <2>1, <2>2 DEF IInv, TypeOK, WakeFits, KpriBalanced
  <2> QED
    BY <1>3, <1>4, <2>4, <2>5 DEF IInv
<1>7. CASE pc[t] = "asleep"
  <2>1. PICK i \in 1 .. Len(q) : q[i] = t /\ SleepqInsert(m, RemoveAt(q, i), t, pri')
    BY <1>7 DEF ChangePri
  <2> DEFINE r == RemoveAt(q, i)
  <2>2. /\ r \in Seq(Thread) /\ Distinct(r) /\ Sorted(r, pri)
        /\ \A u \in Thread : Queued(r, u) <=> Queued(q, u) /\ u # t
    BY <1>1, <2>1, RemoveProperties
  <2>3. PICK j \in 1 .. Len(r) + 1 :
          QueuePlace(r, j, t, pri') /\ sleepq' = [sleepq EXCEPT ![m] = InsertAt(r, j, t)]
    BY <2>1 DEF SleepqInsert
  <2>4. ~Queued(r, t) /\ Sorted(r, pri')
    BY <1>5, <2>2
  <2> HIDE DEF r
  <2>5. /\ sleepq'[m] \in Seq(Thread) /\ Distinct(sleepq'[m]) /\ Sorted(sleepq'[m], pri')
        /\ \A u \in Thread : Queued(sleepq'[m], u) <=> Queued(r, u) \/ u = t
        /\ sleepq' \in [Mode -> Seq(Thread)] /\ \A l \in Mode : l # m => sleepq'[l] = sleepq[l]
    BY <1>1, <2>2, <2>3, <2>4, InsertProperties
  <2>6. wakeup.n = 0 /\ Granted = {} /\ Granted' = {} /\ wakeup.q \in Mode
    <3>1. tc_lock = NoThread
      BY <1>7 DEF ChangePri
    <3> QED
      BY <1>2, <3>1, GrantedProperties, SMTT(30) DEF Granted, IInv, TypeOK
  <2>7. QueueFits'
    <3>1. \A l \in Mode : l # m => sleepq[l] \in Seq(Thread) /\ ~Queued(sleepq[l], t)
      BY <1>1 DEF IInv, QueueFits
    <3>2. \A l \in Mode : Distinct(sleepq'[l]) /\ Sorted(sleepq'[l], pri')
      BY <1>5, <2>5, <3>1 DEF IInv, QueueFits
    <3>3. \A l \in Mode, u \in Thread : Queued(sleepq'[l], u) <=> Queued(sleepq[l], u)
      BY <1>7, <2>2, <2>5 DEF IInv, QueueFits
    <3> QED
      BY <1>2, <3>2, <3>3 DEF IInv, QueueFits
  <2>8. WakeFits'
    BY <1>2, <2>5, <2>6 DEF WakeFits
  <2>9. (TypeOK /\ KpriBalanced)'
    BY <1>1, <1>2, <2>5, <2>6 DEF IInv, TypeOK, KpriBalanced
  <2> QED
    BY <1>3, <1>4, <2>7, <2>8, <2>9 DEF IInv
<1> QED
  BY <1>6, <1>7

\* The lock is destroyed, or a new one made in its place, when nobody uses it.
LEMMA IdleSteps ==
  ASSUME IInv, RwDestroy \/ RwInit
  PROVE  IInv'
<1>1. UNCHANGED <<tc_lock, sleepq, wakeup, pri, kpri, mode, pc>>
  BY DEF RwDestroy, RwInit, turnstile
<1>2. /\ Effect({}, {}, {}, {}) /\ Granted' = Granted
      /\ Holders("R") = {} /\ Waiters("R") = {} /\ Waiters("W") = {}
      /\ \A t \in Thread : pc[t] = "idle"
  BY <1>1, IdleEffect DEF NoEffect, Effect, Granted
<1>3. /\ rw_owner' \in {NoThread, DeadLock} /\ rw_count' = 0 /\ ~rw_wait' /\ ~rw_want'
      /\ rw_wait' \in BOOLEAN /\ rw_want' \in BOOLEAN
  <2>1. CASE RwDestroy
    <3>1. rw_count = 0
      BY <2>1 DEF RwDestroy, Locked, IInv, TypeOK
    <3> QED
      BY <2>1, <3>1 DEF RwDestroy, IInv, TypeOK
  <2>2. CASE RwInit
    BY <2>2 DEF RwInit
  <2> QED
    BY <2>1, <2>2
<1>4. (WordMatchesHolders /\ BitsMatchWaiters)'
  BY <1>2, <1>3, FS_EmptySet, RWLockAssumption
     DEF Effect, WordMatchesHolders, BitsMatchWaiters
<1>5. TypeOK'
  BY <1>1, <1>3 DEF IInv, TypeOK
<1>6. (QueueFits /\ ChainFits /\ WakeFits)'
  BY <1>1 DEF IInv, QueueFits, ChainFits, WakeFits
<1>7. (FinalFits /\ DowngradeFits /\ ReadWaitFits /\ DeadFits)'
  BY <1>1, <1>2, <1>3 DEF FinalFits, DowngradeFits, ReadWaitFits, DeadFits
<1>8. KpriBalanced'
  BY <1>1, <1>2 DEF IInv, KpriBalanced
<1> QED
  BY <1>4, <1>5, <1>6, <1>7, <1>8 DEF IInv

-----------------------------------------------------------------------------
(* The theorems.                                                           *)

\* Every step of the specification preserves the invariant.
LEMMA NextPreserves ==
  ASSUME IInv, [Next]_vars
  PROVE  IInv'
<1>1. CASE UNCHANGED vars
  <2>1. Granted' = Granted /\ NoEffect /\ Locked' = Locked
    BY <1>1 DEF vars, Granted, NoEffect, Effect, Holders, Waiters, Locked
  <2>2. (WordMatchesHolders /\ BitsMatchWaiters /\ KpriBalanced)'
    BY <1>1, <2>1 DEF vars, IInv, WordMatchesHolders, BitsMatchWaiters, KpriBalanced,
       NoEffect, Effect
  <2>3. (TypeOK /\ QueueFits /\ ChainFits /\ WakeFits)'
    BY <1>1 DEF vars, IInv, TypeOK, QueueFits, ChainFits, WakeFits
  <2>4. (FinalFits /\ DowngradeFits /\ ReadWaitFits /\ DeadFits)'
    BY <1>1 DEF vars, IInv, FinalFits, DowngradeFits, ReadWaitFits, DeadFits
  <2> QED
    BY <2>2, <2>3, <2>4 DEF IInv
<1>2. ASSUME NEW t \in Thread, NEW m \in Mode, RwEnter(t, m) \/ RwTryenter(t, m)
      PROVE  IInv'
  BY <1>2, RwEnterStep, RwTryenterStep
<1>3. ASSUME NEW t \in Thread, EnterStep(t) PROVE IInv'
  BY <1>3, EnterTryStep, EnterLookupStep, SetWaitStep, BlockStep DEF EnterStep
<1>4. ASSUME NEW t \in Thread, ExitStep(t) PROVE IInv'
  BY <1>4, RwExitStep, RwExitFinalStep, ExitLookupStep, HandoffStep, WakeNextStep,
     WakeDoneStep DEF ExitStep
<1>5. ASSUME NEW t \in Thread, DowngradeStep(t) PROVE IInv'
  BY <1>5, DowngradeLookupStep, DowngradeGrantStep, DowngradeDoneStep DEF DowngradeStep
<1>6. ASSUME NEW t \in Thread, RwDowngrade(t) \/ RwTryupgrade(t) PROVE IInv'
  BY <1>6, RwDowngradeStep, RwTryupgradeStep
<1>7. ASSUME NEW t \in Thread, NEW p \in Pri, ChangePri(t, p) PROVE IInv'
  BY <1>7, ChangePriStep
<1>8. CASE RwDestroy \/ RwInit
  BY <1>8, IdleSteps
<1> QED
  BY <1>1, <1>2, <1>3, <1>4, <1>5, <1>6, <1>7, <1>8 DEF Next

\* It holds at first: nobody holds the lock, waits for it or sleeps.
LEMMA InitHolds ==
  ASSUME Init
  PROVE  IInv /\ Holders("R") = {} /\ Holders("W") = {} /\ Waiters("R") = {} /\ Waiters("W") = {}
<1>1. /\ \A t \in Thread : pc[t] = "idle" /\ kpri[t] = 0 /\ mode[t] \in Mode
      /\ \A m \in Mode : sleepq[m] = <<>>
      /\ wakeup = [q |-> "R", n |-> 0] /\ "R" \in Mode /\ tc_lock = NoThread
  BY DEF Init, Mode
<1>2. Granted = {}
  BY <1>1 DEF Granted
<1>3. Holders("R") = {} /\ Holders("W") = {} /\ Waiters("R") = {} /\ Waiters("W") = {}
  BY <1>1, <1>2 DEF Holders, Waiters, HoldPC
<1>4. TypeOK
  <2>1. 0 \in Nat /\ <<>> \in Seq(Thread) /\ [q |-> "R", n |-> 0] \in [q : Mode, n : Nat]
    BY <1>1
  <2> QED
    BY <2>1, Zenon DEF Init, TypeOK, Mode, Label
<1>5. QueueFits
  BY <1>1 DEF QueueFits, Distinct, Sorted, Queued
<1>6. ChainFits /\ WakeFits
  BY <1>1, RWLockAssumption DEF ChainFits, WakeFits
<1>7. FinalFits /\ DowngradeFits /\ ReadWaitFits /\ DeadFits
  BY <1>1 DEF Init, FinalFits, DowngradeFits, ReadWaitFits, DeadFits
<1>8. WordMatchesHolders /\ BitsMatchWaiters
  BY <1>3, FS_EmptySet, RWLockAssumption DEF Init, WordMatchesHolders, BitsMatchWaiters
<1>9. KpriBalanced
  BY <1>1, <1>2 DEF KpriBalanced
<1> QED
  BY <1>3, <1>4, <1>5, <1>6, <1>7, <1>8, <1>9 DEF IInv

\* The invariant holds in every state of every behaviour.
THEOREM Inductive == Spec => []IInv
<1>1. Init => IInv
  BY InitHolds
<1>2. IInv /\ [Next]_vars => IInv'
  BY NextPreserves
<1> QED
  BY <1>1, <1>2, PTL DEF Spec

\* The owner and the hold count in the lock word always name exactly the threads that
\* hold the lock or have been granted it, so a writer excludes everybody else.
THEOREM WordHolds == Spec => []WordMatchesHolders
<1>1. IInv => WordMatchesHolders
  BY DEF IInv
<1> QED
  BY <1>1, Inductive, PTL

\* The waiters bits always say who waits, and never in a free lock.
THEOREM BitsHold == Spec => []BitsMatchWaiters
<1>1. IInv => BitsMatchWaiters
  BY DEF IInv
<1> QED
  BY <1>1, Inductive, PTL

\* Kernel priority is requested exactly by the threads that hold or are about to take
\* a read lock, whoever requests it for them.
THEOREM KpriHolds == Spec => []KpriBalanced
<1>1. IInv => KpriBalanced
  BY DEF IInv
<1> QED
  BY <1>1, Inductive, PTL

\* Only Handoff() takes a thread from there to its wakeups.
LEMMA HandoffOnly ==
  ASSUME IInv, Next, NEW t \in Thread, pc[t] = "handoff", pc'[t] = "wake"
  PROVE  Handoff(t)
<1>1. pc \in [Thread -> Label]
  BY DEF IInv, TypeOK
<1>2. ASSUME NEW u \in Thread, NEW m \in Mode, RwEnter(u, m) \/ RwTryenter(u, m) PROVE FALSE
  BY <1>1, <1>2 DEF RwEnter, RwTryenter, Goto
<1>3. ASSUME NEW u \in Thread, EnterStep(u) PROVE FALSE
  BY <1>1, <1>3 DEF EnterStep, EnterTry, EnterLookup, SetWait, Block, Goto
<1>4. ASSUME NEW u \in Thread,
             RwExit(u) \/ RwExitFinal(u) \/ ExitLookup(u) \/ WakeDone(u) \/ DowngradeStep(u)
      PROVE  FALSE
  BY <1>1, <1>4 DEF RwExit, RwExitFinal, ExitLookup, WakeDone, DowngradeStep,
     DowngradeLookup, DowngradeGrant, DowngradeDone, Goto
<1>5. ASSUME NEW u \in Thread, WakeNext(u) PROVE FALSE
  BY <1>1, <1>5, WakeNextEffect
<1>6. ASSUME NEW u \in Thread, RwDowngrade(u) \/ RwTryupgrade(u) PROVE FALSE
  BY <1>1, <1>6 DEF RwDowngrade, RwTryupgrade, Goto
<1>7. ASSUME NEW u \in Thread, NEW p \in Pri, ChangePri(u, p) PROVE FALSE
  BY <1>7 DEF ChangePri
<1>8. ~RwDestroy /\ ~RwInit
  BY DEF RwDestroy, RwInit
<1>9. ASSUME NEW u \in Thread, Handoff(u) PROVE u = t
  BY <1>1, <1>9 DEF Handoff, Goto
<1> QED
  BY <1>2, <1>3, <1>4, <1>5, <1>6, <1>7, <1>8, <1>9 DEF Next, ExitStep

\* An exiting writer hands the lock over as the wakeup policy of rwlock.c says: to the
\* first writer only past readers of lower priority, to readers only if none of them has
\* a lower priority than a blocked writer, and never past a higher priority in a queue.
THEOREM PolicyHolds == Spec => WriterPriorityPolicy
<1> DEFINE granted == {sleepq[wakeup'.q][i] : i \in 1 .. wakeup'.n}
           others(q) == ToSet(sleepq[q]) \ granted
           R == sleepq["R"]
           W == sleepq["W"]
<1>1. ASSUME IInv, Next, NEW t \in Thread, pc[t] = "handoff", mode[t] = "W", pc'[t] = "wake",
             NEW g \in granted
      PROVE  IF wakeup'.q = "W"
               THEN /\ \A r \in others("R") : pri[g] > pri[r]
                    /\ \A w \in others("W") : pri[g] >= pri[w]
               ELSE /\ \A w \in others("W") : pri[g] >= pri[w]
                    /\ \A r \in others("R") : pri[g] >= pri[r]
  <2>1. Handoff(t)
    BY <1>1, HandoffOnly
  <2>2. /\ R \in Seq(Thread) /\ W \in Seq(Thread) /\ Sorted(R, pri) /\ Sorted(W, pri)
        /\ Len(R) \in Nat /\ Len(W) \in Nat
    BY <1>1 DEF IInv, TypeOK, QueueFits, Mode
  <2>3. \A u \in Thread : pri[u] \in Nat
    BY <1>1, RWLockAssumption DEF IInv, TypeOK
  <2>4. /\ \A r \in ToSet(R) : \E i \in 1 .. Len(R) : r = R[i]
        /\ \A w \in ToSet(W) : \E i \in 1 .. Len(W) : w = W[i]
    BY <2>2 DEF ToSet
  <2>5. ASSUME NEW n \in 1 .. Len(R), ReadersToWake(n), GrantReaders(n)
        PROVE  /\ wakeup'.q = "R"
               /\ \A w \in others("W") : pri[g] >= pri[w]
               /\ \A r \in others("R") : pri[g] >= pri[r]
    <3>1. wakeup'.q = "R" /\ wakeup'.n = n
      BY <2>5 DEF GrantReaders
    <3>2. PICK i \in 1 .. n : g = R[i]
      BY <3>1
    <3>3. g \in Thread /\ i \in 1 .. Len(R)
      BY <2>2, <3>2
    <3>4. ASSUME NEW w \in others("W") PROVE pri[g] >= pri[w]
      <4>1. PICK j \in 1 .. Len(W) : w = W[j]
        BY <2>4
      <4>2. W # <<>> /\ Head(W) = W[1] /\ 1 \in 1 .. Len(W) /\ w \in Thread /\ W[1] \in Thread
        BY <2>2, <4>1
      <4>3. pri[g] >= pri[W[1]]
        BY <2>5, <3>2, <4>2 DEF ReadersToWake
      <4>4. j = 1 \/ pri[W[1]] >= pri[w]
        BY <2>2, <4>1, <4>2 DEF Sorted
      <4> QED
        BY <2>3, <3>3, <4>1, <4>2, <4>3, <4>4
    <3>5. ASSUME NEW r \in others("R") PROVE pri[g] >= pri[r]
      <4>1. PICK j \in 1 .. Len(R) : r = R[j]
        BY <2>4
      <4>2. ~(j \in 1 .. n)
        BY <3>1, <3>5, <4>1
      <4>3. i < j
        BY <3>3, <4>2
      <4> QED
        BY <2>2, <3>2, <3>3, <4>1, <4>3 DEF Sorted
    <3> QED
      BY <3>1, <3>4, <3>5
  <2>6. ASSUME W # <<>>, GrantWriter, ReadersToWake(0)
        PROVE  /\ wakeup'.q = "W"
               /\ \A r \in others("R") : pri[g] > pri[r]
               /\ \A w \in others("W") : pri[g] >= pri[w]
    <3>1. wakeup'.q = "W" /\ wakeup'.n = 1
      BY <2>6 DEF GrantWriter
    <3>2. g = W[1] /\ Head(W) = W[1] /\ 1 \in 1 .. Len(W) /\ g \in Thread
      BY <2>2, <2>6, <3>1
    <3>3. ASSUME NEW r \in others("R") PROVE pri[g] > pri[r]
      <4>1. PICK j \in 1 .. Len(R) : r = R[j]
        BY <2>4
      <4>2. 1 \in 1 .. Len(R) /\ R[1] \in Thread /\ r \in Thread /\ 0 < Len(R) /\ 0 + 1 = 1
        BY <2>2, <4>1
      <4>3. pri[R[1]] < pri[g]
        BY <2>6, <3>2, <4>2 DEF ReadersToWake
      <4>4. j = 1 \/ pri[R[1]] >= pri[r]
        BY <2>2, <4>1, <4>2 DEF Sorted
      <4> QED
        BY <2>3, <3>2, <4>1, <4>2, <4>3, <4>4
    <3>4. ASSUME NEW w \in others("W") PROVE pri[g] >= pri[w]
      <4>1. PICK j \in 1 .. Len(W) : w = W[j]
        BY <2>4
      <4>2. j = 1 \/ pri[W[1]] >= pri[w]
        BY <2>2, <3>2, <4>1 DEF Sorted
      <4> QED
        BY <2>3, <3>2, <4>1, <4>2
    <3> QED
      BY <3>1, <3>3, <3>4
  <2> HIDE DEF granted, others
  <2> QED
    BY <1>1, <2>1, <2>5, <2>6, HandoffEffect
<1>2. IInv /\ [Next]_vars =>
        [\A t \in Thread : pc[t] = "handoff" /\ mode[t] = "W" /\ pc'[t] = "wake" =>
           \A g \in granted :
             IF wakeup'.q = "W"
               THEN /\ \A r \in others("R") : pri[g] > pri[r]
                    /\ \A w \in others("W") : pri[g] >= pri[w]
               ELSE /\ \A w \in others("W") : pri[g] >= pri[w]
                    /\ \A r \in others("R") : pri[g] >= pri[r]]_vars
  <2> HIDE DEF granted, others
  <2> QED
    BY <1>1
<1> QED
  BY <1>2, Inductive, PTL DEF Spec, WriterPriorityPolicy

-----------------------------------------------------------------------------
(* The lock implements the abstract readers/writer lock.                   *)

\* Holding and waiting, in terms of the sets.
LEMMA MappingProperties ==
  ASSUME NEW t \in Thread
  PROVE  /\ Holding[t] = "R" <=> t \in Holders("R")
         /\ Holding[t] = "W" <=> t \in Holders("W")
         /\ Holding[t] = "N" <=> t \notin Holders("R") /\ t \notin Holders("W")
         /\ Waiting[t] = "R" <=> t \in Waiters("R")
         /\ Waiting[t] = "W" <=> t \in Waiters("W")
         /\ Waiting[t] = "N" <=> t \notin Waiters("R") /\ t \notin Waiters("W")
<1>1. /\ ~(t \in Holders("R") /\ t \in Holders("W"))
      /\ ~(t \in Waiters("R") /\ t \in Waiters("W"))
  BY DEF Holders, Waiters
<1> QED
  BY <1>1 DEF Holding, Waiting

\* What an effect makes of them.
LEMMA MappedEffect ==
  ASSUME NEW hr, NEW hw, NEW wr, NEW ww, Effect(hr, hw, wr, ww)
  PROVE  /\ Holding' = [u \in Thread |-> IF u \in hr THEN "R" ELSE IF u \in hw THEN "W" ELSE "N"]
         /\ Waiting' = [u \in Thread |-> IF u \in wr THEN "R" ELSE IF u \in ww THEN "W" ELSE "N"]
  BY DEF Effect, Holding, Waiting

\* A step without effect is a stutter.
LEMMA NoEffectStutters ==
  ASSUME NoEffect
  PROVE  UNCHANGED Abstract!vars
  BY DEF NoEffect, Effect, Holding, Waiting, Abstract!vars

\* A lock in use is held according to its word if it has holders.
LEMMA HeldProperties ==
  ASSUME IInv, rw_owner # DeadLock
  PROVE  /\ Locked <=> \E u \in Thread : Holding[u] # "N"
         /\ WriteClaimed <=> \E u \in Thread : Holding[u] = "W" \/ Waiting[u] = "W"
<1>1. /\ Holders("R") \subseteq Thread /\ Holders("W") \subseteq Thread
      /\ Waiters("R") \subseteq Thread /\ Waiters("W") \subseteq Thread
  BY DEF Holders, Waiters
<1>2. /\ rw_owner # NoThread <=> Holders("W") # {}
      /\ rw_want <=> Waiters("W") # {}
  BY RWLockAssumption DEF IInv, TypeOK, WordMatchesHolders, BitsMatchWaiters
<1>3. rw_count > 0 <=> Holders("R") # {}
  BY HoldersFinite, Counting DEF IInv, WordMatchesHolders
<1> QED
  BY <1>1, <1>2, <1>3, MappingProperties DEF Locked, WriteClaimed

\* A lock is taken when it is available.
LEMMA AcquireStep ==
  ASSUME IInv, NEW t \in Thread, NEW m \in Mode, rw_owner # DeadLock, ~Busy(m), Takes(t, m)
  PROVE  Abstract!Acquire(t, m)
<1>1. Holding[t] = "N" /\ Waiting[t] = "N"
  BY MappingProperties DEF Takes, Uninvolved
<1>2. Abstract!Available(m)
  BY HeldProperties, MappingProperties DEF Busy, Abstract!Available, Abstract!Free,
     Abstract!Holds, Abstract!Waits, Mode
<1>3. Holding' = [Holding EXCEPT ![t] = m]
  <2>1. Uninvolved(t) /\ m \in {"R", "W"}
    BY DEF Takes, Mode
  <2>2. Holding' = [u \in Thread |-> IF u = t THEN m ELSE Holding[u]]
    BY <2>1 DEF Takes, Effect, Holding, Uninvolved
  <2> QED
    BY <2>2 DEF Holding
<1>4. Waiting' = Waiting
  BY DEF Takes, Effect, Waiting, Mode
<1> QED
  BY <1>1, <1>2, <1>3, <1>4 DEF Abstract!Acquire, Abstract!Holds, Abstract!Waits

\* A thread commits itself to wait only for a lock that is held.
LEMMA WaitStep ==
  ASSUME IInv, NEW t \in Thread, SetWait(t), Busy(mode[t])
  PROVE  Abstract!Wait(t, mode[t])
<1>1. pc[t] = "setwait" /\ mode[t] \in Mode /\ Uninvolved(t) /\ rw_owner # DeadLock
  BY SetWaitEffect DEF SetWait, IInv, TypeOK, DeadFits
<1>2. Holding[t] = "N" /\ Waiting[t] = "N"
  BY <1>1, MappingProperties DEF Uninvolved
<1>3. ~Abstract!Free
  <2>1. Locked
    BY DEF Busy, WriteClaimed, Locked, IInv, BitsMatchWaiters
  <2> QED
    BY <1>1, <2>1, HeldProperties DEF Abstract!Free, Abstract!Holds
<1>4. ~Abstract!Available(mode[t])
  BY <1>1, <1>3, HeldProperties DEF Busy, Abstract!Available, Abstract!Holds, Abstract!Waits
<1>5. Waiting' = [Waiting EXCEPT ![t] = mode[t]]
  <2>1. Waiting' = [u \in Thread |-> IF u = t THEN mode[t] ELSE Waiting[u]]
    BY <1>1, SetWaitEffect DEF Effect, Waiting, Uninvolved, Mode
  <2> QED
    BY <2>1 DEF Waiting
<1>6. Holding' = Holding
  BY <1>1, SetWaitEffect DEF Effect, Holding, Mode
<1> QED
  BY <1>2, <1>3, <1>4, <1>5, <1>6 DEF Abstract!Wait, Abstract!Holds, Abstract!Waits

\* A hold is just dropped only if others remain or nobody waits.
LEMMA ReleaseStep ==
  ASSUME IInv, NEW t \in Thread, RwExit(t)
  PROVE  Abstract!Release(t)
<1>1. pc[t] = "held" /\ mode[t] \in Mode /\ ~(FinalExit(t) /\ rw_wait)
  BY DEF RwExit, IInv, TypeOK
<1>2. /\ mode[t] = "W" => Holders("W") = {t} /\ Holders("R") = {}
      /\ mode[t] = "R" => t \in Holders("R") /\ Holders("W") = {}
  BY <1>1, HolderAlone DEF HoldPC
<1>3. Holding[t] # "N"
  BY <1>1, <1>2, MappingProperties DEF Mode
<1>4. Abstract!NobodyWaits \/ ~Abstract!OnlyHolder(t)
  <2>1. CASE ~rw_wait
    BY <2>1, MappingProperties
       DEF IInv, BitsMatchWaiters, Abstract!NobodyWaits, Abstract!Waits
  <2>2. CASE ~FinalExit(t)
    <3>1. mode[t] = "R" /\ rw_count # 1
      BY <1>1, <2>2 DEF FinalExit, Mode
    <3>2. Holders("R") # {t}
      BY <3>1, FS_Singleton DEF IInv, WordMatchesHolders
    <3>3. PICK u \in Holders("R") : u # t
      BY <1>2, <3>1, <3>2
    <3>4. u \in Thread /\ Holding[u] # "N"
      BY <3>3, MappingProperties DEF Holders
    <3> QED
      BY <3>3, <3>4 DEF Abstract!OnlyHolder, Abstract!Holds
  <2> QED
    BY <1>1, <2>1, <2>2
<1>5. Holding' = [Holding EXCEPT ![t] = "N"]
  <2>1. Holding' = [u \in Thread |-> IF u = t THEN "N" ELSE Holding[u]]
    BY <1>1, <1>2, RwExitEffect DEF Effect, Holding, Mode
  <2> QED
    BY <2>1 DEF Holding
<1>6. Waiting' = Waiting
  BY <1>1, RwExitEffect DEF Effect, Waiting, Mode
<1> QED
  BY <1>3, <1>4, <1>5, <1>6 DEF Abstract!Release, Abstract!Holds

\* The lock is passed on to waiters.
LEMMA PassOnStep ==
  ASSUME IInv, NEW t \in Thread, Handoff(t)
  PROVE  Abstract!PassOn(t)
<1> DEFINE R == sleepq["R"]
           W == sleepq["W"]
<1>1. pc[t] = "handoff" /\ mode[t] \in Mode
  BY DEF Handoff, IInv, TypeOK
<1>2. /\ mode[t] = "W" => Holders("W") = {t} /\ Holders("R") = {}
      /\ mode[t] = "R" => Holders("R") = {t} /\ Holders("W") = {}
  BY <1>1, HolderAlone DEF HoldPC, IInv, FinalFits
<1>3. Holding[t] # "N" /\ Abstract!OnlyHolder(t)
  BY <1>1, <1>2, MappingProperties DEF Mode, Abstract!OnlyHolder, Abstract!Holds
<1>4. ASSUME NEW S \in SUBSET Thread, S # {}, mode[t] = "W", S \subseteq Waiters("R"),
             Effect(S, {}, Waiters("R") \ S, Waiters("W"))
      PROVE  Abstract!PassOn(t)
  <2>1. Holding[t] = "W" /\ \A r \in S : Waiting[r] = "R"
    BY <1>2, <1>4, MappingProperties
  <2>2. Holding' = [u \in Thread |-> IF u \in S THEN Waiting[u]
                                     ELSE IF u = t THEN "N" ELSE Holding[u]]
    BY <1>2, <1>4, <2>1 DEF Effect, Holding
  <2>3. Waiting' = [u \in Thread |-> IF u \in S THEN "N" ELSE Waiting[u]]
    <3>1. S \cap Waiters("W") = {}
      BY <1>4 DEF Waiters
    <3> QED
      BY <1>4, <3>1 DEF Effect, Waiting
  <2> QED
    BY <1>3, <1>4, <2>1, <2>2, <2>3
       DEF Abstract!PassOn, Abstract!Grant, Abstract!Holds, Abstract!Waits
<1>5. ASSUME NEW w \in Waiters("W"), Effect({}, {w}, Waiters("R"), Waiters("W") \ {w})
      PROVE  Abstract!PassOn(t)
  <2>1. w \in Thread /\ Waiting[w] = "W" /\ w \notin Waiters("R")
    BY MappingProperties DEF Waiters
  <2>2. Holding' = [u \in Thread |-> IF u \in {w} THEN Waiting[u]
                                     ELSE IF u = t THEN "N" ELSE Holding[u]]
    BY <1>1, <1>2, <1>5, <2>1 DEF Effect, Holding, Mode
  <2>3. Waiting' = [u \in Thread |-> IF u \in {w} THEN "N" ELSE Waiting[u]]
    BY <1>5, <2>1 DEF Effect, Waiting
  <2> QED
    BY <1>3, <2>1, <2>2, <2>3
       DEF Abstract!PassOn, Abstract!Grant, Abstract!Holds, Abstract!Waits
<1>6. \A n : First(R, n) \subseteq Waiters("R") => First(R, n) \in SUBSET Thread
  BY DEF Waiters
<1> QED
  BY <1>4, <1>5, <1>6, HandoffEffect

\* A writer becomes a reader, lets readers in, or a reader becomes a writer.
LEMMA ConversionSteps ==
  ASSUME IInv, NEW t \in Thread
  PROVE  /\ RwDowngrade(t) => Abstract!Downgrade(t)
         /\ DowngradeGrant(t) => Abstract!Admit(t) \/ UNCHANGED Abstract!vars
         /\ RwTryupgrade(t) => Abstract!Upgrade(t)
<1>1. ASSUME RwDowngrade(t) PROVE Abstract!Downgrade(t)
  <2>1. Holders("W") = {t} /\ Holders("R") = {}
    BY <1>1, HolderAlone DEF RwDowngrade, HoldPC
  <2>2. Holding' = [u \in Thread |-> IF u = t THEN "R" ELSE Holding[u]] /\ Waiting' = Waiting
    BY <1>1, <2>1, RwDowngradeEffect DEF Effect, Holding, Waiting
  <2>3. Holding' = [Holding EXCEPT ![t] = "R"]
    BY <2>2 DEF Holding
  <2> QED
    BY <2>1, <2>2, <2>3, MappingProperties DEF Abstract!Downgrade, Abstract!Holds
<1>2. ASSUME DowngradeGrant(t) PROVE Abstract!Admit(t) \/ UNCHANGED Abstract!vars
  <2>1. PICK n \in 0 .. Len(sleepq["R"]) : ReadersToWake(n) /\ wakeup' = [q |-> "R", n |-> n]
    BY <1>2 DEF DowngradeGrant
  <2> DEFINE S == First(sleepq["R"], n)
  <2>2. /\ Effect(Holders("R") \cup S, {}, Waiters("R") \ S, Waiters("W"))
        /\ S \subseteq Waiters("R") /\ Holders("W") = {} /\ t \in Holders("R")
    BY <1>2, <2>1, DowngradeGrantEffect
  <2> HIDE DEF S
  <2>3. /\ S \subseteq Thread /\ S \cap Waiters("W") = {}
        /\ Holding[t] = "R" /\ \A r \in S : Waiting[r] = "R"
    BY <2>2, MappingProperties DEF Waiters
  <2>4. CASE S = {}
    <3>1. NoEffect
      BY <2>2, <2>4 DEF NoEffect, Effect
    <3> QED
      BY <3>1, NoEffectStutters
  <2>5. CASE S # {}
    <3>1. Holding' = [u \in Thread |-> IF u \in S THEN Waiting[u]
                                       ELSE IF u = t THEN "R" ELSE Holding[u]]
      BY <2>2, <2>3 DEF Effect, Holding
    <3>2. Waiting' = [u \in Thread |-> IF u \in S THEN "N" ELSE Waiting[u]]
      BY <2>2, <2>3 DEF Effect, Waiting
    <3> QED
      BY <2>3, <2>5, <3>1, <3>2
         DEF Abstract!Admit, Abstract!Grant, Abstract!Holds, Abstract!Waits
  <2> QED
    BY <2>4, <2>5
<1>3. ASSUME RwTryupgrade(t) PROVE Abstract!Upgrade(t)
  <2>1. /\ Effect({}, {t}, Waiters("R"), Waiters("W")) /\ Holders("R") = {t}
        /\ Holders("W") = {} /\ Waiters("W") = {}
    BY <1>3, RwTryupgradeEffect, HolderAlone DEF RwTryupgrade, HoldPC, IInv, BitsMatchWaiters
  <2>2. Holding' = [u \in Thread |-> IF u = t THEN "W" ELSE Holding[u]] /\ Waiting' = Waiting
    BY <2>1 DEF Effect, Holding, Waiting
  <2>3. Holding' = [Holding EXCEPT ![t] = "W"]
    BY <2>2 DEF Holding
  <2> QED
    BY <2>1, <2>2, <2>3, MappingProperties
       DEF Abstract!Upgrade, Abstract!OnlyHolder, Abstract!Holds, Abstract!Waits
<1> QED
  BY <1>1, <1>2, <1>3

\* The lock does what rwlock.c promises: every step takes, awaits, drops, passes on,
\* downgrades or upgrades a hold in a way the abstract lock allows, or is invisible.
THEOREM RefinementHolds == Spec => ImplementsRWAbstract
<1>1. Init => Abstract!Init
  BY InitHolds DEF Holding, Waiting, Abstract!Init
<1>2. ASSUME IInv, [Next]_vars PROVE [Abstract!Next]_(Abstract!vars)
  <2>1. CASE UNCHANGED vars
    <3>1. NoEffect
      BY <2>1 DEF vars, NoEffect, Effect, Holders, Waiters, Granted
    <3> QED
      BY <3>1, NoEffectStutters
  <2>2. ASSUME NEW t \in Thread,
               \/ \E m \in Mode : RwEnter(t, m)
               \/ EnterLookup(t) \/ Block(t) \/ RwExitFinal(t) \/ ExitLookup(t)
               \/ WakeNext(t) \/ WakeDone(t) \/ DowngradeLookup(t) \/ DowngradeDone(t)
               \/ \E p \in Pri : ChangePri(t, p)
        PROVE  UNCHANGED Abstract!vars
    BY <1>2, <2>2, QuietSteps, NoEffectStutters
  <2>3. ASSUME NEW t \in Thread, NEW m \in Mode, RwTryenter(t, m) PROVE Abstract!Acquire(t, m)
    BY <1>2, <2>3, RwTryenterEffect, AcquireStep, RWLockAssumption
       DEF RwTryenter, Busy, Locked, WriteClaimed, Mode
  <2>4. ASSUME NEW t \in Thread, EnterTry(t)
        PROVE  UNCHANGED Abstract!vars \/ \E m \in Mode : Abstract!Acquire(t, m)
    <3>1. mode[t] \in Mode /\ rw_owner # DeadLock
      BY <1>2, <2>4 DEF IInv, TypeOK, DeadFits, EnterTry
    <3>2. IF Busy(mode[t]) THEN NoEffect ELSE Takes(t, mode[t])
      BY <1>2, <2>4, EnterTryEffect
    <3> QED
      BY <1>2, <3>1, <3>2, AcquireStep, NoEffectStutters
  <2>5. ASSUME NEW t \in Thread, SetWait(t)
        PROVE  UNCHANGED Abstract!vars \/ \E m \in Mode : Abstract!Wait(t, m)
    <3>1. mode[t] \in Mode /\ (Busy(mode[t]) \/ NoEffect)
      BY <1>2, <2>5, SetWaitEffect DEF IInv, TypeOK
    <3> QED
      BY <1>2, <2>5, <3>1, WaitStep, NoEffectStutters
  <2>6. ASSUME NEW t \in Thread, RwExit(t) PROVE Abstract!Release(t)
    BY <1>2, <2>6, ReleaseStep
  <2>7. ASSUME NEW t \in Thread, Handoff(t) PROVE Abstract!PassOn(t)
    BY <1>2, <2>7, PassOnStep
  <2>8. ASSUME NEW t \in Thread, RwDowngrade(t) \/ DowngradeGrant(t) \/ RwTryupgrade(t)
        PROVE  \/ Abstract!Downgrade(t) \/ Abstract!Admit(t) \/ Abstract!Upgrade(t)
               \/ UNCHANGED Abstract!vars
    BY <1>2, <2>8, ConversionSteps
  <2>9. CASE RwDestroy \/ RwInit
    BY <1>2, <2>9, IdleEffect, NoEffectStutters
  <2> QED
    BY <1>2, <2>1, <2>2, <2>3, <2>4, <2>5, <2>6, <2>7, <2>8, <2>9
       DEF Next, EnterStep, ExitStep, DowngradeStep, Abstract!Next, Abstract!Mode, Mode
<1> QED
  BY <1>1, <1>2, Inductive, PTL DEF Spec, ImplementsRWAbstract, Abstract!Spec
=============================================================================
