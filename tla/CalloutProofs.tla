--------------------------- MODULE CalloutProofs ---------------------------
(***************************************************************************)
(* Proofs about module Callout, for any number of users, threads and       *)
(* structures and any clock that is long enough: the three invariants the  *)
(* run checks.                                                             *)
(***************************************************************************)
EXTENDS Callout, SequenceTheorems, FiniteSetTheorems, TLAPS

-----------------------------------------------------------------------------
(* The inductive invariant.                                                *)

\* A user has an id from timeout() until untimeout() returns, and nobody else
\* has the same.
IdsFit ==
  /\ \A t \in Timer : tid[t] = NoId <=> tpc[t] \in {"idle", "alloc"}
  /\ \A t, u \in Timer : tid[t] = tid[u] /\ tid[t] # NoId => t = u

\* A callout in the table belongs to a user, who has no other.
ArgsFit ==
  /\ \A cp \in InTable : c_arg[cp] \in Timer
  /\ \A cp, cq \in InTable : c_arg[cp] = c_arg[cq] => cp = cq

\* While untimeout() waits, the callout it waits for is the only one of its user,
\* and is executing.
WaitFits ==
  \A t \in Timer : tpc[t] \in {"wait", "woken"} =>
    /\ tcp[t] \in Callout
    /\ \A cp \in InTable : c_arg[cp] = t => cp = tcp[t] /\ c_executing[cp]

\* The current time of the table is not ahead of the clock, and its run time is
\* at most one tick ahead of the current time.
TimesFit ==
  /\ Behind(ct_curtime) >= 0
  /\ Behind(ct_runtime) \in Behind(ct_curtime) - 1 .. MaxLag + 1

\* Callouts that nobody executes are due at the run time of the table or later.
PendingFits ==
  \A cp \in Pending : Behind(c_runtime[cp]) \in -MaxDelta .. Behind(ct_runtime)

\* A thread in a handler has the callout to itself, which is still in the table.
RunningFits ==
  \A w \in Worker :
    /\ wpc[w] # "selfwait"
    /\ wpc[w] = "exec" =>
         /\ wcp[w] \in InTable /\ c_executing[wcp[w]] /\ c_executor[wcp[w]] = w
         /\ c_runtime[wcp[w]] = wruntime[w]
         /\ Behind(wruntime[w]) \in Behind(ct_curtime) .. MaxLag + 1

\* x is before y on a chain.
Before(hash, x, y) ==
  \E b \in Bucket : \E i, j \in 1 .. Len(hash[b]) : i < j /\ hash[b][i] = x /\ hash[b][j] = y

\* Those before it on the chain that are due on the same tick are executing too.
WalkFits ==
  \A w \in Worker : wpc[w] = "exec" =>
    \A cp \in InTable :
      Before(ct_lbhash, cp, wcp[w]) /\ c_runtime[cp] = wruntime[w] => c_executing[cp]

IInv ==
  /\ TypeOK /\ IdsFit /\ ArgsFit /\ UntimeoutIsFinal /\ WaitFits
  /\ TimesFit /\ PendingFits /\ RunningFits /\ WalkFits /\ DueHasExecutor

-----------------------------------------------------------------------------
(* Time.  Differences of times are exact as long as both are within half   *)
(* the range of clock_t.                                                   *)

\* Half the range of clock_t.
Half == TimeMod \div 2

\* Half the range covers the window of times that meet, by CalloutAssumption.
LEMMA HalfProperties ==
  /\ TimeMod \in Nat /\ TimeMod > 0 /\ Half \in Nat
  /\ 2 * Half \in {TimeMod, TimeMod - 1}
  /\ MaxDelta \in Nat /\ MaxDelta > 0 /\ MaxLag \in Nat
  /\ Half >= MaxDelta + MaxLag + 3
<1>1. TimeMod \in Nat /\ TimeMod > 0 /\ MaxDelta \in Nat /\ MaxDelta > 0 /\ MaxLag \in Nat
      /\ TimeMod >= 2 * (MaxDelta + MaxLag + 3)
  BY CalloutAssumption
<1>2. Half \in Nat /\ 2 * Half \in {TimeMod, TimeMod - 1}
  BY <1>1 DEF Half
<1> QED
  BY <1>1, <1>2

\* Hash chains are chosen by the low bits of the time.
LEMMA LBHashType ==
  ASSUME NEW r \in Time
  PROVE  LBHash(r) \in Bucket
  BY CalloutAssumption DEF Time, LBHash, Bucket

\* What the remainder is, near zero.
LEMMA ModNear ==
  ASSUME NEW x \in -TimeMod .. 2 * TimeMod - 1
  PROVE  /\ x % TimeMod \in Time
         /\ x % TimeMod = IF x < 0 THEN x + TimeMod ELSE IF x < TimeMod THEN x ELSE x - TimeMod
<1>1. TimeMod \in Nat /\ TimeMod > 0
  BY HalfProperties
<1>2. CASE x < 0
  BY <1>1, <1>2 DEF Time
<1>3. CASE 0 <= x /\ x < TimeMod
  BY <1>1, <1>3 DEF Time
<1>4. CASE x >= TimeMod
  BY <1>1, <1>4 DEF Time
<1> QED
  BY <1>1, <1>2, <1>3, <1>4

\* The difference of two times is theirs, but for a turn of the clock.
LEMMA DiffCases ==
  ASSUME NEW a \in Time, NEW b \in Time
  PROVE  /\ Diff(a, b) \in -Half .. TimeMod - Half - 1
         /\ Diff(a, b) \in {a - b, a - b + TimeMod, a - b - TimeMod}
<1>1. TimeMod \in Nat /\ TimeMod > 0 /\ Half \in Nat /\ 2 * Half <= TimeMod
      /\ a \in 0 .. TimeMod - 1 /\ b \in 0 .. TimeMod - 1
  BY HalfProperties DEF Time
<1> DEFINE x == a - b + Half
<1>2. x \in -TimeMod .. 2 * TimeMod - 1
  BY <1>1
<1>3. /\ x % TimeMod \in 0 .. TimeMod - 1
      /\ x % TimeMod = IF x < 0 THEN x + TimeMod ELSE IF x < TimeMod THEN x ELSE x - TimeMod
  BY <1>2, ModNear DEF Time
<1>4. Diff(a, b) = (x % TimeMod) - Half
  BY DEF Diff, Half
<1> QED
  BY <1>1, <1>3, <1>4

\* There is one such difference in the signed range.
LEMMA DiffUnique ==
  ASSUME NEW a \in Time, NEW b \in Time, NEW d \in -Half .. TimeMod - Half - 1,
         d \in {a - b, a - b + TimeMod, a - b - TimeMod}
  PROVE  Diff(a, b) = d
<1> DEFINE e == Diff(a, b)
<1>1. /\ e \in -Half .. TimeMod - Half - 1
      /\ e \in {a - b, a - b + TimeMod, a - b - TimeMod}
  BY DiffCases
<1>2. /\ TimeMod \in Nat /\ TimeMod > 0 /\ Half \in Nat
      /\ a \in 0 .. TimeMod - 1 /\ b \in 0 .. TimeMod - 1
  BY HalfProperties DEF Time
<1> HIDE DEF e
<1>3. e = d
  BY <1>1, <1>2
<1> QED
  BY <1>3 DEF e

\* A time is not behind itself.
LEMMA DiffSelf ==
  ASSUME NEW a \in Time
  PROVE  Diff(a, a) = 0
<1>1. 0 \in -Half .. TimeMod - Half - 1 /\ 0 = a - a
  BY HalfProperties DEF Time
<1> QED
  BY <1>1, DiffUnique

\* How far two times are apart, by how far they are behind a third.
LEMMA DiffBehind ==
  ASSUME NEW l \in Time, NEW x \in Time, NEW y \in Time,
         Diff(l, x) \in -MaxDelta .. MaxLag + 2, Diff(l, y) \in -MaxDelta .. MaxLag + 2
  PROVE  /\ Diff(x, y) = Diff(l, y) - Diff(l, x)
         /\ Diff(l, x) = Diff(l, y) => x = y
<1> DEFINE d == Diff(l, y) - Diff(l, x)
<1>1. /\ Diff(l, x) \in {l - x, l - x + TimeMod, l - x - TimeMod}
      /\ Diff(l, y) \in {l - y, l - y + TimeMod, l - y - TimeMod}
  BY DiffCases
<1>2. l \in 0 .. TimeMod - 1 /\ x \in 0 .. TimeMod - 1 /\ y \in 0 .. TimeMod - 1
  BY DEF Time
<1>3. d \in -Half .. TimeMod - Half - 1
  BY HalfProperties
<1>4. d \in {x - y, x - y + TimeMod, x - y - TimeMod}
  BY <1>1, <1>2, <1>3, HalfProperties
<1>5. Diff(x, y) = d
  BY <1>3, <1>4, DiffUnique
<1>6. Diff(l, x) = Diff(l, y) => x = y
  BY <1>1, <1>2, HalfProperties
<1> QED
  BY <1>5, <1>6

\* A later time is less far behind.
LEMMA PlusBehind ==
  ASSUME NEW l \in Time, NEW x \in Time, NEW n \in 0 .. MaxDelta,
         Diff(l, x) - n >= -MaxDelta
  PROVE  Plus(x, n) \in Time /\ Diff(l, Plus(x, n)) = Diff(l, x) - n
<1>1. /\ TimeMod \in Nat /\ TimeMod > 0 /\ n \in Nat /\ n < TimeMod
      /\ l \in 0 .. TimeMod - 1 /\ x \in 0 .. TimeMod - 1
  BY HalfProperties DEF Time
<1>2. x + n \in -TimeMod .. 2 * TimeMod - 1
  BY <1>1
<1>3. /\ Plus(x, n) \in Time
      /\ Plus(x, n) = IF x + n < TimeMod THEN x + n ELSE x + n - TimeMod
  BY <1>1, <1>2, ModNear DEF Plus
<1>4. Diff(l, x) \in {l - x, l - x + TimeMod, l - x - TimeMod}
      /\ Diff(l, x) \in -Half .. TimeMod - Half - 1
  BY DiffCases
<1> DEFINE d == Diff(l, x) - n
           p == Plus(x, n)
<1> HIDE DEF p
<1>5. d \in -Half .. TimeMod - Half - 1
  BY <1>1, <1>4, HalfProperties
<1>6. d \in {l - p, l - p + TimeMod, l - p - TimeMod}
  BY <1>1, <1>3, <1>4, <1>5, HalfProperties DEF p, Time
<1>7. Diff(l, p) = d
  BY <1>3, <1>5, <1>6, DiffUnique DEF p
<1> QED
  BY <1>3, <1>7 DEF p

\* A tick puts all times behind by one.
LEMMA TickBehind ==
  ASSUME NEW l \in Time, NEW x \in Time, Diff(l, x) <= MaxLag + 1
  PROVE  Plus(l, 1) \in Time /\ Diff(Plus(l, 1), x) = Diff(l, x) + 1
<1>1. /\ TimeMod \in Nat /\ TimeMod > 1
      /\ l \in 0 .. TimeMod - 1 /\ x \in 0 .. TimeMod - 1
  BY HalfProperties DEF Time
<1>2. l + 1 \in -TimeMod .. 2 * TimeMod - 1
  BY <1>1
<1>3. /\ Plus(l, 1) \in Time
      /\ Plus(l, 1) = IF l + 1 < TimeMod THEN l + 1 ELSE l + 1 - TimeMod
  BY <1>1, <1>2, ModNear DEF Plus
<1>4. Diff(l, x) \in {l - x, l - x + TimeMod, l - x - TimeMod}
      /\ Diff(l, x) \in -Half .. TimeMod - Half - 1
  BY DiffCases
<1> DEFINE d == Diff(l, x) + 1
           p == Plus(l, 1)
<1> HIDE DEF p
<1>5. d \in -Half .. TimeMod - Half - 1
  BY <1>1, <1>4, HalfProperties
<1>6. d \in {p - x, p - x + TimeMod, p - x - TimeMod}
  BY <1>1, <1>3, <1>4, <1>5, HalfProperties DEF p, Time
<1>7. Diff(p, x) = d
  BY <1>3, <1>5, <1>6, DiffUnique DEF p
<1> QED
  BY <1>3, <1>7 DEF p

\* A set of numbers has a least one.
LEMMA LeastExists ==
  ASSUME NEW S \in SUBSET Nat, S # {}
  PROVE  \E x \in S : \A y \in S : x <= y
<1>1. PICK x \in S : \A y \in S : ~(<<y, x>> \in OpToRel(<, Nat))
  BY NatLessThanWellFounded, WFMin
<1>2. ASSUME NEW y \in S PROVE x <= y
  <2>1. ~(y < x)
    BY <1>1 DEF OpToRel
  <2> QED
    BY <2>1
<1> QED
  BY <1>2

\* The first position in a set of them.
LEMMA FirstOfProperties ==
  ASSUME NEW S \in SUBSET Nat, S # {}
  PROVE  FirstOf(S) \in S /\ \A j \in S : FirstOf(S) <= j
<1>1. \E x \in S : \A y \in S : x <= y
  BY LeastExists
<1> QED
  BY <1>1 DEF FirstOf

-----------------------------------------------------------------------------
(* The chains.                                                             *)

\* cp is on a chain.
On(hash, cp) == \E b \in Bucket : \E i \in 1 .. Len(hash[b]) : hash[b][i] = cp

\* A structure is on one chain at most, that of its run time, once.
HashFits(hash, runtime) ==
  /\ hash \in [Bucket -> Seq(Callout)]
  /\ \A b \in Bucket : \A i, j \in 1 .. Len(hash[b]) :
       /\ LBHash(runtime[hash[b][i]]) = b
       /\ i # j => hash[b][i] # hash[b][j]

\* InTable by places on the chains.
LEMMA InTableIsOn ==
  /\ \A cp : cp \in InTable <=> On(ct_lbhash, cp)
  /\ \A cp : cp \in InTable' <=> On(ct_lbhash', cp)
<1>1. \A cp : cp \in InTable <=> On(ct_lbhash, cp)
  BY DEF InTable, On
<1>2. \A cp : cp \in InTable' <=> On(ct_lbhash', cp)
  BY DEF InTable, On
<1> QED
  BY <1>1, <1>2

\* The chains hold callouts.
LEMMA OnIsCallout ==
  ASSUME NEW hash \in [Bucket -> Seq(Callout)], NEW cp, On(hash, cp)
  PROVE  cp \in Callout
<1>0. PICK b \in Bucket : \E i \in 1 .. Len(hash[b]) : hash[b][i] = cp
  BY DEF On
<1> PICK i \in 1 .. Len(hash[b]) : hash[b][i] = cp
  BY <1>0
<1>1. hash[b] \in Seq(Callout)
  OBVIOUS
<1> QED
  BY <1>1

\* h is hash with cp at the head of the chain of r.
Inserted(hash, h, cp, r) == h = [hash EXCEPT ![LBHash(r)] = <<cp>> \o @]

\* CALLOUT_HASH_INSERT
LEMMA InsertProperties ==
  ASSUME NEW hash, NEW rt \in [Callout -> Time], HashFits(hash, rt),
         NEW cp \in Callout, ~On(hash, cp), NEW r \in Time,
         NEW h, Inserted(hash, h, cp, r)
  PROVE  /\ HashFits(h, [rt EXCEPT ![cp] = r])
         /\ \A x : On(h, x) <=> On(hash, x) \/ x = cp
         /\ \A x, y : Before(h, x, y) => Before(hash, x, y) \/ x = cp
<1> DEFINE c == LBHash(r)
           q == hash[c]
           n == Len(q)
           rt2 == [rt EXCEPT ![cp] = r]
<1>1. c \in Bucket /\ hash \in [Bucket -> Seq(Callout)] /\ q \in Seq(Callout) /\ n \in Nat
  BY LBHashType DEF HashFits
<1>2. /\ <<cp>> \o q \in Seq(Callout) /\ Len(<<cp>> \o q) = n + 1
      /\ \A i \in 1 .. n + 1 : (<<cp>> \o q)[i] = IF i = 1 THEN cp ELSE q[i - 1]
  BY <1>1
<1>3. /\ h \in [Bucket -> Seq(Callout)] /\ h[c] = <<cp>> \o q
      /\ \A b \in Bucket : b # c => h[b] = hash[b]
  BY <1>1, <1>2 DEF Inserted
<1>4. Len(h[c]) = n + 1 /\ \A i \in 1 .. n + 1 : h[c][i] = IF i = 1 THEN cp ELSE q[i - 1]
  BY <1>2, <1>3
<1>5. ASSUME NEW i \in 1 .. n PROVE h[c][i + 1] = q[i]
  <2>1. i + 1 \in 1 .. n + 1 /\ i + 1 # 1 /\ (i + 1) - 1 = i
    BY <1>1
  <2>2. h[c][i + 1] = q[(i + 1) - 1]
    BY <1>4, <2>1
  <2> QED
    BY <2>1, <2>2
<1> HIDE DEF c, n, q
<1>6. \A b \in Bucket : \A i \in 1 .. Len(hash[b]) : hash[b][i] \in Callout /\ hash[b][i] # cp
  <2>1. ASSUME NEW b \in Bucket, NEW i \in 1 .. Len(hash[b])
        PROVE  hash[b][i] \in Callout
    BY <1>1
  <2>2. ASSUME NEW b \in Bucket, NEW i \in 1 .. Len(hash[b])
        PROVE  hash[b][i] # cp
    BY DEF On
  <2> QED
    BY <2>1, <2>2
<1>7. rt2[cp] = r /\ \A x \in Callout : x # cp => rt2[x] = rt[x]
  OBVIOUS
<1> HIDE DEF rt2
<1>8. ASSUME NEW b \in Bucket, NEW i \in 1 .. Len(h[b]), NEW j \in 1 .. Len(h[b])
      PROVE  LBHash(rt2[h[b][i]]) = b /\ (i # j => h[b][i] # h[b][j])
  <2>1. CASE b # c
    <3>1. h[b] = hash[b]
      BY <1>3, <2>1
    <3> QED
      BY <1>6, <1>7, <3>1 DEF HashFits
  <2>2. CASE b = c
    <3>1. i \in 1 .. n + 1 /\ j \in 1 .. n + 1
      BY <1>4, <2>2
    <3>2. \A k \in 1 .. n : q[k] \in Callout /\ q[k] # cp
      BY <1>1, <1>6 DEF q, n
    <3>3. \A k \in 1 .. n : LBHash(rt[q[k]]) = c
      BY <1>1 DEF HashFits, q, n
    <3>4. \A k, l \in 1 .. n : k # l => q[k] # q[l]
      BY <1>1 DEF HashFits, q, n
    <3>5. LBHash(rt2[h[c][i]]) = c
      <4>1. CASE i = 1
        BY <1>4, <1>7, <3>1, <4>1 DEF c
      <4>2. CASE i # 1
        <5>1. i - 1 \in 1 .. n /\ h[c][i] = q[i - 1]
          BY <1>1, <1>4, <3>1, <4>2
        <5> QED
          BY <1>7, <3>2, <3>3, <5>1
      <4> QED
        BY <4>1, <4>2
    <3>6. ASSUME i # j PROVE h[c][i] # h[c][j]
      <4>1. CASE i = 1
        <5>1. j - 1 \in 1 .. n /\ h[c][j] = q[j - 1] /\ h[c][i] = cp
          BY <1>1, <1>4, <3>1, <3>6, <4>1
        <5> QED
          BY <3>2, <5>1
      <4>2. CASE j = 1
        <5>1. i - 1 \in 1 .. n /\ h[c][i] = q[i - 1] /\ h[c][j] = cp
          BY <1>1, <1>4, <3>1, <3>6, <4>2
        <5> QED
          BY <3>2, <5>1
      <4>3. CASE i # 1 /\ j # 1
        <5>1. /\ i - 1 \in 1 .. n /\ h[c][i] = q[i - 1]
              /\ j - 1 \in 1 .. n /\ h[c][j] = q[j - 1] /\ i - 1 # j - 1
          BY <1>1, <1>4, <3>1, <3>6, <4>3
        <5> QED
          BY <3>4, <5>1
      <4> QED
        BY <4>1, <4>2, <4>3
    <3> QED
      BY <2>2, <3>5, <3>6
  <2> QED
    BY <2>1, <2>2
<1>9. HashFits(h, rt2)
  BY <1>3, <1>8 DEF HashFits
<1>10. ASSUME NEW x PROVE On(h, x) <=> On(hash, x) \/ x = cp
  <2>1. ASSUME On(h, x), x # cp PROVE On(hash, x)
    <3>1a. PICK b \in Bucket : \E i \in 1 .. Len(h[b]) : h[b][i] = x
      BY <2>1 DEF On
    <3>1. PICK i \in 1 .. Len(h[b]) : h[b][i] = x
      BY <3>1a
    <3>2. CASE b # c
      BY <1>3, <3>1, <3>2 DEF On
    <3>3. CASE b = c
      <4>1. i - 1 \in 1 .. Len(hash[c]) /\ hash[c][i - 1] = x
        BY <1>1, <1>4, <2>1, <3>1, <3>3 DEF n, q
      <4> QED
        BY <1>1, <4>1 DEF On
    <3> QED
      BY <3>2, <3>3
  <2>2. On(h, cp)
    <3>1. 1 \in 1 .. Len(h[c]) /\ h[c][1] = cp
      BY <1>1, <1>4
    <3> QED
      BY <1>1, <3>1 DEF On
  <2>3. ASSUME On(hash, x) PROVE On(h, x)
    <3>1a. PICK b \in Bucket : \E i \in 1 .. Len(hash[b]) : hash[b][i] = x
      BY <2>3 DEF On
    <3>1. PICK i \in 1 .. Len(hash[b]) : hash[b][i] = x
      BY <3>1a
    <3>2. CASE b # c
      BY <1>3, <3>1, <3>2 DEF On
    <3>3. CASE b = c
      <4>1. i + 1 \in 1 .. Len(h[c]) /\ h[c][i + 1] = x
        BY <1>1, <1>4, <1>5, <3>1, <3>3 DEF n, q
      <4> QED
        BY <1>1, <4>1 DEF On
    <3> QED
      BY <3>2, <3>3
  <2> QED
    BY <2>1, <2>2, <2>3
<1>11. ASSUME NEW x, NEW y, Before(h, x, y), x # cp PROVE Before(hash, x, y)
  <2>1a. PICK b \in Bucket :
           \E i \in 1 .. Len(h[b]) : \E j \in 1 .. Len(h[b]) : i < j /\ h[b][i] = x /\ h[b][j] = y
    BY <1>11 DEF Before
  <2>1. PICK i \in 1 .. Len(h[b]), j \in 1 .. Len(h[b]) : i < j /\ h[b][i] = x /\ h[b][j] = y
    BY <2>1a
  <2>2. CASE b # c
    BY <1>3, <2>1, <2>2 DEF Before
  <2>3. CASE b = c
    <3>1. /\ i - 1 \in 1 .. Len(hash[c]) /\ hash[c][i - 1] = x
          /\ j - 1 \in 1 .. Len(hash[c]) /\ hash[c][j - 1] = y /\ i - 1 < j - 1
      BY <1>1, <1>4, <1>11, <2>1, <2>3 DEF n, q
    <3> QED
      BY <1>1, <3>1 DEF Before
  <2> QED
    BY <2>2, <2>3
<1> QED
  BY <1>9, <1>10, <1>11 DEF rt2

\* RemoveAt() element by element.
LEMMA RemoveAtElements ==
  ASSUME NEW q \in Seq(Callout), NEW k \in 1 .. Len(q)
  PROVE  /\ RemoveAt(q, k) \in Seq(Callout)
         /\ Len(RemoveAt(q, k)) = Len(q) - 1
         /\ \A i \in 1 .. Len(q) - 1 : RemoveAt(q, k)[i] = IF i < k THEN q[i] ELSE q[i + 1]
<1> DEFINE r == RemoveAt(q, k)
           a == SubSeq(q, 1, k - 1)
           b == SubSeq(q, k + 1, Len(q))
<1>1. /\ Len(q) \in Nat
      /\ \A i \in 1 .. Len(q) : q[i] \in Callout
  OBVIOUS
<1>2. /\ a \in Seq(Callout) /\ Len(a) = k - 1
      /\ \A i \in 1 .. k - 1 : a[i] = q[i]
  OBVIOUS
<1>3. /\ b \in Seq(Callout) /\ Len(b) = Len(q) - k
      /\ \A i \in 1 .. Len(q) - k : b[i] = q[k + i]
  OBVIOUS
<1>4. r = a \o b
  BY DEF RemoveAt
<1> HIDE DEF a, b, r
<1>5. r \in Seq(Callout) /\ Len(r) = Len(q) - 1
  <2>1. a \o b \in Seq(Callout) /\ Len(a \o b) = Len(a) + Len(b)
    BY <1>2, <1>3, ConcatProperties, Zenon
  <2> QED
    BY <1>1, <1>2, <1>3, <1>4, <2>1
<1>6. ASSUME NEW i \in 1 .. Len(q) - 1
      PROVE  r[i] = IF i < k THEN q[i] ELSE q[i + 1]
  <2>1. r[i] = IF i <= Len(a) THEN a[i] ELSE b[i - Len(a)]
    BY <1>1, <1>2, <1>3, <1>4
  <2>2. CASE i < k
    BY <1>1, <1>2, <2>1, <2>2
  <2>3. CASE i >= k
    <3>1. i - Len(a) \in 1 .. Len(q) - k /\ k + (i - Len(a)) = i + 1
      BY <1>1, <1>2, <2>3
    <3>2. b[i - Len(a)] = q[k + (i - Len(a))]
      BY <1>3, <3>1
    <3>3. r[i] = b[i - Len(a)]
      BY <1>1, <1>2, <2>1, <2>3
    <3> QED
      BY <1>1, <2>3, <3>1, <3>2, <3>3
  <2> QED
    BY <1>1, <2>2, <2>3
<1> QED
  BY <1>5, <1>6 DEF r

\* h is hash without cp, which is the kth on the chain of its run time.
Removed(hash, h, rt, cp, k) ==
  /\ k \in 1 .. Len(hash[LBHash(rt[cp])]) /\ hash[LBHash(rt[cp])][k] = cp
  /\ h = [hash EXCEPT ![LBHash(rt[cp])] = RemoveAt(@, k)]

\* Chain c of h is that of hash up to place k.
FrontKept(hash, h, c, k) ==
  \A i \in 1 .. Len(h[c]) : i \in 1 .. Len(hash[c]) /\ (i < k => h[c][i] = hash[c][i])

\* CALLOUT_HASH_DELETE
LEMMA RemoveProperties ==
  ASSUME NEW hash, NEW rt \in [Callout -> Time], HashFits(hash, rt), NEW cp \in Callout,
         NEW h, NEW k, Removed(hash, h, rt, cp, k)
  PROVE  /\ HashFits(h, rt) /\ HashFits(h, [rt EXCEPT ![cp] = 0])
         /\ \A x : On(h, x) <=> On(hash, x) /\ x # cp
         /\ \A x, y : Before(h, x, y) => Before(hash, x, y)
         /\ FrontKept(hash, h, LBHash(rt[cp]), k)
<1> DEFINE c == LBHash(rt[cp])
           q == hash[c]
           n == Len(q)
           rt2 == [rt EXCEPT ![cp] = 0]
           Old(i) == IF i < k THEN i ELSE i + 1
<1>1. c \in Bucket /\ hash \in [Bucket -> Seq(Callout)] /\ q \in Seq(Callout) /\ n \in Nat
  BY LBHashType DEF HashFits
<1>5. k \in 1 .. n /\ q[k] = cp
  BY DEF Removed
<1>2. /\ RemoveAt(q, k) \in Seq(Callout) /\ Len(RemoveAt(q, k)) = n - 1
      /\ \A i \in 1 .. n - 1 : RemoveAt(q, k)[i] = IF i < k THEN q[i] ELSE q[i + 1]
  BY <1>1, <1>5, RemoveAtElements
<1>3. /\ h \in [Bucket -> Seq(Callout)] /\ h[c] = RemoveAt(q, k)
      /\ \A b \in Bucket : b # c => h[b] = hash[b]
  BY <1>1, <1>2 DEF Removed
<1>4. Len(h[c]) = n - 1 /\ \A i \in 1 .. n - 1 : h[c][i] = IF i < k THEN q[i] ELSE q[i + 1]
  BY <1>2, <1>3
<1> HIDE DEF c, n, q
<1>6. \A b \in Bucket : \A i \in 1 .. Len(hash[b]) :
        /\ hash[b][i] \in Callout
        /\ hash[b][i] = cp => b = c /\ i = k
  <2>1. ASSUME NEW b \in Bucket, NEW i \in 1 .. Len(hash[b])
        PROVE  hash[b][i] \in Callout
    BY <1>1
  <2>2. ASSUME NEW b \in Bucket, NEW i \in 1 .. Len(hash[b]), hash[b][i] = cp
        PROVE  b = c /\ i = k
    <3>1. b = c
      BY <2>2 DEF HashFits, c
    <3>2. i \in 1 .. n /\ q[i] = cp
      BY <2>2, <3>1 DEF q, n
    <3>3. \A j \in 1 .. n : i # j => q[i] # q[j]
      BY <1>1, <3>2 DEF HashFits, q, n
    <3> QED
      BY <1>5, <3>1, <3>2, <3>3
  <2> QED
    BY <2>1, <2>2
<1>7. \A x \in Callout : x # cp => rt2[x] = rt[x]
  OBVIOUS
<1> HIDE DEF rt2
\* Every place on a chain of h is one on the same chain of hash, in the same order.
<1>8. ASSUME NEW b \in Bucket, NEW i \in 1 .. Len(h[b])
      PROVE  \E m \in 1 .. Len(hash[b]) :
               m = (IF b = c THEN Old(i) ELSE i) /\ h[b][i] = hash[b][m] /\ hash[b][m] # cp
  <2>1. CASE b # c
    BY <1>3, <1>6, <2>1
  <2>2. CASE b = c
    <3>1. i \in 1 .. n - 1 /\ Old(i) \in 1 .. n /\ Old(i) # k
      BY <1>1, <1>4, <1>5, <2>2
    <3>2. h[c][i] = q[Old(i)]
      BY <1>4, <3>1
    <3>3. q[Old(i)] # cp
      BY <1>1, <1>6, <3>1 DEF q, n
    <3> QED
      BY <2>2, <3>1, <3>2, <3>3 DEF q, n
  <2> QED
    BY <2>1, <2>2
<1>9. ASSUME NEW b \in Bucket, NEW i \in 1 .. Len(h[b]), NEW j \in 1 .. Len(h[b])
      PROVE  \E m, l \in 1 .. Len(hash[b]) :
               /\ h[b][i] = hash[b][m] /\ h[b][j] = hash[b][l]
               /\ h[b][i] # cp /\ h[b][i] \in Callout
               /\ i < j => m < l
               /\ i # j => m # l
  <2>1. PICK m \in 1 .. Len(hash[b]) :
          m = (IF b = c THEN Old(i) ELSE i) /\ h[b][i] = hash[b][m] /\ hash[b][m] # cp
    BY <1>8
  <2>2. PICK l \in 1 .. Len(hash[b]) :
          l = (IF b = c THEN Old(j) ELSE j) /\ h[b][j] = hash[b][l] /\ hash[b][l] # cp
    BY <1>8
  <2>3. i \in Int /\ j \in Int /\ k \in Int
    BY <1>5
  <2>4. (i < j => m < l) /\ (i # j => m # l)
    BY <2>1, <2>2, <2>3
  <2>5. h[b][i] \in Callout
    BY <1>6, <2>1
  <2> QED
    BY <2>1, <2>2, <2>4, <2>5
<1> HIDE DEF Old
<1>10. ASSUME NEW f, \A x \in Callout : x # cp => f[x] = rt[x]
       PROVE  HashFits(h, f)
  <2>1. ASSUME NEW b \in Bucket, NEW i \in 1 .. Len(h[b]), NEW j \in 1 .. Len(h[b])
        PROVE  LBHash(f[h[b][i]]) = b /\ (i # j => h[b][i] # h[b][j])
    <3>1. PICK m \in 1 .. Len(hash[b]), l \in 1 .. Len(hash[b]) :
            /\ h[b][i] = hash[b][m] /\ h[b][j] = hash[b][l]
            /\ h[b][i] # cp /\ h[b][i] \in Callout
            /\ i < j => m < l
            /\ i # j => m # l
      BY <1>9, Zenon
    <3>2. LBHash(rt[hash[b][m]]) = b /\ (m # l => hash[b][m] # hash[b][l])
      BY DEF HashFits
    <3>3. f[h[b][i]] = rt[hash[b][m]]
      BY <1>10, <3>1
    <3>4. LBHash(f[h[b][i]]) = b
      BY <3>2, <3>3
    <3> QED
      BY <3>1, <3>2, <3>4
  <2> QED
    BY <1>3, <2>1 DEF HashFits
<1>11. HashFits(h, rt) /\ HashFits(h, rt2)
  <2>1. HashFits(h, rt)
    BY <1>10
  <2>2. HashFits(h, rt2)
    BY <1>7, <1>10
  <2> QED
    BY <2>1, <2>2
<1>12. ASSUME NEW x PROVE On(h, x) <=> On(hash, x) /\ x # cp
  <2>1. ASSUME On(h, x) PROVE On(hash, x) /\ x # cp
    <3>1. PICK b \in Bucket : \E i \in 1 .. Len(h[b]) : h[b][i] = x
      BY <2>1 DEF On
    <3>2. PICK i \in 1 .. Len(h[b]) : h[b][i] = x
      BY <3>1
    <3>3. \E m \in 1 .. Len(hash[b]) : hash[b][m] = x /\ x # cp
      BY <1>8, <3>2
    <3> QED
      BY <3>3 DEF On
  <2>2. ASSUME On(hash, x), x # cp PROVE On(h, x)
    <3>1. PICK b \in Bucket : \E i \in 1 .. Len(hash[b]) : hash[b][i] = x
      BY <2>2 DEF On
    <3>2. PICK i \in 1 .. Len(hash[b]) : hash[b][i] = x
      BY <3>1
    <3>3. CASE b # c
      BY <1>3, <3>2, <3>3 DEF On
    <3>4. CASE b = c
      <4>0. i \in 1 .. n /\ q[i] = x /\ i # k
        BY <1>5, <2>2, <3>2, <3>4 DEF q, n
      <4>1. CASE i < k
        <5>1. i \in 1 .. n - 1
          BY <1>1, <1>5, <4>0, <4>1
        <5>2. i \in 1 .. Len(h[c]) /\ h[c][i] = x
          BY <1>4, <4>0, <4>1, <5>1
        <5> QED
          BY <1>1, <5>2 DEF On
      <4>2. CASE i > k
        <5>1. i - 1 \in 1 .. n - 1 /\ ~(i - 1 < k) /\ (i - 1) + 1 = i
          BY <1>1, <1>5, <4>0, <4>2
        <5>2. i - 1 \in 1 .. Len(h[c]) /\ h[c][i - 1] = q[(i - 1) + 1]
          BY <1>4, <5>1
        <5>3. h[c][i - 1] = x
          BY <4>0, <5>1, <5>2
        <5> QED
          BY <1>1, <5>2, <5>3 DEF On
      <4> QED
        BY <1>5, <4>0, <4>1, <4>2
    <3> QED
      BY <3>3, <3>4
  <2> QED
    BY <2>1, <2>2
<1>13. ASSUME NEW x, NEW y, Before(h, x, y) PROVE Before(hash, x, y)
  <2>1. PICK b \in Bucket : \E i, j \in 1 .. Len(h[b]) : i < j /\ h[b][i] = x /\ h[b][j] = y
    BY <1>13 DEF Before
  <2>2. PICK i \in 1 .. Len(h[b]), j \in 1 .. Len(h[b]) : i < j /\ h[b][i] = x /\ h[b][j] = y
    BY <2>1
  <2>3. PICK m \in 1 .. Len(hash[b]), l \in 1 .. Len(hash[b]) :
          /\ h[b][i] = hash[b][m] /\ h[b][j] = hash[b][l]
          /\ h[b][i] # cp /\ h[b][i] \in Callout
          /\ i < j => m < l
          /\ i # j => m # l
    BY <1>9, Zenon
  <2> QED
    BY <2>2, <2>3 DEF Before
<1>14. FrontKept(hash, h, c, k)
  BY <1>1, <1>4, <1>5 DEF q, n, FrontKept
<1> QED
  BY <1>11, <1>12, <1>13, <1>14 DEF rt2, c

\* A callout in the table is found on the chain of its run time.
LEMMA PlaceProperties ==
  ASSUME HashFits(ct_lbhash, c_runtime), NEW cp, On(ct_lbhash, cp)
  PROVE  /\ Place(cp) \in 1 .. Len(ct_lbhash[LBHash(c_runtime[cp])])
         /\ ct_lbhash[LBHash(c_runtime[cp])][Place(cp)] = cp
<1>1. PICK b \in Bucket : \E i \in 1 .. Len(ct_lbhash[b]) : ct_lbhash[b][i] = cp
  BY DEF On
<1>2. LBHash(c_runtime[cp]) = b
  BY <1>1 DEF HashFits
<1> QED
  BY <1>1, <1>2 DEF Place

-----------------------------------------------------------------------------
(* The loop over the run times.                                            *)

\* What DueAt() finds: callouts on the chains that are due then.
LEMMA DueAtProperties ==
  ASSUME NEW hash, HashFits(hash, c_runtime), NEW s \in Time
  PROVE  /\ DueAt(hash, s) \in SUBSET Nat
         /\ \A i \in DueAt(hash, s) :
              /\ i \in 1 .. Len(hash[LBHash(s)])
              /\ On(hash, hash[LBHash(s)][i])
              /\ c_runtime[hash[LBHash(s)][i]] = s
              /\ ~c_executing[hash[LBHash(s)][i]]
         /\ \A x : On(hash, x) /\ c_runtime[x] = s /\ ~c_executing[x] =>
              \E i \in DueAt(hash, s) : hash[LBHash(s)][i] = x
<1>1. LBHash(s) \in Bucket /\ hash[LBHash(s)] \in Seq(Callout) /\ Len(hash[LBHash(s)]) \in Nat
  BY LBHashType DEF HashFits
<1>2. DueAt(hash, s) \in SUBSET Nat
  BY <1>1 DEF DueAt
<1>3. ASSUME NEW i \in DueAt(hash, s)
      PROVE  /\ i \in 1 .. Len(hash[LBHash(s)])
             /\ On(hash, hash[LBHash(s)][i])
             /\ c_runtime[hash[LBHash(s)][i]] = s
             /\ ~c_executing[hash[LBHash(s)][i]]
  <2>1. /\ i \in 1 .. Len(hash[LBHash(s)])
        /\ c_runtime[hash[LBHash(s)][i]] = s /\ ~c_executing[hash[LBHash(s)][i]]
    BY DEF DueAt
  <2> QED
    BY <1>1, <2>1 DEF On
<1>4. ASSUME NEW x, On(hash, x), c_runtime[x] = s, ~c_executing[x]
      PROVE  \E i \in DueAt(hash, s) : hash[LBHash(s)][i] = x
  <2>1. PICK b \in Bucket : \E i \in 1 .. Len(hash[b]) : hash[b][i] = x
    BY <1>4 DEF On
  <2>2. PICK i \in 1 .. Len(hash[b]) : hash[b][i] = x
    BY <2>1
  <2>3. b = LBHash(s)
    BY <1>4, <2>2 DEF HashFits
  <2>4. i \in DueAt(hash, s)
    BY <1>4, <2>2, <2>3 DEF DueAt
  <2> QED
    BY <2>2, <2>3, <2>4
<1> QED
  BY <1>2, <1>3, <1>4

\* x is on a chain and nobody executes it.
Waiting(hash, x) == On(hash, x) /\ ~c_executing[x]

\* The loop stops at the first callout that is due, or with the run time after the
\* current time if there is none, and passes none over.
LEMMA FirstDueProperties ==
  ASSUME NEW hash, HashFits(hash, c_runtime), c_runtime \in [Callout -> Time], lbolt \in Time,
         NEW r \in Time, NEW cur \in Time, Behind(cur) >= 0,
         Behind(r) \in Behind(cur) - 1 .. MaxLag + 1,
         \A x : Waiting(hash, x) => Behind(c_runtime[x]) \in -MaxDelta .. Behind(r),
         NEW next, next = FirstDue(hash, r, cur)
  PROVE  /\ next.runtime \in Time
         /\ Behind(next.runtime) \in Behind(cur) - 1 .. Behind(r)
         /\ \A x : Waiting(hash, x) => Behind(c_runtime[x]) \in -MaxDelta .. Behind(next.runtime)
         /\ next.cp = NoCallout => Behind(next.runtime) = Behind(cur) - 1
         /\ next.cp # NoCallout =>
              /\ next.cp \in Callout /\ Waiting(hash, next.cp)
              /\ c_runtime[next.cp] = next.runtime
              /\ Behind(next.runtime) >= Behind(cur)
              /\ \A x : Before(hash, x, next.cp) /\ c_runtime[x] = next.runtime => c_executing[x]
<1> DEFINE due == {s \in Time : Diff(r, s) <= 0 /\ Diff(s, cur) <= 0 /\ DueAt(hash, s) # {}}
           first == CHOOSE s \in due : \A u \in due : Diff(s, u) <= 0
<1>0. /\ next = IF due = {}
                  THEN [cp |-> NoCallout,
                        runtime |-> IF Diff(r, cur) <= 0 THEN Plus(cur, 1) ELSE r]
                  ELSE [cp |-> hash[LBHash(first)][FirstOf(DueAt(hash, first))],
                        runtime |-> first]
  BY DEF FirstDue
<1>1. /\ MaxDelta \in Nat /\ MaxDelta > 0 /\ MaxLag \in Nat
      /\ Behind(cur) \in 0 .. MaxLag + 2 /\ Behind(r) \in -1 .. MaxLag + 1
      /\ \A s \in Time : Behind(s) \in Int /\ Behind(s) = Diff(lbolt, s)
  <2>1. MaxDelta \in Nat /\ MaxDelta > 0 /\ MaxLag \in Nat /\ TimeMod \in Nat /\ Half \in Nat
    BY HalfProperties
  <2>2. ASSUME NEW s \in Time PROVE Behind(s) \in Int /\ Behind(s) = Diff(lbolt, s)
    BY <2>1, DiffCases DEF Behind
  <2>3. Behind(cur) \in Int /\ Behind(r) \in Int
    BY <2>2
  <2> QED
    BY <2>1, <2>2, <2>3
<1>2. ASSUME NEW s \in Time, NEW u \in Time, Behind(s) \in -MaxDelta .. MaxLag + 2,
             Behind(u) \in -MaxDelta .. MaxLag + 2
      PROVE  Diff(s, u) = Behind(u) - Behind(s) /\ (Behind(s) = Behind(u) => s = u)
  BY <1>1, <1>2, DiffBehind
<1>3. ASSUME NEW s \in Time, DueAt(hash, s) # {}
      PROVE  Behind(s) \in -MaxDelta .. Behind(r)
  <2>1. PICK i \in DueAt(hash, s) : TRUE
    BY <1>3
  <2>2. Waiting(hash, hash[LBHash(s)][i]) /\ c_runtime[hash[LBHash(s)][i]] = s
    BY <2>1, DueAtProperties DEF Waiting
  <2> QED
    BY <2>2
<1>4. ASSUME NEW s \in due
      PROVE  s \in Time /\ Behind(s) \in Behind(cur) .. Behind(r) /\ DueAt(hash, s) # {}
  <2>1. s \in Time /\ Diff(s, cur) <= 0 /\ DueAt(hash, s) # {}
    OBVIOUS
  <2>2. Behind(s) \in -MaxDelta .. Behind(r)
    BY <1>3, <2>1
  <2>3. Diff(s, cur) = Behind(cur) - Behind(s)
    BY <1>1, <1>2, <2>1, <2>2
  <2> QED
    BY <1>1, <2>1, <2>2, <2>3
<1>5. ASSUME NEW x, Waiting(hash, x), Behind(c_runtime[x]) >= Behind(cur)
      PROVE  c_runtime[x] \in due
  <2>1. x \in Callout /\ c_runtime[x] \in Time
    BY <1>5, OnIsCallout DEF Waiting, HashFits
  <2>2. Behind(c_runtime[x]) \in -MaxDelta .. Behind(r)
    BY <1>5
  <2>3. Diff(r, c_runtime[x]) <= 0 /\ Diff(c_runtime[x], cur) <= 0
    <3>1. Diff(r, c_runtime[x]) = Behind(c_runtime[x]) - Behind(r)
      BY <1>1, <1>2, <2>1, <2>2
    <3>2. Diff(c_runtime[x], cur) = Behind(cur) - Behind(c_runtime[x])
      BY <1>1, <1>2, <2>1, <2>2
    <3> QED
      BY <1>1, <1>5, <2>1, <2>2, <3>1, <3>2
  <2>4. DueAt(hash, c_runtime[x]) # {}
    BY <1>5, <2>1, DueAtProperties DEF Waiting
  <2> QED
    BY <2>1, <2>3, <2>4
<1> HIDE DEF due
<1>6. CASE due = {}
  <2>1. next.cp = NoCallout /\ next.runtime = IF Diff(r, cur) <= 0 THEN Plus(cur, 1) ELSE r
    BY <1>0, <1>6
  <2>2. next.runtime \in Time /\ Behind(next.runtime) = Behind(cur) - 1
    <3>1. Diff(r, cur) = Behind(cur) - Behind(r)
      BY <1>1, <1>2
    <3>2. CASE Diff(r, cur) <= 0
      <4>1. 1 \in 0 .. MaxDelta /\ Diff(lbolt, cur) - 1 >= -MaxDelta
        BY <1>1
      <4>2. Plus(cur, 1) \in Time /\ Diff(lbolt, Plus(cur, 1)) = Diff(lbolt, cur) - 1
        BY <4>1, PlusBehind
      <4> QED
        BY <1>1, <2>1, <3>2, <4>2
    <3>3. CASE Diff(r, cur) > 0
      BY <1>1, <2>1, <3>1, <3>3
    <3> QED
      BY <1>1, <3>1, <3>2, <3>3
  <2>3. ASSUME NEW x, Waiting(hash, x)
        PROVE  Behind(c_runtime[x]) \in -MaxDelta .. Behind(next.runtime)
    <3>1. x \in Callout /\ c_runtime[x] \in Time
      BY <2>3, OnIsCallout DEF Waiting, HashFits
    <3>2. ~(Behind(c_runtime[x]) >= Behind(cur)) /\ Behind(c_runtime[x]) \in Int
      BY <1>1, <1>5, <1>6, <2>3, <3>1
    <3>3. Behind(c_runtime[x]) \in -MaxDelta .. Behind(r)
      BY <2>3
    <3> QED
      BY <1>1, <2>2, <3>2, <3>3
  <2> QED
    BY <1>1, <2>1, <2>2, <2>3
<1>7. CASE due # {}
  <2> DEFINE S == {Behind(r) - Behind(s) : s \in due}
  <2>1. S \in SUBSET Nat /\ S # {}
    <3>1. ASSUME NEW s \in due PROVE Behind(r) - Behind(s) \in Nat
      BY <1>1, <1>4
    <3> QED
      BY <1>7, <3>1
  <2>2. PICK m \in S : \A n \in S : m <= n
    BY <2>1, LeastExists
  <2>3. PICK s \in due : m = Behind(r) - Behind(s)
    OBVIOUS
  <2>4. ASSUME NEW u \in due PROVE Diff(s, u) <= 0
    <3>1. m <= Behind(r) - Behind(u)
      BY <2>2
    <3>2. s \in Time /\ u \in Time /\ Behind(s) \in Behind(cur) .. Behind(r)
          /\ Behind(u) \in Behind(cur) .. Behind(r)
      BY <1>4
    <3>3. Diff(s, u) = Behind(u) - Behind(s)
      BY <1>1, <1>2, <3>2
    <3> QED
      BY <1>1, <2>3, <3>1, <3>2, <3>3
  <2>5. first \in due /\ \A u \in due : Diff(first, u) <= 0
    BY <2>4
  <2> HIDE DEF first, S
  <2>6. first \in Time /\ Behind(first) \in Behind(cur) .. Behind(r) /\ DueAt(hash, first) # {}
    BY <1>4, <2>5
  <2> DEFINE i == FirstOf(DueAt(hash, first))
             c == LBHash(first)
  <2>7. i \in DueAt(hash, first) /\ \A j \in DueAt(hash, first) : i <= j
    BY <2>6, DueAtProperties, FirstOfProperties
  <2>8. next.cp = hash[c][i] /\ next.runtime = first
    BY <1>0, <1>7
  <2>9. i \in 1 .. Len(hash[c]) /\ Waiting(hash, next.cp) /\ c_runtime[next.cp] = first
    BY <2>6, <2>7, <2>8, DueAtProperties DEF Waiting
  <2>10. next.cp \in Callout
    BY <2>9, OnIsCallout DEF Waiting, HashFits
  <2>11. ASSUME NEW x, Waiting(hash, x)
         PROVE  Behind(c_runtime[x]) \in -MaxDelta .. Behind(first)
    <3>1. x \in Callout /\ c_runtime[x] \in Time
      BY <2>11, OnIsCallout DEF Waiting, HashFits
    <3>2. Behind(c_runtime[x]) \in -MaxDelta .. Behind(r)
      BY <2>11
    <3>3. CASE Behind(c_runtime[x]) >= Behind(cur)
      <4>1. Diff(first, c_runtime[x]) <= 0
        BY <1>5, <2>5, <2>11, <3>3
      <4>2. Diff(first, c_runtime[x]) = Behind(c_runtime[x]) - Behind(first)
        BY <1>1, <1>2, <2>6, <3>1, <3>2
      <4> QED
        BY <1>1, <2>6, <3>1, <3>2, <4>1, <4>2
    <3>4. CASE ~(Behind(c_runtime[x]) >= Behind(cur))
      BY <1>1, <2>6, <3>1, <3>2, <3>4
    <3> QED
      BY <3>3, <3>4
  <2>12. ASSUME NEW x, Before(hash, x, next.cp), c_runtime[x] = first PROVE c_executing[x]
    <3>1. PICK b \in Bucket :
            \E k, j \in 1 .. Len(hash[b]) : k < j /\ hash[b][k] = x /\ hash[b][j] = next.cp
      BY <2>12 DEF Before
    <3>2. PICK k \in 1 .. Len(hash[b]), j \in 1 .. Len(hash[b]) :
            k < j /\ hash[b][k] = x /\ hash[b][j] = next.cp
      BY <3>1
    <3>3. b = c
      BY <2>9, <3>2 DEF HashFits
    <3>4. c \in Bucket
      BY <3>3
    <3>5. j = i
      BY <2>8, <2>9, <3>2, <3>3, <3>4 DEF HashFits
    <3>6. k \notin DueAt(hash, first)
      BY <2>7, <3>2, <3>5, DueAtProperties, <2>6
    <3> QED
      BY <2>12, <3>2, <3>3, <3>6 DEF DueAt
  <2>13. next.cp # NoCallout
    BY <2>10, CalloutAssumption
  <2> QED
    BY <1>1, <2>6, <2>8, <2>9, <2>10, <2>11, <2>12, <2>13
<1> QED
  BY <1>6, <1>7

-----------------------------------------------------------------------------
(* Facts about a state in which the invariant holds.                       *)

\* What the invariant gives of the chains and of the times, in the form the
\* steps use.
LEMMA StateFacts ==
  ASSUME IInv
  PROVE  /\ HashFits(ct_lbhash, c_runtime)
         /\ \A x : On(ct_lbhash, x) => x \in Callout
         /\ \A x : x \in Pending <=> Waiting(ct_lbhash, x)
         /\ \A s \in Time : Behind(s) \in Int
         /\ MaxDelta \in Nat /\ MaxDelta > 0 /\ MaxLag \in Nat
         /\ Behind(ct_curtime) \in 0 .. MaxLag + 2
         /\ Behind(ct_runtime) \in -1 .. MaxLag + 1
<1>1. HashFits(ct_lbhash, c_runtime)
  BY DEF IInv, TypeOK, HashFits
<1>2. \A x : On(ct_lbhash, x) => x \in Callout
  BY <1>1, OnIsCallout DEF HashFits
<1>3. \A x : x \in Pending <=> Waiting(ct_lbhash, x)
  BY InTableIsOn DEF Pending, Waiting
<1>4. /\ MaxDelta \in Nat /\ MaxDelta > 0 /\ MaxLag \in Nat
      /\ TimeMod \in Nat /\ Half \in Nat
  BY HalfProperties
<1>5. lbolt \in Time /\ ct_curtime \in Time /\ ct_runtime \in Time
  BY DEF IInv, TypeOK
<1>6. ASSUME NEW s \in Time PROVE Behind(s) \in Int
  BY <1>4, <1>5, DiffCases DEF Behind
<1>7. Behind(ct_curtime) \in Int /\ Behind(ct_runtime) \in Int
  BY <1>5, <1>6
<1>8. Behind(ct_curtime) \in 0 .. MaxLag + 2 /\ Behind(ct_runtime) \in -1 .. MaxLag + 1
  BY <1>4, <1>7 DEF IInv, TimesFit
<1> QED
  BY <1>1, <1>2, <1>3, <1>4, <1>6, <1>8

\* Initially the table is empty.
LEMMA InitHolds == Init => IInv
<1> SUFFICES ASSUME Init PROVE IInv
  OBVIOUS
<1>1. \A b \in Bucket : Len(ct_lbhash[b]) = 0
  BY DEF Init
<1>2. InTable = {} /\ Pending = {}
  <2>1. \A x : ~On(ct_lbhash, x)
    BY <1>1 DEF On
  <2> QED
    BY <2>1, InTableIsOn DEF Pending
<1>3. 0 \in Time /\ Behind(0) = 0
  <2>1. 0 \in Time
    BY HalfProperties DEF Time
  <2> QED
    BY <2>1, DiffSelf DEF Behind, Init
<1>4. Cardinality(Worker) \in Nat
  BY CalloutAssumption, FS_CardinalityType
<1>5. TypeOK
  <2>1. \A b \in Bucket : \A i, j \in 1 .. Len(ct_lbhash[b]) :
          /\ LBHash(c_runtime[ct_lbhash[b][i]]) = b
          /\ i # j => ct_lbhash[b][i] # ct_lbhash[b][j]
    BY <1>1
  <2>2. ct_lbhash \in [Bucket -> Seq(Callout)] /\ ct_freelist \cap InTable = {}
    BY <1>2 DEF Init
  <2>3. queued \in 0 .. 2 * Cardinality(Worker)
    BY <1>4 DEF Init
  <2> HIDE DEF InTable
  <2>4. lbolt \in Time /\ ct_curtime \in Time /\ ct_runtime \in Time
        /\ clock \in {"idle", "schedule", "dispatch"} /\ cpr_stop_callout \in BOOLEAN
        /\ ct_freelist \in SUBSET Callout
    BY <1>3 DEF Init
  <2>5. /\ c_id \in [Callout -> Id \cup {NoId}]
        /\ c_executing \in [Callout -> BOOLEAN]
        /\ c_runtime \in [Callout -> Time]
        /\ c_executor \in [Callout -> Worker \cup {NoCallout}]
        /\ c_arg \in [Callout -> Timer \cup {NoCallout}]
    BY <1>3 DEF Init
  <2>6. /\ wpc \in [Worker -> WPC] /\ wcp \in [Worker -> Callout \cup {NoCallout}]
        /\ wruntime \in [Worker -> Time]
    BY <1>3 DEF Init, WPC
  <2>7. /\ tpc \in [Timer -> TPC] /\ tid \in [Timer -> Id \cup {NoId}]
        /\ tcp \in [Timer -> Callout \cup {NoCallout}]
    BY DEF Init, TPC
  <2> QED
    BY <2>1, <2>2, <2>3, <2>4, <2>5, <2>6, <2>7 DEF TypeOK
<1>6. IdsFit /\ ArgsFit /\ UntimeoutIsFinal /\ WaitFits
  BY <1>2 DEF IdsFit, ArgsFit, UntimeoutIsFinal, WaitFits, Init
<1>7. TimesFit /\ PendingFits
  <2>1. Behind(ct_curtime) = 0 /\ Behind(ct_runtime) = 0
    BY <1>3 DEF Init
  <2> QED
    BY <1>2, <2>1, HalfProperties DEF TimesFit, PendingFits
<1>8. RunningFits /\ WalkFits /\ DueHasExecutor
  BY <1>2 DEF RunningFits, WalkFits, DueHasExecutor, Init
<1> QED
  BY <1>5, <1>6, <1>7, <1>8 DEF IInv

-----------------------------------------------------------------------------
(* Steps of the users of timeout() that leave the table alone.             *)

\* What only the users know of is no part of the rest of the invariant.
LEMMA UsersOnly ==
  ASSUME IInv, UNCHANGED <<lbolt, clock, cpr_stop_callout, ct, cfields, queued, workers>>,
         tpc' \in [Timer -> TPC], tid' \in [Timer -> Id \cup {NoId}],
         tcp' \in [Timer -> Callout \cup {NoCallout}],
         (IdsFit /\ UntimeoutIsFinal /\ WaitFits)'
  PROVE  IInv'
<1>1. /\ lbolt' = lbolt /\ clock' = clock /\ cpr_stop_callout' = cpr_stop_callout
      /\ ct_curtime' = ct_curtime /\ ct_runtime' = ct_runtime /\ ct_freelist' = ct_freelist
      /\ ct_lbhash' = ct_lbhash /\ c_id' = c_id /\ c_executing' = c_executing
      /\ c_runtime' = c_runtime /\ c_executor' = c_executor /\ c_arg' = c_arg
      /\ queued' = queued /\ wpc' = wpc /\ wcp' = wcp /\ wruntime' = wruntime
  BY DEF ct, cfields, workers
<1>2. InTable' = InTable
  BY <1>1 DEF InTable
<1>3. Pending' = Pending /\ \A s : Behind(s)' = Behind(s)
  BY <1>1, <1>2 DEF Pending, Behind
<1>4. TypeOK'
  BY <1>1, <1>2 DEF IInv, TypeOK
<1>5. ArgsFit'
  BY <1>1, <1>2 DEF IInv, ArgsFit
<1>6. TimesFit' /\ PendingFits'
  BY <1>1, <1>3 DEF IInv, TimesFit, PendingFits, Behind
<1>7. RunningFits' /\ WalkFits'
  BY <1>1, <1>2, <1>3 DEF IInv, RunningFits, WalkFits, Before, Behind
<1>8. DueHasExecutor'
  BY <1>1, <1>3 DEF IInv, DueHasExecutor
<1> QED
  BY <1>4, <1>5, <1>6, <1>7, <1>8 DEF IInv

\* timeout() drops ct_lock to allocate a structure.
LEMMA TimeoutAllocStep ==
  ASSUME IInv, NEW t \in Timer, TimeoutAlloc(t)
  PROVE  IInv'
<1>1. /\ tpc[t] = "idle" /\ tpc' = [tpc EXCEPT ![t] = "alloc"]
      /\ tpc \in [Timer -> TPC] /\ tid' = tid /\ tcp' = tcp
      /\ UNCHANGED <<lbolt, clock, cpr_stop_callout, ct, cfields, queued, workers>>
  BY DEF TimeoutAlloc, IInv, TypeOK
<1>2. ct_lbhash' = ct_lbhash /\ c_id' = c_id /\ c_executing' = c_executing /\ c_arg' = c_arg
      /\ InTable' = InTable
  BY <1>1 DEF ct, cfields, InTable
<1>3. tpc' \in [Timer -> TPC] /\ \A u \in Timer : u # t => tpc'[u] = tpc[u]
  BY <1>1 DEF TPC
<1>4. tpc'[t] = "alloc"
  BY <1>1
<1>5. IdsFit'
  BY <1>1, <1>3, <1>4 DEF IInv, IdsFit
<1>6. UntimeoutIsFinal'
  BY <1>1, <1>2, <1>3 DEF IInv, UntimeoutIsFinal, ArgsFit
<1>7. WaitFits'
  BY <1>1, <1>2, <1>3, <1>4 DEF IInv, WaitFits
<1> QED
  BY <1>1, <1>3, <1>5, <1>6, <1>7, UsersOnly DEF IInv, TypeOK

\* untimeout() finds its callout executing and waits on c_done.
LEMMA UntimeoutExecutingStep ==
  ASSUME IInv, NEW t \in Timer, UntimeoutExecuting(t)
  PROVE  IInv'
<1>1. PICK cp \in InTable :
        c_id[cp] = tid[t] /\ c_executing[cp] /\ tcp' = [tcp EXCEPT ![t] = cp]
  BY DEF UntimeoutExecuting
<1>2. /\ tpc[t] = "armed" /\ tpc' = [tpc EXCEPT ![t] = "wait"]
      /\ tpc \in [Timer -> TPC] /\ tid' = tid /\ tcp \in [Timer -> Callout \cup {NoCallout}]
      /\ UNCHANGED <<lbolt, clock, cpr_stop_callout, ct, cfields, queued, workers>>
  BY DEF UntimeoutExecuting, IInv, TypeOK
<1>3. ct_lbhash' = ct_lbhash /\ c_id' = c_id /\ c_executing' = c_executing /\ c_arg' = c_arg
      /\ InTable' = InTable
  BY <1>2 DEF ct, cfields, InTable
<1>4. cp \in Callout
  BY StateFacts, InTableIsOn
<1>5. /\ tpc' \in [Timer -> TPC] /\ tcp' \in [Timer -> Callout \cup {NoCallout}]
      /\ tpc'[t] = "wait" /\ tcp'[t] = cp
      /\ \A u \in Timer : u # t => tpc'[u] = tpc[u] /\ tcp'[u] = tcp[u]
  BY <1>1, <1>2, <1>4 DEF TPC
\* It is t's own.
<1>6. c_arg[cp] = t
  BY <1>1, <1>2 DEF IInv, IdsFit, UntimeoutIsFinal, ArgsFit
<1>7. IdsFit'
  BY <1>2, <1>5 DEF IInv, IdsFit
<1>8. UntimeoutIsFinal'
  BY <1>2, <1>3, <1>5 DEF IInv, UntimeoutIsFinal, ArgsFit
<1>9. WaitFits'
  BY <1>1, <1>3, <1>4, <1>5, <1>6 DEF IInv, WaitFits, ArgsFit
<1> QED
  BY <1>2, <1>5, <1>7, <1>8, <1>9, UsersOnly DEF IInv, TypeOK

\* untimeout() returns to t: there is no callout of t's in the table.
LEMMA UntimeoutReturnsStep ==
  ASSUME IInv, NEW t \in Timer, \A cp \in InTable : c_arg[cp] # t,
         tpc' = [tpc EXCEPT ![t] = "idle"], tid' = [tid EXCEPT ![t] = NoId],
         tcp' = [tcp EXCEPT ![t] = NoCallout] \/ tcp' = tcp,
         UNCHANGED <<lbolt, clock, cpr_stop_callout, ct, cfields, queued, workers>>
  PROVE  IInv'
<1>1. /\ tpc \in [Timer -> TPC] /\ tid \in [Timer -> Id \cup {NoId}]
      /\ tcp \in [Timer -> Callout \cup {NoCallout}]
  BY DEF IInv, TypeOK
<1>2. ct_lbhash' = ct_lbhash /\ c_id' = c_id /\ c_executing' = c_executing /\ c_arg' = c_arg
      /\ InTable' = InTable
  BY DEF ct, cfields, InTable
<1>3. /\ tpc' \in [Timer -> TPC] /\ tcp' \in [Timer -> Callout \cup {NoCallout}]
      /\ tid' \in [Timer -> Id \cup {NoId}]
      /\ tpc'[t] = "idle" /\ tid'[t] = NoId
      /\ \A u \in Timer : u # t => tpc'[u] = tpc[u] /\ tid'[u] = tid[u] /\ tcp'[u] = tcp[u]
  BY <1>1 DEF TPC
<1>4. IdsFit'
  BY <1>3 DEF IInv, IdsFit
<1>5. UntimeoutIsFinal'
  BY <1>2, <1>3 DEF IInv, UntimeoutIsFinal, ArgsFit
<1>6. WaitFits'
  BY <1>2, <1>3 DEF IInv, WaitFits
<1> QED
  BY <1>3, <1>4, <1>5, <1>6, UsersOnly

\* untimeout() is back from cv_wait().
LEMMA UntimeoutWokenStep ==
  ASSUME IInv, NEW t \in Timer, UntimeoutWoken(t)
  PROVE  IInv'
<1>1. /\ tpc[t] = "woken" /\ tpc \in [Timer -> TPC]
      /\ UNCHANGED <<lbolt, clock, cpr_stop_callout, ct, cfields, queued, workers>>
  BY DEF UntimeoutWoken, IInv, TypeOK
<1>2. ct_lbhash' = ct_lbhash /\ c_id' = c_id /\ c_executing' = c_executing /\ c_arg' = c_arg
      /\ InTable' = InTable
  BY <1>1 DEF ct, cfields, InTable
<1>3. CASE c_id[tcp[t]] = tid[t] /\ c_executing[tcp[t]]
  <2>1. tpc' = [tpc EXCEPT ![t] = "wait"] /\ tid' = tid /\ tcp' = tcp
    BY <1>3 DEF UntimeoutWoken
  <2>2. tpc' \in [Timer -> TPC] /\ tpc'[t] = "wait" /\ \A u \in Timer : u # t => tpc'[u] = tpc[u]
    BY <1>1, <2>1 DEF TPC
  <2>3. IdsFit'
    BY <1>1, <2>1, <2>2 DEF IInv, IdsFit
  <2>4. UntimeoutIsFinal'
    BY <1>1, <1>2, <2>1, <2>2 DEF IInv, UntimeoutIsFinal, ArgsFit
  <2>5. WaitFits'
    BY <1>1, <1>2, <2>1, <2>2 DEF IInv, WaitFits
  <2> QED
    BY <1>1, <2>1, <2>2, <2>3, <2>4, <2>5, UsersOnly DEF IInv, TypeOK
<1>4. CASE ~(c_id[tcp[t]] = tid[t] /\ c_executing[tcp[t]])
  <2>1. ASSUME NEW cp \in InTable, c_arg[cp] = t PROVE FALSE
    <3>1. cp = tcp[t] /\ c_executing[cp]
      BY <1>1, <2>1 DEF IInv, WaitFits
    <3>2. c_id[cp] = tid[t]
      BY <2>1 DEF IInv, UntimeoutIsFinal
    <3> QED
      BY <1>4, <3>1, <3>2
  <2> QED
    BY <1>1, <1>4, <2>1, UntimeoutReturnsStep DEF UntimeoutWoken
<1> QED
  BY <1>3, <1>4

\* untimeout() does not find its callout.
LEMMA UntimeoutFiredStep ==
  ASSUME IInv, NEW t \in Timer, UntimeoutFired(t)
  PROVE  IInv'
<1>1. ASSUME NEW cp \in InTable, c_arg[cp] = t PROVE FALSE
  <2>1. c_id[cp] = tid[t]
    BY <1>1 DEF IInv, UntimeoutIsFinal
  <2> QED
    BY <2>1 DEF UntimeoutFired
<1> QED
  BY <1>1, UntimeoutReturnsStep DEF UntimeoutFired

\* The handler wakes its user.
LEMMA HandlerSetrunStep ==
  ASSUME IInv, NEW w \in Worker, HandlerSetrun(w)
  PROVE  IInv'
<1> DEFINE t == c_arg[wcp[w]]
<1>1. wpc[w] = "exec" /\ wcp[w] \in InTable
  BY DEF HandlerSetrun, IInv, RunningFits
<1>2. t \in Timer
  BY <1>1 DEF IInv, ArgsFit
<1>3. /\ tpc[t] = "wait" /\ tpc' = [tpc EXCEPT ![t] = "woken"] /\ tid' = tid /\ tcp' = tcp
      /\ UNCHANGED <<lbolt, clock, cpr_stop_callout, ct, cfields, queued, workers>>
      /\ tpc \in [Timer -> TPC]
  BY DEF HandlerSetrun, IInv, TypeOK
<1>4. ct_lbhash' = ct_lbhash /\ c_id' = c_id /\ c_executing' = c_executing /\ c_arg' = c_arg
      /\ InTable' = InTable
  BY <1>3 DEF ct, cfields, InTable
<1> HIDE DEF t
<1>5. tpc' \in [Timer -> TPC] /\ tpc'[t] = "woken" /\ \A u \in Timer : u # t => tpc'[u] = tpc[u]
  BY <1>2, <1>3 DEF TPC
<1>6. IdsFit'
  BY <1>2, <1>3, <1>5 DEF IInv, IdsFit
<1>7. UntimeoutIsFinal'
  BY <1>2, <1>3, <1>4, <1>5 DEF IInv, UntimeoutIsFinal, ArgsFit
<1>8. WaitFits'
  BY <1>2, <1>3, <1>4, <1>5 DEF IInv, WaitFits
<1> QED
  BY <1>3, <1>5, <1>6, <1>7, <1>8, UsersOnly DEF IInv, TypeOK

-----------------------------------------------------------------------------
(* timeout(), and untimeout() of a callout that has not started.           *)

\* Users who have an id are fewer than the ids when one has none.
LEMMA FreshId ==
  ASSUME IInv, NEW t \in Timer, tid[t] = NoId,
         NEW id, id = AnyOf(Id \ ({c_id[x] : x \in InTable} \cup {tid[u] : u \in Timer}))
  PROVE  id \in Id /\ \A u \in Timer : tid[u] # id
<1> DEFINE used == {c_id[x] : x \in InTable} \cup {tid[u] : u \in Timer}
           others == Timer \ {t}
<1>1. \A x \in InTable : c_id[x] \in {tid[u] : u \in Timer}
  BY DEF IInv, UntimeoutIsFinal, ArgsFit
<1>2. Id \ used # {}
  <2> SUFFICES ASSUME Id \subseteq used PROVE FALSE
    OBVIOUS
  <2>1. \A i \in Id : \E u \in others : tid[u] = i
    BY <1>1, CalloutAssumption
  <2> DEFINE f == [i \in Id |-> CHOOSE u \in others : tid[u] = i]
  <2>2. \A i \in Id : f[i] \in others /\ tid[f[i]] = i
    BY <2>1
  <2>3. f \in [Id -> others]
    BY <2>2
  <2>4. /\ IsFiniteSet(others) /\ Cardinality(others) = Cardinality(Timer) - 1
        /\ Cardinality(Timer) \in Nat
    BY CalloutAssumption, FS_RemoveElement, FS_CardinalityType
  <2>5. Cardinality(others) < Cardinality(Id) /\ IsFiniteSet(Id)
    <3>1. Cardinality(Id) \in Nat /\ Cardinality(Id) >= Cardinality(Timer) /\ IsFiniteSet(Id)
      BY CalloutAssumption, FS_CardinalityType
    <3> QED
      BY <2>4, <3>1
  <2> HIDE DEF f, others
  <2>6. \E x, y \in Id : x # y /\ f[x] = f[y]
    BY <2>3, <2>4, <2>5, FS_PigeonHole
  <2> QED
    BY <2>2, <2>6
<1>3. id \in Id \ used
  BY <1>2 DEF AnyOf
<1> QED
  BY <1>3

\* timeout() gives cp an id and a run time and inserts it: the new callout is due
\* after the current time of the table, so nobody has passed it over.
LEMMA SetCalloutStep ==
  ASSUME IInv, NEW t \in Timer, tpc[t] \in {"idle", "alloc"},
         NEW cp \in Callout, cp \notin InTable, NEW delta \in 0 .. MaxDelta,
         SetCallout(t, cp, delta), ct_freelist' \subseteq ct_freelist, cp \notin ct_freelist'
  PROVE  IInv'
<1> DEFINE r == Plus(lbolt, RunDelay(delta))
           id == AnyOf(Id \ ({c_id[x] : x \in InTable} \cup {tid[u] : u \in Timer}))
<1>1. TypeOK /\ tid[t] = NoId
  BY DEF IInv, IdsFit
<1>2. id \in Id /\ \A u \in Timer : tid[u] # id
  BY <1>1, FreshId
<1>3. id # NoId
  BY <1>2, CalloutAssumption
<1>4. /\ RunDelay(delta) \in 1 .. MaxDelta /\ r \in Time /\ Behind(r) = -RunDelay(delta)
  <2>1. RunDelay(delta) \in 1 .. MaxDelta /\ MaxDelta \in Nat
    BY HalfProperties DEF RunDelay
  <2>2. lbolt \in Time /\ Diff(lbolt, lbolt) = 0
    BY <1>1, DiffSelf DEF TypeOK
  <2>3. Plus(lbolt, RunDelay(delta)) \in Time
        /\ Diff(lbolt, Plus(lbolt, RunDelay(delta))) = 0 - RunDelay(delta)
    BY <2>1, <2>2, PlusBehind
  <2> QED
    BY <2>1, <2>3 DEF Behind
<1>5. /\ c_runtime' = [c_runtime EXCEPT ![cp] = r]
      /\ c_arg' = [c_arg EXCEPT ![cp] = t]
      /\ c_id' = [c_id EXCEPT ![cp] = id]
      /\ ct_lbhash' = [ct_lbhash EXCEPT ![LBHash(r)] = <<cp>> \o @]
      /\ tid' = [tid EXCEPT ![t] = id]
      /\ tpc' = [tpc EXCEPT ![t] = "armed"]
      /\ lbolt' = lbolt /\ clock' = clock /\ cpr_stop_callout' = cpr_stop_callout
      /\ ct_curtime' = ct_curtime /\ ct_runtime' = ct_runtime
      /\ c_executing' = c_executing /\ c_executor' = c_executor /\ queued' = queued
      /\ wpc' = wpc /\ wcp' = wcp /\ wruntime' = wruntime /\ tcp' = tcp
  BY DEF SetCallout, HashInsert, workers
<1> HIDE DEF r, id
<1>6. /\ HashFits(ct_lbhash', c_runtime')
      /\ \A x : On(ct_lbhash', x) <=> On(ct_lbhash, x) \/ x = cp
      /\ \A x, y : Before(ct_lbhash', x, y) => Before(ct_lbhash, x, y) \/ x = cp
  <2>1. HashFits(ct_lbhash, c_runtime) /\ ~On(ct_lbhash, cp) /\ c_runtime \in [Callout -> Time]
    BY <1>1, StateFacts, InTableIsOn DEF TypeOK
  <2>2. Inserted(ct_lbhash, ct_lbhash', cp, r) /\ r \in Time
    BY <1>4, <1>5 DEF Inserted
  <2>3. /\ HashFits(ct_lbhash', [c_runtime EXCEPT ![cp] = r])
        /\ \A x : On(ct_lbhash', x) <=> On(ct_lbhash, x) \/ x = cp
        /\ \A x, y : Before(ct_lbhash', x, y) => Before(ct_lbhash, x, y) \/ x = cp
    BY <2>1, <2>2, InsertProperties, Zenon
  <2> QED
    BY <1>5, <2>3, Zenon
<1>7. \A x : x \in InTable' <=> x \in InTable \/ x = cp
  BY <1>6, InTableIsOn
<1>8. \A x \in InTable : x \in Callout
  BY StateFacts, InTableIsOn
<1>9. /\ c_runtime' \in [Callout -> Time] /\ c_arg' \in [Callout -> Timer \cup {NoCallout}]
      /\ c_id' \in [Callout -> Id \cup {NoId}]
      /\ tid' \in [Timer -> Id \cup {NoId}] /\ tpc' \in [Timer -> TPC]
      /\ c_runtime'[cp] = r /\ c_arg'[cp] = t /\ c_id'[cp] = id
      /\ \A x \in Callout : x # cp =>
           c_runtime'[x] = c_runtime[x] /\ c_arg'[x] = c_arg[x] /\ c_id'[x] = c_id[x]
      /\ tid'[t] = id /\ tpc'[t] = "armed"
      /\ \A u \in Timer : u # t => tid'[u] = tid[u] /\ tpc'[u] = tpc[u]
  BY <1>1, <1>2, <1>4, <1>5 DEF TypeOK, TPC
<1>10. \A x \in InTable : x \in InTable' /\ x # cp /\ c_runtime'[x] = c_runtime[x]
         /\ c_arg'[x] = c_arg[x] /\ c_id'[x] = c_id[x]
  BY <1>7, <1>8, <1>9
<1>11. TypeOK'
  <2>1. ct_freelist' \in SUBSET Callout /\ ct_freelist' \cap InTable' = {}
    BY <1>1, <1>7 DEF TypeOK
  <2>2. /\ ct_lbhash' \in [Bucket -> Seq(Callout)]
        /\ \A b \in Bucket : \A i, j \in 1 .. Len(ct_lbhash'[b]) :
             /\ LBHash(c_runtime'[ct_lbhash'[b][i]]) = b
             /\ i # j => ct_lbhash'[b][i] # ct_lbhash'[b][j]
    BY <1>6 DEF HashFits
  <2> QED
    BY <1>1, <1>5, <1>9, <2>1, <2>2 DEF TypeOK
<1>12. IdsFit'
  BY <1>2, <1>3, <1>9 DEF IInv, IdsFit
\* t had no callout.
<1>13. \A x \in InTable : c_arg[x] \in Timer /\ c_arg[x] # t
  BY DEF IInv, ArgsFit, UntimeoutIsFinal
<1>14. ArgsFit'
  BY <1>7, <1>9, <1>10, <1>13 DEF IInv, ArgsFit
<1>15. UntimeoutIsFinal'
  BY <1>7, <1>9, <1>10, <1>13 DEF IInv, UntimeoutIsFinal
<1>16. WaitFits'
  BY <1>5, <1>7, <1>9, <1>10 DEF IInv, WaitFits
<1>17. \A s : Behind(s)' = Behind(s)
  BY <1>5 DEF Behind
<1>18. TimesFit'
  BY <1>5, <1>17 DEF IInv, TimesFit, Behind
<1>19. \A x \in Pending' : x \in Pending \/ x = cp
  BY <1>5, <1>7 DEF Pending
<1>20. PendingFits'
  <2>1. ASSUME NEW x \in Pending'
        PROVE  Behind(c_runtime'[x]) \in -MaxDelta .. Behind(ct_runtime)
    <3>1. CASE x \in Pending
      <4>1. c_runtime'[x] = c_runtime[x]
        BY <1>10, <3>1 DEF Pending
      <4> QED
        BY <3>1, <4>1 DEF IInv, PendingFits
    <3>2. CASE x = cp
      BY <1>4, <1>9, <3>2, StateFacts
    <3> QED
      BY <1>19, <3>1, <3>2
  <2> QED
    BY <1>5, <2>1 DEF PendingFits, Behind
<1>21. RunningFits'
  BY <1>5, <1>10 DEF IInv, RunningFits, Behind
<1>22. WalkFits'
  <2>1. ASSUME NEW w \in Worker, wpc[w] = "exec", NEW x \in InTable',
               Before(ct_lbhash', x, wcp[w]), c_runtime'[x] = wruntime[w]
        PROVE  c_executing[x]
    <3>1. CASE x = cp
      \* It is due later.
      <4>1. Behind(wruntime[w]) >= Behind(ct_curtime) /\ wruntime[w] = r
        BY <1>9, <2>1, <3>1, StateFacts, <1>1 DEF IInv, RunningFits, TypeOK
      <4> QED
        BY <1>4, <4>1, StateFacts, HalfProperties
    <3>2. CASE x # cp
      <4>1. x \in InTable /\ Before(ct_lbhash, x, wcp[w]) /\ c_runtime[x] = wruntime[w]
        BY <1>6, <1>7, <1>10, <2>1, <3>2
      <4> QED
        BY <2>1, <4>1 DEF IInv, WalkFits
    <3> QED
      BY <3>1, <3>2
  <2> QED
    BY <1>5, <2>1 DEF WalkFits
<1>23. DueHasExecutor'
  <2>1. ASSUME NEW x \in Pending', Diff(c_runtime'[x], ct_curtime) <= 0
        PROVE  x \in Pending /\ Diff(c_runtime[x], ct_curtime) <= 0
    <3>1. CASE x = cp
      <4>1. Diff(lbolt, r) = Behind(r) /\ Diff(lbolt, ct_curtime) = Behind(ct_curtime)
        BY DEF Behind
      <4>2. /\ Diff(lbolt, r) \in -MaxDelta .. MaxLag + 2
            /\ Diff(lbolt, ct_curtime) \in -MaxDelta .. MaxLag + 2
        BY <1>4, <4>1, StateFacts
      <4>3. Diff(r, ct_curtime) = Behind(ct_curtime) - Behind(r)
        BY <1>1, <1>4, <4>1, <4>2, DiffBehind DEF TypeOK
      <4> QED
        BY <1>4, <1>9, <2>1, <3>1, <4>3, StateFacts
    <3>2. CASE x # cp
      BY <1>10, <1>19, <2>1, <3>2 DEF Pending
    <3> QED
      BY <3>1, <3>2
  <2> QED
    BY <1>5, <2>1 DEF IInv, DueHasExecutor
<1> QED
  BY <1>11, <1>12, <1>14, <1>15, <1>16, <1>18, <1>20, <1>21, <1>22, <1>23 DEF IInv

\* timeout(), with a structure of the freelist or a new one.
LEMMA TimeoutStep ==
  ASSUME IInv, NEW t \in Timer, NEW delta \in 0 .. MaxDelta,
         Timeout(t, delta) \/ TimeoutAlloced(t, delta)
  PROVE  IInv'
<1>1. CASE Timeout(t, delta)
  <2>1. AnyOf(ct_freelist) \in ct_freelist
    BY <1>1 DEF Timeout, AnyOf
  <2>2. AnyOf(ct_freelist) \in Callout /\ AnyOf(ct_freelist) \notin InTable
    BY <2>1 DEF IInv, TypeOK
  <2> QED
    BY <1>1, <2>1, <2>2, SetCalloutStep DEF Timeout
<1>2. CASE TimeoutAlloced(t, delta)
  <2> DEFINE cp == AnyOf(Callout \ (ct_freelist \cup InTable))
  <2>1. cp \in Callout \ (ct_freelist \cup InTable)
    BY <1>2 DEF TimeoutAlloced, AnyOf
  <2> QED
    BY <1>2, <2>1, SetCalloutStep DEF TimeoutAlloced
<1> QED
  BY <1>1, <1>2

\* Taking a callout out of the table.
LEMMA RemoveFromTable ==
  ASSUME IInv, NEW cp \in InTable, ct_lbhash' = Without(cp),
         c_runtime' = [c_runtime EXCEPT ![cp] = 0]
  PROVE  /\ cp \in Callout
         /\ HashFits(ct_lbhash', c_runtime') /\ HashFits(ct_lbhash', c_runtime)
         /\ c_runtime' \in [Callout -> Time]
         /\ \A x : x \in InTable' <=> x \in InTable /\ x # cp
         /\ \A x \in InTable' : x \in Callout /\ c_runtime'[x] = c_runtime[x]
         /\ \A x : On(ct_lbhash', x) <=> On(ct_lbhash, x) /\ x # cp
         /\ \A x, y : Before(ct_lbhash', x, y) => Before(ct_lbhash, x, y)
         /\ FrontKept(ct_lbhash, ct_lbhash', LBHash(c_runtime[cp]), Place(cp))
<1>1. HashFits(ct_lbhash, c_runtime) /\ On(ct_lbhash, cp) /\ cp \in Callout
  BY StateFacts, InTableIsOn
<1>2. c_runtime \in [Callout -> Time] /\ 0 \in Time
  BY HalfProperties DEF IInv, TypeOK, Time
<1>3. /\ HashFits(ct_lbhash', c_runtime') /\ HashFits(ct_lbhash', c_runtime)
      /\ \A x : On(ct_lbhash', x) <=> On(ct_lbhash, x) /\ x # cp
      /\ \A x, y : Before(ct_lbhash', x, y) => Before(ct_lbhash, x, y)
      /\ FrontKept(ct_lbhash, ct_lbhash', LBHash(c_runtime[cp]), Place(cp))
  <2>1. Removed(ct_lbhash, ct_lbhash', c_runtime, cp, Place(cp))
    BY <1>1, PlaceProperties DEF Without, Removed
  <2>3. /\ HashFits(ct_lbhash', [c_runtime EXCEPT ![cp] = 0]) /\ HashFits(ct_lbhash', c_runtime)
        /\ \A x : On(ct_lbhash', x) <=> On(ct_lbhash, x) /\ x # cp
        /\ \A x, y : Before(ct_lbhash', x, y) => Before(ct_lbhash, x, y)
        /\ FrontKept(ct_lbhash, ct_lbhash', LBHash(c_runtime[cp]), Place(cp))
    BY <1>1, <1>2, <2>1, RemoveProperties, ZenonT(60)
  <2> QED
    BY <2>3, Zenon
<1>4. \A x : x \in InTable' <=> x \in InTable /\ x # cp
  BY <1>3, InTableIsOn
<1>5. \A x \in InTable' : x \in Callout
  BY <1>4, StateFacts, InTableIsOn
<1>6. c_runtime' \in [Callout -> Time] /\ \A x \in Callout : x # cp => c_runtime'[x] = c_runtime[x]
  BY <1>1, <1>2
<1> QED
  BY <1>1, <1>3, <1>4, <1>5, <1>6

\* untimeout() takes a callout that has not begun to execute out of the table.
LEMMA UntimeoutPendingStep ==
  ASSUME IInv, NEW t \in Timer, UntimeoutPending(t)
  PROVE  IInv'
<1>1. PICK cp \in Pending : c_id[cp] = tid[t] /\ ct_lbhash' = Without(cp) /\ Free(cp)
  BY DEF UntimeoutPending
<1>2. /\ ct_freelist' = ct_freelist \cup {cp}
      /\ c_runtime' = [c_runtime EXCEPT ![cp] = 0]
      /\ c_arg' = [c_arg EXCEPT ![cp] = NoCallout]
      /\ tpc[t] = "armed"
      /\ tid' = [tid EXCEPT ![t] = NoId]
      /\ tpc' = [tpc EXCEPT ![t] = "idle"]
      /\ lbolt' = lbolt /\ clock' = clock /\ cpr_stop_callout' = cpr_stop_callout
      /\ ct_curtime' = ct_curtime /\ ct_runtime' = ct_runtime /\ c_id' = c_id
      /\ c_executing' = c_executing /\ c_executor' = c_executor /\ queued' = queued
      /\ wpc' = wpc /\ wcp' = wcp /\ wruntime' = wruntime /\ tcp' = tcp
  BY <1>1 DEF UntimeoutPending, Free, workers
<1>3. TypeOK /\ cp \in InTable /\ ~c_executing[cp]
  BY DEF IInv, Pending
<1>4. /\ cp \in Callout
      /\ HashFits(ct_lbhash', c_runtime')
      /\ c_runtime' \in [Callout -> Time]
      /\ \A x : x \in InTable' <=> x \in InTable /\ x # cp
      /\ \A x \in InTable' : x \in Callout /\ c_runtime'[x] = c_runtime[x]
      /\ \A x, y : Before(ct_lbhash', x, y) => Before(ct_lbhash, x, y)
  BY <1>1, <1>2, <1>3, RemoveFromTable
<1>5. /\ c_arg' \in [Callout -> Timer \cup {NoCallout}]
      /\ tid' \in [Timer -> Id \cup {NoId}] /\ tpc' \in [Timer -> TPC]
      /\ \A x \in Callout : x # cp => c_arg'[x] = c_arg[x]
      /\ tid'[t] = NoId /\ tpc'[t] = "idle"
      /\ \A u \in Timer : u # t => tid'[u] = tid[u] /\ tpc'[u] = tpc[u]
  BY <1>2, <1>3, <1>4 DEF TypeOK, TPC
<1>6. TypeOK'
  <2>1. ct_freelist' \in SUBSET Callout /\ ct_freelist' \cap InTable' = {}
    BY <1>2, <1>3, <1>4 DEF TypeOK
  <2>2. /\ ct_lbhash' \in [Bucket -> Seq(Callout)]
        /\ \A b \in Bucket : \A i, j \in 1 .. Len(ct_lbhash'[b]) :
             /\ LBHash(c_runtime'[ct_lbhash'[b][i]]) = b
             /\ i # j => ct_lbhash'[b][i] # ct_lbhash'[b][j]
    BY <1>4 DEF HashFits
  <2> QED
    BY <1>2, <1>3, <1>4, <1>5, <2>1, <2>2 DEF TypeOK
<1>7. IdsFit'
  BY <1>5 DEF IInv, IdsFit
\* It was t's only callout.
<1>8. c_arg[cp] = t
  BY <1>1, <1>2, <1>3 DEF IInv, IdsFit, UntimeoutIsFinal, ArgsFit
<1>9. \A x \in InTable' :
        x \in InTable /\ c_arg'[x] = c_arg[x] /\ c_arg[x] \in Timer /\ c_arg[x] # t
  BY <1>3, <1>4, <1>5, <1>8 DEF IInv, ArgsFit
<1>10. ArgsFit'
  BY <1>9 DEF IInv, ArgsFit
<1>11. UntimeoutIsFinal'
  BY <1>2, <1>5, <1>9 DEF IInv, UntimeoutIsFinal
<1>12. WaitFits'
  BY <1>2, <1>5, <1>9 DEF IInv, WaitFits
<1>13. TimesFit'
  BY <1>2 DEF IInv, TimesFit, Behind
<1>14. \A x \in Pending' : x \in Pending /\ c_runtime'[x] = c_runtime[x]
  BY <1>2, <1>4 DEF Pending
<1>15. PendingFits'
  BY <1>2, <1>14 DEF IInv, PendingFits, Behind
<1>16. RunningFits'
  BY <1>2, <1>3, <1>4 DEF IInv, RunningFits, Behind
<1>17. WalkFits'
  BY <1>2, <1>4 DEF IInv, WalkFits
<1>18. DueHasExecutor'
  BY <1>2, <1>14 DEF IInv, DueHasExecutor
<1> QED
  BY <1>6, <1>7, <1>10, <1>11, <1>12, <1>13, <1>15, <1>16, <1>17, <1>18 DEF IInv

-----------------------------------------------------------------------------
(* clock() and the task queue.                                             *)

\* Steps that leave the users and the callouts alone, apart from the clock, the
\* times of the table, the task queue and threads that are not in a handler.
LEMMA TableUnchanged ==
  ASSUME IInv, UNCHANGED <<ct_freelist, ct_lbhash, cfields, timers, wcp, wruntime>>,
         lbolt' \in Time, ct_curtime' \in Time, ct_runtime' \in Time,
         clock' \in {"idle", "schedule", "dispatch"}, cpr_stop_callout' \in BOOLEAN,
         queued' \in 0 .. 2 * Cardinality(Worker), wpc' \in [Worker -> WPC],
         \A w \in Worker : wpc'[w] # "selfwait" /\ (wpc'[w] = "exec" => wpc[w] = "exec"),
         (TimesFit /\ PendingFits /\ DueHasExecutor)',
         \A w \in Worker : wpc[w] = "exec" =>
           Diff(lbolt', wruntime[w]) \in Diff(lbolt', ct_curtime') .. MaxLag + 1
  PROVE  IInv'
<1>1. /\ ct_freelist' = ct_freelist /\ ct_lbhash' = ct_lbhash /\ c_id' = c_id
      /\ c_executing' = c_executing /\ c_runtime' = c_runtime /\ c_executor' = c_executor
      /\ c_arg' = c_arg /\ wcp' = wcp /\ wruntime' = wruntime
      /\ tpc' = tpc /\ tid' = tid /\ tcp' = tcp
  BY DEF cfields, timers
<1>2. InTable' = InTable
  BY <1>1 DEF InTable
<1>3. TypeOK'
  BY <1>1, <1>2 DEF IInv, TypeOK
<1>4. (IdsFit /\ ArgsFit /\ UntimeoutIsFinal /\ WaitFits)'
  BY <1>1, <1>2 DEF IInv, IdsFit, ArgsFit, UntimeoutIsFinal, WaitFits
<1>5. RunningFits'
  BY <1>1, <1>2 DEF IInv, RunningFits, Behind
<1>6. WalkFits'
  BY <1>1, <1>2 DEF IInv, WalkFits, Before
<1> QED
  BY <1>3, <1>4, <1>5, <1>6 DEF IInv

\* Pending depends on the chains and on the callouts alone.
LEMMA PendingUnchanged ==
  ASSUME UNCHANGED <<ct_lbhash, cfields>>
  PROVE  Pending' = Pending /\ c_runtime' = c_runtime
<1>1. ct_lbhash' = ct_lbhash /\ c_executing' = c_executing /\ c_runtime' = c_runtime
  BY DEF cfields
<1> QED
  BY <1>1 DEF Pending, InTable

\* clock() increments lbolt.
LEMMA TickStep ==
  ASSUME IInv, Tick
  PROVE  IInv'
<1>1. /\ lbolt' = Plus(lbolt, 1) /\ clock = "idle" /\ clock' = "schedule"
      /\ Behind(ct_runtime) <= MaxLag
      /\ \A w \in Worker : wpc[w] = "exec" => Behind(wruntime[w]) <= MaxLag
      /\ UNCHANGED <<cpr_stop_callout, ct, cfields, queued, workers, timers>>
  <2>1. Behind(ct_runtime) < MaxLag + (IF cpr_stop_callout THEN 0 ELSE 1)
    BY DEF Tick
  <2>2. Behind(ct_runtime) <= MaxLag
    BY <2>1, StateFacts
  <2> QED
    BY <2>2 DEF Tick
<1>2. /\ ct_curtime' = ct_curtime /\ ct_runtime' = ct_runtime /\ ct_freelist' = ct_freelist
      /\ ct_lbhash' = ct_lbhash /\ wpc' = wpc /\ wcp' = wcp /\ wruntime' = wruntime
      /\ queued' = queued /\ cpr_stop_callout' = cpr_stop_callout
  BY <1>1 DEF ct, workers
<1>3. TypeOK /\ Pending' = Pending /\ c_runtime' = c_runtime
  BY <1>1, <1>2, PendingUnchanged DEF IInv
<1>4. ASSUME NEW x \in Time, Behind(x) <= MaxLag + 1
      PROVE  lbolt' \in Time /\ Diff(lbolt', x) = Behind(x) + 1
  BY <1>1, <1>3, <1>4, TickBehind DEF Behind, TypeOK
<1>5. ct_curtime \in Time /\ ct_runtime \in Time /\ c_runtime \in [Callout -> Time]
      /\ wruntime \in [Worker -> Time]
  BY <1>3 DEF TypeOK
<1>6. Behind(ct_curtime) <= MaxLag + 1 /\ Behind(ct_runtime) <= MaxLag + 1
  BY <1>1, StateFacts DEF IInv, TimesFit
<1>7. /\ lbolt' \in Time /\ Diff(lbolt', ct_curtime) = Behind(ct_curtime) + 1
      /\ Diff(lbolt', ct_runtime) = Behind(ct_runtime) + 1
  BY <1>4, <1>5, <1>6
<1>8. TimesFit'
  <2>1. Behind(ct_runtime) \in Behind(ct_curtime) - 1 .. MaxLag + 1
    BY DEF IInv, TimesFit
  <2>2. /\ Diff(lbolt', ct_curtime') >= 0
        /\ Diff(lbolt', ct_runtime') \in Diff(lbolt', ct_curtime') - 1 .. MaxLag + 1
    BY <1>1, <1>2, <1>7, <2>1, StateFacts
  <2> QED
    BY <2>2 DEF TimesFit, Behind
<1>9. PendingFits'
  <2>1. ASSUME NEW x \in Pending
        PROVE  Diff(lbolt', c_runtime[x]) \in -MaxDelta .. Diff(lbolt', ct_runtime)
    <3>1. x \in Callout /\ c_runtime[x] \in Time
      BY <1>5, StateFacts DEF Waiting
    <3>2. Behind(c_runtime[x]) \in -MaxDelta .. Behind(ct_runtime)
      BY DEF IInv, PendingFits
    <3>3. Behind(c_runtime[x]) <= MaxLag + 1
      BY <1>1, <3>1, <3>2, StateFacts
    <3>4. Diff(lbolt', c_runtime[x]) = Behind(c_runtime[x]) + 1
      BY <1>4, <3>1, <3>3
    <3> QED
      BY <1>7, <3>2, <3>4, StateFacts
  <2> QED
    BY <1>2, <1>3, <2>1 DEF PendingFits, Behind
<1>10. DueHasExecutor'
  BY <1>1, <1>2, <1>3 DEF IInv, DueHasExecutor
<1>11. ASSUME NEW w \in Worker, wpc[w] = "exec"
       PROVE  Diff(lbolt', wruntime[w]) \in Diff(lbolt', ct_curtime') .. MaxLag + 1
  <2>1. wruntime[w] \in Time /\ Behind(wruntime[w]) <= MaxLag
        /\ Behind(wruntime[w]) \in Behind(ct_curtime) .. MaxLag + 1
    BY <1>1, <1>5, <1>11 DEF IInv, RunningFits
  <2>2. Diff(lbolt', wruntime[w]) = Behind(wruntime[w]) + 1
    BY <1>4, <2>1, StateFacts
  <2> QED
    BY <1>2, <1>7, <2>1, <2>2, StateFacts
<1>12. /\ UNCHANGED <<ct_freelist, ct_lbhash, cfields, timers, wcp, wruntime>>
       /\ ct_curtime' \in Time /\ ct_runtime' \in Time
       /\ clock' \in {"idle", "schedule", "dispatch"} /\ cpr_stop_callout' \in BOOLEAN
       /\ queued' \in 0 .. 2 * Cardinality(Worker) /\ wpc' \in [Worker -> WPC]
       /\ \A w \in Worker : wpc'[w] # "selfwait" /\ (wpc'[w] = "exec" => wpc[w] = "exec")
  BY <1>1, <1>2, <1>3 DEF TypeOK, IInv, RunningFits
<1> QED
  BY <1>7, <1>8, <1>9, <1>10, <1>11, <1>12, TableUnchanged

\* callout_schedule_1(): the run time of the table moves on, stopping at the first
\* that has a callout; that one gets an executor.
LEMMA CalloutScheduleStep ==
  ASSUME IInv, CalloutSchedule
  PROVE  IInv'
<1>1. /\ clock = "schedule" /\ lbolt' = lbolt /\ cpr_stop_callout' = cpr_stop_callout
      /\ ct_freelist' = ct_freelist /\ ct_lbhash' = ct_lbhash /\ queued' = queued
      /\ UNCHANGED <<cfields, workers, timers>>
      /\ wpc' = wpc /\ wcp' = wcp /\ wruntime' = wruntime
  BY DEF CalloutSchedule, workers
<1>2. TypeOK /\ Pending' = Pending /\ c_runtime' = c_runtime
  BY <1>1, PendingUnchanged DEF IInv
<1>3. /\ UNCHANGED <<ct_freelist, ct_lbhash, cfields, timers, wcp, wruntime>>
      /\ lbolt' \in Time /\ cpr_stop_callout' \in BOOLEAN
      /\ queued' \in 0 .. 2 * Cardinality(Worker) /\ wpc' \in [Worker -> WPC]
      /\ \A w \in Worker : wpc'[w] # "selfwait" /\ (wpc'[w] = "exec" => wpc[w] = "exec")
  BY <1>1, <1>2 DEF TypeOK, IInv, RunningFits
<1>4. CASE cpr_stop_callout
  <2>1. clock' = "idle" /\ ct_curtime' = ct_curtime /\ ct_runtime' = ct_runtime
    BY <1>4 DEF CalloutSchedule
  <2>2. (TimesFit /\ PendingFits)'
    BY <1>1, <1>2, <2>1 DEF IInv, TimesFit, PendingFits, Behind
  <2>3. DueHasExecutor'
    BY <1>1, <1>2, <2>1 DEF IInv, DueHasExecutor
  <2>4. \A w \in Worker : wpc[w] = "exec" =>
          Diff(lbolt', wruntime[w]) \in Diff(lbolt', ct_curtime') .. MaxLag + 1
    BY <1>1, <2>1 DEF IInv, RunningFits, Behind
  <2>5. ct_curtime' \in Time /\ ct_runtime' \in Time /\ clock' \in {"idle", "schedule", "dispatch"}
    BY <1>2, <2>1 DEF TypeOK
  <2> QED
    BY <1>3, <2>2, <2>3, <2>4, <2>5, TableUnchanged
<1>5. CASE ~cpr_stop_callout
  <2> DEFINE next == FirstDue(ct_lbhash, ct_runtime, lbolt)
  <2>1. /\ ct_curtime' = lbolt /\ ct_runtime' = next.runtime
        /\ clock' = IF next.cp # NoCallout THEN "dispatch" ELSE "idle"
    BY <1>5 DEF CalloutSchedule
  <2>2. lbolt \in Time /\ Behind(lbolt) = 0 /\ Diff(lbolt, lbolt) = 0
    BY <1>2, DiffSelf DEF TypeOK, Behind
  <2>3. Behind(ct_runtime) \in Behind(lbolt) - 1 .. MaxLag + 1
    BY <2>2, StateFacts
  <2>4. \A x : Waiting(ct_lbhash, x) => Behind(c_runtime[x]) \in -MaxDelta .. Behind(ct_runtime)
    BY StateFacts DEF IInv, PendingFits
  <2>5. /\ HashFits(ct_lbhash, c_runtime) /\ c_runtime \in [Callout -> Time]
        /\ ct_runtime \in Time /\ Behind(lbolt) >= 0
    BY <1>2, <2>2, StateFacts DEF TypeOK
  <2> HIDE DEF next
  <2>6. /\ next.runtime \in Time
        /\ Behind(next.runtime) \in Behind(lbolt) - 1 .. Behind(ct_runtime)
        /\ \A x : Waiting(ct_lbhash, x) =>
             Behind(c_runtime[x]) \in -MaxDelta .. Behind(next.runtime)
        /\ next.cp = NoCallout => Behind(next.runtime) = Behind(lbolt) - 1
    BY <2>2, <2>3, <2>4, <2>5, FirstDueProperties DEF next
  <2>7. TimesFit'
    <3>1. Behind(next.runtime) \in -1 .. MaxLag + 1
      BY <2>2, <2>6, StateFacts
    <3>2. Diff(lbolt', ct_curtime') = 0 /\ Diff(lbolt', ct_runtime') = Behind(next.runtime)
      BY <1>1, <2>1, <2>2 DEF Behind
    <3> QED
      BY <3>1, <3>2 DEF TimesFit, Behind
  <2>8. PendingFits'
    BY <1>1, <1>2, <2>1, <2>6, StateFacts DEF PendingFits, Behind
  <2>9. DueHasExecutor'
    <3>1. ASSUME next.cp = NoCallout, NEW x \in Pending, Diff(c_runtime[x], lbolt) <= 0
          PROVE  FALSE
      <4>1. Waiting(ct_lbhash, x) /\ c_runtime[x] \in Time
        BY <2>5, StateFacts DEF Waiting
      <4>2. Behind(c_runtime[x]) \in -MaxDelta .. -1
        BY <2>2, <2>6, <3>1, <4>1
      <4>3. /\ Diff(lbolt, c_runtime[x]) \in -MaxDelta .. MaxLag + 2
            /\ Diff(lbolt, lbolt) \in -MaxDelta .. MaxLag + 2
        BY <2>2, <4>2, StateFacts DEF Behind
      <4>4. Diff(c_runtime[x], lbolt) = Diff(lbolt, lbolt) - Diff(lbolt, c_runtime[x])
        BY <2>2, <4>1, <4>3, DiffBehind
      <4> QED
        BY <2>2, <3>1, <4>2, <4>4, HalfProperties DEF Behind
    <3> QED
      BY <1>2, <2>1, <3>1 DEF DueHasExecutor
  <2>10. ASSUME NEW w \in Worker, wpc[w] = "exec"
         PROVE  Diff(lbolt', wruntime[w]) \in Diff(lbolt', ct_curtime') .. MaxLag + 1
    <3>1. wruntime[w] \in Time /\ Behind(wruntime[w]) \in Behind(ct_curtime) .. MaxLag + 1
      BY <1>2, <2>10 DEF TypeOK, IInv, RunningFits
    <3>2. Behind(wruntime[w]) \in 0 .. MaxLag + 1
      BY <3>1, StateFacts
    <3> QED
      BY <1>1, <2>1, <2>2, <3>2 DEF Behind
  <2>11. ct_curtime' \in Time /\ ct_runtime' \in Time /\ clock' \in {"idle", "schedule", "dispatch"}
    BY <2>1, <2>2, <2>6
  <2> QED
    BY <1>3, <2>7, <2>8, <2>9, <2>10, <2>11, TableUnchanged
<1> QED
  BY <1>4, <1>5

\* Steps that leave the times alone too.
LEMMA TimesUnchanged ==
  ASSUME IInv, UNCHANGED <<lbolt, ct, cfields, timers, wcp, wruntime>>,
         clock' \in {"idle", "schedule", "dispatch"}, cpr_stop_callout' \in BOOLEAN,
         queued' \in 0 .. 2 * Cardinality(Worker), wpc' \in [Worker -> WPC],
         \A w \in Worker : wpc'[w] # "selfwait" /\ (wpc'[w] = "exec" => wpc[w] = "exec"),
         \/ clock' = "dispatch" \/ queued' > 0
         \/ \E w \in Worker : wpc'[w] \notin {"idle", "finish"}
         \/ ~(\/ clock = "dispatch" \/ queued > 0
              \/ \E w \in Worker : wpc[w] \notin {"idle", "finish"})
  PROVE  IInv'
<1>1. /\ lbolt' = lbolt /\ ct_curtime' = ct_curtime /\ ct_runtime' = ct_runtime
      /\ ct_freelist' = ct_freelist /\ ct_lbhash' = ct_lbhash
  BY DEF ct
<1>2. Pending' = Pending /\ c_runtime' = c_runtime
  BY <1>1, PendingUnchanged
<1>3. lbolt' \in Time /\ ct_curtime' \in Time /\ ct_runtime' \in Time
  BY <1>1 DEF IInv, TypeOK
<1>4. (TimesFit /\ PendingFits)'
  BY <1>1, <1>2 DEF IInv, TimesFit, PendingFits, Behind
<1>5. DueHasExecutor'
  BY <1>1, <1>2 DEF IInv, DueHasExecutor
<1>6. \A w \in Worker : wpc[w] = "exec" =>
        Diff(lbolt', wruntime[w]) \in Diff(lbolt', ct_curtime') .. MaxLag + 1
  BY <1>1 DEF IInv, RunningFits, Behind
<1> QED
  BY <1>1, <1>3, <1>4, <1>5, <1>6, TableUnchanged

\* taskq_dispatch(): if it finds no free task structure, one is queued, there being
\* more of them than threads.
LEMMA TaskqDispatchStep ==
  ASSUME IInv, TaskqDispatch
  PROVE  IInv'
<1> DEFINE busy == {w \in Worker : wpc[w] # "idle"}
           n == Cardinality(Worker)
<1>1. n \in Nat /\ n > 0 /\ Cardinality(busy) \in 0 .. n
  <2>1. busy \in SUBSET Worker
    OBVIOUS
  <2>2. Cardinality(busy) \in Nat /\ Cardinality(busy) <= n /\ n \in Nat
    BY <2>1, CalloutAssumption, FS_Subset, FS_CardinalityType
  <2>3. n # 0
    BY CalloutAssumption, FS_EmptySet
  <2> QED
    BY <2>2, <2>3
<1>2. /\ clock' = "idle" /\ UNCHANGED <<lbolt, cpr_stop_callout, ct, cfields, workers, timers>>
      /\ queued' = IF queued + Cardinality(busy) < 2 * n THEN queued + 1 ELSE queued
  BY DEF TaskqDispatch, Tasks
<1>3. TypeOK /\ queued \in 0 .. 2 * n
  BY DEF IInv, TypeOK
<1> HIDE DEF busy, n
\* Each thread holds one task structure at most, so that another one is queued.
<1>4. queued' \in 0 .. 2 * n /\ queued' > 0
  BY <1>1, <1>2, <1>3
<1>5. UNCHANGED <<lbolt, ct, cfields, timers, wcp, wruntime>> /\ wpc' = wpc
      /\ cpr_stop_callout' = cpr_stop_callout
  BY <1>2 DEF workers
<1>6. /\ wpc' \in [Worker -> WPC] /\ cpr_stop_callout' \in BOOLEAN
      /\ \A w \in Worker : wpc'[w] # "selfwait" /\ (wpc'[w] = "exec" => wpc[w] = "exec")
  BY <1>3, <1>5 DEF TypeOK, IInv, RunningFits
<1> QED
  BY <1>2, <1>4, <1>5, <1>6, TimesUnchanged DEF n

\* Checkpoint and resume stop and start the callouts.
LEMMA CalloutCprStep ==
  ASSUME IInv, NEW stop \in BOOLEAN, CalloutCpr(stop)
  PROVE  IInv'
<1>1. /\ cpr_stop_callout' \in BOOLEAN /\ clock' = clock /\ queued' = queued /\ wpc' = wpc
      /\ UNCHANGED <<lbolt, ct, cfields, timers, wcp, wruntime>>
  BY DEF CalloutCpr, workers
<1>2. /\ clock' \in {"idle", "schedule", "dispatch"} /\ wpc' \in [Worker -> WPC]
      /\ queued' \in 0 .. 2 * Cardinality(Worker)
      /\ \A w \in Worker : wpc'[w] # "selfwait" /\ (wpc'[w] = "exec" => wpc[w] = "exec")
  BY <1>1 DEF TypeOK, IInv, RunningFits
<1> QED
  BY <1>1, <1>2, TimesUnchanged

\* A thread of the task queue takes a task or gives its structure back; a handler
\* calls untimeout() on itself.
LEMMA TaskStep ==
  ASSUME IInv, NEW w \in Worker, TaskTake(w) \/ TaskFree(w) \/ UntimeoutSelf(w)
  PROVE  IInv'
<1>1. TypeOK /\ wpc \in [Worker -> WPC] /\ RunningFits /\ queued \in 0 .. 2 * Cardinality(Worker)
      /\ Cardinality(Worker) \in Nat
  BY CalloutAssumption, FS_CardinalityType DEF IInv, TypeOK
<1>2. CASE TaskTake(w)
  <2>1. /\ queued > 0 /\ queued' = queued - 1 /\ wpc' = [wpc EXCEPT ![w] = "run"]
        /\ clock' = clock /\ cpr_stop_callout' = cpr_stop_callout
        /\ UNCHANGED <<lbolt, ct, cfields, timers, wcp, wruntime>>
    BY <1>2 DEF TaskTake
  <2>2. queued' \in 0 .. 2 * Cardinality(Worker)
    BY <1>1, <2>1
  <2>3. /\ wpc' \in [Worker -> WPC] /\ wpc'[w] = "run"
        /\ \A v \in Worker : v # w => wpc'[v] = wpc[v]
    BY <1>1, <2>1 DEF WPC
  <2>4. /\ clock' \in {"idle", "schedule", "dispatch"} /\ cpr_stop_callout' \in BOOLEAN
        /\ \A v \in Worker : wpc'[v] # "selfwait" /\ (wpc'[v] = "exec" => wpc[v] = "exec")
    BY <1>1, <2>1, <2>3 DEF TypeOK, RunningFits
  <2> QED
    BY <2>1, <2>2, <2>3, <2>4, TimesUnchanged
<1>3. CASE TaskFree(w)
  <2>1. /\ wpc[w] = "finish" /\ wpc' = [wpc EXCEPT ![w] = "idle"] /\ queued' = queued
        /\ clock' = clock /\ cpr_stop_callout' = cpr_stop_callout
        /\ UNCHANGED <<lbolt, ct, cfields, timers, wcp, wruntime>>
    BY <1>3 DEF TaskFree
  <2>2. /\ wpc' \in [Worker -> WPC] /\ wpc'[w] = "idle"
        /\ \A v \in Worker : v # w => wpc'[v] = wpc[v]
    BY <1>1, <2>1 DEF WPC
  <2>3. /\ clock' \in {"idle", "schedule", "dispatch"} /\ cpr_stop_callout' \in BOOLEAN
        /\ queued' \in 0 .. 2 * Cardinality(Worker)
        /\ \A v \in Worker : wpc'[v] # "selfwait" /\ (wpc'[v] = "exec" => wpc[v] = "exec")
    BY <1>1, <2>1, <2>2 DEF TypeOK, RunningFits
  <2>4. \A v \in Worker : wpc[v] \notin {"idle", "finish"} => wpc'[v] \notin {"idle", "finish"}
    BY <2>1, <2>2
  <2> QED
    BY <2>1, <2>2, <2>3, <2>4, TimesUnchanged
<1>4. CASE UntimeoutSelf(w)
  \* The handler's own thread is the executor, so that it does not wait.
  <2>1. c_executor[wcp[w]] = w /\ wpc[w] = "exec"
    BY <1>1, <1>4 DEF UntimeoutSelf, RunningFits
  <2>2. wpc' = wpc
    BY <1>1, <1>4, <2>1 DEF UntimeoutSelf
  <2>3. /\ queued' = queued /\ clock' = clock /\ cpr_stop_callout' = cpr_stop_callout
        /\ UNCHANGED <<lbolt, ct, cfields, timers, wcp, wruntime>>
    BY <1>4 DEF UntimeoutSelf
  <2>4. /\ clock' \in {"idle", "schedule", "dispatch"} /\ cpr_stop_callout' \in BOOLEAN
        /\ queued' \in 0 .. 2 * Cardinality(Worker) /\ wpc' \in [Worker -> WPC]
        /\ \A v \in Worker : wpc'[v] # "selfwait" /\ (wpc'[v] = "exec" => wpc[v] = "exec")
    BY <1>1, <2>2, <2>3 DEF TypeOK, RunningFits
  <2> QED
    BY <2>2, <2>3, <2>4, TimesUnchanged
<1> QED
  BY <1>2, <1>3, <1>4

-----------------------------------------------------------------------------
(* callout_execute().                                                      *)

\* What the thread w does to the table when it is done with D and starts the callout
\* of next, or is through.
ExecuteEffect(w, next, D) ==
  /\ Execute(w, next, D)
  /\ \/ wpc[w] = "run" /\ D = {}
     \/ wpc[w] = "exec" /\ D = {wcp[w]}
  /\ UNCHANGED <<lbolt, clock, cpr_stop_callout, ct_curtime, queued, tid, tcp>>
  /\ ct_freelist' = ct_freelist \cup D

\* The callouts and the users afterwards.
TableEffect(D) ==
  /\ HashFits(ct_lbhash', c_runtime') /\ c_runtime' \in [Callout -> Time]
  /\ c_arg' \in [Callout -> Timer \cup {NoCallout}]
  /\ \A x : x \in InTable' <=> x \in InTable /\ x \notin D
  /\ \A x \in InTable' : c_runtime'[x] = c_runtime[x] /\ c_arg'[x] = c_arg[x]
  /\ \A x, y : Before(ct_lbhash', x, y) => Before(ct_lbhash, x, y)
  /\ tpc' \in [Timer -> TPC]
  /\ \A t \in Timer : tpc'[t] = tpc[t] \/ (tpc[t] = "wait" /\ tpc'[t] = "woken")

\* The run time afterwards, and the callout that is started.
NextEffect(next) ==
  /\ ct_runtime' \in Time /\ Behind(ct_runtime') \in Behind(ct_curtime) - 1 .. MaxLag + 1
  /\ \A x \in InTable' :
       ~c_executing[x] => Behind(c_runtime[x]) \in -MaxDelta .. Behind(ct_runtime')
  /\ next.cp = NoCallout => Behind(ct_runtime') = Behind(ct_curtime) - 1
  /\ next.cp # NoCallout =>
       /\ next.cp \in InTable' /\ ~c_executing[next.cp]
       /\ c_runtime[next.cp] = next.runtime
       /\ Behind(next.runtime) \in Behind(ct_curtime) .. MaxLag + 1
       /\ \A x \in InTable' :
            Before(ct_lbhash', x, next.cp) /\ c_runtime[x] = next.runtime => c_executing[x]

\* Whatever callout_execute() did to the table, it keeps the invariant if the next
\* callout it begins is as NextEffect() says.
LEMMA ExecuteKeeps ==
  ASSUME IInv, NEW w \in Worker, NEW next, NEW D,
         ExecuteEffect(w, next, D), TableEffect(D), NextEffect(next)
  PROVE  IInv'
<1> DEFINE start == {next.cp} \ {NoCallout}
<1>1. /\ TypeOK /\ lbolt' = lbolt /\ clock' = clock /\ cpr_stop_callout' = cpr_stop_callout
      /\ ct_curtime' = ct_curtime /\ queued' = queued /\ tid' = tid /\ tcp' = tcp
      /\ ct_freelist' = ct_freelist \cup D
      /\ \/ wpc[w] = "run" /\ D = {}
         \/ wpc[w] = "exec" /\ D = {wcp[w]}
  BY DEF IInv, ExecuteEffect
<1>2. /\ c_id' = [x \in Callout |-> IF x \in D THEN NoId ELSE c_id[x]]
      /\ c_executing' = [x \in Callout |-> x \in start \/ (c_executing[x] /\ x \notin D)]
      /\ c_executor' = [x \in Callout |-> IF x \in start THEN w
                                          ELSE IF x \in D THEN NoCallout ELSE c_executor[x]]
      /\ wpc' = [wpc EXCEPT ![w] = IF start = {} THEN "finish" ELSE "exec"]
      /\ wcp' = [wcp EXCEPT ![w] = next.cp]
      /\ wruntime' = [wruntime EXCEPT ![w] = IF start = {} THEN 0 ELSE next.runtime]
  BY DEF Execute, ExecuteEffect
<1>3. \A x \in InTable : x \in Callout
  BY StateFacts, InTableIsOn
<1>4. /\ \A x \in InTable' : x \in InTable /\ x \notin D /\ x \in Callout
      /\ \A x \in InTable : x \notin D => x \in InTable'
      /\ \A x \in InTable' : c_runtime'[x] = c_runtime[x] /\ c_arg'[x] = c_arg[x]
  BY <1>3 DEF TableEffect
<1>5. /\ next.cp \in Callout \cup {NoCallout}
      /\ start # {} => next.cp # NoCallout /\ next.runtime \in Time
      /\ start = {} => next.cp = NoCallout
      /\ \A x \in start : x = next.cp /\ x # NoCallout
      /\ \A x \in D : x \in Callout
  <2>1. next.cp # NoCallout => next.runtime \in Time /\ next.cp \in Callout
    BY <1>1, <1>4 DEF TypeOK, NextEffect
  <2>2. \A x \in D : x \in Callout
    BY <1>1, <1>3 DEF IInv, RunningFits
  <2> QED
    BY <2>1, <2>2
<1>6. \A x \in InTable' :
        /\ c_id'[x] = c_id[x]
        /\ c_executing[x] \/ x \in start => c_executing'[x]
        /\ ~c_executing'[x] => ~c_executing[x]
        /\ c_executor'[x] = IF x \in start THEN w ELSE c_executor[x]
  BY <1>2, <1>4
<1>7. /\ wpc' \in [Worker -> WPC] /\ wcp' \in [Worker -> Callout \cup {NoCallout}]
      /\ wruntime' \in [Worker -> Time]
      /\ wpc'[w] = (IF start = {} THEN "finish" ELSE "exec") /\ wcp'[w] = next.cp
      /\ start # {} => wruntime'[w] = next.runtime
      /\ \A v \in Worker : v # w =>
           wpc'[v] = wpc[v] /\ wcp'[v] = wcp[v] /\ wruntime'[v] = wruntime[v]
  <2>1. 0 \in Time
    BY HalfProperties DEF Time
  <2>2. wpc \in [Worker -> WPC] /\ wcp \in [Worker -> Callout \cup {NoCallout}]
        /\ wruntime \in [Worker -> Time]
    BY <1>1 DEF TypeOK
  <2> QED
    BY <1>2, <1>5, <2>1, <2>2 DEF WPC
<1>8. /\ c_id' \in [Callout -> Id \cup {NoId}] /\ c_executing' \in [Callout -> BOOLEAN]
      /\ c_executor' \in [Callout -> Worker \cup {NoCallout}]
  <2>1. c_id \in [Callout -> Id \cup {NoId}] /\ c_executor \in [Callout -> Worker \cup {NoCallout}]
    BY <1>1 DEF TypeOK
  <2> QED
    BY <1>2, <2>1
<1> HIDE DEF start
<1>9. TypeOK'
  <2>1. ct_freelist' \in SUBSET Callout /\ ct_freelist' \cap InTable' = {}
    BY <1>1, <1>4, <1>5 DEF TypeOK
  <2>2. /\ ct_lbhash' \in [Bucket -> Seq(Callout)]
        /\ \A b \in Bucket : \A i, j \in 1 .. Len(ct_lbhash'[b]) :
             /\ LBHash(c_runtime'[ct_lbhash'[b][i]]) = b
             /\ i # j => ct_lbhash'[b][i] # ct_lbhash'[b][j]
    BY DEF HashFits, TableEffect
  <2> QED
    BY <1>1, <1>7, <1>8, <2>1, <2>2 DEF TypeOK, TableEffect, NextEffect
<1>10. IdsFit'
  BY <1>1 DEF IInv, IdsFit, TableEffect
<1>11. ArgsFit'
  BY <1>4 DEF IInv, ArgsFit
<1>12. UntimeoutIsFinal'
  BY <1>1, <1>4, <1>6 DEF IInv, UntimeoutIsFinal, ArgsFit, TableEffect
<1>13. WaitFits'
  BY <1>1, <1>4, <1>6 DEF IInv, WaitFits, TableEffect
<1>14. TimesFit'
  BY <1>1, StateFacts DEF IInv, TimesFit, Behind, NextEffect
<1>15. \A x \in Pending' : x \in InTable' /\ ~c_executing[x] /\ c_runtime'[x] = c_runtime[x]
  BY <1>4, <1>6 DEF Pending
<1>16. PendingFits'
  BY <1>1, <1>15 DEF PendingFits, Behind, NextEffect
\* Other threads are in handlers of other callouts.
<1>17. ASSUME NEW v \in Worker, v # w, wpc[v] = "exec"
       PROVE  wcp[v] \in InTable' /\ wcp[v] \notin start
  <2>1. wcp[v] \in InTable /\ c_executing[wcp[v]] /\ c_executor[wcp[v]] = v
    BY <1>17 DEF IInv, RunningFits
  <2>2. wcp[v] \notin D
    BY <1>1, <1>17, <2>1 DEF IInv, RunningFits
  <2>3. wcp[v] # next.cp \/ next.cp = NoCallout
    BY <2>1 DEF NextEffect
  <2> QED
    BY <1>4, <1>5, <2>1, <2>2, <2>3
<1>18. RunningFits'
  <2>1. ASSUME NEW v \in Worker, v # w, wpc'[v] = "exec"
        PROVE  /\ wcp'[v] \in InTable' /\ c_executing'[wcp'[v]] /\ c_executor'[wcp'[v]] = v
               /\ c_runtime'[wcp'[v]] = wruntime'[v]
               /\ Behind(wruntime'[v]) \in Behind(ct_curtime) .. MaxLag + 1
    BY <1>4, <1>6, <1>7, <1>17, <2>1 DEF IInv, RunningFits
  <2>2. ASSUME wpc'[w] = "exec"
        PROVE  /\ wcp'[w] \in InTable' /\ c_executing'[wcp'[w]] /\ c_executor'[wcp'[w]] = w
               /\ c_runtime'[wcp'[w]] = wruntime'[w]
               /\ Behind(wruntime'[w]) \in Behind(ct_curtime) .. MaxLag + 1
    <3>1. start # {}
      BY <1>7, <2>2
    <3>2. next.cp \in start /\ wcp'[w] = next.cp /\ wruntime'[w] = next.runtime
      BY <1>5, <1>7, <3>1
    <3>3. next.cp # NoCallout
      BY <1>5, <3>1
    <3> QED
      BY <1>4, <1>6, <3>2, <3>3 DEF NextEffect
  <2>3. \A v \in Worker : wpc'[v] # "selfwait"
    BY <1>7 DEF IInv, RunningFits
  <2> QED
    BY <1>1, <2>1, <2>2, <2>3 DEF RunningFits, Behind
<1>19. WalkFits'
  <2>1. ASSUME NEW v \in Worker, wpc'[v] = "exec", NEW x \in InTable',
               Before(ct_lbhash', x, wcp'[v]), c_runtime'[x] = wruntime'[v]
        PROVE  c_executing'[x]
    <3>1. CASE v # w
      <4>1. x \in InTable /\ Before(ct_lbhash, x, wcp[v]) /\ c_runtime[x] = wruntime[v]
            /\ wpc[v] = "exec"
        BY <1>4, <1>7, <2>1, <3>1 DEF TableEffect
      <4>2. c_executing[x]
        BY <4>1 DEF IInv, WalkFits
      <4> QED
        BY <1>6, <2>1, <4>2
    <3>2. CASE v = w
      <4>1. start # {}
        BY <1>7, <2>1, <3>2
      <4>2. next.cp # NoCallout /\ wcp'[w] = next.cp /\ wruntime'[w] = next.runtime
        BY <1>5, <1>7, <4>1
      <4> QED
        BY <1>4, <1>6, <2>1, <3>2, <4>2 DEF NextEffect
    <3> QED
      BY <3>1, <3>2
  <2> QED
    BY <2>1 DEF WalkFits
<1>20. DueHasExecutor'
  <2>1. CASE start # {}
    BY <1>7, <2>1 DEF DueHasExecutor
  <2>2. CASE start = {}
    <3>1. ASSUME NEW x \in Pending' PROVE Diff(c_runtime'[x], ct_curtime) > 0
      <4>1. /\ c_runtime'[x] = c_runtime[x] /\ c_runtime[x] \in Time
            /\ Behind(c_runtime[x]) \in -MaxDelta .. Behind(ct_curtime) - 1
        BY <1>1, <1>4, <1>5, <1>15, <2>2 DEF TypeOK, NextEffect
      <4>2. Diff(lbolt, c_runtime[x]) \in -MaxDelta .. MaxLag + 2
            /\ Diff(lbolt, ct_curtime) \in -MaxDelta .. MaxLag + 2
        BY <4>1, StateFacts DEF Behind
      <4>3. Diff(c_runtime[x], ct_curtime) = Behind(ct_curtime) - Behind(c_runtime[x])
        BY <1>1, <4>1, <4>2, DiffBehind DEF Behind, TypeOK
      <4> QED
        BY <4>1, <4>3, StateFacts
    <3>2. ASSUME NEW x \in Pending' PROVE ~(Diff(c_runtime'[x], ct_curtime) <= 0)
      <4>1. Diff(c_runtime'[x], ct_curtime) \in Int
        <5>1. c_runtime'[x] \in Time /\ ct_curtime \in Time
          BY <1>1, <1>4, <1>15 DEF TypeOK
        <5> QED
          BY <5>1, DiffCases, HalfProperties
      <4> QED
        BY <3>1, <4>1
    <3> QED
      BY <1>1, <3>2 DEF DueHasExecutor
  <2> QED
    BY <2>1, <2>2
<1> QED
  BY <1>9, <1>10, <1>11, <1>12, <1>13, <1>14, <1>16, <1>18, <1>19, <1>20 DEF IInv

\* callout_execute() looks for its first callout.
LEMMA ExecuteBeginStep ==
  ASSUME IInv, NEW w \in Worker, ExecuteBegin(w)
  PROVE  IInv'
<1> DEFINE next == FirstDue(ct_lbhash, ct_runtime, ct_curtime)
<1>1. /\ wpc[w] = "run" /\ ct_runtime' = next.runtime /\ Execute(w, next, {})
      /\ UNCHANGED <<lbolt, clock, cpr_stop_callout, ct_curtime, queued, tid, tcp>>
      /\ ct_freelist' = ct_freelist /\ ct_lbhash' = ct_lbhash /\ c_runtime' = c_runtime
      /\ c_arg' = c_arg /\ tpc' = tpc
  BY DEF ExecuteBegin
<1>2. TypeOK /\ HashFits(ct_lbhash, c_runtime) /\ InTable' = InTable
  BY <1>1, StateFacts DEF IInv, InTable
<1> HIDE DEF next
<1>3. /\ next.runtime \in Time
      /\ Behind(next.runtime) \in Behind(ct_curtime) - 1 .. Behind(ct_runtime)
      /\ \A x : Waiting(ct_lbhash, x) =>
           Behind(c_runtime[x]) \in -MaxDelta .. Behind(next.runtime)
      /\ next.cp = NoCallout => Behind(next.runtime) = Behind(ct_curtime) - 1
      /\ next.cp # NoCallout =>
           /\ next.cp \in Callout /\ Waiting(ct_lbhash, next.cp)
           /\ c_runtime[next.cp] = next.runtime
           /\ Behind(next.runtime) >= Behind(ct_curtime)
           /\ \A x : Before(ct_lbhash, x, next.cp) /\ c_runtime[x] = next.runtime
                => c_executing[x]
  <2>1. \A x : Waiting(ct_lbhash, x) => Behind(c_runtime[x]) \in -MaxDelta .. Behind(ct_runtime)
    BY StateFacts DEF IInv, PendingFits
  <2>2. /\ c_runtime \in [Callout -> Time] /\ lbolt \in Time /\ ct_runtime \in Time
        /\ ct_curtime \in Time /\ Behind(ct_curtime) >= 0
        /\ Behind(ct_runtime) \in Behind(ct_curtime) - 1 .. MaxLag + 1
    BY <1>2 DEF TypeOK, IInv, TimesFit
  <2> QED
    BY <1>2, <2>1, <2>2, FirstDueProperties DEF next
<1>4. ct_runtime' \in Time /\ Behind(ct_runtime') \in Behind(ct_curtime) - 1 .. MaxLag + 1
  BY <1>1, <1>3, StateFacts
<1>5. \A x \in InTable' :
        ~c_executing[x] => Behind(c_runtime[x]) \in -MaxDelta .. Behind(ct_runtime')
  BY <1>1, <1>2, <1>3, InTableIsOn DEF Waiting
<1>6. next.cp # NoCallout =>
        /\ next.cp \in InTable' /\ ~c_executing[next.cp]
        /\ c_runtime[next.cp] = next.runtime
        /\ Behind(next.runtime) \in Behind(ct_curtime) .. MaxLag + 1
        /\ \A x \in InTable' :
             Before(ct_lbhash', x, next.cp) /\ c_runtime[x] = next.runtime => c_executing[x]
  <2>1. Behind(next.runtime) \in Int /\ Behind(next.runtime) <= MaxLag + 1
    BY <1>3, StateFacts
  <2> QED
    BY <1>1, <1>2, <1>3, <2>1, InTableIsOn, StateFacts DEF Waiting
<1>7. /\ HashFits(ct_lbhash', c_runtime') /\ c_runtime' \in [Callout -> Time]
      /\ c_arg' \in [Callout -> Timer \cup {NoCallout}] /\ tpc' \in [Timer -> TPC]
      /\ ct_freelist' = ct_freelist \cup {}
      /\ \A x : x \in InTable' <=> x \in InTable /\ x \notin {}
      /\ \A x \in InTable' : c_runtime'[x] = c_runtime[x] /\ c_arg'[x] = c_arg[x]
      /\ \A x, y : Before(ct_lbhash', x, y) => Before(ct_lbhash, x, y)
      /\ \A t \in Timer : tpc'[t] = tpc[t] \/ (tpc[t] = "wait" /\ tpc'[t] = "woken")
  BY <1>1, <1>2 DEF TypeOK
<1>8. next.cp = NoCallout => Behind(ct_runtime') = Behind(ct_curtime) - 1
  BY <1>1, <1>3
<1> QED
  <2>1. ExecuteEffect(w, next, {})
    BY <1>1, <1>7 DEF ExecuteEffect
  <2>2. TableEffect({})
    BY <1>7 DEF TableEffect
  <2>3. NextEffect(next)
    BY <1>4, <1>5, <1>6, <1>8 DEF NextEffect
  <2> QED
    BY <2>1, <2>2, <2>3, ExecuteKeeps

\* callout_execute() is back from a handler: it frees the callout and goes on from
\* its place on the chain.
LEMMA ExecuteNextStep ==
  ASSUME IInv, NEW w \in Worker, ExecuteNext(w)
  PROVE  IInv'
<1> DEFINE cp == wcp[w]
           r == wruntime[w]
           hash == Without(cp)
           rest == {i \in DueAt(hash, r) : i >= Place(cp)}
           next == FirstDue(hash, NextRuntime(r), ct_curtime)
           c == LBHash(r)
           same == [cp |-> hash[c][FirstOf(rest)], runtime |-> r]
<1>1. /\ wpc[w] = "exec" /\ ct_lbhash' = hash /\ Free(cp) /\ Broadcast(cp)
      /\ UNCHANGED <<lbolt, clock, cpr_stop_callout, ct_curtime, queued, tid, tcp>>
      /\ rest # {} => Execute(w, same, {cp}) /\ ct_runtime' = ct_runtime
      /\ rest = {} => Execute(w, next, {cp}) /\ ct_runtime' = next.runtime
  BY DEF ExecuteNext
<1>2. /\ cp \in InTable /\ c_executing[cp] /\ c_executor[cp] = w /\ c_runtime[cp] = r
      /\ Behind(r) \in Behind(ct_curtime) .. MaxLag + 1
      /\ \A x \in InTable : Before(ct_lbhash, x, cp) /\ c_runtime[x] = r => c_executing[x]
  BY <1>1 DEF IInv, RunningFits, WalkFits
<1>3. TypeOK /\ lbolt \in Time /\ ct_curtime \in Time /\ ct_runtime \in Time /\ r \in Time
      /\ c_runtime \in [Callout -> Time]
  BY DEF IInv, TypeOK
<1>4. /\ ct_freelist' = ct_freelist \cup {cp}
      /\ c_runtime' = [c_runtime EXCEPT ![cp] = 0]
      /\ c_arg' = [c_arg EXCEPT ![cp] = NoCallout]
      /\ tpc' = [t \in Timer |-> IF tpc[t] = "wait" /\ tcp[t] = cp THEN "woken" ELSE tpc[t]]
  BY <1>1 DEF Free, Broadcast
<1> HIDE DEF cp, hash, rest, next, c, same, r
<1>5. /\ cp \in Callout
      /\ HashFits(hash, c_runtime') /\ HashFits(hash, c_runtime)
      /\ c_runtime' \in [Callout -> Time]
      /\ \A x : x \in InTable' <=> x \in InTable /\ x # cp
      /\ \A x \in InTable' : x \in Callout /\ c_runtime'[x] = c_runtime[x]
      /\ \A x : On(hash, x) <=> On(ct_lbhash, x) /\ x # cp
      /\ \A x, y : Before(hash, x, y) => Before(ct_lbhash, x, y)
      /\ FrontKept(ct_lbhash, hash, c, Place(cp))
  BY <1>1, <1>2, <1>4, RemoveFromTable DEF hash, c
<1>6. c \in Bucket /\ Place(cp) \in 1 .. Len(ct_lbhash[c]) /\ ct_lbhash[c][Place(cp)] = cp
      /\ Len(hash[c]) \in Nat /\ hash[c] \in Seq(Callout)
  <2>1. c \in Bucket
    BY <1>3, LBHashType DEF c
  <2>2. HashFits(ct_lbhash, c_runtime) /\ On(ct_lbhash, cp)
    BY <1>2, StateFacts, InTableIsOn
  <2>3. Place(cp) \in 1 .. Len(ct_lbhash[c]) /\ ct_lbhash[c][Place(cp)] = cp
    BY <1>2, <2>2, PlaceProperties DEF c
  <2>4. hash[c] \in Seq(Callout)
    BY <1>5, <2>1 DEF HashFits
  <2> QED
    BY <2>1, <2>3, <2>4
<1>7. /\ c_arg' \in [Callout -> Timer \cup {NoCallout}] /\ tpc' \in [Timer -> TPC]
      /\ \A x \in InTable' : c_arg'[x] = c_arg[x]
      /\ \A t \in Timer : tpc'[t] = tpc[t] \/ (tpc[t] = "wait" /\ tpc'[t] = "woken")
  BY <1>3, <1>4, <1>5 DEF TypeOK, TPC
\* Those before cp that are due at r are executing.
<1>8. ASSUME NEW i \in 1 .. Len(hash[c]), i < Place(cp), c_runtime[hash[c][i]] = r
      PROVE  c_executing[hash[c][i]]
  <2>1. i \in 1 .. Len(ct_lbhash[c]) /\ hash[c][i] = ct_lbhash[c][i]
    BY <1>5, <1>8 DEF FrontKept
  <2>2. Before(ct_lbhash, hash[c][i], cp)
    BY <1>6, <1>8, <2>1 DEF Before
  <2>3. hash[c][i] \in InTable
    BY <1>6, <2>1, InTableIsOn DEF On
  <2> QED
    BY <1>2, <1>8, <2>2, <2>3
<1>9. \A x : Waiting(hash, x) => Behind(c_runtime[x]) \in -MaxDelta .. Behind(ct_runtime)
  BY <1>5, StateFacts DEF Waiting, IInv, PendingFits
<1>10. \A x : x \in InTable' <=> On(hash, x)
  BY <1>1, InTableIsOn
<1>13. TableEffect({cp})
  BY <1>1, <1>5, <1>7 DEF TableEffect
<1>11. CASE rest # {}
  <2> DEFINE j == FirstOf(rest)
  <2>1. rest \in SUBSET Nat
    BY <1>3, <1>5, DueAtProperties DEF rest
  <2>2. j \in rest /\ \A i \in rest : j <= i
    BY <1>11, <2>1, FirstOfProperties
  <2>3. /\ j \in 1 .. Len(hash[c]) /\ j >= Place(cp)
        /\ same.cp = hash[c][j] /\ same.runtime = r
        /\ On(hash, same.cp) /\ c_runtime[same.cp] = r /\ ~c_executing[same.cp]
    <3>1. j \in DueAt(hash, r) /\ j >= Place(cp)
      BY <2>2 DEF rest
    <3>2. same.cp = hash[c][j] /\ same.runtime = r
      BY DEF same
    <3> QED
      BY <1>3, <1>5, <3>1, <3>2, DueAtProperties DEF c
  <2>4. ASSUME NEW x \in InTable', Before(hash, x, same.cp), c_runtime[x] = r
        PROVE  c_executing[x]
    <3>1. PICK b \in Bucket :
            \E k, l \in 1 .. Len(hash[b]) : k < l /\ hash[b][k] = x /\ hash[b][l] = same.cp
      BY <2>4 DEF Before
    <3>2. PICK k \in 1 .. Len(hash[b]), l \in 1 .. Len(hash[b]) :
            k < l /\ hash[b][k] = x /\ hash[b][l] = same.cp
      BY <3>1
    <3>3. b = c
      BY <1>5, <2>4, <3>2 DEF HashFits, c
    <3>4. l = j
      BY <1>5, <1>6, <2>3, <3>2, <3>3 DEF HashFits
    <3>5. CASE k < Place(cp)
      BY <1>8, <2>4, <3>2, <3>3, <3>5
    <3>6. CASE ~(k < Place(cp))
      <4>0. k \in Int /\ j \in Int /\ Place(cp) \in Int
        BY <1>6, <2>3, <3>2
      <4>1. k \notin rest
        BY <2>2, <3>2, <3>4, <4>0
      <4>2. k \notin DueAt(hash, r)
        BY <3>6, <4>0, <4>1 DEF rest
      <4> QED
        BY <2>4, <3>2, <3>3, <4>2 DEF DueAt, c
    <3> QED
      BY <3>5, <3>6
  <2>5. same.cp # NoCallout
    BY <1>5, <1>10, <2>3, CalloutAssumption
  <2>6. /\ same.cp \in InTable' /\ ~c_executing[same.cp] /\ c_runtime[same.cp] = same.runtime
        /\ Behind(same.runtime) \in Behind(ct_curtime) .. MaxLag + 1
        /\ \A x \in InTable' :
             Before(ct_lbhash', x, same.cp) /\ c_runtime[x] = same.runtime => c_executing[x]
    BY <1>1, <1>2, <1>10, <2>3, <2>4
  <2>7. /\ ct_runtime' \in Time /\ Behind(ct_runtime') \in Behind(ct_curtime) - 1 .. MaxLag + 1
        /\ \A x \in InTable' :
             ~c_executing[x] => Behind(c_runtime[x]) \in -MaxDelta .. Behind(ct_runtime')
    BY <1>1, <1>3, <1>9, <1>10, <1>11 DEF Waiting, IInv, TimesFit
  <2>8. Execute(w, same, {cp}) /\ cp = wcp[w] /\ ct_lbhash' = hash
    BY <1>1, <1>11 DEF cp
  <2>9. ExecuteEffect(w, same, {cp})
    BY <1>1, <1>4, <2>8 DEF ExecuteEffect
  <2>10. NextEffect(same)
    BY <2>5, <2>6, <2>7 DEF NextEffect
  <2> QED
    BY <1>13, <2>9, <2>10, ExecuteKeeps
<1>12. CASE rest = {}
  <2> DEFINE nr == NextRuntime(r)
  <2>1. DueAt(hash, r) = {}
    <3> SUFFICES ASSUME NEW i \in DueAt(hash, r) PROVE FALSE
      OBVIOUS
    <3>1. /\ i \in 1 .. Len(hash[c]) /\ c_runtime[hash[c][i]] = r /\ ~c_executing[hash[c][i]]
      BY <1>3, <1>5, DueAtProperties DEF c
    <3>2. i < Place(cp)
      BY <1>6, <1>12, <3>1 DEF rest
    <3> QED
      BY <1>8, <3>1, <3>2
  <2>2. \A x : Waiting(hash, x) => c_runtime[x] # r
    BY <1>3, <1>5, <2>1, DueAtProperties DEF Waiting
  <2>3. /\ nr \in Time /\ Behind(nr) \in Behind(ct_curtime) - 1 .. MaxLag + 1
        /\ \A x : Waiting(hash, x) => Behind(c_runtime[x]) \in -MaxDelta .. Behind(nr)
    <3>1. CASE ct_runtime # r
      <4>1. nr = ct_runtime
        BY <3>1 DEF NextRuntime
      <4> QED
        BY <1>3, <1>9, <4>1 DEF IInv, TimesFit
    <3>2. CASE ct_runtime = r
      <4>1. nr = Plus(r, 1)
        BY <3>2 DEF NextRuntime
      <4>2. Behind(r) \in 0 .. MaxLag + 1
        BY <1>2, StateFacts
      <4>3. 1 \in 0 .. MaxDelta /\ Diff(lbolt, r) - 1 >= -MaxDelta
        BY <4>2, StateFacts DEF Behind
      <4>4. nr \in Time /\ Behind(nr) = Behind(r) - 1
        BY <1>3, <4>1, <4>3, PlusBehind DEF Behind
      <4>5. Behind(nr) \in Behind(ct_curtime) - 1 .. MaxLag + 1
        BY <1>2, <4>4, StateFacts
      <4>6. ASSUME NEW x, Waiting(hash, x) PROVE Behind(c_runtime[x]) \in -MaxDelta .. Behind(nr)
        <5>1. c_runtime[x] \in Time
          BY <1>3, <1>5, <1>10, <4>6 DEF Waiting
        <5>2. Behind(c_runtime[x]) \in -MaxDelta .. Behind(r)
          BY <1>9, <3>2, <4>6
        <5>3. Behind(c_runtime[x]) # Behind(r)
          <6>1. Diff(lbolt, c_runtime[x]) \in -MaxDelta .. MaxLag + 2
                /\ Diff(lbolt, r) \in -MaxDelta .. MaxLag + 2
            BY <4>2, <5>2, StateFacts DEF Behind
          <6>2. Diff(lbolt, c_runtime[x]) = Diff(lbolt, r) => c_runtime[x] = r
            BY <1>3, <5>1, <6>1, DiffBehind
          <6> QED
            BY <2>2, <4>6, <6>2 DEF Behind
        <5> QED
          BY <4>2, <4>4, <5>2, <5>3, StateFacts
      <4> QED
        BY <4>4, <4>5, <4>6
    <3> QED
      BY <3>1, <3>2
  <2>4. next = FirstDue(hash, nr, ct_curtime) /\ Behind(ct_curtime) >= 0
    BY StateFacts DEF next
  <2> HIDE DEF nr
  <2>5. /\ next.runtime \in Time
        /\ Behind(next.runtime) \in Behind(ct_curtime) - 1 .. Behind(nr)
        /\ \A x : Waiting(hash, x) =>
             Behind(c_runtime[x]) \in -MaxDelta .. Behind(next.runtime)
        /\ next.cp = NoCallout => Behind(next.runtime) = Behind(ct_curtime) - 1
        /\ next.cp # NoCallout =>
             /\ next.cp \in Callout /\ Waiting(hash, next.cp)
             /\ c_runtime[next.cp] = next.runtime
             /\ Behind(next.runtime) >= Behind(ct_curtime)
             /\ \A x : Before(hash, x, next.cp) /\ c_runtime[x] = next.runtime
                  => c_executing[x]
    BY <1>3, <1>5, <2>3, <2>4, FirstDueProperties
  <2>6. ct_runtime' \in Time /\ Behind(ct_runtime') \in Behind(ct_curtime) - 1 .. MaxLag + 1
        /\ ct_runtime' = next.runtime
    <3>1. Behind(next.runtime) \in Behind(ct_curtime) - 1 .. MaxLag + 1
      BY <2>3, <2>5, StateFacts
    <3> QED
      BY <1>1, <1>12, <2>5, <3>1
  <2>7. \A x \in InTable' :
          ~c_executing[x] => Behind(c_runtime[x]) \in -MaxDelta .. Behind(ct_runtime')
    BY <1>10, <2>5, <2>6 DEF Waiting
  <2>8. next.cp # NoCallout =>
          /\ next.cp \in InTable' /\ ~c_executing[next.cp]
          /\ c_runtime[next.cp] = next.runtime
          /\ Behind(next.runtime) \in Behind(ct_curtime) .. MaxLag + 1
          /\ \A x \in InTable' :
               Before(ct_lbhash', x, next.cp) /\ c_runtime[x] = next.runtime => c_executing[x]
    <3>1. next.cp # NoCallout => Behind(next.runtime) \in Behind(ct_curtime) .. MaxLag + 1
      BY <2>5, <2>6, StateFacts
    <3> QED
      BY <1>1, <1>10, <2>5, <3>1 DEF Waiting
  <2>9. next.cp = NoCallout => Behind(ct_runtime') = Behind(ct_curtime) - 1
    BY <2>5, <2>6
  <2>10. Execute(w, next, {cp}) /\ cp = wcp[w] /\ ct_lbhash' = hash
    BY <1>1, <1>12 DEF cp
  <2>11. ExecuteEffect(w, next, {cp})
    BY <1>1, <1>4, <2>10 DEF ExecuteEffect
  <2>12. NextEffect(next)
    BY <2>6, <2>7, <2>8, <2>9 DEF NextEffect
  <2> QED
    BY <1>13, <2>11, <2>12, ExecuteKeeps
<1> QED
  BY <1>11, <1>12

-----------------------------------------------------------------------------
(* The theorems.                                                           *)

\* The invariant holds in every step.
LEMMA NextKeeps == IInv /\ [Next]_vars => IInv'
<1> SUFFICES ASSUME IInv, [Next]_vars PROVE IInv'
  OBVIOUS
<1>1. ASSUME NEW t \in Timer, NEW delta \in 0 .. MaxDelta,
             Timeout(t, delta) \/ TimeoutAlloced(t, delta)
      PROVE  IInv'
  BY <1>1, TimeoutStep
<1>2. ASSUME NEW t \in Timer, TimeoutAlloc(t) PROVE IInv'
  BY <1>2, TimeoutAllocStep
<1>3. ASSUME NEW t \in Timer, UntimeoutStep(t) PROVE IInv'
  BY <1>3, UntimeoutPendingStep, UntimeoutExecutingStep, UntimeoutFiredStep DEF UntimeoutStep
<1>4. ASSUME NEW t \in Timer, UntimeoutWoken(t) PROVE IInv'
  BY <1>4, UntimeoutWokenStep
<1>5. ASSUME NEW w \in Worker, WorkerStep(w) PROVE IInv'
  BY <1>5, TaskStep, ExecuteBeginStep, ExecuteNextStep DEF WorkerStep
<1>6. ASSUME NEW w \in Worker, UntimeoutSelf(w) PROVE IInv'
  BY <1>6, TaskStep
<1>7. ASSUME NEW w \in Worker, HandlerSetrun(w) PROVE IInv'
  BY <1>7, HandlerSetrunStep
<1>8. CASE Tick
  BY <1>8, TickStep
<1>9. CASE CalloutSchedule
  BY <1>9, CalloutScheduleStep
<1>10. CASE TaskqDispatch
  BY <1>10, TaskqDispatchStep
<1>11. ASSUME NEW stop \in BOOLEAN, CalloutCpr(stop) PROVE IInv'
  BY <1>11, CalloutCprStep
<1>12. CASE UNCHANGED vars
  <2>1. /\ UNCHANGED <<lbolt, clock, cpr_stop_callout, ct, cfields, queued, workers>>
        /\ UNCHANGED timers
    BY <1>12 DEF vars
  <2>2. tpc' = tpc /\ tid' = tid /\ tcp' = tcp
    BY <2>1 DEF timers
  <2>3. InTable' = InTable /\ c_id' = c_id /\ c_executing' = c_executing /\ c_arg' = c_arg
    BY <2>1 DEF ct, cfields, InTable
  <2>4. (IdsFit /\ UntimeoutIsFinal /\ WaitFits)'
    BY <2>2, <2>3 DEF IInv, IdsFit, UntimeoutIsFinal, WaitFits
  <2> QED
    BY <2>1, <2>2, <2>4, UsersOnly DEF IInv, TypeOK
<1> QED
  BY <1>1, <1>2, <1>3, <1>4, <1>5, <1>6, <1>7, <1>8, <1>9, <1>10, <1>11, <1>12 DEF Next

\* The invariant holds.
LEMMA Invariance == Spec => []IInv
  BY InitHolds, NextKeeps, PTL DEF Spec

\* When untimeout() returns, the handler of that id is not running and will not run
\* any more.
THEOREM UntimeoutIsFinalHolds == Spec => []UntimeoutIsFinal
<1>1. IInv => UntimeoutIsFinal
  BY DEF IInv
<1> QED
  BY <1>1, Invariance, PTL

\* callout_schedule_1() and callout_execute() never move the run time of the table
\* past a callout that nobody executes.
THEOREM NoneIsPassedOverHolds == Spec => []NoneIsPassedOver
<1>1. IInv => NoneIsPassedOver
  <2> SUFFICES ASSUME IInv, NEW cp \in Pending
               PROVE  Diff(c_runtime[cp], ct_runtime) >= 0
    BY DEF NoneIsPassedOver
  <2>1. /\ lbolt \in Time /\ ct_runtime \in Time /\ c_runtime[cp] \in Time
    BY StateFacts DEF IInv, TypeOK, Waiting
  <2>2. Behind(c_runtime[cp]) \in -MaxDelta .. Behind(ct_runtime)
    BY DEF IInv, PendingFits
  <2>3. Diff(lbolt, c_runtime[cp]) \in -MaxDelta .. MaxLag + 2
        /\ Diff(lbolt, ct_runtime) \in -MaxDelta .. MaxLag + 2
    BY <2>2, StateFacts DEF Behind
  <2>4. Diff(c_runtime[cp], ct_runtime) = Behind(ct_runtime) - Behind(c_runtime[cp])
    BY <2>1, <2>3, DiffBehind DEF Behind
  <2> QED
    BY <2>2, <2>4, StateFacts
<1> QED
  BY <1>1, Invariance, PTL

\* A callout that is due has a callout_execute() on its way: the 2 * CALLOUT_THREADS
\* task structures of callout_init() are enough although taskq_dispatch() may fail.
THEOREM DueHasExecutorHolds == Spec => []DueHasExecutor
<1>1. IInv => DueHasExecutor
  BY DEF IInv
<1> QED
  BY <1>1, Invariance, PTL
=============================================================================
