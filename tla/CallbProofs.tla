----------------------------- MODULE CallbProofs -----------------------------
(***************************************************************************)
(* Proofs about module Callb, for any number of daemons and of suspends:   *)
(* the three invariants the run checks.                                    *)
(***************************************************************************)
EXTENDS Callb, SequenceTheorems, TLAPS

-----------------------------------------------------------------------------
(* The inductive invariant.                                                *)

\* No callb is in the list twice.
Distinct(q) == \A i, j \in 1 .. Len(q) : i # j => q[i] # q[j]

\* The daemons in the list are those between callb_add() and callb_delete().
ClassFits ==
  /\ Distinct(class)
  /\ \A d \in Daemon : Registered(d) <=> pc[d] \in {"work", "safe", "stop", "delete"}

\* CALLB_CPR_SAFE is on from the beginning of the safe region to its end, and from
\* CALLB_CPR_EXIT on.
SafeFits ==
  \A d \in Daemon : d \in safe <=> pc[d] \in {"safe", "stop", "delete", "exit"}

\* Additions are prevented for as long as Cpr is at it.
BusyFits == phase # "run" => ct_busy

\* Phases in which callb_execute_class() runs the function of cp.
Calling == {"chkpt", "wait", "chkpt_ret", "resume", "resume_ret"}

\* cp is in the list and cannot leave it.
CallFits == phase \in Calling => Registered(cp) /\ executing = {cp}

\* callb_generic_cpr() waits, and returns, with CALLB_CPR_START on.
StartFits == phase \in {"wait", "chkpt_ret"} => cp \in started

\* Those that come before cp in the list have been told to stop.
EarlierStarted ==
  phase \in {"chkpt", "wait", "chkpt_ret"} =>
    \A i, j \in 1 .. Len(class) : i < j /\ class[j] = cp => class[i] \in started

\* At the end of the list, all have been, and no others can be in it.
AllStarted ==
  phase \in {"account", "check", "suspended"} => \A d \in ToSet(class) : d \in started

\* Who has passed callb_is_stopped(), or was not there, does not get to work.
CheckedStays ==
  phase = "check" => \A d \in Daemon \ unchecked : pc[d] # "work"

IInv ==
  /\ TypeOK /\ ClassFits /\ SafeFits /\ BusyFits /\ CallFits /\ StartFits
  /\ EarlierStarted /\ AllStarted /\ CheckedStays
  /\ NoWorkWhileSuspended /\ SafeIsNoticed

-----------------------------------------------------------------------------
(* The list of callbs.                                                     *)

\* The list is one of daemons.
LEMMA ElementsAreDaemons ==
  ASSUME NEW q \in Seq(Daemon)
  PROVE  /\ \A e \in ToSet(q) : e \in Daemon
         /\ \A i \in 1 .. Len(q) : q[i] \in ToSet(q) /\ q[i] \in Daemon
<1>1. DOMAIN q = 1 .. Len(q) /\ \A i \in 1 .. Len(q) : q[i] \in Daemon
  OBVIOUS
<1> QED
  BY <1>1 DEF ToSet

\* callb_add() puts the daemon in front.
LEMMA AddProperties ==
  ASSUME NEW q \in Seq(Daemon), NEW d \in Daemon, Distinct(q), d \notin ToSet(q)
  PROVE  /\ <<d>> \o q \in Seq(Daemon)
         /\ Distinct(<<d>> \o q)
         /\ \A e \in Daemon : e \in ToSet(<<d>> \o q) <=> e \in ToSet(q) \/ e = d
<1> DEFINE r == <<d>> \o q
<1>1. /\ Len(q) \in Nat /\ DOMAIN q = 1 .. Len(q)
      /\ \A i \in 1 .. Len(q) : q[i] \in Daemon
  OBVIOUS
<1>2. /\ r \in Seq(Daemon) /\ Len(r) = Len(q) + 1 /\ DOMAIN r = 1 .. Len(q) + 1
      /\ \A i \in 1 .. Len(q) + 1 : r[i] = IF i = 1 THEN d ELSE q[i - 1]
  BY <1>1
<1> HIDE DEF r
<1>3. Distinct(r)
  BY <1>1, <1>2, SMTT(30) DEF Distinct, ToSet
<1>4. ASSUME NEW e \in Daemon PROVE e \in ToSet(r) <=> e \in ToSet(q) \/ e = d
  <2>1. d \in ToSet(r)
    BY <1>1, <1>2 DEF ToSet
  <2>2. ASSUME e \in ToSet(q) PROVE e \in ToSet(r)
    <3> PICK i \in 1 .. Len(q) : q[i] = e
      BY <1>1, <2>2 DEF ToSet
    <3>1. i + 1 \in DOMAIN r /\ r[i + 1] = e
      BY <1>1, <1>2
    <3> QED
      BY <3>1 DEF ToSet
  <2>3. ASSUME e \in ToSet(r), e # d PROVE e \in ToSet(q)
    <3> PICK i \in 1 .. Len(q) + 1 : r[i] = e
      BY <1>2, <2>3 DEF ToSet
    <3>1. i - 1 \in DOMAIN q /\ q[i - 1] = e
      BY <1>1, <1>2, <2>3
    <3> QED
      BY <3>1 DEF ToSet
  <2> QED
    BY <2>1, <2>2, <2>3
<1> QED
  BY <1>2, <1>3, <1>4 DEF r

\* callb_delete() takes one callb out and leaves the others in their order.
LEMMA RemoveProperties ==
  ASSUME NEW q \in Seq(Daemon), NEW k \in 1 .. Len(q), Distinct(q)
  PROVE  /\ RemoveAt(q, k) \in Seq(Daemon)
         /\ Len(RemoveAt(q, k)) = Len(q) - 1
         /\ \A i \in 1 .. Len(q) - 1 : RemoveAt(q, k)[i] = IF i < k THEN q[i] ELSE q[i + 1]
         /\ Distinct(RemoveAt(q, k))
         /\ \A e \in Daemon : e \in ToSet(RemoveAt(q, k)) <=> e \in ToSet(q) /\ e # q[k]
<1> DEFINE r == RemoveAt(q, k)
           a == SubSeq(q, 1, k - 1)
           b == SubSeq(q, k + 1, Len(q))
<1>1. /\ Len(q) \in Nat /\ DOMAIN q = 1 .. Len(q)
      /\ \A i \in 1 .. Len(q) : q[i] \in Daemon
  OBVIOUS
<1>2. /\ a \in Seq(Daemon) /\ Len(a) = k - 1
      /\ \A i \in 1 .. k - 1 : a[i] = q[i]
  OBVIOUS
<1>3. /\ b \in Seq(Daemon) /\ Len(b) = Len(q) - k
      /\ \A i \in 1 .. Len(q) - k : b[i] = q[k + i]
  OBVIOUS
<1>4. /\ r \in Seq(Daemon) /\ Len(r) = Len(q) - 1 /\ DOMAIN r = 1 .. Len(q) - 1
      /\ \A i \in 1 .. Len(q) - 1 : r[i] = IF i < k THEN q[i] ELSE q[i + 1]
  <2>1. r = a \o b
    BY DEF RemoveAt
  <2> HIDE DEF a, b, r
  <2>2. r \in Seq(Daemon) /\ Len(r) = Len(q) - 1
    <3>1. a \o b \in Seq(Daemon) /\ Len(a \o b) = Len(a) + Len(b)
      BY <1>2, <1>3, ConcatProperties, Zenon
    <3> QED
      BY <1>1, <1>2, <1>3, <2>1, <3>1
  <2>3. ASSUME NEW i \in 1 .. Len(q) - 1
        PROVE  r[i] = IF i < k THEN q[i] ELSE q[i + 1]
    <3>1. r[i] = IF i <= Len(a) THEN a[i] ELSE b[i - Len(a)]
      BY <1>1, <1>2, <1>3, <2>1
    <3>2. CASE i < k
      BY <1>1, <1>2, <3>1, <3>2
    <3>3. CASE i >= k
      <4>1. i - Len(a) \in 1 .. Len(q) - k /\ k + (i - Len(a)) = i + 1
        BY <1>1, <1>2, <3>3
      <4> QED
        BY <1>1, <1>2, <1>3, <3>1, <3>3, <4>1
    <3> QED
      BY <1>1, <3>2, <3>3
  <2> QED
    BY <1>1, <2>2, <2>3
<1> HIDE DEF r
<1>5. Distinct(r)
  BY <1>1, <1>4 DEF Distinct
<1>6. ASSUME NEW e \in Daemon PROVE e \in ToSet(r) <=> e \in ToSet(q) /\ e # q[k]
  <2>1. ASSUME e \in ToSet(r) PROVE e \in ToSet(q) /\ e # q[k]
    <3> PICK i \in 1 .. Len(q) - 1 : r[i] = e
      BY <1>4, <2>1 DEF ToSet
    <3>1. PICK j \in 1 .. Len(q) : j # k /\ q[j] = e
      BY <1>1, <1>4
    <3> QED
      BY <1>1, <3>1 DEF ToSet, Distinct
  <2>2. ASSUME e \in ToSet(q), e # q[k] PROVE e \in ToSet(r)
    <3> PICK i \in 1 .. Len(q) : q[i] = e
      BY <1>1, <2>2 DEF ToSet
    <3>1. PICK j \in DOMAIN r : r[j] = e
      <4>1. CASE i < k
        BY <1>1, <1>4, <4>1
      <4>2. CASE i > k
        <5>1. i - 1 \in DOMAIN r /\ r[i - 1] = q[(i - 1) + 1]
          BY <1>1, <1>4, <4>2
        <5> QED
          BY <1>1, <5>1
      <4> QED
        BY <1>1, <2>2, <4>1, <4>2
    <3> QED
      BY <3>1 DEF ToSet
  <2> QED
    BY <2>1, <2>2
<1> QED
  BY <1>4, <1>5, <1>6 DEF r

\* A registered callb is at its place.
LEMMA PlaceProperties ==
  ASSUME TypeOK, NEW d, Registered(d)
  PROVE  Place(d) \in 1 .. Len(class) /\ class[Place(d)] = d /\ d \in Daemon
<1>1. DOMAIN class = 1 .. Len(class) /\ \A i \in 1 .. Len(class) : class[i] \in Daemon
  BY DEF TypeOK
<1>2. \E i \in DOMAIN class : class[i] = d
  BY DEF Registered, ToSet
<1> QED
  BY <1>1, <1>2 DEF Place

\* The first callb of the list, if there is one.
LEMMA FirstCallbProperties ==
  ASSUME TypeOK
  PROVE  \/ FirstCallb = NoThread /\ class = <<>>
         \/ /\ Registered(FirstCallb) /\ FirstCallb \in Daemon /\ FirstCallb # NoThread
            /\ 1 \in 1 .. Len(class) /\ FirstCallb = class[1]
<1>1. CASE class = <<>>
  BY <1>1 DEF FirstCallb
<1>2. CASE class # <<>>
  <2>1. /\ 1 \in DOMAIN class /\ DOMAIN class = 1 .. Len(class)
        /\ Head(class) = class[1] /\ class[1] \in Daemon
    BY <1>2 DEF TypeOK
  <2> QED
    BY <1>2, <2>1, CallbAssumption DEF FirstCallb, Registered, ToSet
<1> QED
  BY <1>1, <1>2

\* The callb after cp, if there is one.
LEMMA NextCallbProperties ==
  ASSUME TypeOK, Registered(cp)
  PROVE  \/ NextCallb = NoThread /\ Place(cp) = Len(class)
         \/ /\ Registered(NextCallb) /\ NextCallb \in Daemon /\ NextCallb # NoThread
            /\ Place(cp) + 1 \in 1 .. Len(class) /\ NextCallb = class[Place(cp) + 1]
<1>1. /\ Len(class) \in Nat /\ DOMAIN class = 1 .. Len(class)
      /\ \A i \in 1 .. Len(class) : class[i] \in Daemon
  BY DEF TypeOK
<1>2. Place(cp) \in 1 .. Len(class)
  BY PlaceProperties
<1>3. CASE Place(cp) = Len(class)
  BY <1>3 DEF NextCallb
<1>4. CASE Place(cp) # Len(class)
  <2>1. Place(cp) + 1 \in 1 .. Len(class)
    BY <1>1, <1>2, <1>4
  <2> QED
    BY <1>1, <1>4, <2>1, CallbAssumption DEF NextCallb, Registered, ToSet
<1> QED
  BY <1>3, <1>4

-----------------------------------------------------------------------------
(* Every step preserves the invariant.                                     *)

\* A thread is created; it is not at work before it has registered.
LEMMA SpawnStep ==
  ASSUME IInv, NEW d \in Daemon, Spawn(d)
  PROVE  IInv'
  BY DEF IInv, TypeOK, ClassFits, SafeFits, BusyFits, CallFits, StartFits,
    EarlierStarted, AllStarted, CheckedStays, NoWorkWhileSuspended,
    SafeIsNoticed, Spawn, Goto, cpr, events, table, Label, Registered,
    Checking, Awake

\* callb_add() waits while the table is closed.
LEMMA AddStep ==
  ASSUME IInv, NEW d \in Daemon, Add(d)
  PROVE  IInv'
<1>1. d \notin ToSet(class) /\ (~ct_busy => phase = "run")
  BY DEF IInv, TypeOK, ClassFits, BusyFits, Registered, Add
<1>2. ct_busy => UNCHANGED class
  BY DEF Add
<1>3. ASSUME ~ct_busy
      PROVE  /\ class' \in Seq(Daemon) /\ Distinct(class')
             /\ \A e \in Daemon : e \in ToSet(class') <=> e \in ToSet(class) \/ e = d
  <2>1. class' = <<d>> \o class /\ class \in Seq(Daemon) /\ Distinct(class)
    BY <1>3 DEF IInv, TypeOK, ClassFits, Add
  <2> QED
    BY <1>1, <2>1, AddProperties, Zenon
<1>4. TypeOK'
  BY <1>3 DEF IInv, TypeOK, Add, Goto, cpr, events, Label
<1>5. ClassFits'
  BY <1>3 DEF IInv, TypeOK, ClassFits, Add, Goto, Registered
<1>6. (SafeFits /\ BusyFits /\ StartFits /\ NoWorkWhileSuspended
       /\ SafeIsNoticed)'
  BY CallbAssumption DEF IInv, TypeOK, SafeFits, BusyFits, StartFits,
    NoWorkWhileSuspended, SafeIsNoticed, Add, Goto, events, cpr, Awake
<1>7. CallFits'
  BY <1>1 DEF IInv, CallFits, Add, cpr, Calling, Registered
<1>8. EarlierStarted'
  BY <1>1 DEF IInv, EarlierStarted, Add, cpr, events
<1>9. AllStarted'
  BY <1>1 DEF IInv, AllStarted, Add, cpr, events
<1>10. CheckedStays'
  BY <1>1 DEF IInv, CheckedStays, Add, cpr
<1> QED
  BY <1>4, <1>5, <1>6, <1>7, <1>8, <1>9, <1>10 DEF IInv

\* CALLB_CPR_SAFE_BEGIN signals Cpr if Cpr may be waiting for it.
LEMMA SafeBeginStep ==
  ASSUME IInv, NEW d \in Daemon, SafeBegin(d)
  PROVE  IInv'
<1>1. (TypeOK /\ ClassFits /\ SafeFits /\ BusyFits /\ CallFits /\ StartFits
       /\ EarlierStarted /\ AllStarted /\ CheckedStays
       /\ NoWorkWhileSuspended)'
  BY DEF IInv, TypeOK, ClassFits, SafeFits, BusyFits, CallFits, StartFits,
    EarlierStarted, AllStarted, CheckedStays, NoWorkWhileSuspended,
    SafeBegin, Goto, TellCpr, cpr, table, Label, Registered
<1>2. SafeIsNoticed'
  BY DEF IInv, StartFits, SafeIsNoticed, SafeBegin, TellCpr, cpr, Awake
<1> QED
  BY <1>1, <1>2 DEF IInv

\* A daemon leaves its safe region.
LEMMA WorkArrivesStep ==
  ASSUME IInv, NEW d \in Daemon, WorkArrives(d)
  PROVE  IInv'
  BY DEF IInv, TypeOK, ClassFits, SafeFits, BusyFits, CallFits, StartFits,
    EarlierStarted, AllStarted, CheckedStays, NoWorkWhileSuspended,
    SafeIsNoticed, WorkArrives, Goto, cpr, events, table, Label,
    Registered, Awake

\* CALLB_CPR_SAFE_END waits while a checkpoint is on.
LEMMA SafeEndStep ==
  ASSUME IInv, NEW d \in Daemon, SafeEnd(d)
  PROVE  IInv'
<1>1. (TypeOK /\ ClassFits /\ SafeFits /\ BusyFits /\ CallFits /\ StartFits
       /\ EarlierStarted /\ AllStarted /\ SafeIsNoticed)'
  BY CallbAssumption DEF IInv, TypeOK, ClassFits, SafeFits, BusyFits,
    CallFits, StartFits, EarlierStarted, AllStarted, SafeIsNoticed,
    SafeEnd, Goto, cpr, table, Label, Registered, Awake
<1>2. CheckedStays'
  BY DEF IInv, ClassFits, AllStarted, CheckedStays, SafeEnd, MustStop, cpr,
    Registered
<1>3. NoWorkWhileSuspended'
  BY DEF IInv, ClassFits, AllStarted, NoWorkWhileSuspended, SafeEnd,
    MustStop, cpr, Registered
<1> QED
  BY <1>1, <1>2, <1>3 DEF IInv

\* CALLB_CPR_EXIT signals Cpr if Cpr may be waiting for it.
LEMMA ExitStep ==
  ASSUME IInv, NEW d \in Daemon, Exit(d)
  PROVE  IInv'
<1>1. (TypeOK /\ ClassFits /\ SafeFits /\ BusyFits /\ CallFits /\ StartFits
       /\ EarlierStarted /\ AllStarted /\ CheckedStays
       /\ NoWorkWhileSuspended)'
  BY DEF IInv, TypeOK, ClassFits, SafeFits, BusyFits, CallFits, StartFits,
    EarlierStarted, AllStarted, CheckedStays, NoWorkWhileSuspended, Exit,
    Goto, TellCpr, cpr, table, Label, Registered
<1>2. SafeIsNoticed'
  BY DEF IInv, StartFits, SafeIsNoticed, Exit, TellCpr, cpr, Awake
<1> QED
  BY <1>1, <1>2 DEF IInv

\* callb_delete() waits while the callb is executing.
LEMMA DeleteStep ==
  ASSUME IInv, NEW d \in Daemon, Delete(d)
  PROVE  IInv'
<1>1. Registered(d) /\ Place(d) \in 1 .. Len(class) /\ class[Place(d)] = d
  BY PlaceProperties DEF IInv, ClassFits, Delete
<1>2. d \in executing => UNCHANGED class
  BY DEF Delete, InUse
<1>3. ASSUME d \notin executing
      PROVE  /\ class' \in Seq(Daemon) /\ Distinct(class') /\ Len(class') = Len(class) - 1
             /\ \A i \in 1 .. Len(class) - 1 :
                  class'[i] = IF i < Place(d) THEN class[i] ELSE class[i + 1]
             /\ \A e \in Daemon : e \in ToSet(class') <=> e \in ToSet(class) /\ e # d
  <2>1. class' = RemoveAt(class, Place(d)) /\ class \in Seq(Daemon) /\ Distinct(class)
    BY <1>3 DEF IInv, TypeOK, ClassFits, Delete, InUse
  <2> DEFINE k == Place(d)
             r == RemoveAt(class, k)
  <2>2. /\ r \in Seq(Daemon) /\ Len(r) = Len(class) - 1 /\ Distinct(r)
        /\ \A i \in 1 .. Len(class) - 1 : r[i] = IF i < k THEN class[i] ELSE class[i + 1]
        /\ \A e \in Daemon : e \in ToSet(r) <=> e \in ToSet(class) /\ e # class[k]
    BY <1>1, <2>1, RemoveProperties, Zenon
  <2>3. class' = r /\ class[k] = d
    BY <1>1, <2>1
  <2> HIDE DEF r
  <2> QED
    BY <2>2, <2>3, Zenon
<1>4. TypeOK'
  BY <1>3 DEF IInv, TypeOK, Delete, Goto, InUse, cpr, events, Label
<1>5. ClassFits'
  BY <1>3 DEF IInv, TypeOK, ClassFits, Delete, Goto, InUse, Registered
<1>6. (SafeFits /\ BusyFits /\ StartFits /\ CheckedStays
       /\ NoWorkWhileSuspended /\ SafeIsNoticed)'
  BY CallbAssumption DEF IInv, TypeOK, SafeFits, BusyFits, StartFits,
    CheckedStays, NoWorkWhileSuspended, SafeIsNoticed, Delete, Goto,
    events, cpr, Awake
<1>7. CallFits'
  BY <1>3 DEF IInv, TypeOK, CallFits, Delete, InUse, cpr, Registered
<1>8. EarlierStarted'
  <2> SUFFICES ASSUME phase' \in {"chkpt", "wait", "chkpt_ret"},
                      NEW i \in 1 .. Len(class'), NEW j \in 1 .. Len(class'),
                      i < j, class'[j] = cp'
               PROVE  class'[i] \in started'
    BY DEF EarlierStarted
  <2>1. /\ phase' = phase /\ cp' = cp /\ started' = started
        /\ Len(class) \in Nat /\ class \in Seq(Daemon)
    BY DEF Delete, events, cpr, IInv, TypeOK
  <2>2. PICK m \in 1 .. Len(class), n \in 1 .. Len(class) :
          m < n /\ class[m] = class'[i] /\ class[n] = class'[j]
    <3>1. CASE d \in executing
      BY <1>2, <3>1
    <3>2. CASE d \notin executing
      <4> DEFINE Old(n) == IF n < Place(d) THEN n ELSE n + 1
      <4>1. \A n \in 1 .. Len(class') :
              Old(n) \in 1 .. Len(class) /\ class'[n] = class[Old(n)]
        BY <1>1, <1>3, <2>1, <3>2
      <4>2. Old(i) < Old(j)
        BY <1>1, <2>1
      <4> HIDE DEF Old
      <4> QED
        BY <4>1, <4>2
    <3> QED
      BY <3>1, <3>2
  <2> QED
    BY <2>1, <2>2 DEF IInv, EarlierStarted
<1>9. AllStarted'
  <2>1. \A e \in ToSet(class') : e \in ToSet(class)
    BY <1>2, <1>3, ElementsAreDaemons DEF IInv, TypeOK
  <2> QED
    BY <2>1 DEF IInv, AllStarted, Delete, events, cpr
<1> QED
  BY <1>4, <1>5, <1>6, <1>7, <1>8, <1>9 DEF IInv

\* A daemon that is not in the table any more goes away.
LEMMA ThreadExitStep ==
  ASSUME IInv, NEW d \in Daemon, ThreadExit(d)
  PROVE  IInv'
<1>1. (TypeOK /\ ClassFits /\ SafeFits /\ BusyFits /\ CallFits
       /\ CheckedStays /\ NoWorkWhileSuspended /\ SafeIsNoticed)'
  BY DEF IInv, TypeOK, ClassFits, SafeFits, BusyFits, CallFits,
    CheckedStays, NoWorkWhileSuspended, SafeIsNoticed, ThreadExit, Goto,
    cpr, table, Label, Registered, Awake
<1>2. StartFits'
  BY DEF IInv, ClassFits, CallFits, StartFits, ThreadExit, cpr, Calling
<1>3. EarlierStarted'
  <2>1. \A i \in 1 .. Len(class) : class[i] # d
    BY ElementsAreDaemons DEF IInv, TypeOK, ClassFits, Registered, ThreadExit
  <2> QED
    BY <2>1 DEF IInv, EarlierStarted, ThreadExit, table, cpr
<1>4. AllStarted'
  BY DEF IInv, ClassFits, AllStarted, ThreadExit, cpr, table, Registered
<1> QED
  BY <1>1, <1>2, <1>3, <1>4 DEF IInv

\* The table is closed.
LEMMA LockTableStep ==
  ASSUME IInv, LockTable
  PROVE  IInv'
  BY CallbAssumption DEF IInv, TypeOK, ClassFits, SafeFits, BusyFits,
    CallFits, StartFits, EarlierStarted, AllStarted, CheckedStays,
    NoWorkWhileSuspended, SafeIsNoticed, LockTable, events, Phase, Calling,
    Registered

\* callb_execute_class() goes to the first callb.
LEMMA BeginChkptStep ==
  ASSUME IInv, BeginChkpt
  PROVE  IInv'
<1>1. (TypeOK /\ ClassFits /\ SafeFits /\ BusyFits /\ CallFits /\ StartFits
       /\ CheckedStays /\ NoWorkWhileSuspended /\ SafeIsNoticed)'
  BY FirstCallbProperties DEF IInv, TypeOK, ClassFits, SafeFits, BusyFits,
    CallFits, StartFits, CheckedStays, NoWorkWhileSuspended, SafeIsNoticed,
    BeginChkpt, GoTo, events, Phase, Calling, Registered
<1>2. EarlierStarted'
  <2> SUFFICES ASSUME phase' = "chkpt",
                      NEW i \in 1 .. Len(class), NEW j \in 1 .. Len(class), i < j, class[j] = cp'
               PROVE  FALSE
    BY DEF EarlierStarted, BeginChkpt, GoTo, events
  <2>1. 1 \in 1 .. Len(class) /\ cp' = class[1]
    BY FirstCallbProperties DEF IInv, BeginChkpt, GoTo
  <2> QED
    BY <2>1 DEF IInv, TypeOK, ClassFits, Distinct
<1>3. AllStarted'
  <2>1. phase' = "account" => ToSet(class) = {}
    BY FirstCallbProperties DEF IInv, BeginChkpt, GoTo, ToSet
  <2> QED
    BY <2>1 DEF AllStarted, BeginChkpt, GoTo, events
<1> QED
  BY <1>1, <1>2, <1>3 DEF IInv

\* callb_generic_cpr() tells the daemon to stop.
LEMMA CallChkptStep ==
  ASSUME IInv, CallChkpt
  PROVE  IInv'
<1>1. TypeOK'
  BY DEF IInv, TypeOK, CallFits, CallChkpt, table, Phase, Calling
<1>2. (ClassFits /\ SafeFits /\ BusyFits /\ CallFits /\ StartFits
       /\ EarlierStarted /\ AllStarted /\ CheckedStays
       /\ NoWorkWhileSuspended /\ SafeIsNoticed)'
  BY DEF IInv, ClassFits, SafeFits, BusyFits, CallFits, StartFits,
    EarlierStarted, AllStarted, CheckedStays, NoWorkWhileSuspended,
    SafeIsNoticed, CallChkpt, table, Calling, Registered
<1> QED
  BY <1>1, <1>2 DEF IInv

\* callb_generic_cpr() looks again.
LEMMA ChkptWokenStep ==
  ASSUME IInv, ChkptWoken
  PROVE  IInv'
  BY DEF IInv, TypeOK, ClassFits, SafeFits, BusyFits, CallFits, StartFits,
    EarlierStarted, AllStarted, CheckedStays, NoWorkWhileSuspended,
    SafeIsNoticed, ChkptWoken, events, table, Phase, Calling, Registered

\* callb_generic_cpr() gives up.
LEMMA ChkptTimeoutStep ==
  ASSUME IInv, ChkptTimeout
  PROVE  IInv'
  BY DEF IInv, TypeOK, ClassFits, SafeFits, BusyFits, CallFits, StartFits,
    EarlierStarted, AllStarted, CheckedStays, NoWorkWhileSuspended,
    SafeIsNoticed, ChkptTimeout, events, table, Phase, Calling, Registered

\* callb_execute_class() goes to the next callb or gives up.
LEMMA ChkptReturnStep ==
  ASSUME IInv, ChkptReturn
  PROVE  IInv'
<1>1. Registered(cp) /\ Place(cp) \in 1 .. Len(class) /\ class[Place(cp)] = cp
  BY PlaceProperties DEF IInv, CallFits, Calling, ChkptReturn
<1>2. \/ NextCallb = NoThread /\ Place(cp) = Len(class)
      \/ /\ Registered(NextCallb) /\ NextCallb \in Daemon /\ NextCallb # NoThread
         /\ Place(cp) + 1 \in 1 .. Len(class) /\ NextCallb = class[Place(cp) + 1]
  BY <1>1, NextCallbProperties DEF IInv
<1>3. \A i \in 1 .. Len(class) : i <= Place(cp) => class[i] \in started
  BY <1>1 DEF IInv, TypeOK, EarlierStarted, StartFits, ChkptReturn
<1>4. TypeOK'
  BY <1>2 DEF IInv, TypeOK, ChkptReturn, GoTo, events, Phase
<1>5. (ClassFits /\ SafeFits /\ BusyFits /\ StartFits /\ CheckedStays
       /\ NoWorkWhileSuspended /\ SafeIsNoticed)'
  BY DEF IInv, ClassFits, SafeFits, BusyFits, StartFits, CheckedStays,
    NoWorkWhileSuspended, SafeIsNoticed, ChkptReturn, GoTo, events,
    Registered
<1>6. CallFits'
  BY <1>2 DEF IInv, CallFits, ChkptReturn, GoTo, Calling, Registered
<1>7. EarlierStarted'
  <2> SUFFICES ASSUME phase' = "chkpt",
                      NEW i \in 1 .. Len(class), NEW j \in 1 .. Len(class), i < j, class[j] = cp'
               PROVE  class[i] \in started
    BY DEF EarlierStarted, ChkptReturn, GoTo, events
  <2>1. cp' = NextCallb /\ NextCallb # NoThread
    BY DEF ChkptReturn, GoTo
  <2>2. j = Place(cp) + 1
    BY <1>1, <1>2, <2>1 DEF IInv, ClassFits, Distinct
  <2> QED
    BY <1>1, <1>3, <2>2
<1>8. AllStarted'
  <2> SUFFICES ASSUME phase' = "account", NEW e \in ToSet(class) PROVE e \in started
    BY DEF AllStarted, ChkptReturn, GoTo, events
  <2>1. Place(cp) = Len(class)
    BY <1>2, CallbAssumption DEF ChkptReturn, GoTo
  <2>2. PICK i \in 1 .. Len(class) : class[i] = e
    BY DEF IInv, TypeOK, ToSet
  <2> QED
    BY <1>1, <1>3, <2>1, <2>2
<1> QED
  BY <1>4, <1>5, <1>6, <1>7, <1>8 DEF IInv

\* All threads that exist are to be checked.
LEMMA BeginCheckStep ==
  ASSUME IInv, BeginCheck
  PROVE  IInv'
  BY DEF IInv, TypeOK, ClassFits, SafeFits, BusyFits, CallFits, StartFits,
    EarlierStarted, AllStarted, CheckedStays, NoWorkWhileSuspended,
    SafeIsNoticed, BeginCheck, events, table, Phase, Calling, Registered

\* A daemon in the table and marked safe is not at work.
LEMMA CheckPassesStep ==
  ASSUME IInv, NEW d \in Daemon, CheckPasses(d)
  PROVE  IInv'
<1>1. (TypeOK /\ ClassFits /\ SafeFits /\ BusyFits /\ CallFits /\ StartFits
       /\ EarlierStarted /\ AllStarted /\ NoWorkWhileSuspended
       /\ SafeIsNoticed)'
  BY DEF IInv, TypeOK, ClassFits, SafeFits, BusyFits, CallFits, StartFits,
    EarlierStarted, AllStarted, NoWorkWhileSuspended, SafeIsNoticed,
    CheckPasses, events, table, Registered, Awake
<1>2. CheckedStays'
  BY DEF IInv, SafeFits, CheckedStays, CheckPasses, MarkedStopped
<1> QED
  BY <1>1, <1>2 DEF IInv

\* The suspend is undone.
LEMMA CheckFailsStep ==
  ASSUME IInv, NEW d \in Daemon, CheckFails(d)
  PROVE  IInv'
  BY DEF IInv, TypeOK, ClassFits, SafeFits, BusyFits, CallFits, StartFits,
    EarlierStarted, AllStarted, CheckedStays, NoWorkWhileSuspended,
    SafeIsNoticed, CheckFails, events, table, Phase, Checking, Calling,
    Registered

\* All have passed.
LEMMA SuspendedStep ==
  ASSUME IInv, Suspended
  PROVE  IInv'
<1>1. (TypeOK /\ ClassFits /\ SafeFits /\ BusyFits /\ CallFits /\ StartFits
       /\ EarlierStarted /\ AllStarted /\ CheckedStays /\ SafeIsNoticed)'
  BY DEF IInv, TypeOK, ClassFits, SafeFits, BusyFits, CallFits, StartFits,
    EarlierStarted, AllStarted, CheckedStays, SafeIsNoticed, Suspended,
    events, table, Phase, Checking, Calling, Registered
<1>2. NoWorkWhileSuspended'
  BY DEF IInv, CheckedStays, NoWorkWhileSuspended, Suspended, Checking
<1> QED
  BY <1>1, <1>2 DEF IInv

\* The system is back.
LEMMA ResumeStep ==
  ASSUME IInv, Resume
  PROVE  IInv'
  BY DEF IInv, TypeOK, ClassFits, SafeFits, BusyFits, CallFits, StartFits,
    EarlierStarted, AllStarted, CheckedStays, NoWorkWhileSuspended,
    SafeIsNoticed, Resume, events, table, Phase, Calling, Registered

\* callb_execute_class() goes to the first callb.
LEMMA BeginResumeStep ==
  ASSUME IInv, BeginResume
  PROVE  IInv'
  BY FirstCallbProperties DEF IInv, TypeOK, ClassFits, SafeFits, BusyFits,
    CallFits, StartFits, EarlierStarted, AllStarted, CheckedStays,
    NoWorkWhileSuspended, SafeIsNoticed, BeginResume, GoTo, events, Phase,
    Calling, Registered

\* callb_generic_cpr() lets the daemon go on.
LEMMA CallResumeStep ==
  ASSUME IInv, CallResume
  PROVE  IInv'
  BY DEF IInv, TypeOK, ClassFits, SafeFits, BusyFits, CallFits, StartFits,
    EarlierStarted, AllStarted, CheckedStays, NoWorkWhileSuspended,
    SafeIsNoticed, CallResume, table, Phase, Calling, Registered

\* callb_execute_class() goes to the next callb.
LEMMA ResumeReturnStep ==
  ASSUME IInv, ResumeReturn
  PROVE  IInv'
<1>1. Registered(cp) /\ Place(cp) \in 1 .. Len(class) /\ class[Place(cp)] = cp
  BY PlaceProperties DEF IInv, CallFits, Calling, ResumeReturn
<1>2. \/ NextCallb = NoThread /\ Place(cp) = Len(class)
      \/ /\ Registered(NextCallb) /\ NextCallb \in Daemon /\ NextCallb # NoThread
         /\ Place(cp) + 1 \in 1 .. Len(class) /\ NextCallb = class[Place(cp) + 1]
  BY <1>1, NextCallbProperties DEF IInv
<1>3. TypeOK'
  BY <1>2 DEF IInv, TypeOK, ResumeReturn, GoTo, events, Phase
<1>4. (ClassFits /\ SafeFits /\ BusyFits /\ StartFits /\ EarlierStarted
       /\ AllStarted /\ CheckedStays /\ NoWorkWhileSuspended
       /\ SafeIsNoticed)'
  BY DEF IInv, ClassFits, SafeFits, BusyFits, StartFits, EarlierStarted,
    AllStarted, CheckedStays, NoWorkWhileSuspended, SafeIsNoticed,
    ResumeReturn, GoTo, events, Registered
<1>5. CallFits'
  BY <1>2 DEF IInv, CallFits, ResumeReturn, GoTo, Calling, Registered
<1> QED
  BY <1>3, <1>4, <1>5 DEF IInv

\* The table is opened.
LEMMA UnlockTableStep ==
  ASSUME IInv, UnlockTable
  PROVE  IInv'
  BY DEF IInv, TypeOK, ClassFits, SafeFits, BusyFits, CallFits, StartFits,
    EarlierStarted, AllStarted, CheckedStays, NoWorkWhileSuspended,
    SafeIsNoticed, UnlockTable, events, Phase, Calling, Registered

-----------------------------------------------------------------------------
(* The theorems.                                                           *)

\* Every state that daemons and Cpr can reach satisfies the inductive invariant.
THEOREM Inductive == Spec => []IInv
<1>1. Init => IInv
  <2> SUFFICES ASSUME Init PROVE IInv
    OBVIOUS
  <2>1. TypeOK
    <3>1. 0 \in 0 .. MaxSuspends /\ <<>> \in Seq(Daemon)
      BY CallbAssumption
    <3> QED
      BY <3>1, Zenon DEF Init, TypeOK, Label, Phase
  <2>2. ClassFits
    BY DEF Init, ClassFits, Distinct, Registered, ToSet
  <2> QED
    BY <2>1, <2>2, CallbAssumption
    DEF Init, IInv, SafeFits, BusyFits, CallFits, Calling, StartFits, EarlierStarted,
        AllStarted, CheckedStays, NoWorkWhileSuspended, SafeIsNoticed
<1>2. IInv /\ [Next]_vars => IInv'
  <2> SUFFICES ASSUME IInv, [Next]_vars PROVE IInv'
    OBVIOUS
  <2>1. CASE UNCHANGED vars
    BY <2>1
    DEF vars, table, events, cpr, IInv, TypeOK, ClassFits, SafeFits, BusyFits, CallFits,
        StartFits, EarlierStarted, AllStarted, CheckedStays, NoWorkWhileSuspended,
        SafeIsNoticed, Registered, Awake
  <2>2. ASSUME NEW d \in Daemon, DaemonStep(d) PROVE IInv'
    BY <2>2, SpawnStep, SafeBeginStep, WorkArrivesStep, ExitStep, AddStep, SafeEndStep,
       DeleteStep, ThreadExitStep
    DEF DaemonStep, Forced
  <2>3. CASE Chkpt
    BY <2>3, BeginChkptStep, CallChkptStep, ChkptWokenStep, ChkptTimeoutStep,
       ChkptReturnStep
    DEF Chkpt
  <2>4. CASE Account
    BY <2>4, BeginCheckStep, CheckPassesStep, CheckFailsStep, SuspendedStep DEF Account
  <2> QED
    BY <2>1, <2>2, <2>3, <2>4, LockTableStep, ResumeStep, BeginResumeStep, CallResumeStep,
       ResumeReturnStep, UnlockTableStep
    DEF Next, CprStep
<1> QED
  BY <1>1, <1>2, PTL DEF Spec

\* cpr_stop_kernel_threads() returns 0 only if no daemon is at work, and none starts
\* to work until the callbs are called again, not even one that is created meanwhile.
THEOREM SuspendHolds == Spec => []NoWorkWhileSuspended
<1>1. IInv => NoWorkWhileSuspended
  BY DEF IInv
<1> QED
  BY <1>1, Inductive, PTL

\* callb_execute_class() never runs the function of a callb that has been deleted,
\* although it drops ct_lock meanwhile.
THEOREM CalledHolds == Spec => []CalledIsRegistered
<1>1. IInv => CalledIsRegistered
  <2> SUFFICES ASSUME IInv, phase \in Calling
               PROVE  Registered(cp) /\ pc[cp] \notin {"none", "exit"}
    BY DEF CalledIsRegistered, Calling
  <2>1. Registered(cp) /\ cp \in Daemon
    BY PlaceProperties DEF IInv, CallFits
  <2> QED
    BY <2>1 DEF IInv, ClassFits
<1> QED
  BY <1>1, Inductive, PTL

\* No daemon becomes safe without waking the Cpr that waits for it.
THEOREM SafeHolds == Spec => []SafeIsNoticed
<1>1. IInv => SafeIsNoticed
  BY DEF IInv
<1> QED
  BY <1>1, Inductive, PTL
=============================================================================
