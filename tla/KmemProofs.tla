----------------------------- MODULE KmemProofs -----------------------------
(***************************************************************************)
(* Proofs about module Kmem, for any number of clients, CPUs and slabs of  *)
(* any size and any sizes of magazines: the three invariants the run       *)
(* checks.                                                                 *)
(***************************************************************************)
EXTENDS Kmem, SequenceTheorems, FiniteSetTheorems, TLAPS

Buf == Slab \X Nat
Slot == Buf \cup {NoBuf}

-----------------------------------------------------------------------------
(* Magazines.                                                              *)

\* No buffer is twice in q.
NoDup(q) == \A i, j \in 1 .. Len(q) : q[i] = q[j] /\ q[i] # NoBuf => i = j

\* Magazines of size n that hold a buffer in just the first m slots.
Holding(n, m) ==
  {q \in [1 .. n -> Slot] : NoDup(q) /\ \A i \in 1 .. n : q[i] # NoBuf <=> i <= m}

\* The buffers in a magazine.
Content(q) == IF q = NoMag THEN {} ELSE {q[i] : i \in 1 .. Len(q)} \ {NoBuf}

CpuFields == {"rounds", "magsize", "loaded", "full", "empty"}

\* What MagazinesFit says of a CPU, and that its rounds fit, while n is the size.
CpuFits(r, n) ==
  /\ DOMAIN r = CpuFields /\ r.rounds \in Int /\ r.magsize \in Nat
  /\ r.magsize \in {0, n} /\ r.rounds \in -1 .. r.magsize
  /\ r.loaded = NoMag <=> r.rounds = -1
  /\ r.magsize = 0 => r.loaded = NoMag
  /\ r.loaded = NoMag => r.full = NoMag /\ r.empty = NoMag
  /\ r.loaded # NoMag => r.loaded \in Holding(n, r.rounds)
  /\ r.full # NoMag => r.full \in Holding(n, n) /\ r.empty = NoMag
  /\ r.empty # NoMag => r.empty = Magazine(n)

\* Sizes are positive.
LEMMA SizeProperties ==
  ASSUME magtype \in 1 .. Len(MagSizes)
  PROVE  Size \in Nat /\ Size > 0
BY KmemAssumption DEF Size

\* A magazine is a sequence of slots, and not NULL.
LEMMA MagazineType ==
  ASSUME NEW n \in Nat, NEW q \in [1 .. n -> Slot]
  PROVE  Len(q) = n /\ q # NoMag /\ q \in Seq(Slot)
<1>1. q \in Seq(Slot) /\ Len(q) = n
  OBVIOUS
<1>2. q # NoMag
  BY <1>1, KmemAssumption DEF Slot, Buf
<1> QED
  BY <1>1, <1>2

\* A new magazine is the one magazine that holds nothing.
LEMMA NewMagazine ==
  ASSUME NEW n \in Nat
  PROVE  /\ Magazine(n) \in Holding(n, 0) /\ Magazine(n) # NoMag
         /\ \A q \in Holding(n, 0) : q = Magazine(n)
<1>1. Magazine(n) \in [1 .. n -> Slot]
  BY DEF Magazine, Slot
<1>2. \A i \in 1 .. n : Magazine(n)[i] = NoBuf
  BY DEF Magazine
<1>3. Magazine(n) # NoMag /\ Len(Magazine(n)) = n
  BY <1>1, MagazineType
<1>4. Magazine(n) \in Holding(n, 0)
  BY <1>1, <1>2, <1>3 DEF Holding, NoDup
<1>5. ASSUME NEW q \in Holding(n, 0) PROVE q = Magazine(n)
  <2>1. q \in [1 .. n -> Slot] /\ \A i \in 1 .. n : q[i] = NoBuf
    BY DEF Holding
  <2> QED
    BY <2>1 DEF Magazine
<1> QED
  BY <1>3, <1>4, <1>5

\* What it means that a magazine of size n holds m rounds.
LEMMA HoldingMag ==
  ASSUME NEW n \in Nat, NEW m \in Int, NEW q \in Holding(n, m)
  PROVE  /\ q \in [1 .. n -> Slot] /\ NoDup(q) /\ q # NoMag /\ Len(q) = n
         /\ \A i \in 1 .. n : q[i] # NoBuf <=> i <= m
BY MagazineType DEF Holding

\* The content of a magazine, slot by slot.
LEMMA ContentOf ==
  ASSUME NEW n \in Nat, NEW q \in [1 .. n -> Slot]
  PROVE  /\ \A b : b \in Content(q) <=> \E i \in 1 .. n : q[i] = b /\ b # NoBuf
         /\ Content(q) \in SUBSET Buf
BY MagazineType DEF Content, Slot

\* Taking the top round, or putting one on top.
LEMMA TopTaken ==
  ASSUME NEW n \in Nat, NEW m \in 1 .. n, NEW q \in Holding(n, m)
  PROVE  /\ [q EXCEPT ![m] = NoBuf] \in Holding(n, m - 1)
         /\ q[m] \in Buf /\ q[m] \in Content(q)
         /\ Content([q EXCEPT ![m] = NoBuf]) = Content(q) \ {q[m]}
<1> DEFINE p == [q EXCEPT ![m] = NoBuf]
<1>1. q \in [1 .. n -> Slot] /\ NoDup(q) /\ Len(q) = n /\ \A i \in 1 .. n : q[i] # NoBuf <=> i <= m
  BY HoldingMag
<1>2. p \in [1 .. n -> Slot] /\ \A i \in 1 .. n : p[i] = IF i = m THEN NoBuf ELSE q[i]
  BY <1>1 DEF Slot
<1>3. Len(p) = n
  BY <1>2, MagazineType
<1> HIDE DEF p
<1>4. NoDup(p)
  BY <1>1, <1>2, <1>3 DEF NoDup
<1>5. p \in Holding(n, m - 1)
  BY <1>1, <1>2, <1>4 DEF Holding
<1>6. q[m] \in Buf
  BY <1>1 DEF Slot
<1>7. \A b : b \in Content(p) <=> b \in Content(q) /\ b # q[m]
  <2>1. \A b : b \in Content(p) <=> \E i \in 1 .. n : p[i] = b /\ b # NoBuf
    BY <1>2, ContentOf
  <2>2. \A b : b \in Content(q) <=> \E i \in 1 .. n : q[i] = b /\ b # NoBuf
    BY <1>1, ContentOf
  <2>3. \A i \in 1 .. n : q[i] = q[m] => i = m
    BY <1>1 DEF NoDup
  <2> QED
    BY <1>2, <2>1, <2>2, <2>3
<1>8. q[m] \in Content(q)
  BY <1>1, ContentOf
<1> QED
  BY <1>5, <1>6, <1>7, <1>8 DEF p

\* Putting a round on top of one that is not full.
LEMMA TopPut ==
  ASSUME NEW n \in Nat, NEW m \in 0 .. n - 1, NEW q \in Holding(n, m),
         NEW b \in Buf, b \notin Content(q)
  PROVE  /\ [q EXCEPT ![m + 1] = b] \in Holding(n, m + 1)
         /\ Content([q EXCEPT ![m + 1] = b]) = Content(q) \cup {b}
<1> DEFINE p == [q EXCEPT ![m + 1] = b]
<1>0. b # NoBuf
  BY KmemAssumption DEF Buf
<1>1. q \in [1 .. n -> Slot] /\ NoDup(q) /\ Len(q) = n /\ \A i \in 1 .. n : q[i] # NoBuf <=> i <= m
  BY HoldingMag
<1>2. p \in [1 .. n -> Slot] /\ \A i \in 1 .. n : p[i] = IF i = m + 1 THEN b ELSE q[i]
  BY <1>1 DEF Slot
<1>3. Len(p) = n
  BY <1>2, MagazineType
<1>4. \A i \in 1 .. n : q[i] # b
  BY <1>0, <1>1, ContentOf
<1> HIDE DEF p
<1>5. NoDup(p)
  BY <1>1, <1>2, <1>3, <1>4 DEF NoDup
<1>6. p \in Holding(n, m + 1)
  BY <1>0, <1>1, <1>2, <1>5 DEF Holding
<1>7. \A x : x \in Content(p) <=> x \in Content(q) \/ x = b
  <2>1. \A x : x \in Content(p) <=> \E i \in 1 .. n : p[i] = x /\ x # NoBuf
    BY <1>2, ContentOf
  <2>2. \A x : x \in Content(q) <=> \E i \in 1 .. n : q[i] = x /\ x # NoBuf
    BY <1>1, ContentOf
  <2>3. q[m + 1] = NoBuf /\ m + 1 \in 1 .. n
    BY <1>1
  <2> QED
    BY <1>0, <1>2, <2>1, <2>2, <2>3
<1> QED
  BY <1>6, <1>7 DEF p

-----------------------------------------------------------------------------
(* CPUs.                                                                   *)

\* The state of a CPU after kmem_cache_alloc() took a round, kmem_cache_free() put one.
Taken(r) == [r EXCEPT !.rounds = @ - 1, !.loaded[r.rounds] = NoBuf]
Put(r, b) == [r EXCEPT !.rounds = @ + 1, !.loaded[r.rounds + 1] = b]

\* A CPU state from whose loaded magazine a round was taken still fits, and only that
\* buffer has left it.
LEMMA TakenFits ==
  ASSUME NEW n \in Nat, n > 0, NEW r, CpuFits(r, n), r.rounds > 0
  PROVE  /\ CpuFits(Taken(r), n)
         /\ r.loaded # NoMag /\ r.loaded[r.rounds] \in Buf
         /\ r.loaded[r.rounds] \in Content(r.loaded)
         /\ Content(Taken(r).loaded) = Content(r.loaded) \ {r.loaded[r.rounds]}
         /\ Taken(r).full = r.full /\ Taken(r).empty = r.empty /\ Taken(r).magsize = r.magsize
         /\ Taken(r).loaded # NoMag
<1>1. /\ r.rounds \in Int /\ r.loaded # NoMag /\ r.magsize = n /\ r.rounds \in 1 .. n
      /\ r.loaded \in Holding(n, r.rounds)
  BY DEF CpuFits
<1> DEFINE q == [r.loaded EXCEPT ![r.rounds] = NoBuf]
<1>2. /\ q \in Holding(n, r.rounds - 1)
      /\ r.loaded[r.rounds] \in Buf /\ r.loaded[r.rounds] \in Content(r.loaded)
      /\ Content(q) = Content(r.loaded) \ {r.loaded[r.rounds]}
  BY <1>1, TopTaken
<1>3. q # NoMag
  <2>1. r.rounds - 1 \in Int
    BY <1>1
  <2> QED
    BY <1>2, <2>1, HoldingMag
<1>4. /\ Taken(r).loaded = q /\ Taken(r).full = r.full /\ Taken(r).empty = r.empty
      /\ Taken(r).magsize = r.magsize /\ Taken(r).rounds = r.rounds - 1
  BY DEF CpuFits, CpuFields, Taken
<1> HIDE DEF q
<1>5. DOMAIN Taken(r) = CpuFields
  BY <1>1, <1>3 DEF CpuFits, CpuFields, Taken, q
<1>6. CpuFits(Taken(r), n)
  BY <1>1, <1>2, <1>3, <1>4, <1>5 DEF CpuFits
<1> QED
  BY <1>1, <1>2, <1>3, <1>4, <1>6

\* The same for a round that was put there.
LEMMA PutFits ==
  ASSUME NEW n \in Nat, n > 0, NEW r, CpuFits(r, n), HasRoom(r),
         NEW b \in Buf, b \notin Content(r.loaded)
  PROVE  /\ CpuFits(Put(r, b), n)
         /\ Content(Put(r, b).loaded) = Content(r.loaded) \cup {b}
         /\ Put(r, b).full = r.full /\ Put(r, b).empty = r.empty
         /\ Put(r, b).magsize = r.magsize
         /\ Put(r, b).loaded # NoMag /\ r.loaded # NoMag
<1>1. /\ r.rounds \in Int /\ r.loaded # NoMag /\ r.magsize = n /\ r.rounds \in 0 .. n - 1
      /\ r.loaded \in Holding(n, r.rounds)
  BY DEF CpuFits, HasRoom
<1> DEFINE q == [r.loaded EXCEPT ![r.rounds + 1] = b]
<1>2. q \in Holding(n, r.rounds + 1) /\ Content(q) = Content(r.loaded) \cup {b}
  BY <1>1, TopPut
<1>3. q # NoMag
  BY <1>1, <1>2, HoldingMag
<1>4. /\ Put(r, b).loaded = q /\ Put(r, b).full = r.full /\ Put(r, b).empty = r.empty
      /\ Put(r, b).magsize = r.magsize /\ Put(r, b).rounds = r.rounds + 1
  BY DEF CpuFits, CpuFields, Put
<1> HIDE DEF q
<1>5. DOMAIN Put(r, b) = CpuFields
  BY <1>1, <1>3 DEF CpuFits, CpuFields, Put, q
<1>6. CpuFits(Put(r, b), n)
  BY <1>1, <1>2, <1>3, <1>4, <1>5 DEF CpuFits
<1> QED
  BY <1>1, <1>2, <1>3, <1>4, <1>6

\* What is loaded when there are no rounds to take, or no room.
LEMMA LoadedIs ==
  ASSUME NEW n \in Nat, n > 0, NEW r, CpuFits(r, n)
  PROVE  /\ r.loaded # NoMag /\ r.rounds <= 0 => r.loaded = Magazine(n) /\ Content(r.loaded) = {}
         /\ r.loaded # NoMag /\ ~HasRoom(r) => r.loaded \in Holding(n, n) /\ r.rounds = r.magsize
         /\ r.loaded # NoMag => r.magsize = n
         /\ r.empty # NoMag => Content(r.empty) = {}
         /\ Content(NoMag) = {} /\ Content(Magazine(n)) = {}
<1>1. /\ r.loaded # NoMag =>
           r.magsize = n /\ r.rounds \in 0 .. n /\ r.loaded \in Holding(n, r.rounds)
      /\ r.empty # NoMag => r.empty = Magazine(n)
  BY DEF CpuFits
<1>2. Content(Magazine(n)) = {}
  <2>1. Magazine(n) \in [1 .. n -> Slot] /\ \A i \in 1 .. n : Magazine(n)[i] = NoBuf
    BY DEF Magazine, Slot
  <2> QED
    BY <2>1, ContentOf
<1>3. Content(NoMag) = {}
  BY DEF Content
<1>4. ASSUME r.loaded # NoMag, r.rounds <= 0 PROVE r.loaded = Magazine(n)
  <2>1. r.rounds = 0
    BY <1>1, <1>4
  <2> QED
    BY <1>1, <1>4, <2>1, NewMagazine
<1>5. ASSUME r.loaded # NoMag, ~HasRoom(r) PROVE r.loaded \in Holding(n, n) /\ r.rounds = r.magsize
  <2>1. r.rounds = n
    BY <1>1, <1>5 DEF HasRoom
  <2> QED
    BY <1>1, <1>5, <2>1
<1> QED
  BY <1>1, <1>2, <1>3, <1>4, <1>5

\* The full spare is loaded.
LEMMA FullLoadedFits ==
  ASSUME NEW n \in Nat, n > 0, NEW r, CpuFits(r, n), r.rounds <= 0, r.full # NoMag
  PROVE  /\ CpuFits(FullLoaded(r), n)
         /\ FullLoaded(r).rounds > 0 /\ FullLoaded(r).loaded = r.full
         /\ FullLoaded(r).full = NoMag /\ FullLoaded(r).empty = r.loaded
         /\ FullLoaded(r).magsize = r.magsize
         /\ r.loaded # NoMag /\ r.empty = NoMag /\ Content(r.loaded) = {}
<1>1. /\ r.loaded # NoMag /\ r.empty = NoMag /\ r.magsize = n /\ r.rounds = 0
      /\ r.full \in Holding(n, n)
  BY DEF CpuFits
<1>2. r.loaded = Magazine(n) /\ Content(r.loaded) = {}
  BY <1>1, LoadedIs
<1>4. /\ FullLoaded(r).rounds = n
      /\ FullLoaded(r).magsize = n
      /\ FullLoaded(r).loaded = r.full
      /\ FullLoaded(r).full = NoMag
      /\ FullLoaded(r).empty = r.loaded
  BY <1>1 DEF CpuFits, CpuFields, FullLoaded
<1>5. DOMAIN FullLoaded(r) = CpuFields
  BY <1>1, <1>2 DEF CpuFits, CpuFields, FullLoaded
<1>6. CpuFits(FullLoaded(r), n)
  BY <1>1, <1>2, <1>4, <1>5 DEF CpuFits
<1> QED
  BY <1>1, <1>2, <1>4, <1>6

\* The empty spare is loaded.
EmptyLoaded(r) ==
  [r EXCEPT !.full = r.loaded, !.loaded = r.empty, !.empty = NoMag, !.rounds = 0]

\* kmem_cache_free() loads the empty spare; the loaded magazine becomes the full one.
LEMMA EmptyLoadedFits ==
  ASSUME NEW n \in Nat, n > 0, NEW r, CpuFits(r, n), ~HasRoom(r), r.empty # NoMag
  PROVE  /\ CpuFits(EmptyLoaded(r), n) /\ HasRoom(EmptyLoaded(r))
         /\ EmptyLoaded(r).loaded = r.empty /\ EmptyLoaded(r).full = r.loaded
         /\ EmptyLoaded(r).empty = NoMag /\ EmptyLoaded(r).magsize = r.magsize
         /\ r.loaded # NoMag /\ r.full = NoMag /\ Content(r.empty) = {}
<1>1. /\ r.loaded # NoMag /\ r.full = NoMag /\ r.magsize = n /\ r.empty = Magazine(n)
  BY DEF CpuFits
<1>2. r.loaded \in Holding(n, n) /\ Content(r.empty) = {}
  BY <1>1, LoadedIs
<1>3. r.empty \in Holding(n, 0)
  BY <1>1, NewMagazine
<1>4. /\ EmptyLoaded(r).rounds = 0
      /\ EmptyLoaded(r).magsize = n
      /\ EmptyLoaded(r).loaded = r.empty
      /\ EmptyLoaded(r).full = r.loaded
      /\ EmptyLoaded(r).empty = NoMag
  BY <1>1 DEF CpuFits, CpuFields, EmptyLoaded
<1>5. DOMAIN EmptyLoaded(r) = CpuFields
  BY <1>1, <1>2, <1>3 DEF CpuFits, CpuFields, EmptyLoaded
<1>6. CpuFits(EmptyLoaded(r), n)
  BY <1>1, <1>2, <1>3, <1>4, <1>5 DEF CpuFits
<1> QED
  BY <1>1, <1>2, <1>4, <1>6 DEF HasRoom

\* A full magazine of the depot is loaded.
FullFromDepot(r, q) ==
  [r EXCEPT !.empty = IF r.loaded # NoMag /\ r.empty = NoMag THEN r.loaded ELSE @,
            !.loaded = q, !.rounds = r.magsize]

\* kmem_cache_alloc() loads a full magazine of the depot.
LEMMA FullFromDepotFits ==
  ASSUME NEW n \in Nat, n > 0, NEW r, CpuFits(r, n), r.rounds <= 0, r.full = NoMag,
         r.magsize # 0, NEW q \in Holding(n, n)
  PROVE  /\ CpuFits(FullFromDepot(r, q), n)
         /\ FullFromDepot(r, q).rounds > 0 /\ FullFromDepot(r, q).loaded = q
         /\ FullFromDepot(r, q).full = NoMag /\ FullFromDepot(r, q).magsize = r.magsize
         /\ FullFromDepot(r, q).empty =
              IF r.loaded # NoMag /\ r.empty = NoMag THEN r.loaded ELSE r.empty
         /\ Content(r.loaded) = {} /\ q # NoMag
<1> DEFINE e == IF r.loaded # NoMag /\ r.empty = NoMag THEN r.loaded ELSE r.empty
<1>1. r.magsize = n /\ (r.loaded # NoMag => r.loaded = Magazine(n)) /\ Content(r.loaded) = {}
  BY LoadedIs DEF CpuFits
<1>2. e # NoMag => e = Magazine(n)
  BY <1>1 DEF CpuFits
<1>3. q # NoMag
  BY HoldingMag
<1>4. /\ FullFromDepot(r, q).rounds = n
      /\ FullFromDepot(r, q).magsize = n
      /\ FullFromDepot(r, q).loaded = q
      /\ FullFromDepot(r, q).full = NoMag
      /\ FullFromDepot(r, q).empty = e
  BY <1>1 DEF CpuFits, CpuFields, FullFromDepot
<1> HIDE DEF e
<1>5. DOMAIN FullFromDepot(r, q) = CpuFields
  BY <1>1, <1>2, <1>3 DEF CpuFits, CpuFields, FullFromDepot, e
<1>6. CpuFits(FullFromDepot(r, q), n)
  BY <1>1, <1>2, <1>3, <1>4, <1>5 DEF CpuFits
<1> QED
  BY <1>1, <1>3, <1>4, <1>6 DEF e

\* An empty magazine of the depot is loaded.
EmptyFromDepot(r, q) ==
  [r EXCEPT !.full = IF r.loaded # NoMag /\ r.full = NoMag THEN r.loaded ELSE @,
            !.loaded = q, !.rounds = 0]

\* kmem_cache_free() loads an empty magazine of the depot.
LEMMA EmptyFromDepotFits ==
  ASSUME NEW n \in Nat, n > 0, NEW r, CpuFits(r, n), ~HasRoom(r), r.empty = NoMag,
         r.magsize # 0, NEW q, q = Magazine(n)
  PROVE  /\ CpuFits(EmptyFromDepot(r, q), n) /\ HasRoom(EmptyFromDepot(r, q))
         /\ EmptyFromDepot(r, q).loaded = q /\ EmptyFromDepot(r, q).empty = NoMag
         /\ EmptyFromDepot(r, q).magsize = r.magsize
         /\ EmptyFromDepot(r, q).full =
              IF r.loaded # NoMag /\ r.full = NoMag THEN r.loaded ELSE r.full
         /\ r.loaded # NoMag => r.loaded \in Holding(n, n)
         /\ Content(q) = {} /\ q # NoMag
         /\ r.loaded = NoMag => r.full = NoMag
<1> DEFINE f == IF r.loaded # NoMag /\ r.full = NoMag THEN r.loaded ELSE r.full
<1>1. r.magsize = n /\ (r.loaded # NoMag => r.loaded \in Holding(n, n)) /\ Content(q) = {}
  BY LoadedIs DEF CpuFits
<1>2. f # NoMag => f \in Holding(n, n)
  BY <1>1 DEF CpuFits
<1>3. q \in Holding(n, 0) /\ q # NoMag
  BY NewMagazine
<1>4. /\ EmptyFromDepot(r, q).rounds = 0
      /\ EmptyFromDepot(r, q).magsize = n
      /\ EmptyFromDepot(r, q).loaded = q
      /\ EmptyFromDepot(r, q).full = f
      /\ EmptyFromDepot(r, q).empty = NoMag
  BY <1>1 DEF CpuFits, CpuFields, EmptyFromDepot
<1> HIDE DEF f
<1>5. DOMAIN EmptyFromDepot(r, q) = CpuFields
  BY <1>1, <1>2, <1>3 DEF CpuFits, CpuFields, EmptyFromDepot, f
<1>6. CpuFits(EmptyFromDepot(r, q), n)
  BY <1>1, <1>2, <1>3, <1>4, <1>5 DEF CpuFits
<1>7. r.loaded = NoMag => r.full = NoMag
  BY DEF CpuFits
<1> QED
  BY <1>1, <1>3, <1>4, <1>6, <1>7 DEF f, HasRoom

\* A CPU without magazines.
LEMMA NoMagazinesFits ==
  ASSUME NEW n \in Nat, NEW m \in {0, n}
  PROVE  CpuFits(NoMagazines(m), n)
BY DEF CpuFits, CpuFields, NoMagazines

-----------------------------------------------------------------------------
(* Slabs.                                                                  *)

\* The buffers of slab s.
OfSlab(s) == {s} \X (1 .. Chunks[s])

\* Where s is on a list.
On(fl, s) == \E i \in 1 .. Len(fl) : fl[i] = s

\* b is free in slab s.
InSlab(sf, s, b) == s \in DOMAIN sf /\ \E i \in 1 .. Len(sf[s]) : sf[s][i] = b

\* Each slab has its own buffers, each at most once, and the list is that of the
\* slabs that have one.
SlabsFit(sf, fl) ==
  /\ DOMAIN sf \subseteq Slab /\ sf = [s \in DOMAIN sf |-> sf[s]] /\ fl \in Seq(Slab)
  /\ \A s \in DOMAIN sf :
       sf[s] \in Seq(OfSlab(s)) /\ NoDup(sf[s]) /\ Len(sf[s]) <= Chunks[s]
  /\ \A i, j \in 1 .. Len(fl) : fl[i] = fl[j] => i = j
  /\ \A s \in Slab : On(fl, s) <=> s \in DOMAIN sf /\ sf[s] # <<>>

\* A new slab has slab_chunks buffers, all its own and no two the same.
LEMMA OfSlabIs ==
  ASSUME NEW s \in Slab
  PROVE  /\ Chunks[s] \in Nat /\ Chunks[s] > 0
         /\ OfSlab(s) \in SUBSET Buf /\ NoBuf \notin OfSlab(s)
         /\ \A b \in OfSlab(s) : b[1] = s
         /\ NewSlab(s) \in Seq(OfSlab(s)) /\ Len(NewSlab(s)) = Chunks[s] /\ NoDup(NewSlab(s))
         /\ \A b : b \in OfSlab(s) <=> \E i \in 1 .. Len(NewSlab(s)) : NewSlab(s)[i] = b
         /\ ToSet(NewSlab(s)) = OfSlab(s)
<1>1. Chunks[s] \in Nat /\ Chunks[s] > 0
  BY KmemAssumption
<1>2. OfSlab(s) \in SUBSET Buf /\ \A b \in OfSlab(s) : b[1] = s
  BY <1>1 DEF OfSlab, Buf
<1>3. NoBuf \notin OfSlab(s)
  BY <1>2, KmemAssumption DEF Buf
<1>4. /\ NewSlab(s) \in Seq(OfSlab(s)) /\ Len(NewSlab(s)) = Chunks[s]
      /\ DOMAIN NewSlab(s) = 1 .. Chunks[s]
      /\ \A i \in 1 .. Chunks[s] : NewSlab(s)[i] = <<s, i>>
  <2>1. NewSlab(s) \in [1 .. Chunks[s] -> OfSlab(s)]
    BY <1>1 DEF NewSlab, OfSlab
  <2> QED
    BY <1>1, <2>1 DEF NewSlab
<1>5. NoDup(NewSlab(s))
  BY <1>4 DEF NoDup
<1>6. \A b : b \in OfSlab(s) <=> \E i \in 1 .. Len(NewSlab(s)) : NewSlab(s)[i] = b
  <2>1. ASSUME NEW b \in OfSlab(s) PROVE \E i \in 1 .. Chunks[s] : NewSlab(s)[i] = b
    <3>1. b = <<s, b[2]>> /\ b[2] \in 1 .. Chunks[s]
      BY DEF OfSlab
    <3> QED
      BY <1>4, <3>1
  <2>2. ASSUME NEW i \in 1 .. Chunks[s] PROVE NewSlab(s)[i] \in OfSlab(s)
    BY <1>4 DEF OfSlab
  <2> QED
    BY <1>4, <2>1, <2>2
<1>7. ToSet(NewSlab(s)) = OfSlab(s)
  BY <1>4, <1>6 DEF ToSet
<1> QED
  BY <1>1, <1>2, <1>3, <1>4, <1>5, <1>6, <1>7

\* The tail of a sequence without duplicates.
LEMMA TailProperties ==
  ASSUME NEW S, NEW q \in Seq(S), q # <<>>, NoBuf \notin S, NoDup(q)
  PROVE  /\ Head(q) \in S /\ Tail(q) \in Seq(S) /\ Len(Tail(q)) = Len(q) - 1 /\ Len(q) > 0
         /\ Head(q) = q[1] /\ Len(q) \in Nat
         /\ \A i \in 1 .. Len(q) - 1 : Tail(q)[i] = q[i + 1]
         /\ NoDup(Tail(q))
         /\ \A b : (\E i \in 1 .. Len(Tail(q)) : Tail(q)[i] = b)
                     <=> (\E i \in 1 .. Len(q) : q[i] = b) /\ b # Head(q)
<1>1. Len(q) \in Nat /\ Len(q) > 0
  OBVIOUS
<1>2. /\ Head(q) \in S /\ Tail(q) \in Seq(S) /\ Len(Tail(q)) = Len(q) - 1
      /\ Head(q) = q[1]
      /\ \A i \in 1 .. Len(q) - 1 : Tail(q)[i] = q[i + 1]
  BY <1>1
<1>3. \A i \in 1 .. Len(q) : q[i] # NoBuf
  OBVIOUS
<1>4. NoDup(Tail(q))
  <2>1. ASSUME NEW i \in 1 .. Len(q) - 1, NEW j \in 1 .. Len(q) - 1, Tail(q)[i] = Tail(q)[j]
        PROVE  i = j
    <3>1. q[i + 1] = q[j + 1] /\ i + 1 \in 1 .. Len(q) /\ j + 1 \in 1 .. Len(q)
      BY <1>1, <1>2, <2>1
    <3>2. i + 1 = j + 1
      BY <1>3, <3>1 DEF NoDup
    <3> QED
      BY <3>2
  <2> QED
    BY <1>2, <2>1 DEF NoDup
<1>5. ASSUME NEW b, NEW i \in 1 .. Len(Tail(q)), Tail(q)[i] = b
      PROVE  (\E j \in 1 .. Len(q) : q[j] = b) /\ b # Head(q)
  <2>1. i + 1 \in 1 .. Len(q) /\ q[i + 1] = b /\ i + 1 # 1 /\ 1 \in 1 .. Len(q)
    BY <1>1, <1>2, <1>5
  <2>2. q[i + 1] # q[1]
    BY <1>3, <2>1 DEF NoDup
  <2> QED
    BY <1>2, <2>1, <2>2
<1>6. ASSUME NEW b, NEW i \in 1 .. Len(q), q[i] = b, b # Head(q)
      PROVE  \E j \in 1 .. Len(Tail(q)) : Tail(q)[j] = b
  <2>1. i - 1 \in 1 .. Len(q) - 1 /\ (i - 1) + 1 = i
    BY <1>1, <1>2, <1>6
  <2>2. Tail(q)[i - 1] = b
    BY <1>2, <1>6, <2>1
  <2> QED
    BY <1>2, <2>1, <2>2
<1> QED
  BY <1>1, <1>2, <1>4, <1>5, <1>6

\* TakeFrom(): the head buffer of the first slab leaves the slab layer.
Takes(sf, fl, s, b, sf2, fl2) ==
  /\ s = Head(fl) /\ b = Head(sf[s]) /\ sf2 = [sf EXCEPT ![s] = Tail(sf[s])]
  /\ fl2 = IF Len(sf[s]) = 1 THEN Tail(fl) ELSE fl

\* A buffer taken from the first slab of the list: the slabs still fit and have lost
\* just that buffer.
LEMMA TakeFits ==
  ASSUME NEW sf, NEW fl, SlabsFit(sf, fl), fl # <<>>, NEW s, NEW b, NEW sf2, NEW fl2,
         Takes(sf, fl, s, b, sf2, fl2)
  PROVE  /\ SlabsFit(sf2, fl2)
         /\ s \in DOMAIN sf /\ DOMAIN sf2 = DOMAIN sf
         /\ b \in OfSlab(s) /\ InSlab(sf, s, b)
         /\ Len(sf2[s]) < Chunks[s]
         /\ \A x \in DOMAIN sf : x # s => sf2[x] = sf[x]
         /\ \A x, y : InSlab(sf2, x, y) <=> InSlab(sf, x, y) /\ y # b
<1> DEFINE q == sf[s]
<1>1. fl \in Seq(Slab) /\ Len(fl) \in Nat /\ Len(fl) > 0 /\ s = fl[1] /\ s \in Slab
  BY DEF SlabsFit, Takes
<1>2. s \in DOMAIN sf /\ q # <<>>
  <2>1. On(fl, s)
    BY <1>1 DEF On
  <2> QED
    BY <1>1, <2>1 DEF SlabsFit
<1>3. q \in Seq(OfSlab(s)) /\ NoDup(q) /\ Len(q) <= Chunks[s] /\ NoBuf \notin OfSlab(s)
      /\ Chunks[s] \in Nat
  BY <1>1, <1>2, OfSlabIs DEF SlabsFit
<1>4. /\ b \in OfSlab(s) /\ Tail(q) \in Seq(OfSlab(s)) /\ Len(Tail(q)) = Len(q) - 1
      /\ Len(q) > 0 /\ Len(q) \in Nat /\ b = q[1] /\ NoDup(Tail(q))
      /\ \A y : (\E i \in 1 .. Len(Tail(q)) : Tail(q)[i] = y)
                  <=> (\E i \in 1 .. Len(q) : q[i] = y) /\ y # b
  <2>1. b = Head(q)
    BY DEF Takes
  <2>2. q \in Seq(OfSlab(s)) /\ q # <<>> /\ NoBuf \notin OfSlab(s) /\ NoDup(q)
    BY <1>2, <1>3
  <2> HIDE DEF q
  <2>3. /\ Head(q) \in OfSlab(s) /\ Tail(q) \in Seq(OfSlab(s)) /\ Len(Tail(q)) = Len(q) - 1
        /\ Len(q) > 0 /\ Len(q) \in Nat /\ Head(q) = q[1] /\ NoDup(Tail(q))
        /\ \A y : (\E i \in 1 .. Len(Tail(q)) : Tail(q)[i] = y)
                    <=> (\E i \in 1 .. Len(q) : q[i] = y) /\ y # Head(q)
    BY <2>2, TailProperties
  <2> QED
    BY <2>1, <2>3, Zenon
<1>5. /\ DOMAIN sf2 = DOMAIN sf /\ sf2 = [x \in DOMAIN sf2 |-> sf2[x]]
      /\ sf2[s] = Tail(q) /\ \A x \in DOMAIN sf : x # s => sf2[x] = sf[x]
  BY <1>2 DEF SlabsFit, Takes
<1> HIDE DEF q
<1>6. Len(sf2[s]) < Chunks[s]
  BY <1>3, <1>4, <1>5
<1>7. \A x, y : x \in DOMAIN sf /\ x # s /\ InSlab(sf, x, y) => y # b
  <2>1. ASSUME NEW x \in DOMAIN sf, NEW i \in 1 .. Len(sf[x]), x # s
        PROVE  sf[x][i] # b
    <3>1. x \in Slab /\ sf[x] \in Seq(OfSlab(x))
      BY DEF SlabsFit
    <3>2. sf[x][i] \in OfSlab(x)
      BY <3>1
    <3>3. \A y \in OfSlab(x) : y[1] = x
      BY <3>1, OfSlabIs
    <3>4. \A y \in OfSlab(s) : y[1] = s
      BY <1>1, OfSlabIs
    <3> QED
      BY <1>4, <2>1, <3>2, <3>3, <3>4
  <2> QED
    BY <2>1 DEF InSlab
<1>8. \A x, y : InSlab(sf2, x, y) <=> InSlab(sf, x, y) /\ y # b
  <2>1. ASSUME NEW y PROVE InSlab(sf2, s, y) <=> InSlab(sf, s, y) /\ y # b
    <3>1. InSlab(sf2, s, y) <=> \E i \in 1 .. Len(Tail(q)) : Tail(q)[i] = y
      BY <1>2, <1>5, Zenon DEF InSlab
    <3>2. InSlab(sf, s, y) <=> \E i \in 1 .. Len(q) : q[i] = y
      BY <1>2, Zenon DEF InSlab, q
    <3> QED
      BY <1>4, <3>1, <3>2, Zenon
  <2>2. ASSUME NEW x, NEW y, x # s PROVE InSlab(sf2, x, y) <=> InSlab(sf, x, y)
    BY <1>5, <2>2 DEF InSlab
  <2>3. \A x, y : InSlab(sf, x, y) => x \in DOMAIN sf
    BY DEF InSlab
  <2> QED
    BY <1>7, <2>1, <2>2, <2>3
<1>9. \A x \in DOMAIN sf2 :
        sf2[x] \in Seq(OfSlab(x)) /\ NoDup(sf2[x]) /\ Len(sf2[x]) <= Chunks[x]
  <2>1. sf2[s] \in Seq(OfSlab(s)) /\ NoDup(sf2[s])
    BY <1>4, <1>5, Zenon
  <2>2. Len(sf2[s]) <= Chunks[s]
    BY <1>3, <1>4, <1>5
  <2>3. \A x \in DOMAIN sf : x # s =>
          sf2[x] \in Seq(OfSlab(x)) /\ NoDup(sf2[x]) /\ Len(sf2[x]) <= Chunks[x]
    BY <1>5, Zenon DEF SlabsFit
  <2> QED
    BY <1>5, <2>1, <2>2, <2>3
<1>10. /\ fl2 \in Seq(Slab)
       /\ \A i, j \in 1 .. Len(fl2) : fl2[i] = fl2[j] => i = j
       /\ \A x \in Slab : On(fl2, x) <=> On(fl, x) /\ ~(x = s /\ Len(q) = 1)
  <2>0. fl2 = IF Len(q) = 1 THEN Tail(fl) ELSE fl
    BY DEF q, Takes
  <2>1. CASE Len(q) = 1
    <3>1. /\ fl2 = Tail(fl) /\ fl2 \in Seq(Slab) /\ Len(fl2) = Len(fl) - 1
          /\ \A i \in 1 .. Len(fl) - 1 : fl2[i] = fl[i + 1]
      BY <1>1, <2>0, <2>1
    <3>2. \A i, j \in 1 .. Len(fl) : fl[i] = fl[j] => i = j
      BY DEF SlabsFit
    <3>3. ASSUME NEW i \in 1 .. Len(fl2), NEW j \in 1 .. Len(fl2), fl2[i] = fl2[j]
          PROVE  i = j
      <4>1. i + 1 \in 1 .. Len(fl) /\ j + 1 \in 1 .. Len(fl) /\ fl[i + 1] = fl[j + 1]
        BY <1>1, <3>1, <3>3
      <4>2. i + 1 = j + 1
        BY <3>2, <4>1
      <4> QED
        BY <4>2
    <3>4. ASSUME NEW x, On(fl2, x) PROVE On(fl, x) /\ x # s
      <4>1. PICK i \in 1 .. Len(fl2) : fl2[i] = x
        BY <3>4 DEF On
      <4>2. i + 1 \in 1 .. Len(fl) /\ fl[i + 1] = x /\ i + 1 # 1 /\ 1 \in 1 .. Len(fl)
        BY <1>1, <3>1, <4>1
      <4> QED
        BY <1>1, <3>2, <4>2 DEF On
    <3>5. ASSUME NEW x, On(fl, x), x # s PROVE On(fl2, x)
      <4>1. PICK i \in 1 .. Len(fl) : fl[i] = x
        BY <3>5 DEF On
      <4>2. i - 1 \in 1 .. Len(fl) - 1 /\ (i - 1) + 1 = i
        BY <1>1, <3>5, <4>1
      <4>3. fl2[i - 1] = x /\ i - 1 \in 1 .. Len(fl2)
        BY <3>1, <4>1, <4>2
      <4> QED
        BY <4>3 DEF On
    <3> QED
      BY <2>1, <3>1, <3>3, <3>4, <3>5
  <2>2. CASE Len(q) # 1
    BY <1>1, <2>0, <2>2 DEF SlabsFit
  <2> QED
    BY <2>1, <2>2
<1>11. \A x \in Slab : On(fl2, x) <=> x \in DOMAIN sf2 /\ sf2[x] # <<>>
  <2>1. Tail(q) # <<>> <=> Len(Tail(q)) # 0
    <3>1. Tail(q) \in Seq(OfSlab(s))
      BY <1>4
    <3> QED
      BY <3>1, EmptySeq
  <2>2. Tail(q) # <<>> <=> Len(q) # 1
    BY <1>4, <2>1
  <2> QED
    BY <1>1, <1>2, <1>5, <1>10, <2>2 DEF SlabsFit, q
<1>12. SlabsFit(sf2, fl2)
  BY <1>5, <1>9, <1>10, <1>11 DEF SlabsFit
<1>13. InSlab(sf, s, b)
  BY <1>2, <1>4 DEF InSlab, q
<1> QED
  BY <1>2, <1>4, <1>5, <1>6, <1>8, <1>12, <1>13 DEF q

\* Slabs that are created have a buffer in use.
Partial(sf) == \A s \in DOMAIN sf : Len(sf[s]) < Chunks[s]

\* kmem_slab_create() adds slab s when no other has a free buffer.
LEMMA CreateFits ==
  ASSUME NEW sf, SlabsFit(sf, <<>>), NEW s \in Slab \ DOMAIN sf, NEW sf2,
         sf2 = [x \in DOMAIN sf \cup {s} |-> IF x = s THEN NewSlab(s) ELSE sf[x]]
  PROVE  /\ SlabsFit(sf2, <<s>>) /\ DOMAIN sf2 = DOMAIN sf \cup {s}
         /\ \A x \in DOMAIN sf : sf2[x] = sf[x]
         /\ \A x, y : InSlab(sf2, x, y) <=> InSlab(sf, x, y) \/ (x = s /\ y \in OfSlab(s))
<1>1. /\ DOMAIN sf2 = DOMAIN sf \cup {s} /\ sf2 = [x \in DOMAIN sf2 |-> sf2[x]]
      /\ sf2[s] = NewSlab(s) /\ \A x \in DOMAIN sf : sf2[x] = sf[x] /\ x # s
  OBVIOUS
<1>2. /\ NewSlab(s) \in Seq(OfSlab(s)) /\ Len(NewSlab(s)) = Chunks[s] /\ NoDup(NewSlab(s))
      /\ Chunks[s] \in Nat /\ Chunks[s] > 0
      /\ \A b : b \in OfSlab(s) <=> \E i \in 1 .. Len(NewSlab(s)) : NewSlab(s)[i] = b
  BY OfSlabIs
<1>3. NewSlab(s) # <<>>
  BY <1>2
<1>4. \A x \in DOMAIN sf : sf[x] = <<>>
  BY DEF SlabsFit, On
<1>5. \A x \in Slab : On(<<s>>, x) <=> x = s
  BY DEF On
<1>6. \A x \in Slab : On(<<s>>, x) <=> x \in DOMAIN sf2 /\ sf2[x] # <<>>
  BY <1>1, <1>3, <1>4, <1>5
<1>7. \A x \in DOMAIN sf2 :
        sf2[x] \in Seq(OfSlab(x)) /\ NoDup(sf2[x]) /\ Len(sf2[x]) <= Chunks[x]
  <2>1. \A x \in DOMAIN sf :
          sf2[x] \in Seq(OfSlab(x)) /\ NoDup(sf2[x]) /\ Len(sf2[x]) <= Chunks[x]
    BY <1>1, Zenon DEF SlabsFit
  <2>2. sf2[s] \in Seq(OfSlab(s)) /\ NoDup(sf2[s]) /\ Len(sf2[s]) <= Chunks[s]
    BY <1>1, <1>2
  <2> QED
    BY <1>1, <2>1, <2>2
<1>8. SlabsFit(sf2, <<s>>)
  <2>1. DOMAIN sf2 \subseteq Slab /\ <<s>> \in Seq(Slab)
    BY <1>1 DEF SlabsFit
  <2>2. \A i, j \in 1 .. Len(<<s>>) : <<s>>[i] = <<s>>[j] => i = j
    OBVIOUS
  <2> QED
    BY <1>1, <1>6, <1>7, <2>1, <2>2, Zenon DEF SlabsFit
<1>9. \A x, y : InSlab(sf2, x, y) <=> InSlab(sf, x, y) \/ (x = s /\ y \in OfSlab(s))
  <2>1. \A y : InSlab(sf2, s, y) <=> y \in OfSlab(s)
    BY <1>1, <1>2 DEF InSlab
  <2>2. \A x, y : x # s => (InSlab(sf2, x, y) <=> InSlab(sf, x, y))
    BY <1>1 DEF InSlab
  <2>3. \A y : ~InSlab(sf, s, y)
    BY DEF InSlab
  <2> QED
    BY <2>1, <2>2, <2>3
<1> QED
  BY <1>1, <1>8, <1>9

\* A buffer at the tail of a sequence without duplicates.
LEMMA AppendFits ==
  ASSUME NEW S, NEW q \in Seq(S), NEW b \in S, NoDup(q), NoBuf \notin S,
         \A i \in 1 .. Len(q) : q[i] # b
  PROVE  /\ Append(q, b) \in Seq(S) /\ Len(Append(q, b)) = Len(q) + 1 /\ Len(q) \in Nat
         /\ NoDup(Append(q, b)) /\ Append(q, b) # <<>>
         /\ \A y : (\E i \in 1 .. Len(Append(q, b)) : Append(q, b)[i] = y)
                     <=> (\E i \in 1 .. Len(q) : q[i] = y) \/ y = b
<1> DEFINE p == Append(q, b)
<1>1. /\ p \in Seq(S) /\ Len(p) = Len(q) + 1 /\ Len(q) \in Nat /\ p[Len(q) + 1] = b
      /\ \A i \in 1 .. Len(q) : p[i] = q[i]
  OBVIOUS
<1> HIDE DEF p
<1>2. NoDup(p)
  <2>1. ASSUME NEW i \in 1 .. Len(p), NEW j \in 1 .. Len(p), p[i] = p[j] PROVE i = j
    <3>1. CASE i \in 1 .. Len(q) /\ j \in 1 .. Len(q)
      <4>1. q[i] = q[j] /\ q[i] # NoBuf
        BY <1>1, <2>1, <3>1
      <4> QED
        BY <3>1, <4>1 DEF NoDup
    <3>2. CASE ~(i \in 1 .. Len(q) /\ j \in 1 .. Len(q))
      BY <1>1, <2>1, <3>2
    <3> QED
      BY <3>1, <3>2
  <2> QED
    BY <2>1 DEF NoDup
<1>3. p # <<>>
  BY <1>1
<1>4. \A y : (\E i \in 1 .. Len(p) : p[i] = y) <=> (\E i \in 1 .. Len(q) : q[i] = y) \/ y = b
  BY <1>1
<1> QED
  BY <1>1, <1>2, <1>3, <1>4 DEF p

\* RemoveAt() element by element.
LEMMA RemoveAtElements ==
  ASSUME NEW S, NEW q \in Seq(S), NEW k \in 1 .. Len(q)
  PROVE  /\ RemoveAt(q, k) \in Seq(S) /\ Len(RemoveAt(q, k)) = Len(q) - 1 /\ Len(q) \in Nat
         /\ \A i \in 1 .. Len(q) - 1 : RemoveAt(q, k)[i] = IF i < k THEN q[i] ELSE q[i + 1]
<1> DEFINE a == SubSeq(q, 1, k - 1)
           b == SubSeq(q, k + 1, Len(q))
           r == RemoveAt(q, k)
<1>1. Len(q) \in Nat
  OBVIOUS
<1>2. a \in Seq(S) /\ Len(a) = k - 1 /\ \A i \in 1 .. k - 1 : a[i] = q[i]
  OBVIOUS
<1>3. b \in Seq(S) /\ Len(b) = Len(q) - k /\ \A i \in 1 .. Len(q) - k : b[i] = q[k + i]
  OBVIOUS
<1>4. r = a \o b
  BY DEF RemoveAt
<1> HIDE DEF a, b, r
<1>5. r \in Seq(S) /\ Len(r) = Len(q) - 1
  <2>1. a \o b \in Seq(S) /\ Len(a \o b) = Len(a) + Len(b)
    BY <1>2, <1>3, ConcatProperties, Zenon
  <2> QED
    BY <1>1, <1>2, <1>3, <1>4, <2>1
<1>6. ASSUME NEW i \in 1 .. Len(q) - 1
      PROVE  r[i] = IF i < k THEN q[i] ELSE q[i + 1]
  <2>1. r[i] = IF i <= Len(a) THEN a[i] ELSE b[i - Len(a)]
    BY <1>1, <1>2, <1>3, <1>4
  <2>2. CASE i < k
    BY <1>1, <1>2, <2>1, <2>2
  <2>3. CASE i >= k
    <3>1. i - Len(a) \in 1 .. Len(q) - k /\ k + (i - Len(a)) = i + 1
      BY <1>1, <1>2, <2>3
    <3>2. b[i - Len(a)] = q[k + (i - Len(a))]
      BY <1>3, <3>1
    <3>3. r[i] = b[i - Len(a)]
      BY <1>1, <1>2, <2>1, <2>3
    <3> QED
      BY <1>1, <2>3, <3>1, <3>2, <3>3
  <2> QED
    BY <1>1, <2>2, <2>3
<1> QED
  BY <1>1, <1>5, <1>6, Zenon DEF r

\* The list without one of its slabs.
LEMMA UnlinkedIs ==
  ASSUME NEW fl \in Seq(Slab), \A i, j \in 1 .. Len(fl) : fl[i] = fl[j] => i = j,
         NEW s \in Slab, On(fl, s)
  PROVE  /\ Unlinked(fl, s) \in Seq(Slab)
         /\ \A i, j \in 1 .. Len(Unlinked(fl, s)) :
              Unlinked(fl, s)[i] = Unlinked(fl, s)[j] => i = j
         /\ \A x : On(Unlinked(fl, s), x) <=> On(fl, x) /\ x # s
<1> DEFINE k == CHOOSE i \in 1 .. Len(fl) : fl[i] = s
           r == RemoveAt(fl, k)
           Old(i) == IF i < k THEN i ELSE i + 1
<1>1. k \in 1 .. Len(fl) /\ fl[k] = s
  BY DEF On
<1>2. Unlinked(fl, s) = r
  BY DEF Unlinked
<1> HIDE DEF k
<1>3. /\ r \in Seq(Slab) /\ Len(r) = Len(fl) - 1 /\ Len(fl) \in Nat
      /\ \A i \in 1 .. Len(fl) - 1 : r[i] = IF i < k THEN fl[i] ELSE fl[i + 1]
  BY <1>1, RemoveAtElements
<1> HIDE DEF r
<1>4. \A i \in 1 .. Len(r) : Old(i) \in 1 .. Len(fl) /\ Old(i) # k /\ r[i] = fl[Old(i)]
  BY <1>1, <1>3
<1>5. ASSUME NEW i \in 1 .. Len(r), NEW j \in 1 .. Len(r), r[i] = r[j] PROVE i = j
  <2>1. Old(i) = Old(j)
    BY <1>4, <1>5
  <2> QED
    BY <1>1, <2>1
<1>6. ASSUME NEW x, On(r, x) PROVE On(fl, x) /\ x # s
  <2>1. PICK i \in 1 .. Len(r) : r[i] = x
    BY <1>6 DEF On
  <2>2. Old(i) \in 1 .. Len(fl) /\ Old(i) # k /\ fl[Old(i)] = x
    BY <1>4, <2>1
  <2> HIDE DEF Old
  <2> QED
    BY <1>1, <2>2 DEF On
<1>7. ASSUME NEW x, On(fl, x), x # s PROVE On(r, x)
  <2>1. PICK j \in 1 .. Len(fl) : fl[j] = x
    BY <1>7 DEF On
  <2>2. j # k
    BY <1>1, <1>7, <2>1
  <2>3. \E i \in 1 .. Len(fl) - 1 : r[i] = x
    <3>1. CASE j < k
      BY <1>1, <1>3, <2>1, <3>1
    <3>2. CASE j > k
      <4>1. j - 1 \in 1 .. Len(fl) - 1 /\ ~(j - 1 < k) /\ (j - 1) + 1 = j
        BY <1>1, <1>3, <3>2
      <4>2. r[j - 1] = x
        BY <1>3, <2>1, <4>1
      <4> QED
        BY <4>1, <4>2
    <3> QED
      BY <1>1, <2>1, <2>2, <3>1, <3>2
  <2> QED
    BY <1>3, <2>3 DEF On
<1> QED
  BY <1>2, <1>3, <1>5, <1>6, <1>7

\* A slab s as long as slab_chunks has all its buffers (a pigeonhole argument).
LEMMA AllInSlab ==
  ASSUME NEW s \in Slab, NEW q \in Seq(OfSlab(s)), NoDup(q), Len(q) = Chunks[s],
         NEW y \in OfSlab(s)
  PROVE  \E i \in 1 .. Len(q) : q[i] = y
<1> DEFINE n == Chunks[s]
           g == [i \in 1 .. n |-> q[i][2]]
<1>1. n \in Nat /\ NoBuf \notin OfSlab(s)
  BY OfSlabIs
<1>2. \A i \in 1 .. n : q[i] \in OfSlab(s)
  OBVIOUS
<1>3. \A i \in 1 .. n : q[i] = <<s, q[i][2]>> /\ q[i][2] \in 1 .. n
  <2>1. \A b \in OfSlab(s) : b = <<s, b[2]>> /\ b[2] \in 1 .. n
    BY DEF OfSlab
  <2> QED
    BY <1>2, <2>1
<1>4. y = <<s, y[2]>> /\ y[2] \in 1 .. n
  BY DEF OfSlab
<1>5. g \in [1 .. n -> 1 .. n] /\ \A i \in 1 .. n : g[i] = q[i][2]
  BY <1>3
<1> HIDE DEF g
<1>6. g \in Injection(1 .. n, 1 .. n)
  <2>1. ASSUME NEW i \in 1 .. n, NEW j \in 1 .. n, g[i] = g[j] PROVE i = j
    <3>1. q[i] = q[j] /\ q[i] # NoBuf
      BY <1>1, <1>2, <1>3, <1>5, <2>1
    <3> QED
      BY <3>1 DEF NoDup
  <2> QED
    BY <1>5, <2>1 DEF Injection, IsInjective
<1>7. IsFiniteSet(1 .. n)
  BY <1>1, FS_Interval
<1>8. g \in Surjection(1 .. n, 1 .. n)
  BY <1>6, <1>7, FS_Injection, Zenon
<1>9. PICK i \in 1 .. n : g[i] = y[2]
  BY <1>4, <1>8 DEF Surjection
<1>10. q[i] = <<s, y[2]>>
  BY <1>3, <1>5, <1>9
<1> QED
  BY <1>4, <1>9, <1>10

\* kmem_cache_free_global(): b is at the tail of its slab s, or the slab is gone and
\* all its other buffers were free.
Gives(sf, fl, s, b, sf2, fl2) ==
  LET fl1 == IF sf[s] = <<>> THEN <<s>> \o fl ELSE fl
  IN
  IF Len(Append(sf[s], b)) = Chunks[s]
  THEN fl2 = Unlinked(fl1, s) /\ sf2 = [x \in DOMAIN sf \ {s} |-> sf[x]]
  ELSE fl2 = fl1 /\ sf2 = [sf EXCEPT ![s] = Append(sf[s], b)]

\* A buffer given back to its slab: the slabs still fit and have gained just that
\* buffer, or lost the slab with it.
LEMMA FreeFits ==
  ASSUME NEW sf, NEW fl, SlabsFit(sf, fl), Partial(sf), NEW s \in DOMAIN sf,
         NEW b \in OfSlab(s), ~InSlab(sf, s, b), NEW sf2, NEW fl2, Gives(sf, fl, s, b, sf2, fl2)
  PROVE  /\ SlabsFit(sf2, fl2) /\ Partial(sf2)
         /\ \A x, y : InSlab(sf2, x, y) <=>
              x \in DOMAIN sf2 /\ (InSlab(sf, x, y) \/ (x = s /\ y = b))
         /\ \/ DOMAIN sf2 = DOMAIN sf
            \/ /\ DOMAIN sf2 = DOMAIN sf \ {s}
               /\ \A y \in OfSlab(s) : y = b \/ InSlab(sf, s, y)
<1> DEFINE q == sf[s]
           p == Append(q, b)
           fl1 == IF q = <<>> THEN <<s>> \o fl ELSE fl
<1>1. /\ s \in Slab /\ q \in Seq(OfSlab(s)) /\ NoDup(q) /\ Len(q) < Chunks[s]
      /\ fl \in Seq(Slab) /\ \A i, j \in 1 .. Len(fl) : fl[i] = fl[j] => i = j
      /\ \A x \in Slab : On(fl, x) <=> x \in DOMAIN sf /\ sf[x] # <<>>
      /\ DOMAIN sf \in SUBSET Slab
  BY Zenon DEF SlabsFit, Partial
<1>2. NoBuf \notin OfSlab(s) /\ Chunks[s] \in Nat
  BY <1>1, OfSlabIs
<1>3. \A i \in 1 .. Len(q) : q[i] # b
  BY DEF InSlab
<1>4. /\ p \in Seq(OfSlab(s)) /\ Len(p) = Len(q) + 1 /\ Len(q) \in Nat /\ NoDup(p) /\ p # <<>>
      /\ \A y : (\E i \in 1 .. Len(p) : p[i] = y) <=> (\E i \in 1 .. Len(q) : q[i] = y) \/ y = b
  BY <1>1, <1>2, <1>3, AppendFits
<1>5. /\ fl1 \in Seq(Slab) /\ \A i, j \in 1 .. Len(fl1) : fl1[i] = fl1[j] => i = j
      /\ \A x \in Slab : On(fl1, x) <=> On(fl, x) \/ x = s
  <2>1. CASE q = <<>>
    <3>1. /\ fl1 \in Seq(Slab) /\ Len(fl1) = Len(fl) + 1 /\ Len(fl) \in Nat /\ fl1[1] = s
          /\ \A i \in 2 .. Len(fl) + 1 : fl1[i] = fl[i - 1] /\ i - 1 \in 1 .. Len(fl)
      BY <1>1, <2>1
    <3>2. ~On(fl, s)
      BY <1>1, <2>1
    <3>3. ASSUME NEW i \in 1 .. Len(fl1), NEW j \in 1 .. Len(fl1), fl1[i] = fl1[j]
          PROVE  i = j
      <4>1. CASE i # 1 /\ j # 1
        <5>1. /\ i - 1 \in 1 .. Len(fl) /\ j - 1 \in 1 .. Len(fl) /\ fl[i - 1] = fl[j - 1]
          BY <3>1, <3>3, <4>1
        <5>2. i - 1 = j - 1
          BY <1>1, <5>1
        <5> QED
          BY <5>2
      <4>2. CASE i = 1 \/ j = 1
        BY <3>1, <3>2, <3>3, <4>2 DEF On
      <4> QED
        BY <4>1, <4>2
    <3>4. ASSUME NEW x, On(fl1, x) PROVE On(fl, x) \/ x = s
      BY <3>1, <3>4 DEF On
    <3>5. ASSUME NEW x, On(fl, x) PROVE On(fl1, x)
      <4>1. PICK i \in 1 .. Len(fl) : fl[i] = x
        BY <3>5 DEF On
      <4>2. i + 1 \in 2 .. Len(fl) + 1 /\ i + 1 \in 1 .. Len(fl1) /\ (i + 1) - 1 = i
        BY <3>1
      <4>3. fl1[i + 1] = x
        BY <3>1, <4>1, <4>2
      <4> QED
        BY <4>2, <4>3 DEF On
    <3>6. On(fl1, s)
      BY <3>1 DEF On
    <3> QED
      BY <3>1, <3>3, <3>4, <3>5, <3>6
  <2>2. CASE q # <<>>
    BY <1>1, <2>2
  <2> QED
    BY <2>1, <2>2
<1> HIDE DEF fl1
<1>6. CASE Len(p) = Chunks[s]
  <2>1. fl2 = Unlinked(fl1, s) /\ sf2 = [x \in DOMAIN sf \ {s} |-> sf[x]]
    BY <1>6 DEF Gives, fl1
  <2>2. /\ DOMAIN sf2 = DOMAIN sf \ {s} /\ sf2 = [x \in DOMAIN sf2 |-> sf2[x]]
        /\ \A x \in DOMAIN sf2 : sf2[x] = sf[x]
    BY <2>1
  <2>3. /\ fl2 \in Seq(Slab) /\ \A i, j \in 1 .. Len(fl2) : fl2[i] = fl2[j] => i = j
        /\ \A x : On(fl2, x) <=> On(fl1, x) /\ x # s
    <3>1. On(fl1, s)
      BY <1>1, <1>5
    <3>2. fl1 \in Seq(Slab) /\ \A i, j \in 1 .. Len(fl1) : fl1[i] = fl1[j] => i = j
      BY <1>5
    <3>3. /\ Unlinked(fl1, s) \in Seq(Slab)
          /\ \A i, j \in 1 .. Len(Unlinked(fl1, s)) :
               Unlinked(fl1, s)[i] = Unlinked(fl1, s)[j] => i = j
          /\ \A x : On(Unlinked(fl1, s), x) <=> On(fl1, x) /\ x # s
      BY <1>1, <3>1, <3>2, UnlinkedIs
    <3> QED
      BY <2>1, <3>3
  <2>4. Partial(sf2)
    BY <2>2 DEF Partial
  <2>5. SlabsFit(sf2, fl2)
    <3>1. \A x \in Slab : On(fl2, x) <=> x \in DOMAIN sf2 /\ sf2[x] # <<>>
      BY <1>1, <1>5, <2>2, <2>3
    <3>2. \A x \in DOMAIN sf2 :
            sf2[x] \in Seq(OfSlab(x)) /\ NoDup(sf2[x]) /\ Len(sf2[x]) <= Chunks[x]
      BY <2>2, Zenon DEF SlabsFit
    <3>3. DOMAIN sf2 \subseteq Slab
      BY <1>1, <2>2
    <3> QED
      BY <2>2, <2>3, <3>1, <3>2, <3>3, Zenon DEF SlabsFit
  <2>6. \A x, y : InSlab(sf2, x, y) <=> x \in DOMAIN sf2 /\ InSlab(sf, x, y)
    BY <2>2 DEF InSlab
  <2>7. ASSUME NEW y \in OfSlab(s) PROVE y = b \/ InSlab(sf, s, y)
    <3>1. \E i \in 1 .. Len(p) : p[i] = y
      BY <1>1, <1>4, <1>6, AllInSlab
    <3> QED
      BY <1>4, <3>1 DEF InSlab
  <2> QED
    BY <2>2, <2>4, <2>5, <2>6, <2>7
<1>7. CASE Len(p) # Chunks[s]
  <2>1. fl2 = fl1 /\ sf2 = [sf EXCEPT ![s] = p]
    BY <1>7 DEF Gives, fl1
  <2>2. /\ DOMAIN sf2 = DOMAIN sf /\ sf2 = [x \in DOMAIN sf2 |-> sf2[x]] /\ sf2[s] = p
        /\ \A x \in DOMAIN sf : x # s => sf2[x] = sf[x]
    BY <2>1 DEF SlabsFit
  <2> HIDE DEF p
  <2>3. Len(sf2[s]) < Chunks[s]
    BY <1>1, <1>2, <1>4, <1>7, <2>2
  <2>4. Partial(sf2)
    BY <2>2, <2>3 DEF Partial
  <2>5. SlabsFit(sf2, fl2)
    <3>1. \A x \in Slab : On(fl2, x) <=> x \in DOMAIN sf2 /\ sf2[x] # <<>>
      BY <1>1, <1>4, <1>5, <2>1, <2>2
    <3>2. \A x \in DOMAIN sf : x # s =>
            sf2[x] \in Seq(OfSlab(x)) /\ NoDup(sf2[x]) /\ Len(sf2[x]) <= Chunks[x]
      BY <2>2, Zenon DEF SlabsFit
    <3>3. sf2[s] \in Seq(OfSlab(s)) /\ NoDup(sf2[s]) /\ Len(sf2[s]) <= Chunks[s]
      BY <1>2, <1>4, <2>2, <2>3
    <3>4. \A x \in DOMAIN sf2 :
            sf2[x] \in Seq(OfSlab(x)) /\ NoDup(sf2[x]) /\ Len(sf2[x]) <= Chunks[x]
      BY <2>2, <3>2, <3>3, Zenon
    <3>5. DOMAIN sf2 \subseteq Slab
      BY <1>1, <2>2
    <3>6. fl2 \in Seq(Slab) /\ \A i, j \in 1 .. Len(fl2) : fl2[i] = fl2[j] => i = j
      BY <1>5, <2>1
    <3> QED
      BY <2>2, <3>1, <3>4, <3>5, <3>6, Zenon DEF SlabsFit
  <2>6. \A x, y : InSlab(sf2, x, y) <=> x \in DOMAIN sf2 /\ (InSlab(sf, x, y) \/ (x = s /\ y = b))
    <3>1. \A y : InSlab(sf2, s, y) <=> InSlab(sf, s, y) \/ y = b
      BY <1>4, <2>2, Zenon DEF InSlab
    <3>2. \A x, y : x # s => (InSlab(sf2, x, y) <=> InSlab(sf, x, y))
      BY <2>2 DEF InSlab
    <3>3. \A x, y : InSlab(sf2, x, y) => x \in DOMAIN sf2
      BY DEF InSlab
    <3> QED
      BY <2>2, <3>1, <3>2, <3>3
  <2> QED
    BY <2>2, <2>4, <2>5, <2>6
<1> QED
  BY <1>6, <1>7

-----------------------------------------------------------------------------
(* Counting magazines.                                                     *)

One(m) == IF m = NoMag THEN 0 ELSE 1

\* The magazines of a CPU, and of all of them.
Mags(r) == One(r.loaded) + One(r.full) + One(r.empty)
With(ccs, f) == {k \in CPU : ccs[k][f] # NoMag}
AllMags(ccs) ==
  Cardinality(With(ccs, "loaded")) + Cardinality(With(ccs, "full"))
    + Cardinality(With(ccs, "empty"))

\* A set of CPUs changes by one of them.
LEMMA CountOne ==
  ASSUME NEW S \in SUBSET CPU, NEW T \in SUBSET CPU, NEW k \in CPU,
         \A x \in CPU : x # k => (x \in S <=> x \in T)
  PROVE  /\ Cardinality(S) \in Nat /\ Cardinality(T) \in Nat
         /\ Cardinality(T) =
              Cardinality(S) + (IF k \in T THEN 1 ELSE 0) - (IF k \in S THEN 1 ELSE 0)
<1>1. IsFiniteSet(S) /\ IsFiniteSet(T)
  BY KmemAssumption, FS_Subset
<1>2. Cardinality(S) \in Nat /\ Cardinality(T) \in Nat
  BY <1>1, FS_CardinalityType
<1>3. /\ Cardinality(S \cup {k}) = IF k \in S THEN Cardinality(S) ELSE Cardinality(S) + 1
      /\ Cardinality(T \cup {k}) = IF k \in T THEN Cardinality(T) ELSE Cardinality(T) + 1
  BY <1>1, FS_AddElement
<1>4. S \cup {k} = T \cup {k}
  OBVIOUS
<1>5. (IF k \in S THEN Cardinality(S) ELSE Cardinality(S) + 1)
        = (IF k \in T THEN Cardinality(T) ELSE Cardinality(T) + 1)
  BY <1>3, <1>4, Zenon
<1> QED
  BY <1>2, <1>5

\* The number of all magazines changes by what one CPU gains or loses.
LEMMA CountMags ==
  ASSUME NEW ccs, NEW ccs2, NEW k \in CPU, \A x \in CPU : x # k => ccs2[x] = ccs[x]
  PROVE  /\ AllMags(ccs) \in Nat /\ AllMags(ccs2) \in Nat
         /\ AllMags(ccs2) = AllMags(ccs) + Mags(ccs2[k]) - Mags(ccs[k])
         /\ Mags(ccs[k]) \in Nat /\ Mags(ccs2[k]) \in Nat
<1>1. ASSUME NEW f
      PROVE  /\ Cardinality(With(ccs, f)) \in Nat /\ Cardinality(With(ccs2, f)) \in Nat
             /\ Cardinality(With(ccs2, f)) =
                  Cardinality(With(ccs, f)) + One(ccs2[k][f]) - One(ccs[k][f])
  <2>1. /\ With(ccs, f) \in SUBSET CPU /\ With(ccs2, f) \in SUBSET CPU
        /\ \A x \in CPU : x # k => (x \in With(ccs, f) <=> x \in With(ccs2, f))
        /\ k \in With(ccs, f) <=> ccs[k][f] # NoMag
        /\ k \in With(ccs2, f) <=> ccs2[k][f] # NoMag
    BY DEF With
  <2>2. /\ Cardinality(With(ccs, f)) \in Nat /\ Cardinality(With(ccs2, f)) \in Nat
        /\ Cardinality(With(ccs2, f)) =
             Cardinality(With(ccs, f)) + (IF k \in With(ccs2, f) THEN 1 ELSE 0)
               - (IF k \in With(ccs, f) THEN 1 ELSE 0)
    BY <2>1, CountOne
  <2> QED
    BY <2>1, <2>2 DEF One
<1>2. \A m : One(m) \in Nat
  BY DEF One
<1>3. /\ Mags(ccs[k]) = One(ccs[k]["loaded"]) + One(ccs[k]["full"]) + One(ccs[k]["empty"])
      /\ Mags(ccs2[k]) = One(ccs2[k]["loaded"]) + One(ccs2[k]["full"]) + One(ccs2[k]["empty"])
  BY DEF Mags
<1> QED
  BY <1>1, <1>2, <1>3 DEF AllMags

\* All magazines of the CPUs are counted by a natural number.
LEMMA AllMagsNat ==
  ASSUME NEW ccs
  PROVE  AllMags(ccs) \in Nat
<1>1. ASSUME NEW f PROVE Cardinality(With(ccs, f)) \in Nat
  <2>1. With(ccs, f) \in SUBSET CPU
    BY DEF With
  <2>2. IsFiniteSet(With(ccs, f))
    BY <2>1, KmemAssumption, FS_Subset
  <2> QED
    BY <2>2, FS_CardinalityType
<1> QED
  BY <1>1 DEF AllMags

\* The magazines of one CPU are counted by a natural number.
LEMMA MagsNat ==
  ASSUME NEW r
  PROVE  Mags(r) \in Nat
BY DEF Mags, One

\* What kmem_cache_magazine_purge() frees of a CPU.
LEMMA MagsOf ==
  ASSUME NEW r
  PROVE  Cardinality({f \in {"loaded", "full", "empty"} : r[f] # NoMag}) = Mags(r)
<1> DEFINE E == IF r["empty"] # NoMag THEN {"empty"} ELSE {}
           F == IF r["full"] # NoMag THEN E \cup {"full"} ELSE E
           L == IF r["loaded"] # NoMag THEN F \cup {"loaded"} ELSE F
<1>1. {f \in {"loaded", "full", "empty"} : r[f] # NoMag} = L
  OBVIOUS
<1>2. IsFiniteSet(E) /\ Cardinality(E) = One(r["empty"])
  BY FS_EmptySet, FS_Singleton DEF One
<1>3. "full" \notin E /\ "loaded" \notin F
  OBVIOUS
<1> HIDE DEF E
<1>4. IsFiniteSet(F) /\ Cardinality(F) = One(r["empty"]) + One(r["full"])
  BY <1>2, <1>3, FS_AddElement DEF One
<1> HIDE DEF F
<1>5. Cardinality(L) = One(r["empty"]) + One(r["full"]) + One(r["loaded"])
  <2>1. Cardinality(F \cup {"loaded"}) = Cardinality(F) + 1
    BY <1>3, <1>4, FS_AddElement
  <2>2. CASE r["loaded"] # NoMag
    BY <1>4, <2>1, <2>2 DEF One
  <2>3. CASE r["loaded"] = NoMag
    BY <1>4, <2>3 DEF One
  <2> QED
    BY <2>2, <2>3
<1> QED
  BY <1>1, <1>5 DEF Mags, One

-----------------------------------------------------------------------------
(* Where buffers are.                                                      *)

\* The buffers of the slabs that are created.
Buffers(sf) == UNION {OfSlab(s) : s \in DOMAIN sf}

\* y is in sequence q.
InSeq(q, y) == \E i \in 1 .. Len(q) : q[i] = y

\* y is in the magazine of the depot that is nth from the end of its list.
InDepot(fm, n, y) == n \in 1 .. Len(fm) /\ y \in Content(fm[Len(fm) + 1 - n])

\* Buffer y is in the container x of kind a.
Where(sf, fm, ccs, td, hs, hd, a, x, y) ==
  \/ a = "slab" /\ InSlab(sf, x, y)
  \/ a = "depot" /\ InDepot(fm, x, y)
  \/ a = "loaded" /\ x \in CPU /\ y \in Content(ccs[x].loaded)
  \/ a = "full" /\ x \in CPU /\ y \in Content(ccs[x].full)
  \/ a = "task" /\ x = NoMag /\ InSeq(td, y)
  \/ a = "has" /\ x \in Client /\ y \in hs[x]
  \/ a = "hand" /\ x \in Client /\ y = hd[x] /\ y # NoBuf

At(a, x, y) == Where(slab_free, fmag, cc, todo, has, hand, a, x, y)
NextAt(a, x, y) == Where(slab_free', fmag', cc', todo', has', hand', a, x, y)

\* Each buffer is in one container, and what is in one is a buffer.
Conserved ==
  /\ \A a, x, y : At(a, x, y) => y \in Buffers(slab_free)
  /\ \A y \in Buffers(slab_free) : \E a, x : At(a, x, y)
  /\ \A a, x, a2, x2, y : At(a, x, y) /\ At(a2, x2, y) => a = a2 /\ x = x2

\* A step moves the buffers in M, each to one container.
LEMMA Relocated ==
  ASSUME Conserved, Buffers(slab_free') = Buffers(slab_free), NEW M,
         \A a, x, y : y \notin M => (NextAt(a, x, y) <=> At(a, x, y)),
         \A y \in M : y \in Buffers(slab_free),
         \A y \in M : \E a1, x1 : NextAt(a1, x1, y)
                                  /\ \A a, x : NextAt(a, x, y) => a = a1 /\ x = x1
  PROVE  Conserved'
<1>1. /\ \A a, x, y : NextAt(a, x, y) => y \in Buffers(slab_free')
      /\ \A y \in Buffers(slab_free') : \E a, x : NextAt(a, x, y)
      /\ \A a, x, a2, x2, y : NextAt(a, x, y) /\ NextAt(a2, x2, y) => a = a2 /\ x = x2
  <2>1. ASSUME NEW a, NEW x, NEW y, NextAt(a, x, y) PROVE y \in Buffers(slab_free)
    BY <2>1 DEF Conserved
  <2>2. ASSUME NEW y \in Buffers(slab_free) PROVE \E a, x : NextAt(a, x, y)
    BY Zenon DEF Conserved
  <2>3. ASSUME NEW a, NEW x, NEW a2, NEW x2, NEW y, NextAt(a, x, y), NextAt(a2, x2, y)
        PROVE  a = a2 /\ x = x2
    <3>1. CASE y \in M
      BY <2>3, <3>1
    <3>2. CASE y \notin M
      <4>1. At(a, x, y) /\ At(a2, x2, y)
        BY <2>3, <3>2
      <4> QED
        BY <4>1, Zenon DEF Conserved
    <3> QED
      BY <3>1, <3>2
  <2> QED
    BY <2>1, <2>2, <2>3, Zenon
<1> QED
  BY <1>1, Zenon DEF Conserved, At, NextAt

-----------------------------------------------------------------------------
(* The inductive invariant.                                                *)

PC == {"idle", "global", "create", "ctor", "free", "needmag", "retry"}
Task == {"none", "reap", "purge", "enable", "resize", "destroy"}
Stage == {"idle", "cpus", "enable", "reap", "fmag", "emag", "setup", "dead"}

TypeOK ==
  /\ magtype \in 1 .. Len(MagSizes) /\ nmag \in Int
  /\ fmag \in Seq(Holding(Size, Size)) /\ emag \in Seq({Magazine(Size)})
  /\ fmin \in Int /\ emin \in Int /\ flim \in Int /\ elim \in Int /\ reaplimit \in Int
  /\ pc \in [Client -> PC] /\ has \in [Client -> SUBSET Buf] /\ hand \in [Client -> Slot]
  /\ ccp \in [Client -> CPU \cup {NoMag}] /\ mcp \in [Client -> Nat]
  /\ task \in Task /\ stage \in Stage /\ todo \in Seq(Buf) /\ left \in SUBSET CPU

CpusFit == cc = [k \in CPU |-> cc[k]] /\ \A k \in CPU : CpuFits(cc[k], Size)

\* What a client has in hand, and what it remembers while it gets a magazine.
ClientsFit ==
  \A c \in Client :
    /\ hand[c] = NoBuf <=> pc[c] \in {"idle", "global", "create"}
    /\ pc[c] \in {"needmag", "retry"} => ccp[c] \in CPU /\ mcp[c] \in 1 .. Len(MagSizes)

\* Which task is where, and that the cache to be destroyed is not in use.
TaskFits ==
  /\ task = "none" <=> stage = "idle"
  /\ task = "enable" <=> stage = "enable"
  /\ stage = "cpus" => task \in {"purge", "resize", "destroy"}
  /\ stage \in {"reap", "fmag", "emag"} => task \in {"reap", "resize", "destroy"}
  /\ stage = "setup" => task = "resize"
  /\ stage = "dead" => task = "destroy"
  /\ todo # <<>> => stage \in {"cpus", "fmag"}
  /\ task = "resize" => magtype < Len(MagSizes)
  /\ task = "destroy" => \A c \in Client : pc[c] = "idle" /\ has[c] = {}

\* The CPUs that were purged stay without magazines, and then the reap finds every
\* magazine of the depot within its limits.
PurgeFits ==
  /\ stage = "cpus" => \A k \in CPU \ left : cc[k].magsize = 0
  /\ task \in {"resize", "destroy"} /\ stage # "cpus" =>
       /\ \A k \in CPU : cc[k].magsize = 0
       /\ stage = "reap" => flim = Len(fmag) /\ fmin = Len(fmag)
       /\ stage = "fmag" => reaplimit = Len(fmag) /\ fmin = Len(fmag)
       /\ stage \in {"reap", "fmag"} => elim = Len(emag) /\ emin = Len(emag)
       /\ stage = "emag" => fmag = <<>> /\ reaplimit = Len(emag)
       /\ stage \in {"setup", "dead"} => fmag = <<>> /\ emag = <<>>

LayersFit == SlabsFit(slab_free, freelist) /\ Partial(slab_free) /\ NoDup(todo)

\* Every magazine taken from its cache is in the depot or on a CPU.
CountFits == nmag = Len(fmag) + Len(emag) + AllMags(cc)

\* y is in hand and its constructor has not run.
Raw(p, hd, y) == \E c \in Client : p[c] = "ctor" /\ hd[c] = y

\* Above the slab layer buffers are constructed, but for those.
ConstructedFit ==
  \A y : y \in constructed <=>
    y \in Buffers(slab_free) /\ (\A x : ~InSlab(slab_free, x, y)) /\ ~Raw(pc, hand, y)

IInv ==
  /\ TypeOK /\ CpusFit /\ ClientsFit /\ TaskFits /\ PurgeFits /\ LayersFit
  /\ CountFits /\ Conserved /\ ConstructedFit

\* A CPU k gets the state r.
LEMMA CpuSet ==
  ASSUME CpusFit, magtype' = magtype, NEW k \in CPU, NEW r, CpuFits(r, Size),
         cc' = [cc EXCEPT ![k] = r]
  PROVE  /\ CpusFit' /\ cc'[k] = r
         /\ \A x \in CPU : x # k => cc'[x] = cc[x]
<1>1. cc'[k] = r /\ (\A x \in CPU : x # k => cc'[x] = cc[x]) /\ cc' = [x \in CPU |-> cc'[x]]
  BY DEF CpusFit
<1>2. \A x \in CPU : CpuFits(cc'[x], Size)
  BY <1>1, Zenon DEF CpusFit
<1>3. Size' = Size
  BY DEF Size
<1> QED
  BY <1>1, <1>2, <1>3, Zenon DEF CpusFit

\* A step of a client leaves the task alone; it changes the depot only on behalf of a
\* CPU that has magazines.
LEMMA TaskKept ==
  ASSUME TaskFits, PurgeFits, UNCHANGED <<taskq, magtype>>, task # "destroy",
         \A k \in CPU : cc'[k].magsize = cc[k].magsize,
         UNCHANGED depot \/ \E k \in CPU : cc[k].magsize # 0
  PROVE  TaskFits' /\ PurgeFits'
<1>1. TaskFits'
  BY DEF TaskFits, taskq
<1>2. task' = task /\ stage' = stage /\ left' = left /\ reaplimit' = reaplimit
  BY DEF taskq
<1>3. \A k \in CPU : cc'[k].magsize = 0 <=> cc[k].magsize = 0
  OBVIOUS
<1>4. CASE UNCHANGED depot
  <2>1. fmag' = fmag /\ emag' = emag /\ fmin' = fmin /\ emin' = emin /\ flim' = flim /\ elim' = elim
    BY <1>4 DEF depot
  <2> QED
    BY <1>1, <1>2, <1>3, <2>1 DEF PurgeFits
<1>5. CASE \E k \in CPU : cc[k].magsize # 0
  <2>1. task \notin {"resize", "destroy"} \/ stage = "cpus"
    BY <1>5 DEF PurgeFits
  <2> QED
    BY <1>1, <1>2, <1>3, <2>1 DEF PurgeFits
<1> QED
  BY <1>1, <1>4, <1>5

\* Buffers are what Buf says, and not NoBuf.
LEMMA BuffersAre ==
  ASSUME SlabsFit(slab_free, freelist)
  PROVE  /\ \A y \in Buffers(slab_free) :
              y \in Buf /\ y # NoBuf /\ y[1] \in DOMAIN slab_free /\ y \in OfSlab(y[1])
         /\ \A s \in DOMAIN slab_free : s \in Slab /\ \A y \in OfSlab(s) : y \in Buffers(slab_free)
<1>1. \A s \in DOMAIN slab_free : s \in Slab
  BY DEF SlabsFit
<1>2. ASSUME NEW s \in DOMAIN slab_free, NEW y \in OfSlab(s)
      PROVE  y \in Buf /\ y # NoBuf /\ y[1] = s
  BY <1>1, OfSlabIs
<1> QED
  BY <1>1, <1>2 DEF Buffers

\* The magazines of the depot.
LEMMA DepotMags ==
  ASSUME TypeOK
  PROVE  /\ Size \in Nat /\ Size > 0
         /\ \A i \in 1 .. Len(fmag) : fmag[i] \in Holding(Size, Size)
         /\ \A i \in 1 .. Len(emag) : emag[i] = Magazine(Size)
         /\ Len(fmag) \in Nat /\ Len(emag) \in Nat
<1>1. Size \in Nat /\ Size > 0
  BY SizeProperties DEF TypeOK
<1>2. fmag \in Seq(Holding(Size, Size)) /\ emag \in Seq({Magazine(Size)})
  BY DEF TypeOK
<1> QED
  BY <1>1, <1>2

\* A magazine leaves the head of the depot's list, or is added there.
LEMMA DepotPop ==
  ASSUME NEW S, NEW fm \in Seq(S), fm # <<>>
  PROVE  /\ Head(fm) \in S /\ Tail(fm) \in Seq(S) /\ Len(Tail(fm)) = Len(fm) - 1
         /\ Len(fm) \in Nat /\ Len(fm) > 0
         /\ \A x, y : InDepot(Tail(fm), x, y) <=> InDepot(fm, x, y) /\ x # Len(fm)
         /\ \A y : InDepot(fm, Len(fm), y) <=> y \in Content(Head(fm))
<1>1. /\ Len(fm) \in Nat /\ Len(fm) > 0 /\ Head(fm) = fm[1] /\ Head(fm) \in S
      /\ Tail(fm) \in Seq(S) /\ Len(Tail(fm)) = Len(fm) - 1
      /\ \A i \in 1 .. Len(fm) - 1 : Tail(fm)[i] = fm[i + 1]
  OBVIOUS
<1>2. ASSUME NEW x \in 1 .. Len(fm) - 1 PROVE Tail(fm)[Len(Tail(fm)) + 1 - x] = fm[Len(fm) + 1 - x]
  <2>1. Len(fm) - x \in 1 .. Len(fm) - 1
    BY <1>1
  <2>2. Tail(fm)[Len(fm) - x] = fm[(Len(fm) - x) + 1]
    BY <1>1, <2>1
  <2>3. Len(Tail(fm)) + 1 - x = Len(fm) - x /\ (Len(fm) - x) + 1 = Len(fm) + 1 - x
    BY <1>1
  <2> QED
    BY <2>2, <2>3
<1>3. \A x : x \in 1 .. Len(Tail(fm)) <=> x \in 1 .. Len(fm) /\ x # Len(fm)
  BY <1>1
<1>4. Len(Tail(fm)) = Len(fm) - 1 /\ Len(fm) + 1 - Len(fm) = 1 /\ Len(fm) \in 1 .. Len(fm)
  BY <1>1
<1>5. \A x, y : InDepot(Tail(fm), x, y) <=> InDepot(fm, x, y) /\ x # Len(fm)
  <2>1. ASSUME NEW x \in 1 .. Len(fm) - 1, NEW y
        PROVE  InDepot(Tail(fm), x, y) <=> InDepot(fm, x, y) /\ x # Len(fm)
    BY <1>1, <1>2, <1>3 DEF InDepot
  <2> QED
    BY <1>3, <1>4, <2>1 DEF InDepot
<1> QED
  BY <1>1, <1>4, <1>5 DEF InDepot

\* A magazine added at the head of the depot's list.
LEMMA DepotPush ==
  ASSUME NEW S, NEW fm \in Seq(S), NEW q \in S
  PROVE  /\ <<q>> \o fm \in Seq(S) /\ Len(<<q>> \o fm) = Len(fm) + 1 /\ Len(fm) \in Nat
         /\ \A x, y : InDepot(<<q>> \o fm, x, y) <=>
              InDepot(fm, x, y) \/ (x = Len(fm) + 1 /\ y \in Content(q))
<1> DEFINE f == <<q>> \o fm
<1>1. /\ f \in Seq(S) /\ Len(f) = Len(fm) + 1 /\ Len(fm) \in Nat /\ f[1] = q
      /\ \A i \in 2 .. Len(fm) + 1 : f[i] = fm[i - 1]
  OBVIOUS
<1> HIDE DEF f
<1>2. ASSUME NEW x \in 1 .. Len(fm) PROVE f[Len(f) + 1 - x] = fm[Len(fm) + 1 - x]
  <2>1. Len(fm) + 2 - x \in 2 .. Len(fm) + 1
    BY <1>1
  <2>2. f[Len(fm) + 2 - x] = fm[(Len(fm) + 2 - x) - 1]
    BY <1>1, <2>1
  <2>3. Len(f) + 1 - x = Len(fm) + 2 - x /\ (Len(fm) + 2 - x) - 1 = Len(fm) + 1 - x
    BY <1>1
  <2> QED
    BY <2>2, <2>3
<1>3. \A y : InDepot(f, Len(fm) + 1, y) <=> y \in Content(q)
  <2>1. Len(f) + 1 - (Len(fm) + 1) = 1 /\ Len(fm) + 1 \in 1 .. Len(f)
    BY <1>1
  <2> QED
    BY <1>1, <2>1 DEF InDepot
<1>4. \A x \in 1 .. Len(fm) : \A y : InDepot(f, x, y) <=> InDepot(fm, x, y)
  BY <1>1, <1>2 DEF InDepot
<1>5. /\ \A x, y : InDepot(f, x, y) => x \in 1 .. Len(fm) \/ x = Len(fm) + 1
      /\ \A x, y : InDepot(fm, x, y) => x \in 1 .. Len(fm)
  BY <1>1 DEF InDepot
<1> QED
  BY <1>1, <1>3, <1>4, <1>5 DEF f

-----------------------------------------------------------------------------
(* Steps of clients.                                                       *)

\* What SMT needs to know of the state as a whole is said once.
UnchangedSlabs == slab_free' = slab_free /\ freelist' = freelist /\ constructed' = constructed

\* The slab layer when nothing in it changes.
LEMMA SameSlabs ==
  ASSUME LayersFit, ConstructedFit, UnchangedSlabs, todo' = todo,
         \A y : Raw(pc', hand', y) <=> Raw(pc, hand, y)
  PROVE  LayersFit' /\ ConstructedFit' /\ Buffers(slab_free') = Buffers(slab_free)
<1>1. LayersFit'
  BY DEF LayersFit, UnchangedSlabs
<1>2. ConstructedFit'
  BY DEF ConstructedFit, UnchangedSlabs
<1> QED
  BY <1>1, <1>2 DEF UnchangedSlabs

\* The sums of CountKept: A magazines on the CPUs become B when one CPU has q for p, the
\* lists get the lengths f2 and e2, and the count n becomes n2.
Sums(n, n2, d, A, B, p, q, f, e, f2, e2) ==
  /\ A \in Nat /\ p \in Nat /\ q \in Nat /\ d \in Int
  /\ f \in Nat /\ e \in Nat /\ f2 \in Nat /\ e2 \in Nat
  /\ n = f + e + A /\ n2 = n + d /\ B = A + q - p /\ f2 + e2 + q = f + e + p + d

\* The count still adds up.
LEMMA Balance ==
  ASSUME NEW n, NEW n2, NEW d, NEW A, NEW B, NEW p, NEW q, NEW f, NEW e, NEW f2, NEW e2,
         Sums(n, n2, d, A, B, p, q, f, e, f2, e2)
  PROVE  n2 = f2 + e2 + B
BY DEF Sums

\* A step moves magazines between the depot and CPU k, and gets or frees some.
LEMMA CountKept ==
  ASSUME CountFits, NEW k \in CPU, \A x \in CPU : x # k => cc'[x] = cc[x],
         Len(fmag) \in Nat, Len(emag) \in Nat, Len(fmag') \in Nat, Len(emag') \in Nat,
         NEW d \in Int, nmag' = nmag + d,
         Len(fmag') + Len(emag') + Mags(cc'[k]) = Len(fmag) + Len(emag) + Mags(cc[k]) + d
  PROVE  CountFits'
<1>1. /\ AllMags(cc) \in Nat /\ AllMags(cc') = AllMags(cc) + Mags(cc'[k]) - Mags(cc[k])
      /\ Mags(cc[k]) \in Nat /\ Mags(cc'[k]) \in Nat
  BY CountMags
<1>2. nmag = Len(fmag) + Len(emag) + AllMags(cc)
  BY DEF CountFits
<1>3. Sums(nmag, nmag', d, AllMags(cc), AllMags(cc'), Mags(cc[k]), Mags(cc'[k]),
           Len(fmag), Len(emag), Len(fmag'), Len(emag'))
  BY <1>1, <1>2, Zenon DEF Sums
<1>4. nmag' = Len(fmag') + Len(emag') + AllMags(cc')
  BY <1>3, Balance
<1> QED
  BY <1>4 DEF CountFits

\* A step only moves magazines between the depot and CPU k.
LEMMA CountSame ==
  ASSUME CountFits, NEW k \in CPU, \A x \in CPU : x # k => cc'[x] = cc[x],
         NEW S, NEW T, fmag \in Seq(S), emag \in Seq(T), fmag' \in Seq(S), emag' \in Seq(T),
         nmag \in Int, nmag' = nmag,
         Len(fmag') + Len(emag') + Mags(cc'[k]) = Len(fmag) + Len(emag) + Mags(cc[k])
  PROVE  CountFits'
<1>1. Len(fmag) \in Nat /\ Len(emag) \in Nat /\ Len(fmag') \in Nat /\ Len(emag') \in Nat
  BY LenProperties, Zenon
<1>2. nmag' = nmag + 0 /\ 0 \in Int
  OBVIOUS
<1>3. Len(fmag') + Len(emag') + Mags(cc'[k]) = Len(fmag) + Len(emag) + Mags(cc[k]) + 0
  BY <1>1, MagsNat
<1> QED
  BY <1>1, <1>2, <1>3, CountKept, Zenon

\* kmem_cache_alloc() takes the top round of a magazine that is loaded, or was just
\* loaded, which gives the CPU the state r.
LEMMA AllocStep ==
  ASSUME IInv, NEW c \in Client, NEW k \in CPU, Allocating(c, k), NEW r, CpuFits(r, Size),
         r.rounds > 0, r.magsize = cc[k].magsize, TakeRound(c, k, r),
         UNCHANGED <<magtype, nmag, slabs, pc, hand, ccp, mcp, taskq>>,
         fmag' \in Seq(Holding(Size, Size)), emag' \in Seq({Magazine(Size)}),
         fmin' \in Int, emin' \in Int, flim' \in Int, elim' \in Int,
         UNCHANGED depot \/ cc[k].magsize # 0,
         Len(fmag') + Len(emag') + Mags(r) = Len(fmag) + Len(emag) + Mags(cc[k]),
         NEW a0 \in {"loaded", "full", "depot"}, NEW x0, a0 # "depot" => x0 = k,
         \A y \in Content(r.loaded) : At(a0, x0, y),
         \A x, y : y \notin Content(r.loaded) =>
           /\ InDepot(fmag', x, y) <=> InDepot(fmag, x, y)
           /\ y \in Content(r.full) <=> y \in Content(cc[k].full)
           /\ y \notin Content(cc[k].loaded),
         \A x, y : y \in Content(r.loaded) => ~InDepot(fmag', x, y) /\ y \notin Content(r.full)
  PROVE  IInv'
<1> DEFINE b == r.loaded[r.rounds]
<1>1. /\ TypeOK /\ CpusFit /\ ClientsFit /\ TaskFits /\ PurgeFits /\ LayersFit
      /\ CountFits /\ Conserved /\ ConstructedFit
  BY DEF IInv
<1>2. /\ magtype' = magtype /\ nmag' = nmag /\ pc' = pc /\ hand' = hand /\ ccp' = ccp /\ mcp' = mcp
      /\ UNCHANGED taskq /\ todo' = todo /\ UnchangedSlabs /\ Size' = Size
  BY DEF slabs, taskq, UnchangedSlabs, Size
<1>3. Size \in Nat /\ Size > 0
  BY <1>1, DepotMags
<1>4. /\ CpuFits(Taken(r), Size) /\ b \in Buf /\ b \in Content(r.loaded)
      /\ Content(Taken(r).loaded) = Content(r.loaded) \ {b}
      /\ Taken(r).full = r.full /\ Taken(r).empty = r.empty /\ Taken(r).magsize = r.magsize
      /\ Taken(r).loaded # NoMag /\ r.loaded # NoMag
  BY <1>3, TakenFits
<1>5. cc' = [cc EXCEPT ![k] = Taken(r)] /\ has' = [has EXCEPT ![c] = @ \cup {b}]
  BY DEF TakeRound, Taken
<1> HIDE DEF b
<1>6. CpusFit' /\ cc'[k] = Taken(r) /\ \A x \in CPU : x # k => cc'[x] = cc[x]
  BY <1>1, <1>2, <1>4, <1>5, CpuSet
<1>7. has' \in [Client -> SUBSET Buf] /\ has'[c] = has[c] \cup {b}
      /\ \A x \in Client : x # c => has'[x] = has[x]
  BY <1>1, <1>4, <1>5 DEF TypeOK
<1>8. TypeOK'
  BY <1>1, <1>2, <1>7 DEF TypeOK, taskq
<1>9. ClientsFit'
  BY <1>1, <1>2 DEF ClientsFit
<1>10. TaskFits' /\ PurgeFits'
  <2>1. task # "destroy"
    BY DEF Allocating, Alive
  <2>2. \A x \in CPU : cc'[x].magsize = cc[x].magsize
    BY <1>4, <1>6
  <2> QED
    BY <1>1, <1>2, <2>1, <2>2, TaskKept
<1>11. LayersFit' /\ ConstructedFit' /\ Buffers(slab_free') = Buffers(slab_free)
  BY <1>1, <1>2, SameSlabs
<1>12. CountFits'
  <2>1. Mags(cc'[k]) = Mags(r)
    BY <1>4, <1>6 DEF Mags, One
  <2>2. /\ fmag \in Seq(Holding(Size, Size)) /\ emag \in Seq({Magazine(Size)}) /\ nmag \in Int
        /\ nmag' = nmag /\ CountFits
    BY <1>1, <1>2, Zenon DEF TypeOK
  <2>3. Len(fmag') + Len(emag') + Mags(cc'[k]) = Len(fmag) + Len(emag) + Mags(cc[k])
    BY <2>1, Zenon
  <2> QED
    BY <1>6, <2>2, <2>3, CountSame, Zenon
<1>13. Conserved'
  <2> DEFINE M == Content(r.loaded)
  <2>1. /\ slab_free' = slab_free /\ todo' = todo /\ hand' = hand
    BY <1>2 DEF UnchangedSlabs
  <2>2. /\ cc'[k].full = r.full /\ Content(cc'[k].loaded) = M \ {b} /\ b \in M
    BY <1>4, <1>6
  <2> HIDE DEF M
  <2>3. ASSUME NEW a, NEW x, NEW y, y \notin M PROVE NextAt(a, x, y) <=> At(a, x, y)
    <3>1. /\ InDepot(fmag', x, y) <=> InDepot(fmag, x, y)
          /\ y \in Content(r.full) <=> y \in Content(cc[k].full)
          /\ y \notin Content(cc[k].loaded)
      BY <2>3 DEF M
    <3>2. x \in CPU => (y \in Content(cc'[x].loaded) <=> y \in Content(cc[x].loaded))
                       /\ (y \in Content(cc'[x].full) <=> y \in Content(cc[x].full))
      BY <1>6, <2>2, <2>3, <3>1
    <3>3. x \in Client => (y \in has'[x] <=> y \in has[x])
      BY <1>7, <2>2, <2>3
    <3> QED
      BY <2>1, <3>1, <3>2, <3>3, Zenon DEF NextAt, At, Where
  <2>4. \A y \in M : y \in Buffers(slab_free)
    BY <1>1, Zenon DEF Conserved, M
  <2>5. ASSUME NEW y \in M
        PROVE  \E a1, x1 : NextAt(a1, x1, y) /\ \A a, x : NextAt(a, x, y) => a = a1 /\ x = x1
    <3>1. At(a0, x0, y)
      BY DEF M
    <3>2. \A a, x : At(a, x, y) => a = a0 /\ x = x0
      BY <1>1, <3>1, Zenon DEF Conserved
    <3>3. \A x : ~InDepot(fmag', x, y) /\ y \notin Content(r.full)
      BY DEF M
    <3>4. ASSUME NEW a, NEW x, NextAt(a, x, y)
          PROVE  IF y = b THEN a = "has" /\ x = c ELSE a = "loaded" /\ x = k
      <4>1. CASE At(a, x, y)
        <5>1. a = a0 /\ x = x0
          BY <3>2, <4>1
        <5>2. a \in {"loaded", "full"} /\ x = k
          BY <3>3, <3>4, <5>1, Zenon DEF NextAt, Where
        <5>3. y \in Content(cc'[k].loaded)
          BY <2>2, <3>3, <3>4, <5>2 DEF NextAt, Where
        <5> QED
          BY <2>2, <3>4, <5>2, <5>3, <3>3 DEF NextAt, Where
      <4>2. CASE ~At(a, x, y)
        <5>1. CASE a = "loaded" /\ x = k
          BY <2>2, <3>4, <5>1 DEF NextAt, Where
        <5>2. CASE a = "has" /\ x = c
          BY <1>7, <3>4, <4>2, <5>2 DEF NextAt, At, Where
        <5>3. CASE ~(a = "loaded" /\ x = k) /\ ~(a = "has" /\ x = c)
          BY <1>6, <1>7, <2>1, <2>2, <3>3, <3>4, <4>2, <5>3 DEF NextAt, At, Where
        <5> QED
          BY <5>1, <5>2, <5>3
      <4> QED
        BY <4>1, <4>2
    <3>5. IF y = b THEN NextAt("has", c, y) ELSE NextAt("loaded", k, y)
      BY <1>7, <2>2 DEF NextAt, Where
    <3> QED
      BY <3>4, <3>5
  <2> QED
    BY <1>1, <1>11, <2>3, <2>4, <2>5, Relocated
<1> QED
  BY <1>6, <1>8, <1>9, <1>10, <1>11, <1>12, <1>13 DEF IInv

\* What the invariant says of CPU k and of the depot, as the steps need it.
LEMMA CpuFacts ==
  ASSUME IInv, NEW k \in CPU
  PROVE  /\ Size \in Nat /\ Size > 0 /\ CpuFits(cc[k], Size)
         /\ fmag \in Seq(Holding(Size, Size)) /\ emag \in Seq({Magazine(Size)})
         /\ fmin \in Int /\ emin \in Int /\ flim \in Int /\ elim \in Int
         /\ Len(fmag) \in Nat /\ Len(emag) \in Nat
         /\ Mags(cc[k]) \in Nat
         /\ \A y : y \in Content(cc[k].loaded) <=> At("loaded", k, y)
         /\ \A y : y \in Content(cc[k].full) <=> At("full", k, y)
         /\ \A x, y : InDepot(fmag, x, y) <=> At("depot", x, y)
         /\ \A a, x, a2, x2, y : At(a, x, y) /\ At(a2, x2, y) => a = a2 /\ x = x2
<1>1. TypeOK /\ CpusFit /\ Conserved
  BY DEF IInv
<1>2. Size \in Nat /\ Size > 0 /\ Len(fmag) \in Nat /\ Len(emag) \in Nat
  BY <1>1, DepotMags
<1>3. CpuFits(cc[k], Size)
  BY <1>1 DEF CpusFit
<1>4. /\ fmag \in Seq(Holding(Size, Size)) /\ emag \in Seq({Magazine(Size)})
      /\ fmin \in Int /\ emin \in Int /\ flim \in Int /\ elim \in Int
  BY <1>1 DEF TypeOK
<1>5. Mags(cc[k]) \in Nat
  BY DEF Mags, One
<1>6. /\ \A y : y \in Content(cc[k].loaded) <=> At("loaded", k, y)
      /\ \A y : y \in Content(cc[k].full) <=> At("full", k, y)
      /\ \A x, y : InDepot(fmag, x, y) <=> At("depot", x, y)
  BY DEF At, Where
<1>7. \A a, x, a2, x2, y : At(a, x, y) /\ At(a2, x2, y) => a = a2 /\ x = x2
  BY <1>1, Zenon DEF Conserved
<1> QED
  BY <1>2, <1>3, <1>4, <1>5, <1>6, <1>7

\* A round of the loaded magazine is given out.
LEMMA AllocLoadedStep ==
  ASSUME IInv, NEW c \in Client, NEW k \in CPU, AllocLoaded(c, k)
  PROVE  IInv'
<1> DEFINE r == cc[k]
<1>1. /\ Allocating(c, k) /\ r.rounds > 0 /\ TakeRound(c, k, r)
      /\ UNCHANGED depot /\ fmag' = fmag /\ emag' = emag
      /\ fmin' = fmin /\ emin' = emin /\ flim' = flim /\ elim' = elim
      /\ UNCHANGED <<magtype, nmag, slabs, pc, hand, ccp, mcp, taskq>>
  BY DEF AllocLoaded, depot
<1>2. /\ CpuFits(r, Size) /\ fmag' \in Seq(Holding(Size, Size)) /\ emag' \in Seq({Magazine(Size)})
      /\ fmin' \in Int /\ emin' \in Int /\ flim' \in Int /\ elim' \in Int
  BY <1>1, CpuFacts
<1>3. \A y \in Content(r.loaded) : At("loaded", k, y)
  BY CpuFacts
<1>4. \A x, y : y \in Content(r.loaded) => ~InDepot(fmag', x, y) /\ y \notin Content(r.full)
  <2>1. ASSUME NEW x, NEW y, At("loaded", k, y) PROVE ~At("depot", x, y) /\ ~At("full", k, y)
    BY <2>1, CpuFacts
  <2> QED
    BY <1>1, <2>1, CpuFacts
<1> HIDE DEF r
<1>5. /\ r.magsize = cc[k].magsize /\ Mags(r) = Mags(cc[k])
      /\ r.full = cc[k].full /\ r.loaded = cc[k].loaded
  BY DEF r
<1>6. \A x, y : y \notin Content(r.loaded) =>
        /\ InDepot(fmag', x, y) <=> InDepot(fmag, x, y)
        /\ y \in Content(r.full) <=> y \in Content(cc[k].full)
        /\ y \notin Content(cc[k].loaded)
  BY <1>1, <1>5
<1>7. Len(fmag') + Len(emag') + Mags(r) = Len(fmag) + Len(emag) + Mags(cc[k])
  BY <1>1, <1>5
<1> QED
  BY <1>1, <1>2, <1>3, <1>4, <1>5, <1>6, <1>7, AllocStep

\* A round of the full spare is given out.
LEMMA AllocFullStep ==
  ASSUME IInv, NEW c \in Client, NEW k \in CPU, AllocFull(c, k)
  PROVE  IInv'
<1> DEFINE r == FullLoaded(cc[k])
<1>1. /\ Allocating(c, k) /\ cc[k].rounds <= 0 /\ cc[k].full # NoMag /\ TakeRound(c, k, r)
      /\ UNCHANGED depot /\ fmag' = fmag /\ emag' = emag
      /\ fmin' = fmin /\ emin' = emin /\ flim' = flim /\ elim' = elim
      /\ UNCHANGED <<magtype, nmag, slabs, pc, hand, ccp, mcp, taskq>>
  BY DEF AllocFull, depot
<1>2. /\ fmag' \in Seq(Holding(Size, Size)) /\ emag' \in Seq({Magazine(Size)})
      /\ fmin' \in Int /\ emin' \in Int /\ flim' \in Int /\ elim' \in Int
  BY <1>1, CpuFacts
<1>3. /\ CpuFits(r, Size) /\ r.rounds > 0 /\ r.loaded = cc[k].full /\ r.full = NoMag
      /\ r.empty = cc[k].loaded /\ r.magsize = cc[k].magsize
      /\ cc[k].loaded # NoMag /\ cc[k].empty = NoMag /\ Content(cc[k].loaded) = {}
  BY <1>1, CpuFacts, FullLoadedFits
<1> HIDE DEF r
<1>4. \A y \in Content(r.loaded) : At("full", k, y)
  BY <1>3, CpuFacts
<1>5. Content(r.full) = {}
  BY <1>3 DEF Content
<1>6. \A x, y : y \in Content(r.loaded) => ~InDepot(fmag', x, y) /\ y \notin Content(r.full)
  <2>1. ASSUME NEW x, NEW y, At("full", k, y) PROVE ~At("depot", x, y)
    BY <2>1, CpuFacts
  <2> QED
    BY <1>1, <1>4, <1>5, <2>1, CpuFacts
<1>7. \A x, y : y \notin Content(r.loaded) =>
        /\ InDepot(fmag', x, y) <=> InDepot(fmag, x, y)
        /\ y \in Content(r.full) <=> y \in Content(cc[k].full)
        /\ y \notin Content(cc[k].loaded)
  BY <1>1, <1>3, <1>5
<1>8. Len(fmag') + Len(emag') + Mags(r) = Len(fmag) + Len(emag) + Mags(cc[k])
  <2>1. Mags(r) = Mags(cc[k])
    BY <1>1, <1>3 DEF Mags, One
  <2> QED
    BY <1>1, <2>1
<1> QED
  BY <1>1, <1>2, <1>3, <1>4, <1>6, <1>7, <1>8, AllocStep

\* A round of a full magazine from the depot is given out.
LEMMA AllocDepotStep ==
  ASSUME IInv, NEW c \in Client, NEW k \in CPU, AllocDepot(c, k)
  PROVE  IInv'
<1> DEFINE o == cc[k]
           q == Head(fmag)
           r == FullFromDepot(o, q)
           overflow == o.loaded # NoMag /\ o.empty # NoMag
<1>1. /\ Allocating(c, k) /\ o.rounds <= 0 /\ o.full = NoMag /\ o.magsize # 0 /\ TakeRound(c, k, r)
      /\ fmag # <<>> /\ fmag' = Tail(fmag) /\ fmin' = Least(fmin, Len(fmag) - 1)
      /\ emag' = IF overflow THEN <<o.loaded>> \o emag ELSE emag
      /\ emin' = emin /\ flim' = flim /\ elim' = elim
      /\ UNCHANGED <<magtype, nmag, slabs, pc, hand, ccp, mcp, taskq>>
  BY DEF AllocDepot, FullFromDepot
<1>2. /\ CpuFits(o, Size) /\ Size \in Nat /\ Size > 0 /\ fmag \in Seq(Holding(Size, Size))
      /\ emag \in Seq({Magazine(Size)}) /\ Len(emag) \in Nat /\ Mags(o) \in Nat
      /\ fmin \in Int /\ emin' \in Int /\ flim' \in Int /\ elim' \in Int
  BY <1>1, CpuFacts
<1>3. /\ q \in Holding(Size, Size) /\ fmag' \in Seq(Holding(Size, Size))
      /\ Len(fmag') = Len(fmag) - 1 /\ Len(fmag) \in Nat
      /\ \A x, y : InDepot(fmag', x, y) <=> InDepot(fmag, x, y) /\ x # Len(fmag)
      /\ \A y : InDepot(fmag, Len(fmag), y) <=> y \in Content(q)
  BY <1>1, <1>2, DepotPop
<1> HIDE DEF q
<1>4. /\ CpuFits(r, Size) /\ r.rounds > 0 /\ r.loaded = q /\ r.full = NoMag /\ r.magsize = o.magsize
      /\ r.empty = (IF o.loaded # NoMag /\ o.empty = NoMag THEN o.loaded ELSE o.empty)
      /\ Content(o.loaded) = {} /\ q # NoMag
  <2>1. /\ Size \in Nat /\ Size > 0 /\ CpuFits(o, Size) /\ o.rounds <= 0 /\ o.full = NoMag
        /\ o.magsize # 0 /\ q \in Holding(Size, Size)
    BY <1>1, <1>2, <1>3
  <2> HIDE DEF o
  <2> QED
    BY <2>1, FullFromDepotFits
<1>5. o.loaded # NoMag => o.loaded = Magazine(Size)
  BY <1>1, <1>2, LoadedIs
<1>6. o.loaded = NoMag => o.empty = NoMag
  BY <1>2 DEF CpuFits
<1> HIDE DEF r
<1>7. emag' \in Seq({Magazine(Size)}) /\ Len(emag') = Len(emag) + (IF overflow THEN 1 ELSE 0)
  <2>1. CASE overflow
    <3>1. o.loaded = Magazine(Size)
      BY <1>5, <2>1
    <3> HIDE DEF o
    <3> QED
      BY <1>1, <1>2, <2>1, <3>1
  <2>2. CASE ~overflow
    BY <1>1, <1>2, <2>2
  <2> QED
    BY <2>1, <2>2
<1>8. fmin' \in Int
  BY <1>1, <1>2, <1>3 DEF Least
<1>9. \A y \in Content(r.loaded) : At("depot", Len(fmag), y)
  BY <1>3, <1>4, CpuFacts
<1>10. Content(r.full) = {} /\ Content(o.full) = {}
  BY <1>1, <1>4 DEF Content
<1>11. \A x, y : y \in Content(r.loaded) => ~InDepot(fmag', x, y) /\ y \notin Content(r.full)
  <2>1. ASSUME NEW x, NEW y, At("depot", Len(fmag), y), x # Len(fmag) PROVE ~At("depot", x, y)
    BY <2>1, CpuFacts
  <2> QED
    BY <1>3, <1>9, <1>10, <2>1, CpuFacts
<1>12. \A x, y : y \notin Content(r.loaded) =>
        /\ InDepot(fmag', x, y) <=> InDepot(fmag, x, y)
        /\ y \in Content(r.full) <=> y \in Content(o.full)
        /\ y \notin Content(o.loaded)
  BY <1>3, <1>4, <1>10
<1>13. Len(fmag') + Len(emag') + Mags(r) = Len(fmag) + Len(emag) + Mags(o)
  <2>1. Mags(r) = Mags(o) + (IF overflow THEN 0 ELSE 1)
    BY <1>1, <1>4, <1>6 DEF Mags, One
  <2> QED
    BY <1>2, <1>3, <1>7, <2>1
<1> QED
  BY <1>1, <1>2, <1>3, <1>4, <1>7, <1>8, <1>9, <1>11, <1>12, <1>13, AllocStep

\* The buffer a client frees was given to it, or is in its hand since before it got a
\* magazine; only the client has it.
LEMMA FreeingFacts ==
  ASSUME IInv, NEW c \in Client, NEW k \in CPU, NEW b, Freeing(c, k, b)
  PROVE  /\ b \in Buf /\ b # NoBuf /\ b \in Buffers(slab_free) /\ task # "destroy"
         /\ pc[c] \in {"idle", "retry"} /\ hand[c] \in {b, NoBuf}
         /\ \A a, x : At(a, x, b) => a \in {"has", "hand"} /\ x = c
         /\ At("has", c, b) \/ At("hand", c, b)
<1>1. TypeOK /\ ClientsFit /\ TaskFits /\ Conserved
  BY DEF IInv
<1>2. CASE pc[c] = "idle" /\ b \in has[c]
  <2>1. At("has", c, b)
    BY <1>2 DEF At, Where
  <2>2. b \in Buf /\ b # NoBuf
    BY <1>1, <1>2, KmemAssumption DEF TypeOK, Buf
  <2>3. hand[c] = NoBuf
    BY <1>1, <1>2 DEF ClientsFit
  <2>4. task # "destroy"
    BY <1>1, <1>2 DEF TaskFits
  <2>5. b \in Buffers(slab_free) /\ \A a, x : At(a, x, b) => a = "has" /\ x = c
    BY <1>1, <2>1, Zenon DEF Conserved
  <2> QED
    BY <1>2, <2>1, <2>2, <2>3, <2>4, <2>5
<1>3. CASE pc[c] = "retry" /\ b = hand[c]
  <2>1. b # NoBuf
    BY <1>1, <1>3 DEF ClientsFit
  <2>2. At("hand", c, b)
    BY <1>3, <2>1 DEF At, Where
  <2>3. b \in Buf
    BY <1>1, <1>3, <2>1 DEF TypeOK, Slot
  <2>4. task # "destroy"
    BY <1>1, <1>3 DEF TaskFits
  <2>5. b \in Buffers(slab_free) /\ \A a, x : At(a, x, b) => a = "hand" /\ x = c
    BY <1>1, <2>2, Zenon DEF Conserved
  <2> QED
    BY <1>3, <2>1, <2>2, <2>3, <2>4, <2>5
<1> QED
  BY <1>2, <1>3 DEF Freeing

\* The client's state after the call has returned.
LEMMA ReturnedFacts ==
  ASSUME TypeOK, ClientsFit, NEW c \in Client, NEW b, Returned(c, b)
  PROVE  /\ pc' \in [Client -> PC] /\ has' \in [Client -> SUBSET Buf] /\ hand' \in [Client -> Slot]
         /\ ccp' \in [Client -> CPU \cup {NoMag}] /\ mcp' \in [Client -> Nat]
         /\ ClientsFit' /\ pc'[c] = "idle" /\ hand'[c] = NoBuf /\ has'[c] = has[c] \ {b}
         /\ \A x \in Client : x # c => has'[x] = has[x] /\ hand'[x] = hand[x] /\ pc'[x] = pc[x]
<1>1. /\ pc' \in [Client -> PC] /\ has' \in [Client -> SUBSET Buf] /\ hand' \in [Client -> Slot]
      /\ ccp' \in [Client -> CPU \cup {NoMag}] /\ mcp' \in [Client -> Nat]
  BY DEF TypeOK, Returned, Goto, PC, Slot
<1>2. /\ pc'[c] = "idle" /\ hand'[c] = NoBuf /\ has'[c] = has[c] \ {b}
      /\ \A x \in Client : x # c => /\ has'[x] = has[x] /\ hand'[x] = hand[x] /\ pc'[x] = pc[x]
                                    /\ ccp'[x] = ccp[x] /\ mcp'[x] = mcp[x]
  BY DEF TypeOK, Returned, Goto
<1>3. ClientsFit'
  BY <1>2 DEF ClientsFit
<1> QED
  BY <1>1, <1>2, <1>3

\* What PutFits says, as one fact.
PutDone(r, b, n) ==
  /\ CpuFits(Put(r, b), n) /\ Content(Put(r, b).loaded) = Content(r.loaded) \cup {b}
  /\ Put(r, b).full = r.full /\ Put(r, b).empty = r.empty
  /\ Put(r, b).magsize = r.magsize /\ Put(r, b).loaded # NoMag /\ r.loaded # NoMag

\* A buffer put on a CPU whose loaded magazine has room.
LEMMA PutIsDone ==
  ASSUME NEW n \in Nat, n > 0, NEW r, CpuFits(r, n), HasRoom(r),
         NEW b \in Buf, b \notin Content(r.loaded)
  PROVE  PutDone(r, b, n)
BY PutFits DEF PutDone

\* kmem_cache_free() puts b on top of a magazine that is loaded, or was just loaded,
\* which gives the CPU the state r; the buffers in M leave the loaded magazine.
LEMMA FreeStep ==
  ASSUME IInv, NEW c \in Client, NEW k \in CPU, NEW b, Freeing(c, k, b), NEW r, CpuFits(r, Size),
         HasRoom(r), r.magsize = cc[k].magsize, PutRound(k, r, b), Returned(c, b),
         UNCHANGED <<magtype, nmag, slabs, taskq>>,
         fmag' \in Seq(Holding(Size, Size)), emag' \in Seq({Magazine(Size)}),
         fmin' \in Int, emin' \in Int, flim' \in Int, elim' \in Int,
         UNCHANGED depot \/ cc[k].magsize # 0,
         Len(fmag') + Len(emag') + Mags(r) = Len(fmag) + Len(emag) + Mags(cc[k]),
         NEW M, \A y \in M : y \in Content(cc[k].loaded),
         \A x, y : y \notin M =>
           /\ InDepot(fmag', x, y) <=> InDepot(fmag, x, y)
           /\ y \in Content(r.full) <=> y \in Content(cc[k].full)
           /\ y \in Content(r.loaded) <=> y \in Content(cc[k].loaded),
         \A y \in M : y \notin Content(r.loaded),
         \A y \in M :
           \/ y \in Content(r.full) /\ \A x : ~InDepot(fmag', x, y)
           \/ /\ y \notin Content(r.full)
              /\ \E x1 : InDepot(fmag', x1, y) /\ \A x : InDepot(fmag', x, y) => x = x1
  PROVE  IInv'
<1>1. /\ TypeOK /\ CpusFit /\ ClientsFit /\ TaskFits /\ PurgeFits /\ LayersFit
      /\ CountFits /\ Conserved /\ ConstructedFit
  BY DEF IInv
<1>2. /\ magtype' = magtype /\ nmag' = nmag
      /\ UNCHANGED taskq /\ todo' = todo /\ UnchangedSlabs /\ Size' = Size
  BY DEF slabs, taskq, UnchangedSlabs, Size
<1>3. Size \in Nat /\ Size > 0
  BY <1>1, DepotMags
<1>4. /\ b \in Buf /\ b # NoBuf /\ b \in Buffers(slab_free) /\ task # "destroy"
      /\ pc[c] \in {"idle", "retry"} /\ hand[c] \in {b, NoBuf}
      /\ \A a, x : At(a, x, b) => a \in {"has", "hand"} /\ x = c
  BY FreeingFacts
<1>5. /\ b \notin Content(cc[k].loaded) /\ b \notin Content(cc[k].full)
      /\ \A x : ~InDepot(fmag, x, b)
  BY <1>4, CpuFacts
<1>6. b \notin M /\ b \notin Content(r.loaded)
  BY <1>5
<1>7. /\ CpuFits(Put(r, b), Size) /\ Content(Put(r, b).loaded) = Content(r.loaded) \cup {b}
      /\ Put(r, b).full = r.full /\ Put(r, b).empty = r.empty
      /\ Put(r, b).magsize = r.magsize /\ Put(r, b).loaded # NoMag /\ r.loaded # NoMag
  <2>1. /\ Size \in Nat /\ Size > 0 /\ b \in Buf /\ b \notin Content(r.loaded)
        /\ CpuFits(r, Size) /\ HasRoom(r)
    BY <1>3, <1>4, <1>6, Zenon
  <2>2. PutDone(r, b, Size)
    BY <2>1, PutIsDone
  <2> QED
    BY <2>2, Zenon DEF PutDone
<1>8. cc' = [cc EXCEPT ![k] = Put(r, b)]
  BY DEF PutRound, Put
<1>9. CpusFit' /\ cc'[k] = Put(r, b) /\ \A x \in CPU : x # k => cc'[x] = cc[x]
  BY <1>1, <1>2, <1>7, <1>8, CpuSet
<1>10. /\ pc' \in [Client -> PC] /\ has' \in [Client -> SUBSET Buf] /\ hand' \in [Client -> Slot]
       /\ ccp' \in [Client -> CPU \cup {NoMag}] /\ mcp' \in [Client -> Nat]
       /\ ClientsFit' /\ pc'[c] = "idle" /\ hand'[c] = NoBuf /\ has'[c] = has[c] \ {b}
       /\ \A x \in Client : x # c => has'[x] = has[x] /\ hand'[x] = hand[x] /\ pc'[x] = pc[x]
  BY <1>1, ReturnedFacts
<1>11. TypeOK'
  BY <1>1, <1>2, <1>10 DEF TypeOK, taskq
<1>12. TaskFits' /\ PurgeFits'
  <2>1. \A x \in CPU : cc'[x].magsize = cc[x].magsize
    BY <1>7, <1>9
  <2> QED
    BY <1>1, <1>2, <1>4, <2>1, TaskKept
<1>13. LayersFit' /\ ConstructedFit' /\ Buffers(slab_free') = Buffers(slab_free)
  <2>1. \A y : Raw(pc', hand', y) <=> Raw(pc, hand, y)
    BY <1>4, <1>10 DEF Raw
  <2> QED
    BY <1>1, <1>2, <2>1, SameSlabs
<1>14. CountFits'
  <2>1. Mags(cc'[k]) = Mags(r)
    BY <1>7, <1>9 DEF Mags, One
  <2>2. /\ fmag \in Seq(Holding(Size, Size)) /\ emag \in Seq({Magazine(Size)}) /\ nmag \in Int
        /\ nmag' = nmag /\ CountFits
    BY <1>1, <1>2, Zenon DEF TypeOK
  <2>3. Len(fmag') + Len(emag') + Mags(cc'[k]) = Len(fmag) + Len(emag) + Mags(cc[k])
    BY <2>1, Zenon
  <2> QED
    BY <1>9, <2>2, <2>3, CountSame, Zenon
<1>15. Conserved'
  <2> DEFINE MM == M \cup {b}
  <2>1. slab_free' = slab_free /\ todo' = todo
    BY <1>2 DEF UnchangedSlabs
  <2>2. cc'[k].full = r.full /\ Content(cc'[k].loaded) = Content(r.loaded) \cup {b}
    BY <1>7, <1>9
  <2>3. ASSUME NEW a, NEW x, NEW y, y \notin MM PROVE NextAt(a, x, y) <=> At(a, x, y)
    <3>1. /\ InDepot(fmag', x, y) <=> InDepot(fmag, x, y)
          /\ y \in Content(r.full) <=> y \in Content(cc[k].full)
          /\ y \in Content(r.loaded) <=> y \in Content(cc[k].loaded)
          /\ y # b
      BY <2>3
    <3>2. x \in CPU => (y \in Content(cc'[x].loaded) <=> y \in Content(cc[x].loaded))
                       /\ (y \in Content(cc'[x].full) <=> y \in Content(cc[x].full))
      BY <1>9, <2>2, <3>1
    <3>3. x \in Client => (y \in has'[x] <=> y \in has[x])
                          /\ (y = hand'[x] /\ y # NoBuf <=> y = hand[x] /\ y # NoBuf)
      BY <1>4, <1>10, <3>1
    <3> QED
      BY <2>1, <3>1, <3>2, <3>3, Zenon DEF NextAt, At, Where
  <2>4. \A y \in MM : y \in Buffers(slab_free)
    <3>1. \A y \in M : At("loaded", k, y)
      BY CpuFacts
    <3> QED
      BY <1>1, <1>4, <3>1 DEF Conserved
  <2>5. ASSUME NEW y \in MM
        PROVE  \E a1, x1 : NextAt(a1, x1, y) /\ \A a, x : NextAt(a, x, y) => a = a1 /\ x = x1
    <3>1. CASE y = b
      <4>1. NextAt("loaded", k, y)
        BY <2>2, <3>1 DEF NextAt, Where
      <4>2. ASSUME NEW a, NEW x, NextAt(a, x, y) PROVE a = "loaded" /\ x = k
        <5>1. CASE a = "loaded" /\ x = k
          BY <5>1
        <5>2. CASE x = c /\ a \in {"has", "hand"}
          BY <1>4, <1>10, <3>1, <4>2, <5>2 DEF NextAt, Where
        <5>3. CASE ~(a = "loaded" /\ x = k) /\ ~(x = c /\ a \in {"has", "hand"})
          <6>1. At(a, x, y)
            BY <1>5, <1>6, <1>9, <1>10, <2>1, <2>2, <3>1, <4>2, <5>3 DEF NextAt, At, Where
          <6> QED
            BY <1>4, <3>1, <5>3, <6>1
        <5> QED
          BY <5>1, <5>2, <5>3
      <4> QED
        BY <4>1, <4>2
    <3>2. CASE y \in M
      <4>1. At("loaded", k, y) /\ \A a, x : At(a, x, y) => a = "loaded" /\ x = k
        BY <3>2, CpuFacts
      <4>2. y # b /\ y \notin Content(cc'[k].loaded)
        BY <1>6, <2>2, <3>2
      <4>3. ASSUME NEW a, NEW x, NextAt(a, x, y)
            PROVE  a = "depot" \/ (a = "full" /\ x = k)
        <5>1. CASE At(a, x, y)
          BY <4>1, <4>2, <4>3, <5>1 DEF NextAt, Where
        <5>2. CASE ~At(a, x, y)
          BY <1>9, <1>10, <2>1, <4>2, <4>3, <5>2 DEF NextAt, At, Where
        <5> QED
          BY <5>1, <5>2
      <4>4. CASE y \in Content(r.full) /\ \A x : ~InDepot(fmag', x, y)
        <5>1. NextAt("full", k, y) /\ \A x : ~NextAt("depot", x, y)
          BY <2>2, <4>4 DEF NextAt, Where
        <5> QED
          BY <4>3, <5>1
      <4>5. CASE /\ y \notin Content(r.full)
                 /\ \E x1 : InDepot(fmag', x1, y) /\ \A x : InDepot(fmag', x, y) => x = x1
        <5>1. PICK x1 : InDepot(fmag', x1, y) /\ \A x : InDepot(fmag', x, y) => x = x1
          BY <4>5
        <5>2. /\ NextAt("depot", x1, y) /\ ~NextAt("full", k, y)
              /\ \A x : NextAt("depot", x, y) => x = x1
          BY <2>2, <4>5, <5>1 DEF NextAt, Where
        <5> QED
          BY <4>3, <5>2
      <4> QED
        BY <3>2, <4>4, <4>5
    <3> QED
      BY <3>1, <3>2
  <2> QED
    BY <1>1, <1>13, <2>3, <2>4, <2>5, Relocated
<1> QED
  BY <1>9, <1>10, <1>11, <1>12, <1>13, <1>14, <1>15 DEF IInv

\* A buffer is freed to the loaded magazine.
LEMMA FreeLoadedStep ==
  ASSUME IInv, NEW c \in Client, NEW k \in CPU, NEW b, FreeLoaded(c, k, b)
  PROVE  IInv'
<1> DEFINE r == cc[k]
           M == {}
<1>1. /\ Freeing(c, k, b) /\ HasRoom(r) /\ PutRound(k, r, b) /\ Returned(c, b)
      /\ UNCHANGED depot /\ fmag' = fmag /\ emag' = emag
      /\ fmin' = fmin /\ emin' = emin /\ flim' = flim /\ elim' = elim
      /\ UNCHANGED <<magtype, nmag, slabs, taskq>>
  BY DEF FreeLoaded, depot
<1>2. /\ CpuFits(r, Size) /\ fmag' \in Seq(Holding(Size, Size)) /\ emag' \in Seq({Magazine(Size)})
      /\ fmin' \in Int /\ emin' \in Int /\ flim' \in Int /\ elim' \in Int
  BY <1>1, CpuFacts
<1> HIDE DEF r
<1>3. /\ r.magsize = cc[k].magsize /\ Mags(r) = Mags(cc[k])
      /\ r.full = cc[k].full /\ r.loaded = cc[k].loaded
  BY DEF r
<1>4. \A x, y : y \notin M =>
        /\ InDepot(fmag', x, y) <=> InDepot(fmag, x, y)
        /\ y \in Content(r.full) <=> y \in Content(cc[k].full)
        /\ y \in Content(r.loaded) <=> y \in Content(cc[k].loaded)
  BY <1>1, <1>3
<1>5. Len(fmag') + Len(emag') + Mags(r) = Len(fmag) + Len(emag) + Mags(cc[k])
  BY <1>1, <1>3
<1>6. /\ \A y \in M : y \in Content(cc[k].loaded)
      /\ \A y \in M : y \notin Content(r.loaded)
      /\ \A y \in M :
           \/ y \in Content(r.full) /\ \A x : ~InDepot(fmag', x, y)
           \/ /\ y \notin Content(r.full)
              /\ \E x1 : InDepot(fmag', x1, y) /\ \A x : InDepot(fmag', x, y) => x = x1
  OBVIOUS
<1> HIDE DEF M
<1> QED
  BY <1>1, <1>2, <1>3, <1>4, <1>5, <1>6, FreeStep

\* A buffer is freed to the empty spare.
LEMMA FreeEmptyStep ==
  ASSUME IInv, NEW c \in Client, NEW k \in CPU, NEW b, FreeEmpty(c, k, b)
  PROVE  IInv'
<1> DEFINE o == cc[k]
           r == EmptyLoaded(o)
           M == Content(o.loaded)
<1>1. /\ Freeing(c, k, b) /\ ~HasRoom(o) /\ o.empty # NoMag /\ PutRound(k, r, b) /\ Returned(c, b)
      /\ UNCHANGED depot /\ fmag' = fmag /\ emag' = emag
      /\ fmin' = fmin /\ emin' = emin /\ flim' = flim /\ elim' = elim
      /\ UNCHANGED <<magtype, nmag, slabs, taskq>>
  BY DEF FreeEmpty, EmptyLoaded, depot
<1>2. /\ fmag' \in Seq(Holding(Size, Size)) /\ emag' \in Seq({Magazine(Size)})
      /\ fmin' \in Int /\ emin' \in Int /\ flim' \in Int /\ elim' \in Int
  BY <1>1, CpuFacts
<1>3. /\ CpuFits(r, Size) /\ HasRoom(r) /\ r.loaded = o.empty /\ r.full = o.loaded
      /\ r.empty = NoMag /\ r.magsize = o.magsize
      /\ o.loaded # NoMag /\ o.full = NoMag /\ Content(o.empty) = {}
  <2>1. Size \in Nat /\ Size > 0 /\ CpuFits(o, Size) /\ ~HasRoom(o) /\ o.empty # NoMag
    BY <1>1, CpuFacts
  <2> HIDE DEF o
  <2> QED
    BY <2>1, EmptyLoadedFits
<1> HIDE DEF r
<1>4. Content(o.full) = {}
  BY <1>3 DEF Content
<1>5. \A x, y : y \in M => ~InDepot(fmag', x, y)
  BY <1>1, CpuFacts
<1>6. \A x, y : y \notin M =>
        /\ InDepot(fmag', x, y) <=> InDepot(fmag, x, y)
        /\ y \in Content(r.full) <=> y \in Content(o.full)
        /\ y \in Content(r.loaded) <=> y \in Content(o.loaded)
  BY <1>1, <1>3, <1>4
<1>7. /\ \A y \in M : y \in Content(o.loaded)
      /\ \A y \in M : y \notin Content(r.loaded)
      /\ \A y \in M : y \in Content(r.full) /\ \A x : ~InDepot(fmag', x, y)
  BY <1>3, <1>5
<1>8. Len(fmag') + Len(emag') + Mags(r) = Len(fmag) + Len(emag) + Mags(o)
  <2>1. Mags(r) = Mags(o)
    BY <1>1, <1>3 DEF Mags, One
  <2> QED
    BY <1>1, <2>1
<1> QED
  BY <1>1, <1>2, <1>3, <1>6, <1>7, <1>8, FreeStep

\* A buffer is freed to an empty magazine from the depot.
LEMMA FreeDepotStep ==
  ASSUME IInv, NEW c \in Client, NEW k \in CPU, NEW b, FreeDepot(c, k, b)
  PROVE  IInv'
<1> DEFINE o == cc[k]
           q == Head(emag)
           r == EmptyFromDepot(o, q)
           M == Content(o.loaded)
           overflow == o.loaded # NoMag /\ o.full # NoMag
<1>1. /\ Freeing(c, k, b) /\ ~HasRoom(o) /\ o.empty = NoMag /\ o.magsize # 0
      /\ PutRound(k, r, b) /\ Returned(c, b)
      /\ emag # <<>> /\ emag' = Tail(emag) /\ emin' = Least(emin, Len(emag) - 1)
      /\ fmag' = IF overflow THEN <<o.loaded>> \o fmag ELSE fmag
      /\ fmin' = fmin /\ flim' = flim /\ elim' = elim
      /\ UNCHANGED <<magtype, nmag, slabs, taskq>>
  BY DEF FreeDepot, EmptyFromDepot
<1>2. /\ CpuFits(o, Size) /\ Size \in Nat /\ Size > 0 /\ fmag \in Seq(Holding(Size, Size))
      /\ emag \in Seq({Magazine(Size)}) /\ Len(fmag) \in Nat /\ Mags(o) \in Nat
      /\ emin \in Int /\ fmin' \in Int /\ flim' \in Int /\ elim' \in Int
  BY <1>1, CpuFacts
<1>3. /\ q = Magazine(Size) /\ emag' \in Seq({Magazine(Size)})
      /\ Len(emag') = Len(emag) - 1 /\ Len(emag) \in Nat
  BY <1>1, <1>2
<1> HIDE DEF q
<1>4. /\ CpuFits(r, Size) /\ HasRoom(r) /\ r.loaded = q /\ r.empty = NoMag /\ r.magsize = o.magsize
      /\ r.full = (IF o.loaded # NoMag /\ o.full = NoMag THEN o.loaded ELSE o.full)
      /\ o.loaded # NoMag => o.loaded \in Holding(Size, Size)
      /\ Content(q) = {} /\ q # NoMag
      /\ o.loaded = NoMag => o.full = NoMag
  <2>1. /\ Size \in Nat /\ Size > 0 /\ CpuFits(o, Size) /\ ~HasRoom(o) /\ o.empty = NoMag
        /\ o.magsize # 0 /\ q = Magazine(Size)
    BY <1>1, <1>2, <1>3
  <2> HIDE DEF o
  <2> QED
    BY <2>1, EmptyFromDepotFits
<1> HIDE DEF r
<1>5. /\ fmag' \in Seq(Holding(Size, Size)) /\ Len(fmag') = Len(fmag) + (IF overflow THEN 1 ELSE 0)
      /\ \A x, y : InDepot(fmag', x, y) <=>
           InDepot(fmag, x, y) \/ (overflow /\ x = Len(fmag) + 1 /\ y \in M)
  <2>1. CASE overflow
    <3>1. fmag' = <<o.loaded>> \o fmag /\ o.loaded \in Holding(Size, Size)
      BY <1>1, <1>4, <2>1
    <3> HIDE DEF o
    <3> QED
      BY <1>2, <2>1, <3>1, DepotPush
  <2>2. CASE ~overflow
    BY <1>1, <1>2, <2>2
  <2> QED
    BY <2>1, <2>2
<1>6. emin' \in Int
  BY <1>1, <1>2, <1>3 DEF Least
<1>7. \A y \in M : y \notin Content(o.full) /\ \A x : ~InDepot(fmag, x, y)
  BY CpuFacts
<1>8. \A y : y \notin Content(NoMag)
  BY DEF Content
<1>9. \A x, y : y \notin M =>
        /\ InDepot(fmag', x, y) <=> InDepot(fmag, x, y)
        /\ y \in Content(r.full) <=> y \in Content(o.full)
        /\ y \in Content(r.loaded) <=> y \in Content(o.loaded)
  BY <1>4, <1>5, <1>8
<1>10. ASSUME NEW y \in M
       PROVE  /\ y \in Content(o.loaded)
              /\ y \notin Content(r.loaded)
              /\ \/ y \in Content(r.full) /\ \A x : ~InDepot(fmag', x, y)
                 \/ /\ y \notin Content(r.full)
                    /\ \E x1 : InDepot(fmag', x1, y) /\ \A x : InDepot(fmag', x, y) => x = x1
  <2>1. o.loaded # NoMag
    BY <1>8
  <2>2. CASE o.full = NoMag
    BY <1>4, <1>5, <1>7, <2>1, <2>2
  <2>3. CASE o.full # NoMag
    <3>1. r.full = o.full /\ InDepot(fmag', Len(fmag) + 1, y)
      BY <1>4, <1>5, <2>1, <2>3
    <3> QED
      BY <1>4, <1>5, <1>7, <3>1
  <2> QED
    BY <2>2, <2>3
<1>11. Len(fmag') + Len(emag') + Mags(r) = Len(fmag) + Len(emag) + Mags(o)
  <2>1. Mags(r) = Mags(o) + (IF overflow THEN 0 ELSE 1)
    BY <1>1, <1>4 DEF Mags, One
  <2> QED
    BY <1>2, <1>3, <1>5, <2>1
<1>12. /\ \A y \in M : y \in Content(o.loaded)
       /\ \A y \in M : y \notin Content(r.loaded)
       /\ \A y \in M :
            \/ y \in Content(r.full) /\ \A x : ~InDepot(fmag', x, y)
            \/ /\ y \notin Content(r.full)
               /\ \E x1 : InDepot(fmag', x1, y) /\ \A x : InDepot(fmag', x, y) => x = x1
  BY <1>10, Zenon
<1> HIDE DEF M
<1> QED
  BY <1>1, <1>2, <1>3, <1>4, <1>5, <1>6, <1>9, <1>11, <1>12, FreeStep, ZenonT(40)

\* No buffer moves.
LEMMA SamePlaces ==
  ASSUME Conserved, slab_free' = slab_free, fmag' = fmag, todo' = todo, has' = has, hand' = hand,
         \A k \in CPU : /\ Content(cc'[k].loaded) = Content(cc[k].loaded)
                        /\ Content(cc'[k].full) = Content(cc[k].full)
  PROVE  Conserved'
<1>1. \A a, x, y : NextAt(a, x, y) <=> At(a, x, y)
  BY DEF NextAt, At, Where
<1>2. /\ \A a, x, y : NextAt(a, x, y) => y \in Buffers(slab_free')
      /\ \A y \in Buffers(slab_free') : \E a, x : NextAt(a, x, y)
      /\ \A a, x, a2, x2, y : NextAt(a, x, y) /\ NextAt(a2, x2, y) => a = a2 /\ x = x2
  <2>1. /\ \A a, x, y : At(a, x, y) => y \in Buffers(slab_free)
        /\ \A y \in Buffers(slab_free) : \E a, x : At(a, x, y)
        /\ \A a, x, a2, x2, y : At(a, x, y) /\ At(a2, x2, y) => a = a2 /\ x = x2
    BY Zenon DEF Conserved
  <2> QED
    BY <1>1, <2>1
<1> QED
  BY <1>2, Zenon DEF Conserved, At, NextAt

\* A step that leaves the magazines and the slabs alone.
LEMMA OnlyClients ==
  ASSUME IInv, UNCHANGED <<cc, depot, magtype, nmag, slabs, taskq>>, task # "destroy",
         pc' \in [Client -> PC] /\ has' \in [Client -> SUBSET Buf] /\ hand' \in [Client -> Slot],
         ccp' \in [Client -> CPU \cup {NoMag}] /\ mcp' \in [Client -> Nat], ClientsFit',
         \A y : Raw(pc', hand', y) <=> Raw(pc, hand, y), Conserved'
  PROVE  IInv'
<1>1. /\ TypeOK /\ CpusFit /\ ClientsFit /\ TaskFits /\ PurgeFits /\ LayersFit
      /\ CountFits /\ Conserved /\ ConstructedFit
  BY DEF IInv
<1>2. /\ cc' = cc /\ magtype' = magtype /\ nmag' = nmag /\ fmag' = fmag /\ emag' = emag
      /\ fmin' = fmin /\ emin' = emin /\ flim' = flim /\ elim' = elim
      /\ UNCHANGED taskq /\ todo' = todo /\ UnchangedSlabs /\ Size' = Size
  BY DEF slabs, depot, taskq, UnchangedSlabs, Size
<1>3. TypeOK'
  BY <1>1, <1>2 DEF TypeOK, taskq
<1>4. CpusFit' /\ CountFits'
  BY <1>1, <1>2 DEF CpusFit, CountFits
<1>5. TaskFits' /\ PurgeFits'
  BY <1>1, <1>2, TaskKept
<1>6. LayersFit' /\ ConstructedFit'
  BY <1>1, <1>2, SameSlabs
<1> QED
  BY <1>3, <1>4, <1>5, <1>6 DEF IInv

\* A client goes on with nothing in its hand: AllocMisses(), SlabCreateFails().
LEMMA GoesOn ==
  ASSUME IInv, NEW c \in Client, NEW l \in {"idle", "global", "create"}, Goto(c, l),
         pc[c] \in {"idle", "global", "create"}, task # "destroy",
         UNCHANGED <<cc, depot, magtype, nmag, slabs, has, hand, ccp, mcp, taskq>>
  PROVE  IInv'
<1>1. TypeOK /\ ClientsFit /\ Conserved
  BY DEF IInv
<1>2. /\ pc' \in [Client -> PC] /\ pc'[c] = l /\ \A x \in Client : x # c => pc'[x] = pc[x]
  BY <1>1 DEF TypeOK, Goto, PC
<1>3. has' = has /\ hand' = hand /\ ccp' = ccp /\ mcp' = mcp
  OBVIOUS
<1>4. ClientsFit'
  BY <1>1, <1>2, <1>3 DEF ClientsFit
<1>5. \A y : Raw(pc', hand', y) <=> Raw(pc, hand, y)
  BY <1>2, <1>3 DEF Raw
<1>6. Conserved'
  <2>1. slab_free' = slab_free /\ fmag' = fmag /\ todo' = todo /\ cc' = cc
    BY DEF slabs, depot, taskq
  <2> QED
    BY <1>1, <1>3, <2>1, SamePlaces
<1>7. /\ has' \in [Client -> SUBSET Buf] /\ hand' \in [Client -> Slot]
      /\ ccp' \in [Client -> CPU \cup {NoMag}] /\ mcp' \in [Client -> Nat]
  BY <1>1, <1>3 DEF TypeOK
<1> QED
  BY <1>2, <1>4, <1>5, <1>6, <1>7, OnlyClients

\* The magazine layer has nothing to give out.
LEMMA AllocMissesStep ==
  ASSUME IInv, NEW c \in Client, NEW k \in CPU, AllocMisses(c, k)
  PROVE  IInv'
<1>1. pc[c] = "idle" /\ task # "destroy" /\ Goto(c, "global")
  BY DEF AllocMisses, Allocating, Alive
<1>2. UNCHANGED <<cc, depot, magtype, nmag, slabs, has, hand, ccp, mcp, taskq>>
  BY DEF AllocMisses
<1> QED
  BY <1>1, <1>2, GoesOn

\* A client that is inside a call keeps the cache from being destroyed.
LEMMA BusyClient ==
  ASSUME IInv, NEW c \in Client, pc[c] # "idle"
  PROVE  task # "destroy"
BY DEF IInv, TaskFits

\* The arena gives no slab.
LEMMA SlabCreateFailsStep ==
  ASSUME IInv, NEW c \in Client, SlabCreateFails(c)
  PROVE  IInv'
<1>1. pc[c] = "create" /\ Goto(c, "idle")
  BY DEF SlabCreateFails
<1>2. UNCHANGED <<cc, depot, magtype, nmag, slabs, has, hand, ccp, mcp, taskq>>
  BY DEF SlabCreateFails
<1>3. task # "destroy"
  BY <1>1, BusyClient
<1> QED
  BY <1>1, <1>2, <1>3, GoesOn

\* The buffer a client frees is in its hand while it gets a magazine, or goes to the slab
\* layer.
LEMMA ToHand ==
  ASSUME IInv, NEW c \in Client, NEW b, b \in Buf, b \in Buffers(slab_free), task # "destroy",
         pc[c] # "ctor", hand[c] \in {b, NoBuf},
         \A a, x : At(a, x, b) => a \in {"has", "hand"} /\ x = c,
         NEW l \in {"free", "needmag"}, NEW kk \in CPU \cup {NoMag}, NEW mm \in Nat,
         l = "needmag" => kk \in CPU /\ mm \in 1 .. Len(MagSizes),
         has' = [has EXCEPT ![c] = @ \ {b}], hand' = [hand EXCEPT ![c] = b],
         ccp' = [ccp EXCEPT ![c] = kk], mcp' = [mcp EXCEPT ![c] = mm], Goto(c, l),
         UNCHANGED <<cc, depot, magtype, nmag, slabs, taskq>>
  PROVE  IInv'
<1>1. TypeOK /\ ClientsFit /\ Conserved
  BY DEF IInv
<1>2. /\ pc' \in [Client -> PC] /\ has' \in [Client -> SUBSET Buf] /\ hand' \in [Client -> Slot]
      /\ ccp' \in [Client -> CPU \cup {NoMag}] /\ mcp' \in [Client -> Nat]
  BY <1>1 DEF TypeOK, Goto, PC, Slot
<1>3. /\ pc'[c] = l /\ has'[c] = has[c] \ {b} /\ hand'[c] = b /\ ccp'[c] = kk /\ mcp'[c] = mm
      /\ \A x \in Client : x # c => /\ has'[x] = has[x] /\ hand'[x] = hand[x] /\ pc'[x] = pc[x]
                                    /\ ccp'[x] = ccp[x] /\ mcp'[x] = mcp[x]
  BY <1>1 DEF TypeOK, Goto
<1>4. b # NoBuf
  BY KmemAssumption DEF Buf
<1>5. ClientsFit'
  BY <1>1, <1>3, <1>4 DEF ClientsFit
<1>6. \A y : Raw(pc', hand', y) <=> Raw(pc, hand, y)
  BY <1>3 DEF Raw
<1>7. slab_free' = slab_free /\ fmag' = fmag /\ todo' = todo /\ cc' = cc
  BY DEF slabs, depot, taskq
<1>8. Conserved'
  <2>1. ASSUME NEW a, NEW x, NEW y, y \notin {b} PROVE NextAt(a, x, y) <=> At(a, x, y)
    <3>1. x \in Client => (y \in has'[x] <=> y \in has[x])
                          /\ (y = hand'[x] /\ y # NoBuf <=> y = hand[x] /\ y # NoBuf)
      BY <1>3, <2>1
    <3> QED
      BY <1>7, <3>1, Zenon DEF NextAt, At, Where
  <2>2. NextAt("hand", c, b)
    BY <1>3, <1>4 DEF NextAt, Where
  <2>3. ASSUME NEW a, NEW x, NextAt(a, x, b) PROVE a = "hand" /\ x = c
    <3>1. CASE x = c /\ a \in {"has", "hand"}
      BY <1>3, <2>3, <3>1 DEF NextAt, Where
    <3>2. CASE ~(x = c /\ a \in {"has", "hand"})
      <4>1. At(a, x, b)
        BY <1>3, <1>7, <2>3, <3>2 DEF NextAt, At, Where
      <4> QED
        BY <3>2, <4>1
    <3> QED
      BY <3>1, <3>2
  <2>4. \A y \in {b} : y \in Buffers(slab_free)
    OBVIOUS
  <2>5. \A y \in {b} : \E a1, x1 : NextAt(a1, x1, y)
                                   /\ \A a, x : NextAt(a, x, y) => a = a1 /\ x = x1
    BY <2>2, <2>3
  <2>6. Buffers(slab_free') = Buffers(slab_free)
    BY <1>7
  <2> DEFINE M == {b}
  <2>7. /\ \A a, x, y : y \notin M => (NextAt(a, x, y) <=> At(a, x, y))
        /\ \A y \in M : y \in Buffers(slab_free)
        /\ \A y \in M : \E a1, x1 : NextAt(a1, x1, y)
                                   /\ \A a, x : NextAt(a, x, y) => a = a1 /\ x = x1
    BY <2>1, <2>4, <2>5, Zenon
  <2> HIDE DEF M
  <2> QED
    BY <1>1, <2>6, <2>7, Relocated
<1> QED
  BY <1>2, <1>5, <1>6, <1>8, OnlyClients

\* The CPU has no magazines: the buffer is to go to its slab.
LEMMA FreeMissesStep ==
  ASSUME IInv, NEW c \in Client, NEW k \in CPU, NEW b, FreeMisses(c, k, b)
  PROVE  IInv'
<1>1. Freeing(c, k, b) /\ LeaveLoop(c, b) /\ UNCHANGED <<cc, depot, magtype, nmag, slabs, taskq>>
  BY DEF FreeMisses
<1>2. /\ b \in Buf /\ b \in Buffers(slab_free) /\ task # "destroy"
      /\ pc[c] # "ctor" /\ hand[c] \in {b, NoBuf}
      /\ \A a, x : At(a, x, b) => a \in {"has", "hand"} /\ x = c
  BY <1>1, FreeingFacts
<1>3. /\ has' = [has EXCEPT ![c] = @ \ {b}] /\ hand' = [hand EXCEPT ![c] = b]
      /\ ccp' = [ccp EXCEPT ![c] = NoMag] /\ mcp' = [mcp EXCEPT ![c] = 0] /\ Goto(c, "free")
  BY <1>1 DEF LeaveLoop
<1> QED
  BY <1>1, <1>2, <1>3, ToHand

\* The client goes to get a magazine, its buffer in hand.
LEMMA NeedMagazineStep ==
  ASSUME IInv, NEW c \in Client, NEW k \in CPU, NEW b, NeedMagazine(c, k, b)
  PROVE  IInv'
<1>1. Freeing(c, k, b) /\ UNCHANGED <<cc, depot, magtype, nmag, slabs, taskq>>
  BY DEF NeedMagazine
<1>2. /\ b \in Buf /\ b \in Buffers(slab_free) /\ task # "destroy"
      /\ pc[c] # "ctor" /\ hand[c] \in {b, NoBuf}
      /\ \A a, x : At(a, x, b) => a \in {"has", "hand"} /\ x = c
  BY <1>1, FreeingFacts
<1>3. /\ has' = [has EXCEPT ![c] = @ \ {b}] /\ hand' = [hand EXCEPT ![c] = b]
      /\ ccp' = [ccp EXCEPT ![c] = k] /\ mcp' = [mcp EXCEPT ![c] = magtype] /\ Goto(c, "needmag")
  BY DEF NeedMagazine
<1>4. magtype \in Nat /\ magtype \in 1 .. Len(MagSizes)
  BY DEF IInv, TypeOK
<1> QED
  BY <1>1, <1>2, <1>3, <1>4, ToHand

\* The hand of a client in a call.
LEMMA InHand ==
  ASSUME IInv, NEW c \in Client, pc[c] \notin {"idle", "global", "create"}
  PROVE  /\ hand[c] \in Buf /\ hand[c] # NoBuf /\ hand[c] \in Buffers(slab_free)
         /\ At("hand", c, hand[c]) /\ hand[c] \notin has[c]
         /\ \A a, x : At(a, x, hand[c]) => a = "hand" /\ x = c
<1>1. TypeOK /\ ClientsFit /\ Conserved
  BY DEF IInv
<1>2. hand[c] # NoBuf
  BY <1>1 DEF ClientsFit
<1>3. hand[c] \in Buf
  BY <1>1, <1>2 DEF TypeOK, Slot
<1>4. At("hand", c, hand[c])
  BY <1>2 DEF At, Where
<1>5. hand[c] \in Buffers(slab_free) /\ \A a, x : At(a, x, hand[c]) => a = "hand" /\ x = c
  BY <1>1, <1>4, Zenon DEF Conserved
<1>6. hand[c] \in has[c] => At("has", c, hand[c])
  BY DEF At, Where
<1> QED
  BY <1>2, <1>3, <1>4, <1>5, <1>6

\* It comes back without one, or with one that no longer fits.
LEMMA NoMagazineStep ==
  ASSUME IInv, NEW c \in Client, NoMagazine(c)
  PROVE  IInv'
<1> DEFINE b == hand[c]
<1>1. /\ pc[c] = "needmag" /\ LeaveLoop(c, b)
      /\ UNCHANGED <<cc, depot, magtype, nmag, slabs, taskq>>
  BY DEF NoMagazine
<1>2. /\ b \in Buf /\ b \in Buffers(slab_free) /\ hand[c] \in {b, NoBuf}
      /\ \A a, x : At(a, x, b) => a \in {"has", "hand"} /\ x = c
  BY <1>1, InHand
<1>3. /\ has' = [has EXCEPT ![c] = @ \ {b}] /\ hand' = [hand EXCEPT ![c] = b]
      /\ ccp' = [ccp EXCEPT ![c] = NoMag] /\ mcp' = [mcp EXCEPT ![c] = 0] /\ Goto(c, "free")
  BY <1>1 DEF LeaveLoop
<1>4. task # "destroy"
  BY <1>1, BusyClient
<1> HIDE DEF b
<1> QED
  BY <1>1, <1>2, <1>3, <1>4, ToHand

\* A step moves one buffer.
LEMMA RelocatedOne ==
  ASSUME Conserved, Buffers(slab_free') = Buffers(slab_free), NEW b \in Buffers(slab_free),
         \A a, x, y : y # b => (NextAt(a, x, y) <=> At(a, x, y)),
         NEW a1, NEW x1, NextAt(a1, x1, b), \A a, x : NextAt(a, x, b) => a = a1 /\ x = x1
  PROVE  Conserved'
<1> DEFINE M == {b}
<1>1. /\ \A a, x, y : y \notin M => (NextAt(a, x, y) <=> At(a, x, y))
      /\ \A y \in M : y \in Buffers(slab_free)
  OBVIOUS
<1>2. \A y \in M : \E a2, x2 : NextAt(a2, x2, y) /\ \A a, x : NextAt(a, x, y) => a = a2 /\ x = x2
  OBVIOUS
<1> HIDE DEF M
<1> QED
  BY <1>1, <1>2, Relocated

\* The constructor has run.
LEMMA ConstructStep ==
  ASSUME IInv, NEW c \in Client, Construct(c)
  PROVE  IInv'
<1> DEFINE b == hand[c]
<1>1. /\ TypeOK /\ CpusFit /\ ClientsFit /\ TaskFits /\ PurgeFits /\ LayersFit
      /\ CountFits /\ Conserved /\ ConstructedFit
  BY DEF IInv
<1>2. /\ pc[c] = "ctor" /\ constructed' = constructed \cup {b}
      /\ has' = [has EXCEPT ![c] = @ \cup {b}] /\ hand' = [hand EXCEPT ![c] = NoBuf]
      /\ Goto(c, "idle") /\ cc' = cc /\ magtype' = magtype /\ nmag' = nmag /\ fmag' = fmag
      /\ emag' = emag /\ fmin' = fmin /\ emin' = emin /\ flim' = flim /\ elim' = elim
      /\ UNCHANGED taskq /\ UNCHANGED depot /\ todo' = todo /\ Size' = Size
      /\ slab_free' = slab_free /\ freelist' = freelist /\ ccp' = ccp /\ mcp' = mcp
  BY DEF Construct, depot, taskq, Size
<1>3. /\ b \in Buf /\ b # NoBuf /\ b \in Buffers(slab_free)
      /\ \A a, x : At(a, x, b) => a = "hand" /\ x = c
  BY <1>2, InHand
<1>4. /\ pc' \in [Client -> PC] /\ has' \in [Client -> SUBSET Buf] /\ hand' \in [Client -> Slot]
  BY <1>1, <1>2, <1>3 DEF TypeOK, Goto, PC, Slot
<1>5. /\ pc'[c] = "idle" /\ has'[c] = has[c] \cup {b} /\ hand'[c] = NoBuf
      /\ \A x \in Client : x # c => has'[x] = has[x] /\ hand'[x] = hand[x] /\ pc'[x] = pc[x]
  BY <1>1, <1>2 DEF TypeOK, Goto
<1> HIDE DEF b
<1>6. TypeOK'
  BY <1>1, <1>2, <1>4 DEF TypeOK, taskq
<1>7. CpusFit' /\ CountFits' /\ LayersFit'
  BY <1>1, <1>2 DEF CpusFit, CountFits, LayersFit
<1>8. ClientsFit'
  BY <1>1, <1>2, <1>5 DEF ClientsFit
<1>9. TaskFits' /\ PurgeFits'
  <2>1. task # "destroy"
    BY <1>2, BusyClient
  <2> QED
    BY <1>1, <1>2, <2>1, TaskKept
<1>10. hand[c] = b /\ \A d \in Client : d # c => hand[d] # b
  <2>1. \A d \in Client : hand[d] = b => At("hand", d, b)
    BY <1>3 DEF At, Where
  <2> QED
    BY <1>3, <2>1 DEF b
<1>11. Conserved'
  <2>1. ASSUME NEW a, NEW x, NEW y, y # b PROVE NextAt(a, x, y) <=> At(a, x, y)
    <3>1. x \in Client => (y \in has'[x] <=> y \in has[x])
                          /\ (y = hand'[x] /\ y # NoBuf <=> y = hand[x] /\ y # NoBuf)
      BY <1>5, <1>10, <2>1
    <3> QED
      BY <1>2, <3>1, Zenon DEF NextAt, At, Where
  <2>2. NextAt("has", c, b)
    BY <1>5 DEF NextAt, Where
  <2>3. ASSUME NEW a, NEW x, NextAt(a, x, b) PROVE a = "has" /\ x = c
    <3>1. CASE a \in {"has", "hand"} /\ x = c
      BY <1>3, <1>5, <2>3, <3>1 DEF NextAt, Where
    <3>2. CASE ~(a \in {"has", "hand"} /\ x = c)
      <4>1. At(a, x, b)
        BY <1>2, <1>5, <2>3, <3>2 DEF NextAt, At, Where
      <4> QED
        BY <1>3, <3>2, <4>1
    <3> QED
      BY <3>1, <3>2
  <2>4. Buffers(slab_free') = Buffers(slab_free)
    BY <1>2
  <2> QED
    BY <1>1, <1>3, <2>1, <2>2, <2>3, <2>4, RelocatedOne
<1>12. ConstructedFit'
  <2>1. \A y : Raw(pc', hand', y) <=> Raw(pc, hand, y) /\ y # b
    BY <1>2, <1>5, <1>10 DEF Raw
  <2>2. \A x : ~InSlab(slab_free, x, b)
    <3>1. \A x : InSlab(slab_free, x, b) => At("slab", x, b)
      BY DEF At, Where
    <3> QED
      BY <1>3, <3>1
  <2>3. \A y : y \in constructed' <=>
          y \in Buffers(slab_free) /\ (\A x : ~InSlab(slab_free, x, y)) /\ ~Raw(pc', hand', y)
    BY <1>1, <1>2, <1>3, <2>1, <2>2 DEF ConstructedFit
  <2> QED
    BY <1>2, <2>3, Zenon DEF ConstructedFit
<1> QED
  BY <1>6, <1>7, <1>8, <1>9, <1>11, <1>12 DEF IInv

\* The new magazine still fits.
LEMMA GotMagazineStep ==
  ASSUME IInv, NEW c \in Client, GotMagazine(c)
  PROVE  IInv'
<1>1. /\ TypeOK /\ CpusFit /\ ClientsFit /\ TaskFits /\ PurgeFits /\ LayersFit
      /\ CountFits /\ Conserved /\ ConstructedFit
  BY DEF IInv
<1>2. /\ pc[c] = "needmag" /\ StillFits(c) /\ emag' = <<Magazine(MagSizes[mcp[c]])>> \o emag
      /\ nmag' = nmag + 1 /\ Goto(c, "retry") /\ cc' = cc /\ magtype' = magtype /\ fmag' = fmag
      /\ fmin' = fmin /\ emin' = emin /\ flim' = flim /\ elim' = elim
      /\ UNCHANGED taskq /\ todo' = todo /\ Size' = Size /\ UnchangedSlabs
      /\ has' = has /\ hand' = hand /\ ccp' = ccp /\ mcp' = mcp
  BY DEF GotMagazine, taskq, slabs, Size, UnchangedSlabs
<1>3. ccp[c] \in CPU /\ mcp[c] \in 1 .. Len(MagSizes)
  BY <1>1, <1>2 DEF ClientsFit
<1>4. MagSizes[mcp[c]] \in Nat /\ MagSizes[mcp[c]] > 0
  BY <1>3, KmemAssumption
<1>5. cc[ccp[c]].magsize = MagSizes[mcp[c]] /\ cc[ccp[c]].magsize # 0 /\ MagSizes[mcp[c]] = Size
  <2>1. cc[ccp[c]].magsize = MagSizes[mcp[c]]
    BY <1>2 DEF StillFits
  <2>2. cc[ccp[c]].magsize \in {0, Size}
    BY <1>1, <1>3 DEF CpusFit, CpuFits
  <2> QED
    BY <1>4, <2>1, <2>2
<1>6. emag' \in Seq({Magazine(Size)}) /\ Len(emag') = Len(emag) + 1 /\ Len(emag) \in Nat
      /\ Len(fmag) \in Nat
  <2>1. emag' = <<Magazine(Size)>> \o emag
    BY <1>2, <1>5
  <2> QED
    BY <1>1, <2>1 DEF TypeOK
<1>7. /\ pc' \in [Client -> PC] /\ pc'[c] = "retry" /\ \A x \in Client : x # c => pc'[x] = pc[x]
  BY <1>1, <1>2 DEF TypeOK, Goto, PC
<1>8. TypeOK'
  BY <1>1, <1>2, <1>6, <1>7 DEF TypeOK, taskq
<1>9. CpusFit'
  BY <1>1, <1>2 DEF CpusFit
<1>10. ClientsFit'
  BY <1>1, <1>2, <1>7 DEF ClientsFit
<1>11. TaskFits' /\ PurgeFits'
  <2>1. task # "destroy"
    BY <1>2, BusyClient
  <2>2. \E k \in CPU : cc[k].magsize # 0
    BY <1>3, <1>5
  <2> QED
    BY <1>1, <1>2, <2>1, <2>2, TaskKept
<1>12. LayersFit' /\ ConstructedFit'
  <2>1. \A y : Raw(pc', hand', y) <=> Raw(pc, hand, y)
    BY <1>2, <1>7 DEF Raw
  <2> QED
    BY <1>1, <1>2, <2>1, SameSlabs
<1>13. CountFits'
  <2>1. fmag' = fmag /\ cc' = cc /\ 1 \in Int /\ Len(emag') \in Nat /\ Len(fmag') \in Nat
    BY <1>2, <1>6
  <2>2. Len(fmag') + Len(emag') + Mags(cc'[ccp[c]]) = Len(fmag) + Len(emag) + Mags(cc[ccp[c]]) + 1
    BY <1>6, <2>1, MagsNat
  <2> QED
    BY <1>1, <1>2, <1>3, <1>6, <2>1, <2>2, CountKept
<1>14. Conserved'
  BY <1>1, <1>2, SamePlaces DEF UnchangedSlabs
<1> QED
  BY <1>8, <1>9, <1>10, <1>11, <1>12, <1>13, <1>14 DEF IInv

-----------------------------------------------------------------------------
(* Steps in the slab layer.                                                *)

\* A step moves the buffers in M, or some of them appear or go with their slab.
LEMMA SlabsChange ==
  ASSUME Conserved, NEW M,
         \A a, x, y : y \notin M => (NextAt(a, x, y) <=> At(a, x, y)),
         \A y : y \notin M => (y \in Buffers(slab_free') <=> y \in Buffers(slab_free)),
         \A y \in M :
           \/ /\ y \in Buffers(slab_free')
              /\ \E a1, x1 : NextAt(a1, x1, y) /\ \A a, x : NextAt(a, x, y) => a = a1 /\ x = x1
           \/ y \notin Buffers(slab_free') /\ \A a, x : ~NextAt(a, x, y)
  PROVE  Conserved'
<1>0. /\ \A a, x, y : At(a, x, y) => y \in Buffers(slab_free)
      /\ \A y \in Buffers(slab_free) : \E a, x : At(a, x, y)
      /\ \A a, x, a2, x2, y : At(a, x, y) /\ At(a2, x2, y) => a = a2 /\ x = x2
  BY Zenon DEF Conserved
<1>1. ASSUME NEW a, NEW x, NEW y, NextAt(a, x, y) PROVE y \in Buffers(slab_free')
  BY <1>0, <1>1
<1>2. ASSUME NEW y \in Buffers(slab_free') PROVE \E a, x : NextAt(a, x, y)
  <2>1. CASE y \in M
    BY <2>1
  <2>2. CASE y \notin M
    BY <1>0, <2>2
  <2> QED
    BY <2>1, <2>2
<1>3. ASSUME NEW a, NEW x, NEW a2, NEW x2, NEW y, NextAt(a, x, y), NextAt(a2, x2, y)
      PROVE  a = a2 /\ x = x2
  <2>1. CASE y \in M
    BY <1>3, <2>1
  <2>2. CASE y \notin M
    <3>1. At(a, x, y) /\ At(a2, x2, y)
      BY <1>3, <2>2
    <3> QED
      BY <1>0, <3>1, Zenon
  <2> QED
    BY <2>1, <2>2
<1>4. /\ \A a, x, y : NextAt(a, x, y) => y \in Buffers(slab_free')
      /\ \A y \in Buffers(slab_free') : \E a, x : NextAt(a, x, y)
      /\ \A a, x, a2, x2, y : NextAt(a, x, y) /\ NextAt(a2, x2, y) => a = a2 /\ x = x2
  BY <1>1, <1>2, <1>3, Zenon
<1> QED
  BY <1>4, Zenon DEF Conserved, At, NextAt

\* The slabs sf are those there are and a new slab n with the buffers N, if any.
Adds(sf, n, N) ==
  /\ \A y \in N : y \notin Buffers(slab_free)
  /\ \A y : y \in Buffers(sf) <=> y \in Buffers(slab_free) \/ y \in N
  /\ \A x, y : InSlab(sf, x, y) <=> InSlab(slab_free, x, y) \/ (x = n /\ y \in N)

\* kmem_cache_alloc() takes the first buffer of the slabs sf.
LEMMA TakeStep ==
  ASSUME IInv, NEW c \in Client, pc[c] \in {"global", "create"}, NEW sf, NEW fl, SlabsFit(sf, fl),
         fl # <<>>, TakeFrom(fl, sf, c), Goto(c, "ctor"),
         UNCHANGED <<cc, depot, magtype, nmag, constructed, has, ccp, mcp, taskq>>,
         NEW N, NEW n, Adds(sf, n, N),
         \A x \in DOMAIN sf : x # Head(fl) => Len(sf[x]) < Chunks[x]
  PROVE  IInv'
<1> DEFINE s == Head(fl)
           b == Head(sf[s])
<1>0. /\ \A y \in N : y \notin Buffers(slab_free)
      /\ \A y : y \in Buffers(sf) <=> y \in Buffers(slab_free) \/ y \in N
      /\ \A x, y : InSlab(sf, x, y) <=> InSlab(slab_free, x, y) \/ (x = n /\ y \in N)
  BY DEF Adds
<1>1. /\ TypeOK /\ CpusFit /\ ClientsFit /\ TaskFits /\ PurgeFits /\ LayersFit
      /\ CountFits /\ Conserved /\ ConstructedFit
  BY DEF IInv
<1>2. /\ cc' = cc /\ magtype' = magtype /\ nmag' = nmag /\ fmag' = fmag
      /\ emag' = emag /\ fmin' = fmin /\ emin' = emin /\ flim' = flim /\ elim' = elim
      /\ UNCHANGED taskq /\ UNCHANGED depot /\ todo' = todo /\ Size' = Size
      /\ constructed' = constructed /\ has' = has /\ ccp' = ccp /\ mcp' = mcp
  BY DEF depot, taskq, Size
<1>3. /\ hand' = [hand EXCEPT ![c] = b] /\ slab_free' = [sf EXCEPT ![s] = Tail(sf[s])]
      /\ freelist' = IF Len(sf[s]) = 1 THEN Tail(fl) ELSE fl
  BY DEF TakeFrom
<1>4. /\ SlabsFit(slab_free', freelist') /\ s \in DOMAIN sf /\ DOMAIN slab_free' = DOMAIN sf
      /\ b \in OfSlab(s) /\ InSlab(sf, s, b) /\ Len(slab_free'[s]) < Chunks[s]
      /\ \A x \in DOMAIN sf : x # s => slab_free'[x] = sf[x]
      /\ \A x, y : InSlab(slab_free', x, y) <=> InSlab(sf, x, y) /\ y # b
  <2>1. Takes(sf, fl, s, b, slab_free', freelist')
    BY <1>3 DEF Takes
  <2> HIDE DEF s, b
  <2> QED
    BY <2>1, TakeFits
<1> HIDE DEF s, b
<1>5. b \in Buf /\ b # NoBuf /\ b \in Buffers(sf)
  <2>1. s \in Slab
    BY <1>4 DEF SlabsFit
  <2>2. OfSlab(s) \in SUBSET Buf /\ NoBuf \notin OfSlab(s)
    BY <2>1, OfSlabIs
  <2> QED
    BY <1>4, <2>2 DEF Buffers
<1>6. /\ pc' \in [Client -> PC] /\ hand' \in [Client -> Slot] /\ pc'[c] = "ctor" /\ hand'[c] = b
      /\ \A x \in Client : x # c => hand'[x] = hand[x] /\ pc'[x] = pc[x]
  BY <1>1, <1>3, <1>5 DEF TypeOK, Goto, PC, Slot
<1>7. TypeOK'
  BY <1>1, <1>2, <1>6 DEF TypeOK, taskq
<1>8. CpusFit' /\ CountFits'
  BY <1>1, <1>2 DEF CpusFit, CountFits
<1>9. ClientsFit'
  BY <1>1, <1>2, <1>5, <1>6 DEF ClientsFit
<1>10. TaskFits' /\ PurgeFits'
  <2>1. task # "destroy"
    BY BusyClient
  <2> QED
    BY <1>1, <1>2, <2>1, TaskKept
<1>11. LayersFit'
  <2>1. \A x \in DOMAIN slab_free' : Len(slab_free'[x]) < Chunks[x]
    BY <1>4 DEF s
  <2> QED
    BY <1>1, <1>2, <1>4, <2>1 DEF LayersFit, Partial
<1>12. Buffers(slab_free') = Buffers(sf)
  BY <1>4 DEF Buffers
<1>13. \A a, x : At(a, x, b) => a = "slab"
  <2>1. \A x : InSlab(slab_free, x, b) => At("slab", x, b)
    BY DEF At, Where
  <2>2. b \notin N => \E x : At("slab", x, b)
    BY <1>0, <1>4, <2>1
  <2>3. b \in N => \A a, x : ~At(a, x, b)
    BY <1>0, <1>1 DEF Conserved
  <2>4. \A a, x, a2, x2 : At(a, x, b) /\ At(a2, x2, b) => a = a2 /\ x = x2
    BY <1>1, Zenon DEF Conserved
  <2> QED
    BY <2>2, <2>3, <2>4
<1>14. hand[c] = NoBuf
  BY <1>1 DEF ClientsFit
<1>15. Conserved'
  <2> DEFINE M == N \cup {b}
  <2>1. ASSUME NEW a, NEW x, NEW y, y \notin M PROVE NextAt(a, x, y) <=> At(a, x, y)
    <3>1. InSlab(slab_free', x, y) <=> InSlab(slab_free, x, y)
      BY <1>0, <1>4, <2>1
    <3>2. x \in Client => (y = hand'[x] /\ y # NoBuf <=> y = hand[x] /\ y # NoBuf)
      BY <1>6, <1>14, <2>1
    <3> QED
      BY <1>2, <3>1, <3>2, Zenon DEF NextAt, At, Where
  <2>2. \A y : y \notin M => (y \in Buffers(slab_free') <=> y \in Buffers(slab_free))
    BY <1>0, <1>12
  <2>3. NextAt("hand", c, b) /\ \A a, x : NextAt(a, x, b) => a = "hand" /\ x = c
    <3>1. NextAt("hand", c, b)
      BY <1>5, <1>6 DEF NextAt, Where
    <3>2. ASSUME NEW a, NEW x, NextAt(a, x, b) PROVE a = "hand" /\ x = c
      <4>1. CASE a = "slab"
        BY <1>4, <3>2, <4>1 DEF NextAt, Where
      <4>2. CASE a # "slab" /\ ~(a = "hand" /\ x = c)
        <5>1. At(a, x, b)
          BY <1>2, <1>6, <3>2, <4>2 DEF NextAt, At, Where
        <5> QED
          BY <1>13, <4>2, <5>1
      <4> QED
        BY <4>1, <4>2
    <3> QED
      BY <3>1, <3>2
  <2>4. ASSUME NEW y \in N, y # b
        PROVE  NextAt("slab", n, y) /\ \A a, x : NextAt(a, x, y) => a = "slab" /\ x = n
    <3>1. \A a, x : ~At(a, x, y)
      BY <1>0, <1>1 DEF Conserved
    <3>2. \A x : InSlab(slab_free', x, y) <=> x = n
      <4>1. \A x : ~InSlab(slab_free, x, y)
        BY <3>1 DEF At, Where
      <4> QED
        BY <1>0, <1>4, <2>4, <4>1
    <3>3. ASSUME NEW a, NEW x, NextAt(a, x, y), a # "slab" PROVE FALSE
      <4>1. At(a, x, y)
        BY <1>2, <1>6, <2>4, <3>3 DEF NextAt, At, Where
      <4> QED
        BY <3>1, <4>1
    <3> QED
      BY <3>2, <3>3 DEF NextAt, Where
  <2>5. \A y \in M :
          /\ y \in Buffers(slab_free')
          /\ \E a1, x1 : NextAt(a1, x1, y) /\ \A a, x : NextAt(a, x, y) => a = a1 /\ x = x1
    BY <1>0, <1>5, <1>12, <2>3, <2>4
  <2> HIDE DEF M
  <2> QED
    BY <1>1, <2>1, <2>2, <2>5, SlabsChange
<1>16. ConstructedFit'
  <2>1. \A y : Raw(pc', hand', y) <=> Raw(pc, hand, y) \/ y = b
    BY <1>6 DEF Raw
  <2>2. ASSUME NEW y
        PROVE  y \in constructed <=>
          y \in Buffers(slab_free') /\ (\A x : ~InSlab(slab_free', x, y)) /\ ~Raw(pc', hand', y)
    <3>1. y \in constructed <=>
            y \in Buffers(slab_free) /\ (\A x : ~InSlab(slab_free, x, y)) /\ ~Raw(pc, hand, y)
      BY <1>1 DEF ConstructedFit
    <3>2. CASE y = b
      BY <1>0, <1>4, <2>1, <3>1, <3>2
    <3>3. CASE y # b /\ y \in N
      <4>1. InSlab(slab_free', n, y)
        BY <1>0, <1>4, <3>3
      <4> QED
        BY <1>0, <3>1, <3>3, <4>1
    <3>4. CASE y # b /\ y \notin N
      BY <1>0, <1>4, <1>12, <2>1, <3>1, <3>4
    <3> QED
      BY <3>2, <3>3, <3>4
  <2> QED
    BY <1>2, <2>2, Zenon DEF ConstructedFit
<1> QED
  BY <1>7, <1>8, <1>9, <1>10, <1>11, <1>15, <1>16 DEF IInv

\* A buffer of a slab is taken, if there is one.
LEMMA AllocGlobalStep ==
  ASSUME IInv, NEW c \in Client, AllocGlobal(c)
  PROVE  IInv'
<1>1. pc[c] = "global" /\ UNCHANGED <<cc, depot, magtype, nmag, constructed, has, ccp, mcp, taskq>>
  BY DEF AllocGlobal
<1>2. CASE freelist = <<>>
  <2>1. Goto(c, "create") /\ freelist' = freelist /\ slab_free' = slab_free /\ hand' = hand
    BY <1>2 DEF AllocGlobal
  <2>2. task # "destroy"
    BY <1>1, BusyClient
  <2>3. UNCHANGED <<cc, depot, magtype, nmag, slabs, has, hand, ccp, mcp, taskq>>
    BY <1>1, <2>1 DEF slabs
  <2> QED
    BY <1>1, <2>1, <2>2, <2>3, GoesOn
<1>3. CASE freelist # <<>>
  <2>1. Goto(c, "ctor") /\ TakeFrom(freelist, slab_free, c)
    BY <1>3 DEF AllocGlobal
  <2>2. SlabsFit(slab_free, freelist) /\ \A x \in DOMAIN slab_free : Len(slab_free[x]) < Chunks[x]
    BY DEF IInv, LayersFit, Partial
  <2>3. Adds(slab_free, NoMag, {})
    BY DEF Adds
  <2> QED
    BY <1>1, <1>3, <2>1, <2>2, <2>3, TakeStep
<1> QED
  BY <1>2, <1>3

\* A new slab is linked in, or dropped for one that has come up since.
LEMMA SlabCreateStep ==
  ASSUME IInv, NEW c \in Client, SlabCreate(c)
  PROVE  IInv'
<1>1. /\ pc[c] = "create" /\ Goto(c, "ctor")
      /\ UNCHANGED <<cc, depot, magtype, nmag, constructed, has, ccp, mcp, taskq>>
  BY DEF SlabCreate
<1>2. SlabsFit(slab_free, freelist) /\ \A x \in DOMAIN slab_free : Len(slab_free[x]) < Chunks[x]
  BY DEF IInv, LayersFit, Partial
<1>3. CASE freelist # <<>>
  <2>1. TakeFrom(freelist, slab_free, c)
    BY <1>3 DEF SlabCreate
  <2>3. Adds(slab_free, NoMag, {})
    BY DEF Adds
  <2> QED
    BY <1>1, <1>2, <1>3, <2>1, <2>3, TakeStep
<1>4. CASE freelist = <<>>
  <2>1. PICK s \in Slab \ DOMAIN slab_free :
          TakeFrom(<<s>>, [x \in DOMAIN slab_free \cup {s} |->
                             IF x = s THEN NewSlab(s) ELSE slab_free[x]], c)
    BY <1>4 DEF SlabCreate
  <2> DEFINE sf == [x \in DOMAIN slab_free \cup {s} |-> IF x = s THEN NewSlab(s) ELSE slab_free[x]]
             fl == <<s>>
             N == OfSlab(s)
  <2>2. TakeFrom(fl, sf, c) /\ fl # <<>> /\ Head(fl) = s
    BY <2>1
  <2>3. SlabsFit(slab_free, <<>>)
    BY <1>2, <1>4
  <2>4. /\ SlabsFit(sf, fl) /\ DOMAIN sf = DOMAIN slab_free \cup {s}
        /\ \A x \in DOMAIN slab_free : sf[x] = slab_free[x]
        /\ \A x, y : InSlab(sf, x, y) <=> InSlab(slab_free, x, y) \/ (x = s /\ y \in N)
    BY <2>3, CreateFits
  <2> HIDE DEF sf, fl
  <2>5. \A y : y \in Buffers(sf) <=> y \in Buffers(slab_free) \/ y \in N
    BY <2>4 DEF Buffers
  <2>6. \A y \in N : y \notin Buffers(slab_free)
    <3>1. \A y \in N : y[1] = s
      BY OfSlabIs
    <3>2. \A y \in Buffers(slab_free) : y[1] \in DOMAIN slab_free
      BY <1>2, BuffersAre
    <3> QED
      BY <3>1, <3>2
  <2>7. \A x \in DOMAIN sf : x # Head(fl) => Len(sf[x]) < Chunks[x]
    BY <1>2, <2>2, <2>4
  <2> HIDE DEF N
  <2>8. Adds(sf, s, N)
    BY <2>4, <2>5, <2>6, Zenon DEF Adds
  <2> QED
    BY <1>1, <2>2, <2>4, <2>7, <2>8, TakeStep
<1> QED
  BY <1>3, <1>4

\* kmem_cache_free_global() seen from outside: b is back in its slab, or the slab is gone
\* with all that was in it.
LEMMA FreedFacts ==
  ASSUME SlabsFit(slab_free, freelist), Partial(slab_free), NEW b \in Buffers(slab_free),
         \A x : ~InSlab(slab_free, x, b), FreeGlobal(b)
  PROVE  /\ SlabsFit(slab_free', freelist') /\ Partial(slab_free')
         /\ \A y \in Buffers(slab_free') : y \in Buffers(slab_free)
         /\ \A y \in Buffers(slab_free) :
              y \notin Buffers(slab_free') => y = b \/ \E x : InSlab(slab_free, x, y)
         /\ \A x, y : InSlab(slab_free', x, y) <=>
              y \in Buffers(slab_free') /\ (InSlab(slab_free, x, y) \/ (x = b[1] /\ y = b))
<1> DEFINE s == b[1]
<1>1. s \in DOMAIN slab_free /\ b \in OfSlab(s) /\ s \in Slab
  BY BuffersAre
<1>2. Gives(slab_free, freelist, s, b, slab_free', freelist')
  BY DEF FreeGlobal, Gives
<1>3. ~InSlab(slab_free, s, b)
  OBVIOUS
<1> HIDE DEF s
<1>4. /\ SlabsFit(slab_free', freelist') /\ Partial(slab_free')
      /\ \A x, y : InSlab(slab_free', x, y) <=>
           x \in DOMAIN slab_free' /\ (InSlab(slab_free, x, y) \/ (x = s /\ y = b))
      /\ \/ DOMAIN slab_free' = DOMAIN slab_free
         \/ /\ DOMAIN slab_free' = DOMAIN slab_free \ {s}
            /\ \A y \in OfSlab(s) : y = b \/ InSlab(slab_free, s, y)
  BY <1>1, <1>2, <1>3, FreeFits
<1>5. \A y \in Buffers(slab_free') : y \in Buffers(slab_free)
  BY <1>4 DEF Buffers
<1>6. ASSUME NEW y \in Buffers(slab_free), y \notin Buffers(slab_free')
      PROVE  y = b \/ \E x : InSlab(slab_free, x, y)
  <2>1. y \in OfSlab(y[1]) /\ y[1] \in DOMAIN slab_free
    BY BuffersAre
  <2>2. y[1] \notin DOMAIN slab_free'
    BY <1>6, <2>1 DEF Buffers
  <2>3. y[1] = s /\ \A z \in OfSlab(s) : z = b \/ InSlab(slab_free, s, z)
    BY <1>4, <2>1, <2>2
  <2> QED
    BY <2>1, <2>3
<1>7. ASSUME NEW x, NEW y, InSlab(slab_free, x, y) \/ (x = s /\ y = b)
      PROVE  x \in DOMAIN slab_free' <=> y \in Buffers(slab_free')
  <2>1. x \in DOMAIN slab_free /\ y \in OfSlab(x)
    <3>1. CASE InSlab(slab_free, x, y)
      <4>1. x \in DOMAIN slab_free /\ slab_free[x] \in Seq(OfSlab(x))
        BY <3>1 DEF InSlab, SlabsFit
      <4>2. PICK i \in 1 .. Len(slab_free[x]) : slab_free[x][i] = y
        BY <3>1 DEF InSlab
      <4> QED
        BY <4>1, <4>2
    <3>2. CASE x = s /\ y = b
      BY <1>1, <3>2
    <3> QED
      BY <1>7, <3>1, <3>2
  <2>2. y[1] = x
    <3>1. x \in Slab
      BY <2>1 DEF SlabsFit
    <3> QED
      BY <2>1, <3>1, OfSlabIs
  <2>3. y \in Buffers(slab_free') => y[1] \in DOMAIN slab_free'
    <3>1. \A t \in DOMAIN slab_free' : t \in Slab /\ \A z \in OfSlab(t) : z[1] = t
      BY <1>4, OfSlabIs DEF SlabsFit
    <3> QED
      BY <3>1 DEF Buffers
  <2>4. x \in DOMAIN slab_free' => y \in Buffers(slab_free')
    BY <2>1 DEF Buffers
  <2> QED
    BY <2>2, <2>3, <2>4
<1>8. \A x, y : InSlab(slab_free', x, y) <=>
        y \in Buffers(slab_free') /\ (InSlab(slab_free, x, y) \/ (x = s /\ y = b))
  BY <1>4, <1>7
<1> QED
  BY <1>4, <1>5, <1>6, <1>8 DEF s

\* A buffer that is above the slab layer is given back.
LEMMA GivenBack ==
  ASSUME LayersFit, Conserved, ConstructedFit, NEW b \in Buffers(slab_free),
         \A x : ~At("slab", x, b), FreeGlobal(b),
         \A a, x, y : a # "slab" => (NextAt(a, x, y) <=> At(a, x, y) /\ y # b),
         constructed' = constructed \ {b},
         \A y : Raw(pc', hand', y) <=> Raw(pc, hand, y) /\ y # b, NoDup(todo')
  PROVE  LayersFit' /\ Conserved' /\ ConstructedFit'
<1>1. \A x, y : InSlab(slab_free, x, y) <=> At("slab", x, y)
  BY DEF At, Where
<1>2. \A x, y : InSlab(slab_free', x, y) <=> NextAt("slab", x, y)
  BY DEF NextAt, Where
<1>3. /\ SlabsFit(slab_free', freelist') /\ Partial(slab_free')
      /\ \A y \in Buffers(slab_free') : y \in Buffers(slab_free)
      /\ \A y \in Buffers(slab_free) :
           y \notin Buffers(slab_free') => y = b \/ \E x : InSlab(slab_free, x, y)
      /\ \A x, y : InSlab(slab_free', x, y) <=>
           y \in Buffers(slab_free') /\ (InSlab(slab_free, x, y) \/ (x = b[1] /\ y = b))
  <2>1. SlabsFit(slab_free, freelist) /\ Partial(slab_free)
    BY DEF LayersFit
  <2>2. \A x : ~InSlab(slab_free, x, b)
    BY <1>1
  <2> QED
    BY <2>1, <2>2, FreedFacts
<1>4. LayersFit'
  BY <1>3 DEF LayersFit
<1>5. /\ \A a, x, y : At(a, x, y) => y \in Buffers(slab_free)
      /\ \A a, x, a2, x2, y : At(a, x, y) /\ At(a2, x2, y) => a = a2 /\ x = x2
  BY Zenon DEF Conserved
<1>6. Conserved'
  <2> DEFINE M == {b} \cup (Buffers(slab_free) \ Buffers(slab_free'))
  <2>1. ASSUME NEW a, NEW x, NEW y, y \notin M PROVE NextAt(a, x, y) <=> At(a, x, y)
    <3>1. CASE a = "slab"
      BY <1>1, <1>2, <1>3, <1>5, <2>1, <3>1
    <3>2. CASE a # "slab"
      BY <2>1, <3>2
    <3> QED
      BY <3>1, <3>2
  <2>2. \A y : y \notin M => (y \in Buffers(slab_free') <=> y \in Buffers(slab_free))
    BY <1>3
  <2>3. ASSUME b \in Buffers(slab_free')
        PROVE  NextAt("slab", b[1], b) /\ \A a, x : NextAt(a, x, b) => a = "slab" /\ x = b[1]
    <3>1. \A x : NextAt("slab", x, b) <=> x = b[1]
      BY <1>1, <1>2, <1>3, <2>3
    <3> QED
      BY <3>1
  <2>4. ASSUME NEW y \in M, y \notin Buffers(slab_free'), NEW a, NEW x PROVE ~NextAt(a, x, y)
    <3>1. CASE a = "slab"
      BY <1>2, <1>3, <2>4, <3>1
    <3>2. CASE a # "slab" /\ NextAt(a, x, y)
      <4>1. At(a, x, y) /\ y # b
        BY <3>2
      <4>2. \E z : At("slab", z, y)
        BY <1>1, <1>3, <2>4, <4>1
      <4> QED
        BY <1>5, <3>2, <4>1, <4>2
    <3> QED
      BY <3>1, <3>2
  <2>5. \A y \in M :
          \/ /\ y \in Buffers(slab_free')
             /\ \E a1, x1 : NextAt(a1, x1, y) /\ \A a, x : NextAt(a, x, y) => a = a1 /\ x = x1
          \/ y \notin Buffers(slab_free') /\ \A a, x : ~NextAt(a, x, y)
    <3>1. ASSUME NEW y \in M
          PROVE  \/ /\ y \in Buffers(slab_free')
                    /\ \E a1, x1 : /\ NextAt(a1, x1, y)
                                   /\ \A a, x : NextAt(a, x, y) => a = a1 /\ x = x1
                 \/ y \notin Buffers(slab_free') /\ \A a, x : ~NextAt(a, x, y)
      <4>1. CASE y \in Buffers(slab_free')
        <5>1. y = b
          BY <4>1
        <5>2. NextAt("slab", b[1], b) /\ \A a, x : NextAt(a, x, b) => a = "slab" /\ x = b[1]
          BY <2>3, <4>1, <5>1
        <5> QED
          BY <4>1, <5>1, <5>2
      <4>2. CASE y \notin Buffers(slab_free')
        BY <2>4, <4>2, Zenon
      <4> QED
        BY <4>1, <4>2
    <3> QED
      BY <3>1
  <2> HIDE DEF M
  <2> QED
    BY <2>1, <2>2, <2>5, SlabsChange
<1>7. ConstructedFit'
  <2>1. ASSUME NEW y
        PROVE  y \in constructed' <=>
          y \in Buffers(slab_free') /\ (\A x : ~InSlab(slab_free', x, y)) /\ ~Raw(pc', hand', y)
    <3>1. y \in constructed <=>
            y \in Buffers(slab_free) /\ (\A x : ~InSlab(slab_free, x, y)) /\ ~Raw(pc, hand, y)
      BY DEF ConstructedFit
    <3>2. CASE y = b
      <4>1. y \in Buffers(slab_free') => InSlab(slab_free', b[1], y)
        BY <1>3, <3>2
      <4> QED
        BY <3>2, <4>1
    <3>3. CASE y # b
      <4>1. CASE y \in Buffers(slab_free')
        BY <1>3, <3>1, <3>3, <4>1
      <4>2. CASE y \notin Buffers(slab_free')
        BY <1>3, <3>1, <3>3, <4>2
      <4> QED
        BY <4>1, <4>2
    <3> QED
      BY <3>2, <3>3
  <2> QED
    BY <2>1, Zenon DEF ConstructedFit
<1> QED
  BY <1>4, <1>6, <1>7

\* The buffer in a client's hand goes back to its slab.
LEMMA HandGivenBack ==
  ASSUME IInv, NEW c \in Client, pc[c] \in {"ctor", "free"}, FreeGlobal(hand[c]),
         UNCHANGED <<cc, depot, magtype, nmag, taskq>>, constructed' = constructed \ {hand[c]},
         pc' \in [Client -> PC] /\ has' \in [Client -> SUBSET Buf] /\ hand' \in [Client -> Slot],
         ccp' \in [Client -> CPU \cup {NoMag}] /\ mcp' \in [Client -> Nat], ClientsFit',
         pc'[c] = "idle", hand'[c] = NoBuf, has'[c] = has[c],
         \A x \in Client : x # c => has'[x] = has[x] /\ hand'[x] = hand[x] /\ pc'[x] = pc[x]
  PROVE  IInv'
<1> DEFINE b == hand[c]
<1>1. /\ TypeOK /\ CpusFit /\ ClientsFit /\ TaskFits /\ PurgeFits /\ LayersFit
      /\ CountFits /\ Conserved /\ ConstructedFit
  BY DEF IInv
<1>2. /\ cc' = cc /\ magtype' = magtype /\ nmag' = nmag /\ fmag' = fmag
      /\ emag' = emag /\ fmin' = fmin /\ emin' = emin /\ flim' = flim /\ elim' = elim
      /\ UNCHANGED taskq /\ UNCHANGED depot /\ todo' = todo /\ Size' = Size
  BY DEF depot, taskq, Size
<1>3. /\ b \in Buf /\ b # NoBuf /\ b \in Buffers(slab_free)
      /\ \A a, x : At(a, x, b) => a = "hand" /\ x = c
  BY InHand
<1>4. TypeOK'
  BY <1>1, <1>2 DEF TypeOK, taskq
<1>5. CpusFit' /\ CountFits'
  BY <1>1, <1>2 DEF CpusFit, CountFits
<1>6. TaskFits' /\ PurgeFits'
  <2>1. task # "destroy"
    BY BusyClient
  <2> QED
    BY <1>1, <1>2, <2>1, TaskKept
<1>7. hand[c] = b /\ FreeGlobal(b) /\ constructed' = constructed \ {b}
  OBVIOUS
<1> HIDE DEF b
<1>8. \A d \in Client : d # c => hand[d] # b
  <2>1. \A d \in Client : hand[d] = b => At("hand", d, b)
    BY <1>3 DEF At, Where
  <2> QED
    BY <1>3, <2>1
<1>9. b \notin has[c]
  <2>1. b \in has[c] => At("has", c, b)
    BY DEF At, Where
  <2> QED
    BY <1>3, <2>1
<1>10. \A y : Raw(pc', hand', y) <=> Raw(pc, hand, y) /\ y # b
  BY <1>7, <1>8 DEF Raw
<1>11. ASSUME NEW a, NEW x, NEW y, a # "slab" PROVE NextAt(a, x, y) <=> At(a, x, y) /\ y # b
  <2>1. CASE y = b
    <3>1. ~NextAt(a, x, y)
      <4>1. CASE a = "hand"
        BY <1>3, <1>8, <2>1, <4>1 DEF NextAt, Where
      <4>2. CASE a # "hand" /\ NextAt(a, x, y)
        <5>1. At(a, x, y)
          BY <1>2, <1>11, <4>2 DEF NextAt, At, Where
        <5> QED
          BY <1>3, <2>1, <4>2, <5>1
      <4> QED
        BY <4>1, <4>2
    <3> QED
      BY <2>1, <3>1
  <2>2. CASE y # b
    <3>1. x \in Client => (y \in has'[x] <=> y \in has[x])
                          /\ (y = hand'[x] /\ y # NoBuf <=> y = hand[x] /\ y # NoBuf)
      BY <1>7, <2>2
    <3> QED
      BY <1>2, <1>11, <2>2, <3>1, Zenon DEF NextAt, At, Where
  <2> QED
    BY <2>1, <2>2
<1>12. LayersFit' /\ Conserved' /\ ConstructedFit'
  <2>1. \A x : ~At("slab", x, b)
    BY <1>3
  <2>2. NoDup(todo')
    BY <1>1, <1>2 DEF LayersFit
  <2> QED
    BY <1>1, <1>3, <1>7, <1>10, <1>11, <2>1, <2>2, GivenBack
<1> QED
  BY <1>4, <1>5, <1>6, <1>12 DEF IInv

\* The constructor fails and the buffer goes back to its slab.
LEMMA ConstructFailsStep ==
  ASSUME IInv, NEW c \in Client, ConstructFails(c)
  PROVE  IInv'
<1>1. /\ pc[c] = "ctor" /\ FreeGlobal(hand[c]) /\ hand' = [hand EXCEPT ![c] = NoBuf]
      /\ Goto(c, "idle") /\ constructed' = constructed /\ has' = has /\ ccp' = ccp /\ mcp' = mcp
      /\ UNCHANGED <<cc, depot, magtype, nmag, taskq>>
  BY DEF ConstructFails
<1>2. TypeOK /\ ClientsFit /\ ConstructedFit
  BY DEF IInv
<1>3. /\ pc' \in [Client -> PC] /\ has' \in [Client -> SUBSET Buf] /\ hand' \in [Client -> Slot]
      /\ ccp' \in [Client -> CPU \cup {NoMag}] /\ mcp' \in [Client -> Nat]
  BY <1>1, <1>2 DEF TypeOK, Goto, PC, Slot
<1>4. /\ pc'[c] = "idle" /\ hand'[c] = NoBuf /\ has'[c] = has[c]
      /\ \A x \in Client : x # c => has'[x] = has[x] /\ hand'[x] = hand[x] /\ pc'[x] = pc[x]
  BY <1>1, <1>2 DEF TypeOK, Goto
<1>5. ClientsFit'
  BY <1>1, <1>2, <1>4 DEF ClientsFit
<1>6. constructed' = constructed \ {hand[c]}
  <2>1. Raw(pc, hand, hand[c])
    BY <1>1 DEF Raw
  <2>2. hand[c] \notin constructed
    BY <1>2, <2>1 DEF ConstructedFit
  <2> QED
    BY <1>1, <2>2
<1> QED
  BY <1>1, <1>3, <1>4, <1>5, <1>6, HandGivenBack

\* A buffer that found no place in a magazine goes back to its slab.
LEMMA FreeBufferStep ==
  ASSUME IInv, NEW c \in Client, FreeBuffer(c)
  PROVE  IInv'
<1>1. /\ pc[c] = "free" /\ FreeGlobal(hand[c]) /\ Returned(c, hand[c])
      /\ constructed' = constructed \ {hand[c]}
      /\ UNCHANGED <<cc, depot, magtype, nmag, taskq>>
  BY DEF FreeBuffer, Destruct
<1>2. TypeOK /\ ClientsFit
  BY DEF IInv
<1>3. /\ pc' \in [Client -> PC] /\ has' \in [Client -> SUBSET Buf] /\ hand' \in [Client -> Slot]
      /\ ccp' \in [Client -> CPU \cup {NoMag}] /\ mcp' \in [Client -> Nat]
      /\ ClientsFit' /\ pc'[c] = "idle" /\ hand'[c] = NoBuf /\ has'[c] = has[c] \ {hand[c]}
      /\ \A x \in Client : x # c => has'[x] = has[x] /\ hand'[x] = hand[x] /\ pc'[x] = pc[x]
  BY <1>1, <1>2, ReturnedFacts
<1>4. hand[c] \notin has[c]
  BY <1>1, InHand
<1>5. has'[c] = has[c]
  BY <1>3, <1>4
<1> QED
  BY <1>1, <1>3, <1>5, HandGivenBack

-----------------------------------------------------------------------------
(* Steps of the kmem_taskq thread.                                         *)

\* kmem_magazine_destroy() gives a buffer back.
LEMMA DestroyRoundStep ==
  ASSUME IInv, DestroyRound
  PROVE  IInv'
<1> DEFINE b == Head(todo)
<1>1. /\ TypeOK /\ CpusFit /\ ClientsFit /\ TaskFits /\ PurgeFits /\ LayersFit
      /\ CountFits /\ Conserved /\ ConstructedFit
  BY DEF IInv
<1>2. /\ todo # <<>> /\ todo' = Tail(todo) /\ FreeGlobal(b) /\ constructed' = constructed \ {b}
      /\ cc' = cc /\ magtype' = magtype /\ nmag' = nmag /\ fmag' = fmag
      /\ emag' = emag /\ fmin' = fmin /\ emin' = emin /\ flim' = flim /\ elim' = elim
      /\ pc' = pc /\ has' = has /\ hand' = hand /\ ccp' = ccp /\ mcp' = mcp
      /\ task' = task /\ stage' = stage /\ left' = left /\ reaplimit' = reaplimit /\ Size' = Size
  BY DEF DestroyRound, Destruct, depot, clients, Size
<1>3. /\ b \in Buf /\ Tail(todo) \in Seq(Buf) /\ NoDup(Tail(todo))
      /\ \A y : InSeq(Tail(todo), y) <=> InSeq(todo, y) /\ y # b
      /\ InSeq(todo, b)
  <2>1. todo \in Seq(Buf) /\ todo # <<>> /\ NoDup(todo) /\ NoBuf \notin Buf
    BY <1>1, <1>2, KmemAssumption DEF TypeOK, LayersFit, Buf
  <2>2. /\ Head(todo) \in Buf /\ Tail(todo) \in Seq(Buf) /\ NoDup(Tail(todo))
        /\ Head(todo) = todo[1] /\ Len(todo) > 0 /\ Len(todo) \in Nat
        /\ \A y : (\E i \in 1 .. Len(Tail(todo)) : Tail(todo)[i] = y)
                    <=> (\E i \in 1 .. Len(todo) : todo[i] = y) /\ y # Head(todo)
    BY <2>1, TailProperties
  <2>3. InSeq(todo, Head(todo))
    BY <2>2 DEF InSeq
  <2> QED
    BY <2>2, <2>3, Zenon DEF InSeq
<1> HIDE DEF b
<1>4. b \in Buffers(slab_free) /\ b # NoBuf /\ \A a, x : At(a, x, b) => a = "task" /\ x = NoMag
  <2>1. At("task", NoMag, b)
    BY <1>3 DEF At, Where
  <2>2. b # NoBuf
    BY <1>3, KmemAssumption DEF Buf
  <2> QED
    BY <1>1, <2>1, <2>2, Zenon DEF Conserved
<1>5. TypeOK'
  BY <1>1, <1>2, <1>3 DEF TypeOK
<1>6. CpusFit' /\ CountFits' /\ ClientsFit'
  BY <1>1, <1>2 DEF CpusFit, CountFits, ClientsFit
<1>7. TaskFits' /\ PurgeFits'
  BY <1>1, <1>2 DEF TaskFits, PurgeFits
<1>8. \A y : Raw(pc', hand', y) <=> Raw(pc, hand, y) /\ y # b
  <2>1. \A d \in Client : hand[d] = b => At("hand", d, b)
    BY <1>4 DEF At, Where
  <2>2. \A d \in Client : hand[d] # b
    BY <1>4, <2>1
  <2> QED
    BY <1>2, <2>2 DEF Raw
<1>9. ASSUME NEW a, NEW x, NEW y, a # "slab" PROVE NextAt(a, x, y) <=> At(a, x, y) /\ y # b
  <2>1. CASE a = "task"
    BY <1>2, <1>3, <2>1 DEF NextAt, At, Where
  <2>2. CASE a # "task"
    <3>1. NextAt(a, x, y) <=> At(a, x, y)
      BY <1>2, <1>9, <2>2 DEF NextAt, At, Where
    <3> QED
      BY <1>4, <2>2, <3>1
  <2> QED
    BY <2>1, <2>2
<1>10. LayersFit' /\ Conserved' /\ ConstructedFit'
  <2>1. \A x : ~At("slab", x, b)
    BY <1>4
  <2>2. NoDup(todo')
    BY <1>2, <1>3
  <2> QED
    BY <1>1, <1>2, <1>4, <1>8, <1>9, <2>1, <2>2, GivenBack
<1> QED
  BY <1>5, <1>6, <1>7, <1>10 DEF IInv

\* The rounds of a magazine that is destroyed are the buffers in it.
LEMMA RoundsOf ==
  ASSUME NEW n \in Nat, NEW m \in 0 .. n, NEW q \in Holding(n, m)
  PROVE  /\ Rounds(q, m) \in Seq(Buf) /\ NoDup(Rounds(q, m))
         /\ \A y : InSeq(Rounds(q, m), y) <=> y \in Content(q)
<1>1. /\ q \in [1 .. n -> Slot] /\ NoDup(q) /\ q # NoMag /\ Len(q) = n
      /\ \A i \in 1 .. n : q[i] # NoBuf <=> i <= m
  BY HoldingMag
<1>2. \A y : y \in Content(q) <=> \E i \in 1 .. n : q[i] = y /\ y # NoBuf
  BY <1>1, ContentOf
<1>3. CASE m = 0
  <2>1. Rounds(q, m) = <<>>
    BY <1>3 DEF Rounds
  <2>2. \A y : y \notin Content(q)
    BY <1>1, <1>2, <1>3
  <2>3. <<>> \in Seq(Buf) /\ NoDup(<<>>) /\ \A y : ~InSeq(<<>>, y)
    BY DEF NoDup, InSeq
  <2> QED
    BY <2>1, <2>2, <2>3
<1>4. CASE m > 0
  <2> DEFINE t == SubSeq(q, 1, m)
  <2>1. Rounds(q, m) = t
    BY <1>1, <1>4 DEF Rounds
  <2>2. \A i \in 1 .. m : q[i] \in Buf /\ q[i] # NoBuf
    BY <1>1 DEF Slot
  <2>3. q \in Seq(Slot)
    BY <1>1, MagazineType
  <2>4. Len(t) = m /\ t \in Seq(Slot) /\ \A i \in 1 .. m : t[i] = q[i]
    BY <1>1, <2>3
  <2>5. t \in Seq(Buf)
    BY <2>2, <2>4
  <2> HIDE DEF t
  <2>6. NoDup(t)
    BY <1>1, <2>4 DEF NoDup
  <2>7. \A y : InSeq(t, y) <=> y \in Content(q)
    BY <1>1, <1>2, <2>2, <2>4 DEF InSeq
  <2> QED
    BY <2>1, <2>5, <2>6, <2>7
<1> QED
  BY <1>3, <1>4

\* Two of them together.
LEMMA Joined ==
  ASSUME NEW p \in Seq(Buf), NEW q \in Seq(Buf), NoDup(p), NoDup(q),
         \A y : ~(InSeq(p, y) /\ InSeq(q, y))
  PROVE  /\ p \o q \in Seq(Buf) /\ NoDup(p \o q)
         /\ \A y : InSeq(p \o q, y) <=> InSeq(p, y) \/ InSeq(q, y)
<1> DEFINE t == p \o q
<1>1. /\ Len(p) \in Nat /\ Len(q) \in Nat /\ t \in Seq(Buf) /\ Len(t) = Len(p) + Len(q)
      /\ \A i \in 1 .. Len(t) : t[i] = IF i <= Len(p) THEN p[i] ELSE q[i - Len(p)]
  OBVIOUS
<1> HIDE DEF t
<1>2. ASSUME NEW i \in 1 .. Len(t)
      PROVE  \/ i \in 1 .. Len(p) /\ t[i] = p[i] /\ InSeq(p, t[i])
             \/ i - Len(p) \in 1 .. Len(q) /\ t[i] = q[i - Len(p)] /\ InSeq(q, t[i])
  <2>1. CASE i <= Len(p)
    BY <1>1, <2>1 DEF InSeq
  <2>2. CASE i > Len(p)
    <3>1. i - Len(p) \in 1 .. Len(q) /\ t[i] = q[i - Len(p)]
      BY <1>1, <2>2
    <3> QED
      BY <3>1 DEF InSeq
  <2> QED
    BY <1>1, <2>1, <2>2
<1>3. NoDup(t)
  <2>1. ASSUME NEW i \in 1 .. Len(t), NEW j \in 1 .. Len(t), t[i] = t[j], t[i] # NoBuf
        PROVE  i = j
    <3>1. CASE i \in 1 .. Len(p) /\ t[i] = p[i] /\ InSeq(p, t[i])
      <4>1. j \in 1 .. Len(p) /\ t[j] = p[j]
        BY <1>2, <2>1, <3>1
      <4> QED
        BY <2>1, <3>1, <4>1 DEF NoDup
    <3>2. CASE i - Len(p) \in 1 .. Len(q) /\ t[i] = q[i - Len(p)] /\ InSeq(q, t[i])
      <4>1. j - Len(p) \in 1 .. Len(q) /\ t[j] = q[j - Len(p)]
        BY <1>2, <2>1, <3>2
      <4>2. i - Len(p) = j - Len(p)
        BY <2>1, <3>2, <4>1 DEF NoDup
      <4> QED
        BY <1>1, <4>2
    <3> QED
      BY <1>2, <3>1, <3>2
  <2> QED
    BY <2>1 DEF NoDup
<1>4. ASSUME NEW y, InSeq(t, y) PROVE InSeq(p, y) \/ InSeq(q, y)
  BY <1>2, <1>4 DEF InSeq
<1>5. ASSUME NEW y, InSeq(p, y) PROVE InSeq(t, y)
  BY <1>1, <1>5 DEF InSeq
<1>6. ASSUME NEW y, InSeq(q, y) PROVE InSeq(t, y)
  <2>1. PICK i \in 1 .. Len(q) : q[i] = y
    BY <1>6 DEF InSeq
  <2>2. Len(p) + i \in 1 .. Len(t) /\ (Len(p) + i) - Len(p) = i /\ ~(Len(p) + i <= Len(p))
    BY <1>1
  <2>3. t[Len(p) + i] = y
    BY <1>1, <2>1, <2>2
  <2> QED
    BY <2>2, <2>3 DEF InSeq
<1> QED
  BY <1>1, <1>3, <1>4, <1>5, <1>6 DEF t

\* What kmem_cache_magazine_purge() destroys of a CPU.
LEMMA CpuRounds ==
  ASSUME NEW n \in Nat, n > 0, NEW r, CpuFits(r, n),
         \A y : ~(y \in Content(r.loaded) /\ y \in Content(r.full))
  PROVE  LET t == Rounds(r.loaded, r.rounds) \o Rounds(r.full, r.magsize)
         IN
         /\ t \in Seq(Buf) /\ NoDup(t)
         /\ \A y : InSeq(t, y) <=> y \in Content(r.loaded) \/ y \in Content(r.full)
<1> DEFINE p == Rounds(r.loaded, r.rounds)
           q == Rounds(r.full, r.magsize)
<1>0. /\ <<>> \in Seq(Buf) /\ NoDup(<<>>) /\ (\A y : ~InSeq(<<>>, y))
      /\ \A y : y \notin Content(NoMag)
  BY DEF NoDup, InSeq, Content
<1>1. p \in Seq(Buf) /\ NoDup(p) /\ \A y : InSeq(p, y) <=> y \in Content(r.loaded)
  <2>1. CASE r.loaded = NoMag
    <3>1. p = <<>>
      BY <2>1 DEF Rounds
    <3> QED
      BY <1>0, <2>1, <3>1
  <2>2. CASE r.loaded # NoMag
    <3>1. r.rounds \in 0 .. n /\ r.loaded \in Holding(n, r.rounds)
      BY <2>2 DEF CpuFits
    <3> QED
      BY <3>1, RoundsOf
  <2> QED
    BY <2>1, <2>2
<1>2. q \in Seq(Buf) /\ NoDup(q) /\ \A y : InSeq(q, y) <=> y \in Content(r.full)
  <2>1. CASE r.full = NoMag
    <3>1. q = <<>>
      BY <2>1 DEF Rounds
    <3> QED
      BY <1>0, <2>1, <3>1
  <2>2. CASE r.full # NoMag
    <3>1. r.magsize = n /\ r.full \in Holding(n, n) /\ n \in 0 .. n
      BY <2>2 DEF CpuFits
    <3> QED
      BY <3>1, RoundsOf
  <2> QED
    BY <2>1, <2>2
<1> HIDE DEF p, q
<1>3. /\ p \o q \in Seq(Buf) /\ NoDup(p \o q)
      /\ \A y : InSeq(p \o q, y) <=> InSeq(p, y) \/ InSeq(q, y)
  BY <1>1, <1>2, Joined
<1>4. /\ p \o q \in Seq(Buf) /\ NoDup(p \o q)
      /\ \A y : InSeq(p \o q, y) <=> y \in Content(r.loaded) \/ y \in Content(r.full)
  BY <1>1, <1>2, <1>3, Zenon
<1> QED
  BY <1>4, Zenon DEF p, q

\* A CPU gives its magazines up.
LEMMA PurgeCpuStep ==
  ASSUME IInv, NEW k \in CPU, PurgeCpu(k)
  PROVE  IInv'
<1> DEFINE r == cc[k]
<1>1. /\ TypeOK /\ CpusFit /\ ClientsFit /\ TaskFits /\ PurgeFits /\ LayersFit
      /\ CountFits /\ Conserved /\ ConstructedFit
  BY DEF IInv
<1>2. /\ stage = "cpus" /\ todo = <<>> /\ k \in left
      /\ cc' = [cc EXCEPT ![k] = NoMagazines(0)]
      /\ todo' = Rounds(r.loaded, r.rounds) \o Rounds(r.full, r.magsize)
      /\ nmag' = nmag - Cardinality({f \in {"loaded", "full", "empty"} : r[f] # NoMag})
      /\ left' = left \ {k}
      /\ magtype' = magtype /\ fmag' = fmag /\ emag' = emag /\ fmin' = fmin /\ emin' = emin
      /\ flim' = flim /\ elim' = elim /\ UnchangedSlabs
      /\ pc' = pc /\ has' = has /\ hand' = hand /\ ccp' = ccp /\ mcp' = mcp
      /\ task' = task /\ stage' = stage /\ reaplimit' = reaplimit /\ Size' = Size
  BY DEF PurgeCpu, depot, clients, slabs, UnchangedSlabs, Size
<1>3. /\ Size \in Nat /\ Size > 0 /\ CpuFits(r, Size) /\ Len(fmag) \in Nat /\ Len(emag) \in Nat
      /\ \A y : ~(y \in Content(r.loaded) /\ y \in Content(r.full))
  BY CpuFacts
<1>4. /\ todo' \in Seq(Buf) /\ NoDup(todo')
      /\ \A y : InSeq(todo', y) <=> y \in Content(r.loaded) \/ y \in Content(r.full)
  <2> HIDE DEF r
  <2> QED
    BY <1>2, <1>3, CpuRounds
<1> HIDE DEF r
<1>5. nmag' = nmag + (0 - Mags(r)) /\ 0 - Mags(r) \in Int
  <2> DEFINE n == Mags(r)
  <2>1. nmag' = nmag - n
    BY <1>2, MagsOf
  <2>2. n \in Nat
    BY MagsNat
  <2>3. nmag \in Int
    BY <1>1 DEF TypeOK
  <2> HIDE DEF n
  <2>4. nmag' = nmag + (0 - n) /\ 0 - n \in Int
    BY <2>1, <2>2, <2>3
  <2> QED
    BY <2>4 DEF n
<1>6. CpuFits(NoMagazines(0), Size)
  BY <1>3, NoMagazinesFits
<1>7. CpusFit' /\ cc'[k] = NoMagazines(0) /\ \A x \in CPU : x # k => cc'[x] = cc[x]
  BY <1>1, <1>2, <1>6, CpuSet
<1>8. /\ NoMagazines(0).magsize = 0 /\ NoMagazines(0).loaded = NoMag
      /\ NoMagazines(0).full = NoMag /\ NoMagazines(0).empty = NoMag
  BY DEF NoMagazines
<1>9. TypeOK'
  <2>1. nmag' \in Int /\ left' \in SUBSET CPU
    BY <1>1, <1>2, <1>5 DEF TypeOK
  <2> QED
    BY <1>1, <1>2, <1>4, <2>1 DEF TypeOK
<1>10. ClientsFit'
  BY <1>1, <1>2 DEF ClientsFit
<1>11. TaskFits'
  BY <1>1, <1>2 DEF TaskFits
<1>12. PurgeFits'
  <2>1. \A x \in CPU \ left' : cc'[x].magsize = 0
    <3>1. \A x \in CPU \ left : cc[x].magsize = 0
      BY <1>1, <1>2 DEF PurgeFits
    <3> QED
      BY <1>2, <1>7, <1>8, <3>1
  <2> QED
    BY <1>2, <2>1 DEF PurgeFits
<1>13. LayersFit'
  BY <1>1, <1>2, <1>4 DEF LayersFit, UnchangedSlabs
<1>14. ConstructedFit'
  BY <1>1, <1>2 DEF ConstructedFit, UnchangedSlabs
<1>15. CountFits'
  <2>1. Mags(cc'[k]) = 0 /\ Mags(cc[k]) = Mags(r) /\ Mags(r) \in Nat
    BY <1>7, <1>8, MagsNat DEF Mags, One, r
  <2>2. Len(fmag') + Len(emag') + Mags(cc'[k]) = Len(fmag) + Len(emag) + Mags(cc[k]) + (0 - Mags(r))
    BY <1>2, <1>3, <2>1
  <2>3. Len(fmag') \in Nat /\ Len(emag') \in Nat
    BY <1>2, <1>3
  <2> QED
    BY <1>1, <1>3, <1>5, <1>7, <2>2, <2>3, CountKept
<1>16. Conserved'
  <2> DEFINE M == Content(r.loaded) \cup Content(r.full)
  <2>1. \A y : y \notin Content(NoMag)
    BY DEF Content
  <2>2. \A y : y \notin Content(cc'[k].loaded) /\ y \notin Content(cc'[k].full)
    BY <1>7, <1>8, <2>1
  <2>3. /\ \A y : y \in Content(r.loaded) <=> At("loaded", k, y)
        /\ \A y : y \in Content(r.full) <=> At("full", k, y)
    BY CpuFacts DEF r
  <2>4. /\ slab_free' = slab_free /\ fmag' = fmag /\ has' = has /\ hand' = hand
        /\ \A y : InSeq(todo', y) <=> y \in M
        /\ \A y : ~InSeq(todo, y)
    BY <1>2, <1>4 DEF UnchangedSlabs, InSeq
  <2>5. ASSUME NEW a, NEW x, NEW y, y \notin M PROVE NextAt(a, x, y) <=> At(a, x, y)
    <3>1. x \in CPU => (y \in Content(cc'[x].loaded) <=> y \in Content(cc[x].loaded))
                       /\ (y \in Content(cc'[x].full) <=> y \in Content(cc[x].full))
      BY <1>7, <2>2, <2>5 DEF r
    <3> QED
      BY <2>4, <2>5, <3>1 DEF NextAt, At, Where
  <2>6. \A y \in M : y \in Buffers(slab_free)
    BY <1>1, <2>3 DEF Conserved
  <2>7. ASSUME NEW y \in M
        PROVE  NextAt("task", NoMag, y) /\ \A a, x : NextAt(a, x, y) => a = "task" /\ x = NoMag
    <3>1. NextAt("task", NoMag, y)
      BY <2>4 DEF NextAt, Where
    <3>2. \A a, x : At(a, x, y) => a \in {"loaded", "full"} /\ x = k
      <4>1. At("loaded", k, y) \/ At("full", k, y)
        BY <2>3
      <4> QED
        BY <4>1, CpuFacts
    <3>3. ASSUME NEW a, NEW x, NextAt(a, x, y), ~(a = "task" /\ x = NoMag) PROVE FALSE
      <4>1. ~(a \in {"loaded", "full"} /\ x = k)
        BY <2>2, <3>3 DEF NextAt, Where
      <4>2. At(a, x, y)
        BY <1>7, <2>4, <3>3, <4>1 DEF NextAt, At, Where
      <4> QED
        BY <3>2, <4>1, <4>2
    <3> QED
      BY <3>1, <3>3
  <2>8. \A y \in M : \E a1, x1 : NextAt(a1, x1, y) /\ \A a, x : NextAt(a, x, y) => a = a1 /\ x = x1
    BY <2>7
  <2>9. Buffers(slab_free') = Buffers(slab_free)
    BY <2>4
  <2> HIDE DEF M
  <2> QED
    BY <1>1, <2>5, <2>6, <2>8, <2>9, Relocated
<1> QED
  BY <1>7, <1>9, <1>10, <1>11, <1>12, <1>13, <1>14, <1>15, <1>16 DEF IInv

\* A full magazine is taken from the depot and is to be destroyed.
LEMMA ReapFullStep ==
  ASSUME IInv, ReapFull
  PROVE  IInv'
<1> DEFINE q == Head(fmag)
<1>1. /\ TypeOK /\ CpusFit /\ ClientsFit /\ TaskFits /\ PurgeFits /\ LayersFit
      /\ CountFits /\ Conserved /\ ConstructedFit
  BY DEF IInv
<1>2. /\ stage \in {"reap", "fmag", "emag"} /\ todo = <<>> /\ stage # "emag" /\ FullLimit > 0
      /\ fmag # <<>> /\ reaplimit' = FullLimit - 1 /\ flim' = (IF stage = "reap" THEN 0 ELSE flim)
      /\ fmin' = fmin - 1 /\ todo' = Rounds(q, Size) /\ fmag' = Tail(fmag) /\ nmag' = nmag - 1
      /\ stage' = "fmag" /\ cc' = cc /\ emag' = emag /\ emin' = emin /\ elim' = elim
      /\ magtype' = magtype /\ UnchangedSlabs
      /\ pc' = pc /\ has' = has /\ hand' = hand /\ ccp' = ccp /\ mcp' = mcp
      /\ task' = task /\ left' = left /\ Size' = Size
  BY DEF ReapFull, Reaping, MoreFull, ResetFull, clients, slabs, UnchangedSlabs, Size
<1>3. Size \in Nat /\ Size > 0 /\ Len(emag) \in Nat /\ fmag \in Seq(Holding(Size, Size))
  BY <1>1, DepotMags DEF TypeOK
<1>4. /\ q \in Holding(Size, Size) /\ fmag' \in Seq(Holding(Size, Size))
      /\ Len(fmag') = Len(fmag) - 1 /\ Len(fmag) \in Nat /\ Len(fmag) > 0
      /\ \A x, y : InDepot(fmag', x, y) <=> InDepot(fmag, x, y) /\ x # Len(fmag)
      /\ \A y : InDepot(fmag, Len(fmag), y) <=> y \in Content(q)
  BY <1>2, <1>3, DepotPop
<1> HIDE DEF q
<1>5. /\ todo' \in Seq(Buf) /\ NoDup(todo') /\ \A y : InSeq(todo', y) <=> y \in Content(q)
  <2>1. Size \in 0 .. Size
    BY <1>3
  <2> QED
    BY <1>2, <1>3, <1>4, <2>1, RoundsOf
<1>6. FullLimit \in Int
  BY <1>1 DEF FullLimit, Least, TypeOK
<1>7. TypeOK'
  <2>1. nmag' \in Int /\ fmin' \in Int /\ flim' \in Int /\ reaplimit' \in Int /\ stage' \in Stage
    BY <1>1, <1>2, <1>6 DEF TypeOK, Stage
  <2> QED
    BY <1>1, <1>2, <1>4, <1>5, <2>1 DEF TypeOK
<1>8. CpusFit' /\ ClientsFit'
  BY <1>1, <1>2 DEF CpusFit, ClientsFit
<1>9. TaskFits'
  BY <1>1, <1>2 DEF TaskFits
<1>10. PurgeFits'
  <2>1. CASE task \notin {"resize", "destroy"}
    BY <1>2, <2>1 DEF PurgeFits
  <2>2. CASE task \in {"resize", "destroy"}
    <3>1. /\ \A k \in CPU : cc[k].magsize = 0
          /\ stage = "reap" => flim = Len(fmag) /\ fmin = Len(fmag)
          /\ stage = "fmag" => reaplimit = Len(fmag) /\ fmin = Len(fmag)
          /\ elim = Len(emag) /\ emin = Len(emag)
      BY <1>1, <1>2, <2>2 DEF PurgeFits
    <3>2. FullLimit = Len(fmag) /\ fmin = Len(fmag)
      BY <1>2, <3>1 DEF FullLimit, Least
    <3>3. reaplimit' = Len(fmag') /\ fmin' = Len(fmag') /\ elim' = Len(emag') /\ emin' = Len(emag')
      BY <1>2, <1>4, <3>1, <3>2
    <3> QED
      BY <1>2, <3>1, <3>3 DEF PurgeFits
  <2> QED
    BY <2>1, <2>2
<1>11. LayersFit'
  BY <1>1, <1>2, <1>5 DEF LayersFit, UnchangedSlabs
<1>12. ConstructedFit'
  BY <1>1, <1>2 DEF ConstructedFit, UnchangedSlabs
<1>13. CountFits'
  <2>1. AllMags(cc) \in Nat
    BY AllMagsNat
  <2>2. nmag = Len(fmag) + Len(emag) + AllMags(cc)
    BY <1>1 DEF CountFits
  <2>3. nmag' = Len(fmag') + Len(emag') + AllMags(cc')
    BY <1>2, <1>3, <1>4, <2>1, <2>2
  <2> QED
    BY <2>3 DEF CountFits
<1>14. Conserved'
  <2> DEFINE M == Content(q)
  <2>1. \A y : y \in M <=> At("depot", Len(fmag), y)
    BY <1>4 DEF At, Where
  <2>2. /\ slab_free' = slab_free /\ cc' = cc /\ has' = has /\ hand' = hand
        /\ \A y : InSeq(todo', y) <=> y \in M
        /\ \A y : ~InSeq(todo, y)
    BY <1>2, <1>5 DEF UnchangedSlabs, InSeq
  <2>3. ASSUME NEW a, NEW x, NEW y, y \notin M PROVE NextAt(a, x, y) <=> At(a, x, y)
    <3>1. InDepot(fmag', x, y) <=> InDepot(fmag, x, y)
      BY <1>4, <2>3
    <3> QED
      BY <2>2, <2>3, <3>1 DEF NextAt, At, Where
  <2>4. /\ \A a, x, y : At(a, x, y) => y \in Buffers(slab_free)
        /\ \A a, x, a2, x2, y : At(a, x, y) /\ At(a2, x2, y) => a = a2 /\ x = x2
    BY <1>1, Zenon DEF Conserved
  <2>5. \A y \in M : y \in Buffers(slab_free)
    BY <2>1, <2>4
  <2>6. ASSUME NEW y \in M
        PROVE  NextAt("task", NoMag, y) /\ \A a, x : NextAt(a, x, y) => a = "task" /\ x = NoMag
    <3>1. NextAt("task", NoMag, y)
      BY <2>2 DEF NextAt, Where
    <3>2. \A a, x : At(a, x, y) => a = "depot" /\ x = Len(fmag)
      BY <2>1, <2>4
    <3>3. ASSUME NEW a, NEW x, NextAt(a, x, y), ~(a = "task" /\ x = NoMag) PROVE FALSE
      <4>1. ~(a = "depot" /\ x = Len(fmag))
        BY <1>4, <3>3 DEF NextAt, Where
      <4>2. At(a, x, y)
        BY <1>4, <2>2, <3>3, <4>1 DEF NextAt, At, Where
      <4> QED
        BY <3>2, <4>1, <4>2
    <3> QED
      BY <3>1, <3>3
  <2>7. \A y \in M : \E a1, x1 : NextAt(a1, x1, y) /\ \A a, x : NextAt(a, x, y) => a = a1 /\ x = x1
    BY <2>6
  <2>8. Buffers(slab_free') = Buffers(slab_free)
    BY <2>2
  <2> HIDE DEF M
  <2> QED
    BY <1>1, <2>3, <2>5, <2>7, <2>8, Relocated
<1> QED
  BY <1>7, <1>8, <1>9, <1>10, <1>11, <1>12, <1>13, <1>14 DEF IInv

-----------------------------------------------------------------------------
(* Steps of the task and of the update that move no buffer.                *)

\* The buffers and the clients are as they were.
LEMMA NothingMoves ==
  ASSUME IInv, UNCHANGED <<slabs, clients, fmag, todo>>,
         \A k \in CPU : cc'[k].loaded = cc[k].loaded /\ cc'[k].full = cc[k].full,
         TypeOK', CpusFit', TaskFits', PurgeFits', CountFits'
  PROVE  IInv'
<1>1. ClientsFit /\ LayersFit /\ Conserved /\ ConstructedFit
  BY DEF IInv
<1>2. /\ UnchangedSlabs /\ pc' = pc /\ has' = has /\ hand' = hand /\ ccp' = ccp /\ mcp' = mcp
      /\ slab_free' = slab_free /\ fmag' = fmag /\ todo' = todo
  BY DEF slabs, clients, UnchangedSlabs
<1>3. LayersFit' /\ ConstructedFit'
  BY <1>1, <1>2, SameSlabs
<1>4. ClientsFit'
  BY <1>1, <1>2 DEF ClientsFit
<1>5. Conserved'
  BY <1>1, <1>2, SamePlaces
<1> QED
  BY <1>3, <1>4, <1>5 DEF IInv

\* A step of the task that leaves the CPUs and the magazines alone.
LEMMA OnlyTask ==
  ASSUME IInv, UNCHANGED <<cc, fmag, emag, magtype, nmag, slabs, clients, todo>>,
         fmin' \in Int /\ emin' \in Int /\ flim' \in Int /\ elim' \in Int /\ reaplimit' \in Int,
         task' \in Task /\ stage' \in Stage /\ left' \in SUBSET CPU, TaskFits', PurgeFits'
  PROVE  IInv'
<1>1. TypeOK /\ CpusFit /\ CountFits
  BY DEF IInv
<1>2. /\ cc' = cc /\ fmag' = fmag /\ emag' = emag /\ magtype' = magtype /\ nmag' = nmag
      /\ pc' = pc /\ has' = has /\ hand' = hand /\ ccp' = ccp /\ mcp' = mcp /\ todo' = todo
      /\ Size' = Size
  BY DEF clients, Size
<1>3. TypeOK'
  BY <1>1, <1>2 DEF TypeOK
<1>4. CpusFit' /\ CountFits'
  BY <1>1, <1>2 DEF CpusFit, CountFits
<1> QED
  BY <1>2, <1>3, <1>4, NothingMoves

\* A task is started.
LEMMA StartTaskStep ==
  ASSUME IInv, StartTask
  PROVE  IInv'
<1>1. TypeOK /\ TaskFits /\ PurgeFits
  BY DEF IInv
<1>2. /\ task = "none" /\ UNCHANGED <<cc, fmag, emag, magtype, nmag, slabs, clients, todo>>
      /\ fmin' = fmin /\ emin' = emin /\ flim' = flim /\ elim' = elim /\ reaplimit' = reaplimit
      /\ cc' = cc /\ magtype' = magtype /\ todo' = todo /\ pc' = pc /\ has' = has
  BY DEF StartTask, depot, clients
<1>3. \/ task' = "reap" /\ stage' = "reap" /\ left' = {}
      \/ task' = "purge" /\ stage' = "cpus" /\ left' = CPU
      \/ task' = "enable" /\ stage' = "enable" /\ left' = CPU
      \/ magtype < Len(MagSizes) /\ task' = "resize" /\ stage' = "cpus" /\ left' = CPU
  BY DEF StartTask, TaskStarts
<1>4. todo = <<>>
  BY <1>1, <1>2 DEF TaskFits
<1>5. task' \in Task /\ stage' \in Stage /\ left' \in SUBSET CPU
  BY <1>3 DEF Task, Stage
<1>6. TaskFits'
  BY <1>1, <1>2, <1>3, <1>4 DEF TaskFits
<1>7. PurgeFits'
  BY <1>3 DEF PurgeFits
<1>8. fmin' \in Int /\ emin' \in Int /\ flim' \in Int /\ elim' \in Int /\ reaplimit' \in Int
  BY <1>1, <1>2 DEF TypeOK
<1> QED
  BY <1>2, <1>5, <1>6, <1>7, <1>8, OnlyTask

\* kmem_cache_destroy() is called.
LEMMA StartDestroyStep ==
  ASSUME IInv, StartDestroy
  PROVE  IInv'
<1>1. TypeOK /\ TaskFits
  BY DEF IInv
<1>2. /\ task = "none" /\ UNCHANGED <<cc, fmag, emag, magtype, nmag, slabs, clients, todo>>
      /\ fmin' = fmin /\ emin' = emin /\ flim' = flim /\ elim' = elim /\ reaplimit' = reaplimit
      /\ todo' = todo /\ pc' = pc /\ has' = has
      /\ \A c \in Client : pc[c] = "idle" /\ has[c] = {}
      /\ task' = "destroy" /\ stage' = "cpus" /\ left' = CPU
  BY DEF StartDestroy, TaskStarts, depot, clients
<1>3. todo = <<>>
  BY <1>1, <1>2 DEF TaskFits
<1>4. task' \in Task /\ stage' \in Stage /\ left' \in SUBSET CPU
  BY <1>2 DEF Task, Stage
<1>5. TaskFits'
  BY <1>2, <1>3 DEF TaskFits
<1>6. PurgeFits'
  BY <1>2 DEF PurgeFits
<1>7. fmin' \in Int /\ emin' \in Int /\ flim' \in Int /\ elim' \in Int /\ reaplimit' \in Int
  BY <1>1, <1>2 DEF TypeOK
<1> QED
  BY <1>2, <1>4, <1>5, <1>6, <1>7, OnlyTask

\* After the last CPU the whole depot is made subject to the reap.
LEMMA PurgeDepotStep ==
  ASSUME IInv, PurgeDepot
  PROVE  IInv'
<1>1. TypeOK /\ TaskFits /\ PurgeFits
  BY DEF IInv
<1>2. /\ stage = "cpus" /\ todo = <<>> /\ left = {}
      /\ fmin' = Len(fmag) /\ flim' = Len(fmag) /\ emin' = Len(emag) /\ elim' = Len(emag)
      /\ task' = (IF task = "purge" THEN "reap" ELSE task) /\ stage' = "reap" /\ left' = {}
      /\ UNCHANGED <<cc, fmag, emag, magtype, nmag, slabs, clients, todo>>
      /\ reaplimit' = reaplimit /\ cc' = cc /\ fmag' = fmag /\ emag' = emag
      /\ magtype' = magtype /\ todo' = todo /\ pc' = pc /\ has' = has
  BY DEF PurgeDepot, TaskStarts, clients
<1>3. Len(fmag) \in Nat /\ Len(emag) \in Nat
  BY <1>1, DepotMags
<1>4. task \in {"purge", "resize", "destroy"}
  BY <1>1, <1>2 DEF TaskFits
<1>5. TaskFits'
  BY <1>1, <1>2, <1>4 DEF TaskFits
<1>6. PurgeFits'
  BY <1>1, <1>2 DEF PurgeFits
<1>7. task' \in Task /\ stage' \in Stage /\ left' \in SUBSET CPU
  BY <1>2, <1>4 DEF Task, Stage
<1>8. fmin' \in Int /\ emin' \in Int /\ flim' \in Int /\ elim' \in Int /\ reaplimit' \in Int
  BY <1>1, <1>2, <1>3 DEF TypeOK
<1> QED
  BY <1>2, <1>5, <1>6, <1>7, <1>8, OnlyTask

\* The update takes the depot's lengths for the new minimum, which is what the purge
\* has made them.
LEMMA UpdateStep ==
  ASSUME IInv, Update
  PROVE  IInv'
<1>1. TypeOK /\ TaskFits /\ PurgeFits
  BY DEF IInv
<1>2. /\ task # "destroy"
      /\ flim' = fmin /\ fmin' = Len(fmag) /\ elim' = emin /\ emin' = Len(emag)
      /\ UNCHANGED <<cc, fmag, emag, magtype, nmag, slabs, clients, todo>>
      /\ task' = task /\ stage' = stage /\ left' = left
      /\ reaplimit' = reaplimit /\ cc' = cc /\ fmag' = fmag /\ emag' = emag
      /\ magtype' = magtype /\ todo' = todo /\ pc' = pc /\ has' = has
  BY DEF Update, Alive, clients, taskq
<1>3. Len(fmag) \in Nat /\ Len(emag) \in Nat
  BY <1>1, DepotMags
<1>4. TaskFits'
  BY <1>1, <1>2 DEF TaskFits
<1>5. PurgeFits'
  BY <1>1, <1>2 DEF PurgeFits
<1>6. task' \in Task /\ stage' \in Stage /\ left' \in SUBSET CPU
  BY <1>1, <1>2 DEF TypeOK
<1>7. fmin' \in Int /\ emin' \in Int /\ flim' \in Int /\ elim' \in Int /\ reaplimit' \in Int
  BY <1>1, <1>2, <1>3 DEF TypeOK
<1> QED
  BY <1>2, <1>4, <1>5, <1>6, <1>7, OnlyTask

\* The reap ends, and when the CPUs were purged it has emptied the depot.
LEMMA EndReapStep ==
  ASSUME IInv, EndReap
  PROVE  IInv'
<1>1. TypeOK /\ TaskFits /\ PurgeFits
  BY DEF IInv
<1>2. /\ stage \in {"reap", "fmag", "emag"} /\ todo = <<>> /\ ~MoreFull /\ ~MoreEmpty
      /\ reaplimit' = 0 /\ flim' = (IF stage = "reap" THEN 0 ELSE flim)
      /\ elim' = (IF stage = "emag" THEN elim ELSE 0)
      /\ fmin' = fmin /\ emin' = emin
      /\ UNCHANGED <<cc, fmag, emag, magtype, nmag, slabs, clients, todo>>
      /\ left' = left /\ cc' = cc /\ fmag' = fmag /\ emag' = emag
      /\ magtype' = magtype /\ todo' = todo /\ pc' = pc /\ has' = has
  BY DEF EndReap, Reaping, ResetFull, ResetEmpty, clients
<1>3. /\ task = "resize" => stage' = "setup" /\ task' = task
      /\ task = "destroy" => stage' = "dead" /\ task' = task
      /\ task \notin {"resize", "destroy"} => stage' = "idle" /\ task' = "none"
  BY DEF EndReap
<1>4. Len(fmag) \in Nat /\ Len(emag) \in Nat
  BY <1>1, DepotMags
<1>5. ASSUME task \in {"resize", "destroy"} PROVE fmag = <<>> /\ emag = <<>>
  <2>1. stage # "cpus"
    BY <1>2
  <2>2. /\ stage = "reap" => flim = Len(fmag) /\ fmin = Len(fmag)
        /\ stage = "fmag" => reaplimit = Len(fmag) /\ fmin = Len(fmag)
        /\ stage \in {"reap", "fmag"} => elim = Len(emag) /\ emin = Len(emag)
        /\ stage = "emag" => fmag = <<>> /\ reaplimit = Len(emag)
    BY <1>1, <1>5, <2>1 DEF PurgeFits
  <2>3. stage # "emag" => FullLimit = Len(fmag)
    BY <1>2, <2>2 DEF FullLimit, Least
  <2>4. EmptyLimit = Len(emag)
    BY <1>2, <2>2 DEF EmptyLimit, Least
  <2>5. fmag # <<>> => Len(fmag) > 0
    BY <1>1 DEF TypeOK
  <2>6. emag # <<>> => Len(emag) > 0
    BY <1>1 DEF TypeOK
  <2> QED
    BY <1>2, <2>2, <2>3, <2>4, <2>5, <2>6 DEF MoreFull, MoreEmpty
<1>6. TaskFits'
  BY <1>1, <1>2, <1>3 DEF TaskFits
<1>7. PurgeFits'
  <2>1. CASE task \in {"resize", "destroy"}
    <3>1. \A k \in CPU : cc'[k].magsize = 0
      BY <1>1, <1>2, <2>1 DEF PurgeFits
    <3> QED
      BY <1>2, <1>3, <1>5, <2>1, <3>1 DEF PurgeFits
  <2>2. CASE task \notin {"resize", "destroy"}
    BY <1>3, <2>2 DEF PurgeFits
  <2> QED
    BY <2>1, <2>2
<1>8. task' \in Task /\ stage' \in Stage /\ left' \in SUBSET CPU
  BY <1>1, <1>2, <1>3 DEF Task, Stage, TypeOK
<1>9. fmin' \in Int /\ emin' \in Int /\ flim' \in Int /\ elim' \in Int /\ reaplimit' \in Int
  BY <1>1, <1>2 DEF TypeOK
<1> QED
  BY <1>2, <1>6, <1>7, <1>8, <1>9, OnlyTask

\* An empty magazine is taken from the depot.
LEMMA ReapEmptyStep ==
  ASSUME IInv, ReapEmpty
  PROVE  IInv'
<1>1. TypeOK /\ CpusFit /\ TaskFits /\ PurgeFits /\ CountFits
  BY DEF IInv
<1>2. /\ stage \in {"reap", "fmag", "emag"} /\ todo = <<>> /\ ~MoreFull
      /\ EmptyLimit > 0 /\ emag # <<>>
      /\ reaplimit' = EmptyLimit - 1 /\ flim' = (IF stage = "reap" THEN 0 ELSE flim)
      /\ elim' = (IF stage = "emag" THEN elim ELSE 0)
      /\ emin' = emin - 1 /\ emag' = Tail(emag) /\ nmag' = nmag - 1 /\ stage' = "emag"
      /\ UNCHANGED <<slabs, clients, fmag, todo>>
      /\ cc' = cc /\ fmag' = fmag /\ fmin' = fmin /\ magtype' = magtype /\ task' = task
      /\ todo' = todo /\ left' = left
      /\ pc' = pc /\ has' = has /\ hand' = hand /\ ccp' = ccp /\ mcp' = mcp /\ Size' = Size
  BY DEF ReapEmpty, Reaping, MoreEmpty, ResetFull, ResetEmpty, clients, Size
<1>3. /\ Len(fmag) \in Nat /\ Len(emag) \in Nat
      /\ emag' \in Seq({Magazine(Size)}) /\ Len(emag') = Len(emag) - 1
  <2>1. emag \in Seq({Magazine(Size)}) /\ Len(fmag) \in Nat
    BY <1>1, DepotMags DEF TypeOK
  <2> QED
    BY <1>2, <2>1
<1>4. EmptyLimit \in Int
  BY <1>1 DEF EmptyLimit, Least, TypeOK
<1>5. TypeOK'
  <2>1. /\ nmag' \in Int /\ fmin' \in Int /\ emin' \in Int /\ flim' \in Int /\ elim' \in Int
        /\ reaplimit' \in Int /\ stage' \in Stage
    BY <1>1, <1>2, <1>4 DEF TypeOK, Stage
  <2> QED
    BY <1>1, <1>2, <1>3, <2>1 DEF TypeOK
<1>6. CpusFit'
  BY <1>1, <1>2 DEF CpusFit
<1>7. TaskFits'
  BY <1>1, <1>2 DEF TaskFits
<1>8. PurgeFits'
  <2>1. CASE task \notin {"resize", "destroy"}
    BY <1>2, <2>1 DEF PurgeFits
  <2>2. CASE task \in {"resize", "destroy"}
    <3>1. /\ \A k \in CPU : cc[k].magsize = 0
          /\ stage = "reap" => flim = Len(fmag) /\ fmin = Len(fmag)
          /\ stage = "fmag" => reaplimit = Len(fmag) /\ fmin = Len(fmag)
          /\ stage \in {"reap", "fmag"} => elim = Len(emag) /\ emin = Len(emag)
          /\ stage = "emag" => fmag = <<>> /\ reaplimit = Len(emag)
      BY <1>1, <1>2, <2>2 DEF PurgeFits
    <3>2. EmptyLimit = Len(emag)
      BY <1>2, <3>1 DEF EmptyLimit, Least
    <3>3. stage # "emag" => FullLimit = Len(fmag)
      BY <1>2, <3>1 DEF FullLimit, Least
    <3>4. fmag # <<>> => Len(fmag) > 0
      BY <1>1 DEF TypeOK
    <3>5. fmag = <<>>
      BY <1>2, <3>1, <3>3, <3>4 DEF MoreFull
    <3>6. reaplimit' = Len(emag')
      BY <1>2, <1>3, <3>2
    <3> QED
      BY <1>2, <3>1, <3>5, <3>6 DEF PurgeFits
  <2> QED
    BY <2>1, <2>2
<1>9. CountFits'
  <2>1. AllMags(cc) \in Nat
    BY AllMagsNat
  <2>2. nmag = Len(fmag) + Len(emag) + AllMags(cc)
    BY <1>1 DEF CountFits
  <2>3. nmag' = Len(fmag') + Len(emag') + AllMags(cc')
    BY <1>2, <1>3, <2>1, <2>2
  <2> QED
    BY <2>3 DEF CountFits
<1> QED
  BY <1>2, <1>5, <1>6, <1>7, <1>8, <1>9, NothingMoves

\* The size of magazines grows while there is none.
LEMMA SetupStep ==
  ASSUME IInv, Setup
  PROVE  IInv'
<1>1. TypeOK /\ CpusFit /\ TaskFits /\ PurgeFits /\ CountFits
  BY DEF IInv
<1>2. /\ stage = "setup" /\ magtype' = magtype + 1
      /\ task' = "enable" /\ stage' = "enable" /\ left' = CPU
      /\ UNCHANGED <<slabs, clients, fmag, todo>> /\ cc' = cc /\ nmag' = nmag
      /\ fmag' = fmag /\ emag' = emag /\ fmin' = fmin /\ emin' = emin /\ flim' = flim
      /\ elim' = elim /\ todo' = todo /\ reaplimit' = reaplimit
      /\ pc' = pc /\ has' = has /\ hand' = hand /\ ccp' = ccp /\ mcp' = mcp
  BY DEF Setup, TaskStarts, clients, depot
<1>3. task = "resize" /\ magtype < Len(MagSizes) /\ todo = <<>>
  BY <1>1, <1>2 DEF TaskFits
<1>4. fmag = <<>> /\ emag = <<>> /\ \A k \in CPU : cc[k].magsize = 0
  BY <1>1, <1>2, <1>3 DEF PurgeFits
<1>5. magtype' \in 1 .. Len(MagSizes)
  BY <1>1, <1>2, <1>3, KmemAssumption DEF TypeOK
<1>6. Size' \in Nat /\ Size' > 0
  BY <1>5, KmemAssumption DEF Size
<1>7. TypeOK'
  <2>1. fmag' \in Seq(Holding(Size', Size')) /\ emag' \in Seq({Magazine(Size')})
    BY <1>2, <1>4
  <2>2. (fmag \in Seq(Holding(Size, Size)) /\ emag \in Seq({Magazine(Size)}))'
    BY <2>1 DEF Holding, Magazine
  <2>3. task' \in Task /\ stage' \in Stage /\ left' \in SUBSET CPU
    BY <1>2 DEF Task, Stage
  <2> QED
    BY <1>1, <1>2, <1>5, <2>2, <2>3 DEF TypeOK
<1>8. CpusFit'
  <2>1. ASSUME NEW k \in CPU PROVE CpuFits(cc'[k], Size')
    <3>1. CpuFits(cc[k], Size) /\ cc[k].magsize = 0
      BY <1>1, <1>4 DEF CpusFit
    <3>2. cc'[k] = cc[k]
      BY <1>2
    <3> QED
      BY <3>1, <3>2 DEF CpuFits
  <2> QED
    BY <1>1, <1>2, <2>1 DEF CpusFit
<1>9. TaskFits'
  BY <1>1, <1>2, <1>3 DEF TaskFits
<1>10. PurgeFits'
  BY <1>2 DEF PurgeFits
<1>11. CountFits'
  BY <1>1, <1>2 DEF CountFits
<1> QED
  BY <1>2, <1>7, <1>8, <1>9, <1>10, <1>11, NothingMoves

\* Magazines are enabled on a CPU that may have some already.
LEMMA EnabledFits ==
  ASSUME NEW n \in Nat, NEW r, CpuFits(r, n)
  PROVE  LET e == [r EXCEPT !.magsize = n]
         IN  CpuFits(e, n) /\ e.loaded = r.loaded /\ e.full = r.full /\ e.empty = r.empty
<1> DEFINE e == [r EXCEPT !.magsize = n]
<1>1. /\ DOMAIN e = CpuFields /\ e.magsize = n /\ e.rounds = r.rounds
      /\ e.loaded = r.loaded /\ e.full = r.full /\ e.empty = r.empty
  BY DEF CpuFits, CpuFields
<1> HIDE DEF e
<1>2. e.rounds \in -1 .. n
  <2>1. r.rounds \in -1 .. r.magsize /\ r.magsize \in {0, n}
    BY DEF CpuFits
  <2> QED
    BY <1>1, <2>1
<1>3. e.magsize = 0 => e.loaded = NoMag
  <2>1. r.magsize \in {0, n} /\ (r.magsize = 0 => r.loaded = NoMag)
    BY DEF CpuFits
  <2> QED
    BY <1>1, <2>1
<1>4. CpuFits(e, n)
  BY <1>1, <1>2, <1>3 DEF CpuFits
<1> QED
  BY <1>1, <1>4 DEF e

\* Magazines are enabled on CPU k.
LEMMA EnableCpuStep ==
  ASSUME IInv, NEW k \in CPU, EnableCpu(k)
  PROVE  IInv'
<1> DEFINE r == cc[k]
           e == [r EXCEPT !.magsize = Size]
<1>1. TypeOK /\ CpusFit /\ TaskFits /\ PurgeFits /\ CountFits
  BY DEF IInv
<1>2. /\ stage = "enable" /\ k \in left /\ cc' = [cc EXCEPT ![k].magsize = Size]
      /\ UNCHANGED <<slabs, clients, fmag, todo>> /\ magtype' = magtype /\ nmag' = nmag
      /\ fmag' = fmag /\ emag' = emag /\ fmin' = fmin /\ emin' = emin /\ flim' = flim
      /\ elim' = elim /\ todo' = todo /\ reaplimit' = reaplimit
      /\ pc' = pc /\ has' = has /\ hand' = hand /\ ccp' = ccp /\ mcp' = mcp /\ Size' = Size
      /\ \/ task' = "none" /\ stage' = "idle" /\ left' = {}
         \/ task' = task /\ stage' = stage /\ left' = left \ {k}
  BY DEF EnableCpu, TaskStarts, clients, depot, Size
<1>3. task = "enable" /\ todo = <<>>
  BY <1>1, <1>2 DEF TaskFits
<1>4. /\ Size \in Nat /\ CpuFits(r, Size) /\ Len(fmag) \in Nat /\ Len(emag) \in Nat
      /\ Mags(r) \in Nat
  BY CpuFacts
<1>5. cc' = [cc EXCEPT ![k] = e]
  BY <1>1, <1>2 DEF CpusFit
<1> HIDE DEF r
<1>6. CpuFits(e, Size) /\ e.loaded = r.loaded /\ e.full = r.full /\ e.empty = r.empty
  BY <1>4, EnabledFits
<1> HIDE DEF e
<1>7. CpusFit' /\ cc'[k] = e /\ \A x \in CPU : x # k => cc'[x] = cc[x]
  BY <1>1, <1>2, <1>5, <1>6, CpuSet
<1>8. \A x \in CPU : cc'[x].loaded = cc[x].loaded /\ cc'[x].full = cc[x].full
  BY <1>6, <1>7 DEF r
<1>9. TypeOK'
  <2>1. task' \in Task /\ stage' \in Stage /\ left' \in SUBSET CPU
    BY <1>1, <1>2 DEF TypeOK, Task, Stage
  <2> QED
    BY <1>1, <1>2, <2>1 DEF TypeOK
<1>10. TaskFits'
  BY <1>1, <1>2, <1>3 DEF TaskFits
<1>11. PurgeFits'
  BY <1>2, <1>3 DEF PurgeFits
<1>12. CountFits'
  <2>1. Mags(cc'[k]) = Mags(cc[k]) /\ Mags(cc[k]) \in Nat
    BY <1>4, <1>6, <1>7 DEF Mags, r
  <2>2. Len(fmag') + Len(emag') + Mags(cc'[k]) = Len(fmag) + Len(emag) + Mags(cc[k]) + 0
    BY <1>2, <1>4, <2>1
  <2>3. nmag' = nmag + 0 /\ 0 \in Int
    BY <1>1, <1>2 DEF TypeOK
  <2>4. Len(fmag') \in Nat /\ Len(emag') \in Nat
    BY <1>2, <1>4
  <2> QED
    BY <1>1, <1>4, <1>7, <2>2, <2>3, <2>4, CountKept
<1> QED
  BY <1>2, <1>7, <1>8, <1>9, <1>10, <1>11, <1>12, NothingMoves

\* Nothing changes.
LEMMA StutterStep ==
  ASSUME IInv, UNCHANGED vars
  PROVE  IInv'
<1>1. TypeOK /\ TaskFits /\ PurgeFits
  BY DEF IInv
<1>2. /\ UNCHANGED <<cc, fmag, emag, magtype, nmag, slabs, clients, todo>>
      /\ fmin' = fmin /\ emin' = emin /\ flim' = flim /\ elim' = elim /\ reaplimit' = reaplimit
      /\ task' = task /\ stage' = stage /\ left' = left /\ cc' = cc /\ magtype' = magtype
      /\ fmag' = fmag /\ emag' = emag /\ todo' = todo /\ pc' = pc /\ has' = has
  BY DEF vars, depot, taskq, clients
<1>3. TaskFits'
  BY <1>1, <1>2 DEF TaskFits
<1>4. PurgeFits'
  BY <1>1, <1>2 DEF PurgeFits
<1>5. /\ task' \in Task /\ stage' \in Stage /\ left' \in SUBSET CPU
      /\ fmin' \in Int /\ emin' \in Int /\ flim' \in Int /\ elim' \in Int /\ reaplimit' \in Int
  BY <1>1, <1>2 DEF TypeOK
<1> QED
  BY <1>2, <1>3, <1>4, <1>5, OnlyTask

\* The cache as kmem_cache_create() leaves it.
LEMMA InitIInv ==
  ASSUME Init
  PROVE  IInv
<1>1. magtype = 1 /\ 1 \in 1 .. Len(MagSizes) /\ Size = MagSizes[1]
  BY KmemAssumption DEF Init, Size
<1>2. Size \in Nat /\ Size > 0
  BY <1>1, SizeProperties
<1>3. /\ fmag = <<>> /\ emag = <<>> /\ nmag = 0 /\ slab_free = <<>> /\ freelist = <<>>
      /\ constructed = {} /\ todo = <<>> /\ DOMAIN slab_free = {}
      /\ cc = [k \in CPU |-> NoMagazines(Size)]
      /\ \A k \in CPU : cc[k] = NoMagazines(Size)
      /\ \A c \in Client : pc[c] = "idle" /\ has[c] = {} /\ hand[c] = NoBuf
      /\ task = "none" /\ stage = "idle"
  BY <1>1 DEF Init
<1>4. TypeOK
  <2>1. fmag \in Seq(Holding(Size, Size)) /\ emag \in Seq({Magazine(Size)}) /\ todo \in Seq(Buf)
    BY <1>3
  <2>2. /\ pc \in [Client -> PC] /\ has \in [Client -> SUBSET Buf] /\ hand \in [Client -> Slot]
        /\ ccp \in [Client -> CPU \cup {NoMag}] /\ mcp \in [Client -> Nat]
    BY DEF Init, PC, Slot
  <2> QED
    BY <1>1, <1>3, <2>1, <2>2 DEF Init, TypeOK, Task, Stage
<1>5. CpusFit
  <2>1. CpuFits(NoMagazines(Size), Size)
    BY <1>2, NoMagazinesFits
  <2>2. cc = [k \in CPU |-> cc[k]]
    BY <1>3
  <2> QED
    BY <1>3, <2>1, <2>2, Zenon DEF CpusFit
<1>6. ClientsFit
  BY <1>3 DEF ClientsFit
<1>7. TaskFits /\ PurgeFits
  BY <1>3 DEF TaskFits, PurgeFits
<1>8. LayersFit
  <2>1. SlabsFit(slab_free, freelist)
    BY <1>3 DEF SlabsFit, On
  <2> QED
    BY <1>3, <2>1 DEF LayersFit, Partial, NoDup
<1>9. CountFits
  <2>1. \A f \in {"loaded", "full", "empty"} : With(cc, f) = {}
    BY <1>3 DEF With, NoMagazines
  <2>2. Cardinality({}) = 0
    BY FS_EmptySet
  <2>3. AllMags(cc) = 0
    BY <2>1, <2>2 DEF AllMags
  <2> QED
    BY <1>3, <2>3 DEF CountFits
<1>10. \A y : y \notin Buffers(slab_free)
  BY <1>3 DEF Buffers
<1>11. Conserved
  <2>1. \A y : y \notin Content(NoMag)
    BY DEF Content
  <2>2. \A k \in CPU : cc[k].loaded = NoMag /\ cc[k].full = NoMag
    BY <1>3 DEF NoMagazines
  <2>3. \A a, x, y : ~At(a, x, y)
    BY <1>3, <2>1, <2>2 DEF At, Where, InSlab, InDepot, InSeq
  <2> QED
    BY <1>10, <2>3, Zenon DEF Conserved
<1>12. ConstructedFit
  BY <1>3, <1>10 DEF ConstructedFit
<1> QED
  BY <1>4, <1>5, <1>6, <1>7, <1>8, <1>9, <1>11, <1>12 DEF IInv

\* Every step keeps the invariant.
LEMMA NextIInv ==
  ASSUME IInv, [Next]_vars
  PROVE  IInv'
<1>1. ASSUME NEW c \in Client, ClientStep(c) PROVE IInv'
  <2>1. ASSUME NEW k \in CPU, AllocLoaded(c, k) PROVE IInv'
    BY <2>1, AllocLoadedStep
  <2>2. ASSUME NEW k \in CPU, AllocFull(c, k) PROVE IInv'
    BY <2>2, AllocFullStep
  <2>3. ASSUME NEW k \in CPU, AllocDepot(c, k) PROVE IInv'
    BY <2>3, AllocDepotStep
  <2>4. ASSUME NEW k \in CPU, AllocMisses(c, k) PROVE IInv'
    BY <2>4, AllocMissesStep
  <2>5. CASE AllocGlobal(c)
    BY <2>5, AllocGlobalStep
  <2>6. CASE SlabCreate(c)
    BY <2>6, SlabCreateStep
  <2>7. CASE SlabCreateFails(c)
    BY <2>7, SlabCreateFailsStep
  <2>8. CASE Construct(c)
    BY <2>8, ConstructStep
  <2>9. CASE ConstructFails(c)
    BY <2>9, ConstructFailsStep
  <2>10. ASSUME NEW k \in CPU, NEW b, FreeLoaded(c, k, b) PROVE IInv'
    BY <2>10, FreeLoadedStep
  <2>11. ASSUME NEW k \in CPU, NEW b, FreeEmpty(c, k, b) PROVE IInv'
    BY <2>11, FreeEmptyStep
  <2>12. ASSUME NEW k \in CPU, NEW b, FreeDepot(c, k, b) PROVE IInv'
    BY <2>12, FreeDepotStep
  <2>13. ASSUME NEW k \in CPU, NEW b, FreeMisses(c, k, b) PROVE IInv'
    BY <2>13, FreeMissesStep
  <2>14. ASSUME NEW k \in CPU, NEW b, NeedMagazine(c, k, b) PROVE IInv'
    BY <2>14, NeedMagazineStep
  <2>15. CASE GotMagazine(c)
    BY <2>15, GotMagazineStep
  <2>16. CASE NoMagazine(c)
    BY <2>16, NoMagazineStep
  <2>17. CASE FreeBuffer(c)
    BY <2>17, FreeBufferStep
  <2> QED
    BY <1>1, <2>1, <2>2, <2>3, <2>4, <2>5, <2>6, <2>7, <2>8, <2>9, <2>10, <2>11, <2>12,
       <2>13, <2>14, <2>15, <2>16, <2>17, Zenon DEF ClientStep
<1>2. ASSUME TaskStep PROVE IInv'
  <2>1. ASSUME NEW k \in CPU, PurgeCpu(k) PROVE IInv'
    BY <2>1, PurgeCpuStep
  <2>2. ASSUME NEW k \in CPU, EnableCpu(k) PROVE IInv'
    BY <2>2, EnableCpuStep
  <2> QED
    BY <1>2, <2>1, <2>2, StartTaskStep, StartDestroyStep, PurgeDepotStep, DestroyRoundStep,
       ReapFullStep, ReapEmptyStep, EndReapStep, SetupStep, Zenon DEF TaskStep
<1>3. ASSUME Update PROVE IInv'
  BY <1>3, UpdateStep
<1>4. ASSUME Dead PROVE IInv'
  BY <1>4, StutterStep DEF Dead
<1>5. ASSUME UNCHANGED vars PROVE IInv'
  BY <1>5, StutterStep
<1> QED
  BY <1>1, <1>2, <1>3, <1>4, <1>5, Zenon DEF Next

\* The invariant holds in every state the allocator reaches.
LEMMA Inductive == Spec => []IInv
<1>1. Init => IInv
  BY InitIInv
<1>2. IInv /\ [Next]_vars => IInv'
  BY NextIInv
<1> QED
  BY <1>1, <1>2, PTL DEF Spec

-----------------------------------------------------------------------------
(* The theorems.                                                           *)

\* MagazinesFit is part of the invariant, with the sizes spelled out.
LEMMA MagazinesFitFollows ==
  ASSUME IInv
  PROVE  MagazinesFit
<1>1. TypeOK /\ CpusFit
  BY DEF IInv
<1>2. /\ Size \in Nat /\ Size > 0 /\ Len(fmag) \in Nat /\ Len(emag) \in Nat
      /\ \A i \in 1 .. Len(fmag) : fmag[i] \in Holding(Size, Size)
      /\ \A i \in 1 .. Len(emag) : emag[i] = Magazine(Size)
      /\ DOMAIN fmag = 1 .. Len(fmag) /\ DOMAIN emag = 1 .. Len(emag)
  BY <1>1, DepotMags DEF TypeOK
<1>3. ASSUME NEW q \in Holding(Size, Size)
      PROVE  Len(q) = Size /\ \A j \in 1 .. Size : q[j] # NoBuf
  <2>1. Size \in Int /\ \A j \in 1 .. Size : j <= Size
    BY <1>2
  <2>2. Len(q) = Size /\ \A j \in 1 .. Size : q[j] # NoBuf <=> j <= Size
    BY <1>2, <2>1, HoldingMag
  <2> QED
    BY <2>1, <2>2
<1>4. \A i \in DOMAIN fmag : Len(fmag[i]) = Size /\ \A j \in 1 .. Size : fmag[i][j] # NoBuf
  BY <1>2, <1>3
<1>5. ASSUME NEW k \in CPU
      PROVE  LET r == cc[k]
             IN
             /\ r.magsize \in {0, Size}
             /\ r.rounds = -1 <=> r.loaded = NoMag
             /\ r.loaded = NoMag => r.full = NoMag /\ r.empty = NoMag
             /\ r.loaded # NoMag =>
                  /\ Len(r.loaded) = r.magsize
                  /\ \A j \in 1 .. r.magsize : r.loaded[j] # NoBuf <=> j <= r.rounds
             /\ r.full # NoMag =>
                  /\ r.empty = NoMag
                  /\ Len(r.full) = r.magsize
                  /\ \A j \in 1 .. r.magsize : r.full[j] # NoBuf
             /\ r.empty # NoMag => r.empty = Magazine(r.magsize)
  <2> DEFINE r == cc[k]
  <2>1. CpuFits(r, Size)
    BY <1>1 DEF CpusFit
  <2> HIDE DEF r
  <2>2. /\ r.magsize \in {0, Size} /\ (r.rounds = -1 <=> r.loaded = NoMag) /\ r.rounds \in Int
        /\ r.loaded = NoMag => r.full = NoMag /\ r.empty = NoMag
        /\ r.magsize = 0 => r.loaded = NoMag
        /\ r.loaded # NoMag => r.loaded \in Holding(Size, r.rounds)
        /\ r.full # NoMag => r.full \in Holding(Size, Size) /\ r.empty = NoMag
        /\ r.empty # NoMag => r.empty = Magazine(Size)
    BY <2>1 DEF CpuFits
  <2>3. r.loaded # NoMag => r.magsize = Size
    BY <2>2
  <2>4. ASSUME r.loaded # NoMag
        PROVE  /\ Len(r.loaded) = r.magsize
               /\ \A j \in 1 .. r.magsize : r.loaded[j] # NoBuf <=> j <= r.rounds
    <3>1. r.loaded \in Holding(Size, r.rounds) /\ r.magsize = Size /\ r.rounds \in Int
      BY <2>2, <2>3, <2>4
    <3> QED
      BY <1>2, <3>1, HoldingMag
  <2>5. ASSUME r.full # NoMag
        PROVE  /\ r.empty = NoMag /\ Len(r.full) = r.magsize
               /\ \A j \in 1 .. r.magsize : r.full[j] # NoBuf
    BY <1>3, <2>2, <2>3, <2>5
  <2>6. r.empty # NoMag => r.empty = Magazine(r.magsize)
    BY <2>2, <2>3
  <2>7. /\ r.magsize \in {0, Size}
        /\ r.rounds = -1 <=> r.loaded = NoMag
        /\ r.loaded = NoMag => r.full = NoMag /\ r.empty = NoMag
        /\ r.loaded # NoMag =>
             /\ Len(r.loaded) = r.magsize
             /\ \A j \in 1 .. r.magsize : r.loaded[j] # NoBuf <=> j <= r.rounds
        /\ r.full # NoMag =>
             /\ r.empty = NoMag
             /\ Len(r.full) = r.magsize
             /\ \A j \in 1 .. r.magsize : r.full[j] # NoBuf
        /\ r.empty # NoMag => r.empty = Magazine(r.magsize)
    BY <2>2, <2>4, <2>5, <2>6, Zenon
  <2> QED
    BY <2>7, Zenon DEF r
<1> QED
  BY <1>2, <1>4, <1>5, Zenon DEF MagazinesFit

\* No magazine outlives a change of the magazine size, and every magazine holds the
\* number of rounds that the code takes it to hold without looking.
THEOREM MagazinesFitHolds == Spec => []MagazinesFit
<1>1. IInv => MagazinesFit
  BY MagazinesFitFollows
<1> QED
  BY <1>1, Inductive, PTL

\* A slab that has fewer free buffers than slab_chunks has one in use (the pigeonhole
\* argument the other way round).
LEMMA InUse ==
  ASSUME NEW s \in Slab, NEW q \in Seq(OfSlab(s)), Len(q) < Chunks[s]
  PROVE  \E y \in OfSlab(s) : ~InSeq(q, y)
<1> DEFINE n == Chunks[s]
           m == Len(q)
           g == [i \in 1 .. m |-> q[i][2]]
<1>1. n \in Nat /\ m \in Nat /\ m < n
  BY OfSlabIs
<1>2. \A b \in OfSlab(s) : b[2] \in 1 .. n
  BY DEF OfSlab
<1>3. \A i \in 1 .. m : q[i] \in OfSlab(s)
  OBVIOUS
<1>4. g \in [1 .. m -> 1 .. n] /\ \A i \in 1 .. m : g[i] = q[i][2]
  BY <1>2, <1>3
<1> HIDE DEF g, m, n
<1>5. IsFiniteSet(1 .. m) /\ Cardinality(1 .. m) = m /\ Cardinality(1 .. n) = n
  <2>1. 1 \in Int /\ m \in Int /\ n \in Int
    BY <1>1
  <2>2. IsFiniteSet(1 .. m) /\ Cardinality(1 .. m) = IF 1 > m THEN 0 ELSE m - 1 + 1
    BY <2>1, FS_Interval, Zenon
  <2>3. Cardinality(1 .. n) = IF 1 > n THEN 0 ELSE n - 1 + 1
    BY <2>1, FS_Interval, Zenon
  <2> QED
    BY <1>1, <2>2, <2>3
<1>6. g \notin Surjection(1 .. m, 1 .. n)
  <2>1. ASSUME g \in Surjection(1 .. m, 1 .. n) PROVE FALSE
    <3>1. Cardinality(1 .. n) <= Cardinality(1 .. m)
      BY <1>5, <2>1, FS_Surjection
    <3> QED
      BY <1>1, <1>5, <3>1
  <2> QED
    BY <2>1
<1>7. PICK j \in 1 .. n : \A i \in 1 .. m : g[i] # j
  BY <1>4, <1>6 DEF Surjection
<1>8. <<s, j>> \in OfSlab(s)
  BY <1>7 DEF OfSlab, n
<1>9. ~InSeq(q, <<s, j>>)
  BY <1>4, <1>7 DEF InSeq, m
<1> QED
  BY <1>8, <1>9

\* With no client, no magazine and an empty depot, every buffer is in its slab; but a
\* slab that exists has one in use, so none exists.
LEMMA DestroyFollows ==
  ASSUME IInv, stage = "dead"
  PROVE  slab_free = <<>> /\ constructed = {} /\ nmag = 0
<1>1. /\ TypeOK /\ CpusFit /\ ClientsFit /\ TaskFits /\ PurgeFits /\ LayersFit
      /\ CountFits /\ Conserved /\ ConstructedFit
  BY DEF IInv
<1>2. task = "destroy" /\ todo = <<>> /\ \A c \in Client : pc[c] = "idle" /\ has[c] = {}
  BY <1>1 DEF TaskFits
<1>3. \A c \in Client : hand[c] = NoBuf
  BY <1>1, <1>2 DEF ClientsFit
<1>4. fmag = <<>> /\ emag = <<>> /\ \A k \in CPU : cc[k].magsize = 0
  BY <1>1, <1>2 DEF PurgeFits
<1>5. \A k \in CPU : cc[k].loaded = NoMag /\ cc[k].full = NoMag /\ cc[k].empty = NoMag
  BY <1>1, <1>4 DEF CpusFit, CpuFits
<1>6. nmag = 0
  <2>1. \A f \in {"loaded", "full", "empty"} : With(cc, f) = {}
    BY <1>5 DEF With
  <2>2. AllMags(cc) = 0
    BY <2>1, FS_EmptySet DEF AllMags
  <2> QED
    BY <1>1, <1>4, <2>2 DEF CountFits
<1>7. \A a, x, y : At(a, x, y) => a = "slab" /\ InSlab(slab_free, x, y)
  <2>1. \A y : y \notin Content(NoMag)
    BY DEF Content
  <2> QED
    BY <1>2, <1>3, <1>4, <1>5, <2>1 DEF At, Where, InDepot, InSeq
<1>8. SlabsFit(slab_free, freelist) /\ Partial(slab_free)
  BY <1>1 DEF LayersFit
<1>9. ASSUME NEW s \in DOMAIN slab_free PROVE FALSE
  <2>1. s \in Slab /\ slab_free[s] \in Seq(OfSlab(s)) /\ Len(slab_free[s]) < Chunks[s]
    BY <1>8 DEF SlabsFit, Partial
  <2>2. PICK y \in OfSlab(s) : ~InSeq(slab_free[s], y)
    BY <2>1, InUse
  <2>3. y \in Buffers(slab_free)
    BY <1>8, BuffersAre
  <2>4. PICK a, x : At(a, x, y)
    BY <1>1, <2>3, Zenon DEF Conserved
  <2>5. InSlab(slab_free, x, y)
    BY <1>7, <2>4
  <2>6. x \in DOMAIN slab_free /\ InSeq(slab_free[x], y)
    BY <2>5 DEF InSlab, InSeq
  <2>7. x \in Slab /\ slab_free[x] \in Seq(OfSlab(x))
    BY <1>8, <2>6 DEF SlabsFit
  <2>8. y \in OfSlab(x)
    BY <2>6, <2>7 DEF InSeq
  <2>9. y[1] = x /\ y[1] = s
    <3>1. \A t \in Slab : \A b \in OfSlab(t) : b[1] = t
      BY OfSlabIs
    <3> QED
      BY <2>1, <2>7, <2>8, <3>1, Zenon
  <2> QED
    BY <2>2, <2>6, <2>9
<1>10. DOMAIN slab_free = {} /\ slab_free = [s \in DOMAIN slab_free |-> slab_free[s]]
  BY <1>8, <1>9 DEF SlabsFit
<1>11. slab_free = <<>>
  <2>1. slab_free = [s \in {} |-> slab_free[s]]
    BY <1>10, Zenon
  <2>2. slab_free \in Seq(Buf) /\ Len(slab_free) = 0
    <3>1. {} = 1 .. 0
      OBVIOUS
    <3>2. slab_free \in [1 .. 0 -> Buf]
      BY <1>10, <3>1
    <3> QED
      BY <3>2
  <2> QED
    BY <2>2, EmptySeq
<1>12. \A y : y \notin constructed
  BY <1>1, <1>10 DEF ConstructedFit, Buffers
<1> QED
  BY <1>6, <1>11, <1>12

\* When the cache is destroyed, all slabs and all magazines have gone back.
THEOREM DestroyLeavesNothingHolds == Spec => []DestroyLeavesNothing
<1>1. IInv => DestroyLeavesNothing
  BY DestroyFollows DEF DestroyLeavesNothing
<1> QED
  BY <1>1, Inductive, PTL

\* The places of a sequence or of a magazine.
LEMMA SlotsOf ==
  ASSUME NEW w, NEW q \in Seq(Slot)
  PROVE  \A p : p \in Slots(w, q) <=> \E i \in 1 .. Len(q) : q[i] # NoBuf /\ p = <<w, i, q[i]>>
<1>1. q # NoMag /\ DOMAIN q = 1 .. Len(q)
  BY KmemAssumption DEF Slot, Buf
<1> QED
  BY <1>1 DEF Slots

\* Container x of kind a holds buffer y at i; containers are named as Places names
\* them.
PlaceAt(a, x, i, y) ==
  \/ /\ a = "slab" /\ x \in DOMAIN slab_free /\ i \in 1 .. Len(slab_free[x])
     /\ slab_free[x][i] = y
  \/ /\ a = "depot" /\ x \in 1 .. Len(fmag) /\ i \in 1 .. Len(fmag[x]) /\ fmag[x][i] = y
  \/ /\ a = "loaded" /\ x \in CPU /\ cc[x].loaded # NoMag /\ i \in 1 .. Len(cc[x].loaded)
     /\ cc[x].loaded[i] = y
  \/ /\ a = "full" /\ x \in CPU /\ cc[x].full # NoMag /\ i \in 1 .. Len(cc[x].full)
     /\ cc[x].full[i] = y
  \/ a = "task" /\ x = NoMag /\ i \in 1 .. Len(todo) /\ todo[i] = y
  \/ a = "has" /\ x \in Client /\ i = 1 /\ y \in has[x]
  \/ a = "hand" /\ x \in Client /\ i = 1 /\ y = hand[x]

\* What the containers are, and that those called empty hold nothing.
LEMMA Containers ==
  ASSUME IInv
  PROVE  /\ \A s \in DOMAIN slab_free :
              slab_free[s] \in Seq(Slot) /\ NoDup(slab_free[s]) /\ NoBuf \notin ToSet(slab_free[s])
         /\ \A n \in 1 .. Len(fmag) : fmag[n] \in Seq(Slot) /\ NoDup(fmag[n]) /\ fmag[n] # NoMag
         /\ DOMAIN fmag = 1 .. Len(fmag) /\ Len(fmag) \in Nat
         /\ \A k \in CPU :
              /\ cc[k].loaded # NoMag => cc[k].loaded \in Seq(Slot) /\ NoDup(cc[k].loaded)
              /\ cc[k].full # NoMag => cc[k].full \in Seq(Slot) /\ NoDup(cc[k].full)
              /\ cc[k].empty # NoMag =>
                   /\ cc[k].empty \in Seq(Slot)
                   /\ \A i \in 1 .. Len(cc[k].empty) : cc[k].empty[i] = NoBuf
         /\ todo \in Seq(Slot) /\ NoDup(todo) /\ NoBuf \notin ToSet(todo)
         /\ \A c \in Client : NoBuf \notin has[c]
<1>1. TypeOK /\ CpusFit /\ LayersFit
  BY DEF IInv
<1>2. /\ Size \in Nat /\ Len(fmag) \in Nat /\ DOMAIN fmag = 1 .. Len(fmag)
      /\ \A i \in 1 .. Len(fmag) : fmag[i] \in Holding(Size, Size)
  BY <1>1, DepotMags DEF TypeOK
<1>3. ASSUME NEW m \in Int, NEW q \in Holding(Size, m)
      PROVE  q \in Seq(Slot) /\ NoDup(q) /\ q # NoMag
  <2>1. q \in [1 .. Size -> Slot] /\ NoDup(q)
    BY <1>2, HoldingMag
  <2> QED
    BY <1>2, <2>1, MagazineType
<1>4. ASSUME NEW s \in DOMAIN slab_free
      PROVE  /\ slab_free[s] \in Seq(Slot) /\ NoDup(slab_free[s])
             /\ NoBuf \notin ToSet(slab_free[s])
  <2>1. s \in Slab /\ slab_free[s] \in Seq(OfSlab(s)) /\ NoDup(slab_free[s])
    BY <1>1 DEF LayersFit, SlabsFit
  <2>2. OfSlab(s) \subseteq Slot /\ NoBuf \notin OfSlab(s)
    BY <2>1, OfSlabIs DEF Slot
  <2> DEFINE q == slab_free[s]
             S == OfSlab(s)
  <2> HIDE DEF q, S
  <2>3. q \in Seq(S) /\ S \subseteq Slot /\ NoBuf \notin S
    BY <2>1, <2>2 DEF q, S
  <2>4. q \in Seq(Slot) /\ NoBuf \notin ToSet(q)
    BY <2>3 DEF ToSet
  <2> QED
    BY <2>1, <2>4 DEF q
<1>5. ASSUME NEW n \in 1 .. Len(fmag)
      PROVE  fmag[n] \in Seq(Slot) /\ NoDup(fmag[n]) /\ fmag[n] # NoMag
  BY <1>2, <1>3
<1>6. ASSUME NEW k \in CPU
      PROVE  /\ cc[k].loaded # NoMag => cc[k].loaded \in Seq(Slot) /\ NoDup(cc[k].loaded)
             /\ cc[k].full # NoMag => cc[k].full \in Seq(Slot) /\ NoDup(cc[k].full)
             /\ cc[k].empty # NoMag =>
                  /\ cc[k].empty \in Seq(Slot)
                  /\ \A i \in 1 .. Len(cc[k].empty) : cc[k].empty[i] = NoBuf
  <2>1. CpuFits(cc[k], Size)
    BY <1>1 DEF CpusFit
  <2>2. /\ cc[k].rounds \in Int /\ Size \in Int
        /\ cc[k].loaded # NoMag => cc[k].loaded \in Holding(Size, cc[k].rounds)
        /\ cc[k].full # NoMag => cc[k].full \in Holding(Size, Size)
        /\ cc[k].empty # NoMag => cc[k].empty = Magazine(Size)
    BY <1>2, <2>1 DEF CpuFits
  <2>3. /\ Magazine(Size) \in [1 .. Size -> Slot]
        /\ \A i \in 1 .. Size : Magazine(Size)[i] = NoBuf
    BY DEF Magazine, Slot
  <2>4. Magazine(Size) \in Seq(Slot) /\ Len(Magazine(Size)) = Size
    BY <1>2, <2>3, MagazineType
  <2> QED
    BY <1>3, <2>2, <2>3, <2>4
<1>7. todo \in Seq(Slot) /\ NoDup(todo) /\ NoBuf \notin ToSet(todo)
  <2>1. todo \in Seq(Buf) /\ NoDup(todo)
    BY <1>1 DEF TypeOK, LayersFit
  <2>2. Buf \subseteq Slot /\ NoBuf \notin Buf
    BY KmemAssumption DEF Slot, Buf
  <2> QED
    BY <2>1, <2>2 DEF ToSet
<1>8. \A c \in Client : NoBuf \notin has[c]
  BY <1>1, KmemAssumption DEF TypeOK, Buf
<1> QED
  BY <1>2, <1>4, <1>5, <1>6, <1>7, <1>8, Zenon

\* Places, container by container.
LEMMA PlacesAre ==
  ASSUME IInv
  PROVE  \A p : p \in Places <=>
           \E a, x, i, y : PlaceAt(a, x, i, y) /\ y # NoBuf /\ p = <<<<a, x>>, i, y>>
<1> DEFINE InSlots(a, x, q, p) ==
             \E i \in 1 .. Len(q) : q[i] # NoBuf /\ p = <<<<a, x>>, i, q[i]>>
           Held(p) ==
             \/ \E s \in DOMAIN slab_free : InSlots("slab", s, slab_free[s], p)
             \/ \E n \in 1 .. Len(fmag) : InSlots("depot", n, fmag[n], p)
             \/ \E k \in CPU : cc[k].loaded # NoMag /\ InSlots("loaded", k, cc[k].loaded, p)
             \/ \E k \in CPU : cc[k].full # NoMag /\ InSlots("full", k, cc[k].full, p)
             \/ InSlots("task", NoMag, todo, p)
             \/ \E c \in Client : \E b \in has[c] : p = <<<<"has", c>>, 1, b>>
             \/ \E c \in Client : hand[c] # NoBuf /\ p = <<<<"hand", c>>, 1, hand[c]>>
<1>1. ASSUME NEW p PROVE p \in Places <=> Held(p)
  <2>1. \A s \in DOMAIN slab_free :
          p \in Slots(<<"slab", s>>, slab_free[s]) <=> InSlots("slab", s, slab_free[s], p)
    <3>1. ASSUME NEW s \in DOMAIN slab_free, NEW q, q = slab_free[s]
          PROVE  p \in Slots(<<"slab", s>>, q) <=> InSlots("slab", s, q, p)
      <4>1. q \in Seq(Slot)
        BY <3>1, Containers
      <4> QED
        BY <4>1, SlotsOf
    <3> HIDE DEF InSlots
    <3> QED
      BY <3>1, Zenon
  <2>2. \A n \in 1 .. Len(fmag) :
          p \in Slots(<<"depot", n>>, fmag[n]) <=> InSlots("depot", n, fmag[n], p)
    <3>1. ASSUME NEW n \in 1 .. Len(fmag), NEW q, q = fmag[n]
          PROVE  p \in Slots(<<"depot", n>>, q) <=> InSlots("depot", n, q, p)
      <4>1. q \in Seq(Slot)
        BY <3>1, Containers
      <4> QED
        BY <4>1, SlotsOf
    <3> HIDE DEF InSlots
    <3> QED
      BY <3>1, Zenon
  <2>3. p \in Slots(<<"task", NoMag>>, todo) <=> InSlots("task", NoMag, todo, p)
    <3>1. todo \in Seq(Slot)
      BY Containers
    <3> QED
      BY <3>1, SlotsOf
  <2>4. \A w : Slots(w, NoMag) = {}
    BY DEF Slots
  <2>5. \A k \in CPU :
          /\ p \in Slots(<<"loaded", k>>, cc[k]["loaded"]) <=>
               cc[k].loaded # NoMag /\ InSlots("loaded", k, cc[k].loaded, p)
          /\ p \in Slots(<<"full", k>>, cc[k]["full"]) <=>
               cc[k].full # NoMag /\ InSlots("full", k, cc[k].full, p)
          /\ p \notin Slots(<<"empty", k>>, cc[k]["empty"])
    <3>1. ASSUME NEW k \in CPU
          PROVE  p \in Slots(<<"loaded", k>>, cc[k]["loaded"]) <=>
                   cc[k].loaded # NoMag /\ InSlots("loaded", k, cc[k].loaded, p)
      <4>1. cc[k].loaded # NoMag => cc[k].loaded \in Seq(Slot)
        BY Containers
      <4> QED
        BY <2>4, <4>1, SlotsOf
    <3>2. ASSUME NEW k \in CPU
          PROVE  p \in Slots(<<"full", k>>, cc[k]["full"]) <=>
                   cc[k].full # NoMag /\ InSlots("full", k, cc[k].full, p)
      <4>1. cc[k].full # NoMag => cc[k].full \in Seq(Slot)
        BY Containers
      <4> QED
        BY <2>4, <4>1, SlotsOf
    <3>3. ASSUME NEW k \in CPU PROVE p \notin Slots(<<"empty", k>>, cc[k]["empty"])
      <4>1. cc[k].empty # NoMag =>
              /\ cc[k].empty \in Seq(Slot)
              /\ \A i \in 1 .. Len(cc[k].empty) : cc[k].empty[i] = NoBuf
        BY Containers
      <4> QED
        BY <2>4, <4>1, SlotsOf
    <3> QED
      BY <3>1, <3>2, <3>3
  <2>6. DOMAIN fmag = 1 .. Len(fmag)
    BY Containers
  <2>7. p \in Places <=>
          \/ \E s \in DOMAIN slab_free : p \in Slots(<<"slab", s>>, slab_free[s])
          \/ \E n \in DOMAIN fmag : p \in Slots(<<"depot", n>>, fmag[n])
          \/ \E k \in CPU : p \in Slots(<<"loaded", k>>, cc[k]["loaded"])
          \/ \E k \in CPU : p \in Slots(<<"full", k>>, cc[k]["full"])
          \/ \E k \in CPU : p \in Slots(<<"empty", k>>, cc[k]["empty"])
          \/ p \in Slots(<<"task", NoMag>>, todo)
          \/ \E c \in Client : \E b \in has[c] : p = <<<<"has", c>>, 1, b>>
          \/ \E c \in Client : hand[c] # NoBuf /\ p = <<<<"hand", c>>, 1, hand[c]>>
    <3> DEFINE A == {Slots(<<"slab", s>>, slab_free[s]) : s \in DOMAIN slab_free}
               B == {Slots(<<"depot", n>>, fmag[n]) : n \in DOMAIN fmag}
               C == {Slots(<<f, k>>, cc[k][f]) : f \in {"loaded", "full", "empty"}, k \in CPU}
               D == {Slots(<<"task", NoMag>>, todo)}
               E == {{<<<<"has", c>>, 1, b>> : b \in has[c]} : c \in Client}
               F == {{<<<<"hand", c>>, 1, b>> : b \in {hand[c]} \ {NoBuf}} : c \in Client}
    <3>1. p \in UNION A <=> \E s \in DOMAIN slab_free : p \in Slots(<<"slab", s>>, slab_free[s])
      OBVIOUS
    <3>2. p \in UNION B <=> \E n \in DOMAIN fmag : p \in Slots(<<"depot", n>>, fmag[n])
      OBVIOUS
    <3>3. p \in UNION C <=>
            \/ \E k \in CPU : p \in Slots(<<"loaded", k>>, cc[k]["loaded"])
            \/ \E k \in CPU : p \in Slots(<<"full", k>>, cc[k]["full"])
            \/ \E k \in CPU : p \in Slots(<<"empty", k>>, cc[k]["empty"])
      <4> DEFINE G(f, k) == Slots(<<f, k>>, cc[k][f])
                 S == {"loaded", "full", "empty"}
      <4>1. C = {G(f, k) : f \in S, k \in CPU}
        OBVIOUS
      <4> HIDE DEF G, S, C
      <4>2. p \in UNION C <=> \E f \in S, k \in CPU : p \in G(f, k)
        BY <4>1
      <4>3. (\E f \in S, k \in CPU : p \in G(f, k)) <=>
              \/ \E k \in CPU : p \in G("loaded", k)
              \/ \E k \in CPU : p \in G("full", k)
              \/ \E k \in CPU : p \in G("empty", k)
        BY DEF S
      <4> QED
        BY <4>2, <4>3, Zenon DEF G
    <3>4. p \in UNION D <=> p \in Slots(<<"task", NoMag>>, todo)
      OBVIOUS
    <3>5. p \in UNION E <=> \E c \in Client : \E b \in has[c] : p = <<<<"has", c>>, 1, b>>
      OBVIOUS
    <3>6. p \in UNION F <=>
            \E c \in Client : hand[c] # NoBuf /\ p = <<<<"hand", c>>, 1, hand[c]>>
      OBVIOUS
    <3>7. Places = UNION (A \cup B \cup C \cup D \cup E \cup F)
      BY DEF Places
    <3> HIDE DEF A, B, C, D, E, F
    <3>8. p \in UNION (A \cup B \cup C \cup D \cup E \cup F) <=>
            p \in UNION A \/ p \in UNION B \/ p \in UNION C \/ p \in UNION D
              \/ p \in UNION E \/ p \in UNION F
      OBVIOUS
    <3> QED
      BY <3>1, <3>2, <3>3, <3>4, <3>5, <3>6, <3>7, <3>8
  <2> HIDE DEF InSlots
  <2> QED
    BY <2>1, <2>2, <2>3, <2>5, <2>6, <2>7
<1>2. ASSUME NEW p, Held(p)
      PROVE  \E a, x, i, y : PlaceAt(a, x, i, y) /\ y # NoBuf /\ p = <<<<a, x>>, i, y>>
  <2> DEFINE Known(a, x, i, y) ==
               PlaceAt(a, x, i, y) /\ y # NoBuf /\ p = <<<<a, x>>, i, y>>
  <2>1. ASSUME NEW s \in DOMAIN slab_free, InSlots("slab", s, slab_free[s], p)
        PROVE  \E i, y : Known("slab", s, i, y)
    BY <2>1 DEF PlaceAt
  <2>2. ASSUME NEW n \in 1 .. Len(fmag), InSlots("depot", n, fmag[n], p)
        PROVE  \E i, y : Known("depot", n, i, y)
    BY <2>2 DEF PlaceAt
  <2>3. ASSUME NEW k \in CPU, cc[k].loaded # NoMag, InSlots("loaded", k, cc[k].loaded, p)
        PROVE  \E i, y : Known("loaded", k, i, y)
    BY <2>3 DEF PlaceAt
  <2>4. ASSUME NEW k \in CPU, cc[k].full # NoMag, InSlots("full", k, cc[k].full, p)
        PROVE  \E i, y : Known("full", k, i, y)
    BY <2>4 DEF PlaceAt
  <2>5. ASSUME InSlots("task", NoMag, todo, p) PROVE \E i, y : Known("task", NoMag, i, y)
    BY <2>5 DEF PlaceAt
  <2>6. ASSUME NEW c \in Client, NEW b \in has[c], p = <<<<"has", c>>, 1, b>>
        PROVE  Known("has", c, 1, b)
    BY <2>6, Containers DEF PlaceAt
  <2>7. ASSUME NEW c \in Client, hand[c] # NoBuf, p = <<<<"hand", c>>, 1, hand[c]>>
        PROVE  Known("hand", c, 1, hand[c])
    BY <2>7 DEF PlaceAt
  <2> HIDE DEF Known, InSlots
  <2>8. \E a, x, i, y : Known(a, x, i, y)
    BY <1>2, <2>1, <2>2, <2>3, <2>4, <2>5, <2>6, <2>7, Zenon
  <2> QED
    BY <2>8, Zenon DEF Known
<1>3. ASSUME NEW a, NEW x, NEW i, NEW y, PlaceAt(a, x, i, y), y # NoBuf
      PROVE  Held(<<<<a, x>>, i, y>>)
  BY <1>3 DEF PlaceAt
<1> QED
  BY <1>1, <1>2, <1>3

\* A place is in its container, which holds no buffer at two places; a container that
\* holds a buffer has a place for it.
LEMMA PlaceIsAt ==
  ASSUME IInv
  PROVE  /\ \A a, x, i, y : PlaceAt(a, x, i, y) /\ y # NoBuf =>
              At(a, IF a = "depot" THEN Len(fmag) + 1 - x ELSE x, y)
         /\ \A a, x, i, j, y : PlaceAt(a, x, i, y) /\ PlaceAt(a, x, j, y) /\ y # NoBuf => i = j
         /\ \A a, x, y : At(a, x, y) => \E x2, i : PlaceAt(a, x2, i, y)
<1>1. /\ \A n \in 1 .. Len(fmag) : fmag[n] \in Seq(Slot) /\ NoDup(fmag[n]) /\ fmag[n] # NoMag
      /\ Len(fmag) \in Nat
  BY Containers
<1>2. ASSUME NEW q, q # NoMag
      PROVE  \A y : y \in Content(q) <=> y # NoBuf /\ \E i \in 1 .. Len(q) : q[i] = y
  BY <1>2 DEF Content
<1>3. ASSUME NEW a, NEW x, NEW i, NEW y, PlaceAt(a, x, i, y), y # NoBuf
      PROVE  At(a, IF a = "depot" THEN Len(fmag) + 1 - x ELSE x, y)
  <2>1. CASE a = "slab"
    BY <1>3, <2>1 DEF PlaceAt, At, Where, InSlab
  <2>2. CASE a = "depot"
    <3>1. x \in 1 .. Len(fmag) /\ y \in Content(fmag[x])
      <4>1. x \in 1 .. Len(fmag) /\ i \in 1 .. Len(fmag[x]) /\ fmag[x][i] = y
        BY <1>3, <2>2 DEF PlaceAt
      <4> QED
        BY <1>1, <1>2, <1>3, <4>1
    <3>2. Len(fmag) + 1 - x \in 1 .. Len(fmag) /\ Len(fmag) + 1 - (Len(fmag) + 1 - x) = x
      BY <1>1, <3>1
    <3>3. InDepot(fmag, Len(fmag) + 1 - x, y)
      BY <3>1, <3>2, Zenon DEF InDepot
    <3> QED
      BY <2>2, <3>3 DEF At, Where
  <2>3. CASE a = "loaded"
    <3>1. x \in CPU /\ y \in Content(cc[x].loaded)
      BY <1>2, <1>3, <2>3 DEF PlaceAt
    <3> QED
      BY <2>3, <3>1 DEF At, Where
  <2>4. CASE a = "full"
    <3>1. x \in CPU /\ y \in Content(cc[x].full)
      BY <1>2, <1>3, <2>4 DEF PlaceAt
    <3> QED
      BY <2>4, <3>1 DEF At, Where
  <2>5. CASE a \in {"task", "has", "hand"}
    BY <1>3, <2>5 DEF PlaceAt, At, Where, InSeq
  <2> QED
    BY <1>3, <2>1, <2>2, <2>3, <2>4, <2>5 DEF PlaceAt
<1>4. ASSUME NEW a, NEW x, NEW i, NEW j, NEW y, PlaceAt(a, x, i, y), PlaceAt(a, x, j, y), y # NoBuf
      PROVE  i = j
  <2>1. ASSUME NEW q, NoDup(q), i \in 1 .. Len(q), j \in 1 .. Len(q), q[i] = y, q[j] = y
        PROVE  i = j
    BY <1>4, <2>1 DEF NoDup
  <2>2. CASE a = "slab"
    BY <1>4, <2>1, <2>2, Containers DEF PlaceAt
  <2>3. CASE a = "depot"
    BY <1>1, <1>4, <2>1, <2>3 DEF PlaceAt
  <2>4. CASE a = "loaded"
    BY <1>4, <2>1, <2>4, Containers DEF PlaceAt
  <2>5. CASE a = "full"
    BY <1>4, <2>1, <2>5, Containers DEF PlaceAt
  <2>6. CASE a = "task"
    BY <1>4, <2>1, <2>6, Containers DEF PlaceAt
  <2>7. CASE a \in {"has", "hand"}
    BY <1>4, <2>7 DEF PlaceAt
  <2> QED
    BY <1>4, <2>2, <2>3, <2>4, <2>5, <2>6, <2>7 DEF PlaceAt
<1>5. ASSUME NEW a, NEW x, NEW y, At(a, x, y) PROVE \E x2, i : PlaceAt(a, x2, i, y)
  <2>0. \A z : z \notin Content(NoMag)
    BY DEF Content
  <2>1. CASE a = "slab"
    BY <1>5, <2>1 DEF PlaceAt, At, Where, InSlab
  <2>2. CASE a = "depot"
    <3>1. x \in 1 .. Len(fmag) /\ y \in Content(fmag[Len(fmag) + 1 - x])
      BY <1>5, <2>2 DEF At, Where, InDepot
    <3>2. Len(fmag) + 1 - x \in 1 .. Len(fmag)
      BY <1>1, <3>1
    <3>3. \E i \in 1 .. Len(fmag[Len(fmag) + 1 - x]) : fmag[Len(fmag) + 1 - x][i] = y
      BY <1>1, <1>2, <3>1, <3>2
    <3> QED
      BY <2>2, <3>2, <3>3, Zenon DEF PlaceAt
  <2>3. CASE a = "loaded"
    <3>1. x \in CPU /\ y \in Content(cc[x].loaded)
      BY <1>5, <2>3 DEF At, Where
    <3>2. cc[x].loaded # NoMag /\ \E i \in 1 .. Len(cc[x].loaded) : cc[x].loaded[i] = y
      BY <1>2, <2>0, <3>1
    <3> QED
      BY <2>3, <3>1, <3>2, Zenon DEF PlaceAt
  <2>4. CASE a = "full"
    <3>1. x \in CPU /\ y \in Content(cc[x].full)
      BY <1>5, <2>4 DEF At, Where
    <3>2. cc[x].full # NoMag /\ \E i \in 1 .. Len(cc[x].full) : cc[x].full[i] = y
      BY <1>2, <2>0, <3>1
    <3> QED
      BY <2>4, <3>1, <3>2, Zenon DEF PlaceAt
  <2>5. CASE a \in {"task", "has", "hand"}
    BY <1>5, <2>5 DEF PlaceAt, At, Where, InSeq
  <2> QED
    BY <1>5, <2>1, <2>2, <2>3, <2>4, <2>5 DEF At, Where
<1> QED
  BY <1>3, <1>4, <1>5, Zenon

\* From containers to the places in them.
LEMMA BuffersConservedFollows ==
  ASSUME IInv
  PROVE  BuffersConserved
<1> DEFINE buffers == UNION {ToSet(NewSlab(s)) : s \in DOMAIN slab_free}
           A == UNION {ToSet(slab_free[s]) : s \in DOMAIN slab_free}
           B == {hand[c] : c \in {d \in Client : pc[d] = "ctor"}}
           raw == A \cup B
<1>1. TypeOK /\ LayersFit /\ Conserved /\ ConstructedFit
  BY DEF IInv
<1>2. /\ \A a, x, y : At(a, x, y) => y \in Buffers(slab_free)
      /\ \A y \in Buffers(slab_free) : \E a, x : At(a, x, y)
      /\ \A a, x, a2, x2, y : At(a, x, y) /\ At(a2, x2, y) => a = a2 /\ x = x2
  BY <1>1, Zenon DEF Conserved
<1>3. /\ \A a, x, i, y : PlaceAt(a, x, i, y) /\ y # NoBuf =>
           At(a, IF a = "depot" THEN Len(fmag) + 1 - x ELSE x, y)
      /\ \A a, x, i, j, y : PlaceAt(a, x, i, y) /\ PlaceAt(a, x, j, y) /\ y # NoBuf => i = j
      /\ \A a, x, y : At(a, x, y) => \E x2, i : PlaceAt(a, x2, i, y)
  BY PlaceIsAt, Zenon
<1>4. \A p : p \in Places <=>
        \E a, x, i, y : PlaceAt(a, x, i, y) /\ y # NoBuf /\ p = <<<<a, x>>, i, y>>
  BY PlacesAre
<1>5. buffers = Buffers(slab_free)
  <2>1. \A s \in DOMAIN slab_free : ToSet(NewSlab(s)) = OfSlab(s)
    BY <1>1, OfSlabIs DEF LayersFit, SlabsFit
  <2> QED
    BY <2>1 DEF Buffers
<1>6. \A y \in Buffers(slab_free) : y # NoBuf
  BY <1>1, BuffersAre DEF LayersFit
<1>7. {p[3] : p \in Places} = Buffers(slab_free)
  <2>1. ASSUME NEW p \in Places PROVE p[3] \in Buffers(slab_free)
    <3>1. PICK a, x, i, y : PlaceAt(a, x, i, y) /\ y # NoBuf /\ p = <<<<a, x>>, i, y>>
      BY <1>4
    <3>2. y \in Buffers(slab_free)
      BY <1>2, <1>3, <3>1, Zenon
    <3> QED
      BY <3>1, <3>2
  <2>2. ASSUME NEW y \in Buffers(slab_free) PROVE \E p \in Places : p[3] = y
    <3>1. PICK a, x, i : PlaceAt(a, x, i, y)
      BY <1>2, <1>3, Zenon
    <3>2. <<<<a, x>>, i, y>> \in Places
      BY <1>4, <1>6, <3>1
    <3>3. <<<<a, x>>, i, y>>[3] = y
      OBVIOUS
    <3> QED
      BY <3>2, <3>3
  <2> QED
    BY <2>1, <2>2
<1>8. ASSUME NEW p \in Places, NEW q \in Places, p[3] = q[3] PROVE p = q
  <2>1. PICK a, x, i, y : PlaceAt(a, x, i, y) /\ y # NoBuf /\ p = <<<<a, x>>, i, y>>
    BY <1>4
  <2>2. PICK b, z, j, w : PlaceAt(b, z, j, w) /\ w # NoBuf /\ q = <<<<b, z>>, j, w>>
    BY <1>4
  <2>3. y = w
    BY <1>8, <2>1, <2>2
  <2> DEFINE X == IF a = "depot" THEN Len(fmag) + 1 - x ELSE x
             Z == IF b = "depot" THEN Len(fmag) + 1 - z ELSE z
  <2>4. At(a, X, y) /\ At(b, Z, y)
    BY <1>3, <2>1, <2>2, <2>3
  <2>5. a = b /\ X = Z
    <3> HIDE DEF X, Z
    <3> QED
      BY <1>2, <2>4, Zenon
  <2>6. x = z
    <3>1. CASE a = "depot"
      <4>1. x \in 1 .. Len(fmag) /\ z \in 1 .. Len(fmag) /\ Len(fmag) \in Nat
        BY <2>1, <2>2, <2>5, <3>1, Containers DEF PlaceAt
      <4> QED
        BY <2>5, <3>1, <4>1
    <3>2. CASE a # "depot"
      BY <2>5, <3>2
    <3> QED
      BY <3>1, <3>2
  <2>7. i = j
    BY <1>3, <2>1, <2>2, <2>3, <2>5, <2>6, Zenon
  <2> QED
    BY <2>1, <2>2, <2>3, <2>5, <2>6, <2>7
<1>9. constructed = buffers \ raw
  <2>1. ASSUME NEW y
        PROVE  y \in A <=> \E x : InSlab(slab_free, x, y)
    <3>1. ASSUME NEW s \in DOMAIN slab_free
          PROVE  y \in ToSet(slab_free[s]) <=> InSlab(slab_free, s, y)
      <4>1. DOMAIN slab_free[s] = 1 .. Len(slab_free[s])
        BY Containers
      <4> QED
        BY <4>1 DEF ToSet, InSlab
    <3>2. \A x : InSlab(slab_free, x, y) => x \in DOMAIN slab_free
      BY DEF InSlab
    <3> QED
      BY <3>1, <3>2
  <2>2. ASSUME NEW y
        PROVE  y \in B <=> Raw(pc, hand, y)
    BY DEF Raw
  <2>3. \A y : y \in raw <=> (\E x : InSlab(slab_free, x, y)) \/ Raw(pc, hand, y)
    <3>1. \A y : (y \in A <=> \E x : InSlab(slab_free, x, y)) /\ (y \in B <=> Raw(pc, hand, y))
      BY <2>1, <2>2, Zenon
    <3> HIDE DEF A, B
    <3> QED
      BY <3>1
  <2>4. \A y : y \in constructed <=>
          y \in Buffers(slab_free) /\ (\A x : ~InSlab(slab_free, x, y)) /\ ~Raw(pc, hand, y)
    BY <1>1 DEF ConstructedFit
  <2> HIDE DEF raw, buffers
  <2> QED
    BY <1>5, <2>3, <2>4
<1>10. NoBuf \notin ToSet(todo)
  BY Containers
<1>11. /\ {p[3] : p \in Places} = buffers
       /\ \A p, q \in Places : p[3] = q[3] => p = q
       /\ constructed = buffers \ raw
       /\ NoBuf \notin ToSet(todo)
  <2> HIDE DEF buffers, raw
  <2> QED
    BY <1>5, <1>7, <1>8, <1>9, <1>10
<1> QED
  BY <1>11 DEF BuffersConserved

\* No buffer is lost, given out twice or kept in two places, and each is constructed
\* just when it is above the slab layer, whatever fails.
THEOREM BuffersConservedHolds == Spec => []BuffersConserved
<1>1. IInv => BuffersConserved
  BY BuffersConservedFollows
<1> QED
  BY <1>1, Inductive, PTL
=============================================================================
