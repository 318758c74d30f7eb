-------------------------------- MODULE Kmem --------------------------------
(***************************************************************************)
(* The kernel memory allocator, one object cache: uts/common/os/kmem.c.    *)
(*                                                                         *)
(* A cache has three layers.  Each CPU has a loaded magazine and at most   *)
(* one spare, full or empty, behind cc_lock; the depot keeps lists of full *)
(* and empty magazines behind cache_depot_lock; slabs of buffers lie below *)
(* behind cache_lock.  Buffers above the slab layer are constructed.       *)
(*                                                                         *)
(* Clients allocate and free on any CPU; the thread of kmem_taskq reaps,   *)
(* purges, resizes and enables magazines, one task at a time; the update   *)
(* timeout refreshes the working set limits at any moment.  What the code  *)
(* does while it holds cc_lock or cache_lock is one step; where it drops   *)
(* them to get a magazine or a slab the step ends.                         *)
(*                                                                         *)
(* The magazine caches, the arena and the constructor are abstracted to    *)
(* "may fail"; debugging flags, colouring and the address hash are left    *)
(* out.  A slot of a magazine is reset to NoBuf when its buffer is taken,  *)
(* so that a stale slot that is read shows.                                *)
(***************************************************************************)
EXTENDS Integers, Sequences, FiniteSets, SequencesExt

CONSTANTS
  Client,    \* threads that use the cache
  CPU,       \* the CPUs, max_ncpus of them
  Slab,      \* what the arena can provide
  Chunks,    \* Slab -> number of buffers in it (slab_chunks)
  MagSizes,  \* sizes of the magazine caches, in the order of cache_next
  MaxHeld,   \* bound: buffers a client keeps at a time
  NoBuf,
  NoMag      \* NULL magazine

ASSUME KmemAssumption ==
  /\ Chunks \in [Slab -> Nat \ {0}]
  /\ MagSizes \in Seq(Nat \ {0}) /\ MagSizes # <<>>
  /\ MaxHeld \in Nat
  /\ IsFiniteSet(CPU)
  /\ NoBuf \notin Slab \X Nat
  /\ NoMag \notin Seq((Slab \X Nat) \cup {NoBuf})

VARIABLES
  cc,          \* CPU -> its kmem_cpu_cache_t
  fmag, emag,  \* cache_fmag_list, cache_emag_list; their lengths are the totals
  fmin, emin,  \* cache_fmag_min, cache_emag_min
  flim, elim,  \* cache_fmag_reaplimit, cache_emag_reaplimit
  magtype,     \* index of cache_magazine_cache; gives cache_magazine_size
  nmag,        \* magazines taken from the magazine caches and not returned
  freelist,    \* the slabs from cache_freelist on
  slab_free,   \* created slab -> its free buffers, head first
  constructed, \* the buffers whose constructor ran last
  pc,          \* Client -> where it is
  has,         \* Client -> buffers it was given
  hand,        \* Client -> local "buf" of the call it is in
  ccp, mcp,    \* Client -> locals "ccp" and "mcp" of kmem_cache_free()
  task,        \* what the kmem_taskq thread is doing
  stage,       \* and where it is
  todo,        \* buffers of the magazine it is destroying
  left,        \* CPUs its loop has still to visit
  reaplimit    \* local of kmem_cache_reap()

depot == <<fmag, emag, fmin, emin, flim, elim>>
slabs == <<freelist, slab_free, constructed>>
clients == <<pc, has, hand, ccp, mcp>>
taskq == <<task, stage, todo, left, reaplimit>>
vars == <<cc, depot, magtype, nmag, slabs, clients, taskq>>

Size == MagSizes[magtype]

\* A new magazine of size n, and a CPU without magazines (-1 rounds).
Magazine(n) == [i \in 1 .. n |-> NoBuf]
NoMagazines(n) == [rounds |-> -1, magsize |-> n, loaded |-> NoMag, full |-> NoMag, empty |-> NoMag]

\* kmem_cache_create() has just enabled the magazines.
Init ==
  /\ magtype = 1
  /\ cc = [k \in CPU |-> NoMagazines(MagSizes[1])]
  /\ fmag = <<>> /\ emag = <<>>
  /\ fmin = 0 /\ emin = 0 /\ flim = 0 /\ elim = 0
  /\ nmag = 0
  /\ freelist = <<>> /\ slab_free = <<>> /\ constructed = {}
  /\ pc = [c \in Client |-> "idle"]
  /\ has = [c \in Client |-> {}]
  /\ hand = [c \in Client |-> NoBuf]
  /\ ccp = [c \in Client |-> NoMag] /\ mcp = [c \in Client |-> 0]
  /\ task = "none" /\ stage = "idle" /\ todo = <<>> /\ left = {} /\ reaplimit = 0

-----------------------------------------------------------------------------
Least(a, b) == IF a < b THEN a ELSE b

Goto(c, l) == pc' = [pc EXCEPT ![c] = l]

\* cc_lock is held across steps only by a client that loops with a new magazine.
CcFree(k) == \A c \in Client : ~(pc[c] = "retry" /\ ccp[c] = k)

\* The task that destroys the cache has it for itself.
Alive == task # "destroy"

-----------------------------------------------------------------------------
(* The slab layer.                                                          *)

\* The buffers of a new slab, in the order of slab_head.
NewSlab(s) == [i \in 1 .. Chunks[s] |-> <<s, i>>]

\* kmem_cache_alloc() below the magazines: the head buffer of the first slab on
\* the list fl, which leaves the list with its last one.
TakeFrom(fl, sf, c) ==
  LET s == Head(fl)
  IN
  /\ hand' = [hand EXCEPT ![c] = Head(sf[s])]
  /\ slab_free' = [sf EXCEPT ![s] = Tail(@)]
  /\ freelist' = IF Len(sf[s]) = 1 THEN Tail(fl) ELSE fl

\* The list fl without s.
Unlinked(fl, s) == RemoveAt(fl, CHOOSE i \in 1 .. Len(fl) : fl[i] = s)

\* kmem_cache_free_global(): to the tail of its slab; a slab that was in use
\* entirely goes to the head of the freelist, one that is free is destroyed.
FreeGlobal(b) ==
  LET s == b[1]
      bufs == Append(slab_free[s], b)
      fl == IF slab_free[s] = <<>> THEN <<s>> \o freelist ELSE freelist
  IN
  IF Len(bufs) = Chunks[s]
  THEN /\ freelist' = Unlinked(fl, s)
       /\ slab_free' = [x \in DOMAIN slab_free \ {s} |-> slab_free[x]]
  ELSE /\ freelist' = fl
       /\ slab_free' = [slab_free EXCEPT ![s] = bufs]

\* kmem_slab_create() has dropped cache_lock: if another slab has come up since,
\* that one is used and the new one is destroyed (extra_slab).
SlabCreate(c) ==
  /\ pc[c] = "create"
  /\ \E s \in Slab \ DOMAIN slab_free :
       IF freelist = <<>>
       THEN TakeFrom(<<s>>, [x \in DOMAIN slab_free \cup {s} |->
                               IF x = s THEN NewSlab(s) ELSE slab_free[x]], c)
       ELSE TakeFrom(freelist, slab_free, c)
  /\ Goto(c, "ctor")
  /\ UNCHANGED <<cc, depot, magtype, nmag, constructed, has, ccp, mcp, taskq>>

\* page_alloc_failure: kmem_cache_alloc() returns NULL.
SlabCreateFails(c) ==
  /\ pc[c] = "create"
  /\ Goto(c, "idle")
  /\ UNCHANGED <<cc, depot, magtype, nmag, slabs, has, hand, ccp, mcp, taskq>>

\* The constructor succeeds, or the buffer goes back as it came.
Construct(c) ==
  /\ pc[c] = "ctor"
  /\ constructed' = constructed \cup {hand[c]}
  /\ has' = [has EXCEPT ![c] = @ \cup {hand[c]}]
  /\ hand' = [hand EXCEPT ![c] = NoBuf]
  /\ Goto(c, "idle")
  /\ UNCHANGED <<cc, depot, magtype, nmag, freelist, slab_free, ccp, mcp, taskq>>

ConstructFails(c) ==
  /\ pc[c] = "ctor"
  /\ FreeGlobal(hand[c])
  /\ hand' = [hand EXCEPT ![c] = NoBuf]
  /\ Goto(c, "idle")
  /\ UNCHANGED <<cc, depot, magtype, nmag, constructed, has, ccp, mcp, taskq>>

-----------------------------------------------------------------------------
(* kmem_cache_alloc(): the magazine layer.                                  *)

\* A client calls kmem_cache_alloc() on CPU k and gets cc_lock.
Allocating(c, k) ==
  /\ Alive /\ pc[c] = "idle" /\ Cardinality(has[c]) < MaxHeld
  /\ CcFree(k)

\* The top round of the loaded magazine of CPU state r.
TakeRound(c, k, r) ==
  /\ has' = [has EXCEPT ![c] = @ \cup {r.loaded[r.rounds]}]
  /\ cc' = [cc EXCEPT ![k] = [r EXCEPT !.rounds = @ - 1, !.loaded[r.rounds] = NoBuf]]

AllocLoaded(c, k) ==
  /\ Allocating(c, k)
  /\ cc[k].rounds > 0
  /\ TakeRound(c, k, cc[k])
  /\ UNCHANGED <<depot, magtype, nmag, slabs, pc, hand, ccp, mcp, taskq>>

\* Mutant: the full magazine stays the spare as well.
FullLoadedTwice(r) == [r EXCEPT !.empty = r.loaded, !.loaded = r.full, !.rounds = r.magsize]

\* The spare full magazine is loaded; the loaded one becomes the empty spare.
FullLoaded(r) ==
  [r EXCEPT !.empty = r.loaded, !.loaded = r.full, !.full = NoMag, !.rounds = r.magsize]

AllocFull(c, k) ==
  /\ Allocating(c, k)
  /\ cc[k].rounds <= 0 /\ cc[k].full # NoMag
  /\ TakeRound(c, k, FullLoaded(cc[k]))
  /\ UNCHANGED <<depot, magtype, nmag, slabs, pc, hand, ccp, mcp, taskq>>

\* A full magazine from the depot, to which the empty ones overflow.
AllocDepot(c, k) ==
  LET r == cc[k]
      spare == r.loaded # NoMag /\ r.empty = NoMag
      overflow == r.loaded # NoMag /\ r.empty # NoMag
  IN
  /\ Allocating(c, k)
  /\ r.rounds <= 0 /\ r.full = NoMag /\ r.magsize # 0
  /\ fmag # <<>>
  /\ fmag' = Tail(fmag)
  /\ fmin' = Least(fmin, Len(fmag) - 1)
  /\ emag' = IF overflow THEN <<r.loaded>> \o emag ELSE emag
  /\ TakeRound(c, k, [r EXCEPT !.empty = IF spare THEN r.loaded ELSE @,
                               !.loaded = Head(fmag), !.rounds = r.magsize])
  /\ UNCHANGED <<emin, flim, elim, magtype, nmag, slabs, pc, hand, ccp, mcp, taskq>>

\* Nothing in the magazine layer: cc_lock is dropped.
AllocMisses(c, k) ==
  /\ Allocating(c, k)
  /\ cc[k].rounds <= 0 /\ cc[k].full = NoMag
  /\ cc[k].magsize = 0 \/ fmag = <<>>
  /\ Goto(c, "global")
  /\ UNCHANGED <<cc, depot, magtype, nmag, slabs, has, hand, ccp, mcp, taskq>>

\* Under cache_lock: a buffer of the first slab that has one, or
\* kmem_slab_create().
AllocGlobal(c) ==
  /\ pc[c] = "global"
  /\ IF freelist = <<>>
     THEN Goto(c, "create") /\ UNCHANGED <<freelist, slab_free, hand>>
     ELSE Goto(c, "ctor") /\ TakeFrom(freelist, slab_free, c)
  /\ UNCHANGED <<cc, depot, magtype, nmag, constructed, has, ccp, mcp, taskq>>

-----------------------------------------------------------------------------
(* kmem_cache_free(): the magazine layer.                                   *)

\* A client frees b on CPU k, or loops after it has added a magazine.
Freeing(c, k, b) ==
  \/ /\ pc[c] = "idle" /\ b \in has[c]
     /\ CcFree(k)
  \/ /\ pc[c] = "retry" /\ b = hand[c] /\ k = ccp[c]

\* Either way b is off the client's hands and the call returns.
Returned(c, b) ==
  /\ has' = [has EXCEPT ![c] = @ \ {b}]
  /\ hand' = [hand EXCEPT ![c] = NoBuf]
  /\ ccp' = [ccp EXCEPT ![c] = NoMag] /\ mcp' = [mcp EXCEPT ![c] = 0]
  /\ Goto(c, "idle")

\* b becomes the top round of the loaded magazine of CPU state r.
PutRound(k, r, b) ==
  cc' = [cc EXCEPT ![k] = [r EXCEPT !.rounds = @ + 1, !.loaded[r.rounds + 1] = b]]

\* cc_rounds is compared as unsigned: -1 is never below cc_magsize.
HasRoom(r) == r.rounds >= 0 /\ r.rounds < r.magsize

FreeLoaded(c, k, b) ==
  /\ Freeing(c, k, b)
  /\ HasRoom(cc[k])
  /\ PutRound(k, cc[k], b)
  /\ Returned(c, b)
  /\ UNCHANGED <<depot, magtype, nmag, slabs, taskq>>

FreeEmpty(c, k, b) ==
  LET r == cc[k]
  IN
  /\ Freeing(c, k, b)
  /\ ~HasRoom(r) /\ r.empty # NoMag
  /\ PutRound(k, [r EXCEPT !.full = r.loaded, !.loaded = r.empty, !.empty = NoMag,
                           !.rounds = 0], b)
  /\ Returned(c, b)
  /\ UNCHANGED <<depot, magtype, nmag, slabs, taskq>>

\* An empty magazine from the depot, to which the full ones overflow.
FreeDepot(c, k, b) ==
  LET r == cc[k]
      spare == r.loaded # NoMag /\ r.full = NoMag
      overflow == r.loaded # NoMag /\ r.full # NoMag
  IN
  /\ Freeing(c, k, b)
  /\ ~HasRoom(r) /\ r.empty = NoMag /\ r.magsize # 0
  /\ emag # <<>>
  /\ emag' = Tail(emag)
  /\ emin' = Least(emin, Len(emag) - 1)
  /\ fmag' = IF overflow THEN <<r.loaded>> \o fmag ELSE fmag
  /\ PutRound(k, [r EXCEPT !.full = IF spare THEN r.loaded ELSE @,
                           !.loaded = Head(emag), !.rounds = 0], b)
  /\ Returned(c, b)
  /\ UNCHANGED <<fmin, flim, elim, magtype, nmag, slabs, taskq>>

\* The end of kmem_cache_free(): destructor, then the slab layer.
Destruct(b) ==
  /\ constructed' = constructed \ {b}
  /\ FreeGlobal(b)

\* Out of the loop: cc_lock is dropped, and the buffer is still to be given back.
LeaveLoop(c, b) ==
  /\ has' = [has EXCEPT ![c] = @ \ {b}]
  /\ hand' = [hand EXCEPT ![c] = b]
  /\ ccp' = [ccp EXCEPT ![c] = NoMag] /\ mcp' = [mcp EXCEPT ![c] = 0]
  /\ Goto(c, "free")

\* The CPU has no magazines.
FreeMisses(c, k, b) ==
  /\ Freeing(c, k, b)
  /\ ~HasRoom(cc[k]) /\ cc[k].empty = NoMag /\ cc[k].magsize = 0
  /\ LeaveLoop(c, b)
  /\ UNCHANGED <<cc, depot, magtype, nmag, slabs, taskq>>

FreeBuffer(c) ==
  /\ pc[c] = "free"
  /\ Destruct(hand[c])
  /\ Returned(c, hand[c])
  /\ UNCHANGED <<cc, depot, magtype, nmag, taskq>>

\* The depot has none: a magazine is allocated with all locks dropped.
NeedMagazine(c, k, b) ==
  /\ Freeing(c, k, b)
  /\ ~HasRoom(cc[k]) /\ cc[k].empty = NoMag /\ cc[k].magsize # 0
  /\ emag = <<>>
  /\ has' = [has EXCEPT ![c] = @ \ {b}]
  /\ hand' = [hand EXCEPT ![c] = b]
  /\ ccp' = [ccp EXCEPT ![c] = k] /\ mcp' = [mcp EXCEPT ![c] = magtype]
  /\ Goto(c, "needmag")
  /\ UNCHANGED <<cc, depot, magtype, nmag, slabs, taskq>>

\* Mutant: only looks whether magazines are still enabled.
StillEnabled(c) == cc[ccp[c]].magsize # 0

\* "emp && ccp->cc_magsize == KMEM_MAGAZINE_SIZE(mcp)": the magazine still fits.
StillFits(c) == cc[ccp[c]].magsize = MagSizes[mcp[c]]

\* The new magazine goes to the depot and the loop is run again.
GotMagazine(c) ==
  /\ pc[c] = "needmag" /\ CcFree(ccp[c])
  /\ StillFits(c)
  /\ emag' = <<Magazine(MagSizes[mcp[c]])>> \o emag
  /\ nmag' = nmag + 1
  /\ Goto(c, "retry")
  /\ UNCHANGED <<cc, fmag, fmin, emin, flim, elim, magtype, slabs, has, hand, ccp, mcp, taskq>>

\* No magazine, or not of the right size any more (it is freed again).
NoMagazine(c) ==
  /\ pc[c] = "needmag" /\ CcFree(ccp[c])
  /\ LeaveLoop(c, hand[c])
  /\ UNCHANGED <<cc, depot, magtype, nmag, slabs, taskq>>

-----------------------------------------------------------------------------
(* The tasks of kmem_taskq.                                                 *)

TaskStarts(t, s, cpus) == task' = t /\ stage' = s /\ left' = cpus

\* kmem_cache_reap(), kmem_cache_magazine_purge() and _enable() as dispatched by
\* kmem_reap() and kmem_cpu_setup(), and kmem_magazine_resize().
StartTask ==
  /\ task = "none"
  /\ \/ TaskStarts("reap", "reap", {})
     \/ TaskStarts("purge", "cpus", CPU)
     \/ TaskStarts("enable", "enable", CPU)
     \/ magtype < Len(MagSizes) /\ TaskStarts("resize", "cpus", CPU)
  /\ UNCHANGED <<cc, depot, magtype, nmag, slabs, clients, todo, reaplimit>>

\* kmem_cache_destroy(): the cache's user has stopped, kmem_taskq is drained.
StartDestroy ==
  /\ task = "none"
  /\ \A c \in Client : pc[c] = "idle" /\ has[c] = {}
  /\ TaskStarts("destroy", "cpus", CPU)
  /\ UNCHANGED <<cc, depot, magtype, nmag, slabs, clients, todo, reaplimit>>

\* The rounds kmem_magazine_destroy() is told to free.
Rounds(mag, n) == IF mag = NoMag \/ n <= 0 THEN <<>> ELSE SubSeq(mag, 1, n)

\* kmem_cache_magazine_purge(), one CPU.
PurgeCpu(k) ==
  LET r == cc[k]
  IN
  /\ stage = "cpus" /\ todo = <<>> /\ k \in left /\ CcFree(k)
  /\ cc' = [cc EXCEPT ![k] = NoMagazines(0)]
  /\ todo' = Rounds(r.loaded, r.rounds) \o Rounds(r.full, r.magsize)
  /\ nmag' = nmag - Cardinality({f \in {"loaded", "full", "empty"} : r[f] # NoMag})
  /\ left' = left \ {k}
  /\ UNCHANGED <<depot, magtype, slabs, clients, task, stage, reaplimit>>

\* Mutant: leaves the limits as the last update set them.
PurgeDepotKeepsLimits ==
  /\ stage = "cpus" /\ todo = <<>> /\ left = {}
  /\ TaskStarts(IF task = "purge" THEN "reap" ELSE task, "reap", {})
  /\ UNCHANGED <<cc, depot, magtype, nmag, slabs, clients, todo, reaplimit>>

\* All the depot's magazines are made subject to the reap that follows.
PurgeDepot ==
  /\ stage = "cpus" /\ todo = <<>> /\ left = {}
  /\ fmin' = Len(fmag) /\ flim' = Len(fmag)
  /\ emin' = Len(emag) /\ elim' = Len(emag)
  /\ TaskStarts(IF task = "purge" THEN "reap" ELSE task, "reap", {})
  /\ UNCHANGED <<cc, fmag, emag, magtype, nmag, slabs, clients, todo, reaplimit>>

\* kmem_magazine_destroy(): destructor and slab layer, buffer by buffer.
DestroyRound ==
  /\ todo # <<>>
  /\ Destruct(Head(todo))
  /\ todo' = Tail(todo)
  /\ UNCHANGED <<cc, depot, magtype, nmag, clients, task, stage, left, reaplimit>>

\* kmem_cache_reap() holds the depot lock except while it destroys a magazine.  Its
\* first loop takes full magazines, the second empty ones; each starts with a new
\* limit.  The three actions are what happens from one release to the next.
FullLimit == IF stage = "reap" THEN Least(flim, fmin) ELSE reaplimit
EmptyLimit == IF stage = "emag" THEN reaplimit ELSE Least(elim, emin)
MoreFull == stage # "emag" /\ FullLimit > 0 /\ fmag # <<>>
MoreEmpty == EmptyLimit > 0 /\ emag # <<>>
Reaping == stage \in {"reap", "fmag", "emag"} /\ todo = <<>>
ResetFull == flim' = IF stage = "reap" THEN 0 ELSE flim
ResetEmpty == elim' = IF stage = "emag" THEN elim ELSE 0

ReapFull ==
  /\ Reaping /\ MoreFull
  /\ reaplimit' = FullLimit - 1 /\ ResetFull
  /\ fmin' = fmin - 1
  /\ todo' = Rounds(Head(fmag), Size)
  /\ fmag' = Tail(fmag)
  /\ nmag' = nmag - 1
  /\ stage' = "fmag"
  /\ UNCHANGED <<cc, emag, emin, elim, magtype, slabs, clients, task, left>>

ReapEmpty ==
  /\ Reaping /\ ~MoreFull /\ MoreEmpty
  /\ reaplimit' = EmptyLimit - 1 /\ ResetFull /\ ResetEmpty
  /\ emin' = emin - 1
  /\ emag' = Tail(emag)
  /\ nmag' = nmag - 1
  /\ stage' = "emag"
  /\ UNCHANGED <<cc, fmag, fmin, magtype, slabs, clients, task, todo, left>>

\* The reap is over; what comes next depends on the task.
EndReap ==
  /\ Reaping /\ ~MoreFull /\ ~MoreEmpty
  /\ reaplimit' = 0 /\ ResetFull /\ ResetEmpty
  /\ CASE task = "resize"  -> stage' = "setup" /\ UNCHANGED task
       [] task = "destroy" -> stage' = "dead" /\ UNCHANGED task
       [] OTHER            -> stage' = "idle" /\ task' = "none"
  /\ UNCHANGED <<cc, fmag, emag, fmin, emin, magtype, nmag, slabs, clients, todo, left>>

\* kmem_cache_magazine_setup(); the resize ends by enabling.
Setup ==
  /\ stage = "setup"
  /\ magtype' = magtype + 1
  /\ TaskStarts("enable", "enable", CPU)
  /\ UNCHANGED <<cc, depot, nmag, slabs, clients, todo, reaplimit>>

\* kmem_cache_magazine_enable(), one CPU.
EnableCpu(k) ==
  /\ stage = "enable" /\ k \in left /\ CcFree(k)
  /\ cc' = [cc EXCEPT ![k].magsize = Size]
  /\ IF left = {k} THEN TaskStarts("none", "idle", {}) ELSE TaskStarts(task, stage, left \ {k})
  /\ UNCHANGED <<depot, magtype, nmag, slabs, clients, todo, reaplimit>>

\* kmem_cache_update(), run by the timeout: the working set of the last interval.
Update ==
  /\ Alive
  /\ flim' = fmin /\ fmin' = Len(fmag)
  /\ elim' = emin /\ emin' = Len(emag)
  /\ UNCHANGED <<cc, fmag, emag, magtype, nmag, slabs, clients, taskq>>

-----------------------------------------------------------------------------
ClientStep(c) ==
  \/ \E k \in CPU : AllocLoaded(c, k) \/ AllocFull(c, k) \/ AllocDepot(c, k) \/ AllocMisses(c, k)
  \/ AllocGlobal(c) \/ SlabCreate(c) \/ SlabCreateFails(c) \/ Construct(c) \/ ConstructFails(c)
  \/ \E k \in CPU, b \in has[c] \cup {hand[c]} :
       \/ FreeLoaded(c, k, b) \/ FreeEmpty(c, k, b) \/ FreeDepot(c, k, b)
       \/ FreeMisses(c, k, b) \/ NeedMagazine(c, k, b)
  \/ GotMagazine(c) \/ NoMagazine(c) \/ FreeBuffer(c)

TaskStep ==
  \/ StartTask \/ StartDestroy
  \/ \E k \in CPU : PurgeCpu(k) \/ EnableCpu(k)
  \/ PurgeDepot \/ DestroyRound
  \/ ReapFull \/ ReapEmpty \/ EndReap \/ Setup

Dead == stage = "dead" /\ UNCHANGED vars

Next == (\E c \in Client : ClientStep(c)) \/ TaskStep \/ Update \/ Dead

Spec == Init /\ [][Next]_vars

-----------------------------------------------------------------------------
(* Properties.                                                              *)

\* The places of a sequence of buffers, or of a magazine, that hold one.
Slots(where, bufs) ==
  IF bufs = NoMag THEN {} ELSE {<<where, i, bufs[i]>> : i \in {j \in DOMAIN bufs : bufs[j] # NoBuf}}

\* Every place that would hand out a buffer or give it back, with the buffer.
Places ==
  UNION ({Slots(<<"slab", s>>, slab_free[s]) : s \in DOMAIN slab_free}
    \cup {Slots(<<"depot", n>>, fmag[n]) : n \in DOMAIN fmag}
    \cup {Slots(<<f, k>>, cc[k][f]) : f \in {"loaded", "full", "empty"}, k \in CPU}
    \cup {Slots(<<"task", NoMag>>, todo)}
    \cup {{<<<<"has", c>>, 1, b>> : b \in has[c]} : c \in Client}
    \cup {{<<<<"hand", c>>, 1, b>> : b \in {hand[c]} \ {NoBuf}} : c \in Client})

\* No buffer is lost, given out twice or kept in two places: each buffer of each
\* slab is in one place, no other buffer is anywhere, and it is constructed just
\* when it is above the slab layer, whichever way it came and whatever failed.
BuffersConserved ==
  LET buffers == UNION {ToSet(NewSlab(s)) : s \in DOMAIN slab_free}
      raw == (UNION {ToSet(slab_free[s]) : s \in DOMAIN slab_free})
               \cup {hand[c] : c \in {d \in Client : pc[d] = "ctor"}}
  IN
  /\ {p[3] : p \in Places} = buffers
  /\ \A p, q \in Places : p[3] = q[3] => p = q
  /\ constructed = buffers \ raw
  /\ NoBuf \notin ToSet(todo)

\* No magazine outlives a change of the magazine size, and the number of rounds
\* is always what the code takes it to be without looking: spare and depot
\* magazines called full hold cc_magsize rounds, those called empty none, and
\* the loaded one cc_rounds (kmem_cache_magazine_purge() and the recheck of
\* cc_magsize after a magazine was allocated).
MagazinesFit ==
  /\ \A i \in DOMAIN fmag : Len(fmag[i]) = Size /\ \A j \in 1 .. Size : fmag[i][j] # NoBuf
  /\ \A i \in DOMAIN emag : emag[i] = Magazine(Size)
  /\ \A k \in CPU :
       LET r == cc[k]
       IN
       /\ r.magsize \in {0, Size}
       /\ r.rounds = -1 <=> r.loaded = NoMag
       /\ r.loaded = NoMag => r.full = NoMag /\ r.empty = NoMag
       /\ r.loaded # NoMag =>
            /\ Len(r.loaded) = r.magsize
            /\ \A j \in 1 .. r.magsize : r.loaded[j] # NoBuf <=> j <= r.rounds
       /\ r.full # NoMag =>
            /\ r.empty = NoMag
            /\ Len(r.full) = r.magsize
            /\ \A j \in 1 .. r.magsize : r.full[j] # NoBuf
       /\ r.empty # NoMag => r.empty = Magazine(r.magsize)

\* When a cache whose user has freed everything is destroyed, every slab has gone
\* back to the arena and every magazine to its cache, so the warning that the
\* cache is not empty is never given (kmem_cache_destroy()).
DestroyLeavesNothing ==
  stage = "dead" => slab_free = <<>> /\ constructed = {} /\ nmag = 0
=============================================================================
