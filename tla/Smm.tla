-------------------------------- MODULE Smm --------------------------------
(***************************************************************************)
(* The shared-memory buffer manager of the Wayland driver (wayland/smm.c). *)
(*                                                                         *)
(* One pool of shared memory is cut into buffers.  The pool's list         *)
(* `allocd` links the buffers in address order; a buffer either belongs to *)
(* a group (its owner) or is a hole.  A group keeps the buffers it owns in *)
(* two queues, `unused` and `inuse`, and remembers in `history` the order  *)
(* in which they were last acquired.                                       *)
(*                                                                         *)
(* The code runs in one thread, so the client's calls do not overlap; but  *)
(* a call loops over queues and calls the client back, and the client may  *)
(* map a buffer from inside its init_buffer callback.  The variable `call` *)
(* is the control state of the call in progress: an iteration of a loop is *)
(* one step, and no other call starts before the pending one is over.      *)
(*                                                                         *)
(* A struct smm_buffer is the identity b \in Bufs of its memory: malloc    *)
(* returns any b that is not linked in a pool, so an identity is reused as *)
(* an address is.  The fields of freed memory cannot be observed before    *)
(* alloc_buffer writes them again; they are reset when memory is freed.    *)
(*                                                                         *)
(* There is at most one pool: smm_instance.active is replaced only after   *)
(* free_pool, so every buffer's pool is the active one.                    *)
(***************************************************************************)
EXTENDS Integers, Sequences, SequencesExt, FiniteSets, FiniteSetsExt

CONSTANTS
  Groups,           \* addresses of struct smm_group
  Bufs,             \* addresses of struct smm_buffer (bounds the heap)
  NoGroup,          \* a NULL group pointer: the buffer is a hole
  NoBuf,            \* a NULL buffer pointer
  PageSize,         \* sysconf(_SC_PAGESIZE)
  Requests,         \* byte sizes that clients pass to smm_resize
  PreferNumBuffers, \* PREFER_NUM_BUFFERS
  SizeRange,        \* the values of the statistic, a size_t: 2^64 in the code
  PoolLimit,        \* bounds the memory of the pool
  Faults            \* the calls that may fail, a subset of FaultKinds

FaultKinds ==
  {"alloc_pool", "alloc_buffer", "ftruncate", "new_pool", "new_buffer",
   "init_buffer", "mmap"}

ASSUME GroupsAssumption == NoGroup \notin Groups /\ NoBuf \notin Bufs
ASSUME BufsAssumption == IsFiniteSet(Bufs)
ASSUME PageSizeAssumption == PageSize \in Nat \ {0}
ASSUME RequestsAssumption == Requests \subseteq Nat
ASSUME PreferAssumption == PreferNumBuffers \in Nat
ASSUME SizeRangeAssumption == SizeRange \in Nat \ {0}
ASSUME PoolLimitAssumption == PoolLimit \in Nat
ASSUME FaultsAssumption == Faults \subseteq FaultKinds

VARIABLES
  live,         \* the groups linked in smm_instance.groups
  size,         \* size[g]: the group's allocation size
  num,          \* num[g]: the group's num_buffers
  unused,       \* unused[g]: the queue of buffers ready for reuse
  inuse,        \* inuse[g]: the buffers handed out (their order is never read
                \* but to choose which one smm_destroy returns next)
  history,      \* history[g]: buffers by age of acquisition, oldest first
  owner,        \* owner[b]: props.group
  resized,      \* resized[b]: group_resized
  offset,       \* offset[b]: props.offset
  allocd,       \* the pool's list of buffers
  active,       \* smm_instance.active # NULL
  poolSize,     \* the pool's props.size
  mapped,       \* the pool's map # NULL
  mapSize,      \* the pool's map_size
  outdated,     \* the pool's map_outdated
  activeUsed,   \* statistics.active_used
  call          \* the call in progress: its operation, group and buffer

poolVars  == <<allocd, offset, active, poolSize>>
mapVars   == <<mapped, mapSize, outdated>>
queueVars == <<num, unused, inuse, history>>
bufVars   == <<owner, resized>>
vars == <<live, size, queueVars, bufVars, poolVars, mapVars, activeUsed, call>>

----------------------------------------------------------------------------

Ops == {"idle", "init", "release", "trim", "resize", "destroy", "deinit"}

Idle == [op |-> "idle", grp |-> NoGroup, buf |-> NoBuf]
Doing(op, g, b) == [op |-> op, grp |-> g, buf |-> b]

\* Mutant of NumRange: a counter of one bit.
NarrowRange == 2

\* num_buffers is an unsigned char.
NumRange == 256

\* Mutant of RoundUp: rounds down.
RoundDown(n, b) == (n \div b) * b

RoundUp(n, b) == (((IF n = 0 THEN 1 ELSE n) + b - 1) \div b) * b

Fresh == {b \in Bufs : b \notin ToSet(allocd)}

IndexOf(b) == CHOOSE i \in DOMAIN allocd : allocd[i] = b

IsFree(i) == owner[allocd[i]] = NoGroup

\* calc_buffer_size: up to the next buffer, or to the end of the pool.
SizeAt(i) ==
  (IF i = Len(allocd) THEN poolSize ELSE offset[allocd[i + 1]])
    - offset[allocd[i]]

\* purge_history: b and everything older leave the history.
Purged(h, b) ==
  IF b \in ToSet(h)
    THEN SubSeq(h, (CHOOSE i \in DOMAIN h : h[i] = b) + 1, Len(h))
    ELSE h

----------------------------------------------------------------------------
(* get_from_pool *)

\* Mutant of Fits: takes owned buffers for holes.
FitsOwned(i, sz) == SizeAt(i) >= sz

Fits(i, sz) == IsFree(i) /\ SizeAt(i) >= sz

FirstFit(i, sz) == Fits(i, sz) /\ \A j \in 1 .. (i - 1) : ~Fits(j, sz)

NoFit(sz) == \A i \in DOMAIN allocd : ~Fits(i, sz)

LastIsFree == allocd # <<>> /\ IsFree(Len(allocd))

\* A hole of the very size of the group.
PlaceExact(b, sz) ==
  /\ \E i \in DOMAIN allocd :
       allocd[i] = b /\ FirstFit(i, sz) /\ SizeAt(i) = sz
  /\ UNCHANGED <<poolVars, outdated>>

\* A larger hole before another hole, which is pulled back.
PlacePullBack(b, sz) ==
  /\ \E i \in DOMAIN allocd :
       /\ allocd[i] = b /\ FirstFit(i, sz) /\ SizeAt(i) > sz
       /\ i < Len(allocd) /\ IsFree(i + 1)
       /\ offset' = [offset EXCEPT ![allocd[i + 1]] = @ - (SizeAt(i) - sz)]
  /\ UNCHANGED <<allocd, active, poolSize, outdated>>

\* Mutant of PlaceSplit: the remainder is linked last, out of address order.
PlaceSplitLast(b, sz) ==
  /\ \E i \in DOMAIN allocd, rest \in Fresh :
       /\ allocd[i] = b /\ FirstFit(i, sz) /\ SizeAt(i) > sz
       /\ ~(i < Len(allocd) /\ IsFree(i + 1))
       /\ allocd' = Append(allocd, rest)
       /\ offset' = [offset EXCEPT ![rest] = offset[b] + sz]
  /\ UNCHANGED <<active, poolSize, outdated>>

\* A larger hole, split by a new buffer for the remainder ...
PlaceSplit(b, sz) ==
  /\ \E i \in DOMAIN allocd, rest \in Fresh :
       /\ allocd[i] = b /\ FirstFit(i, sz) /\ SizeAt(i) > sz
       /\ ~(i < Len(allocd) /\ IsFree(i + 1))
       /\ allocd' = InsertAt(allocd, i + 1, rest)
       /\ offset' = [offset EXCEPT ![rest] = offset[b] + sz]
  /\ UNCHANGED <<active, poolSize, outdated>>

\* ... or handed out whole when that buffer cannot be allocated.
PlaceWhole(b, sz) ==
  /\ \E i \in DOMAIN allocd :
       /\ allocd[i] = b /\ FirstFit(i, sz) /\ SizeAt(i) > sz
       /\ ~(i < Len(allocd) /\ IsFree(i + 1))
  /\ UNCHANGED <<poolVars, outdated>>

\* No hole fits and the last buffer is one: it grows with the pool.
PlaceExtend(b, sz) ==
  /\ NoFit(sz) /\ LastIsFree
  /\ b = allocd[Len(allocd)]
  /\ poolSize + (sz - SizeAt(Len(allocd))) <= PoolLimit
  /\ poolSize' = poolSize + (sz - SizeAt(Len(allocd)))
  /\ outdated' = TRUE
  /\ UNCHANGED <<allocd, offset, active>>

\* No hole fits: a new buffer at the end of the expanded pool.
PlaceAppend(b, sz) ==
  /\ NoFit(sz) /\ ~LastIsFree
  /\ b \in Fresh
  /\ poolSize + sz <= PoolLimit
  /\ allocd' = Append(allocd, b)
  /\ offset' = [offset EXCEPT ![b] = IF allocd = <<>> THEN 0 ELSE poolSize]
  /\ poolSize' = poolSize + sz
  /\ outdated' = TRUE
  /\ active' = TRUE

\* The ways in which get_from_pool finds room.
Place(b, sz) ==
  \/ PlaceExact(b, sz) \/ PlacePullBack(b, sz) \/ PlaceSplit(b, sz)
  \/ "alloc_buffer" \in Faults /\ PlaceWhole(b, sz)
  \/ PlaceExtend(b, sz) \/ PlaceAppend(b, sz)

\* alloc_pool resets the statistic of a new pool.
UsedBefore == IF active THEN activeUsed ELSE 0

----------------------------------------------------------------------------
(* smm_acquire *)

\* An unused buffer is reused, the one released first.
AcquireUnused(g) ==
  /\ call = Idle /\ g \in live
  /\ unused[g] # <<>>
  /\ unused' = [unused EXCEPT ![g] = Tail(@)]
  /\ inuse' = [inuse EXCEPT ![g] = @ \cup {Head(unused[g])}]
  /\ call' = Doing("init", g, Head(unused[g]))
  /\ UNCHANGED <<live, size, num, history, bufVars, poolVars, mapVars,
                 activeUsed>>

\* A buffer comes from the pool; the client makes a wl_buffer of it.
AcquireFromPool(g) ==
  /\ call = Idle /\ g \in live
  /\ unused[g] = <<>>
  /\ \E b \in Bufs :
       /\ Place(b, size[g])
       /\ owner' = [owner EXCEPT ![b] = g]
       /\ inuse' = [inuse EXCEPT ![g] = @ \cup {b}]
       /\ call' = Doing("init", g, b)
  /\ num' = [num EXCEPT ![g] = (@ + 1) % NumRange]
  /\ activeUsed' = (UsedBefore + size[g]) % SizeRange
  /\ UNCHANGED <<live, size, unused, history, resized, mapped, mapSize>>

\* Mutant of AcquireRefused: the group is not cleared.
AcquireRefusedOwned(g) ==
  /\ call = Idle /\ g \in live
  /\ unused[g] = <<>>
  /\ "new_buffer" \in Faults
  /\ \E b \in Bufs : Place(b, size[g]) /\ owner' = [owner EXCEPT ![b] = g]
  /\ activeUsed' = UsedBefore
  /\ UNCHANGED <<live, size, queueVars, resized, mapped, mapSize, call>>

\* The client's new_buffer callback fails: the room found stays a hole,
\* which is not coalesced with its neighbours.
AcquireRefused(g) ==
  /\ call = Idle /\ g \in live
  /\ unused[g] = <<>>
  /\ "new_buffer" \in Faults
  /\ \E b \in Bufs : Place(b, size[g])
  /\ activeUsed' = UsedBefore
  /\ UNCHANGED <<live, size, queueVars, bufVars, mapped, mapSize, call>>

\* No room was found: an empty pool may be left behind, or (when new_pool
\* refuses the pool's first buffer) the pool is freed.
AcquireFails(g) ==
  /\ call = Idle /\ g \in live
  /\ unused[g] = <<>>
  /\ NoFit(size[g])
  /\ \/ "alloc_pool" \in Faults /\ ~active /\ active' = FALSE
     \/ "alloc_buffer" \in Faults /\ ~LastIsFree /\ active' = TRUE
     \/ "ftruncate" \in Faults /\ active' = TRUE
     \/ "new_pool" \in Faults /\ poolSize = 0 /\ active' = FALSE
  /\ activeUsed' = UsedBefore
  /\ UNCHANGED <<live, size, queueVars, bufVars, allocd, offset, poolSize,
                 mapVars, call>>

\* The client's init_buffer callback succeeds: b becomes the latest.
InitBuffer(g, b) ==
  /\ call = Doing("init", g, b)
  /\ history' = [history EXCEPT ![g] = Append(Purged(@, b), b)]
  /\ call' = Idle
  /\ UNCHANGED <<live, size, num, unused, inuse, bufVars, poolVars, mapVars,
                 activeUsed>>

\* It fails: smm_acquire releases the buffer and returns NULL.
InitBufferFails(g, b) ==
  /\ call = Doing("init", g, b)
  /\ "init_buffer" \in Faults
  /\ call' = Doing("release", g, b)
  /\ UNCHANGED <<live, size, queueVars, bufVars, poolVars, mapVars, activeUsed>>

----------------------------------------------------------------------------
(* smm_map *)

\* Mutant of Map: the mark is cleared although mmap failed.
MapForgets(b) ==
  /\ call.op \in {"idle", "init"}
  /\ owner[b] # NoGroup
  /\ outdated
  /\ outdated' = FALSE
  /\ \/ mapped' = TRUE /\ mapSize' = poolSize
     \/ "mmap" \in Faults /\ mapped' = FALSE /\ UNCHANGED mapSize
  /\ UNCHANGED <<live, size, queueVars, bufVars, poolVars, activeUsed, call>>

\* An outdated mapping is replaced by one of the pool's current size; the
\* client may map from its init_buffer callback too.
Map(b) ==
  /\ call.op \in {"idle", "init"}
  /\ owner[b] # NoGroup
  /\ outdated
  /\ \/ mapped' = TRUE /\ mapSize' = poolSize /\ outdated' = FALSE
     \/ /\ "mmap" \in Faults
        /\ mapped' = FALSE
        /\ UNCHANGED <<mapSize, outdated>>
  /\ UNCHANGED <<live, size, queueVars, bufVars, poolVars, activeUsed, call>>

----------------------------------------------------------------------------
(* return_to_pool: b becomes a hole, and is merged with the hole after it  *)
(* and into the hole before it; a pool that is one hole is freed.  `flags` *)
(* is group_resized as the caller leaves it.                               *)

\* Mutant of Merged: b is not merged into the hole before it.
MergedNext(b) ==
  LET i == IndexOf(b)
  IN  IF i < Len(allocd) /\ IsFree(i + 1) THEN RemoveAt(allocd, i + 1)
                                          ELSE allocd

Merged(b) ==
  LET i    == IndexOf(b)
      rest == IF i < Len(allocd) /\ IsFree(i + 1)
                THEN RemoveAt(allocd, i + 1) ELSE allocd
  IN  IF i > 1 /\ IsFree(i - 1) THEN RemoveAt(rest, i) ELSE rest

\* Mutant of Reclaimed: what the group would acquire now.
ReclaimedNow(b) == size[owner[b]]

\* What the pool's usage statistic loses with b.
Reclaimed(b) == SizeAt(IndexOf(b))

ReturnToPool(b, flags) ==
  LET g    == owner[b]
      rest == Merged(b)
      kept == IF Len(rest) = 1 THEN <<>> ELSE rest
      gone == ToSet(allocd) \ ToSet(kept)
  IN  /\ num' = [num EXCEPT ![g] = (@ - 1) % NumRange]
      /\ history' = [history EXCEPT ![g] = Purged(@, b)]
      /\ owner' = [owner EXCEPT ![b] = NoGroup]
      /\ activeUsed' = (activeUsed - Reclaimed(b)) % SizeRange
      /\ allocd' = kept
      /\ offset' = [c \in Bufs |-> IF c \in gone THEN 0 ELSE offset[c]]
      /\ resized' = [c \in Bufs |-> c \notin gone /\ flags[c]]
      /\ IF kept = <<>>
           THEN /\ active' = FALSE /\ poolSize' = 0
                /\ mapped' = FALSE /\ mapSize' = 0 /\ outdated' = FALSE
           ELSE UNCHANGED <<active, poolSize, mapVars>>

----------------------------------------------------------------------------
(* smm_release *)

\* A buffer that was in use when its group was resized goes back to the
\* pool; any other joins the unused queue, which is then trimmed.
Release(g, b) ==
  /\ call = Idle \/ call = Doing("release", g, b)
  /\ b \in inuse[g]
  /\ inuse' = [inuse EXCEPT ![g] = @ \ {b}]
  /\ IF resized[b]
       THEN /\ ReturnToPool(b, [resized EXCEPT ![b] = FALSE])
            /\ call' = Idle
            /\ UNCHANGED unused
       ELSE /\ unused' = [unused EXCEPT ![g] = Append(@, b)]
            /\ call' = Doing("trim", g, NoBuf)
            /\ UNCHANGED <<num, history, bufVars, poolVars, mapVars, activeUsed>>
  /\ UNCHANGED <<live, size>>

\* The head of the unused queue goes back to the pool.
ReturnUnused(g) ==
  /\ unused[g] # <<>>
  /\ unused' = [unused EXCEPT ![g] = Tail(@)]
  /\ ReturnToPool(Head(unused[g]), resized)
  /\ UNCHANGED <<live, size, inuse, call>>

\* Mutant of Trimming: one buffer too many.
TrimmingLate(g) == num[g] > PreferNumBuffers + 1 /\ unused[g] # <<>>

Trimming(g) == num[g] > PreferNumBuffers /\ unused[g] # <<>>

Trim(g) ==
  /\ call = Doing("trim", g, NoBuf)
  /\ Trimming(g)
  /\ ReturnUnused(g)

\* Mutant of TrimDone: the loop ends only with an empty queue.
TrimDoneEmpty(g) ==
  /\ call = Doing("trim", g, NoBuf)
  /\ ~Trimming(g) /\ unused[g] = <<>>
  /\ call' = Idle
  /\ UNCHANGED <<live, size, queueVars, bufVars, poolVars, mapVars, activeUsed>>

TrimDone(g) ==
  /\ call = Doing("trim", g, NoBuf)
  /\ ~Trimming(g)
  /\ call' = Idle
  /\ UNCHANGED <<live, size, queueVars, bufVars, poolVars, mapVars, activeUsed>>

----------------------------------------------------------------------------
(* smm_resize *)

Resize(g, sz) ==
  /\ call = Idle /\ g \in live
  /\ size' = [size EXCEPT ![g] = RoundUp(sz, PageSize)]
  /\ call' = Doing("resize", g, NoBuf)
  /\ UNCHANGED <<live, queueVars, bufVars, poolVars, mapVars, activeUsed>>

ResizeUnused(g) ==
  /\ call = Doing("resize", g, NoBuf)
  /\ ReturnUnused(g)

\* Mutants of ResizeInUse: the history is kept; unused buffers are kept.
ResizeInUseKept(g) ==
  /\ call = Doing("resize", g, NoBuf)
  /\ unused[g] = <<>>
  /\ resized' = [b \in Bufs |-> b \in inuse[g] \/ resized[b]]
  /\ call' = Idle
  /\ UNCHANGED <<live, size, queueVars, owner, poolVars, mapVars, activeUsed>>

ResizeInUseEarly(g) ==
  /\ call = Doing("resize", g, NoBuf)
  /\ resized' = [b \in Bufs |-> b \in inuse[g] \/ resized[b]]
  /\ call' = Idle
  /\ UNCHANGED <<live, size, queueVars, owner, poolVars, mapVars, activeUsed>>

\* The buffers in use are marked, and leave the history with all that is
\* older than the last of them.
ResizeInUse(g) ==
  /\ call = Doing("resize", g, NoBuf)
  /\ unused[g] = <<>>
  /\ resized' = [b \in Bufs |-> b \in inuse[g] \/ resized[b]]
  /\ \E n \in 0 .. Len(history[g]) :
       /\ n > 0 => history[g][n] \in inuse[g]
       /\ \A i \in (n + 1) .. Len(history[g]) : history[g][i] \notin inuse[g]
       /\ history' =
            [history EXCEPT ![g] = SubSeq(@, n + 1, Len(history[g]))]
  /\ call' = Idle
  /\ UNCHANGED <<live, size, num, unused, inuse, owner, poolVars, mapVars,
                 activeUsed>>

----------------------------------------------------------------------------
(* smm_create, smm_destroy and smm_deinit *)

Create(g) ==
  /\ call = Idle /\ g \notin live
  /\ live' = live \cup {g}
  /\ size' = [size EXCEPT ![g] = PageSize]
  /\ num' = [num EXCEPT ![g] = 0]
  /\ unused' = [unused EXCEPT ![g] = <<>>]
  /\ inuse' = [inuse EXCEPT ![g] = {}]
  /\ history' = [history EXCEPT ![g] = <<>>]
  /\ UNCHANGED <<bufVars, poolVars, mapVars, activeUsed, call>>

Destroy(g) ==
  /\ call = Idle /\ g \in live
  /\ call' = Doing("destroy", g, NoBuf)
  /\ UNCHANGED <<live, size, queueVars, bufVars, poolVars, mapVars, activeUsed>>

\* smm_deinit destroys every group.
Deinit ==
  /\ call = Idle
  /\ \E g \in live : call' = Doing("deinit", g, NoBuf)
  /\ UNCHANGED <<live, size, queueVars, bufVars, poolVars, mapVars, activeUsed>>

Destroying(g) ==
  call \in {Doing("destroy", g, NoBuf), Doing("deinit", g, NoBuf)}

DestroyUnused(g) ==
  /\ Destroying(g)
  /\ ReturnUnused(g)

\* Buffers still in use are returned too, whatever their group_resized.
DestroyInUse(g, b) ==
  /\ Destroying(g)
  /\ unused[g] = <<>>
  /\ b \in inuse[g]
  /\ inuse' = [inuse EXCEPT ![g] = @ \ {b}]
  /\ ReturnToPool(b, resized)
  /\ UNCHANGED <<live, size, unused, call>>

DestroyDone(g) ==
  /\ Destroying(g)
  /\ unused[g] = <<>> /\ inuse[g] = {}
  /\ live' = live \ {g}
  /\ \/ /\ call.op = "destroy" \/ live = {g}
        /\ call' = Idle
     \/ /\ call.op = "deinit"
        /\ \E next \in live \ {g} : call' = Doing("deinit", next, NoBuf)
  /\ size' = [size EXCEPT ![g] = PageSize]
  /\ UNCHANGED <<queueVars, bufVars, poolVars, mapVars, activeUsed>>

----------------------------------------------------------------------------

Init ==
  /\ live = {}
  /\ size = [g \in Groups |-> PageSize]
  /\ num = [g \in Groups |-> 0]
  /\ unused = [g \in Groups |-> <<>>]
  /\ inuse = [g \in Groups |-> {}]
  /\ history = [g \in Groups |-> <<>>]
  /\ owner = [b \in Bufs |-> NoGroup]
  /\ resized = [b \in Bufs |-> FALSE]
  /\ offset = [b \in Bufs |-> 0]
  /\ allocd = <<>>
  /\ active = FALSE
  /\ poolSize = 0
  /\ mapped = FALSE
  /\ mapSize = 0
  /\ outdated = FALSE
  /\ activeUsed = 0
  /\ call = Idle

\* A step of the call in progress.
Proceed ==
  \/ \E g \in Groups :
       \/ Trim(g) \/ TrimDone(g)
       \/ ResizeUnused(g) \/ ResizeInUse(g)
       \/ DestroyUnused(g) \/ DestroyDone(g)
  \/ \E g \in Groups, b \in Bufs :
       \/ InitBuffer(g, b) \/ InitBufferFails(g, b)
       \/ DestroyInUse(g, b)
       \/ call # Idle /\ Release(g, b)

\* The client calls the manager.
Calls ==
  \/ Deinit
  \/ \E g \in Groups :
       \/ Create(g) \/ Destroy(g)
       \/ AcquireUnused(g) \/ AcquireFromPool(g)
       \/ AcquireRefused(g) \/ AcquireFails(g)
  \/ \E g \in Groups, sz \in Requests : Resize(g, sz)
  \/ \E g \in Groups, b \in Bufs : call = Idle /\ Release(g, b)
  \/ \E b \in Bufs : Map(b)

Next == Calls \/ Proceed

Spec == Init /\ [][Next]_vars

\* The loops of the manager run without waiting for anything, and the
\* client's callbacks return.
FairSpec == Spec /\ WF_vars(Proceed)

----------------------------------------------------------------------------
(* Properties *)

Owned(g) == {b \in Bufs : owner[b] = g}

\* The extent of pool memory behind b, which is linked in the pool.
Extent(b) == SizeAt(IndexOf(b))

\* The type invariant: every variable has the values its C type and its use
\* in smm.c allow; a call in progress is the call of a live group.
TypeOK ==
  /\ live \subseteq Groups
  /\ size \in [Groups -> Nat \ {0}]
  /\ num \in [Groups -> 0 .. (NumRange - 1)]
  /\ unused \in [Groups -> Seq(Bufs)]
  /\ inuse \in [Groups -> SUBSET Bufs]
  /\ history \in [Groups -> Seq(Bufs)]
  /\ owner \in [Bufs -> Groups \cup {NoGroup}]
  /\ resized \in [Bufs -> BOOLEAN]
  /\ offset \in [Bufs -> Nat]
  /\ allocd \in Seq(Bufs)
  /\ active \in BOOLEAN
  /\ poolSize \in Nat
  /\ mapped \in BOOLEAN
  /\ mapSize \in Nat
  /\ outdated \in BOOLEAN
  /\ activeUsed \in 0 .. (SizeRange - 1)
  /\ call \in [op : Ops, grp : Groups \cup {NoGroup}, buf : Bufs \cup {NoBuf}]

\* The buffers of a list tile the memory below top: the first starts at 0,
\* each of them before all that follow it and before top.
Tiles(list, off, top) ==
  /\ \A i, j \in 1 .. Len(list) : i < j => off[list[i]] < off[list[j]]
  /\ \A i \in 1 .. Len(list) : off[list[i]] < top
  /\ IF Len(list) = 0 THEN top = 0 ELSE off[list[1]] = 0

\* The buffers of the pool tile it, in the order of its list, so every extent
\* that calc_buffer_size computes is positive and no two overlap.  The search
\* of get_from_pool and the merging of return_to_pool rest on this.
PoolTiled ==
  /\ Tiles(allocd, offset, poolSize)
  /\ allocd # <<>> => active

\* A buffer is in exactly one of the two queues of exactly the group that
\* owns it, a group that is not destroyed; what is owned is in the pool.
QueuesMatchOwner ==
  /\ \A g \in Groups :
       /\ IsInjective(unused[g])
       /\ ToSet(unused[g]) \cap inuse[g] = {}
       /\ ToSet(unused[g]) \cup inuse[g] = Owned(g)
       /\ g \notin live => Owned(g) = {}
  /\ \A b \in Bufs : owner[b] # NoGroup => b \in ToSet(allocd)

\* num_buffers, which limits a group, counts the buffers that it owns.
CountsOwned == \A g \in Groups : num[g] = Cardinality(Owned(g))

\* A buffer of a group that was not marked by smm_resize has room for the
\* group's size; unless a split failed for want of a struct smm_buffer, it
\* has that size exactly.
OwnedFits ==
  \A g \in Groups : call # Doing("resize", g, NoBuf) =>
    \A b \in Owned(g) : ~resized[b] =>
      /\ Extent(b) >= size[g]
      /\ "alloc_buffer" \notin Faults => Extent(b) = size[g]

\* What smm_latest and smm_next return belongs to the group and has the
\* group's present size, once and for all resizes: the client copies between
\* these buffers as between equals.
HistoryCurrent ==
  \A g \in Groups :
    /\ IsInjective(history[g])
    /\ ToSet(history[g]) \subseteq Owned(g)
    /\ call # Doing("resize", g, NoBuf) =>
         \A b \in ToSet(history[g]) :
           /\ Extent(b) >= size[g]
           /\ "alloc_buffer" \notin Faults => Extent(b) = size[g]

\* smm_map never hands out a mapping that ends before the buffer: a pool
\* with buffers that is not marked outdated is mapped as large as it is, and
\* nothing stays mapped when the pool is gone.
MapCoversPool ==
  /\ allocd # <<>> /\ ~outdated => mapped /\ mapSize = poolSize
  /\ mapped => active

\* Between calls a group holds more buffers than it prefers only while the
\* client has all of them in use.
PreferredCount ==
  call = Idle =>
    \A g \in Groups : num[g] > PreferNumBuffers => unused[g] = <<>>

\* As long as the new_buffer callback succeeds, holes are merged with their
\* neighbours and the pool is freed with its last owned buffer.
Coalesced ==
  /\ \A i \in 1 .. (Len(allocd) - 1) : ~(IsFree(i) /\ IsFree(i + 1))
  /\ allocd # <<>> => \E i \in DOMAIN allocd : ~IsFree(i)

\* active_used is the memory that groups own in the active pool.
UsageStatistic ==
  active =>
    activeUsed
      = MapThenSumSet(Extent, {b \in Bufs : owner[b] # NoGroup}) % SizeRange

\* Every call of the manager returns: its loops end, also when they return
\* buffers while they walk the queues.
CallsReturn == (call # Idle) ~> (call = Idle)

\* To its clients the manager is a grant of disjoint extents of memory: see
\* module Extents.
Granted ==
  [b \in {c \in Bufs : owner[c] # NoGroup} |->
     [grp |-> owner[b], first |-> offset[b], len |-> Extent(b)]]

Grants == INSTANCE Extents WITH granted <- Granted

ImplementsExtents == Grants!Spec

\* smm_release says of a buffer with group_resized set: "Buffer group was
\* resized while this buffer was in-use".  So a buffer that a group has just
\* got from the pool is not marked.
FreshBufferUnmarked ==
  [][\A b \in Bufs :
       owner[b] = NoGroup /\ owner'[b] # NoGroup => ~resized'[b]]_vars

============================================================================
