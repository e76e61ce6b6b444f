--------------------------- MODULE SmmGroupProofs ---------------------------
(***************************************************************************)
(* What a group of the shared-memory buffer manager may rely on, for every *)
(* set of groups, buffers, request sizes and faults: the buffers it gets   *)
(* and those it remembers have room for its size, the mapping it draws in  *)
(* covers them, and its counter counts them.                               *)
(*                                                                         *)
(* OwnedFits and HistoryCurrent are not inductive one by one.  A buffer    *)
(* enters the history after it was taken from the unused queue or from the *)
(* pool and after a callback, so the invariant speaks of the queue, of the *)
(* history and of the buffer in the client's hands together.               *)
(*                                                                         *)
(* The limit of a group is enforced when a call ends, so during a call its *)
(* invariant says which call excuses a group that has more.  That no two   *)
(* holes are adjacent needs the same of the places before, at and after    *)
(* the one that a call takes, returns or splits.                           *)
(*                                                                         *)
(* The statistic of the pool's use is a sum over a set, which the library  *)
(* folds in an order that is not known.  That the order does not matter    *)
(* comes first, and then how the sum changes with the buffer that a group  *)
(* gains or loses.                                                         *)
(***************************************************************************)
EXTENDS SmmProofs, FiniteSetTheorems, WellFoundedInduction

----------------------------------------------------------------------------
(* The end of a sequence *)

\* The elements of a sequence from a place on.
LEMMA RestOf ==
  ASSUME NEW h \in Seq(Bufs), NEW n \in 0 .. Len(h)
  PROVE  /\ SubSeq(h, n + 1, Len(h)) \in Seq(Bufs)
         /\ \A b \in ToSet(SubSeq(h, n + 1, Len(h))) :
              \E i \in (n + 1) .. Len(h) : h[i] = b
         /\ IsInjective(h) => IsInjective(SubSeq(h, n + 1, Len(h)))
<1> DEFINE t == SubSeq(h, n + 1, Len(h))
           len == Len(h)
<1>1. len \in Nat /\ DOMAIN h = 1 .. len /\ \A i \in 1 .. len : h[i] \in Bufs
  BY EmptyList
<1>2. \A i \in (n + 1) .. len : i \in 1 .. len
  BY <1>1
<1>3. /\ t \in Seq(Bufs)
      /\ Len(t) = IF n + 1 <= len THEN len - (n + 1) + 1 ELSE 0
      /\ \A i \in 1 .. (len - (n + 1) + 1) : t[i] = h[(n + 1) + i - 1]
  BY <1>1, <1>2, SubSeqProperties
<1>4. n \in 0 .. len
  OBVIOUS
<1> HIDE DEF t, len
<1>5. Len(t) = len - n
  BY <1>1, <1>3, <1>4
<1>6. \A i \in 1 .. (len - n) : i + n \in (n + 1) .. len /\ t[i] = h[i + n]
  <2>1. ASSUME NEW i \in 1 .. (len - n)
        PROVE  i + n \in (n + 1) .. len /\ t[i] = h[i + n]
    <3>1. /\ i \in 1 .. (len - (n + 1) + 1) /\ (n + 1) + i - 1 = i + n
          /\ i + n \in (n + 1) .. len
      BY <1>1, <1>4
    <3>2. t[i] = h[(n + 1) + i - 1]
      BY <1>3, <3>1
    <3>3. QED  BY <3>1, <3>2
  <2>2. QED  BY <2>1
<1>7. \A b \in ToSet(t) : \E i \in (n + 1) .. len : h[i] = b
  <2>1. \A b \in ToSet(t) : \E i \in 1 .. (len - n) : t[i] = b
    BY <1>3, <1>5, EmptyList
  <2>2. QED  BY <2>1, <1>6
<1>8. IsInjective(h) => IsInjective(t)
  <2>1. DOMAIN t = 1 .. (len - n)
    BY <1>3, <1>5, EmptyList
  <2>2. ASSUME IsInjective(h), NEW i \in 1 .. (len - n), NEW j \in 1 .. (len - n),
               t[i] = t[j]
        PROVE  i = j
    <3>1. i + n \in 1 .. len /\ j + n \in 1 .. len /\ h[i + n] = h[j + n]
      BY <2>2, <1>2, <1>6
    <3>2. i + n = j + n
      BY <2>2, <3>1, <1>1 DEF IsInjective
    <3>3. QED  BY <3>2, <1>1, <1>4
  <2>3. QED  BY <2>1, <2>2 DEF IsInjective
<1>9. QED  BY <1>3, <1>7, <1>8 DEF t, len

\* purge_history keeps a part of the history, without the buffer itself.
LEMMA PurgedSet ==
  ASSUME NEW h \in Seq(Bufs), IsInjective(h), NEW b
  PROVE  /\ Purged(h, b) \in Seq(Bufs) /\ IsInjective(Purged(h, b))
         /\ ToSet(Purged(h, b)) \subseteq ToSet(h) \ {b}
<1>1. CASE b \in ToSet(h)
  <2> DEFINE k == CHOOSE i \in DOMAIN h : h[i] = b
  <2>1. DOMAIN h = 1 .. Len(h) /\ Len(h) \in Nat
    BY EmptyList
  <2>2. \E i \in DOMAIN h : h[i] = b
    BY <1>1, <2>1, EmptyList
  <2>3. k \in DOMAIN h /\ h[k] = b
    BY <2>2
  <2>4. Purged(h, b) = SubSeq(h, k + 1, Len(h))
    BY <1>1 DEF Purged
  <2> HIDE DEF k
  <2>5. k \in 0 .. Len(h)
    BY <2>1, <2>3
  <2>6. /\ Purged(h, b) \in Seq(Bufs) /\ IsInjective(Purged(h, b))
        /\ \A c \in ToSet(Purged(h, b)) : \E i \in (k + 1) .. Len(h) : h[i] = c
    BY <2>4, <2>5, RestOf
  <2>7. ASSUME NEW i \in (k + 1) .. Len(h)
        PROVE  h[i] \in ToSet(h) \ {b}
    <3>1. i \in DOMAIN h /\ i # k
      BY <2>1, <2>5, <2>3
    <3>2. h[i] # b
      BY <3>1, <2>3 DEF IsInjective
    <3>3. QED  BY <3>1, <3>2, <2>1, EmptyList
  <2>8. QED  BY <2>6, <2>7
<1>2. CASE b \notin ToSet(h)
  BY <1>2 DEF Purged
<1>3. QED  BY <1>1, <1>2

----------------------------------------------------------------------------
(* The mapping *)

\* Only a pool with buffers is ever mapped.
MapIInv == IInv /\ MapCoversPool /\ (mapped => allocd # <<>>)

\* return_to_pool unmaps a pool that it frees, and leaves any other alone.
LEMMA ReturnMapped ==
  ASSUME MapIInv, NEW b \in OwnedBufs, NEW flags \in [Bufs -> BOOLEAN],
         ReturnToPool(b, flags), PoolTiled'
  PROVE  MapCoversPool' /\ (mapped' => allocd' # <<>>)
<1> DEFINE m    == Merged(b)
           kept == IF Len(m) = 1 THEN <<>> ELSE m
<1>1. /\ allocd' = kept
      /\ IF kept = <<>>
           THEN /\ active' = FALSE /\ poolSize' = 0
                /\ mapped' = FALSE /\ mapSize' = 0 /\ outdated' = FALSE
           ELSE UNCHANGED <<active, poolSize, mapVars>>
  BY DEF ReturnToPool
<1>2. allocd # <<>>
  <2>1. b \in ToSet(allocd)
    BY DEF MapIInv, IInv, QueuesMatchOwner, OwnedBufs
  <2>2. QED  BY <2>1 DEF ToSet
<1> HIDE DEF kept
<1>3. CASE kept = <<>>
  BY <1>1, <1>3, Zenon DEF MapCoversPool
<1>4. CASE kept # <<>>
  BY <1>1, <1>2, <1>4 DEF MapIInv, MapCoversPool, mapVars
<1>5. QED  BY <1>3, <1>4

\* The steps that change neither the list of the pool nor its mapping.
LEMMA MappingUntouched ==
  ASSUME MapIInv, UNCHANGED <<allocd, active, poolSize, mapVars>>
  PROVE  MapCoversPool' /\ (mapped' => allocd' # <<>>)
  BY DEF MapIInv, MapCoversPool, mapVars

\* get_from_pool marks the mapping of a pool that it expands.
LEMMA PlaceMapped ==
  ASSUME MapIInv, NEW b \in Bufs, NEW sz \in Nat \ {0}, Place(b, sz),
         UNCHANGED <<mapped, mapSize>>, PoolTiled'
  PROVE  MapCoversPool' /\ (mapped' => allocd' # <<>>)
<1>1. /\ outdated' \/ (poolSize' = poolSize /\ outdated' = outdated)
      /\ outdated' \/ (allocd # <<>> /\ active' = active)
  BY DEF Place, PlaceExact, PlacePullBack, PlaceSplit, PlaceWhole, PlaceExtend,
         PlaceAppend, poolVars
<1>2. allocd' # <<>>
  <2>1. b \in ToSet(allocd')
    BY PlaceTiles, InvariantParts DEF MapIInv
  <2>2. QED  BY <2>1 DEF ToSet
<1>3. /\ allocd # <<>> /\ ~outdated => mapped /\ mapSize = poolSize
      /\ mapped' = mapped /\ mapSize' = mapSize /\ active'
  BY <1>2 DEF MapIInv, MapCoversPool, PoolTiled
<1>4. ~outdated' => poolSize' = poolSize /\ ~outdated /\ allocd # <<>>
  BY <1>1
<1>5. QED  BY <1>2, <1>3, <1>4 DEF MapCoversPool

\* A mapping that is not marked covers the pool in every state.
LEMMA MapInductive ==
  ASSUME MapIInv, [Next]_vars, IInv'
  PROVE  MapCoversPool' /\ (mapped' => allocd' # <<>>)
<1> DEFINE Goal == MapCoversPool' /\ (mapped' => allocd' # <<>>)
<1>0. /\ IInv /\ PoolTiled /\ PoolTiled' /\ resized \in [Bufs -> BOOLEAN]
      /\ size \in [Groups -> Nat \ {0}]
  BY DEF MapIInv, IInv, TypeOK
<1> SUFFICES Goal
  OBVIOUS
<1> HIDE DEF Goal
<1>1. ASSUME NEW g \in Groups, ReturnUnused(g)
      PROVE  Goal
  <2>1. Head(unused[g]) \in OwnedBufs
    BY <1>0, <1>1, QueuedOwned DEF ReturnUnused
  <2>2. QED  BY <1>0, <1>1, <2>1, ReturnMapped DEF ReturnUnused, Goal
<1>2. ASSUME NEW g \in Groups, NEW b \in Bufs, Release(g, b)
      PROVE  Goal
  <2>1. b \in OwnedBufs
    BY <1>0, <1>2, QueuedOwned DEF Release
  <2>2. CASE resized[b]
    <3>1. ReturnToPool(b, [resized EXCEPT ![b] = FALSE])
      BY <1>2, <2>2 DEF Release
    <3>2. QED  BY <1>0, <2>1, <3>1, ReturnMapped DEF Goal
  <2>3. CASE ~resized[b]
    <3>1. UNCHANGED <<allocd, active, poolSize, mapVars>>
      BY <1>2, <2>3 DEF Release, poolVars
    <3>2. QED  BY <3>1, MappingUntouched DEF Goal
  <2>4. QED  BY <2>2, <2>3
<1>3. ASSUME NEW g \in Groups, NEW b \in Bufs, DestroyInUse(g, b)
      PROVE  Goal
  <2>1. b \in OwnedBufs
    BY <1>0, <1>3, QueuedOwned DEF DestroyInUse
  <2>2. QED  BY <1>0, <1>3, <2>1, ReturnMapped DEF DestroyInUse, Goal
<1>4. ASSUME NEW g \in Groups, AcquireFromPool(g) \/ AcquireRefused(g)
      PROVE  Goal
  BY <1>0, <1>4, PlaceMapped DEF AcquireFromPool, AcquireRefused, Goal
<1>5. ASSUME NEW g \in Groups, AcquireFails(g)
      PROVE  Goal
  <2>1. UNCHANGED <<allocd, poolSize, mapVars>>
    BY <1>5 DEF AcquireFails
  <2>2. QED  BY <1>0, <2>1 DEF Goal, MapIInv, MapCoversPool, PoolTiled, mapVars
<1>6. ASSUME NEW b \in Bufs, Map(b)
      PROVE  Goal
  <2>1. allocd # <<>>
    <3>1. b \in ToSet(allocd)
      BY <1>0, <1>6 DEF Map, IInv, QueuesMatchOwner
    <3>2. QED  BY <3>1 DEF ToSet
  <2>2. QED  BY <1>0, <1>6, <2>1
             DEF Map, Goal, MapIInv, MapCoversPool, PoolTiled, poolVars
<1>7. ASSUME UNCHANGED <<poolVars, mapVars>>
      PROVE  Goal
  BY <1>7, MappingUntouched DEF Goal, poolVars
<1>8. CASE UNCHANGED vars
  BY <1>7, <1>8 DEF vars
<1>9. CASE Calls
  <2>1. ASSUME NEW g \in Groups, NEW sz,
               Create(g) \/ Destroy(g) \/ AcquireUnused(g) \/ Resize(g, sz)
        PROVE  Goal
    BY <1>7, <2>1 DEF Create, Destroy, AcquireUnused, Resize
  <2>2. ASSUME Deinit
        PROVE  Goal
    BY <1>7, <2>2 DEF Deinit
  <2>3. QED  BY <1>2, <1>4, <1>5, <1>6, <1>9, <2>1, <2>2 DEF Calls
<1>10. CASE Proceed
  <2>1. ASSUME NEW g \in Groups,
               TrimDone(g) \/ ResizeInUse(g) \/ DestroyDone(g)
        PROVE  Goal
    BY <1>7, <2>1 DEF TrimDone, ResizeInUse, DestroyDone
  <2>2. ASSUME NEW g \in Groups, NEW b \in Bufs,
               InitBuffer(g, b) \/ InitBufferFails(g, b)
        PROVE  Goal
    BY <1>7, <2>2 DEF InitBuffer, InitBufferFails
  <2>3. QED  BY <1>1, <1>2, <1>3, <1>10, <2>1, <2>2
             DEF Proceed, Trim, ResizeUnused, DestroyUnused
<1>11. QED  BY <1>8, <1>9, <1>10 DEF Next

\* A pool that is not marked is mapped as large as it is, whenever a client
\* may ask for the mapping: smm_map never returns one that ends too early.
THEOREM MappingCoversPool == Spec => []MapCoversPool
<1>1. Init => MapCoversPool /\ (mapped => allocd # <<>>)
  BY DEF Init, MapCoversPool
<1>2. /\ IInv /\ IInv' /\ MapCoversPool /\ (mapped => allocd # <<>>) /\ [Next]_vars
      => MapCoversPool' /\ (mapped => allocd # <<>>)'
  BY MapInductive DEF MapIInv
<1>3. QED  BY <1>1, <1>2, Invariance, PTL DEF Spec

----------------------------------------------------------------------------
(* Room in what a group holds *)

\* A buffer has room for the size of a group: that very size, unless a split
\* can fail for want of a struct smm_buffer.
HasRoom(b, g) ==
  /\ Extent(b) >= size[g]
  /\ "alloc_buffer" \notin Faults => Extent(b) = size[g]

\* What a group may rely on.  While smm_resize walks its unused queue the old
\* buffers do not have the new size yet.
FitAt(g) ==
  /\ IsInjective(history[g]) /\ ToSet(history[g]) \subseteq Owned(g)
  /\ call # Doing("resize", g, NoBuf) =>
       /\ \A b \in Owned(g) : ~resized[b] => HasRoom(b, g)
       /\ \A b \in ToSet(unused[g]) \cup ToSet(history[g]) : HasRoom(b, g)
       /\ \A b \in Bufs :
            call = Doing("init", g, b) => b \in inuse[g] /\ HasRoom(b, g)

FitIInv == IInv /\ \A g \in Groups : FitAt(g)

\* A step that at most takes buffers away from a group, and moves none of
\* those that stay, leaves it what it may rely on.
LEMMA FitShrinks ==
  ASSUME NEW g \in Groups, FitAt(g),
         Owned(g)' \subseteq Owned(g), Undisturbed(Owned(g)'),
         size'[g] = size[g],
         \A b \in Owned(g)' : resized[b] => resized'[b],
         ToSet(unused'[g]) \subseteq ToSet(unused[g]) \cap Owned(g)',
         ToSet(history'[g]) \subseteq ToSet(history[g]) \cap Owned(g)',
         IsInjective(history'[g]),
         call = Doing("resize", g, NoBuf) => call' = Doing("resize", g, NoBuf),
         \A b \in Bufs : call' = Doing("init", g, b) =>
           call = Doing("init", g, b) /\ b \in inuse'[g] \cap Owned(g)'
  PROVE  FitAt(g)'
<1>1. \A b \in Owned(g)' : HasRoom(b, g) => HasRoom(b, g)'
  BY DEF HasRoom, Undisturbed
<1>2. CASE call' = Doing("resize", g, NoBuf)
  BY <1>2 DEF FitAt
<1>3. CASE call' # Doing("resize", g, NoBuf)
  <2>1. /\ \A b \in Owned(g) : ~resized[b] => HasRoom(b, g)
        /\ \A b \in ToSet(unused[g]) \cup ToSet(history[g]) : HasRoom(b, g)
        /\ \A b \in Bufs : call = Doing("init", g, b) => HasRoom(b, g)
    BY <1>3 DEF FitAt
  <2>2. \A b \in Owned(g)' : ~resized'[b] => HasRoom(b, g)'
    BY <1>1, <2>1
  <2>3. \A b \in ToSet(unused'[g]) \cup ToSet(history'[g]) : HasRoom(b, g)'
    BY <1>1, <2>1
  <2>4. \A b \in Bufs :
          call' = Doing("init", g, b) => b \in inuse'[g] /\ HasRoom(b, g)'
    BY <1>1, <2>1
  <2>5. QED  BY <2>2, <2>3, <2>4 DEF FitAt
<1>4. QED  BY <1>2, <1>3

\* A step that does not concern a group.
LEMMA FitElsewhere ==
  ASSUME NEW g \in Groups, FitAt(g), QueuesAt(g),
         \A b \in Bufs : owner'[b] = g <=> owner[b] = g,
         Undisturbed(Owned(g)),
         size'[g] = size[g], unused'[g] = unused[g], inuse'[g] = inuse[g],
         history'[g] = history[g],
         \A b \in Owned(g) : resized[b] => resized'[b],
         call = Doing("resize", g, NoBuf) => call' = Doing("resize", g, NoBuf),
         \A b \in Bufs : call' = Doing("init", g, b) => call = Doing("init", g, b)
  PROVE  FitAt(g)'
<1>1. Owned(g)' = Owned(g)
  BY DEF Owned
<1>2. ToSet(unused[g]) \subseteq Owned(g) /\ inuse[g] \subseteq Owned(g)
  BY DEF QueuesAt
<1>3. ToSet(history[g]) \subseteq Owned(g) /\ IsInjective(history[g])
  BY DEF FitAt
<1>4. \A b \in Bufs : call' = Doing("init", g, b) => b \in inuse[g]
  BY DEF FitAt, Doing
<1>5. QED  BY <1>1, <1>2, <1>3, <1>4, FitShrinks

\* A buffer that goes back to the pool: its group forgets it and all that is
\* older, and no other buffer loses its room or its mark.
LEMMA ReturnFits ==
  ASSUME FitIInv, IInv', NEW g \in Groups, NEW b \in Bufs, owner[b] = g,
         NEW flags \in [Bufs -> BOOLEAN], ReturnToPool(b, flags),
         \A c \in Bufs : c # b /\ resized[c] => flags[c],
         ToSet(unused'[g]) \subseteq ToSet(unused[g]),
         \A h \in Groups \ {g} : unused'[h] = unused[h] /\ inuse'[h] = inuse[h],
         UNCHANGED size,
         \A h \in Groups : call = Doing("resize", h, NoBuf) => call' = call,
         \A h \in Groups, c \in Bufs : call' # Doing("init", h, c)
  PROVE  \A h \in Groups : FitAt(h)'
<1>1. /\ PoolTypes /\ PoolTiled /\ OwnedLinked /\ owner[b] # NoGroup
      /\ \A h \in Groups : QueuesAt(h) /\ FitAt(h)
      /\ history \in [Groups -> Seq(Bufs)]
      /\ owner \in [Bufs -> Groups \cup {NoGroup}]
      /\ NoGroup \notin Groups
  BY InvariantParts, GroupsAssumption DEF FitIInv, IInv, TypeOK
<1>2. /\ owner' = [owner EXCEPT ![b] = NoGroup]
      /\ history' = [history EXCEPT ![g] = Purged(@, b)]
  BY DEF ReturnToPool
<1>3. \A c \in Bufs : c # b /\ owner[c] # NoGroup =>
        /\ owner'[c] = owner[c] /\ offset'[c] = offset[c]
        /\ Extent(c)' = Extent(c)
  BY <1>1, <1>2, ReturnExtents
<1>4. \A c \in Bufs : c # b /\ owner[c] # NoGroup /\ resized[c] => resized'[c]
  <2> DEFINE kept == IF Len(Merged(b)) = 1 THEN <<>> ELSE Merged(b)
  <2>1. /\ allocd' = kept
        /\ resized' = [c \in Bufs |->
                         c \notin ToSet(allocd) \ ToSet(kept) /\ flags[c]]
    BY DEF ReturnToPool
  <2> HIDE DEF kept
  <2>2. \A c \in Bufs : c # b /\ owner[c] # NoGroup => c \in ToSet(kept)
    BY <1>3, <2>1 DEF IInv, QueuesMatchOwner
  <2>3. QED  BY <2>1, <2>2
<1>5. FitAt(g)'
  <2>1. Owned(g)' = Owned(g) \ {b}
    BY <1>1, <1>2 DEF Owned
  <2>2. \A c \in Owned(g) \ {b} : c \in Bufs /\ c # b /\ owner[c] # NoGroup
    BY <1>1 DEF Owned
  <2>3. Undisturbed(Owned(g)')
    BY <1>3, <2>1, <2>2 DEF Undisturbed
  <2>4. \A c \in Owned(g)' : resized[c] => resized'[c]
    BY <1>4, <2>1, <2>2
  <2>5. ToSet(unused'[g]) \subseteq Owned(g)'
    BY DEF IInv, QueuesMatchOwner
  <2>6. IsInjective(history[g]) /\ ToSet(history[g]) \subseteq Owned(g)
    BY <1>1 DEF FitAt
  <2>7. /\ IsInjective(history'[g])
        /\ ToSet(history'[g]) \subseteq ToSet(history[g]) \ {b}
    BY <1>1, <1>2, <2>6, PurgedSet
  <2>8. QED  BY <1>1, <2>1, <2>3, <2>4, <2>5, <2>6, <2>7, FitShrinks
<1>6. ASSUME NEW h \in Groups, h # g
      PROVE  FitAt(h)'
  <2>1. \A c \in Bufs : owner'[c] = h <=> owner[c] = h
    BY <1>1, <1>2, <1>6
  <2>2. \A c \in Owned(h) : c \in Bufs /\ c # b /\ owner[c] # NoGroup
    BY <1>1, <1>6 DEF Owned
  <2>3. Undisturbed(Owned(h))
    BY <1>3, <2>2 DEF Undisturbed
  <2>4. \A c \in Owned(h) : resized[c] => resized'[c]
    BY <1>4, <2>2
  <2>5. history'[h] = history[h]
    BY <1>1, <1>2, <1>6
  <2>6. QED  BY <1>1, <1>6, <2>1, <2>3, <2>4, <2>5, FitElsewhere
<1>7. QED  BY <1>5, <1>6

\* Steps that change a group's queues, history, size or mark no other group's.
LEMMA OthersFit ==
  ASSUME FitIInv, NEW g \in Groups,
         UNCHANGED <<owner, allocd, offset, poolSize>>,
         \A h \in Groups \ {g} :
           /\ size'[h] = size[h] /\ unused'[h] = unused[h]
           /\ inuse'[h] = inuse[h] /\ history'[h] = history[h]
           /\ call = Doing("resize", h, NoBuf) => call' = Doing("resize", h, NoBuf)
           /\ \A b \in Bufs : call' = Doing("init", h, b) => call = Doing("init", h, b),
         \A b \in Bufs : resized[b] => resized'[b]
  PROVE  \A h \in Groups \ {g} : FitAt(h)'
<1>1. ASSUME NEW h \in Groups \ {g}
      PROVE  FitAt(h)'
  <2>1. QueuesAt(h) /\ FitAt(h)
    BY InvariantParts DEF FitIInv
  <2>2. \A b \in Owned(h) : b \in Bufs
    BY DEF Owned
  <2>3. Undisturbed(Owned(h))
    BY ExtentOfPool DEF Undisturbed
  <2>4. QED  BY <2>1, <2>2, <2>3, FitElsewhere
<1>2. QED  BY <1>1

\* Steps that change nothing but the mapping and the call in progress.
LEMMA ControlFits ==
  ASSUME FitIInv,
         UNCHANGED <<size, owner, resized, allocd, offset, poolSize, unused,
                     inuse, history>>,
         \A h \in Groups :
           /\ call = Doing("resize", h, NoBuf) => call' = Doing("resize", h, NoBuf)
           /\ \A b \in Bufs : call' = Doing("init", h, b) => call = Doing("init", h, b)
  PROVE  \A h \in Groups : FitAt(h)'
<1>1. ASSUME NEW h \in Groups
      PROVE  FitAt(h)'
  <2>1. QueuesAt(h) /\ FitAt(h)
    BY InvariantParts DEF FitIInv
  <2>2. Undisturbed(Owned(h))
    BY ExtentOfPool DEF Undisturbed
  <2>3. QED  BY <2>1, <2>2, FitElsewhere
<1>2. QED  BY <1>1

\* Two calls in progress are the same only if all that they name is.
LEMMA DoingApart ==
  ASSUME NEW o1, NEW g1, NEW b1, NEW o2, NEW g2, NEW b2
  PROVE  /\ Doing(o1, g1, b1) = Doing(o2, g2, b2) => o1 = o2 /\ g1 = g2 /\ b1 = b2
         /\ Idle = Doing(o1, g1, b1) => o1 = "idle"
  BY DEF Doing, Idle

\* smm_acquire, from the unused queue.
LEMMA AcquireUnusedFits ==
  ASSUME FitIInv, NEW g \in Groups, AcquireUnused(g)
  PROVE  \A h \in Groups : FitAt(h)'
<1> DEFINE b == Head(unused[g])
<1>1. /\ call = Idle /\ unused[g] # <<>>
      /\ unused' = [unused EXCEPT ![g] = Tail(@)]
      /\ inuse' = [inuse EXCEPT ![g] = @ \cup {b}]
      /\ call' = Doing("init", g, b)
      /\ UNCHANGED <<size, history, owner, resized, allocd, offset, poolSize>>
  BY DEF AcquireUnused, bufVars, poolVars
<1>2. /\ FitAt(g) /\ QueuesAt(g)
      /\ unused \in [Groups -> Seq(Bufs)] /\ inuse \in [Groups -> SUBSET Bufs]
  BY InvariantParts DEF FitIInv, IInv, TypeOK
<1>3. b \in ToSet(unused[g]) /\ ToSet(Tail(unused[g])) \subseteq ToSet(unused[g])
  BY <1>1, <1>2, Dequeued DEF QueuesAt
<1>4. unused'[g] = Tail(unused[g]) /\ inuse'[g] = inuse[g] \cup {b}
  BY <1>1, <1>2
<1> HIDE DEF b
<1>5. FitAt(g)'
  <2>1. call # Doing("resize", g, NoBuf)
    BY <1>1, DoingApart
  <2>2. \A c : HasRoom(c, g)' <=> HasRoom(c, g)
    BY <1>1, ExtentOfPool DEF HasRoom
  <2>3. Owned(g)' = Owned(g)
    BY <1>1 DEF Owned
  <2>4. \A c \in Bufs : call' = Doing("init", g, c) => c = b
    BY <1>1, DoingApart
  <2>5. HasRoom(b, g) /\ b \in inuse'[g]
    BY <1>2, <1>3, <1>4, <2>1 DEF FitAt
  <2>6. /\ \A c \in Owned(g) : ~resized[c] => HasRoom(c, g)
        /\ \A c \in ToSet(unused[g]) \cup ToSet(history[g]) : HasRoom(c, g)
        /\ IsInjective(history[g]) /\ ToSet(history[g]) \subseteq Owned(g)
    BY <1>2, <2>1 DEF FitAt
  <2>7. history' = history /\ resized' = resized
    BY <1>1
  <2>8. QED  BY <1>3, <1>4, <2>2, <2>3, <2>4, <2>5, <2>6, <2>7 DEF FitAt
<1>6. ASSUME NEW h \in Groups \ {g}
      PROVE  /\ unused'[h] = unused[h] /\ inuse'[h] = inuse[h]
             /\ call # Doing("resize", h, NoBuf)
             /\ \A c \in Bufs : call' # Doing("init", h, c)
  BY <1>1, <1>2, DoingApart
<1>7. \A h \in Groups \ {g} : FitAt(h)'
  BY <1>1, <1>6, OthersFit
<1>8. QED  BY <1>5, <1>7

\* smm_acquire, from the pool: get_from_pool found the room asked for.
LEMMA AcquireFromPoolFits ==
  ASSUME FitIInv, NEW g \in Groups, AcquireFromPool(g)
  PROVE  \A h \in Groups : FitAt(h)'
<1>1. PICK b \in Bufs :
        /\ Place(b, size[g])
        /\ owner' = [owner EXCEPT ![b] = g]
        /\ inuse' = [inuse EXCEPT ![g] = @ \cup {b}]
        /\ call' = Doing("init", g, b)
  BY DEF AcquireFromPool
<1>2. call = Idle /\ UNCHANGED <<size, unused, history, resized>>
  BY DEF AcquireFromPool
<1>3. /\ PoolTypes /\ PoolTiled /\ OwnedLinked /\ size[g] \in Sizes
      /\ \A h \in Groups : FitAt(h) /\ QueuesAt(h)
      /\ inuse \in [Groups -> SUBSET Bufs]
      /\ owner \in [Bufs -> Groups \cup {NoGroup}] /\ NoGroup \notin Groups
  BY InvariantParts, GroupsAssumption DEF FitIInv, IInv, TypeOK, Sizes
<1>4. owner[b] = NoGroup
  BY <1>1, <1>3, PlaceTiles DEF Sizes
<1>5. /\ \A c \in Bufs : owner[c] # NoGroup =>
           offset'[c] = offset[c] /\ Extent(c)' = Extent(c)
      /\ Extent(b)' >= size[g]
      /\ "alloc_buffer" \notin Faults => Extent(b)' = size[g]
  BY <1>1, <1>3, PlaceExtents
<1>6. \A h \in Groups : \A c \in Owned(h) :
        /\ c \in Bufs /\ owner[c] # NoGroup /\ c # b
        /\ owner'[c] = owner[c]
  BY <1>1, <1>3, <1>4 DEF Owned
<1>7. \A h \in Groups : Undisturbed(Owned(h))
  BY <1>5, <1>6 DEF Undisturbed
<1>8. \A h \in Groups : call # Doing("resize", h, NoBuf)
  BY <1>2, DoingApart
<1>9. FitAt(g)'
  <2>1. HasRoom(b, g)'
    BY <1>2, <1>5 DEF HasRoom
  <2>2. Owned(g)' = Owned(g) \cup {b}
    BY <1>1, <1>3 DEF Owned
  <2>3. \A c \in Owned(g) : HasRoom(c, g)' <=> HasRoom(c, g)
    BY <1>2, <1>7 DEF HasRoom, Undisturbed
  <2>4. /\ \A c \in Owned(g) : ~resized[c] => HasRoom(c, g)
        /\ \A c \in ToSet(unused[g]) \cup ToSet(history[g]) : HasRoom(c, g)
        /\ IsInjective(history[g]) /\ ToSet(history[g]) \subseteq Owned(g)
    BY <1>3, <1>8 DEF FitAt
  <2>5. ToSet(unused[g]) \subseteq Owned(g)
    BY <1>3 DEF QueuesAt
  <2>6. \A c \in Bufs : call' = Doing("init", g, c) => c = b
    BY <1>1, DoingApart
  <2>7. b \in inuse'[g]
    BY <1>1, <1>3
  <2>8. UNCHANGED <<unused, history, resized>>
    BY <1>2
  <2>9. QED  BY <2>1, <2>2, <2>3, <2>4, <2>5, <2>6, <2>7, <2>8 DEF FitAt
<1>10. ASSUME NEW h \in Groups, h # g
       PROVE  FitAt(h)'
  <2>1. \A c \in Bufs : owner'[c] = h <=> owner[c] = h
    BY <1>1, <1>3, <1>4, <1>10
  <2>2. inuse'[h] = inuse[h]
    BY <1>1, <1>3, <1>10
  <2>3. \A c \in Bufs : call' # Doing("init", h, c)
    BY <1>1, <1>10, DoingApart
  <2>4. UNCHANGED <<size, unused, history, resized>>
    BY <1>2
  <2>5. QED  BY <1>3, <1>7, <1>8, <2>1, <2>2, <2>3, <2>4, FitElsewhere
<1>11. QED  BY <1>9, <1>10

\* smm_acquire, refused by the new_buffer callback.
LEMMA AcquireRefusedFits ==
  ASSUME FitIInv, NEW g \in Groups, AcquireRefused(g)
  PROVE  \A h \in Groups : FitAt(h)'
<1>1. PICK b \in Bufs : Place(b, size[g])
  BY DEF AcquireRefused
<1>2. UNCHANGED <<size, unused, inuse, history, resized, owner, call>>
  BY DEF AcquireRefused, queueVars, bufVars
<1>3. /\ PoolTypes /\ PoolTiled /\ OwnedLinked /\ size[g] \in Sizes
      /\ \A h \in Groups : FitAt(h) /\ QueuesAt(h)
      /\ NoGroup \notin Groups
  BY InvariantParts, GroupsAssumption DEF FitIInv, IInv, TypeOK, Sizes
<1>4. \A c \in Bufs : owner[c] # NoGroup =>
        offset'[c] = offset[c] /\ Extent(c)' = Extent(c)
  BY <1>1, <1>3, PlaceExtents
<1>5. \A h \in Groups : Undisturbed(Owned(h))
  BY <1>2, <1>3, <1>4 DEF Undisturbed, Owned
<1>6. ASSUME NEW h \in Groups
      PROVE  FitAt(h)'
  <2>1. UNCHANGED <<size, unused, inuse, history, resized, owner, call>>
    BY <1>2
  <2>2. QED  BY <2>1, <1>3, <1>5, FitElsewhere
<1>7. QED  BY <1>6

\* smm_acquire, once the init_buffer callback has succeeded: the buffer that
\* it had in hand becomes the latest of the history.
LEMMA InitBufferFits ==
  ASSUME FitIInv, NEW g \in Groups, NEW b \in Bufs, InitBuffer(g, b)
  PROVE  \A h \in Groups : FitAt(h)'
<1>1. /\ call = Doing("init", g, b) /\ call' = Idle
      /\ history' = [history EXCEPT ![g] = Append(Purged(@, b), b)]
      /\ UNCHANGED <<size, unused, inuse, owner, resized, allocd, offset, poolSize>>
  BY DEF InitBuffer, bufVars, poolVars
<1>2. FitAt(g) /\ QueuesAt(g) /\ history \in [Groups -> Seq(Bufs)]
  BY InvariantParts DEF FitIInv, IInv, TypeOK
<1>3. call # Doing("resize", g, NoBuf)
  BY <1>1, DoingApart
<1>4. /\ b \in inuse[g] /\ HasRoom(b, g)
      /\ \A c \in Owned(g) : ~resized[c] => HasRoom(c, g)
      /\ \A c \in ToSet(unused[g]) \cup ToSet(history[g]) : HasRoom(c, g)
      /\ IsInjective(history[g]) /\ ToSet(history[g]) \subseteq Owned(g)
  BY <1>1, <1>2, <1>3 DEF FitAt
<1> DEFINE p == Purged(history[g], b)
<1>5. p \in Seq(Bufs) /\ IsInjective(p) /\ ToSet(p) \subseteq ToSet(history[g]) \ {b}
  BY <1>2, <1>4, PurgedSet
<1>6. history'[g] = Append(p, b)
  BY <1>1, <1>2
<1> HIDE DEF p
<1>7. IsInjective(history'[g]) /\ ToSet(history'[g]) = ToSet(p) \cup {b}
  <2>1. b \notin ToSet(p)
    BY <1>5
  <2>2. QED  BY <1>5, <1>6, <2>1, Enqueued
<1>8. FitAt(g)'
  <2>1. \A c : HasRoom(c, g)' <=> HasRoom(c, g)
    BY <1>1, ExtentOfPool DEF HasRoom
  <2>2. Owned(g)' = Owned(g)
    BY <1>1 DEF Owned
  <2>3. b \in Owned(g)
    BY <1>2, <1>4 DEF QueuesAt
  <2>4. \A c \in Bufs : call' # Doing("init", g, c)
    BY <1>1, DoingApart
  <2>5. UNCHANGED <<unused, resized>>
    BY <1>1
  <2>6. ToSet(history'[g]) \subseteq Owned(g)
    BY <1>4, <1>5, <1>7, <2>3
  <2>7. \A c \in ToSet(unused[g]) \cup ToSet(history'[g]) : HasRoom(c, g)
    BY <1>4, <1>5, <1>7
  <2>8. QED  BY <1>4, <1>7, <2>1, <2>2, <2>4, <2>5, <2>6, <2>7 DEF FitAt
<1>9. ASSUME NEW h \in Groups \ {g}
      PROVE  /\ history'[h] = history[h]
             /\ call # Doing("resize", h, NoBuf)
             /\ \A c \in Bufs : call' # Doing("init", h, c)
  BY <1>1, <1>2, DoingApart
<1>10. \A h \in Groups \ {g} : FitAt(h)'
  BY <1>1, <1>9, OthersFit
<1>11. QED  BY <1>8, <1>10

\* The loops that return the unused buffers of a group.
LEMMA ReturnUnusedFits ==
  ASSUME FitIInv, IInv', NEW g \in Groups, ReturnUnused(g),
         \A h \in Groups, c \in Bufs : call # Doing("init", h, c)
  PROVE  \A h \in Groups : FitAt(h)'
<1> DEFINE b == Head(unused[g])
<1>1. /\ unused[g] # <<>>
      /\ unused' = [unused EXCEPT ![g] = Tail(@)]
      /\ ReturnToPool(b, resized)
      /\ UNCHANGED <<size, inuse, call>>
  BY DEF ReturnUnused
<1>2. /\ IInv /\ QueuesAt(g) /\ unused \in [Groups -> Seq(Bufs)]
      /\ resized \in [Bufs -> BOOLEAN]
  BY InvariantParts DEF FitIInv, IInv, TypeOK
<1>3. ToSet(Tail(unused[g])) \subseteq ToSet(unused[g])
  BY <1>1, <1>2, Dequeued DEF QueuesAt
<1>4. b \in Bufs /\ owner[b] = g
  BY <1>1, <1>2, QueuedOwned DEF OwnedBufs
<1>5. /\ unused'[g] = Tail(unused[g])
      /\ \A h \in Groups \ {g} : unused'[h] = unused[h]
  BY <1>1, <1>2
<1> HIDE DEF b
<1>6. QED  BY <1>1, <1>2, <1>3, <1>4, <1>5, ReturnFits

\* smm_destroy returns a buffer in use.
LEMMA DestroyInUseFits ==
  ASSUME FitIInv, IInv', NEW g \in Groups, NEW b \in Bufs, DestroyInUse(g, b)
  PROVE  \A h \in Groups : FitAt(h)'
<1>1. /\ b \in inuse[g]
      /\ inuse' = [inuse EXCEPT ![g] = @ \ {b}]
      /\ ReturnToPool(b, resized)
      /\ UNCHANGED <<size, unused, call>>
  BY DEF DestroyInUse
<1>2. \A h \in Groups, c \in Bufs :
        call # Doing("init", h, c) /\ call # Doing("resize", h, NoBuf)
  BY DoingApart DEF DestroyInUse, Destroying
<1>3. IInv /\ inuse \in [Groups -> SUBSET Bufs] /\ resized \in [Bufs -> BOOLEAN]
  BY DEF FitIInv, IInv, TypeOK
<1>4. owner[b] = g
  BY <1>1, <1>3, QueuedOwned
<1>5. \A h \in Groups \ {g} : inuse'[h] = inuse[h]
  BY <1>1, <1>3
<1>6. QED  BY <1>1, <1>2, <1>3, <1>4, <1>5, ReturnFits

\* smm_release: a marked buffer goes back to the pool, any other is ready for
\* its group again, and has room as every buffer that is not marked.
LEMMA ReleaseFits ==
  ASSUME FitIInv, IInv', NEW g \in Groups, NEW b \in Bufs, Release(g, b)
  PROVE  \A h \in Groups : FitAt(h)'
<1>1. /\ b \in inuse[g] /\ (call = Idle \/ call = Doing("release", g, b))
      /\ inuse' = [inuse EXCEPT ![g] = @ \ {b}]
      /\ UNCHANGED size
  BY DEF Release
<1>2. /\ IInv /\ FitAt(g) /\ QueuesAt(g)
      /\ inuse \in [Groups -> SUBSET Bufs] /\ unused \in [Groups -> Seq(Bufs)]
      /\ resized \in [Bufs -> BOOLEAN]
  BY InvariantParts DEF FitIInv, IInv, TypeOK
<1>3. \A h \in Groups, c \in Bufs :
        call # Doing("init", h, c) /\ call # Doing("resize", h, NoBuf)
  BY <1>1, DoingApart
<1>4. owner[b] = g
  BY <1>1, <1>2, QueuedOwned
<1>5. \A h \in Groups \ {g} : inuse'[h] = inuse[h]
  BY <1>1, <1>2
<1>6. CASE resized[b]
  <2> DEFINE flags == [resized EXCEPT ![b] = FALSE]
  <2>1. ReturnToPool(b, flags) /\ call' = Idle /\ UNCHANGED unused
    BY <1>6 DEF Release
  <2>2. /\ flags \in [Bufs -> BOOLEAN]
        /\ \A c \in Bufs : c # b /\ resized[c] => flags[c]
    BY <1>2
  <2> HIDE DEF flags
  <2>3. \A h \in Groups, c \in Bufs : call' # Doing("init", h, c)
    BY <2>1, DoingApart
  <2>4. UNCHANGED <<size, unused>>
    BY <1>1, <2>1
  <2>5. \A h \in Groups : call = Doing("resize", h, NoBuf) => call' = call
    BY <1>3
  <2>6. ToSet(unused'[g]) \subseteq ToSet(unused[g])
    BY <2>4
  <2>7. \A h \in Groups \ {g} : unused'[h] = unused[h] /\ inuse'[h] = inuse[h]
    BY <1>5, <2>4
  <2>8. \A c \in Bufs : c # b /\ resized[c] => flags[c]
    BY <2>2
  <2>9. QED
    BY <1>4, <2>1, <2>2, <2>3, <2>4, <2>5, <2>6, <2>7, <2>8, ReturnFits
<1>7. CASE ~resized[b]
  <2>1. /\ unused' = [unused EXCEPT ![g] = Append(@, b)]
        /\ call' = Doing("trim", g, NoBuf)
        /\ UNCHANGED <<history, owner, resized, allocd, offset, poolSize>>
    BY <1>7 DEF Release, bufVars, poolVars
  <2>2. b \notin ToSet(unused[g]) /\ IsInjective(unused[g])
    BY <1>1, <1>2 DEF QueuesAt
  <2>3. ToSet(unused'[g]) = ToSet(unused[g]) \cup {b}
    BY <1>2, <2>1, <2>2, Enqueued
  <2>4. \A h \in Groups, c \in Bufs : call' # Doing("init", h, c)
    BY <2>1, DoingApart
  <2>5. FitAt(g)'
    <3>1. \A c : HasRoom(c, g)' <=> HasRoom(c, g)
      BY <1>1, <2>1, ExtentOfPool DEF HasRoom
    <3>2. Owned(g)' = Owned(g)
      BY <2>1 DEF Owned
    <3>3. b \in Owned(g)
      BY <1>4 DEF Owned
    <3>4. /\ \A c \in Owned(g) : ~resized[c] => HasRoom(c, g)
          /\ \A c \in ToSet(unused[g]) \cup ToSet(history[g]) : HasRoom(c, g)
          /\ IsInjective(history[g]) /\ ToSet(history[g]) \subseteq Owned(g)
      BY <1>2, <1>3 DEF FitAt
    <3>5. HasRoom(b, g)
      BY <1>7, <3>3, <3>4
    <3>6. UNCHANGED <<history, resized>>
      BY <2>1
    <3>7. QED  BY <2>3, <2>4, <3>1, <3>2, <3>4, <3>5, <3>6 DEF FitAt
  <2>6. \A h \in Groups \ {g} : unused'[h] = unused[h]
    BY <1>2, <2>1
  <2>7. \A h \in Groups \ {g} : FitAt(h)'
    BY <1>1, <1>3, <1>5, <2>1, <2>4, <2>6, OthersFit
  <2>8. QED  BY <2>5, <2>7
<1>8. QED  BY <1>6, <1>7

\* smm_resize begins: nothing is claimed until its loop is over.
LEMMA ResizeFits ==
  ASSUME FitIInv, NEW g \in Groups, NEW sz, Resize(g, sz)
  PROVE  \A h \in Groups : FitAt(h)'
<1>1. /\ call = Idle /\ call' = Doing("resize", g, NoBuf)
      /\ size' = [size EXCEPT ![g] = RoundUp(sz, PageSize)]
      /\ UNCHANGED <<history, unused, inuse, owner, resized, allocd, offset,
                     poolSize>>
  BY DEF Resize, queueVars, bufVars, poolVars
<1>2. FitAt(g) /\ size \in [Groups -> Nat \ {0}]
  BY DEF FitIInv, IInv, TypeOK
<1>3. FitAt(g)'
  BY <1>1, <1>2 DEF FitAt, Owned
<1>4. ASSUME NEW h \in Groups \ {g}
      PROVE  /\ size'[h] = size[h]
             /\ call # Doing("resize", h, NoBuf)
             /\ \A c \in Bufs : call' # Doing("init", h, c)
  BY <1>1, <1>2, DoingApart
<1>5. \A h \in Groups \ {g} : FitAt(h)'
  BY <1>1, <1>4, OthersFit
<1>6. QED  BY <1>3, <1>5

\* It ends: all that the group still owns is in use, so that it is marked and
\* has left the history.
LEMMA ResizeInUseFits ==
  ASSUME FitIInv, NEW g \in Groups, ResizeInUse(g)
  PROVE  \A h \in Groups : FitAt(h)'
<1>1. /\ call = Doing("resize", g, NoBuf) /\ call' = Idle
      /\ unused[g] = <<>>
      /\ resized' = [b \in Bufs |-> b \in inuse[g] \/ resized[b]]
      /\ UNCHANGED <<size, unused, inuse, owner, allocd, offset, poolSize>>
  BY DEF ResizeInUse, poolVars
<1>2. PICK n \in 0 .. Len(history[g]) :
        /\ \A i \in (n + 1) .. Len(history[g]) : history[g][i] \notin inuse[g]
        /\ history' = [history EXCEPT ![g] = SubSeq(@, n + 1, Len(history[g]))]
  BY DEF ResizeInUse
<1>3. FitAt(g) /\ QueuesAt(g) /\ history \in [Groups -> Seq(Bufs)]
  BY InvariantParts DEF FitIInv, IInv, TypeOK
<1>4. Owned(g) = inuse[g] /\ ToSet(unused[g]) = {}
  <2>1. ToSet(<<>>) = {}
    BY DEF ToSet
  <2>2. QED  BY <1>1, <1>3, <2>1 DEF QueuesAt
<1>5. IsInjective(history[g]) /\ ToSet(history[g]) \subseteq inuse[g]
  BY <1>3, <1>4 DEF FitAt
<1>6. history'[g] = SubSeq(history[g], n + 1, Len(history[g]))
  BY <1>2, <1>3
<1>7. /\ IsInjective(history'[g])
      /\ \A b \in ToSet(history'[g]) :
           \E i \in (n + 1) .. Len(history[g]) : history[g][i] = b
  BY <1>3, <1>5, <1>6, RestOf
<1>8. ToSet(history'[g]) = {}
  <2>1. \A i \in (n + 1) .. Len(history[g]) : history[g][i] \in inuse[g]
    <3>1. Len(history[g]) \in Nat
      BY <1>3, LenProperties
    <3>2. \A i \in (n + 1) .. Len(history[g]) : i \in 1 .. Len(history[g])
      BY <3>1
    <3>3. QED  BY <1>3, <1>5, <3>2, EmptyList
  <2>2. QED  BY <1>2, <1>7, <2>1
<1>9. FitAt(g)'
  <2>1. Owned(g)' = inuse[g]
    BY <1>1, <1>4 DEF Owned
  <2>2. \A b \in Bufs : b \in inuse[g] => resized'[b]
    BY <1>1
  <2>3. Owned(g)' \subseteq Bufs
    BY DEF Owned
  <2>4. \A b \in Bufs : call' # Doing("init", g, b)
    BY <1>1, DoingApart
  <2>5. unused' = unused
    BY <1>1
  <2>6. QED  BY <1>4, <1>7, <1>8, <2>1, <2>2, <2>3, <2>4, <2>5 DEF FitAt
<1>10. ASSUME NEW h \in Groups \ {g}
       PROVE  /\ history'[h] = history[h]
              /\ call # Doing("resize", h, NoBuf)
              /\ \A c \in Bufs : call' # Doing("init", h, c)
  BY <1>1, <1>2, <1>3, DoingApart
<1>11. \A h \in Groups \ {g} : FitAt(h)'
  <2>1. \A b \in Bufs : resized[b] => resized'[b]
    BY <1>1
  <2>2. QED  BY <1>1, <1>10, <2>1, OthersFit
<1>12. QED  BY <1>9, <1>11

\* A group without buffers may rely on anything.
LEMMA EmptyFits ==
  ASSUME NEW g, Owned(g)' = {}, unused'[g] = <<>>, history'[g] = <<>>,
         \A b \in Bufs : call' # Doing("init", g, b)
  PROVE  FitAt(g)'
<1>1. ToSet(<<>>) = {} /\ IsInjective(<<>>)
  BY DEF ToSet, IsInjective
<1>2. QED  BY <1>1 DEF FitAt

\* smm_create.
LEMMA CreateFits ==
  ASSUME FitIInv, NEW g \in Groups, Create(g)
  PROVE  \A h \in Groups : FitAt(h)'
<1>1. /\ call = Idle /\ call' = call /\ g \notin live
      /\ size' = [size EXCEPT ![g] = PageSize]
      /\ unused' = [unused EXCEPT ![g] = <<>>]
      /\ inuse' = [inuse EXCEPT ![g] = {}]
      /\ history' = [history EXCEPT ![g] = <<>>]
      /\ UNCHANGED <<owner, resized, allocd, offset, poolSize>>
  BY DEF Create, bufVars, poolVars
<1>2. /\ QueuesAt(g)
      /\ size \in [Groups -> Nat \ {0}] /\ unused \in [Groups -> Seq(Bufs)]
      /\ inuse \in [Groups -> SUBSET Bufs] /\ history \in [Groups -> Seq(Bufs)]
  BY InvariantParts DEF FitIInv, IInv, TypeOK
<1>3. FitAt(g)'
  <2>1. Owned(g)' = {}
    BY <1>1, <1>2 DEF QueuesAt, Owned
  <2>2. unused'[g] = <<>> /\ history'[g] = <<>>
    BY <1>1, <1>2
  <2>3. \A b \in Bufs : call' # Doing("init", g, b)
    BY <1>1, DoingApart
  <2>4. QED  BY <2>1, <2>2, <2>3, EmptyFits
<1>4. ASSUME NEW h \in Groups \ {g}
      PROVE  /\ size'[h] = size[h] /\ unused'[h] = unused[h]
             /\ inuse'[h] = inuse[h] /\ history'[h] = history[h]
  BY <1>1, <1>2
<1>5. \A h \in Groups \ {g} : FitAt(h)'
  BY <1>1, <1>4, OthersFit
<1>6. QED  BY <1>3, <1>5

\* smm_destroy frees a group that owns nothing any more.
LEMMA DestroyDoneFits ==
  ASSUME FitIInv, NEW g \in Groups, DestroyDone(g)
  PROVE  \A h \in Groups : FitAt(h)'
<1>1. /\ unused[g] = <<>> /\ inuse[g] = {}
      /\ size' = [size EXCEPT ![g] = PageSize]
      /\ UNCHANGED <<unused, inuse, history, owner, resized, allocd, offset,
                     poolSize>>
      /\ call \in {Doing("destroy", g, NoBuf), Doing("deinit", g, NoBuf)}
      /\ call' = Idle \/ \E next \in live \ {g} : call' = Doing("deinit", next, NoBuf)
  BY DEF DestroyDone, Destroying, queueVars, bufVars, poolVars
<1>2. /\ FitAt(g) /\ QueuesAt(g) /\ size \in [Groups -> Nat \ {0}]
      /\ history[g] \in Seq(Bufs)
  BY InvariantParts DEF FitIInv, IInv, TypeOK
<1>3. \A h \in Groups :
        /\ call # Doing("resize", h, NoBuf)
        /\ \A c \in Bufs : call' # Doing("init", h, c)
  BY <1>1, DoingApart
<1>4. FitAt(g)'
  <2>1. Owned(g) = {}
    <3>1. ToSet(<<>>) = {}
      BY DEF ToSet
    <3>2. QED  BY <1>1, <1>2, <3>1 DEF QueuesAt
  <2>2. history[g] = <<>>
    <3>1. ToSet(history[g]) = {}
      BY <1>2, <2>1 DEF FitAt
    <3>2. Len(history[g]) = 0
      <4>1. \A i \in 1 .. Len(history[g]) : FALSE
        BY <1>2, <3>1, EmptyList
      <4>2. Len(history[g]) \in Nat
        BY <1>2, LenProperties
      <4>3. QED  BY <4>1, <4>2
    <3>3. QED  BY <1>2, <3>2, EmptyList
  <2>3. Owned(g)' = {}
    BY <1>1, <2>1 DEF Owned
  <2>4. QED  BY <1>1, <1>3, <2>2, <2>3, EmptyFits
<1>5. ASSUME NEW h \in Groups \ {g}
      PROVE  size'[h] = size[h]
  BY <1>1, <1>2
<1>6. \A h \in Groups \ {g} : FitAt(h)'
  BY <1>1, <1>3, <1>5, OthersFit
<1>7. QED  BY <1>4, <1>6

\* Every step leaves every group what it may rely on.
LEMMA StepFits ==
  ASSUME FitIInv, IInv', [Next]_vars
  PROVE  \A h \in Groups : FitAt(h)'
<1> DEFINE Goal == \A h \in Groups : FitAt(h)'
<1> SUFFICES Goal
  OBVIOUS
<1> HIDE DEF Goal
<1>1. ASSUME NEW g \in Groups,
             Trim(g) \/ ResizeUnused(g) \/ DestroyUnused(g)
      PROVE  Goal
  <2>1. ReturnUnused(g)
    BY <1>1 DEF Trim, ResizeUnused, DestroyUnused
  <2>2. \A h \in Groups, c \in Bufs : call # Doing("init", h, c)
    BY <1>1, DoingApart
       DEF Trim, ResizeUnused, DestroyUnused, Destroying
  <2>3. QED  BY <2>1, <2>2, ReturnUnusedFits DEF Goal
<1>2. ASSUME NEW g \in Groups,
             AcquireFails(g) \/ TrimDone(g) \/ Destroy(g)
      PROVE  Goal
  <2>1. UNCHANGED <<size, owner, resized, allocd, offset, poolSize, unused,
                    inuse, history>>
    BY <1>2 DEF AcquireFails, TrimDone, Destroy, queueVars, bufVars, poolVars
  <2>2. \/ call' = call
        \/ /\ call = Doing("trim", g, NoBuf) \/ call = Idle
           /\ call' = Idle \/ call' = Doing("destroy", g, NoBuf)
    BY <1>2 DEF AcquireFails, TrimDone, Destroy
  <2>3. \A h \in Groups :
          /\ call = Doing("resize", h, NoBuf) => call' = Doing("resize", h, NoBuf)
          /\ \A b \in Bufs : call' = Doing("init", h, b) => call = Doing("init", h, b)
    BY <2>2, DoingApart
  <2>4. QED  BY <2>1, <2>3, ControlFits DEF Goal
<1>3. ASSUME NEW g \in Groups, NEW b \in Bufs, InitBufferFails(g, b) \/ Map(b)
      PROVE  Goal
  <2>1. UNCHANGED <<size, owner, resized, allocd, offset, poolSize, unused,
                    inuse, history>>
    BY <1>3 DEF InitBufferFails, Map, queueVars, bufVars, poolVars
  <2>2. \/ call' = call
        \/ call = Doing("init", g, b) /\ call' = Doing("release", g, b)
    BY <1>3 DEF InitBufferFails, Map
  <2>3. \A h \in Groups :
          /\ call = Doing("resize", h, NoBuf) => call' = Doing("resize", h, NoBuf)
          /\ \A c \in Bufs : call' = Doing("init", h, c) => call = Doing("init", h, c)
    BY <2>2, DoingApart
  <2>4. QED  BY <2>1, <2>3, ControlFits DEF Goal
<1>4. CASE Deinit
  <2>1. UNCHANGED <<size, owner, resized, allocd, offset, poolSize, unused,
                    inuse, history>>
    BY <1>4 DEF Deinit, queueVars, bufVars, poolVars
  <2>2. call = Idle /\ \E g \in live : call' = Doing("deinit", g, NoBuf)
    BY <1>4 DEF Deinit
  <2>3. \A h \in Groups :
          /\ call = Doing("resize", h, NoBuf) => call' = Doing("resize", h, NoBuf)
          /\ \A b \in Bufs : call' = Doing("init", h, b) => call = Doing("init", h, b)
    BY <2>2, DoingApart
  <2>4. QED  BY <2>1, <2>3, ControlFits DEF Goal
<1>5. CASE UNCHANGED vars
  BY <1>5, ControlFits DEF vars, queueVars, bufVars, poolVars, Goal
<1>6. CASE Calls
  <2>1. ASSUME NEW g \in Groups,
               \/ Create(g) \/ AcquireUnused(g) \/ AcquireFromPool(g)
               \/ AcquireRefused(g)
        PROVE  Goal
    BY <2>1, CreateFits, AcquireUnusedFits, AcquireFromPoolFits,
       AcquireRefusedFits DEF Goal
  <2>2. ASSUME NEW g \in Groups, NEW sz, Resize(g, sz)
        PROVE  Goal
    BY <2>2, ResizeFits DEF Goal
  <2>3. ASSUME NEW g \in Groups, NEW b \in Bufs, Release(g, b)
        PROVE  Goal
    BY <2>3, ReleaseFits DEF Goal
  <2>4. ASSUME NEW b \in Bufs, Map(b)
        PROVE  Goal
    <3>1. CASE \E g \in Groups : TRUE
      BY <2>4, <3>1, <1>3
    <3>2. CASE ~\E g \in Groups : TRUE
      BY <3>2 DEF Goal
    <3>3. QED  BY <3>1, <3>2
  <2>5. QED  BY <1>2, <1>4, <1>6, <2>1, <2>2, <2>3, <2>4 DEF Calls
<1>7. CASE Proceed
  <2>1. ASSUME NEW g \in Groups, ResizeInUse(g) \/ DestroyDone(g)
        PROVE  Goal
    BY <2>1, ResizeInUseFits, DestroyDoneFits DEF Goal
  <2>2. ASSUME NEW g \in Groups, NEW b \in Bufs,
               InitBuffer(g, b) \/ DestroyInUse(g, b) \/ Release(g, b)
        PROVE  Goal
    BY <2>2, InitBufferFits, DestroyInUseFits, ReleaseFits DEF Goal
  <2>3. QED  BY <1>1, <1>2, <1>3, <1>7, <2>1, <2>2 DEF Proceed
<1>8. QED  BY <1>5, <1>6, <1>7 DEF Next

\* Nothing is owned, queued or remembered at first.
LEMMA InitFits ==
  ASSUME Init
  PROVE  \A g \in Groups : FitAt(g)
<1>1. ToSet(<<>>) = {} /\ IsInjective(<<>>)
  BY DEF ToSet, IsInjective
<1>2. ASSUME NEW g \in Groups
      PROVE  FitAt(g)
  <2>1. unused[g] = <<>> /\ history[g] = <<>> /\ call = Idle
    BY DEF Init
  <2>2. Owned(g) = {}
    BY GroupsAssumption DEF Init, Owned
  <2>3. \A b \in Bufs : call # Doing("init", g, b)
    BY <2>1, DoingApart
  <2>4. QED  BY <1>1, <2>1, <2>2, <2>3 DEF FitAt
<1>3. QED  BY <1>2

\* A buffer in a group's hands has room for its size, whatever was resized,
\* released or refused before: what is too small is marked.
THEOREM OwnedBuffersFit == Spec => []OwnedFits
<1>1. Init => \A g \in Groups : FitAt(g)
  BY InitFits
<1>2. /\ IInv /\ IInv' /\ (\A g \in Groups : FitAt(g)) /\ [Next]_vars
      => (\A g \in Groups : FitAt(g))'
  BY StepFits DEF FitIInv
<1>3. (\A g \in Groups : FitAt(g)) => OwnedFits
  BY DEF FitAt, HasRoom, OwnedFits
<1>4. QED  BY <1>1, <1>2, <1>3, Invariance, PTL DEF Spec

\* What smm_latest and smm_next return is owned by the group and as large as
\* the group is now: no resize leaves an older buffer in the history.
THEOREM HistoryStaysCurrent == Spec => []HistoryCurrent
<1>1. Init => \A g \in Groups : FitAt(g)
  BY InitFits
<1>2. /\ IInv /\ IInv' /\ (\A g \in Groups : FitAt(g)) /\ [Next]_vars
      => (\A g \in Groups : FitAt(g))'
  BY StepFits DEF FitIInv
<1>3. (\A g \in Groups : FitAt(g)) => HistoryCurrent
  BY DEF FitAt, HasRoom, HistoryCurrent
<1>4. QED  BY <1>1, <1>2, <1>3, Invariance, PTL DEF Spec

----------------------------------------------------------------------------
(* The counter of a group *)

\* num_buffers counts what a group owns, as far as an unsigned char can.
CountAt(g) == num[g] = Cardinality(Owned(g)) % NumRange

\* One buffer more, or one less.
LEMMA CountSteps ==
  ASSUME NEW S, IsFiniteSet(S), NEW b
  PROVE  /\ IsFiniteSet(S \cup {b}) /\ IsFiniteSet(S \ {b})
         /\ Cardinality(S) \in Nat
         /\ b \notin S => Cardinality(S \cup {b}) = Cardinality(S) + 1
         /\ b \in S => /\ Cardinality(S \ {b}) = Cardinality(S) - 1
                       /\ Cardinality(S) > 0
<1>1. Cardinality(S) \in Nat
  BY FS_CardinalityType
<1>2. /\ IsFiniteSet(S \cup {b})
      /\ b \notin S => Cardinality(S \cup {b}) = Cardinality(S) + 1
  BY FS_AddElement
<1>3. /\ IsFiniteSet(S \ {b})
      /\ b \in S => Cardinality(S \ {b}) = Cardinality(S) - 1
  BY FS_RemoveElement
<1>4. b \in S => Cardinality(S) > 0
  <2>1. b \in S => S # {}
    OBVIOUS
  <2>2. b \in S => Cardinality(S) # 0
    BY <2>1, FS_EmptySet
  <2>3. QED  BY <2>2, <1>1
<1>5. QED  BY <1>1, <1>2, <1>3, <1>4

\* The counter follows the set, around its range too.
LEMMA CountWraps ==
  ASSUME NEW n \in Nat
  PROVE  /\ ((n % NumRange) + 1) % NumRange = (n + 1) % NumRange
         /\ n > 0 => ((n % NumRange) - 1) % NumRange = (n - 1) % NumRange
  BY DEF NumRange

LEMMA OwnedFinite ==
  ASSUME NEW g
  PROVE  IsFiniteSet(Owned(g)) /\ Cardinality(Owned(g)) <= Cardinality(Bufs)
  BY FS_Subset, BufsAssumption DEF Owned

\* Steps that change neither the counters nor the owners.
LEMMA CountStays ==
  ASSUME \A g \in Groups : CountAt(g), UNCHANGED <<num, owner>>
  PROVE  \A g \in Groups : CountAt(g)'
  BY DEF CountAt, Owned

\* A buffer goes back to the pool.
LEMMA ReturnCounts ==
  ASSUME IInv, \A h \in Groups : CountAt(h),
         NEW g \in Groups, NEW b \in Bufs, owner[b] = g,
         NEW flags, ReturnToPool(b, flags)
  PROVE  /\ \A h \in Groups : CountAt(h)'
         /\ \A h \in Groups : h # g => num'[h] = num[h]
         /\ num'[g] = (num[g] - 1) % NumRange
<1>1. /\ num' = [num EXCEPT ![g] = (@ - 1) % NumRange]
      /\ owner' = [owner EXCEPT ![b] = NoGroup]
  BY DEF ReturnToPool
<1>2. /\ owner \in [Bufs -> Groups \cup {NoGroup}] /\ NoGroup \notin Groups
      /\ num \in [Groups -> 0 .. (NumRange - 1)]
  BY GroupsAssumption DEF IInv, TypeOK
<1>3. b \in Owned(g) /\ \A h \in Groups : h # g => b \notin Owned(h)
  BY <1>2 DEF Owned
<1>4. Owned(g)' = Owned(g) \ {b} /\ \A h \in Groups : h # g => Owned(h)' = Owned(h)
  BY <1>1, <1>2, <1>3 DEF Owned
<1>5. num'[g] = (num[g] - 1) % NumRange /\ \A h \in Groups : h # g => num'[h] = num[h]
  BY <1>1, <1>2
<1>6. CountAt(g)'
  <2>1. num[g] = Cardinality(Owned(g)) % NumRange
    BY <1>2 DEF CountAt
  <2>2. /\ Cardinality(Owned(g) \ {b}) = Cardinality(Owned(g)) - 1
        /\ Cardinality(Owned(g)) \in Nat /\ Cardinality(Owned(g)) > 0
    BY <1>3, OwnedFinite, CountSteps
  <2>3. num'[g] = (Cardinality(Owned(g)) - 1) % NumRange
    BY <1>5, <2>1, <2>2, CountWraps
  <2>4. QED  BY <1>4, <2>2, <2>3 DEF CountAt
<1>7. \A h \in Groups : h # g => CountAt(h)'
  BY <1>4, <1>5 DEF CountAt
<1>8. QED  BY <1>5, <1>6, <1>7

\* A group gets a buffer from the pool.
LEMMA AcquireCounts ==
  ASSUME IInv, \A h \in Groups : CountAt(h), NEW g \in Groups, AcquireFromPool(g)
  PROVE  /\ \A h \in Groups : CountAt(h)'
         /\ \A h \in Groups : h # g => num'[h] = num[h]
<1>1. PICK b \in Bufs : Place(b, size[g]) /\ owner' = [owner EXCEPT ![b] = g]
  BY DEF AcquireFromPool
<1>2. num' = [num EXCEPT ![g] = (@ + 1) % NumRange]
  BY DEF AcquireFromPool
<1>3. /\ PoolTypes /\ PoolTiled /\ OwnedLinked /\ size[g] \in Nat \ {0}
      /\ owner \in [Bufs -> Groups \cup {NoGroup}] /\ NoGroup \notin Groups
      /\ num \in [Groups -> 0 .. (NumRange - 1)]
  BY InvariantParts, GroupsAssumption DEF IInv, TypeOK
<1>4. owner[b] = NoGroup
  BY <1>1, <1>3, PlaceTiles
<1>5. \A h \in Groups : b \notin Owned(h)
  BY <1>3, <1>4 DEF Owned
<1>6. Owned(g)' = Owned(g) \cup {b} /\ \A h \in Groups : h # g => Owned(h)' = Owned(h)
  BY <1>1, <1>3, <1>5 DEF Owned
<1>7. num'[g] = (num[g] + 1) % NumRange /\ \A h \in Groups : h # g => num'[h] = num[h]
  BY <1>2, <1>3
<1>8. CountAt(g)'
  <2>1. num[g] = Cardinality(Owned(g)) % NumRange
    BY DEF CountAt
  <2>2. /\ Cardinality(Owned(g) \cup {b}) = Cardinality(Owned(g)) + 1
        /\ Cardinality(Owned(g)) \in Nat
    BY <1>5, OwnedFinite, CountSteps
  <2>3. num'[g] = (Cardinality(Owned(g)) + 1) % NumRange
    BY <1>7, <2>1, <2>2, CountWraps
  <2>4. QED  BY <1>6, <2>2, <2>3 DEF CountAt
<1>9. \A h \in Groups : h # g => CountAt(h)'
  BY <1>6, <1>7 DEF CountAt
<1>10. QED  BY <1>7, <1>8, <1>9

\* smm_create: a group that is not linked owns nothing.
LEMMA CreateCounts ==
  ASSUME IInv, \A h \in Groups : CountAt(h), NEW g \in Groups, Create(g)
  PROVE  \A h \in Groups : CountAt(h)'
<1>1. /\ g \notin live /\ num' = [num EXCEPT ![g] = 0] /\ UNCHANGED owner
      /\ num \in [Groups -> 0 .. (NumRange - 1)]
  BY DEF Create, bufVars, IInv, TypeOK
<1>2. Owned(g) = {} /\ Cardinality({}) = 0
  BY <1>1, InvariantParts, FS_EmptySet DEF QueuesAt
<1>3. 0 % NumRange = 0
  BY DEF NumRange
<1>4. \A h \in Groups : Owned(h)' = Owned(h)
  BY <1>1 DEF Owned
<1>5. QED  BY <1>1, <1>2, <1>3, <1>4 DEF CountAt

\* A step that leaves the counters, the owners, the pool's list and the statistic
\* alone.
Quiet ==
  /\ UNCHANGED <<num, owner, allocd, offset, poolSize>>
  /\ UNCHANGED <<active, activeUsed>> \/ activeUsed' = UsedBefore

\* Which steps do not.
LEMMA PoolSteps ==
  ASSUME IInv, [Next]_vars
  PROVE  \/ Quiet
         \/ \E g \in Groups :
              AcquireFromPool(g) \/ AcquireRefused(g) \/ Create(g)
         \/ \E g \in Groups, b \in Bufs : \E flags :
              owner[b] = g /\ ReturnToPool(b, flags)
<1> DEFINE Returns == \E g \in Groups, b \in Bufs : \E flags :
                        owner[b] = g /\ ReturnToPool(b, flags)
<1>1. ASSUME NEW g \in Groups, ReturnUnused(g)
      PROVE  Returns
  <2>1. Head(unused[g]) \in Bufs /\ owner[Head(unused[g])] = g
    BY <1>1, QueuedOwned DEF ReturnUnused, OwnedBufs
  <2>2. QED  BY <1>1, <2>1 DEF ReturnUnused
<1>2. ASSUME NEW g \in Groups, NEW b \in Bufs, Release(g, b)
      PROVE  Quiet \/ Returns
  <2>1. owner[b] = g
    BY <1>2, QueuedOwned DEF Release
  <2>2. CASE resized[b]
    <3>1. ReturnToPool(b, [resized EXCEPT ![b] = FALSE])
      BY <1>2, <2>2 DEF Release
    <3>2. QED  BY <2>1, <3>1
  <2>3. CASE ~resized[b]
    BY <1>2, <2>3 DEF Release, bufVars, poolVars, Quiet
  <2>4. QED  BY <2>2, <2>3
<1>3. ASSUME NEW g \in Groups, NEW b \in Bufs, DestroyInUse(g, b)
      PROVE  Returns
  <2>1. owner[b] = g
    BY <1>3, QueuedOwned DEF DestroyInUse
  <2>2. QED  BY <1>3, <2>1 DEF DestroyInUse
<1> HIDE DEF Returns
<1>4. ASSUME NEW g \in Groups,
             \/ AcquireUnused(g) \/ AcquireFails(g)
             \/ TrimDone(g) \/ Destroy(g) \/ DestroyDone(g) \/ ResizeInUse(g)
      PROVE  Quiet
  BY <1>4 DEF AcquireUnused, AcquireFails, TrimDone, Destroy,
              DestroyDone, ResizeInUse, queueVars, bufVars, poolVars, Quiet
<1>5. ASSUME NEW g \in Groups, NEW b \in Bufs,
             InitBuffer(g, b) \/ InitBufferFails(g, b)
      PROVE  Quiet
  BY <1>5 DEF InitBuffer, InitBufferFails, queueVars, bufVars, poolVars, Quiet
<1>6. ASSUME NEW b \in Bufs, Map(b)
      PROVE  Quiet
  BY <1>6 DEF Map, queueVars, bufVars, poolVars, Quiet
<1>7. ASSUME NEW g \in Groups, NEW sz, Resize(g, sz)
      PROVE  Quiet
  BY <1>7 DEF Resize, queueVars, bufVars, poolVars, Quiet
<1>8. CASE Deinit \/ UNCHANGED vars
  BY <1>8 DEF Deinit, vars, queueVars, bufVars, poolVars, Quiet
<1>9. CASE Calls
  BY <1>2, <1>4, <1>6, <1>7, <1>8, <1>9 DEF Calls, Returns
<1>10. CASE Proceed
  BY <1>1, <1>2, <1>3, <1>4, <1>5, <1>10
     DEF Proceed, Trim, ResizeUnused, DestroyUnused, Returns
<1>11. QED  BY <1>8, <1>9, <1>10 DEF Next

\* The counters stay right.
LEMMA StepCounts ==
  ASSUME IInv, \A g \in Groups : CountAt(g), [Next]_vars
  PROVE  \A g \in Groups : CountAt(g)'
<1>1. CASE Quiet
  BY <1>1, CountStays DEF Quiet
<1>2. ASSUME NEW g \in Groups, AcquireRefused(g)
      PROVE  \A h \in Groups : CountAt(h)'
  BY <1>2, CountStays DEF AcquireRefused, queueVars, bufVars
<1>3. QED  BY <1>1, <1>2, PoolSteps, AcquireCounts, CreateCounts, ReturnCounts

\* num_buffers of a group counts the buffers that it owns modulo the range of
\* an unsigned char, however many there are.
CountsModulo == \A g \in Groups : CountAt(g)

THEOREM CountsStayModulo == Spec => []CountsModulo
<1>1. Init => CountsModulo
  <2> SUFFICES ASSUME Init
               PROVE  CountsModulo
    OBVIOUS
  <2>1. \A g \in Groups : Owned(g) = {} /\ num[g] = 0
    BY GroupsAssumption DEF Init, Owned
  <2>2. Cardinality({}) = 0 /\ 0 % NumRange = 0
    BY FS_EmptySet DEF NumRange
  <2>3. QED  BY <2>1, <2>2 DEF CountsModulo, CountAt
<1>2. IInv /\ CountsModulo /\ [Next]_vars => CountsModulo'
  BY StepCounts DEF CountsModulo
<1>3. QED  BY <1>1, <1>2, Invariance, PTL DEF Spec

\* A heap of fewer buffers than an unsigned char counts.
SmallHeap == Cardinality(Bufs) < NumRange

\* In such a heap the counter is the number of buffers owned.
LEMMA CountExact ==
  ASSUME SmallHeap, NEW g, CountAt(g)
  PROVE  num[g] = Cardinality(Owned(g)) /\ Cardinality(Owned(g)) \in Nat
<1>1. Cardinality(Owned(g)) \in Nat /\ Cardinality(Bufs) \in Nat
  BY OwnedFinite, BufsAssumption, FS_CardinalityType
<1>2. Cardinality(Owned(g)) \in 0 .. (NumRange - 1)
  BY <1>1, OwnedFinite DEF SmallHeap, NumRange
<1>3. QED  BY <1>1, <1>2 DEF CountAt, NumRange

\* The limit of a group rests on a counter that has not wrapped around.
THEOREM CountsStayOwned == SmallHeap /\ Spec => []CountsOwned
<1> SUFFICES ASSUME SmallHeap
             PROVE  Spec => []CountsOwned
  OBVIOUS
<1>1. CountsModulo => CountsOwned
  BY CountExact DEF CountsModulo, CountsOwned
<1>2. QED  BY <1>1, CountsStayModulo, PTL

----------------------------------------------------------------------------
(* The limit of a group *)

\* The calls that return unused buffers in a loop.
Returning == {"trim", "resize", "destroy", "deinit"}

\* A group with more buffers than it prefers has none unused, but for the one
\* that a loop is about to return.
CrowdAt(g) ==
  num[g] > PreferNumBuffers =>
    unused[g] = <<>> \/ (call.grp = g /\ call.op \in Returning)

\* A group whose counter and queue do not grow, outside a call that ends.
LEMMA CrowdStays ==
  ASSUME NEW g \in Groups, CrowdAt(g),
         num[g] \in Nat, num'[g] \in Nat, num'[g] <= num[g],
         unused[g] = <<>> => unused'[g] = <<>>,
         \/ call' = call \/ call.op \notin Returning \/ call.grp # g
  PROVE  CrowdAt(g)'
<1>1. num'[g] > PreferNumBuffers => num[g] > PreferNumBuffers
  BY PreferAssumption
<1>2. QED  BY <1>1 DEF CrowdAt

\* A counter that is not zero goes down.
LEMMA CountDown ==
  ASSUME NEW n \in 0 .. (NumRange - 1)
  PROVE  /\ n \in Nat
         /\ n > 0 => (n - 1) % NumRange \in Nat /\ (n - 1) % NumRange <= n
  BY DEF NumRange

\* The operation and the group of the calls that matter here.
LEMMA CallFields ==
  /\ Idle.op = "idle"
  /\ \A o, g, b : Doing(o, g, b).op = o /\ Doing(o, g, b).grp = g
  BY DEF Idle, Doing

\* A step that returns a buffer of a group takes its counter down, as long as
\* the counter has not wrapped around.
LEMMA ReturnCrowds ==
  ASSUME SmallHeap, IInv, \A h \in Groups : CountAt(h) /\ CrowdAt(h),
         NEW g \in Groups, NEW b \in Bufs, owner[b] = g,
         NEW flags, ReturnToPool(b, flags),
         \A h \in Groups : unused[h] = <<>> => unused'[h] = <<>>,
         call' = call \/ call.op \notin Returning
  PROVE  \A h \in Groups : CrowdAt(h)'
<1>1. num \in [Groups -> 0 .. (NumRange - 1)]
  BY DEF IInv, TypeOK
<1>2. /\ \A h \in Groups : h # g => num'[h] = num[h]
      /\ num'[g] = (num[g] - 1) % NumRange
  BY ReturnCounts
<1>3. num[g] > 0
  <2>1. num[g] = Cardinality(Owned(g))
    BY CountExact
  <2>2. b \in Owned(g)
    BY DEF Owned
  <2>3. QED  BY <2>1, <2>2, OwnedFinite, CountSteps
<1>4. num'[g] \in Nat /\ num'[g] <= num[g] /\ num[g] \in Nat
  <2>1. num[g] \in 0 .. (NumRange - 1)
    BY <1>1
  <2>2. QED  BY <1>2, <1>3, <2>1, CountDown
<1>5. ASSUME NEW h \in Groups
      PROVE  num[h] \in Nat /\ num'[h] \in Nat /\ num'[h] <= num[h]
  <2>1. num[h] \in 0 .. (NumRange - 1)
    BY <1>1
  <2>2. num[h] \in Nat
    BY <2>1, CountDown
  <2>3. QED  BY <1>2, <1>4, <2>2
<1>6. QED  BY <1>5, CrowdStays

\* Every step leaves the groups within the limit.
LEMMA StepCrowds ==
  ASSUME SmallHeap, IInv, \A h \in Groups : CountAt(h) /\ CrowdAt(h), [Next]_vars
  PROVE  \A h \in Groups : CrowdAt(h)'
<1> DEFINE Goal == \A h \in Groups : CrowdAt(h)'
<1> SUFFICES Goal
  OBVIOUS
<1>0. /\ num \in [Groups -> 0 .. (NumRange - 1)]
      /\ unused \in [Groups -> Seq(Bufs)]
      /\ \A h \in Groups : num[h] \in Nat
  <2>1. num \in [Groups -> 0 .. (NumRange - 1)] /\ unused \in [Groups -> Seq(Bufs)]
    BY DEF IInv, TypeOK
  <2>2. \A h \in Groups : num[h] \in 0 .. (NumRange - 1)
    BY <2>1
  <2>3. QED  BY <2>1, <2>2, CountDown
<1>1. ASSUME num' = num, \A h \in Groups : unused[h] = <<>> => unused'[h] = <<>>,
             call' = call \/ call.op \notin Returning
      PROVE  Goal
  BY <1>0, <1>1, CrowdStays
<1> HIDE DEF Goal
<1>2. ASSUME NEW g \in Groups, ReturnUnused(g)
      PROVE  Goal
  <2>1. Head(unused[g]) \in Bufs /\ owner[Head(unused[g])] = g
    BY <1>2, QueuedOwned DEF ReturnUnused, OwnedBufs
  <2>2. \A h \in Groups : unused[h] = <<>> => unused'[h] = <<>>
    BY <1>0, <1>2 DEF ReturnUnused
  <2>3. call' = call /\ ReturnToPool(Head(unused[g]), resized)
    BY <1>2 DEF ReturnUnused
  <2>4. QED  BY <2>1, <2>2, <2>3, ReturnCrowds DEF Goal
<1>3. ASSUME NEW g \in Groups, NEW b \in Bufs, Release(g, b)
      PROVE  Goal
  <2>1. owner[b] = g /\ call.op \notin Returning
    BY <1>3, QueuedOwned, CallFields DEF Release, Returning
  <2>2. CASE resized[b]
    <3>1. ReturnToPool(b, [resized EXCEPT ![b] = FALSE]) /\ UNCHANGED unused
      BY <1>3, <2>2 DEF Release
    <3>2. QED  BY <2>1, <3>1, ReturnCrowds DEF Goal
  <2>3. CASE ~resized[b]
    <3>1. /\ unused' = [unused EXCEPT ![g] = Append(@, b)]
          /\ call' = Doing("trim", g, NoBuf) /\ UNCHANGED num
      BY <1>3, <2>3 DEF Release
    <3>2. CrowdAt(g)'
      BY <3>1, CallFields DEF CrowdAt, Returning
    <3>3. ASSUME NEW h \in Groups, h # g
          PROVE  CrowdAt(h)'
      <4>1. unused'[h] = unused[h] /\ num'[h] = num[h]
        BY <1>0, <3>1, <3>3
      <4>2. QED  BY <1>0, <2>1, <4>1, CrowdStays
    <3>4. QED  BY <3>2, <3>3 DEF Goal
  <2>4. QED  BY <2>2, <2>3
<1>4. ASSUME NEW g \in Groups, NEW b \in Bufs, DestroyInUse(g, b)
      PROVE  Goal
  <2>1. owner[b] = g
    BY <1>4, QueuedOwned DEF DestroyInUse
  <2>2. ReturnToPool(b, resized) /\ UNCHANGED <<unused, call>>
    BY <1>4 DEF DestroyInUse
  <2>3. QED  BY <2>1, <2>2, ReturnCrowds DEF Goal
<1>5. ASSUME NEW g \in Groups, AcquireFromPool(g)
      PROVE  Goal
  <2>1. unused[g] = <<>> /\ UNCHANGED unused /\ call = Idle
    BY <1>5 DEF AcquireFromPool
  <2>2. CrowdAt(g)'
    BY <2>1 DEF CrowdAt
  <2>3. \A h \in Groups : h # g => num'[h] = num[h]
    BY <1>0, <1>5 DEF AcquireFromPool
  <2>4. call.op \notin Returning
    BY <2>1, CallFields DEF Returning
  <2>5. \A h \in Groups : h # g => CrowdAt(h)'
    BY <1>0, <2>1, <2>3, <2>4, CrowdStays
  <2>6. QED  BY <2>2, <2>5 DEF Goal
<1>6. ASSUME NEW g \in Groups, AcquireUnused(g)
      PROVE  Goal
  <2>1. UNCHANGED num /\ \A h \in Groups : unused[h] = <<>> => unused'[h] = <<>>
    BY <1>0, <1>6 DEF AcquireUnused
  <2>2. call.op \notin Returning
    BY <1>6, CallFields DEF AcquireUnused, Returning
  <2>3. QED  BY <1>1, <2>1, <2>2
<1>7. ASSUME NEW g \in Groups, Create(g)
      PROVE  Goal
  <2>1. /\ num' = [num EXCEPT ![g] = 0] /\ unused' = [unused EXCEPT ![g] = <<>>]
        /\ call' = call
    BY <1>7 DEF Create
  <2>2. \A h \in Groups : /\ num'[h] \in Nat /\ num'[h] <= num[h]
                          /\ unused[h] = <<>> => unused'[h] = <<>>
    BY <1>0, <2>1
  <2>3. QED  BY <1>0, <2>1, <2>2, CrowdStays DEF Goal
<1>8. ASSUME NEW g \in Groups, TrimDone(g) \/ ResizeInUse(g) \/ DestroyDone(g)
      PROVE  Goal
  <2>1. UNCHANGED <<num, unused>> /\ call.grp = g
    BY <1>8, CallFields DEF TrimDone, ResizeInUse, DestroyDone, Destroying, queueVars
  <2>2. num[g] > PreferNumBuffers => unused[g] = <<>>
    BY <1>8 DEF TrimDone, Trimming, ResizeInUse, DestroyDone
  <2>3. CrowdAt(g)'
    BY <2>1, <2>2 DEF CrowdAt
  <2>4. \A h \in Groups : h # g => CrowdAt(h)'
    BY <1>0, <2>1, CrowdStays
  <2>5. QED  BY <2>3, <2>4 DEF Goal
<1>9. ASSUME NEW g \in Groups, AcquireRefused(g) \/ AcquireFails(g) \/ Destroy(g)
      PROVE  Goal
  <2>1. UNCHANGED <<num, unused>> /\ call.op \notin Returning
    BY <1>9, CallFields DEF AcquireRefused, AcquireFails, Destroy, queueVars, Returning
  <2>2. QED  BY <1>1, <2>1
<1>10. ASSUME NEW g \in Groups, NEW b \in Bufs,
              InitBuffer(g, b) \/ InitBufferFails(g, b)
       PROVE  Goal
  <2>1. UNCHANGED <<num, unused>> /\ call.op \notin Returning
    BY <1>10, CallFields DEF InitBuffer, InitBufferFails, queueVars, Returning
  <2>2. QED  BY <1>1, <2>1
<1>11. ASSUME NEW b \in Bufs, Map(b)
       PROVE  Goal
  BY <1>1, <1>11 DEF Map, queueVars
<1>12. ASSUME NEW g \in Groups, NEW sz, Resize(g, sz)
       PROVE  Goal
  <2>1. UNCHANGED <<num, unused>> /\ call.op \notin Returning
    BY <1>12, CallFields DEF Resize, queueVars, Returning
  <2>2. QED  BY <1>1, <2>1
<1>13. CASE Deinit \/ UNCHANGED vars
  <2>1. UNCHANGED <<num, unused>> /\ (call' = call \/ call.op \notin Returning)
    BY <1>13, CallFields DEF Deinit, vars, queueVars, Returning
  <2>2. QED  BY <1>1, <2>1
<1>14. CASE Calls
  BY <1>3, <1>5, <1>6, <1>7, <1>9, <1>11, <1>12, <1>13, <1>14 DEF Calls
<1>15. CASE Proceed
  BY <1>2, <1>3, <1>4, <1>8, <1>10, <1>15
     DEF Proceed, Trim, ResizeUnused, DestroyUnused
<1>16. QED  BY <1>13, <1>14, <1>15 DEF Next

\* Between calls a group keeps no buffer beyond the number it prefers that its
\* client does not use, in a heap that the counter can count.
THEOREM PreferenceKept == SmallHeap /\ Spec => []PreferredCount
<1> DEFINE Crowds == \A g \in Groups : CrowdAt(g)
<1> SUFFICES ASSUME SmallHeap
             PROVE  Spec => []PreferredCount
  OBVIOUS
<1>1. Init => Crowds
  BY DEF Init, CrowdAt
<1>2. IInv /\ CountsModulo /\ Crowds /\ [Next]_vars => Crowds'
  BY StepCrowds DEF CountsModulo
<1>3. Crowds => PreferredCount
  BY CallFields DEF PreferredCount, CrowdAt, Returning
<1> HIDE DEF Crowds
<1>4. QED
  BY <1>1, <1>2, <1>3, Invariance, CountsStayModulo, PTL DEF Spec

----------------------------------------------------------------------------
(* Merging *)

\* No two neighbours of a list are in a set.
Separate(al, F) ==
  \A i \in 1 .. (Len(al) - 1) : ~(al[i] \in F /\ al[i + 1] \in F)

Holes == {b \in Bufs : owner[b] = NoGroup}

\* The first half of Coalesced speaks of places, the second of buffers.
LEMMA CoalescedParts ==
  ASSUME allocd \in Seq(Bufs)
  PROVE  Coalesced <=> /\ Separate(allocd, Holes)
                       /\ allocd # <<>> => \E b \in ToSet(allocd) : b \notin Holes
<1> DEFINE n == Len(allocd)
<1>1. n \in Nat /\ DOMAIN allocd = 1 .. n /\ \A i \in 1 .. n : allocd[i] \in Bufs
  BY EmptyList
<1>2. \A i \in 1 .. n : IsFree(i) <=> allocd[i] \in Holes
  BY <1>1 DEF IsFree, Holes
<1>3. \A i \in 1 .. (n - 1) : i \in 1 .. n /\ i + 1 \in 1 .. n
  BY <1>1
<1>4. (\A i \in 1 .. (n - 1) : ~(IsFree(i) /\ IsFree(i + 1)))
        <=> Separate(allocd, Holes)
  BY <1>2, <1>3 DEF Separate
<1>5. (\E i \in DOMAIN allocd : ~IsFree(i)) <=> \E b \in ToSet(allocd) : b \notin Holes
  <2>1. /\ \A b \in ToSet(allocd) : \E i \in 1 .. n : allocd[i] = b
        /\ \A i \in 1 .. n : allocd[i] \in ToSet(allocd)
    BY EmptyList
  <2>2. QED  BY <1>1, <1>2, <2>1
<1>6. QED  BY <1>4, <1>5 DEF Coalesced

\* The same of the next state.
LEMMA CoalescedNext ==
  ASSUME allocd' \in Seq(Bufs), Separate(allocd', Holes'),
         allocd' # <<>> => \E b \in ToSet(allocd') : b \notin Holes'
  PROVE  Coalesced'
<1> DEFINE n == Len(allocd')
<1>1. n \in Nat /\ DOMAIN allocd' = 1 .. n /\ \A i \in 1 .. n : allocd'[i] \in Bufs
  BY EmptyList
<1>2. \A i \in 1 .. n : owner'[allocd'[i]] = NoGroup <=> allocd'[i] \in Holes'
  BY <1>1 DEF Holes
<1>3. \A i \in 1 .. (n - 1) : i \in 1 .. n /\ i + 1 \in 1 .. n
  BY <1>1
<1>4. \A i \in 1 .. (n - 1) :
        ~(owner'[allocd'[i]] = NoGroup /\ owner'[allocd'[i + 1]] = NoGroup)
  BY <1>2, <1>3 DEF Separate
<1>5. allocd' # <<>> => \E i \in DOMAIN allocd' : owner'[allocd'[i]] # NoGroup
  <2>1. \A b \in ToSet(allocd') : \E i \in 1 .. n : allocd'[i] = b
    BY EmptyList
  <2>2. QED  BY <1>1, <1>2, <2>1
<1>6. QED  BY <1>4, <1>5 DEF Coalesced, IsFree

\* What remains of a hole is linked after the buffer that was cut from it.
LEMMA SeparateInsert ==
  ASSUME NEW al \in Seq(Bufs), NEW F, NEW i \in 1 .. Len(al), NEW b \in Bufs,
         Separate(al, F), i < Len(al) => al[i + 1] \notin F
  PROVE  Separate(InsertAt(al, i + 1, b), F \ {al[i]})
<1> DEFINE r == InsertAt(al, i + 1, b)
           n == Len(al)
           G == F \ {al[i]}
<1>1. n \in Nat /\ i \in 1 .. n
  BY LenProperties
<1>2. /\ Len(r) = n + 1
      /\ \A l \in 1 .. i : r[l] = al[l]
      /\ r[i + 1] = b
      /\ \A l \in (i + 1) .. n : r[l + 1] = al[l]
  BY InsertNext
<1>3. \A l \in 1 .. (n - 1) : ~(al[l] \in F /\ al[l + 1] \in F)
  BY DEF Separate
<1>4. i < n => al[i + 1] \notin F
  OBVIOUS
<1>5. al[i] \notin G /\ G \subseteq F
  OBVIOUS
<1> HIDE DEF r, n, G
<1>6. ASSUME NEW k \in 1 .. n, r[k] \in G, r[k + 1] \in G
      PROVE  FALSE
  <2>1. CASE k < i
    <3>1. /\ k \in 1 .. i /\ k + 1 \in 1 .. i /\ k \in 1 .. (n - 1)
      BY <1>1, <2>1
    <3>2. r[k] = al[k] /\ r[k + 1] = al[k + 1]
      BY <1>2, <3>1
    <3>3. QED  BY <1>3, <1>5, <1>6, <3>1, <3>2
  <2>2. CASE k = i
    <3>1. k \in 1 .. i
      BY <1>1, <2>2
    <3>2. QED  BY <1>2, <1>5, <1>6, <2>2, <3>1
  <2>3. CASE k = i + 1
    <3>1. i < n /\ i + 1 \in (i + 1) .. n
      BY <1>1, <2>3
    <3>2. r[k + 1] = al[i + 1]
      BY <1>2, <2>3, <3>1
    <3>3. QED  BY <1>4, <1>5, <1>6, <3>1, <3>2
  <2>4. CASE k > i + 1
    <3>1. /\ k - 1 \in (i + 1) .. n /\ (k - 1) + 1 = k
          /\ k \in (i + 1) .. n /\ k - 1 \in 1 .. (n - 1)
      BY <1>1, <2>4
    <3>2. r[(k - 1) + 1] = al[k - 1] /\ r[k + 1] = al[k]
      BY <1>2, <3>1
    <3>3. r[k] = al[k - 1]
      BY <3>1, <3>2
    <3>4. ~(al[k - 1] \in F /\ al[k] \in F)
      BY <1>3, <3>1
    <3>5. QED  BY <1>5, <1>6, <3>2, <3>3, <3>4
  <2>5. QED  BY <1>1, <2>1, <2>2, <2>3, <2>4
<1>7. \A k \in 1 .. ((n + 1) - 1) : k \in 1 .. n
  BY <1>1
<1>8. Separate(r, G)
  BY <1>2, <1>6, <1>7 DEF Separate
<1>9. QED  BY <1>8 DEF r, G

\* A buffer that is no hole is linked last.
LEMMA SeparateAppend ==
  ASSUME NEW al \in Seq(Bufs), NEW F, NEW b \in Bufs, Separate(al, F)
  PROVE  Separate(Append(al, b), F \ {b})
<1> DEFINE r == Append(al, b)
           n == Len(al)
<1>1. n \in Nat
  BY LenProperties
<1>2. Len(r) = n + 1 /\ r[n + 1] = b /\ \A l \in 1 .. n : r[l] = al[l]
  BY AppendProperties
<1>3. \A l \in 1 .. (n - 1) : ~(al[l] \in F /\ al[l + 1] \in F)
  BY DEF Separate
<1> HIDE DEF r, n
<1>4. ASSUME NEW k \in 1 .. n, r[k] \in F \ {b}, r[k + 1] \in F \ {b}
      PROVE  FALSE
  <2>1. k # n
    BY <1>2, <1>4
  <2>2. k \in 1 .. (n - 1) /\ k + 1 \in 1 .. n
    BY <1>1, <2>1
  <2>3. QED  BY <1>2, <1>3, <1>4, <2>2
<1>5. \A k \in 1 .. ((n + 1) - 1) : k \in 1 .. n
  BY <1>1
<1>6. Separate(r, F \ {b})
  BY <1>2, <1>4, <1>5 DEF Separate
<1>7. QED  BY <1>6 DEF r

\* No other place of a list holds what this one holds.
Once(al, i) == \A k \in 1 .. Len(al) : al[k] = al[i] => k = i

\* Once the hole after a returned buffer is merged into it, the only
\* neighbours that are both holes may be the one before it and itself.
LEMMA SeparateAfter ==
  ASSUME NEW al \in Seq(Bufs), NEW F, NEW i \in 1 .. Len(al), Separate(al, F),
         Once(al, i),
         NEW r, r = IF i < Len(al) /\ al[i + 1] \in F THEN RemoveAt(al, i + 1) ELSE al
  PROVE  /\ r \in Seq(Bufs) /\ i \in 1 .. Len(r)
         /\ \A k \in 1 .. i : r[k] = al[k]
         /\ \A k \in 1 .. (Len(r) - 1) :
              k # i - 1 => ~(r[k] \in F \cup {al[i]} /\ r[k + 1] \in F \cup {al[i]})
<1> DEFINE n == Len(al)
           G == F \cup {al[i]}
           Joined(k) == r[k] \in G /\ r[k + 1] \in G
<1>1. n \in Nat /\ i \in 1 .. n
  BY LenProperties
<1>2. \A k \in 1 .. (n - 1) : ~(al[k] \in F /\ al[k + 1] \in F)
  BY DEF Separate
<1>3. \A k \in 1 .. n : k # i /\ al[k] \in G => al[k] \in F
  BY DEF Once
<1>4. CASE i < n /\ al[i + 1] \in F
  <2> DEFINE Removed(k) ==
        /\ RemoveAt(al, k) \in Seq(Bufs) /\ Len(RemoveAt(al, k)) = n - 1
        /\ \A l \in 1 .. (n - 1) :
             RemoveAt(al, k)[l] = IF l < k THEN al[l] ELSE al[l + 1]
  <2>1. r = RemoveAt(al, i + 1) /\ i + 1 \in 1 .. n
    BY <1>1, <1>4
  <2>2. /\ r \in Seq(Bufs) /\ Len(r) = n - 1
        /\ \A k \in 1 .. (n - 1) : r[k] = IF k < i + 1 THEN al[k] ELSE al[k + 1]
    <3>1. \A k \in 1 .. n : Removed(k)
      BY RemoveAtSeq
    <3>2. Removed(i + 1)
      <4> HIDE DEF Removed
      <4>1. QED  BY <2>1, <3>1
    <3>3. QED  BY <2>1, <3>2
  <2> HIDE DEF n, G
  <2>3. ASSUME NEW k \in 1 .. i
        PROVE  r[k] = al[k]
    <3>1. k \in 1 .. (n - 1) /\ k < i + 1
      BY <1>1, <1>4
    <3>2. QED  BY <2>2, <3>1
  <2>4. ASSUME NEW k \in (i + 1) .. (n - 1)
        PROVE  r[k] = al[k + 1]
    <3>1. k \in 1 .. (n - 1) /\ ~(k < i + 1)
      BY <1>1
    <3>2. QED  BY <2>2, <3>1
  <2>5. ASSUME NEW k \in 1 .. (n - 2), k # i - 1, Joined(k)
        PROVE  FALSE
    <3>1. CASE k < i
      <4>1. /\ k \in 1 .. i /\ k + 1 \in 1 .. i /\ k \in 1 .. (n - 1)
            /\ k \in 1 .. n /\ k + 1 \in 1 .. n /\ k # i /\ k + 1 # i
        BY <1>1, <2>5, <3>1
      <4>2. QED  BY <1>2, <1>3, <2>3, <2>5, <4>1
    <3>2. CASE k >= i
      <4>1. /\ k + 1 \in (i + 1) .. (n - 1) /\ k + 1 \in 1 .. (n - 1)
            /\ (k + 1) + 1 \in 1 .. n /\ (k + 1) + 1 # i
            /\ k + 1 \in 1 .. n /\ k + 1 # i
        BY <1>1, <3>2
      <4>2. al[(k + 1) + 1] \in F
        BY <1>3, <2>4, <2>5, <4>1
      <4>3. al[k + 1] \in F
        <5>1. CASE k = i
          BY <1>4, <5>1
        <5>2. CASE k # i
          <6>1. k \in (i + 1) .. (n - 1)
            BY <1>1, <3>2, <5>2
          <6>2. QED  BY <1>3, <2>4, <2>5, <4>1, <6>1
        <5>3. QED  BY <5>1, <5>2
      <4>4. QED  BY <1>2, <4>1, <4>2, <4>3
    <3>3. QED  BY <1>1, <3>1, <3>2
  <2>6. i \in 1 .. Len(r) /\ \A k \in 1 .. (Len(r) - 1) : k \in 1 .. (n - 2)
    BY <1>1, <1>4, <2>2
  <2>7. QED  BY <2>2, <2>3, <2>5, <2>6 DEF G
<1>5. CASE ~(i < n /\ al[i + 1] \in F)
  <2>1. r = al
    BY <1>5
  <2> HIDE DEF n, G
  <2>2. ASSUME NEW k \in 1 .. (n - 1), k # i - 1, Joined(k)
        PROVE  FALSE
    <3>1. k \in 1 .. n /\ k + 1 \in 1 .. n /\ k + 1 # i
      BY <1>1, <2>2
    <3>2. al[k + 1] \in F
      BY <1>3, <2>1, <2>2, <3>1
    <3>3. k # i
      <4>1. k = i => i < n
        BY <1>1
      <4>2. QED  BY <1>5, <3>2, <4>1
    <3>4. al[k] \in F
      BY <1>3, <2>1, <2>2, <3>1, <3>3
    <3>5. QED  BY <1>2, <3>2, <3>4
  <2>3. QED  BY <1>1, <2>1, <2>2 DEF n, G
<1>6. QED  BY <1>4, <1>5

\* Then it is merged into the hole before it, if there is one.
LEMMA SeparateBefore ==
  ASSUME NEW r \in Seq(Bufs), NEW G, NEW i \in 1 .. Len(r), r[i] \in G,
         \A k \in 1 .. (Len(r) - 1) : k # i - 1 => ~(r[k] \in G /\ r[k + 1] \in G),
         NEW m, m = IF i > 1 /\ r[i - 1] \in G THEN RemoveAt(r, i) ELSE r
  PROVE  Separate(m, G)
<1> DEFINE n == Len(r)
<1>1. n \in Nat /\ i \in 1 .. n
  BY LenProperties
<1>2. \A k \in 1 .. (n - 1) : k # i - 1 => ~(r[k] \in G /\ r[k + 1] \in G)
  OBVIOUS
<1>3. CASE i > 1 /\ r[i - 1] \in G
  <2>1. m = RemoveAt(r, i)
    BY <1>3
  <2>2. /\ Len(m) = n - 1
        /\ \A k \in 1 .. (n - 1) : m[k] = IF k < i THEN r[k] ELSE r[k + 1]
    BY <2>1, RemoveAtSeq
  <2> HIDE DEF n
  <2>3. ASSUME NEW k \in 1 .. (n - 2), m[k] \in G, m[k + 1] \in G
        PROVE  FALSE
    <3>1. k \in 1 .. (n - 1) /\ k + 1 \in 1 .. (n - 1)
      BY <1>1
    <3>2. CASE k < i - 1
      <4>1. k < i /\ k + 1 < i /\ k # i - 1
        BY <1>1, <3>2
      <4>2. m[k] = r[k] /\ m[k + 1] = r[k + 1]
        BY <2>2, <3>1, <4>1
      <4>3. QED  BY <1>2, <2>3, <3>1, <4>1, <4>2
    <3>3. CASE k = i - 1
      <4>1. k + 1 = i /\ ~(k + 1 < i) /\ i \in 1 .. (n - 1) /\ i # i - 1
        BY <1>1, <3>1, <3>3
      <4>2. m[k + 1] = r[i + 1]
        BY <2>2, <4>1
      <4>3. QED  BY <1>2, <2>3, <4>1, <4>2
    <3>4. CASE k > i - 1
      <4>1. ~(k < i) /\ ~(k + 1 < i) /\ k + 1 # i - 1
        BY <1>1, <3>4
      <4>2. m[k] = r[k + 1] /\ m[k + 1] = r[(k + 1) + 1]
        BY <2>2, <3>1, <4>1
      <4>3. QED  BY <1>2, <2>3, <3>1, <4>1, <4>2
    <3>5. QED  BY <1>1, <3>2, <3>3, <3>4
  <2>4. \A k \in 1 .. (Len(m) - 1) : k \in 1 .. (n - 2)
    BY <1>1, <2>2
  <2>5. QED  BY <2>3, <2>4 DEF Separate
<1>4. CASE ~(i > 1 /\ r[i - 1] \in G)
  <2>1. m = r
    BY <1>4
  <2>2. \A k \in 1 .. (n - 1) : k = i - 1 => i > 1
    BY <1>1
  <2>3. QED  BY <1>2, <1>4, <2>1, <2>2 DEF Separate
<1>5. QED  BY <1>3, <1>4


\* A place of the pool's list is free when a hole is linked there.
LEMMA FreePlaces ==
  ASSUME allocd \in Seq(Bufs)
  PROVE  \A i \in 1 .. Len(allocd) : IsFree(i) <=> allocd[i] \in Holes
  BY EmptyList DEF IsFree, Holes

\* return_to_pool leaves no two holes next to each other.
LEMMA MergedSeparate ==
  ASSUME PoolTypes, PoolTiled, NEW b \in ToSet(allocd), Separate(allocd, Holes)
  PROVE  Separate(Merged(b), Holes \cup {b})
<1> DEFINE i == IndexOf(b)
           n == Len(allocd)
           G == Holes \cup {b}
           rest == IF i < n /\ IsFree(i + 1) THEN RemoveAt(allocd, i + 1) ELSE allocd
           m == IF i > 1 /\ IsFree(i - 1) THEN RemoveAt(rest, i) ELSE rest
           After == IF i < n /\ allocd[i + 1] \in Holes
                      THEN RemoveAt(allocd, i + 1) ELSE allocd
           Before == IF i > 1 /\ rest[i - 1] \in G THEN RemoveAt(rest, i) ELSE rest
<1>1. /\ allocd \in Seq(Bufs) /\ offset \in [Bufs -> Nat] /\ poolSize \in Nat
      /\ Tiles(allocd, offset, poolSize)
  BY DEF PoolTypes, PoolTiled
<1>2. /\ n \in Nat
      /\ DOMAIN allocd = 1 .. n
      /\ \A c \in ToSet(allocd) : \E k \in 1 .. n : allocd[k] = c
  BY <1>1, EmptyList
<1>3. i \in 1 .. n /\ allocd[i] = b
  BY <1>2 DEF IndexOf
<1>4. \A k \in 1 .. n : IsFree(k) <=> allocd[k] \in Holes
  BY <1>1, FreePlaces
<1>5. Once(allocd, i)
  BY <1>1, <1>3, TilesOnce DEF Once
<1>6. Merged(b) = m
  BY DEF Merged
<1> HIDE DEF i
<1>7. rest = After
  <2>1. i < n => i + 1 \in 1 .. n
    BY <1>2, <1>3
  <2>2. i < n /\ IsFree(i + 1) <=> i < n /\ allocd[i + 1] \in Holes
    BY <1>4, <2>1
  <2> HIDE DEF n
  <2>3. QED  BY <2>2
<1>8. /\ rest \in Seq(Bufs) /\ i \in 1 .. Len(rest)
      /\ \A k \in 1 .. i : rest[k] = allocd[k]
      /\ \A k \in 1 .. (Len(rest) - 1) :
           k # i - 1 => ~(rest[k] \in G /\ rest[k + 1] \in G)
  <2> DEFINE H == Holes \cup {allocd[i]}
  <2>1. H = G
    BY <1>3
  <2>2. /\ rest \in Seq(Bufs) /\ i \in 1 .. Len(rest)
        /\ \A k \in 1 .. i : rest[k] = allocd[k]
        /\ \A k \in 1 .. (Len(rest) - 1) :
             k # i - 1 => ~(rest[k] \in H /\ rest[k + 1] \in H)
    <3>1. /\ allocd \in Seq(Bufs) /\ i \in 1 .. Len(allocd)
          /\ rest = IF i < Len(allocd) /\ allocd[i + 1] \in Holes
                      THEN RemoveAt(allocd, i + 1) ELSE allocd
      BY <1>1, <1>3, <1>7
    <3> HIDE DEF rest, n, m, G, After, Before
    <3>2. QED  BY <3>1, <1>5, SeparateAfter
  <2> HIDE DEF rest, G, H
  <2>3. QED  BY <2>1, <2>2
<1>9. m = Before
  <2>1. i > 1 => i - 1 \in 1 .. n /\ i - 1 \in 1 .. i /\ i - 1 # i
    BY <1>2, <1>3
  <2>2. i > 1 => (IsFree(i - 1) <=> rest[i - 1] \in G)
    <3>1. i > 1 => rest[i - 1] = allocd[i - 1]
      BY <1>8, <2>1
    <3>2. i > 1 => allocd[i - 1] # b
      BY <1>3, <1>5, <2>1 DEF Once
    <3> HIDE DEF rest
    <3>3. QED  BY <1>4, <2>1, <3>1, <3>2
  <2> HIDE DEF rest
  <2>3. QED  BY <2>2
<1>10. rest[i] \in G
  <2>1. i \in 1 .. i
    BY <1>2, <1>3
  <2>2. QED  BY <1>3, <1>8, <2>1
<1>11. Separate(m, G)
  <2> HIDE DEF rest, m, G
  <2>1. QED  BY <1>8, <1>9, <1>10, SeparateBefore
<1>12. QED  BY <1>6, <1>11

\* So a pool that return_to_pool does not free has an owned buffer.
LEMMA ReturnSeparate ==
  ASSUME PoolTypes, PoolTiled, OwnedLinked, owner \in [Bufs -> Groups \cup {NoGroup}],
         NEW b \in Bufs, owner[b] # NoGroup, NEW flags, ReturnToPool(b, flags),
         Separate(allocd, Holes)
  PROVE  /\ Separate(allocd', Holes')
         /\ allocd' # <<>> => \E c \in ToSet(allocd') : c \notin Holes'
<1> DEFINE m == Merged(b)
           G == Holes \cup {b}
<1>1. b \in ToSet(allocd)
  BY DEF OwnedLinked
<1>2. m \in Seq(Bufs) /\ Separate(m, G)
  BY <1>1, MergedTiles, MergedSeparate
<1>3. allocd' = IF Len(m) = 1 THEN <<>> ELSE m
  BY DEF ReturnToPool
<1>4. owner' = [owner EXCEPT ![b] = NoGroup]
  BY DEF ReturnToPool
<1>5. Holes' = G
  BY <1>4 DEF Holes
<1> HIDE DEF m, G
<1>6. CASE allocd' = <<>>
  <2>1. 1 .. (Len(<<>>) - 1) = {}
    OBVIOUS
  <2>2. QED  BY <1>6, <2>1 DEF Separate
<1>7. CASE allocd' # <<>>
  <2>1. allocd' = m /\ Len(m) # 1
    BY <1>3, <1>7
  <2>2. /\ Len(m) \in Nat /\ Len(m) # 0
        /\ \A k \in 1 .. Len(m) : m[k] \in ToSet(m)
    BY <1>2, <1>7, <2>1, EmptyList
  <2>3. 1 \in 1 .. (Len(m) - 1) /\ 1 \in 1 .. Len(m) /\ 1 + 1 \in 1 .. Len(m)
    <3>1. \A k \in Nat : k # 0 /\ k # 1 =>
            1 \in 1 .. (k - 1) /\ 1 \in 1 .. k /\ 1 + 1 \in 1 .. k
      OBVIOUS
    <3>2. Len(m) # 1 /\ Len(m) # 0 /\ Len(m) \in Nat
      BY <2>1, <2>2
    <3>3. QED  BY <3>1, <3>2
  <2>4. m[1] \notin G \/ m[1 + 1] \notin G
    BY <1>2, <2>3 DEF Separate
  <2>5. QED  BY <1>2, <1>5, <2>1, <2>2, <2>3, <2>4
<1>8. QED  BY <1>6, <1>7

\* The room that get_from_pool finds is cut from a hole without leaving two
\* holes next to each other.
LEMMA PlaceSeparate ==
  ASSUME PoolTypes, NEW b \in Bufs, NEW sz, Place(b, sz), Separate(allocd, Holes)
  PROVE  Separate(allocd', Holes \ {b})
<1>1. /\ allocd \in Seq(Bufs) /\ Len(allocd) \in Nat
      /\ DOMAIN allocd = 1 .. Len(allocd)
  BY EmptyList DEF PoolTypes
<1>2. CASE allocd' = allocd
  BY <1>2 DEF Separate
<1>3. CASE PlaceSplit(b, sz)
  <2>1. PICK i \in 1 .. Len(allocd), rest \in Bufs :
          /\ allocd[i] = b
          /\ ~(i < Len(allocd) /\ IsFree(i + 1))
          /\ allocd' = InsertAt(allocd, i + 1, rest)
    BY <1>1, <1>3 DEF PlaceSplit, Fresh
  <2>2. i < Len(allocd) => allocd[i + 1] \notin Holes
    <3>1. i < Len(allocd) => i + 1 \in 1 .. Len(allocd)
      BY <1>1
    <3>2. QED  BY <1>1, <2>1, <3>1, FreePlaces
  <2>3. QED  BY <1>1, <2>1, <2>2, SeparateInsert
<1>4. CASE PlaceAppend(b, sz)
  BY <1>1, <1>4, SeparateAppend DEF PlaceAppend
<1>5. CASE \/ PlaceExact(b, sz) \/ PlacePullBack(b, sz)
           \/ PlaceWhole(b, sz) \/ PlaceExtend(b, sz)
  BY <1>2, <1>5 DEF PlaceExact, PlacePullBack, PlaceWhole, PlaceExtend, poolVars
<1>6. QED  BY <1>3, <1>4, <1>5 DEF Place

\* smm_acquire keeps the holes merged, and takes one of them.
LEMMA AcquireCoalesced ==
  ASSUME IInv, Coalesced, NEW g \in Groups, AcquireFromPool(g)
  PROVE  Coalesced'
<1>1. PICK b \in Bufs : Place(b, size[g]) /\ owner' = [owner EXCEPT ![b] = g]
  BY DEF AcquireFromPool
<1>2. /\ PoolTypes /\ PoolTiled /\ OwnedLinked /\ size[g] \in Nat \ {0}
      /\ owner \in [Bufs -> Groups \cup {NoGroup}]
  BY InvariantParts DEF IInv, TypeOK
<1>3. PoolTypes' /\ b \in ToSet(allocd') /\ owner[b] = NoGroup
  BY <1>1, <1>2, PlaceTiles
<1>4. g # NoGroup
  BY GroupsAssumption
<1>5. Holes' = Holes \ {b}
  BY <1>1, <1>2, <1>4 DEF Holes
<1>6. allocd \in Seq(Bufs) /\ allocd' \in Seq(Bufs)
  BY <1>2, <1>3 DEF PoolTypes
<1>7. Separate(allocd, Holes)
  BY <1>6, CoalescedParts
<1>8. Separate(allocd', Holes \ {b})
  BY <1>1, <1>2, <1>7, PlaceSeparate
<1>9. QED  BY <1>3, <1>5, <1>6, <1>8, CoalescedNext

\* Every step keeps the holes merged, if no new_buffer callback fails.
LEMMA StepCoalesced ==
  ASSUME "new_buffer" \notin Faults, IInv, Coalesced, [Next]_vars
  PROVE  Coalesced'
<1>1. CASE Quiet
  BY <1>1 DEF Quiet, Coalesced, IsFree
<1>2. ASSUME NEW g \in Groups, AcquireFromPool(g)
      PROVE  Coalesced'
  BY <1>2, AcquireCoalesced
<1>3. ASSUME NEW g \in Groups, AcquireRefused(g)
      PROVE  FALSE
  BY <1>3 DEF AcquireRefused
<1>4. ASSUME NEW g \in Groups, Create(g)
      PROVE  Coalesced'
  BY <1>1, <1>4 DEF Create, bufVars, poolVars, Coalesced, IsFree
<1>5. ASSUME NEW g \in Groups, NEW b \in Bufs, NEW flags,
             owner[b] = g, ReturnToPool(b, flags)
      PROVE  Coalesced'
  <2>1. /\ PoolTypes /\ PoolTiled /\ OwnedLinked
        /\ owner \in [Bufs -> Groups \cup {NoGroup}]
    BY InvariantParts DEF IInv, TypeOK
  <2>2. owner[b] # NoGroup
    BY <1>5, GroupsAssumption
  <2>3. allocd \in Seq(Bufs) /\ Separate(allocd, Holes)
    BY <2>1, CoalescedParts DEF PoolTypes
  <2>4. allocd' \in Seq(Bufs)
    <3>1. b \in ToSet(allocd)
      BY <2>1, <2>2 DEF OwnedLinked
    <3>2. Merged(b) \in Seq(Bufs)
      BY <2>1, <3>1, MergedTiles
    <3>3. allocd' = IF Len(Merged(b)) = 1 THEN <<>> ELSE Merged(b)
      BY <1>5 DEF ReturnToPool
    <3>4. <<>> \in Seq(Bufs)
      OBVIOUS
    <3>5. QED  BY <3>2, <3>3, <3>4
  <2>5. /\ Separate(allocd', Holes')
        /\ allocd' # <<>> => \E c \in ToSet(allocd') : c \notin Holes'
    BY <1>5, <2>1, <2>2, <2>3, ReturnSeparate
  <2>6. QED  BY <2>4, <2>5, CoalescedNext
<1>6. QED  BY <1>1, <1>2, <1>3, <1>4, <1>5, PoolSteps

\* As long as the clients' new_buffer callbacks succeed, no two holes of the
\* pool are neighbours and the pool is freed with its last owned buffer.
THEOREM HolesStayMerged == "new_buffer" \notin Faults /\ Spec => []Coalesced
<1> SUFFICES ASSUME "new_buffer" \notin Faults
             PROVE  Spec => []Coalesced
  OBVIOUS
<1>1. Init => Coalesced
  <2>1. 1 .. (Len(<<>>) - 1) = {}
    OBVIOUS
  <2>2. QED  BY <2>1 DEF Init, Coalesced
<1>2. IInv /\ Coalesced /\ [Next]_vars => Coalesced'
  BY StepCoalesced
<1>3. QED
  BY <1>1, <1>2, Invariance, PTL DEF Spec

----------------------------------------------------------------------------
(* Sums over sets, and remainders *)

\* The natural numbers are well ordered.
LEMMA Smallest ==
  ASSUME NEW S \in SUBSET Nat, S # {}
  PROVE  \E x \in S : \A y \in S : x <= y
<1>1. IsWellFoundedOn(OpToRel(<, Nat), Nat)
  BY NatLessThanWellFounded
<1>2. PICK x \in S : \A y \in S : ~(<<y, x>> \in OpToRel(<, Nat))
  BY <1>1, WFMin
<1>3. ASSUME NEW y \in S
      PROVE  x <= y
  <2>1. ~(y < x)
    BY <1>2 DEF OpToRel
  <2>2. QED  BY <2>1
<1>4. QED  BY <1>3

\* A sum over a set as the library folds it: f[s] is the sum over s.
Taken(s) == CHOOSE x \in s : TRUE
IsSum(f, S, ext) ==
  f = [s \in SUBSET S |-> IF s = {} THEN 0 ELSE ext[Taken(s)] + f[s \ {Taken(s)}]]

\* The subsets of a finite set, one element less at a time.
LEMMA OneLess ==
  ASSUME NEW S, IsFiniteSet(S), NEW s \in SUBSET S
  PROVE  /\ IsFiniteSet(s) /\ Cardinality(s) \in Nat
         /\ s # {} => Taken(s) \in s
         /\ \A x \in s : /\ s \ {x} \in SUBSET S
                         /\ Cardinality(s \ {x}) = Cardinality(s) - 1
                         /\ Cardinality(s \ {x}) \in Nat
<1>1. IsFiniteSet(s)
  BY FS_Subset
<1>2. Cardinality(s) \in Nat
  BY <1>1, FS_CardinalityType
<1>3. \A x \in s : IsFiniteSet(s \ {x}) /\ Cardinality(s \ {x}) = Cardinality(s) - 1
  BY <1>1, FS_RemoveElement
<1>4. \A x \in s : Cardinality(s \ {x}) \in Nat
  BY <1>3, FS_CardinalityType
<1>5. s # {} => Taken(s) \in s
  BY DEF Taken
<1>6. QED  BY <1>1, <1>2, <1>3, <1>4, <1>5

\* There is such a function: a function that sums the subsets of fewer than m
\* elements sums those of m elements after one more step.
LEMMA SumExists ==
  ASSUME NEW S, IsFiniteSet(S), NEW ext \in [S -> Nat]
  PROVE  \E f \in [SUBSET S -> Nat] : IsSum(f, S, ext)
<1> DEFINE More(f, s) == IF s = {} THEN 0 ELSE ext[Taken(s)] + f[s \ {Taken(s)}]
           SumsTo(k, f) ==
             \A s \in SUBSET S : Cardinality(s) <= k => f[s] = More(f, s)
           Bad == {k \in Nat : ~ \E f \in [SUBSET S -> Nat] : SumsTo(k, f)}
<1>1. ASSUME NEW f \in [SUBSET S -> Nat], NEW s \in SUBSET S
      PROVE  More(f, s) \in Nat
  <2>1. CASE s # {}
    <3>1. Taken(s) \in S /\ s \ {Taken(s)} \in SUBSET S
      BY <2>1, OneLess
    <3>2. QED  BY <2>1, <3>1
  <2>2. QED  BY <2>1
<1>2. Bad = {}
  <2>1. SUFFICES ASSUME Bad # {}
                 PROVE  FALSE
    OBVIOUS
  <2>2. PICK m \in Bad : \A k \in Bad : m <= k
    <3>1. Bad \in SUBSET Nat
      OBVIOUS
    <3> HIDE DEF Bad
    <3>2. QED  BY <2>1, <3>1, Smallest
  <2>3. PICK f \in [SUBSET S -> Nat] : m # 0 => SumsTo(m - 1, f)
    <3>1. CASE m = 0
      <4>1. [s \in SUBSET S |-> 0] \in [SUBSET S -> Nat]
        OBVIOUS
      <4>2. QED  BY <3>1, <4>1
    <3>2. CASE m # 0
      <4>1. m - 1 \in Nat /\ ~(m <= m - 1)
        BY <3>2
      <4>2. m - 1 \notin Bad
        BY <2>2, <4>1
      <4> HIDE DEF SumsTo
      <4>3. QED  BY <4>1, <4>2
    <3>3. QED  BY <3>1, <3>2
  <2> DEFINE g == [s \in SUBSET S |-> More(f, s)]
  <2>4. g \in [SUBSET S -> Nat]
    <3> HIDE DEF More
    <3>1. QED  BY <1>1
  <2>5. ASSUME NEW s \in SUBSET S, Cardinality(s) <= m
        PROVE  g[s] = More(g, s)
    <3>1. CASE s = {}
      BY <3>1
    <3>2. CASE s # {}
      <4> DEFINE t == s \ {Taken(s)}
      <4>1. /\ t \in SUBSET S /\ Cardinality(t) = Cardinality(s) - 1
            /\ Cardinality(s) \in Nat /\ Cardinality(t) \in Nat
        BY <3>2, OneLess
      <4> HIDE DEF t
      <4>2. m \in Nat /\ m # 0 /\ Cardinality(t) <= m - 1
        BY <2>5, <4>1
      <4>3. f[t] = More(f, t)
        BY <2>3, <4>1, <4>2
      <4>4. g[t] = More(f, t)
        BY <4>1
      <4>5. g[s] = ext[Taken(s)] + f[t] /\ More(g, s) = ext[Taken(s)] + g[t]
        BY <3>2 DEF t
      <4>6. QED  BY <4>3, <4>4, <4>5
    <3>3. QED  BY <3>1, <3>2
  <2>6. SumsTo(m, g)
    <3> HIDE DEF g, More
    <3>1. QED  BY <2>5
  <2> HIDE DEF g, SumsTo
  <2>7. QED  BY <2>2, <2>4, <2>6
<1>3. Cardinality(S) \in Nat
  BY FS_CardinalityType
<1>4. PICK f \in [SUBSET S -> Nat] : SumsTo(Cardinality(S), f)
  <2> HIDE DEF SumsTo
  <2>1. QED  BY <1>2, <1>3
<1>5. ASSUME NEW s \in SUBSET S
      PROVE  f[s] = More(f, s)
  <2>1. Cardinality(s) <= Cardinality(S)
    BY FS_Subset
  <2>2. QED  BY <1>4, <2>1
<1>6. f = [s \in SUBSET S |-> More(f, s)]
  <2> HIDE DEF More
  <2>1. QED  BY <1>5
<1>7. QED  BY <1>6 DEF IsSum

\* Two such functions agree on a set where what they sum does.
LEMMA SumsAgree ==
  ASSUME NEW S, NEW T, NEW f, NEW g, NEW d, NEW e,
         IsSum(f, S, d), IsSum(g, T, e),
         NEW U, IsFiniteSet(U), U \subseteq S, U \subseteq T,
         \A x \in U : d[x] = e[x]
  PROVE  f[U] = g[U]
<1> DEFINE Bad == {k \in Nat : \E u \in SUBSET U : Cardinality(u) = k /\ f[u] # g[u]}
<1>1. Bad = {}
  <2>1. SUFFICES ASSUME Bad # {}
                 PROVE  FALSE
    OBVIOUS
  <2>2. PICK m \in Bad : \A k \in Bad : m <= k
    <3>1. Bad \in SUBSET Nat
      OBVIOUS
    <3> HIDE DEF Bad
    <3>2. QED  BY <2>1, <3>1, Smallest
  <2>3. PICK u \in SUBSET U : Cardinality(u) = m /\ f[u] # g[u]
    BY <2>2
  <2>4. /\ f[u] = IF u = {} THEN 0 ELSE d[Taken(u)] + f[u \ {Taken(u)}]
        /\ g[u] = IF u = {} THEN 0 ELSE e[Taken(u)] + g[u \ {Taken(u)}]
    <3>1. u \in SUBSET S /\ u \in SUBSET T
      OBVIOUS
    <3>2. QED  BY <3>1 DEF IsSum
  <2>5. u # {}
    BY <2>3, <2>4
  <2> DEFINE v == u \ {Taken(u)}
  <2>6. /\ Taken(u) \in U /\ v \in SUBSET U
        /\ Cardinality(v) = m - 1 /\ Cardinality(v) \in Nat
    BY <2>3, <2>5, OneLess
  <2>7. f[v] # g[v]
    BY <2>3, <2>4, <2>5, <2>6
  <2> HIDE DEF v
  <2>8. m - 1 \in Bad
    BY <2>6, <2>7
  <2>9. m \in Nat /\ m <= m - 1
    BY <2>2, <2>8
  <2>10. QED  BY <2>9
<1>2. Cardinality(U) \in Nat
  BY FS_CardinalityType
<1>3. QED  BY <1>1, <1>2

\* The order does not matter.
Summed(f, S, ext) ==
  /\ IsFiniteSet(S) /\ ext \in [S -> Nat]
  /\ f \in [SUBSET S -> Nat] /\ IsSum(f, S, ext)

Takes(f, S, ext) ==
  \A s \in SUBSET S : \A x \in s : f[s] = ext[x] + f[s \ {x}]

LEMMA SumsTake ==
  ASSUME NEW S, NEW ext, NEW f, Summed(f, S, ext)
  PROVE  Takes(f, S, ext)
<1> DEFINE Right(t, z) == f[t] = ext[z] + f[t \ {z}]
           Bad == {k \in Nat :
                     \E t \in SUBSET S : Cardinality(t) = k
                                         /\ \E z \in t : ~Right(t, z)}
<1>0. /\ IsFiniteSet(S) /\ ext \in [S -> Nat]
      /\ f \in [SUBSET S -> Nat] /\ IsSum(f, S, ext)
  BY DEF Summed
<1>1. Bad = {}
  <2>1. SUFFICES ASSUME Bad # {}
                 PROVE  FALSE
    OBVIOUS
  <2>2. PICK m \in Bad : \A k \in Bad : m <= k
    <3>1. Bad \in SUBSET Nat
      OBVIOUS
    <3> HIDE DEF Bad
    <3>2. QED  BY <2>1, <3>1, Smallest
  <2>3. PICK t \in SUBSET S : Cardinality(t) = m /\ \E z \in t : ~Right(t, z)
    BY <2>2
  <2>4. PICK v \in t : ~Right(t, v)
    BY <2>3
  <2> DEFINE y == Taken(t)
  <2>5. y \in t /\ Right(t, y)
    <3>1. t # {}
      BY <2>4
    <3>2. y \in t
      BY <1>0, <3>1, OneLess
    <3>3. f[t] = IF t = {} THEN 0 ELSE ext[y] + f[t \ {y}]
      BY <1>0 DEF IsSum
    <3>4. QED  BY <3>1, <3>2, <3>3
  <2> HIDE DEF y
  <2>6. v # y
    BY <2>4, <2>5
  <2>7. ASSUME NEW z \in t
        PROVE  /\ t \ {z} \in SUBSET S
               /\ \A w \in t \ {z} : Right(t \ {z}, w)
    <3>1. t \ {z} \in SUBSET S /\ Cardinality(t \ {z}) = m - 1 /\ m - 1 \in Nat
      <4>1. /\ t \ {z} \in SUBSET S /\ Cardinality(t \ {z}) = Cardinality(t) - 1
            /\ Cardinality(t \ {z}) \in Nat
        BY <1>0, OneLess
      <4>2. Cardinality(t) = m
        BY <2>3
      <4>3. QED  BY <4>1, <4>2
    <3>2. m - 1 \notin Bad
      <4>1. ~(m <= m - 1)
        BY <3>1
      <4> HIDE DEF Bad
      <4>2. QED  BY <2>2, <4>1
    <3> HIDE DEF Right
    <3>3. QED  BY <3>1, <3>2
  <2>8. Right(t \ {y}, v) /\ Right(t \ {v}, y)
    <3> HIDE DEF Right
    <3>1. QED  BY <2>5, <2>6, <2>7
  <2>9. (t \ {y}) \ {v} = (t \ {v}) \ {y}
    OBVIOUS
  <2> DEFINE rest == f[(t \ {v}) \ {y}]
  <2>10. rest \in Nat /\ ext[v] \in Nat /\ ext[y] \in Nat
    BY <1>0, <2>4, <2>5
  <2>11. /\ f[t] = ext[y] + f[t \ {y}] /\ f[t \ {y}] = ext[v] + rest
         /\ f[t \ {v}] = ext[y] + rest
    BY <2>5, <2>8, <2>9
  <2> HIDE DEF rest
  <2>12. f[t] = ext[v] + f[t \ {v}]
    BY <2>10, <2>11
  <2>13. QED  BY <2>4, <2>12
<1>2. \A t \in SUBSET S : Cardinality(t) \in Nat
  BY <1>0, OneLess
<1>3. QED  BY <1>1, <1>2 DEF Takes

\* The sum.
Total(ext, S) == (CHOOSE f : IsSum(f, S, ext))[S]

LEMMA TotalOf ==
  ASSUME NEW S, IsFiniteSet(S), NEW ext \in [S -> Nat], NEW g, IsSum(g, S, ext)
  PROVE  g[S] = Total(ext, S)
<1>1. PICK f : IsSum(f, S, ext)
  BY SumExists
<1> DEFINE c == CHOOSE h : IsSum(h, S, ext)
<1>2. IsSum(c, S, ext)
  BY <1>1
<1> HIDE DEF c
<1>3. g[S] = c[S]
  BY <1>2, SumsAgree
<1>4. QED  BY <1>3 DEF Total, c

LEMMA TotalEmpty ==
  ASSUME NEW ext \in [{} -> Nat]
  PROVE  Total(ext, {}) = 0
<1>1. IsFiniteSet({})
  BY FS_EmptySet
<1>2. PICK f \in [SUBSET {} -> Nat] : IsSum(f, {}, ext)
  BY <1>1, SumExists
<1>3. f[{}] = 0
  BY <1>2 DEF IsSum
<1>4. QED  BY <1>1, <1>2, <1>3, TotalOf

\* One element more.
Gains(S, x, e, d) ==
  /\ IsFiniteSet(S) /\ x \notin S /\ e \in [S \cup {x} -> Nat] /\ d \in [S -> Nat]
  /\ \A y \in S : e[y] = d[y]

LEMMA TotalGains ==
  ASSUME NEW S, NEW x, NEW e, NEW d, Gains(S, x, e, d)
  PROVE  /\ Total(e, S \cup {x}) = e[x] + Total(d, S)
         /\ Total(d, S) \in Nat
<1> DEFINE T == S \cup {x}
<1>0. /\ IsFiniteSet(S) /\ x \notin S /\ e \in [S \cup {x} -> Nat]
      /\ d \in [S -> Nat] /\ \A y \in S : e[y] = d[y]
  BY DEF Gains
<1>1. /\ IsFiniteSet(T) /\ T \ {x} = S /\ x \in T /\ T \in SUBSET T /\ S \subseteq T
      /\ e \in [T -> Nat]
  BY <1>0, FS_AddElement
<1> HIDE DEF T
<1>2. PICK g \in [SUBSET T -> Nat] : IsSum(g, T, e)
  BY <1>1, SumExists
<1>3. PICK f \in [SUBSET S -> Nat] : IsSum(f, S, d)
  BY <1>0, SumExists
<1>4. g[T] = e[x] + g[S]
  <2>1. Summed(g, T, e)
    BY <1>1, <1>2 DEF Summed
  <2>2. g[T] = e[x] + g[T \ {x}]
    <3>1. Takes(g, T, e)
      BY <2>1, SumsTake, Zenon
    <3>2. T \in SUBSET T /\ x \in T
      BY <1>1
    <3>3. QED  BY <3>1, <3>2 DEF Takes
  <2>3. QED  BY <1>1, <2>2
<1>5. g[S] = f[S]
  BY <1>0, <1>1, <1>2, <1>3, SumsAgree
<1>6. g[T] = Total(e, T)
  BY <1>1, <1>2, TotalOf
<1>7. f[S] = Total(d, S) /\ f[S] \in Nat
  BY <1>0, <1>3, TotalOf
<1>8. QED  BY <1>4, <1>5, <1>6, <1>7 DEF T

\* Integers modulo r, for any r: the prover knows division with remainder.
LEMMA Divided ==
  ASSUME NEW a \in Int, NEW r \in Nat \ {0}
  PROVE  /\ a % r \in 0 .. (r - 1) /\ a \div r \in Int
         /\ a = r * (a \div r) + (a % r)
  OBVIOUS

\* Two remainders that differ by a multiple of r are the same.
LEMMA RemaindersMeet ==
  ASSUME NEW r \in Nat \ {0}, NEW p \in Int,
         NEW x \in 0 .. (r - 1), NEW y \in 0 .. (r - 1), x = r * p + y
  PROVE  x = y
<1>1. ~(p >= 1)
  <2>1. SUFFICES ASSUME p >= 1
                 PROVE  FALSE
    OBVIOUS
  <2>2. r * p >= r
    BY <2>1, SMT
  <2>3. QED  BY <2>2
<1>2. ~(p <= -1)
  <2>1. SUFFICES ASSUME p <= -1
                 PROVE  FALSE
    OBVIOUS
  <2>2. r * p <= -r
    BY <2>1, SMT
  <2>3. QED  BY <2>2
<1>3. p = 0
  BY <1>1, <1>2
<1>4. r * 0 = 0
  OBVIOUS
<1>5. QED  BY <1>3, <1>4

LEMMA RemainderIs ==
  ASSUME NEW r \in Nat \ {0}, NEW q \in Int, NEW y \in 0 .. (r - 1)
  PROVE  (r * q + y) % r = y
<1> DEFINE a == r * q + y
           d == a \div r
           x == a % r
<1>1. r * q \in Int /\ a \in Int
  OBVIOUS
<1> HIDE DEF a
<1>2. x \in 0 .. (r - 1) /\ d \in Int /\ a = r * d + x
  BY <1>1, Divided
<1> HIDE DEF d, x
<1>3. q - d \in Int /\ r * (q - d) = r * q - r * d /\ r * d \in Int
  BY <1>2
<1>4. x = r * (q - d) + y
  <2>1. a = r * q + y
    BY DEF a
  <2>2. QED  BY <1>1, <1>2, <1>3, <2>1
<1>5. x = y
  BY <1>2, <1>3, <1>4, RemaindersMeet
<1>6. QED  BY <1>5 DEF x, a

LEMMA RemainderFirst ==
  ASSUME NEW r \in Nat \ {0}, NEW a \in Int, NEW s \in Int
  PROVE  ((a % r) + s) % r = (a + s) % r
<1> DEFINE q == a \div r
           y == a % r
           e == (y + s) \div r
           z == (y + s) % r
<1>1. q \in Int /\ y \in Int /\ a = r * q + y
  BY Divided
<1> HIDE DEF q, y
<1>2. e \in Int /\ z \in 0 .. (r - 1) /\ y + s = r * e + z
  BY <1>1, Divided
<1> HIDE DEF e, z
<1>3. q + e \in Int /\ r * (q + e) = r * q + r * e
  BY <1>1, <1>2
<1>4. a + s = r * (q + e) + z
  <2>1. r * q \in Int /\ r * e \in Int
    BY <1>1, <1>2
  <2>2. QED  BY <1>1, <1>2, <1>3, <2>1
<1>5. (a + s) % r = z
  BY <1>2, <1>3, <1>4, RemainderIs
<1>6. QED  BY <1>5 DEF z, y

----------------------------------------------------------------------------
(* The statistic of the pool's use *)

\* The lengths of the owned buffers, and their sum.
Lengths == [b \in OwnedBufs |-> Extent(b)]
Used == Total(Lengths, OwnedBufs)

LEMMA LengthsType ==
  ASSUME IInv
  PROVE  /\ Lengths \in [OwnedBufs -> Nat]
         /\ IsFiniteSet(OwnedBufs)
<1>1. \A b \in OwnedBufs : Extent(b) \in Nat
  <2>1. Tiling(allocd, offset, poolSize) /\ OwnedLinked
    BY InvariantParts DEF PoolTypes, PoolTiled, Tiling
  <2>2. \A b \in OwnedBufs : ExtentIn(allocd, offset, poolSize, b) \in Nat
    BY <2>1, ExtentsApart DEF OwnedBufs, OwnedLinked
  <2>3. QED  BY <2>2, ExtentOfPool
<1>2. QED  BY <1>1, FS_Subset, BufsAssumption DEF Lengths, OwnedBufs

\* It is the sum of the property.
LEMMA UsedIs ==
  ASSUME IInv
  PROVE  MapThenSumSet(Extent, OwnedBufs) = Used
<1> DEFINE S == OwnedBufs
           Is(f) == f = [s \in SUBSET S |->
                           IF s = {} THEN 0
                           ELSE Extent(Taken(s)) + f[s \ {Taken(s)}]]
           fold == CHOOSE f : Is(f)
<1>1. MapThenSumSet(Extent, S) = fold[S]
  BY DEF MapThenSumSet, MapThenFoldSet, Taken
<1>2. Lengths \in [S -> Nat] /\ IsFiniteSet(S)
  BY LengthsType
<1>3. \A b \in S : Lengths[b] = Extent(b)
  BY DEF Lengths
<1> HIDE DEF S
<1>4. ASSUME NEW f
      PROVE  Is(f) <=> IsSum(f, S, Lengths)
  <2> DEFINE A(s) == IF s = {} THEN 0 ELSE Extent(Taken(s)) + f[s \ {Taken(s)}]
             B(s) == IF s = {} THEN 0 ELSE Lengths[Taken(s)] + f[s \ {Taken(s)}]
  <2>1. ASSUME NEW s \in SUBSET S
        PROVE  A(s) = B(s)
    <3>1. s # {} => Taken(s) \in S
      BY <1>2, OneLess
    <3>2. QED  BY <1>3, <3>1
  <2>2. [s \in SUBSET S |-> A(s)] = [s \in SUBSET S |-> B(s)]
    <3> HIDE DEF A, B
    <3>1. QED  BY <2>1
  <2>3. QED  BY <2>2 DEF IsSum
<1>5. PICK f : IsSum(f, S, Lengths)
  BY <1>2, SumExists
<1>6. Is(fold)
  <2>1. Is(f)
    BY <1>4, <1>5
  <2> HIDE DEF Is
  <2>2. QED  BY <2>1
<1>7. IsSum(fold, S, Lengths)
  BY <1>4, <1>6
<1> HIDE DEF fold, Is
<1>8. fold[S] = Total(Lengths, S)
  BY <1>2, <1>7, TotalOf
<1>9. QED  BY <1>1, <1>8 DEF Used, S

\* The statistic is right where a pool is there; without one nothing is owned.
UsageInv == active => activeUsed = Used % SizeRange

LEMMA UsedNow ==
  ASSUME IInv, UsageInv
  PROVE  UsedBefore = Used % SizeRange
<1>1. CASE active
  BY <1>1 DEF UsageInv, UsedBefore
<1>2. CASE ~active
  <2>1. allocd = <<>> /\ OwnedLinked
    BY <1>2, InvariantParts DEF PoolTiled
  <2>2. OwnedBufs = {}
    BY <2>1 DEF OwnedLinked, OwnedBufs, ToSet
  <2>3. Used = 0
    BY <2>2, LengthsType, TotalEmpty DEF Used
  <2>4. 0 % SizeRange = 0
    BY SizeRangeAssumption
  <2>5. QED  BY <1>2, <2>3, <2>4 DEF UsedBefore
<1>3. QED  BY <1>1, <1>2

\* Steps that hand out nothing and take nothing back.
LEMMA UsageStays ==
  ASSUME IInv, UsageInv, owner' = owner,
         \A c \in OwnedBufs : Extent(c)' = Extent(c), activeUsed' = UsedBefore
  PROVE  UsageInv'
<1>1. OwnedBufs' = OwnedBufs
  BY DEF OwnedBufs
<1>2. Lengths' = Lengths
  BY <1>1 DEF Lengths
<1>3. Used' = Used
  BY <1>1, <1>2 DEF Used
<1>4. QED  BY <1>3, UsedNow DEF UsageInv

\* A buffer is handed out.
LEMMA UsageGains ==
  ASSUME IInv, UsageInv, NEW g \in Groups, AcquireFromPool(g),
         "alloc_buffer" \notin Faults
  PROVE  UsageInv'
<1>1. PICK b \in Bufs : Place(b, size[g]) /\ owner' = [owner EXCEPT ![b] = g]
  BY DEF AcquireFromPool
<1>2. /\ PoolTypes /\ PoolTiled /\ OwnedLinked /\ size[g] \in Sizes
      /\ owner \in [Bufs -> Groups \cup {NoGroup}] /\ NoGroup \notin Groups
  BY InvariantParts, GroupsAssumption DEF IInv, TypeOK, Sizes
<1>3. owner[b] = NoGroup
  BY <1>1, <1>2, PlaceTiles DEF Sizes
<1>4. /\ \A c \in OwnedBufs : Extent(c)' = Extent(c)
      /\ Extent(b)' = size[g]
  BY <1>1, <1>2, PlaceExtents DEF OwnedBufs
<1>5. b \notin OwnedBufs /\ OwnedBufs' = OwnedBufs \cup {b}
  BY <1>1, <1>2, <1>3 DEF OwnedBufs
<1>6. Lengths \in [OwnedBufs -> Nat] /\ IsFiniteSet(OwnedBufs)
  BY LengthsType
<1>7. /\ Lengths' \in [OwnedBufs \cup {b} -> Nat]
      /\ Lengths'[b] = size[g]
      /\ \A c \in OwnedBufs : Lengths'[c] = Lengths[c]
  <2> DEFINE l == Lengths'
  <2>1. l = [c \in OwnedBufs \cup {b} |-> Extent(c)']
    BY <1>5 DEF Lengths
  <2>2. \A c \in OwnedBufs : Lengths[c] = Extent(c) /\ Lengths[c] \in Nat
    BY <1>6 DEF Lengths
  <2> HIDE DEF l
  <2>3. \A c \in OwnedBufs \cup {b} : Extent(c)' \in Nat
    BY <1>2, <1>4, <2>2 DEF Sizes
  <2>4. /\ l \in [OwnedBufs \cup {b} -> Nat] /\ l[b] = size[g]
        /\ \A c \in OwnedBufs : l[c] = Lengths[c]
    BY <1>4, <2>1, <2>2, <2>3
  <2>5. QED  BY <2>4 DEF l
<1>8. Used' = size[g] + Used /\ Used \in Nat
  <2> DEFINE l == Lengths'
  <2>1. /\ l \in [OwnedBufs \cup {b} -> Nat]
        /\ l[b] = size[g]
        /\ \A c \in OwnedBufs : l[c] = Lengths[c]
    BY <1>7
  <2>2. Used' = Total(l, OwnedBufs \cup {b})
    BY <1>5 DEF Used
  <2>3. b \notin OwnedBufs /\ IsFiniteSet(OwnedBufs) /\ Lengths \in [OwnedBufs -> Nat]
    BY <1>5, <1>6
  <2> HIDE DEF l
  <2>4. /\ Total(l, OwnedBufs \cup {b}) = l[b] + Total(Lengths, OwnedBufs)
        /\ Total(Lengths, OwnedBufs) \in Nat
    <3>1. Gains(OwnedBufs, b, l, Lengths)
      BY <2>1, <2>3 DEF Gains
    <3>2. QED  BY <3>1, TotalGains, Zenon
  <2>5. QED  BY <2>1, <2>2, <2>4 DEF Used
<1>9. activeUsed' = (UsedBefore + size[g]) % SizeRange
  BY DEF AcquireFromPool
<1>10. activeUsed' = (Used + size[g]) % SizeRange
  <2>1. UsedBefore = Used % SizeRange
    BY UsedNow
  <2>2. Used \in Int /\ size[g] \in Int /\ SizeRange \in Nat \ {0}
    BY <1>2, <1>8, SizeRangeAssumption DEF Sizes
  <2>3. ((Used % SizeRange) + size[g]) % SizeRange = (Used + size[g]) % SizeRange
    BY <2>2, RemainderFirst
  <2>4. QED  BY <1>9, <2>1, <2>3
<1>11. size[g] + Used = Used + size[g]
  BY <1>2, <1>8 DEF Sizes
<1>12. QED  BY <1>8, <1>10, <1>11 DEF UsageInv

\* A buffer is taken back.
LEMMA UsageLoses ==
  ASSUME IInv, UsageInv, NEW b \in Bufs, owner[b] # NoGroup, NEW flags,
         ReturnToPool(b, flags)
  PROVE  UsageInv'
<1>1. /\ owner' = [owner EXCEPT ![b] = NoGroup]
      /\ activeUsed' = (activeUsed - Reclaimed(b)) % SizeRange
  BY DEF ReturnToPool
<1>2. /\ PoolTypes /\ PoolTiled /\ OwnedLinked
      /\ owner \in [Bufs -> Groups \cup {NoGroup}]
  BY InvariantParts DEF IInv, TypeOK
<1> DEFINE S == OwnedBufs \ {b}
<1>3. OwnedBufs' = S /\ b \notin S /\ OwnedBufs = S \cup {b}
  BY <1>1, <1>2 DEF OwnedBufs
<1>4. \A c \in S : Extent(c)' = Extent(c)
  BY <1>2, ReturnExtents DEF OwnedBufs
<1>5. Reclaimed(b) = Extent(b)
  BY DEF Reclaimed, Extent
<1>6. Lengths \in [S \cup {b} -> Nat] /\ IsFiniteSet(S)
  BY <1>3, LengthsType, FS_RemoveElement
<1>7. active
  <2>1. allocd # <<>>
    BY <1>2 DEF OwnedLinked, ToSet
  <2>2. QED  BY <1>2, <2>1 DEF PoolTiled
<1> HIDE DEF S
<1>8. Lengths' = [c \in S |-> Lengths[c]]
  BY <1>3, <1>4 DEF Lengths
<1>9. Lengths[b] = Extent(b) /\ Extent(b) \in Nat
  BY <1>3, <1>6 DEF Lengths
<1>10. Used = Extent(b) + Used' /\ Used' \in Nat
  <2> DEFINE l == Lengths'
  <2>1. l \in [S -> Nat] /\ \A c \in S : Lengths[c] = l[c]
    BY <1>6, <1>8
  <2>2. Used' = Total(l, S)
    BY <1>3 DEF Used
  <2>3. Used = Total(Lengths, S \cup {b})
    BY <1>3 DEF Used
  <2>4. b \notin S /\ IsFiniteSet(S) /\ Lengths \in [S \cup {b} -> Nat]
    BY <1>3, <1>6
  <2> HIDE DEF l
  <2>5. /\ Total(Lengths, S \cup {b}) = Lengths[b] + Total(l, S)
        /\ Total(l, S) \in Nat
    <3>1. Gains(S, b, Lengths, l)
      BY <2>1, <2>4 DEF Gains
    <3>2. QED  BY <3>1, TotalGains, Zenon
  <2>6. QED  BY <1>9, <2>2, <2>3, <2>5
<1>11. activeUsed = Used % SizeRange
  BY <1>7 DEF UsageInv
<1> DEFINE u == Used
           v == Used'
           e == Extent(b)
<1>12. activeUsed' = ((u % SizeRange) + (-e)) % SizeRange
  <2>1. u % SizeRange \in Int
    BY <1>9, <1>10, SizeRangeAssumption, Divided
  <2>2. (u % SizeRange) - e = (u % SizeRange) + (-e)
    <3> HIDE DEF u, e
    <3>1. e \in Int
      BY <1>9 DEF e
    <3>2. QED  BY <2>1, <3>1
  <2>3. QED  BY <1>1, <1>5, <1>11, <2>2
<1>13. u \in Int /\ -e \in Int /\ u + (-e) = v
  BY <1>9, <1>10
<1> HIDE DEF u, v, e
<1>14. activeUsed' = v % SizeRange
  BY <1>12, <1>13, RemainderFirst, SizeRangeAssumption
<1>15. QED  BY <1>14 DEF UsageInv, v

\* The statistic stays right.
LEMMA StepUses ==
  ASSUME IInv, UsageInv, [Next]_vars, "alloc_buffer" \notin Faults
  PROVE  UsageInv'
<1>1. CASE Quiet
  <2>1. \A c \in OwnedBufs : Extent(c)' = Extent(c)
    BY <1>1, PoolUntouched DEF Quiet, OwnersStay, Undisturbed
  <2>2. CASE activeUsed' = UsedBefore
    BY <1>1, <2>1, <2>2, UsageStays DEF Quiet
  <2>3. CASE UNCHANGED <<active, activeUsed>>
    BY <1>1, <2>1, <2>3 DEF Quiet, UsageInv, Used, Lengths, OwnedBufs
  <2>4. QED  BY <1>1, <2>2, <2>3 DEF Quiet
<1>2. ASSUME NEW g \in Groups, Create(g)
      PROVE  UsageInv'
  <2>1. UNCHANGED <<owner, allocd, offset, poolSize, active, activeUsed>>
    BY <1>2 DEF Create, bufVars, poolVars
  <2>2. \A c \in OwnedBufs : Extent(c)' = Extent(c)
    BY <2>1, PoolUntouched DEF OwnersStay, Undisturbed
  <2>3. QED  BY <2>1, <2>2 DEF UsageInv, Used, Lengths, OwnedBufs
<1>3. ASSUME NEW g \in Groups, AcquireRefused(g)
      PROVE  UsageInv'
  <2>1. activeUsed' = UsedBefore /\ owner' = owner
    BY <1>3 DEF AcquireRefused, bufVars
  <2>2. PICK b \in Bufs : Place(b, size[g])
    BY <1>3 DEF AcquireRefused
  <2>3. PoolTypes /\ PoolTiled /\ OwnedLinked /\ size[g] \in Sizes
    BY InvariantParts DEF IInv, TypeOK, Sizes
  <2>4. \A c \in OwnedBufs : Extent(c)' = Extent(c)
    BY <2>2, <2>3, PlaceExtents DEF OwnedBufs
  <2>5. QED  BY <2>1, <2>4, UsageStays
<1>4. ASSUME NEW g \in Groups, NEW b \in Bufs, NEW flags,
             owner[b] = g /\ ReturnToPool(b, flags)
      PROVE  UsageInv'
  <2>1. owner[b] # NoGroup
    BY <1>4, GroupsAssumption
  <2>2. QED  BY <1>4, <2>1, UsageLoses
<1>5. QED  BY <1>1, <1>2, <1>3, <1>4, PoolSteps, UsageGains

\* statistics.active_used is what the groups own, modulo the range of size_t,
\* as long as alloc_buffer never fails: a buffer that gets a larger hole than it
\* asked for is added with its request and taken off with its extent.
THEOREM UsageStaysRight ==
  "alloc_buffer" \notin Faults /\ Spec => []UsageStatistic
<1> SUFFICES ASSUME "alloc_buffer" \notin Faults
             PROVE  Spec => []UsageStatistic
  OBVIOUS
<1>1. Init => UsageInv
  BY DEF Init, UsageInv
<1>2. IInv /\ UsageInv /\ [Next]_vars => UsageInv'
  BY StepUses
<1>3. IInv /\ UsageInv => UsageStatistic
  BY UsedIs DEF UsageInv, UsageStatistic, OwnedBufs
<1>4. QED  BY <1>1, <1>2, <1>3, Invariance, PTL DEF Spec

============================================================================
