--------------------------- MODULE SwapChainProofs ---------------------------
(***************************************************************************)
(* Theorems about a window's body in the Wayland driver, for every set of  *)
(* buffers, areas and requests, every capacity of the damage cache and     *)
(* every set of faults.                                                    *)
(*                                                                         *)
(* The driver is one client of the shared-memory manager: every step of it *)
(* is a step of the manager or leaves the manager alone, so all that is    *)
(* proved of the manager holds of the composition.  What the driver adds   *)
(* is an account of the buffers in use: each is the pending one, or with   *)
(* the compositor, or in the hands of an smm_acquire that has not          *)
(* returned, and it is only one of these.                                  *)
(*                                                                         *)
(* What LVGL draws to is up to date: a buffer acquired gets the damage     *)
(* recorded since it was drawn last, or else the whole of the latest one.  *)
(* The last sections prove this from the history of the buffers and the    *)
(* ring of areas, under the conditions that the driver relies on.          *)
(***************************************************************************)
EXTENDS SwapChain, SmmGroupProofs

\* The buffer in the hands of smm_acquire: it is being initialised, or it is
\* released because it could not be.
InHand == IF call.op \in {"init", "release"} THEN {call.buf} ELSE {}

\* A call of the manager in progress is one of the body's, and smm_acquire
\* calls sme_init_buffer only from a flush without a pending buffer.
CallOK ==
  \/ call = Idle
  \/ /\ call.op \in {"init", "release", "trim", "resize"}
     /\ call.grp = Body /\ Body \in live
     /\ call.op = "init" => stage = "flush" /\ pending = NoBuf
     /\ call.op \in {"init", "release"} => call.buf \in Bufs

\* What the group of the body has in use, during a call too.
AccountOK ==
  /\ pending \in Bufs \cup {NoBuf}
  /\ held \in Seq(Bufs)
  /\ inuse[Body] = ToSet(held) \cup ({pending} \ {NoBuf}) \cup InHand
  /\ pending \notin ToSet(held) /\ IsInjective(held)
  /\ InHand \cap (ToSet(held) \cup {pending}) = {}

\* What the control state of LVGL's thread says of the window: a frame that
\* is not over has an area left to flush.
StageOK ==
  /\ stage \in {"closed", "opening", "between", "frame", "flush"}
  /\ configured \in BOOLEAN /\ last \in BOOLEAN
  /\ flushes \in 0 .. FrameAreas
  /\ Body \in live <=> stage # "closed"
  /\ stage \in {"closed", "opening"} => ~configured /\ pending = NoBuf
  /\ stage = "between" /\ configured => pending = NoBuf
  /\ stage # "flush" => flushes < FrameAreas
  /\ stage = "flush" /\ flushes = FrameAreas => last

ClientInv == CallOK /\ AccountOK /\ StageOK

----------------------------------------------------------------------------
(* The driver as a client of the manager *)

\* Every step of the driver is a step of the manager, or none.
LEMMA ChainSteps ==
  ASSUME IInv, CallOK, [ChainNext]_chainVars
  PROVE  [Next]_vars
<1>1. /\ Body \in Groups
      /\ inuse[Body] \subseteq Bufs
  BY BodyAssumption DEF IInv, TypeOK
<1>2. CASE OpenWindow
  BY <1>1, <1>2 DEF OpenWindow, Next, Calls
<1>3. ASSUME NEW sz \in Requests, ResizeWindow(sz)
      PROVE  Next
  BY <1>1, <1>3 DEF ResizeWindow, Next, Calls
<1>4. ASSUME NEW b, call = Idle, Release(Body, b)
      PROVE  Next
  <2>1. b \in Bufs
    BY <1>1, <1>4 DEF Release
  <2>2. QED  BY <1>1, <1>4, <2>1 DEF Next, Calls
<1>5. ASSUME NEW i, BufferRelease(i)
      PROVE  Next
  BY <1>4, <1>5 DEF BufferRelease, Between
<1>6. CASE FlushSkip
  BY <1>4, <1>6 DEF FlushSkip, Flushing
<1>7. CASE FlushAcquire \/ FlushAcquireNew \/ FlushAcquireFails
  BY <1>1, <1>7 DEF FlushAcquire, FlushAcquireNew, FlushAcquireFails, Next, Calls
<1>8. CASE InitMap
  <2>1. call.buf \in Bufs
    BY <1>8 DEF InitMap, CallOK, Idle
  <2>2. QED  BY <1>8, <2>1 DEF InitMap, Next, Calls
<1>9. ASSUME NEW b \in Bufs, InitDone(b) \/ InitFails(b)
      PROVE  Next
  BY <1>1, <1>9 DEF InitDone, InitFails, Next, Proceed
<1>10. CASE Manager
  BY <1>10 DEF Manager, Next
<1>11. ASSUME NEW a, NEW isLast,
              \/ ToplevelConfigure \/ SurfaceConfigure \/ Flush(a, isLast)
              \/ FlushDraw \/ UNCHANGED chainVars
       PROVE  UNCHANGED vars
  BY <1>11 DEF ToplevelConfigure, SurfaceConfigure, Flush, FlushDraw, chainVars
<1>12. QED
  BY <1>2, <1>3, <1>5, <1>6, <1>7, <1>8, <1>9, <1>10, <1>11
     DEF ChainNext, FlushSteps

----------------------------------------------------------------------------
(* The account of the buffers in use *)

\* The record of a call.
LEMMA CallRecord ==
  /\ Idle.op = "idle"
  /\ \A op, g, b : /\ Doing(op, g, b).op = op
                   /\ Doing(op, g, b).grp = g
                   /\ Doing(op, g, b).buf = b
  BY DEF Idle, Doing

\* What a step of a call in progress does to the body's buffers in use.
LEMMA ManagerStep ==
  ASSUME IInv, CallOK, Manager
  PROVE  /\ live' = live
         /\ \/ inuse'[Body] = inuse[Body] /\ call' = call
            \/ /\ inuse'[Body] = inuse[Body] /\ call' = Idle
               /\ call.op \in {"trim", "resize"}
            \/ /\ call.op = "release"
               /\ inuse'[Body] = inuse[Body] \ {call.buf}
               /\ call' = Idle \/ call' = Doing("trim", Body, NoBuf)
<1>1. /\ Proceed /\ call.op # "init"
      /\ call # Idle /\ call.grp = Body /\ Body \in Groups
      /\ call.op \in {"release", "trim", "resize"}
  <2>1. Proceed /\ call.op # "init"
    BY DEF Manager
  <2>2. call # Idle
    BY <2>1, CallRecord
       DEF Proceed, Trim, TrimDone, ResizeUnused, ResizeInUse, DestroyUnused,
           DestroyDone, Destroying, InitBuffer, InitBufferFails, DestroyInUse
  <2>3. QED  BY <2>1, <2>2, BodyAssumption DEF CallOK
<1>2. ASSUME NEW g, Trim(g) \/ ResizeUnused(g)
      PROVE  live' = live /\ inuse' = inuse /\ call' = call
  BY <1>2 DEF Trim, ResizeUnused, ReturnUnused
<1>3. ASSUME NEW g, TrimDone(g) \/ ResizeInUse(g)
      PROVE  /\ live' = live /\ inuse' = inuse /\ call' = Idle
             /\ call.op \in {"trim", "resize"}
  BY <1>3, CallRecord DEF TrimDone, ResizeInUse, queueVars
<1>4. ASSUME NEW g, NEW b, Destroying(g) \/ InitBuffer(g, b) \/ InitBufferFails(g, b)
      PROVE  FALSE
  BY <1>1, <1>4, CallRecord DEF Destroying, InitBuffer, InitBufferFails
<1>5. ASSUME NEW g, NEW b, Release(g, b)
      PROVE  /\ live' = live
             /\ call.op = "release"
             /\ inuse'[Body] = inuse[Body] \ {call.buf}
             /\ call' = Idle \/ call' = Doing("trim", Body, NoBuf)
  <2>1. call = Doing("release", g, b)
    BY <1>1, <1>5 DEF Release
  <2>2. g = Body /\ call.buf = b /\ call.op = "release"
    BY <1>1, <2>1, CallRecord
  <2>3. /\ inuse' = [inuse EXCEPT ![g] = @ \ {b}]
        /\ live' = live
        /\ call' = Idle \/ call' = Doing("trim", g, NoBuf)
    BY <1>5 DEF Release
  <2>4. inuse \in [Groups -> SUBSET Bufs]
    BY DEF IInv, TypeOK
  <2>5. QED  BY <1>1, <2>2, <2>3, <2>4
<1>6. QED
  BY <1>1, <1>2, <1>3, <1>4, <1>5
     DEF Proceed, DestroyUnused, DestroyDone, DestroyInUse

\* A step that leaves the account alone.
LEMMA AccountStays ==
  ASSUME AccountOK, inuse'[Body] = inuse[Body], InHand' = InHand,
         pending' = pending, held' = held
  PROVE  AccountOK'
  BY DEF AccountOK

\* Removing an element from a queue without repetitions.
LEMMA Removed ==
  ASSUME NEW s \in Seq(Bufs), IsInjective(s), NEW i \in 1 .. Len(s)
  PROVE  /\ s[i] \in Bufs /\ s[i] \in ToSet(s)
         /\ RemoveAt(s, i) \in Seq(Bufs) /\ IsInjective(RemoveAt(s, i))
         /\ ToSet(RemoveAt(s, i)) = ToSet(s) \ {s[i]}
<1> DEFINE t == RemoveAt(s, i)
           n == Len(s)
           from(j) == IF j < i THEN j ELSE j + 1
<1>1. /\ n \in Nat /\ DOMAIN s = 1 .. n
      /\ \A j \in 1 .. n : s[j] \in Bufs /\ s[j] \in ToSet(s)
  BY EmptyList
<1>2. /\ t \in Seq(Bufs) /\ Len(t) = n - 1
      /\ \A j \in 1 .. (n - 1) : t[j] = s[from(j)]
  BY RemoveAtSeq
<1>3. i \in 1 .. n
  OBVIOUS
<1>4. \A j \in 1 .. (n - 1) : from(j) \in 1 .. n /\ from(j) # i
  BY <1>1, <1>3
<1>5. \A j, k \in 1 .. (n - 1) : from(j) = from(k) => j = k
  BY <1>1, <1>3
<1>6. \A k \in 1 .. n : k # i => \E j \in 1 .. (n - 1) : from(j) = k
  <2>1. ASSUME NEW k \in 1 .. n, k # i
        PROVE  \E j \in 1 .. (n - 1) : from(j) = k
    <3>1. CASE k < i
      BY <1>1, <1>3, <3>1
    <3>2. CASE ~(k < i)
      <4>1. k - 1 \in 1 .. (n - 1) /\ from(k - 1) = k
        BY <1>1, <1>3, <2>1, <3>2
      <4>2. QED  BY <4>1
    <3>3. QED  BY <3>1, <3>2
  <2>2. QED  BY <2>1
<1> HIDE DEF t, n, from
<1>7. DOMAIN t = 1 .. (n - 1)
  BY <1>2, LenProperties
<1>8. \A j, k \in 1 .. n : s[j] = s[k] => j = k
  BY <1>1 DEF IsInjective
<1>9. /\ ToSet(t) = {t[j] : j \in 1 .. (n - 1)}
      /\ ToSet(s) = {s[j] : j \in 1 .. n}
  BY <1>1, <1>7 DEF ToSet
<1>10. IsInjective(t)
  <2>1. ASSUME NEW j \in 1 .. (n - 1), NEW k \in 1 .. (n - 1), t[j] = t[k]
        PROVE  j = k
    BY <1>2, <1>4, <1>5, <1>8, <2>1
  <2>2. QED  BY <1>7, <2>1 DEF IsInjective
<1>11. ToSet(t) = ToSet(s) \ {s[i]}
  <2>1. ToSet(t) \subseteq ToSet(s) \ {s[i]}
    BY <1>2, <1>3, <1>4, <1>8, <1>9
  <2>2. ToSet(s) \ {s[i]} \subseteq ToSet(t)
    BY <1>2, <1>6, <1>9
  <2>3. QED  BY <2>1, <2>2
<1>12. QED  BY <1>1, <1>2, <1>3, <1>10, <1>11 DEF t, n

\* The manager's own steps: a buffer leaves the hands of smm_acquire.
LEMMA ManagerAccounts ==
  ASSUME IInv, ClientInv, Manager
  PROVE  ClientInv'
<1>1. CallOK /\ AccountOK /\ StageOK
  BY DEF ClientInv
<1>2. UNCHANGED <<pending, configured, held, stage, last, flushes>>
  BY DEF Manager, clientVars, bodyVars, lvglVars
<1>3. live' = live
  BY <1>1, ManagerStep
<1>4. StageOK'
  BY <1>1, <1>2, <1>3 DEF StageOK
<1>5. CASE inuse'[Body] = inuse[Body] /\ call' = call
  <2>1. AccountOK'
    BY <1>1, <1>2, <1>5, AccountStays DEF InHand
  <2>2. CallOK'
    BY <1>1, <1>2, <1>3, <1>5 DEF CallOK
  <2>3. QED  BY <1>4, <2>1, <2>2 DEF ClientInv
<1>6. CASE /\ inuse'[Body] = inuse[Body] /\ call' = Idle
           /\ call.op \in {"trim", "resize"}
  <2>1. AccountOK'
    BY <1>1, <1>2, <1>6, AccountStays, CallRecord DEF InHand
  <2>2. QED  BY <1>4, <1>6, <2>1 DEF ClientInv, CallOK
<1>7. CASE /\ call.op = "release"
           /\ inuse'[Body] = inuse[Body] \ {call.buf}
           /\ call' = Idle \/ call' = Doing("trim", Body, NoBuf)
  <2>1. InHand = {call.buf} /\ InHand' = {}
    BY <1>7, CallRecord DEF InHand
  <2>2. AccountOK'
    BY <1>1, <1>2, <1>7, <2>1 DEF AccountOK
  <2>3. CallOK'
    BY <1>1, <1>3, <1>7, CallRecord DEF CallOK
  <2>4. QED  BY <1>4, <2>2, <2>3 DEF ClientInv
<1>8. QED  BY <1>1, <1>5, <1>6, <1>7, ManagerStep

\* smm_acquire takes a buffer that the body does not have in use.
LEMMA AcquireTakes ==
  ASSUME IInv, AcquireUnused(Body) \/ AcquireFromPool(Body)
  PROVE  /\ live' = live /\ Body \in live /\ call = Idle
         /\ \E b \in Bufs : /\ b \notin inuse[Body]
                            /\ inuse'[Body] = inuse[Body] \cup {b}
                            /\ call' = Doing("init", Body, b)
<1>1. /\ Body \in Groups
      /\ inuse \in [Groups -> SUBSET Bufs] /\ unused[Body] \in Seq(Bufs)
      /\ PoolTypes /\ PoolTiled /\ OwnedLinked /\ QueuesAt(Body)
      /\ size[Body] \in Sizes
  BY BodyAssumption, InvariantParts DEF IInv, TypeOK, Sizes
<1>2. live' = live /\ Body \in live /\ call = Idle
  BY DEF AcquireUnused, AcquireFromPool
<1>3. CASE AcquireUnused(Body)
  <2>1. Head(unused[Body]) \in ToSet(unused[Body]) /\ Head(unused[Body]) \in Bufs
    BY <1>1, <1>3, Dequeued DEF AcquireUnused, QueuesAt
  <2>2. Head(unused[Body]) \notin inuse[Body]
    BY <1>1, <2>1 DEF QueuesAt
  <2>3. /\ inuse' = [inuse EXCEPT ![Body] = @ \cup {Head(unused[Body])}]
        /\ call' = Doing("init", Body, Head(unused[Body]))
    BY <1>3 DEF AcquireUnused
  <2>4. QED  BY <1>1, <1>2, <2>1, <2>2, <2>3
<1>4. CASE AcquireFromPool(Body)
  <2>1. PICK b \in Bufs :
          /\ Place(b, size[Body])
          /\ inuse' = [inuse EXCEPT ![Body] = @ \cup {b}]
          /\ call' = Doing("init", Body, b)
    BY <1>4 DEF AcquireFromPool
  <2>2. owner[b] = NoGroup
    BY <1>1, <2>1, PlaceTiles DEF Sizes
  <2>3. b \notin inuse[Body]
    BY <1>1, <2>2, GroupsAssumption DEF QueuesAt, Owned
  <2>4. QED  BY <1>1, <1>2, <2>1, <2>3
<1>5. QED  BY <1>3, <1>4

\* The flush callback acquires a buffer.
LEMMA AcquireAccounts ==
  ASSUME IInv, ClientInv, FlushAcquire \/ FlushAcquireNew
  PROVE  ClientInv'
<1>1. /\ CallOK /\ AccountOK /\ StageOK
      /\ stage = "flush" /\ pending = NoBuf
      /\ UNCHANGED <<pending, configured, held, stage, last, flushes>>
  BY DEF ClientInv, FlushAcquire, FlushAcquireNew, Flushing, clientVars,
         bodyVars, lvglVars
<1>2. AcquireUnused(Body) \/ AcquireFromPool(Body)
  BY DEF FlushAcquire, FlushAcquireNew
<1>3. /\ live' = live /\ Body \in live /\ call = Idle
  BY <1>2, AcquireTakes
<1>4. PICK b \in Bufs : /\ b \notin inuse[Body]
                        /\ inuse'[Body] = inuse[Body] \cup {b}
                        /\ call' = Doing("init", Body, b)
  BY <1>2, AcquireTakes
<1>5. InHand = {} /\ InHand' = {b}
  BY <1>3, <1>4, CallRecord DEF InHand
<1>6. b # NoBuf
  BY <1>4, GroupsAssumption
<1>7. AccountOK'
  BY <1>1, <1>4, <1>5, <1>6 DEF AccountOK
<1>8. CallOK'
  BY <1>1, <1>3, <1>4, CallRecord DEF CallOK
<1>9. StageOK'
  BY <1>1, <1>3 DEF StageOK
<1>10. QED  BY <1>7, <1>8, <1>9 DEF ClientInv

\* A step that leaves the manager and the account alone, in which no call of
\* smm_acquire is in progress.
LEMMA IdleAccounts ==
  ASSUME ClientInv, call' = call, live' = live, inuse'[Body] = inuse[Body],
         call = Idle, pending' = pending, held' = held
  PROVE  CallOK' /\ AccountOK'
BY AccountStays DEF ClientInv, CallOK, InHand

\* The flush callback returns: after the last area of a frame no area has
\* been flushed, and before it one is left.
LEMMA FlushOver ==
  ASSUME StageOK, stage = "flush", FlushReady, live' = live,
         configured' = configured, last /\ configured => pending' = NoBuf
  PROVE  StageOK'
<1>1. /\ stage' = IF last THEN "between" ELSE "frame"
      /\ flushes' = IF last THEN 0 ELSE flushes
      /\ last' = FALSE
  BY DEF FlushReady
<1>2. FrameAreas \in Nat \ {0} /\ flushes \in 0 .. FrameAreas
  BY CapacityAssumption DEF StageOK
<1>3. flushes' \in 0 .. FrameAreas /\ flushes' < FrameAreas
  BY <1>1, <1>2 DEF StageOK
<1>4. stage' \in {"between", "frame"} /\ (stage' = "between" => last)
  BY <1>1
<1>5. last' \in BOOLEAN /\ configured' \in BOOLEAN /\ Body \in live'
  BY <1>1 DEF StageOK
<1>6. QED  BY <1>3, <1>4, <1>5 DEF StageOK

\* smm_release of a buffer in use, outside smm_acquire.
LEMMA ReleaseTakes ==
  ASSUME IInv, call = Idle, NEW b, Release(Body, b)
  PROVE  /\ live' = live
         /\ inuse'[Body] = inuse[Body] \ {b}
         /\ call' = Idle \/ call' = Doing("trim", Body, NoBuf)
<1>1. Body \in Groups /\ inuse \in [Groups -> SUBSET Bufs]
  BY BodyAssumption DEF IInv, TypeOK
<1>2. /\ live' = live
      /\ inuse' = [inuse EXCEPT ![Body] = @ \ {b}]
      /\ call' = Idle \/ call' = Doing("trim", Body, NoBuf)
  BY DEF Release
<1>3. QED  BY <1>1, <1>2

\* create_window and resize_window.
LEMMA OpenAccounts ==
  ASSUME IInv, ClientInv, OpenWindow
  PROVE  ClientInv'
<1>1. /\ StageOK /\ stage = "closed" /\ Create(Body) /\ stage' = "opening"
      /\ UNCHANGED <<pending, configured, held, last, flushes>>
  BY DEF ClientInv, OpenWindow, bodyVars
<1>2. /\ call = Idle /\ call' = call /\ live' = live \cup {Body}
      /\ inuse' = [inuse EXCEPT ![Body] = {}]
      /\ Body \notin live
  BY <1>1 DEF Create
<1>3. /\ Body \in Groups /\ inuse \in [Groups -> SUBSET Bufs]
      /\ QueuesAt(Body)
  BY BodyAssumption, InvariantParts DEF IInv, TypeOK
<1>4. inuse[Body] = {} /\ inuse'[Body] = {}
  BY <1>2, <1>3 DEF QueuesAt
<1>5. AccountOK'
  BY <1>1, <1>2, <1>4, AccountStays DEF ClientInv, InHand
<1>6. StageOK'
  BY <1>1, <1>2 DEF StageOK
<1>7. CallOK'
  BY <1>2 DEF CallOK
<1>8. QED  BY <1>5, <1>6, <1>7 DEF ClientInv

LEMMA ResizeAccounts ==
  ASSUME IInv, ClientInv, NEW sz, ResizeWindow(sz)
  PROVE  ClientInv'
<1>1. /\ StageOK /\ stage \in {"opening", "between"} /\ stage' = "between"
      /\ UNCHANGED <<pending, configured, held, last, flushes>>
      /\ Resize(Body, sz)
  BY DEF ClientInv, ResizeWindow, Between
<1>2. /\ call = Idle /\ call' = Doing("resize", Body, NoBuf) /\ Body \in live
      /\ live' = live /\ inuse' = inuse
  BY <1>1 DEF Resize, queueVars
<1>3. AccountOK'
  BY <1>1, <1>2, AccountStays, CallRecord DEF ClientInv, InHand
<1>4. StageOK'
  BY <1>1, <1>2 DEF StageOK
<1>5. CallOK'
  BY <1>2, CallRecord DEF CallOK
<1>6. QED  BY <1>3, <1>4, <1>5 DEF ClientInv

\* The events of the compositor.
LEMMA ConfigureAccounts ==
  ASSUME ClientInv, ToplevelConfigure \/ SurfaceConfigure
  PROVE  ClientInv'
<1>1. /\ CallOK /\ AccountOK /\ StageOK
      /\ stage = "between" /\ call = Idle
      /\ UNCHANGED <<live, inuse, call, stage, last, flushes>>
  BY DEF ClientInv, ToplevelConfigure, SurfaceConfigure, Between, vars,
         queueVars, lvglVars
<1>2. CASE ToplevelConfigure
  <2>1. UNCHANGED <<pending, configured, held>>
    BY <1>2 DEF ToplevelConfigure
  <2>2. StageOK'
    BY <1>1, <2>1 DEF StageOK
  <2>3. QED  BY <1>1, <2>1, <2>2, IdleAccounts DEF ClientInv
<1>3. CASE SurfaceConfigure
  <2>1. /\ configured' = TRUE /\ pending' = NoBuf
        /\ held' = IF pending # NoBuf THEN Append(held, pending) ELSE held
    BY <1>3 DEF SurfaceConfigure
  <2>2. StageOK'
    BY <1>1, <2>1 DEF StageOK
  <2>3. CallOK' /\ InHand = {} /\ InHand' = {} /\ NoBuf \notin Bufs
    BY <1>1, CallRecord, GroupsAssumption DEF CallOK, InHand
  <2>4. CASE pending = NoBuf
    BY <1>1, <2>1, <2>2, <2>3, <2>4, IdleAccounts DEF ClientInv
  <2>5. CASE pending # NoBuf
    <3>1. /\ pending \in Bufs /\ held \in Seq(Bufs) /\ IsInjective(held)
          /\ pending \notin ToSet(held)
          /\ inuse[Body] = ToSet(held) \cup {pending}
      BY <1>1, <2>3, <2>5 DEF AccountOK
    <3>2. /\ held' \in Seq(Bufs) /\ IsInjective(held')
          /\ ToSet(held') = ToSet(held) \cup {pending}
      BY <2>1, <2>5, <3>1, Enqueued
    <3>3. ToSet(held') \subseteq Bufs
      <4>1. \A b \in ToSet(held) : \E i \in 1 .. Len(held) : held[i] = b
        BY <3>1, EmptyList
      <4>2. \A i \in 1 .. Len(held) : held[i] \in Bufs
        BY <3>1, EmptyList
      <4>3. QED  BY <3>1, <3>2, <4>1, <4>2
    <3>4. AccountOK'
      BY <1>1, <2>1, <2>3, <3>1, <3>2, <3>3 DEF AccountOK
    <3>5. QED  BY <2>2, <2>3, <3>4 DEF ClientInv
  <2>6. QED  BY <2>4, <2>5
<1>4. QED  BY <1>2, <1>3

LEMMA BufferReleaseAccounts ==
  ASSUME IInv, ClientInv, NEW i, BufferRelease(i)
  PROVE  ClientInv'
<1>1. /\ AccountOK /\ StageOK /\ call = Idle
      /\ i \in DOMAIN held /\ Release(Body, held[i])
      /\ held' = RemoveAt(held, i)
      /\ UNCHANGED <<pending, configured, stage, last, flushes>>
  BY DEF ClientInv, BufferRelease, Between, lvglVars
<1>2. /\ live' = live
      /\ inuse'[Body] = inuse[Body] \ {held[i]}
      /\ call' = Idle \/ call' = Doing("trim", Body, NoBuf)
  BY <1>1, ReleaseTakes
<1>3. /\ held \in Seq(Bufs) /\ IsInjective(held) /\ i \in 1 .. Len(held)
      /\ stage # "closed"
  BY <1>1, EmptyList DEF AccountOK, BufferRelease, Between
<1>4. stage = "between" /\ Body \in live
  BY <1>3 DEF BufferRelease, Between, ClientInv, StageOK
<1>5. /\ held[i] \in Bufs /\ held[i] \in ToSet(held)
      /\ held' \in Seq(Bufs) /\ IsInjective(held')
      /\ ToSet(held') = ToSet(held) \ {held[i]}
  BY <1>1, <1>3, Removed
<1>6. InHand = {} /\ InHand' = {}
  BY <1>1, <1>2, CallRecord DEF InHand
<1>7. AccountOK'
  BY <1>1, <1>2, <1>5, <1>6 DEF AccountOK
<1>8. CallOK'
  BY <1>2, <1>4, CallRecord DEF CallOK
<1>9. StageOK'
  BY <1>1, <1>2 DEF StageOK
<1>10. QED  BY <1>7, <1>8, <1>9 DEF ClientInv

----------------------------------------------------------------------------
(* The flush callback and the account *)

\* LVGL calls the flush callback.
LEMMA FlushAccounts ==
  ASSUME ClientInv, NEW a, NEW isLast \in BOOLEAN, Flush(a, isLast)
  PROVE  ClientInv'
<1>1. /\ CallOK /\ AccountOK /\ StageOK
      /\ call = Idle /\ stage \in {"between", "frame"} /\ stage' = "flush"
      /\ UNCHANGED <<live, inuse, call, pending, configured, held>>
      /\ flushes = FrameAreas - 1 => isLast
      /\ last' = isLast /\ flushes' = flushes + 1
  BY DEF ClientInv, Flush, vars, queueVars, bodyVars
<1>2. FrameAreas \in Nat \ {0} /\ flushes \in 0 .. FrameAreas /\ flushes < FrameAreas
  BY <1>1, CapacityAssumption DEF StageOK
<1>3. flushes' \in 0 .. FrameAreas /\ (flushes' = FrameAreas => last')
  BY <1>1, <1>2
<1>4. StageOK'
  BY <1>1, <1>3 DEF StageOK
<1>5. QED  BY <1>1, <1>4, IdleAccounts DEF ClientInv

\* It skips the area, or gets no buffer for it.
LEMMA SkipAccounts ==
  ASSUME IInv, ClientInv, FlushSkip
  PROVE  ClientInv'
<1>1. /\ CallOK /\ AccountOK /\ StageOK /\ stage = "flush" /\ call = Idle
      /\ pending' = NoBuf /\ FlushReady
      /\ UNCHANGED <<configured, held>>
  BY DEF ClientInv, FlushSkip, Flushing
<1>2. CASE pending = NoBuf
  <2>1. UNCHANGED <<live, inuse, call>>
    BY <1>2 DEF FlushSkip, vars, queueVars
  <2>2. StageOK'
    BY <1>1, <2>1, FlushOver
  <2>3. QED  BY <1>1, <1>2, <2>1, <2>2, IdleAccounts DEF ClientInv
<1>3. CASE pending # NoBuf
  <2>1. Release(Body, pending)
    BY <1>3 DEF FlushSkip
  <2>2. /\ live' = live
        /\ inuse'[Body] = inuse[Body] \ {pending}
        /\ call' = Idle \/ call' = Doing("trim", Body, NoBuf)
    BY <1>1, <2>1, ReleaseTakes
  <2>3. InHand = {} /\ InHand' = {}
    BY <1>1, <2>2, CallRecord DEF InHand
  <2>4. NoBuf \notin ToSet(held)
    BY <1>1, EmptyList, GroupsAssumption DEF AccountOK
  <2>5. AccountOK'
    BY <1>1, <1>3, <2>2, <2>3, <2>4 DEF AccountOK
  <2>6. Body \in live
    BY <1>1 DEF StageOK
  <2>7. CallOK'
    BY <2>2, <2>6, CallRecord DEF CallOK
  <2>8. StageOK'
    BY <1>1, <2>2, FlushOver
  <2>9. QED  BY <2>5, <2>7, <2>8 DEF ClientInv
<1>4. QED  BY <1>2, <1>3

LEMMA AcquireFailsAccounts ==
  ASSUME ClientInv, FlushAcquireFails
  PROVE  ClientInv'
<1>1. /\ CallOK /\ AccountOK /\ StageOK /\ stage = "flush" /\ call = Idle
      /\ pending = NoBuf /\ FlushReady
      /\ UNCHANGED <<pending, configured, held, live, inuse, call>>
  BY DEF ClientInv, FlushAcquireFails, Flushing, AcquireRefused, AcquireFails,
         queueVars, bodyVars
<1>2. StageOK'
  BY <1>1, FlushOver
<1>3. QED  BY <1>1, <1>2, IdleAccounts DEF ClientInv

\* sme_init_buffer maps the pool and brings the buffer up to date, or cannot.
LEMMA InitMapAccounts ==
  ASSUME ClientInv, InitMap
  PROVE  ClientInv'
<1>1. /\ CallOK /\ AccountOK /\ StageOK
      /\ UNCHANGED <<pending, configured, held, live, inuse, call>>
      /\ UNCHANGED <<stage, last, flushes>>
  BY DEF ClientInv, InitMap, Map, queueVars, clientVars, bodyVars, lvglVars
<1>2. AccountOK'
  BY <1>1, AccountStays DEF InHand
<1>3. CallOK' /\ StageOK'
  BY <1>1 DEF CallOK, StageOK
<1>4. QED  BY <1>2, <1>3 DEF ClientInv

LEMMA InitDoneAccounts ==
  ASSUME ClientInv, NEW b \in Bufs, InitDone(b)
  PROVE  ClientInv'
<1>1. /\ CallOK /\ AccountOK /\ StageOK
      /\ call = Doing("init", Body, b) /\ call' = Idle
      /\ pending' = b
      /\ UNCHANGED <<configured, held, live, inuse, stage, last, flushes>>
  BY DEF ClientInv, InitDone, InitBuffer, lvglVars
<1>2. stage = "flush" /\ pending = NoBuf
  BY <1>1, CallRecord DEF CallOK
<1>3. InHand = {b} /\ InHand' = {} /\ b # NoBuf
  BY <1>1, CallRecord, GroupsAssumption DEF InHand
<1>4. AccountOK'
  BY <1>1, <1>2, <1>3 DEF AccountOK
<1>5. CallOK' /\ StageOK'
  BY <1>1, <1>2 DEF CallOK, StageOK
<1>6. QED  BY <1>4, <1>5 DEF ClientInv

LEMMA InitFailsAccounts ==
  ASSUME ClientInv, NEW b \in Bufs, InitFails(b)
  PROVE  ClientInv'
<1>1. /\ CallOK /\ AccountOK /\ StageOK
      /\ call = Doing("init", Body, b) /\ call' = Doing("release", Body, b)
      /\ FlushReady
      /\ UNCHANGED <<pending, configured, held, live, inuse>>
  BY DEF ClientInv, InitFails, InitBufferFails, queueVars, bodyVars
<1>2. stage = "flush" /\ pending = NoBuf /\ Body \in live
  BY <1>1, CallRecord DEF CallOK, Idle
<1>3. InHand = {b} /\ InHand' = {b}
  BY <1>1, CallRecord DEF InHand
<1>4. AccountOK'
  BY <1>1, <1>3, AccountStays
<1>5. CallOK'
  BY <1>1, <1>2, CallRecord DEF CallOK
<1>6. StageOK'
  BY <1>1, <1>2, FlushOver
<1>7. QED  BY <1>4, <1>5, <1>6 DEF ClientInv

\* It draws, and commits the buffer with the last area of a frame.
LEMMA DrawAccounts ==
  ASSUME ClientInv, FlushDraw
  PROVE  ClientInv'
<1>1. /\ CallOK /\ AccountOK /\ StageOK /\ stage = "flush" /\ call = Idle
      /\ pending # NoBuf /\ FlushReady
      /\ UNCHANGED <<configured, live, inuse, call>>
  BY DEF ClientInv, FlushDraw, Flushing, vars, queueVars
<1>2. CASE last /\ configured
  <2>1. pending' = NoBuf /\ held' = Append(held, pending)
    BY <1>2 DEF FlushDraw
  <2>2. CallOK' /\ InHand = {} /\ InHand' = {} /\ NoBuf \notin Bufs
    BY <1>1, CallRecord, GroupsAssumption DEF CallOK, InHand
  <2>3. /\ pending \in Bufs /\ held \in Seq(Bufs) /\ IsInjective(held)
        /\ pending \notin ToSet(held)
        /\ inuse[Body] = ToSet(held) \cup {pending}
    BY <1>1, <2>2 DEF AccountOK
  <2>4. /\ held' \in Seq(Bufs) /\ IsInjective(held')
        /\ ToSet(held') = ToSet(held) \cup {pending}
    BY <2>1, <2>3, Enqueued
  <2>5. NoBuf \notin ToSet(held')
    BY <2>2, <2>4, EmptyList
  <2>6. AccountOK'
    BY <1>1, <2>1, <2>2, <2>3, <2>4, <2>5 DEF AccountOK
  <2>7. StageOK'
    BY <1>1, <2>1, FlushOver
  <2>8. QED  BY <2>2, <2>6, <2>7 DEF ClientInv
<1>3. CASE ~(last /\ configured)
  <2>1. UNCHANGED <<pending, held>>
    BY <1>3 DEF FlushDraw
  <2>2. StageOK'
    BY <1>1, <1>3, FlushOver
  <2>3. QED  BY <1>1, <2>1, <2>2, IdleAccounts DEF ClientInv
<1>4. QED  BY <1>2, <1>3

\* Every step keeps the account, and the manager's own invariant.
LEMMA ChainKeeps ==
  ASSUME IInv, ClientInv, [ChainNext]_chainVars
  PROVE  IInv' /\ ClientInv'
<1>1. IInv'
  BY ChainSteps, NextKeeps DEF ClientInv
<1>2. CASE UNCHANGED chainVars
  BY <1>1, <1>2 DEF ClientInv, CallOK, AccountOK, StageOK, InHand, chainVars, vars,
              queueVars, clientVars, bodyVars, lvglVars
<1>3. CASE ChainNext
  BY <1>1, <1>3, OpenAccounts, ConfigureAccounts, ResizeAccounts,
     BufferReleaseAccounts, FlushAccounts, SkipAccounts, AcquireAccounts,
     AcquireFailsAccounts, InitMapAccounts, InitDoneAccounts,
     InitFailsAccounts, DrawAccounts, ManagerAccounts
     DEF ChainNext, FlushSteps
<1>4. QED  BY <1>1, <1>2, <1>3

LEMMA ChainInitHolds ==
  ASSUME ChainInit
  PROVE  IInv /\ ClientInv
<1>1. /\ Init /\ pending = NoBuf /\ configured = FALSE /\ held = <<>>
      /\ stage = "closed" /\ last = FALSE /\ flushes = 0
  BY DEF ChainInit
<1>2. /\ live = {} /\ call = Idle /\ inuse = [g \in Groups |-> {}]
  BY <1>1 DEF Init
<1>3. IInv
  BY <1>1, InitHolds
<1>4. InHand = {} /\ inuse[Body] = {}
  BY <1>2, CallRecord, BodyAssumption DEF InHand
<1>5. <<>> \in Seq(Bufs) /\ ToSet(<<>>) = {} /\ IsInjective(<<>>)
  BY EmptySeq DEF ToSet, IsInjective
<1>6. AccountOK
  BY <1>1, <1>4, <1>5 DEF AccountOK
<1>7. StageOK
  <2>1. FrameAreas \in Nat \ {0} /\ flushes \in 0 .. FrameAreas /\ flushes < FrameAreas
    BY <1>1, CapacityAssumption
  <2>2. configured \in BOOLEAN /\ last \in BOOLEAN
    BY <1>1
  <2>3. QED  BY <1>1, <1>2, <2>1, <2>2 DEF StageOK
<1>8. QED  BY <1>2, <1>3, <1>6, <1>7 DEF ClientInv, CallOK

----------------------------------------------------------------------------
(* Theorems about the client *)

\* The manager's invariant and the client's hold in every reachable state.
THEOREM ChainInvariance == ChainSpec => [](IInv /\ ClientInv)
<1>1. ChainInit => IInv /\ ClientInv
  BY ChainInitHolds
<1>2. (IInv /\ ClientInv) /\ [ChainNext]_chainVars => (IInv /\ ClientInv)'
  BY ChainKeeps
<1>3. QED  BY <1>1, <1>2, PTL DEF ChainSpec

\* The driver uses the manager as it may be used: what it does to a window's
\* body is a behaviour of the manager.
THEOREM ChainRefinesManager == ChainSpec => Spec
<1>1. ChainInit => Init
  BY DEF ChainInit
<1>2. (IInv /\ ClientInv) /\ [ChainNext]_chainVars => [Next]_vars
  BY ChainSteps DEF ClientInv
<1>3. QED  BY <1>1, <1>2, ChainInvariance, PTL DEF ChainSpec, Spec

\* So the buffers that a window draws to and copies between have room for its
\* size, lie inside the mapping and do not overlap.
THEOREM ChainBuffersFit ==
  ChainSpec => [](PoolTiled /\ OwnedFits /\ HistoryCurrent /\ MapCoversPool)
BY ChainRefinesManager, PoolStaysTiled, OwnedBuffersFit, HistoryStaysCurrent,
   MappingCoversPool, PTL

\* No buffer leaks: whatever fails, and however flushes, resizes and releases
\* interleave, a buffer in use is pending or with the compositor, once.
THEOREM BuffersStayAccounted == ChainSpec => []BuffersAccounted
<1>1. IInv /\ ClientInv => BuffersAccounted
  <2> SUFFICES ASSUME ClientInv, call = Idle
               PROVE  /\ inuse[Body] = ToSet(held) \cup ({pending} \ {NoBuf})
                      /\ pending \notin ToSet(held)
                      /\ IsInjective(held)
    BY DEF BuffersAccounted
  <2>1. InHand = {}
    BY CallRecord DEF InHand
  <2>2. QED  BY <2>1 DEF ClientInv, AccountOK
<1>2. QED  BY <1>1, ChainInvariance, PTL

\* A frame that was flushed before the surface was configured does not wait
\* for an event that has already come.
THEOREM FramesStayCommitted == ChainSpec => []FrameCommitted
<1>1. IInv /\ ClientInv => FrameCommitted
  BY DEF ClientInv, StageOK, FrameCommitted
<1>2. QED  BY <1>1, ChainInvariance, PTL

----------------------------------------------------------------------------
(* Folds *)

\* The largest element of a set of places.
LEMMA Largest ==
  ASSUME NEW n \in Nat, NEW s \in SUBSET (1 .. n), s # {}
  PROVE  Max(s) \in s /\ \A y \in s : y <= Max(s)
<1> DEFINE U == {u \in 0 .. n : \A y \in s : y <= u}
<1>1. n \in U /\ U \in SUBSET Nat
  OBVIOUS
<1>2. PICK k \in U : \A u \in U : k <= u
  BY <1>1, Smallest
<1>3. k \in s
  <2>1. SUFFICES ASSUME k \notin s
                 PROVE  FALSE
    OBVIOUS
  <2>2. PICK y \in s : y \in 1 .. n /\ y <= k
    BY <1>2
  <2>3. k \in 0 .. n /\ k - 1 \in 0 .. n
    BY <1>2, <2>2
  <2>4. \A z \in s : z <= k - 1
    <3>1. ASSUME NEW z \in s
          PROVE  z <= k - 1
      <4>1. z \in 1 .. n /\ z <= k /\ z # k
        BY <1>2, <2>1
      <4>2. QED  BY <2>3, <4>1
    <3>2. QED  BY <3>1
  <2>5. k - 1 \in U
    BY <2>3, <2>4
  <2>6. k <= k - 1
    BY <1>2, <2>5
  <2>7. QED  BY <2>3, <2>6
<1>4. \A y \in s : y <= k
  BY <1>2
<1>5. QED  BY <1>3, <1>4 DEF Max

LEMMA LargestIs ==
  ASSUME NEW n \in Nat, NEW s \in SUBSET (1 .. n), n \in s
  PROVE  Max(s) = n
<1>1. Max(s) \in s /\ n <= Max(s)
  BY Largest
<1>2. Max(s) \in 1 .. n
  BY <1>1
<1>3. QED  BY <1>1, <1>2

\* f[s] is the fold over the places s, the last place last.
IsFold(f, n, base, step) ==
  \A s \in SUBSET (1 .. n) :
    f[s] = IF s = {} THEN base ELSE step[Max(s)][f[s \ {Max(s)}]]

\* A fold over the places 1 .. n is defined, whatever it does at each.
LEMMA FoldExists ==
  ASSUME NEW X, NEW base \in X, NEW n \in Nat, NEW step \in [1 .. n -> [X -> X]]
  PROVE  \E f \in [SUBSET (1 .. n) -> X] : IsFold(f, n, base, step)
<1> DEFINE Fold(m, f) == IsFold(f, m, base, step)
           Bad == {m \in 0 .. n : ~ \E f \in [SUBSET (1 .. m) -> X] : Fold(m, f)}
<1>1. SUFFICES ASSUME Bad # {}
               PROVE  FALSE
  <2>1. n \in 0 .. n
    OBVIOUS
  <2>2. Bad = {} => \E f \in [SUBSET (1 .. n) -> X] : Fold(n, f)
    BY <2>1
  <2>3. QED  BY <2>2
<1>2. Bad \in SUBSET Nat
  OBVIOUS
<1>3. PICK m \in Bad : \A k \in Bad : m <= k
  BY <1>1, <1>2, Smallest
<1>4. CASE m = 0
  <2>1. SUBSET (1 .. 0) = {{}}
    OBVIOUS
  <2>2. [s \in SUBSET (1 .. 0) |-> base] \in [SUBSET (1 .. 0) -> X]
    OBVIOUS
  <2>3. Fold(0, [s \in SUBSET (1 .. 0) |-> base])
    BY <2>1 DEF IsFold
  <2>4. QED  BY <1>3, <1>4, <2>2, <2>3
<1>5. CASE m # 0
  <2>1. m \in 1 .. n /\ m - 1 \in 0 .. n /\ ~(m <= m - 1)
    BY <1>3, <1>5
  <2>2. m - 1 \notin Bad
    BY <1>3, <2>1
  <2>3. PICK f \in [SUBSET (1 .. (m - 1)) -> X] : Fold(m - 1, f)
    BY <2>1, <2>2
  <2> DEFINE g == [s \in SUBSET (1 .. m) |->
                     IF m \in s THEN step[m][f[s \ {m}]] ELSE f[s]]
  <2>4. \A s \in SUBSET (1 .. m) :
          /\ s \ {m} \in SUBSET (1 .. (m - 1))
          /\ m \notin s => s \in SUBSET (1 .. (m - 1))
    BY <2>1
  <2>5. step[m] \in [X -> X]
    BY <2>1
  <2>6. g \in [SUBSET (1 .. m) -> X]
    BY <2>3, <2>4, <2>5
  <2>7. ASSUME NEW s \in SUBSET (1 .. m)
        PROVE  g[s] = IF s = {} THEN base ELSE step[Max(s)][g[s \ {Max(s)}]]
    <3>1. CASE m \in s
      <4>1. Max(s) = m
        BY <2>1, <3>1, LargestIs
      <4>2. s \ {m} \in SUBSET (1 .. m) /\ m \notin s \ {m}
        OBVIOUS
      <4>3. g[s \ {m}] = f[s \ {m}]
        BY <4>2
      <4>4. QED  BY <3>1, <4>1, <4>3
    <3>2. CASE m \notin s
      <4>1. s \in SUBSET (1 .. (m - 1)) /\ g[s] = f[s]
        BY <2>4, <3>2
      <4>2. s \ {Max(s)} \in SUBSET (1 .. m) /\ m \notin s \ {Max(s)}
        BY <3>2
      <4>3. g[s \ {Max(s)}] = f[s \ {Max(s)}]
        BY <4>2
      <4>4. f[s] = IF s = {} THEN base ELSE step[Max(s)][f[s \ {Max(s)}]]
        BY <2>3, <4>1 DEF IsFold
      <4>5. QED  BY <4>1, <4>3, <4>4
    <3>3. QED  BY <3>1, <3>2
  <2> HIDE DEF g
  <2>8. Fold(m, g)
    BY <2>7 DEF IsFold
  <2>9. QED  BY <1>3, <2>6, <2>8
<1>6. QED  BY <1>4, <1>5

\* What every step of a fold keeps, the fold keeps.
LEMMA FoldStays ==
  ASSUME NEW X, NEW n \in Nat, NEW f, f[{}] \in X,
         \A s \in SUBSET (1 .. n) :
           s # {} /\ f[s \ {Max(s)}] \in X => f[s] \in X
  PROVE  f[1 .. n] \in X
<1> DEFINE Bad == {m \in 0 .. n : f[1 .. m] \notin X}
<1>1. SUFFICES ASSUME Bad # {}
               PROVE  FALSE
  BY DEF Bad
<1>2. Bad \in SUBSET Nat
  OBVIOUS
<1>3. PICK m \in Bad : \A k \in Bad : m <= k
  BY <1>1, <1>2, Smallest
<1>4. m # 0
  <2>1. 1 .. 0 = {}
    OBVIOUS
  <2>2. QED  BY <1>3, <2>1
<1>5. m \in 1 .. n /\ m - 1 \in 0 .. n /\ ~(m <= m - 1)
  BY <1>3, <1>4
<1>6. f[1 .. (m - 1)] \in X
  BY <1>3, <1>5
<1>7. 1 .. m \in SUBSET (1 .. n) /\ 1 .. m # {} /\ m \in 1 .. m /\ m \in Nat
  BY <1>5
<1>8. Max(1 .. m) = m
  BY <1>7, LargestIs
<1>9. (1 .. m) \ {m} = 1 .. (m - 1)
  BY <1>5
<1>10. f[1 .. m] \in X
  BY <1>6, <1>7, <1>8, <1>9
<1>11. QED  BY <1>3, <1>10

----------------------------------------------------------------------------
(* Bringing a buffer up to date *)

Pictures == SUBSET Screen

\* Copying areas of one buffer to another, in any order.
LEMMA CopiesStay ==
  ASSUME NEW dest \in Pictures, NEW src \in Pictures,
         NEW m \in Nat, NEW seq, DOMAIN seq = 1 .. m
  PROVE  LET Copy(d, i) == (d \ CopiedBytes(cache[i]))
                              \cup (src \cap CopiedBytes(cache[i]))
         IN  FoldLeft(Copy, dest, seq) \in Pictures
<1> DEFINE Copied(d, i) == (d \ CopiedBytes(cache[i]))
                              \cup (src \cap CopiedBytes(cache[i]))
           Is(f) == f = [s \in SUBSET DOMAIN seq |->
                           IF s = {} THEN dest
                           ELSE Copied(f[s \ {Max(s)}], seq[Max(s)])]
           fold == CHOOSE f : Is(f)
           step == [k \in 1 .. m |-> [d \in Pictures |-> Copied(d, seq[k])]]
<1>1. \A d \in Pictures : \A i : Copied(d, i) \in Pictures
  BY DEF Pictures
<1>2. (LET Copy(d, i) == (d \ CopiedBytes(cache[i]))
                            \cup (src \cap CopiedBytes(cache[i]))
       IN  FoldLeft(Copy, dest, seq)) = fold[DOMAIN seq]
  BY DEF FoldLeft, MapThenFoldSet
<1> HIDE DEF Copied
<1>3. step \in [1 .. m -> [Pictures -> Pictures]]
  BY <1>1
<1>4. PICK f \in [SUBSET (1 .. m) -> Pictures] : IsFold(f, m, dest, step)
  <2> HIDE DEF step
  <2>1. QED  BY <1>3, FoldExists
<1>5. ASSUME NEW s \in SUBSET (1 .. m), s # {}
      PROVE  step[Max(s)][f[s \ {Max(s)}]] = Copied(f[s \ {Max(s)}], seq[Max(s)])
  <2>1. Max(s) \in 1 .. m
    BY <1>5, Largest
  <2>2. f[s \ {Max(s)}] \in Pictures
    OBVIOUS
  <2>3. QED  BY <2>1, <2>2
<1>6. Is(f)
  <2> HIDE DEF step
  <2>1. \A s \in SUBSET (1 .. m) :
          f[s] = IF s = {} THEN dest ELSE Copied(f[s \ {Max(s)}], seq[Max(s)])
    BY <1>4, <1>5 DEF IsFold
  <2>2. QED  BY <2>1
<1>7. Is(fold)
  <2> HIDE DEF Is
  <2>1. QED  BY <1>6
<1> HIDE DEF fold, step
<1>8. fold[{}] \in Pictures
  BY <1>7
<1>9. ASSUME NEW s \in SUBSET (1 .. m), s # {}, fold[s \ {Max(s)}] \in Pictures
      PROVE  fold[s] \in Pictures
  <2>1. fold[s] = Copied(fold[s \ {Max(s)}], seq[Max(s)])
    BY <1>7, <1>9
  <2>2. QED  BY <1>1, <1>9, <2>1
<1>10. fold[1 .. m] \in Pictures
  BY <1>8, <1>9, FoldStays
<1>11. QED  BY <1>2, <1>10

\* The distance of two places in the ring.
LEMMA RingLength ==
  ASSUME NEW i \in Position, NEW j \in Position
  PROVE  (j - i) % Capacity \in Nat
BY CapacityAssumption DEF Position

\* cache_apply_areas, with areas that are recorded.
LEMMA AppliedStays ==
  ASSUME current \in [Bufs -> Pictures], end \in Position,
         tag \in [Bufs -> Position \cup {NoTag}],
         NEW newer \in Seq(Bufs), \A n \in 1 .. Len(newer) : tag[newer[n]] # NoTag,
         NEW dest \in Pictures, NEW n \in 1 .. Len(newer)
  PROVE  Applied(dest, newer, n) \in Pictures
<1> DEFINE until == IF n = Len(newer) THEN end ELSE tag[newer[n + 1]]
           seq == Ring(tag[newer[n]], until)
           m == (until - tag[newer[n]]) % Capacity
<1>1. Len(newer) \in Nat /\ \A k \in 1 .. Len(newer) : newer[k] \in Bufs
  BY EmptyList
<1>2. current[newer[n]] \in Pictures
  BY <1>1
<1>3. \A k \in 1 .. Len(newer) : tag[newer[k]] \in Position
  BY <1>1
<1>4. until \in Position
  <2>1. CASE n = Len(newer)
    BY <2>1
  <2>2. CASE n # Len(newer)
    <3>1. n + 1 \in 1 .. Len(newer)
      BY <1>1, <2>2
    <3>2. QED  BY <1>3, <2>2, <3>1
  <2>3. QED  BY <2>1, <2>2
<1> HIDE DEF until
<1>5. m \in Nat
  BY <1>3, <1>4, RingLength
<1>6. DOMAIN seq = 1 .. m
  BY DEF Ring
<1> HIDE DEF seq, m
<1>7. LET Copy(d, i) == (d \ CopiedBytes(cache[i]))
                           \cup (current[newer[n]] \cap CopiedBytes(cache[i]))
      IN  FoldLeft(Copy, dest, seq) \in Pictures
  BY <1>2, <1>5, <1>6, CopiesStay
<1>8. QED  BY <1>7 DEF Applied, seq, until

\* The damage of every newer buffer, in order.
LEMMA AppliesStay ==
  ASSUME current \in [Bufs -> Pictures], end \in Position,
         tag \in [Bufs -> Position \cup {NoTag}],
         NEW newer \in Seq(Bufs), \A n \in 1 .. Len(newer) : tag[newer[n]] # NoTag,
         NEW dest \in Pictures
  PROVE  LET Apply(d, n) == Applied(d, newer, n)
         IN  FoldLeft(Apply, dest, [n \in 1 .. Len(newer) |-> n]) \in Pictures
<1> DEFINE m == Len(newer)
           seq == [n \in 1 .. m |-> n]
           Is(f) == f = [s \in SUBSET DOMAIN seq |->
                           IF s = {} THEN dest
                           ELSE Applied(f[s \ {Max(s)}], newer, seq[Max(s)])]
           fold == CHOOSE f : Is(f)
           step == [k \in 1 .. m |-> [d \in Pictures |-> Applied(d, newer, seq[k])]]
<1>1. m \in Nat
  BY EmptyList
<1>2. \A d \in Pictures : \A k \in 1 .. m : Applied(d, newer, k) \in Pictures
  BY AppliedStays
<1>3. (LET Apply(d, n) == Applied(d, newer, n)
       IN  FoldLeft(Apply, dest, [n \in 1 .. Len(newer) |-> n])) = fold[DOMAIN seq]
  BY DEF FoldLeft, MapThenFoldSet
<1>4. DOMAIN seq = 1 .. m /\ \A k \in 1 .. m : seq[k] \in 1 .. m
  OBVIOUS
<1> HIDE DEF seq, m
<1>5. step \in [1 .. m -> [Pictures -> Pictures]]
  BY <1>2, <1>4
<1>6. PICK f \in [SUBSET (1 .. m) -> Pictures] : IsFold(f, m, dest, step)
  <2> HIDE DEF step
  <2>1. QED  BY <1>1, <1>5, FoldExists
<1>7. ASSUME NEW s \in SUBSET (1 .. m), s # {}
      PROVE  step[Max(s)][f[s \ {Max(s)}]]
               = Applied(f[s \ {Max(s)}], newer, seq[Max(s)])
  <2>1. Max(s) \in 1 .. m
    BY <1>1, <1>7, Largest
  <2>2. f[s \ {Max(s)}] \in Pictures
    OBVIOUS
  <2>3. QED  BY <2>1, <2>2
<1>8. Is(f)
  <2> HIDE DEF step
  <2>1. \A s \in SUBSET (1 .. m) :
          f[s] = IF s = {} THEN dest
                 ELSE Applied(f[s \ {Max(s)}], newer, seq[Max(s)])
    BY <1>6, <1>7 DEF IsFold
  <2>2. QED  BY <1>4, <2>1
<1>9. Is(fold)
  <2> HIDE DEF Is
  <2>1. QED  BY <1>8
<1> HIDE DEF fold, step
<1>10. fold[{}] \in Pictures
  BY <1>9
<1>11. ASSUME NEW s \in SUBSET (1 .. m), s # {}, fold[s \ {Max(s)}] \in Pictures
       PROVE  fold[s] \in Pictures
  <2>1. fold[s] = Applied(fold[s \ {Max(s)}], newer, seq[Max(s)])
    BY <1>4, <1>9, <1>11
  <2>2. seq[Max(s)] \in 1 .. m
    BY <1>1, <1>4, <1>11, Largest
  <2>3. QED  BY <1>2, <1>11, <2>1, <2>2
<1>12. fold[1 .. m] \in Pictures
  BY <1>1, <1>10, <1>11, FoldStays
<1>13. QED  BY <1>3, <1>4, <1>12

\* sme_init_buffer.
LEMMA InitialisedStays ==
  ASSUME history[Body] \in Seq(Bufs), current \in [Bufs -> Pictures],
         end \in Position, tag \in [Bufs -> Position \cup {NoTag}],
         NEW b \in Bufs
  PROVE  Initialised(b) \in Pictures
<1> DEFINE h == history[Body]
           newer == Newer(b)
           missing == \E n \in DOMAIN newer : tag[newer[n]] = NoTag
<1>1. newer \in Seq(Bufs)
  <2>1. <<>> \in Seq(Bufs) /\ Purged(h, b) \in Seq(Bufs)
    BY EmptySeq, PurgedType
  <2>2. QED  BY <2>1 DEF Newer
<1>2. h # <<>> => h[Len(h)] \in Bufs
  BY EmptyList
<1>3. DOMAIN newer = 1 .. Len(newer)
  BY <1>1, EmptyList
<1> HIDE DEF newer
<1>4. CASE newer = <<>> \/ missing
  BY <1>2, <1>4 DEF Initialised, newer
<1>5. CASE ~(newer = <<>> \/ missing)
  <2>1. LET Apply(d, n) == Applied(d, newer, n)
        IN  FoldLeft(Apply, current[b], [n \in 1 .. Len(newer) |-> n]) \in Pictures
    BY <1>1, <1>3, <1>5, AppliesStay
  <2>2. QED  BY <1>5, <2>1 DEF Initialised, newer
<1>6. QED  BY <1>4, <1>5

----------------------------------------------------------------------------
(* The damage cache and the picture *)

\* The ring: `cached` places are taken, from start on until end.
RingOK ==
  /\ tag \in [Bufs -> Position \cup {NoTag}]
  /\ cache \in [Position -> Areas \cup {NoArea}]
  /\ start \in Position /\ end \in Position /\ cached \in 0 .. Capacity
  /\ start + cached \in {end, end + Capacity}

PictureOK ==
  /\ resizePending \in BOOLEAN
  /\ current \in [Bufs -> Pictures]
  /\ undrawn \in Pictures
  /\ area \in Areas \cup {NoArea}

\* The place after a place in the ring.
LEMMA NextInRing ==
  ASSUME NEW e \in Position
  PROVE  /\ (e + 1) % Capacity \in Position
         /\ (e + 1) % Capacity = e + 1 \/ (e + 1) % Capacity = e + 1 - Capacity
<1>1. Capacity \in Nat \ {0} /\ e \in 0 .. (Capacity - 1)
  BY CapacityAssumption DEF Position
<1>2. CASE e + 1 < Capacity
  <2>1. (e + 1) % Capacity = e + 1
    BY <1>1, <1>2
  <2>2. QED  BY <1>1, <1>2, <2>1 DEF Position
<1>3. CASE ~(e + 1 < Capacity)
  <2>1. e + 1 = Capacity
    BY <1>1, <1>3
  <2>2. Capacity % Capacity = 0
    BY <1>1
  <2>3. QED  BY <1>1, <2>1, <2>2 DEF Position
<1>4. QED  BY <1>2, <1>3

\* cache_clear.
LEMMA ClearKeeps ==
  ASSUME RingOK, CacheCleared, tag' \in [Bufs -> Position \cup {NoTag}]
  PROVE  RingOK'
<1>1. Capacity \in Nat \ {0}
  BY CapacityAssumption
<1>2. start' = end /\ cached' = 0 /\ cache' = cache /\ end' = end
  BY DEF CacheCleared
<1>3. end \in Nat
  BY DEF RingOK, Position
<1>4. QED  BY <1>1, <1>2, <1>3 DEF RingOK

\* cache_add_area never writes outside the ring nor over a place in it that
\* is taken: a full ring is cleared.
LEMMA AddKeeps ==
  ASSUME RingOK, NEW b \in Bufs, NEW a \in Areas \cup {NoArea}, CacheAdd(b, a)
  PROVE  RingOK'
<1>1. CASE tag[b] = NoTag
  BY <1>1 DEF CacheAdd, cacheVars, RingOK
<1>2. CASE tag[b] # NoTag /\ CacheFull
  <2>1. CacheCleared /\ tag' = [tag EXCEPT ![b] = NoTag]
    BY <1>2 DEF CacheAdd
  <2>2. tag' \in [Bufs -> Position \cup {NoTag}]
    BY <2>1 DEF RingOK
  <2>3. QED  BY <2>1, <2>2, ClearKeeps
<1>3. CASE tag[b] # NoTag /\ ~CacheFull
  <2>1. /\ cache' = [cache EXCEPT ![end] = a]
        /\ end' = (end + 1) % Capacity
        /\ cached' = cached + 1
        /\ start' = start /\ tag' = tag
    BY <1>3 DEF CacheAdd
  <2>2. /\ Capacity \in Nat \ {0}
        /\ start \in 0 .. (Capacity - 1) /\ end \in 0 .. (Capacity - 1)
        /\ cached \in 0 .. Capacity /\ start + cached \in {end, end + Capacity}
        /\ end \in Position /\ start \in Position
    BY CapacityAssumption DEF RingOK, Position
  <2>3. cached # Capacity
    BY <1>3, <2>2 DEF CacheFull
  <2>4. /\ end' \in Position
        /\ end' = end + 1 \/ end' = end + 1 - Capacity
    BY <2>1, <2>2, NextInRing
  <2>5. start' + cached' \in {end', end' + Capacity} /\ cached' \in 0 .. Capacity
    <3>1. start + cached # end + Capacity \/ end + 1 < Capacity
      BY <2>2, <2>3
    <3>2. start + cached + 1 = end + 1 \/ start + cached + 1 = end + 1 + Capacity
      BY <2>2
    <3>3. end' \in Nat /\ end' < Capacity
      BY <2>2, <2>4 DEF Position
    <3>4. QED  BY <2>1, <2>2, <2>3, <2>4, <3>1, <3>2, <3>3
  <2>6. cache' \in [Position -> Areas \cup {NoArea}]
    BY <2>1, <2>2 DEF RingOK
  <2>7. QED  BY <2>1, <2>2, <2>4, <2>5, <2>6 DEF RingOK
<1>4. QED  BY <1>1, <1>2, <1>3

\* Multiplication is monotonic.
LEMMA Scaled ==
  ASSUME NEW m \in Nat, NEW n \in Nat, m <= n, NEW c \in Nat
  PROVE  m * c <= n * c
<1>1. (n - m) * c >= 0
  <2>1. n - m \in Nat
    OBVIOUS
  <2>2. \A k \in Nat : k * c >= 0
    OBVIOUS
  <2>3. QED  BY <2>1, <2>2
<1>2. (n - m) * c = n * c - m * c
  OBVIOUS
<1>3. m * c \in Nat /\ n * c \in Nat
  OBVIOUS
<1>4. QED  BY <1>1, <1>2, <1>3

\* LVGL draws inside the screen.
LEMMA DrawnOnScreen ==
  ASSUME NEW a \in Areas \cup {NoArea}
  PROVE  Bytes(a) \in Pictures
<1>1. Width \in Nat \ {0} /\ BytesPerPixel \in Nat \ {0}
  BY ScreenAssumption
<1>2. CASE a \in Areas
  <2>1. a.x1 \in Nat /\ a.x2 \in Nat /\ a.x2 + 1 <= Width
    BY <1>1, <1>2, AreasAssumption
  <2>2. (a.x2 + 1) * BytesPerPixel <= Width * BytesPerPixel
    BY <1>1, <2>1, Scaled
  <2>3. a.x1 * BytesPerPixel \in Nat
    BY <1>1, <2>1
  <2>4. (a.x2 + 1) * BytesPerPixel \in Nat /\ Width * BytesPerPixel \in Nat
    BY <1>1, <2>1
  <2>5. \A p, q, w \in Nat : q <= w => p .. (q - 1) \subseteq 0 .. (w - 1)
    OBVIOUS
  <2>6. QED  BY <2>2, <2>3, <2>4, <2>5 DEF Bytes, Screen, Pictures
<1>3. CASE a = NoArea
  <2>1. a.x1 = 0 /\ a.x2 = -1
    BY <1>3 DEF NoArea
  <2>2. 0 * BytesPerPixel = 0 /\ -1 + 1 = 0 /\ 0 .. (0 - 1) = {}
    BY <1>1
  <2>3. Bytes(a) = {}
    BY <2>1, <2>2 DEF Bytes
  <2>4. QED  BY <2>3 DEF Pictures
<1>4. QED  BY <1>2, <1>3

DrawInv == RingOK /\ PictureOK

\* A flush whose area is lost.
LEMMA LostKeeps ==
  ASSUME PictureOK, AreaLost, FlushReady, resizePending' = resizePending
  PROVE  PictureOK'
<1>1. /\ undrawn' = undrawn \cup Bytes(area)
      /\ current' = [b \in Bufs |-> current[b] \ Bytes(area)]
      /\ area' = NoArea
  BY DEF AreaLost, FlushReady
<1>2. Bytes(area) \in Pictures
  BY DrawnOnScreen DEF PictureOK
<1>3. undrawn' \in Pictures
  BY <1>1, <1>2 DEF PictureOK, Pictures
<1>4. \A b \in Bufs : current[b] \ Bytes(area) \in Pictures
  BY DEF PictureOK, Pictures
<1>5. current' \in [Bufs -> Pictures]
  BY <1>1, <1>4
<1>6. QED  BY <1>1, <1>3, <1>5 DEF PictureOK

LEMMA SkipDraws ==
  ASSUME DrawInv, pending \in Bufs \cup {NoBuf}, FlushSkip
  PROVE  DrawInv'
<1>1. PictureOK'
  BY LostKeeps DEF FlushSkip, DrawInv
<1>2. CASE pending # NoBuf
  <2>1. CacheCleared /\ tag' = [tag EXCEPT ![pending] = NoTag] /\ RingOK
    BY <1>2 DEF FlushSkip, DrawInv
  <2>2. tag' \in [Bufs -> Position \cup {NoTag}]
    BY <2>1 DEF RingOK
  <2>3. QED  BY <1>1, <2>1, <2>2, ClearKeeps DEF DrawInv
<1>3. CASE pending = NoBuf
  <2>1. RingOK'
    BY <1>3 DEF FlushSkip, DrawInv, RingOK, cacheVars
  <2>2. QED  BY <1>1, <2>1 DEF DrawInv
<1>4. QED  BY <1>2, <1>3

LEMMA InitDraws ==
  ASSUME IInv, DrawInv, NEW b \in Bufs, InitDone(b)
  PROVE  DrawInv'
<1>1. /\ current' = [current EXCEPT ![b] = Initialised(b)]
      /\ tag' = [tag EXCEPT ![b] = end]
      /\ UNCHANGED <<resizePending, cache, start, end, cached, undrawn, area>>
  BY DEF InitDone, cacheVars, lvglVars
<1>2. RingOK /\ PictureOK /\ history[Body] \in Seq(Bufs)
  BY BodyAssumption DEF DrawInv, IInv, TypeOK
<1>3. Initialised(b) \in Pictures
  BY <1>2, InitialisedStays DEF RingOK, PictureOK
<1>4. current' \in [Bufs -> Pictures]
  BY <1>1, <1>2, <1>3 DEF PictureOK
<1>5. tag' \in [Bufs -> Position \cup {NoTag}]
  BY <1>1, <1>2 DEF RingOK
<1>6. QED  BY <1>1, <1>2, <1>4, <1>5 DEF DrawInv, RingOK, PictureOK

LEMMA DrawDraws ==
  ASSUME DrawInv, pending \in Bufs \cup {NoBuf}, FlushDraw
  PROVE  DrawInv'
<1>1. /\ RingOK /\ PictureOK /\ pending \in Bufs
      /\ current' = [b \in Bufs |->
                       IF b = pending THEN current[b] \cup Bytes(area)
                                      ELSE current[b] \ Bytes(area)]
      /\ undrawn' = undrawn \ Bytes(area)
      /\ CacheAdd(pending, area)
      /\ area' = NoArea /\ resizePending' = resizePending
  BY DEF DrawInv, FlushDraw, FlushReady
<1>2. RingOK'
  BY <1>1, AddKeeps DEF PictureOK
<1>3. Bytes(area) \in Pictures
  BY <1>1, DrawnOnScreen DEF PictureOK
<1>4. undrawn' \in Pictures
  BY <1>1 DEF PictureOK, Pictures
<1>5. \A b \in Bufs : /\ current[b] \cup Bytes(area) \in Pictures
                      /\ current[b] \ Bytes(area) \in Pictures
  BY <1>1, <1>3 DEF PictureOK, Pictures
<1>6. current' \in [Bufs -> Pictures]
  BY <1>1, <1>5
<1>7. QED  BY <1>1, <1>2, <1>4, <1>6 DEF DrawInv, PictureOK

\* Every step keeps the types of the cache and of the picture.
LEMMA ChainDraws ==
  ASSUME IInv, ClientInv, DrawInv, [ChainNext]_chainVars
  PROVE  DrawInv'
<1>1. RingOK /\ PictureOK /\ pending \in Bufs \cup {NoBuf}
  BY DEF DrawInv, ClientInv, AccountOK
<1>2. ASSUME \/ UNCHANGED clientVars
             \/ OpenWindow \/ SurfaceConfigure \/ (\E i : BufferRelease(i))
      PROVE  DrawInv'
  <2>1. UNCHANGED <<cache, start, end, cached, tag, resizePending, current,
                    undrawn, area>>
    BY <1>2 DEF clientVars, bodyVars, cacheVars, drawVars, lvglVars,
                OpenWindow, SurfaceConfigure, BufferRelease
  <2>2. QED  BY <1>1, <2>1 DEF DrawInv, RingOK, PictureOK
<1>3. CASE ToplevelConfigure
  <2>1. /\ resizePending' = TRUE
        /\ UNCHANGED <<cache, start, end, cached, tag, current, undrawn, area>>
    BY <1>3 DEF ToplevelConfigure, cacheVars, drawVars, lvglVars
  <2>2. QED  BY <1>1, <2>1 DEF DrawInv, RingOK, PictureOK
<1>4. ASSUME NEW sz, ResizeWindow(sz)
      PROVE  DrawInv'
  <2>1. /\ resizePending' = FALSE
        /\ current' = [b \in Bufs |-> {}] /\ undrawn' = Screen
        /\ UNCHANGED <<cache, start, end, cached, tag, area>>
    BY <1>4 DEF ResizeWindow, cacheVars
  <2>2. current' \in [Bufs -> Pictures] /\ undrawn' \in Pictures
    BY <2>1 DEF Pictures
  <2>3. QED  BY <1>1, <2>1, <2>2 DEF DrawInv, RingOK, PictureOK
<1>5. ASSUME NEW a \in Areas, NEW isLast, Flush(a, isLast)
      PROVE  DrawInv'
  <2>1. /\ area' = a
        /\ UNCHANGED <<cache, start, end, cached, tag, resizePending, current,
                       undrawn>>
    BY <1>5 DEF Flush, bodyVars, cacheVars, drawVars
  <2>2. QED  BY <1>1, <2>1 DEF DrawInv, RingOK, PictureOK
<1>6. CASE FlushAcquireNew
  <2>1. PICK b : tag' = [tag EXCEPT ![b] = NoTag]
    BY <1>6 DEF FlushAcquireNew
  <2>2. UNCHANGED <<cache, start, end, cached, resizePending, current,
                    undrawn, area>>
    BY <1>6 DEF FlushAcquireNew, cacheVars, drawVars, lvglVars
  <2>3. tag' \in [Bufs -> Position \cup {NoTag}]
    BY <1>1, <2>1 DEF RingOK
  <2>4. QED  BY <1>1, <2>2, <2>3 DEF DrawInv, RingOK, PictureOK
<1>7. ASSUME FlushAcquireFails \/ (\E b : InitFails(b))
      PROVE  DrawInv'
  <2>1. /\ AreaLost /\ FlushReady
        /\ UNCHANGED <<cache, start, end, cached, tag, resizePending>>
    BY <1>7 DEF FlushAcquireFails, InitFails, bodyVars, cacheVars
  <2>2. PictureOK'
    BY <1>1, <2>1, LostKeeps
  <2>3. QED  BY <1>1, <2>1, <2>2 DEF DrawInv, RingOK
<1>8. CASE FlushAcquire \/ InitMap \/ Manager \/ UNCHANGED chainVars
  BY <1>2, <1>8 DEF FlushAcquire, InitMap, Manager, chainVars
<1>9. QED
  BY <1>1, <1>2, <1>3, <1>4, <1>5, <1>6, <1>7, <1>8, SkipDraws, InitDraws,
     DrawDraws DEF ChainNext, FlushSteps

\* So they hold in every reachable state.
LEMMA ChainDrawInvariance == ChainSpec => []DrawInv
<1>1. ChainInit => DrawInv
  <2> SUFFICES ASSUME ChainInit
               PROVE  DrawInv
    OBVIOUS
  <2>1. Capacity \in Nat \ {0} /\ 0 \in Position
    BY CapacityAssumption DEF Position
  <2>2. RingOK
    BY <2>1 DEF ChainInit, RingOK
  <2>3. PictureOK
    BY DEF ChainInit, PictureOK, Pictures
  <2>4. QED  BY <2>2, <2>3 DEF DrawInv
<1>2. (IInv /\ ClientInv) /\ DrawInv /\ [ChainNext]_chainVars => DrawInv'
  BY ChainDraws
<1>3. QED  BY <1>1, <1>2, ChainInvariance, PTL DEF ChainSpec

\* The types of the driver's own state: a place in the ring of the damage
\* cache never leaves it, and no buffer is said to show what is not on the screen.
THEOREM ChainTypeCorrect == ChainSpec => []ChainTypeOK
<1>1. (IInv /\ ClientInv) /\ DrawInv => ChainTypeOK
  BY DEF IInv, ClientInv, AccountOK, StageOK, DrawInv, RingOK, PictureOK,
         ChainTypeOK, Pictures
<1>2. QED  BY <1>1, ChainInvariance, ChainDrawInvariance, PTL

----------------------------------------------------------------------------
(* Copies, one by one *)

\* Counting up to n.
LEMMA Upward ==
  ASSUME NEW n \in Nat, NEW P, 0 \in P, \A m \in 1 .. n : m - 1 \in P => m \in P
  PROVE  n \in P
<1> DEFINE Bad == {m \in 0 .. n : m \notin P}
<1>1. SUFFICES ASSUME Bad # {}
               PROVE  FALSE
  BY DEF Bad
<1>2. Bad \in SUBSET Nat
  OBVIOUS
<1>3. PICK m \in Bad : \A k \in Bad : m <= k
  BY <1>1, <1>2, Smallest
<1>4. m \in 1 .. n /\ m - 1 \in 0 .. n /\ ~(m <= m - 1)
  BY <1>3
<1>5. m - 1 \in P
  BY <1>3, <1>4
<1>6. QED  BY <1>3, <1>4, <1>5

\* What of src is in dest when the areas at the places seq of the cache have been
\* copied, and after each of them.
CopiedInto(dest, src, seq) ==
  LET Copy(d, i) == (d \ CopiedBytes(cache[i])) \cup (src \cap CopiedBytes(cache[i]))
  IN  FoldLeft(Copy, dest, seq)

AreCopied(f, dest, src, seq, m) ==
  /\ f[0] = dest
  /\ \A k \in 1 .. m :
       f[k] = (f[k - 1] \ CopiedBytes(cache[seq[k]]))
                 \cup (src \cap CopiedBytes(cache[seq[k]]))

\* Copying areas of one buffer to another: what has been copied after the k-th.
LEMMA CopyFold ==
  ASSUME NEW dest \in Pictures, NEW src \in Pictures,
         NEW m \in Nat, NEW seq, DOMAIN seq = 1 .. m
  PROVE  \E f : AreCopied(f, dest, src, seq, m) /\ CopiedInto(dest, src, seq) = f[m]
<1> DEFINE Copied(d, i) == (d \ CopiedBytes(cache[i]))
                              \cup (src \cap CopiedBytes(cache[i]))
           Is(f) == f = [s \in SUBSET DOMAIN seq |->
                           IF s = {} THEN dest
                           ELSE Copied(f[s \ {Max(s)}], seq[Max(s)])]
           fold == CHOOSE f : Is(f)
           step == [k \in 1 .. m |-> [d \in Pictures |-> Copied(d, seq[k])]]
           g == [k \in 0 .. m |-> fold[1 .. k]]
<1>1. \A d \in Pictures : \A i : Copied(d, i) \in Pictures
  BY DEF Pictures
<1>2. CopiedInto(dest, src, seq) = fold[DOMAIN seq]
  BY DEF CopiedInto, FoldLeft, MapThenFoldSet
<1> HIDE DEF Copied
<1>3. step \in [1 .. m -> [Pictures -> Pictures]]
  BY <1>1
<1>4. PICK f \in [SUBSET (1 .. m) -> Pictures] : IsFold(f, m, dest, step)
  <2> HIDE DEF step
  <2>1. QED  BY <1>3, FoldExists
<1>5. ASSUME NEW s \in SUBSET (1 .. m), s # {}
      PROVE  step[Max(s)][f[s \ {Max(s)}]] = Copied(f[s \ {Max(s)}], seq[Max(s)])
  <2>1. Max(s) \in 1 .. m
    BY <1>5, Largest
  <2>2. f[s \ {Max(s)}] \in Pictures
    OBVIOUS
  <2>3. QED  BY <2>1, <2>2
<1>6. Is(f)
  <2> HIDE DEF step
  <2>1. \A s \in SUBSET (1 .. m) :
          f[s] = IF s = {} THEN dest ELSE Copied(f[s \ {Max(s)}], seq[Max(s)])
    BY <1>4, <1>5 DEF IsFold
  <2>2. QED  BY <2>1
<1>7. Is(fold)
  <2> HIDE DEF Is
  <2>1. QED  BY <1>6
<1> HIDE DEF fold, step
<1>8. g[0] = dest
  <2>1. 1 .. 0 = {} /\ 0 \in 0 .. m
    OBVIOUS
  <2>2. QED  BY <1>7, <2>1
<1>9. ASSUME NEW k \in 1 .. m
      PROVE  g[k] = Copied(g[k - 1], seq[k])
  <2>1. /\ 1 .. k \in SUBSET (1 .. m) /\ k \in 1 .. k /\ k \in Nat
        /\ k \in 0 .. m /\ k - 1 \in 0 .. m
    OBVIOUS
  <2>5. (1 .. k) \ {k} = 1 .. (k - 1)
    OBVIOUS
  <2>2. Max(1 .. k) = k
    BY <2>1, LargestIs
  <2>3. fold[1 .. k] = Copied(fold[1 .. (k - 1)], seq[k])
    BY <1>7, <2>1, <2>2, <2>5
  <2>4. QED  BY <2>1, <2>3
<1>10. CopiedInto(dest, src, seq) = g[m]
  <2>1. m \in 0 .. m
    OBVIOUS
  <2>2. QED  BY <1>2, <2>1
<1> HIDE DEF g
<1>11. AreCopied(g, dest, src, seq, m)
  BY <1>8, <1>9 DEF Copied, AreCopied
<1>12. QED  BY <1>10, <1>11

\* A byte is there after the copying if it was there or an area has it, and the
\* source has it whenever an area does.
LEMMA CopiesShow ==
  ASSUME NEW dest \in Pictures, NEW src \in Pictures,
         NEW m \in Nat, NEW seq, DOMAIN seq = 1 .. m, NEW x,
         x \in dest \/ \E k \in 1 .. m : x \in CopiedBytes(cache[seq[k]]),
         \A k \in 1 .. m : x \in CopiedBytes(cache[seq[k]]) => x \in src
  PROVE  x \in CopiedInto(dest, src, seq)
<1>1. PICK f : AreCopied(f, dest, src, seq, m) /\ CopiedInto(dest, src, seq) = f[m]
  BY CopyFold
<1> DEFINE In(k) == x \in CopiedBytes(cache[seq[k]])
           P == {k \in 0 .. m : x \in f[k] \/ \E j \in (k + 1) .. m : In(j)}
<1>2. 0 \in P
  <2>1. f[0] = dest /\ 0 \in 0 .. m /\ 0 + 1 = 1
    BY <1>1 DEF AreCopied
  <2>2. QED  BY <2>1
<1>3. ASSUME NEW k \in 1 .. m, k - 1 \in P
      PROVE  k \in P
  <2>1. f[k] = (f[k - 1] \ CopiedBytes(cache[seq[k]]))
                  \cup (src \cap CopiedBytes(cache[seq[k]]))
    BY <1>1 DEF AreCopied
  <2>2. CASE In(k)
    BY <2>1, <2>2
  <2>3. CASE ~In(k)
    <3>1. x \in f[k - 1] \/ \E j \in k .. m : In(j)
      BY <1>3
    <3>2. \A j \in k .. m : In(j) => j \in (k + 1) .. m
      BY <2>3
    <3>3. QED  BY <2>1, <2>3, <3>1, <3>2
  <2>4. QED  BY <2>2, <2>3
<1>4. m \in P
  <2> HIDE DEF P
  <2>1. QED  BY <1>2, <1>3, Upward
<1>5. x \in f[m]
  <2>1. (m + 1) .. m = {}
    OBVIOUS
  <2>2. QED  BY <1>4, <2>1
<1>6. QED  BY <1>1, <1>5

\* The damage of the buffers newer, applied one after the other.
AppliedInto(dest, newer) ==
  LET Apply(d, n) == Applied(d, newer, n)
  IN  FoldLeft(Apply, dest, [n \in 1 .. Len(newer) |-> n])

AreApplied(f, dest, newer) ==
  /\ f[0] = dest
  /\ \A k \in 1 .. Len(newer) : f[k] = Applied(f[k - 1], newer, k)

\* cache_apply_areas, for every newer buffer: what is shown after the k-th.
LEMMA ApplyFold ==
  ASSUME current \in [Bufs -> Pictures], end \in Position,
         tag \in [Bufs -> Position \cup {NoTag}],
         NEW newer \in Seq(Bufs), \A n \in 1 .. Len(newer) : tag[newer[n]] # NoTag,
         NEW dest \in Pictures
  PROVE  \E f : /\ AreApplied(f, dest, newer)
                /\ \A k \in 0 .. Len(newer) : f[k] \in Pictures
                /\ AppliedInto(dest, newer) = f[Len(newer)]
<1> DEFINE m == Len(newer)
           seq == [n \in 1 .. m |-> n]
           Is(f) == f = [s \in SUBSET DOMAIN seq |->
                           IF s = {} THEN dest
                           ELSE Applied(f[s \ {Max(s)}], newer, seq[Max(s)])]
           fold == CHOOSE f : Is(f)
           step == [k \in 1 .. m |-> [d \in Pictures |-> Applied(d, newer, k)]]
           g == [k \in 0 .. m |-> fold[1 .. k]]
<1>1. m \in Nat
  BY EmptyList
<1>2. \A d \in Pictures : \A k \in 1 .. m : Applied(d, newer, k) \in Pictures
  BY AppliedStays
<1>3. AppliedInto(dest, newer) = fold[DOMAIN seq]
  BY DEF AppliedInto, FoldLeft, MapThenFoldSet
<1>4. DOMAIN seq = 1 .. m /\ \A k \in 1 .. m : seq[k] = k
  OBVIOUS
<1> HIDE DEF seq, m
<1>5. step \in [1 .. m -> [Pictures -> Pictures]]
  BY <1>2
<1>6. PICK f \in [SUBSET (1 .. m) -> Pictures] : IsFold(f, m, dest, step)
  <2> HIDE DEF step
  <2>1. QED  BY <1>1, <1>5, FoldExists
<1>7. ASSUME NEW s \in SUBSET (1 .. m), s # {}
      PROVE  step[Max(s)][f[s \ {Max(s)}]]
               = Applied(f[s \ {Max(s)}], newer, seq[Max(s)])
  <2>1. Max(s) \in 1 .. m
    BY <1>1, <1>7, Largest
  <2>2. f[s \ {Max(s)}] \in Pictures
    OBVIOUS
  <2>3. QED  BY <1>4, <2>1, <2>2
<1>8. Is(f)
  <2> HIDE DEF step
  <2>1. \A s \in SUBSET (1 .. m) :
          f[s] = IF s = {} THEN dest
                 ELSE Applied(f[s \ {Max(s)}], newer, seq[Max(s)])
    BY <1>6, <1>7 DEF IsFold
  <2>2. QED  BY <1>4, <2>1
<1>9. Is(fold)
  <2> HIDE DEF Is
  <2>1. QED  BY <1>8
<1> HIDE DEF fold, step
<1>10. g[0] = dest
  <2>1. 1 .. 0 = {} /\ 0 \in 0 .. m
    BY <1>1
  <2>2. QED  BY <1>9, <2>1
<1>11. ASSUME NEW k \in 1 .. m
       PROVE  g[k] = Applied(g[k - 1], newer, k)
  <2>1. /\ 1 .. k \in SUBSET (1 .. m) /\ k \in 1 .. k /\ k \in Nat
        /\ k \in 0 .. m /\ k - 1 \in 0 .. m
    BY <1>1
  <2>2. (1 .. k) \ {k} = 1 .. (k - 1)
    BY <1>1
  <2>3. Max(1 .. k) = k
    BY <2>1, LargestIs
  <2>4. \A s \in SUBSET (1 .. m) :
          s # {} => fold[s] = Applied(fold[s \ {Max(s)}], newer, seq[Max(s)])
    BY <1>4, <1>9
  <2>5. fold[1 .. k] = Applied(fold[1 .. (k - 1)], newer, seq[k])
    BY <2>1, <2>2, <2>3, <2>4
  <2>6. QED  BY <1>4, <2>1, <2>5
<1>12. AppliedInto(dest, newer) = g[m]
  <2>1. m \in 0 .. m
    BY <1>1
  <2>2. QED  BY <1>3, <1>4, <2>1
<1> HIDE DEF g
<1>13. \A k \in 0 .. m : g[k] \in Pictures
  <2> SUFFICES ASSUME NEW n \in 0 .. m
               PROVE  g[n] \in Pictures
    OBVIOUS
  <2> DEFINE P == {k \in 0 .. m : g[k] \in Pictures}
  <2>1. 0 \in P /\ n \in Nat
    BY <1>1, <1>10
  <2>2. ASSUME NEW k \in 1 .. n, k - 1 \in P
        PROVE  k \in P
    <3>1. k \in 1 .. m /\ k \in 0 .. m
      BY <1>1
    <3>2. QED  BY <1>2, <1>11, <2>2, <3>1
  <2> HIDE DEF P
  <2>3. n \in P
    BY <2>1, <2>2, Upward
  <2>4. QED  BY <2>3 DEF P
<1>14. AreApplied(g, dest, newer)
  BY <1>10, <1>11 DEF AreApplied, m
<1>15. QED  BY <1>12, <1>13, <1>14 DEF m

----------------------------------------------------------------------------
(* Which buffer lacks what *)

Acquired == history[Body]
Latest == Acquired[Len(Acquired)]

\* The bytes of b that have an old value, and are new elsewhere.
Lack(b) == Screen \ (current[b] \cup undrawn)

\* LVGL draws only until a resize is pending and the buffer it draws to is gone:
\* from then on it is the resize that brings all up to date.
Drawing == pending # NoBuf \/ ~resizePending

\* The place in the cache of the d-th area before the end, and the bytes of the
\* areas from there on until another.
Back(d) == IF d <= end THEN end - d ELSE end + Capacity - d
Damage(d, from) == UNION {Bytes(cache[Back(k)]) : k \in (from + 1) .. d}

\* A place is the same a round of the ring earlier or later.
LEMMA Rounds ==
  ASSUME NEW y \in Position
  PROVE  /\ y % Capacity = y
         /\ (y + Capacity) % Capacity = y
         /\ (y - Capacity) % Capacity = y
<1>1. Capacity \in Nat \ {0} /\ y \in 0 .. (Capacity - 1)
  BY CapacityAssumption DEF Position
<1>2. /\ (Capacity * 0 + y) % Capacity = y
      /\ (Capacity * 1 + y) % Capacity = y
      /\ (Capacity * (-1) + y) % Capacity = y
  BY <1>1, RemainderIs
<1>3. /\ Capacity * 0 + y = y
      /\ Capacity * 1 + y = y + Capacity
      /\ Capacity * (-1) + y = y - Capacity
  BY <1>1
<1>4. QED  BY <1>2, <1>3

\* The places from the a-th area before the end until the c-th, in this order.
LEMMA RingPlaces ==
  ASSUME end \in Position, NEW t \in Position, NEW u \in Position,
         NEW a \in 0 .. Capacity, NEW c \in 0 .. Capacity,
         t + a \in {end, end + Capacity}, u + c \in {end, end + Capacity},
         c <= a, a < c + Capacity
  PROVE  /\ DOMAIN Ring(t, u) = 1 .. (a - c)
         /\ \A q \in 1 .. (a - c) : Ring(t, u)[q] = Back(a - q + 1)
<1>1. /\ Capacity \in Nat \ {0} /\ end \in 0 .. (Capacity - 1)
      /\ t \in 0 .. (Capacity - 1) /\ u \in 0 .. (Capacity - 1)
      /\ a \in 0 .. Capacity /\ c \in 0 .. Capacity
  BY CapacityAssumption DEF Position
<1>2. (u - t) % Capacity = a - c
  <2>1. a - c \in Position
    BY <1>1 DEF Position
  <2>2. \/ u - t = a - c
        \/ u - t = (a - c) + Capacity
        \/ u - t = (a - c) - Capacity
    BY <1>1
  <2>3. QED  BY <2>1, <2>2, Rounds
<1>3. ASSUME NEW q \in 1 .. (a - c)
      PROVE  (t + q - 1) % Capacity = Back(a - q + 1)
  <2> DEFINE d == a - q + 1
  <2>1. d \in 1 .. Capacity /\ t + q - 1 = t + a - d
    BY <1>1
  <2> HIDE DEF d
  <2>2. CASE d <= end
    <3>1. end - d \in Position /\ Back(d) = end - d
      BY <1>1, <2>1, <2>2 DEF Position, Back
    <3>2. t + q - 1 = end - d \/ t + q - 1 = (end - d) + Capacity
      BY <1>1, <2>1
    <3>3. QED  BY <3>1, <3>2, Rounds DEF d
  <2>3. CASE ~(d <= end)
    <3>1. end + Capacity - d \in Position /\ Back(d) = end + Capacity - d
      BY <1>1, <2>1, <2>3 DEF Position, Back
    <3>2. t + q - 1 = end + Capacity - d
      BY <1>1, <2>1, <2>3
    <3>3. QED  BY <3>1, <3>2, Rounds DEF d
  <2>4. QED  BY <2>2, <2>3
<1>4. Ring(t, u) = [k \in 1 .. (a - c) |-> (t + k - 1) % Capacity]
  BY <1>2 DEF Ring
<1>5. QED  BY <1>3, <1>4

\* With one byte to the pixel cache_apply_areas copies what was drawn.
LEMMA CopiesDrawn ==
  ASSUME BytesPerPixel = 1, NEW a \in Areas \cup {NoArea}
  PROVE  CopiedBytes(a) = Bytes(a)
<1>1. a.x1 \in Int /\ a.x2 \in Int
  BY AreasAssumption, ScreenAssumption DEF NoArea
<1>2. a.x1 * 1 = a.x1 /\ (a.x2 + 1) * 1 = a.x2 + 1
      /\ (a.x2 - a.x1 + 1) * 1 = a.x2 - a.x1 + 1
  BY <1>1
<1>3. a.x1 + (a.x2 - a.x1 + 1) - 1 = (a.x2 + 1) - 1
  BY <1>1
<1>4. QED  BY <1>2, <1>3 DEF CopiedBytes, Bytes

\* How far before the end the damage of each of the buffers newer begins: it goes
\* on until that of the next, and what a buffer lacks was drawn after its own.
Distances(newer, far) ==
  /\ far \in [1 .. (Len(newer) + 1) -> 0 .. Capacity]
  /\ far[Len(newer) + 1] = 0
  /\ \A n \in 1 .. Len(newer) :
       /\ tag[newer[n]] \in Position
       /\ tag[newer[n]] + far[n] \in {end, end + Capacity}
       /\ far[n + 1] <= far[n] /\ far[n] < far[n + 1] + Capacity
       /\ Lack(newer[n]) \subseteq Damage(far[n + 1], 0)

\* The areas after a buffer's own are those of the buffers after it.
LEMMA DamageSplits ==
  ASSUME NEW newer \in Seq(Bufs), NEW far, Distances(newer, far),
         NEW n \in 0 .. Len(newer), NEW x, x \in Damage(far[n + 1], 0)
  PROVE  \E k \in (n + 1) .. Len(newer) : x \in Damage(far[k], far[k + 1])
<1> DEFINE m == Len(newer)
<1>1. /\ m \in Nat /\ n \in 0 .. m
      /\ far \in [1 .. (m + 1) -> 0 .. Capacity] /\ far[m + 1] = 0
      /\ Capacity \in Nat
  BY EmptyList, CapacityAssumption DEF Distances
<1> HIDE DEF m
<1>2. n + 1 \in 1 .. (m + 1) /\ far[n + 1] \in Nat
  BY <1>1
<1>3. PICK d \in 1 .. far[n + 1] : x \in Bytes(cache[Back(d)])
  BY <1>2 DEF Damage
<1> DEFINE S == {k \in (n + 1) .. m : d <= far[k]}
<1>4. d \in Nat /\ d >= 1 /\ d <= far[n + 1] /\ n + 1 # m + 1
  BY <1>1, <1>2, <1>3
<1>5. S \in SUBSET (1 .. m) /\ n + 1 \in S
  BY <1>1, <1>4
<1>6. Max(S) \in S /\ \A y \in S : y <= Max(S)
  BY <1>1, <1>5, Largest
<1>7. PICK k \in S : \A y \in S : y <= k
  BY <1>6
<1>8. /\ k \in (n + 1) .. m /\ d <= far[k] /\ k + 1 \in 1 .. (m + 1)
      /\ k \in 1 .. (m + 1)
  BY <1>1, <1>7
<1>9. k + 1 \notin S
  BY <1>1, <1>7, <1>8
<1>10. far[k + 1] < d
  <2>1. CASE k = m
    BY <1>1, <1>4, <2>1
  <2>2. CASE k # m
    <3>1. k + 1 \in (n + 1) .. m /\ far[k + 1] \in Nat
      BY <1>1, <1>8, <2>2
    <3>2. QED  BY <1>4, <1>9, <3>1
  <2>3. QED  BY <2>1, <2>2
<1>11. d \in (far[k + 1] + 1) .. far[k]
  <2>1. far[k] \in Nat /\ far[k + 1] \in Nat
    BY <1>1, <1>8
  <2>2. QED  BY <1>4, <1>8, <1>10, <2>1
<1>12. x \in Damage(far[k], far[k + 1])
  BY <1>3, <1>11 DEF Damage
<1>13. QED  BY <1>8, <1>12 DEF m

\* Applying the damage of one buffer shows a byte that was shown or is damaged, if
\* that buffer shows it whenever it is damaged.
LEMMA SegmentShows ==
  ASSUME BytesPerPixel = 1, RingOK, PictureOK,
         NEW newer \in Seq(Bufs), NEW far, Distances(newer, far),
         NEW n \in 1 .. Len(newer), NEW dest \in Pictures, NEW x,
         x \in dest \/ x \in Damage(far[n], far[n + 1]),
         x \in Damage(far[n], far[n + 1]) => x \in current[newer[n]]
  PROVE  x \in Applied(dest, newer, n)
<1> DEFINE m == Len(newer)
           t == tag[newer[n]]
           u == IF n = m THEN end ELSE tag[newer[n + 1]]
           a == far[n]
           c == far[n + 1]
           seq == Ring(t, u)
<1>1. /\ m \in Nat /\ n \in 1 .. m /\ newer[n] \in Bufs /\ far[m + 1] = 0
      /\ far \in [1 .. (m + 1) -> 0 .. Capacity]
      /\ \A k \in 1 .. m : /\ tag[newer[k]] \in Position
                           /\ tag[newer[k]] + far[k] \in {end, end + Capacity}
      /\ Capacity \in Nat /\ end \in 0 .. (Capacity - 1) /\ end \in Position
  BY EmptyList, CapacityAssumption DEF Distances, RingOK, Position
<1>2. n \in 1 .. (m + 1) /\ n + 1 \in 1 .. (m + 1) /\ (n # m => n + 1 \in 1 .. m)
  BY <1>1
<1>3. t \in Position /\ t + a \in {end, end + Capacity}
  BY <1>1
<1>4. u \in Position /\ u + c \in {end, end + Capacity}
  <2>1. CASE n = m
    <3>1. u = end /\ c = 0 /\ end + 0 = end
      BY <1>1, <2>1
    <3>2. QED  BY <1>1, <3>1
  <2>2. CASE n # m
    BY <1>1, <1>2, <2>2
  <2>3. QED  BY <2>1, <2>2
<1>5. a \in 0 .. Capacity /\ c \in 0 .. Capacity /\ c <= a /\ a < c + Capacity
  BY <1>1, <1>2 DEF Distances
<1>6. current[newer[n]] \in Pictures
  BY <1>1 DEF PictureOK
<1>7. Applied(dest, newer, n) = CopiedInto(dest, current[newer[n]], seq)
  BY DEF Applied, CopiedInto
<1> HIDE DEF m, t, u, a, c
<1>8. /\ DOMAIN Ring(t, u) = 1 .. (a - c)
      /\ \A q \in 1 .. (a - c) : Ring(t, u)[q] = Back(a - q + 1)
  <2>1. end \in Position /\ t \in Position /\ u \in Position
    BY <1>1, <1>3, <1>4
  <2>2. a \in 0 .. Capacity /\ c \in 0 .. Capacity
    BY <1>5
  <2>3. t + a \in {end, end + Capacity}
    BY <1>3
  <2>4. u + c \in {end, end + Capacity}
    BY <1>4
  <2>5. c <= a /\ a < c + Capacity
    BY <1>5
  <2>6. QED  BY <2>1, <2>2, <2>3, <2>4, <2>5, RingPlaces
<1>9. a - c \in Nat
  BY <1>1, <1>5
<1>10. \A d \in (c + 1) .. a : Back(d) \in Position
  BY <1>1, <1>5 DEF Back, Position
<1>11. \A d \in (c + 1) .. a : CopiedBytes(cache[Back(d)]) = Bytes(cache[Back(d)])
  <2>1. \A p \in Position : cache[p] \in Areas \cup {NoArea}
    BY DEF RingOK
  <2>2. QED  BY <1>10, <2>1, CopiesDrawn
<1>12. ASSUME NEW q \in 1 .. (a - c), x \in CopiedBytes(cache[seq[q]])
       PROVE  x \in Damage(a, c)
  <2>1. a - q + 1 \in (c + 1) .. a
    BY <1>1, <1>5
  <2>2. x \in Bytes(cache[Back(a - q + 1)])
    BY <1>8, <1>11, <1>12, <2>1
  <2>3. QED  BY <2>1, <2>2 DEF Damage
<1>13. ASSUME x \in Damage(a, c)
       PROVE  \E q \in 1 .. (a - c) : x \in CopiedBytes(cache[seq[q]])
  <2>1. PICK d \in (c + 1) .. a : x \in Bytes(cache[Back(d)])
    BY <1>13 DEF Damage
  <2>2. a - d + 1 \in 1 .. (a - c) /\ a - (a - d + 1) + 1 = d
    BY <1>1, <1>5
  <2>3. seq[a - d + 1] = Back(d)
    BY <1>8, <2>2
  <2>4. x \in CopiedBytes(cache[seq[a - d + 1]])
    BY <1>11, <2>1, <2>3
  <2>5. QED  BY <2>2, <2>4
<1>14. x \in dest \/ x \in Damage(a, c)
  BY DEF a, c
<1>15. x \in Damage(a, c) => x \in current[newer[n]]
  BY DEF a, c
<1>16. DOMAIN seq = 1 .. (a - c)
  BY <1>8
<1> HIDE DEF seq
<1>17. x \in CopiedInto(dest, current[newer[n]], seq)
  <2>1. x \in dest \/ \E q \in 1 .. (a - c) : x \in CopiedBytes(cache[seq[q]])
    BY <1>13, <1>14
  <2>2. \A q \in 1 .. (a - c) :
          x \in CopiedBytes(cache[seq[q]]) => x \in current[newer[n]]
    BY <1>12, <1>15
  <2>3. QED  BY <1>6, <1>9, <1>16, <2>1, <2>2, CopiesShow
<1>18. QED  BY <1>7, <1>17

\* Applying the damage of all newer buffers brings a buffer up to date.
LEMMA AppliedShows ==
  ASSUME BytesPerPixel = 1, RingOK, PictureOK,
         NEW newer \in Seq(Bufs), NEW far, Distances(newer, far),
         NEW dest \in Pictures,
         Screen \ (dest \cup undrawn) \subseteq Damage(far[1], 0)
  PROVE  Screen \subseteq AppliedInto(dest, newer) \cup undrawn
<1> DEFINE m == Len(newer)
           Later(x, n) == \E k \in (n + 1) .. m : x \in Damage(far[k], far[k + 1])
<1>1. m \in Nat
  BY EmptyList
<1>2. \A n \in 1 .. Len(newer) : tag[newer[n]] # NoTag
  BY CapacityAssumption DEF Distances, Position
<1>3. PICK f : /\ AreApplied(f, dest, newer)
               /\ \A k \in 0 .. m : f[k] \in Pictures
               /\ AppliedInto(dest, newer) = f[m]
  <2>1. current \in [Bufs -> Pictures]
    BY DEF PictureOK
  <2>2. tag \in [Bufs -> Position \cup {NoTag}] /\ end \in Position
    BY DEF RingOK
  <2>3. QED  BY <1>2, <2>1, <2>2, ApplyFold
<1>4. \A x : \A n \in 0 .. m : x \in Damage(far[n + 1], 0) => Later(x, n)
  BY DamageSplits
<1>5. ASSUME NEW x \in Screen, x \notin undrawn
      PROVE  x \in f[m]
  <2> DEFINE P == {n \in 0 .. m : x \in f[n] \/ Later(x, n)}
  <2>1. 0 \in P
    <3>1. f[0] = dest
      BY <1>3 DEF AreApplied
    <3>2. x \in dest \/ x \in Damage(far[1], 0)
      BY <1>5
    <3>3. 0 \in 0 .. m /\ 0 + 1 = 1
      BY <1>1
    <3>4. x \in Damage(far[0 + 1], 0) => Later(x, 0)
      BY <1>4, <3>3
    <3> HIDE DEF Later
    <3>5. QED  BY <3>1, <3>2, <3>3, <3>4
  <2>2. ASSUME NEW n \in 1 .. m, n - 1 \in P
        PROVE  n \in P
    <3>1. n \in 0 .. m
      BY <1>1
    <3>2. CASE Later(x, n)
      BY <3>1, <3>2
    <3>3. CASE ~Later(x, n)
      <4>1. x \notin Damage(far[n + 1], 0)
        BY <1>4, <3>1, <3>3
      <4>2. x \notin Lack(newer[n])
        BY <4>1 DEF Distances
      <4>3. x \in current[newer[n]]
        BY <1>5, <4>2 DEF Lack
      <4>4. x \in f[n - 1] \/ x \in Damage(far[n], far[n + 1])
        <5>1. x \in f[n - 1] \/ Later(x, n - 1)
          BY <2>2
        <5>2. \A k \in ((n - 1) + 1) .. m : k = n \/ k \in (n + 1) .. m
          BY <1>1
        <5>3. Later(x, n - 1) => x \in Damage(far[n], far[n + 1])
          BY <3>3, <5>2
        <5>4. QED  BY <5>1, <5>3
      <4>5. f[n - 1] \in Pictures
        <5>1. n - 1 \in 0 .. m
          BY <1>1
        <5>2. QED  BY <1>3, <5>1
      <4>6. x \in Applied(f[n - 1], newer, n)
        BY <4>3, <4>4, <4>5, SegmentShows
      <4>7. f[n] = Applied(f[n - 1], newer, n)
        BY <1>3 DEF AreApplied
      <4>8. QED  BY <3>1, <4>6, <4>7
    <3>4. QED  BY <3>2, <3>3
  <2>3. m \in P
    <3> HIDE DEF P
    <3>1. QED  BY <1>1, <2>1, <2>2, Upward
  <2>4. (m + 1) .. m = {}
    BY <1>1
  <2>5. QED  BY <2>3, <2>4
<1>6. QED  BY <1>3, <1>5

----------------------------------------------------------------------------
(* The record of the damage *)

\* The damage of the k-th buffer acquired, and of all that are newer, is recorded.
Recorded(k) == \A j \in k .. Len(Acquired) : tag[Acquired[j]] # NoTag

\* How many flushes of this frame are over.
Flushed == IF stage = "flush" THEN flushes - 1 ELSE flushes

\* Where the damage of the k-th buffer acquired begins: far[b] areas before the end,
\* before that of the next, with nothing overwritten.  The one before it lacks only
\* what was drawn from there on.  The damage of the frame that LVGL draws has room.
Reaches(far, k) ==
  LET b == Acquired[k]
  IN  /\ far[b] <= cached
      /\ tag[b] + far[b] \in {end, end + Capacity}
      /\ k < Len(Acquired) => /\ far[Acquired[k + 1]] <= far[b]
                              /\ far[b] < far[Acquired[k + 1]] + Capacity
      /\ k = Len(Acquired) => far[b] < Capacity
      /\ k = Len(Acquired) /\ pending # NoBuf => far[b] <= Flushed
      /\ Drawing => Lack(Acquired[k - 1]) \subseteq Damage(far[b], 0)

RecordOK ==
  \E far \in [Bufs -> 0 .. Capacity] :
    \A k \in 2 .. Len(Acquired) : Recorded(k) => Reaches(far, k)

\* The latest buffer shows all; without one nothing has been drawn.
LatestOK ==
  Drawing => IF Acquired = <<>> THEN \A b \in Bufs : Lack(b) = {}
                                ELSE Lack(Latest) = {}

\* The places of a sequence from one on.
LEMMA RestPlaces ==
  ASSUME NEW h \in Seq(Bufs), NEW n \in 0 .. Len(h)
  PROVE  /\ SubSeq(h, n + 1, Len(h)) \in Seq(Bufs)
         /\ Len(SubSeq(h, n + 1, Len(h))) = Len(h) - n
         /\ \A i \in 1 .. (Len(h) - n) : SubSeq(h, n + 1, Len(h))[i] = h[i + n]
<1> DEFINE t == SubSeq(h, n + 1, Len(h))
           len == Len(h)
<1>1. len \in Nat /\ \A i \in 1 .. len : h[i] \in Bufs
  BY EmptyList
<1>2. \A i \in (n + 1) .. len : i \in 1 .. len
  BY <1>1
<1>3. /\ t \in Seq(Bufs)
      /\ Len(t) = IF n + 1 <= len THEN len - (n + 1) + 1 ELSE 0
      /\ \A i \in 1 .. (len - (n + 1) + 1) : t[i] = h[(n + 1) + i - 1]
  BY <1>1, <1>2, SubSeqProperties
<1>4. n \in 0 .. len
  OBVIOUS
<1> HIDE DEF t, len
<1>5. Len(t) = len - n
  BY <1>1, <1>3, <1>4
<1>6. ASSUME NEW i \in 1 .. (len - n)
      PROVE  t[i] = h[i + n]
  <2>1. i \in 1 .. (len - (n + 1) + 1) /\ (n + 1) + i - 1 = i + n
    BY <1>1, <1>4
  <2>2. t[i] = h[(n + 1) + i - 1]
    BY <1>3, <2>1
  <2>3. QED  BY <2>1, <2>2
<1>7. QED  BY <1>3, <1>5, <1>6 DEF t, len

\* Nothing is taken from a history of which no buffer is forgotten.
LEMMA RestAll ==
  ASSUME NEW h \in Seq(Bufs)
  PROVE  SubSeq(h, 0 + 1, Len(h)) = h
<1> DEFINE t == SubSeq(h, 0 + 1, Len(h))
<1>1. Len(h) \in Nat /\ 0 \in 0 .. Len(h)
  BY EmptyList
<1>2. /\ t \in Seq(Bufs) /\ Len(t) = Len(h) - 0
      /\ \A i \in 1 .. (Len(h) - 0) : t[i] = h[i + 0]
  BY <1>1, RestPlaces
<1>3. Len(h) - 0 = Len(h) /\ \A i \in 1 .. Len(h) : i + 0 = i
  BY <1>1
<1>4. Len(t) = Len(h) /\ \A i \in 1 .. Len(h) : t[i] = h[i]
  BY <1>2, <1>3
<1> HIDE DEF t
<1>5. t = h
  BY <1>1, <1>2, <1>4, SeqEqual
<1>6. QED  BY <1>5 DEF t

\* purge_history cuts the history after a buffer.
LEMMA PurgedPlaces ==
  ASSUME NEW h \in Seq(Bufs), NEW b
  PROVE  \E n \in 0 .. Len(h) : /\ Purged(h, b) = SubSeq(h, n + 1, Len(h))
                                /\ b \in ToSet(h) => n \in 1 .. Len(h) /\ h[n] = b
                                /\ b \notin ToSet(h) => n = 0
<1>1. Len(h) \in Nat /\ DOMAIN h = 1 .. Len(h)
  BY EmptyList
<1>2. CASE b \in ToSet(h)
  <2> DEFINE k == CHOOSE i \in DOMAIN h : h[i] = b
  <2>1. k \in DOMAIN h /\ h[k] = b
    BY <1>1, <1>2, EmptyList
  <2>2. Purged(h, b) = SubSeq(h, k + 1, Len(h))
    BY <1>2 DEF Purged
  <2> HIDE DEF k
  <2>3. k \in 0 .. Len(h) /\ k \in 1 .. Len(h)
    BY <1>1, <2>1
  <2>4. QED  BY <1>2, <2>1, <2>2, <2>3
<1>3. CASE b \notin ToSet(h)
  <2>1. 0 \in 0 .. Len(h)
    BY <1>1
  <2>2. Purged(h, b) = h
    BY <1>3 DEF Purged
  <2>3. QED  BY <1>3, <2>1, <2>2, RestAll
<1>4. QED  BY <1>2, <1>3

\* sme_init_buffer brings any buffer up to date.
LEMMA InitialisedShows ==
  ASSUME BytesPerPixel = 1, RingOK, PictureOK, Drawing, LatestOK, RecordOK,
         Acquired \in Seq(Bufs), NEW b \in Bufs
  PROVE  Screen \subseteq Initialised(b) \cup undrawn
<1> DEFINE h == Acquired
           len == Len(h)
           newer == Newer(b)
           missing == \E n \in DOMAIN newer : tag[newer[n]] = NoTag
<1>1. /\ len \in Nat /\ (h = <<>> <=> len = 0)
      /\ \A k \in 1 .. len : h[k] \in Bufs
  BY EmptyList
<1>2. newer \in Seq(Bufs)
  BY EmptySeq, PurgedType DEF Newer, Acquired
<1>3. \A c \in Bufs : Lack(c) = {} => Screen \subseteq current[c] \cup undrawn
  BY DEF Lack
<1>4. CASE newer = <<>> \/ missing
  <2>1. Initialised(b) = IF h # <<>> /\ Latest # b THEN current[Latest]
                                                   ELSE current[b]
    BY <1>4 DEF Initialised, Acquired, Latest
  <2>2. CASE h = <<>>
    BY <1>3, <2>1, <2>2 DEF LatestOK
  <2>3. CASE h # <<>>
    <3>1. Latest \in Bufs
      BY <1>1, <2>3 DEF Latest
    <3>2. Lack(Latest) = {}
      BY <2>3 DEF LatestOK
    <3>3. QED  BY <1>3, <2>1, <2>3, <3>1, <3>2
  <2>4. QED  BY <2>2, <2>3
<1>5. CASE ~(newer = <<>> \/ missing)
  <2>1. b \in ToSet(h) /\ newer = Purged(h, b)
    BY <1>5 DEF Newer, Acquired
  <2>2. PICK i \in 0 .. len : /\ newer = SubSeq(h, i + 1, len)
                              /\ i \in 1 .. len /\ h[i] = b
    BY <2>1, PurgedPlaces
  <2>3. /\ Len(newer) = len - i
        /\ \A n \in 1 .. (len - i) : newer[n] = h[n + i]
    BY <2>2, RestPlaces
  <2>4. /\ Len(newer) \in Nat /\ Len(newer) # 0 /\ DOMAIN newer = 1 .. Len(newer)
        /\ \A n \in 1 .. Len(newer) : newer[n] \in Bufs
    BY <1>2, <1>5, EmptyList
  <2> DEFINE m == len - i
  <2> HIDE DEF newer, h, len
  <2>5. m \in Nat /\ m >= 1 /\ i \in 1 .. len /\ len \in Nat
    BY <1>1, <2>2, <2>3, <2>4
  <2>6. PICK far \in [Bufs -> 0 .. Capacity] :
          \A k \in 2 .. len : Recorded(k) => Reaches(far, k)
    BY DEF RecordOK, h, len
  <2>7. \A n \in 1 .. m : tag[h[n + i]] \in Position
    <3>1. \A n \in 1 .. m : newer[n] \in Bufs /\ tag[newer[n]] # NoTag
      BY <1>5, <2>3, <2>4
    <3>2. QED  BY <3>1, <2>3 DEF RingOK
  <2>8. ASSUME NEW n \in 1 .. m
        PROVE  Reaches(far, n + i)
    <3>1. n + i \in 2 .. len
      BY <2>5
    <3>2. \A j \in (n + i) .. len : j - i \in 1 .. m /\ (j - i) + i = j
      BY <2>5
    <3>3. \A j \in (n + i) .. len : tag[h[j]] \in Position
      BY <2>7, <3>2
    <3>4. Recorded(n + i)
      BY <3>3, CapacityAssumption DEF Recorded, h, len, Position
    <3>5. QED  BY <2>6, <3>1, <3>4
  <2> DEFINE dist == [n \in 1 .. (m + 1) |-> IF n = m + 1 THEN 0 ELSE far[h[n + i]]]
  <2>9. /\ dist \in [1 .. (m + 1) -> 0 .. Capacity] /\ dist[m + 1] = 0
        /\ \A n \in 1 .. m : dist[n] = far[h[n + i]] /\ h[n + i] \in Bufs
    <3>1. \A n \in 1 .. m : n + i \in 1 .. len
      BY <2>5
    <3>2. \A n \in 1 .. m : h[n + i] \in Bufs
      BY <1>1, <3>1
    <3>3. \A n \in 1 .. (m + 1) : n # m + 1 => n \in 1 .. m
      BY <2>5
    <3>4. m + 1 \in 1 .. (m + 1) /\ 0 \in 0 .. Capacity
      BY <2>5, CapacityAssumption
    <3>5. \A n \in 1 .. m : n # m + 1 /\ n \in 1 .. (m + 1)
      BY <2>5
    <3>6. QED  BY <3>2, <3>3, <3>4, <3>5
  <2> HIDE DEF dist
  <2>10. ASSUME NEW n \in 1 .. m
         PROVE  /\ tag[h[n + i]] + dist[n] \in {end, end + Capacity}
                /\ dist[n + 1] <= dist[n] /\ dist[n] < dist[n + 1] + Capacity
                /\ Lack(h[n + i]) \subseteq Damage(dist[n + 1], 0)
    <3>1. /\ Reaches(far, n + i) /\ dist[n] = far[h[n + i]]
          /\ n + i \in 1 .. len /\ dist[n] \in 0 .. Capacity /\ Capacity \in Nat
      BY <2>5, <2>8, <2>9, CapacityAssumption
    <3>2. tag[h[n + i]] + dist[n] \in {end, end + Capacity}
      BY <3>1 DEF Reaches, h
    <3>3. CASE n = m
      <4>1. n + i = len /\ dist[n + 1] = 0
        BY <2>5, <2>9, <3>3
      <4>2. dist[n] < Capacity
        BY <3>1, <4>1 DEF Reaches, h, len
      <4>3. Lack(h[n + i]) = {}
        <5>1. h # <<>>
          BY <1>1, <2>5
        <5>2. QED  BY <4>1, <5>1 DEF LatestOK, Latest, h, len
      <4>4. QED  BY <3>1, <3>2, <4>1, <4>2, <4>3
    <3>4. CASE n # m
      <4>1. /\ n + 1 \in 1 .. m /\ (n + 1) + i = (n + i) + 1
            /\ n + i < len /\ ((n + i) + 1) - 1 = n + i
        BY <2>5, <3>4
      <4>2. dist[n + 1] = far[h[(n + i) + 1]] /\ Reaches(far, (n + i) + 1)
        BY <2>8, <2>9, <4>1
      <4>3. dist[n + 1] <= dist[n] /\ dist[n] < dist[n + 1] + Capacity
        BY <3>1, <4>1, <4>2 DEF Reaches, h, len
      <4>4. Lack(h[((n + i) + 1) - 1]) \subseteq Damage(far[h[(n + i) + 1]], 0)
        BY <4>2 DEF Reaches, h
      <4>5. QED  BY <3>2, <4>1, <4>2, <4>3, <4>4
    <3>5. QED  BY <3>3, <3>4
  <2>11. Distances(newer, dist)
    <3>1. Len(newer) = m /\ \A n \in 1 .. m : newer[n] = h[n + i]
      BY <2>3
    <3> HIDE DEF m
    <3>2. QED  BY <2>7, <2>9, <2>10, <3>1 DEF Distances
  <2>12. Screen \ (current[b] \cup undrawn) \subseteq Damage(dist[1], 0)
    <3>1. 1 \in 1 .. m /\ 1 + i = i + 1 /\ (i + 1) - 1 = i
      BY <2>5
    <3>2. dist[1] = far[h[i + 1]] /\ Reaches(far, i + 1)
      BY <2>8, <2>9, <3>1
    <3>3. Lack(h[(i + 1) - 1]) \subseteq Damage(far[h[i + 1]], 0)
      BY <3>2 DEF Reaches, h
    <3>4. QED  BY <2>2, <3>1, <3>2, <3>3 DEF Lack
  <2>13. current[b] \in Pictures
    BY DEF PictureOK
  <2>14. Screen \subseteq AppliedInto(current[b], newer) \cup undrawn
    BY <1>2, <2>11, <2>12, <2>13, AppliedShows
  <2>15. Initialised(b) = AppliedInto(current[b], newer)
    BY <1>5 DEF Initialised, AppliedInto, newer
  <2>16. QED  BY <2>14, <2>15
<1>6. QED  BY <1>4, <1>5

----------------------------------------------------------------------------
(* Steps that let the oldest buffers leave the history *)

\* The n oldest buffers leave the history.
Older(n) ==
  /\ n \in 0 .. Len(Acquired)
  /\ Acquired' = SubSeq(Acquired, n + 1, Len(Acquired))

\* No buffer lacks a thing: so it is when a resize leaves LVGL all of the
\* window to draw.
AllCurrent == \A b \in Bufs : Lack(b) = {}

\* Steps that add no damage, and make no buffer lack more than it did.
Calmer ==
  /\ \A b \in ToSet(Acquired) : tag'[b] = tag[b]
  /\ UNCHANGED <<cache, end, cached>>
  /\ \/ AllCurrent'
     \/ (Drawing' => Drawing) /\ \A b \in Bufs : Lack(b)' \subseteq Lack(b)
  /\ pending' # NoBuf => pending # NoBuf /\ Flushed <= Flushed'

\* What is left of the history keeps its order, and its last buffer while one
\* is left.
LEMMA OlderPlaces ==
  ASSUME Acquired \in Seq(Bufs), NEW n, Older(n)
  PROVE  /\ Acquired' \in Seq(Bufs) /\ Len(Acquired') = Len(Acquired) - n
         /\ \A i \in 1 .. Len(Acquired') : Acquired'[i] = Acquired[i + n]
         /\ ToSet(Acquired') \subseteq ToSet(Acquired)
         /\ n < Len(Acquired) => Acquired' # <<>> /\ Latest' = Latest
         /\ n = Len(Acquired) => Acquired' = <<>>
<1> DEFINE h == Acquired
           t == Acquired'
<1>1. /\ Len(h) \in Nat /\ n \in 0 .. Len(h) /\ t = SubSeq(h, n + 1, Len(h))
      /\ \A i \in 1 .. Len(h) : h[i] \in ToSet(h)
  BY EmptyList DEF Older
<1>2. /\ t \in Seq(Bufs) /\ Len(t) = Len(h) - n
      /\ \A i \in 1 .. (Len(h) - n) : t[i] = h[i + n]
  BY <1>1, RestPlaces
<1>3. ToSet(t) \subseteq ToSet(h)
  <2>1. \A b \in ToSet(t) : \E i \in (n + 1) .. Len(h) : h[i] = b
    BY <1>1, RestOf
  <2>2. \A i \in (n + 1) .. Len(h) : h[i] \in ToSet(h)
    BY <1>1
  <2>3. QED  BY <2>1, <2>2
<1>4. t = <<>> <=> Len(t) = 0
  BY <1>2, EmptyList
<1>5. n < Len(h) => t[Len(t)] = h[Len(h)]
  <2>1. n < Len(h) => Len(h) - n \in 1 .. (Len(h) - n) /\ (Len(h) - n) + n = Len(h)
    BY <1>1
  <2>2. QED  BY <1>2, <2>1
<1>6. n < Len(h) => Latest' = Latest
  BY <1>5 DEF Latest
<1>7. (n < Len(h) => t # <<>>) /\ (n = Len(h) => t = <<>>)
  BY <1>1, <1>2, <1>4
<1>8. QED  BY <1>2, <1>3, <1>6, <1>7

\* To forget no buffer is one way of forgetting the oldest.
LEMMA SameIsOlder ==
  ASSUME Acquired \in Seq(Bufs), Acquired' = Acquired
  PROVE  Older(0) /\ (Acquired # <<>> => 0 < Len(Acquired))
<1>1. Len(Acquired) \in Nat /\ (Acquired = <<>> <=> Len(Acquired) = 0)
  BY EmptyList
<1>2. QED  BY <1>1, RestAll DEF Older

\* What is recorded of the other buffers stays right.
LEMMA RecordTrims ==
  ASSUME Acquired \in Seq(Bufs), RecordOK, NEW n, Older(n), Calmer,
         Flushed \in Int, Flushed' \in Int
  PROVE  RecordOK'
<1> DEFINE h == Acquired
           t == Acquired'
           len == Len(h)
<1>1. /\ len \in Nat /\ n \in 0 .. len
      /\ \A i \in 1 .. len : h[i] \in Bufs /\ h[i] \in ToSet(h)
  BY EmptyList DEF Older
<1>2. Len(t) = len - n /\ \A i \in 1 .. (len - n) : t[i] = h[i + n]
  BY OlderPlaces
<1>3. PICK far \in [Bufs -> 0 .. Capacity] :
        \A k \in 2 .. len : Recorded(k) => Reaches(far, k)
  BY DEF RecordOK
<1>4. SUFFICES ASSUME NEW k \in 2 .. (len - n), Recorded(k)'
               PROVE  Reaches(far, k)'
  BY <1>2 DEF RecordOK
<1> HIDE DEF h, t, len
<1>5. k + n \in 2 .. len /\ k \in 1 .. (len - n) /\ k - 1 \in 1 .. (len - n)
  BY <1>1, <1>4
<1>6. Recorded(k + n)
  <2>1. SUFFICES ASSUME NEW j \in (k + n) .. len
                 PROVE  tag[h[j]] # NoTag
    BY DEF Recorded, h, len
  <2>2. /\ j - n \in k .. (len - n) /\ j - n \in 1 .. (len - n) /\ (j - n) + n = j
        /\ j \in 1 .. len
    BY <1>1, <1>4, <2>1
  <2>3. tag'[t[j - n]] # NoTag
    BY <1>2, <1>4, <2>2 DEF Recorded, t
  <2>4. t[j - n] = h[j]
    BY <1>2, <2>2
  <2>5. QED  BY <1>1, <2>2, <2>3, <2>4 DEF Calmer, h
<1>7. Reaches(far, k + n)
  BY <1>3, <1>5, <1>6
<1>8. /\ t[k] = h[k + n] /\ t[k - 1] = h[(k + n) - 1]
      /\ k < len - n => t[k + 1] = h[(k + n) + 1]
  <2>1. (k - 1) + n = (k + n) - 1
    BY <1>1, <1>4
  <2>2. k < len - n => k + 1 \in 1 .. (len - n) /\ (k + 1) + n = (k + n) + 1
    BY <1>1, <1>4
  <2>3. QED  BY <1>2, <1>5, <2>1, <2>2
<1>9. /\ k < len - n <=> k + n < len
      /\ k = len - n <=> k + n = len
      /\ h[k + n] \in Bufs /\ h[k + n] \in ToSet(h) /\ h[(k + n) - 1] \in Bufs
  <2>1. k + n \in 1 .. len /\ (k + n) - 1 \in 1 .. len
    BY <1>1, <1>5
  <2>2. QED  BY <1>1, <1>4, <2>1
<1>10. PICK b \in Bufs : b = t[k]
  BY <1>8, <1>9
<1>11. PICK p \in Bufs : p = t[k - 1]
  BY <1>8, <1>9
<1>12. Damage(far[b], 0)' = Damage(far[b], 0)
  <2>1. cache' = cache /\ end' = end
    BY DEF Calmer
  <2>2. QED  BY <2>1 DEF Damage, Back
<1>13. far[b] \in Int
  BY <1>3
<1>14. /\ far[b] <= cached'
       /\ tag'[b] + far[b] \in {end', end' + Capacity}
  BY <1>7, <1>8, <1>9, <1>10 DEF Reaches, Calmer, h
<1>15. k < len - n => far[t[k + 1]] <= far[b] /\ far[b] < far[t[k + 1]] + Capacity
  BY <1>7, <1>8, <1>9, <1>10 DEF Reaches, h, len
<1>16. k = len - n => far[b] < Capacity
  BY <1>7, <1>8, <1>9, <1>10 DEF Reaches, h, len
<1>17. k = len - n /\ pending' # NoBuf => far[b] <= Flushed'
  <2>1. SUFFICES ASSUME k = len - n, pending' # NoBuf
                 PROVE  far[b] <= Flushed'
    OBVIOUS
  <2>2. pending # NoBuf /\ Flushed <= Flushed'
    BY <2>1 DEF Calmer
  <2>3. far[b] <= Flushed
    BY <1>7, <1>8, <1>9, <1>10, <2>1, <2>2 DEF Reaches, h, len
  <2>4. QED  BY <1>13, <2>2, <2>3
<1>18. Drawing' => Lack(p)' \subseteq Damage(far[b], 0)'
  <2>1. SUFFICES ASSUME Drawing'
                 PROVE  Lack(p)' \subseteq Damage(far[b], 0)
    BY <1>12
  <2>2. CASE AllCurrent'
    <3>1. Lack(p)' = {}
      BY <2>2 DEF AllCurrent
    <3>2. QED  BY <3>1
  <2>3. CASE Drawing /\ Lack(p)' \subseteq Lack(p)
    <3>1. Lack(p) \subseteq Damage(far[b], 0)
      BY <1>7, <1>8, <1>10, <1>11, <2>3 DEF Reaches, h
    <3>2. QED  BY <2>3, <3>1
  <2>4. QED  BY <2>1, <2>2, <2>3 DEF Calmer
<1>19. /\ Acquired'[k] = b /\ Acquired'[k - 1] = p /\ Len(Acquired') = len - n
  BY <1>2, <1>10, <1>11 DEF t
<1>20. k < len - n => /\ far[Acquired'[k + 1]] <= far[b]
                      /\ far[b] < far[Acquired'[k + 1]] + Capacity
  BY <1>15 DEF t
<1>21. Drawing' => Lack(Acquired[k - 1])' \subseteq Damage(far[Acquired[k]], 0)'
  <2>1. Lack(Acquired[k - 1])' = Lack(p)'
    BY <1>19 DEF Lack, Screen
  <2>2. Damage(far[Acquired[k]], 0)' = Damage(far[b], 0)'
    BY <1>19 DEF Damage, Back
  <2>3. QED  BY <1>18, <2>1, <2>2
<1>22. QED  BY <1>14, <1>16, <1>17, <1>19, <1>20, <1>21 DEF Reaches

\* The latest buffer goes on to show all, unless it leaves the history.
LEMMA LatestTrims ==
  ASSUME Acquired \in Seq(Bufs), LatestOK, NEW n, Older(n), Calmer,
         AllCurrent' \/ ~Drawing' \/ Acquired = <<>> \/ n < Len(Acquired)
  PROVE  LatestOK'
<1>1. SUFFICES ASSUME Drawing'
               PROVE  IF Acquired' = <<>> THEN \A b \in Bufs : Lack(b)' = {}
                                          ELSE Lack(Latest)' = {}
  BY DEF LatestOK
<1>2. AllCurrent' \/ (Drawing /\ \A b \in Bufs : Lack(b)' \subseteq Lack(b))
  BY <1>1 DEF Calmer
<1> DEFINE Shrinks == Drawing /\ \A b \in Bufs : Lack(b)' \subseteq Lack(b)
<1>3. /\ Len(Acquired) \in Nat /\ (Acquired = <<>> <=> Len(Acquired) = 0)
      /\ n \in 0 .. Len(Acquired)
      /\ \A i \in 1 .. Len(Acquired) : Acquired[i] \in Bufs
  BY EmptyList DEF Older
<1>4. CASE AllCurrent'
  <2>1. Acquired' \in Seq(Bufs) /\ (Acquired' # <<>> => Latest' \in Bufs)
    BY OlderPlaces, EmptyList DEF Latest
  <2>2. \A b \in Bufs : Lack(b)' = {}
    BY <1>4 DEF AllCurrent
  <2>3. \A b \in Bufs : b = Latest' => Lack(Latest)' = Lack(b)'
    BY DEF Lack, Screen
  <2>4. QED  BY <2>1, <2>2, <2>3
<1>5. CASE Shrinks /\ Acquired = <<>>
  <2>1. n = Len(Acquired)
    BY <1>3, <1>5
  <2>2. Acquired' = <<>>
    BY <2>1, OlderPlaces
  <2>3. \A b \in Bufs : Lack(b) = {}
    BY <1>5 DEF LatestOK
  <2>4. QED  BY <1>5, <2>2, <2>3
<1>6. CASE Shrinks /\ Acquired # <<>> /\ n < Len(Acquired)
  <2>1. Acquired' # <<>> /\ Latest' = Latest
    BY <1>6, OlderPlaces
  <2>2. Latest \in Bufs
    BY <1>3, <1>6 DEF Latest
  <2>3. Lack(Latest) = {}
    BY <1>6 DEF LatestOK
  <2>4. Lack(Latest)' \subseteq Lack(Latest)
    <3>1. \A b \in Bufs : b = Latest => Lack(b)' \subseteq Lack(b)
      BY <1>6
    <3>2. Lack(Latest)' = Screen \ (current'[Latest'] \cup undrawn')
      BY DEF Lack, Screen
    <3>3. \A b \in Bufs : Lack(b)' = Screen \ (current'[b] \cup undrawn')
      BY DEF Lack, Screen
    <3>4. QED  BY <2>1, <2>2, <3>1, <3>2, <3>3
  <2>5. QED  BY <2>1, <2>3, <2>4
<1>7. QED  BY <1>1, <1>2, <1>4, <1>5, <1>6

----------------------------------------------------------------------------
(* The buffers acquired, through every step *)

\* What the window says of the latest buffer.
PendingOK ==
  /\ pending # NoBuf => Acquired # <<>> /\ pending = Latest
  /\ ~configured => /\ Len(Acquired) <= 1
                    /\ Acquired # <<>> => pending # NoBuf \/ resizePending

\* And where LVGL's thread is.
TurnOK ==
  /\ stage \in {"closed", "opening"} => Acquired = <<>>
  /\ stage = "flush" => flushes >= 1
  /\ call.op = "init" => ~resizePending
  /\ call.op = "resize" => pending = NoBuf /\ AllCurrent

\* A buffer that smm_resize has marked is with the compositor, and forgotten.
MarkedOK ==
  \A b \in Bufs : resized[b] => /\ b \in inuse[Body] /\ b \notin InHand
                                /\ b # pending /\ b \notin ToSet(Acquired)

\* The latest buffer is the one that the compositor releases last; when it has been
\* released the body has no more buffers than it prefers, or it is the last to go.
OrderOK ==
  ~resizePending /\ pending = NoBuf /\ Acquired # <<>> /\ call.op # "resize" =>
    IF Latest \in ToSet(held)
      THEN held[Len(held)] = Latest
      ELSE /\ held = <<>>
           /\ \/ num[Body] <= PreferNumBuffers
              \/ /\ call.op = "trim" /\ unused[Body] # <<>>
                 /\ unused[Body][Len(unused[Body])] = Latest

\* The latest buffer is not returned to the pool while LVGL draws.
KeepsLatest ==
  \/ InOrder /\ PreferNumBuffers >= 1
  \/ Cardinality(Bufs) <= PreferNumBuffers

\* What the copying of sme_init_buffer relies on.  A pixel is a byte, for
\* cache_apply_areas does not scale a column by BYTES_PER_PIXEL (CopiesDrawn); the
\* areas of a frame leave a place of the cache free, for a cache that is full of
\* one frame cannot tell its first area from its end; the first configure and
\* its size arrive together; and no trimming takes the latest buffer, from which
\* the next one is copied.
Conditions ==
  /\ BytesPerPixel = 1 /\ FrameAreas < Capacity
  /\ Batched /\ KeepsLatest

\* The invariant that the picture of the pending buffer needs.
UpInv ==
  /\ PendingOK /\ TurnOK /\ MarkedOK /\ LatestOK /\ RecordOK
  /\ InOrder => OrderOK

\* What is appended comes last.
LEMMA LastAppended ==
  ASSUME NEW s \in Seq(Bufs), NEW b \in Bufs
  PROVE  /\ Append(s, b) \in Seq(Bufs)
         /\ Len(Append(s, b)) = Len(s) + 1
         /\ Append(s, b) # <<>> /\ Append(s, b)[Len(Append(s, b))] = b
         /\ b \in ToSet(Append(s, b))
<1> DEFINE t == Append(s, b)
<1>1. t \in Seq(Bufs) /\ Len(t) = Len(s) + 1 /\ t[Len(s) + 1] = b
  BY AppendProperties
<1>2. Len(s) \in Nat /\ Len(s) + 1 \in 1 .. Len(t) /\ Len(s) + 1 # 0
  BY <1>1, EmptyList
<1>3. t # <<>> /\ t[Len(s) + 1] \in ToSet(t)
  BY <1>1, <1>2, EmptyList
<1>4. QED  BY <1>1, <1>3

\* What the invariants of the manager and of its client say of the body.
Base == IInv /\ ClientInv /\ DrawInv /\ HistoryCurrent /\ CountsModulo

\* Those invariants, one by one.
LEMMA BaseParts ==
  ASSUME Base
  PROVE  /\ Body \in Groups /\ NoBuf \notin Bufs
         /\ CallOK /\ AccountOK /\ StageOK /\ RingOK /\ PictureOK
         /\ Acquired \in Seq(Bufs) /\ IsInjective(Acquired)
         /\ ToSet(Acquired) \subseteq Owned(Body)
         /\ QueuesAt(Body) /\ unused[Body] \in Seq(Bufs)
         /\ Flushed \in Int
<1>1. Body \in Groups /\ NoBuf \notin Bufs
  BY BodyAssumption, GroupsAssumption
<1>2. CallOK /\ AccountOK /\ StageOK /\ RingOK /\ PictureOK
  BY DEF Base, ClientInv, DrawInv
<1>3. /\ Acquired \in Seq(Bufs) /\ unused[Body] \in Seq(Bufs)
      /\ QueuesAt(Body)
  BY <1>1, InvariantParts DEF Base, IInv, TypeOK, Acquired
<1>4. IsInjective(Acquired) /\ ToSet(Acquired) \subseteq Owned(Body)
  BY <1>1 DEF Base, HistoryCurrent, Acquired
<1>5. Flushed \in Int
  BY <1>2, CapacityAssumption DEF StageOK, Flushed
<1>6. QED  BY <1>1, <1>2, <1>3, <1>4, <1>5

\* Steps that add no damage, and forget at most older buffers.
LEMMA CalmKeeps ==
  ASSUME Base, UpInv, Base', NEW n, Older(n), Calmer,
         AllCurrent' \/ ~Drawing' \/ Acquired = <<>> \/ n < Len(Acquired)
  PROVE  LatestOK' /\ RecordOK'
<1>1. Acquired \in Seq(Bufs) /\ Flushed \in Int
  BY BaseParts
<1>2. Flushed' \in Int
  <2>1. flushes' \in 0 .. FrameAreas /\ FrameAreas \in Nat
    BY CapacityAssumption DEF Base, ClientInv, StageOK
  <2>2. Flushed' = flushes' - 1 \/ Flushed' = flushes'
    BY DEF Flushed
  <2>3. QED  BY <2>1, <2>2
<1>3. QED  BY <1>1, <1>2, RecordTrims, LatestTrims DEF UpInv

\* Steps that leave the picture and the damage alone.
LEMMA CalmStays ==
  ASSUME Base, UpInv, Base', Acquired' = Acquired,
         \A b \in ToSet(Acquired) : tag'[b] = tag[b],
         UNCHANGED <<cache, end, cached, current, undrawn>>,
         Drawing' => Drawing,
         pending' # NoBuf => pending # NoBuf /\ Flushed <= Flushed'
  PROVE  LatestOK' /\ RecordOK'
<1>1. Older(0) /\ (Acquired # <<>> => 0 < Len(Acquired))
  BY BaseParts, SameIsOlder
<1>2. \A b \in Bufs : Lack(b)' \subseteq Lack(b)
  BY DEF Lack, Screen
<1>3. Calmer
  BY <1>2 DEF Calmer
<1>4. QED  BY <1>1, <1>3, CalmKeeps

\* Steps in which an area is lost.
LEMMA CalmLost ==
  ASSUME Base, UpInv, Base', Acquired' = Acquired, AreaLost,
         UNCHANGED <<tag, cache, end, cached>>,
         Drawing' => Drawing, pending' = NoBuf
  PROVE  LatestOK' /\ RecordOK'
<1>1. Older(0) /\ (Acquired # <<>> => 0 < Len(Acquired))
  BY BaseParts, SameIsOlder
<1>2. \A b \in Bufs : Lack(b)' \subseteq Lack(b)
  BY DEF Lack, Screen, AreaLost
<1>3. Calmer
  BY <1>2 DEF Calmer
<1>4. QED  BY <1>1, <1>3, CalmKeeps

----------------------------------------------------------------------------
(* The window's events *)

\* A window that opens has no buffer yet.
LEMMA OpenKeepsUp ==
  ASSUME Base, UpInv, Base', OpenWindow
  PROVE  UpInv'
<1>1. /\ Create(Body) /\ stage = "closed" /\ stage' = "opening"
      /\ UNCHANGED <<pending, configured, resizePending, tag>>
      /\ UNCHANGED <<cache, end, cached, current, undrawn, flushes>>
  BY DEF OpenWindow, bodyVars, cacheVars, drawVars
<1>2. /\ call = Idle /\ call' = call /\ Body \notin live
      /\ history' = [history EXCEPT ![Body] = <<>>]
      /\ inuse' = [inuse EXCEPT ![Body] = {}]
      /\ resized' = resized
  BY <1>1 DEF Create, bufVars
<1>3. Body \in Groups /\ QueuesAt(Body)
  BY BaseParts
<1>4. /\ history \in [Groups -> Seq(Bufs)] /\ inuse \in [Groups -> SUBSET Bufs]
  BY DEF Base, IInv, TypeOK
<1>5. Acquired = <<>> /\ Acquired' = <<>>
  BY <1>1, <1>2, <1>3, <1>4 DEF UpInv, TurnOK, Acquired
<1>6. inuse'[Body] = inuse[Body]
  BY <1>2, <1>3, <1>4 DEF QueuesAt
<1>7. pending = NoBuf
  BY <1>1, BaseParts DEF StageOK
<1>8. LatestOK' /\ RecordOK'
  BY <1>1, <1>5, <1>7, CalmStays DEF Drawing
<1>9. PendingOK' /\ (InOrder => OrderOK')
  <2>1. Len(<<>>) = 0
    BY EmptySeq
  <2>2. QED  BY <1>1, <1>5, <1>7, <2>1 DEF PendingOK, OrderOK
<1>10. TurnOK'
  BY <1>1, <1>2, <1>5, CallRecord DEF TurnOK
<1>11. MarkedOK'
  BY <1>1, <1>2, <1>5, <1>6 DEF UpInv, MarkedOK, InHand
<1>12. QED  BY <1>8, <1>9, <1>10, <1>11 DEF UpInv

\* The first configure of the compositor: no more than one buffer was acquired,
\* and LVGL is still drawing to it or its resize is pending.
LEMMA ConfigureKeepsUp ==
  ASSUME Base, UpInv, Base', ToplevelConfigure \/ SurfaceConfigure
  PROVE  UpInv'
<1>1. /\ UNCHANGED <<history, call, inuse, unused, num, resized, stage, flushes>>
      /\ UNCHANGED <<tag, cache, end, cached, current, undrawn>>
      /\ call = Idle /\ stage = "between"
  BY DEF ToplevelConfigure, SurfaceConfigure, Between, vars, queueVars, bufVars,
         cacheVars, drawVars, lvglVars
<1>2. /\ Acquired' = Acquired /\ Latest' = Latest /\ InHand' = InHand
      /\ Flushed' = Flushed
  BY <1>1 DEF Acquired, Latest, InHand, Flushed
<1>3. /\ AccountOK /\ held \in Seq(Bufs) /\ NoBuf \notin Bufs
      /\ resizePending \in BOOLEAN /\ Flushed \in Int
      /\ Acquired \in Seq(Bufs)
  BY BaseParts DEF AccountOK, PictureOK
<1>4. TurnOK'
  BY <1>1, <1>2, CallRecord DEF UpInv, TurnOK
<1>5. CASE ToplevelConfigure
  <2>1. resizePending' = TRUE /\ UNCHANGED <<pending, configured, held>>
    BY <1>5 DEF ToplevelConfigure
  <2>2. PendingOK' /\ MarkedOK' /\ OrderOK'
    BY <1>1, <1>2, <2>1 DEF UpInv, PendingOK, MarkedOK, OrderOK
  <2>3. Drawing' => Drawing
    BY <2>1 DEF Drawing
  <2>4. LatestOK' /\ RecordOK'
    BY <1>1, <1>2, <1>3, <2>1, <2>3, CalmStays
  <2>5. QED  BY <1>4, <2>2, <2>4 DEF UpInv
<1>6. CASE SurfaceConfigure
  <2>1. /\ configured' = TRUE /\ pending' = NoBuf /\ resizePending' = resizePending
        /\ held' = IF pending # NoBuf THEN Append(held, pending) ELSE held
    BY <1>6 DEF SurfaceConfigure
  <2>2. MarkedOK'
    BY <1>1, <1>2, <1>3, <2>1 DEF UpInv, MarkedOK
  <2>3. PendingOK'
    BY <1>1, <1>2, <2>1 DEF PendingOK
  <2>4. Drawing' => Drawing
    BY <2>1 DEF Drawing
  <2>5. LatestOK' /\ RecordOK'
    BY <1>1, <1>2, <2>1, <2>4, CalmStays
  <2>6. ASSUME InOrder
        PROVE  OrderOK'
    <3>1. CASE pending = NoBuf
      BY <1>1, <1>2, <2>1, <2>6, <3>1 DEF UpInv, OrderOK
    <3>2. CASE pending # NoBuf
      <4>1. pending = Latest /\ pending \in Bufs
        BY <1>3, <3>2 DEF UpInv, PendingOK, AccountOK
      <4>2. held' = Append(held, pending)
        BY <2>1, <3>2
      <4>3. Latest \in ToSet(held') /\ held'[Len(held')] = Latest
        BY <1>3, <4>1, <4>2, LastAppended
      <4>4. QED  BY <1>2, <4>3 DEF OrderOK
    <3>3. QED  BY <3>1, <3>2
  <2>7. QED  BY <1>4, <2>2, <2>3, <2>5, <2>6 DEF UpInv
<1>7. QED  BY <1>5, <1>6

\* A resize makes all buffers equal: none shows anything.
LEMMA ResizeKeepsUp ==
  ASSUME Batched, Base, UpInv, Base', NEW sz, ResizeWindow(sz)
  PROVE  UpInv'
<1>1. /\ Resize(Body, sz)
      /\ \/ stage = "opening"
         \/ stage = "between" /\ configured
      /\ resizePending' = FALSE /\ undrawn' = Screen /\ stage' = "between"
      /\ UNCHANGED <<pending, configured, held, tag, cache, end, cached>>
  BY DEF ResizeWindow, Between, cacheVars
<1>2. /\ call' = Doing("resize", Body, NoBuf)
      /\ UNCHANGED <<history, inuse, resized>>
  BY <1>1 DEF Resize, queueVars, bufVars
<1>3. call'.op = "resize" /\ InHand' = {}
  BY <1>2, CallRecord DEF InHand
<1>4. /\ Acquired' = Acquired /\ Latest' = Latest
      /\ pending = NoBuf
  BY <1>1, <1>2, BaseParts DEF Acquired, Latest, StageOK
<1>5. AllCurrent'
  BY <1>1 DEF AllCurrent, Lack, Screen
<1>6. PendingOK'
  <2>1. CASE stage = "opening"
    <3>1. Acquired' = <<>> /\ Len(<<>>) = 0
      BY <1>4, <2>1, EmptySeq DEF UpInv, TurnOK
    <3>2. QED  BY <1>1, <1>4, <3>1 DEF PendingOK
  <2>2. CASE configured
    BY <1>1, <1>4, <2>2 DEF PendingOK
  <2>3. QED  BY <1>1, <2>1, <2>2
<1>7. TurnOK'
  BY <1>1, <1>3, <1>4, <1>5 DEF TurnOK
<1>8. MarkedOK'
  BY <1>1, <1>2, <1>3, <1>4 DEF UpInv, MarkedOK
<1>9. OrderOK'
  BY <1>3 DEF OrderOK
<1>10. LatestOK' /\ RecordOK'
  <2>1. Older(0)
    BY <1>4, BaseParts, SameIsOlder
  <2>2. Calmer
    BY <1>1, <1>4, <1>5 DEF Calmer
  <2>3. QED  BY <1>5, <2>1, <2>2, CalmKeeps
<1>11. QED  BY <1>6, <1>7, <1>8, <1>9, <1>10 DEF UpInv

\* A buffer that is not in the history goes, and the history stays.
LEMMA NothingPurged ==
  ASSUME NEW h, NEW b, b \notin ToSet(h)
  PROVE  Purged(h, b) = h
  BY DEF Purged

\* smm_release keeps the history: a marked buffer has left it before.
LEMMA ReleaseForgets ==
  ASSUME Base, UpInv, NEW b \in Bufs, Release(Body, b)
  PROVE  /\ Acquired' = Acquired /\ Latest' = Latest
         /\ inuse'[Body] = inuse[Body] \ {b}
         /\ \A c \in Bufs : resized'[c] => resized[c] /\ c # b
         /\ InHand' = {}
         /\ \/ call'.op = "idle" /\ resized[b]
            \/ /\ call'.op = "trim"
               /\ unused'[Body] = Append(unused[Body], b)
               /\ num' = num
<1>1. /\ Body \in Groups
      /\ inuse \in [Groups -> SUBSET Bufs] /\ unused \in [Groups -> Seq(Bufs)]
      /\ history \in [Groups -> Seq(Bufs)]
      /\ resized \in [Bufs -> BOOLEAN] /\ owner \in [Bufs -> Groups \cup {NoGroup}]
  BY BaseParts DEF Base, IInv, TypeOK
<1>2. b \in inuse[Body] /\ inuse'[Body] = inuse[Body] \ {b}
  BY <1>1 DEF Release
<1>3. owner[b] = Body
  BY <1>2, BaseParts DEF QueuesAt, Owned
<1>4. CASE resized[b]
  <2>1. ReturnToPool(b, [resized EXCEPT ![b] = FALSE]) /\ call' = Idle
    BY <1>4 DEF Release
  <2>2. /\ history' = [history EXCEPT ![Body] = Purged(@, b)]
        /\ \A c \in Bufs : resized'[c] => [resized EXCEPT ![b] = FALSE][c]
    BY <1>3, <2>1 DEF ReturnToPool
  <2>3. b \notin ToSet(Acquired)
    BY <1>4 DEF UpInv, MarkedOK
  <2>4. Acquired' = Acquired
    BY <1>1, <2>2, <2>3, NothingPurged DEF Acquired
  <2>5. \A c \in Bufs : resized'[c] => resized[c] /\ c # b
    BY <1>1, <2>2
  <2>6. QED  BY <1>2, <1>4, <2>1, <2>4, <2>5, CallRecord DEF Latest, InHand
<1>5. CASE ~resized[b]
  <2>1. /\ unused' = [unused EXCEPT ![Body] = Append(@, b)]
        /\ call' = Doing("trim", Body, NoBuf)
        /\ UNCHANGED <<num, history, resized>>
    BY <1>5 DEF Release, bufVars
  <2>2. Acquired' = Acquired /\ Latest' = Latest
    BY <2>1 DEF Acquired, Latest
  <2>3. unused'[Body] = Append(unused[Body], b)
    BY <1>1, <2>1
  <2>4. \A c \in Bufs : resized'[c] => resized[c] /\ c # b
    BY <1>5, <2>1
  <2>5. call'.op = "trim" /\ InHand' = {}
    BY <2>1, CallRecord DEF InHand
  <2>6. QED  BY <1>2, <2>1, <2>2, <2>3, <2>4, <2>5
<1>6. QED  BY <1>4, <1>5

\* A queue without its first element ends as before.
LEMMA FirstRemoved ==
  ASSUME NEW s \in Seq(Bufs), s # <<>>
  PROVE  LET t == RemoveAt(s, 1)
         IN  \/ Len(s) = 1 /\ t = <<>>
             \/ /\ Len(s) > 1 /\ t # <<>>
                /\ t[Len(t)] = s[Len(s)] /\ s[Len(s)] \in ToSet(t)
<1> DEFINE t == RemoveAt(s, 1)
           n == Len(s)
<1>1. n \in Nat \ {0} /\ 1 \in 1 .. n
  BY EmptyList
<1>2. /\ t \in Seq(Bufs) /\ Len(t) = n - 1
      /\ \A j \in 1 .. (n - 1) : t[j] = s[IF j < 1 THEN j ELSE j + 1]
  BY <1>1, RemoveAtSeq
<1> HIDE DEF t, n
<1>3. CASE n = 1
  BY <1>2, <1>3, EmptyList DEF t, n
<1>4. CASE n # 1
  <2>1. n - 1 \in 1 .. (n - 1) /\ ~(n - 1 < 1) /\ (n - 1) + 1 = n
    BY <1>1, <1>4
  <2>2. t[n - 1] = s[n]
    BY <1>2, <2>1
  <2>3. t[n - 1] \in ToSet(t) /\ t # <<>>
    BY <1>2, <2>1, EmptyList
  <2>4. n > 1
    BY <1>1, <1>4
  <2>5. QED  BY <1>2, <2>2, <2>3, <2>4 DEF t, n
<1>5. QED  BY <1>3, <1>4

\* A buffer that the compositor releases stays in the history unless a resize
\* has marked it; with InOrder, the latest is the last to be released.
LEMMA BufferReleaseKeepsUp ==
  ASSUME Base, UpInv, Base', NEW i, BufferRelease(i)
  PROVE  UpInv'
<1>1. /\ Release(Body, held[i]) /\ i \in DOMAIN held /\ held' = RemoveAt(held, i)
      /\ InOrder => i = 1
      /\ stage = "between" /\ call = Idle
      /\ UNCHANGED <<pending, configured, resizePending, tag, stage, flushes>>
      /\ UNCHANGED <<cache, end, cached, current, undrawn>>
  BY DEF BufferRelease, Between, cacheVars, drawVars, lvglVars
<1>2. /\ AccountOK /\ held \in Seq(Bufs) /\ unused[Body] \in Seq(Bufs)
      /\ Flushed \in Int
  BY BaseParts DEF AccountOK
<1>3. PICK b \in Bufs : b = held[i] /\ b \in ToSet(held) /\ held # <<>>
  <2>1. i \in 1 .. Len(held) /\ Len(held) \in Nat
    BY <1>1, <1>2, EmptyList
  <2>2. Len(held) # 0
    BY <2>1
  <2>3. QED  BY <1>2, <2>1, <2>2, EmptyList
<1>4. /\ Acquired' = Acquired /\ Latest' = Latest
      /\ inuse'[Body] = inuse[Body] \ {b}
      /\ \A c \in Bufs : resized'[c] => resized[c] /\ c # b
      /\ InHand' = {}
      /\ \/ call'.op = "idle" /\ resized[b]
         \/ /\ call'.op = "trim"
            /\ unused'[Body] = Append(unused[Body], b)
            /\ num' = num
  BY <1>1, <1>3, ReleaseForgets
<1>5. PendingOK' /\ TurnOK' /\ MarkedOK'
  <2>1. PendingOK'
    BY <1>1, <1>4 DEF UpInv, PendingOK
  <2>2. TurnOK'
    BY <1>1, <1>4 DEF TurnOK
  <2>3. MarkedOK'
    BY <1>1, <1>4 DEF UpInv, MarkedOK
  <2>4. QED  BY <2>1, <2>2, <2>3
<1>6. LatestOK' /\ RecordOK'
  <2>1. (Drawing' => Drawing) /\ Flushed' = Flushed
    BY <1>1 DEF Drawing, Flushed
  <2>2. QED  BY <1>1, <1>2, <1>4, <2>1, CalmStays
<1>7. ASSUME InOrder
      PROVE  OrderOK'
  <2>1. SUFFICES ASSUME ~resizePending', pending' = NoBuf, Acquired' # <<>>
                 PROVE  IF Latest' \in ToSet(held')
                          THEN held'[Len(held')] = Latest'
                          ELSE /\ held' = <<>>
                               /\ call'.op = "trim" /\ unused'[Body] # <<>>
                               /\ unused'[Body][Len(unused'[Body])] = Latest'
    BY DEF OrderOK
  <2>2. Latest \in ToSet(held) /\ held[Len(held)] = Latest
    <3>1. call.op # "resize"
      BY <1>1, CallRecord
    <3>2. QED  BY <1>1, <1>3, <1>4, <1>7, <2>1, <3>1 DEF UpInv, OrderOK
  <2>3. i = 1 /\ held' = RemoveAt(held, 1)
    BY <1>1, <1>7
  <2>4. CASE Len(held) = 1 /\ held' = <<>>
    <3>1. b = Latest
      BY <1>3, <2>2, <2>3, <2>4
    <3>2. Latest \in ToSet(Acquired)
      BY <1>4, <2>1, BaseParts, EmptyList DEF Latest
    <3>3. ~resized[b]
      BY <1>3, <3>1, <3>2 DEF UpInv, MarkedOK
    <3>4. call'.op = "trim" /\ unused'[Body] = Append(unused[Body], b)
      BY <1>4, <3>3
    <3>5. unused'[Body] # <<>> /\ unused'[Body][Len(unused'[Body])] = b
      BY <1>2, <1>3, <3>4, LastAppended
    <3>6. Latest' \notin ToSet(held')
      BY <2>4 DEF ToSet
    <3>7. QED  BY <1>4, <2>4, <3>1, <3>4, <3>5, <3>6
  <2>5. CASE /\ Len(held) > 1 /\ held' # <<>>
             /\ held'[Len(held')] = held[Len(held)] /\ held[Len(held)] \in ToSet(held')
    BY <1>4, <2>2, <2>5
  <2>6. QED  BY <1>2, <1>3, <2>3, <2>4, <2>5, FirstRemoved
<1>8. QED  BY <1>5, <1>6, <1>7 DEF UpInv

----------------------------------------------------------------------------
(* The flush callback, without drawing *)

\* A call of _lv_wayland_flush that begins adds an area to the frame, and none
\* to the damage as yet.
LEMMA FlushKeepsUp ==
  ASSUME Base, UpInv, Base', NEW a, NEW isLast, Flush(a, isLast)
  PROVE  UpInv'
<1>1. /\ stage \in {"between", "frame"} /\ stage' = "flush" /\ flushes' = flushes + 1
      /\ UNCHANGED <<history, call, inuse, unused, num, resized>>
      /\ UNCHANGED <<pending, configured, resizePending, held, tag>>
      /\ UNCHANGED <<cache, end, cached, current, undrawn>>
  BY DEF Flush, vars, queueVars, bufVars, bodyVars, cacheVars, drawVars
<1>2. Acquired' = Acquired /\ Latest' = Latest /\ InHand' = InHand
  BY <1>1 DEF Acquired, Latest, InHand
<1>3. flushes \in Nat /\ flushes' >= 1 /\ Flushed' = Flushed /\ Flushed \in Int
  <2>1. flushes \in Nat
    BY BaseParts, CapacityAssumption DEF StageOK
  <2>2. (flushes + 1) - 1 = flushes /\ flushes + 1 >= 1
    BY <2>1
  <2>3. QED  BY <1>1, <2>1, <2>2 DEF Flushed
<1>4. TurnOK'
  <2>1. AllCurrent => AllCurrent'
    BY <1>1 DEF AllCurrent, Lack, Screen
  <2>2. QED  BY <1>1, <1>2, <1>3, <2>1 DEF UpInv, TurnOK
<1>5. PendingOK' /\ MarkedOK' /\ (InOrder => OrderOK')
  BY <1>1, <1>2 DEF UpInv, PendingOK, MarkedOK, OrderOK
<1>6. LatestOK' /\ RecordOK'
  BY <1>1, <1>2, <1>3, CalmStays DEF Drawing
<1>7. QED  BY <1>4, <1>5, <1>6 DEF UpInv

\* A skipped flush forgets the damage of the pending buffer, the latest.
LEMMA SkipKeepsUp ==
  ASSUME Base, UpInv, Base', FlushSkip
  PROVE  UpInv'
<1>1. /\ resizePending /\ resizePending' = resizePending /\ call = Idle
      /\ pending' = NoBuf /\ AreaLost /\ stage' \in {"between", "frame"}
      /\ UNCHANGED <<configured, held>>
  BY DEF FlushSkip, Flushing, FlushReady
<1>2. ~Drawing' /\ OrderOK' /\ LatestOK'
  BY <1>1 DEF Drawing, OrderOK, LatestOK
<1>3. CASE pending = NoBuf
  <2>1. UNCHANGED <<history, call, inuse, resized, tag, cache, end, cached>>
    BY <1>3 DEF FlushSkip, vars, queueVars, bufVars, cacheVars
  <2>2. Acquired' = Acquired /\ Latest' = Latest /\ InHand' = InHand
    BY <2>1 DEF Acquired, Latest, InHand
  <2>3. RecordOK'
    BY <1>1, <1>2, <2>1, <2>2, CalmLost
  <2>4. PendingOK' /\ MarkedOK'
    BY <1>1, <1>3, <2>1, <2>2 DEF UpInv, PendingOK, MarkedOK
  <2>5. TurnOK'
    BY <1>1, <2>1, <2>2, CallRecord DEF TurnOK
  <2>6. QED  BY <1>2, <2>3, <2>4, <2>5 DEF UpInv
<1>4. CASE pending # NoBuf
  <2>1. /\ tag' = [tag EXCEPT ![pending] = NoTag]
        /\ Release(Body, pending)
    BY <1>4 DEF FlushSkip
  <2>2. pending \in Bufs /\ pending = Latest /\ Acquired # <<>>
    BY <1>4, BaseParts DEF AccountOK, UpInv, PendingOK
  <2>3. /\ Acquired' = Acquired /\ Latest' = Latest
        /\ inuse'[Body] = inuse[Body] \ {pending}
        /\ \A c \in Bufs : resized'[c] => resized[c] /\ c # pending
        /\ InHand' = {} /\ call'.op \in {"idle", "trim"}
    BY <2>1, <2>2, ReleaseForgets
  <2>4. PendingOK'
    BY <1>1, <2>3 DEF UpInv, PendingOK
  <2>5. TurnOK'
    BY <1>1, <2>3 DEF TurnOK
  <2>6. MarkedOK'
    <3>1. NoBuf \notin Bufs
      BY BaseParts
    <3>2. QED  BY <1>1, <2>3, <3>1 DEF UpInv, MarkedOK
  <2>7. RecordOK'
    <3>1. tag'[Latest] = NoTag
      BY <2>1, <2>2, BaseParts DEF RingOK
    <3>2. Acquired \in Seq(Bufs) /\ Len(Acquired) \in Nat
      BY BaseParts, EmptyList
    <3>3. \A k \in 2 .. Len(Acquired) : Len(Acquired) \in k .. Len(Acquired)
      BY <3>2
    <3>4. \A k \in 2 .. Len(Acquired) : ~Recorded(k)'
      BY <2>3, <3>1, <3>3 DEF Recorded, Latest
    <3>5. 0 \in 0 .. Capacity
      BY CapacityAssumption
    <3>6. [b \in Bufs |-> 0] \in [Bufs -> 0 .. Capacity]
      BY <3>5
    <3>7. QED  BY <2>3, <3>4, <3>6 DEF RecordOK
  <2>8. QED  BY <1>2, <2>4, <2>5, <2>6, <2>7 DEF UpInv
<1>5. QED  BY <1>3, <1>4

\* A buffer is acquired: it is not marked.
LEMMA AcquireKeepsUp ==
  ASSUME Base, UpInv, Base', FlushAcquire \/ FlushAcquireNew
  PROVE  UpInv'
<1>1. /\ ~resizePending /\ pending = NoBuf /\ stage = "flush"
      /\ UNCHANGED <<pending, configured, resizePending, held, stage, flushes>>
      /\ UNCHANGED <<cache, end, cached, current, undrawn>>
      /\ AcquireUnused(Body) \/ AcquireFromPool(Body)
      /\ FlushAcquireNew \/ tag' = tag
  BY DEF FlushAcquire, FlushAcquireNew, Flushing, clientVars, bodyVars, cacheVars,
         drawVars, lvglVars
<1>2. history' = history /\ resized' = resized /\ call = Idle
  BY <1>1 DEF AcquireUnused, AcquireFromPool, bufVars
<1>3. PICK b \in Bufs : /\ b \notin inuse[Body]
                        /\ inuse'[Body] = inuse[Body] \cup {b}
                        /\ call' = Doing("init", Body, b)
  BY <1>1, AcquireTakes DEF Base
<1>4. /\ Acquired' = Acquired /\ Latest' = Latest
      /\ InHand' = {b} /\ call'.op = "init" /\ call.op = "idle"
  BY <1>2, <1>3, CallRecord DEF Acquired, Latest, InHand
<1>5. PendingOK' /\ TurnOK' /\ MarkedOK'
  <2>1. PendingOK'
    BY <1>1, <1>4 DEF UpInv, PendingOK
  <2>2. TurnOK'
    BY <1>1, <1>4 DEF UpInv, TurnOK
  <2>3. MarkedOK'
    BY <1>1, <1>2, <1>3, <1>4 DEF UpInv, MarkedOK
  <2>4. QED  BY <2>1, <2>2, <2>3
<1>6. LatestOK' /\ RecordOK'
  <2>1. \A c \in ToSet(Acquired) : tag'[c] = tag[c]
    <3>1. CASE tag' = tag
      BY <3>1
    <3>2. CASE FlushAcquireNew
      <4>1. /\ AcquireFromPool(Body)
            /\ tag' = [tag EXCEPT ![b] = NoTag]
        <5>1. call'.buf = b
          BY <1>3, CallRecord
        <5>2. tag' = [tag EXCEPT ![call'.buf] = NoTag] /\ AcquireFromPool(Body)
          BY <3>2 DEF FlushAcquireNew
        <5>3. QED  BY <5>1, <5>2
      <4>2. b \notin ToSet(Acquired)
        <5>1. unused[Body] = <<>>
          BY <4>1 DEF AcquireFromPool
        <5>2. ToSet(unused[Body]) = {}
          BY <5>1 DEF ToSet
        <5>3. b \notin Owned(Body)
          BY <1>3, <5>2, BaseParts DEF QueuesAt
        <5>4. QED  BY <5>3, BaseParts
      <4>3. tag \in [Bufs -> Position \cup {NoTag}] /\ ToSet(Acquired) \subseteq Bufs
        BY BaseParts DEF RingOK, Owned
      <4>4. QED  BY <4>1, <4>2, <4>3
    <3>3. QED  BY <1>1, <3>1, <3>2
  <2>2. (Drawing' => Drawing) /\ pending' = NoBuf
    BY <1>1 DEF Drawing
  <2>3. QED  BY <1>1, <1>4, <2>1, <2>2, CalmStays
<1>7. ASSUME InOrder
      PROVE  OrderOK'
  <2>1. SUFFICES ASSUME Acquired # <<>>, Latest \notin ToSet(held)
                 PROVE  held = <<>> /\ num'[Body] <= PreferNumBuffers
    BY <1>1, <1>4, <1>7 DEF UpInv, OrderOK
  <2>2. held = <<>> /\ num[Body] <= PreferNumBuffers
    BY <1>1, <1>4, <1>7, <2>1 DEF UpInv, OrderOK
  <2>3. AcquireUnused(Body)
    <3>1. SUFFICES ASSUME unused[Body] = <<>>
                   PROVE  FALSE
      BY <1>1 DEF AcquireFromPool
    <3>2. inuse[Body] = {}
      BY <1>1, <1>2, <2>2, BaseParts, CallRecord DEF AccountOK, InHand, ToSet
    <3>3. Owned(Body) = {}
      BY <3>1, <3>2, BaseParts DEF QueuesAt, ToSet
    <3>4. Latest \in ToSet(Acquired)
      BY <2>1, BaseParts, EmptyList DEF Latest
    <3>5. QED  BY <3>3, <3>4, BaseParts
  <2>4. num' = num
    BY <2>3 DEF AcquireUnused
  <2>5. QED  BY <2>2, <2>4
<1>8. QED  BY <1>5, <1>6, <1>7 DEF UpInv

\* No buffer is acquired.
LEMMA AcquireFailsKeepsUp ==
  ASSUME Base, UpInv, Base', FlushAcquireFails
  PROVE  UpInv'
<1>1. /\ ~resizePending /\ pending = NoBuf /\ AreaLost
      /\ stage' \in {"between", "frame"} /\ call = Idle
      /\ UNCHANGED <<history, call, inuse, unused, num, resized>>
      /\ UNCHANGED <<pending, configured, resizePending, held, tag>>
      /\ UNCHANGED <<cache, end, cached>>
  BY DEF FlushAcquireFails, Flushing, FlushReady, AcquireRefused, AcquireFails,
         queueVars, bufVars, bodyVars, cacheVars
<1>2. Acquired' = Acquired /\ Latest' = Latest /\ InHand' = InHand
  BY <1>1 DEF Acquired, Latest, InHand
<1>3. PendingOK' /\ MarkedOK' /\ (InOrder => OrderOK')
  BY <1>1, <1>2 DEF UpInv, PendingOK, MarkedOK, OrderOK
<1>4. TurnOK'
  BY <1>1, CallRecord DEF TurnOK
<1>5. LatestOK' /\ RecordOK'
  BY <1>1, <1>2, CalmLost DEF Drawing
<1>6. QED  BY <1>3, <1>4, <1>5 DEF UpInv

\* The mapping of a new buffer by sme_init_buffer.
LEMMA InitMapKeepsUp ==
  ASSUME Base, UpInv, Base', InitMap
  PROVE  UpInv'
<1>1. /\ UNCHANGED <<history, call, inuse, unused, num, resized>>
      /\ UNCHANGED <<pending, configured, resizePending, held, tag, stage, flushes>>
      /\ UNCHANGED <<cache, end, cached, current, undrawn>>
  BY DEF InitMap, Map, queueVars, bufVars, clientVars, bodyVars, cacheVars, drawVars,
         lvglVars
<1>2. /\ Acquired' = Acquired /\ Latest' = Latest /\ InHand' = InHand
      /\ Flushed' = Flushed /\ Flushed \in Int
      /\ AllCurrent => AllCurrent'
  BY <1>1, BaseParts DEF Acquired, Latest, InHand, Flushed, AllCurrent, Lack, Screen
<1>3. PendingOK' /\ TurnOK' /\ MarkedOK' /\ (InOrder => OrderOK')
  BY <1>1, <1>2 DEF UpInv, PendingOK, TurnOK, MarkedOK, OrderOK
<1>4. LatestOK' /\ RecordOK'
  BY <1>1, <1>2, CalmStays DEF Drawing
<1>5. QED  BY <1>3, <1>4 DEF UpInv

\* A buffer that could not be initialised is released, and is not in the history.
LEMMA InitFailsKeepsUp ==
  ASSUME Base, UpInv, Base', NEW b \in Bufs, InitFails(b)
  PROVE  UpInv'
<1>1. /\ call = Doing("init", Body, b) /\ call' = Doing("release", Body, b)
      /\ AreaLost /\ stage' \in {"between", "frame"}
      /\ UNCHANGED <<history, inuse, unused, num, resized>>
      /\ UNCHANGED <<pending, configured, resizePending, held, tag>>
      /\ UNCHANGED <<cache, end, cached>>
  BY DEF InitFails, InitBufferFails, FlushReady, queueVars, bufVars, bodyVars, cacheVars
<1>2. /\ Acquired' = Acquired /\ Latest' = Latest
      /\ InHand' = {b} /\ InHand = {b} /\ call.op = "init" /\ call'.op = "release"
  BY <1>1, CallRecord DEF Acquired, Latest, InHand
<1>3. pending = NoBuf
  BY <1>2, BaseParts, CallRecord DEF CallOK
<1>4. PendingOK' /\ MarkedOK' /\ (InOrder => OrderOK')
  BY <1>1, <1>2 DEF UpInv, PendingOK, MarkedOK, OrderOK
<1>5. TurnOK'
  BY <1>1, <1>2 DEF TurnOK
<1>6. LatestOK' /\ RecordOK'
  BY <1>1, <1>2, <1>3, CalmLost DEF Drawing
<1>7. QED  BY <1>4, <1>5, <1>6 DEF UpInv

----------------------------------------------------------------------------
(* The manager's calls go on *)

\* The pending buffer remains the latest when older ones are forgotten.
LEMMA OlderPending ==
  ASSUME UpInv, Acquired \in Seq(Bufs), NEW n, Older(n),
         UNCHANGED <<pending, configured, resizePending>>,
         pending = NoBuf \/ n < Len(Acquired)
  PROVE  PendingOK'
<1>1. /\ Len(Acquired) \in Nat /\ n \in 0 .. Len(Acquired)
      /\ Acquired = <<>> => Len(Acquired) = 0
      /\ Len(Acquired') = Len(Acquired) - n
      /\ n < Len(Acquired) => Acquired' # <<>> /\ Latest' = Latest
      /\ n = Len(Acquired) => Acquired' = <<>>
  BY EmptyList, OlderPlaces DEF Older
<1>2. Acquired' # <<>> => Acquired # <<>>
  BY <1>1
<1>3. Len(Acquired) <= 1 => Len(Acquired') <= 1
  BY <1>1
<1>4. QED  BY <1>1, <1>2, <1>3 DEF UpInv, PendingOK

\* A buffer that loses its mark, or leaves the history, does not matter to the
\* other marked ones.
LEMMA FewerMarked ==
  ASSUME UpInv, ToSet(Acquired') \subseteq ToSet(Acquired),
         \A b \in Bufs : resized'[b] => resized[b],
         inuse' = inuse, InHand' = InHand, pending' = pending
  PROVE  MarkedOK'
  BY DEF UpInv, MarkedOK

\* Which calls the manager goes on with.
LEMMA ManagerCases ==
  ASSUME Base, Manager
  PROVE  \/ call.op = "trim" /\ (Trim(Body) \/ TrimDone(Body))
         \/ call.op = "resize" /\ (ResizeUnused(Body) \/ ResizeInUse(Body))
         \/ call.op = "release" /\ call.buf \in Bufs /\ Release(Body, call.buf)
<1>1. /\ Proceed /\ call.op # "init" /\ CallOK
  BY BaseParts DEF Manager
<1>2. ASSUME NEW g, Destroying(g)
      PROVE  FALSE
  BY <1>1, <1>2, CallRecord DEF Destroying, CallOK, Idle
<1>3. ASSUME NEW g, NEW b, InitBuffer(g, b) \/ InitBufferFails(g, b)
      PROVE  FALSE
  BY <1>1, <1>3, CallRecord DEF InitBuffer, InitBufferFails
<1>4. ASSUME NEW g, NEW b, call # Idle, Release(g, b)
      PROVE  call.op = "release" /\ call.buf \in Bufs /\ Release(Body, call.buf)
  <2>1. call = Doing("release", g, b)
    BY <1>4 DEF Release
  <2>2. call.op = "release" /\ g = Body /\ b = call.buf
    BY <1>1, <2>1, CallRecord DEF CallOK, Idle
  <2>3. call.buf \in Bufs
    BY <1>1, <2>2, CallRecord DEF CallOK
  <2>4. QED  BY <1>4, <2>2, <2>3
<1>5. ASSUME NEW g, Trim(g) \/ TrimDone(g)
      PROVE  call.op = "trim" /\ g = Body
  <2>1. call = Doing("trim", g, NoBuf)
    BY <1>5 DEF Trim, TrimDone
  <2>2. QED  BY <1>1, <2>1, CallRecord DEF CallOK
<1>6. ASSUME NEW g, ResizeUnused(g) \/ ResizeInUse(g)
      PROVE  call.op = "resize" /\ g = Body
  <2>1. call = Doing("resize", g, NoBuf)
    BY <1>6 DEF ResizeUnused, ResizeInUse
  <2>2. QED  BY <1>1, <2>1, CallRecord DEF CallOK
<1>7. QED
  BY <1>1, <1>2, <1>3, <1>4, <1>5, <1>6
     DEF Proceed, DestroyUnused, DestroyDone, DestroyInUse

\* An unused buffer goes back to the pool, and with it older ones leave the history.
LEMMA ReturnForgets ==
  ASSUME Base, ReturnUnused(Body)
  PROVE  /\ unused[Body] # <<>> /\ unused'[Body] = Tail(unused[Body])
         /\ inuse' = inuse /\ call' = call
         /\ \A b \in Bufs : resized'[b] => resized[b]
         /\ \E n \in 0 .. Len(Acquired) :
              Older(n) /\ (n # 0 => Acquired[n] = Head(unused[Body]))
<1>1. /\ Body \in Groups /\ unused \in [Groups -> Seq(Bufs)]
      /\ history \in [Groups -> Seq(Bufs)] /\ Acquired \in Seq(Bufs)
  BY BaseParts DEF Base, IInv, TypeOK
<1>2. /\ unused[Body] # <<>> /\ unused' = [unused EXCEPT ![Body] = Tail(@)]
      /\ ReturnToPool(Head(unused[Body]), resized)
      /\ inuse' = inuse /\ call' = call
  BY DEF ReturnUnused
<1>3. owner[Head(unused[Body])] = Body
  BY <1>1, <1>2, QueuedOwned DEF Base
<1>4. /\ history' = [history EXCEPT ![Body] = Purged(@, Head(unused[Body]))]
      /\ \A b \in Bufs : resized'[b] => resized[b]
  BY <1>2, <1>3 DEF ReturnToPool
<1>5. Acquired' = Purged(Acquired, Head(unused[Body]))
  BY <1>1, <1>4 DEF Acquired
<1>6. PICK n \in 0 .. Len(Acquired) :
        /\ Purged(Acquired, Head(unused[Body])) = SubSeq(Acquired, n + 1, Len(Acquired))
        /\ n # 0 => Acquired[n] = Head(unused[Body])
  BY <1>1, PurgedPlaces
<1>7. Older(n)
  BY <1>5, <1>6 DEF Older
<1>8. QED  BY <1>1, <1>2, <1>4, <1>6, <1>7

\* The trimming never returns the latest buffer while LVGL draws.
LEMMA TrimSpares ==
  ASSUME KeepsLatest, Base, UpInv, Drawing, Acquired # <<>>, call.op = "trim",
         Trimming(Body)
  PROVE  Head(unused[Body]) # Latest
<1>1. /\ AccountOK /\ QueuesAt(Body) /\ unused[Body] \in Seq(Bufs)
      /\ InHand = {} /\ unused[Body] # <<>> /\ num[Body] > PreferNumBuffers
      /\ PreferNumBuffers \in Nat /\ num[Body] \in Nat
  BY BaseParts, PreferAssumption DEF InHand, Trimming, Base, IInv, TypeOK
<1>2. SUFFICES ASSUME Head(unused[Body]) = Latest
               PROVE  FALSE
  OBVIOUS
<1>3. Latest \in ToSet(unused[Body]) /\ Latest \notin inuse[Body] /\ Latest \in Bufs
  BY <1>1, <1>2, Dequeued DEF QueuesAt
<1>4. pending = NoBuf
  BY <1>1, <1>3 DEF AccountOK, UpInv, PendingOK
<1>5. num[Body] <= Cardinality(Owned(Body)) /\ Cardinality(Owned(Body)) \in Nat
  <2>1. IsFiniteSet(Owned(Body)) /\ Cardinality(Owned(Body)) \in Nat
    BY OwnedFinite, FS_CardinalityType
  <2>2. num[Body] = Cardinality(Owned(Body)) % NumRange
    BY BaseParts DEF Base, CountsModulo, CountAt
  <2>3. \A m \in Nat : m % 256 <= m
    OBVIOUS
  <2>4. QED  BY <2>1, <2>2, <2>3 DEF NumRange
<1>6. CASE Cardinality(Bufs) <= PreferNumBuffers
  <2>1. Cardinality(Owned(Body)) <= Cardinality(Bufs) /\ Cardinality(Bufs) \in Nat
    BY OwnedFinite, BufsAssumption, FS_CardinalityType
  <2>2. QED  BY <1>1, <1>5, <1>6, <2>1
<1>7. CASE InOrder /\ PreferNumBuffers >= 1
  <2>1. Latest \notin ToSet(held)
    BY <1>1, <1>3 DEF AccountOK
  <2>2. held = <<>> /\ unused[Body][Len(unused[Body])] = Latest
    <3>1. ~resizePending /\ call.op # "resize" /\ ~(num[Body] <= PreferNumBuffers)
      BY <1>1, <1>4 DEF Drawing
    <3>2. QED  BY <1>4, <1>7, <2>1, <3>1 DEF UpInv, OrderOK
  <2>3. Len(unused[Body]) = 1
    <3>1. /\ Len(unused[Body]) \in 1 .. Len(unused[Body])
          /\ 1 \in 1 .. Len(unused[Body])
          /\ DOMAIN unused[Body] = 1 .. Len(unused[Body])
      BY <1>1, EmptyList
    <3>2. unused[Body][1] = Latest
      BY <1>1, <1>2, HeadTailProperties
    <3>3. IsInjective(unused[Body])
      BY <1>1 DEF QueuesAt
    <3>4. QED  BY <2>2, <3>1, <3>2, <3>3 DEF IsInjective
  <2>4. ToSet(unused[Body]) \subseteq {Latest}
    <3>1. \A b \in ToSet(unused[Body]) : \E i \in 1 .. Len(unused[Body]) : unused[Body][i] = b
      BY <1>1, EmptyList
    <3>2. QED  BY <2>2, <2>3, <3>1
  <2>5. inuse[Body] = {}
    BY <1>1, <1>4, <2>2 DEF AccountOK, ToSet
  <2>6. Owned(Body) = {} \cup {Latest}
    BY <1>1, <1>3, <2>4, <2>5 DEF QueuesAt
  <2>7. Cardinality(Owned(Body)) = 1
    <3>1. IsFiniteSet({}) /\ Cardinality({}) = 0
      BY FS_EmptySet
    <3>2. Cardinality({} \cup {Latest}) = Cardinality({}) + 1
      BY <3>1, CountSteps
    <3>3. QED  BY <2>6, <3>1, <3>2
  <2>8. QED  BY <1>1, <1>5, <1>7, <2>7
<1>8. QED  BY <1>6, <1>7 DEF KeepsLatest

\* The manager returns a buffer that is not used to the pool: not the latest
\* one while LVGL draws, by KeepsLatest.
LEMMA TrimKeepsUp ==
  ASSUME KeepsLatest, Base, UpInv, Base', call.op = "trim", Trim(Body),
         UNCHANGED clientVars
  PROVE  UpInv'
<1>1. /\ Trimming(Body) /\ ReturnUnused(Body)
      /\ UNCHANGED <<pending, configured, resizePending, held, tag, stage, flushes>>
      /\ UNCHANGED <<cache, end, cached, current, undrawn>>
  BY DEF Trim, clientVars, bodyVars, cacheVars, drawVars, lvglVars
<1>2. /\ unused[Body] # <<>> /\ unused'[Body] = Tail(unused[Body])
      /\ inuse' = inuse /\ call' = call
      /\ \A b \in Bufs : resized'[b] => resized[b]
  BY <1>1, ReturnForgets
<1>3. PICK n \in 0 .. Len(Acquired) :
        Older(n) /\ (n # 0 => Acquired[n] = Head(unused[Body]))
  BY <1>1, ReturnForgets
<1>4. /\ Acquired \in Seq(Bufs) /\ Len(Acquired) \in Nat
      /\ Acquired = <<>> <=> Len(Acquired) = 0
      /\ unused[Body] \in Seq(Bufs)
  BY BaseParts, EmptyList
<1>5. /\ ToSet(Acquired') \subseteq ToSet(Acquired)
      /\ n < Len(Acquired) => Acquired' # <<>> /\ Latest' = Latest
      /\ n = Len(Acquired) => Acquired' = <<>>
  BY <1>3, <1>4, OlderPlaces
<1>6. Drawing /\ Acquired # <<>> => n < Len(Acquired)
  <2>1. SUFFICES ASSUME Drawing, Acquired # <<>>, n = Len(Acquired)
                 PROVE  FALSE
    BY <1>3, <1>4
  <2>2. Head(unused[Body]) = Latest
    BY <1>3, <1>4, <2>1 DEF Latest
  <2>3. QED  BY <1>1, <2>1, <2>2, TrimSpares
<1>7. LatestOK' /\ RecordOK'
  <2>1. Drawing' => Drawing
    BY <1>1 DEF Drawing
  <2>2. \A b \in Bufs : Lack(b)' \subseteq Lack(b)
    BY <1>1 DEF Lack, Screen
  <2>3. Flushed' = Flushed /\ Flushed \in Int
    BY <1>1, BaseParts DEF Flushed
  <2>4. Calmer
    BY <1>1, <2>1, <2>2, <2>3 DEF Calmer
  <2>5. QED  BY <1>3, <1>6, <2>1, <2>4, CalmKeeps
<1>8. PendingOK'
  <2>1. pending # NoBuf => Drawing /\ Acquired # <<>>
    BY DEF Drawing, UpInv, PendingOK
  <2>2. QED  BY <1>1, <1>3, <1>4, <1>6, <2>1, OlderPending
<1>9. MarkedOK'
  BY <1>1, <1>2, <1>5, FewerMarked DEF InHand
<1>10. TurnOK'
  <2>1. Acquired = <<>> => Acquired' = <<>>
    BY <1>3, <1>4, <1>5
  <2>2. QED  BY <1>1, <1>2, <2>1 DEF UpInv, TurnOK
<1>11. ASSUME InOrder
       PROVE  OrderOK'
  <2>1. SUFFICES ASSUME ~resizePending, pending = NoBuf, Acquired' # <<>>,
                        Latest' \notin ToSet(held)
                 PROVE  /\ held = <<>>
                        /\ unused'[Body] # <<>>
                        /\ unused'[Body][Len(unused'[Body])] = Latest'
    <3>1. ASSUME ~resizePending, pending = NoBuf, Acquired' # <<>>,
                 Latest' \in ToSet(held)
          PROVE  held[Len(held)] = Latest'
      <4>1. n < Len(Acquired) /\ Acquired # <<>>
        BY <1>3, <1>4, <1>5, <3>1
      <4>2. QED  BY <1>5, <1>11, <3>1, <4>1 DEF UpInv, OrderOK
    <3>2. QED  BY <1>1, <1>2, <3>1 DEF OrderOK
  <2>2. n < Len(Acquired) /\ Acquired # <<>> /\ Drawing
    BY <1>3, <1>4, <1>5, <2>1 DEF Drawing
  <2>3. Latest' = Latest
    BY <1>5, <2>2
  <2>4. num[Body] \in Nat /\ PreferNumBuffers \in Nat /\ num[Body] > PreferNumBuffers
    BY <1>1, BaseParts, PreferAssumption DEF Trimming, Base, IInv, TypeOK
  <2>5. ~(num[Body] <= PreferNumBuffers)
    BY <2>4
  <2>6. held = <<>> /\ unused[Body][Len(unused[Body])] = Latest
    BY <1>11, <2>1, <2>2, <2>3, <2>5 DEF UpInv, OrderOK
  <2>7. Head(unused[Body]) # Latest
    BY <1>1, <2>2, TrimSpares
  <2>8. /\ unused[Body][1] = Head(unused[Body]) /\ Len(unused[Body]) \in Nat \ {0}
        /\ Tail(unused[Body]) \in Seq(Bufs)
        /\ Len(Tail(unused[Body])) = Len(unused[Body]) - 1
        /\ \A j \in 1 .. (Len(unused[Body]) - 1) :
             Tail(unused[Body])[j] = unused[Body][j + 1]
    BY <1>2, <1>4, EmptyList, HeadTailProperties
  <2> DEFINE m == Len(unused[Body])
  <2>9. m # 1 /\ m \in Nat \ {0}
    BY <2>6, <2>7, <2>8
  <2>10. m - 1 \in 1 .. (m - 1) /\ (m - 1) + 1 = m /\ m - 1 # 0
    <3> HIDE DEF m
    <3>1. QED  BY <2>9
  <2>11. Tail(unused[Body])[m - 1] = unused[Body][m]
    BY <2>8, <2>10
  <2>12. Tail(unused[Body]) # <<>>
    BY <2>8, <2>10, EmptyList
  <2>13. QED  BY <1>2, <2>3, <2>6, <2>8, <2>11, <2>12
<1>12. QED  BY <1>7, <1>8, <1>9, <1>10, <1>11 DEF UpInv

\* The end of that trimming.
LEMMA TrimDoneKeepsUp ==
  ASSUME Base, UpInv, Base', call.op = "trim", TrimDone(Body), UNCHANGED clientVars
  PROVE  UpInv'
<1>1. /\ ~Trimming(Body) /\ call' = Idle
      /\ UNCHANGED <<history, inuse, unused, num, resized>>
      /\ UNCHANGED <<pending, configured, resizePending, held, tag, stage, flushes>>
      /\ UNCHANGED <<cache, end, cached, current, undrawn>>
  BY DEF TrimDone, queueVars, bufVars, clientVars, bodyVars, cacheVars, drawVars,
         lvglVars
<1>2. /\ Acquired' = Acquired /\ Latest' = Latest /\ InHand' = {} /\ InHand = {}
      /\ call'.op = "idle" /\ Flushed' = Flushed /\ Flushed \in Int
  BY <1>1, CallRecord, BaseParts DEF Acquired, Latest, InHand, Flushed
<1>3. PendingOK' /\ TurnOK' /\ MarkedOK'
  BY <1>1, <1>2 DEF UpInv, PendingOK, TurnOK, MarkedOK
<1>4. LatestOK' /\ RecordOK'
  BY <1>1, <1>2, CalmStays DEF Drawing
<1>5. unused[Body] = <<>> \/ num[Body] <= PreferNumBuffers
  <2>1. num[Body] \in Nat /\ PreferNumBuffers \in Nat
    BY BaseParts, PreferAssumption DEF Base, IInv, TypeOK
  <2>2. QED  BY <1>1, <2>1 DEF Trimming
<1>6. InOrder => OrderOK'
  BY <1>1, <1>2, <1>5 DEF UpInv, OrderOK
<1>7. QED  BY <1>3, <1>4, <1>6 DEF UpInv

\* A buffer resized while it is not used is forgotten, and there is no pending
\* one then.
LEMMA ResizeUnusedKeepsUp ==
  ASSUME Base, UpInv, Base', call.op = "resize", ResizeUnused(Body),
         UNCHANGED clientVars
  PROVE  UpInv'
<1>1. /\ ReturnUnused(Body)
      /\ UNCHANGED <<pending, configured, resizePending, held, tag, stage, flushes>>
      /\ UNCHANGED <<cache, end, cached, current, undrawn>>
  BY DEF ResizeUnused, clientVars, bodyVars, cacheVars, drawVars, lvglVars
<1>2. /\ inuse' = inuse /\ call' = call
      /\ \A b \in Bufs : resized'[b] => resized[b]
  BY <1>1, ReturnForgets
<1>3. PICK n \in 0 .. Len(Acquired) : Older(n)
  BY <1>1, ReturnForgets
<1>4. Acquired \in Seq(Bufs) /\ pending = NoBuf /\ AllCurrent
  BY BaseParts DEF UpInv, TurnOK
<1>5. /\ ToSet(Acquired') \subseteq ToSet(Acquired)
      /\ Acquired = <<>> => Acquired' = <<>>
  <2>1. Len(Acquired) \in Nat /\ (Acquired = <<>> => Len(Acquired) = 0)
    BY <1>4, EmptyList
  <2>2. Acquired = <<>> => n = Len(Acquired)
    BY <1>3, <2>1
  <2>3. QED  BY <1>3, <1>4, <2>2, OlderPlaces
<1>6. AllCurrent'
  BY <1>1, <1>4 DEF AllCurrent, Lack, Screen
<1>7. LatestOK' /\ RecordOK'
  <2>1. Calmer
    BY <1>1, <1>4, <1>6 DEF Calmer
  <2>2. QED  BY <1>3, <1>6, <2>1, CalmKeeps
<1>8. PendingOK' /\ MarkedOK' /\ OrderOK'
  <2>1. PendingOK'
    BY <1>1, <1>3, <1>4, OlderPending
  <2>2. MarkedOK'
    BY <1>1, <1>2, <1>5, FewerMarked DEF InHand
  <2>3. QED  BY <1>2, <2>1, <2>2 DEF OrderOK
<1>9. TurnOK'
  BY <1>1, <1>2, <1>4, <1>5, <1>6 DEF UpInv, TurnOK
<1>10. QED  BY <1>7, <1>8, <1>9 DEF UpInv

\* With no buffer unused smm_resize empties the history.
LEMMA ResizeInUseKeepsUp ==
  ASSUME Base, UpInv, Base', call.op = "resize", ResizeInUse(Body),
         UNCHANGED clientVars
  PROVE  UpInv'
<1>1. /\ unused[Body] = <<>> /\ call' = Idle /\ inuse' = inuse
      /\ resized' = [b \in Bufs |-> b \in inuse[Body] \/ resized[b]]
      /\ UNCHANGED <<pending, configured, resizePending, held, tag, stage, flushes>>
      /\ UNCHANGED <<cache, end, cached, current, undrawn>>
  BY DEF ResizeInUse, clientVars, bodyVars, cacheVars, drawVars, lvglVars
<1>2. /\ Body \in Groups /\ history \in [Groups -> Seq(Bufs)]
      /\ Acquired \in Seq(Bufs) /\ pending = NoBuf /\ AllCurrent
      /\ call'.op = "idle" /\ InHand' = {} /\ NoBuf \notin Bufs
  BY <1>1, BaseParts, CallRecord DEF Base, IInv, TypeOK, UpInv, TurnOK, InHand
<1>3. PICK n \in 0 .. Len(Acquired) :
        /\ \A i \in (n + 1) .. Len(Acquired) : Acquired[i] \notin inuse[Body]
        /\ history' = [history EXCEPT ![Body] = SubSeq(@, n + 1, Len(Acquired))]
  BY DEF ResizeInUse, Acquired
<1>4. n = Len(Acquired)
  <2>1. SUFFICES ASSUME n # Len(Acquired)
                 PROVE  FALSE
    OBVIOUS
  <2>2. Len(Acquired) \in (n + 1) .. Len(Acquired) /\ Len(Acquired) \in 1 .. Len(Acquired)
    BY <1>2, <1>3, <2>1, EmptyList
  <2>3. Acquired[Len(Acquired)] \in Owned(Body)
    BY <1>2, <2>2, BaseParts, EmptyList
  <2>4. Acquired[Len(Acquired)] \in inuse[Body]
    BY <1>1, <2>3, BaseParts DEF QueuesAt, ToSet
  <2>5. QED  BY <1>3, <2>2, <2>4
<1>5. Older(n)
  BY <1>2, <1>3 DEF Older, Acquired
<1>6. Acquired' = <<>>
  BY <1>2, <1>4, <1>5, OlderPlaces
<1>7. AllCurrent'
  BY <1>1, <1>2 DEF AllCurrent, Lack, Screen
<1>8. LatestOK' /\ RecordOK'
  <2>1. Calmer
    BY <1>1, <1>2, <1>7 DEF Calmer
  <2>2. QED  BY <1>5, <1>7, <2>1, CalmKeeps
<1>9. PendingOK'
  BY <1>1, <1>2, <1>5, OlderPending
<1>10. TurnOK' /\ OrderOK'
  BY <1>1, <1>2, <1>6 DEF UpInv, TurnOK, OrderOK
<1>11. MarkedOK'
  <2>1. \A b \in Bufs : resized'[b] => b \in inuse'[Body]
    BY <1>1 DEF UpInv, MarkedOK
  <2>2. ToSet(Acquired') = {}
    BY <1>6 DEF ToSet
  <2>3. QED  BY <1>1, <1>2, <2>1, <2>2 DEF MarkedOK
<1>12. QED  BY <1>8, <1>9, <1>10, <1>11 DEF UpInv

\* A buffer that could not be initialised is released.
LEMMA ReleaseKeepsUp ==
  ASSUME Base, UpInv, Base', call.op = "release", call.buf \in Bufs,
         Release(Body, call.buf), UNCHANGED clientVars
  PROVE  UpInv'
<1>1. /\ UNCHANGED <<pending, configured, resizePending, held, tag, stage, flushes>>
      /\ UNCHANGED <<cache, end, cached, current, undrawn>>
  BY DEF clientVars, bodyVars, cacheVars, drawVars, lvglVars
<1>2. PICK b \in Bufs : b = call.buf
  OBVIOUS
<1>3. b \in InHand /\ ~resized[b]
  BY <1>2 DEF InHand, UpInv, MarkedOK
<1>4. /\ Acquired' = Acquired /\ Latest' = Latest
      /\ inuse'[Body] = inuse[Body] \ {b}
      /\ \A c \in Bufs : resized'[c] => resized[c] /\ c # b
      /\ InHand' = {} /\ call'.op = "trim" /\ num' = num
  BY <1>2, <1>3, ReleaseForgets
<1>5. PendingOK' /\ TurnOK' /\ MarkedOK'
  <2>1. PendingOK'
    BY <1>1, <1>4 DEF UpInv, PendingOK
  <2>2. TurnOK'
    BY <1>1, <1>4 DEF UpInv, TurnOK
  <2>3. MarkedOK'
    BY <1>1, <1>4 DEF UpInv, MarkedOK
  <2>4. QED  BY <2>1, <2>2, <2>3
<1>6. LatestOK' /\ RecordOK'
  <2>1. Flushed' = Flushed /\ Flushed \in Int /\ (Drawing' => Drawing)
    BY <1>1, BaseParts DEF Flushed, Drawing
  <2>2. QED  BY <1>1, <1>4, <2>1, CalmStays
<1>7. InOrder => OrderOK'
  BY <1>1, <1>4 DEF UpInv, OrderOK
<1>8. QED  BY <1>5, <1>6, <1>7 DEF UpInv

\* The steps of the manager in a call of the body.
LEMMA ManagerKeepsUp ==
  ASSUME KeepsLatest, Base, UpInv, Base', Manager
  PROVE  UpInv'
<1>1. UNCHANGED clientVars
  BY DEF Manager
<1>2. QED
  BY <1>1, ManagerCases, TrimKeepsUp, TrimDoneKeepsUp, ResizeUnusedKeepsUp,
     ResizeInUseKeepsUp, ReleaseKeepsUp

----------------------------------------------------------------------------
(* A buffer is brought up to date, and drawn to *)

\* The history when a buffer becomes the latest: the newer ones, and then this one.
LEMMA InitPlaces ==
  ASSUME Base, NEW b \in Bufs, InitDone(b)
  PROVE  /\ Acquired' \in Seq(Bufs) /\ Acquired' # <<>> /\ Latest' = b
         /\ ToSet(Acquired') \subseteq ToSet(Acquired) \cup {b}
         /\ \E n \in 0 .. Len(Acquired) :
              LET m == Len(Acquired) - n
              IN  /\ Len(Acquired') = m + 1 /\ Acquired'[m + 1] = b
                  /\ \A i \in 1 .. m : /\ Acquired'[i] = Acquired[i + n]
                                       /\ Acquired[i + n] # b
<1> DEFINE h == Acquired
           p == Purged(h, b)
<1>1. /\ h \in Seq(Bufs) /\ IsInjective(h) /\ Body \in Groups
      /\ history \in [Groups -> Seq(Bufs)] /\ Len(h) \in Nat
  BY BaseParts, EmptyList DEF Base, IInv, TypeOK
<1>2. Acquired' = Append(p, b)
  <2>1. history' = [history EXCEPT ![Body] = Append(Purged(@, b), b)]
    BY DEF InitDone, InitBuffer
  <2>2. QED  BY <1>1, <2>1 DEF Acquired
<1>3. p \in Seq(Bufs) /\ ToSet(p) \subseteq ToSet(h) \ {b} /\ IsInjective(p)
  BY <1>1, PurgedSet
<1>4. PICK n \in 0 .. Len(h) : p = SubSeq(h, n + 1, Len(h))
  BY <1>1, PurgedPlaces
<1>5. Len(p) = Len(h) - n /\ \A i \in 1 .. (Len(h) - n) : p[i] = h[i + n]
  BY <1>1, <1>4, RestPlaces
<1>6. b \notin ToSet(p) /\ \A i \in 1 .. (Len(h) - n) : p[i] \in ToSet(p)
  BY <1>3, <1>5, EmptyList
<1> HIDE DEF p, h
<1>7. /\ Append(p, b) \in Seq(Bufs) /\ Append(p, b) # <<>>
      /\ Len(Append(p, b)) = Len(p) + 1
      /\ Append(p, b)[Len(Append(p, b))] = b
  BY <1>3, LastAppended
<1>8. \A i \in 1 .. Len(p) : Append(p, b)[i] = p[i]
  BY <1>3, AppendProperties
<1>9. ToSet(Append(p, b)) = ToSet(p) \cup {b}
  BY <1>3, <1>6, Enqueued
<1>10. LET m == Len(h) - n
       IN  /\ Len(Acquired') = m + 1 /\ Acquired'[m + 1] = b
           /\ \A i \in 1 .. m : Acquired'[i] = h[i + n] /\ h[i + n] # b
  BY <1>2, <1>5, <1>6, <1>7, <1>8
<1>11. /\ Acquired' \in Seq(Bufs) /\ Acquired' # <<>> /\ Latest' = b
       /\ ToSet(Acquired') \subseteq ToSet(h) \cup {b}
  BY <1>2, <1>3, <1>7, <1>9 DEF Latest
<1>12. QED  BY <1>10, <1>11 DEF h

\* Its damage begins at the end, and that of the others stays where it was.
LEMMA InitRecords ==
  ASSUME Base, UpInv, Drawing, NEW b \in Bufs, InitDone(b), Flushed \in Nat
  PROVE  RecordOK'
<1> DEFINE h == Acquired
           t == Acquired'
           len == Len(h)
<1>1. /\ UNCHANGED <<cache, end, cached, undrawn, stage, flushes>>
      /\ tag' = [tag EXCEPT ![b] = end]
      /\ current' = [current EXCEPT ![b] = Initialised(b)]
  BY DEF InitDone, cacheVars, lvglVars
<1>2. /\ h \in Seq(Bufs) /\ len \in Nat /\ (h = <<>> <=> len = 0)
      /\ \A i \in 1 .. len : h[i] \in Bufs
      /\ tag \in [Bufs -> Position \cup {NoTag}] /\ current \in [Bufs -> Pictures]
      /\ end \in Position /\ cached \in 0 .. Capacity /\ Capacity \in Nat \ {0}
      /\ NoTag \notin Position
  BY BaseParts, EmptyList, CapacityAssumption DEF RingOK, PictureOK, Position
<1>3. PICK n \in 0 .. len :
        /\ Len(t) = (len - n) + 1 /\ t[(len - n) + 1] = b
        /\ \A i \in 1 .. (len - n) : t[i] = h[i + n] /\ h[i + n] # b
  BY InitPlaces
<1>4. PICK far \in [Bufs -> 0 .. Capacity] :
        \A k \in 2 .. len : Recorded(k) => Reaches(far, k)
  BY DEF UpInv, RecordOK
<1> DEFINE dist == [far EXCEPT ![b] = 0]
           m == len - n
<1>5. dist \in [Bufs -> 0 .. Capacity] /\ dist[b] = 0 /\ m \in Nat
  BY <1>2, <1>3, <1>4
<1>6. \A c \in Bufs : c # b => dist[c] = far[c] /\ tag'[c] = tag[c] /\ Lack(c)' = Lack(c)
  BY <1>1, <1>2, <1>4 DEF Lack, Screen
<1>7. \A d : Damage(d, 0)' = Damage(d, 0)
  BY <1>1 DEF Damage, Back
<1>8. Flushed' = Flushed
  BY <1>1 DEF Flushed
<1>9. m # 0 => h # <<>> /\ h[m + n] = Latest /\ Lack(Latest) = {}
  <2>1. m # 0 => len # 0
    BY <1>2, <1>3
  <2>2. m + n = len
    BY <1>2, <1>3
  <2>3. QED  BY <1>2, <2>1, <2>2 DEF Latest, UpInv, LatestOK
<1> SUFFICES ASSUME NEW k \in 2 .. (m + 1), Recorded(k)'
             PROVE  Reaches(dist, k)'
  BY <1>3, <1>5 DEF RecordOK
<1> HIDE DEF h, t, len, dist, m
<1>10. CASE k = m + 1
  <2>1. k - 1 \in 1 .. m /\ k - 1 = m /\ m # 0
    BY <1>5, <1>10
  <2>2. t[k] = b /\ t[k - 1] = h[m + n] /\ h[m + n] # b
    BY <1>3, <1>10, <2>1 DEF m
  <2>3. PICK p \in Bufs : p = t[k - 1] /\ p # b /\ Lack(p) = {}
    <3>1. h[m + n] = Latest /\ Lack(Latest) = {} /\ Latest \in Bufs
      BY <1>2, <1>9, <2>1 DEF Latest, h, len
    <3>2. QED  BY <2>2, <3>1
  <2>4. Lack(Acquired[k - 1])' = {}
    <3>1. Lack(p)' = {}
      BY <1>6, <2>3
    <3>2. Acquired'[k - 1] = p
      BY <2>3 DEF t
    <3>3. Lack(Acquired[k - 1])' = Lack(p)'
      BY <3>2 DEF Lack, Screen
    <3>4. QED  BY <3>1, <3>3
  <2>5. tag'[b] = end
    BY <1>1, <1>2
  <2>6. /\ 0 <= cached' /\ tag'[b] + 0 \in {end', end' + Capacity}
        /\ 0 < Capacity /\ 0 <= Flushed'
    BY <1>1, <1>2, <1>8, <2>5 DEF Position
  <2>7. Len(Acquired') = k /\ ~(k < k) /\ Acquired'[k] = b
    BY <1>3, <1>5, <1>10, <2>2 DEF m, t
  <2>8. QED  BY <1>5, <2>4, <2>6, <2>7 DEF Reaches
<1>11. CASE k # m + 1
  <2>1. k \in 1 .. m /\ k - 1 \in 1 .. m /\ k < m + 1
    BY <1>5, <1>11
  <2>2. /\ k + n \in 2 .. len /\ (k - 1) + n = (k + n) - 1
        /\ k + n \in 1 .. len /\ (k + n) - 1 \in 1 .. len
    BY <1>2, <1>3, <2>1 DEF m
  <2>3. PICK c \in Bufs : c = h[k + n] /\ c # b /\ t[k] = c
    BY <1>2, <1>3, <2>1, <2>2 DEF m
  <2>4. PICK p \in Bufs : p = h[(k + n) - 1] /\ p # b /\ t[k - 1] = p
    BY <1>2, <1>3, <2>1, <2>2 DEF m
  <2>5. Recorded(k + n)
    <3>1. SUFFICES ASSUME NEW j \in (k + n) .. len
                   PROVE  tag[h[j]] # NoTag
      BY DEF Recorded, h, len
    <3>2. /\ j - n \in k .. (m + 1) /\ j - n \in 1 .. m /\ (j - n) + n = j
          /\ j \in 1 .. len
      BY <1>2, <1>3, <2>1, <3>1 DEF m
    <3>3. t[j - n] = h[j] /\ h[j] # b /\ h[j] \in Bufs
      BY <1>2, <1>3, <3>2 DEF m
    <3>4. Len(t) = m + 1
      BY <1>3 DEF m
    <3>5. tag'[t[j - n]] # NoTag
      BY <3>2, <3>4 DEF Recorded, t
    <3>6. QED  BY <1>6, <3>3, <3>5
  <2>6. Reaches(far, k + n)
    BY <1>4, <2>2, <2>5
  <2>7. /\ dist[c] <= cached'
        /\ tag'[c] + dist[c] \in {end', end' + Capacity}
    BY <1>1, <1>6, <2>3, <2>6 DEF Reaches, h
  <2>8. dist[t[k + 1]] <= dist[c] /\ dist[c] < dist[t[k + 1]] + Capacity
    <3>1. CASE k = m
      <4>1. t[k + 1] = b /\ k + n = len
        BY <1>2, <1>3, <1>5, <3>1 DEF m
      <4>2. far[c] < Capacity /\ far[c] \in 0 .. Capacity
        BY <1>4, <2>3, <2>6, <4>1 DEF Reaches, h, len
      <4>3. QED  BY <1>2, <1>5, <1>6, <2>3, <4>1, <4>2
    <3>2. CASE k # m
      <4>1. k + 1 \in 1 .. m /\ (k + 1) + n = (k + n) + 1 /\ k + n < len
        BY <1>2, <1>3, <1>5, <2>1, <3>2 DEF m
      <4>2. PICK q \in Bufs : q = h[(k + n) + 1] /\ q # b /\ t[k + 1] = q
        <5>1. (k + n) + 1 \in 1 .. len
          BY <1>2, <2>2, <4>1
        <5>2. t[k + 1] = h[(k + 1) + n] /\ h[(k + 1) + n] # b
          BY <1>3, <4>1 DEF m
        <5>3. QED  BY <1>2, <4>1, <5>1, <5>2
      <4>3. far[q] <= far[c] /\ far[c] < far[q] + Capacity
        BY <2>3, <2>6, <4>1, <4>2 DEF Reaches, h, len
      <4>4. QED  BY <1>6, <2>3, <4>2, <4>3
    <3>3. QED  BY <3>1, <3>2
  <2>9. Lack(p)' \subseteq Damage(dist[c], 0)'
    <3>1. Lack(p) \subseteq Damage(far[c], 0)
      BY <2>3, <2>4, <2>6 DEF Reaches, h
    <3>2. Damage(dist[c], 0)' = Damage(far[c], 0)
      <4>1. dist[c] = far[c]
        BY <1>6, <2>3
      <4>2. QED  BY <1>7, <4>1
    <3>3. QED  BY <1>6, <2>4, <3>1, <3>2
  <2>10. Acquired'[k] = c /\ Acquired'[k - 1] = p /\ Len(Acquired') = m + 1
    BY <1>3, <2>3, <2>4 DEF m, t
  <2>11. Lack(Acquired[k - 1])' \subseteq Damage(dist[Acquired[k]], 0)'
    <3>1. Lack(Acquired[k - 1])' = Lack(p)'
      BY <2>10 DEF Lack, Screen
    <3>2. Damage(dist[Acquired[k]], 0)' = Damage(dist[c], 0)'
      BY <2>10 DEF Damage, Back
    <3>3. QED  BY <2>9, <3>1, <3>2
  <2>12. /\ dist[Acquired'[k + 1]] <= dist[c]
         /\ dist[c] < dist[Acquired'[k + 1]] + Capacity
    BY <2>8 DEF t
  <2>13. QED
    BY <1>11, <2>7, <2>10, <2>11, <2>12 DEF Reaches
<1>12. QED  BY <1>10, <1>11

\* sme_init_buffer brings the buffer that was acquired up to date: it becomes
\* the latest, and all that is recorded of the others holds on.
LEMMA InitDoneKeepsUp ==
  ASSUME BytesPerPixel = 1, Base, UpInv, Base', NEW b \in Bufs, InitDone(b)
  PROVE  UpInv'
<1>1. /\ call = Doing("init", Body, b) /\ call' = Idle /\ pending' = b
      /\ current' = [current EXCEPT ![b] = Initialised(b)]
      /\ UNCHANGED <<inuse, resized>>
      /\ UNCHANGED <<configured, resizePending, undrawn, stage, flushes>>
  BY DEF InitDone, InitBuffer, bufVars, lvglVars
<1>2. /\ call.op = "init" /\ InHand = {b} /\ InHand' = {} /\ call'.op = "idle"
      /\ ~resizePending /\ pending = NoBuf /\ stage = "flush" /\ flushes >= 1
      /\ b # NoBuf /\ Drawing
  <2>1. call.op = "init" /\ InHand = {b} /\ InHand' = {} /\ call'.op = "idle"
    BY <1>1, CallRecord DEF InHand
  <2>2. stage = "flush" /\ pending = NoBuf /\ b # NoBuf
    BY <2>1, BaseParts, CallRecord DEF CallOK
  <2>3. QED  BY <2>1, <2>2 DEF UpInv, TurnOK, Drawing
<1>3. /\ Acquired' \in Seq(Bufs) /\ Acquired' # <<>> /\ Latest' = b
      /\ ToSet(Acquired') \subseteq ToSet(Acquired) \cup {b}
  BY InitPlaces
<1>4. PendingOK'
  <2>1. ASSUME ~configured
        PROVE  Len(Acquired') <= 1
    <3>1. Acquired = <<>> /\ Len(Acquired) = 0
      BY <1>2, <2>1, BaseParts, EmptyList DEF UpInv, PendingOK
    <3>2. PICK n \in 0 .. Len(Acquired) : Len(Acquired') = (Len(Acquired) - n) + 1
      BY InitPlaces
    <3>3. QED  BY <3>1, <3>2
  <2>2. QED  BY <1>1, <1>2, <1>3, <2>1 DEF PendingOK
<1>5. TurnOK'
  BY <1>1, <1>2 DEF TurnOK
<1>6. MarkedOK'
  BY <1>1, <1>2, <1>3 DEF UpInv, MarkedOK
<1>7. OrderOK'
  BY <1>1, <1>2 DEF OrderOK
<1>8. LatestOK'
  <2>1. Screen \subseteq Initialised(b) \cup undrawn
    BY <1>2, BaseParts, InitialisedShows DEF UpInv
  <2>2. current'[b] = Initialised(b)
    BY <1>1, BaseParts DEF PictureOK
  <2>3. Screen \ (current'[b] \cup undrawn') = {}
    BY <1>1, <2>1, <2>2
  <2>4. Lack(Latest)' = Screen \ (current'[Latest'] \cup undrawn')
    BY DEF Lack, Screen
  <2>5. QED  BY <1>3, <2>3, <2>4 DEF LatestOK
<1>9. RecordOK'
  <2>1. Flushed \in Nat
    <3>1. flushes \in Nat
      BY BaseParts, CapacityAssumption DEF StageOK
    <3>2. QED  BY <1>2, <3>1 DEF Flushed
  <2>2. QED  BY <1>2, <2>1, InitRecords
<1>10. QED  BY <1>4, <1>5, <1>6, <1>7, <1>8, <1>9 DEF UpInv

\* An area that is cached is the damage before the end; all other is further back.
LEMMA DamageGrows ==
  ASSUME RingOK, NEW a, cache' = [cache EXCEPT ![end] = a],
         end' = (end + 1) % Capacity, NEW m \in 0 .. (Capacity - 1)
  PROVE  Damage(m, 0) \cup Bytes(a) \subseteq Damage(m + 1, 0)'
<1>1. /\ Capacity \in Nat \ {0} /\ end \in 0 .. (Capacity - 1) /\ m \in 0 .. (Capacity - 1)
      /\ cache \in [Position -> Areas \cup {NoArea}] /\ end \in Position
  BY CapacityAssumption DEF RingOK, Position
<1>2. /\ end' \in 0 .. (Capacity - 1)
      /\ end' = end + 1 \/ end' = end + 1 - Capacity
  BY <1>1, NextInRing DEF Position
<1> DEFINE back(d) == IF d <= end' THEN end' - d ELSE end' + Capacity - d
<1>3. Damage(m + 1, 0)' = UNION {Bytes(cache'[back(d)]) : d \in 1 .. (m + 1)}
  <2>1. (0 + 1) .. (m + 1) = 1 .. (m + 1)
    OBVIOUS
  <2>2. QED  BY <2>1 DEF Damage, Back, Bytes
<1>4. Damage(m, 0) = UNION {Bytes(cache[Back(d)]) : d \in 1 .. m}
  BY DEF Damage
<1>5. back(1) = end /\ 1 \in 1 .. (m + 1)
  BY <1>1, <1>2
<1>6. \A d \in 1 .. m : /\ d + 1 \in 1 .. (m + 1) /\ back(d + 1) = Back(d)
                        /\ Back(d) # end /\ Back(d) \in Position
  BY <1>1, <1>2 DEF Back, Position
<1> HIDE DEF back
<1>7. Bytes(a) \subseteq Damage(m + 1, 0)'
  <2>1. cache'[back(1)] = a
    BY <1>1, <1>5
  <2>2. QED  BY <1>3, <1>5, <2>1
<1>8. ASSUME NEW d \in 1 .. m
      PROVE  Bytes(cache[Back(d)]) \subseteq Damage(m + 1, 0)'
  <2>1. cache'[back(d + 1)] = cache[Back(d)] /\ d + 1 \in 1 .. (m + 1)
    BY <1>1, <1>6
  <2>2. QED  BY <1>3, <2>1
<1>9. QED  BY <1>4, <1>7, <1>8

\* A ring that is not full has a place for an area.
LEMMA RoomInRing ==
  ASSUME RingOK, ~CacheFull
  PROVE  cached < Capacity
<1>1. /\ Capacity \in Nat \ {0}
      /\ start \in 0 .. (Capacity - 1) /\ end \in 0 .. (Capacity - 1)
      /\ cached \in 0 .. Capacity /\ start + cached \in {end, end + Capacity}
  BY CapacityAssumption DEF RingOK, Position
<1>2. QED  BY <1>1 DEF CacheFull

\* Without a record of the latest buffer's damage there is nothing to be right.
LEMMA NothingRecorded ==
  ASSUME Acquired \in Seq(Bufs), Acquired' = Acquired, Acquired # <<>>,
         tag'[Latest] = NoTag
  PROVE  RecordOK'
<1>1. Len(Acquired) \in Nat
  BY EmptyList
<1>2. \A k \in 2 .. Len(Acquired) : Len(Acquired) \in k .. Len(Acquired)
  BY <1>1
<1>3. \A k \in 2 .. Len(Acquired) : ~Recorded(k)'
  BY <1>2 DEF Recorded, Latest
<1>4. 0 \in 0 .. Capacity
  BY CapacityAssumption
<1>5. [b \in Bufs |-> 0] \in [Bufs -> 0 .. Capacity]
  BY <1>4
<1>6. QED  BY <1>3, <1>5 DEF RecordOK

\* The area drawn is the damage of the latest buffer: what the others lack now.
LEMMA DrawRecords ==
  ASSUME FrameAreas < Capacity, Base, UpInv, FlushDraw
  PROVE  RecordOK'
<1>1. /\ stage = "flush" /\ pending # NoBuf
      /\ stage' = (IF last THEN "between" ELSE "frame")
      /\ flushes' = (IF last THEN 0 ELSE flushes)
      /\ current' = [b \in Bufs |->
                       IF b = pending THEN current[b] \cup Bytes(area)
                                      ELSE current[b] \ Bytes(area)]
      /\ undrawn' = undrawn \ Bytes(area)
      /\ CacheAdd(pending, area)
      /\ pending' = NoBuf \/ ~(last /\ configured)
      /\ history' = history
  BY DEF FlushDraw, FlushReady, Flushing, vars, queueVars
<1>2. /\ pending = Latest /\ Acquired # <<>> /\ pending \in Bufs /\ Drawing
      /\ Acquired' = Acquired /\ Acquired \in Seq(Bufs)
      /\ Len(Acquired) \in Nat /\ \A i \in 1 .. Len(Acquired) : Acquired[i] \in Bufs
      /\ RingOK
  BY <1>1, BaseParts, EmptyList DEF AccountOK, UpInv, PendingOK, Drawing, Acquired
<1>3. /\ Capacity \in Nat \ {0} /\ FrameAreas \in Nat \ {0} /\ FrameAreas < Capacity
      /\ flushes \in 0 .. FrameAreas /\ flushes >= 1
      /\ tag \in [Bufs -> Position \cup {NoTag}]
      /\ \A b \in Bufs : tag[b] # NoTag => tag[b] \in 0 .. (Capacity - 1)
  BY <1>1, <1>2, BaseParts, CapacityAssumption
     DEF RingOK, StageOK, UpInv, TurnOK, Position
<1>4. CASE tag[pending] = NoTag \/ CacheFull
  <2>1. tag'[pending] = NoTag
    BY <1>1, <1>2, <1>3, <1>4 DEF CacheAdd, cacheVars
  <2>2. QED  BY <1>2, <2>1, NothingRecorded
<1>5. CASE tag[pending] # NoTag /\ ~CacheFull
  <2>1. /\ cache' = [cache EXCEPT ![end] = area]
        /\ end' = (end + 1) % Capacity
        /\ cached' = cached + 1
        /\ tag' = tag
    BY <1>1, <1>5 DEF CacheAdd
  <2>2. /\ cached < Capacity /\ cached \in 0 .. Capacity
        /\ end \in 0 .. (Capacity - 1) /\ end' \in 0 .. (Capacity - 1)
        /\ end' = end + 1 \/ end' = end + 1 - Capacity
    BY <1>2, <1>5, <2>1, RoomInRing, NextInRing DEF RingOK, Position
  <2>3. PICK far \in [Bufs -> 0 .. Capacity] :
          \A k \in 2 .. Len(Acquired) : Recorded(k) => Reaches(far, k)
    BY DEF UpInv, RecordOK
  <2> DEFINE dist == [b \in Bufs |-> IF far[b] < Capacity THEN far[b] + 1 ELSE Capacity]
             len == Len(Acquired)
  <2>4. dist \in [Bufs -> 0 .. Capacity]
    BY <1>3, <2>3
  <2>5. \A k \in 2 .. len : Recorded(k) => /\ far[Acquired[k]] \in 0 .. (Capacity - 1)
                                           /\ dist[Acquired[k]] = far[Acquired[k]] + 1
    <3>1. SUFFICES ASSUME NEW k \in 2 .. len, Recorded(k)
                   PROVE  /\ far[Acquired[k]] \in 0 .. (Capacity - 1)
                          /\ dist[Acquired[k]] = far[Acquired[k]] + 1
      OBVIOUS
    <3>2. PICK b \in Bufs : b = Acquired[k]
      BY <1>2
    <3>3. far[b] <= cached
      BY <2>3, <3>1, <3>2 DEF Reaches
    <3>4. far[b] \in 0 .. Capacity /\ far[b] < Capacity
      BY <1>3, <2>2, <2>3, <3>3
    <3>5. QED  BY <1>3, <3>2, <3>4
  <2> SUFFICES ASSUME NEW k \in 2 .. len, Recorded(k)'
               PROVE  Reaches(dist, k)'
    BY <1>2, <2>4 DEF RecordOK
  <2>6. Recorded(k) /\ (k < len => k + 1 \in 2 .. len /\ Recorded(k + 1))
    <3>1. Recorded(k)
      BY <1>2, <2>1 DEF Recorded
    <3>2. k < len => /\ k + 1 \in 2 .. len
                     /\ \A j \in (k + 1) .. len : j \in k .. len
      BY <1>2
    <3>3. QED  BY <3>1, <3>2 DEF Recorded
  <2> HIDE DEF dist, len
  <2>7. Reaches(far, k)
    BY <2>3, <2>6 DEF len
  <2>8. PICK b \in Bufs : b = Acquired[k]
    BY <1>2 DEF len
  <2>9. PICK p \in Bufs : p = Acquired[k - 1]
    <3>1. k - 1 \in 1 .. Len(Acquired)
      BY <1>2 DEF len
    <3>2. QED  BY <1>2, <3>1
  <2>10. far[b] \in 0 .. (Capacity - 1) /\ dist[b] = far[b] + 1
    BY <2>5, <2>6, <2>8
  <2>11. tag[b] \in 0 .. (Capacity - 1)
    <3>1. k \in k .. len
      BY <1>2 DEF len
    <3>2. tag[Acquired[k]] # NoTag
      BY <2>6, <3>1 DEF Recorded, len
    <3>3. QED  BY <1>3, <2>8, <3>2
  <2>12. dist[b] <= cached' /\ tag'[b] + dist[b] \in {end', end' + Capacity}
    <3>1. far[b] <= cached /\ tag[b] + far[b] \in {end, end + Capacity}
      BY <2>7, <2>8 DEF Reaches
    <3>2. QED  BY <1>3, <2>1, <2>2, <2>10, <2>11, <3>1
  <2>13. k < len => /\ dist[Acquired[k + 1]] <= dist[b]
                    /\ dist[b] < dist[Acquired[k + 1]] + Capacity
    <3>1. SUFFICES ASSUME k < len
                   PROVE  /\ dist[Acquired[k + 1]] <= dist[b]
                          /\ dist[b] < dist[Acquired[k + 1]] + Capacity
      OBVIOUS
    <3>2. /\ far[Acquired[k + 1]] \in 0 .. (Capacity - 1)
          /\ dist[Acquired[k + 1]] = far[Acquired[k + 1]] + 1
      BY <2>5, <2>6, <3>1
    <3>3. /\ far[Acquired[k + 1]] <= far[b]
          /\ far[b] < far[Acquired[k + 1]] + Capacity
      BY <2>7, <2>8, <3>1 DEF Reaches, len
    <3>4. QED  BY <1>3, <2>10, <3>2, <3>3
  <2>14. k = len => far[b] <= flushes - 1
    BY <1>1, <2>7, <2>8 DEF Reaches, Flushed, len
  <2>15. k = len => dist[b] < Capacity
    BY <1>3, <2>10, <2>14
  <2>16. k = len /\ pending' # NoBuf => dist[b] <= Flushed'
    <3>1. SUFFICES ASSUME k = len, pending' # NoBuf
                   PROVE  dist[b] <= Flushed'
      OBVIOUS
    <3>2. configured
      <4>1. ~(len <= 1)
        BY <1>2, <3>1 DEF len
      <4>2. QED  BY <4>1 DEF UpInv, PendingOK, len
    <3>3. ~last
      BY <1>1, <3>1, <3>2
    <3>4. Flushed' = flushes
      BY <1>1, <3>3 DEF Flushed
    <3>5. QED  BY <1>3, <2>10, <2>14, <3>1, <3>4
  <2>17. Lack(p)' \subseteq Damage(far[b] + 1, 0)'
    <3>1. Lack(p) \subseteq Damage(far[b], 0)
      BY <1>2, <2>7, <2>8, <2>9 DEF Reaches
    <3>2. Lack(p)' \subseteq Lack(p) \cup Bytes(area)
      BY <1>1 DEF Lack, Screen
    <3>3. Damage(far[b], 0) \cup Bytes(area) \subseteq Damage(far[b] + 1, 0)'
      BY <1>2, <2>1, <2>10, DamageGrows
    <3>4. QED  BY <3>1, <3>2, <3>3
  <2>18. Lack(Acquired[k - 1])' \subseteq Damage(dist[Acquired[k]], 0)'
    <3>1. Lack(Acquired[k - 1])' = Lack(p)'
      BY <1>2, <2>9 DEF Lack, Screen
    <3>2. dist[Acquired'[k]] = far[b] + 1
      BY <1>2, <2>8, <2>10
    <3>3. Damage(dist[Acquired[k]], 0)' = Damage(far[b] + 1, 0)'
      BY <3>2 DEF Damage, Back
    <3>4. QED  BY <2>17, <3>1, <3>3
  <2>19. /\ Acquired'[k] = b /\ Len(Acquired') = len
         /\ Acquired'[k + 1] = Acquired[k + 1]
    BY <1>2, <2>8 DEF len
  <2>20. QED
    BY <2>12, <2>13, <2>15, <2>16, <2>18, <2>19 DEF Reaches
<1>6. QED  BY <1>4, <1>5

\* A draw of LVGL: the area joins the damage, and no older record is lost.
LEMMA DrawKeepsUp ==
  ASSUME FrameAreas < Capacity, Base, UpInv, Base', FlushDraw
  PROVE  UpInv'
<1>1. /\ stage' \in {"between", "frame"} /\ pending # NoBuf /\ ~resizePending
      /\ call = Idle
      /\ UNCHANGED <<history, call, inuse, resized, configured, resizePending>>
      /\ \/ pending' = NoBuf /\ configured /\ held' = Append(held, pending)
         \/ UNCHANGED <<pending, held>>
      /\ current' = [b \in Bufs |->
                       IF b = pending THEN current[b] \cup Bytes(area)
                                      ELSE current[b] \ Bytes(area)]
      /\ undrawn' = undrawn \ Bytes(area)
  BY DEF FlushDraw, FlushReady, Flushing, vars, queueVars, bufVars
<1>2. /\ Acquired' = Acquired /\ Latest' = Latest /\ InHand' = InHand
      /\ pending = Latest /\ Acquired # <<>> /\ pending \in Bufs /\ Drawing
      /\ held \in Seq(Bufs) /\ NoBuf \notin Bufs
  BY <1>1, BaseParts
     DEF Acquired, Latest, InHand, AccountOK, UpInv, PendingOK, Drawing
<1>3. PendingOK'
  BY <1>1, <1>2 DEF UpInv, PendingOK
<1>4. TurnOK'
  BY <1>1, CallRecord DEF TurnOK
<1>5. MarkedOK'
  BY <1>1, <1>2 DEF UpInv, MarkedOK
<1>6. OrderOK'
  <2>1. SUFFICES ASSUME pending' = NoBuf
                 PROVE  Latest' \in ToSet(held') /\ held'[Len(held')] = Latest'
    BY DEF OrderOK
  <2>2. held' = Append(held, pending)
    BY <1>1, <2>1
  <2>3. QED  BY <1>2, <2>2, LastAppended
<1>7. LatestOK'
  <2>1. Lack(pending) = {}
    BY <1>2 DEF UpInv, LatestOK
  <2>2. Screen \ (current'[pending] \cup undrawn') = {}
    BY <1>1, <1>2, <2>1 DEF Lack
  <2>3. Lack(Latest)' = Screen \ (current'[Latest'] \cup undrawn')
    BY DEF Lack, Screen
  <2>4. QED  BY <1>2, <2>2, <2>3 DEF LatestOK
<1>8. QED  BY <1>3, <1>4, <1>5, <1>6, <1>7, DrawRecords DEF UpInv

----------------------------------------------------------------------------
(* Every buffer LVGL draws to is up to date *)

\* Every step of the body and of its manager.
LEMMA ChainKeepsUp ==
  ASSUME Conditions, Base, UpInv, Base', [ChainNext]_chainVars
  PROVE  UpInv'
<1>1. BytesPerPixel = 1 /\ FrameAreas < Capacity /\ Batched /\ KeepsLatest
  BY DEF Conditions
<1>2. CASE UNCHANGED chainVars
  <2>1. /\ UNCHANGED <<history, call, inuse, unused, num, resized>>
        /\ UNCHANGED <<pending, configured, resizePending, held, tag, stage, flushes>>
        /\ UNCHANGED <<cache, end, cached, current, undrawn>>
    BY <1>2 DEF chainVars, vars, queueVars, bufVars, clientVars, bodyVars,
                cacheVars, drawVars, lvglVars
  <2>2. /\ Acquired' = Acquired /\ Latest' = Latest /\ InHand' = InHand
        /\ Flushed' = Flushed /\ Flushed \in Int
        /\ AllCurrent => AllCurrent'
    BY <2>1, BaseParts DEF Acquired, Latest, InHand, Flushed, AllCurrent, Lack, Screen
  <2>3. PendingOK' /\ TurnOK' /\ MarkedOK' /\ (InOrder => OrderOK')
    BY <2>1, <2>2 DEF UpInv, PendingOK, TurnOK, MarkedOK, OrderOK
  <2>4. LatestOK' /\ RecordOK'
    BY <2>1, <2>2, CalmStays DEF Drawing
  <2>5. QED  BY <2>3, <2>4 DEF UpInv
<1>3. CASE ChainNext
  BY <1>1, <1>3, OpenKeepsUp, ConfigureKeepsUp, ResizeKeepsUp,
     BufferReleaseKeepsUp, FlushKeepsUp, SkipKeepsUp, AcquireKeepsUp,
     AcquireFailsKeepsUp, InitMapKeepsUp, InitDoneKeepsUp, InitFailsKeepsUp,
     DrawKeepsUp, ManagerKeepsUp
     DEF ChainNext, FlushSteps
<1>4. QED  BY <1>2, <1>3

\* The initial states: no buffer has been acquired.
LEMMA ChainInitUp ==
  ASSUME ChainInit
  PROVE  UpInv
<1>1. /\ Init /\ pending = NoBuf /\ resizePending = FALSE /\ stage = "closed"
      /\ undrawn = Screen
  BY DEF ChainInit
<1>2. /\ call = Idle /\ Acquired = <<>> /\ resized = [b \in Bufs |-> FALSE]
  BY <1>1, BodyAssumption DEF Init, Acquired
<1>3. Len(Acquired) = 0 /\ 2 .. 0 = {}
  BY <1>2, EmptySeq
<1>4. PendingOK /\ TurnOK /\ MarkedOK /\ OrderOK
  BY <1>1, <1>2, <1>3, CallRecord DEF PendingOK, TurnOK, MarkedOK, OrderOK
<1>5. LatestOK
  BY <1>1, <1>2 DEF LatestOK, Lack
<1>6. RecordOK
  <2>1. 0 \in 0 .. Capacity
    BY CapacityAssumption
  <2>2. [b \in Bufs |-> 0] \in [Bufs -> 0 .. Capacity]
    BY <2>1
  <2>3. QED  BY <1>3, <2>2 DEF RecordOK
<1>7. QED  BY <1>4, <1>5, <1>6 DEF UpInv

\* The buffer that LVGL draws to, and that is committed next, shows all of LVGL's
\* picture, however many frames old it was when it was acquired again.
THEOREM PendingShowsAll == Conditions /\ ChainSpec => []PendingUpToDate
<1> SUFFICES ASSUME Conditions
             PROVE  ChainSpec => []PendingUpToDate
  OBVIOUS
<1>1. ChainInit => UpInv
  BY ChainInitUp
<1>2. UpInv /\ Base /\ Base' /\ [ChainNext]_chainVars => UpInv'
  BY ChainKeepsUp
<1>3. UpInv /\ Base => PendingUpToDate
  <2> SUFFICES ASSUME UpInv, pending # NoBuf
               PROVE  Screen \subseteq current[pending] \cup undrawn
    BY DEF PendingUpToDate
  <2>1. Lack(pending) = {}
    BY DEF UpInv, PendingOK, LatestOK, Drawing
  <2>2. QED  BY <2>1 DEF Lack
<1>4. ChainSpec => []Base
  <2>1. IInv /\ ClientInv /\ DrawInv /\ HistoryCurrent /\ CountsModulo => Base
    BY DEF Base
  <2>2. QED
    BY <2>1, ChainInvariance, ChainDrawInvariance, ChainBuffersFit,
       ChainRefinesManager, CountsStayModulo, PTL
<1>5. QED  BY <1>1, <1>2, <1>3, <1>4, PTL DEF ChainSpec

==============================================================================
