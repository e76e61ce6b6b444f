----------------------------- MODULE SwapChain -----------------------------
(***************************************************************************)
(* A window's body in the Wayland driver (wayland/wayland.c): the flush    *)
(* callback that LVGL draws through, the buffers it acquires from the      *)
(* shared-memory manager (module Smm, whose client this is), and the cache *)
(* of damaged areas that brings a reused buffer up to date.                *)
(*                                                                         *)
(* LVGL renders a frame as a sequence of areas and calls the flush         *)
(* callback for each.  The first flush acquires a buffer, whose            *)
(* init_buffer callback copies into it what the previous buffers show; the *)
(* last flush commits the buffer to the compositor, which releases it at a *)
(* time of its own.  LVGL redraws only what changes, so a committed buffer *)
(* is right only if the rest of it was brought up to date.                 *)
(*                                                                         *)
(* The picture is one row of pixels: the row offset y * width *            *)
(* BYTES_PER_PIXEL is the same wherever the code copies or draws, so rows  *)
(* do not interact.  A byte of a buffer is `current` or not: whether it    *)
(* has the value that LVGL last drew there.                                *)
(*                                                                         *)
(* All of this runs in LVGL's thread.  `stage` says where it is: events    *)
(* are dispatched and resizes done only between frames.                    *)
(***************************************************************************)
EXTENDS Smm

CONSTANTS
  Body,          \* the buffer group of the window's body
  Width,         \* the window's width in pixels
  BytesPerPixel, \* BYTES_PER_PIXEL
  Areas,         \* the areas [x1, x2] that LVGL may render
  FrameAreas,    \* bounds the areas of one frame
  Capacity,      \* DMG_CACHE_CAPACITY
  NoTag,         \* a NULL TAG_BUFFER_DAMAGE
  InOrder,       \* TRUE: the compositor releases buffers in commit order
  Batched        \* TRUE: the driver reads the first configuration's two
                 \* events, of the toplevel and of the surface, in one go

ASSUME BodyAssumption == Body \in Groups
ASSUME ScreenAssumption == Width \in Nat \ {0} /\ BytesPerPixel \in Nat \ {0}
ASSUME AreasAssumption ==
  \A a \in Areas : a.x1 \in 0 .. (Width - 1) /\ a.x2 \in a.x1 .. (Width - 1)
ASSUME CapacityAssumption ==
  /\ Capacity \in Nat \ {0} /\ FrameAreas \in Nat \ {0}
  /\ NoTag \notin 0 .. (Capacity - 1)
ASSUME CompositorAssumption == InOrder \in BOOLEAN /\ Batched \in BOOLEAN

VARIABLES
  pending,        \* body->pending_buffer
  configured,     \* body->surface_configured
  resizePending,  \* window->resize_pending
  held,           \* the buffers committed and not released, oldest first
  tag,            \* tag[b]: TAG_BUFFER_DAMAGE, where b's damage starts
  cache,          \* dmg_cache.cache
  start, end,     \* dmg_cache.start and .end
  cached,         \* dmg_cache.size
  current,        \* current[b]: the bytes of b that are current
  undrawn,        \* the bytes that no buffer shows: never drawn, or lost
  stage,          \* "closed", "opening", "between", "frame" or "flush"
  area, last,     \* the flush in progress: its area, lv_disp_flush_is_last
  flushes         \* how many flushes of this frame have begun

cacheVars == <<cache, start, end, cached>>
bodyVars  == <<pending, configured, resizePending, held, tag>>
drawVars  == <<current, undrawn>>
lvglVars  == <<stage, area, last, flushes>>
clientVars == <<bodyVars, cacheVars, drawVars, lvglVars>>
chainVars == <<vars, clientVars>>

NoArea == [x1 |-> 0, x2 |-> -1]

Screen == 0 .. (Width * BytesPerPixel - 1)

Position == 0 .. (Capacity - 1)

\* The bytes of an area, as the flush callback draws them.
Bytes(a) == (a.x1 * BytesPerPixel) .. ((a.x2 + 1) * BytesPerPixel - 1)

\* The bytes cache_apply_areas copies: the area's first pixel is not scaled.
CopiedBytes(a) == a.x1 .. (a.x1 + (a.x2 - a.x1 + 1) * BytesPerPixel - 1)

Between == stage = "between" /\ call = Idle

----------------------------------------------------------------------------
(* The damage cache *)

\* smm_next, repeatedly: the buffers acquired since b was.
Newer(b) ==
  LET h == history[Body]
  IN  IF b \in ToSet(h) THEN Purged(h, b) ELSE <<>>

\* The positions from i until j in the ring; none when i = j.
Ring(i, j) == [k \in 1 .. ((j - i) % Capacity) |-> (i + k - 1) % Capacity]

\* cache_apply_areas: the bytes of dest that are current after the areas of
\* the n-th buffer of newer have been copied into it.
Applied(dest, newer, n) ==
  LET src   == current[newer[n]]
      until == IF n = Len(newer) THEN end ELSE tag[newer[n + 1]]
      Copy(d, i) == (d \ CopiedBytes(cache[i]))
                       \cup (src \cap CopiedBytes(cache[i]))
  IN  FoldLeft(Copy, dest, Ring(tag[newer[n]], until))

\* Mutant of Initialised: missing damage goes unnoticed.
InitialisedByDamage(b) ==
  LET newer  == Newer(b)
      latest == history[Body][Len(history[Body])]
      Apply(d, n) == IF tag[newer[n]] = NoTag THEN d ELSE Applied(d, newer, n)
  IN  IF newer = <<>>
        THEN IF history[Body] # <<>> /\ latest # b
               THEN current[latest] ELSE current[b]
        ELSE FoldLeft(Apply, current[b], [n \in 1 .. Len(newer) |-> n])

\* Mutant of Initialised: the oldest buffer is copied, not the latest.
InitialisedFromOldest(b) ==
  LET newer   == Newer(b)
      missing == \E n \in DOMAIN newer : tag[newer[n]] = NoTag
      Apply(d, n) == Applied(d, newer, n)
  IN  IF newer = <<>> \/ missing
        THEN IF history[Body] # <<>> THEN current[history[Body][1]] ELSE current[b]
        ELSE FoldLeft(Apply, current[b], [n \in 1 .. Len(newer) |-> n])

\* sme_init_buffer: a copy of the latest buffer when b is not in the history
\* or the damage of a newer buffer is not recorded, and else the damage of
\* the newer buffers, in order.  Its call of cache_purge is never reached: it
\* asks for src == NULL where src is the next buffer.
Initialised(b) ==
  LET newer   == Newer(b)
      missing == \E n \in DOMAIN newer : tag[newer[n]] = NoTag
      latest  == history[Body][Len(history[Body])]
      Apply(d, n) == Applied(d, newer, n)
  IN  IF newer = <<>> \/ missing
        THEN IF history[Body] # <<>> /\ latest # b
               THEN current[latest] ELSE current[b]
        ELSE FoldLeft(Apply, current[b], [n \in 1 .. Len(newer) |-> n])

CacheFull == start = end /\ cached > 0

\* cache_clear.
CacheCleared == start' = end /\ cached' = 0 /\ UNCHANGED <<cache, end>>

\* Mutant of CacheAdd: the end of the ring does not wrap.
CacheAddNoWrap(b, a) ==
  CASE tag[b] = NoTag -> UNCHANGED <<cacheVars, tag>>
    [] tag[b] # NoTag /\ CacheFull ->
         CacheCleared /\ tag' = [tag EXCEPT ![b] = NoTag]
    [] OTHER ->
         /\ cache' = [cache EXCEPT ![end] = a]
         /\ end' = end + 1
         /\ cached' = cached + 1
         /\ UNCHANGED <<start, tag>>

\* cache_add_area.
CacheAdd(b, a) ==
  CASE tag[b] = NoTag -> UNCHANGED <<cacheVars, tag>>
    [] tag[b] # NoTag /\ CacheFull ->
         CacheCleared /\ tag' = [tag EXCEPT ![b] = NoTag]
    [] OTHER ->
         /\ cache' = [cache EXCEPT ![end] = a]
         /\ end' = (end + 1) % Capacity
         /\ cached' = cached + 1
         /\ UNCHANGED <<start, tag>>

----------------------------------------------------------------------------
(* The window *)

\* create_window: the body gets a buffer group, and its size next.
OpenWindow ==
  /\ stage = "closed"
  /\ Create(Body)
  /\ stage' = "opening"
  /\ UNCHANGED <<bodyVars, cacheVars, drawVars, area, last, flushes>>

\* xdg_toplevel_handle_configure, with another size than the window's.
ToplevelConfigure ==
  /\ Between
  /\ resizePending' = TRUE
  /\ UNCHANGED <<vars, pending, configured, held, tag, cacheVars, drawVars,
                 lvglVars>>

\* Mutant of SurfaceConfigure: the pending buffer is not attached.
SurfaceConfigureOnly ==
  /\ Between
  /\ ~configured
  /\ configured' = TRUE
  /\ UNCHANGED <<vars, pending, held, resizePending, tag, cacheVars, drawVars,
                 lvglVars>>

\* xdg_surface_handle_configure: a frame flushed before is attached now.
SurfaceConfigure ==
  /\ Between
  /\ ~configured
  /\ configured' = TRUE
  /\ pending' = NoBuf
  /\ held' = IF pending # NoBuf THEN Append(held, pending) ELSE held
  /\ UNCHANGED <<vars, resizePending, tag, cacheVars, drawVars, lvglVars>>

\* resize_window: new buffers get the new size, and LVGL redraws it all.
ResizeWindow(sz) ==
  /\ \/ stage = "opening"
     \/ Between /\ resizePending /\ (Batched => configured)
  /\ Resize(Body, sz)
  /\ resizePending' = FALSE
  /\ current' = [b \in Bufs |-> {}]
  /\ undrawn' = Screen
  /\ stage' = "between"
  /\ UNCHANGED <<pending, configured, held, tag, cacheVars, area, last, flushes>>

\* handle_wl_buffer_release, when the compositor is done with a buffer.
BufferRelease(i) ==
  /\ Between
  /\ i \in DOMAIN held
  /\ InOrder => i = 1
  /\ Release(Body, held[i])
  /\ held' = RemoveAt(held, i)
  /\ UNCHANGED <<pending, configured, resizePending, tag, cacheVars, drawVars,
                 lvglVars>>

----------------------------------------------------------------------------
(* _lv_wayland_flush *)

\* Bounds the heap: the compositor never holds every buffer there is.
HeapBound == Len(held) < Cardinality(Bufs)

\* LVGL renders an area and calls the flush callback.
Flush(a, isLast) ==
  /\ HeapBound
  /\ stage \in {"between", "frame"} /\ call = Idle
  /\ flushes = FrameAreas - 1 => isLast
  /\ stage' = "flush"
  /\ area' = a
  /\ last' = isLast
  /\ flushes' = flushes + 1
  /\ UNCHANGED <<vars, bodyVars, cacheVars, drawVars>>

Flushing == stage = "flush" /\ call = Idle

\* lv_disp_flush_ready, and the callback returns.
FlushReady ==
  /\ stage' = IF last THEN "between" ELSE "frame"
  /\ flushes' = IF last THEN 0 ELSE flushes
  /\ area' = NoArea
  /\ last' = FALSE

\* What LVGL drew reaches no buffer.
AreaLost ==
  /\ undrawn' = undrawn \cup Bytes(area)
  /\ current' = [b \in Bufs |-> current[b] \ Bytes(area)]

\* Mutant of FlushSkip: the pending buffer is dropped, not released.
FlushSkipLeaks ==
  /\ Flushing
  /\ resizePending
  /\ IF pending # NoBuf
       THEN CacheCleared /\ tag' = [tag EXCEPT ![pending] = NoTag]
       ELSE UNCHANGED <<tag, cacheVars>>
  /\ pending' = NoBuf
  /\ AreaLost
  /\ FlushReady
  /\ UNCHANGED <<vars, configured, resizePending, held>>

\* A flush while a resize is pending is skipped: the pending buffer, if any,
\* is released with its damage forgotten.
FlushSkip ==
  /\ Flushing
  /\ resizePending
  /\ IF pending # NoBuf
       THEN /\ CacheCleared
            /\ tag' = [tag EXCEPT ![pending] = NoTag]
            /\ Release(Body, pending)
       ELSE UNCHANGED <<vars, tag, cacheVars>>
  /\ pending' = NoBuf
  /\ AreaLost
  /\ FlushReady
  /\ UNCHANGED <<configured, resizePending, held>>

\* Without a pending buffer one is acquired, from the unused ones ...
FlushAcquire ==
  /\ Flushing
  /\ ~resizePending /\ pending = NoBuf
  /\ AcquireUnused(Body)
  /\ UNCHANGED clientVars

\* ... or from the pool, with sme_new_buffer.
FlushAcquireNew ==
  /\ Flushing
  /\ ~resizePending /\ pending = NoBuf
  /\ AcquireFromPool(Body)
  /\ tag' = [tag EXCEPT ![call'.buf] = NoTag]
  /\ UNCHANGED <<pending, configured, resizePending, held, cacheVars, drawVars,
                 lvglVars>>

\* Mutant of FlushAcquireFails: without lv_disp_flush_ready.
FlushAcquireRetries ==
  /\ Flushing
  /\ ~resizePending /\ pending = NoBuf
  /\ AcquireRefused(Body) \/ AcquireFails(Body)
  /\ UNCHANGED clientVars

\* There is none: the area is lost.
FlushAcquireFails ==
  /\ Flushing
  /\ ~resizePending /\ pending = NoBuf
  /\ AcquireRefused(Body) \/ AcquireFails(Body)
  /\ AreaLost
  /\ FlushReady
  /\ UNCHANGED <<bodyVars, cacheVars>>

\* sme_init_buffer maps the pool: the mapping made here serves all the smm_map
\* calls of this flush and of later ones, until the pool expands again.
InitMap ==
  /\ call.op = "init"
  /\ Map(call.buf)
  /\ UNCHANGED clientVars

\* The buffer is brought up to date and becomes the pending one; its damage
\* starts at the end of the cache.
InitDone(b) ==
  /\ ~outdated
  /\ InitBuffer(Body, b)
  /\ current' = [current EXCEPT ![b] = Initialised(b)]
  /\ pending' = b
  /\ tag' = [tag EXCEPT ![b] = end]
  /\ UNCHANGED <<configured, resizePending, held, cacheVars, undrawn, lvglVars>>

\* It could not be mapped: smm_acquire releases it, and the area is lost.
InitFails(b) ==
  /\ outdated /\ ~mapped
  /\ InitBufferFails(Body, b)
  /\ AreaLost
  /\ FlushReady
  /\ UNCHANGED <<bodyVars, cacheVars>>

\* The area is copied into the pending buffer and cached as its damage; the
\* last area of a frame commits the buffer, if the surface is configured.
FlushDraw ==
  /\ Flushing
  /\ ~resizePending /\ pending # NoBuf
  /\ current' = [b \in Bufs |->
                   IF b = pending THEN current[b] \cup Bytes(area)
                                  ELSE current[b] \ Bytes(area)]
  /\ undrawn' = undrawn \ Bytes(area)
  /\ CacheAdd(pending, area)
  /\ IF last /\ configured
       THEN pending' = NoBuf /\ held' = Append(held, pending)
       ELSE UNCHANGED <<pending, held>>
  /\ FlushReady
  /\ UNCHANGED <<vars, configured, resizePending>>

----------------------------------------------------------------------------

ChainInit ==
  /\ Init
  /\ pending = NoBuf
  /\ configured = FALSE
  /\ resizePending = FALSE
  /\ held = <<>>
  /\ tag = [b \in Bufs |-> NoTag]
  /\ cache = [i \in Position |-> NoArea]
  /\ start = 0 /\ end = 0 /\ cached = 0
  /\ current = [b \in Bufs |-> {}]
  /\ undrawn = Screen
  /\ stage = "closed"
  /\ area = NoArea /\ last = FALSE
  /\ flushes = 0

\* The manager goes on with its call.
Manager == Proceed /\ ~(call.op = "init") /\ UNCHANGED clientVars

FlushSteps ==
  \/ FlushSkip \/ FlushAcquire \/ FlushAcquireNew \/ FlushAcquireFails
  \/ InitMap \/ FlushDraw
  \/ \E b \in Bufs : InitDone(b) \/ InitFails(b)

ChainNext ==
  \/ OpenWindow \/ ToplevelConfigure \/ SurfaceConfigure
  \/ \E sz \in Requests : ResizeWindow(sz)
  \/ \E i \in 1 .. Cardinality(Bufs) : BufferRelease(i)
  \/ \E a \in Areas, isLast \in BOOLEAN : Flush(a, isLast)
  \/ FlushSteps
  \/ Manager

ChainSpec == ChainInit /\ [][ChainNext]_chainVars

\* LVGL's thread runs: a flush in progress and the manager's calls go on.
FairChainSpec ==
  ChainSpec /\ WF_chainVars(FlushSteps) /\ WF_chainVars(Manager)

----------------------------------------------------------------------------
(* Properties *)

\* The type invariant of the driver's own state.
ChainTypeOK ==
  /\ TypeOK
  /\ pending \in Bufs \cup {NoBuf}
  /\ configured \in BOOLEAN /\ resizePending \in BOOLEAN
  /\ held \in Seq(Bufs)
  /\ tag \in [Bufs -> Position \cup {NoTag}]
  /\ cache \in [Position -> Areas \cup {NoArea}]
  /\ start \in Position /\ end \in Position /\ cached \in 0 .. Capacity
  /\ current \in [Bufs -> SUBSET Screen]
  /\ undrawn \subseteq Screen
  /\ stage \in {"closed", "opening", "between", "frame", "flush"}
  /\ area \in Areas \cup {NoArea} /\ last \in BOOLEAN
  /\ flushes \in 0 .. FrameAreas

\* The buffer that LVGL draws to, and that is committed next, shows all of
\* LVGL's picture but what never reached a buffer: sme_init_buffer has
\* brought the rest of it up to date, whatever was released in between.
PendingUpToDate == pending # NoBuf => Screen \subseteq current[pending] \cup undrawn

\* No buffer leaks: between the manager's calls, what the group has in use is
\* either pending or with the compositor, and is so once.
BuffersAccounted ==
  call = Idle /\ Body \in live =>
    /\ inuse[Body] = ToSet(held) \cup ({pending} \ {NoBuf})
    /\ pending \notin ToSet(held)
    /\ IsInjective(held)

\* Between frames of a configured surface no finished frame waits for another
\* event to be committed.
FrameCommitted == stage = "between" /\ configured => pending = NoBuf

\* Every flush callback returns.
FlushReturns == (stage = "flush") ~> (stage # "flush")

\* _lv_wayland_flush: "Modify specified area in buffer".  So the buffer drawn
\* to has the extent of the window's size.
DrawInsideBuffer ==
  Flushing /\ ~resizePending /\ pending # NoBuf => Extent(pending) >= size[Body]

============================================================================
