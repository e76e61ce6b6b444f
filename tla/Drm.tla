--------------------------------- MODULE Drm ---------------------------------
(***************************************************************************)
(* The DRM display driver (display/drm.c): how it finds a connector, an    *)
(* encoder, a CRTC and a plane, allocates two buffers, and exchanges them  *)
(* with atomic commits and page flips.                                     *)
(*                                                                         *)
(* LVGL and the kernel are modelled from how the driver uses them.  LVGL   *)
(* draws an area only when the flush of the one before has ended, and      *)
(* calls wait_cb until it has.  The kernel takes one commit at a time,     *)
(* flips at the next vertical blank, and then sends an event.              *)
(*                                                                         *)
(* Of a picture, `current` says which areas of a buffer show what LVGL     *)
(* drew last.  What a program chooses once, direct mode or not, and the    *)
(* hardware it meets, are variables that do not change.                    *)
(***************************************************************************)
EXTENDS Integers, Sequences, SequencesExt, FiniteSets

CONSTANTS
  Hardware, \* what drmModeGetResources and its like may tell
  Areas,    \* the areas of the screen
  Faults    \* what may fail, a subset of FaultKinds

FaultKinds ==
  {"call",   \* any call of the setup
   "commit"} \* an atomic commit that the kernel could have accepted

Buffers == 0 .. 1
None == 2
Other(b) == 1 - b

\* A connector has a current encoder (0: none) and those it may use; an encoder
\* a CRTC (0: none) and the indexes of those it may use; a plane the indexes it
\* may be on.  A plane that cannot be got has readable = FALSE.
ASSUME HardwareAssumption ==
  \A h \in Hardware :
    /\ h.crtcs \in Seq(Nat \ {0})
    /\ h.encs \in Seq([crtc : Nat, possible : SUBSET DOMAIN h.crtcs])
    /\ h.conns \in Seq([connected : BOOLEAN, modes : BOOLEAN,
                        enc : 0 .. Len(h.encs), encs : Seq(1 .. Len(h.encs))])
    /\ h.planes \in Seq([readable : BOOLEAN, format : BOOLEAN,
                         possible : SUBSET DOMAIN h.crtcs])
ASSUME DrmFaultsAssumption == Faults \subseteq FaultKinds

VARIABLES
  hw,       \* the hardware
  direct,   \* disp_drv->direct_mode
  step,     \* how far drm_init is: "closed", "open", "found", "planed",
            \* "queried", "one", "ready", "failed", "exited"
  conn, crtc, plane, \* conn_id, crtc_idx and plane_id, 0 if unset
  closes,   \* calls of close() on the descriptor that drm_open returned
  req,      \* drm_dev.req: "null", "live", or "freed" and not NULL
  first,    \* drm_dmabuf_set_plane's `first`
  active,   \* active_drm_buf_idx
  current,  \* current[b]: the areas of buffer b that are as LVGL drew them last
  scanout,  \* the buffer the kernel shows
  pending,  \* the one it flips to next
  modeset,  \* it has been given a mode
  event,    \* a page-flip event is to be read
  todo,     \* the areas LVGL has yet to draw in this frame
  frame,    \* those of this frame, or of the last one
  act,      \* LVGL's buf_act
  flushing  \* its draw_buf.flushing

setupVars  == <<step, conn, crtc, plane, closes>>
kernelVars == <<scanout, pending, modeset, event>>
driverVars == <<req, first, active>>
lvglVars   == <<todo, frame, act, flushing>>
drmVars == <<hw, direct, setupVars, driverVars, current, kernelVars, lvglVars>>

----------------------------------------------------------------------------
(* drm_init *)

\* drm_find_connector takes the first connector that is in use.
Usable(c) == c.connected /\ c.modes
FindConn(h) == SelectInSeq(h.conns, Usable)

\* The CRTC of encoder e that was not associated yet: the first that it may use
\* or, the loop having ended without one, the last.
LookUp(h, e) ==
  IF e.possible # {} THEN h.crtcs[CHOOSE i \in e.possible :
                                    \A j \in e.possible : i <= j]
                     ELSE Last(h.crtcs)

\* The CRTC of connector c, or 0.
FindCrtcId(h, c) ==
  IF c.enc # 0 THEN h.encs[c.enc].crtc
  ELSE IF c.encs # <<>> THEN LookUp(h, h.encs[c.encs[1]])
  ELSE 0

\* Its index, or 0.
CrtcIdx(h, id) == SelectInSeq(h.crtcs, LAMBDA x : x = id)

\* find_plane takes the first plane that suits, and stops at one it cannot get:
\* then plane_id stays 0 and it reports success.
Suits(p, idx) == idx \in p.possible /\ p.format
FindPlane(h, idx) ==
  LET i == SelectInSeq(h.planes, LAMBDA p : ~p.readable \/ Suits(p, idx))
  IN  IF i = 0 THEN [found |-> FALSE, plane |-> 0]
      ELSE [found |-> TRUE, plane |-> IF h.planes[i].readable THEN i ELSE 0]

\* drm_setup closes the descriptor, and so does drm_init after it.
SetupFails ==
  /\ step' = "failed"
  /\ closes' = closes + 2
  /\ UNCHANGED <<conn, crtc, plane>>

Open ==
  /\ step = "closed"
  /\ step' \in {"open"} \cup (IF "call" \in Faults THEN {"failed"} ELSE {})
  /\ UNCHANGED <<conn, crtc, plane, closes>>

FindConnector ==
  LET c == FindConn(hw)
      id == IF c = 0 \/ hw.crtcs = <<>> THEN 0 ELSE FindCrtcId(hw, hw.conns[c])
      idx == CrtcIdx(hw, id)
  IN  /\ step = "open"
      /\ \/ /\ idx # 0
            /\ step' = "found" /\ conn' = c /\ crtc' = idx
            /\ UNCHANGED <<plane, closes>>
         \/ (idx = 0 \/ "call" \in Faults) /\ SetupFails

PickPlane ==
  LET p == FindPlane(hw, crtc)
  IN  /\ step = "found"
      /\ \/ /\ p.found
            /\ step' = "planed" /\ plane' = p.plane
            /\ UNCHANGED <<conn, crtc, closes>>
         \/ (~p.found \/ "call" \in Faults) /\ SetupFails

\* Mutant of Query: the plane is not looked at again.
QueryBlind ==
  /\ step = "planed"
  /\ step' = "queried" /\ UNCHANGED <<conn, crtc, plane, closes>>

\* The plane, the CRTC, the connector and their properties are got.
Query ==
  /\ step = "planed"
  /\ \/ /\ plane # 0
        /\ step' = "queried" /\ UNCHANGED <<conn, crtc, plane, closes>>
     \/ (plane = 0 \/ "call" \in Faults) /\ SetupFails

\* Mutant of Allocate: drm_init goes on when it has closed the descriptor.
AllocateGoesOn ==
  /\ step \in {"queried", "one"}
  /\ \/ /\ step' = IF step = "queried" THEN "one" ELSE "ready"
        /\ UNCHANGED closes
     \/ "call" \in Faults /\ closes' = closes + 1 /\ UNCHANGED step
  /\ UNCHANGED <<conn, crtc, plane>>

\* drm_allocate_dumb, of each buffer.
Allocate ==
  /\ step \in {"queried", "one"}
  /\ \/ /\ step' = IF step = "queried" THEN "one" ELSE "ready"
        /\ UNCHANGED closes
     \/ "call" \in Faults /\ step' = "failed" /\ closes' = closes + 1
  /\ UNCHANGED <<conn, crtc, plane>>

Setup ==
  /\ Open \/ FindConnector \/ PickPlane \/ Query \/ Allocate
  /\ UNCHANGED <<hw, direct, driverVars, current, kernelVars, lvglVars>>

\* drm_exit.
Exit ==
  /\ step = "ready" /\ todo = {}
  /\ step' = "exited" /\ closes' = closes + 1
  /\ UNCHANGED <<hw, direct, conn, crtc, plane, driverVars, current, kernelVars,
                 lvglVars>>

----------------------------------------------------------------------------
(* Drawing and flushing *)

\* LVGL has areas to redraw: the whole screen, the first time.
BeginFrame(S) ==
  /\ step = "ready" /\ todo = {}
  /\ S # {} /\ (frame = {} => S = Areas)
  /\ todo' = S /\ frame' = S
  /\ UNCHANGED <<hw, direct, setupVars, driverVars, current, kernelVars, act,
                 flushing>>

\* The buffer that drm_flush copies to, or that LVGL has drawn in.
Back == Other(active)

\* The kernel accepts a commit when none is pending, and the first that it
\* accepts must set the mode.
Acceptable == pending = None /\ (first \/ modeset)

\* Mutant of SetPlane: the buffers are not exchanged.
SetPlaneSame ==
  /\ first' = FALSE
  /\ \/ /\ Acceptable
        /\ pending' = Back /\ modeset' = TRUE
        /\ req' = "live"
        /\ UNCHANGED active
     \/ /\ ~Acceptable \/ "commit" \in Faults
        /\ req' = "freed"
        /\ UNCHANGED <<pending, modeset, active>>

\* drm_dmabuf_set_plane, and what drm_flush makes of its result: a request that
\* failed is freed and its pointer kept.
SetPlane ==
  /\ first' = FALSE
  /\ \/ /\ Acceptable
        /\ pending' = Back /\ modeset' = TRUE
        /\ req' = "live"
        /\ active' = Back
     \/ /\ ~Acceptable \/ "commit" \in Faults
        /\ req' = "freed"
        /\ UNCHANGED <<pending, modeset, active>>

\* The buffer that an area is drawn in; in direct mode LVGL first copies from
\* the other one what the last frame drew there.
Target == IF direct THEN act ELSE Back

\* Mutant of Drawn: nothing is copied from the other buffer.
DrawnOnly(a) ==
  [b \in Buffers |-> IF b = Target THEN current[b] \cup {a} ELSE current[b] \ {a}]

\* The areas that are current once a is drawn.
Drawn(a) ==
  LET synced == IF direct /\ todo = frame THEN current[Other(act)] ELSE {}
  IN  [b \in Buffers |-> IF b = Target THEN current[b] \cup synced \cup {a}
                                       ELSE current[b] \ {a}]

\* An area is drawn and drm_flush called, which exchanges the buffers after the
\* last one; LVGL does the same in direct mode.
FlushArea(a) ==
  /\ step = "ready" /\ a \in todo
  /\ ~flushing
  /\ current' = Drawn(a)
  /\ todo' = todo \ {a} /\ flushing' = TRUE
  /\ IF todo = {a}
       THEN SetPlane /\ act' = Other(act)
       ELSE UNCHANGED <<driverVars, pending, modeset, act>>
  /\ UNCHANGED <<hw, direct, setupVars, scanout, event, frame>>

\* The vertical blank.
Flip ==
  /\ pending # None
  /\ scanout' = pending /\ pending' = None
  /\ event' = TRUE
  /\ UNCHANGED <<hw, direct, setupVars, driverVars, current, modeset, lvglVars>>

\* Mutant of Ready: page_flip_handler frees the request and keeps the pointer.
ReadyKeeps ==
  /\ step = "ready" /\ flushing
  /\ \/ req = "null" /\ flushing' = FALSE /\ UNCHANGED event
     \/ req # "null" /\ event /\ event' = FALSE /\ UNCHANGED flushing
  /\ UNCHANGED <<hw, direct, setupVars, driverVars, current, scanout, pending,
                 modeset, todo, frame, act>>

\* Mutant of Ready: LVGL does not wait for the flip.
ReadyAtOnce ==
  /\ step = "ready" /\ flushing
  /\ req' = "null" /\ flushing' = FALSE
  /\ UNCHANGED <<hw, direct, setupVars, first, active, current, scanout, pending,
                 modeset, event, todo, frame, act>>

\* drm_wait_vsync, which LVGL calls again and again while it waits, though poll may
\* fail: without a request, or when the event comes and page_flip_handler frees the
\* request, the flush is over.
Ready ==
  /\ step = "ready" /\ flushing
  /\ \/ req = "null" /\ UNCHANGED event
     \/ req # "null" /\ event /\ event' = FALSE
  /\ req' = "null" /\ flushing' = FALSE
  /\ UNCHANGED <<hw, direct, setupVars, first, active, current, scanout, pending,
                 modeset, todo, frame, act>>

----------------------------------------------------------------------------

DrmInit ==
  /\ hw \in Hardware /\ direct \in BOOLEAN
  /\ step = "closed" /\ conn = 0 /\ crtc = 0 /\ plane = 0 /\ closes = 0
  /\ req = "null" /\ first = TRUE /\ active = 0
  /\ current = [b \in Buffers |-> {}]
  /\ scanout = None /\ pending = None /\ modeset = FALSE /\ event = FALSE
  /\ todo = {} /\ frame = {} /\ act = 1 /\ flushing = FALSE

Frames ==
  \/ \E S \in SUBSET Areas : BeginFrame(S)
  \/ \E a \in Areas : FlushArea(a)
  \/ Ready

DrmNext == Setup \/ Frames \/ Flip \/ Exit

DrmSpec == DrmInit /\ [][DrmNext]_drmVars

\* The kernel flips, and LVGL, once it has begun a frame, goes on.
DrmFair ==
  /\ WF_drmVars(Flip)
  /\ WF_drmVars(Ready)
  /\ WF_drmVars(\E a \in Areas : FlushArea(a))

FairDrmSpec == DrmSpec /\ DrmFair

----------------------------------------------------------------------------
(* Properties *)

\* The type invariant.
DrmTypeOK ==
  /\ hw \in Hardware /\ direct \in BOOLEAN
  /\ step \in {"closed", "open", "found", "planed", "queried", "one", "ready",
               "failed", "exited"}
  /\ conn \in 0 .. Len(hw.conns) /\ crtc \in 0 .. Len(hw.crtcs)
  /\ plane \in 0 .. Len(hw.planes) /\ closes \in 0 .. 2
  /\ req \in {"null", "live", "freed"} /\ first \in BOOLEAN
  /\ active \in Buffers /\ act \in Buffers
  /\ current \in [Buffers -> SUBSET Areas]
  /\ scanout \in Buffers \cup {None} /\ pending \in Buffers \cup {None}
  /\ modeset \in BOOLEAN /\ event \in BOOLEAN
  /\ todo \subseteq frame /\ frame \subseteq Areas /\ flushing \in BOOLEAN

\* The driver starts only on a connector that is connected and has a mode, and on
\* a plane that takes its format and may be on its CRTC, though find_plane
\* reports success without one.
SetupSound ==
  step = "ready" =>
    /\ Usable(hw.conns[conn])
    /\ plane # 0 /\ Suits(hw.planes[plane], crtc)

\* An area is never drawn, by LVGL or by drm_flush, in the buffer that is shown or
\* about to be: LVGL's choice of a buffer and the driver's go together.
NeverTorn ==
  [][todo # {} /\ todo' # todo => Target \notin {scanout, pending}]_drmVars

\* Once a frame is shown it shows everything that LVGL drew in it and, in direct
\* mode, all that was drawn before; otherwise the areas of the frame before are
\* missing from it.
ShowsFrame ==
  step = "ready" /\ ~flushing /\ todo = {} /\ frame # {} =>
    /\ scanout # None
    /\ frame \subseteq current[scanout]
    /\ direct => current[scanout] = Areas

\* The picture on the screen, the one that the kernel flips to next, and what was
\* drawn of a frame that is not finished.
Shown == IF scanout = None THEN {} ELSE current[scanout]
Coming == IF pending = None THEN {} ELSE {current[pending]}
Begun == IF todo = {} THEN {} ELSE frame \ todo

OnScreen == INSTANCE WholeFrames
              WITH keeps <- direct, shown <- Shown, coming <- Coming, drawn <- Begun

\* The driver keeps the promise of a display with two buffers: what is on the screen
\* is one whole frame after another, and LVGL draws out of sight.  In direct mode,
\* where LVGL draws only what changed, no frame takes away what the one before showed.
ShowsWholeFrames == OnScreen!Spec

\* A flush ends, unless a commit failed: then LVGL waits for ever for the event of
\* a request that was never accepted.
FlushEnds == flushing ~> (~flushing \/ req = "freed" \/ step = "exited")

============================================================================
