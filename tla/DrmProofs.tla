------------------------------ MODULE DrmProofs ------------------------------
(***************************************************************************)
(* What holds of the DRM display driver, for every hardware, every set of  *)
(* areas and every fault.                                                  *)
(*                                                                         *)
(* The invariant has three parts.  SetupOK follows what drm_init found.    *)
(* FlipOK ties the driver's request to the kernel's flip and LVGL's buffer *)
(* to the driver's: while a request is alive LVGL waits, and once it is    *)
(* freed by a failed commit LVGL waits for ever.  DrawnOK says what of a   *)
(* frame the buffers show while it is drawn.                               *)
(*                                                                         *)
(* From these follows that the driver implements WholeFrames.              *)
(***************************************************************************)
EXTENDS Drm, TLAPS, WellFoundedInduction

\* What was found so far suits, and the descriptor is closed at the end only.
SetupOK ==
  /\ step \in {"closed", "open", "failed"} \/ (conn # 0 /\ Usable(hw.conns[conn]))
  /\ step \in {"planed", "queried", "one", "ready", "exited"} /\ plane # 0 =>
       Suits(hw.planes[plane], crtc)
  /\ step \in {"queried", "one", "ready"} => plane # 0
  /\ step \notin {"failed", "exited"} => closes = 0

\* A request lives from its commit until LVGL learns of the flip.
FlipOK ==
  /\ req = "live" => \/ pending = active /\ ~event
                     \/ pending = None /\ event /\ scanout = active
  /\ req # "live" => pending = None /\ ~event
  /\ req \in {"live", "freed"} => flushing /\ (todo = {} \/ todo = frame)
  /\ flushing /\ req = "null" => todo # {}
  /\ pending = None => scanout \in {None, active}
  /\ req # "freed" => act = Other(active)
  /\ req = "null" /\ todo = {} /\ frame # {} => scanout = active
  /\ todo # {} => step = "ready"

\* The back buffer shows what was drawn of a frame and, in direct mode, all that
\* was drawn before; so does the other one before and after the frame.
DrawnOK ==
  /\ todo # {} /\ todo # frame =>
       /\ frame \ todo \subseteq current[Target]
       /\ direct => Areas \ todo \subseteq current[Target]
  /\ todo = frame /\ frame # {} /\ req # "freed" /\ direct =>
       frame = Areas \/ current[active] = Areas
  /\ todo = {} /\ frame # {} /\ req # "freed" =>
       /\ frame \subseteq current[active]
       /\ direct => current[active] = Areas

DInv == DrmTypeOK /\ SetupOK /\ FlipOK /\ DrawnOK

----------------------------------------------------------------------------
(* The setup *)

\* The natural numbers are well ordered.
LEMMA Least ==
  ASSUME NEW S \in SUBSET Nat, S # {}
  PROVE  Min(S) \in S /\ \A y \in S : Min(S) <= y
<1>1. IsWellFoundedOn(OpToRel(<, Nat), Nat)
  BY NatLessThanWellFounded
<1>2. PICK x \in S : \A y \in S : ~(<<y, x>> \in OpToRel(<, Nat))
  BY <1>1, WFMin
<1>3. ASSUME NEW y \in S
      PROVE  x <= y
  <2>1. ~(y < x)
    BY <1>2 DEF OpToRel
  <2>2. QED  BY <2>1
<1>4. QED  BY <1>3 DEF Min

\* What SelectInSeq returns of the indexes that it may return.
LEMMA Selected ==
  ASSUME NEW n \in Nat, NEW I \in SUBSET (1 .. n), NEW i,
         i = (IF I # {} THEN Min(I) ELSE 0)
  PROVE  /\ i \in 0 .. n
         /\ i # 0 <=> I # {}
         /\ i # 0 => i \in I
<1>1. CASE I = {}
  BY <1>1
<1>2. CASE I # {}
  <2>1. Min(I) \in I
    BY <1>2, Least
  <2>2. i = Min(I)
    BY <1>2
  <2>3. i \in I
    BY <2>1, <2>2
  <2>4. QED  BY <1>2, <2>3
<1>3. QED  BY <1>1, <1>2

LEMMA FindConnUsable ==
  ASSUME NEW h \in Hardware
  PROVE  /\ FindConn(h) \in 0 .. Len(h.conns)
         /\ FindConn(h) # 0 => Usable(h.conns[FindConn(h)])
<1> DEFINE I == {i \in 1 .. Len(h.conns) : Usable(h.conns[i])}
<1>1. Len(h.conns) \in Nat
  BY HardwareAssumption
<1>2. FindConn(h) = IF I # {} THEN Min(I) ELSE 0
  BY DEF FindConn, SelectInSeq
<1>3. I \subseteq 1 .. Len(h.conns) /\ \A i \in I : Usable(h.conns[i])
  OBVIOUS
<1> HIDE DEF I
<1>4. QED  BY <1>1, <1>2, <1>3, Selected

\* The id of no CRTC is zero.
LEMMA CrtcIdxKnown ==
  ASSUME NEW h \in Hardware, NEW id
  PROVE  /\ CrtcIdx(h, id) \in 0 .. Len(h.crtcs)
         /\ CrtcIdx(h, id) # 0 => id # 0
<1> DEFINE I == {i \in 1 .. Len(h.crtcs) : h.crtcs[i] = id}
<1>1. Len(h.crtcs) \in Nat /\ \A i \in 1 .. Len(h.crtcs) : h.crtcs[i] # 0
  <2>1. h.crtcs \in Seq(Nat \ {0})
    BY HardwareAssumption
  <2>2. \A i \in 1 .. Len(h.crtcs) : h.crtcs[i] \in Nat \ {0}
    BY <2>1
  <2>3. QED  BY <2>1, <2>2
<1>2. CrtcIdx(h, id) = IF I # {} THEN Min(I) ELSE 0
  BY DEF CrtcIdx, SelectInSeq
<1>3. I \subseteq 1 .. Len(h.crtcs) /\ \A i \in I : h.crtcs[i] = id
  OBVIOUS
<1> HIDE DEF I
<1>4. QED  BY <1>1, <1>2, <1>3, Selected

\* find_plane finds a plane that suits, or none that it can get.
LEMMA FindPlaneSuits ==
  ASSUME NEW h \in Hardware, NEW idx
  PROVE  LET p == FindPlane(h, idx)
         IN  /\ p.plane \in 0 .. Len(h.planes)
             /\ p.plane # 0 => Suits(h.planes[p.plane], idx)
<1> DEFINE I == {i \in 1 .. Len(h.planes) : ~h.planes[i].readable \/ Suits(h.planes[i], idx)}
           sel == IF I # {} THEN Min(I) ELSE 0
<1>1. Len(h.planes) \in Nat
  BY HardwareAssumption
<1>2. FindPlane(h, idx) =
        IF sel = 0 THEN [found |-> FALSE, plane |-> 0]
        ELSE [found |-> TRUE, plane |-> IF h.planes[sel].readable THEN sel ELSE 0]
  BY DEF FindPlane, SelectInSeq
<1>3. /\ I \subseteq 1 .. Len(h.planes)
      /\ \A i \in I : ~h.planes[i].readable \/ Suits(h.planes[i], idx)
  OBVIOUS
<1> HIDE DEF I
<1>4. sel \in 0 .. Len(h.planes) /\ (sel # 0 => sel \in I)
  BY <1>1, <1>3, Selected
<1> HIDE DEF sel
<1>5. QED  BY <1>1, <1>2, <1>3, <1>4

\* The steps of drm_init.
LEMMA SetupKeeps ==
  ASSUME DInv, Setup
  PROVE  DInv'
<1>1. /\ UNCHANGED <<hw, direct, req, first, active, current, scanout, pending, modeset,
                     event, todo, frame, act, flushing>>
      /\ step \in {"closed", "open", "found", "planed", "queried", "one"}
  BY DEF Setup, Open, FindConnector, PickPlane, Query, Allocate, driverVars, kernelVars,
         lvglVars
<1>2. /\ hw \in Hardware /\ closes = 0
      /\ conn \in 0 .. Len(hw.conns) /\ crtc \in 0 .. Len(hw.crtcs)
      /\ plane \in 0 .. Len(hw.planes)
  BY <1>1 DEF DInv, DrmTypeOK, SetupOK
<1>3. FlipOK' /\ DrawnOK'
  BY <1>1 DEF DInv, FlipOK, DrawnOK, Target, Back, Other
<1>4. ASSUME step' = "failed", closes' \in {0, 1, 2}, UNCHANGED <<conn, crtc, plane>>
      PROVE  DInv'
  BY <1>1, <1>2, <1>3, <1>4 DEF DInv, DrmTypeOK, SetupOK
<1>5. CASE SetupFails
  BY <1>2, <1>4, <1>5 DEF SetupFails
<1>6. CASE Open
  <2>1. step' \in {"open", "failed"} /\ UNCHANGED <<conn, crtc, plane, closes>>
    BY <1>6 DEF Open
  <2>2. QED  BY <1>1, <1>2, <1>3, <2>1 DEF DInv, DrmTypeOK, SetupOK
<1>7. CASE FindConnector /\ ~SetupFails
  <2> DEFINE c == FindConn(hw)
             id == IF c = 0 \/ hw.crtcs = <<>> THEN 0 ELSE FindCrtcId(hw, hw.conns[c])
             idx == CrtcIdx(hw, id)
  <2>1. /\ idx # 0 /\ step' = "found" /\ conn' = c /\ crtc' = idx
        /\ UNCHANGED <<plane, closes>>
    BY <1>7 DEF FindConnector
  <2>2. c \in 0 .. Len(hw.conns) /\ (c # 0 => Usable(hw.conns[c]))
    BY <1>2, FindConnUsable
  <2>3. idx \in 0 .. Len(hw.crtcs) /\ id # 0
    BY <1>2, <2>1, CrtcIdxKnown
  <2>4. c # 0
    BY <2>3
  <2> HIDE DEF c, idx
  <2>5. QED
    BY <1>1, <1>2, <1>3, <2>1, <2>2, <2>3, <2>4 DEF DInv, DrmTypeOK, SetupOK
<1>8. CASE PickPlane /\ ~SetupFails
  <2> DEFINE p == FindPlane(hw, crtc)
  <2>1. step' = "planed" /\ plane' = p.plane /\ UNCHANGED <<conn, crtc, closes>> /\ step = "found"
    BY <1>8 DEF PickPlane
  <2>2. /\ p.plane \in 0 .. Len(hw.planes)
        /\ p.plane # 0 => Suits(hw.planes[p.plane], crtc)
    BY <1>2, FindPlaneSuits
  <2> HIDE DEF p
  <2>3. QED
    BY <1>1, <1>2, <1>3, <2>1, <2>2 DEF DInv, DrmTypeOK, SetupOK
<1>9. CASE Query /\ ~SetupFails
  <2>1. step' = "queried" /\ plane # 0 /\ UNCHANGED <<conn, crtc, plane, closes>> /\ step = "planed"
    BY <1>9 DEF Query
  <2>2. QED  BY <1>1, <1>2, <1>3, <2>1 DEF DInv, DrmTypeOK, SetupOK
<1>10. CASE Allocate
  <2>1. CASE step' = "failed"
    BY <1>2, <1>4, <1>10, <2>1 DEF Allocate
  <2>2. CASE step' # "failed"
    <3>1. /\ step \in {"queried", "one"} /\ step' \in {"one", "ready"}
          /\ UNCHANGED <<conn, crtc, plane, closes>>
      BY <1>10, <2>2 DEF Allocate
    <3>2. QED  BY <1>1, <1>2, <1>3, <3>1 DEF DInv, DrmTypeOK, SetupOK
  <2>3. QED  BY <2>1, <2>2
<1>11. QED
  BY <1>5, <1>6, <1>7, <1>8, <1>9, <1>10 DEF Setup

----------------------------------------------------------------------------
(* Frames *)

LEMMA OtherBuffer ==
  \A b \in Buffers : /\ Other(b) \in Buffers /\ Other(b) # b /\ Other(Other(b)) = b
                     /\ b # None
  BY DEF Buffers, Other, None

\* LVGL draws in the buffer that the driver is to show next.
LEMMA TargetIsBack ==
  ASSUME DInv, req # "freed"
  PROVE  /\ Target = Other(active) /\ Target = act /\ Back = Other(active)
         /\ Target \in Buffers /\ Other(act) = active
  BY OtherBuffer DEF DInv, DrmTypeOK, FlipOK, Target, Back

LEMMA BeginFrameKeeps ==
  ASSUME DInv, NEW S \in SUBSET Areas, BeginFrame(S)
  PROVE  DInv'
<1>1. /\ step = "ready" /\ todo = {} /\ S # {} /\ (frame = {} => S = Areas)
      /\ todo' = S /\ frame' = S
      /\ UNCHANGED <<hw, direct, step, conn, crtc, plane, closes, req, first, active,
                     current, scanout, pending, modeset, event, act, flushing>>
  BY DEF BeginFrame, setupVars, driverVars, kernelVars
<1>2. DrmTypeOK' /\ SetupOK'
  BY <1>1 DEF DInv, DrmTypeOK, SetupOK
<1>3. FlipOK'
  BY <1>1 DEF DInv, FlipOK
<1>4. DrawnOK'
  BY <1>1 DEF DInv, DrawnOK
<1>5. QED  BY <1>2, <1>3, <1>4 DEF DInv

\* The areas of the buffer that is drawn to, and what it lacks.
LEMMA DrawnTarget ==
  ASSUME DInv, req = "null", NEW a \in todo
  PROVE  /\ Drawn(a) \in [Buffers -> SUBSET Areas]
         /\ (frame \ todo) \cup {a} \subseteq Drawn(a)[Target]
         /\ direct => (Areas \ todo) \cup {a} \subseteq Drawn(a)[Target]
<1>1. /\ current \in [Buffers -> SUBSET Areas] /\ a \in Areas
      /\ todo \subseteq frame /\ frame \subseteq Areas /\ frame # {}
  BY DEF DInv, DrmTypeOK
<1>2. Target \in Buffers /\ Other(act) = active /\ active \in Buffers
  BY TargetIsBack DEF DInv, DrmTypeOK
<1> DEFINE synced == IF direct /\ todo = frame THEN current[active] ELSE {}
<1>3. Drawn(a) = [b \in Buffers |-> IF b = Target THEN current[b] \cup synced \cup {a}
                                                  ELSE current[b] \ {a}]
  BY <1>2 DEF Drawn
<1>4. synced \subseteq Areas
  BY <1>1, <1>2
<1>5. todo # frame => /\ frame \ todo \subseteq current[Target]
                      /\ direct => Areas \ todo \subseteq current[Target]
  BY DEF DInv, DrawnOK
<1>6. todo = frame /\ direct => frame = Areas \/ synced = Areas
  BY <1>1 DEF DInv, DrawnOK
<1> HIDE DEF synced
<1>7. Drawn(a) \in [Buffers -> SUBSET Areas]
  BY <1>1, <1>3, <1>4
<1>8. Drawn(a)[Target] = current[Target] \cup synced \cup {a}
  BY <1>2, <1>3
<1>9. QED  BY <1>1, <1>5, <1>6, <1>7, <1>8

LEMMA FlushAreaKeeps ==
  ASSUME DInv, NEW a \in Areas, FlushArea(a)
  PROVE  DInv'
<1>1. /\ step = "ready" /\ a \in todo /\ ~flushing
      /\ current' = Drawn(a) /\ todo' = todo \ {a} /\ flushing' = TRUE
      /\ UNCHANGED <<hw, direct, step, conn, crtc, plane, closes, scanout, event, frame>>
  BY DEF FlushArea, setupVars
<1>2. req = "null" /\ pending = None /\ ~event /\ frame # {} /\ todo \subseteq frame
  BY <1>1 DEF DInv, FlipOK, DrmTypeOK
<1>3. /\ Drawn(a) \in [Buffers -> SUBSET Areas]
      /\ (frame \ todo) \cup {a} \subseteq Drawn(a)[Target]
      /\ direct => (Areas \ todo) \cup {a} \subseteq Drawn(a)[Target]
  BY <1>1, <1>2, DrawnTarget
<1>4. /\ Target = Other(active) /\ Target = act /\ Target \in Buffers
      /\ Back = Other(active) /\ Other(act) = active /\ Other(Other(active)) = active
      /\ active \in Buffers
  BY <1>2, TargetIsBack, OtherBuffer DEF DInv, DrmTypeOK
<1>5. SetupOK'
  BY <1>1 DEF DInv, SetupOK
<1>6. CASE todo # {a}
  <2>1. UNCHANGED <<req, first, active, pending, modeset, act>> /\ todo' # {} /\ todo' # frame'
    BY <1>1, <1>2, <1>6 DEF FlushArea, driverVars
  <2>2. Target' = Target
    BY <1>1, <2>1 DEF Target, Back, Other
  <2>3. DrmTypeOK'
    BY <1>1, <1>3, <2>1 DEF DInv, DrmTypeOK
  <2>4. FlipOK'
    BY <1>1, <1>2, <2>1 DEF DInv, FlipOK, Other
  <2>5. DrawnOK'
    BY <1>1, <1>2, <1>3, <2>1, <2>2 DEF DrawnOK
  <2>6. QED  BY <1>5, <2>3, <2>4, <2>5 DEF DInv
<1>7. CASE todo = {a}
  <2>1. SetPlane /\ act' = Other(act) /\ todo' = {} /\ first' = FALSE
    BY <1>1, <1>7 DEF FlushArea, SetPlane
  <2>2. frame \subseteq Drawn(a)[Target] /\ (direct => Drawn(a)[Target] = Areas)
    BY <1>3, <1>4, <1>7
  <2>3. CASE pending' = Back /\ modeset' = TRUE /\ req' = "live" /\ active' = Back
    <3>1. DrmTypeOK'
      BY <1>1, <1>3, <1>4, <2>1, <2>3 DEF DInv, DrmTypeOK
    <3>2. FlipOK'
      BY <1>1, <1>2, <1>4, <2>1, <2>3, OtherBuffer DEF FlipOK
    <3>3. DrawnOK'
      BY <1>1, <1>2, <1>4, <2>1, <2>2, <2>3 DEF DrawnOK
    <3>4. QED  BY <1>5, <3>1, <3>2, <3>3 DEF DInv
  <2>4. CASE req' = "freed" /\ UNCHANGED <<pending, modeset, active>>
    <3>1. DrmTypeOK'
      BY <1>1, <1>3, <1>4, <2>1, <2>4, OtherBuffer DEF DInv, DrmTypeOK
    <3>2. FlipOK'
      BY <1>1, <1>2, <2>1, <2>4 DEF DInv, FlipOK
    <3>3. DrawnOK'
      BY <1>1, <1>2, <2>1, <2>4 DEF DrawnOK
    <3>4. QED  BY <1>5, <3>1, <3>2, <3>3 DEF DInv
  <2>5. QED  BY <2>1, <2>3, <2>4 DEF SetPlane
<1>8. QED  BY <1>6, <1>7

LEMMA FlipKeeps ==
  ASSUME DInv, Flip
  PROVE  DInv'
<1>1. /\ pending # None /\ scanout' = pending /\ pending' = None /\ event' = TRUE
      /\ UNCHANGED <<hw, direct, step, conn, crtc, plane, closes, req, first, active,
                     current, modeset, todo, frame, act, flushing>>
  BY DEF Flip, setupVars, driverVars, lvglVars
<1>2. DrmTypeOK' /\ SetupOK'
  BY <1>1 DEF DInv, DrmTypeOK, SetupOK
<1>3. FlipOK'
  BY <1>1 DEF DInv, FlipOK, Other
<1>4. DrawnOK'
  BY <1>1 DEF DInv, DrawnOK, Target, Back, Other
<1>5. QED  BY <1>2, <1>3, <1>4 DEF DInv

LEMMA ReadyStepKeeps ==
  ASSUME DInv, Ready
  PROVE  DInv'
<1>1. /\ req' = "null" /\ flushing' = FALSE /\ step = "ready" /\ flushing
      /\ \/ req = "null" /\ event' = event
         \/ req # "null" /\ event /\ event' = FALSE
      /\ UNCHANGED <<hw, direct, step, conn, crtc, plane, closes, first, active, current,
                     scanout, pending, modeset, todo, frame, act>>
  BY DEF Ready, setupVars
<1>2. DrmTypeOK' /\ SetupOK'
  BY <1>1 DEF DInv, DrmTypeOK, SetupOK
<1>3. FlipOK'
  BY <1>1 DEF DInv, FlipOK, DrmTypeOK, Other
<1>4. DrawnOK'
  BY <1>1 DEF DInv, DrmTypeOK, DrawnOK, FlipOK, Target, Back, Other
<1>5. QED  BY <1>2, <1>3, <1>4 DEF DInv

LEMMA ExitKeeps ==
  ASSUME DInv, Exit
  PROVE  DInv'
<1>1. /\ step = "ready" /\ todo = {} /\ step' = "exited" /\ closes' = closes + 1
      /\ UNCHANGED <<hw, direct, conn, crtc, plane, req, first, active, current, scanout,
                     pending, modeset, event, todo, frame, act, flushing>>
  BY DEF Exit, driverVars, kernelVars, lvglVars
<1>2. DrmTypeOK' /\ SetupOK'
  BY <1>1 DEF DInv, DrmTypeOK, SetupOK
<1>3. FlipOK' /\ DrawnOK'
  BY <1>1 DEF DInv, FlipOK, DrawnOK, Target, Back, Other
<1>4. QED  BY <1>2, <1>3 DEF DInv

LEMMA DrmInitHolds ==
  ASSUME DrmInit
  PROVE  DInv
<1>1. DrmTypeOK
  <2>1. /\ Len(hw.conns) \in Nat /\ Len(hw.crtcs) \in Nat /\ Len(hw.planes) \in Nat
    BY HardwareAssumption DEF DrmInit
  <2>2. current \in [Buffers -> SUBSET Areas]
    BY DEF DrmInit
  <2>3. QED  BY <2>1, <2>2 DEF DrmInit, DrmTypeOK, Buffers
<1>2. SetupOK /\ FlipOK /\ DrawnOK
  BY DEF DrmInit, SetupOK, FlipOK, DrawnOK, Other
<1>3. QED  BY <1>1, <1>2 DEF DInv

LEMMA DrmNextKeeps ==
  ASSUME DInv, [DrmNext]_drmVars
  PROVE  DInv'
<1>1. CASE UNCHANGED drmVars
  <2>1. UNCHANGED <<hw, direct, step, conn, crtc, plane, closes, req, first, active, current,
                    scanout, pending, modeset, event, todo, frame, act, flushing>>
    BY <1>1 DEF drmVars, setupVars, driverVars, kernelVars, lvglVars
  <2>2. QED
    BY <2>1 DEF DInv, DrmTypeOK, SetupOK, FlipOK, DrawnOK, Target, Back, Other
<1>2. QED
  BY <1>1, SetupKeeps, BeginFrameKeeps, FlushAreaKeeps, FlipKeeps, ReadyStepKeeps, ExitKeeps
     DEF DrmNext, Frames

LEMMA DrmInvariance == DrmSpec => []DInv
<1>1. DrmInit => DInv
  BY DrmInitHolds
<1>2. DInv /\ [DrmNext]_drmVars => DInv'
  BY DrmNextKeeps
<1>3. QED  BY <1>1, <1>2, PTL DEF DrmSpec

----------------------------------------------------------------------------
(* The theorems *)

\* The variables of drm.c keep their values in range, whatever the hardware tells
\* and whatever fails; in particular the descriptor is closed at most twice.
THEOREM DrmTypeCorrect == DrmSpec => []DrmTypeOK
<1>1. DInv => DrmTypeOK
  BY DEF DInv
<1>2. QED  BY <1>1, DrmInvariance, PTL

\* Whatever connectors, encoders, CRTCs and planes there are, drm_init is done
\* only with a connector in use and with a plane that suits it.
THEOREM SetupIsSound == DrmSpec => []SetupSound
<1>1. DInv => SetupSound
  BY DEF DInv, SetupOK, SetupSound
<1>2. QED  BY <1>1, DrmInvariance, PTL

\* A frame that is not on its way is in the buffer that is shown.
LEMMA ShownWhole == DInv => ShowsFrame
<1> SUFFICES ASSUME DInv, step = "ready", ~flushing, todo = {}, frame # {}
             PROVE  /\ scanout # None
                    /\ frame \subseteq current[scanout]
                    /\ direct => current[scanout] = Areas
  BY DEF ShowsFrame
<1>1. req = "null"
  BY DEF DInv, DrmTypeOK, FlipOK
<1>2. scanout = active /\ active # None
  BY <1>1, OtherBuffer DEF DInv, DrmTypeOK, FlipOK
<1>3. QED  BY <1>1, <1>2 DEF DInv, DrawnOK

\* A frame that was flushed is shown whole: everything that was drawn in it and, in
\* direct mode, all that was drawn before.
THEOREM FramesAreShown == DrmSpec => []ShowsFrame
BY ShownWhole, DrmInvariance, PTL

\* No area is drawn in the buffer that the kernel shows or is about to show, whatever
\* commits fail and however late the flips come.
THEOREM NothingTorn == DrmSpec => NeverTorn
<1>1. DInv /\ [DrmNext]_drmVars =>
        [todo # {} /\ todo' # todo => Target \notin {scanout, pending}]_drmVars
  <2> SUFFICES ASSUME DInv, DrmNext, todo # {}, todo' # todo
               PROVE  Target \notin {scanout, pending}
    OBVIOUS
  <2>1. \E a \in Areas : FlushArea(a)
    BY DEF DrmNext, Frames, Setup, BeginFrame, Flip, Ready, Exit, lvglVars
  <2>2. req = "null" /\ pending = None
    BY <2>1 DEF FlushArea, DInv, DrmTypeOK, FlipOK
  <2>3. scanout \in {None, active} /\ active \in Buffers /\ Target = Other(active)
    BY <2>2, TargetIsBack DEF DInv, DrmTypeOK, FlipOK
  <2>4. QED  BY <2>2, <2>3, OtherBuffer
<1>2. QED  BY <1>1, DrmInvariance, PTL DEF DrmSpec, NeverTorn

----------------------------------------------------------------------------
(* The promise of a display with two buffers *)

\* Every variable of the driver, one by one.
LEMMA DrmVarsAre ==
  UNCHANGED drmVars <=>
    UNCHANGED <<hw, direct, step, conn, crtc, plane, closes, req, first, active, current,
                scanout, pending, modeset, event, todo, frame, act, flushing>>
BY DEF drmVars, setupVars, driverVars, kernelVars, lvglVars

\* What is on the screen depends on the kernel's buffers and on LVGL's frame alone.
LEMMA OnScreenIs ==
  ASSUME UNCHANGED <<direct, current, scanout, pending, todo, frame>>
  PROVE  UNCHANGED <<direct, Shown, Coming, Begun>>
BY DEF Shown, Coming, Begun

\* An area that is drawn is drawn out of sight, and the last one of a frame hands the
\* whole of it over, unless the commit fails.
LEMMA FlushAreaRefines ==
  ASSUME DInv, NEW a \in Areas, FlushArea(a)
  PROVE  OnScreen!Next
<1>1. /\ step = "ready" /\ a \in todo /\ ~flushing
      /\ current' = Drawn(a) /\ todo' = todo \ {a}
      /\ UNCHANGED <<direct, scanout, frame>>
  BY DEF FlushArea
<1>2. req = "null" /\ pending = None /\ ~event /\ todo \subseteq frame
  BY <1>1 DEF DInv, FlipOK, DrmTypeOK
<1>3. /\ Drawn(a) \in [Buffers -> SUBSET Areas]
      /\ (frame \ todo) \cup {a} \subseteq Drawn(a)[Target]
      /\ direct => (Areas \ todo) \cup {a} \subseteq Drawn(a)[Target]
  BY <1>1, <1>2, DrawnTarget
<1>4. /\ Target = Other(active) /\ Target \in Buffers /\ Back = Target
      /\ active \in Buffers /\ active # Target
  BY <1>2, TargetIsBack, OtherBuffer DEF DInv, DrmTypeOK
<1>5. scanout \in {None, active} /\ current \in [Buffers -> SUBSET Areas]
  BY <1>2 DEF DInv, FlipOK, DrmTypeOK
<1>6. OnScreen!DrawArea(a)
  <2>1. scanout # None => current'[scanout] = current[scanout] \ {a}
    BY <1>1, <1>4, <1>5 DEF Drawn
  <2>2. Shown' = Shown \ {a}
    BY <1>1, <2>1 DEF Shown
  <2>3. QED  BY <1>2, <2>2 DEF OnScreen!DrawArea, Coming
<1>7. Begun = frame \ todo
  BY <1>1 DEF Begun
<1>8. CASE todo # {a}
  <2>1. pending' = pending /\ todo' # {}
    BY <1>1, <1>8 DEF FlushArea
  <2>2. Begun' = Begun \cup {a}
    BY <1>1, <1>2, <1>7, <2>1 DEF Begun
  <2>3. Coming' = Coming
    BY <1>2, <2>1 DEF Coming
  <2>4. QED  BY <1>1, <1>6, <2>2, <2>3 DEF OnScreen!Next, OnScreen!Draw
<1>9. CASE todo = {a}
  <2>1. SetPlane /\ todo' = {} /\ Begun' = {}
    BY <1>1, <1>9 DEF FlushArea, Begun
  <2>2. CASE pending' = Back
    <3> DEFINE p == Drawn(a)[Target]
    <3>1. Coming' = {p}
      BY <1>1, <1>4, <2>2, OtherBuffer DEF Coming
    <3>2. p \in SUBSET Areas /\ Begun \cup {a} \subseteq p
      BY <1>3, <1>4, <1>7
    <3>3. Shown \subseteq Areas
      BY <1>4, <1>5 DEF Shown
    <3>4. direct => Shown \subseteq p
      BY <1>3, <1>9, <3>3
    <3>5. QED
      BY <1>1, <1>6, <2>1, <3>1, <3>2, <3>4 DEF OnScreen!Next, OnScreen!Finish
  <2>3. CASE pending' = pending
    <3>1. Coming' = Coming
      BY <1>2, <2>3 DEF Coming
    <3>2. QED  BY <1>1, <1>6, <2>1, <3>1 DEF OnScreen!Next, OnScreen!Refuse
  <2>4. QED  BY <2>1, <2>2, <2>3 DEF SetPlane
<1>10. QED  BY <1>8, <1>9

\* The vertical blank brings the picture that waits for it.
LEMMA FlipRefines ==
  ASSUME Flip
  PROVE  OnScreen!Next
<1>1. /\ pending # None /\ scanout' = pending /\ pending' = None
      /\ UNCHANGED <<direct, current, todo, frame>>
  BY DEF Flip, lvglVars
<1>2. Shown' \in Coming /\ Coming' = {} /\ UNCHANGED <<direct, Begun>>
  BY <1>1 DEF Shown, Coming, Begun
<1>3. QED  BY <1>2 DEF OnScreen!Next, OnScreen!Show

\* A step of the driver, of LVGL or of the kernel is one that the promise allows.
LEMMA DrmStepRefines ==
  ASSUME DInv, [DrmNext]_drmVars
  PROVE  [OnScreen!Next]_<<direct, Shown, Coming, Begun>>
<1>1. CASE Setup \/ Ready \/ Exit \/ UNCHANGED drmVars
  <2>1. UNCHANGED <<direct, current, scanout, pending, todo, frame>>
    BY <1>1, DrmVarsAre DEF Setup, Ready, Exit, kernelVars, lvglVars
  <2>2. QED  BY <2>1, OnScreenIs
<1>2. ASSUME NEW S \in SUBSET Areas, BeginFrame(S)
      PROVE  UNCHANGED <<direct, Shown, Coming, Begun>>
  <2>1. /\ todo = {} /\ todo' = frame'
        /\ UNCHANGED <<direct, current, scanout, pending>>
    BY <1>2 DEF BeginFrame, kernelVars
  <2>2. QED  BY <2>1 DEF Shown, Coming, Begun
<1>3. QED
  BY <1>1, <1>2, FlushAreaRefines, FlipRefines DEF DrmNext, Frames

\* The DRM driver implements a display that shows whole frames, one after another,
\* with whatever hardware, and whichever commits fail.
THEOREM DrmShowsWholeFrames == DrmSpec => ShowsWholeFrames
<1>1. DrmInit => OnScreen!Init
  BY DEF DrmInit, OnScreen!Init, Shown, Coming, Begun
<1>2. DInv /\ [DrmNext]_drmVars => [OnScreen!Next]_<<direct, Shown, Coming, Begun>>
  BY DrmStepRefines
<1>3. QED
  BY <1>1, <1>2, DrmInvariance, PTL DEF DrmSpec, ShowsWholeFrames, OnScreen!Spec

==============================================================================
