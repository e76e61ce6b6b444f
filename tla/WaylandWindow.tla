---------------------------- MODULE WaylandWindow ----------------------------
(***************************************************************************)
(* The life of windows in the Wayland driver (wayland/wayland.c): their    *)
(* creation, the shell's events, the application's calls, LVGL's frames    *)
(* and the output cycle that closes, resizes and flushes.                  *)
(*                                                                         *)
(* A window is a struct in application.window_ll, which stays there when   *)
(* the window is closed; its body and its decorations are graphic objects, *)
(* which are freed then.  Requests to the compositor are buffered by       *)
(* libwayland; most handlers set flush_pending to have them sent, some     *)
(* leave that to whoever flushes next.                                     *)
(*                                                                         *)
(* One thread runs lv_wayland_timer_handler over and over: events, LVGL,   *)
(* output.  `stage` tells the output cycle, of which each window is a      *)
(* step, from the rest; the close_cb of a window is the application's code *)
(* in the middle of it.  Accesses to freed or NULL memory end in `crash`.  *)
(***************************************************************************)
EXTENDS Integers, Sequences, SequencesExt

CONSTANTS
  Windows,      \* addresses of struct window
  Decorations,  \* the kinds of decoration of a window
  Sizes,        \* Sizes[w]: the sizes, in pixels, that w may have
  Faults        \* what may fail, a subset of FaultKinds

FaultKinds ==
  {"decoration",  \* the malloc of a decoration
   "attach",      \* the subsurface of a decoration
   "draw_buffer", \* the malloc of a new window's draw buffer
   "resize",      \* the malloc of a resized window's draw buffer
   "flush"}       \* wl_display_flush, with EAGAIN or an error

ASSUME SizesAssumption == Sizes \in [Windows -> SUBSET (Nat \ {0})]
ASSUME DecorationsAssumption == "body" \notin Decorations
ASSUME WindowFaultsAssumption == Faults \subseteq FaultKinds

VARIABLES
  listed,      \* application.window_ll
  win,         \* win[w]: the flags of struct window and of its body
  size,        \* size[w]: width and height, and the body's
  asked,       \* asked[w]: resize_width and resize_height
  drawn,       \* drawn[w]: hor_res and ver_res of its display, 0 without one
  alive,       \* the graphic objects allocated
  bare,        \* those whose surface is NULL
  flagged,     \* windows with requests unsent that flush_pending was set for
  refused,     \* the last flush failed
  cursorFlush, \* application.cursor_flush_pending
  stage,       \* "app", "output", "callback", "answered" or "down"
  at,          \* the output cycle's position in the list
  shallFlush,  \* its shall_flush
  crash        \* how the process came to an end, or "none"

sizeVars   == <<size, asked, drawn>>
objectVars == <<alive, bare>>
sendVars   == <<flagged, refused, cursorFlush>>
cycleVars  == <<stage, at, shallFlush>>
windowVars == <<listed, win, sizeVars, objectVars, sendVars, cycleVars, crash>>

Body(w) == <<w, "body">>
Decos(w) == {w} \X Decorations
Objects == Windows \X ({"body"} \cup Decorations)

InList(w) == w \in ToSet(listed)

\* What create_window leaves in the zeroed struct, on an XDG shell.
NewWindow ==
  [closed |-> FALSE, shallClose |-> FALSE, resizePending |-> FALSE,
   flushPending |-> FALSE, callback |-> TRUE, fullscreen |-> FALSE,
   configured |-> FALSE, pending |-> FALSE]

\* The display of a window is known to the application and to LVGL.
Registered(w) == InList(w) /\ drawn[w] # 0

\* The window has surfaces that the compositor may send events about.
Open(w) == Registered(w) /\ ~win[w].closed

----------------------------------------------------------------------------
(* lv_wayland_create_window *)

\* The application's code runs: outside of the cycle, or in a close_cb.
AppRuns == stage \in {"app", "callback"}

\* create_window adds w with a body and decorations, and resize_window makes
\* a buffer for each decoration: one that is missing is dereferenced, and one
\* that cannot be attached loses its surface.
CreateWindow(w, sz) ==
  /\ AppRuns /\ ~InList(w)
  /\ \E missing, lost \in SUBSET Decos(w) :
       /\ missing # {} => "decoration" \in Faults
       /\ lost # {} => "attach" \in Faults
       /\ alive' = alive \cup {Body(w)} \cup (Decos(w) \ missing)
       /\ bare' = bare \cup (lost \ missing)
       /\ crash' = IF missing # {} THEN "decoration" ELSE crash
  /\ listed' = Append(listed, w)
  /\ win' = [win EXCEPT ![w] = NewWindow]
  /\ size' = [size EXCEPT ![w] = sz]
  /\ asked' = [asked EXCEPT ![w] = 0]
  /\ drawn' = [drawn EXCEPT ![w] = sz]
  /\ UNCHANGED <<flagged, refused, cursorFlush, cycleVars>>

\* Without a draw buffer the window is destroyed, but neither marked closed
\* nor removed from the list.
CreateUndone(w, sz) ==
  /\ AppRuns /\ ~InList(w)
  /\ "draw_buffer" \in Faults
  /\ listed' = Append(listed, w)
  /\ win' = [win EXCEPT ![w] = NewWindow]
  /\ size' = [size EXCEPT ![w] = sz]
  /\ asked' = [asked EXCEPT ![w] = 0]
  /\ UNCHANGED <<drawn, objectVars, flagged, refused, cursorFlush, cycleVars,
                 crash>>

----------------------------------------------------------------------------
(* The application's other calls *)

\* lv_wayland_close_window.
CloseWindow(w) ==
  /\ AppRuns /\ Open(w)
  /\ win' = [win EXCEPT ![w].shallClose = TRUE, ![w].callback = FALSE]
  /\ UNCHANGED <<listed, sizeVars, objectVars, sendVars, cycleVars, crash>>

\* lv_wayland_window_set_fullscreen.
SetFullscreen(w, on) ==
  /\ AppRuns /\ Open(w)
  /\ win[w].fullscreen # on
  /\ win' = [win EXCEPT ![w].fullscreen = on, ![w].flushPending = TRUE]
  /\ flagged' = flagged \cup {w}
  /\ UNCHANGED <<listed, sizeVars, objectVars, refused, cursorFlush,
                 cycleVars, crash>>

\* Mutant of DestroyObjects: the decorations are left.
DestroyBodies(ws) ==
  LET objs == {Body(w) : w \in ws}
  IN  /\ alive' = alive \ objs
      /\ bare' = bare \ objs
      /\ crash' = IF (\E w \in ws : Body(w) \notin alive) \/ bare \cap objs # {}
                    THEN "destroyed" ELSE crash

\* destroy_window of windows ws: it fails on one destroyed before, and on a
\* decoration without a surface.
DestroyObjects(ws) ==
  LET objs == UNION {{Body(w)} \cup Decos(w) : w \in ws}
  IN  /\ alive' = alive \ objs
      /\ bare' = bare \ objs
      /\ crash' = IF (\E w \in ws : Body(w) \notin alive) \/ bare \cap objs # {}
                    THEN "destroyed" ELSE crash

\* lv_wayland_deinit.
Deinit ==
  /\ stage = "app"
  /\ DestroyObjects({w \in ToSet(listed) : ~win[w].closed})
  /\ listed' = <<>>
  /\ flagged' = {}
  /\ stage' = "down"
  /\ UNCHANGED <<win, sizeVars, refused, cursorFlush, at, shallFlush>>

----------------------------------------------------------------------------
(* The shell's events *)

\* xdg_toplevel_handle_configure: a size other than the window's.
ToplevelConfigure(w, sz) ==
  /\ stage = "app" /\ Open(w)
  /\ sz # size[w]
  /\ asked' = [asked EXCEPT ![w] = sz]
  /\ win' = [win EXCEPT ![w].resizePending = TRUE]
  /\ UNCHANGED <<listed, size, drawn, objectVars, sendVars, cycleVars, crash>>

\* xdg_surface_handle_configure: acknowledged without a flush, unless a frame
\* waits for it.
SurfaceConfigure(w) ==
  /\ stage = "app" /\ Open(w)
  /\ IF ~win[w].configured /\ win[w].pending
       THEN /\ win' = [win EXCEPT ![w].configured = TRUE, ![w].pending = FALSE,
                                  ![w].flushPending = TRUE]
            /\ flagged' = flagged \cup {w}
       ELSE /\ win' = [win EXCEPT ![w].configured = TRUE]
            /\ UNCHANGED flagged
  /\ UNCHANGED <<listed, sizeVars, objectVars, refused, cursorFlush, cycleVars,
                 crash>>

\* xdg_toplevel_handle_close.
ToplevelClose(w) ==
  /\ stage = "app" /\ Open(w)
  /\ win' = [win EXCEPT ![w].shallClose = TRUE]
  /\ UNCHANGED <<listed, sizeVars, objectVars, sendVars, cycleVars, crash>>

\* set_cursor, for a pointer that enters one of the surfaces of w.
SetCursor(w) ==
  /\ stage = "app" /\ Open(w)
  /\ cursorFlush' = TRUE
  /\ UNCHANGED <<listed, win, sizeVars, objectVars, flagged, refused, cycleVars,
                 crash>>

----------------------------------------------------------------------------
(* _lv_wayland_flush, for a whole frame: see SwapChain for its areas *)

\* A frame is committed, or its buffer waits for the surface's configuration.
FlushFrame(w) ==
  /\ stage = "app" /\ Open(w)
  /\ ~win[w].shallClose /\ ~win[w].resizePending
  /\ win' = [win EXCEPT ![w].pending = ~win[w].configured,
                        ![w].flushPending = TRUE]
  /\ flagged' = flagged \cup {w}
  /\ UNCHANGED <<listed, sizeVars, objectVars, refused, cursorFlush,
                 cycleVars, crash>>

\* A frame is skipped: the buffer that waits is released.
FlushSkipped(w) ==
  /\ stage = "app" /\ Open(w)
  /\ win[w].shallClose \/ win[w].resizePending
  /\ win' = [win EXCEPT ![w].pending = FALSE]
  /\ UNCHANGED <<listed, sizeVars, objectVars, sendVars, cycleVars, crash>>

\* LVGL draws on for a closed window: the waiting buffer is read from the
\* freed body.  What is found there may be released as if it were a buffer; if
\* it is NULL nothing happens.
FlushClosed(w) ==
  /\ stage = "app" /\ Registered(w) /\ win[w].closed
  /\ crash' = "stale_buffer"
  /\ UNCHANGED <<listed, win, sizeVars, objectVars, sendVars, cycleVars>>

----------------------------------------------------------------------------
(* _lv_wayland_handle_output *)

\* lv_wayland_timer_handler reads the input devices of every listed window
\* before the cycle: one that was undone at its creation has none.
BeginOutput ==
  /\ stage = "app"
  /\ IF \E w \in ToSet(listed) : drawn[w] = 0
       THEN crash' = "no_devices" /\ UNCHANGED cycleVars
       ELSE /\ stage' = "output" /\ at' = 1
            /\ shallFlush' = cursorFlush
            /\ UNCHANGED crash
  /\ UNCHANGED <<listed, win, sizeVars, objectVars, sendVars>>

Cycling == at <= Len(listed)

\* The window that the cycle is at.
This == listed[at]

Asks == win[This].shallClose /\ win[This].callback

\* close_cb is called ...
AskClose ==
  /\ stage = "output" /\ Cycling
  /\ Asks
  /\ stage' = "callback"
  /\ UNCHANGED <<listed, win, sizeVars, objectVars, sendVars, at, shallFlush,
                 crash>>

\* ... and answers.
AnswerClose(yes) ==
  /\ stage = "callback"
  /\ win' = [win EXCEPT ![This].shallClose = yes]
  /\ stage' = "answered"
  /\ UNCHANGED <<listed, sizeVars, objectVars, sendVars, at, shallFlush, crash>>

Deciding == Cycling /\ (stage = "answered" \/ (stage = "output" /\ ~Asks))

\* The next window; `flush` is what this one adds to shall_flush.
Advance(flush) ==
  /\ at' = at + 1
  /\ stage' = "output"
  /\ shallFlush' = (shallFlush \/ flush)

\* A closed window is passed over, its flush_pending with it.
PassClosed ==
  /\ Deciding /\ win[This].closed
  /\ Advance(FALSE)
  /\ UNCHANGED <<listed, win, sizeVars, objectVars, sendVars, crash>>

\* Mutant of CloseNow: the window is not marked closed.
CloseUnmarked ==
  /\ Deciding /\ ~win[This].closed
  /\ win[This].shallClose
  /\ win' = [win EXCEPT ![This].shallClose = FALSE]
  /\ DestroyObjects({This})
  /\ Advance(TRUE)
  /\ UNCHANGED <<listed, sizeVars, flagged, refused, cursorFlush>>

CloseNow ==
  /\ Deciding /\ ~win[This].closed
  /\ win[This].shallClose
  /\ win' = [win EXCEPT ![This].closed = TRUE, ![This].shallClose = FALSE]
  /\ DestroyObjects({This})
  /\ Advance(TRUE)
  /\ UNCHANGED <<listed, sizeVars, flagged, refused, cursorFlush>>

\* The decorations are made anew, unless the window is full screen: one that
\* lost its surface cannot be.
Redecorate(w) ==
  IF win[w].fullscreen
    THEN UNCHANGED <<bare, crash>>
    ELSE /\ \E lost \in SUBSET Decos(w) :
              /\ lost # {} => "attach" \in Faults
              /\ bare' = bare \cup lost
         /\ crash' = IF bare \cap Decos(w) # {} THEN "decoration" ELSE crash

\* Mutant of ResizeFails: the resize is not tried again.
ResizeForgets ==
  /\ Deciding /\ ~win[This].closed /\ ~win[This].shallClose
  /\ win[This].resizePending
  /\ "resize" \in Faults
  /\ size' = [size EXCEPT ![This] = asked[This]]
  /\ Redecorate(This)
  /\ win' = [win EXCEPT ![This].resizePending = FALSE]
  /\ Advance(win[This].flushPending)
  /\ UNCHANGED <<listed, asked, drawn, alive, flagged, refused, cursorFlush>>

\* resize_window without a draw buffer: the window has the new size, and LVGL
\* the former one.
ResizeFails ==
  /\ Deciding /\ ~win[This].closed /\ ~win[This].shallClose
  /\ win[This].resizePending
  /\ "resize" \in Faults
  /\ size' = [size EXCEPT ![This] = asked[This]]
  /\ Redecorate(This)
  /\ Advance(win[This].flushPending)
  /\ UNCHANGED <<listed, win, asked, drawn, alive, flagged, refused, cursorFlush>>

\* Mutant of ResizeNow: resize_pending stays.
ResizeAgain ==
  /\ Deciding /\ ~win[This].closed /\ ~win[This].shallClose
  /\ win[This].resizePending
  /\ size' = [size EXCEPT ![This] = asked[This]]
  /\ drawn' = [drawn EXCEPT ![This] = asked[This]]
  /\ Redecorate(This)
  /\ Advance(TRUE)
  /\ UNCHANGED <<listed, win, asked, alive, flagged, refused, cursorFlush>>

ResizeNow ==
  /\ Deciding /\ ~win[This].closed /\ ~win[This].shallClose
  /\ win[This].resizePending
  /\ size' = [size EXCEPT ![This] = asked[This]]
  /\ drawn' = [drawn EXCEPT ![This] = asked[This]]
  /\ Redecorate(This)
  /\ win' = [win EXCEPT ![This].resizePending = FALSE]
  /\ Advance(TRUE)
  /\ UNCHANGED <<listed, asked, alive, flagged, refused, cursorFlush>>

\* Mutants of PassOpen: its flush is left out; it passes a window to close.
PassOpenQuiet ==
  /\ Deciding /\ ~win[This].closed
  /\ ~win[This].shallClose /\ ~win[This].resizePending
  /\ Advance(FALSE)
  /\ UNCHANGED <<listed, win, sizeVars, objectVars, sendVars, crash>>

PassOpenAsked ==
  /\ Deciding /\ ~win[This].closed
  /\ ~win[This].resizePending
  /\ Advance(win[This].flushPending)
  /\ UNCHANGED <<listed, win, sizeVars, objectVars, sendVars, crash>>

\* Nothing to do but its flush.
PassOpen ==
  /\ Deciding /\ ~win[This].closed
  /\ ~win[This].shallClose /\ ~win[This].resizePending
  /\ Advance(win[This].flushPending)
  /\ UNCHANGED <<listed, win, sizeVars, objectVars, sendVars, crash>>

Ending == stage = "output" /\ ~Cycling

EndCycle == stage' = "app" /\ at' = 0 /\ shallFlush' = FALSE

NoFlush ==
  /\ Ending /\ ~shallFlush
  /\ EndCycle
  /\ UNCHANGED <<listed, win, sizeVars, objectVars, sendVars, crash>>

FlushSent ==
  /\ Ending /\ shallFlush
  /\ flagged' = {}
  /\ refused' = FALSE /\ cursorFlush' = FALSE
  /\ win' = [w \in Windows |->
               IF InList(w) THEN [win[w] EXCEPT !.flushPending = FALSE]
                            ELSE win[w]]
  /\ EndCycle
  /\ UNCHANGED <<listed, sizeVars, objectVars, crash>>

\* Mutant of FlushFails: what is pending is forgotten.
FlushForgets ==
  /\ Ending /\ shallFlush
  /\ "flush" \in Faults
  /\ refused' = TRUE
  /\ win' = [w \in Windows |-> [win[w] EXCEPT !.flushPending = FALSE]]
  /\ EndCycle
  /\ UNCHANGED <<listed, sizeVars, objectVars, flagged, cursorFlush,
                 crash>>

FlushFails ==
  /\ Ending /\ shallFlush
  /\ "flush" \in Faults
  /\ refused' = TRUE
  /\ EndCycle
  /\ UNCHANGED <<listed, win, sizeVars, objectVars, flagged, cursorFlush, crash>>

----------------------------------------------------------------------------

WindowInit ==
  /\ listed = <<>>
  /\ win = [w \in Windows |-> NewWindow]
  /\ size = [w \in Windows |-> 0]
  /\ asked = [w \in Windows |-> 0]
  /\ drawn = [w \in Windows |-> 0]
  /\ alive = {} /\ bare = {}
  /\ flagged = {} /\ refused = FALSE
  /\ cursorFlush = FALSE
  /\ stage = "app" /\ at = 0 /\ shallFlush = FALSE
  /\ crash = "none"

Running == crash = "none" /\ stage # "down"

\* The application's calls and the compositor's events.
Requests ==
  \/ \E w \in Windows : \E sz \in Sizes[w] :
       CreateWindow(w, sz) \/ CreateUndone(w, sz) \/ ToplevelConfigure(w, sz)
  \/ \E w \in Windows :
       \/ CloseWindow(w) \/ SurfaceConfigure(w) \/ ToplevelClose(w)
       \/ SetCursor(w)
       \/ FlushFrame(w) \/ FlushSkipped(w) \/ FlushClosed(w)
  \/ \E w \in Windows, on \in BOOLEAN : SetFullscreen(w, on)
  \/ Deinit

OutputWindow ==
  \/ AskClose \/ \E yes \in BOOLEAN : AnswerClose(yes)
  \/ PassClosed \/ CloseNow \/ ResizeNow \/ ResizeFails \/ PassOpen

Output == BeginOutput \/ OutputWindow \/ NoFlush \/ FlushSent \/ FlushFails

WindowNext == Running /\ (Requests \/ Output)

WindowSpec == WindowInit /\ [][WindowNext]_windowVars

\* The application calls lv_wayland_timer_handler for ever, and its close_cb
\* returns; the connection, and malloc, that fail now succeed at some time.
FairWindowSpec ==
  /\ WindowSpec
  /\ WF_windowVars(Running /\ BeginOutput)
  /\ WF_windowVars(Running /\ OutputWindow)
  /\ WF_windowVars(Running /\ (NoFlush \/ FlushSent \/ FlushFails))
  /\ SF_windowVars(Running /\ FlushSent)
  /\ \A w \in Windows : SF_windowVars(Running /\ ResizeNow /\ This = w)

----------------------------------------------------------------------------
(* Properties *)

\* The type invariant.
WindowTypeOK ==
  /\ listed \in Seq(Windows)
  /\ win \in [Windows -> [closed : BOOLEAN, shallClose : BOOLEAN,
                          resizePending : BOOLEAN, flushPending : BOOLEAN,
                          callback : BOOLEAN, fullscreen : BOOLEAN,
                          configured : BOOLEAN, pending : BOOLEAN]]
  /\ size \in [Windows -> Nat] /\ asked \in [Windows -> Nat]
  /\ drawn \in [Windows -> Nat]
  /\ alive \subseteq Objects /\ bare \subseteq alive
  /\ flagged \subseteq Windows
  /\ refused \in BOOLEAN /\ cursorFlush \in BOOLEAN
  /\ stage \in {"app", "output", "callback", "answered", "down"}
  /\ at \in 0 .. (Len(listed) + 1)
  /\ shallFlush \in BOOLEAN
  /\ crash \in {"none", "decoration", "destroyed", "stale_buffer", "no_devices",
               "stale_focus"} \* the last only with input

\* LVGL's display has the size of the window, which is that of the buffers
\* acquired from then on, whenever a flush is not skipped: _lv_wayland_flush
\* copies rows of the one width to rows of the other.  Between a failed resize
\* and the next, resize_pending keeps LVGL off.  Nothing is said of a buffer
\* acquired before a resize and still pending: it keeps its former size and is
\* drawn to, as DrawInsideBuffer of SwapChain shows.
DrawnAsSized ==
  \A w \in Windows : Open(w) /\ ~win[w].resizePending => drawn[w] = size[w]

\* A window that lv_wayland_window_is_open reports has its body and all its
\* decorations, and one that it does not report has none of them.
ObjectsOfOpen ==
  alive = UNION {{Body(w)} \cup Decos(w) :
                   w \in {v \in ToSet(listed) : ~win[v].closed}}

\* Unless malloc fails at creation or a decoration cannot be attached, the
\* driver never uses memory that is NULL or freed, but for the flush of a
\* closed window (see FlushSkipsClosed).
Survives == crash \in {"none", "stale_buffer"}

\* The requests of an open window that flush_pending was set for are sent, or
\* flush_pending is still set, whatever other windows do.
StaysFlagged == \A w \in flagged : Open(w) => win[w].flushPending

\* They are sent at last, or the window closes.
FlaggedSent ==
  \A w \in Windows :
    w \in flagged ~> (w \notin flagged \/ ~Open(w) \/ ~Running)

\* A window that is to be closed is closed at last, unless its close_cb refuses.
CloseHonoured ==
  \A w \in Windows :
    (Open(w) /\ win[w].shallClose)
      ~> (~win[w].shallClose \/ ~Open(w) \/ ~Running)

\* A window that is to be resized is resized at last, or closes.
ResizeHonoured ==
  \A w \in Windows :
    (Open(w) /\ win[w].resizePending)
      ~> (~win[w].resizePending \/ ~Open(w) \/ ~Running)

\* lv_wayland_timer_handler: "Set 'errno' if a Wayland flush is outstanding
\* (i.e. data still needs to be sent to the compositor ...)".  A call whose flush
\* fails has errno from wl_display_flush; one that tries no flush sets it only
\* for a window with flush_pending.
OutstandingReported ==
  Ending /\ ~shallFlush /\ refused =>
    \E w \in ToSet(listed) : win[w].flushPending

\* _lv_wayland_flush: "If window has been / is being closed, or is not
\* visible, skip flush".
FlushSkipsClosed == crash # "stale_buffer"

============================================================================
