------------------------------- MODULE SdlDrv -------------------------------
(***************************************************************************)
(* The SDL driver (sdl/sdl.c, sdl/sdl_common.c): the keyboard's buffer,    *)
(* the mouse and the wheel, and the windows of one or two displays.        *)
(*                                                                         *)
(* Everything runs in LVGL's thread: sdl_event_handler is a timer, the     *)
(* reads and flushes are callbacks, and their order is any.  LVGL takes a  *)
(* report of a pressed key for a new key only when the report before was   *)
(* of a released one, and reads again while continue_reading is set.       *)
(***************************************************************************)
EXTENDS Integers, Sequences, SequencesExt, FiniteSets

CONSTANTS
  Controls,    \* keys that keycode_to_ctrl_key knows
  Texts,       \* what a text input event may carry: the bytes of its UTF-8
  CharSigned,  \* char is a signed type
  BufferSize,  \* KEYBOARD_BUFFER_SIZE
  Wheel,       \* what a wheel event may tell
  Tiles,       \* the areas of a display
  OffScreen,   \* those of them that lie beyond its physical resolution
  SdlTypedBound \* bounds what is typed

ASSUME SdlAssumption ==
  /\ BufferSize \in Nat \ {0, 1}
  /\ Controls \subseteq 1 .. 255 /\ \A t \in Texts : t \in Seq(1 .. 255) /\ t # <<>>
  /\ CharSigned \in BOOLEAN /\ OffScreen \subseteq Tiles
  /\ Wheel \subseteq Int
  /\ SdlTypedBound \in Nat

Monitors == 1 .. 2

VARIABLES
  dual, double, \* SDL_DUAL_DISPLAY and SDL_DOUBLE_BUFFERED
  buf,          \* the bytes in buf
  dummy,        \* sdl_keyboard_read's dummy_read
  more,         \* continue_reading was set: LVGL reads before it does anything else
  wasPressed,   \* LVGL's last report of a key was of a pressed one
  accepted,     \* history: the bytes that found room in buf
  typed,        \* history: what LVGL took for new keys, as signed numbers
  down,         \* what the user holds: "left", "middle", "finger"
  left, middle, \* left_button_down, and wheel_state is pressed
  wheelDiff,    \* wheel_diff
  drawn,        \* drawn[m]: the areas that tft_fb, or tft_fb_act, has
  shown,        \* shown[m]: those of them that the window shows as they are
  refr,         \* refr[m]: sdl_refr_qry
  rest,         \* rest[m]: the areas LVGL has yet to flush in this frame
  outside,      \* outside[m]: history: the last area that was flushed is off the screen
  quit          \* sdl_quit_qry

sdlKeyVars    == <<buf, dummy, more, wasPressed, accepted, typed>>
sdlMouseVars  == <<down, left, middle, wheelDiff>>
sdlScreenVars == <<drawn, shown, refr, rest, outside>>
sdlVars == <<dual, double, sdlKeyVars, sdlMouseVars, sdlScreenVars, quit>>

Used == IF dual THEN Monitors ELSE {1}

----------------------------------------------------------------------------
(* The keyboard *)

\* keyboard_handler appends what there is room for, or nothing.
Accept(cs, fits) ==
  /\ ~more /\ Len(accepted) < SdlTypedBound
  /\ IF fits THEN buf' = buf \o cs /\ accepted' = accepted \o cs
             ELSE UNCHANGED <<buf, accepted>>
  /\ UNCHANGED <<dual, double, dummy, more, wasPressed, typed, sdlMouseVars,
                 sdlScreenVars, quit>>

SdlKeyDown(c) == Accept(<<c>>, Len(buf) < BufferSize - 1)
SdlTextInput(t) == Accept(t, Len(buf) + Len(t) < BufferSize - 1)

\* What LVGL makes of a report.
Report(pressed, c) ==
  /\ wasPressed' = pressed
  /\ typed' = IF pressed /\ ~wasPressed THEN Append(typed, c) ELSE typed

\* A char as a uint32_t, and that as a signed number: the bytes of a character that is
\* not ASCII are negative.
Widened(b) == IF CharSigned /\ b > 127 THEN b - 256 ELSE b

\* Mutant of SdlKeyboardRead: no release is sent between the keys.
SdlKeyboardReadOn ==
  /\ IF buf # <<>>
       THEN /\ Report(TRUE, Widened(Head(buf))) /\ buf' = Tail(buf)
            /\ more' = TRUE /\ UNCHANGED dummy
       ELSE /\ Report(FALSE, 0) /\ more' = FALSE /\ UNCHANGED <<buf, dummy>>
  /\ UNCHANGED <<dual, double, accepted, sdlMouseVars, sdlScreenVars, quit>>

\* sdl_keyboard_read: every byte is pressed and then released, a key of its own.
SdlKeyboardRead ==
  /\ \/ /\ dummy
        /\ dummy' = FALSE /\ Report(FALSE, 0)
        /\ more' = (buf # <<>>) /\ UNCHANGED buf
     \/ /\ ~dummy /\ buf # <<>>
        /\ dummy' = TRUE /\ Report(TRUE, Widened(Head(buf)))
        /\ buf' = Tail(buf) /\ more' = TRUE
     \/ /\ ~dummy /\ buf = <<>>
        /\ Report(FALSE, 0) /\ more' = FALSE /\ UNCHANGED <<dummy, buf>>
  /\ UNCHANGED <<dual, double, accepted, sdlMouseVars, sdlScreenVars, quit>>

----------------------------------------------------------------------------
(* The mouse and the wheel *)

\* mouse_handler and mousewheel_handler: a finger is a left button.
SdlButton(b) ==
  /\ ~more
  /\ down' = IF b \in down THEN down \ {b} ELSE down \cup {b}
  /\ left' = IF b \in {"left", "finger"} THEN b \notin down ELSE left
  /\ middle' = IF b = "middle" THEN b \notin down ELSE middle
  /\ UNCHANGED <<dual, double, sdlKeyVars, wheelDiff, sdlScreenVars, quit>>

\* A turn of the wheel replaces one that was not read.
SdlWheel(y) ==
  /\ ~more
  /\ wheelDiff' = -y
  /\ UNCHANGED <<dual, double, sdlKeyVars, down, left, middle, sdlScreenVars, quit>>

\* sdl_mousewheel_read.
SdlWheelRead ==
  /\ ~more /\ wheelDiff # 0
  /\ wheelDiff' = 0
  /\ UNCHANGED <<dual, double, sdlKeyVars, down, left, middle, sdlScreenVars, quit>>

----------------------------------------------------------------------------
(* The windows *)

\* window_update, of the windows ms, from the buffers bs: nothing, before there is
\* a buffer.
Update(ms, bs) ==
  shown' = [m \in Monitors |-> IF m \in ms THEN bs[m] ELSE shown[m] \cap bs[m]]

\* LVGL begins a frame of display m: the whole of it, the first time.
SdlFrame(m, S) ==
  /\ ~more /\ m \in Used /\ rest[m] = {}
  /\ S # {} /\ (drawn[m] = {} => S = Tiles)
  /\ rest' = [rest EXCEPT ![m] = S]
  /\ UNCHANGED <<dual, double, sdlKeyVars, sdlMouseVars, drawn, shown, refr,
                 outside, quit>>

\* Mutant of Refreshes: only the first display refreshes the windows.
RefreshesFirst(m, a) == rest[m] = {a} /\ m = 1

\* sdl_display_flush refreshes the windows with the last area, and so does
\* sdl_display_flush2, unless it is double-buffered.
Refreshes(m, a) == rest[m] = {a} /\ ~(double /\ m = 2)

\* sdl_display_flush, or flush2, of area a, drawn anew: it is in the buffer and not
\* yet in the window.  monitor_sdl_refr updates the windows that asked for it.  Of an
\* area off the screen nothing is done, though it be the last.
SdlFlush(m, a) ==
  LET asked == [refr EXCEPT ![m] = TRUE]
      stale == [shown EXCEPT ![m] = @ \ {a}]
  IN  /\ ~more /\ a \in rest[m]
      /\ rest' = [rest EXCEPT ![m] = @ \ {a}]
      /\ outside' = [outside EXCEPT ![m] = a \in OffScreen]
      /\ IF a \in OffScreen THEN UNCHANGED <<drawn, shown, refr>>
         ELSE /\ drawn' = [drawn EXCEPT ![m] = @ \cup {a}]
              /\ IF Refreshes(m, a)
                   THEN /\ shown' = [n \in Monitors |-> IF asked[n] /\ n \in Used
                                                          THEN drawn'[n] ELSE stale[n]]
                        /\ refr' = [n \in Monitors |-> asked[n] /\ n \notin Used]
                   ELSE shown' = stale /\ refr' = asked
      /\ UNCHANGED <<dual, double, sdlKeyVars, sdlMouseVars, quit>>

\* An expose event updates every window.
SdlExposed ==
  /\ ~more
  /\ Update(Used, drawn)
  /\ UNCHANGED <<dual, double, sdlKeyVars, sdlMouseVars, drawn, refr, rest, outside,
                 quit>>

\* quit_filter, and sdl_event_handler, which cleans up and exits.
SdlQuit ==
  /\ ~more
  /\ quit' = TRUE
  /\ UNCHANGED <<dual, double, sdlKeyVars, sdlMouseVars, sdlScreenVars>>

----------------------------------------------------------------------------

SdlInit ==
  /\ dual \in BOOLEAN /\ double \in BOOLEAN
  /\ buf = <<>> /\ dummy = FALSE /\ more = FALSE /\ wasPressed = FALSE
  /\ accepted = <<>> /\ typed = <<>>
  /\ down = {} /\ left = FALSE /\ middle = FALSE /\ wheelDiff = 0
  /\ drawn = [m \in Monitors |-> {}] /\ shown = [m \in Monitors |-> {}]
  /\ refr = [m \in Monitors |-> m \in Used] /\ rest = [m \in Monitors |-> {}]
  /\ outside = [m \in Monitors |-> FALSE] /\ quit = FALSE

SdlInput ==
  \/ \E c \in Controls : SdlKeyDown(c)
  \/ \E t \in Texts : SdlTextInput(t)
  \/ SdlKeyboardRead
  \/ \E b \in {"left", "middle", "finger"} : SdlButton(b)
  \/ \E y \in Wheel : SdlWheel(y)
  \/ SdlWheelRead

SdlScreen ==
  \/ \E m \in Monitors : \/ \E S \in SUBSET Tiles : SdlFrame(m, S)
                         \/ \E a \in Tiles : SdlFlush(m, a)
  \/ SdlExposed

\* The keyboard and mouse, and the windows, share nothing but the end.
SdlInputNext == ~quit /\ (SdlInput \/ SdlQuit)
SdlScreenNext == ~quit /\ (SdlScreen \/ SdlQuit)

SdlNext == SdlInputNext \/ SdlScreenNext

SdlSpec == SdlInit /\ [][SdlNext]_sdlVars

----------------------------------------------------------------------------
(* Properties *)

\* The type invariant.
SdlTypeOK ==
  /\ {dual, double, dummy, more, wasPressed, left, middle, quit} \subseteq BOOLEAN
  /\ Len(buf) <= BufferSize - 1 /\ Len(typed) <= Len(accepted)
  /\ down \subseteq {"left", "middle", "finger"} /\ wheelDiff \in Int
  /\ {drawn, shown, rest} \subseteq [Monitors -> SUBSET Tiles]
  /\ {refr, outside} \subseteq [Monitors -> BOOLEAN]

\* Every byte that found room in the buffer is a new key for LVGL, once and in order,
\* however the events and the reads alternate and however full the buffer is, and
\* between its reads no key is pressed.  A key of ASCII is that byte itself; of the
\* bytes of any other character each is a key, and none is the character.
TypedInOrder ==
  /\ accepted = [i \in DOMAIN typed |-> typed[i] % 256] \o buf
  /\ \A i \in DOMAIN typed : accepted[i] < 128 => typed[i] = accepted[i]
  /\ ~more => ~wasPressed

\* When LVGL has drawn a frame the window shows what was drawn to the screen, now and
\* before, though the windows are exposed in the middle of it.  Not so a second display
\* that is double-buffered, nor when the last area of the frame is off the screen: then
\* the window may wait for the next refresh, which it has asked for.
SdlShows ==
  \A m \in Used : rest[m] = {} =>
    shown[m] = drawn[m] \/ (refr[m] /\ (outside[m] \/ (double /\ m = 2)))

============================================================================
