------------------------------- MODULE X11Drv -------------------------------
(***************************************************************************)
(* The X11 driver (x11/x11.c): an image that LVGL draws in, the part of it *)
(* that is put in the window, and the keys, buttons and wheel.             *)
(*                                                                         *)
(* Everything runs in LVGL's thread.  lv_coord_t has 16 bits, or 32 where  *)
(* LVGL is built for large screens: `large` says which.  Xlib clips the    *)
(* source of XPutImage, but not its target.                                *)
(***************************************************************************)
EXTENDS Integers, Sequences, SequencesExt, FiniteSets

CONSTANTS
  Width, Height, \* of the window
  Strings,       \* what XLookupString may return, sequences of characters
  TurnBound      \* bounds the turns of the wheel

ASSUME X11Assumption ==
  /\ Width \in Nat \ {0} /\ Height \in Nat \ {0}
  /\ \A t \in Strings : t \in Seq(STRING)
  /\ TurnBound \in Nat

VARIABLES
  large,     \* LV_USE_LARGE_COORD
  kbBuffer,  \* kb_buffer
  again,     \* continue_reading was set
  pressing,  \* LVGL's last report of a key was of a pressed one
  buttons,   \* left_mouse_btn, wheel_mouse_btn and right_mouse_btn, where true
  wheelCnt,  \* wheel_cnt
  turned, scrolled, \* history: what the wheel was turned, and what LVGL was told
  update,    \* upd_area, <<x1, y1, x2, y2>>
  behind,    \* the pixels of the image that the window does not show
  inFrame,   \* LVGL is in the middle of a frame
  deinit     \* lv_x11_deinit has been called

x11KeyVars   == <<kbBuffer, again, pressing>>
x11MouseVars == <<buttons, wheelCnt, turned, scrolled>>
x11ScreenVars == <<update, behind, inFrame>>
x11Vars == <<large, x11KeyVars, x11MouseVars, x11ScreenVars, deinit>>

----------------------------------------------------------------------------
(* x11_event_handler, and what LVGL reads *)

\* A key replaces those of one before that were not read.
KeyPress(t) ==
  /\ ~again
  /\ kbBuffer' = t
  /\ UNCHANGED <<large, again, pressing, x11MouseVars, x11ScreenVars, deinit>>

\* lv_x11_get_keyboard: characters are told of one after the other, and when there
\* are none the key is released.
GetKeyboard ==
  /\ IF kbBuffer # <<>>
       THEN kbBuffer' = Tail(kbBuffer) /\ again' = TRUE /\ pressing' = TRUE
       ELSE UNCHANGED kbBuffer /\ again' = FALSE /\ pressing' = FALSE
  /\ UNCHANGED <<large, x11MouseVars, x11ScreenVars, deinit>>

Button(b) ==
  /\ ~again
  /\ buttons' = IF b \in buttons THEN buttons \ {b} ELSE buttons \cup {b}
  /\ UNCHANGED <<large, x11KeyVars, wheelCnt, turned, scrolled, x11ScreenVars, deinit>>

\* Mutant of Scrolled: a turn replaces those that were not read.
ScrolledOnce(by) == wheelCnt' = by

\* Buttons 4 and 5 turn the wheel.
Scrolled(by) == wheelCnt' = wheelCnt + by

Scroll(by) ==
  /\ ~again /\ turned + by \in -TurnBound .. TurnBound
  /\ Scrolled(by) /\ turned' = turned + by
  /\ UNCHANGED <<large, x11KeyVars, buttons, scrolled, x11ScreenVars, deinit>>

\* lv_x11_get_mousewheel.
GetMousewheel ==
  /\ ~again /\ wheelCnt # 0
  /\ scrolled' = scrolled + wheelCnt /\ wheelCnt' = 0
  /\ UNCHANGED <<large, x11KeyVars, buttons, turned, x11ScreenVars, deinit>>

----------------------------------------------------------------------------
(* The window *)

Pixels(r) == (r[1] .. r[3]) \X (r[2] .. r[4])
Screen == Pixels(<<0, 0, Width - 1, Height - 1>>)

\* inv_area: 0xFFFF as an lv_coord_t.
InvArea == LET max == IF large THEN 65535 ELSE -1 IN <<max, max, 0, 0>>

Lower(a, b) == IF a < b THEN a ELSE b
Upper(a, b) == IF a > b THEN a ELSE b

\* Mutant of Extend: the smaller corner is forgotten.
ExtendUp(u, r) == <<r[1], r[2], Upper(u[3], r[3]), Upper(u[4], r[4])>>

\* The area that holds u and r.
Extend(u, r) == <<Lower(u[1], r[1]), Lower(u[2], r[2]), Upper(u[3], r[3]), Upper(u[4], r[4])>>

\* What the window does not show after XPutImage of rectangle r, when it did not
\* show S: a negative corner moves the picture.
Put(r, S) == IF r[1] < 0 \/ r[2] < 0 THEN S \cup (Pixels(r) \cap Screen) ELSE S \ Pixels(r)

\* lv_x11_flush of area r, the last of a frame or not.
X11Flush(r, last) ==
  LET u == Extend(update, r)
      stale == behind \cup Pixels(r)
  IN  /\ ~again
      /\ IF last THEN behind' = Put(u, stale) /\ update' = InvArea
                 ELSE behind' = stale /\ update' = u
      /\ inFrame' = ~last
      /\ UNCHANGED <<large, x11KeyVars, x11MouseVars, deinit>>

\* The last of the expose events puts the whole image.
Expose ==
  /\ ~again
  /\ behind' = {}
  /\ UNCHANGED <<large, x11KeyVars, x11MouseVars, update, inFrame, deinit>>

\* lv_x11_deinit.
X11Deinit ==
  /\ ~again /\ deinit' = TRUE
  /\ UNCHANGED <<large, x11KeyVars, x11MouseVars, x11ScreenVars>>

----------------------------------------------------------------------------

X11Init ==
  /\ large \in BOOLEAN
  /\ kbBuffer = <<>> /\ again = FALSE /\ pressing = FALSE
  /\ buttons = {} /\ wheelCnt = 0 /\ turned = 0 /\ scrolled = 0
  /\ update = InvArea /\ behind = {} /\ inFrame = FALSE
  /\ deinit = FALSE

X11Input ==
  \/ \E t \in Strings : KeyPress(t)
  \/ GetKeyboard
  \/ \E b \in {"left", "wheel", "right"} : Button(b)
  \/ \E by \in {-1, 1} : Scroll(by)
  \/ GetMousewheel

X11Screen ==
  \/ \E x1, x2 \in 0 .. Width - 1, y1, y2 \in 0 .. Height - 1, last \in BOOLEAN :
       x1 <= x2 /\ y1 <= y2 /\ X11Flush(<<x1, y1, x2, y2>>, last)
  \/ Expose

\* The keyboard and mouse, and the window, share nothing but the end.
X11InputNext == ~deinit /\ (X11Input \/ X11Deinit)
X11ScreenNext == ~deinit /\ (X11Screen \/ X11Deinit)

X11Next == X11InputNext \/ X11ScreenNext

X11Spec == X11Init /\ [][X11Next]_x11Vars

----------------------------------------------------------------------------
(* Properties *)

\* The type invariant.
X11TypeOK ==
  /\ {large, again, pressing, inFrame, deinit} \subseteq BOOLEAN
  /\ buttons \subseteq {"left", "wheel", "right"}
  /\ wheelCnt \in -(2 * TurnBound) .. 2 * TurnBound
  /\ turned \in Int /\ scrolled \in Int
  /\ update \in Seq(Int) /\ Len(update) = 4
  /\ behind \subseteq Screen

\* No turn of the wheel is lost or told of twice, and LVGL never stops reading with
\* a key pressed.
X11Told ==
  /\ scrolled + wheelCnt = turned
  /\ ~again => ~pressing

\* Between two frames the window shows the pixels that LVGL drew, though only the
\* part of the image that holds the areas of the frame is put there; where
\* lv_coord_t has 16 bits the corner of the empty area is -1, and this fails.
X11Shows == large /\ ~inFrame => behind = {}

============================================================================
