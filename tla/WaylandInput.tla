---------------------------- MODULE WaylandInput ----------------------------
(***************************************************************************)
(* Input in the Wayland driver (wayland/wayland.c): what the pointer, the  *)
(* touch screen and the keyboard do to the windows of WaylandWindow, and   *)
(* what LVGL's input devices read of it.                                   *)
(*                                                                         *)
(* The handlers of one device touch no state of another, so a behaviour    *)
(* has one `device`, chosen at the start.  `within` and `held` are the     *)
(* compositor's side: the surface the device is at, which it may not yet   *)
(* know to be destroyed, and what the user holds down.  A touch screen is  *)
(* at a surface with each finger (`spot`); the driver has one touch_obj    *)
(* for all of them.  Positions, and the shape of the cursor, are left out. *)
(*                                                                         *)
(* Of WaylandWindow, the steps are taken that open, close and flush        *)
(* windows; configure events, frames and full screen share nothing with    *)
(* input but flush_pending.                                                *)
(***************************************************************************)
EXTENDS WaylandWindow

CONSTANTS
  Devices,   \* a subset of {"pointer", "touch", "keyboard"}
  Buttons,   \* the pointer's buttons, of which "left" works decorations
  Fingers,   \* the ids of the touch screen's touches
  Codes,     \* the keyboard's keys
  Levels,    \* states of its modifiers, 0 without any
  Sym,       \* Sym[c][l]: what key c stands for at level l
  Known,     \* the symbols keycode_xkb_to_lv knows
  DiffBound  \* bounds what is read of the wheel

ASSUME InputAssumption ==
  /\ Devices \subseteq {"pointer", "touch", "keyboard"}
  /\ 0 \in Levels
  /\ Sym \in [Codes -> [Levels -> STRING]]
  /\ DiffBound \in Nat

VARIABLES
  device,   \* the device of this behaviour
  present,  \* seat.wl_pointer, wl_touch or wl_keyboard is not NULL
  focus,    \* application.pointer_obj, touch_obj or keyboard_obj
  pressed,  \* pressed[w]: the buttons, finger or key its body has as pressed
  diff,     \* diff[w]: its body's wheel_diff
  maximized,\* the windows with maximized set
  keymap,   \* seat.xkb has a keymap and a state
  level,    \* the modifiers of that state
  within,   \* where the compositor has the device
  held,     \* what the user holds down, Finger while any is on the screen
  spot,     \* spot[f]: the surface that finger f went down on, NoObject if up
  mixed,    \* a second finger went down since none was on the screen
  unheard   \* <<w, b>>: the release of b, pressed in w, never came, meant nothing,
            \* or was taken for that of another finger

touchVars == <<spot, mixed>>
compositorVars == <<within, held, touchVars>>
inputVars == <<device, present, focus, pressed, diff, maximized, keymap, level,
               compositorVars, unheard>>

\* A pointer to a graphic object that is NULL.
NoObject == <<>>

\* The windows are not touched by an event.
KeepWindows == UNCHANGED windowVars

IsBody(o) == o # NoObject /\ o[2] = "body"

\* Surfaces the compositor knows of: destroyed ones are NULL to a handler.
Surfaces == UNION {{Body(w)} \cup Decos(w) : w \in ToSet(listed)}

\* wl_surface_get_user_data, of a surface that may have been destroyed.
UserData(o) == IF o \in alive THEN o ELSE NoObject

\* A handler that uses the focus finds it freed.
FocusFreed == focus # NoObject /\ focus \notin alive

Event(d) == stage = "app" /\ device = d /\ present

----------------------------------------------------------------------------
(* What a press on, or a release from, a decoration does *)

Borders == {"top", "bottom", "left", "right"}

\* pointer_handle_button has a request sent for the window ...
PointerSends(d, press, max) ==
  \/ d = "titlebar" /\ press
  \/ d \in {"maximize", "minimize"} /\ ~press
  \/ d \in Borders /\ press /\ ~max

\* ... and touch_handle_down and touch_handle_up do, though not to maximize.
TouchSends(d, press) ==
  \/ d = "titlebar" /\ press
  \/ d = "minimize" /\ ~press

\* The effect on window w of pressing or releasing its decoration d.
Decoration(w, d, press, sends) ==
  /\ win' = [win EXCEPT
       ![w].shallClose = @ \/ (d = "close" /\ ~press),
       ![w].flushPending = @ \/ sends]
  /\ flagged' = IF sends THEN flagged \cup {w} ELSE flagged
  /\ maximized' = IF d = "maximize" /\ ~press
                    THEN IF w \in maximized THEN maximized \ {w}
                                            ELSE maximized \cup {w}
                    ELSE maximized
  /\ UNCHANGED <<listed, sizeVars, objectVars, refused, cursorFlush, cycleVars,
                 crash>>

\* A handler reads a freed decoration.
UseFreed ==
  /\ crash' = "stale_focus"
  /\ UNCHANGED <<listed, win, sizeVars, objectVars, sendVars, cycleVars,
                 pressed, focus, maximized, unheard>>

Pressed(w, b, press) ==
  /\ pressed' = [pressed EXCEPT ![w] = IF press THEN @ \cup {b} ELSE @ \ {b}]
  /\ unheard' = unheard \ {<<w, b>>}

\* The releases of bs go unheard where they were pressed.
Unheard(bs) ==
  unheard' = unheard \cup {x \in Windows \X bs : x[2] \in pressed[x[1]]}

----------------------------------------------------------------------------
(* Pointer *)

\* pointer_handle_enter, for a surface that may be destroyed already.
PointerEnter(o) ==
  /\ Event("pointer") /\ within = NoObject
  /\ o \in Surfaces
  /\ within' = o
  /\ focus' = UserData(o)
  /\ IF o \in alive /\ Decorations # {} THEN SetCursor(o[1]) ELSE KeepWindows
  /\ UNCHANGED <<device, present, pressed, diff, maximized, keymap, level, held,
                 unheard, touchVars>>

\* pointer_handle_leave and keyboard_handle_leave.
Left == IF UserData(within) \in {NoObject, focus} THEN NoObject ELSE focus

\* A body keeps the pointer while a button is held, unless it is destroyed; a
\* decoration loses it to the move or resize that a press asks for.
PointerLeave ==
  /\ Event("pointer") /\ within # NoObject
  /\ held = {} \/ ~IsBody(within) \/ within \notin alive
  /\ within' = NoObject
  /\ focus' = Left
  /\ KeepWindows
  /\ UNCHANGED <<device, present, pressed, diff, maximized, keymap, level, held,
                 unheard, touchVars>>

\* The compositor takes the pointer away (a screen lock, a grab) and tells
\* nothing of the buttons held.
PointerTaken ==
  /\ Event("pointer") /\ within # NoObject /\ held # {}
  /\ within' = NoObject /\ held' = {}
  /\ focus' = Left
  /\ Unheard(held)
  /\ KeepWindows
  /\ UNCHANGED <<device, present, pressed, diff, maximized, keymap, level, touchVars>>

Toggle(b) == held' = IF b \in held THEN held \ {b} ELSE held \cup {b}

\* pointer_handle_button.
PointerButton(b) ==
  LET press == b \notin held
  IN  /\ Event("pointer") /\ within # NoObject
      /\ Toggle(b)
      /\ \/ /\ focus = NoObject
            /\ KeepWindows /\ UNCHANGED <<pressed, maximized, unheard>>
         \/ FocusFreed /\ UseFreed
         \/ /\ focus \in alive /\ IsBody(focus)
            /\ Pressed(focus[1], b, press)
            /\ KeepWindows /\ UNCHANGED maximized
         \/ /\ focus \in alive /\ ~IsBody(focus)
            /\ LET w == focus[1]  d == focus[2]
               IN  IF b = "left"
                     THEN Decoration(w, d, press,
                                     PointerSends(d, press, w \in maximized))
                     ELSE KeepWindows /\ UNCHANGED maximized
            /\ UNCHANGED <<pressed, unheard>>
      /\ UNCHANGED <<device, present, focus, diff, keymap, level, within, touchVars>>

\* A button that was pressed on a decoration or a destroyed window is released
\* where the driver has no surface.
ReleaseElsewhere(b) ==
  /\ stage = "app" /\ device = "pointer"
  /\ within = NoObject /\ b \in held
  /\ Toggle(b)
  /\ KeepWindows
  /\ UNCHANGED <<device, present, focus, pressed, diff, maximized, keymap,
                 level, within, unheard, touchVars>>

\* pointer_handle_axis.
PointerAxis(by) ==
  /\ Event("pointer") /\ within # NoObject
  /\ \/ FocusFreed /\ UseFreed /\ UNCHANGED diff
     \/ /\ focus \in alive /\ IsBody(focus)
        /\ UNCHANGED unheard
        /\ diff[focus[1]] + by \in (-DiffBound) .. DiffBound
        /\ diff' = [diff EXCEPT ![focus[1]] = @ + by]
        /\ KeepWindows /\ UNCHANGED <<pressed, focus, maximized>>
  /\ UNCHANGED <<device, present, keymap, level, compositorVars>>

\* _lv_wayland_pointeraxis_read.
ReadAxis(w) ==
  /\ stage = "app" /\ device = "pointer" /\ Open(w)
  /\ diff[w] # 0
  /\ diff' = [diff EXCEPT ![w] = 0]
  /\ KeepWindows
  /\ UNCHANGED <<device, present, focus, pressed, maximized, keymap, level,
                 compositorVars, unheard>>

----------------------------------------------------------------------------
(* Touch screen: the handlers ignore which finger it is *)

\* What the body of a window has of all fingers: input.touch.state.
Finger == "finger"

\* touch_handle_down.
TouchDown(f, o) ==
  /\ Event("touch") /\ spot[f] = NoObject
  /\ o \in Surfaces
  /\ spot' = [spot EXCEPT ![f] = o] /\ mixed' = (held # {})
  /\ held' = {Finger} /\ within' = o
  /\ focus' = UserData(o)
  /\ IF o \in alive
       THEN /\ IF IsBody(o) THEN Pressed(o[1], Finger, TRUE)
                            ELSE UNCHANGED <<pressed, unheard>>
            /\ Decoration(o[1], o[2], TRUE, TouchSends(o[2], TRUE))
       ELSE KeepWindows /\ UNCHANGED <<pressed, maximized, unheard>>
  /\ UNCHANGED <<device, present, diff, keymap, level>>

\* Finger f leaves the screen.
Lift(f) ==
  /\ spot' = [spot EXCEPT ![f] = NoObject]
  /\ held' = IF \A g \in Fingers \ {f} : spot[g] = NoObject THEN {} ELSE held
  /\ within' = IF held' = {} THEN NoObject ELSE within
  /\ mixed' = (mixed /\ held' # {})

\* Among several fingers, the last that leaves a body that reports a touch: its
\* lift is taken for that of the finger that went down last, or for none.
Mistaken(f) ==
  {<<w, Finger>> : w \in {v \in Windows :
     /\ mixed /\ Finger \in pressed[v]
     /\ spot[f] = Body(v) /\ \A g \in Fingers \ {f} : spot[g] # Body(v)}}

\* touch_handle_up: whichever finger it is, what went down last is released,
\* and with no touch_obj nothing is.
TouchUp(f) ==
  /\ Event("touch") /\ spot[f] # NoObject
  /\ \/ FocusFreed /\ UseFreed /\ UNCHANGED compositorVars
     \/ /\ ~FocusFreed
        /\ Lift(f)
        /\ pressed' = [w \in Windows |->
                         IF focus = Body(w) THEN pressed[w] \ {Finger} ELSE pressed[w]]
        /\ unheard' = {x \in unheard \cup Mistaken(f) : focus # Body(x[1])}
        /\ focus' = NoObject
        /\ IF focus = NoObject
             THEN KeepWindows /\ UNCHANGED maximized
             ELSE Decoration(focus[1], focus[2], FALSE, TouchSends(focus[2], FALSE))
  /\ UNCHANGED <<device, present, diff, keymap, level>>

NoFingers == spot' = [f \in Fingers |-> NoObject] /\ mixed' = FALSE

\* touch_handle_cancel does nothing.
TouchCancel ==
  /\ Event("touch") /\ held # {}
  /\ held' = {} /\ within' = NoObject /\ NoFingers
  /\ Unheard(held)
  /\ KeepWindows
  /\ UNCHANGED <<device, present, focus, pressed, diff, maximized, keymap, level>>

----------------------------------------------------------------------------
(* Keyboard *)

\* keyboard_handle_keymap: one that cannot be had leaves the former.
Keymap ==
  /\ Event("keyboard") /\ ~keymap
  /\ keymap' = TRUE
  /\ KeepWindows
  /\ UNCHANGED <<device, present, focus, pressed, diff, maximized, level,
                 compositorVars, unheard>>

\* Mutant of Modifiers: without a keymap.
ModifiersUnmapped(l) ==
  /\ Event("keyboard")
  /\ level # l
  /\ level' = l
  /\ KeepWindows
  /\ UNCHANGED <<device, present, focus, pressed, diff, maximized, keymap,
                 compositorVars, unheard>>

\* keyboard_handle_modifiers.
Modifiers(l) ==
  /\ Event("keyboard") /\ keymap
  /\ level # l
  /\ level' = l
  /\ KeepWindows
  /\ UNCHANGED <<device, present, focus, pressed, diff, maximized, keymap,
                 compositorVars, unheard>>

\* keyboard_handle_enter: keys held then are not told of.
KeyboardEnter(w) ==
  /\ Event("keyboard") /\ within = NoObject
  /\ Body(w) \in Surfaces
  /\ within' = Body(w)
  /\ focus' = UserData(Body(w))
  /\ KeepWindows
  /\ UNCHANGED <<device, present, pressed, diff, maximized, keymap, level, held,
                 unheard, touchVars>>

\* keyboard_handle_leave: the key that is pressed stays so.
KeyboardLeave ==
  /\ Event("keyboard") /\ within # NoObject
  /\ within' = NoObject /\ held' = {}
  /\ focus' = Left
  /\ Unheard(held)
  /\ KeepWindows
  /\ UNCHANGED <<device, present, pressed, diff, maximized, keymap, level, touchVars>>

\* keycode_xkb_to_lv, of what key c stands for now, is not zero.
Means(c) == Sym[c][level] \in Known

\* keyboard_handle_key: the last key pressed or released is the window's key.
KeyboardKey(c) ==
  LET press == c \notin held
      w == focus[1]
  IN  /\ Event("keyboard") /\ within # NoObject
      /\ Toggle(c)
      /\ IF focus # NoObject /\ keymap /\ Means(c)
           THEN /\ pressed' = [pressed EXCEPT ![w] = IF press THEN {c} ELSE {}]
                /\ unheard' = unheard \ ({w} \X Codes)
           ELSE /\ UNCHANGED pressed
                /\ IF press THEN UNCHANGED unheard ELSE Unheard({c})
      /\ KeepWindows
      /\ UNCHANGED <<device, present, focus, diff, maximized, keymap, level,
                     within, touchVars>>

----------------------------------------------------------------------------
(* The seat, and the windows *)

\* pointer_handle_motion and touch_handle_motion store a position, in what the focus
\* points to.
Motion ==
  /\ stage = "app" /\ device \in {"pointer", "touch"} /\ present
  /\ within # NoObject
  /\ FocusFreed /\ UseFreed
  /\ UNCHANGED <<device, present, diff, keymap, level, compositorVars>>

\* seat_handle_capabilities gains the device ...
Plug ==
  /\ stage = "app" /\ ~present
  /\ present' = TRUE
  /\ KeepWindows
  /\ UNCHANGED <<device, focus, pressed, diff, maximized, keymap, level,
                 compositorVars, unheard>>

\* ... or loses it, with what was held and where it was.
Unplug ==
  /\ stage = "app" /\ present
  /\ present' = FALSE
  /\ within' = NoObject /\ held' = {} /\ NoFingers
  /\ Unheard(held)
  /\ KeepWindows
  /\ UNCHANGED <<device, focus, pressed, diff, maximized, keymap, level>>

\* Mutants of Forget: the focus stays at the body; any focus is dropped;
\* buttons stay pressed.
ForgetFocusLess(w) ==
  /\ UNCHANGED focus
  /\ pressed' = [pressed EXCEPT ![w] = {}]
  /\ diff' = [diff EXCEPT ![w] = 0]

ForgetFocusMore(w) ==
  /\ focus' = NoObject
  /\ pressed' = [pressed EXCEPT ![w] = {}]
  /\ diff' = [diff EXCEPT ![w] = 0]

ForgetNoRelease(w) ==
  /\ focus' = IF focus = Body(w) THEN NoObject ELSE focus
  /\ UNCHANGED pressed
  /\ diff' = [diff EXCEPT ![w] = 0]

\* What _lv_wayland_handle_output does to the input of a window it closes: of
\* the objects that are destroyed only the body ceases to be the focus.
Forget(w) ==
  /\ focus' = IF focus = Body(w) THEN NoObject ELSE focus
  /\ pressed' = [pressed EXCEPT ![w] = {}]
  /\ diff' = [diff EXCEPT ![w] = 0]

CloseWithInput ==
  /\ CloseNow
  /\ Forget(This)
  /\ unheard' = {x \in unheard : x[1] # This}
  /\ UNCHANGED <<device, present, maximized, keymap, level, compositorVars>>

InputInit ==
  /\ WindowInit
  /\ device \in Devices
  /\ present = FALSE
  /\ focus = NoObject /\ within = NoObject
  /\ pressed = [w \in Windows |-> {}]
  /\ diff = [w \in Windows |-> 0]
  /\ maximized = {}
  /\ keymap = FALSE /\ level = 0
  /\ held = {} /\ unheard = {}
  /\ spot = [f \in Fingers |-> NoObject] /\ mixed = FALSE

WindowStep ==
  /\ \/ \E w \in Windows : \/ \E sz \in Sizes[w] : CreateWindow(w, sz)
                           \/ CloseWindow(w) \/ ToplevelClose(w)
     \/ BeginOutput \/ AskClose \/ \E yes \in BOOLEAN : AnswerClose(yes)
     \/ PassClosed \/ PassOpen \/ NoFlush \/ FlushSent
  /\ UNCHANGED inputVars

SeatStep ==
  \/ \E o \in Objects : PointerEnter(o) \/ \E f \in Fingers : TouchDown(f, o)
  \/ PointerLeave \/ PointerTaken \/ TouchCancel
  \/ \E f \in Fingers : TouchUp(f)
  \/ \E b \in Buttons : PointerButton(b) \/ ReleaseElsewhere(b)
  \/ PointerAxis(1) \/ PointerAxis(-1) \/ Motion
  \/ \E w \in Windows : ReadAxis(w) \/ KeyboardEnter(w)
  \/ Keymap \/ \E l \in Levels : Modifiers(l)
  \/ KeyboardLeave \/ \E c \in Codes : KeyboardKey(c)
  \/ Plug \/ Unplug

InputNext == Running /\ (WindowStep \/ CloseWithInput \/ SeatStep)

InputSpec == InputInit /\ [][InputNext]_<<windowVars, inputVars>>

----------------------------------------------------------------------------
(* Properties *)

Controls == Buttons \cup {Finger} \cup Codes

\* The type invariant, that of the windows included.  Without a keymap there are no
\* modifiers.
InputTypeOK ==
  /\ WindowTypeOK
  /\ device \in Devices /\ present \in BOOLEAN
  /\ focus \in Objects \cup {NoObject} /\ within \in Objects \cup {NoObject}
  /\ pressed \in [Windows -> SUBSET Controls] /\ held \subseteq Controls
  /\ diff \in [Windows -> (-DiffBound) .. DiffBound]
  /\ maximized \subseteq Windows
  /\ keymap \in BOOLEAN /\ level \in Levels
  /\ ~keymap => level = 0
  /\ unheard \subseteq Windows \X Controls
  /\ spot \in [Fingers -> Objects \cup {NoObject}] /\ mixed \in BOOLEAN

\* The focus is an object that exists, or a decoration of a closed window: the
\* pointers to the body are cleared when the window closes, but pointer_obj and
\* touch_obj may be left pointing to a freed decoration.
FocusExists ==
  focus # NoObject =>
    focus \in alive \/ (~IsBody(focus) /\ win[focus[1]].closed)

\* An event that names no surface goes to the surface that the compositor means:
\* of the windows that come and go, closing one takes no other's focus.  With
\* several fingers on the screen the compositor means one of their surfaces, by
\* an id that the driver ignores: then the event goes to the one that was touched
\* last or, after the first of them was lifted, nowhere.
FocusTracks ==
  within \in alive => focus = within \/ (mixed /\ focus = NoObject)

\* b is held down over the body of window w.
HeldOver(w, b) ==
  /\ b \in held
  /\ IF device = "touch" THEN \E f \in Fingers : spot[f] = Body(w)
                         ELSE within = Body(w)

\* What a window has as pressed is held down over it: no button, finger or key
\* stays pressed in one that the device has left, and a closed window has none.
\* Left out (`unheard`) is a press whose release did not come, because the
\* compositor took the pointer or the keyboard away, cancelled the touch or
\* withdrew the device; a key that means nothing when it is released; and, with
\* several fingers, the window of one that is lifted while touch_obj is another's or
\* NULL.  In each of these cases it does stay pressed.
PressedIsHeld ==
  \A w \in Windows : \A b \in pressed[w] :
    Open(w) /\ (HeldOver(w, b) \/ <<w, b>> \in unheard)

============================================================================
