------------------------- MODULE WaylandInputProofs -------------------------
(***************************************************************************)
(* What holds of the input of the Wayland driver, for every set of         *)
(* windows, decorations, devices, buttons, keys and faults.                *)
(*                                                                         *)
(* The invariant ties the driver's focus to where the compositor has the   *)
(* device, and what a window has as pressed to what is held there: a       *)
(* button, a finger or a key whose release is still to come is held over   *)
(* the body of that very window.  Where several fingers are on the screen, *)
(* the driver has the surface of the last one, or none.                    *)
(***************************************************************************)
EXTENDS WaylandInput, WaylandWindowProofs

\* The types of the driver's input, without those of the windows.
InputTypes ==
  /\ device \in Devices /\ present \in BOOLEAN
  /\ focus \in Objects \cup {NoObject} /\ within \in Objects \cup {NoObject}
  /\ pressed \in [Windows -> SUBSET Controls] /\ held \subseteq Controls
  /\ diff \in [Windows -> (-DiffBound) .. DiffBound]
  /\ maximized \subseteq Windows
  /\ keymap \in BOOLEAN /\ level \in Levels
  /\ ~keymap => level = 0
  /\ unheard \subseteq Windows \X Controls
  /\ spot \in [Fingers -> Objects \cup {NoObject}] /\ mixed \in BOOLEAN

\* The focus and the place of the device are on windows that are listed, and
\* the driver has no focus but the place of the device, while it has a place.
FocusListed ==
  /\ focus # NoObject => InList(focus[1])
  /\ within # NoObject => InList(within[1]) /\ focus \in {within, NoObject}

FocusOK == FocusListed /\ FocusExists /\ FocusTracks

\* What a window has as pressed will be heard to be released where it is held,
\* or is known not to be.
PressedOK ==
  /\ \A w \in Windows : \A b \in pressed[w] :
       Open(w) /\ (<<w, b>> \in unheard \/ HeldOver(w, b))
  /\ device = "touch" => /\ held \subseteq {Finger}
                         /\ \A w \in Windows : pressed[w] \subseteq {Finger}
  /\ device = "keyboard" => within = NoObject \/ IsBody(within)

\* A finger that is alone on the screen is where the compositor has the device.
SpotOK ==
  /\ device # "touch" => ~mixed
  /\ device = "touch" =>
       /\ held = {} <=> \A f \in Fingers : spot[f] = NoObject
       /\ \A f, g \in Fingers :
            f # g /\ spot[f] # NoObject /\ spot[g] # NoObject => mixed
       /\ ~mixed => \A f \in Fingers : spot[f] \in {NoObject, within}

InInv == WInv /\ InputTypes /\ FocusOK /\ PressedOK /\ SpotOK

----------------------------------------------------------------------------
(* Objects, and windows that stay *)

LEMMA ObjectPair ==
  /\ NoObject \notin Objects
  /\ \A o \in Objects : /\ o[1] \in Windows
                        /\ IsBody(o) <=> o = Body(o[1])
  /\ \A w \in Windows : /\ Body(w) \in Objects /\ Body(w)[1] = w
                        /\ IsBody(Body(w)) /\ Body(w) # NoObject
<1>1. NoObject \notin Objects
  BY DEF NoObject, Objects
<1>2. ASSUME NEW o \in Objects
      PROVE  o[1] \in Windows /\ (IsBody(o) <=> o = Body(o[1]))
  BY <1>1 DEF Objects, IsBody, Body
<1>3. ASSUME NEW w \in Windows
      PROVE  /\ Body(w) \in Objects /\ Body(w)[1] = w
             /\ IsBody(Body(w)) /\ Body(w) # NoObject
  BY <1>1 DEF Objects, IsBody, Body
<1>4. QED  BY <1>1, <1>2, <1>3

\* No window is opened or closed.
WindowsStay ==
  /\ UNCHANGED <<listed, drawn, alive>>
  /\ \A w \in Windows : win'[w].closed = win[w].closed

LEMMA OpenStays ==
  ASSUME WindowsStay
  PROVE  \A w \in Windows : (InList(w)' <=> InList(w)) /\ (Open(w)' <=> Open(w))
  BY DEF WindowsStay, InList, Open, Registered

LEMMA WindowsUntouched ==
  ASSUME KeepWindows
  PROVE  WindowsStay
  BY DEF KeepWindows, windowVars, sizeVars, objectVars, WindowsStay

\* A surface is of a listed window.
LEMMA SurfaceListed ==
  ASSUME WInv, NEW o \in Surfaces
  PROVE  o \in Objects /\ InList(o[1])
<1>1. PICK w \in ToSet(listed) : o \in {Body(w)} \cup Decos(w)
  BY DEF Surfaces
<1>2. w \in Windows
  BY DEF WInv, WindowTypeOK, ToSet
<1>3. o \in Objects /\ o[1] = w
  BY <1>1, <1>2 DEF Objects, Body, Decos
<1>4. QED  BY <1>3 DEF InList

\* An object that exists is of an open window, and its body exists too.
LEMMA AliveOpen ==
  ASSUME WInv, Running
  PROVE  /\ \A o \in alive : o \in Objects /\ Open(o[1]) /\ InList(o[1])
         /\ \A w \in Windows : Open(w) => Body(w) \in alive
  BY ObjectPair DEF WInv, WindowTypeOK, Furnished, Running, Open, Registered

----------------------------------------------------------------------------
(* The windows during input *)

\* What a decoration does sets flags of a listed window.
LEMMA DecorationKeeps ==
  ASSUME WInv, Running, stage = "app", NEW w \in Windows, InList(w), NEW d,
         NEW press \in BOOLEAN, NEW sends \in BOOLEAN, Decoration(w, d, press, sends)
  PROVE  WInv' /\ WindowsStay
<1>1. /\ win' = [win EXCEPT
           ![w].shallClose = @ \/ (d = "close" /\ ~press),
           ![w].flushPending = @ \/ sends]
      /\ flagged' = IF sends THEN flagged \cup {w} ELSE flagged
      /\ UNCHANGED <<listed, size, asked, drawn, alive, bare, refused, cursorFlush,
                     stage, at, shallFlush, crash>>
  BY DEF Decoration, sizeVars, objectVars, cycleVars
<1>2. FlagTypes /\ CycleOK
  BY TypeParts DEF WInv
<1>3. FlagTypes' /\ CycleOK'
  <2> DEFINE closing == d = "close" /\ ~press
  <2>1. win[w] \in Flags /\ closing \in BOOLEAN
    BY <1>2 DEF FlagTypes
  <2> HIDE DEF closing
  <2>2. /\ win[w].shallClose \/ closing \in BOOLEAN
        /\ win[w].flushPending \/ sends \in BOOLEAN
    BY <2>1 DEF Flags
  <2> DEFINE close == win[w].shallClose \/ closing
             flush == win[w].flushPending \/ sends
  <2>3. win' \in [Windows -> Flags]
    <3>1. win' = [win EXCEPT ![w].shallClose = close, ![w].flushPending = flush]
      BY <1>1, <1>2 DEF closing, FlagTypes, Flags
    <3>2. close \in BOOLEAN /\ flush \in BOOLEAN
      BY <2>2
    <3> HIDE DEF close, flush
    <3>3. /\ DOMAIN win' = Windows /\ \A v \in Windows : v # w => win'[v] = win[v]
          /\ win'[w] = [win[w] EXCEPT !.shallClose = close, !.flushPending = flush]
      BY <1>2, <3>1 DEF FlagTypes, Flags
    <3>4. win'[w] \in Flags
      BY <2>1, <3>2, <3>3 DEF Flags
    <3>5. win' = [v \in Windows |-> win'[v]]
      BY <3>1, <1>2 DEF FlagTypes
    <3>6. QED  BY <1>2, <3>3, <3>4, <3>5 DEF FlagTypes
  <2>4. flagged' \subseteq Windows
    BY <1>1, <1>2 DEF FlagTypes
  <2>5. QED  BY <1>1, <1>2, <2>3, <2>4 DEF FlagTypes, CycleOK
<1>4. FlagStep /\ WindowsStay
  BY <1>1, <1>2 DEF FlagTypes, Flags, FlagStep, WindowsStay
<1>5. QED  BY <1>3, <1>4, FlagsKeep

LEMMA UseFreedKeeps ==
  ASSUME WInv, Running, UseFreed
  PROVE  WInv' /\ WindowsStay
<1>1. /\ crash' = "stale_focus"
      /\ UNCHANGED <<listed, win, size, asked, drawn, alive, bare, flagged, refused,
                     cursorFlush, stage, at, shallFlush>>
  BY DEF UseFreed, sizeVars, objectVars, sendVars, cycleVars
<1>2. FlagTypes /\ CycleOK
  BY TypeParts DEF WInv
<1>3. FlagTypes' /\ CycleOK'
  BY <1>1, <1>2 DEF FlagTypes, CycleOK
<1>4. FlagStep /\ WindowsStay
  BY <1>1, <1>2 DEF FlagTypes, FlagStep, WindowsStay
<1>5. QED  BY <1>3, <1>4, FlagsKeep

LEMMA SetCursorKeeps ==
  ASSUME WInv, Running, NEW w \in Windows, SetCursor(w)
  PROVE  WInv' /\ WindowsStay
<1>1. WInv'
  BY EventKeeps
<1>2. WindowsStay
  BY DEF SetCursor, sizeVars, objectVars, WindowsStay
<1>3. QED  BY <1>1, <1>2

LEMMA KeepWindowsKeeps ==
  ASSUME WInv, KeepWindows
  PROVE  WInv' /\ WindowsStay
  BY WindowNextKeeps, WindowsUntouched DEF KeepWindows

----------------------------------------------------------------------------
(* The focus *)

\* The device enters a surface, leaves one, or stays; the focus follows it, but
\* for one of several fingers.
FocusStep ==
  \/ UNCHANGED <<focus, within, mixed>>
  \/ focus' = NoObject /\ within' = within /\ mixed'
  \/ within' = NoObject /\ focus' \in {focus, NoObject}
  \/ within' \in Surfaces /\ focus' = UserData(within')

LEMMA FocusKeeps ==
  ASSUME WInv, InputTypes, FocusOK, WindowsStay, FocusStep
  PROVE  FocusOK' /\ focus' \in Objects \cup {NoObject}
                  /\ within' \in Objects \cup {NoObject}
<1>1. \A w \in Windows : (InList(w)' <=> InList(w)) /\ (Open(w)' <=> Open(w))
  BY OpenStays
<1>2. /\ alive' = alive /\ alive \subseteq Objects
      /\ \A w \in Windows : win'[w].closed = win[w].closed
  BY DEF WindowsStay, WInv, WindowTypeOK
<1>3. focus \in Objects \cup {NoObject} /\ within \in Objects \cup {NoObject}
  BY DEF InputTypes
<1>4. CASE UNCHANGED <<focus, within, mixed>>
  BY <1>1, <1>2, <1>3, <1>4, ObjectPair DEF FocusOK, FocusListed, FocusExists, FocusTracks
<1>5. CASE within' = NoObject /\ focus' \in {focus, NoObject}
  BY <1>1, <1>2, <1>3, <1>5, ObjectPair DEF FocusOK, FocusListed, FocusExists, FocusTracks
<1>6. CASE within' \in Surfaces /\ focus' = UserData(within')
  <2>1. within' \in Objects /\ InList(within'[1])
    BY <1>6, SurfaceListed
  <2>2. focus' = IF within' \in alive THEN within' ELSE NoObject
    BY <1>6 DEF UserData
  <2>3. within'[1] \in Windows
    BY <2>1, ObjectPair
  <2>4. QED
    BY <1>1, <1>2, <2>1, <2>2, <2>3 DEF FocusOK, FocusListed, FocusExists, FocusTracks
<1>7. CASE focus' = NoObject /\ within' = within /\ mixed'
  BY <1>1, <1>2, <1>3, <1>7, ObjectPair DEF FocusOK, FocusListed, FocusExists, FocusTracks
<1>8. QED  BY <1>4, <1>5, <1>6, <1>7 DEF FocusStep

----------------------------------------------------------------------------
(* What is pressed *)

\* The types of the input but for the focus and the place of the device.
RestTypes ==
  /\ device \in Devices /\ present \in BOOLEAN
  /\ pressed \in [Windows -> SUBSET Controls] /\ held \subseteq Controls
  /\ diff \in [Windows -> (-DiffBound) .. DiffBound]
  /\ maximized \subseteq Windows
  /\ keymap \in BOOLEAN /\ level \in Levels
  /\ ~keymap => level = 0
  /\ unheard \subseteq Windows \X Controls
  /\ spot \in [Fingers -> Objects \cup {NoObject}] /\ mixed \in BOOLEAN

\* A step after which what is pressed is held there, or known not to be.
PressedStep ==
  /\ \A w \in Windows : \A b \in pressed'[w] :
       Open(w) /\ (<<w, b>> \in unheard' \/ HeldOver(w, b)')
  /\ device' = "touch" => /\ held' \subseteq {Finger}
                          /\ \A w \in Windows : pressed'[w] \subseteq {Finger}
  /\ device' = "keyboard" => within' = NoObject \/ IsBody(within')

LEMMA SeatKeeps ==
  ASSUME InInv, WInv', WindowsStay, FocusStep, RestTypes', PressedStep, SpotOK'
  PROVE  InInv'
<1>1. FocusOK' /\ focus' \in Objects \cup {NoObject}
               /\ within' \in Objects \cup {NoObject}
  BY FocusKeeps DEF InInv
<1>2. InputTypes'
  BY <1>1 DEF InputTypes, RestTypes
<1>3. \A w \in Windows : Open(w)' <=> Open(w)
  BY OpenStays
<1>4. PressedOK'
  BY <1>3 DEF PressedStep, PressedOK, IsBody, NoObject
<1>5. QED  BY <1>1, <1>2, <1>4 DEF InInv

\* A window that will hear of a release has the device, and the focus.
LEMMA Grip ==
  ASSUME InInv, Running
  PROVE  \A w \in Windows : \A b \in pressed[w] :
           /\ Open(w)
           /\ <<w, b>> \notin unheard =>
                /\ b \in held /\ HeldOver(w, b)
                /\ ~mixed => within = Body(w) /\ focus = Body(w) /\ focus \in alive
<1>1. \A w \in Windows : Open(w) => Body(w) \in alive
  BY AliveOpen DEF InInv
<1>2. \A w \in Windows : Body(w) # NoObject
  BY ObjectPair
<1>3. ASSUME NEW w \in Windows, NEW b \in pressed[w], <<w, b>> \notin unheard
      PROVE  b \in held /\ HeldOver(w, b) /\ (~mixed => within = Body(w))
  BY <1>2, <1>3 DEF InInv, PressedOK, HeldOver, SpotOK
<1>4. QED  BY <1>1, <1>3 DEF InInv, PressedOK, FocusOK, FocusTracks

\* The releases of what is held go unheard.
LEMMA NoneHeard ==
  ASSUME InInv, Running, Unheard(held), UNCHANGED pressed
  PROVE  /\ \A w \in Windows : \A b \in pressed'[w] : Open(w) /\ <<w, b>> \in unheard'
         /\ unheard' \subseteq Windows \X Controls
<1>1. pressed \in [Windows -> SUBSET Controls] /\ unheard \subseteq Windows \X Controls
      /\ held \subseteq Controls
  BY DEF InInv, InputTypes
<1>2. unheard' = unheard \cup {x \in Windows \X held : x[2] \in pressed[x[1]]}
  BY DEF Unheard
<1>3. unheard' \subseteq Windows \X Controls
  BY <1>1, <1>2
<1>4. ASSUME NEW w \in Windows, NEW b \in pressed[w]
      PROVE  Open(w) /\ <<w, b>> \in unheard'
  <2>1. <<w, b>> \in unheard \/ b \in held
    BY Grip
  <2>2. CASE b \in held
    <3>1. <<w, b>> \in Windows \X held
      BY <2>2
    <3>2. QED  BY <1>2, <3>1, Grip
  <2>3. QED  BY <1>2, <2>1, <2>2, Grip
<1>5. QED  BY <1>3, <1>4

\* Nothing is pressed that will be heard to be released.
AllUnheard == \A w \in Windows : \A b \in pressed[w] : <<w, b>> \in unheard

LEMMA NothingGripped ==
  ASSUME InInv, Running,
         \/ held = {}
         \/ /\ ~mixed
            /\ \/ within = NoObject \/ focus = NoObject
               \/ focus \notin alive \/ ~IsBody(focus)
  PROVE  AllUnheard
<1>1. \A w \in Windows : Body(w) # NoObject /\ IsBody(Body(w))
  BY ObjectPair
<1>2. QED  BY <1>1, Grip DEF AllUnheard

----------------------------------------------------------------------------
(* The steps of the seat *)

\* Steps that move no device, and press and release nothing.
LEMMA StillKeeps ==
  ASSUME InInv, WInv', WindowsStay, RestTypes',
         UNCHANGED <<device, focus, pressed, unheard, within, held, spot, mixed>>
  PROVE  InInv'
<1>1. FocusStep
  BY DEF FocusStep
<1>2. PressedStep
  BY DEF PressedStep, InInv, PressedOK, HeldOver
<1>3. SpotOK'
  BY DEF InInv, SpotOK
<1>4. QED  BY <1>1, <1>2, <1>3, SeatKeeps

LEMMA QuietKeeps ==
  ASSUME InInv, Running,
         \/ PointerAxis(1) \/ PointerAxis(-1) \/ Motion \/ Keymap \/ Plug
         \/ \E w \in Windows : ReadAxis(w)
         \/ \E l \in Levels : Modifiers(l)
  PROVE  InInv'
<1> USE DEF compositorVars, touchVars
<1>1. WInv /\ InputTypes /\ DiffBound \in Nat
  BY InputAssumption DEF InInv
<1>2. ASSUME NEW by \in Int, PointerAxis(by)
      PROVE  InInv'
  <2>1. UNCHANGED <<device, present, focus, pressed, unheard, maximized, keymap, level,
                    within, held, spot, mixed>>
    BY <1>2 DEF PointerAxis, UseFreed
  <2>2. CASE FocusFreed /\ UseFreed /\ UNCHANGED diff
    <3>1. RestTypes'
      BY <1>1, <2>1, <2>2 DEF InputTypes, RestTypes
    <3>2. QED  BY <1>1, <2>1, <2>2, <3>1, UseFreedKeeps, StillKeeps
  <2>3. CASE /\ diff[focus[1]] + by \in (-DiffBound) .. DiffBound
             /\ diff' = [diff EXCEPT ![focus[1]] = @ + by]
             /\ KeepWindows
    <3>1. diff' \in [Windows -> (-DiffBound) .. DiffBound]
      BY <1>1, <2>3 DEF InputTypes
    <3>2. RestTypes'
      BY <1>1, <2>1, <3>1 DEF InputTypes, RestTypes
    <3>3. QED  BY <1>1, <2>1, <2>3, <3>2, KeepWindowsKeeps, StillKeeps
  <2>4. QED  BY <1>2, <2>2, <2>3 DEF PointerAxis
<1>3. CASE Motion
  <2>1. UseFreed /\ UNCHANGED <<device, present, diff, keymap, level, within, held,
                                 spot, mixed>>
    BY <1>3 DEF Motion
  <2>2. UNCHANGED <<focus, pressed, unheard, maximized>>
    BY <2>1 DEF UseFreed
  <2>3. RestTypes'
    BY <1>1, <2>1, <2>2 DEF InputTypes, RestTypes
  <2>4. QED  BY <1>1, <2>1, <2>2, <2>3, UseFreedKeeps, StillKeeps
<1>4. CASE Keymap \/ Plug \/ \E l \in Levels : Modifiers(l)
  <2>1. KeepWindows /\ UNCHANGED <<device, focus, pressed, unheard, within, held, diff,
                                   maximized, spot, mixed>>
    BY <1>4 DEF Keymap, Plug, Modifiers
  <2>2. RestTypes'
    BY <1>1, <1>4, <2>1 DEF InputTypes, RestTypes, Keymap, Plug, Modifiers
  <2>3. QED  BY <1>1, <2>1, <2>2, KeepWindowsKeeps, StillKeeps
<1>5. ASSUME NEW w \in Windows, ReadAxis(w)
      PROVE  InInv'
  <2>1. /\ KeepWindows /\ diff' = [diff EXCEPT ![w] = 0]
        /\ UNCHANGED <<device, present, focus, pressed, unheard, within, held,
                       maximized, keymap, level, spot, mixed>>
    BY <1>5 DEF ReadAxis
  <2>2. RestTypes'
    BY <1>1, <2>1 DEF InputTypes, RestTypes
  <2>3. QED  BY <1>1, <2>1, <2>2, KeepWindowsKeeps, StillKeeps
<1>6. QED  BY <1>2, <1>3, <1>4, <1>5

\* Steps that press and release nothing where something is, and steps after
\* which nothing that is pressed will be heard to be released.
LEMMA PressedRests ==
  ASSUME InInv, Running, UNCHANGED <<device, pressed, unheard>>, AllUnheard,
         device = "touch" => held' \subseteq {Finger},
         device = "keyboard" => within' = NoObject \/ IsBody(within')
  PROVE  PressedStep
  BY Grip DEF PressedStep, AllUnheard, InInv, InputTypes, PressedOK

LEMMA PressedForgotten ==
  ASSUME InInv, Running, UNCHANGED <<device, pressed>>, Unheard(held),
         held' = {}, within' = NoObject
  PROVE  PressedStep /\ unheard' \subseteq Windows \X Controls
  BY NoneHeard DEF PressedStep, InInv, InputTypes, PressedOK

\* No other device has fingers.
LEMMA SpotRests ==
  ASSUME InInv, device # "touch", UNCHANGED <<device, spot, mixed>>
  PROVE  ~mixed /\ SpotOK'
  BY DEF InInv, SpotOK

\* The device comes to a surface, with nothing in its grip.
LEMMA EnterKeeps ==
  ASSUME InInv, Running,
         \/ \E o \in Objects : PointerEnter(o)
         \/ \E w \in Windows : KeyboardEnter(w)
  PROVE  InInv'
<1>1. WInv /\ InputTypes
  BY DEF InInv
<1>2. /\ within = NoObject /\ within' \in Surfaces /\ focus' = UserData(within')
      /\ device = "keyboard" => within' = NoObject \/ IsBody(within')
      /\ device # "touch"
      /\ UNCHANGED <<device, present, pressed, diff, maximized, keymap, level, held,
                     unheard, spot, mixed>>
  BY ObjectPair DEF PointerEnter, KeyboardEnter, Event, touchVars
<1>3. FocusStep
  BY <1>2 DEF FocusStep
<1>4. RestTypes'
  BY <1>1, <1>2 DEF InputTypes, RestTypes
<1>5. AllUnheard /\ SpotOK'
  BY <1>2, SpotRests, NothingGripped
<1>6. PressedStep
  BY <1>2, <1>5, PressedRests DEF InInv, PressedOK
<1>7. WInv' /\ WindowsStay
  <2>1. CASE KeepWindows
    BY <1>1, <2>1, KeepWindowsKeeps
  <2>2. ASSUME NEW w \in Windows, SetCursor(w)
        PROVE  WInv' /\ WindowsStay
    BY <1>1, <2>2, SetCursorKeeps
  <2>3. QED  BY <2>1, <2>2, ObjectPair DEF PointerEnter, KeyboardEnter
<1>8. QED  BY <1>3, <1>4, <1>5, <1>6, <1>7, SeatKeeps

\* The device leaves, and what was held is forgotten.
LEMMA LeaveKeeps ==
  ASSUME InInv, Running,
         PointerLeave \/ PointerTaken \/ TouchCancel \/ KeyboardLeave \/ Unplug
  PROVE  InInv'
<1>1. WInv /\ InputTypes
  BY DEF InInv
<1>2. /\ within' = NoObject /\ focus' \in {focus, NoObject} /\ KeepWindows
      /\ UNCHANGED <<device, pressed, diff, maximized, keymap, level>>
      /\ present' \in {present, FALSE}
  BY DEF PointerLeave, PointerTaken, TouchCancel, KeyboardLeave, Unplug, Left
<1>3. FocusStep
  BY <1>2 DEF FocusStep
<1>4. /\ PressedStep /\ unheard' \subseteq Windows \X Controls /\ held' \subseteq Controls
      /\ SpotOK' /\ mixed' \in BOOLEAN
      /\ spot' \in [Fingers -> Objects \cup {NoObject}]
  <2>1. CASE PointerLeave
    <3>1. /\ held = {} \/ ~IsBody(within) \/ within \notin alive
          /\ within # NoObject /\ UNCHANGED <<held, unheard>>
      BY <2>1 DEF PointerLeave
    <3>2. ~mixed /\ SpotOK' /\ UNCHANGED <<spot, mixed>>
      BY <1>2, <2>1, SpotRests DEF PointerLeave, Event, touchVars
    <3>3. AllUnheard
      BY <3>1, <3>2, ObjectPair, Grip DEF AllUnheard, InInv, InputTypes
    <3>4. PressedStep
      BY <1>2, <3>1, <3>3, PressedRests DEF InInv, PressedOK
    <3>5. QED  BY <1>1, <3>1, <3>2, <3>4 DEF InputTypes
  <2>2. CASE PointerTaken \/ TouchCancel \/ KeyboardLeave \/ Unplug
    <3>1. held' = {} /\ Unheard(held)
      BY <2>2 DEF PointerTaken, TouchCancel, KeyboardLeave, Unplug
    <3>2. PressedStep /\ unheard' \subseteq Windows \X Controls
      BY <1>2, <3>1, PressedForgotten
    <3>3. /\ SpotOK' /\ mixed' \in BOOLEAN
          /\ spot' \in [Fingers -> Objects \cup {NoObject}]
      <4>1. CASE NoFingers
        BY <3>1, <4>1 DEF NoFingers, SpotOK
      <4>2. CASE PointerTaken \/ KeyboardLeave
        BY <1>1, <1>2, <4>2, SpotRests
           DEF PointerTaken, KeyboardLeave, Event, touchVars, InputTypes
      <4>3. QED  BY <2>2, <4>1, <4>2 DEF TouchCancel, Unplug
    <3>4. QED  BY <3>1, <3>2, <3>3
  <2>3. QED  BY <2>1, <2>2
<1>5. RestTypes'
  BY <1>1, <1>2, <1>4 DEF InputTypes, RestTypes
<1>6. QED  BY <1>1, <1>2, <1>3, <1>4, <1>5, KeepWindowsKeeps, SeatKeeps

\* A button is released where the driver has no surface.
LEMMA ReleaseElsewhereKeeps ==
  ASSUME InInv, Running, NEW b \in Buttons, ReleaseElsewhere(b)
  PROVE  InInv'
<1>1. WInv /\ InputTypes
  BY DEF InInv
<1>2. /\ KeepWindows /\ within = NoObject /\ held' = held \ {b}
      /\ device = "pointer"
      /\ UNCHANGED <<device, present, focus, pressed, diff, maximized, keymap,
                     level, within, unheard, spot, mixed>>
  BY DEF ReleaseElsewhere, Toggle, touchVars
<1>3. FocusStep /\ RestTypes'
  BY <1>1, <1>2 DEF FocusStep, InputTypes, RestTypes
<1>4. PressedStep /\ SpotOK'
  BY <1>2, SpotRests, NothingGripped, PressedRests
<1>5. QED  BY <1>1, <1>2, <1>3, <1>4, KeepWindowsKeeps, SeatKeeps

----------------------------------------------------------------------------
(* Pressing and releasing *)

\* A button or finger of w: what is pressed elsewhere keeps its grip, or had none.
LEMMA PressedHere ==
  ASSUME InInv, Running, NEW w \in Windows, NEW b \in Controls, NEW press \in BOOLEAN,
         Open(w), Pressed(w, b, press),
         press => HeldOver(w, b)',
         \A v \in Windows : \A c \in pressed[v] :
           <<v, c>> = <<w, b>> \/ <<v, c>> \in unheard \/ HeldOver(v, c)'
  PROVE  /\ \A v \in Windows : \A c \in pressed'[v] :
              Open(v) /\ (<<v, c>> \in unheard' \/ HeldOver(v, c)')
         /\ pressed' \in [Windows -> SUBSET Controls]
         /\ unheard' \subseteq Windows \X Controls
<1>1. /\ pressed' = [pressed EXCEPT ![w] = IF press THEN @ \cup {b} ELSE @ \ {b}]
      /\ unheard' = unheard \ {<<w, b>>}
  BY DEF Pressed
<1>2. pressed \in [Windows -> SUBSET Controls] /\ unheard \subseteq Windows \X Controls
  BY DEF InInv, InputTypes
<1>3. /\ pressed'[w] = IF press THEN pressed[w] \cup {b} ELSE pressed[w] \ {b}
      /\ \A v \in Windows : v # w => pressed'[v] = pressed[v]
      /\ pressed' \in [Windows -> SUBSET Controls]
  BY <1>1, <1>2
<1>4. ASSUME NEW v \in Windows, NEW c \in pressed'[v]
      PROVE  Open(v) /\ (<<v, c>> \in unheard' \/ HeldOver(v, c)')
  <2>1. CASE v = w /\ c = b
    BY <1>3, <2>1
  <2>2. CASE ~(v = w /\ c = b)
    <3>1. c \in pressed[v] /\ <<v, c>> # <<w, b>>
      BY <1>3, <2>2
    <3>2. Open(v)
      BY <3>1, Grip
    <3>3. QED  BY <1>1, <3>1, <3>2
  <2>3. QED  BY <2>1, <2>2
<1>5. QED  BY <1>1, <1>2, <1>3, <1>4

LEMMA PointerButtonKeeps ==
  ASSUME InInv, Running, NEW b \in Buttons, PointerButton(b)
  PROVE  InInv'
<1> DEFINE press == b \notin held
<1>1. WInv /\ InputTypes /\ b \in Controls
  BY DEF InInv, Controls
<1>2. /\ held' = (IF b \in held THEN held \ {b} ELSE held \cup {b})
      /\ device = "pointer" /\ within # NoObject /\ stage = "app"
      /\ UNCHANGED <<device, present, focus, diff, keymap, level, within, spot, mixed>>
  BY DEF PointerButton, Toggle, Event, touchVars
<1>3. FocusStep /\ held' \subseteq Controls /\ ~mixed /\ SpotOK'
  BY <1>1, <1>2, SpotRests DEF FocusStep, InputTypes
<1>4. ASSUME UNCHANGED <<pressed, unheard>>, maximized' \subseteq Windows,
             AllUnheard, WInv' /\ WindowsStay
      PROVE  InInv'
  <2>1. PressedStep
    BY <1>2, <1>4, PressedRests
  <2>2. RestTypes'
    BY <1>1, <1>2, <1>3, <1>4 DEF InputTypes, RestTypes
  <2>3. QED  BY <1>3, <1>4, <2>1, <2>2, SeatKeeps
<1>5. CASE focus = NoObject /\ KeepWindows /\ UNCHANGED <<pressed, maximized, unheard>>
  BY <1>1, <1>3, <1>4, <1>5, NothingGripped, KeepWindowsKeeps DEF InputTypes
<1>6. CASE FocusFreed /\ UseFreed
  BY <1>1, <1>3, <1>4, <1>6, NothingGripped, UseFreedKeeps
     DEF InputTypes, FocusFreed, UseFreed
<1>7. CASE /\ focus \in alive /\ IsBody(focus)
           /\ Pressed(focus[1], b, press)
           /\ KeepWindows /\ UNCHANGED maximized
  <2>1. PICK w \in Windows :
          w = focus[1] /\ Open(w) /\ focus = Body(w) /\ within = Body(w)
    BY <1>1, <1>2, <1>7, AliveOpen, ObjectPair DEF InInv, FocusOK, FocusListed
  <2>2. \A v \in Windows : \A c \in pressed[v] :
          \/ <<v, c>> = <<w, b>> \/ <<v, c>> \in unheard
          \/ HeldOver(v, c)'
    <3>1. \A v \in Windows : Body(v) = Body(w) => v = w
      BY <2>1, ObjectPair
    <3>2. QED  BY <1>2, <1>3, <2>1, <3>1, Grip DEF HeldOver
  <2>3. press => HeldOver(w, b)'
    BY <1>2, <2>1 DEF HeldOver
  <2>4. Pressed(w, b, press) /\ press \in BOOLEAN
    BY <1>7, <2>1
  <2> HIDE DEF press
  <2>5. /\ \A v \in Windows : \A c \in pressed'[v] :
             Open(v) /\ (<<v, c>> \in unheard' \/ HeldOver(v, c)')
        /\ pressed' \in [Windows -> SUBSET Controls]
        /\ unheard' \subseteq Windows \X Controls
    BY <1>1, <2>1, <2>2, <2>3, <2>4, PressedHere
  <2>6. PressedStep
    BY <1>2, <2>5 DEF PressedStep
  <2>7. RestTypes'
    BY <1>1, <1>2, <1>3, <1>7, <2>5 DEF InputTypes, RestTypes
  <2>8. QED  BY <1>1, <1>3, <1>7, <2>6, <2>7, KeepWindowsKeeps, SeatKeeps
<1>8. CASE focus \in alive /\ ~IsBody(focus)
  <2> DEFINE w == focus[1]
             d == focus[2]
             sends == PointerSends(d, press, w \in maximized)
  <2>1. w \in Windows /\ InList(w)
    BY <1>1, <1>8, AliveOpen, ObjectPair
  <2>2. UNCHANGED <<pressed, unheard>>
    BY <1>2, <1>8 DEF PointerButton, FocusFreed, NoObject
  <2>3. CASE KeepWindows /\ UNCHANGED maximized
    BY <1>1, <1>3, <1>4, <1>8, <2>2, <2>3, NothingGripped, KeepWindowsKeeps DEF InputTypes
  <2>4. CASE Decoration(w, d, press, sends)
    <3>1. press \in BOOLEAN /\ sends \in BOOLEAN
      BY DEF PointerSends
    <3>2. maximized' \subseteq Windows
      BY <1>1, <2>1, <2>4 DEF InputTypes, Decoration
    <3> HIDE DEF w, d, press, sends
    <3>3. WInv' /\ WindowsStay
      BY <1>1, <1>2, <2>1, <2>4, <3>1, DecorationKeeps
    <3>4. QED  BY <1>3, <1>4, <1>8, <2>2, <3>2, <3>3, NothingGripped
  <2>5. QED
    BY <1>2, <1>8, <2>1, <2>3, <2>4 DEF PointerButton, FocusFreed
<1>9. QED
  BY <1>5, <1>6, <1>7, <1>8 DEF PointerButton

\* What is pressed is pressed by a finger; it stays on the body that it touched.
LEMMA FingerGrip ==
  ASSUME InInv, Running, device = "touch", NEW v \in Windows, NEW c \in pressed[v]
  PROVE  /\ c = Finger /\ Open(v)
         /\ <<v, c>> \in unheard \/ \E g \in Fingers : spot[g] = Body(v)
         /\ ~mixed /\ <<v, c>> \notin unheard => focus = Body(v)
  BY Grip DEF InInv, PressedOK, HeldOver

LEMMA TouchDownKeeps ==
  ASSUME InInv, Running, NEW f \in Fingers, NEW o \in Objects, TouchDown(f, o)
  PROVE  InInv'
<1>1. WInv /\ InputTypes /\ Finger \in Controls
  BY DEF InInv, Controls
<1>2. /\ device = "touch" /\ stage = "app" /\ o \in Surfaces /\ spot[f] = NoObject
      /\ spot' = [spot EXCEPT ![f] = o] /\ mixed' = (held # {})
      /\ held' = {Finger} /\ within' = o /\ focus' = UserData(o)
      /\ UNCHANGED <<device, present, diff, keymap, level>>
  BY DEF TouchDown, Event
<1>3. /\ spot' \in [Fingers -> Objects \cup {NoObject}] /\ mixed' \in BOOLEAN
      /\ spot'[f] = o /\ o # NoObject
      /\ \A g \in Fingers : g # f => spot'[g] = spot[g]
  BY <1>1, <1>2, ObjectPair DEF InputTypes
<1>4. FocusStep /\ SpotOK'
  BY <1>2, <1>3 DEF FocusStep, InInv, SpotOK
<1>5. \A v \in Windows : \A c \in pressed[v] :
        c = Finger /\ Open(v) /\ (<<v, c>> \in unheard \/ HeldOver(v, c)')
  <2>1. ASSUME NEW v \in Windows, NEW c \in pressed[v]
        PROVE  c = Finger /\ Open(v) /\ (<<v, c>> \in unheard \/ HeldOver(v, c)')
    <3>1. ASSUME NEW g \in Fingers, spot[g] = Body(v)
          PROVE  spot'[g] = Body(v)
      BY <1>2, <1>3, <3>1, ObjectPair
    <3>2. QED  BY <1>2, <3>1, FingerGrip DEF HeldOver
  <2>2. QED  BY <2>1
<1>6. ASSUME UNCHANGED <<pressed, unheard>>, maximized' \subseteq Windows,
             WInv' /\ WindowsStay
      PROVE  InInv'
  <2>1. PressedStep
    BY <1>2, <1>5, <1>6 DEF PressedStep
  <2>2. RestTypes'
    BY <1>1, <1>2, <1>3, <1>6 DEF InputTypes, RestTypes
  <2>3. QED  BY <1>4, <1>6, <2>1, <2>2, SeatKeeps
<1>7. CASE o \notin alive
  BY <1>1, <1>6, <1>7, KeepWindowsKeeps DEF TouchDown, InputTypes
<1>8. CASE o \in alive
  <2> DEFINE w == o[1]
             sends == TouchSends(o[2], TRUE)
  <2>1. /\ w \in Windows /\ Open(w) /\ InList(w)
        /\ IsBody(o) => o = Body(w)
    BY <1>1, <1>8, AliveOpen, ObjectPair
  <2>2. /\ Decoration(w, o[2], TRUE, sends)
        /\ sends \in BOOLEAN
    BY <1>8 DEF TouchDown, TouchSends
  <2>3. maximized' \subseteq Windows
    BY <1>1, <2>1, <2>2 DEF InputTypes, Decoration
  <2> HIDE DEF sends
  <2>4. WInv' /\ WindowsStay
    BY <1>1, <1>2, <2>1, <2>2, DecorationKeeps
  <2>5. CASE ~IsBody(o)
    BY <1>6, <1>8, <2>3, <2>4, <2>5 DEF TouchDown
  <2>6. CASE IsBody(o)
    <3>1. Pressed(w, Finger, TRUE) /\ HeldOver(w, Finger)'
      BY <1>2, <1>3, <1>8, <2>1, <2>6 DEF TouchDown, HeldOver
    <3> HIDE DEF w
    <3>2. /\ \A v \in Windows : \A c \in pressed'[v] :
               Open(v) /\ (<<v, c>> \in unheard' \/ HeldOver(v, c)')
          /\ pressed' \in [Windows -> SUBSET Controls]
          /\ unheard' \subseteq Windows \X Controls
      BY <1>1, <1>2, <1>5, <2>1, <3>1, PressedHere
    <3>3. \A v \in Windows : pressed'[v] \subseteq {Finger}
      BY <1>1, <1>5, <2>1, <3>1 DEF Pressed, InputTypes
    <3>4. PressedStep
      BY <1>2, <3>2, <3>3 DEF PressedStep
    <3>5. RestTypes'
      BY <1>1, <1>2, <1>3, <2>3, <3>2 DEF InputTypes, RestTypes
    <3>6. QED  BY <1>4, <2>4, <3>4, <3>5, SeatKeeps
  <2>7. QED  BY <2>5, <2>6
<1>9. QED  BY <1>7, <1>8

\* One finger alone has the focus; one of several that leaves a window for which
\* it is the last is known to be mistaken.
LEMMA TouchUpKeeps ==
  ASSUME InInv, Running, NEW f \in Fingers, TouchUp(f)
  PROVE  InInv'
<1>1. WInv /\ InputTypes /\ Finger \in Controls
  BY DEF InInv, Controls
<1>2. CASE FocusFreed /\ UseFreed /\ UNCHANGED compositorVars
  <2>1. UNCHANGED <<device, present, focus, pressed, unheard, diff, maximized, keymap,
                    level, within, held, spot, mixed>>
    BY <1>2 DEF TouchUp, UseFreed, compositorVars, touchVars
  <2>2. RestTypes'
    BY <1>1, <2>1 DEF InputTypes, RestTypes
  <2>3. QED  BY <1>1, <1>2, <2>1, <2>2, UseFreedKeeps, StillKeeps
<1>3. CASE ~(FocusFreed /\ UseFreed /\ UNCHANGED compositorVars)
  <2> DEFINE others == \E g \in Fingers \ {f} : spot[g] # NoObject
  <2>1. /\ device = "touch" /\ stage = "app" /\ spot[f] # NoObject
        /\ spot' = [spot EXCEPT ![f] = NoObject]
        /\ held' = (IF others THEN held ELSE {})
        /\ within' = (IF held' = {} THEN NoObject ELSE within)
        /\ mixed' = (mixed /\ held' # {})
        /\ pressed' = [v \in Windows |->
              IF focus = Body(v) THEN pressed[v] \ {Finger} ELSE pressed[v]]
        /\ unheard' = {x \in unheard \cup Mistaken(f) : focus # Body(x[1])}
        /\ focus' = NoObject /\ ~FocusFreed
        /\ UNCHANGED <<device, present, diff, keymap, level>>
    BY <1>3 DEF TouchUp, Event, Lift
  <2>2. /\ spot' \in [Fingers -> Objects \cup {NoObject}] /\ mixed' \in BOOLEAN
        /\ spot'[f] = NoObject
        /\ \A g \in Fingers : g # f => spot'[g] = spot[g]
    BY <1>1, <2>1 DEF InputTypes
  <2>3. held \subseteq {Finger} /\ held # {}
    BY <2>1 DEF InInv, PressedOK, SpotOK
  <2>4. held' # {} <=> others
    BY <2>1, <2>3
  <2> HIDE DEF others
  <2>5. others => mixed
    BY <2>1 DEF others, InInv, SpotOK
  <2>6. FocusStep
    BY <2>1, <2>4, <2>5 DEF FocusStep
  <2>7. SpotOK'
    <3>1. held' = {} <=> \A g \in Fingers : spot'[g] = NoObject
      BY <2>2, <2>4 DEF others
    <3>2. others => mixed'
      BY <2>1, <2>4, <2>5
    <3>3. \A g \in Fingers : spot'[g] # NoObject => others
      BY <2>2 DEF others
    <3>4. QED  BY <2>1, <3>1, <3>2, <3>3 DEF SpotOK
  <2>8. /\ pressed' \in [Windows -> SUBSET Controls]
        /\ \A v \in Windows : pressed'[v] \subseteq pressed[v]
        /\ \A v \in Windows : \A c \in pressed'[v] : c = Finger => focus # Body(v)
    BY <1>1, <2>1 DEF InputTypes
  <2>9. unheard' \subseteq Windows \X Controls
    BY <1>1, <2>1 DEF Mistaken, InputTypes
  <2>10. ASSUME NEW v \in Windows, NEW c \in pressed'[v]
         PROVE  c = Finger /\ Open(v) /\ (<<v, c>> \in unheard' \/ HeldOver(v, c)')
    <3>1. c = Finger /\ Open(v) /\ c \in pressed[v] /\ focus # Body(v)
      BY <2>1, <2>8, FingerGrip
    <3>2. CASE <<v, c>> \in unheard
      BY <2>1, <3>1, <3>2
    <3>3. CASE <<v, c>> \notin unheard
      <4>1. mixed /\ \E g \in Fingers : spot[g] = Body(v)
        BY <1>1, <2>1, <3>1, <3>3, FingerGrip DEF InputTypes
      <4>2. CASE \E g \in Fingers \ {f} : spot[g] = Body(v)
        <5>1. others
          BY <4>2, ObjectPair DEF others
        <5>2. QED  BY <2>1, <2>2, <2>3, <3>1, <4>2, <5>1 DEF HeldOver
      <4>3. CASE \A g \in Fingers \ {f} : spot[g] # Body(v)
        <5>1. <<v, Finger>> \in Mistaken(f)
          BY <3>1, <4>1, <4>3 DEF Mistaken
        <5>2. QED  BY <2>1, <3>1, <5>1
      <4>4. QED  BY <4>2, <4>3
    <3>4. QED  BY <3>1, <3>2, <3>3
  <2>11. held' \subseteq {Finger}
    BY <2>1, <2>3
  <2>12. PressedStep
    BY <2>1, <2>10, <2>11 DEF PressedStep
  <2>13. ASSUME maximized' \subseteq Windows, WInv' /\ WindowsStay
         PROVE  InInv'
    <3>1. RestTypes'
      BY <1>1, <2>1, <2>2, <2>8, <2>9, <2>11, <2>13 DEF InputTypes, RestTypes
    <3>2. QED  BY <2>6, <2>7, <2>12, <2>13, <3>1, SeatKeeps
  <2>14. CASE focus = NoObject
    <3>1. KeepWindows /\ UNCHANGED maximized
      BY <1>3, <2>14 DEF TouchUp
    <3>2. QED  BY <1>1, <2>13, <3>1, KeepWindowsKeeps DEF InputTypes
  <2>15. CASE focus # NoObject
    <3> DEFINE w == focus[1]
               sends == TouchSends(focus[2], FALSE)
    <3>1. focus \in alive
      BY <2>1, <2>15 DEF FocusFreed
    <3>2. w \in Windows /\ InList(w)
      BY <1>1, <3>1, AliveOpen, ObjectPair
    <3>3. Decoration(w, focus[2], FALSE, sends) /\ sends \in BOOLEAN
      BY <1>3, <2>15 DEF TouchUp, TouchSends
    <3>4. maximized' \subseteq Windows
      BY <1>1, <3>2, <3>3 DEF InputTypes, Decoration
    <3> HIDE DEF w, sends
    <3>5. WInv' /\ WindowsStay
      BY <1>1, <2>1, <3>2, <3>3, DecorationKeeps
    <3>6. QED  BY <2>13, <3>4, <3>5
  <2>16. QED  BY <2>14, <2>15
<1>4. QED  BY <1>2, <1>3

\* The last key pressed or released is the key of the window that has the
\* keyboard.
LEMMA KeyboardKeyKeeps ==
  ASSUME InInv, Running, NEW c \in Codes, KeyboardKey(c)
  PROVE  InInv'
<1> DEFINE press == c \notin held
<1>1. WInv /\ InputTypes /\ c \in Controls /\ Codes \subseteq Controls
  BY DEF InInv, Controls
<1>2. /\ held' = (IF c \in held THEN held \ {c} ELSE held \cup {c})
      /\ device = "keyboard" /\ within # NoObject /\ KeepWindows
      /\ UNCHANGED <<device, present, focus, diff, maximized, keymap, level, within,
                     spot, mixed>>
  BY DEF KeyboardKey, Toggle, Event, touchVars
<1>3. /\ FocusStep /\ held' \subseteq Controls /\ WInv' /\ WindowsStay
      /\ IsBody(within) /\ ~mixed /\ SpotOK'
  BY <1>1, <1>2, KeepWindowsKeeps, SpotRests DEF FocusStep, InputTypes, InInv, PressedOK
<1>4. /\ pressed \in [Windows -> SUBSET Controls] /\ unheard \subseteq Windows \X Controls
  BY <1>1 DEF InputTypes
<1>5. ASSUME \A v \in Windows : \A b \in pressed'[v] :
               Open(v) /\ (<<v, b>> \in unheard' \/ HeldOver(v, b)'),
             pressed' \in [Windows -> SUBSET Controls],
             unheard' \subseteq Windows \X Controls
      PROVE  InInv'
  <2>1. PressedStep
    BY <1>2, <1>3, <1>5 DEF PressedStep
  <2>2. RestTypes'
    BY <1>1, <1>2, <1>3, <1>5 DEF InputTypes, RestTypes
  <2>3. QED  BY <1>3, <2>1, <2>2, SeatKeeps
<1>6. CASE focus # NoObject /\ keymap /\ Means(c)
  <2>1. focus = within /\ focus \in Objects /\ IsBody(focus) /\ focus \in alive
    BY <1>1, <1>2, <1>3, <1>6 DEF InInv, FocusOK, FocusListed, FocusExists, InputTypes
  <2>2. PICK w \in Windows : w = focus[1] /\ Open(w) /\ within = Body(w)
    BY <1>1, <2>1, AliveOpen, ObjectPair
  <2>3. /\ pressed' = [pressed EXCEPT ![w] = IF press THEN {c} ELSE {}]
        /\ unheard' = unheard \ ({w} \X Codes)
    BY <1>6, <2>2 DEF KeyboardKey
  <2>4. \A v \in Windows : v # w => \A b \in pressed[v] : Open(v) /\ <<v, b>> \in unheard
    <3>1. \A v \in Windows : Body(v) = Body(w) => v = w
      BY <2>2, ObjectPair
    <3>2. QED  BY <1>3, <2>2, <3>1, Grip
  <2>5. /\ pressed'[w] = IF press THEN {c} ELSE {}
        /\ \A v \in Windows : v # w => pressed'[v] = pressed[v]
        /\ pressed' \in [Windows -> SUBSET Controls]
    BY <1>1, <1>4, <2>2, <2>3
  <2>6. /\ \A v \in Windows : \A b : v # w /\ <<v, b>> \in unheard => <<v, b>> \in unheard'
        /\ unheard' \subseteq Windows \X Controls
    BY <1>4, <2>3
  <2>7. \A v \in Windows : \A b \in pressed'[v] :
          Open(v) /\ (<<v, b>> \in unheard' \/ HeldOver(v, b)')
    <3>1. ASSUME NEW b \in pressed'[w]
          PROVE  HeldOver(w, b)'
      BY <1>2, <2>2, <2>5 DEF HeldOver
    <3>2. QED  BY <2>2, <2>4, <2>5, <2>6, <3>1
  <2>8. QED  BY <1>5, <2>5, <2>6, <2>7
<1>7. CASE ~(focus # NoObject /\ keymap /\ Means(c))
  <2>1. /\ pressed' = pressed
        /\ IF press THEN unheard' = unheard ELSE Unheard({c})
    BY <1>7 DEF KeyboardKey
  <2>2. CASE press
    BY <1>2, <1>4, <1>5, <2>1, <2>2, Grip DEF HeldOver
  <2>3. CASE ~press
    <3>1. /\ unheard' = unheard \cup {x \in Windows \X {c} : x[2] \in pressed[x[1]]}
          /\ held' = held \ {c}
      BY <1>2, <2>1, <2>3 DEF Unheard
    <3>2. unheard' \subseteq Windows \X Controls
      BY <1>1, <1>4, <3>1
    <3>3. ASSUME NEW v \in Windows, NEW b \in pressed'[v]
          PROVE  Open(v) /\ (<<v, b>> \in unheard' \/ HeldOver(v, b)')
      <4>1. CASE b = c
        <5>1. <<v, b>> \in Windows \X {c}
          BY <4>1
        <5>2. QED  BY <2>1, <3>1, <5>1, Grip
      <4>2. CASE b # c
        BY <1>2, <2>1, <3>1, <4>2, Grip DEF HeldOver
      <4>3. QED  BY <4>1, <4>2
    <3>4. QED  BY <1>4, <1>5, <2>1, <3>2, <3>3
  <2>4. QED  BY <2>2, <2>3
<1>8. QED  BY <1>6, <1>7

LEMMA SeatStepKeeps ==
  ASSUME InInv, Running, SeatStep
  PROVE  InInv'
  BY QuietKeeps, EnterKeeps, LeaveKeeps, ReleaseElsewhereKeeps, PointerButtonKeeps,
     TouchDownKeeps, TouchUpKeeps, KeyboardKeyKeeps DEF SeatStep

----------------------------------------------------------------------------
(* The steps of the windows *)

\* The listed windows, and their objects, stay as they are.
ListedStay ==
  /\ \A w \in Windows : InList(w) => /\ InList(w)' /\ (Open(w)' <=> Open(w))
                                     /\ win'[w].closed = win[w].closed
  /\ \A o \in Objects : InList(o[1]) => (o \in alive' <=> o \in alive)

LEMMA ListedKeeps ==
  ASSUME InInv, WInv', ListedStay, UNCHANGED inputVars
  PROVE  InInv'
<1>1. UNCHANGED <<device, present, focus, pressed, diff, maximized, keymap, level,
                  within, held, unheard, spot, mixed>>
  BY DEF inputVars, compositorVars, touchVars
<1>2. InputTypes'
  BY <1>1 DEF InInv, InputTypes
<1>3. focus \in Objects \cup {NoObject} /\ within \in Objects \cup {NoObject}
  BY DEF InInv, InputTypes
<1>4. FocusOK'
  <2>1. FocusListed'
    BY <1>1, <1>3, ObjectPair DEF InInv, FocusOK, FocusListed, ListedStay
  <2>2. FocusExists'
    BY <1>1, <1>3, ObjectPair
       DEF InInv, FocusOK, FocusListed, FocusExists, ListedStay
  <2>3. FocusTracks'
    <3>1. NoObject \notin alive'
      BY ObjectPair DEF WInv, WindowTypeOK
    <3>2. QED
      BY <1>1, <1>3, <3>1 DEF InInv, FocusOK, FocusListed, FocusTracks, ListedStay
  <2>4. QED  BY <2>1, <2>2, <2>3 DEF FocusOK
<1>5. PressedOK'
  <2>1. \A w \in Windows : Open(w) => Open(w)'
    BY DEF ListedStay, Open, Registered
  <2>2. QED  BY <1>1, <2>1 DEF InInv, PressedOK, HeldOver, IsBody, NoObject
<1>6. SpotOK'
  BY <1>1 DEF InInv, SpotOK
<1>7. QED  BY <1>2, <1>4, <1>5, <1>6 DEF InInv

LEMMA ListedStayIfAllStay ==
  ASSUME WindowsStay
  PROVE  ListedStay
  BY OpenStays DEF WindowsStay, ListedStay

\* A new window is one that no pointer of the input points to.
LEMMA CreateStays ==
  ASSUME WInv, NEW w \in Windows, NEW sz \in Sizes[w], CreateWindow(w, sz)
  PROVE  ListedStay
<1>1. /\ ~InList(w)
      /\ listed' = Append(listed, w)
      /\ win' = [win EXCEPT ![w] = NewWindow]
      /\ drawn' = [drawn EXCEPT ![w] = sz]
  BY DEF CreateWindow
<1>2. PICK missing \in SUBSET Decos(w) :
        alive' = alive \cup {Body(w)} \cup (Decos(w) \ missing)
  BY DEF CreateWindow
<1>3. \A v \in Windows : InList(v)' <=> InList(v) \/ v = w
  BY <1>1, Listing DEF WInv
<1>4. /\ win \in [Windows -> Flags] /\ drawn \in [Windows -> Nat]
  BY TypeParts DEF WInv, FlagTypes
<1>5. \A v \in Windows : InList(v) => /\ win'[v] = win[v] /\ drawn'[v] = drawn[v]
                                      /\ InList(v)'
  BY <1>1, <1>3, <1>4
<1>6. \A v \in Windows : InList(v) => /\ InList(v)' /\ (Open(v)' <=> Open(v))
                                      /\ win'[v].closed = win[v].closed
  BY <1>5 DEF Open, Registered
<1>7. \A o \in Objects : InList(o[1]) => (o \in alive' <=> o \in alive)
  BY <1>1, <1>2 DEF Body, Decos
<1>8. QED  BY <1>6, <1>7 DEF ListedStay

LEMMA WindowStepKeeps ==
  ASSUME InInv, Running, WindowStep
  PROVE  InInv'
<1>1. WInv /\ UNCHANGED inputVars
  BY DEF InInv, WindowStep
<1>2. WInv'
  <2>1. Requests \/ Output
    BY DEF WindowStep, Requests, Output, OutputWindow
  <2>2. QED  BY <1>1, <2>1, WindowNextKeeps DEF WindowNext
<1>3. ListedStay
  <2>1. ASSUME NEW w \in Windows, NEW sz \in Sizes[w], CreateWindow(w, sz)
        PROVE  ListedStay
    BY <1>1, <2>1, CreateStays
  <2>2. win \in [Windows -> Flags]
    BY <1>1, TypeParts DEF WInv, FlagTypes
  <2>3. ASSUME NEW w \in Windows, CloseWindow(w) \/ ToplevelClose(w)
        PROVE  WindowsStay
    BY <2>2, <2>3
       DEF CloseWindow, ToplevelClose, WindowsStay, sizeVars, objectVars, Flags
  <2>4. ASSUME NEW yes \in BOOLEAN, AnswerClose(yes)
        PROVE  WindowsStay
    BY <2>2, <2>4 DEF AnswerClose, WindowsStay, sizeVars, objectVars, Flags
  <2>5. CASE BeginOutput \/ AskClose \/ PassClosed \/ PassOpen \/ NoFlush
    BY <2>5, ListedStayIfAllStay DEF BeginOutput, AskClose, PassClosed, PassOpen, NoFlush,
       WindowsStay, sizeVars, objectVars
  <2>6. CASE FlushSent
    BY <2>2, <2>6, ListedStayIfAllStay
       DEF FlushSent, WindowsStay, sizeVars, objectVars, Flags
  <2>7. QED
    BY <2>1, <2>3, <2>4, <2>5, <2>6, ListedStayIfAllStay DEF WindowStep
<1>4. QED  BY <1>1, <1>2, <1>3, ListedKeeps

\* A window that closes takes its body from the focus, and its buttons with it.
LEMMA CloseWithInputKeeps ==
  ASSUME InInv, Running, CloseWithInput
  PROVE  InInv'
<1> DEFINE w == This
           objs == UNION {{Body(v)} \cup Decos(v) : v \in {w}}
<1>1. WInv /\ InputTypes
  BY DEF InInv
<1>2. WInv'
  BY <1>1, CloseNowKeeps DEF CloseWithInput
<1>3. w \in Windows
  BY <1>1, ThisListed DEF WInv, CloseWithInput, CloseNow, Deciding
<1>4. /\ win' = [win EXCEPT ![w].closed = TRUE, ![w].shallClose = FALSE]
      /\ alive' = alive \ objs
      /\ UNCHANGED <<listed, drawn, device, present, maximized, keymap, level,
                     within, held, spot, mixed>>
      /\ focus' = IF focus = Body(w) THEN NoObject ELSE focus
      /\ pressed' = [pressed EXCEPT ![w] = {}]
      /\ diff' = [diff EXCEPT ![w] = 0]
      /\ unheard' = {x \in unheard : x[1] # w}
  BY DEF CloseWithInput, CloseNow, DestroyObjects, Forget, sizeVars, compositorVars, touchVars
<1>5. \A o \in Objects : o[1] \in Windows /\ (o \in objs <=> o[1] = w)
  BY <1>3 DEF Objects, Body, Decos
<1> HIDE DEF w, objs
<1>6. /\ win \in [Windows -> Flags] /\ alive \subseteq Objects
  BY <1>1, TypeParts DEF WInv, FlagTypes
<1>7. \A v \in Windows : /\ v # w => win'[v].closed = win[v].closed
                         /\ win'[w].closed
  BY <1>3, <1>4, <1>6 DEF Flags
<1>8. \A v \in Windows : /\ InList(v)' <=> InList(v)
                         /\ v # w => (Open(v)' <=> Open(v))
  BY <1>4, <1>7 DEF InList, Open, Registered
<1>9. /\ focus' \in {focus, NoObject}
      /\ focus \in Objects \cup {NoObject} /\ within \in Objects \cup {NoObject}
      /\ \A o \in Objects : o \in alive' <=> o \in alive /\ o[1] # w
  BY <1>1, <1>4, <1>5 DEF InputTypes
<1>10. FocusOK'
  <2>1. FocusListed'
    BY <1>4, <1>8, <1>9, ObjectPair DEF InInv, FocusOK, FocusListed
  <2>2. FocusExists'
    <3> SUFFICES ASSUME focus' # NoObject
                 PROVE  focus' \in alive' \/ (~IsBody(focus') /\ win'[focus'[1]].closed)
      BY DEF FocusExists, IsBody, NoObject
    <3>1. focus' = focus /\ focus \in Objects /\ focus # Body(w) /\ focus[1] \in Windows
      BY <1>4, <1>9, ObjectPair
    <3>2. CASE focus[1] = w
      BY <1>3, <1>7, <3>1, <3>2, ObjectPair
    <3>3. CASE focus[1] # w
      BY <1>7, <1>9, <3>1, <3>3 DEF InInv, FocusOK, FocusExists
    <3>4. QED  BY <3>2, <3>3
  <2>3. FocusTracks'
    <3>1. NoObject \notin alive' /\ Body(w)[1] = w
      BY <1>3, <1>4, <1>6, ObjectPair
    <3>2. QED
      BY <1>4, <1>9, <3>1 DEF InInv, FocusOK, FocusTracks
  <2>4. QED  BY <2>1, <2>2, <2>3 DEF FocusOK
<1>11. InputTypes'
  <2>1. focus' \in Objects \cup {NoObject}
    BY <1>9
  <2>2. pressed' \in [Windows -> SUBSET Controls] /\ unheard' \subseteq Windows \X Controls
    BY <1>1, <1>3, <1>4 DEF InputTypes
  <2>3. diff' \in [Windows -> (-DiffBound) .. DiffBound]
    BY <1>1, <1>3, <1>4, InputAssumption DEF InputTypes
  <2>4. QED  BY <1>1, <1>4, <2>1, <2>2, <2>3 DEF InputTypes
<1>12. PressedOK'
  <2>1. ASSUME NEW v \in Windows, NEW b \in pressed'[v]
        PROVE  Open(v)' /\ (<<v, b>> \in unheard' \/ HeldOver(v, b)')
    <3>1. v # w /\ b \in pressed[v]
      BY <1>1, <1>3, <1>4, <2>1 DEF InputTypes
    <3>2. Open(v) /\ (<<v, b>> \in unheard \/ HeldOver(v, b))
      BY <3>1 DEF InInv, PressedOK
    <3>3. QED  BY <1>4, <1>8, <3>1, <3>2 DEF HeldOver
  <2>2. \A v \in Windows : pressed'[v] \subseteq pressed[v]
    BY <1>1, <1>3, <1>4 DEF InputTypes
  <2>3. QED  BY <1>4, <2>1, <2>2 DEF InInv, PressedOK, IsBody, NoObject
<1>13. SpotOK'
  BY <1>4 DEF InInv, SpotOK
<1>14. QED  BY <1>2, <1>10, <1>11, <1>12, <1>13 DEF InInv

----------------------------------------------------------------------------
(* The theorems *)

LEMMA InputInitHolds ==
  ASSUME InputInit
  PROVE  InInv
<1>1. WInv
  BY WindowInitHolds DEF InputInit
<1>2. InputTypes
  <2>1. pressed \in [Windows -> SUBSET Controls]
    BY DEF InputInit
  <2>2. diff \in [Windows -> (-DiffBound) .. DiffBound]
    BY InputAssumption DEF InputInit
  <2>3. QED  BY <2>1, <2>2, InputAssumption DEF InputInit, InputTypes
<1>3. FocusOK /\ PressedOK /\ SpotOK
  <2>1. NoObject \notin alive
    BY DEF InputInit, WindowInit
  <2>2. QED
    BY <2>1 DEF InputInit, FocusOK, FocusListed, FocusExists, FocusTracks, PressedOK,
                SpotOK
<1>4. QED  BY <1>1, <1>2, <1>3 DEF InInv

LEMMA InputNextKeeps ==
  ASSUME InInv, [InputNext]_<<windowVars, inputVars>>
  PROVE  InInv'
<1>1. CASE InputNext
  BY <1>1, WindowStepKeeps, CloseWithInputKeeps, SeatStepKeeps DEF InputNext
<1>2. CASE UNCHANGED <<windowVars, inputVars>>
  <2>1. KeepWindows /\ WInv /\ UNCHANGED inputVars
    BY <1>2 DEF KeepWindows, InInv
  <2>2. QED
    BY <2>1, KeepWindowsKeeps, ListedStayIfAllStay, ListedKeeps
<1>3. QED  BY <1>1, <1>2

LEMMA InputInvariance == InputSpec => []InInv
<1>1. InputInit => InInv
  BY InputInitHolds
<1>2. InInv /\ [InputNext]_<<windowVars, inputVars>> => InInv'
  BY InputNextKeeps
<1>3. QED  BY <1>1, <1>2, PTL DEF InputSpec

\* The input's variables keep the values that their C types and their use in
\* wayland.c allow, those of the windows included.
THEOREM InputTypeCorrect == InputSpec => []InputTypeOK
<1>1. InInv => InputTypeOK
  BY DEF InInv, WInv, InputTypes, InputTypeOK
<1>2. QED  BY <1>1, InputInvariance, PTL

\* pointer_obj, touch_obj and keyboard_obj never point to a freed body: what
\* they may be left with is a decoration of a closed window.
THEOREM FocusIsThere == InputSpec => []FocusExists
<1>1. InInv => FocusExists
  BY DEF InInv, FocusOK
<1>2. QED  BY <1>1, InputInvariance, PTL

\* A button, a key, or an event of a finger that is alone on the screen reaches the
\* surface that the compositor means, however many windows are opened and closed.
\* With several fingers it reaches the surface that was touched last, or none.
THEOREM FocusFollows == InputSpec => []FocusTracks
<1>1. InInv => FocusTracks
  BY DEF InInv, FocusOK
<1>2. QED  BY <1>1, InputInvariance, PTL

\* A button, a finger or a key that a window has as pressed is held over that
\* window, which is open.  Excepted are the presses in `unheard`, which do stay:
\* those whose release is not sent (a leave, a cancelled touch, an unplugged
\* device), means nothing, or is one of several fingers' and taken for another's.
THEOREM NothingSticks == InputSpec => []PressedIsHeld
<1>1. InInv => PressedIsHeld
  BY DEF InInv, PressedOK, PressedIsHeld
<1>2. QED  BY <1>1, InputInvariance, PTL

============================================================================
