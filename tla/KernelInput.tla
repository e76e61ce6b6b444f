----------------------------- MODULE KernelInput -----------------------------
(***************************************************************************)
(* Input devices of the Linux kernel, read with evdev (indev/evdev.c) or   *)
(* with libinput (indev/libinput.c), and what xkb (indev/xkb.c) makes of   *)
(* their keys.                                                             *)
(*                                                                         *)
(* Both drivers keep one key, one state and one point, drain the events of *)
(* a device into them when LVGL reads, and report what is left.  A         *)
(* behaviour has one `driver` and one `kind` of device, chosen at the      *)
(* start, as is what the build and the device can do.  `held` is the       *)
(* user's hand, `queue` what the kernel has yet to give.                   *)
(*                                                                         *)
(* The third driver, "scan", is libinput_find_dev, which shares no state   *)
(* with the reading.                                                       *)
(***************************************************************************)
EXTENDS Integers, Sequences, SequencesExt, FiniteSets

CONSTANTS
  Keys,        \* the keys of the keyboard
  Shift,       \* the one that is a modifier
  Fingers,     \* the fingers that may touch a screen
  Meaning,     \* Meaning[c][l]: LVGL's key for c, 0 if none, at level l
  Hor, Ver,    \* the resolution of the display
  Phys,        \* Phys[i]: its physical resolution, offset Offset[i]
  Offset,
  Declared,    \* the calibration that evdev_init asks for: Declared.hor,
               \* Declared.ver, each <<min, max>>
  Paths,       \* the files in /dev/input, in their order
  QueueBound, MeantBound, \* bounds of a queue and of a history
  DriftBound,  \* bounds how far a mouse moves past the screen
  KernelFaults \* what may fail, a subset of KernelFaultKinds

KernelFaultKinds == {"open",   \* a device cannot be added
                     "keymap", \* the keymap cannot be compiled
                     "malloc"} \* memory for the list of devices

ASSUME KernelInputAssumption ==
  /\ IsFiniteSet(Keys) /\ Keys \cap {"left", "right"} = {}
  /\ IsFiniteSet(Fingers) /\ Fingers \cap (Keys \cup {"left", "right"}) = {}
  /\ Shift \in Keys /\ Meaning \in [Keys -> [0 .. 1 -> Nat]]
  /\ Hor \in Nat \ {0} /\ Ver \in Nat \ {0}
  /\ Phys \in [1 .. 2 -> Nat \ {0}] /\ Offset \in [1 .. 2 -> Nat]
  /\ QueueBound \in Nat \ {0} /\ MeantBound \in Nat /\ DriftBound \in Nat
  /\ Declared.hor \in Nat \X Nat /\ Declared.ver \in Nat \X Nat
  /\ Paths \in Seq(STRING)
  /\ KernelFaults \subseteq KernelFaultKinds

VARIABLES
  driver,    \* "evdev", "libinput" or "scan"
  kind,      \* "keyboard", "mouse" or "touchscreen"
  useXkb,    \* USE_XKB
  touchKey,  \* the touchscreen tells of BTN_TOUCH
  started,   \* evdev_init or libinput_init_state has been called
  opened,    \* fd >= 0, or libinput_device is not NULL
  polled,    \* state->fds is set (libinput)
  mapped,    \* the xkb state is not NULL
  shifted,   \* and believes that Shift is down
  cal,       \* the calibration: [hor, ver]
  reading,   \* a read callback drains events, "stop"s at one, or neither: "no"
  key, state, point, \* dsc->key, state and root, or those of libinput's state
  held,      \* the keys or buttons held down, or the fingers on the screen
  queue,     \* the events not yet read
  touches,   \* the touches of the device so far are none, one or "many"
  lifted,    \* a finger was lifted since which others have stayed on the screen
  unheard,   \* keys whose release meant nothing
  meant,     \* history: what every key event with a meaning meant
  told,      \* history: what evdev_read told LVGL when it stopped at a key
  dead,      \* a key was processed without a keymap
  at,        \* the entry of /dev/input that is being scanned, 0 if none is
  cache, room, \* libinput's devices: their paths, and the space they have
  found      \* the paths the application got since the last forced search

deviceVars == <<driver, kind, useXkb, touchKey>>
openVars   == <<started, opened, polled, mapped, cal>>
stateVars  == <<key, state, point, shifted, unheard, meant, told, dead>>
handVars   == <<held, queue, touches, lifted>>
scanVars   == <<at, cache, room, found>>
kernelInputVars == <<deviceVars, openVars, stateVars, handVars, reading, scanVars>>

Origin == <<0, 0>>

----------------------------------------------------------------------------
(* Opening a device *)

\* evdev_device_set_calibration, whose parameters the definition names in
\* another order than the declaration.
SetCalibration(a, b, c, d) ==
  cal' = [ver |-> <<a, c>>, hor |-> <<b, d>>]

\* What a device that is opened begins with.
ResetState == key' = 0 /\ state' = "REL"

\* evdev_device_set_file: what was queued is lost with the former descriptor, and
\* xkb is not told. Nothing is held down on a device that is opened.
EvdevSetFile(ok) ==
  /\ ResetState /\ point' = Origin
  /\ opened' = ok
  /\ queue' = <<>> /\ held' = {} /\ unheard' = {} /\ lifted' = FALSE

\* libinput_set_file_state: libinput releases what was held, and a device that
\* cannot be added leaves the state as it was.
Releases == SetToSeq({<<"key", c, FALSE>> : c \in held \cap Keys}
                     \cup {<<"button", b, FALSE>> : b \in held \cap {"left", "right"}}
                     \cup {<<"lift", f>> : f \in held \cap Fingers})

LibinputSetFile(ok) ==
  /\ opened' = ok
  /\ IF ok THEN ResetState ELSE UNCHANGED <<key, state>>
  /\ queue' = queue \o Releases /\ held' = {} /\ lifted' = FALSE
  /\ UNCHANGED <<point, unheard>>

\* The touches of a device before it is opened.
TouchedBefore == IF kind = "touchscreen" THEN {"none", "many"} ELSE {"none"}

MayFail(f) == IF f \in KernelFaults THEN BOOLEAN ELSE {TRUE}

\* evdev_init, or libinput_init_state, which gives up before the descriptor is
\* polled and the keymap made.
Begin(ok, map) ==
  /\ driver # "scan" /\ ~started
  /\ started' = TRUE
  /\ IF driver = "evdev"
       THEN /\ SetCalibration(Declared.hor[1], Declared.ver[1],
                              Declared.hor[2], Declared.ver[2])
            /\ EvdevSetFile(ok)
            /\ mapped' = map /\ UNCHANGED polled
       ELSE /\ LibinputSetFile(ok)
            /\ polled' = ok /\ mapped' = (ok /\ map) /\ UNCHANGED cal
  /\ UNCHANGED <<deviceVars, shifted, meant, told, dead, touches, reading, scanVars>>

\* evdev_set_file or libinput_set_file, later on: the same device, whose touches are
\* numbered as before, or another.
SetFile(ok) ==
  /\ started /\ reading = "no" /\ Len(queue) <= QueueBound
  /\ IF driver = "evdev" THEN EvdevSetFile(ok) ELSE LibinputSetFile(ok)
  /\ touches' \in {touches} \cup TouchedBefore
  /\ UNCHANGED <<deviceVars, started, polled, mapped, cal, shifted, meant, told,
                 dead, reading, scanVars>>

\* libinput_deinit_state.
Deinit ==
  /\ driver = "libinput" /\ started /\ reading = "no"
  /\ started' = FALSE /\ opened' = FALSE /\ polled' = FALSE
  /\ mapped' = FALSE /\ shifted' = FALSE
  /\ key' = 0 /\ state' = "REL" /\ point' = Origin
  /\ queue' = <<>> /\ held' = {} /\ unheard' = {} /\ lifted' = FALSE
  /\ UNCHANGED <<deviceVars, touches, cal, meant, told, dead, reading, scanVars>>

----------------------------------------------------------------------------
(* The user *)

Raw == (0 .. Phys[1] - 1) \X (0 .. Phys[2] - 1)

\* What is held after an event, the events that are queued, and the touches. That of
\* a touch has the place, whether the tracking id is zero, which only the device's
\* first touch has, and whether the screen was not touched: the kernel sends
\* BTN_TOUCH for the first finger that comes and the last that goes, and a tracking
\* id of -1 for every one that goes.
Act(now, events, t) ==
  /\ opened /\ Len(queue) < QueueBound
  /\ reading # "no" => driver = "evdev"
  /\ held' = now /\ queue' = queue \o events /\ touches' = t
  /\ lifted' = (now # {} /\ (lifted \/ \E f \in Fingers : f \in held \ now))
  /\ UNCHANGED <<deviceVars, openVars, stateVars, reading, scanVars>>

Toggled(x) == IF x \in held THEN held \ {x} ELSE held \cup {x}

User ==
  \/ /\ kind = "keyboard" /\ Len(meant) + Len(queue) < MeantBound
     /\ \/ \E c \in Keys : Act(Toggled(c), <<<<"key", c, c \notin held>>>>, touches)
        \/ /\ driver = "evdev" \* libinput does not repeat keys
           /\ \E c \in held : Act(held, <<<<"key", c, TRUE>>>>, touches)
  \/ /\ kind = "mouse"
     /\ \/ \E b \in {"left", "right"} :
             Act(Toggled(b), <<<<"button", b, b \notin held>>>>, touches)
        \/ \E d \in {-1, 1} :
             /\ point[1] + d \in -DriftBound .. Hor - 1 + DriftBound
             /\ Act(held, <<<<"rel", d>>>>, touches)
  \/ /\ kind = "touchscreen"
     /\ \/ \E f \in Fingers \ held, p \in Raw :
             Act(held \cup {f}, <<<<"touch", f, p, touches = "none", held = {}>>>>,
                 IF touches = "none" THEN "one" ELSE "many")
        \/ \E f \in held : Act(held \ {f}, <<<<"lift", f>>>>, touches)

----------------------------------------------------------------------------
(* Reading *)

Level == IF useXkb /\ shifted THEN 1 ELSE 0

\* xkb_process_key_state, or the switch of the drivers: what key c means now.
KeyOf(c) == Meaning[c][Level]

\* xkb_state_update_key.
Shifting(e) == shifted' = IF useXkb /\ e[2] = Shift THEN e[3] ELSE shifted

\* The state that an event with a meaning leaves.
StateOf(down) == IF down THEN "PR" ELSE "REL"

\* The key event e is handled: a key without a meaning leaves the state alone,
\* but not the key.
TakeKey(e) ==
  LET k == KeyOf(e[2])
  IN  /\ key' = k
      /\ Shifting(e)
      /\ IF k # 0
           THEN /\ state' = StateOf(e[3])
                /\ meant' = Append(meant, <<k, StateOf(e[3])>>)
                /\ unheard' = {}
           ELSE /\ UNCHANGED <<state, meant>>
                /\ unheard' = IF e[3] THEN unheard ELSE unheard \cup {e[2]}
      /\ UNCHANGED point

Clamp(v, lo, hi) == IF v < lo THEN lo ELSE IF v > hi THEN hi ELSE v

\* libinput's read_pointer: a point at the edge, Hor or Ver, counts as on the
\* screen, and the buttons are not told apart.
InBounds(p) == /\ 0 <= p[1] - Offset[1] /\ p[1] - Offset[1] <= Hor
               /\ 0 <= p[2] - Offset[2] /\ p[2] - Offset[2] <= Ver
LibinputPointer(e) ==
  \/ e[1] = "touch" /\ IF InBounds(e[3])
                         THEN /\ point' = <<e[3][1] - Offset[1], e[3][2] - Offset[2]>>
                              /\ state' = "PR"
                         ELSE UNCHANGED <<point, state>>
  \/ e[1] = "lift" /\ state' = "REL" /\ UNCHANGED point
  \/ /\ e[1] = "rel" /\ UNCHANGED state
     /\ point' = <<Clamp(point[1] + e[2], 0, Hor - 1), point[2]>>
  \/ e[1] = "button" /\ state' = StateOf(e[3]) /\ UNCHANGED point

\* evdev_read is told of a press by BTN_TOUCH or by a tracking id of zero.
Presses(e) == e[1] = "touch" /\ (e[4] \/ (touchKey /\ e[5]))

\* Mutant of EvdevPointer: only BTN_TOUCH tells that the finger is lifted.
EvdevPointerNoId(e) ==
  \/ e[1] = "touch" /\ point' = e[3]
     /\ state' = IF Presses(e) THEN "PR" ELSE state
  \/ e[1] = "lift" /\ state' = (IF touchKey THEN "REL" ELSE state) /\ UNCHANGED point
  \/ e[1] = "rel" /\ point' = <<point[1] + e[2], point[2]>> /\ UNCHANGED state
  \/ e[1] = "button" /\ UNCHANGED point
     /\ state' = IF e[2] = "left" THEN StateOf(e[3]) ELSE state

\* evdev_read: the lifting of any finger is a release; a mouse's motion adds up past
\* the edge of the screen.
EvdevPointer(e) ==
  \/ e[1] = "touch" /\ point' = e[3]
     /\ state' = IF Presses(e) THEN "PR" ELSE state
  \/ e[1] = "lift" /\ state' = "REL" /\ UNCHANGED point
  \/ e[1] = "rel" /\ point' = <<point[1] + e[2], point[2]>> /\ UNCHANGED state
  \/ e[1] = "button" /\ UNCHANGED point
     /\ state' = IF e[2] = "left" THEN StateOf(e[3]) ELSE state

\* A read begins: a descriptor that is not polled has nothing.
BeginRead ==
  /\ started /\ reading = "no" /\ queue # <<>>
  /\ IF driver = "evdev" THEN opened ELSE polled
  /\ reading' = "drain"
  /\ UNCHANGED <<deviceVars, openVars, stateVars, handVars, scanVars>>

\* Mutant of Ends: evdev_read does not stop at a key.
EndsNever(e) == FALSE

\* evdev_read stops at a key that means something, and asks to be called again.
Ends(e) == driver = "evdev" /\ KeyOf(e[2]) # 0

\* One turn of the loop that drains the queue.
TakeEvent ==
  LET e == Head(queue)
  IN  /\ reading = "drain" /\ queue # <<>>
      /\ queue' = Tail(queue)
      /\ IF e[1] = "key"
           THEN IF useXkb /\ ~mapped
                  THEN dead' = TRUE
                       /\ UNCHANGED <<key, state, point, shifted, unheard, meant,
                                      reading>>
                  ELSE /\ TakeKey(e)
                       /\ reading' = IF Ends(e) THEN "stop" ELSE "drain"
                       /\ UNCHANGED dead
           ELSE /\ IF driver = "evdev" THEN EvdevPointer(e) ELSE LibinputPointer(e)
                /\ UNCHANGED <<key, shifted, unheard, meant, dead, reading>>
      /\ UNCHANGED <<deviceVars, openVars, held, touches, lifted, told, scanVars>>

\* The queue is empty, or the loop was left: LVGL is told what there is.
EndRead ==
  /\ reading = "stop" \/ (reading = "drain" /\ queue = <<>>)
  /\ reading' = "no"
  /\ told' = IF reading = "stop" THEN Append(told, <<key, state>>) ELSE told
  /\ UNCHANGED <<deviceVars, openVars, key, state, point, shifted, unheard, meant,
                 dead, handVars, scanVars>>

----------------------------------------------------------------------------
(* What LVGL is told of the point *)

\* Division in C.
Quotient(a, b) == LET q(x, y) == IF x >= 0 THEN x \div y ELSE -((-x) \div y)
                  IN  IF b > 0 THEN q(a, b) ELSE q(-a, -b)

\* _evdev_calibrate, to 0 .. max.
Calibrate(v, in, max) ==
  Clamp(IF in[1] # in[2] THEN Quotient((v - in[1]) * max, in[2] - in[1]) ELSE v,
        0, max)

\* _evdev_process_pointer, without swapped axes.
ProcessPointer(p) == <<Calibrate(p[1], cal.hor, Hor - 1), Calibrate(p[2], cal.ver, Ver - 1)>>

----------------------------------------------------------------------------
(* libinput_find_devs *)

\* Mutant of Rescans: whenever the cache is not full.
RescansMore(force) == force \/ Len(cache) < Len(Paths)

\* When the cache is empty it is searched for, and whenever that is asked.
Rescans(force) == force \/ cache = <<>>

\* reset_scanned_devices.
Reset == cache' = <<>> /\ room' = 0

\* The application gets the paths of the devices that can do what it wants.
Return == \E S \in SUBSET Range(cache) : found' = found \cup S

FindDevs(force) ==
  /\ driver = "scan" /\ at = 0
  /\ IF Rescans(force)
       THEN /\ Reset /\ at' = 1
            /\ found' = IF force THEN {} ELSE found
       ELSE Return /\ UNCHANGED <<at, cache, room>>
  /\ UNCHANGED <<deviceVars, openVars, stateVars, handVars, reading>>

\* add_scanned_device makes room for 2n + 1 devices when n & (n + 1) is zero: when
\* n + 1 is a power of two, which no odd number but 1 divides.
Grows(n) == \A d \in 1 .. n : (n + 1) % (2 * d + 1) # 0

\* One turn of rescan_devices: an entry is left out when it cannot be added or can
\* do nothing, and without the directory or memory all of them are.
ScanEntry ==
  /\ at \in DOMAIN Paths
  /\ \/ UNCHANGED <<cache, room>> /\ at' = at + 1
     \/ /\ cache' = Append(cache, Paths[at]) /\ at' = at + 1
        /\ room' = IF Grows(Len(cache)) THEN 2 * Len(cache) + 1 ELSE room
     \/ "malloc" \in KernelFaults /\ Reset /\ at' = 0
  /\ UNCHANGED <<deviceVars, openVars, stateVars, handVars, reading, found>>

ScanEnd ==
  /\ at = Len(Paths) + 1
  /\ at' = 0 /\ Return
  /\ UNCHANGED <<deviceVars, openVars, stateVars, handVars, reading, cache, room>>

----------------------------------------------------------------------------

KernelInputInit ==
  /\ driver \in {"evdev", "libinput", "scan"}
  /\ kind \in {"keyboard", "mouse", "touchscreen"}
  /\ useXkb \in BOOLEAN /\ (useXkb => kind = "keyboard")
  /\ touchKey \in BOOLEAN /\ (~touchKey => kind = "touchscreen" /\ driver = "evdev")
  /\ started = FALSE /\ opened = FALSE /\ polled = FALSE /\ mapped = FALSE
  /\ shifted = FALSE
  /\ cal = [hor |-> Origin, ver |-> Origin]
  /\ reading = "no" /\ dead = FALSE
  /\ key = 0 /\ state = "REL" /\ point = Origin
  /\ held = {} /\ queue = <<>> /\ touches \in TouchedBefore /\ lifted = FALSE
  /\ unheard = {}
  /\ meant = <<>> /\ told = <<>>
  /\ at = 0 /\ cache = <<>> /\ room = 0 /\ found = {}

\* The program ends with the first key it processes without a keymap.
KernelInputNext ==
  /\ ~dead
  /\ \/ \E ok \in MayFail("open"), map \in MayFail("keymap") : Begin(ok, map)
     \/ \E ok \in MayFail("open") : SetFile(ok)
     \/ Deinit \/ User \/ BeginRead \/ TakeEvent \/ EndRead
     \/ \E force \in BOOLEAN : FindDevs(force)
     \/ ScanEntry \/ ScanEnd

KernelInputSpec == KernelInputInit /\ [][KernelInputNext]_kernelInputVars

----------------------------------------------------------------------------
(* Properties *)

\* The type invariant.
KernelInputTypeOK ==
  /\ driver \in {"evdev", "libinput", "scan"}
  /\ kind \in {"keyboard", "mouse", "touchscreen"}
  /\ {useXkb, touchKey, started, opened, polled, mapped, shifted, dead, lifted}
       \subseteq BOOLEAN
  /\ reading \in {"no", "drain", "stop"}
  /\ cal.hor \in Nat \X Nat /\ cal.ver \in Nat \X Nat
  /\ key \in Nat /\ state \in {"PR", "REL"} /\ point \in Int \X Int
  /\ held \subseteq Keys \cup {"left", "right"} \cup Fingers
  /\ touches \in {"none", "one", "many"} /\ unheard \subseteq Keys
  /\ {meant, told} \subseteq Seq(Nat \X {"PR", "REL"})
  /\ at \in 0 .. Len(Paths) + 1 /\ room \in Nat
  /\ Range(cache) \cup found \subseteq Range(Paths)

\* However the kernel's queue and LVGL's reads alternate, evdev tells LVGL of every
\* key event with a meaning, in their order and with what they meant.
EveryKeyTold ==
  driver = "evdev" => meant = told \o (IF reading = "stop" THEN <<Last(meant)>> ELSE <<>>)

\* Once the events are drained nothing stays pressed that is not held, but for a
\* key whose release meant nothing at the level it came at. evdev follows the left
\* button, and takes a screen to be pressed as long as the fingers on it have all
\* stayed, if it was told of BTN_TOUCH or of a tracking id of zero; of a finger that
\* stays when another is lifted nothing is promised, nor of libinput's touches.
Settled ==
  queue = <<>> /\ ~dead =>
    /\ state = "PR" => held # {} \/ unheard # {}
    /\ driver = "evdev" /\ kind = "mouse" => (state = "PR" <=> "left" \in held)
    /\ driver = "evdev" /\ held \cap Fingers # {} /\ ~lifted /\ (touchKey \/ touches = "one")
         => state = "PR"

\* libinput_find_devs never writes past the list it has allocated, and a path it
\* has returned is not freed before the next forced search.
ScanSound ==
  /\ Len(cache) <= room
  /\ found \subseteq Range(cache)

\* The calibration is what evdev.h says of evdev_device_set_calibration: the
\* smallest pointer coordinates are mapped to 0, the largest to the edges.
CalibratedAsDeclared ==
  driver = "evdev" /\ started =>
    /\ ProcessPointer(<<Declared.hor[1], Declared.ver[1]>>) = Origin
    /\ ProcessPointer(<<Declared.hor[2], Declared.ver[2]>>) = <<Hor - 1, Ver - 1>>

============================================================================
