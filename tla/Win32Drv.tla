------------------------------ MODULE Win32Drv ------------------------------
(***************************************************************************)
(* The Win32 driver (win32drv/win32drv.c): lv_win32_init, which starts the *)
(* window's thread and waits for it; the messages that thread handles,     *)
(* from WM_CREATE to WM_DESTROY; and the callbacks by which LVGL's thread  *)
(* reads what they leave in the window's context.                          *)
(*                                                                         *)
(* The queue of keys is a stack (SLIST).  When it is empty LVGL takes the  *)
(* last key to be released; of reports of a pressed key it takes the first *)
(* after a released one for a new key, and it reads on while               *)
(* continue_reading is set.  Positions and painting are left out.          *)
(***************************************************************************)
EXTENDS Integers, Sequences, SequencesExt, FiniteSets

CONSTANTS
  VirtualKeys, \* keys that WM_KEYDOWN and WM_KEYUP know
  Letters,     \* characters of one UTF-16 unit
  High, Low,   \* surrogates
  StackBound,  \* bounds the queue of keys
  LetterBound, \* bounds the characters
  Win32Faults  \* what may fail, a subset of Win32FaultKinds

Win32FaultKinds == {"class",  \* the window class cannot be registered
                    "thread", \* the thread cannot be started
                    "window", \* the window, or what WM_CREATE needs, cannot be had
                    "malloc"} \* a key finds no memory

ASSUME Win32Assumption ==
  /\ StackBound \in Nat /\ LetterBound \in Nat
  /\ Win32Faults \subseteq Win32FaultKinds
  /\ Letters \cap (High \cup Low \cup VirtualKeys) = {} /\ High \cap Low = {}

Devices32 == {"display", "mouse", "mousewheel", "keyboard"}

VARIABLES
  app,       \* lv_win32_init: "start", "wait", "woken", or what it returned
  window,    \* the window's thread: "none", "start", "created", "loop", "done"
  eventSet,  \* window_mutex, an event, is set
  context,   \* the window's context: "none", "live", "leaked" or "freed"
  registered,\* the devices that LVGL has of it
  published, \* lv_win32_*_device_object are those of the context
  quitSignal,\* lv_win32_quit_signal
  stack,     \* keyboard_queue, its top first: <<key, "PR" or "REL">>, a key being the
             \* tuple of its units
  high, low, \* keyboard_utf16_high_surrogate and low, 0 if none
  encDiff,   \* mousewheel_enc_diff
  mouse, wheelBtn, \* mouse_state and mousewheel_state
  callback,  \* the callback that has the context: "none", "key", "wheel", "reset"
  onward,    \* continue_reading was set
  pressed32, \* LVGL's last report of a key was of a pressed one
  queued, typed32, \* history, since LVGL last found the queue empty: the presses that
             \* were queued, and the keys LVGL took as new
  merged,    \* history: and two presses were queued next to each other
  freedUse   \* a callback used a context that had been freed

startVars == <<app, window, eventSet, registered, published, quitSignal>>
keyVars   == <<stack, high, low>>
wheelVars == <<encDiff, mouse, wheelBtn>>
readVars  == <<callback, onward, pressed32, typed32, freedUse>>
win32Vars == <<startVars, context, keyVars, wheelVars, readVars, queued, merged>>

MayFail32(f) == IF f \in Win32Faults THEN BOOLEAN ELSE {TRUE}

----------------------------------------------------------------------------
(* lv_win32_init, and the thread it starts *)

\* The class is registered and the thread started, whether that succeeds or not.
InitStart(class, thread) ==
  /\ app = "start"
  /\ app' = IF class THEN "wait" ELSE "false"
  /\ window' = IF class /\ thread THEN "start" ELSE window
  /\ UNCHANGED <<eventSet, registered, published, quitSignal, context, keyVars,
                 wheelVars, readVars, queued, merged>>

\* What lv_win32_window_message_callback does on WM_CREATE: LVGL's devices are
\* registered one by one and the context is set last; where a step fails what was
\* done so far stays done.
OnCreate(ok) ==
  \/ ok /\ registered' = Devices32 /\ context' = "live"
  \/ /\ ~ok
     /\ registered' \in {{}, {"display"}, {"display", "mouse"},
                         {"display", "mouse", "mousewheel"}, Devices32}
     /\ context' = IF registered' = {} THEN "none" ELSE "leaked"

\* lv_win32_create_display_window in lv_win32_window_thread_entrypoint, which
\* returns when it fails.
CreateWindow32(ok) ==
  /\ window = "start"
  /\ OnCreate(ok)
  /\ window' = IF ok THEN "created" ELSE "done"
  /\ UNCHANGED <<app, eventSet, published, quitSignal, keyVars, wheelVars, readVars,
                 queued, merged>>

\* Mutant of SignalCreated: the event is not set.
SignalNothing ==
  /\ window = "created"
  /\ window' = "loop" /\ UNCHANGED eventSet
  /\ UNCHANGED <<app, registered, published, quitSignal, context, keyVars,
                 wheelVars, readVars, queued, merged>>

SignalCreated ==
  /\ window = "created"
  /\ window' = "loop" /\ eventSet' = TRUE
  /\ UNCHANGED <<app, registered, published, quitSignal, context, keyVars,
                 wheelVars, readVars, queued, merged>>

\* lv_win32_init is woken, and finds the context or not.
InitWoken ==
  /\ app = "wait" /\ eventSet
  /\ app' = IF context = "live" THEN "true" ELSE "false"
  /\ published' = (context = "live")
  /\ UNCHANGED <<window, eventSet, registered, quitSignal, context, keyVars,
                 wheelVars, readVars, queued, merged>>

----------------------------------------------------------------------------
(* Messages.  Without a context they do nothing. *)

Message == window = "loop" /\ context = "live"

IsPress(item) == item[2] = "PR"

\* LVGL will be told of two presses with no release between them: two in stack s, or
\* that on its top after the one it has just been told of, reading on.
Adjacent(s) ==
  \/ onward /\ pressed32 /\ s # <<>> /\ IsPress(s[1])
  \/ \E i \in 1 .. Len(s) - 1 : IsPress(s[i]) /\ IsPress(s[i + 1])

\* lv_win32_push_key_to_keyboard_queue, of those of the items in s that find memory,
\* the first first.
Push(s) ==
  /\ stack' = Reverse(s) \o stack
  /\ merged' = (merged \/ Adjacent(stack'))

\* The items that find memory, of one that may.
Allocated(item) == {<<item>>} \cup (IF "malloc" \in Win32Faults THEN {<<>>} ELSE {})

\* WM_KEYDOWN and WM_KEYUP.
OnKey(k, down) ==
  /\ Message /\ Len(stack) < StackBound /\ Len(queued) < LetterBound
  /\ \E item \in Allocated(<<<<k>>, IF down THEN "PR" ELSE "REL">>) :
       /\ Push(item)
       /\ queued' = IF down /\ item # <<>> THEN Append(queued, <<k>>) ELSE queued
  /\ UNCHANGED <<startVars, context, high, low, wheelVars, readVars>>

\* The surrogates after unit c: when both are there they make one code point and
\* are forgotten.
PairAfter(c) ==
  LET h == IF c \in High THEN c ELSE high
      l == IF c \in Low THEN c ELSE low
  IN  IF h # 0 /\ l # 0 THEN [high |-> 0, low |-> 0, point |-> <<h, l>>]
      ELSE [high |-> h, low |-> l, point |-> <<c>>]

\* WM_CHAR: the character is pressed and released; a surrogate that is alone so far
\* is a character too.
OnChar(c) ==
  LET p == PairAfter(c)
  IN  /\ Message /\ Len(stack) < StackBound /\ Len(queued) < LetterBound
      /\ high' = p.high /\ low' = p.low
      /\ \E press \in Allocated(<<p.point, "PR">>), release \in Allocated(<<p.point, "REL">>) :
           /\ Push(press \o release)
           /\ queued' = IF press # <<>> THEN Append(queued, p.point) ELSE queued
      /\ UNCHANGED <<startVars, context, wheelVars, readVars>>

\* WM_MOUSEWHEEL: a turn replaces one that was not read.
OnWheel(d) ==
  /\ Message
  /\ encDiff' = -d
  /\ UNCHANGED <<startVars, context, keyVars, mouse, wheelBtn, readVars, queued, merged>>

\* WM_LBUTTONDOWN and the like, and WM_TOUCH.
OnButton(b, s) ==
  /\ Message
  /\ IF b = "left" THEN mouse' = s /\ UNCHANGED wheelBtn
                   ELSE wheelBtn' = s /\ UNCHANGED mouse
  /\ UNCHANGED <<startVars, context, keyVars, encDiff, readVars, queued, merged>>

\* WM_DESTROY: the devices go first, then the queue and the context, though LVGL's
\* thread may be in a callback.
OnDestroy ==
  /\ Message
  /\ registered' = {} /\ context' = "freed"
  /\ stack' = <<>>
  /\ UNCHANGED <<app, window, eventSet, published, quitSignal, high, low,
                 wheelVars, readVars, queued, merged>>

\* WM_QUIT ends the loop.
OnQuit ==
  /\ window = "loop" /\ context = "freed"
  /\ window' = "done" /\ quitSignal' = TRUE
  /\ UNCHANGED <<app, eventSet, registered, published, context, keyVars, wheelVars,
                 readVars, queued, merged>>

----------------------------------------------------------------------------
(* LVGL's callbacks *)

\* A callback gets the context; without one it reports a released key.
BeginCallback(cb) ==
  /\ app = "true" /\ callback = "none"
  /\ onward => cb = "key"
  /\ IF context = "live"
       THEN callback' = cb /\ UNCHANGED <<onward, pressed32>>
       ELSE onward' = FALSE /\ pressed32' = FALSE /\ UNCHANGED callback
  /\ UNCHANGED <<startVars, context, keyVars, wheelVars, typed32, freedUse, queued,
                 merged>>

\* A callback uses a context that WM_DESTROY has freed.
UseFreedContext ==
  /\ callback # "none" /\ context = "freed"
  /\ freedUse' = TRUE /\ callback' = "none"
  /\ UNCHANGED <<startVars, context, keyVars, wheelVars, onward, pressed32, typed32,
                 queued, merged>>

\* The top of the queue is popped, if it is not empty.
Popped ==
  /\ callback = "key" /\ context = "live"
  /\ callback' = "none"
  /\ \/ /\ stack = <<>> /\ pressed32' = FALSE /\ UNCHANGED stack
        /\ queued' = <<>> /\ typed32' = <<>> /\ merged' = FALSE
     \/ /\ stack # <<>> /\ stack' = Tail(stack)
        /\ pressed32' = IsPress(Head(stack))
        /\ typed32' = IF IsPress(Head(stack)) /\ ~pressed32
                        THEN Append(typed32, Head(stack)[1]) ELSE typed32
        /\ UNCHANGED <<queued, merged>>
  /\ UNCHANGED <<startVars, context, high, low, wheelVars, freedUse>>

\* Mutant of PopKey: LVGL is not asked to read again.
PopKeyOnce == Popped /\ onward' = FALSE

\* lv_win32_keypad_driver_read_callback, which is called again until the queue is
\* empty.
PopKey == Popped /\ onward' = (stack # <<>>)

\* lv_win32_encoder_driver_read_callback reads the turns ...
ReadWheel ==
  /\ callback = "wheel" /\ context = "live"
  /\ callback' = "reset"
  /\ UNCHANGED <<startVars, context, keyVars, wheelVars, onward, pressed32, typed32,
                 freedUse, queued, merged>>

\* ... and then resets them.
ResetWheel ==
  /\ callback = "reset" /\ context = "live"
  /\ callback' = "none" /\ encDiff' = 0
  /\ UNCHANGED <<startVars, context, keyVars, mouse, wheelBtn, onward, pressed32,
                 typed32, freedUse, queued, merged>>

----------------------------------------------------------------------------

Win32Init ==
  /\ app = "start" /\ window = "none" /\ eventSet = FALSE
  /\ context = "none" /\ registered = {} /\ published = FALSE /\ quitSignal = FALSE
  /\ stack = <<>> /\ high = 0 /\ low = 0
  /\ encDiff = 0 /\ mouse = "REL" /\ wheelBtn = "REL"
  /\ callback = "none" /\ onward = FALSE /\ pressed32 = FALSE
  /\ queued = <<>> /\ typed32 = <<>> /\ merged = FALSE /\ freedUse = FALSE

StartStep ==
  \/ \E class \in MayFail32("class"), thread \in MayFail32("thread") :
       InitStart(class, thread)
  \/ \E ok \in MayFail32("window") : CreateWindow32(ok)
  \/ SignalCreated \/ InitWoken

KeyStep ==
  \/ \E k \in VirtualKeys, down \in BOOLEAN : OnKey(k, down)
  \/ \E c \in Letters \cup High \cup Low : OnChar(c)
  \/ BeginCallback("key") \/ PopKey

MouseStep ==
  \/ \E d \in {-1, 1} : OnWheel(d)
  \/ \E b \in {"left", "middle"}, s \in {"PR", "REL"} : OnButton(b, s)
  \/ BeginCallback("wheel") \/ ReadWheel \/ ResetWheel

EndStep == OnDestroy \/ OnQuit \/ UseFreedContext

\* The keys, and the mouse and its wheel, share only the context.
Win32KeyNext == ~freedUse /\ (StartStep \/ KeyStep \/ EndStep)
Win32MouseNext == ~freedUse /\ (StartStep \/ MouseStep \/ EndStep)

Win32Next == Win32KeyNext \/ Win32MouseNext

\* The threads run.
Win32Fair == WF_win32Vars(StartStep)

Win32Spec == Win32Init /\ [][Win32Next]_win32Vars /\ Win32Fair

----------------------------------------------------------------------------
(* Properties *)

\* The type invariant.
Win32TypeOK ==
  /\ app \in {"start", "wait", "true", "false"}
  /\ window \in {"none", "start", "created", "loop", "done"}
  /\ context \in {"none", "live", "leaked", "freed"}
  /\ registered \subseteq Devices32
  /\ {eventSet, published, quitSignal, onward, pressed32, merged, freedUse} \subseteq BOOLEAN
  /\ Len(stack) <= StackBound + 1
  /\ high \in High \cup {0} /\ low \in Low \cup {0}
  /\ encDiff \in -1 .. 1 /\ {mouse, wheelBtn} \subseteq {"PR", "REL"}
  /\ callback \in {"none", "key", "wheel", "reset"}

Times(s, c) == Cardinality({i \in DOMAIN s : s[i] = c})

\* LVGL takes no key, virtual or a character, for a new one more often than it was
\* queued; and when it has popped all that was queued it has taken each as often, in
\* whatever order, though keys are queued while it empties the queue or find no
\* memory.  Not so when two presses were queued with no release between them: then the
\* earlier may be lost.
TypedOnce ==
  \A c \in Range(queued) \cup Range(typed32) :
    /\ Times(typed32, c) <= Times(queued, c)
    /\ ~merged /\ stack = <<>> /\ context = "live" => Times(typed32, c) = Times(queued, c)

\* Once the window has been created lv_win32_init returns true, with the devices of a
\* context that is complete, unless the window is destroyed before.  It waits for
\* ever when the window, or its thread, cannot be created.
InitReturns == window = "created" ~> (app = "true" /\ published) \/ context = "freed"

============================================================================
