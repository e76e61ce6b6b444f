---------------------------- MODULE WholeFrames ----------------------------
(***************************************************************************)
(* What a display with two buffers promises to LVGL: the screen shows      *)
(* finished frames only, each from one vertical blank to another, and      *)
(* nothing is drawn while one waits for its blank.                         *)
(*                                                                         *)
(* A picture is the set of the areas that it shows as LVGL drew them last: *)
(* when LVGL draws an area anew, the picture on the screen no longer has   *)
(* it.                                                                     *)
(***************************************************************************)
CONSTANT Areas   \* the areas of the screen

VARIABLES
  keeps,   \* a frame keeps what the screen showed beside it
  shown,   \* the picture on the screen
  coming,  \* the picture that waits for the blank: a set of at most one
  drawn    \* the areas drawn of the frame under way

Init ==
  /\ keeps \in BOOLEAN
  /\ shown = {} /\ coming = {} /\ drawn = {}

\* An area is drawn, out of sight.
DrawArea(a) ==
  /\ coming = {}
  /\ shown' = shown \ {a}

\* It is not the last of its frame ...
Draw(a) ==
  /\ DrawArea(a)
  /\ drawn' = drawn \cup {a}
  /\ UNCHANGED <<keeps, coming>>

\* ... or it is: the picture handed over shows the whole frame.
Finish(a) ==
  /\ DrawArea(a)
  /\ \E p \in SUBSET Areas :
       /\ drawn \cup {a} \subseteq p
       /\ keeps => shown \subseteq p
       /\ coming' = {p}
  /\ drawn' = {}
  /\ UNCHANGED keeps

\* The frame is refused, and never shown.
Refuse(a) ==
  /\ DrawArea(a)
  /\ drawn' = {}
  /\ UNCHANGED <<keeps, coming>>

\* The vertical blank.
Show ==
  /\ shown' \in coming
  /\ coming' = {}
  /\ UNCHANGED <<keeps, drawn>>

Next == Show \/ \E a \in Areas : Draw(a) \/ Finish(a) \/ Refuse(a)

Spec == Init /\ [][Next]_<<keeps, shown, coming, drawn>>

============================================================================
