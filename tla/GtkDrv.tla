------------------------------- MODULE GtkDrv -------------------------------
(***************************************************************************)
(* The input of the GTK driver (gtkdrv/gtkdrv.c): a thread of its own runs *)
(* GTK, whose handlers store the mouse and the key in static variables;    *)
(* LVGL's callbacks load them in another thread.  There is no lock and     *)
(* nothing orders the stores, or the loads: they happen one at a time and  *)
(* in any order.                                                           *)
(***************************************************************************)
EXTENDS Integers

CONSTANTS GdkKeys \* the values of keys: none is 0

ASSUME GtkAssumption == GdkKeys \subseteq Nat \ {0}

REL == 0
PR == 1

VARIABLES
  gtkMouse, \* whether the mouse is used and read, else the keyboard
  shared,   \* mouse_x, mouse_y and mouse_btn, or last_key and last_key_state
  storing,  \* what the handler that runs has yet to store
  loading,  \* what the callback that runs has yet to load
  gtkData,  \* the data that LVGL's callback fills in
  torn,     \* a handler ran since this call of the callback, or the last one, began
  gtkUser   \* history: what the user did last

gtkVars == <<gtkMouse, shared, storing, loading, gtkData, torn, gtkUser>>

Nothing == <<>> \* nothing to store: the function of no variable
GtkParts == IF gtkMouse THEN {"x", "y", "btn"} ELSE {"key", "state"}

----------------------------------------------------------------------------
(* The GTK thread *)

\* What the user may do: move the mouse, press or release a button, press or release
\* a key.
GtkDoings ==
  IF gtkMouse THEN [{"x", "y"} -> 0 .. 1] \cup [{"btn"} -> {REL, PR}]
              ELSE [key : GdkKeys, state : {REL, PR}]

\* Mutant of GtkStores: a release leaves the state.
GtkStoresKey(e) == IF "key" \in DOMAIN e /\ e.state = REL THEN [key |-> 0] ELSE e

\* What the handlers store: a release has no key, whichever key it was; a button is
\* not told from another.
GtkStores(e) ==
  IF "key" \in DOMAIN e /\ e.state = REL THEN [key |-> 0, state |-> REL] ELSE e

GtkHandle(e) ==
  /\ storing = Nothing
  /\ storing' = GtkStores(e)
  /\ gtkUser' = [p \in GtkParts |-> IF p \in DOMAIN e THEN e[p] ELSE gtkUser[p]]
  /\ torn' = TRUE
  /\ UNCHANGED <<gtkMouse, shared, loading, gtkData>>

GtkStore(p) ==
  /\ p \in DOMAIN storing
  /\ shared' = [shared EXCEPT ![p] = storing[p]]
  /\ storing' = [q \in DOMAIN storing \ {p} |-> storing[q]]
  /\ UNCHANGED <<gtkMouse, loading, gtkData, torn, gtkUser>>

----------------------------------------------------------------------------
(* The LVGL thread: gtkdrv_mouse_read_cb and gtkdrv_keyboard_read_cb *)

GtkRead ==
  /\ loading = {}
  /\ loading' = GtkParts
  /\ torn' = (storing # Nothing)
  /\ UNCHANGED <<gtkMouse, shared, storing, gtkData, gtkUser>>

GtkLoad(p) ==
  /\ p \in loading
  /\ gtkData' = [gtkData EXCEPT ![p] = shared[p]]
  /\ loading' = loading \ {p}
  /\ UNCHANGED <<gtkMouse, shared, storing, torn, gtkUser>>

----------------------------------------------------------------------------

GtkInit ==
  /\ gtkMouse \in BOOLEAN
  /\ shared = [p \in GtkParts |-> 0] /\ gtkData = shared /\ gtkUser = shared
  /\ storing = Nothing /\ loading = {} /\ torn = FALSE

GtkNext ==
  \/ \E e \in GtkDoings : GtkHandle(e)
  \/ \E p \in GtkParts : GtkStore(p) \/ GtkLoad(p)
  \/ GtkRead

GtkSpec == GtkInit /\ [][GtkNext]_gtkVars

----------------------------------------------------------------------------
(* Properties *)

\* The type invariant.
GtkTypeOK ==
  /\ gtkMouse \in BOOLEAN /\ torn \in BOOLEAN
  /\ {DOMAIN shared, DOMAIN gtkData, DOMAIN gtkUser} = {GtkParts}
  /\ DOMAIN storing \subseteq GtkParts /\ loading \subseteq GtkParts
  /\ \A p \in GtkParts : {shared[p], gtkData[p], gtkUser[p]} \subseteq GdkKeys \cup {0, 1}

\* A call of the callback that no handler ran into tells LVGL what the user did last,
\* the key and its state together, and likewise the point and the button, whatever
\* calls before it mixed up; of a key that was released it need not tell which.
GtkSettles ==
  ~torn /\ loading = {} =>
    \A p \in GtkParts :
      gtkData[p] = gtkUser[p] \/ (p = "key" /\ gtkUser.state = REL /\ gtkData[p] = 0)

============================================================================
