---------------------------- MODULE MCWaylandWindow ----------------------------
(***************************************************************************)
(* Small instances of WaylandWindow for TLC: two windows, of which one may *)
(* be resized; and one window, when everything may fail.                   *)
(***************************************************************************)
EXTENDS WaylandWindow, TLC

CONSTANTS w1, w2

TwoWindows == {w1, w2}
OneDecoration == {"titlebar"}
OneWindow == {w1}
Resized == w1 :> {1, 2}
OneResized == w1 :> {1, 2} @@ w2 :> {1}

\* What the driver survives.
Survived == {"resize", "flush"}

============================================================================
