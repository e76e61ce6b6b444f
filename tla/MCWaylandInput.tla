--------------------------- MODULE MCWaylandInput ---------------------------
(***************************************************************************)
(* A small instance of WaylandInput for TLC: two windows with a button to  *)
(* close them; a pointer with two buttons, two fingers, or a keyboard with *)
(* two keys, of which one means nothing to LVGL with a modifier.           *)
(***************************************************************************)
EXTENDS WaylandInput, TLC

CONSTANTS w1, w2

TwoWindows == {w1, w2}
CloseButton == {"close"}
OneSize == [w \in TwoWindows |-> {1}]
AllDevices == {"pointer", "touch", "keyboard"}
TwoButtons == {"left", "middle"}
TwoFingers == {"thumb", "index"}
TwoKeys == {"e", "enter"}
TwoLevels == 0 .. 1
EuroSign == [e |-> 0 :> "e" @@ 1 :> "euro", enter |-> [l \in TwoLevels |-> "enter"]]
Latin == {"e", "enter"}
NoFaults == {}

============================================================================
