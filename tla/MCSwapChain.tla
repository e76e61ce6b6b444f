---------------------------- MODULE MCSwapChain ----------------------------
(***************************************************************************)
(* Small instances of SwapChain for TLC: one window, whose two pixels LVGL *)
(* redraws one by one or together.                                         *)
(***************************************************************************)
EXTENDS SwapChain, TLC

CONSTANTS g1, b1, b2, b3

OneGroup == {g1}
TwoBufs == {b1, b2}
ThreeBufs == {b1, b2, b3}

OneSize == {1}
TwoSizes == {1, 2}

Pixels == {[x1 |-> 0, x2 |-> 0], [x1 |-> 1, x2 |-> 1]}

OnePixel == {[x1 |-> 0, x2 |-> 0]}

NoFaults == {}
\* Identities of buffers are interchangeable: the model never chooses between
\* them.  Used by the runs without a liveness property.
Identities == Permutations(Bufs)

OtherFaults == FaultKinds \ {"alloc_buffer"}

============================================================================
