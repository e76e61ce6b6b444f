------------------------------- MODULE MCSmm -------------------------------
(***************************************************************************)
(* Small instances of Smm for TLC.                                         *)
(***************************************************************************)
EXTENDS Smm, TLC

CONSTANTS g1, g2, b1, b2, b3

TwoGroups == {g1, g2}
OneGroup == {g1}
ThreeBufs == {b1, b2, b3}

\* With pages of two bytes: one page, and two pages after rounding up.
TwoSizes == {1, 3}

NoFaults == {}

\* Identities of groups and of buffers are interchangeable: the model never
\* chooses between them.  Used by the runs without a liveness property.
Identities == Permutations(TwoGroups) \cup Permutations(ThreeBufs)

============================================================================
