------------------------------ MODULE Extents ------------------------------
(***************************************************************************)
(* What a shared-memory buffer manager promises: a buffer that it grants   *)
(* to a group is an extent of memory that no other granted buffer          *)
(* overlaps, and that neither moves nor changes its length or its group    *)
(* until the buffer is retired.                                            *)
(***************************************************************************)
EXTENDS Integers

CONSTANTS
  Groups,    \* the groups that buffers are granted to
  Bufs       \* the buffers

VARIABLE granted   \* the granted buffers, each with its extent

Buffers == DOMAIN granted

Overlap(e, f) == e.first < f.first + f.len /\ f.first < e.first + e.len

Init == granted = << >>

Grant(b) ==
  /\ b \notin Buffers
  /\ DOMAIN granted' = Buffers \cup {b}
  /\ \A c \in Buffers : granted'[c] = granted[c]
  /\ granted'[b].grp \in Groups
  /\ granted'[b].len > 0
  /\ \A c \in Buffers : ~Overlap(granted[c], granted'[b])

Retire(b) ==
  /\ b \in Buffers
  /\ DOMAIN granted' = Buffers \ {b}
  /\ \A c \in Buffers \ {b} : granted'[c] = granted[c]

Next == \E b \in Bufs : Grant(b) \/ Retire(b)

Spec == Init /\ [][Next]_granted

============================================================================
