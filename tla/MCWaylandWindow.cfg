SPECIFICATION WindowSpec
CONSTANTS
  w1 = w1
  w2 = w2
  Windows <- TwoWindows
  Decorations <- OneDecoration
  Sizes <- OneResized
  Faults <- Survived
CHECK_DEADLOCK FALSE
INVARIANTS
  DrawnAsSized
  ObjectsOfOpen
  Survives
  StaysFlagged
