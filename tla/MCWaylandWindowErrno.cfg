SPECIFICATION WindowSpec
CONSTANTS
  w1 = w1
  w2 = w2
  Windows <- OneWindow
  Decorations <- OneDecoration
  Sizes <- Resized
  Faults <- Survived
CHECK_DEADLOCK FALSE
INVARIANTS
  OutstandingReported
