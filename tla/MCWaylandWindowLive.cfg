SPECIFICATION FairWindowSpec
CONSTANTS
  w1 = w1
  w2 = w2
  Windows <- OneWindow
  Decorations <- OneDecoration
  Sizes <- Resized
  Faults <- FaultKinds
CHECK_DEADLOCK FALSE
PROPERTIES
  FlaggedSent
  CloseHonoured
  ResizeHonoured
