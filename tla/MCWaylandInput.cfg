SPECIFICATION InputSpec
CONSTANTS
  w1 = w1
  w2 = w2
  Windows <- TwoWindows
  Decorations <- CloseButton
  Sizes <- OneSize
  Faults <- NoFaults
  Devices <- AllDevices
  Buttons <- TwoButtons
  Fingers <- TwoFingers
  Codes <- TwoKeys
  Levels <- TwoLevels
  Sym <- EuroSign
  Known <- Latin
  DiffBound = 1
CHECK_DEADLOCK FALSE
INVARIANTS
  InputTypeOK
  FocusExists
  FocusTracks
  PressedIsHeld
