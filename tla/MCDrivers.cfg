SPECIFICATION DriversSpec
CONSTANTS
  a1 = a1
  a2 = a2
  Areas <- TwoAreas
  Hardware <- Screens
  Faults <- FaultKinds
  Keys <- ThreeKeys
  Shift = "shift"
  Fingers <- TwoFingers
  Meaning <- EuroKeys
  Hor = 2
  Ver = 2
  Phys <- WidePanel
  Offset <- NoOffset
  Declared <- Wide
  Paths <- FourDevices
  QueueBound = 3
  MeantBound = 4
  DriftBound = 1
  KernelFaults <- KernelFaultKinds
  Controls <- OneControl
  Texts <- ShortTexts
  CharSigned = TRUE
  BufferSize = 4
  Wheel <- WheelSteps
  Tiles <- ThreeTiles
  OffScreen <- OneOff
  SdlTypedBound = 4
  Width = 3
  Height = 2
  Strings <- LookedUp
  TurnBound = 2
  GdkKeys <- TwoKeyvals
  VirtualKeys <- OneVirtualKey
  Letters <- TwoLetters
  High <- OneHigh
  Low <- OneLow
  StackBound = 3
  LetterBound = 2
  Win32Faults <- Win32FaultKinds
  Pens <- TwoPens
  Floating <- AnyPin
  RawX <- CalX
  RawY <- CalY
  MaxX = 319
  MaxY = 239
  XptMin <- XptLeast
  XptMax <- XptMost
  XptRes <- XptSize
  Average = 2
  FingerMax = 2
  Xres = 8
  Yres = 2
  Formats <- Devices
  Offsets <- TwoOffsets
  DispSizes <- Displays
  Left <- Beginnings
  Right <- Endings
  FbFaults <- FbFaultKinds
CHECK_DEADLOCK FALSE
INVARIANTS
  DriversTypeOK
  SetupSound
  EveryKeyTold
  Settled
  ScanSound
  InputTold
  ScreensShow
  
PROPERTIES
  ShowsWholeFrames
  FlushEnds
  InitReturns
