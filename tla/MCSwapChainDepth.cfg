SPECIFICATION ChainSpec
CONSTANTS
  g1 = g1
  b1 = b1
  b2 = b2
  b3 = b3
  Groups <- OneGroup
  Bufs <- ThreeBufs
  NoGroup = NoGroup
  NoBuf = NoBuf
  PageSize = 1
  Requests <- OneSize
  PreferNumBuffers = 2
  SizeRange = 16
  PoolLimit = 3
  Faults <- NoFaults
  Body = g1
  Width = 2
  BytesPerPixel = 2
  Areas <- Pixels
  FrameAreas = 2
  Capacity = 3
  NoTag = NoTag
  InOrder = TRUE
  Batched = TRUE
SYMMETRY Identities
INVARIANTS
  PendingUpToDate
