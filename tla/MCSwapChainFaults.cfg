SPECIFICATION FairChainSpec
CONSTANTS
  g1 = g1
  b1 = b1
  b2 = b2
  b3 = b3
  Groups <- OneGroup
  Bufs <- TwoBufs
  NoGroup = NoGroup
  NoBuf = NoBuf
  PageSize = 1
  Requests <- OneSize
  PreferNumBuffers = 2
  SizeRange = 1
  PoolLimit = 3
  Faults <- OtherFaults
  Body = g1
  Width = 1
  BytesPerPixel = 1
  Areas <- OnePixel
  FrameAreas = 2
  Capacity = 3
  NoTag = NoTag
  InOrder = FALSE
  Batched = TRUE
INVARIANTS
  PendingUpToDate
  BuffersAccounted
PROPERTIES
  FlushReturns
