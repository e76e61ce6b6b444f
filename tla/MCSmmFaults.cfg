SPECIFICATION FairSpec
CONSTANTS
  g1 = g1
  g2 = g2
  b1 = b1
  b2 = b2
  b3 = b3
  Groups <- OneGroup
  Bufs <- ThreeBufs
  NoGroup = NoGroup
  NoBuf = NoBuf
  PageSize = 2
  Requests <- TwoSizes
  SizeRange = 2
  PoolLimit = 8
  PreferNumBuffers = 1
  Faults <- FaultKinds
INVARIANTS
  TypeOK
  PoolTiled
  OwnedFits
  QueuesMatchOwner
  MapCoversPool
PROPERTIES
  CallsReturn
