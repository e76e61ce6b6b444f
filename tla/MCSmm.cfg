SPECIFICATION Spec
CONSTANTS
  g1 = g1
  g2 = g2
  b1 = b1
  b2 = b2
  b3 = b3
  Groups <- TwoGroups
  Bufs <- ThreeBufs
  NoGroup = NoGroup
  NoBuf = NoBuf
  PageSize = 2
  Requests <- TwoSizes
  SizeRange = 32
  PoolLimit = 12
  PreferNumBuffers = 1
  Faults <- NoFaults
SYMMETRY Identities
INVARIANTS
  CountsOwned
  HistoryCurrent
  PreferredCount
  Coalesced
  UsageStatistic
PROPERTIES
  ImplementsExtents
