SPECIFICATION SafeSpec
CONSTANTS
  Peer = {p1, p2, p3}
  Caller = {c1}
  RingsCount = 3
  BaseLatency = 1
  GrowthFactor = 2
  SampleSize = 2
  MaxLatency = 3
  None = None
SYMMETRY Symmetry
INVARIANTS RingsConsistent PlacedByLatency RecommendSound
CHECK_DEADLOCK FALSE
