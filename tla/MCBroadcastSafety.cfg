SPECIFICATION BroadcastSafeSpec
CONSTANTS
  p1 = p1
  p2 = p2
  Peer = {p1, p2}
  Stream = {s1, s2}
  Tx <- TxTwoByTwo
  InboundCapacity = 1
  OutboundCapacity = 1
  TxQueueSize = 1
  None = None
  Artifacts = 2
  Chunks = 2
  Witnesses <- Outsider
SYMMETRY Symmetry
VIEW WithoutRemains
INVARIANTS NoCircularWait NoGapIfAsked WitnessesSpared
PROPERTY FramesInOrder
