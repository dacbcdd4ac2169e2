SPECIFICATION BroadcastSpec
CONSTANTS
  p1 = p1
  p2 = p2
  Peer = {p1, p2}
  Stream = {s1, s2}
  Tx <- TxOneByTwo
  InboundCapacity = 1
  OutboundCapacity = 1
  TxQueueSize = 1
  None = None
  Artifacts = 1
  Chunks = 2
  Witnesses <- OnlyOutsider
INVARIANTS RegisteredIffOpen NoSendOnClosed OneAnswerOwed
PROPERTIES WorkersEnd ArtifactsEnd ContractSpec ContractSafe
