CONSTANTS
  p1 = p1
  p2 = p2
  s1 = s1
  s2 = s2
  None = None
  Peer = {p1, p2}
  Stream = {s1, s2}
  PeerOf <- TwoPeers
  Checksum = {c1, c2}
  ArtifactCacheSize = 1
  WitnessCacheSize = 1
  QueueSize = 1
SYMMETRY Symmetry
VIEW WithoutSeen
SPECIFICATION SafeSpec
INVARIANTS OneReader SenderSpared NoDuplicates
