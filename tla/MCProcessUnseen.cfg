CONSTANTS
  p1 = p1
  p2 = p2
  s1 = s1
  s2 = s2
  None = None
  Peer = {p1, p2}
  Stream = {s1, s2}
  PeerOf <- TwoPeers
  Checksum = {c1, c2}
  ArtifactCacheSize = 1
  WitnessCacheSize = 2
  QueueSize = 1
SPECIFICATION SafeSpec
INVARIANT ExcludedHaveSeen
