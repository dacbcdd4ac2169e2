SPECIFICATION Spec
CONSTANTS
  Peer = {p1, p2}
  Session = {s1, s2}
  SpammerCacheSize = 1
INVARIANTS RevealsToVerified SuccessIsMutual
PROPERTIES InStep SessionsEnd
CHECK_DEADLOCK FALSE
