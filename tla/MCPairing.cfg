CONSTANTS
  Node = {a, b, c}
  Discovering = {a, b}
  Stream = {s1, s2}
  InboundCapacity = 1
  OutboundCapacity = 1
  None = None
SPECIFICATION Spec
INVARIANTS OpenIsOwned RegisteredIsRead PairFindsRoom
PROPERTIES HalfOpenHeals PairingEnds
CHECK_DEADLOCK FALSE
