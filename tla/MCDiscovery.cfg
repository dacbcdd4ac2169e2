CONSTANTS
  s = s
  a = a
  b = b
  Node = {s, a, b}
  Seeds = {s}
  Discovering = {a, b}
  Attempts = 2
  SampleSize = 1
  Mishaps = 1
  Stops = 1
SPECIFICATION Spec
INVARIANTS OnlyMet
CHECK_DEADLOCK FALSE
PROPERTIES KnowledgeSpreads StoppedForgotten DiscoveryEnds
