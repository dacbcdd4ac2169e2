CONSTANTS
  Base = 2
  Format <- TwoNumbers
  Window = 2
SPECIFICATION Spec
INVARIANTS NumbersArrive
PROPERTIES GoroutinesEnd KeepsContract
CHECK_DEADLOCK FALSE
