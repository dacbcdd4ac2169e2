CONSTANTS
  l1 = l1
  l2 = l2
  r1 = r1
  r2 = r2
  Listener = {l1, l2}
  Request = {r1, r2}
  Used <- Meetings
  None = None
SPECIFICATION Spec
INVARIANTS OneCurrent NoPanicBeforeShutdown QueuedOnce
PROPERTIES RequestsAnswered ListenersEnd
CHECK_DEADLOCK FALSE
