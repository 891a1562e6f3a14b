SPECIFICATION Spec
CONSTANTS
  Kinds = {"module"}
  Ceiling = 4
  Projection = 1
  MaxTime = 3
  MaxSessions = 2
INVARIANT InterruptionsCharged
CHECK_DEADLOCK FALSE
