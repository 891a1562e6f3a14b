SPECIFICATION Spec
CONSTANTS
  Kinds = {"train"}
  Ceiling = 4
  Projection = 1
  MaxTime = 3
  MaxSessions = 1
INVARIANT NeverDoubleCharged
CHECK_DEADLOCK FALSE
