SPECIFICATION PowerSpec
CONSTANTS
  Kinds = {"module", "served"}
  Ceiling = 4
  Projection = 1
  MaxTime = 3
  MaxSessions = 1
INVARIANT PowerLossCovered
CHECK_DEADLOCK FALSE
