SPECIFICATION Spec
CONSTANTS
  Kinds = {"module", "served", "train"}
  Ceiling = 3
  Projection = 1
  MaxTime = 3
  MaxSessions = 3
INVARIANTS
  NoInventedSeconds
  ChargedSinceOpen
PROPERTY PredecessorsCounted
CHECK_DEADLOCK FALSE
