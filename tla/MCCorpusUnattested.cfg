CONSTANTS
  t1 = t1
  t2 = t2
  g1 = g1
  g2 = g2
  c1 = c1
  c2 = c2
  None = None
  Torn = Torn
  TaskOrder <- TwoTasks
  Sizes = {1, 2}
  DefaultSize = 1
  Contracts = {c1, c2}
  Producers = {g1, g2}
  Quota = 2
  MaxDisturb = 1
  H = 2
  Faults <- FaultOfEachKind
  Spellings = {"registered", "respelt"}
  Registered = "registered"
  MaxDecisions = 5
  MaxCalls = 5
  MaxStray = 1
  MaxAsides = 1
  CallSlack = 1
  FaultSlack = 1
  MaxRedundant = 1
  MaxLate = 2
  MaxRetries = 2
  NumStrata = 2
  RowCounts = {0, 2, 5}
  MaxTrajectories = 3
  Lo = 10
  Hi = 13
  TerminalCopies = 2
  Focuses = {"files"}
SPECIFICATION Line
INVARIANT SftDoneIsAttested
CHECK_DEADLOCK FALSE
