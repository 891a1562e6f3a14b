SPECIFICATION LineSpec
CONSTANTS
  Lines <- MCLines
  Qty <- MCQty
  Total <- MCTotal
  Stock <- MCStock
  Budget <- MCBudget
  Owed <- MCOwed
  Express = FALSE
  Nodes <- MCNodes
  Plans <- MCPlans
  RetryAfter = 1
  Spellings = {"registered", "respelt"}
  Registered = "registered"
  MaxIdle = 8
  MaxAttempts = 4
  Scales <- MCScales
  MaxShuffle = 4
  Focuses = {"oracle", "suite"}
INVARIANTS
  OracleWithinBudget
  GenerationNeverRefuses
  BuiltValidates
PROPERTY OracleCertifies
CHECK_DEADLOCK FALSE
