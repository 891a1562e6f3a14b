SPECIFICATION Spec
SYMMETRY MCSymmetry
CONSTANTS
  Lines <- MCLines
  Qty <- MCQty
  Total <- MCTotal
  Stock <- MCStock
  Budget <- MCBudget
  Owed <- MCOwed
  Express = FALSE
  Nodes <- MCNodes
  Plans <- MCPlans
  RetryAfter = 1
  Spellings = {s1, s2}
  MaxIdle = 2
INVARIANTS
  Conservation
  CompleteHoldsEveryLine
  CreditsCrossDecisions
  SafeEpisodeFollowsOracle
  SafeEpisodeConsistent
  AmbiguousNeverFails
  EarnedRecovery
PROPERTIES
  CompleteIsFinal
  FinalizeTokenWithheld
  ImplementsWarehouse
