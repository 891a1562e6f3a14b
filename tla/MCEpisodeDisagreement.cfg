SPECIFICATION Spec
CONSTANTS
  Lines <- MCLines
  Qty <- MCQty
  Total <- MCTotal
  Stock <- MCStock
  Budget <- MCBudget
  Owed <- MCOwed
  Express = FALSE
  Nodes <- MCNodes
  Plans <- MCAmbiguousFault
  RetryAfter = 1
  Spellings = {s1, s2}
  MaxIdle = 2
INVARIANT VerifierAgrees
