SPECIFICATION Spec
CONSTANTS
  a = a
  b = b
  s = s
  Calls <- AandB
  RateOnly <- None
  Limit = 1
  Signalled <- OnlyA
  Budgeted <- None
  Abandoning <- None
  MaxAttempts = 1
  MaxGaps = 1
INVARIANTS
  CapsCallsInFlight
