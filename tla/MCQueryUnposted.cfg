SPECIFICATION Spec
CONSTANTS
  l1 = l1
  l2 = l2
  Listeners <- MCListeners
  Reenters <- MCReenters
  MaxId = 4
  MaxEvent = 3
  MaxToken = 3
  MaxRuns = 2
  Attempts = 2
INVARIANTS
  TimeoutBoundsRegistry
CHECK_DEADLOCK FALSE
