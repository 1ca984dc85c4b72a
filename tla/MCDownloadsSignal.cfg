SPECIFICATION Spec
CONSTANTS
  x = x
  y = y
  N = 3
  Keyings <- MCKeyings
  Concurrency = 2
  Reenters <- SomeCallbacks
INVARIANTS
  SignalCancelsBatch
CHECK_DEADLOCK FALSE
