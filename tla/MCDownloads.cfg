SPECIFICATION FairSpec
CONSTANTS
  x = x
  y = y
  N = 3
  Keyings <- MCKeyings
  Concurrency = 2
  Reenters <- SomeCallbacks
INVARIANTS
  TypeOK
  RoomIsUsed
  RefCounted
  WatchdogFollows
  DrainedIsDone
PROPERTIES
  EveryItemSettles
CHECK_DEADLOCK FALSE
