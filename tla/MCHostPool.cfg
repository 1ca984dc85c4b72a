SPECIFICATION PoolFairSpec
CONSTANTS
  a = a
  b = b
  d = d
  str = str
  u = u
  x = x
  y = y
  Calls <- MCCalls
  RateOnly <- OnlyS
  Uncapped <- OnlyU
  Limit = 1
  SpacingOf <- Spacings
  Objects <- MCObjects
  NoObject = NoObject
INVARIANTS
  HeldIsRegistered
  PaceKept
PROPERTIES
  QueuedIsGranted
  ImplementsThrottle
