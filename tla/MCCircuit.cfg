SPECIFICATION FairSpec
CONSTANTS
  a = a
  b = b
  d = d
  Calls <- Three
  MaxActive = 3
  Threshold = 3
  Cooldown = 2
  StoreFails = TRUE
INVARIANTS
  RecordsCoherent
PROPERTIES
  OpenBreakerProbes
  ImplementsBreaker
