SPECIFICATION FairSpec
CONSTANTS
  a = a
  b = b
  d = d
  NoCall = NoCall
  Calls <- Three
  MaxGen = 1
  MaxVersion = 1
  Revalidates = TRUE
  StoreFailing <- OnlyB
  Abandoning <- OnlyA
INVARIANTS
  Coalesced
  GenerationFences
PROPERTIES
  FollowersProceed
CHECK_DEADLOCK FALSE
