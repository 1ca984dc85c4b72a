SPECIFICATION FairSpec
CONSTANTS
  a = a
  b = b
  s = s
  Calls <- TwoAndStream
  RateOnly <- OnlyS
  Limit = 1
  Signalled <- AandS
  Budgeted <- OnlyA
  Abandoning <- OnlyB
  MaxAttempts = 2
  MaxGaps = 1
INVARIANTS
  SlotHasOwner
  OneRelease
  Admission
PROPERTIES
  WaitEnds
  SlotsFollowSemaphore
  CallsFollowSemaphore
