SPECIFICATION FairSpec
CONSTANTS
  l1 = l1
  l2 = l2
  Listeners <- MCListeners
  Reenters <- MCReenters
  MaxId = 4
  MaxEvent = 3
  MaxToken = 3
  MaxRuns = 2
  Attempts = 2
INVARIANTS
  RegistryExact
  AnswersMatch
  ListenersAreCurrent
  DataIsTheRuns
  PendingIsUnderWay
PROPERTIES
  AbandonedIsSilent
  PendingSettles
CHECK_DEADLOCK FALSE
