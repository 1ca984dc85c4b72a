SPECIFICATION FairSpec
CONSTANTS
  a1 = a1
  a2 = a2
  b = b
  w = w
  x = x
  Calls <- TwoInOne
  Workers <- W2
  WorkerOf <- OwnersOfTwoInOne
  NoToken = NoToken
  Tokens <- T4
  Limit = 2
  Lease = 2
  MaxHold = 1
  Crashing <- OnlyX
  ReleaseLost = TRUE
  ReserveFails = TRUE
INVARIANTS
  TypeOK
  LeasesRemembered
  OwnLeasesAdmission
PROPERTIES
  FleetProgress
