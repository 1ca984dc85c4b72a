SPECIFICATION FairSpec
CONSTANTS
  a = a
  b = b
  login = login
  Calls <- MCCalls
  RateOnly <- None
  Login = login
  Limit = 2
  MaxMint = 2
INVARIANTS
  FlightExact
  RedoCarriesAnother
PROPERTIES
  CallsEnd
CHECK_DEADLOCK FALSE
