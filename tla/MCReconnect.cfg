SPECIFICATION ReconnectSpec
CONSTANTS
  Length = 4
  MaxAttempts = 2
  CanResume = TRUE
  Contract = TRUE
  Throws = TRUE
  Signal = TRUE
  Budget = TRUE
INVARIANTS
  DeliveredOnce
  NoGap
PROPERTIES
  SilentOnceAborted
  StreamEnds
