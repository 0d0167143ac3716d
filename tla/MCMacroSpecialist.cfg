SPECIFICATION FairSpec
CONSTANTS
  Step = {1, 2}
  Repeat <- MCRepeat
  Townhall = {2}
  Interval = 2
  RejectRetry = 1
  TTL = 2
  RestartLimit = 1
  Owned = TRUE
  Required = TRUE
  PauseFirst = TRUE
  Episodes = 2
INVARIANTS TypeOK SuspensionJustified InFlightStepOpen HoldFreezesPlan
PROPERTIES ImplementsGate TickReturns RequestsKeepComing
CHECK_DEADLOCK FALSE
