SPECIFICATION Spec
CONSTANTS
  a1 = a1  a2 = a2

  Agent = {a1, a2}
  KeptSteps = 0
  TickOutlasts = TRUE
  Movers = {a1}
  PauseFirst = TRUE
  MaxRound = 2
INVARIANTS TypeOK OneTickPerStep BarrierDrains ClaimsOwnCommand
PROPERTY EveryWaitEnds
CHECK_DEADLOCK FALSE
