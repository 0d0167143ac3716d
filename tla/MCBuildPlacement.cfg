SPECIFICATION FairSpec
CONSTANTS
  c1 = c1  c2 = c2  c3 = c3  natural = natural  pylon = pylon
  b1 = b1  b2 = b2
  None = None

  Command = {c1, c2, c3}
  Builder = {b1, b2}
  Target = {natural, pylon}
  Townhall = {natural}
  TargetOf <- MCTargetOf
  Base = 2
  Hard = 3
  Grace = 1
  Lapse = {1, 2}
  MaxBatch = 2
INVARIANTS TypeOK LeaseFollowsReservation OneHolderPerTarget InFlightOwnsPlace LedgerTellsReservations
PROPERTY AcceptedIsDecided
CHECK_DEADLOCK FALSE
