SPECIFICATION Spec
CONSTANTS
  Seen = {1, 2}
  Desired = {2, 3}
  Budget = 2
  Cooldown = 2
  MaxEpoch = 1
  MaxLog = 3
  MaxCrashes = 1
INVARIANTS TypeOK BudgetPaysPerEpoch RecoversCommitment RecoversGoal
CHECK_DEADLOCK FALSE
