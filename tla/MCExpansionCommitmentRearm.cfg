SPECIFICATION Spec
CONSTANTS
  Seen = {1, 2}
  Desired = {2, 3}
  Budget = 2
  Cooldown = 2
  MaxEpoch = 2
  MaxLog = 3
  MaxCrashes = 1
INVARIANT NoRearm
CHECK_DEADLOCK FALSE
