SPECIFICATION Spec
CONSTANTS
  FixedN = 8
  MigratingN = 4
  Residences = 2
  Residency = 1
  Profiles = {TRUE}
  K = 4
  Probe = 8
  RootSlots = 4
  MaxLaps = 3
  MaxRot = 0
INVARIANT NoCommitLost
CHECK_DEADLOCK FALSE
