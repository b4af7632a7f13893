SPECIFICATION Spec
CONSTANTS
  FixedN = 8
  MigratingN = 4
  Residences = 2
  Residency = 1
  Profiles = {TRUE, FALSE}
  K = 4
  Probe = 8
  RootSlots = 4
  MaxLaps = 3
  MaxRot = 2
INVARIANTS TypeOK SearchFindsNewest FixedKeepsCommits FixedOpens NewestAtEitherResidence FenceWindowFills InspectorRight
CHECK_DEADLOCK FALSE
