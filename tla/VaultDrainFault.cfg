SPECIFICATION DrainFaultSpec
CONSTANTS
  K = 2
  Reserve = 1
  WindowMin = 2
  GenesisLen = 3
  MaxBatch = 1
  MaxBlocks = 2
  MaxDirty = 1
  MaxLen = 3
  MaxPlow = 4
  MaxGen = 3
INVARIANT CommittedOnMedia
CHECK_DEADLOCK FALSE
