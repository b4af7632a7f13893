SPECIFICATION Spec
CONSTANTS
  K = 2
  Reserve = 1
  WindowMin = 2
  GenesisLen = 4
  MaxBatch = 2
  MaxBlocks = 4
  MaxDirty = 1
  MaxLen = 5
  MaxPlow = 6
  MaxGen = 3
INVARIANT CleanInvariant
CHECK_DEADLOCK FALSE
