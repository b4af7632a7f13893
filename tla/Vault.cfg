SPECIFICATION FairSpec
CONSTANTS
  K = 2
  Reserve = 1
  WindowMin = 2
  GenesisLen = 4
  MaxBatch = 1
  MaxBlocks = 2
  MaxDirty = 1
  MaxLen = 6
  MaxPlow = 8
  MaxGen = 5
INVARIANTS TypeOK HeadIntact LiveIsCommitted CleanInvariant FencedGensIntact
PROPERTIES CommittedPlowMonotone CommitEnds
CHECK_DEADLOCK FALSE
