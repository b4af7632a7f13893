SPECIFICATION Spec
CONSTANTS
  N = 2
  Pos = {p1, p2, p3}
  Solo = FALSE
  CacheBlocks = 1
  MaxSize = 0
  MaxTag = 3
INVARIANT MirrorsConverged
CHECK_DEADLOCK FALSE
