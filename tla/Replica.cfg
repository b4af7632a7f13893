SPECIFICATION Spec
CONSTANTS
  N = 2
  Pos = {p1, p2, p3}
  Solo = TRUE
  CacheBlocks = 1
  MaxSize = 1
  MaxTag = 3
INVARIANTS TypeOK SessionHoldsHead GeometryFits CacheIsMedia NoAckLost HeadsAgree
CHECK_DEADLOCK FALSE
SYMMETRY Symmetry
