SPECIFICATION FairSpec
CONSTANTS
  Keys = {k1, k2}
  Values = {v1, v2}
  Absent = Absent
  MaxItems = 2
  Erases = TRUE
  Tries = 2
  SpineFaults = FALSE
  RetryDelete = FALSE
INVARIANTS TypeOK HeldIsCommitted EarlierItemsKept LandsInOrder
PROPERTIES KeepsPromise CallReturns
