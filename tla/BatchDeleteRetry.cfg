SPECIFICATION Spec
CONSTANTS
  Keys = {k1}
  Values = {v1}
  Absent = Absent
  MaxItems = 1
  Erases = FALSE
  Tries = 1
  SpineFaults = FALSE
  RetryDelete = TRUE
PROPERTY KeepsPromise
