SPECIFICATION FaultSpec
CONSTANTS
  Chunks = {0, 1}
  Keys <- HamtKeys
  Values = {"s", "b"}
  Big = {"b"}
  Absent = "absent"
  Furrows = 2
  Windows = {3}
  WalkStep = 2
  MaxOps = 2
  Faults = {"settle"}
INVARIANT LiveIsIndex
