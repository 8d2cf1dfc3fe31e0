SPECIFICATION Spec
CONSTANTS
  Names <- MCNames
  Placed <- MCNames
  Intervals <- MCDifferent
  Resetting = {1, 2}
  MaxTime = 2
  IoFails = FALSE
  LateCollect = FALSE
  AssertHalts = FALSE
  NoGroup = NoGroup
  NoCollector = NoCollector
  NoFile = NoFile
INVARIANT FlushReachesAll
CHECK_DEADLOCK FALSE
