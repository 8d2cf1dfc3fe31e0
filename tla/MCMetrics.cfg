SPECIFICATION Spec
CONSTANTS
  Names <- MCNames
  Placed <- MCNames
  Intervals <- MCUniform
  Resetting = {1, 2}
  MaxTime = 2
  IoFails = TRUE
  LateCollect = FALSE
  AssertHalts = FALSE
  NoGroup = NoGroup
  NoCollector = NoCollector
  NoFile = NoFile
INVARIANTS
  TypeOK
  NoSampleLost
  CountedOnce
  AppendHasNoGaps
  LinesHoldInterval
CHECK_DEADLOCK FALSE
