SPECIFICATION Spec
CONSTANTS
  Parts = {"config"}
  Null = Null
  Names <- MCNames
  MaxObjects = 3
  ParserClasses <- MCParserClasses
  ConfigOf <- MCConfigOf
  Required = {"ema"}
  ParserDocuments <- MCParserDocuments
  Unparsed = Unparsed
  ObjectClasses <- MCObjectClasses
  Collectors = {"c"}
  MetricsDocuments <- MCMetricsDocuments
  Absent = Absent
  Allowed <- MCAllowed
  Items = {"a", "b"}
  Draws <- MCDraws
  Running = {"enqueue", "dequeue"}
  MaxTime = 3
  MaxOps = 2
  MeansInputs <- MCMeansInputs
  MaxK = 2
  MaxIter = 3
  HorizonInputs <- MCHorizonInputs
  Horizons <- MCHorizons
  HullInputs <- MCHullInputs
  PairInputs <- MCPairInputs
  Far = 1000
  RangeValues <- MCRangeValues
  RangeLimit = 4
  AngleValues <- MCAngleValues
  Factors <- MCFactors
  AngleLimit = 1000
  Sizes <- MCSizes
  Dims <- MCDims
  Resolutions = {1, 2, 4}
  Coords <- MCCoords
  Radii = {0, 1, 3}
  Threads = {"t1", "t2", "t3"}
  NoThread = "nobody"
  Args = {1, 2}
  MaxCalls = 4
CHECK_DEADLOCK FALSE
INVARIANT StreamsFromNetworkSection
