SPECIFICATION FairSpec
CONSTANTS
  Vertices <- MCVertices
  Coord <- MCCoord
  Graphs <- MCGraphs
  MaxDists = {0, 1, 2, 3}
  Masks <- MCMasks
  NoMask = NoMask
CHECK_DEADLOCK FALSE
INVARIANTS
  TypeOK
  ViewExact
  CornersExtremal
PROPERTIES
  Terminates
