SPECIFICATION Spec
CONSTANTS
  MaxStates = 3
  InitialState = 1
  Composites = {searching}
  Top = Top
  Hierarchy <- MCHierarchy
  Data = {d1, d2, d3, d4}
  NoData = NoData
  MaxDepth = 2
  Reentrant = TRUE
  ErLevel = "ALL"
INVARIANTS
  NoUndefined
CHECK_DEADLOCK FALSE
