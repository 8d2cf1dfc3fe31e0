SPECIFICATION FairSpec
CONSTANTS
  MaxStates = 3
  InitialState = 1
  Composites = {searching}
  Top = Top
  Hierarchy <- MCHierarchy
  Data = {d1, d2}
  NoData = NoData
  MaxDepth = 1
  Reentrant = FALSE
  ErLevel = "ALL"
INVARIANTS
  TypeOK
  RunToCompletion
  IdleDropsData
  NoUndefined
  EntryExitPaired
PROPERTIES
  ImplementsEvents
  PendingDecided
CHECK_DEADLOCK FALSE
