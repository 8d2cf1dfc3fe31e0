CONSTANTS
  p1 = p1
  p2 = p2
  c1 = c1
  c2 = c2
  NoProc = NoProc
  Procs <- MCProcs
  Calls <- MCCalls
  Mortal <- MCMortal
  MaxCalls = 2
SPECIFICATION FairSpec
INVARIANTS
  TypeOK
  MutexHeld
  NoLostWakeup
PROPERTIES
  ImplementsFifo
  NoStrandedElement
CHECK_DEADLOCK FALSE
