SPECIFICATION FairSpec
CONSTANTS
  States = {0, 1, 2}
  None = None
  Threads = {t1, t2}
  NoThread = NoThread
INVARIANTS
  EventsNotMixed
PROPERTY
  MutexReleased
CHECK_DEADLOCK FALSE
