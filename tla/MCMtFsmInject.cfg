SPECIFICATION Spec
CONSTANTS
  States = {0, 1, 2}
  None = None
  Threads = {t1, t2}
  NoThread = NoThread
PROPERTY InjectKeepsState
CHECK_DEADLOCK FALSE
