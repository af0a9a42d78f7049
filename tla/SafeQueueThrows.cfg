SPECIFICATION Spec
CONSTANTS
  Threads = {1, 2, 3}
  Values = {1}
  MaxQueued = 2
CHECK_DEADLOCK FALSE
INVARIANTS
  NobodySleepsBesideAnElement
