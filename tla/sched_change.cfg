SPECIFICATION Spec
CONSTANTS
  Tasks = {t1, t2, t3}
  NULL = NULL
  Quantum = 2
  MaxPid = 4
PROPERTIES
  ChangesTask
CHECK_DEADLOCK FALSE
