SPECIFICATION MachineSpec
CONSTANTS
  Tasks = {t1, t2}
  NULL = NULL
  Quantum = 1
  MaxPid = 2
  Ports = {com1}
  Com1 = com1
  FifoSize = 2
  Slots = 2
  Periods = {0, 1}
  Sleeps = {2}
  Stale = {0, 1}
  MaxJiffies = 3
INVARIANT CalledEveryMs
CHECK_DEADLOCK FALSE
