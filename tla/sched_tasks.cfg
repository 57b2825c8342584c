SPECIFICATION FairSpec
CONSTANTS
  Tasks = {t1, t2, t3, t4}
  NULL = NULL
  Quantum = 3
  MaxPid = 5
INVARIANTS
  RingLinked
  OnlyKernelTaskLost
PROPERTIES
  NoTickAfterSwitch
  QuantumRunsOut
CHECK_DEADLOCK FALSE
