SPECIFICATION PartsSpec
CONSTANTS
  Chars = {1, 2}
  Keys = {3}
  Foreign = 0
  BufSize = 4
  TtyWrite = 100
  MaxBytes = 5
  Size = 4
  Bytes = {1, 2}
  None = None
INVARIANTS
  WrittenInOrder
  BacklogAccounted
  OutputIsQueued
PROPERTIES
  NoOutputAfterSchedInit
  RingIsFifo
CHECK_DEADLOCK FALSE
