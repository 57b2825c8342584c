SPECIFICATION PartsSpec
CONSTANTS
  Lines = {0, 1, 8, 12}
  Stub <- Stubs43
  TssAddr <- Tss2MB
  BssSize = 20480
  PgdAt = 4096
  PudAt = 8192
  StackAt = 13304
  Puds = 4
INVARIANTS
  EoiEndsOwnService
  HandlersRunAlone
  NothingUsedEarly
  TablesHold
  FrameAsDeclared
  
PROPERTIES
  NothingAfterSwitch
  TimerTaken
CHECK_DEADLOCK FALSE
