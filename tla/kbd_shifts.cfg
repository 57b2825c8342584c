SPECIFICATION FairSpec
CONSTANTS
  Keys <- Keys4
  Legend <- Legend2
  Garbage = {30}
  MaxEvents = 4
INVARIANT
  FlagsTrackHeld
CHECK_DEADLOCK FALSE
