SPECIFICATION FairSpec
CONSTANTS
  Keys <- Keys4
  Legend <- Legend2
  Garbage = {30}
  MaxEvents = 4
INVARIANTS
  CharsAsTyped
  FlagsAreHeldKeys
PROPERTIES
  KeysGetThrough
CHECK_DEADLOCK FALSE
