SPECIFICATION ConsolesSpec
CONSTANTS
  W = 2
  H = 2
  Chars = {"a", "e"}
  Messages <- Short
  MaxPuts = 5
  MaxBlinks = 2
  MaxMessages = 1
  HighChars = {"high"}
  Texts <- Written
  MaxLines = 4
INVARIANTS
  CursorOnScreen
  BlinkCostsOneCell
  VgaShowsText
CHECK_DEADLOCK FALSE
