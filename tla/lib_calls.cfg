SPECIFICATION Spec
CONSTANTS
  Lines <- ShortLines
  Names <- ShortNames
  Zero = "0"
  IntBits = 5
  LongBits = 7
  StringAt <- Texts
  Formats <- ThreeDirectives
  ArgLists <- ThreeWords
  TagLists <- UpTo3Tags
  Wanted <- Asked
  Rsdts <- UpTo3Tables
  Memories <- FiveBytes
  Calls <- AllCalls
INVARIANTS
  ReadsWithinLine
  FindsParameter
  FormatIsPrintf
  TablesFound
  LibIsC
CHECK_DEADLOCK FALSE
