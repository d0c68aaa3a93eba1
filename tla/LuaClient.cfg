SPECIFICATION CSpec
CONSTANTS
  Interps = {"L", "M"}
  Start <- MCStart
  Files = {"f"}
  Values <- MCValues
  Nil = "nil"
  Tag <- MCTag
  Entries <- MCEntries
  Label <- MCLabel
  FitsInteger <- MCFitsInteger
  FitsLong <- MCFitsLong
  Chars <- MCChars
  Dot = "."
  Asked <- MCAsked
  MaxHeight = 9
  MaxDepth = 3
  MaxCalls = 3
INVARIANTS NeverUndefined StackMirrorsPath ExceptionLeavesPath
PROPERTIES IterationIsComplete HandlerRestoresNames
CHECK_DEADLOCK FALSE
