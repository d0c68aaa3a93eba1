SPECIFICATION Spec
CONSTANTS
  Interps = {"L"}
  Start <- MCStart
  Files = {"f"}
  Values <- MCValues
  Nil = "nil"
  Tag <- MCTag
  Entries <- MCEntries
  Label <- MCLabel
  FitsInteger <- MCFitsInteger
  FitsLong <- MCFitsLong
  Chars <- MCChars
  Dot = "."
  Asked <- MCAsked
  MaxHeight = 5
  MaxDepth = 3
  MaxCalls = 2
INVARIANTS TypeOK NamesMatchPath DepthCountsComponents
CHECK_DEADLOCK FALSE
