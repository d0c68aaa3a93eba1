SPECIFICATION Spec
CONSTANTS
  Missing = Missing
  Parts <- MCParts
  Items <- MCItems
  Words <- MCWords
  Sosuffix <- MCSosuffix
  Clean = {"so"}
  MaxPath = 9
  MaxItems = 2
INVARIANTS TypeOK IdsReleased
PROPERTIES NamesAsMeant StaysInDirectory
CHECK_DEADLOCK FALSE
