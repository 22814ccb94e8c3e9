SPECIFICATION Spec
CONSTANTS
  Formats = {1, 2, 5}
  Printed <- MCPrinted
  MaxBuffer = 40
  Texts <- MCTexts
  LIMIT = 4
  Values <- MCValues
  Empty = Empty
  LongMax = 63
  IntSize = 32
  PortSize = 8
INVARIANT PortInRange
CHECK_DEADLOCK FALSE
