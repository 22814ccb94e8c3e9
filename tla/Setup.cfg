SPECIFICATION FairSpec
CONSTANTS
  Formats = {1, 2, 5}
  Printed <- MCPrinted
  MaxBuffer = 40
  Texts <- MCTexts
  LIMIT = 4
  Values <- MCValues
  Empty = Empty
  LongMax = 63
  IntSize = 32
  PortSize = 8
INVARIANTS FormatFits LoadsWhatIsWritten SettingsLegal
PROPERTY LoadEnds
\* init returns, or the formatting fails for good.
CHECK_DEADLOCK FALSE
