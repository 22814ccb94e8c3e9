SPECIFICATION FairSpec
CONSTANTS
  Workers = {w1}
  Requests = {r1, r2}
  Size <- TwoPieces
  FdLimit = 2
  TrackerDrops = TRUE
  MaxRestarts = 0
  NoReq = NoReq
  NoFile = NoFile
  NL = NL
  Stale = Stale
PROPERTY UnavailableIsTemporary
\* All requests may have been answered.
CHECK_DEADLOCK FALSE
