SPECIFICATION Spec
CONSTANTS
  Workers = {w1, w2}
  Requests = {r1, r2}
  Size <- TwoPieces
  FdLimit = 2
  TrackerDrops = FALSE
  MaxRestarts = 0
  NoReq = NoReq
  NoFile = NoFile
  NL = NL
  Stale = Stale
INVARIANT UploadIsRecorded
\* All requests may have been answered.
CHECK_DEADLOCK FALSE
