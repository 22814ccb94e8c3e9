SPECIFICATION FairSpec
CONSTANTS
  Workers = {w1}
  Requests = {r1, r2, r3}
  Size <- TwoPieces
  FdLimit = 2
  TrackerDrops = TRUE
  MaxRestarts = 1
  NoReq = NoReq
  NoFile = NoFile
  NL = NL
  Stale = Stale
INVARIANTS OneReply HandedOutWasStored StoredIsAccountedFor UploadIsRecorded LinesAreWhole
PROPERTIES RecordsLostByRestartOnly RequestAnswered
\* All requests may have been answered.
CHECK_DEADLOCK FALSE
