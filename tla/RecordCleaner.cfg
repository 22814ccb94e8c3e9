SPECIFICATION FairSpec
CONSTANTS
  f1 = f1
  f2 = f2
  log = log
  a = a
  b = b
  c = c
  d = d
  Runs = {r1, r2}
  Records <- MCRecords
  ProcessLog = log
  Date <- MCDate
  Content <- MCContent
  Days = {0, 1, 2}
  NoDays = NoDays
  MaxDay = 2
  NoFile = NoFile
INVARIANTS TypeOK MovedWasTried
PROPERTIES FreshKept RunEnds
CHECK_DEADLOCK FALSE
