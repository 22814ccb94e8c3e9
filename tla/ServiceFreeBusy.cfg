SPECIFICATION Spec
CONSTANTS
  ThreadCount = 1
  THREADPOOL_MAX_NUM = 1
  MAX_CONNECTION_TEST = 1
  ConnectOutcomes = {"connected"}
  NumSignals = 4
  MaxSignals = 1
  Main = Main
  NoLoop = NoLoop
INVARIANT FreeOnlyIdle
\* The process ends.
CHECK_DEADLOCK FALSE
