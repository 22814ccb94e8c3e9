SPECIFICATION Spec
CONSTANTS
  ThreadCount = 3
  THREADPOOL_MAX_NUM = 2
  MAX_CONNECTION_TEST = 2
  ConnectOutcomes = {"connected", "nullCounted", "nullEmpty"}
  NumSignals = 4
  MaxSignals = 2
  Main = Main
  NoLoop = NoLoop
INVARIANTS TypeOK BaseOwnedOnce HandlerHasService
PROPERTY ImplementsProxyLife
\* The process ends.
CHECK_DEADLOCK FALSE
