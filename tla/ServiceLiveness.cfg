\* One loop more than the pool has threads.
SPECIFICATION FairSpec
CONSTANTS
  ThreadCount = 3
  THREADPOOL_MAX_NUM = 2
  MAX_CONNECTION_TEST = 1
  ConnectOutcomes = {"connected"}
  NumSignals = 4
  MaxSignals = 2
  Main = Main
  NoLoop = NoLoop
PROPERTIES SignalEndsService LoopsDispatched DestructionEnds
\* The process ends.
CHECK_DEADLOCK FALSE
