\* Two clients race with three workers; the constructor is asked for more
\* threads than THREADPOOL_MAX_NUM.
SPECIFICATION FairSpec
CONSTANTS
  Tasks = {t1, t2, t3}
  Clients = {c1, c2}
  Size = 4
  THREADPOOL_MAX_NUM = 3
  NoTask = NoTask
  NoOne = NoOne
INVARIANTS PoolInv FIFO OneExecutor IdleAccurate NoLostWakeup DtorStrandsAtMostOne
PROPERTIES ImplementsTaskPool QueuedTaskStarts
\* The pool may come to rest: destroyed, or all its threads waiting.
CHECK_DEADLOCK FALSE
