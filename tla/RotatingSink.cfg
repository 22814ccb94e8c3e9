\* Two threads; files of two bytes and messages of one or three, so that a
\* single message may be too large; four files.
SPECIFICATION FairSpec
CONSTANTS
  Threads = {t1, t2}
  max_size_ = 2
  max_files_ = 3
  Sizes = {1, 3}
  MaxMessages = 6
  MaxFaults = 2
  NoThread = NoThread
INVARIANTS Ordered FilesBounded ClosedForcesRotation
PROPERTIES DropsOldestOnly RotationEnds
\* All messages may have been logged.
CHECK_DEADLOCK FALSE
