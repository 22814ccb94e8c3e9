\* Two callers of fpstart.sh and so two monitors; a slot for the proxy of each.
SPECIFICATION FairSpec
CONSTANTS
  Procs = {p1, p2}
  Monitors = {m1, m2}
  MaxStarts = 2
  MaxFaults = 1
INVARIANTS OneProxy SecondStopMissesNone
PROPERTIES ServingKeepsRecords StoppedProxyEnds KeepsServing
CHECK_DEADLOCK FALSE
