\* An output and a restart, counters up to one.
CONSTANTS
  Generations = 2
  MaxCount = 1
SPECIFICATION FairSpec
INVARIANTS
  WatcherInv
PROPERTIES
  RecoveryIsReported
  OutageIsReported
CHECK_DEADLOCK FALSE
