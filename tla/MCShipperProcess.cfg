\* Batches of up to two events from a queue of three, and a restart; two
\* readers ask for metrics.
CONSTANTS
  MaxEvents = 3
  MaxEntries = 4
  MaxEpochs = 2
  GetLimit = 2
  r1 = r1
  r2 = r2
  Readers = {r1, r2}
  MaxReads = 3
  Raws <- MCRaws
  Changes <- MCChanges
  DiskDefaults <- MCDiskDefaults
  MaxAttempts = 5
SPECIFICATION ProcessSpec
SYMMETRY Symmetry
INVARIANTS
  ConsoleInv
  WaitFlushes
  MonitorInv
  ConfigurationInv
  BackoffsAgree
PROPERTIES
  KeepsContract
CHECK_DEADLOCK FALSE
