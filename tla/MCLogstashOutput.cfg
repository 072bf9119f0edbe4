\* Three hosts that fail in any way, batches of up to two events, a restart.
CONSTANTS
  MaxEvents = 2
  MaxEntries = 3
  MaxEpochs = 2
  GetLimit = 2
  HostCount = 3
  TTL = TRUE
SPECIFICATION FairSpec
INVARIANTS
  LogstashInv
  GivenUpByAllHosts
PROPERTIES
  WaitReturnsEventually
  KeepsContract
CHECK_DEADLOCK FALSE
