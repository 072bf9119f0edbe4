\* Batches of up to three events from a queue of four, one of which cannot be
\* serialized, and a restart.
CONSTANTS
  MaxEvents = 4
  MaxEntries = 5
  MaxEpochs = 2
  GetLimit = 3
  Unserializable = {3}
SPECIFICATION FairSpec
INVARIANTS
  ESInv
PROPERTIES
  WaitReturnsUnlessSkipped
  KeepsContract
CHECK_DEADLOCK FALSE
