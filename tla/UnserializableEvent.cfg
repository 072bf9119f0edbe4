\* The second event cannot be serialized.
CONSTANTS
  MaxEvents = 3
  MaxEntries = 4
  MaxEpochs = 2
  GetLimit = 2
  Unserializable = {1}
SPECIFICATION FairSpec
PROPERTIES
  WaitReturnsEventually
CHECK_DEADLOCK FALSE
