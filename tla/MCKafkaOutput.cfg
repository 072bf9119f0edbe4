\* Batches of up to three events, of which one cannot be encoded and one is
\* refused; any other attempt may fail, with or without the breaker.
CONSTANTS
  MaxEvents = 3
  MaxEntries = 4
  MaxEpochs = 2
  GetLimit = 3
  Unencodable = {1}
  Rejected = {2}
SPECIFICATION FairSpec
INVARIANTS
  KafkaInv
PROPERTIES
  WaitReturnsEventually
  KeepsContract
CHECK_DEADLOCK FALSE
