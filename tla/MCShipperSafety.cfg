\* Two clients share a queue of two entries with one stream; the output is
\* restarted, and starting it fails at any stage.
CONSTANTS
  c1 = c1
  c2 = c2
  s1 = s1
  Clients = {c1, c2}
  Subscribers = {s1}
  StartFaults = {"config", "queue", "monitoring", "output", "launch"}
  MaxEvents = 2
  MaxEntries = 4
  MaxEpochs = 2
  MaxRequest = 2
  MaxRequests = 2
SPECIFICATION Spec
SYMMETRY Symmetry
INVARIANTS
  ServerInv
  PersistedIsConcluded
  QueueOpenWhilePublishing
  StreamsAreSound
  AcceptedIndexIsLast
  CloseFlushes
  NoHandlerOutlivesOutput
PROPERTIES
  StreamsAscend
  ImplementsContract
CHECK_DEADLOCK FALSE
