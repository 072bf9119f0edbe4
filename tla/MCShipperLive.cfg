\* Two clients and a stream, a queue of one entry, a restart, and
\* starts that fail after the queue was made.
CONSTANTS
  c1 = c1
  c2 = c2
  s1 = s1
  Clients = {c1, c2}
  Subscribers = {s1}
  StartFaults = {"output"}
  MaxEvents = 1
  MaxEntries = 2
  MaxEpochs = 2
  MaxRequest = 1
  MaxRequests = 2
SPECIFICATION FairSpec
PROPERTIES
  RequestsAreAnswered
  CloseCompletes
  ProgressIsReported
  AcceptedIsPersisted
