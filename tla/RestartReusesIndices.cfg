\* The output is restarted between two requests.
CONSTANTS
  c1 = c1
  c2 = c2
  s1 = s1
  Clients = {c1, c2}
  Subscribers = {s1}
  StartFaults = {}
  MaxEvents = 2
  MaxEntries = 4
  MaxEpochs = 2
  MaxRequest = 1
  MaxRequests = 2
SPECIFICATION Spec
INVARIANT
  PersistedCoversReplies
CHECK_DEADLOCK FALSE
