\* Two inputs, two output configurations, two log levels; any start may fail.
CONSTANTS
  i1 = i1
  i2 = i2
  a = a
  b = b
  Output = Output
  None = None
  Inputs = {i1, i2}
  Configs = {a, b}
  Levels = {"info", "debug"}
  OutputFaults = TRUE
  ServerFaults = {"config", "uuid", "mkdir", "remove", "listen", "dial"}
  MaxChanges = 4
SPECIFICATION FairSpec
INVARIANTS
  ControllerInv
  LatestConfigRuns
  NoEndpointWithoutInputs
  HealthyInputHasEndpoint
PROPERTIES
  ChangesAreHandled
CHECK_DEADLOCK FALSE
