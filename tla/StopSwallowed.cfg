\* The output is stopped in the update that changes its log level.
CONSTANTS
  i1 = i1
  i2 = i2
  a = a
  b = b
  Output = Output
  None = None
  Inputs = {}
  Configs = {a}
  Levels = {"info", "debug"}
  OutputFaults = FALSE
  ServerFaults = {}
  MaxChanges = 3
SPECIFICATION Spec
INVARIANT
  StoppedOutputStops
CHECK_DEADLOCK FALSE
