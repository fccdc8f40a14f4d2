CONSTANTS
  RetryLimit = 2
  Readies = {r1, r2}
  MaxRows = 4
SPECIFICATION Spec
INVARIANTS
  AlertsOnce
PROPERTIES
  OneDisconnectAlert
  ReadyFlushes
SYMMETRY Alike
CHECK_DEADLOCK FALSE
