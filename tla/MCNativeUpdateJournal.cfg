CONSTANTS
  Versions <- OneVersion
  SchemaOf <- Unmigrated
  First = 1
  Baseline = 1
  MaxRequests = 4
  Updated = TRUE
SPECIFICATION Spec
PROPERTY RollbackPersisted
CHECK_DEADLOCK FALSE
