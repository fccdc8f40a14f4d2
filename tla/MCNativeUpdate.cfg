CONSTANTS
  Versions <- TwoVersions
  SchemaOf <- Migrating
  First = 1
  Baseline = 1
  MaxRequests = 3
  Updated = TRUE
SPECIFICATION Spec
INVARIANTS
  TypeOK
  KnownGoodRan
  InstallUndoable
  RestoredDbForgets
PROPERTY RollbackRecorded
CHECK_DEADLOCK FALSE
