CONSTANTS
  a1 = a1
  f1 = f1
  f2 = f2
  Agents = {a1}
  Files = {f1, f2}
  RawFiles = {f1}
  InferenceLimit = 10
  MaxMutations = 2
  InspectBefore = 4
  InspectAfter = 2
  Indexed = FALSE
  MaxEditor = 1
SPECIFICATION Spec
INVARIANTS
  RollbackNeverBlind
  FailedJobUndone
PROPERTY LossesNamed
CHECK_DEADLOCK FALSE
