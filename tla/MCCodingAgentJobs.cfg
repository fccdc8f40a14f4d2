CONSTANTS
  a1 = a1
  a2 = a2
  f1 = f1
  Agents = {a1, a2}
  Files = {f1}
  RawFiles = {f1}
  InferenceLimit = 3
  MaxMutations = 2
  InspectBefore = 2
  InspectAfter = 2
  Indexed = TRUE
  MaxEditor = 0
SPECIFICATION FairSpec
INVARIANTS
  TypeOK
  UndoneStaysUndone
  ReadOnlyUntouched
PROPERTY JobCloses
CHECK_DEADLOCK FALSE
