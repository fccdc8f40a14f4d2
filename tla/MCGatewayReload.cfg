CONSTANTS
  RetryLimit = 2
  Readies = {r1, r2}
  MaxRows = 3
SPECIFICATION Spec
PROPERTY SavedConfigApplies
SYMMETRY Alike
CHECK_DEADLOCK FALSE
