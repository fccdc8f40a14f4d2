CONSTANTS
  x1 = x1
  x2 = x2
  Projects = {x1, x2}
  Managers = {1, 2}
  MaxMilestones = 2
  MaxRevisions = 1
  MaxInferences = 3
  Written = {"active", "planned", "succeeded"}
SPECIFICATION Spec
INVARIANTS
  TypeOK
  CommitsOrdered
  MilestonesInOrder
CHECK_DEADLOCK FALSE
