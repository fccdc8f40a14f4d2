CONSTANTS
  j1 = j1
  j2 = j2
  Jobs = {j1, j2}
  Kinds <- AllKinds
  MaxConcurrent = 1
SPECIFICATION FairSpec
INVARIANTS
  TypeOK
  NoticeMatchesRow
  OpenRowOwned
  CancelTablesExact
  SlotDiscipline
  OrphanOnlyAfterCancel
PROPERTIES
  CleanShutdown
  DelegatedContract
  CancelWins
  WaitersServed
  JobsSettle
