SPECIFICATION Spec
CONSTANTS
  e1 = e1
  e2 = e2
  staff = staff
  admin = admin
  m1 = m1
  m2 = m2
  Recipients = {m1, m2}
  Callers = {p1, p2}
  Assignees = {staff, admin}
  ExternalIds = {e1, e2}
  Given = {"in-progress"}
  Authors = {staff}
  Readers = {staff, admin}
  Gap = 2
  MaxTasks = 2
  MaxTime = 2
  MaxOps = 3
  MaxCrashes = 1
  Creations <- ThreeTasks
  Batches <- ThreeBatches
  Databases <- TwoBoards
INVARIANTS
  BatchesAreWhole
  AuditFollowsTasks
  TransitionsFormAChain
  NoticesAreSpaced
  UnreadUntilShown
SYMMETRY Symmetry
CHECK_DEADLOCK FALSE
