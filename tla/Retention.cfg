SPECIFICATION RetentionSpec
CONSTANTS
  Callers = {p1, p2}
  Opps = {o1}
  Given = {"approved", "noted"}
  Final = {"approved"}
  MaxRetries = 2
  Mails = {m1}
  Tasks = {t1}
  Docs = {d1, d2}
  Keep <- KeepOne
  Second <- TwoTicks
  MaxTime = 3
  MaxOps = 3
  MaxFinds = 2
  MaxCrashes = 1
INVARIANTS
  StatusesAgree
  DocumentsHaveFiles
PROPERTIES
  PortalCallsAreRecorded
  OnlyNewIsSubmitted
  DecisionsStand
  DeletedIsArchived
SYMMETRY
  Symmetry
CHECK_DEADLOCK FALSE
