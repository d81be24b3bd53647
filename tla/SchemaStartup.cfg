SPECIFICATION FairSpec
CONSTANTS
  Processes = {p1, p2}
  Databases <- AllDatabases
  MaxCrashes = 1
INVARIANTS
  ReadyMeansComplete
  RecordedMeansDone
  NoRename
PROPERTY EventuallyReady
CHECK_DEADLOCK FALSE
