SPECIFICATION FairSpec
CONSTANTS
  Workers = {w1}
  Keys = {k1, k2}
  RetryLimit = 1
  MaxRequests = 2
  MaxSignals = 2
  MaxCrashes = 1
INVARIANTS
  DuplicatesCounted
  NothingLeftBehind
PROPERTIES
  ContractSpec
CHECK_DEADLOCK FALSE
