SPECIFICATION FairSpec
CONSTANTS
  Requests = {r1, r2, r3}
  Keys = {k1}
  Settings <- AllSettings
  TTL = 1
  MaxTime = 2
INVARIANTS
  CallLedger
  CircuitMatchesFailures
  RequestsWithinQuota
PROPERTIES
  BreakerHolds
  RequestsAnswered
CHECK_DEADLOCK FALSE
