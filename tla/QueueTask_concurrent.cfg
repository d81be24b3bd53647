SPECIFICATION FairSpec
CONSTANTS
  Workers = {w1, w2}
  Keys = {k1}
  RetryLimit = 1
  MaxRequests = 3
  MaxSignals = 1
  MaxCrashes = 1
INVARIANTS
  TerminalBacked
  DeadLetterExplained
  HistoryIsARun
PROPERTIES
  WorkersReturn
CHECK_DEADLOCK FALSE
