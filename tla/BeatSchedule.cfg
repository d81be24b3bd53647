SPECIFICATION BeatSpec
CONSTANTS
  Workers = {w1}
  Entries <- BeatEntries
  Arguments <- BeatArguments
  Keys <- BeatKeys
  RetryLimit = 0
  MaxRequests = 3
  MaxSignals = 0
  MaxCrashes = 0
  Wanted = {"kwargs"}
  LastDay = 2
INVARIANT EveryOccurrenceRuns
CHECK_DEADLOCK FALSE
