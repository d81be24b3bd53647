SPECIFICATION FairSpec
CONSTANTS
  c1 = c1
  c2 = c2
  Runs = {p1, p2}
  Untrusted = {c2}
  BatchSize = 1
  Modes = {"cache-first", "disabled"}
  FromQueue = {p2}
  Dry = {}
  LegacyRows = {c1}
  MaxVersion = 2
  MaxStarts = 2
  MaxSignals = 1
  MaxCrashes = 1
  Order <- ThreeConnectors
INVARIANTS
  CollisionsNeedASignal
  CandidatesPersisted
  NoConnectorDropsOut
  RemoteRowsAreLive
PROPERTIES
  DiscoveriesEnd
CHECK_DEADLOCK FALSE
