SPECIFICATION Spec
CONSTANTS
  typed = typed
  lower = lower
  Callers = {p1, p2}
  Addresses = {typed, lower}
  KeyOf <- OneKey
  Lists = {all}
  Profile = profile
  MaxOps = 4
  MaxWrites = 3
  MaxFaults = 1
SYMMETRY Symmetry
INVARIANTS
  CacheKeepsUp
  IndexesReachEntries
CHECK_DEADLOCK FALSE
