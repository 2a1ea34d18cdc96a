CONSTANTS
  Starters = {g1, g2}
  Stoppers = {q1, q2}
  Preallocated = TRUE
  MemoryUsageLimit = 4
  Sizes = {1, 3}
  MaxReports = 3
SYMMETRY Symmetry
SPECIFICATION MemorySpec
INVARIANTS
  MemoryTypeOK
  LedgerExact
  EmergencyFollowsLevel
CHECK_DEADLOCK FALSE
