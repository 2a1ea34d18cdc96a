CONSTANTS
  Errors = {e1, e2, e3}
  Critical = {e1}
  Starters = {g1, g2}
  Stoppers = {q1}
  BufferSize = 2
  HistorySize = 2
  CriticalErrorThreshold = 0
  ConsecutiveErrorThreshold = 2
  RateAlerts = TRUE
  MaxResets = 1
  ResetFrom = 3
  None = None
SPECIFICATION FairSpec
INVARIANTS
  TypeOK
  HistoryIsRecent
  StatisticsCovered
PROPERTIES
  ProcessorsEnd
CHECK_DEADLOCK FALSE
