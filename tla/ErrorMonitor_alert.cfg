CONSTANTS
  Errors = {e1, e2}
  Critical = {}
  Starters = {g1}
  Stoppers = {}
  BufferSize = 2
  HistorySize = 2
  CriticalErrorThreshold = 2
  ConsecutiveErrorThreshold = 2
  RateAlerts = FALSE
  MaxResets = 0
  ResetFrom = 0
  None = None
SPECIFICATION FairSpec
PROPERTY AlertTriggered
CHECK_DEADLOCK FALSE
