CONSTANTS
  Requests <- AllRequests
  Custom <- AllCustom
  Scorers <- AllScorers
  NoAnswer = NoAnswer
  RuneSpan = 1200000
  CacheSize = 2
  CacheTTL = 0
  MaxCalls = 4
  MaxTime = 1
SPECIFICATION Spec
INVARIANTS
  TypeOK
  
  CachedFits
CHECK_DEADLOCK FALSE
