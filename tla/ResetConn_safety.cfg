CONSTANTS
  MaxRetry = 2
  MaxFrames = 2
  MaxStreams = 4
  MaxResets = 2
SPECIFICATION FairSpec
INVARIANTS
  TypeOK
  TornAtStartOnly
  PartsOnce
CHECK_DEADLOCK FALSE
PROPERTY RecoveryEnds
