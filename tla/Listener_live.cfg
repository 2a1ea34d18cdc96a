CONSTANTS
  Listeners = {l1}
  Streams = {s1, s2}
  Callers = {c1, c2}
  Capacity = 1
  IdleTicks = 2
  None = None
SPECIFICATION FairSpec
PROPERTIES
  HandlerTerminates
  CloseUnblocksAccept
  IdleListenerCloses
CHECK_DEADLOCK FALSE
