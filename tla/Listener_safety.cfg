CONSTANTS
  Listeners = {l1, l2}
  Streams = {s1, s2}
  Callers = {c1, c2}
  Capacity = 1
  IdleTicks = 1
  None = None
SYMMETRY Symmetry
SPECIFICATION Spec
INVARIANTS
  TypeOK
  QueuePlacement
  StatsExact
  CloseComplete
PROPERTY HandoffSpec
CHECK_DEADLOCK FALSE
