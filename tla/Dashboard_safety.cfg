CONSTANTS
  a = a
  b = b
  p1 = p1
  p2 = p2
  t1 = t1
  t2 = t2
  Procs = {p1, p2}
  Nobody = Nobody
  Ids <- AllIds
  g = g
  Groups = {g}
  Trackers = {t1, t2}
  Callbacks = {c}
  NoTracker = NoTracker
  Begun <- AllBegun
  Jobs <- AllJobs
  MediumTotal = 1048576
  LargeTotal = 104857600
  MaxCalls = 5
  MaxMoves = 1
SPECIFICATION FairSpec
INVARIANTS
  TypeOK
  RegistryConsistent
  StatsAddUp
PROPERTY CallsReturn
CHECK_DEADLOCK FALSE
