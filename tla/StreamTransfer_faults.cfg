CONSTANTS
  Sizes = {0, 2}
  Window = 2
  Estimate = 1
  MediumTotal = 2
  LargeTotal = 4
  Faults = {"readerError", "writerError", "timeout", "reset", "closed"}
  Strategies <- NewStrategies
  MaxRest = 1
  MaxSends = 2
  MaxReceives = 3
SPECIFICATION FairSpec
INVARIANTS
  TypeOK
  WholeStream
  TrackerSettled
CHECK_DEADLOCK FALSE
PROPERTY ReceiveReturns
