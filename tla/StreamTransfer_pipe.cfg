CONSTANTS
  Sizes = {1, 2, 3}
  Window = 2
  Estimate = 2
  MediumTotal = 2
  LargeTotal = 4
  Faults = {}
  Strategies <- NewStrategies
  MaxRest = 1
  MaxSends = 3
  MaxReceives = 3
SPECIFICATION FairSpec
PROPERTIES
  PipeSpec
  TransfersEnd
CHECK_DEADLOCK FALSE
