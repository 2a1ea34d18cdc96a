CONSTANTS
  Ids = {t1}
  Sizes = {0, 5, 10, 20, 50}
  MediumTotal = 20
  LargeTotal = 50
  MaxPending = 2
  MaxRuns = 2
  None = None
SPECIFICATION Spec
INVARIANTS
  TypeOK
  CompletesOnce
  ProgressThrottled
PROPERTIES
  StatusGraph
