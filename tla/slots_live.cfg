\* A window that may be closed on its batch and opened again, under fairness.
SPECIFICATION FairSpec
CONSTANTS
  NumTargets = 2
  NumMonsters = 1
  AllowRecall = FALSE
  Concurrency = 1
  MaxWindows = 2
INVARIANTS
  OneOperationAtATime
PROPERTIES
  BatchEnds
