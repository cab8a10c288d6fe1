\* Two monsters on one slot, under fairness, and a role that is switched for good.
SPECIFICATION FairSpec
CONSTANTS
  NumTargets = 2
  NumMonsters = 2
  AllowRecall = FALSE
  Concurrency = 1
  MaxWindows = 1
PROPERTIES
  RoleSwitchStopsBatch
