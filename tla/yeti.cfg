\* Two starts of the loop in one game, two yetis.
SPECIFICATION FairSpec
CONSTANTS
  Yetis = {y1, y2}
  None = None
  MaxSessions = 2
  MaxItems = 1
  MaxRequests = 1
  MaxFaults = 1
CHECK_DEADLOCK FALSE
INVARIANTS
  TypeOK
  OncePerRound
  RalliesGoToTheLock
PROPERTIES
  DepartureIsSeen
  RoundsGoOn
