SPECIFICATION Spec
CONSTANTS
  Monsters = {m1, m2}
  None = None
  Slots = 2
  MaxMarches = 2
  MaxSessions = 2
  MaxRequests = 2
  MaxFaults = 1
SYMMETRY Alike
CHECK_DEADLOCK FALSE
INVARIANTS
  TypeOK
  CountsAreExact
  NoLoopRunsUnseen
  TrackedAreNotNew
PROPERTY
  EndShowsAll
