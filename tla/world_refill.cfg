SPECIFICATION FairSpec
CONSTANTS
  Monsters = {m1}
  None = None
  Slots = 2
  MaxMarches = 2
  MaxSessions = 2
  MaxRequests = 1
  MaxFaults = 0
CHECK_DEADLOCK FALSE
PROPERTY
  FreeSlotIsUsed
