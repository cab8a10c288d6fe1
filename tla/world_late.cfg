SPECIFICATION Spec
CONSTANTS
  Monsters = {m1}
  None = None
  Slots = 1
  MaxMarches = 1
  MaxSessions = 2
  MaxRequests = 2
  MaxFaults = 0
CHECK_DEADLOCK FALSE
INVARIANT LateEventsStayApart
