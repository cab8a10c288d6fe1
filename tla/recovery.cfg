SPECIFICATION FairSpec
CONSTANTS
  c1 = c1
  c2 = c2
  worker = worker
  None = None
  Foreign = Foreign
  Callers = {c1, c2}
  Programs = {worker}
  ProgramOf <- OneProgram
  Servers = {p1, p2, p3}
  MaxCalls = 3
  MaxFaults = 2
INVARIANTS TypeOK OneRecoveryAtATime RetryFollowsRecovery OneServer
PROPERTIES CallsEnd
CHECK_DEADLOCK FALSE
