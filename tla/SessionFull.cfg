SPECIFICATION Spec
CONSTANTS
  Users = {1, 2}
  NSlots = 2
  Homes = {1, 2}
  Types <- MCTypes
  ProcTypes <- MCProcTypes
  Segment <- MCSegment
  Pids = {2}
  MaxIdle = 1
  MaxSess = 1
  Grace = 1
  SweepPeriod = 0
  MaxActive = 1
  LoginInterval = 1
  RedisUp = {TRUE, FALSE}
  MaxTime = 3
  MaxSid = 3
PROPERTY InsertReturnsIndex
