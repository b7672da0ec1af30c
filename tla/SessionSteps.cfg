SPECIFICATION StepsSpec
CONSTANTS
  Users = {1, 2}
  NSlots = 2
  Homes = {1}
  Types <- MCTypes
  ProcTypes = {}
  Segment <- MCSegment
  Pids = {}
  MaxIdle = 0
  MaxSess = 0
  Grace = 0
  SweepPeriod = 0
  Workers = {w1, w2}
  NoWorker = NoWorker
  MaxSid = 3
INVARIANTS UnindexedInHand InsertExclusive
PROPERTY EveryCallReturns
