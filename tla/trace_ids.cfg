SPECIFICATION TraceSpec
CONSTANTS
  r1 = r1
  r2 = r2
  c1 = c1
  cron = cron
  loop = loop
  p1 = p1
  p2 = p2
  Request <- MCRequest
  Consumer <- MCConsumer
  CronThread <- MCCronThread
  LoopThread <- MCLoopThread
  PongThread <- MCPongThread
  NoRequest = NoRequest
  NoThread = NoThread
  HasBridge = TRUE
  MaxCopies = 1
  MaxCrashes = 1
  BrokerFaults = TRUE
  DbFaults = TRUE
  MaxId = 3
SYMMETRY MCSymmetry
CHECK_DEADLOCK FALSE
INVARIANTS
  RowsCarryPongId
  EndToEnd
  CronRunsFresh
