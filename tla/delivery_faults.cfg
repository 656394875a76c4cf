SPECIFICATION DeliveryFairSpec
CONSTANTS
  r1 = r1
  r2 = r2
  c1 = c1
  c2 = c2
  Request <- MCRequest
  Consumer <- MCConsumer
  NoRequest = NoRequest
  HasBridge = TRUE
  MaxCopies = 2
  MaxCrashes = 1
  BrokerFaults = TRUE
  DbFaults = TRUE
CHECK_DEADLOCK FALSE
INVARIANTS
  RowsBounded
  NoneLost
PROPERTY Recorded
