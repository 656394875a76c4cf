SPECIFICATION ThrottleSpec
CONSTANTS
  Rate = 2
  Interval = 2
  MaxTime = 11
INVARIANTS
  LongRunRate
  WindowRate
  RejectedOnlyAfterPass
