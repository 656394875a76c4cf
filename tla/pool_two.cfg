SPECIFICATION PoolFairSpec
CONSTANTS
  t1 = t1
  t2 = t2
  t3 = t3
  Thread <- MCThread
  Builder <- MCBuilder
  NoBuilder = NoBuilder
  Host = Host
  MaxTotal = 2
  MaxIdle = 1
INVARIANTS
  BuilderExclusive
  IdWellFormed
  PoolBounded
PROPERTY GenerationEnds
