SPECIFICATION ContentionSpec
CONSTANTS
  Jvm <- MCJvm
  Thread <- MCThread
  JvmOf <- MCJvmOf
  Dir <- MCDir
  DirOf <- MCDirOf
  Num = 2
  IoFaults = TRUE
  NoJvm = NoJvm
INVARIANTS
  SlotExclusive
  LockTable
PROPERTIES
  LimiterSpec
  LimitedOnlyWhenContended
