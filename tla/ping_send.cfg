SPECIFICATION PingFairSpec
CONSTANTS
  Jvm <- MCJvm
  Thread <- MCThread
  JvmOf <- MCJvmOf
  Dir <- MCDir
  DirOf <- MCDirOf
  Num = 1
  IoFaults = FALSE
  NoJvm = NoJvm
  Msg <- MCMsg
  Hello = "Hello"
  Absent = Absent
  MongoFaults = TRUE
INVARIANTS
  RequestsBounded
  SlotsReturned
  MessageIsCurrent
PROPERTIES
  ConfiguredMessageKept
  AttemptsFinish
  BootConverges
  SlotsKeepMoving
