SPECIFICATION SystemSpec
CONSTANTS
  Jvm <- MCJvm
  Thread <- MCThread
  JvmOf <- MCJvmOf
  Dir <- MCDir
  DirOf <- MCDirOf
  Num = 1
  IoFaults = FALSE
  NoJvm = NoJvm
  Msg <- MCMsg
  Hello = "Hello"
  Absent = Absent
  MongoFaults = FALSE
  Cron <- MCThread
  Rate = 1
  Interval = 2
  MaxTime = 3
  Stops = FALSE
  MaxSent = 4
INVARIANT SentPerSecond
