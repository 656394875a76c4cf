SPECIFICATION SystemSpec
CONSTANTS
  Jvm <- MCJvm
  Thread <- MCThread
  JvmOf <- MCJvmOf
  Dir <- MCDir
  DirOf <- MCDirOf
  Num = 1
  IoFaults = FALSE
  NoJvm = NoJvm
  Msg <- MCMsg
  Hello = "Hello"
  Absent = Absent
  MongoFaults = FALSE
  Cron = {"a1"}
  Rate = 1
  Interval = 2
  MaxTime = 2
  Stops = TRUE
  MaxSent = 2
INVARIANT HonestResults
