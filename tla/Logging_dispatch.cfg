SPECIFICATION FairSpec
CONSTANTS
  Threads = {t1, t2}
  Loggers = {"default", "net", "quiet", "ghost"}
  DefaultId = "default"
  Invalid = {"ghost"}
  Registered = {"default", "quiet"}
  Enabled <- MCEnabled
  FileOf <- MCFileOf
  Threshold <- MCThreshold
  MaxLogFileSize = 2
  Flags = {"MultiLoggerSupport", "CreateLoggerAutomatically"}
  kMaxLogPerCounter = 3
  Statements <- MCStatements
  Parts = 2
  MaxStatements = 4
  None = None
INVARIANTS TypeOK LocksReturned Delivered AbortIsLogged RolledInTime GatesExact
PROPERTY StatementsEnd
CHECK_DEADLOCK FALSE
