SPECIFICATION Spec
CONSTANTS
  LevelSeq <- LevelOrder
  Global = "Global"
  Bools = {"Enabled"}
  Shared = {"PerformanceTracking"}
  Files = {"a.log", "b.log"}
  DefaultFile = "a.log"
  Ids = {"default", "net"}
  DefaultId = "default"
  Initial = {"default"}
  Null = Null
  Settings <- SomeSettings
  Overrides <- SomeOverrides
  Texts <- SomeTexts
  Globals <- SomeGlobals
  MaxOps = 3
INVARIANTS TypeOK GlobalFirst ReadsItsList ToFileWhereOpen OneStreamPerFile
PROPERTIES LoggersFollow TruncatesOnlyLimited
CHECK_DEADLOCK FALSE
