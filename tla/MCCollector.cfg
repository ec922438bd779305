CONSTANTS
  Keys = {1, 2}
  NoKey = 0
  MinuteLength = 2
  MaxTime = 4
  MaxTrades = 3
  MaxFailures = 1
SPECIFICATION FairSpec
INVARIANTS
  CompletedIsOwed
  NothingLeftBehind
PROPERTIES
  CompletedIsWritten
CHECK_DEADLOCK FALSE
