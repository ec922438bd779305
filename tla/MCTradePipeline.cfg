CONSTANTS
  Keys = {1, 2}
  TheKey = 1
  MaxTradesOfTwo = 2
  MinuteLength = 2
  WindowDuration = 2
  Threshold <- MCThreshold
  Rules = {buy, sell}
  AggregatedOn = TRUE
  SignificantOn = TRUE
  Batch = FALSE
  Volumes = {1, 2}
  MaxTime = 3
  MaxTrades = 3
  MaxFailures = 1
SPECIFICATION MCSpec
INVARIANTS
  TypeOK
  PendingIsLatestSample
  NothingSignificantWaits
  ContextInWindow
  AggregatesAreExact
  EachTradeOnce
  TicksAreWellFormed
PROPERTIES
  FlushesAreExact
