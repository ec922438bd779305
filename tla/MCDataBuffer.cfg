CONSTANTS
  Scenarios = {"raw", "aggregated"}
  Venue = "opaque"
  Streams = {"raw"}
  Trades <- MCTrades
  Volumes <- MCVolumes
  MinuteLength = 2
  Threshold = 2
  Flushers = {worker, final}
  Retention = 1
  AmbiguousCommits = TRUE
  AmbiguousAggregated = FALSE
  MaxPublished = 3
  MaxAggregated = 4
  MaxFailures = 1
  MaxCrashes = 1
  MaxMinute = 2
SPECIFICATION MCSpec
INVARIANTS
  TypeOK
  NothingIsLost
  RawIsFlushIndependent
  RowIsCoherent
  TicksCountTrades
PROPERTIES
  RowsOnlyGrow
CHECK_DEADLOCK FALSE
