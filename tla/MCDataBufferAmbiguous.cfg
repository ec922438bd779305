CONSTANTS
  Scenarios = {"aggregated"}
  Venue = "opaque"
  Streams = {"raw"}
  Trades <- MCTrades
  Volumes <- MCVolumes
  MinuteLength = 2
  Threshold = 2
  Flushers = {worker, final}
  Retention = 1
  AmbiguousCommits = TRUE
  AmbiguousAggregated = TRUE
  MaxPublished = 3
  MaxAggregated = 4
  MaxFailures = 1
  MaxCrashes = 0
  MaxMinute = 1
SPECIFICATION MCSpec
INVARIANTS
  TicksCountTrades
CHECK_DEADLOCK FALSE
