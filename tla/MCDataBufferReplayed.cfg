CONSTANTS
  Scenarios = {"aggregated"}
  Venue = "opaque"
  Streams = {"raw"}
  Trades <- MCSingleTrades
  Volumes <- MCVolumes
  MinuteLength = 2
  Threshold = 2
  Flushers = {worker, final}
  Retention = 1
  AmbiguousCommits = FALSE
  AmbiguousAggregated = FALSE
  MaxPublished = 3
  MaxAggregated = 2
  MaxFailures = 0
  MaxCrashes = 1
  MaxMinute = 1
SPECIFICATION MCSpec
INVARIANTS
  ReplaysCountOnce
CHECK_DEADLOCK FALSE
