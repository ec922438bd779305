CONSTANTS
  Keys = {k1, k2}
  NoKey = NoKey
  MaxWatermark = 2
  RetryBase = 1
  RetryCap = 4
  MaxFailures = 3
SPECIFICATION FairHistorySpec
INVARIANTS
  TypeOK
  OrderIsPending
  NoLostWakeup
PROPERTIES
  BackoffIsRespected
  PromiseKept
  EveryRequestIsTried
  CloseReturns
CHECK_DEADLOCK FALSE
