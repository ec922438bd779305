CONSTANTS
  Kinds = {"bybit", "hyperliquid", "binance", "paced"}
  Adapters = {a1, a2}
  Capacity = 3
  Window = 2
  Reserved = 2
  Weights = {1, 2}
  MinInterval = 2
  Delays = {0, 3}
  DefaultDelay = 1
  BanDelay = 2
  Patience = 2
SPECIFICATION FairSpec
INVARIANTS
  BudgetIsExact
  WindowIsKept
PROPERTIES
  DelaysAreKept
  EveryRecoveryEnds
CHECK_DEADLOCK FALSE
