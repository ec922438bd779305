CONSTANTS
  Venues = {"coinbase", "deribit", "binance", "hyperliquid", "bybit", "phoenix", "bitfinex"}
  Symbols = {1, 2}
  BufferLimit = 2
  PageLimit = 2
  MaxPages = 2
  SeenLimit = 4
  Traded = {1, 2}
  MaxMarket = 4
  TimedMarket = 3
  PairedMarket = 3
  PairedPage = 1
  PairedTraded = {1}
  MaxTicks = 1
  MaxBreaks = 1
  MaxFaults = 1
  Disordered = TRUE
SPECIFICATION FairSpec
INVARIANTS
  TypeOK
  GapsShow
  NothingSkipped
  EmittedOnce
  RecoveryIsContiguous
  SlotsAreExact
PROPERTIES
  CatchesUp
CHECK_DEADLOCK FALSE
