CONSTANTS
  Venues = {"coinbase"}
  Symbols = {1, 2}
  BufferLimit = 2
  PageLimit = 1
  MaxPages = 1
  SeenLimit = 2
  Traded = {1, 2}
  MaxMarket = 4
  TimedMarket = 3
  PairedMarket = 3
  PairedPage = 1
  PairedTraded = {1}
  MaxTicks = 0
  MaxBreaks = 1
  MaxFaults = 0
  Disordered = FALSE
SPECIFICATION Spec
INVARIANTS
  EmittedOnce
CHECK_DEADLOCK FALSE
