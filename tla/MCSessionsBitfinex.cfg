CONSTANTS
  Venues = {"bitfinex"}
  Symbols = {1}
  BufferLimit = 2
  PageLimit = 1
  MaxPages = 2
  SeenLimit = 2
  Traded = {1}
  MaxMarket = 4
  TimedMarket = 3
  PairedMarket = 3
  PairedPage = 1
  PairedTraded = {1}
  MaxTicks = 1
  MaxBreaks = 1
  MaxFaults = 0
  Disordered = FALSE
SPECIFICATION Spec
INVARIANTS
  FilledOrGivenUp
CHECK_DEADLOCK FALSE
