CONSTANTS
  c1 = c1
  c2 = c2
  Clients <- MCClients
  Calls <- MCCalls
  MaxTrades <- MCMaxTrades
  MaxErrors <- MCMaxErrors
SPECIFICATION FairSpec
INVARIANTS
  ClientOrderIsKept
  ReturnsAfterDraining
PROPERTIES
  CancelReturns
  NothingLeaks
CHECK_DEADLOCK FALSE
