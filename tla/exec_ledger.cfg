SPECIFICATION Spec
CONSTANTS
  btc = btc
  Symbols = {btc}
  FeeScale = 10
  Requests <- BuyLowSellHigh
  MaxOrders = 3
  MaxBatch = 2
  MaxApplied = 0
  MaxRaised = 0
  InitPortfolio <- Rich
  FillPrices = {2}
  FillSizes = {}
  Lot = 1
  PartialStatuses <- AnyWording
  PaperModes = {TRUE, FALSE}
  Faults <- OrdinaryFaults
  NoSnap = NoSnap
INVARIANTS LedgerExact FeesExact LiveOrdersAreTracked
