SPECIFICATION FairSpec
CONSTANTS
  btc = btc
  Symbols = {btc}
  FeeScale = 1
  Requests <- OneBuy
  MaxOrders = 2
  MaxBatch = 2
  MaxApplied = 1
  MaxRaised = 1
  InitPortfolio <- Start10
  FillPrices = {1}
  FillSizes = {1}
  Lot = 1
  PartialStatuses = {"open"}
  PaperModes = {FALSE}
  Faults <- ExchangeFaults
  NoSnap = NoSnap
PROPERTIES OrdersResolve
