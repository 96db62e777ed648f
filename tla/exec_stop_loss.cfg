SPECIFICATION Spec
CONSTANTS
  btc = btc
  Symbols = {btc}
  FeeScale = 10
  Requests = {}
  MaxOrders = 1
  MaxBatch = 2
  MaxApplied = 0
  MaxRaised = 0
  InitPortfolio <- Rich
  FillPrices = {1}
  FillSizes = {}
  Lot = 1
  PartialStatuses <- AnyWording
  PaperModes = {FALSE}
  Faults = {"stop_loss"}
  NoSnap = NoSnap
INVARIANTS SettledLedgerExact
