SPECIFICATION Spec
CONSTANTS
  btc = btc
  Symbols = {btc}
  FeeScale = 1
  Requests <- OddBuy
  MaxOrders = 2
  MaxBatch = 2
  MaxApplied = 1
  MaxRaised = 1
  InitPortfolio <- Start6
  FillPrices = {1}
  FillSizes = {1}
  Lot = 2
  PartialStatuses <- AnyWording
  PaperModes = {TRUE, FALSE}
  Faults <- AllFaults
  NoSnap = NoSnap
INVARIANTS TypeOK FilledIsClosed CancelledIsDead
PROPERTIES FollowsLifecycle
