SPECIFICATION Spec
CONSTANTS
  None = None
  Symbols = {"btc"}
  Symbol = "btc"
  Risk <- MCRisk
  StopMethod = "fixed"
  AtrMultiplier = 2
  InitBalance = 7800
  FeeScale = 20
  AntiAveragingDown = TRUE
  Spread = 1
  SlipScale = 20
  Warmup = 2
  BarCounts = {0, 2, 5}
  Prices = {400, 800}
  SignalLists <- MCSignals
CHECK_DEADLOCK FALSE
INVARIANT NeverShort
