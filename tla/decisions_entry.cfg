SPECIFICATION Spec
CONSTANTS
  None = None
  Symbols = {"btc", "eth"}
  SymbolList <- BtcEth
  Risk <- MCRisk
  StopMethod = "fixed"
  AtrMultiplier = 2
  AntiAveragingDown = TRUE
  BreakEvenGuard = TRUE
  Strategies <- FourStrategies
  Threshold = 50
  MinConfidence = 50
  Activation = 30
  Proximity = 10
  Oversold = 30
  RangeLow = 20
  MinHistogram = 1
  Volatile = 3
  Trend = 1
  EnsembleModes = {TRUE, FALSE}
  Analyses <- MCRising
  Answers <- MCAnswers
  InitCash = 1000
  MaxCycles = 2
INVARIANTS EntryIsAverage
