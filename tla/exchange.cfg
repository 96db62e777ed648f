SPECIFICATION Spec
CONSTANTS
  Callers = {"candles", "order"}
  OrderCaller = "order"
  CandleCaller = "candles"
  MaxRetries = 2
  Threshold = 2
  MaxTime = 3
  Limit = 2
  Until = 3
  Batch = 2
  Caps = {1, 2}
INVARIANTS
  TypeOK
  ThresholdCools
  CountBounded
  RangeWithoutHoles
  PartialCandlesHeal
PROPERTIES
  RangeComplete
  CallsReturn
  BreakerRecovers
