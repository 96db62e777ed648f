SPECIFICATION Spec
CONSTANTS
  Budgets = {2, 3}
  Estimate = 2
  MaxRequests = 2
  MaxOpen = 1
  MaxDay = 1
  MaxUsed = 4
  MaxEdits = 2
  MaxToggles = 0
  MaxMishaps = 1
INVARIANTS TypeOK OvershootBounded NotifiedOncePerDay FirstOrderWithinDrawdown
