SPECIFICATION FairSpec
CONSTANTS
  Budgets = {1}
  Estimate = 2
  MaxRequests = 2
  MaxOpen = 1
  MaxDay = 0
  MaxUsed = 4
  MaxEdits = 1
  MaxToggles = 1
  MaxMishaps = 1
PROPERTIES OpenOrdersPolled
