SPECIFICATION Spec
CONSTANTS
  None = None
  Idle = Idle
  MaxOrders = 2
  MaxCalls = 2
  MaxVisits = 2
  Impatient = FALSE
INVARIANTS
  PaidOnceAVisit
PROPERTIES
  TrackingCatchesUp
