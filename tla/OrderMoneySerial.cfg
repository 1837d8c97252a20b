SPECIFICATION Spec
CONSTANTS
  Orders = {o1}
  Handlers = {h1}
  Roles <- SiteRoles
  Policies = {"ONLINE", "CORPORATE_WALLET", "NO_GUEST_PAYMENT", "MIXED"}
  Subtotals = {11}
  PointRequests = {0, 1}
  RefundRequests = {1, 5}
  Keys = {k1}
  NoKey = NoKey
  InitialPoints = 2
  MonthlyBudget = 20
  PerOrderCap = 8
  MayCrash = TRUE
  MaxRequests = 4
INVARIANTS
  CapturedAtMostOnce
  RefundWithinTolerance
  KeyUsedOnce
PROPERTIES
  RefundedIsFinal
  KeepsPromise
