SPECIFICATION Spec
CONSTANTS
  Orders = {o1}
  Handlers = {h1, h2}
  Roles <- SiteRoles
  Policies = {"ONLINE"}
  Subtotals = {11}
  PointRequests = {0}
  RefundRequests = {}
  Keys = {}
  NoKey = NoKey
  InitialPoints = 0
  MonthlyBudget = 0
  PerOrderCap = 0
  MayCrash = FALSE
  MaxRequests = 2
INVARIANT
  CapturedAtMostOnce
