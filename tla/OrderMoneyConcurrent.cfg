SPECIFICATION Spec
CONSTANTS
  Orders = {o1, o2}
  Handlers = {h1, h2}
  Roles <- SiteRoles
  Policies = {"NO_GUEST_PAYMENT", "MIXED"}
  Subtotals = {11}
  PointRequests = {1}
  RefundRequests = {5}
  Keys = {}
  NoKey = NoKey
  InitialPoints = 1
  MonthlyBudget = 20
  PerOrderCap = 8
  MayCrash = TRUE
  MaxRequests = 3
SYMMETRY Interchangeable
INVARIANTS
  TypeOK
  NotRequiredIsNeverCharged
  KitchenOnlyAfterClearance
  BooksAreBacked
