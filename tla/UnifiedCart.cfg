SPECIFICATION Spec
CONSTANTS
  Outlets = {c1, c2, c3}
  Handlers = {h1, h2}
  Roles <- SiteRoles
  ParentMovers = {"Runner"}
SYMMETRY Interchangeable
INVARIANTS
  NoPortionBeforeClearance
  GroupedRunnerWaitsForAll
  OverMeansNothingCooking
