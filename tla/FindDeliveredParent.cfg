SPECIFICATION Spec
CONSTANTS
  Outlets = {c1, c2}
  Handlers = {h1, h2}
  Roles <- SiteRoles
  ParentMovers = {"Runner"}
INVARIANT
  DeliveredWhenAllAre
