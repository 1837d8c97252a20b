SPECIFICATION FairSpec
CONSTANTS
  Rows = {r1, r2}
  NoRow = NoRow
  MaxAttempts = 3
  MaxCrashes = 2
  MaxOverrides = 1
INVARIANTS
  PassesAreAccountedFor
PROPERTIES
  ProhibitionsHold
  DeliversEvents
