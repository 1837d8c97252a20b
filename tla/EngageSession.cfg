SPECIFICATION FairSpec
CONSTANTS
  Passes = {p1}
  NoPass = NoPass
  Handlers = {h1, h2}
  Rooms = {r1}
  PoolSize = 2
  Ideas = {1, 2}
  Ceilings = {0, 3}
  Seats = {0, 2}
  MaxAttempts = 1
  MaxCrashes = 1
INVARIANTS
  CeilingHolds
  OverWhenAllServed
  NoGroupOverfull
PROPERTIES
  NoPrematureRepeat
  EveryMomentIsServed
  KeepsAllowance
