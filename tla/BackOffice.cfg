SPECIFICATION Spec
CONSTANTS
  root = root
  ann = ann
  Users = {root, ann}
  Bootstrap = root
  Grants <- OfOnePartner
  Guessed = {root}
  MaxFailures = 2
  MaxChallenges = 3
  MaxAttempts = 3
  near = near
  far = far
  MaxVersion = 1
  Customers = {near, far}
  Bucket <- Shares
  Percentages = {5, 6}
  HardMax = 5
  Default = 2
  Samples = {1}
  MaxServed = 1
  hotel = hotel
  cafe = cafe
  grill = grill
  Absent = Absent
  ResetIds = {"r1"}
  Sites = {hotel}
  Trades = {cafe, grill}
  Releases = {1, 2}
  Recovery = 2
  MaxStarts = 4
  caller = caller
  other = other
  Clients = {caller, other}
  Proxy = "proxy"
  Buckets = {"orders"}
  Limit <- TwoEach
  Window <- TwoEach
  SweepAge = 2
  MaxNow = 5
  kiosk = kiosk
  terrace = terrace
  Sellers = {kiosk, terrace}
  Gross <- Prices
  Discounts = {0, 4}
  Models <- Contracts
  Slices = {1, 3, 8}
  MaxRefunds = 3
  Inherit = Inherit
  Worded = {"property", "merchant", "outlet"}
  Pictured = {"property", "merchant"}
  MaxUploads = 2
  None = None
  basic = basic
  full = full
  tenant = tenant
  soup = soup
  house = house
  bistro = bistro
  o1 = o1
  o2 = o2
  Plans = {basic, full}
  Tenants = {tenant}
  Entitlements = {"qrOrdering", "marketplace"}
  Goods = {soup}
  House = house
  Guesthouse = bistro
  First = o1
  Second = o2
  Nobody = Nobody
  Platform = Platform
  Initial = Initial
  Partners = {tenant, house}
  Habits = {}
  Unset = Unset
  Outlets = {o1, o2}
  Decisions <- Rulings
  MaxChanges = 2
INVARIANTS
  SuperAdminRemains
  OnlyNewestIsPending
  PromotedWasTried
  OnlyTheShareIsExposed
  ServesWhole
  CountsItsOwn
  BaseIsWhatIsKept
  RefundFollowsTheSale
  ShowsOnlyItsPictures
  WhatIsShownCanBeOrdered
  WritesGoWhereShown
PROPERTIES
  PartnersStayInside
  OwnPasswordStays
  NobodyElseTakesAway
  OfferIsTaken
