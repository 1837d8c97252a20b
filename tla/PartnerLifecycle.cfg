SPECIFICATION FairLifecycleSpec
CONSTANTS
  cafe = cafe
  grill = grill
  restaurant = restaurant
  Direct = Direct
  Outlets = {cafe, grill}
  Merchants = {restaurant}
  MerchantOf <- Tenancy
  Handlers = {h1}
  Roles = {"Operator", "SuperAdmin"}
  ParentMovers = {"SuperAdmin"}
INVARIANT
  NothingCooksForTheClosed
PROPERTIES
  SuspendedKitchensFinish
