----------------------------- MODULE Storefront -----------------------------
(***************************************************************************)
(* What a site sells and who may come in: its zone, its point and its QR   *)
(* code, its outlets, its merchants and their products, as administrators' *)
(* handlers of server.js write them; and the doors that each read them by  *)
(* themselves: the QR code, the hub, the menu and the order.               *)
(*                                                                         *)
(* One partner with one site. Of its plan and its statuses only what the   *)
(* doors ask is here (Plans and PartnerLifecycle have their lives).        *)
(***************************************************************************)
CONSTANTS
  None,
  Goods,      \* the products that are ever added
  House,      \* the site's own merchant
  Guesthouse, \* a merchant of the marketplace
  First,      \* the outlet the site was onboarded with
  Second      \* an outlet that multiOutlet allows

Shops == {House, Guesthouse}
Counters == {First, Second}

\* The entitlements of a plan that the doors ask for.
Features == {"qrOrdering", "marketplace", "multiOutlet"}

VARIABLES
  features,  \* what the plan of the partner's subscription entitles it to
  open,      \* the partner's status is Active
  zone,      \* zones.status
  point,     \* points.active with its token, None before it is created
  shop,      \* merchants.status, None before it is created
  counter,   \* outlets.status, None before it is created
  shut,      \* the outlets with availability rules none of which holds now
  good       \* products.status, merchant_id and outlet_id, None before it is created

storefrontVars ==
  <<features, open, zone, point, shop, counter, shut, good>>

\* requireFeature and the features that answers carry.
Has(f) == f \in features

-----------------------------------------------------------------------------

\* POST /api/admin/onboard has made the site, its merchant and its outlet.
StorefrontInit ==
  /\ features = Features
  /\ open = FALSE
  /\ zone = "Active"
  /\ point = None
  /\ shop = [s \in Shops |-> IF s = House THEN "Active" ELSE None]
  /\ counter = [c \in Counters |-> IF c = First THEN "Active" ELSE None]
  /\ shut = {}
  /\ good = [g \in Goods |-> None]

\* The plan is edited, or another one is subscribed to (Plans).
ChangePlan(f) ==
  /\ \/ features' = features \cup {f}
     \/ features' = features \ {f}
  /\ UNCHANGED <<open, zone, point, shop, counter, shut, good>>

\* POST /api/admin/partners/:id/status.
OpenOrSuspend ==
  /\ open' = ~open
  /\ UNCHANGED <<features, zone, point, shop, counter, shut, good>>

\* PATCH /api/admin/zones/:id leaves points, tokens and orders alone.
ToggleZone ==
  /\ zone' = IF zone = "Active" THEN "Inactive" ELSE "Active"
  /\ UNCHANGED <<features, open, point, shop, counter, shut, good>>

\* POST /api/admin/points, alone or in a batch: the point and its token.
CreatePoint ==
  /\ point = None
  /\ point' = "on"
  /\ UNCHANGED <<features, open, zone, shop, counter, shut, good>>

\* PATCH /api/admin/points/:id: the token stays active.
SetPoint(active) ==
  /\ point # None
  /\ point' = IF active THEN "on" ELSE "off"
  /\ UNCHANGED <<features, open, zone, shop, counter, shut, good>>

\* POST /api/admin/merchants.
CreateMerchant ==
  /\ Has("marketplace") /\ shop[Guesthouse] = None
  /\ shop' = [shop EXCEPT ![Guesthouse] = "Active"]
  /\ UNCHANGED <<features, open, zone, point, counter, shut, good>>

SetShop(s, status) ==
  /\ shop[s] # None
  /\ shop' = [shop EXCEPT ![s] = status]
  /\ UNCHANGED <<features, open, zone, point, counter, shut, good>>

\* POST /api/admin/outlets: the site has one already.
CreateOutlet ==
  /\ Has("multiOutlet") /\ counter[Second] = None
  /\ counter' = [counter EXCEPT ![Second] = "Active"]
  /\ UNCHANGED <<features, open, zone, point, shop, shut, good>>

\* PATCH /api/admin/outlets/:id.
SetOutlet(c, status) ==
  /\ counter[c] # None
  /\ counter' = [counter EXCEPT ![c] = status]
  /\ UNCHANGED <<features, open, zone, point, shop, shut, good>>

\* Rules are added and removed, and the time of day passes through them.
HoursChange(c) ==
  /\ counter[c] # None
  /\ shut' = IF c \in shut THEN shut \ {c} ELSE shut \cup {c}
  /\ UNCHANGED <<features, open, zone, point, shop, counter, good>>

\* POST /api/admin/products without a merchantId: the site's own merchant while it
\* is active, else any that is, else none.
DefaultShop ==
  LET active == {s \in Shops : shop[s] = "Active"}
  IN IF House \in active THEN House
     ELSE IF active # {} THEN CHOOSE s \in active : TRUE ELSE None

\* Without an outletId, at the site's first outlet.
CreateProduct(g, seller, where) ==
  /\ good[g] = None
  /\ seller # None => shop[seller] # None
  /\ counter[where] # None
  /\ good' = [good EXCEPT ![g] =
       [status |-> "Active", counter |-> where,
        shop |-> IF seller = None THEN DefaultShop ELSE seller]]
  /\ UNCHANGED <<features, open, zone, point, shop, counter, shut>>

\* PATCH /api/admin/products/:id.
SetProduct(g, status) ==
  /\ good[g] # None
  /\ good' = [good EXCEPT ![g].status = status]
  /\ UNCHANGED <<features, open, zone, point, shop, counter, shut>>

StorefrontNext ==
  \/ \E f \in Features : ChangePlan(f)
  \/ OpenOrSuspend
  \/ ToggleZone
  \/ CreatePoint
  \/ \E active \in BOOLEAN : SetPoint(active)
  \/ CreateMerchant
  \/ \E s \in Shops, status \in {"Active", "Inactive", "Closed"} : SetShop(s, status)
  \/ CreateOutlet
  \/ \E c \in Counters : \/ \E status \in {"Active", "Inactive"} : SetOutlet(c, status)
                         \/ HoursChange(c)
  \/ \E g \in Goods : \/ \E s \in Shops \cup {None}, c \in Counters : CreateProduct(g, s, c)
                      \/ \E status \in {"Active", "Inactive"} : SetProduct(g, status)

StorefrontSpec == StorefrontInit /\ [][StorefrontNext]_storefrontVars

-----------------------------------------------------------------------------
(* The doors.                                                                *)

\* GET /api/qr/:token.
QrResolves == point = "on" /\ open /\ zone = "Active"

\* GET /api/service-hub/:token, which asks neither the partner's nor the zone's
\* status: all outlets that are open now, or the first where the plan knows one.
HubOffers ==
  LET now == {c \in Counters : counter[c] = "Active"} \ shut
  IN IF point # "on" THEN {}
     ELSE IF now # Counters \/ Has("multiOutlet") THEN now ELSE {First}

\* As if the menu read every merchant of the site.
AllShops == {s \in Shops : shop[s] # None}

\* GET /api/catalog: the merchants whose products it lists.
VisibleShops ==
  {s \in Shops : shop[s] = "Active" /\ (s = House \/ Has("marketplace"))}

\* The products it lists as available.
Menu == {g \in Goods : /\ good[g] # None
                       /\ good[g].status = "Active"
                       /\ good[g].shop \in VisibleShops \cup {None}}

\* What the guest's screen lists once an outlet is chosen.
ShownAt(c) == {g \in Menu : good[g].counter = c}

\* POST /api/orders up to the amounts, for an order of these products.
Orderable(basket) ==
  /\ point = "on"
  /\ Has("qrOrdering")
  /\ open
  /\ zone = "Active"
  /\ \A g \in basket :
       /\ good[g] # None /\ good[g].status = "Active"
       /\ good[g].shop = None \/ shop[good[g].shop] = "Active"

-----------------------------------------------------------------------------

\* Where the QR code opens the door of a partner whose plan has ordering, all that
\* is shown at an outlet the hub offers can be ordered at once: the handlers, which
\* each read the statuses by themselves, agree whatever administrators change.
WhatIsShownCanBeOrdered ==
  QrResolves /\ Has("qrOrdering") => \A c \in HubOffers : Orderable(ShownAt(c))
=============================================================================
