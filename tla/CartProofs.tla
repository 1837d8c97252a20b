----------------------------- MODULE CartProofs -----------------------------
(***************************************************************************)
(* Theorems about an order with portions (UnifiedCart) and about closing   *)
(* the partner or the merchants around it (PartnerLifecycle), for any      *)
(* number of outlets and merchants.                                        *)
(***************************************************************************)
EXTENDS PartnerLifecycle, TLAPS

\* The statuses from which a portion may still come to be prepared.
Cookable == {"Created", "Payment Pending"} \cup BeingPrepared

\* Nothing comes back to a kitchen it has left.
LEMMA NoWayBack ==
  ASSUME NEW from, NEW to \in Cookable, CanTransition(from, to)
  PROVE  from \in Cookable
BY DEF CanTransition, SuccessorsOf, Cookable, BeingPrepared

\* A portion that has no row has no successor.
LEMMA NoneStays == \A to : ~CanTransition("None", to)
BY DEF CanTransition, SuccessorsOf

LEMMA MovesInStatuses ==
  ASSUME NEW from, NEW to, CanTransition(from, to)
  PROVE  to \in Statuses
BY DEF CanTransition, SuccessorsOf, Statuses

-----------------------------------------------------------------------------
(* Closing. A portion that may still be prepared is open, so nothing it    *)
(* depends on can be closed; and once something is closed no portion can   *)
(* come to be one that may be prepared. A draft partner, which is closed   *)
(* without looking at orders, has had none.                                *)

LifecycleTypes ==
  /\ portion \in [Outlets -> Statuses \cup {"None"}]
  /\ merchant \in [Merchants -> MerchantStatuses]
  /\ partner \in PartnerStatuses

DraftHasNoOrder ==
  partner = "Draft" => \A c \in Outlets : portion[c] = "None"

NothingCookableForTheClosed ==
  \A c \in Outlets :
    portion[c] \in Cookable =>
      /\ partner # "Closed"
      /\ MerchantOf[c] \in Merchants => merchant[MerchantOf[c]] # "Closed"

LifecycleInv ==
  LifecycleTypes /\ DraftHasNoOrder /\ NothingCookableForTheClosed

LEMMA LifecycleInitially == LifecycleInit => LifecycleInv
BY DEF LifecycleInit, Init, LifecycleInv, LifecycleTypes, DraftHasNoOrder,
       NothingCookableForTheClosed, MerchantStatuses, PartnerStatuses, Cookable,
       BeingPrepared

\* What moves the order alone keeps the invariant when no portion becomes
\* cookable that was not, and no row appears.
LEMMA OrderMoves ==
  ASSUME LifecycleInv, UNCHANGED <<partner, merchant>>,
         portion' \in [Outlets -> Statuses \cup {"None"}],
         \A c \in Outlets : /\ portion'[c] \in Cookable => portion[c] \in Cookable
                            /\ portion[c] = "None" => portion'[c] = "None"
  PROVE  LifecycleInv'
BY DEF LifecycleInv, LifecycleTypes, DraftHasNoOrder, NothingCookableForTheClosed

LEMMA OpenIfCookable == \A status \in Cookable : Open(status)
BY DEF Cookable, BeingPrepared, Open, TerminalOrderStates

LEMMA LifecycleStep == LifecycleInv /\ [LifecycleNext]_lifecycleVars => LifecycleInv'
<1> SUFFICES ASSUME LifecycleInv, [LifecycleNext]_lifecycleVars PROVE LifecycleInv'
  OBVIOUS
<1>0. LifecycleTypes
  BY DEF LifecycleInv
<1>1. ASSUME NEW to \in PartnerStatuses, SetPartner(to) PROVE LifecycleInv'
  <2>1. UNCHANGED <<portion, merchant>>
    BY <1>1 DEF SetPartner, vars
  <2>2. partner' # "Draft"
    BY <1>0, <1>1 DEF SetPartner, PartnerSuccessors, LifecycleTypes, PartnerStatuses
  <2>3. partner' = "Closed" => \A c \in Outlets : portion[c] \notin Cookable
    <3> SUFFICES ASSUME partner' = "Closed", NEW c \in Outlets, portion[c] \in Cookable
                 PROVE  FALSE
      OBVIOUS
    <3>1. PartnerMayClose(partner)
      BY <1>1 DEF SetPartner
    <3>2. Open(portion[c])
      BY OpenIfCookable
    <3>3. partner = "Draft"
      BY <3>1, <3>2 DEF PartnerMayClose, HasOpenWork
    <3> QED BY <3>3 DEF LifecycleInv, DraftHasNoOrder, Cookable, BeingPrepared
  <2>4. partner' \in PartnerStatuses
    BY <1>1 DEF SetPartner
  <2> QED BY <2>1, <2>2, <2>3, <2>4 DEF LifecycleInv, LifecycleTypes,
                                        DraftHasNoOrder, NothingCookableForTheClosed
<1>2. ASSUME NEW m \in Merchants, NEW to \in MerchantStatuses,
             NEW role \in {"SuperAdmin", "PartnerAdmin"}, SetMerchant(m, to, role)
      PROVE  LifecycleInv'
  <2>1. UNCHANGED <<portion, partner>> /\ merchant' = [merchant EXCEPT ![m] = to]
    BY <1>2 DEF SetMerchant, vars
  <2>2. ASSUME NEW c \in Outlets, portion[c] \in Cookable, MerchantOf[c] = m
        PROVE  to # "Closed"
    <3>1. Open(portion[c])
      BY <2>2, OpenIfCookable
    <3>2. MerchantHasOpenWork(m)
      BY <2>2, <3>1 DEF MerchantHasOpenWork, SellsIn
    <3> QED BY <1>2, <3>2 DEF SetMerchant
  <2> QED BY <1>0, <2>1, <2>2 DEF LifecycleInv, LifecycleTypes, DraftHasNoOrder,
                                  NothingCookableForTheClosed
<1>3. ASSUME NEW collected \in BOOLEAN, PlaceOrder(collected) PROVE LifecycleInv'
  <2>1. UNCHANGED <<partner, merchant>> /\ partner = "Active"
    BY <1>3 DEF PlaceOrder, MayCreateOrder, statusesOf
  <2>2. \A c \in Outlets : MerchantOf[c] \in Merchants => merchant[MerchantOf[c]] = "Active"
    BY <1>3, DirectAssumption DEF PlaceOrder, MaySell
  <2>3. portion' \in [Outlets -> Statuses \cup {"None"}]
    BY <1>3 DEF PlaceOrder, Create, Statuses
  <2> QED BY <1>0, <2>1, <2>2, <2>3 DEF LifecycleInv, LifecycleTypes, DraftHasNoOrder,
                                        NothingCookableForTheClosed
<1>4. ASSUME NEW h \in Handlers, NEW answer \in Answers, PayEnd(h, answer),
             UNCHANGED <<partner, merchant>>
      PROVE  LifecycleInv'
  <2>1. portion' = [c \in Outlets |->
                      IF answer = "Captured" /\ portion[c] = "Created" THEN "Paid"
                      ELSE portion[c]]
    BY <1>4 DEF PayEnd, ClearsPortions
  <2>2. portion' \in [Outlets -> Statuses \cup {"None"}]
    BY <1>0, <2>1 DEF LifecycleTypes, Statuses
  <2>3. \A c \in Outlets : /\ portion'[c] \in Cookable => portion[c] \in Cookable
                           /\ portion[c] = "None" => portion'[c] = "None"
    BY <2>1 DEF Cookable
  <2> QED BY <1>4, <2>2, <2>3, OrderMoves
<1>5. ASSUME UNCHANGED <<portion, partner, merchant>> PROVE LifecycleInv'
  BY <1>5 DEF LifecycleInv, LifecycleTypes, DraftHasNoOrder, NothingCookableForTheClosed
<1>6. ASSUME MoneyMoves PROVE LifecycleInv'
  BY <1>4, <1>5, <1>6
  DEF MoneyMoves, statusesOf, rows, PayBegin, RefundBegin, RequestFails, RefundEnd
<1>7. ASSUME NEW c \in Outlets, NEW to \in Statuses, NEW role \in Roles,
             StaffMovesPortion(c, to, role)
      PROVE  LifecycleInv'
  <2>1. /\ CanTransition(portion[c], to)
        /\ portion' = [portion EXCEPT ![c] = to]
        /\ UNCHANGED <<partner, merchant>>
    BY <1>7 DEF StaffMovesPortion, MovePortion, MayMove, statusesOf
  <2>2. portion' \in [Outlets -> Statuses \cup {"None"}]
    BY <1>0, <2>1 DEF LifecycleTypes
  <2>3. \A d \in Outlets : /\ portion'[d] \in Cookable => portion[d] \in Cookable
                           /\ portion[d] = "None" => portion'[d] = "None"
    BY <1>0, <2>1, NoWayBack, NoneStays DEF LifecycleTypes
  <2> QED BY <2>1, <2>2, <2>3, OrderMoves
<1>8. ASSUME NEW to \in Statuses, NEW role \in Roles, StaffMovesParent(to, role)
      PROVE  LifecycleInv'
  BY <1>5, <1>8 DEF StaffMovesParent, MoveParent, statusesOf
<1>9. ASSUME SignIn \/ SessionsEnd PROVE LifecycleInv'
  BY <1>5, <1>9 DEF SignIn, SessionsEnd, statusesOf, vars
<1>10. ASSUME UNCHANGED lifecycleVars PROVE LifecycleInv'
  BY <1>5, <1>10 DEF lifecycleVars, vars
<1> QED
  BY <1>1, <1>2, <1>3, <1>6, <1>7, <1>8, <1>9, <1>10 DEF LifecycleNext

\* Closing never strands a portion: whatever the roles of the staff, no kitchen
\* of a closed partner or merchant has anything to prepare, then or later.
THEOREM ClosedKitchensAreEmpty == LifecycleSpec => []NothingCooksForTheClosed
<1>1. LifecycleInv => NothingCooksForTheClosed
  BY DEF LifecycleInv, NothingCookableForTheClosed, NothingCooksForTheClosed, Cookable
<1>2. LifecycleSpec => []LifecycleInv
  BY LifecycleInitially, LifecycleStep, PTL DEF LifecycleSpec
<1> QED BY <1>1, <1>2, PTL

-----------------------------------------------------------------------------
(* The order by itself, where only the runner's screen addresses the       *)
(* parent's id and no SuperAdmin moves a portion that is not paid. Then    *)
(* portions are cleared all at once, by the first payment that succeeds,   *)
(* so that a derived status is never that of an order half of which still  *)
(* waits to be paid; and a status that is over, once given, finds no       *)
(* portion that could come to be prepared. Any number of payments and      *)
(* refunds may be at the gateway: one that answers late finds no portion   *)
(* as created, and what it writes over the parent is not over.             *)

\* The statuses after the last portion left its kitchen.
Late ==
  OnItsWay \cup {"Delivery Failed", "Delivered", "Cancelled", "Refunded",
                "Partially Refunded"}

CartTypes ==
  /\ portion \in [Outlets -> Statuses \cup {"None"}]
  /\ payments \in [Answers -> Nat]
  /\ handler = [h \in Handlers |-> handler[h]]
  /\ \A h \in Handlers : handler[h].kind \in {"idle", "pay", "refund"}

\* Before the order exists there is nothing of it; afterwards all portions are
\* there, as created or none so, and never awaiting a payment of their own.
PortionsTogether ==
  /\ parent = "None" => \A c \in Outlets : portion[c] = "None"
  /\ parent # "None" =>
       \A c \in Outlets : portion[c] \notin {"None", "Payment Pending"}
  /\ (\E c \in Outlets : portion[c] = "Created") =>
       \A c \in Outlets : portion[c] = "Created"

\* What awaits the gateway is about an order that is collected from its guest,
\* and a refund about one that is over.
RequestsInTime ==
  /\ \A h \in Handlers : handler[h].kind # "idle" =>
       parent # "None" /\ collection # "NOT_REQUIRED"
  /\ \A h \in Handlers : handler[h].kind = "refund" =>
       \A c \in Outlets : portion[c] \notin Cookable

LateMeansNothingCookable ==
  parent \in Late => \A c \in Outlets : portion[c] \notin Cookable

CartInv ==
  /\ CartTypes
  /\ PortionsTogether
  /\ RequestsInTime
  /\ LateMeansNothingCookable
  /\ NoPortionBeforeClearance

LEMMA CartInitially == Init => CartInv
BY DEF Init, CartInv, CartTypes, PortionsTogether, RequestsInTime,
       LateMeansNothingCookable, NoPortionBeforeClearance, Late, OnItsWay, Idle, Answers

\* Among ranked portions there is a least advanced one.
LEMMA SomeLeastAdvanced ==
  ASSUME NEW portions, NEW c \in Active(portions), Ranked(portions[c])
  PROVE  LeastAdvanced(portions) # {}
<1> DEFINE At(n) == \E a \in Active(portions) :
                      Ranked(portions[a]) /\ Progress[portions[a]] = n
<1>1. \A a \in Active(portions) : Ranked(portions[a]) => Progress[portions[a]] \in 1..4
  BY DEF Ranked, Progress
<1>2. At(1) \/ At(2) \/ At(3) \/ At(4)
  BY <1>1
<1>3. ASSUME NEW n \in 1..4, At(n), \A k \in 1..4 : At(k) => n <= k
      PROVE  LeastAdvanced(portions) # {}
  <2>1. PICK a \in Active(portions) : Ranked(portions[a]) /\ Progress[portions[a]] = n
    BY <1>3
  <2>2. \A b \in Active(portions) :
          Ranked(portions[b]) => Progress[portions[a]] <= Progress[portions[b]]
    BY <1>1, <1>3, <2>1
  <2> QED BY <2>1, <2>2 DEF LeastAdvanced, Active
<1>4. PICK n \in 1..4 : At(n) /\ \A k \in 1..4 : At(k) => n <= k
  <2> HIDE DEF At
  <2> QED BY <1>2
<1> QED BY <1>3, <1>4

\* A derived status is one of the order's own, and late only when no portion is
\* in a kitchen.
LEMMA DerivedFromPortions ==
  ASSUME NEW portions \in [Outlets -> Statuses], NEW status \in Derived(portions)
  PROVE  /\ status # "None"
         /\ status \in Late => \A c \in Outlets : portions[c] \notin BeingPrepared
<1>1. CASE Active(portions) = {}
  BY <1>1 DEF Derived, Active, BeingPrepared
<1>2. CASE Active(portions) # {} /\ All(portions, {"Delivered"})
  BY <1>2 DEF Derived, Active, All, BeingPrepared
<1>3. CASE /\ Active(portions) # {}
           /\ ~All(portions, {"Delivered"})
           /\ Some(portions, {"Delivered"})
  BY <1>3 DEF Derived, Late, OnItsWay
<1>4. CASE /\ Active(portions) # {}
           /\ ~All(portions, {"Delivered"})
           /\ ~Some(portions, {"Delivered"})
           /\ All(portions, OnItsWay)
  BY <1>4 DEF Derived, Active, All, OnItsWay, BeingPrepared
<1>5. CASE /\ Active(portions) # {}
           /\ ~All(portions, {"Delivered"})
           /\ ~Some(portions, {"Delivered"})
           /\ ~All(portions, OnItsWay)
           /\ Some(portions, OnItsWay)
  BY <1>5 DEF Derived, Late, OnItsWay
<1>6. CASE /\ Active(portions) # {}
           /\ ~All(portions, {"Delivered"})
           /\ ~Some(portions, {"Delivered"})
           /\ ~All(portions, OnItsWay)
           /\ ~Some(portions, OnItsWay)
  <2>1. status \in KitchenStatus(portions)
    BY <1>6 DEF Derived
  <2>2. CASE LeastAdvanced(portions) # {}
    <3>1. status \in DOMAIN Progress
      BY <2>1, <2>2 DEF KitchenStatus, LeastAdvanced, Ranked
    <3> QED BY <3>1 DEF Progress, Late, OnItsWay
  <2>3. CASE LeastAdvanced(portions) = {}
    <3>1. \A c \in Outlets : portions[c] \notin BeingPrepared
      BY <2>3, SomeLeastAdvanced DEF Active, Ranked, Progress, BeingPrepared
    <3>2. status \in Statuses
      BY <2>1, <2>3 DEF KitchenStatus, Active
    <3> QED BY <3>1, <3>2 DEF Statuses
  <2> QED BY <2>2, <2>3
<1> QED BY <1>1, <1>2, <1>3, <1>4, <1>5, <1>6

\* Who moves what at a site.
SiteScreens == "SuperAdmin" \notin Roles /\ ParentMovers \subseteq {"Runner"}

LEMMA CreatedStays ==
  ASSUME SiteScreens, NEW role \in Roles
  PROVE  \A to : ~MayMove(role, "Created", to)
<1>1. RolesOf("Created") = {"System", "Customer"}
  BY DEF RolesOf
<1> QED BY <1>1, RolesAssumption DEF SiteScreens, MayMove, StaffRoles

\* The runner moves an order that is on its way, and leaves it late.
LEMMA RunnerMovesLate ==
  ASSUME SiteScreens, NEW from, NEW to, MayMove("Runner", from, to)
  PROVE  from \in Late /\ to \in Late
<1>1. "Runner" \in RolesOf(from) => from \in OnItsWay
  BY DEF RolesOf, OnItsWay
<1>2. from \in OnItsWay /\ CanTransition(from, to)
  BY <1>1 DEF MayMove
<1> QED BY <1>2 DEF CanTransition, SuccessorsOf, OnItsWay, Late

LEMMA CartStep ==
  ASSUME SiteScreens PROVE CartInv /\ [Next]_vars => CartInv'
<1> SUFFICES ASSUME CartInv, [Next]_vars PROVE CartInv'
  OBVIOUS
<1>0. CartTypes
  BY DEF CartInv
<1>1. ASSUME NEW collected \in BOOLEAN, Create(collected) PROVE CartInv'
  <2>1. \A h \in Handlers : handler[h].kind = "idle"
    BY <1>0, <1>1 DEF Create, CartInv, RequestsInTime
  <2>2. parent' \notin Late \cup {"None"}
    BY <1>1 DEF Create, Late, OnItsWay
  <2>3. portion' = [c \in Outlets |-> IF collected THEN "Created" ELSE "Confirmed"]
    BY <1>1 DEF Create
  <2>4. UNCHANGED <<payments, handler>>
    BY <1>1 DEF Create
  <2>5. CartTypes' /\ PortionsTogether'
    BY <1>0, <2>2, <2>3, <2>4 DEF CartTypes, PortionsTogether, Statuses
  <2>6. RequestsInTime' /\ LateMeansNothingCookable'
    BY <2>1, <2>2, <2>4 DEF RequestsInTime, LateMeansNothingCookable
  <2>7. NoPortionBeforeClearance'
    BY <1>1, <2>3 DEF Create, NoPortionBeforeClearance
  <2> QED BY <2>5, <2>6, <2>7 DEF CartInv
<1>2. ASSUME NEW h \in Handlers, NEW r, handler' = [handler EXCEPT ![h] = r],
             UNCHANGED <<parent, collection, portion, payments>>,
             \/ r = Idle
             \/ /\ r.kind = "pay"
                /\ parent # "None" /\ collection # "NOT_REQUIRED"
             \/ /\ r.kind = "refund"
                /\ parent \in Late /\ collection # "NOT_REQUIRED"
      PROVE  CartInv'
  <2>1. r.kind \in {"idle", "pay", "refund"}
    BY <1>2 DEF Idle
  <2>2. \A g \in Handlers : handler'[g] = IF g = h THEN r ELSE handler[g]
    BY <1>0, <1>2 DEF CartTypes
  <2>3. CartTypes' /\ PortionsTogether'
    BY <1>0, <1>2, <2>1, <2>2 DEF CartInv, CartTypes, PortionsTogether
  <2>4. r.kind # "idle" => parent # "None" /\ collection # "NOT_REQUIRED"
    <3>1. Idle.kind = "idle" /\ "None" \notin Late
      BY DEF Idle, Late, OnItsWay
    <3> QED BY <1>2, <3>1
  <2>5. r.kind = "refund" => \A c \in Outlets : portion[c] \notin Cookable
    BY <1>2 DEF Idle, CartInv, LateMeansNothingCookable
  <2>6. RequestsInTime'
    BY <1>2, <2>2, <2>4, <2>5 DEF CartInv, RequestsInTime
  <2>7. LateMeansNothingCookable' /\ NoPortionBeforeClearance'
    BY <1>2 DEF CartInv, LateMeansNothingCookable, NoPortionBeforeClearance
  <2> QED BY <2>3, <2>6, <2>7 DEF CartInv
<1>3. ASSUME NEW h \in Handlers, NEW answer \in Answers, PayEnd(h, answer)
      PROVE  CartInv'
  <2>1. handler[h].kind = "pay" /\ handler' = [handler EXCEPT ![h] = Idle]
    BY <1>3 DEF PayEnd
  <2>2. parent # "None" /\ collection # "NOT_REQUIRED"
    BY <2>1 DEF CartInv, RequestsInTime
  <2>3. /\ parent' \notin Late \cup {"None"}
        /\ collection' = IF answer = "Captured" THEN "COLLECTED" ELSE "FAILED"
    BY <1>3 DEF PayEnd, Late, OnItsWay
  <2>4. portion' = [c \in Outlets |->
                      IF answer = "Captured" /\ portion[c] = "Created" THEN "Paid"
                      ELSE portion[c]]
    BY <1>3 DEF PayEnd, ClearsPortions
  <2>5. \A g \in Handlers : handler'[g] = IF g = h THEN Idle ELSE handler[g]
    BY <1>0, <2>1 DEF CartTypes
  <2>6. /\ payments' \in [Answers -> Nat]
        /\ \A a \in Answers : payments'[a] = IF a = answer THEN payments[a] + 1 ELSE payments[a]
    BY <1>0, <1>3 DEF PayEnd, CartTypes
  <2>7. CartTypes'
    <3>1. portion' \in [Outlets -> Statuses \cup {"None"}]
      BY <1>0, <2>4 DEF CartTypes, Statuses
    <3>2. handler' = [g \in Handlers |-> handler'[g]]
      BY <1>0, <2>1 DEF CartTypes
    <3> QED BY <1>0, <2>5, <2>6, <3>1, <3>2 DEF CartTypes, Idle
  <2>8. PortionsTogether'
    BY <2>2, <2>3, <2>4 DEF CartInv, PortionsTogether
  <2>9. RequestsInTime'
    <3>1. parent' # "None" /\ collection' # "NOT_REQUIRED"
      BY <2>3
    <3>2. ASSUME NEW g \in Handlers, handler'[g].kind = "refund", NEW c \in Outlets
          PROVE  portion'[c] \notin Cookable
      <4>1. handler[g].kind = "refund"
        BY <2>5, <3>2 DEF Idle
      <4>2. portion[c] \notin Cookable
        BY <4>1 DEF CartInv, RequestsInTime
      <4> QED BY <2>4, <4>2 DEF Cookable
    <3> QED BY <3>1, <3>2 DEF RequestsInTime
  <2>10. LateMeansNothingCookable'
    BY <2>3 DEF LateMeansNothingCookable
  <2>11. NoPortionBeforeClearance'
    <3>1. CASE answer = "Captured"
      <4>1. payments'.Captured > 0
        BY <1>0, <2>6, <3>1 DEF CartTypes, Answers
      <4> QED BY <2>3, <3>1, <4>1 DEF NoPortionBeforeClearance
    <3>2. CASE answer = "Failed"
      <4>1. payments'.Failed > 0 /\ payments'.Captured = payments.Captured
        BY <1>0, <2>6, <3>2 DEF CartTypes, Answers
      <4>2. \A c \in Outlets : portion'[c] = portion[c]
        BY <2>4, <3>2
      <4> QED BY <2>2, <4>1, <4>2 DEF CartInv, NoPortionBeforeClearance
    <3> QED BY <3>1, <3>2 DEF Answers
  <2> QED BY <2>7, <2>8, <2>9, <2>10, <2>11 DEF CartInv
<1>4. ASSUME NEW h \in Handlers,
             \/ PayBegin(h)
             \/ \E full \in BOOLEAN : RefundBegin(h, full)
             \/ RequestFails(h)
      PROVE  CartInv'
  <2>1. UNCHANGED <<parent, collection, portion, payments>>
    BY <1>4 DEF PayBegin, RefundBegin, RequestFails, rows
  <2>2. CASE PayBegin(h)
    BY <1>2, <2>1, <2>2 DEF PayBegin
  <2>3. ASSUME NEW full \in BOOLEAN, RefundBegin(h, full) PROVE CartInv'
    BY <1>2, <2>1, <2>3 DEF RefundBegin, Late
  <2>4. CASE RequestFails(h)
    BY <1>2, <2>1, <2>4 DEF RequestFails
  <2> QED BY <1>4, <2>2, <2>3, <2>4
<1>5. ASSUME NEW h \in Handlers, RefundEnd(h) PROVE CartInv'
  <2>1. /\ handler[h].kind = "refund" /\ handler' = [handler EXCEPT ![h] = Idle]
        /\ portion' = portion /\ payments' = payments
    BY <1>5 DEF RefundEnd
  <2>2. /\ parent # "None" /\ collection # "NOT_REQUIRED"
        /\ \A c \in Outlets : portion[c] \notin Cookable
    BY <2>1 DEF CartInv, RequestsInTime
  <2>3. parent' # "None"
    BY <1>5, <2>2 DEF RefundEnd
  <2>4. collection' \in {collection, "REFUNDED"}
    BY <1>5 DEF RefundEnd
  <2>5. \A g \in Handlers : handler'[g] = IF g = h THEN Idle ELSE handler[g]
    BY <1>0, <2>1 DEF CartTypes
  <2>6. CartTypes'
    BY <1>0, <2>1, <2>5 DEF CartTypes, Idle
  <2>7. PortionsTogether'
    BY <2>1, <2>2, <2>3 DEF CartInv, PortionsTogether
  <2>8. RequestsInTime'
    BY <2>1, <2>2, <2>3, <2>4, <2>5 DEF RequestsInTime, Idle
  <2>9. LateMeansNothingCookable' /\ NoPortionBeforeClearance'
    BY <2>1, <2>2, <2>4
    DEF CartInv, LateMeansNothingCookable, NoPortionBeforeClearance
  <2> QED BY <2>6, <2>7, <2>8, <2>9 DEF CartInv
<1>6. ASSUME NEW to \in Statuses, NEW role \in Roles, MoveParent(to, role)
      PROVE  CartInv'
  <2>1. MayMove("Runner", parent, to)
    BY <1>6 DEF MoveParent, SiteScreens
  <2>2. parent \in Late /\ parent' \in Late
    BY <1>6, <2>1, RunnerMovesLate DEF MoveParent
  <2>3. parent # "None" /\ parent' # "None"
    BY <2>2 DEF Late, OnItsWay
  <2> QED BY <1>6, <2>2, <2>3
          DEF MoveParent, CartInv, CartTypes, PortionsTogether, RequestsInTime,
              LateMeansNothingCookable, NoPortionBeforeClearance
<1>7. ASSUME NEW c \in Outlets, NEW to \in Statuses, NEW role \in Roles,
             MovePortion(c, to, role)
      PROVE  CartInv'
  <2> DEFINE portions == [portion EXCEPT ![c] = to]
  <2>1. /\ MayMove(role, portion[c], to)
        /\ CanTransition(portion[c], to)
        /\ portion' = portions
        /\ parent' \in Derived(portions)
        /\ UNCHANGED <<collection, payments, handler>>
    BY <1>7 DEF MovePortion, MayMove
  <2>2. portion[c] \notin {"None", "Created"} /\ parent # "None"
    BY <2>1, CreatedStays, NoneStays DEF CartInv, PortionsTogether
  <2>3. \A d \in Outlets : portion[d] \notin {"None", "Created", "Payment Pending"}
    BY <2>2 DEF CartInv, PortionsTogether
  <2>4. to \notin {"None", "Created", "Payment Pending"}
    <3>1. to \in Cookable => portion[c] \in Cookable
      BY <2>1, NoWayBack
    <3>2. CanTransition(portion[c], to) => to \notin {"Created"}
      BY DEF CanTransition, SuccessorsOf
    <3>3. CanTransition(portion[c], "Payment Pending") => portion[c] = "Created"
      BY DEF CanTransition, SuccessorsOf
    <3> QED BY <2>1, <2>2, <3>2, <3>3 DEF Statuses
  <2>5. \A d \in Outlets : portions[d] \notin {"None", "Created", "Payment Pending"}
    BY <1>0, <2>3, <2>4 DEF CartTypes
  <2>6. portions \in [Outlets -> Statuses]
    BY <1>0, <2>3 DEF CartTypes
  <2>7. /\ parent' # "None"
        /\ parent' \in Late => \A d \in Outlets : portions[d] \notin BeingPrepared
    BY <2>1, <2>6, DerivedFromPortions
  <2>8. CartTypes' /\ PortionsTogether'
    BY <1>0, <2>1, <2>5, <2>6, <2>7 DEF CartTypes, PortionsTogether
  <2>9. LateMeansNothingCookable'
    BY <2>1, <2>5, <2>7 DEF LateMeansNothingCookable, Cookable
  <2>10. RequestsInTime'
    BY <1>0, <2>1, <2>7, NoWayBack DEF CartInv, CartTypes, RequestsInTime
  <2>11. NoPortionBeforeClearance'
    BY <2>1, <2>2 DEF CartInv, NoPortionBeforeClearance
  <2> QED BY <2>8, <2>9, <2>10, <2>11 DEF CartInv
<1>8. ASSUME UNCHANGED <<parent, collection, portion, payments, handler>> PROVE CartInv'
  BY <1>8
  DEF CartInv, CartTypes, PortionsTogether, RequestsInTime, LateMeansNothingCookable,
      NoPortionBeforeClearance
<1>9. ASSUME NEW g \in {"grouped", "separate"}, SetGrouping(g) PROVE CartInv'
  BY <1>8, <1>9 DEF SetGrouping
<1>10. CASE UNCHANGED vars
  BY <1>8, <1>10 DEF vars
<1> QED
  BY <1>1, <1>3, <1>4, <1>5, <1>6, <1>7, <1>9, <1>10 DEF Next

LEMMA CartInvariance == ASSUME SiteScreens PROVE Spec => []CartInv
BY CartInitially, CartStep, PTL DEF Spec

\* A payment that fails or has not answered clears no portion, whatever number of
\* payments and refunds is at the gateway and in whatever order they and the staff
\* move; and FAILED stands over a cleared portion only where two payments ended.
THEOREM NotBeforeClearance ==
  ASSUME SiteScreens PROVE Spec => []NoPortionBeforeClearance
<1>1. CartInv => NoPortionBeforeClearance
  BY DEF CartInv
<1> QED BY <1>1, CartInvariance, PTL

\* The grouped runner is offered an order only when nothing of it is in a kitchen.
THEOREM RunnerWaits == ASSUME SiteScreens PROVE Spec => []GroupedRunnerWaitsForAll
<1>1. CartInv => GroupedRunnerWaitsForAll
  BY DEF CartInv, LateMeansNothingCookable, GroupedRunnerWaitsForAll, RunnerSeesOrder,
         Late, Cookable
<1> QED BY <1>1, CartInvariance, PTL

\* Nothing is cooked for an order that is over.
THEOREM OverIsOver == ASSUME SiteScreens PROVE Spec => []OverMeansNothingCooking
<1>1. CartInv => OverMeansNothingCooking
  BY DEF CartInv, LateMeansNothingCookable, OverMeansNothingCooking, Late, Cookable
<1> QED BY <1>1, CartInvariance, PTL
=============================================================================
