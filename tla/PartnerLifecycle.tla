-------------------------- MODULE PartnerLifecycle --------------------------
(***************************************************************************)
(* Suspending and closing a partner, and the commercial partners           *)
(* (merchants) that sell at its site, around one order on its way. The     *)
(* order is that of UnifiedCart, of which every operation is one of this   *)
(* module's too: payments and refunds await the gateway, portions move one *)
(* by one, and what the lifecycle reads of them is their status.           *)
(*                                                                         *)
(* A status is asked at three places: when a guest orders, when a user of  *)
(* the partner signs in, and when an administrator moves the status on.    *)
(* A session outlives the question: its token is good for eight hours.     *)
(***************************************************************************)
EXTENDS UnifiedCart

CONSTANTS
  Merchants,   \* the commercial partners at the site
  Direct,      \* in the place of a merchant, for products of the site's own
  MerchantOf   \* whose products the portion of each outlet holds

ASSUME MerchantsAssumption == MerchantOf \in [Outlets -> Merchants \cup {Direct}]
ASSUME DirectAssumption == Direct \notin Merchants

VARIABLES
  partner,   \* partners.status
  merchant,  \* merchants.status
  session    \* the partner's users, its site staff among them, hold sessions

lifecycleVars == <<vars, partner, merchant, session>>
statusesOf == <<partner, merchant>>

-----------------------------------------------------------------------------
(* lib/partner-status.js and lib/merchant-status.js. *)

PartnerStatuses == {"Draft", "Active", "Suspended", "Closed"}
MerchantStatuses == {"Active", "Inactive", "Closed"}

PartnerSuccessors ==
  [Draft     |-> {"Active", "Closed"},
   Active    |-> {"Suspended", "Closed"},
   Suspended |-> {"Active", "Closed"},
   Closed    |-> {"Active"}]

MerchantSuccessors ==
  [Active   |-> {"Inactive", "Closed"},
   Inactive |-> {"Active", "Closed"},
   Closed   |-> {"Active"}]

\* The users of these roles belong to the partner; those of the others to the
\* platform, whom no partner's status concerns.
SiteStaff == {"Operator", "SiteManager", "Runner"}

\* As if suspension locked the partner out.
LoginWhileActiveOnly == partner \in {"Draft", "Active"}

\* The capabilities that some handler asks for.
MayLogin == partner # "Closed"
MayCreateOrder == partner = "Active"
MaySell(c) == MerchantOf[c] # Direct => merchant[MerchantOf[c]] = "Active"

\* Any other status is open, "Created" and "Failed" among them.
TerminalOrderStates == {"Delivered", "Cancelled", "Refunded", "Delivery Failed"}

Open(status) == status \notin TerminalOrderStates \cup {"None"}

\* countOpenOrders of the partner: parents, and portions by themselves.
HasOpenWork == Open(parent) \/ \E c \in Outlets : Open(portion[c])

\* countOpenOrders of a merchant: the orders with an item of it, and its portions.
SellsIn(m) == \E c \in Outlets : MerchantOf[c] = m
MerchantHasOpenWork(m) ==
  /\ SellsIn(m)
  /\ Open(parent) \/ \E c \in Outlets : MerchantOf[c] = m /\ Open(portion[c])

PartnerMayClose(from) == from = "Draft" \/ ~HasOpenWork

-----------------------------------------------------------------------------

LifecycleInit ==
  /\ Init
  /\ partner = "Draft"
  /\ merchant = [m \in Merchants |-> "Active"]
  /\ session = FALSE

\* POST /api/admin/partners/:id/status, by a SuperAdmin, with a reason.
SetPartner(to) ==
  /\ to \in PartnerSuccessors[partner]
  /\ to = "Closed" => PartnerMayClose(partner)
  /\ partner' = to
  /\ UNCHANGED <<vars, merchant, session>>

\* The same without the governing precondition.
SetMerchantUnchecked(m, to, role) ==
  /\ role \in {"SuperAdmin", "PartnerAdmin"}
  /\ to \in MerchantSuccessors[merchant[m]]
  /\ merchant' = [merchant EXCEPT ![m] = to]
  /\ UNCHANGED <<vars, partner, session>>

\* POST /api/admin/merchants/:id/status, by the partner's own administrator or
\* a SuperAdmin; only the latter reopens.
SetMerchant(m, to, role) ==
  /\ to \in MerchantSuccessors[merchant[m]]
  /\ merchant[m] = "Closed" => role = "SuperAdmin"
  /\ to = "Closed" => ~MerchantHasOpenWork(m)
  /\ role = "SuperAdmin" \/ session
  /\ merchant' = [merchant EXCEPT ![m] = to]
  /\ UNCHANGED <<vars, partner, session>>

\* POST /api/auth/login of users with a partner_scope.
SignIn ==
  /\ MayLogin
  /\ session' = TRUE
  /\ UNCHANGED <<vars, statusesOf>>

\* Tokens expire, and users sign out.
SessionsEnd ==
  /\ session' = FALSE
  /\ UNCHANGED <<vars, statusesOf>>

\* POST /api/orders, whose gates are asked in the turn that inserts the rows.
PlaceOrder(collected) ==
  /\ MayCreateOrder
  /\ \A c \in Outlets : MaySell(c)
  /\ Create(collected)
  /\ UNCHANGED <<statusesOf, session>>

\* The guest and the gateway, whom no status stops.
MoneyMoves ==
  /\ \E h \in Handlers :
       \/ PayBegin(h)
       \/ \E answer \in Answers : PayEnd(h, answer)
       \/ \E full \in BOOLEAN : RefundBegin(h, full)
       \/ RequestFails(h)
       \/ RefundEnd(h)
  /\ UNCHANGED <<statusesOf, session>>

\* Staff move the order through their sessions; no status is asked again.
HasSession(role) == role \in SiteStaff => session

StaffMovesParent(to, role) ==
  /\ HasSession(role)
  /\ MoveParent(to, role)
  /\ UNCHANGED <<statusesOf, session>>

StaffMovesPortion(c, to, role) ==
  /\ HasSession(role)
  /\ MovePortion(c, to, role)
  /\ UNCHANGED <<statusesOf, session>>

LifecycleNext ==
  \/ \E to \in PartnerStatuses : SetPartner(to)
  \/ \E m \in Merchants, to \in MerchantStatuses, role \in {"SuperAdmin", "PartnerAdmin"} :
       SetMerchant(m, to, role)
  \/ SignIn
  \/ SessionsEnd
  \/ \E collected \in BOOLEAN : PlaceOrder(collected)
  \/ MoneyMoves
  \/ \E to \in Statuses, role \in Roles : StaffMovesParent(to, role)
  \/ \E c \in Outlets, to \in Statuses, role \in Roles : StaffMovesPortion(c, to, role)

LifecycleSpec == LifecycleInit /\ [][LifecycleNext]_lifecycleVars

\* Users sign in again when they may, and whoever has a session time and again
\* comes to move each portion through its kitchen.
Prepares(c) ==
  \E to \in {"Accepted", "Preparing", "Ready"}, role \in SiteStaff :
    StaffMovesPortion(c, to, role)

FairLifecycleSpec ==
  /\ LifecycleSpec
  /\ WF_lifecycleVars(SignIn)
  /\ \A c \in Outlets : SF_lifecycleVars(Prepares(c))

-----------------------------------------------------------------------------

\* No kitchen of a closed partner, and none of a closed merchant, has a portion
\* to prepare: not by a payment that comes after, nor by a delivery tried again.
NothingCooksForTheClosed ==
  \A c \in Outlets :
    portion[c] \in BeingPrepared =>
      /\ partner # "Closed"
      /\ MerchantOf[c] \in Merchants => merchant[MerchantOf[c]] # "Closed"

\* Suspension stops what is new, not what is paid: while it lasts, every portion
\* in a kitchen still comes out of it, across sessions that expire.
SuspendedKitchensFinish ==
  \A c \in Outlets :
    (partner = "Suspended" /\ portion[c] \in BeingPrepared)
      ~> (portion[c] \notin BeingPrepared \/ partner # "Suspended")
=============================================================================
