------------------------- MODULE OrderStateMachine -------------------------
(***************************************************************************)
(* The order state machine of lib/statemachine.js: which status may follow *)
(* which, and which role may ask for it. It keeps no state; the modules of *)
(* the order's life cycle share it.                                        *)
(***************************************************************************)

\* "Failed", "Refunded", "Partially Ready" and "Partially Delivered" are
\* statuses the handlers write although the table has no entry for them.
Statuses ==
  {"Created", "Payment Pending", "Paid", "Confirmed", "Failed", "Accepted",
   "Preparing", "Ready", "Partially Ready", "Out for Delivery", "Delivered",
   "Partially Delivered", "Delivery Failed", "Cancelled", "Refunded",
   "Partially Refunded"}

StaffRoles == {"Operator", "SiteManager", "Runner", "AlnadlFinance", "SuperAdmin"}

SuccessorsOf(from) ==
  CASE from = "Created"            -> {"Payment Pending", "Confirmed", "Cancelled"}
    [] from = "Payment Pending"    -> {"Paid", "Failed", "Cancelled"}
    [] from = "Paid"               -> {"Accepted", "Cancelled"}
    [] from = "Confirmed"          -> {"Accepted", "Cancelled"}
    [] from = "Accepted"           -> {"Preparing", "Cancelled"}
    [] from = "Preparing"          -> {"Ready", "Cancelled"}
    [] from = "Ready"              -> {"Out for Delivery", "Delivered"}
    [] from = "Out for Delivery"   -> {"Delivered", "Delivery Failed"}
    [] from = "Delivery Failed"    -> {"Out for Delivery", "Cancelled"}
    [] from = "Delivered"          -> {"Refunded", "Partially Refunded"}
    [] from = "Partially Refunded" -> {"Refunded"}
    [] from = "Cancelled"          -> {"Refunded"}
    [] OTHER                       -> {}

\* "System", "Customer" and "Gateway" are not roles of any session.
RolesOf(from) ==
  CASE from = "Created"            -> {"System", "Customer"}
    [] from = "Payment Pending"    -> {"Gateway", "System"}
    [] from = "Paid"               -> {"Operator", "SiteManager"}
    [] from = "Confirmed"          -> {"Operator", "SiteManager"}
    [] from = "Accepted"           -> {"Operator"}
    [] from = "Preparing"          -> {"Operator", "SiteManager"}
    [] from = "Ready"              -> {"Runner", "Operator"}
    [] from = "Out for Delivery"   -> {"Runner"}
    [] from = "Delivery Failed"    -> {"SiteManager"}
    [] from = "Delivered"          -> {"AlnadlFinance", "SiteManager"}
    [] from = "Partially Refunded" -> {"AlnadlFinance", "SiteManager"}
    [] from = "Cancelled"          -> {"AlnadlFinance", "SiteManager"}
    [] OTHER                       -> {}

CanTransition(from, to) == to \in SuccessorsOf(from)

\* The two checks of both transition endpoints: the table, and the caller's
\* role, from which a SuperAdmin is exempt.
MayMove(role, from, to) ==
  /\ CanTransition(from, to)
  /\ role = "SuperAdmin" \/ role \in RolesOf(from)

ClearedToPrepare == {"Paid", "Confirmed"}
=============================================================================
