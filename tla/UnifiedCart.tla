----------------------------- MODULE UnifiedCart -----------------------------
(***************************************************************************)
(* An order whose cart spans several outlets: the orders row (the parent)  *)
(* and one child_orders row for each outlet's portion. The kitchen screens *)
(* move portions, the runner's screen moves portions or the parent, and    *)
(* after each move of a portion the parent's status is derived anew.       *)
(*                                                                         *)
(* The money is OrderMoney's subject. Here a payment or a refund is only   *)
(* what it does to the statuses. Each awaits the gateway between what it   *)
(* reads and what it writes, while portions and parent move and other      *)
(* payments and refunds of the order come and go: nothing is asked again.  *)
(***************************************************************************)
EXTENDS Naturals, OrderStateMachine

CONSTANTS
  Outlets,      \* the outlets of the cart, one portion each
  Handlers,     \* the pay and refund requests that may be served together
  Roles,        \* the staff roles with a session
  ParentMovers  \* those of them whose screens address the parent's id

ASSUME OutletsAssumption == Outlets # {}
ASSUME RolesAssumption == Roles \subseteq StaffRoles /\ ParentMovers \subseteq Roles

VARIABLES
  parent,      \* orders.status, "None" before the row exists
  collection,  \* orders.collection_status
  portion,     \* child_orders.status of each outlet
  payments,    \* how many payments of each status are recorded, a split as one
  refundable,  \* more was captured than refunded
  grouping,    \* properties.delivery_grouping
  handler      \* the payments and refunds that await the gateway

vars == <<parent, collection, portion, payments, refundable, grouping, handler>>
rows == <<parent, collection, portion, payments, refundable, grouping>>

-----------------------------------------------------------------------------
(* deriveParentStatus. *)

OnItsWay == {"Ready", "Out for Delivery"}

\* How far along a portion is; the other statuses have no rank.
Progress == [Paid |-> 1, Confirmed |-> 2, Accepted |-> 3, Preparing |-> 4]

Ranked(status) == status \in DOMAIN Progress

Active(portions) == {c \in Outlets : portions[c] # "Cancelled"}

LeastAdvanced(portions) ==
  {portions[c] : c \in {a \in Active(portions) :
     /\ Ranked(portions[a])
     /\ \A b \in Active(portions) :
          Ranked(portions[b]) => Progress[portions[a]] <= Progress[portions[b]]}}

\* Without a ranked portion, the status of the row the database lists first.
KitchenStatus(portions) ==
  IF LeastAdvanced(portions) # {}
    THEN LeastAdvanced(portions)
    ELSE {portions[c] : c \in Active(portions)}

All(portions, statuses) ==
  \A c \in Active(portions) : portions[c] \in statuses

Some(portions, statuses) ==
  \E c \in Active(portions) : portions[c] \in statuses

DerivedWithoutPartials(portions) ==
  IF Active(portions) = {} THEN {"Cancelled"}
  ELSE IF Some(portions, {"Delivered"}) THEN {"Delivered"}
  ELSE IF All(portions, OnItsWay) THEN {"Ready"}
  ELSE KitchenStatus(portions)

DerivedFromAny(portions) ==
  IF Active(portions) = {} THEN {"Cancelled"}
  ELSE IF All(portions, {"Delivered"}) THEN {"Delivered"}
  ELSE IF Some(portions, OnItsWay) THEN {"Ready"}
  ELSE KitchenStatus(portions)

\* The statuses the parent may be given: one, but for the order of the rows.
Derived(portions) ==
  IF Active(portions) = {} THEN {"Cancelled"}
  ELSE IF All(portions, {"Delivered"}) THEN {"Delivered"}
  ELSE IF Some(portions, {"Delivered"}) THEN {"Partially Delivered"}
  ELSE IF All(portions, OnItsWay) THEN {"Ready"}
  ELSE IF Some(portions, OnItsWay) THEN {"Partially Ready"}
  ELSE KitchenStatus(portions)

-----------------------------------------------------------------------------
(* What the runner's queue lists. *)

\* GET /api/runner/queue, by the property's delivery policy.
RunnerSeesOrder == grouping = "grouped" /\ parent \in OnItsWay

-----------------------------------------------------------------------------

Idle == [kind |-> "idle"]

Answers == {"Captured", "Failed"}

Init ==
  /\ parent = "None"
  /\ collection = "None"
  /\ portion = [c \in Outlets |-> "None"]
  /\ payments = [answer \in Answers |-> 0]
  /\ refundable = FALSE
  /\ grouping = "grouped"
  /\ handler = [h \in Handlers |-> Idle]

\* POST /api/orders: the rows of the portions are inserted with the order's,
\* and cleared with it when nothing is collected from the guest.
Create(collected) ==
  /\ parent = "None"
  /\ parent' = IF collected THEN "Payment Pending" ELSE "Confirmed"
  /\ collection' = IF collected THEN "PENDING" ELSE "NOT_REQUIRED"
  /\ portion' = [c \in Outlets |-> IF collected THEN "Created" ELSE "Confirmed"]
  /\ UNCHANGED <<payments, refundable, grouping, handler>>

\* POST /api/orders/:id/pay, of a cart that costs something: one that is free
\* is left to OrderMoney.
PayBegin(h) ==
  /\ handler[h] = Idle
  /\ parent # "None"
  /\ \A answer \in Answers : payments[answer] = 0
  /\ collection # "NOT_REQUIRED"
  /\ handler' = [handler EXCEPT ![h] = [kind |-> "pay"]]
  /\ UNCHANGED rows

ClearsRegardless(answer) ==
  portion' = [c \in Outlets |->
                IF portion[c] = "Created" THEN "Paid" ELSE portion[c]]

\* Success clears the portions that are still as created.
ClearsPortions(answer) ==
  portion' = [c \in Outlets |->
                IF answer = "Captured" /\ portion[c] = "Created" THEN "Paid" ELSE portion[c]]

\* One transaction, whatever the order became meanwhile. What is left after a
\* second capture is open where concurrent refunds took more than the first.
PayEnd(h, answer) ==
  /\ handler[h].kind = "pay"
  /\ parent' = IF answer = "Captured" THEN "Paid" ELSE "Failed"
  /\ collection' = IF answer = "Captured" THEN "COLLECTED" ELSE "FAILED"
  /\ ClearsPortions(answer)
  /\ payments' = [payments EXCEPT ![answer] = @ + 1]
  /\ refundable' \in IF refundable \/ answer = "Failed" THEN {refundable}
                     ELSE IF payments.Captured = 0 THEN {TRUE}
                     ELSE BOOLEAN
  /\ handler' = [handler EXCEPT ![h] = Idle]
  /\ UNCHANGED grouping

\* POST /api/orders/:id/refund, on the parent's status alone, of a part or of
\* all that is left of the captures it finds.
RefundBegin(h, full) ==
  /\ handler[h] = Idle
  /\ parent \in {"Delivered", "Partially Refunded", "Cancelled"}
  /\ collection # "NOT_REQUIRED"
  /\ refundable
  /\ handler' = [handler EXCEPT ![h] =
                   [kind |-> "refund", was |-> parent, full |-> full,
                    captures |-> payments.Captured]]
  /\ UNCHANGED rows

\* The gateway declines a refund or throws, the payment's transaction is rolled
\* back, or the process dies: nothing is written.
RequestFails(h) ==
  /\ handler[h] # Idle
  /\ handler' = [handler EXCEPT ![h] = Idle]
  /\ UNCHANGED rows

\* The new status is judged against the one read before the gateway's answer.
\* When the table refuses it, the refund stays recorded without it. A full
\* refund leaves what was captured since; a part may, within the halala of
\* tolerance or beside another refund, leave nothing.
RefundEnd(h) ==
  LET request == handler[h]
      target == IF request.full THEN "Refunded" ELSE "Partially Refunded"
      stays == target = request.was
      allowed == stays \/ CanTransition(request.was, target)
      exhausts == request.full /\ request.captures = payments.Captured
  IN
  /\ request.kind = "refund"
  /\ parent' = IF allowed /\ ~stays THEN target ELSE parent
  /\ collection' = IF allowed /\ request.full THEN "REFUNDED" ELSE collection
  /\ refundable' \in IF ~refundable \/ exhausts THEN {FALSE} ELSE BOOLEAN
  /\ handler' = [handler EXCEPT ![h] = Idle]
  /\ UNCHANGED <<portion, payments, grouping>>

\* POST /api/orders/:id/transition, which does not look for portions.
MoveParent(to, role) ==
  /\ role \in ParentMovers
  /\ MayMove(role, parent, to)
  /\ parent' = to
  /\ UNCHANGED <<collection, portion, payments, refundable, grouping, handler>>

\* POST /api/child-orders/:id/transition.
MovePortion(c, to, role) ==
  /\ MayMove(role, portion[c], to)
  /\ portion' = [portion EXCEPT ![c] = to]
  /\ parent' \in Derived([portion EXCEPT ![c] = to])
  /\ UNCHANGED <<collection, payments, refundable, grouping, handler>>

\* PATCH /api/admin/properties/:id.
SetGrouping(g) ==
  /\ grouping' = g
  /\ UNCHANGED <<parent, collection, portion, payments, refundable, handler>>

Next ==
  \/ \E collected \in BOOLEAN : Create(collected)
  \/ \E h \in Handlers : PayBegin(h)
  \/ \E h \in Handlers, answer \in Answers : PayEnd(h, answer)
  \/ \E h \in Handlers, full \in BOOLEAN : RefundBegin(h, full)
  \/ \E h \in Handlers : RequestFails(h)
  \/ \E h \in Handlers : RefundEnd(h)
  \/ \E to \in Statuses, role \in Roles : MoveParent(to, role)
  \/ \E c \in Outlets, to \in Statuses, role \in Roles : MovePortion(c, to, role)
  \/ \E g \in {"grouped", "separate"} : SetGrouping(g)

Spec == Init /\ [][Next]_vars

-----------------------------------------------------------------------------

\* Every column has its type, and what awaits the gateway what it read.
TypeOK ==
  /\ parent \in Statuses \cup {"None"}
  /\ collection \in {"None", "PENDING", "COLLECTED", "NOT_REQUIRED", "REFUNDED",
                     "FAILED"}
  /\ portion \in [Outlets -> Statuses \cup {"None"}]
  /\ payments \in [Answers -> Nat]
  /\ refundable \in BOOLEAN
  /\ grouping \in {"grouped", "separate"}
  /\ handler \in [Handlers ->
       [kind : {"idle", "pay"}]
         \cup [kind : {"refund"}, full : BOOLEAN, captures : Nat,
               was : {"Delivered", "Partially Refunded", "Cancelled"}]]

BeingPrepared == {"Paid", "Confirmed", "Accepted", "Preparing"}

\* No outlet starts on a portion of an order that is neither paid nor exempt,
\* however many payments are at the gateway and in whatever order they answer.
\* The collection status says so too, unless another payment failed: that one
\* may answer last, and then writes FAILED over an order that is being prepared.
NoPortionBeforeClearance ==
  (\E c \in Outlets : portion[c] \notin {"None", "Created"}) =>
     /\ payments.Captured > 0 \/ collection = "NOT_REQUIRED"
     /\ payments.Failed > 0 \/ collection \in {"COLLECTED", "REFUNDED", "NOT_REQUIRED"}

\* Under the grouped policy the runner is offered the order only when nothing
\* of it is in a kitchen any more, through refunds, failed deliveries and
\* changes of the policy on the way.
GroupedRunnerWaitsForAll ==
  RunnerSeesOrder => \A c \in Outlets : portion[c] \notin BeingPrepared

\* An order that its guest sees as over, or that may be refunded, has no
\* portion in preparation: nothing is cooked for money that goes back.
OverMeansNothingCooking ==
  parent \in {"Delivered", "Cancelled", "Refunded", "Partially Refunded"} =>
     \A c \in Outlets : portion[c] \notin BeingPrepared

-----------------------------------------------------------------------------
(* A statement of the repository that the code does not keep. *)

\* The parent is "Delivered only when all are, and Cancelled only if all are
\* cancelled" (docs/API_DOCUMENTATION.md:271).
DeliveredWhenAllAre ==
  parent = "Delivered" =>
    \A c \in Outlets : portion[c] \in {"Delivered", "Cancelled"}
=============================================================================
