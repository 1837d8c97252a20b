------------------------------ MODULE GuestApp ------------------------------
(***************************************************************************)
(* A guest's page (public/app.js) and the orders it makes: the screens and *)
(* their buttons, what the page remembers (S), the calls it has under way  *)
(* and what the server and the kitchen do with them. A handler of the page *)
(* runs up to its await; its answer, or the error of a call that was lost, *)
(* runs the rest of it against whatever the page holds by then.            *)
(***************************************************************************)
EXTENDS Naturals, Sequences, FiniteSets, FiniteSetsExt

CONSTANTS
  None,       \* null
  Idle,       \* no call in a slot
  MaxOrders,  \* bound on the orders of a behaviour
  MaxCalls,   \* bound on the calls under way together
  MaxVisits,  \* bound on the visits of the guest
  Impatient   \* the guest presses buttons while an answer is awaited

ASSUME BoundsAssumption == MaxOrders \in Nat /\ MaxCalls \in Nat /\ MaxVisits \in Nat
ASSUME ImpatientAssumption == Impatient \in BOOLEAN

VARIABLES
  screen,    \* S.screen
  cart,      \* S.cart is not empty
  mine,      \* S.currentOrder: None, or its id and status
  policy,    \* S.paymentPolicy: None, or its requiresGuestPayment
  visit,     \* counts startNewOrder
  calls,     \* the calls under way
  orders,    \* the server's orders: status, captured, and the visit of each
  collects   \* the payment policy the server resolves today

pageVars == <<screen, cart, mine, policy, visit>>
serverVars == <<orders, collects>>
vars == <<pageVars, calls, serverVars>>

Statuses ==
  {"Created", "Paid", "Failed", "Confirmed", "Ready", "Delivered", "Cancelled"}

ASSUME NoneAssumption == None \notin [id : Nat, status : Statuses]

Slots == 1..MaxCalls
Background == {"poll"}
UnderWay(c) == calls[c] # Idle
Awaited(c) == UnderWay(c) /\ calls[c].stage # "abandoned"

-----------------------------------------------------------------------------
\* Sending, losing and abandoning a call

\* A patient guest waits for the page to answer a button.
MayPress == Impatient \/ \A c \in Slots : Awaited(c) => calls[c].kind \in Background

\* const res = await fetch(API + path, ...)
Send(kind, order) ==
  LET free == {c \in Slots : ~UnderWay(c)} IN
  /\ free # {}
  /\ calls' = [calls EXCEPT ![Min(free)] =
       [kind |-> kind, order |-> order, visit |-> visit, stage |-> "sent", answer |-> None]]

Rests(c) == calls' = [calls EXCEPT ![c] = Idle]

\* The handler of call c goes on to make another one: its slot is used again.
GoesOnWith(c, kind, order) ==
  calls' = [calls EXCEPT ![c].kind = kind, ![c].order = order,
                         ![c].stage = "sent", ![c].answer = None]

-----------------------------------------------------------------------------
\* The buttons

\* Buttons that only change the screen.
Links ==
  {<<"welcome", "menu">>, <<"menu", "cart">>, <<"cart", "menu">>,
   <<"checkout", "cart">>, <<"tracking", "feedback">>, <<"paymentResult", "checkout">>}

FailureShown == screen = "paymentResult" /\ (mine = None \/ mine.status = "Failed")

Follow(from, to) ==
  /\ MayPress
  /\ screen = from /\ <<from, to>> \in Links
  /\ to = "cart" /\ from = "menu" => cart
  /\ to = "feedback" => mine # None /\ mine.status = "Delivered"
  /\ from = "paymentResult" => FailureShown
  /\ screen' = to
  /\ UNCHANGED <<cart, mine, policy, visit, calls, serverVars>>

\* addToCartFromModal and cartRemove
FillCart ==
  /\ MayPress /\ screen = "menu" /\ ~cart
  /\ cart' = TRUE
  /\ UNCHANGED <<screen, mine, policy, visit, calls, serverVars>>

EmptyCart ==
  /\ MayPress /\ screen = "cart" /\ cart
  /\ cart' = FALSE
  /\ UNCHANGED <<screen, mine, policy, visit, calls, serverVars>>

GoCheckout ==
  /\ MayPress /\ screen = "cart" /\ cart
  /\ Send("policy", 0)
  /\ UNCHANGED <<pageVars, serverVars>>

\* As if every attempt to pay began with an order of its own.
EachAttemptOrders == TRUE

NeedsOrder == mine = None

SubmitPayment ==
  /\ MayPress /\ screen = "checkout"
  /\ \/ NeedsOrder /\ cart /\ Send("create", 0) /\ UNCHANGED screen
     \/ ~NeedsOrder /\ policy = FALSE /\ screen' = "paymentResult" /\ UNCHANGED calls
     \/ ~NeedsOrder /\ policy # FALSE /\ Send("pay", mine.id) /\ UNCHANGED screen
  /\ UNCHANGED <<cart, mine, policy, visit, serverVars>>

GoTrack ==
  /\ MayPress /\ screen = "paymentResult" /\ mine # None /\ ~FailureShown
  /\ Send("track", mine.id)
  /\ UNCHANGED <<pageVars, serverVars>>

SubmitFeedback ==
  /\ MayPress /\ screen = "feedback" /\ mine # None
  /\ Send("feedback", mine.id)
  /\ UNCHANGED <<pageVars, serverVars>>

StartNewOrder ==
  /\ MayPress /\ screen = "feedbackThanks" /\ visit < MaxVisits
  /\ screen' = "welcome" /\ cart' = FALSE /\ mine' = None /\ policy' = None
  /\ visit' = visit + 1
  /\ UNCHANGED <<calls, serverVars>>

\* As if the page watched its order only until it was ready.
WatchedUntilReady == mine # None /\ mine.status # "Ready"

Watched == mine # None

\* setInterval: every three seconds, whether or not the last one was answered.
Poll ==
  /\ screen = "tracking" /\ Watched
  /\ Send("poll", mine.id)
  /\ UNCHANGED <<pageVars, serverVars>>

-----------------------------------------------------------------------------
\* The server

Answered(c, answer) ==
  calls' = [calls EXCEPT ![c] =
    IF calls[c].stage = "abandoned" THEN Idle
    ELSE [@ EXCEPT !.stage = "answered", !.answer = answer]]

CreateOrder(c) ==
  /\ calls[c].kind = "create"
  /\ Len(orders) < MaxOrders
  /\ orders' = Append(orders,
       [status |-> IF collects THEN "Created" ELSE "Confirmed",
        captured |-> FALSE, visit |-> calls[c].visit])
  /\ Answered(c, [id |-> Len(orders) + 1, status |-> orders'[Len(orders) + 1].status,
                  requires |-> collects])

\* Settled already, either way: the status as it is. Not required: refused.
PayOrder(c) ==
  LET o == calls[c].order IN
  /\ calls[c].kind = "pay"
  /\ \/ /\ orders[o].status = "Created"
        /\ \E captured \in BOOLEAN :
             LET status == IF captured THEN "Paid" ELSE "Failed" IN
             /\ orders' = [orders EXCEPT ![o].status = status, ![o].captured = captured]
             /\ Answered(c, status)
     \/ /\ orders[o].captured \/ orders[o].status = "Failed"
        /\ Answered(c, orders[o].status)
        /\ UNCHANGED orders

ReadOrder(c) ==
  /\ calls[c].kind \in {"poll", "track"}
  /\ Answered(c, orders[calls[c].order].status)
  /\ UNCHANGED orders

ReadPolicy(c) ==
  /\ calls[c].kind = "policy"
  /\ Answered(c, collects)
  /\ UNCHANGED orders

TakeFeedback(c) ==
  /\ calls[c].kind = "feedback" /\ orders[calls[c].order].status = "Delivered"
  /\ Answered(c, TRUE)
  /\ UNCHANGED orders

Handle(c) ==
  /\ UnderWay(c) /\ calls[c].stage \in {"sent", "abandoned"}
  /\ CreateOrder(c) \/ PayOrder(c) \/ ReadOrder(c) \/ ReadPolicy(c) \/ TakeFeedback(c)
  /\ UNCHANGED <<pageVars, collects>>

\* A request that never arrived, or that the server refused.
Vanish(c) ==
  /\ UnderWay(c) /\ calls[c].stage = "abandoned"
  /\ Rests(c)
  /\ UNCHANGED <<pageVars, serverVars>>

KitchenSteps ==
  {<<"Paid", "Ready">>, <<"Confirmed", "Ready">>, <<"Ready", "Delivered">>,
   <<"Paid", "Cancelled">>, <<"Confirmed", "Cancelled">>}

KitchenWorks(o) ==
  /\ \E step \in KitchenSteps :
       /\ orders[o].status = step[1]
       /\ orders' = [orders EXCEPT ![o].status = step[2]]
  /\ UNCHANGED <<pageVars, calls, collects>>

ChangePolicy ==
  /\ collects' = ~collects
  /\ UNCHANGED <<pageVars, calls, orders>>

-----------------------------------------------------------------------------
\* What the page does with an answer, and with an error

\* submitPayment after the creation: pay at once, unless nothing is to be paid.
Created(c) ==
  LET a == calls[c].answer IN
  /\ calls[c].kind = "create"
  /\ mine' = [id |-> a.id, status |-> a.status] /\ policy' = a.requires
  /\ IF a.requires
       THEN GoesOnWith(c, "pay", a.id) /\ UNCHANGED screen
       ELSE Rests(c) /\ screen' = "paymentResult"

\* S.currentOrder.status = result.status, of whatever order that is by now.
Settled(c) ==
  /\ calls[c].kind = "pay" /\ mine # None
  /\ mine' = [mine EXCEPT !.status = calls[c].answer]
  /\ screen' = "paymentResult"
  /\ Rests(c) /\ UNCHANGED policy

\* S.currentOrder = { ...S.currentOrder, ...o }
Refreshed(c) ==
  /\ calls[c].kind \in {"poll", "track"}
  /\ mine' = [id |-> calls[c].order, status |-> calls[c].answer]
  /\ screen' = IF calls[c].kind = "track" THEN "tracking" ELSE screen
  /\ Rests(c) /\ UNCHANGED policy

PolicyRead(c) ==
  /\ calls[c].kind = "policy"
  /\ policy' = calls[c].answer /\ screen' = "checkout"
  /\ Rests(c) /\ UNCHANGED mine

Thanked(c) ==
  /\ calls[c].kind = "feedback"
  /\ screen' = "feedbackThanks"
  /\ Rests(c) /\ UNCHANGED <<mine, policy>>

Receive(c) ==
  /\ UnderWay(c) /\ calls[c].stage = "answered"
  /\ Created(c) \/ Settled(c) \/ Refreshed(c) \/ PolicyRead(c) \/ Thanked(c)
  /\ UNCHANGED <<cart, visit, serverVars>>

\* The catch of each handler: showErr, go on without a policy, or nothing.
Fail(c) ==
  /\ Awaited(c)
  /\ calls' = [calls EXCEPT ![c] =
       IF @.stage = "answered" THEN Idle ELSE [@ EXCEPT !.stage = "abandoned"]]
  /\ screen' = CASE calls[c].kind = "policy" -> "checkout"
                 [] calls[c].kind = "track" -> "tracking"
                 [] OTHER -> screen
  /\ policy' = IF calls[c].kind = "policy" THEN None ELSE policy
  /\ UNCHANGED <<cart, mine, visit, serverVars>>

-----------------------------------------------------------------------------

Init ==
  /\ screen = "welcome" /\ cart = FALSE /\ mine = None /\ policy = None
  /\ visit = 1
  /\ calls = [c \in Slots |-> Idle]
  /\ orders = <<>>
  /\ collects \in BOOLEAN

Press ==
  \/ \E link \in Links : Follow(link[1], link[2])
  \/ FillCart
  \/ EmptyCart
  \/ GoCheckout
  \/ SubmitPayment
  \/ GoTrack
  \/ SubmitFeedback
  \/ StartNewOrder

Next ==
  \/ Press
  \/ Poll
  \/ ChangePolicy
  \/ \E o \in DOMAIN orders : KitchenWorks(o)
  \/ \E c \in Slots : Handle(c) \/ Vanish(c) \/ Receive(c) \/ Fail(c)

(***************************************************************************)
(* The interval goes off as long as the page is open, and a network that   *)
(* loses some calls does not lose all of them. Nothing is assumed of the   *)
(* guest or of the kitchen.                                                *)
(***************************************************************************)
Fairness ==
  /\ WF_vars(Poll)
  /\ \A c \in Slots : WF_vars(Vanish(c)) /\ SF_vars(Handle(c) /\ Awaited(c)) /\ SF_vars(Receive(c))

Spec == Init /\ [][Next]_vars /\ Fairness

-----------------------------------------------------------------------------

PaidFor(v) == {o \in DOMAIN orders : orders[o].visit = v /\ orders[o].captured}

(***************************************************************************)
(* However many answers are lost and however often the guest then presses  *)
(* the button again, a visit is charged once (submitPayment keeps the      *)
(* order it has, and the payment of an order is idempotent).               *)
(***************************************************************************)
PaidOnceAVisit == \A v \in 1..MaxVisits : Cardinality(PaidFor(v)) <= 1

(***************************************************************************)
(* "No duplicate order was created -- you can safely retry": while the     *)
(* page says so, nothing was paid in this visit. A second tap before the   *)
(* first was answered makes a second order (see the README).               *)
(***************************************************************************)
FailureIsTrue == FailureShown => PaidFor(visit) = {}

(***************************************************************************)
(* A guest who stays on the tracking screen comes to see the status the    *)
(* order has, whatever polls are lost or overtake each other.              *)
(***************************************************************************)
UpToDate == mine # None => mine.status = orders[mine.id].status
TrackingCatchesUp == <>[](screen = "tracking" /\ mine # None) => <>[]UpToDate
=============================================================================
