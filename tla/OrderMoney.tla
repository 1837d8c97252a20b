----------------------------- MODULE OrderMoney -----------------------------
(***************************************************************************)
(* The money of single-outlet orders at one location of one partner: the   *)
(* endpoints that create, pay, move and refund an order, as far as they    *)
(* read or write the payments, refunds, revenue_ledger, engage_outbox,     *)
(* wallet_accounts and loyalty_accounts tables.                            *)
(*                                                                         *)
(* The server is one process over a synchronous database, so a handler     *)
(* runs without interruption from one await to the next. Only the calls to *)
(* the payment gateway await while a decision is pending; a request that   *)
(* does so occupies one of Handlers, holding what it read before the call. *)
(* A crash loses those requests and keeps every committed row.             *)
(*                                                                         *)
(* Amounts are in twentieths of a halala, in which 15% VAT on a price in   *)
(* whole halalas is exact: total = 23/20 of the subtotal.                  *)
(***************************************************************************)
EXTENDS Integers, OrderStateMachine

CONSTANTS
  Orders,          \* the identities of the orders that may be created
  Handlers,        \* the pay and refund requests that may be served together
  Roles,           \* the staff roles with a session
  Policies,        \* the payment policies an administrator may set
  Subtotals,       \* cart subtotals after the promotion, in halalas
  PointRequests,   \* what a guest may ask to redeem, in points
  RefundRequests,  \* refund amounts staff may type, in halalas
  Keys, NoKey,     \* idempotency keys of refunds, and their absence
  InitialPoints,   \* the guest's loyalty balance at the start
  MonthlyBudget,   \* of the corporate wallet, in halalas
  PerOrderCap,     \* of the corporate wallet's policy, in halalas
  MayCrash,        \* whether the process may die
  MaxRequests      \* bound on the pay and refund requests of a behaviour

ASSUME SubtotalsAssumption == Subtotals \subseteq Nat
ASSUME PointsAssumption == PointRequests \subseteq Nat /\ InitialPoints \in Nat
ASSUME RefundRequestsAssumption == RefundRequests \subseteq Int
ASSUME BudgetAssumption == MonthlyBudget \in Nat /\ PerOrderCap \in Nat
ASSUME RolesAssumption == Roles \subseteq StaffRoles
ASSUME NoKeyAssumption == NoKey \notin Keys
ASSUME MayCrashAssumption == MayCrash \in BOOLEAN

VARIABLES
  status,      \* orders.status, "None" before the row exists
  collection,  \* orders.collection_status
  total,       \* orders.total
  linked,      \* orders.wallet_id is set
  points,      \* orders.loyalty_points_used
  resolved,    \* the order has a payments row, Captured or Failed
  captured,    \* sum of its Captured payments rows
  byWallet,    \* the part of them drawn on the wallet
  refunded,    \* sum of its refunds rows
  keyUses,     \* how many of them carry each idempotency key
  sales,       \* its 'sale' entries in revenue_ledger, per outlet
  reversed,    \* sum of its 'refund_adjustment' entries, VAT included
  outbox,      \* its engage_outbox rows
  redeemed,    \* points taken from the account for it
  spent,       \* wallet_accounts.spent_this_period
  balance,     \* loyalty_accounts.points_balance
  policy,      \* the policy the location resolves to now
  charged,     \* what the gateway has taken for the order
  returned,    \* what the gateway has given back for it
  handler,     \* the request each handler is serving
  requests     \* pay and refund requests so far

orderVars  == <<total, linked, points>>
statusVars == <<status, collection>>
paidVars   == <<resolved, captured, byWallet, spent>>
clearVars  == <<sales, outbox, balance, redeemed>>
refundVars == <<refunded, keyUses, reversed>>
outside    == <<charged, returned>>
vars == <<orderVars, statusVars, paidVars, clearVars, refundVars, outside,
          policy, handler, requests>>

-----------------------------------------------------------------------------
(* Amounts. *)

Halala     == 20            \* the unit of every amount is 1/20 halala
PointValue == 5             \* halalas off per point redeemed
Riyal      == 100 * Halala  \* one point is earned per riyal

\* Math.round(x * 100) / 100.
Round(x) == ((x + 10) \div 20) * 20

Lesser(a, b)  == IF a < b THEN a ELSE b
Greater(a, b) == IF a < b THEN b ELSE a

\* What a cart costs once points worth `used` are taken off: the discount is
\* capped by the subtotal, then VAT is added.
Due(subtotal, used) == 23 * (subtotal - Lesser(PointValue * used, subtotal))

-----------------------------------------------------------------------------
(* What the handlers look up. *)

\* The guest's methods, in two classes: "wallet", and "card" for every method
\* that goes to the gateway (card, applepay, mada, and also pos and cash).
MethodsOf(p) ==
  CASE p = "ONLINE"           -> {"card"}
    [] p = "POS_ON_DELIVERY"  -> {"card"}
    [] p = "CORPORATE_WALLET" -> {"wallet"}
    [] p = "MIXED"            -> {"card", "wallet"}
    [] OTHER                  -> {}

RequiresGuestPayment(p) == p # "NO_GUEST_PAYMENT"

PointsUsed(asked) == Greater(0, Lesser(asked, balance))

\* The most the wallet may put towards the order, before rounding.
Coverage(o) ==
  Lesser(Lesser(total[o], Greater(0, Halala * MonthlyBudget - spent)),
         Halala * PerOrderCap)

DrawsOnWallet(o, method) == method = "wallet" /\ linked[o]

WalletShare(o, method) ==
  IF DrawsOnWallet(o, method) THEN Round(Coverage(o)) ELSE 0

CardShare(o, method) ==
  IF DrawsOnWallet(o, method) THEN Round(total[o] - Coverage(o)) ELSE total[o]

NeverResolved(o) == FALSE

AlreadyResolved(o) == resolved[o]

MayPayByPolicyAlone(o, method) ==
  /\ status[o] # "None"
  /\ ~AlreadyResolved(o)
  /\ method \in MethodsOf(policy)

MayPay(o, method) ==
  /\ status[o] # "None"
  /\ ~AlreadyResolved(o)
  /\ method \in MethodsOf(policy)
  /\ collection[o] # "NOT_REQUIRED"

RefundableStatuses == {"Delivered", "Partially Refunded", "Cancelled"}

KeyIgnored(o, key) == TRUE

KeyUnused(o, key) == key \in Keys => keyUses[o][key] = 0

Refundable(o, key) ==
  /\ KeyUnused(o, key)
  /\ status[o] \in RefundableStatuses
  /\ collection[o] # "NOT_REQUIRED"

RemainingOfCaptured(o) == Round(captured[o])

Remaining(o) == Round(captured[o] - refunded[o])

\* An amount above the remaining balance by one halala passes the comparison
\* with remaining + 0.01.
WithinBalance(amount, remaining) ==
  /\ remaining > 0
  /\ amount > 0
  /\ amount <= remaining + Halala

\* Whether |remaining - amount| < 0.01: at a difference of exactly one halala
\* the binary fractions decide.
MayBeFull(amount, remaining, full) ==
  \/ amount = remaining /\ full
  \/ amount \in {remaining - Halala, remaining + Halala} /\ full \in BOOLEAN
  \/ amount < remaining - Halala /\ ~full

-----------------------------------------------------------------------------
(* Requests awaiting the gateway. *)

Idle == [kind |-> "idle"]

PayRequests ==
  [kind : {"pay"}, order : Orders, wallet : Nat, card : Nat,
   answer : {"awaited", "Captured", "Failed"}]

RefundRequestsInFlight ==
  [kind : {"refund"}, order : Orders, amount : Nat, remaining : Nat,
   was : RefundableStatuses, key : Keys \cup {NoKey},
   answer : {"awaited", "Refunded"}]

Serving == {Idle} \cup PayRequests \cup RefundRequestsInFlight

Finish(h) == handler' = [handler EXCEPT ![h] = Idle]

Init ==
  /\ status = [o \in Orders |-> "None"]
  /\ collection = [o \in Orders |-> "None"]
  /\ total = [o \in Orders |-> 0]
  /\ linked = [o \in Orders |-> FALSE]
  /\ points = [o \in Orders |-> 0]
  /\ resolved = [o \in Orders |-> FALSE]
  /\ captured = [o \in Orders |-> 0]
  /\ byWallet = [o \in Orders |-> 0]
  /\ refunded = [o \in Orders |-> 0]
  /\ keyUses = [o \in Orders |-> [k \in Keys |-> 0]]
  /\ sales = [o \in Orders |-> 0]
  /\ reversed = [o \in Orders |-> 0]
  /\ outbox = [o \in Orders |-> 0]
  /\ redeemed = [o \in Orders |-> 0]
  /\ charged = [o \in Orders |-> 0]
  /\ returned = [o \in Orders |-> 0]
  /\ spent = 0
  /\ balance = InitialPoints
  /\ policy \in Policies
  /\ handler = [h \in Handlers |-> Idle]
  /\ requests = 0

-----------------------------------------------------------------------------
(* Clearing an order for the kitchen, in one transaction with the write of *)
(* its status: on creation when nothing is collected from the guest, else  *)
(* when the payment succeeds.                                              *)

RedeemsUnchecked(o, used) ==
  /\ balance' = balance - used
  /\ redeemed' = [redeemed EXCEPT ![o] = @ + used]

\* commitRedemption: takes the points, or silently nothing when the balance
\* no longer covers them.
Redeems(o, used) ==
  IF used > 0 /\ balance >= used
    THEN /\ balance' = balance - used
         /\ redeemed' = [redeemed EXCEPT ![o] = @ + used]
    ELSE UNCHANGED <<balance, redeemed>>

RecordsSaleAgain(o) == sales' = [sales EXCEPT ![o] = @ + 1]

\* recordOrderRevenue: nothing when the ledger has rows for the order.
RecordsSale(o) ==
  sales' = [sales EXCEPT ![o] = IF @ = 0 THEN 1 ELSE @]

EmitsConfirmed(o) == outbox' = [outbox EXCEPT ![o] = @ + 1]

Clears(o, used) ==
  /\ Redeems(o, used)
  /\ RecordsSale(o)
  /\ EmitsConfirmed(o)

-----------------------------------------------------------------------------
(* POST /api/orders. *)

InsertsOrder(o, subtotal, used, withWallet) ==
  /\ status[o] = "None"
  /\ policy = "CORPORATE_WALLET" => withWallet
  /\ total' = [total EXCEPT ![o] = Due(subtotal, used)]
  /\ linked' = [linked EXCEPT ![o] = withWallet]
  /\ points' = [points EXCEPT ![o] = used]
  /\ collection' = [collection EXCEPT ![o] =
       IF RequiresGuestPayment(policy) THEN "PENDING" ELSE "NOT_REQUIRED"]

CreateForPayment(o, subtotal, asked, withWallet) ==
  /\ RequiresGuestPayment(policy)
  /\ InsertsOrder(o, subtotal, PointsUsed(asked), withWallet)
  /\ status' = [status EXCEPT ![o] = "Payment Pending"]
  /\ UNCHANGED <<paidVars, clearVars, refundVars, outside, policy, handler,
                 requests>>

CreateConfirmed(o, subtotal, asked, withWallet) ==
  /\ ~RequiresGuestPayment(policy)
  /\ InsertsOrder(o, subtotal, PointsUsed(asked), withWallet)
  /\ status' = [status EXCEPT ![o] = "Confirmed"]
  /\ Clears(o, PointsUsed(asked))
  /\ UNCHANGED <<paidVars, refundVars, outside, policy, handler, requests>>

\* The process dies between the INSERT and the first transition.
CreateCutShort(o, subtotal, asked, withWallet) ==
  /\ MayCrash
  /\ InsertsOrder(o, subtotal, PointsUsed(asked), withWallet)
  /\ status' = [status EXCEPT ![o] = "Created"]
  /\ handler' = [h \in Handlers |-> Idle]
  /\ UNCHANGED <<paidVars, clearVars, refundVars, outside, policy, requests>>

-----------------------------------------------------------------------------
(* POST /api/orders/:id/pay. *)

\* commitSpend and the payments rows.
RecordsPayment(o, wallet, card, success) ==
  /\ resolved' = [resolved EXCEPT ![o] = @ \/ wallet > 0 \/ card > 0]
  /\ IF success
       THEN /\ captured' = [captured EXCEPT ![o] = @ + wallet + card]
            /\ byWallet' = [byWallet EXCEPT ![o] = @ + wallet]
            /\ spent' = spent + wallet
       ELSE UNCHANGED <<captured, byWallet, spent>>

\* The transaction that ends a payment. It overwrites both statuses, whatever
\* the order has become since the request read it.
Settles(o, wallet, card, success) ==
  /\ RecordsPayment(o, wallet, card, success)
  /\ status' = [status EXCEPT ![o] = IF success THEN "Paid" ELSE "Failed"]
  /\ collection' =
       [collection EXCEPT ![o] = IF success THEN "COLLECTED" ELSE "FAILED"]
  /\ IF success THEN Clears(o, points[o]) ELSE UNCHANGED clearVars

CountsRequest == requests < MaxRequests /\ requests' = requests + 1

\* Nothing is left for the gateway: the handler never awaits.
PayAtOnce(h, o, method) ==
  /\ handler[h] = Idle
  /\ MayPay(o, method)
  /\ CardShare(o, method) = 0
  /\ CountsRequest
  /\ Settles(o, WalletShare(o, method), 0, TRUE)
  /\ UNCHANGED <<orderVars, refundVars, outside, policy, handler>>

PayBegin(h, o, method) ==
  /\ handler[h] = Idle
  /\ MayPay(o, method)
  /\ CardShare(o, method) > 0
  /\ CountsRequest
  /\ handler' = [handler EXCEPT ![h] =
       [kind |-> "pay", order |-> o, wallet |-> WalletShare(o, method),
        card |-> CardShare(o, method), answer |-> "awaited"]]
  /\ UNCHANGED <<orderVars, statusVars, paidVars, clearVars, refundVars,
                 outside, policy>>

\* The gateway takes the card's share or declines it.
GatewayCapture(h, answer) ==
  /\ handler[h].kind = "pay"
  /\ handler[h].answer = "awaited"
  /\ handler' = [handler EXCEPT ![h].answer = answer]
  /\ charged' = IF answer = "Captured"
       THEN [charged EXCEPT ![handler[h].order] = @ + handler[h].card]
       ELSE charged
  /\ UNCHANGED <<orderVars, statusVars, paidVars, clearVars, refundVars,
                 returned, policy, requests>>

PayEndBeforeAnswer(h) ==
  /\ handler[h].kind = "pay"
  /\ Settles(handler[h].order, handler[h].wallet, handler[h].card,
             handler[h].answer # "Failed")
  /\ Finish(h)
  /\ UNCHANGED <<orderVars, refundVars, outside, policy, requests>>

PayEnd(h) ==
  /\ handler[h].kind = "pay"
  /\ handler[h].answer # "awaited"
  /\ Settles(handler[h].order, handler[h].wallet, handler[h].card,
             handler[h].answer = "Captured")
  /\ Finish(h)
  /\ UNCHANGED <<orderVars, refundVars, outside, policy, requests>>

-----------------------------------------------------------------------------
(* POST /api/orders/:id/refund. *)

\* An amount left out means all that remains.
RefundBegin(h, o, amount, key) ==
  /\ handler[h] = Idle
  /\ Refundable(o, key)
  /\ WithinBalance(amount, Remaining(o))
  /\ CountsRequest
  /\ handler' = [handler EXCEPT ![h] =
       [kind |-> "refund", order |-> o, amount |-> amount,
        remaining |-> Remaining(o), was |-> status[o], key |-> key,
        answer |-> "awaited"]]
  /\ UNCHANGED <<orderVars, statusVars, paidVars, clearVars, refundVars,
                 outside, policy>>

GatewayRefund(h) ==
  /\ handler[h].kind = "refund"
  /\ handler[h].answer = "awaited"
  /\ handler' = [handler EXCEPT ![h].answer = "Refunded"]
  /\ returned' = [returned EXCEPT ![handler[h].order] = @ + handler[h].amount]
  /\ UNCHANGED <<orderVars, statusVars, paidVars, clearVars, refundVars,
                 charged, policy, requests>>

GatewayDeclinesRefund(h) ==
  /\ handler[h].kind = "refund"
  /\ handler[h].answer = "awaited"
  /\ Finish(h)
  /\ UNCHANGED <<orderVars, statusVars, paidVars, clearVars, refundVars,
                 outside, policy, requests>>

RefundTarget(full) == IF full THEN "Refunded" ELSE "Partially Refunded"

\* The status the request wants, judged against the status it read.
Allowed(was, full) == RefundTarget(full) = was \/ CanTransition(was, RefundTarget(full))

\* The statements after the gateway's answer commit one by one; RefundWrites
\* performs the first n of the four of them.
RecordsRefund(o, amount, key) ==
  /\ refunded' = [refunded EXCEPT ![o] = @ + amount]
  /\ keyUses' = [keyUses EXCEPT ![o] =
       [k \in Keys |-> IF k = key THEN @[k] + 1 ELSE @[k]]]

RefundWrites(n, o, amount, key, was, full) ==
  /\ RecordsRefund(o, amount, key)
  /\ status' = IF n >= 2 /\ RefundTarget(full) # was
                 THEN [status EXCEPT ![o] = RefundTarget(full)] ELSE status
  /\ collection' = IF n >= 3 /\ full
                     THEN [collection EXCEPT ![o] = "REFUNDED"] ELSE collection
  /\ reversed' = IF n >= 4 THEN [reversed EXCEPT ![o] = @ + amount]
                           ELSE reversed

\* A target the table refuses is answered 409, after the refund was recorded.
RefundEnd(h, full) ==
  LET r == handler[h] IN
  /\ r.kind = "refund"
  /\ r.answer = "Refunded"
  /\ MayBeFull(r.amount, r.remaining, full)
  /\ RefundWrites(IF Allowed(r.was, full) THEN 4 ELSE 1,
                  r.order, r.amount, r.key, r.was, full)
  /\ Finish(h)
  /\ UNCHANGED <<orderVars, paidVars, clearVars, outside, policy, requests>>

\* The process dies among those statements.
RefundCutShort(h, full, n) ==
  LET r == handler[h] IN
  /\ MayCrash
  /\ r.kind = "refund"
  /\ r.answer = "Refunded"
  /\ MayBeFull(r.amount, r.remaining, full)
  /\ Allowed(r.was, full)
  /\ RefundWrites(n, r.order, r.amount, r.key, r.was, full)
  /\ handler' = [g \in Handlers |-> Idle]
  /\ UNCHANGED <<orderVars, paidVars, clearVars, outside, policy, requests>>

-----------------------------------------------------------------------------
(* POST /api/orders/:id/transition, and the surroundings. *)

\* Points are earned on delivery when the order has a phone number and the
\* partner's status and plan allow it.
Earns(o, to, earning) ==
  balance' = IF to = "Delivered" /\ earning
               THEN balance + total[o] \div Riyal ELSE balance

Transition(o, to, role, earning) ==
  /\ MayMove(role, status[o], to)
  /\ status' = [status EXCEPT ![o] = to]
  /\ Earns(o, to, earning)
  /\ UNCHANGED <<orderVars, collection, paidVars, sales, outbox, redeemed,
                 refundVars, outside, policy, handler, requests>>

\* An administrator changes the payment policy of the location.
SetPolicy(p) ==
  /\ policy' = p
  /\ UNCHANGED <<orderVars, statusVars, paidVars, clearVars, refundVars,
                 outside, handler, requests>>

\* The process dies and restarts: requests awaiting the gateway are lost.
Crash ==
  /\ MayCrash
  /\ handler' = [h \in Handlers |-> Idle]
  /\ UNCHANGED <<orderVars, statusVars, paidVars, clearVars, refundVars,
                 outside, policy, requests>>

Creates(o) ==
  \E subtotal \in Subtotals, asked \in PointRequests, withWallet \in BOOLEAN :
    \/ CreateForPayment(o, subtotal, asked, withWallet)
    \/ CreateConfirmed(o, subtotal, asked, withWallet)
    \/ CreateCutShort(o, subtotal, asked, withWallet)

Pays(h, o) ==
  \E method \in {"card", "wallet"} :
    PayAtOnce(h, o, method) \/ PayBegin(h, o, method)

Refunds(h, o) ==
  \E key \in Keys \cup {NoKey} :
    \/ RefundBegin(h, o, Remaining(o), key)
    \/ \E asked \in RefundRequests : RefundBegin(h, o, Halala * asked, key)

Proceeds(h) ==
  \/ \E answer \in {"Captured", "Failed"} : GatewayCapture(h, answer)
  \/ PayEnd(h)
  \/ GatewayRefund(h)
  \/ GatewayDeclinesRefund(h)
  \/ \E full \in BOOLEAN :
       RefundEnd(h, full) \/ \E n \in 1..3 : RefundCutShort(h, full, n)

Moves(o) ==
  \E to \in Statuses, role \in Roles, earning \in BOOLEAN :
    Transition(o, to, role, earning)

Next ==
  \/ \E o \in Orders : Creates(o) \/ Moves(o)
  \/ \E h \in Handlers, o \in Orders : Pays(h, o) \/ Refunds(h, o)
  \/ \E h \in Handlers : Proceeds(h)
  \/ \E p \in Policies : SetPolicy(p)
  \/ Crash

Spec == Init /\ [][Next]_vars

-----------------------------------------------------------------------------
(* What the tables may hold. *)

\* Every column has its type; the balance and the wallet's spend are never
\* negative, and every request holds what its handler read.
TypeOK ==
  /\ status \in [Orders -> Statuses \cup {"None"}]
  /\ collection \in [Orders -> {"None", "PENDING", "COLLECTED", "NOT_REQUIRED",
                                "REFUNDED", "FAILED"}]
  /\ total \in [Orders -> Nat]
  /\ linked \in [Orders -> BOOLEAN]
  /\ points \in [Orders -> Nat]
  /\ resolved \in [Orders -> BOOLEAN]
  /\ captured \in [Orders -> Nat]
  /\ byWallet \in [Orders -> Nat]
  /\ refunded \in [Orders -> Nat]
  /\ keyUses \in [Orders -> [Keys -> Nat]]
  /\ sales \in [Orders -> Nat]
  /\ reversed \in [Orders -> Nat]
  /\ outbox \in [Orders -> Nat]
  /\ redeemed \in [Orders -> Nat]
  /\ spent \in Nat
  /\ balance \in Nat
  /\ policy \in Policies
  /\ charged \in [Orders -> Nat]
  /\ returned \in [Orders -> Nat]
  /\ handler \in [Handlers -> Serving]
  /\ requests \in Nat

-----------------------------------------------------------------------------
(* Properties that hold however many requests await the gateway. *)

Uncleared == {"None", "Created", "Payment Pending", "Failed"}

\* An order that the guest does not pay for is never charged, captured or
\* refunded, even when the policy of its location changes after its creation
\* or while a request of another order is at the gateway.
NotRequiredIsNeverCharged ==
  \A o \in Orders : collection[o] = "NOT_REQUIRED" =>
    captured[o] = 0 /\ refunded[o] = 0 /\ charged[o] = 0

\* Without a SuperAdmin moving it by hand, no order gets past payment, to the
\* kitchen or to a refund, before its sale is in the ledger, exactly once, and
\* its confirmation is in the outbox: the writes of one transaction.
KitchenOnlyAfterClearance ==
  \A o \in Orders : status[o] \notin Uncleared => sales[o] = 1 /\ outbox[o] >= 1

\* The tables never claim money that the gateway did not move: card captures
\* are backed by its charges and refunds by its returns, whatever crashes.
BooksAreBacked ==
  \A o \in Orders : captured[o] - byWallet[o] <= charged[o]
                    /\ refunded[o] <= returned[o]

-----------------------------------------------------------------------------
(* Properties that hold when one request at a time awaits the gateway. *)

\* An order is captured at most once: wallet and card together take what it
\* costs, give or take the rounding of the two shares.
CapturedAtMostOnce == \A o \in Orders : captured[o] <= total[o] + Halala

\* What is refunded never exceeds what was captured by more than the halala of
\* the comparison's tolerance and half a halala of rounding.
RefundWithinTolerance ==
  \A o \in Orders : refunded[o] <= captured[o] + Halala + 10

\* A refund with an idempotency key is recorded once.
KeyUsedOnce == \A o \in Orders, k \in Keys : keyUses[o][k] <= 1

\* A fully refunded order never counts as collected or failed again.
RefundedIsFinal ==
  [][\A o \in Orders :
       collection[o] = "REFUNDED" => collection'[o] = "REFUNDED"]_vars

\* The stage of the promised charge that an order's columns stand for.
Stage(o) ==
  CASE collection[o] = "None"         -> "none"
    [] collection[o] = "NOT_REQUIRED" -> "exempt"
    [] collection[o] = "PENDING"      -> "open"
    [] collection[o] = "FAILED"       -> "refused"
    [] OTHER                          -> "taken"

Promise == INSTANCE GuestCharge WITH
  Slack <- Halala + 10, stage <- [o \in Orders |-> Stage(o)], due <- total,
  taken <- captured, givenBack <- refunded

\* The endpoints keep the promise: each of their steps places, refuses, takes
\* or gives back the money of an order, once and within the slack.
KeepsPromise == Promise!Spec
=============================================================================
