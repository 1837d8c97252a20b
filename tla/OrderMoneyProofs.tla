-------------------------- MODULE OrderMoneyProofs --------------------------
(***************************************************************************)
(* Theorems about OrderMoney, for every number of orders and handlers and  *)
(* every choice of prices, budgets and policies: first what holds however  *)
(* requests interleave, then what holds when the requests for one order    *)
(* take turns.                                                             *)
(***************************************************************************)
EXTENDS OrderMoney, TLAPS

-----------------------------------------------------------------------------
(* Amounts. *)

\* Rounding to the halala moves an amount by at most half a halala.
LEMMA RoundBounds ==
  ASSUME NEW x \in Int
  PROVE  Round(x) \in Int /\ Round(x) >= x - 9 /\ Round(x) <= x + 10
BY DEF Round

\* Rounding never makes a natural amount negative.
LEMMA RoundNat ==
  ASSUME NEW x \in Nat
  PROVE  Round(x) \in Nat
BY DEF Round

\* What a cart costs is never negative.
LEMMA DueNat ==
  ASSUME NEW subtotal \in Nat, NEW used \in Nat
  PROVE  Due(subtotal, used) \in Nat
BY DEF Due, Lesser, PointValue

\* The points quoted are never negative and never more than the balance.
LEMMA PointsUsedNat ==
  ASSUME TypeOK, NEW asked \in PointRequests
  PROVE  PointsUsed(asked) \in Nat
BY PointsAssumption DEF TypeOK, PointsUsed, Lesser, Greater

\* The wallet covers at most what the order costs.
LEMMA CoverageBounds ==
  ASSUME TypeOK, NEW o \in Orders
  PROVE  Coverage(o) \in Nat /\ Coverage(o) <= total[o]
BY BudgetAssumption DEF TypeOK, Coverage, Lesser, Greater, Halala

\* The two shares of a payment are amounts, which together make up what the
\* order costs up to a halala of rounding.
LEMMA SharesBounds ==
  ASSUME TypeOK, NEW o \in Orders, NEW method
  PROVE  /\ WalletShare(o, method) \in Nat
         /\ CardShare(o, method) \in Nat
         /\ WalletShare(o, method) + CardShare(o, method) <= total[o] + Halala
<1> DEFINE c == Coverage(o)
<1>1. c \in Nat /\ c <= total[o] /\ total[o] \in Nat
  BY CoverageBounds DEF TypeOK
<1>2. Round(c) \in Nat /\ Round(c) <= c + 10
  BY <1>1, RoundBounds, RoundNat
<1>3. total[o] - c \in Nat
  BY <1>1
<1>4. Round(total[o] - c) \in Nat /\ Round(total[o] - c) <= total[o] - c + 10
  BY <1>1, <1>3, RoundBounds, RoundNat
<1>5. CASE DrawsOnWallet(o, method)
  BY <1>1, <1>2, <1>4, <1>5 DEF WalletShare, CardShare, Halala
<1>6. CASE ~DrawsOnWallet(o, method)
  BY <1>1, <1>6 DEF WalletShare, CardShare, Halala
<1> QED BY <1>5, <1>6

-----------------------------------------------------------------------------
(* Types. *)

\* Clearing an order keeps the types of what it writes; the balance is not
\* drawn below zero because the redemption looks at it again.
LEMMA ClearsType ==
  ASSUME TypeOK, NEW o \in Orders, NEW used \in Nat, Clears(o, used)
  PROVE  /\ sales' \in [Orders -> Nat]
         /\ outbox' \in [Orders -> Nat]
         /\ redeemed' \in [Orders -> Nat]
         /\ balance' \in Nat
<1>1. /\ sales \in [Orders -> Nat] /\ outbox \in [Orders -> Nat]
      /\ redeemed \in [Orders -> Nat] /\ balance \in Nat
  BY DEF TypeOK
<1>2. sales' \in [Orders -> Nat]
  BY <1>1 DEF Clears, RecordsSale
<1>3. outbox' \in [Orders -> Nat]
  BY <1>1 DEF Clears, EmitsConfirmed
<1>4. redeemed' \in [Orders -> Nat] /\ balance' \in Nat
  BY <1>1 DEF Clears, Redeems
<1> QED BY <1>2, <1>3, <1>4

\* So does settling a payment.
LEMMA SettlesType ==
  ASSUME TypeOK, NEW o \in Orders, NEW wallet \in Nat, NEW card \in Nat,
         NEW success \in BOOLEAN, Settles(o, wallet, card, success)
  PROVE  /\ status' \in [Orders -> Statuses \cup {"None"}]
         /\ collection' \in [Orders -> {"None", "PENDING", "COLLECTED",
                                        "NOT_REQUIRED", "REFUNDED", "FAILED"}]
         /\ resolved' \in [Orders -> BOOLEAN]
         /\ captured' \in [Orders -> Nat]
         /\ byWallet' \in [Orders -> Nat]
         /\ spent' \in Nat
         /\ sales' \in [Orders -> Nat]
         /\ outbox' \in [Orders -> Nat]
         /\ redeemed' \in [Orders -> Nat]
         /\ balance' \in Nat
<1>1. points[o] \in Nat
  BY DEF TypeOK
<1>2. /\ sales' \in [Orders -> Nat] /\ outbox' \in [Orders -> Nat]
      /\ redeemed' \in [Orders -> Nat] /\ balance' \in Nat
  <2>1. CASE success
    BY <1>1, <2>1, ClearsType DEF Settles
  <2>2. CASE ~success
    BY <2>2 DEF Settles, clearVars, TypeOK
  <2> QED BY <2>1, <2>2
<1>3. /\ status' \in [Orders -> Statuses \cup {"None"}]
      /\ collection' \in [Orders -> {"None", "PENDING", "COLLECTED",
                                     "NOT_REQUIRED", "REFUNDED", "FAILED"}]
  BY DEF Settles, TypeOK, Statuses
<1>4. resolved' \in [Orders -> BOOLEAN]
  BY Zenon DEF Settles, RecordsPayment, TypeOK
<1>5. /\ captured' \in [Orders -> Nat]
      /\ byWallet' \in [Orders -> Nat] /\ spent' \in Nat
  <2>1. /\ captured \in [Orders -> Nat]
        /\ byWallet \in [Orders -> Nat] /\ spent \in Nat
    BY DEF TypeOK
  <2>2. CASE success
    BY <2>1, <2>2 DEF Settles, RecordsPayment
  <2>3. CASE ~success
    BY <2>1, <2>3 DEF Settles, RecordsPayment
  <2> QED BY <2>2, <2>3
<1> QED BY <1>2, <1>3, <1>4, <1>5

\* So does inserting an order.
LEMMA InsertsType ==
  ASSUME TypeOK, NEW o \in Orders, NEW subtotal \in Subtotals,
         NEW used \in Nat, NEW withWallet \in BOOLEAN,
         InsertsOrder(o, subtotal, used, withWallet)
  PROVE  /\ collection' \in [Orders -> {"None", "PENDING", "COLLECTED",
                                        "NOT_REQUIRED", "REFUNDED", "FAILED"}]
         /\ total' \in [Orders -> Nat]
         /\ linked' \in [Orders -> BOOLEAN]
         /\ points' \in [Orders -> Nat]
<1>1. Due(subtotal, used) \in Nat
  BY DueNat, SubtotalsAssumption
<1> QED BY <1>1 DEF InsertsOrder, TypeOK

\* And recording a refund.
LEMMA RefundWritesType ==
  ASSUME TypeOK, NEW n \in Nat, NEW o \in Orders, NEW amount \in Nat,
         NEW key \in Keys \cup {NoKey}, NEW was, NEW full \in BOOLEAN,
         RefundWrites(n, o, amount, key, was, full)
  PROVE  /\ status' \in [Orders -> Statuses \cup {"None"}]
         /\ collection' \in [Orders -> {"None", "PENDING", "COLLECTED",
                                        "NOT_REQUIRED", "REFUNDED", "FAILED"}]
         /\ refunded' \in [Orders -> Nat]
         /\ keyUses' \in [Orders -> [Keys -> Nat]]
         /\ reversed' \in [Orders -> Nat]
<1>1. status' \in [Orders -> Statuses \cup {"None"}]
  BY DEF TypeOK, RefundWrites, RefundTarget, Statuses
<1>2. collection' \in [Orders -> {"None", "PENDING", "COLLECTED",
                                  "NOT_REQUIRED", "REFUNDED", "FAILED"}]
  BY DEF TypeOK, RefundWrites
<1>3. refunded' \in [Orders -> Nat] /\ reversed' \in [Orders -> Nat]
  BY DEF TypeOK, RefundWrites, RecordsRefund
<1>4. keyUses' \in [Orders -> [Keys -> Nat]]
  <2>1. keyUses \in [Orders -> [Keys -> Nat]]
    BY DEF TypeOK
  <2> DEFINE row == [k \in Keys |-> IF k = key THEN keyUses[o][k] + 1
                                               ELSE keyUses[o][k]]
  <2>2. row \in [Keys -> Nat]
    BY <2>1
  <2>3. keyUses' = [keyUses EXCEPT ![o] = row]
    BY DEF RefundWrites, RecordsRefund
  <2> QED BY <2>1, <2>2, <2>3
<1> QED BY <1>1, <1>2, <1>3, <1>4

\* A request that a handler takes up is one it can serve.
LEMMA ServingPay ==
  ASSUME NEW o \in Orders, NEW wallet \in Nat, NEW card \in Nat,
         NEW answer \in {"awaited", "Captured", "Failed"}
  PROVE  [kind |-> "pay", order |-> o, wallet |-> wallet, card |-> card,
          answer |-> answer] \in Serving
BY DEF Serving, PayRequests

\* The same for a refund request.
LEMMA ServingRefund ==
  ASSUME NEW o \in Orders, NEW amount \in Nat, NEW remaining \in Nat,
         NEW was \in RefundableStatuses, NEW key \in Keys \cup {NoKey},
         NEW answer \in {"awaited", "Refunded"}
  PROVE  [kind |-> "refund", order |-> o, amount |-> amount,
          remaining |-> remaining, was |-> was, key |-> key,
          answer |-> answer] \in Serving
BY DEF Serving, RefundRequestsInFlight

\* What a handler holds while it serves a payment or a refund.
LEMMA HandlerHolds ==
  ASSUME TypeOK, NEW h \in Handlers
  PROVE  /\ handler[h] \in Serving
         /\ handler[h].kind = "pay" => handler[h] \in PayRequests
         /\ handler[h].kind = "refund" => handler[h] \in RefundRequestsInFlight
BY DEF TypeOK, Serving, Idle, PayRequests, RefundRequestsInFlight

\* A handler without a request is in its type too.
LEMMA IdleServing == Idle \in Serving
BY DEF Serving

-----------------------------------------------------------------------------

\* Every step keeps the types.
LEMMA TypeStep == TypeOK /\ [Next]_vars => TypeOK'
<1> SUFFICES ASSUME TypeOK, [Next]_vars PROVE TypeOK'
  OBVIOUS
<1> USE DEF vars, orderVars, statusVars, paidVars, clearVars, refundVars, outside
<1>1. ASSUME NEW o \in Orders, NEW subtotal \in Subtotals,
             NEW asked \in PointRequests, NEW withWallet \in BOOLEAN,
             CreateForPayment(o, subtotal, asked, withWallet)
      PROVE  TypeOK'
  <2>1. InsertsOrder(o, subtotal, PointsUsed(asked), withWallet)
    BY <1>1 DEF CreateForPayment
  <2>2. status' \in [Orders -> Statuses \cup {"None"}]
    BY <1>1 DEF CreateForPayment, TypeOK, Statuses
  <2>3. /\ collection' \in [Orders -> {"None", "PENDING", "COLLECTED",
                                        "NOT_REQUIRED", "REFUNDED", "FAILED"}]
        /\ total' \in [Orders -> Nat]
        /\ linked' \in [Orders -> BOOLEAN]
        /\ points' \in [Orders -> Nat]
    BY <2>1, PointsUsedNat, InsertsType
  <2> QED BY <1>1, <2>2, <2>3 DEF CreateForPayment, TypeOK
<1>2. ASSUME NEW o \in Orders, NEW subtotal \in Subtotals,
             NEW asked \in PointRequests, NEW withWallet \in BOOLEAN,
             CreateConfirmed(o, subtotal, asked, withWallet)
      PROVE  TypeOK'
  <2>1. InsertsOrder(o, subtotal, PointsUsed(asked), withWallet)
    BY <1>2 DEF CreateConfirmed
  <2>2. Clears(o, PointsUsed(asked))
    BY <1>2 DEF CreateConfirmed
  <2>3. status' \in [Orders -> Statuses \cup {"None"}]
    BY <1>2 DEF CreateConfirmed, TypeOK, Statuses
  <2> QED BY <1>2, <2>1, <2>2, <2>3, PointsUsedNat, InsertsType, ClearsType
          DEF CreateConfirmed, TypeOK
<1>3. ASSUME NEW o \in Orders, NEW subtotal \in Subtotals,
             NEW asked \in PointRequests, NEW withWallet \in BOOLEAN,
             CreateCutShort(o, subtotal, asked, withWallet)
      PROVE  TypeOK'
  <2>1. InsertsOrder(o, subtotal, PointsUsed(asked), withWallet)
    BY <1>3 DEF CreateCutShort
  <2>2. status' \in [Orders -> Statuses \cup {"None"}]
    BY <1>3 DEF CreateCutShort, TypeOK, Statuses
  <2>3. handler' \in [Handlers -> Serving]
    BY <1>3, IdleServing DEF CreateCutShort
  <2> QED BY <1>3, <2>1, <2>2, <2>3, PointsUsedNat, InsertsType
          DEF CreateCutShort, TypeOK
<1>4. ASSUME NEW h \in Handlers, NEW o \in Orders, NEW method,
             PayAtOnce(h, o, method)
      PROVE  TypeOK'
  <2>1. Settles(o, WalletShare(o, method), 0, TRUE)
    BY <1>4 DEF PayAtOnce
  <2>2. WalletShare(o, method) \in Nat
    BY SharesBounds
  <2>3. requests' \in Nat
    BY <1>4 DEF PayAtOnce, CountsRequest, TypeOK
  <2>4. /\ status' \in [Orders -> Statuses \cup {"None"}]
        /\ collection' \in [Orders -> {"None", "PENDING", "COLLECTED",
                                        "NOT_REQUIRED", "REFUNDED", "FAILED"}]
        /\ resolved' \in [Orders -> BOOLEAN]
        /\ captured' \in [Orders -> Nat]
        /\ byWallet' \in [Orders -> Nat]
        /\ spent' \in Nat
        /\ sales' \in [Orders -> Nat]
        /\ outbox' \in [Orders -> Nat]
        /\ redeemed' \in [Orders -> Nat]
        /\ balance' \in Nat
    BY <2>1, <2>2, SettlesType
  <2> QED BY <1>4, <2>3, <2>4 DEF PayAtOnce, TypeOK
<1>5. ASSUME NEW h \in Handlers, NEW o \in Orders, NEW method,
             PayBegin(h, o, method)
      PROVE  TypeOK'
  <2>1. WalletShare(o, method) \in Nat /\ CardShare(o, method) \in Nat
    BY SharesBounds
  <2>2. handler' \in [Handlers -> Serving]
    BY <1>5, <2>1, ServingPay DEF PayBegin, TypeOK
  <2> QED BY <1>5, <2>2 DEF PayBegin, CountsRequest, TypeOK
<1>6. ASSUME NEW h \in Handlers, NEW answer \in {"Captured", "Failed"},
             GatewayCapture(h, answer)
      PROVE  TypeOK'
  <2>1. handler[h] \in PayRequests
    BY <1>6, HandlerHolds DEF GatewayCapture
  <2>2. [handler[h] EXCEPT !.answer = answer] \in Serving
    BY <2>1 DEF PayRequests, Serving
  <2>3. handler' \in [Handlers -> Serving]
    BY <1>6, <2>2 DEF GatewayCapture, TypeOK
  <2>4. charged' \in [Orders -> Nat]
    BY <1>6, <2>1 DEF GatewayCapture, TypeOK, PayRequests
  <2> QED BY <1>6, <2>3, <2>4 DEF GatewayCapture, TypeOK
<1>7. ASSUME NEW h \in Handlers, PayEnd(h)
      PROVE  TypeOK'
  <2>1. handler[h] \in PayRequests
    BY <1>7, HandlerHolds DEF PayEnd
  <2>2. handler[h].order \in Orders /\ handler[h].wallet \in Nat
        /\ handler[h].card \in Nat /\ (handler[h].answer = "Captured") \in BOOLEAN
    BY <2>1 DEF PayRequests
  <2>3. Settles(handler[h].order, handler[h].wallet, handler[h].card,
                handler[h].answer = "Captured")
    BY <1>7 DEF PayEnd
  <2>4. handler' \in [Handlers -> Serving]
    BY <1>7, IdleServing DEF PayEnd, Finish, TypeOK
  <2> QED BY <1>7, <2>2, <2>3, <2>4, SettlesType DEF PayEnd, TypeOK
<1>8. ASSUME NEW h \in Handlers, NEW o \in Orders, NEW amount \in Int,
             NEW key \in Keys \cup {NoKey}, RefundBegin(h, o, amount, key)
      PROVE  TypeOK'
  <2>1. captured[o] - refunded[o] \in Int
    BY DEF TypeOK
  <2>2. Remaining(o) \in Nat /\ amount \in Nat
    BY <1>8, <2>1, RoundBounds DEF RefundBegin, WithinBalance, Remaining
  <2>3. status[o] \in RefundableStatuses
    BY <1>8 DEF RefundBegin, Refundable
  <2>4. handler' \in [Handlers -> Serving]
    BY <1>8, <2>2, <2>3, ServingRefund DEF RefundBegin, TypeOK
  <2> QED BY <1>8, <2>4 DEF RefundBegin, CountsRequest, TypeOK
<1>9. ASSUME NEW h \in Handlers, GatewayRefund(h)
      PROVE  TypeOK'
  <2>1. handler[h] \in RefundRequestsInFlight
    BY <1>9, HandlerHolds DEF GatewayRefund
  <2>2. [handler[h] EXCEPT !.answer = "Refunded"] \in Serving
    BY <2>1 DEF RefundRequestsInFlight, Serving
  <2>3. handler' \in [Handlers -> Serving]
    BY <1>9, <2>2 DEF GatewayRefund, TypeOK
  <2>4. returned' \in [Orders -> Nat]
    BY <1>9, <2>1 DEF GatewayRefund, TypeOK, RefundRequestsInFlight
  <2> QED BY <1>9, <2>3, <2>4 DEF GatewayRefund, TypeOK
<1>10. ASSUME NEW h \in Handlers, GatewayDeclinesRefund(h)
       PROVE  TypeOK'
  BY <1>10, IdleServing DEF GatewayDeclinesRefund, Finish, TypeOK
<1>11. ASSUME NEW h \in Handlers, NEW full \in BOOLEAN, RefundEnd(h, full)
       PROVE  TypeOK'
  <2>1. handler[h] \in RefundRequestsInFlight
    BY <1>11, HandlerHolds DEF RefundEnd
  <2>2. /\ handler[h].order \in Orders /\ handler[h].amount \in Nat
        /\ handler[h].key \in Keys \cup {NoKey}
    BY <2>1 DEF RefundRequestsInFlight
  <2>3. PICK n \in Nat : RefundWrites(n, handler[h].order, handler[h].amount,
                                      handler[h].key, handler[h].was, full)
    BY <1>11 DEF RefundEnd
  <2>4. handler' \in [Handlers -> Serving]
    BY <1>11, IdleServing DEF RefundEnd, Finish, TypeOK
  <2>5. /\ status' \in [Orders -> Statuses \cup {"None"}]
        /\ collection' \in [Orders -> {"None", "PENDING", "COLLECTED",
                                        "NOT_REQUIRED", "REFUNDED", "FAILED"}]
        /\ refunded' \in [Orders -> Nat]
        /\ keyUses' \in [Orders -> [Keys -> Nat]]
        /\ reversed' \in [Orders -> Nat]
    BY <2>2, <2>3, RefundWritesType
  <2> QED BY <1>11, <2>4, <2>5 DEF RefundEnd, TypeOK
<1>12. ASSUME NEW h \in Handlers, NEW full \in BOOLEAN, NEW n \in 1..3,
              RefundCutShort(h, full, n)
       PROVE  TypeOK'
  <2>1. handler[h] \in RefundRequestsInFlight
    BY <1>12, HandlerHolds DEF RefundCutShort
  <2>2. /\ handler[h].order \in Orders /\ handler[h].amount \in Nat
        /\ handler[h].key \in Keys \cup {NoKey}
    BY <2>1 DEF RefundRequestsInFlight
  <2>3. RefundWrites(n, handler[h].order, handler[h].amount,
                     handler[h].key, handler[h].was, full)
    BY <1>12 DEF RefundCutShort
  <2>4. handler' \in [Handlers -> Serving]
    BY <1>12, IdleServing DEF RefundCutShort
  <2>5. /\ status' \in [Orders -> Statuses \cup {"None"}]
        /\ collection' \in [Orders -> {"None", "PENDING", "COLLECTED",
                                        "NOT_REQUIRED", "REFUNDED", "FAILED"}]
        /\ refunded' \in [Orders -> Nat]
        /\ keyUses' \in [Orders -> [Keys -> Nat]]
        /\ reversed' \in [Orders -> Nat]
    BY <2>2, <2>3, n \in Nat, RefundWritesType
  <2> QED BY <1>12, <2>4, <2>5 DEF RefundCutShort, TypeOK
<1>13. ASSUME NEW o \in Orders, NEW to \in Statuses, NEW role \in Roles,
              NEW earning \in BOOLEAN, Transition(o, to, role, earning)
       PROVE  TypeOK'
  <2>1. balance' \in Nat
    BY <1>13 DEF Transition, Earns, TypeOK, Riyal, Halala
  <2> QED BY <1>13, <2>1 DEF Transition, TypeOK
<1>14. ASSUME NEW p \in Policies, SetPolicy(p)
       PROVE  TypeOK'
  BY <1>14 DEF SetPolicy, TypeOK
<1>15. ASSUME Crash
       PROVE  TypeOK'
  BY <1>15, IdleServing DEF Crash, TypeOK
<1>16. ASSUME UNCHANGED vars
       PROVE  TypeOK'
  BY <1>16 DEF TypeOK
<1>17. \A o \in Orders : Remaining(o) \in Int
  BY RoundBounds DEF Remaining, TypeOK
<1>18. \A asked \in RefundRequests : Halala * asked \in Int
  BY RefundRequestsAssumption DEF Halala
<1> QED
  BY <1>1, <1>2, <1>3, <1>4, <1>5, <1>6, <1>7, <1>8, <1>9, <1>10, <1>11, <1>12,
     <1>13, <1>14, <1>15, <1>16, <1>17, <1>18
  DEF Next, Creates, Moves, Pays, Refunds, Proceeds

\* TypeOK holds of every behaviour: the loyalty balance and the wallet's spend
\* are never negative, whichever requests are served together.
THEOREM TypeCorrect == Spec => []TypeOK
<1>1. Init => TypeOK
  BY PointsAssumption, IdleServing DEF Init, TypeOK
<1> QED BY <1>1, TypeStep, PTL DEF Spec

-----------------------------------------------------------------------------
(* Orders the guest does not pay for. *)

Untouched(o) == captured[o] = 0 /\ refunded[o] = 0 /\ charged[o] = 0

\* Why NotRequiredIsNeverCharged is kept: a request at the gateway is always
\* about an order that is to be paid, and an order never becomes exempt after
\* its creation.
ExemptInv ==
  /\ \A o \in Orders : status[o] = "None" <=> collection[o] = "None"
  /\ \A o \in Orders : collection[o] \in {"None", "NOT_REQUIRED"} => Untouched(o)
  /\ \A h \in Handlers : handler[h] # Idle =>
       collection[handler[h].order] \notin {"None", "NOT_REQUIRED"}

\* Every step leaves exempt orders untouched and no handler takes one up: a
\* payment needs an open collection status, a refund a captured amount.
LEMMA ExemptStep == TypeOK /\ ExemptInv /\ [Next]_vars => ExemptInv'
<1> SUFFICES ASSUME TypeOK, ExemptInv, [Next]_vars PROVE ExemptInv'
  OBVIOUS
<1> USE DEF vars, orderVars, statusVars, paidVars, clearVars, refundVars, outside
<1>1. ASSUME NEW o \in Orders, NEW subtotal, NEW used, NEW withWallet, NEW s,
             InsertsOrder(o, subtotal, used, withWallet), s # "None",
             status' = [status EXCEPT ![o] = s],
             UNCHANGED <<captured, refunded, charged>>,
             handler' = handler \/ handler' = [h \in Handlers |-> Idle]
      PROVE  ExemptInv'
  <2>1. \A p \in Orders : status'[p] = "None" <=> collection'[p] = "None"
    BY <1>1 DEF InsertsOrder, ExemptInv, TypeOK
  <2>2. \A p \in Orders : collection'[p] \in {"None", "NOT_REQUIRED"} => Untouched(p)'
    BY <1>1 DEF InsertsOrder, ExemptInv, TypeOK, Untouched
  <2>3. \A h \in Handlers : handler'[h] # Idle =>
          collection'[handler'[h].order] \notin {"None", "NOT_REQUIRED"}
    BY <1>1 DEF InsertsOrder, ExemptInv, TypeOK
  <2> QED BY <2>1, <2>2, <2>3 DEF ExemptInv
<1>2. ASSUME NEW o \in Orders, NEW wallet, NEW card, NEW success \in BOOLEAN,
             Settles(o, wallet, card, success),
             collection[o] \notin {"None", "NOT_REQUIRED"},
             UNCHANGED <<refunded, charged>>,
             \A g \in Handlers : handler'[g] = handler[g] \/ handler'[g] = Idle
      PROVE  ExemptInv'
  <2>1. collection' = [collection EXCEPT ![o] = IF success THEN "COLLECTED" ELSE "FAILED"]
        /\ status' = [status EXCEPT ![o] = IF success THEN "Paid" ELSE "Failed"]
    BY <1>2 DEF Settles
  <2>2. \A p \in Orders : p # o => captured'[p] = captured[p]
    BY <1>2 DEF Settles, RecordsPayment, TypeOK
  <2>3. \A p \in Orders : status'[p] = "None" <=> collection'[p] = "None"
    BY <2>1 DEF ExemptInv, TypeOK
  <2>4. \A p \in Orders : collection'[p] \in {"None", "NOT_REQUIRED"} => Untouched(p)'
    BY <1>2, <2>1, <2>2 DEF ExemptInv, TypeOK, Untouched
  <2>5. \A h \in Handlers : handler'[h] # Idle =>
          collection'[handler'[h].order] \notin {"None", "NOT_REQUIRED"}
    BY <1>2, <2>1 DEF ExemptInv, TypeOK
  <2> QED BY <2>3, <2>4, <2>5 DEF ExemptInv
<1>3. ASSUME NEW n \in Nat, NEW o \in Orders, NEW amount, NEW key, NEW was,
             NEW full \in BOOLEAN, RefundWrites(n, o, amount, key, was, full),
             collection[o] \notin {"None", "NOT_REQUIRED"},
             UNCHANGED <<captured, charged>>,
             \A g \in Handlers : handler'[g] = handler[g] \/ handler'[g] = Idle
      PROVE  ExemptInv'
  <2>1. \A p \in Orders :
          /\ status'[p] # status[p] => p = o /\ status'[p] # "None"
          /\ collection'[p] # collection[p] => p = o /\ collection'[p] = "REFUNDED"
    <3>1. /\ status' = [status EXCEPT ![o] = RefundTarget(full)] \/ status' = status
          /\ collection' = [collection EXCEPT ![o] = "REFUNDED"]
             \/ collection' = collection
      BY <1>3 DEF RefundWrites
    <3>2. RefundTarget(full) # "None"
      BY DEF RefundTarget
    <3> QED BY <3>1, <3>2 DEF TypeOK
  <2>2. \A p \in Orders : p # o => refunded'[p] = refunded[p]
    BY <1>3 DEF RefundWrites, RecordsRefund, TypeOK
  <2>3. \A p \in Orders : status'[p] = "None" <=> collection'[p] = "None"
    BY <1>3, <2>1 DEF ExemptInv
  <2>4. \A p \in Orders : collection'[p] \in {"None", "NOT_REQUIRED"} => Untouched(p)'
    BY <1>3, <2>1, <2>2 DEF ExemptInv, Untouched
  <2>5. \A h \in Handlers : handler'[h] # Idle => handler'[h].order \in Orders
    BY <1>3, HandlerHolds DEF TypeOK, Serving, PayRequests, RefundRequestsInFlight
  <2>6. ASSUME NEW h \in Handlers, handler'[h] # Idle
        PROVE  collection'[handler'[h].order] \notin {"None", "NOT_REQUIRED"}
    <3>1. handler'[h] = handler[h] /\ handler[h].order \in Orders
      BY <1>3, <2>5, <2>6
    <3>2. collection[handler[h].order] \notin {"None", "NOT_REQUIRED"}
      BY <2>6, <3>1 DEF ExemptInv
    <3> QED BY <2>1, <3>1, <3>2
  <2> QED BY <2>3, <2>4, <2>6 DEF ExemptInv
<1>4. ASSUME NEW o \in Orders, Creates(o)
      PROVE  ExemptInv'
  <2>1. PICK subtotal \in Subtotals, asked \in PointRequests, withWallet \in BOOLEAN :
          \/ CreateForPayment(o, subtotal, asked, withWallet)
          \/ CreateConfirmed(o, subtotal, asked, withWallet)
          \/ CreateCutShort(o, subtotal, asked, withWallet)
    BY <1>4 DEF Creates
  <2> DEFINE used == PointsUsed(asked)
  <2>2. InsertsOrder(o, subtotal, used, withWallet)
        /\ UNCHANGED <<captured, refunded, charged>>
    BY <2>1 DEF CreateForPayment, CreateConfirmed, CreateCutShort
  <2>3. PICK s : s # "None" /\ status' = [status EXCEPT ![o] = s]
    BY <2>1 DEF CreateForPayment, CreateConfirmed, CreateCutShort
  <2>4. handler' = handler \/ handler' = [h \in Handlers |-> Idle]
    BY <2>1 DEF CreateForPayment, CreateConfirmed, CreateCutShort
  <2> HIDE DEF used
  <2> QED BY <1>1, <2>2, <2>3, <2>4
<1>5. ASSUME NEW h \in Handlers, NEW o \in Orders, NEW method,
             PayAtOnce(h, o, method)
      PROVE  ExemptInv'
  <2>1. Settles(o, WalletShare(o, method), 0, TRUE)
        /\ UNCHANGED <<refunded, charged, handler>>
    BY <1>5 DEF PayAtOnce
  <2>2. collection[o] \notin {"None", "NOT_REQUIRED"}
    BY <1>5 DEF PayAtOnce, MayPay, ExemptInv
  <2> QED BY <1>2, <2>1, <2>2
<1>6. ASSUME NEW h \in Handlers, NEW o \in Orders, NEW method,
             PayBegin(h, o, method)
      PROVE  ExemptInv'
  <2>1. collection[o] \notin {"None", "NOT_REQUIRED"}
    BY <1>6 DEF PayBegin, MayPay, ExemptInv
  <2>2. \A g \in Handlers : handler'[g] = handler[g] \/ handler'[g].order = o
    BY <1>6 DEF PayBegin, TypeOK
  <2>3. UNCHANGED <<status, collection, captured, refunded, charged>>
    BY <1>6 DEF PayBegin
  <2> QED BY <2>1, <2>2, <2>3 DEF ExemptInv, Untouched
<1>7. ASSUME NEW h \in Handlers, NEW answer \in {"Captured", "Failed"},
             GatewayCapture(h, answer)
      PROVE  ExemptInv'
  <2>1. handler[h] \in PayRequests /\ handler[h] # Idle
    BY <1>7, HandlerHolds DEF GatewayCapture, Idle
  <2>2. \A g \in Handlers : g # h => handler'[g] = handler[g]
    BY <1>7 DEF GatewayCapture, TypeOK
  <2>3. handler'[h].order = handler[h].order
    BY <1>7, <2>1 DEF GatewayCapture, TypeOK, PayRequests
  <2>4. collection[handler[h].order] \notin {"None", "NOT_REQUIRED"}
    BY <2>1 DEF ExemptInv
  <2>5. \A p \in Orders : charged'[p] = charged[p] \/ p = handler[h].order
    BY <1>7 DEF GatewayCapture, TypeOK
  <2>6. UNCHANGED <<status, collection, captured, refunded>>
    BY <1>7 DEF GatewayCapture
  <2>7. \A p \in Orders : collection[p] \in {"None", "NOT_REQUIRED"} => Untouched(p)'
    BY <2>4, <2>5, <2>6 DEF ExemptInv, Untouched
  <2>8. \A g \in Handlers : handler'[g] # Idle =>
          collection[handler'[g].order] \notin {"None", "NOT_REQUIRED"}
    BY <2>2, <2>3, <2>4 DEF ExemptInv
  <2> QED BY <2>6, <2>7, <2>8 DEF ExemptInv
<1>8. ASSUME NEW h \in Handlers, PayEnd(h)
      PROVE  ExemptInv'
  <2>1. handler[h] \in PayRequests /\ handler[h] # Idle
    BY <1>8, HandlerHolds DEF PayEnd, Idle
  <2>2. /\ handler[h].order \in Orders
        /\ collection[handler[h].order] \notin {"None", "NOT_REQUIRED"}
        /\ (handler[h].answer = "Captured") \in BOOLEAN
    BY <2>1 DEF ExemptInv, PayRequests
  <2>3. Settles(handler[h].order, handler[h].wallet, handler[h].card,
                handler[h].answer = "Captured")
        /\ UNCHANGED <<refunded, charged>>
    BY <1>8 DEF PayEnd
  <2>4. \A g \in Handlers : handler'[g] = handler[g] \/ handler'[g] = Idle
    BY <1>8 DEF PayEnd, Finish, TypeOK
  <2> QED BY <1>2, <2>2, <2>3, <2>4
<1>9. ASSUME NEW h \in Handlers, NEW o \in Orders, NEW amount, NEW key,
             RefundBegin(h, o, amount, key)
      PROVE  ExemptInv'
  <2>1. collection[o] \notin {"None", "NOT_REQUIRED"}
    BY <1>9 DEF RefundBegin, Refundable, RefundableStatuses, ExemptInv
  <2>2. \A g \in Handlers : handler'[g] = handler[g] \/ handler'[g].order = o
    BY <1>9 DEF RefundBegin, TypeOK
  <2>3. UNCHANGED <<status, collection, captured, refunded, charged>>
    BY <1>9 DEF RefundBegin
  <2> QED BY <2>1, <2>2, <2>3 DEF ExemptInv, Untouched
<1>10. ASSUME NEW h \in Handlers, GatewayRefund(h)
       PROVE  ExemptInv'
  <2>1. handler[h] \in RefundRequestsInFlight /\ handler[h] # Idle
    BY <1>10, HandlerHolds DEF GatewayRefund, Idle
  <2>2. \A g \in Handlers : g # h => handler'[g] = handler[g]
    BY <1>10 DEF GatewayRefund, TypeOK
  <2>3. handler'[h].order = handler[h].order
    BY <1>10, <2>1 DEF GatewayRefund, TypeOK, RefundRequestsInFlight
  <2>4. UNCHANGED <<status, collection, captured, refunded, charged>>
    BY <1>10 DEF GatewayRefund
  <2>5. \A g \in Handlers : handler'[g] # Idle =>
          collection[handler'[g].order] \notin {"None", "NOT_REQUIRED"}
    BY <2>1, <2>2, <2>3 DEF ExemptInv
  <2> QED BY <2>4, <2>5 DEF ExemptInv, Untouched
<1>11. ASSUME NEW h \in Handlers, NEW full \in BOOLEAN, NEW n \in Nat,
              handler[h].kind = "refund",
              RefundWrites(n, handler[h].order, handler[h].amount,
                           handler[h].key, handler[h].was, full),
              UNCHANGED <<captured, charged>>,
              \A g \in Handlers : handler'[g] = handler[g] \/ handler'[g] = Idle
       PROVE  ExemptInv'
  <2>1. handler[h] \in RefundRequestsInFlight /\ handler[h] # Idle
    BY <1>11, HandlerHolds DEF Idle
  <2>2. /\ handler[h].order \in Orders
        /\ collection[handler[h].order] \notin {"None", "NOT_REQUIRED"}
    BY <2>1 DEF ExemptInv, RefundRequestsInFlight
  <2> QED BY <1>3, <1>11, <2>2
<1>12. ASSUME NEW h \in Handlers, NEW full \in BOOLEAN, RefundEnd(h, full)
       PROVE  ExemptInv'
  <2>1. PICK n \in Nat : RefundWrites(n, handler[h].order, handler[h].amount,
                                      handler[h].key, handler[h].was, full)
    BY <1>12 DEF RefundEnd
  <2>2. handler[h].kind = "refund" /\ UNCHANGED <<captured, charged>>
    BY <1>12 DEF RefundEnd
  <2>3. \A g \in Handlers : handler'[g] = handler[g] \/ handler'[g] = Idle
    BY <1>12 DEF RefundEnd, Finish, TypeOK
  <2> QED BY <1>11, <2>1, <2>2, <2>3
<1>13. ASSUME NEW h \in Handlers, NEW full \in BOOLEAN, NEW n \in 1..3,
              RefundCutShort(h, full, n)
       PROVE  ExemptInv'
  <2>1. RefundWrites(n, handler[h].order, handler[h].amount,
                     handler[h].key, handler[h].was, full)
    BY <1>13 DEF RefundCutShort
  <2>2. handler[h].kind = "refund" /\ UNCHANGED <<captured, charged>>
    BY <1>13 DEF RefundCutShort
  <2>3. \A g \in Handlers : handler'[g] = handler[g] \/ handler'[g] = Idle
    BY <1>13 DEF RefundCutShort
  <2>4. n \in Nat
    OBVIOUS
  <2> QED BY <1>11, <2>1, <2>2, <2>3, <2>4
<1>14. ASSUME NEW o \in Orders, Moves(o)
       PROVE  ExemptInv'
  <2>1. PICK to \in Statuses, role \in Roles, earning \in BOOLEAN :
          Transition(o, to, role, earning)
    BY <1>14 DEF Moves
  <2>2. status[o] # "None" /\ to # "None"
    BY <2>1 DEF Transition, MayMove, CanTransition, SuccessorsOf
  <2>3. status' = [status EXCEPT ![o] = to]
        /\ UNCHANGED <<collection, captured, refunded, charged, handler>>
    BY <2>1 DEF Transition
  <2> QED BY <2>2, <2>3 DEF ExemptInv, Untouched, TypeOK
<1>15. ASSUME \/ \E h \in Handlers : GatewayDeclinesRefund(h)
              \/ \E p \in Policies : SetPolicy(p)
              \/ Crash
              \/ UNCHANGED vars
       PROVE  ExemptInv'
  <2>1. UNCHANGED <<status, collection, captured, refunded, charged>>
    BY <1>15 DEF GatewayDeclinesRefund, SetPolicy, Crash
  <2>2. \A g \in Handlers : handler'[g] = handler[g] \/ handler'[g] = Idle
    BY <1>15 DEF GatewayDeclinesRefund, SetPolicy, Crash, Finish, TypeOK
  <2> QED BY <2>1, <2>2 DEF ExemptInv, Untouched
<1> QED
  BY <1>4, <1>5, <1>6, <1>7, <1>8, <1>9, <1>10, <1>12, <1>13, <1>14, <1>15
  DEF Next, Pays, Refunds, Proceeds

\* An order the guest does not pay for is never charged, captured or refunded,
\* however many requests are at the gateway and however the policy changes.
THEOREM ExemptNeverCharged == Spec => []NotRequiredIsNeverCharged
<1>1. Init => ExemptInv
  BY DEF Init, ExemptInv, Untouched
<1>2. ExemptInv => NotRequiredIsNeverCharged
  BY DEF ExemptInv, Untouched, NotRequiredIsNeverCharged
<1> QED BY <1>1, <1>2, TypeCorrect, ExemptStep, PTL DEF Spec

-----------------------------------------------------------------------------
(* The kitchen and the ledger. *)

Cleared(o) == sales[o] = 1 /\ outbox[o] >= 1

\* Why KitchenOnlyAfterClearance is kept: being cleared is never undone, and
\* a refund at the gateway was admitted on the status of a cleared order,
\* which it may restore.
ClearedInv ==
  /\ \A o \in Orders : sales[o] \in {0, 1}
  /\ \A o \in Orders : status[o] \notin Uncleared => Cleared(o)
  /\ \A h \in Handlers : handler[h].kind = "refund" => Cleared(handler[h].order)

\* Clearing an order clears it and no other, and is never undone.
LEMMA ClearsClears ==
  ASSUME TypeOK, ClearedInv, NEW o \in Orders, NEW used, Clears(o, used)
  PROVE  /\ Cleared(o)'
         /\ \A p \in Orders \ {o} : sales'[p] = sales[p] /\ outbox'[p] = outbox[p]
BY DEF TypeOK, ClearedInv, Clears, RecordsSale, EmitsConfirmed, Cleared

\* The shape of every step, as far as ClearedInv is concerned: an order that
\* leaves the uncleared statuses is cleared by the step or was before.
LEMMA ClearedKept ==
  ASSUME TypeOK, ClearedInv,
         \A p \in Orders : \/ sales'[p] = sales[p] /\ outbox'[p] = outbox[p]
                           \/ Cleared(p)',
         \A p \in Orders : \/ status'[p] = status[p]
                           \/ status'[p] \in Uncleared
                           \/ Cleared(p)',
         \A h \in Handlers : \/ handler'[h].kind # "refund"
                             \/ /\ handler[h].kind = "refund"
                                /\ handler'[h].order = handler[h].order
                             \/ /\ handler'[h].order \in Orders
                                /\ status[handler'[h].order] \notin Uncleared
  PROVE  ClearedInv'
<1>1. \A p \in Orders : Cleared(p) => Cleared(p)'
  BY DEF Cleared
<1>2. \A p \in Orders : sales'[p] \in {0, 1}
  BY DEF ClearedInv, Cleared
<1>3. \A p \in Orders : status'[p] \notin Uncleared => Cleared(p)'
  BY <1>1 DEF ClearedInv
<1>4. ASSUME NEW h \in Handlers, handler'[h].kind = "refund"
      PROVE  (Cleared(handler[h].order))'
  <2>1. CASE handler[h].kind = "refund" /\ handler'[h].order = handler[h].order
    <3>1. PICK o \in Orders : o = handler[h].order
      BY <2>1, HandlerHolds DEF RefundRequestsInFlight
    <3>2. Cleared(o)
      BY <2>1, <3>1 DEF ClearedInv
    <3>3. Cleared(o)'
      BY <1>1, <3>2
    <3> QED BY <2>1, <3>1, <3>3 DEF Cleared
  <2>2. CASE handler'[h].order \in Orders /\ status[handler'[h].order] \notin Uncleared
    <3>1. PICK o \in Orders : o = handler'[h].order
      BY <2>2
    <3>2. Cleared(o)'
      BY <1>1, <2>2, <3>1 DEF ClearedInv
    <3> QED BY <3>1, <3>2 DEF Cleared
  <2> QED BY <1>4, <2>1, <2>2
<1> QED BY <1>2, <1>3, <1>4 DEF ClearedInv

\* Every step keeps cleared what is past its payment: a request at the gateway
\* clears the order in the transaction that writes the status.
LEMMA ClearedStep ==
  ASSUME "SuperAdmin" \notin Roles
  PROVE  TypeOK /\ ClearedInv /\ [Next]_vars => ClearedInv'
<1> SUFFICES ASSUME TypeOK, ClearedInv, [Next]_vars PROVE ClearedInv'
  OBVIOUS
<1> USE DEF vars, orderVars, statusVars, paidVars, clearVars, refundVars, outside
<1> DEFINE BooksKept(p) == sales'[p] = sales[p] /\ outbox'[p] = outbox[p]
           Requests(h) == \/ handler'[h].kind # "refund"
                          \/ /\ handler[h].kind = "refund"
                             /\ handler'[h].order = handler[h].order
                          \/ /\ handler'[h].order \in Orders
                             /\ status[handler'[h].order] \notin Uncleared
<1>1. ASSUME NEW o \in Orders, Creates(o)
      PROVE  ClearedInv'
  <2>1. PICK subtotal \in Subtotals, asked \in PointRequests, withWallet \in BOOLEAN :
          \/ CreateForPayment(o, subtotal, asked, withWallet)
          \/ CreateConfirmed(o, subtotal, asked, withWallet)
          \/ CreateCutShort(o, subtotal, asked, withWallet)
    BY <1>1 DEF Creates
  <2>2. \A h \in Handlers : Requests(h)
    <3>1. handler' = handler \/ handler' = [h \in Handlers |-> Idle]
      BY <2>1 DEF CreateForPayment, CreateConfirmed, CreateCutShort
    <3> QED BY <3>1 DEF Idle
  <2>3. CASE CreateConfirmed(o, subtotal, asked, withWallet)
    <3>1. Clears(o, PointsUsed(asked)) /\ status' = [status EXCEPT ![o] = "Confirmed"]
      BY <2>3 DEF CreateConfirmed
    <3> QED BY <2>2, <3>1, ClearsClears, ClearedKept DEF TypeOK
  <2>4. CASE \/ CreateForPayment(o, subtotal, asked, withWallet)
             \/ CreateCutShort(o, subtotal, asked, withWallet)
    <3>1. \A p \in Orders : BooksKept(p)
      BY <2>4 DEF CreateForPayment, CreateCutShort
    <3>2. \A p \in Orders : status'[p] = status[p] \/ status'[p] \in Uncleared
      BY <2>4 DEF CreateForPayment, CreateCutShort, TypeOK, Uncleared
    <3> QED BY <2>2, <3>1, <3>2, ClearedKept
  <2> QED BY <2>1, <2>3, <2>4
<1>2. ASSUME NEW o \in Orders, NEW wallet, NEW card, NEW success \in BOOLEAN,
             Settles(o, wallet, card, success), \A h \in Handlers : Requests(h)
      PROVE  ClearedInv'
  <2>1. status' = [status EXCEPT ![o] = IF success THEN "Paid" ELSE "Failed"]
    BY <1>2 DEF Settles
  <2>2. CASE success
    <3>1. Clears(o, points[o])
      BY <1>2, <2>2 DEF Settles
    <3> QED BY <1>2, <2>1, <3>1, ClearsClears, ClearedKept DEF TypeOK
  <2>3. CASE ~success
    <3>1. \A p \in Orders : BooksKept(p)
      BY <1>2, <2>3 DEF Settles
    <3>2. \A p \in Orders : status'[p] = status[p] \/ status'[p] \in Uncleared
      BY <2>1, <2>3 DEF TypeOK, Uncleared
    <3> QED BY <1>2, <3>1, <3>2, ClearedKept
  <2> QED BY <2>2, <2>3
<1>3. ASSUME NEW h \in Handlers, NEW o \in Orders, Pays(h, o)
      PROVE  ClearedInv'
  <2>1. PICK method \in {"card", "wallet"} : PayAtOnce(h, o, method) \/ PayBegin(h, o, method)
    BY <1>3 DEF Pays
  <2>2. CASE PayAtOnce(h, o, method)
    BY <1>2, <2>2 DEF PayAtOnce
  <2>3. CASE PayBegin(h, o, method)
    <3>1. \A g \in Handlers : Requests(g)
      BY <2>3 DEF PayBegin, TypeOK
    <3>2. \A p \in Orders : BooksKept(p) /\ status'[p] = status[p]
      BY <2>3 DEF PayBegin
    <3> QED BY <3>1, <3>2, ClearedKept
  <2> QED BY <2>1, <2>2, <2>3
<1>4. ASSUME NEW h \in Handlers, NEW o \in Orders, Refunds(h, o)
      PROVE  ClearedInv'
  <2>1. PICK amount, key : RefundBegin(h, o, amount, key)
    BY <1>4 DEF Refunds
  <2>2. status[o] \notin Uncleared
    BY <2>1 DEF RefundBegin, Refundable, RefundableStatuses, Uncleared
  <2>3. \A g \in Handlers : Requests(g)
    BY <2>1, <2>2 DEF RefundBegin, TypeOK
  <2>4. \A p \in Orders : BooksKept(p) /\ status'[p] = status[p]
    BY <2>1 DEF RefundBegin
  <2> QED BY <2>3, <2>4, ClearedKept
<1>5. ASSUME NEW h \in Handlers, NEW full \in BOOLEAN, NEW n,
             handler[h].kind = "refund",
             RefundWrites(n, handler[h].order, handler[h].amount,
                          handler[h].key, handler[h].was, full),
             UNCHANGED clearVars,
             \A g \in Handlers : handler'[g] = handler[g] \/ handler'[g] = Idle
      PROVE  ClearedInv'
  <2>1. handler[h].order \in Orders
    BY <1>5, HandlerHolds DEF RefundRequestsInFlight
  <2>2. Cleared(handler[h].order)
    BY <1>5 DEF ClearedInv
  <2>3. \A p \in Orders : status'[p] # status[p] => p = handler[h].order
    BY <1>5, <2>1 DEF RefundWrites, TypeOK
  <2>4. \A p \in Orders : BooksKept(p)
    BY <1>5
  <2>5. \A p \in Orders : status'[p] = status[p] \/ Cleared(p)'
    BY <1>5, <2>2, <2>3 DEF Cleared
  <2>6. \A g \in Handlers : Requests(g)
    BY <1>5 DEF Idle
  <2> QED BY <2>4, <2>5, <2>6, ClearedKept
<1>6. ASSUME NEW h \in Handlers, NEW full \in BOOLEAN,
             RefundEnd(h, full) \/ \E n \in 1..3 : RefundCutShort(h, full, n)
      PROVE  ClearedInv'
  <2>1. PICK n : RefundWrites(n, handler[h].order, handler[h].amount,
                              handler[h].key, handler[h].was, full)
    BY <1>6 DEF RefundEnd, RefundCutShort
  <2>2. handler[h].kind = "refund" /\ UNCHANGED clearVars
    BY <1>6 DEF RefundEnd, RefundCutShort
  <2>3. \A g \in Handlers : handler'[g] = handler[g] \/ handler'[g] = Idle
    BY <1>6 DEF RefundEnd, RefundCutShort, Finish, TypeOK
  <2> QED BY <1>5, <2>1, <2>2, <2>3
<1>7. ASSUME NEW h \in Handlers, PayEnd(h)
      PROVE  ClearedInv'
  <2>1. handler[h].order \in Orders
    BY <1>7, HandlerHolds DEF PayEnd, PayRequests
  <2>2. \A g \in Handlers : Requests(g)
    BY <1>7 DEF PayEnd, Finish, Idle, TypeOK
  <2>3. Settles(handler[h].order, handler[h].wallet, handler[h].card,
                handler[h].answer = "Captured")
    BY <1>7 DEF PayEnd
  <2>4. (handler[h].answer = "Captured") \in BOOLEAN
    OBVIOUS
  <2> QED BY <1>2, <2>1, <2>2, <2>3, <2>4
<1>8. ASSUME NEW h \in Handlers,
             \/ \E answer \in {"Captured", "Failed"} : GatewayCapture(h, answer)
             \/ GatewayRefund(h)
             \/ GatewayDeclinesRefund(h)
      PROVE  ClearedInv'
  <2>1. \A p \in Orders : BooksKept(p) /\ status'[p] = status[p]
    BY <1>8 DEF GatewayCapture, GatewayRefund, GatewayDeclinesRefund
  <2>2. \A g \in Handlers : g # h => handler'[g] = handler[g]
    BY <1>8 DEF GatewayCapture, GatewayRefund, GatewayDeclinesRefund, Finish, TypeOK
  <2>3. Requests(h)
    <3>1. CASE \E answer \in {"Captured", "Failed"} : GatewayCapture(h, answer)
      <4>1. handler[h] \in PayRequests
        BY <3>1, HandlerHolds DEF GatewayCapture
      <4> QED BY <3>1, <4>1 DEF GatewayCapture, PayRequests, TypeOK
    <3>2. CASE GatewayRefund(h)
      <4>1. handler[h] \in RefundRequestsInFlight
        BY <3>2, HandlerHolds DEF GatewayRefund
      <4> QED BY <3>2, <4>1 DEF GatewayRefund, RefundRequestsInFlight, TypeOK
    <3>3. CASE GatewayDeclinesRefund(h)
      BY <3>3 DEF GatewayDeclinesRefund, Finish, Idle, TypeOK
    <3> QED BY <1>8, <3>1, <3>2, <3>3
  <2>4. \A g \in Handlers : Requests(g)
    BY <2>2, <2>3
  <2> QED BY <2>1, <2>4, ClearedKept
<1>9. ASSUME NEW o \in Orders, Moves(o)
      PROVE  ClearedInv'
  <2>1. PICK to \in Statuses, role \in Roles, earning \in BOOLEAN :
          Transition(o, to, role, earning)
    BY <1>9 DEF Moves
  <2>2. role \in {"Operator", "SiteManager", "Runner", "AlnadlFinance"}
    BY RolesAssumption DEF StaffRoles
  <2>3. role \in RolesOf(status[o])
    BY <2>1, <2>2 DEF Transition, MayMove
  <2>4. status[o] \notin Uncleared
    BY <2>2, <2>3 DEF RolesOf, Uncleared
  <2>5. Cleared(o)
    BY <2>4 DEF ClearedInv
  <2>6. \A p \in Orders : BooksKept(p)
    BY <2>1 DEF Transition
  <2>7. \A p \in Orders : status'[p] # status[p] => p = o
    BY <2>1 DEF Transition, TypeOK
  <2>8. \A p \in Orders : status'[p] = status[p] \/ Cleared(p)'
    BY <2>5, <2>6, <2>7 DEF Cleared
  <2>9. \A g \in Handlers : Requests(g)
    BY <2>1 DEF Transition
  <2> QED BY <2>6, <2>8, <2>9, ClearedKept
<1>10. ASSUME (\E p \in Policies : SetPolicy(p)) \/ Crash \/ UNCHANGED vars
       PROVE  ClearedInv'
  <2>1. \A p \in Orders : BooksKept(p) /\ status'[p] = status[p]
    BY <1>10 DEF SetPolicy, Crash
  <2>2. \A g \in Handlers : Requests(g)
    BY <1>10 DEF SetPolicy, Crash, Idle
  <2> QED BY <2>1, <2>2, ClearedKept
<1> QED
  BY <1>1, <1>3, <1>4, <1>6, <1>7, <1>8, <1>9, <1>10 DEF Next, Proceeds

\* With no SuperAdmin session, no order is past its payment unless its sale is
\* in the ledger exactly once and its confirmation in the outbox, however
\* requests interleave and wherever the process dies.
THEOREM KitchenAfterClearance ==
  ASSUME "SuperAdmin" \notin Roles
  PROVE  Spec => []KitchenOnlyAfterClearance
<1>1. Init => ClearedInv
  BY DEF Init, ClearedInv, Uncleared, Idle
<1>2. ClearedInv => KitchenOnlyAfterClearance
  BY DEF ClearedInv, Cleared, KitchenOnlyAfterClearance
<1>3. TypeOK /\ ClearedInv /\ [Next]_vars => ClearedInv'
  BY ClearedStep
<1> QED BY <1>1, <1>2, <1>3, TypeCorrect, PTL DEF Spec
-----------------------------------------------------------------------------
(* The books and the gateway. Between the gateway's answer and the end of   *)
(* its request, money has moved that the tables do not show yet, for any    *)
(* number of requests at once. Instead of adding them up, the invariant     *)
(* lays them side by side: the amounts of the answered requests fit, as     *)
(* stretches that do not overlap, between what the tables show and what     *)
(* the gateway moved.                                                       *)

\* Stretches of the sizes of S fit without overlap between lo and hi.
Fits(S, size, lo, hi) ==
  /\ lo <= hi
  /\ \E at \in [S -> Int] :
       /\ \A h \in S : lo <= at[h] /\ at[h] + size[h] <= hi
       /\ \A g, h \in S :
            g # h => at[g] + size[g] <= at[h] \/ at[h] + size[h] <= at[g]

\* Fewer stretches fit where more did.
LEMMA FitsFewer ==
  ASSUME NEW S, NEW T \in SUBSET S, NEW size \in [S -> Nat],
         NEW new \in [T -> Nat], \A h \in T : new[h] = size[h],
         NEW lo \in Int, NEW hi \in Int, Fits(S, size, lo, hi)
  PROVE  Fits(T, new, lo, hi)
<1>1. PICK at \in [S -> Int] :
        /\ \A h \in S : lo <= at[h] /\ at[h] + size[h] <= hi
        /\ \A g, h \in S :
             g # h => at[g] + size[g] <= at[h] \/ at[h] + size[h] <= at[g]
  BY DEF Fits
<1> DEFINE place == [h \in T |-> at[h]]
<1>2. place \in [T -> Int] /\ \A h \in T : place[h] = at[h]
  OBVIOUS
<1> HIDE DEF place
<1>3. \A h \in T : lo <= place[h] /\ place[h] + new[h] <= hi
  BY <1>1, <1>2
<1>4. \A g, h \in T :
        g # h => place[g] + new[g] <= place[h] \/ place[h] + new[h] <= place[g]
  BY <1>1, <1>2
<1>5. lo <= hi
  BY DEF Fits
<1> QED BY <1>2, <1>3, <1>4, <1>5 DEF Fits

\* One more fits once the room has grown by its size: it goes to the end.
LEMMA FitsOneMore ==
  ASSUME NEW S, NEW h, h \notin S, NEW size \in [S -> Nat],
         NEW new \in [S \cup {h} -> Nat], \A g \in S : new[g] = size[g],
         NEW lo \in Int, NEW hi \in Int, Fits(S, size, lo, hi)
  PROVE  Fits(S \cup {h}, new, lo, hi + new[h])
<1>1. PICK at \in [S -> Int] :
        /\ \A g \in S : lo <= at[g] /\ at[g] + size[g] <= hi
        /\ \A f, g \in S :
             f # g => at[f] + size[f] <= at[g] \/ at[g] + size[g] <= at[f]
  BY DEF Fits
<1> DEFINE T == S \cup {h}
           place == [g \in T |-> IF g = h THEN hi ELSE at[g]]
<1>2. place \in [T -> Int] /\ place[h] = hi /\ \A g \in S : place[g] = at[g]
  OBVIOUS
<1> HIDE DEF place
<1>3. lo <= hi /\ new[h] \in Nat
  BY DEF Fits
<1>4. \A g \in T : lo <= place[g] /\ place[g] + new[g] <= hi + new[h]
  BY <1>1, <1>2, <1>3
<1>5. \A f, g \in T :
        f # g => place[f] + new[f] <= place[g] \/ place[g] + new[g] <= place[f]
  BY <1>1, <1>2, <1>3
<1>6. lo <= hi + new[h]
  BY <1>3
<1> QED BY <1>2, <1>4, <1>5, <1>6 DEF Fits

\* One is taken out at the low end: those below it move up by its size.
LEMMA FitsOneLess ==
  ASSUME NEW S, NEW h \in S, NEW T \in SUBSET (S \ {h}),
         NEW size \in [S -> Nat], NEW new \in [T -> Nat],
         \A g \in T : new[g] = size[g],
         NEW lo \in Int, NEW hi \in Int, Fits(S, size, lo, hi)
  PROVE  Fits(T, new, lo + size[h], hi)
<1>1. PICK at \in [S -> Int] :
        /\ \A g \in S : lo <= at[g] /\ at[g] + size[g] <= hi
        /\ \A f, g \in S :
             f # g => at[f] + size[f] <= at[g] \/ at[g] + size[g] <= at[f]
  BY DEF Fits
<1> DEFINE Below(g) == at[g] + size[g] <= at[h]
           place == [g \in T |-> IF Below(g) THEN at[g] + size[h] ELSE at[g]]
<1>2. place \in [T -> Int]
  OBVIOUS
<1>3. \A g \in T : place[g] = IF Below(g) THEN at[g] + size[h] ELSE at[g]
  OBVIOUS
<1> HIDE DEF place
<1>4. \A g \in T : ~Below(g) => at[h] + size[h] <= at[g]
  BY <1>1
<1>5. ASSUME NEW g \in T
      PROVE  lo + size[h] <= place[g] /\ place[g] + new[g] <= hi
  <2>1. CASE Below(g)
    BY <1>1, <1>3, <2>1
  <2>2. CASE ~Below(g)
    BY <1>1, <1>3, <1>4, <2>2
  <2> QED BY <2>1, <2>2
<1>6. ASSUME NEW f \in T, NEW g \in T, f # g
      PROVE  place[f] + new[f] <= place[g] \/ place[g] + new[g] <= place[f]
  <2>1. /\ at[f] \in Int /\ at[g] \in Int /\ at[h] \in Int
        /\ size[f] \in Nat /\ size[g] \in Nat /\ size[h] \in Nat
        /\ new[f] = size[f] /\ new[g] = size[g]
    OBVIOUS
  <2>2. at[f] + size[f] <= at[g] \/ at[g] + size[g] <= at[f]
    BY <1>1, <1>6
  <2>3. CASE Below(f) /\ Below(g)
    BY <1>3, <2>1, <2>2, <2>3
  <2>4. CASE ~Below(f) /\ ~Below(g)
    BY <1>3, <2>1, <2>2, <2>4
  <2>5. CASE Below(f) /\ ~Below(g)
    BY <1>3, <1>4, <2>1, <2>5
  <2>6. CASE ~Below(f) /\ Below(g)
    BY <1>3, <1>4, <2>1, <2>6
  <2> QED BY <2>3, <2>4, <2>5, <2>6
<1>7. lo + size[h] <= hi
  BY <1>1
<1> QED BY <1>2, <1>5, <1>6, <1>7 DEF Fits

\* A request whose card the gateway has charged, and one whose refund it paid.
Took(r, o) == r.kind = "pay" /\ r.order = o /\ r.answer = "Captured"
Gave(r, o) == r.kind = "refund" /\ r.order = o /\ r.answer = "Refunded"

Takers(o) == {h \in Handlers : Took(handler[h], o)}
Givers(o) == {h \in Handlers : Gave(handler[h], o)}

ByCard(o) == captured[o] - byWallet[o]

\* Why BooksAreBacked is kept: what the answered requests carry fits between
\* the books and the gateway's.
ChargesBacked ==
  \A o \in Orders :
    Fits(Takers(o), [h \in Takers(o) |-> handler[h].card], ByCard(o), charged[o])

ReturnsBacked ==
  \A o \in Orders :
    Fits(Givers(o), [h \in Givers(o) |-> handler[h].amount], refunded[o], returned[o])

\* The amounts of these requests are natural numbers.
LEMMA CarriedNat ==
  ASSUME TypeOK, NEW o \in Orders
  PROVE  /\ [h \in Takers(o) |-> handler[h].card] \in [Takers(o) -> Nat]
         /\ [h \in Givers(o) |-> handler[h].amount] \in [Givers(o) -> Nat]
         /\ ByCard(o) \in Int /\ charged[o] \in Int
         /\ refunded[o] \in Int /\ returned[o] \in Int
<1>1. \A h \in Takers(o) : handler[h].card \in Nat
  BY HandlerHolds DEF Takers, Took, PayRequests
<1>2. \A h \in Givers(o) : handler[h].amount \in Nat
  BY HandlerHolds DEF Givers, Gave, RefundRequestsInFlight
<1>3. ByCard(o) \in Int /\ charged[o] \in Int
      /\ refunded[o] \in Int /\ returned[o] \in Int
  BY DEF TypeOK, ByCard
<1> QED BY <1>1, <1>2, <1>3

\* A step that moves no card's money keeps the charges backed, whichever
\* requests it ends.
LEMMA ChargesKept ==
  ASSUME TypeOK, TypeOK', NEW o \in Orders,
         Fits(Takers(o), [h \in Takers(o) |-> handler[h].card], ByCard(o), charged[o]),
         ByCard(o)' = ByCard(o), charged'[o] = charged[o],
         \A h \in Handlers : handler'[h] = handler[h] \/ ~Took(handler'[h], o)
  PROVE  Fits(Takers(o)', [h \in Takers(o)' |-> handler'[h].card],
              ByCard(o)', charged'[o])
<1> DEFINE S == Takers(o)
           T == Takers(o)'
           size == [h \in S |-> handler[h].card]
           new == [h \in T |-> handler'[h].card]
<1>1. T \in SUBSET S /\ \A h \in T : new[h] = size[h]
  BY DEF Takers
<1>2. size \in [S -> Nat] /\ new \in [T -> Nat]
  <2>1. new \in [T -> Nat]
    <3>1. \A h \in T : handler'[h].card = size[h] /\ size[h] \in Nat
      BY <1>1, CarriedNat
    <3> QED BY <3>1
  <2> QED BY <2>1, CarriedNat
<1>3. ByCard(o) \in Int /\ charged[o] \in Int
  BY CarriedNat
<1> HIDE DEF S, T, size, new
<1>4. Fits(S, size, ByCard(o), charged[o])
  BY DEF S, size
<1>5. Fits(T, new, ByCard(o), charged[o])
  BY <1>1, <1>2, <1>3, <1>4, FitsFewer
<1> QED BY <1>5 DEF T, new

\* So does one that refunds nothing, for the returns.
LEMMA ReturnsKept ==
  ASSUME TypeOK, NEW o \in Orders,
         Fits(Givers(o), [h \in Givers(o) |-> handler[h].amount],
              refunded[o], returned[o]),
         refunded'[o] = refunded[o], returned'[o] = returned[o],
         \A h \in Handlers : handler'[h] = handler[h] \/ ~Gave(handler'[h], o)
  PROVE  Fits(Givers(o)', [h \in Givers(o)' |-> handler'[h].amount],
              refunded'[o], returned'[o])
<1> DEFINE S == Givers(o)
           T == Givers(o)'
           size == [h \in S |-> handler[h].amount]
           new == [h \in T |-> handler'[h].amount]
<1>1. T \in SUBSET S /\ \A h \in T : new[h] = size[h]
  BY DEF Givers
<1>2. size \in [S -> Nat] /\ new \in [T -> Nat]
  <2>1. new \in [T -> Nat]
    <3>1. \A h \in T : handler'[h].amount = size[h] /\ size[h] \in Nat
      BY <1>1, CarriedNat
    <3> QED BY <3>1
  <2> QED BY <2>1, CarriedNat
<1>3. refunded[o] \in Int /\ returned[o] \in Int
  BY CarriedNat
<1> HIDE DEF S, T, size, new
<1>4. Fits(S, size, refunded[o], returned[o])
  BY DEF S, size
<1>5. Fits(T, new, refunded[o], returned[o])
  BY <1>1, <1>2, <1>3, <1>4, FitsFewer
<1> QED BY <1>5 DEF T, new

\* The gateway's capture puts one more stretch at the end.
LEMMA ChargesGrow ==
  ASSUME TypeOK, ChargesBacked, NEW h \in Handlers, GatewayCapture(h, "Captured")
  PROVE  ChargesBacked'
<1> DEFINE p == handler[h].order
<1>1. handler[h] \in PayRequests /\ p \in Orders /\ handler[h].card \in Nat
      /\ handler[h].kind = "pay"
  BY HandlerHolds DEF GatewayCapture, PayRequests
<1>2. handler' = [handler EXCEPT ![h].answer = "Captured"]
      /\ charged' = [charged EXCEPT ![p] = @ + handler[h].card]
      /\ UNCHANGED <<captured, byWallet>> /\ handler[h].answer = "awaited"
  BY DEF GatewayCapture, paidVars
<1>3. /\ \A g \in Handlers : g # h => handler'[g] = handler[g]
      /\ handler'[h].kind = "pay" /\ handler'[h].order = p
      /\ handler'[h].answer = "Captured" /\ handler'[h].card = handler[h].card
  BY <1>1, <1>2 DEF TypeOK, PayRequests
<1> SUFFICES ASSUME NEW o \in Orders
             PROVE  Fits(Takers(o)', [g \in Takers(o)' |-> handler'[g].card],
                         ByCard(o)', charged'[o])
  BY DEF ChargesBacked
<1> DEFINE S == Takers(o)
           size == [g \in S |-> handler[g].card]
<1>4. ByCard(o)' = ByCard(o)
  BY <1>2 DEF ByCard
<1>5. h \notin S
  BY <1>2 DEF Takers, Took
<1>6. size \in [S -> Nat] /\ ByCard(o) \in Int /\ charged[o] \in Int
      /\ Fits(S, size, ByCard(o), charged[o])
  BY CarriedNat DEF ChargesBacked
<1>7. CASE o = p
  <2>1. Takers(o)' = S \cup {h}
    BY <1>3, <1>7 DEF Takers, Took
  <2> DEFINE new == [g \in S \cup {h} |-> handler'[g].card]
  <2>2. \A g \in S : handler'[g].card = handler[g].card /\ handler[g].card \in Nat
    BY <1>3, <1>5, HandlerHolds DEF Takers, Took, PayRequests
  <2>3. new \in [S \cup {h} -> Nat] /\ \A g \in S : new[g] = size[g]
    BY <1>1, <1>3, <2>2
  <2>4. new[h] = handler[h].card /\ charged'[o] = charged[o] + handler[h].card
    BY <1>2, <1>3, <1>7 DEF TypeOK
  <2>5. Takers(o)' = S \cup {h} /\ new = [g \in Takers(o)' |-> handler'[g].card]
    BY <2>1
  <2> HIDE DEF S, size, new
  <2>6. Fits(S \cup {h}, new, ByCard(o), charged[o] + new[h])
    BY <1>5, <1>6, <2>3, FitsOneMore
  <2> QED BY <1>4, <2>4, <2>5, <2>6
<1>8. CASE o # p
  <2>1. Takers(o)' = S
    BY <1>3, <1>5, <1>8 DEF Takers, Took
  <2>2. \A g \in S : handler'[g].card = handler[g].card
    BY <1>3, <1>5 DEF Takers
  <2>3. [g \in Takers(o)' |-> handler'[g].card] = size
    BY <2>1, <2>2
  <2>4. charged'[o] = charged[o]
    BY <1>2, <1>8 DEF TypeOK
  <2> HIDE DEF S, size
  <2> QED BY <1>4, <1>6, <2>1, <2>3, <2>4
<1> QED BY <1>7, <1>8

\* The end of a charged payment takes its stretch out at the low end.
LEMMA ChargesSettle ==
  ASSUME TypeOK, TypeOK', ChargesBacked, NEW h \in Handlers, PayEnd(h)
  PROVE  ChargesBacked'
<1> DEFINE p == handler[h].order
           success == handler[h].answer = "Captured"
<1>1. handler[h] \in PayRequests /\ p \in Orders /\ handler[h].card \in Nat
      /\ handler[h].wallet \in Nat /\ handler[h].kind = "pay"
  BY HandlerHolds DEF PayEnd, PayRequests
<1>2. handler' = [handler EXCEPT ![h] = Idle] /\ UNCHANGED charged
  BY DEF PayEnd, Finish, outside
<1>3. /\ \A g \in Handlers : g # h => handler'[g] = handler[g]
      /\ handler'[h].kind = "idle"
  BY <1>2 DEF TypeOK, Idle
<1>4. IF success
        THEN /\ captured' = [captured EXCEPT ![p] = @ + handler[h].wallet + handler[h].card]
             /\ byWallet' = [byWallet EXCEPT ![p] = @ + handler[h].wallet]
        ELSE UNCHANGED <<captured, byWallet>>
  BY DEF PayEnd, Settles, RecordsPayment
<1> SUFFICES ASSUME NEW o \in Orders
             PROVE  Fits(Takers(o)', [g \in Takers(o)' |-> handler'[g].card],
                         ByCard(o)', charged'[o])
  BY DEF ChargesBacked
<1>5. \A g \in Handlers : handler'[g] = handler[g] \/ ~Took(handler'[g], o)
  BY <1>3 DEF Took
<1>6. Fits(Takers(o), [g \in Takers(o) |-> handler[g].card], ByCard(o), charged[o])
  BY DEF ChargesBacked
<1>7. CASE ~(success /\ o = p)
  <2>1. ByCard(o)' = ByCard(o) /\ charged'[o] = charged[o]
    BY <1>2, <1>4, <1>7 DEF ByCard, TypeOK
  <2> QED BY <1>5, <1>6, <2>1, ChargesKept
<1>8. CASE success /\ o = p
  <2> DEFINE S == Takers(o)
             T == Takers(o)'
             size == [g \in S |-> handler[g].card]
             new == [g \in T |-> handler'[g].card]
  <2>1. h \in S /\ size[h] = handler[h].card
    BY <1>1, <1>8 DEF Takers, Took
  <2>2. T \in SUBSET (S \ {h}) /\ \A g \in T : handler'[g].card = handler[g].card
    BY <1>3 DEF Takers, Took
  <2>3. size \in [S -> Nat] /\ ByCard(o) \in Int /\ charged[o] \in Int
    BY CarriedNat
  <2>4. new \in [T -> Nat] /\ \A g \in T : new[g] = size[g]
    <3>1. \A g \in T : handler'[g].card = size[g] /\ size[g] \in Nat
      BY <2>2, <2>3
    <3> QED BY <3>1
  <2>5. ByCard(o)' = ByCard(o) + handler[h].card
    <3>1. captured'[o] = captured[o] + handler[h].wallet + handler[h].card
          /\ byWallet'[o] = byWallet[o] + handler[h].wallet
          /\ captured[o] \in Nat /\ byWallet[o] \in Nat
      BY <1>4, <1>8 DEF TypeOK
    <3> QED BY <1>1, <3>1 DEF ByCard
  <2>6. charged'[o] = charged[o]
    BY <1>2
  <2>7. Fits(S, size, ByCard(o), charged[o])
    BY <1>6
  <2> HIDE DEF S, T, size, new
  <2>8. Fits(T, new, ByCard(o) + size[h], charged[o])
    BY <2>1, <2>2, <2>3, <2>4, <2>7, FitsOneLess
  <2> QED BY <2>1, <2>5, <2>6, <2>8 DEF T, new
<1> QED BY <1>7, <1>8

\* The gateway's return puts one more stretch at the end.
LEMMA ReturnsGrow ==
  ASSUME TypeOK, ReturnsBacked, NEW h \in Handlers, GatewayRefund(h)
  PROVE  ReturnsBacked'
<1> DEFINE p == handler[h].order
<1>1. handler[h] \in RefundRequestsInFlight /\ p \in Orders
      /\ handler[h].amount \in Nat /\ handler[h].kind = "refund"
  BY HandlerHolds DEF GatewayRefund, RefundRequestsInFlight
<1>2. handler' = [handler EXCEPT ![h].answer = "Refunded"]
      /\ returned' = [returned EXCEPT ![p] = @ + handler[h].amount]
      /\ UNCHANGED refunded /\ handler[h].answer = "awaited"
  BY DEF GatewayRefund, refundVars
<1>3. /\ \A g \in Handlers : g # h => handler'[g] = handler[g]
      /\ handler'[h].kind = "refund" /\ handler'[h].order = p
      /\ handler'[h].answer = "Refunded" /\ handler'[h].amount = handler[h].amount
  BY <1>1, <1>2 DEF TypeOK, RefundRequestsInFlight
<1> SUFFICES ASSUME NEW o \in Orders
             PROVE  Fits(Givers(o)', [g \in Givers(o)' |-> handler'[g].amount],
                         refunded'[o], returned'[o])
  BY DEF ReturnsBacked
<1> DEFINE S == Givers(o)
           size == [g \in S |-> handler[g].amount]
<1>4. refunded'[o] = refunded[o]
  BY <1>2
<1>5. h \notin S
  BY <1>2 DEF Givers, Gave
<1>6. size \in [S -> Nat] /\ refunded[o] \in Int /\ returned[o] \in Int
      /\ Fits(S, size, refunded[o], returned[o])
  BY CarriedNat DEF ReturnsBacked
<1>7. CASE o = p
  <2>1. Givers(o)' = S \cup {h}
    BY <1>3, <1>7 DEF Givers, Gave
  <2> DEFINE new == [g \in S \cup {h} |-> handler'[g].amount]
  <2>2. \A g \in S : handler'[g].amount = handler[g].amount
                     /\ handler[g].amount \in Nat
    BY <1>3, <1>5, HandlerHolds DEF Givers, Gave, RefundRequestsInFlight
  <2>3. new \in [S \cup {h} -> Nat] /\ \A g \in S : new[g] = size[g]
    BY <1>1, <1>3, <2>2
  <2>4. new[h] = handler[h].amount
        /\ returned'[o] = returned[o] + handler[h].amount
    BY <1>2, <1>3, <1>7 DEF TypeOK
  <2>5. new = [g \in Givers(o)' |-> handler'[g].amount]
    BY <2>1
  <2> HIDE DEF S, size, new
  <2>6. Fits(S \cup {h}, new, refunded[o], returned[o] + new[h])
    BY <1>5, <1>6, <2>3, FitsOneMore
  <2> QED BY <1>4, <2>1, <2>4, <2>5, <2>6
<1>8. CASE o # p
  <2>1. Givers(o)' = S
    BY <1>3, <1>5, <1>8 DEF Givers, Gave
  <2>2. \A g \in S : handler'[g].amount = handler[g].amount
    BY <1>3, <1>5 DEF Givers
  <2>3. [g \in Givers(o)' |-> handler'[g].amount] = size
    BY <2>1, <2>2
  <2>4. returned'[o] = returned[o]
    BY <1>2, <1>8 DEF TypeOK
  <2> HIDE DEF S, size
  <2> QED BY <1>4, <1>6, <2>1, <2>3, <2>4
<1> QED BY <1>7, <1>8

\* The refunds row takes its stretch out at the low end, whichever other
\* requests are lost with the process.
LEMMA ReturnsRecorded ==
  ASSUME TypeOK, ReturnsBacked, NEW h \in Handlers, Gave(handler[h], handler[h].order),
         RecordsRefund(handler[h].order, handler[h].amount, handler[h].key),
         UNCHANGED returned, handler'[h] = Idle,
         \A g \in Handlers : handler'[g] = handler[g] \/ handler'[g] = Idle
  PROVE  ReturnsBacked'
<1> DEFINE p == handler[h].order
<1>1. p \in Orders /\ handler[h].amount \in Nat
  BY HandlerHolds DEF Gave, RefundRequestsInFlight
<1>2. refunded' = [refunded EXCEPT ![p] = @ + handler[h].amount]
  BY DEF RecordsRefund
<1> SUFFICES ASSUME NEW o \in Orders
             PROVE  Fits(Givers(o)', [g \in Givers(o)' |-> handler'[g].amount],
                         refunded'[o], returned'[o])
  BY DEF ReturnsBacked
<1>3. \A g \in Handlers : handler'[g] = handler[g] \/ ~Gave(handler'[g], o)
  BY DEF Gave, Idle
<1>4. Fits(Givers(o), [g \in Givers(o) |-> handler[g].amount],
           refunded[o], returned[o])
  BY DEF ReturnsBacked
<1>5. CASE o # p
  <2>1. refunded'[o] = refunded[o] /\ returned'[o] = returned[o]
    BY <1>2, <1>5 DEF TypeOK
  <2> QED BY <1>3, <1>4, <2>1, ReturnsKept
<1>6. CASE o = p
  <2> DEFINE S == Givers(o)
             T == Givers(o)'
             size == [g \in S |-> handler[g].amount]
             new == [g \in T |-> handler'[g].amount]
  <2>1. h \in S /\ size[h] = handler[h].amount
    BY <1>6 DEF Givers
  <2>2. T \in SUBSET (S \ {h}) /\ \A g \in T : handler'[g].amount = handler[g].amount
    BY <1>3 DEF Givers, Gave, Idle
  <2>3. size \in [S -> Nat] /\ refunded[o] \in Int /\ returned[o] \in Int
    BY CarriedNat
  <2>4. new \in [T -> Nat] /\ \A g \in T : new[g] = size[g]
    <3>1. \A g \in T : handler'[g].amount = size[g] /\ size[g] \in Nat
      BY <2>2, <2>3
    <3> QED BY <3>1
  <2>5. refunded'[o] = refunded[o] + handler[h].amount /\ returned'[o] = returned[o]
    BY <1>2, <1>6 DEF TypeOK
  <2> HIDE DEF S, T, size, new
  <2>6. Fits(S, size, refunded[o], returned[o])
    BY <1>4 DEF S, size
  <2>7. Fits(T, new, refunded[o] + size[h], returned[o])
    BY <2>1, <2>2, <2>3, <2>4, <2>6, FitsOneLess
  <2> QED BY <2>1, <2>5, <2>7 DEF T, new
<1> QED BY <1>5, <1>6

\* Every step keeps both, whatever crashes.
LEMMA BackedStep ==
  TypeOK /\ TypeOK' /\ ChargesBacked /\ ReturnsBacked /\ [Next]_vars
    => ChargesBacked' /\ ReturnsBacked'
<1> SUFFICES ASSUME TypeOK, TypeOK', ChargesBacked, ReturnsBacked, [Next]_vars
             PROVE  ChargesBacked' /\ ReturnsBacked'
  OBVIOUS
<1> USE DEF vars, orderVars, statusVars, paidVars, clearVars, refundVars, outside
<1> DEFINE SameCard(o) == ByCard(o)' = ByCard(o) /\ charged'[o] = charged[o]
           SameBack(o) == refunded'[o] = refunded[o] /\ returned'[o] = returned[o]
           NoTaker(h)  == \A o \in Orders : handler'[h] = handler[h] \/ ~Took(handler'[h], o)
           NoGiver(h)  == \A o \in Orders : handler'[h] = handler[h] \/ ~Gave(handler'[h], o)
<1>1. ASSUME \A o \in Orders : SameCard(o), \A h \in Handlers : NoTaker(h)
      PROVE  ChargesBacked'
  BY <1>1, ChargesKept DEF ChargesBacked
<1>2. ASSUME \A o \in Orders : SameBack(o), \A h \in Handlers : NoGiver(h)
      PROVE  ReturnsBacked'
  BY <1>2, ReturnsKept DEF ReturnsBacked
<1>3. ASSUME UNCHANGED <<captured, byWallet, refunded, charged, returned>>
      PROVE  \A o \in Orders : SameCard(o) /\ SameBack(o)
  BY <1>3 DEF ByCard
<1>4. ASSUME NEW o \in Orders, Creates(o)
      PROVE  ChargesBacked' /\ ReturnsBacked'
  <2>1. UNCHANGED <<captured, byWallet, refunded, charged, returned>>
        /\ handler' \in {handler, [h \in Handlers |-> Idle]}
    BY <1>4 DEF Creates, CreateForPayment, CreateConfirmed, CreateCutShort
  <2>2. \A h \in Handlers : NoTaker(h) /\ NoGiver(h)
    BY <2>1 DEF Took, Gave, Idle
  <2> QED BY <1>1, <1>2, <1>3, <2>1, <2>2
<1>5. ASSUME NEW h \in Handlers, NEW o \in Orders, Pays(h, o)
      PROVE  ChargesBacked' /\ ReturnsBacked'
  <2>1. PICK method \in {"card", "wallet"} : PayAtOnce(h, o, method) \/ PayBegin(h, o, method)
    BY <1>5 DEF Pays
  <2>2. CASE PayAtOnce(h, o, method)
    <3>1. UNCHANGED <<refunded, charged, returned, handler>>
      BY <2>2 DEF PayAtOnce
    <3>2. WalletShare(o, method) \in Nat
      BY SharesBounds
    <3>3. /\ captured' = [captured EXCEPT ![o] = @ + WalletShare(o, method) + 0]
          /\ byWallet' = [byWallet EXCEPT ![o] = @ + WalletShare(o, method)]
      BY <2>2 DEF PayAtOnce, Settles, RecordsPayment
    <3>4. \A p \in Orders : ByCard(p)' = ByCard(p)
      BY <3>2, <3>3 DEF TypeOK, ByCard
    <3> QED BY <1>1, <1>2, <3>1, <3>4
  <2>3. CASE PayBegin(h, o, method)
    <3>1. UNCHANGED <<captured, byWallet, refunded, charged, returned>>
      BY <2>3 DEF PayBegin
    <3>2. \A g \in Handlers : handler'[g] = handler[g]
            \/ (handler'[g].kind = "pay" /\ handler'[g].answer = "awaited")
      BY <2>3 DEF PayBegin, TypeOK
    <3>3. \A g \in Handlers : NoTaker(g) /\ NoGiver(g)
      BY <3>2 DEF Took, Gave
    <3> QED BY <1>1, <1>2, <1>3, <3>1, <3>3
  <2> QED BY <2>1, <2>2, <2>3
<1>6. ASSUME NEW h \in Handlers, NEW o \in Orders, Refunds(h, o)
      PROVE  ChargesBacked' /\ ReturnsBacked'
  <2>1. PICK amount, key : RefundBegin(h, o, amount, key)
    BY <1>6 DEF Refunds
  <2>2. UNCHANGED <<captured, byWallet, refunded, charged, returned>>
    BY <2>1 DEF RefundBegin
  <2>3. \A g \in Handlers : handler'[g] = handler[g]
          \/ (handler'[g].kind = "refund" /\ handler'[g].answer = "awaited")
    BY <2>1 DEF RefundBegin, TypeOK
  <2>4. \A g \in Handlers : NoTaker(g) /\ NoGiver(g)
    BY <2>3 DEF Took, Gave
  <2> QED BY <1>1, <1>2, <1>3, <2>2, <2>4
<1>7. ASSUME NEW h \in Handlers, NEW answer \in {"Captured", "Failed"},
             GatewayCapture(h, answer)
      PROVE  ChargesBacked' /\ ReturnsBacked'
  <2>1. handler[h] \in PayRequests
    BY <1>7, HandlerHolds DEF GatewayCapture
  <2>2. \A g \in Handlers : handler'[g] = handler[g]
          \/ (handler'[g].kind = "pay" /\ handler'[g].answer = answer)
    BY <1>7, <2>1 DEF GatewayCapture, TypeOK, PayRequests
  <2>3. UNCHANGED <<captured, byWallet, refunded, returned>>
    BY <1>7 DEF GatewayCapture
  <2>4. ReturnsBacked'
    BY <1>2, <2>2, <2>3 DEF Gave
  <2>5. ChargesBacked'
    <3>1. CASE answer = "Captured"
      BY <1>7, <3>1, ChargesGrow
    <3>2. CASE answer = "Failed"
      BY <1>1, <1>3, <1>7, <2>2, <2>3, <3>2 DEF GatewayCapture, Took
    <3> QED BY <3>1, <3>2
  <2> QED BY <2>4, <2>5
<1>8. ASSUME NEW h \in Handlers, PayEnd(h)
      PROVE  ChargesBacked' /\ ReturnsBacked'
  <2>1. ChargesBacked'
    BY <1>8, ChargesSettle
  <2>2. UNCHANGED <<refunded, returned>>
        /\ \A g \in Handlers : handler'[g] = handler[g] \/ handler'[g] = Idle
    BY <1>8 DEF PayEnd, Finish, TypeOK
  <2>3. ReturnsBacked'
    BY <1>2, <2>2 DEF Gave, Idle
  <2> QED BY <2>1, <2>3
<1>9. ASSUME NEW h \in Handlers, GatewayRefund(h)
      PROVE  ChargesBacked' /\ ReturnsBacked'
  <2>1. ReturnsBacked'
    BY <1>9, ReturnsGrow
  <2>2. handler[h] \in RefundRequestsInFlight
    BY <1>9, HandlerHolds DEF GatewayRefund
  <2>3. UNCHANGED <<captured, byWallet, charged>>
        /\ \A g \in Handlers : handler'[g] = handler[g] \/ handler'[g].kind = "refund"
    BY <1>9, <2>2 DEF GatewayRefund, TypeOK, RefundRequestsInFlight
  <2>4. ChargesBacked'
    BY <1>1, <2>3 DEF Took, ByCard
  <2> QED BY <2>1, <2>4
<1>10. ASSUME NEW h \in Handlers, NEW full \in BOOLEAN,
              RefundEnd(h, full) \/ \E n \in 1..3 : RefundCutShort(h, full, n)
       PROVE  ChargesBacked' /\ ReturnsBacked'
  <2>1. /\ handler[h].kind = "refund" /\ handler[h].answer = "Refunded"
        /\ RecordsRefund(handler[h].order, handler[h].amount, handler[h].key)
        /\ UNCHANGED <<captured, byWallet, charged, returned>>
    BY <1>10 DEF RefundEnd, RefundCutShort, RefundWrites
  <2>2. /\ handler'[h] = Idle
        /\ \A g \in Handlers : handler'[g] = handler[g] \/ handler'[g] = Idle
    BY <1>10 DEF RefundEnd, RefundCutShort, Finish, TypeOK
  <2>3. ReturnsBacked'
    BY <2>1, <2>2, ReturnsRecorded DEF Gave
  <2>4. ChargesBacked'
    BY <1>1, <2>1, <2>2 DEF Took, Idle, ByCard
  <2> QED BY <2>3, <2>4
<1>11. ASSUME \/ \E h \in Handlers : GatewayDeclinesRefund(h)
              \/ \E o \in Orders : Moves(o)
              \/ \E p \in Policies : SetPolicy(p)
              \/ Crash
              \/ UNCHANGED vars
       PROVE  ChargesBacked' /\ ReturnsBacked'
  <2>1. UNCHANGED <<captured, byWallet, refunded, charged, returned>>
    BY <1>11 DEF GatewayDeclinesRefund, Moves, Transition, SetPolicy, Crash
  <2>2. \A g \in Handlers : handler'[g] = handler[g] \/ handler'[g] = Idle
    BY <1>11 DEF GatewayDeclinesRefund, Moves, Transition, SetPolicy, Crash, Finish, TypeOK
  <2>3. \A g \in Handlers : NoTaker(g) /\ NoGiver(g)
    BY <2>2 DEF Took, Gave, Idle
  <2> QED BY <1>1, <1>2, <1>3, <2>1, <2>3
<1> QED
  BY <1>4, <1>5, <1>6, <1>7, <1>8, <1>9, <1>10, <1>11 DEF Next, Proceeds

\* The payments and refunds rows never claim more than the gateway moved,
\* however many requests are there at once and wherever the process dies.
THEOREM BooksBacked == Spec => []BooksAreBacked
<1>1. Init => ChargesBacked /\ ReturnsBacked
  <2> SUFFICES ASSUME Init, NEW o \in Orders
               PROVE  /\ Fits(Takers(o), [h \in Takers(o) |-> handler[h].card],
                              ByCard(o), charged[o])
                      /\ Fits(Givers(o), [h \in Givers(o) |-> handler[h].amount],
                              refunded[o], returned[o])
    BY DEF ChargesBacked, ReturnsBacked
  <2>1. Takers(o) = {} /\ Givers(o) = {}
    BY DEF Init, Takers, Givers, Took, Gave, Idle
  <2>2. ByCard(o) = 0 /\ charged[o] = 0 /\ refunded[o] = 0 /\ returned[o] = 0
    BY DEF Init, ByCard
  <2>3. \A size : Fits({}, size, 0, 0)
    <3>1. \E at : at \in [{} -> Int]
      BY [h \in {} |-> 0] \in [{} -> Int]
    <3>2. 0 <= 0
      OBVIOUS
    <3> QED BY <3>1, <3>2, Zenon DEF Fits
  <2> QED BY <2>1, <2>2, <2>3
<1>2. ChargesBacked /\ ReturnsBacked => BooksAreBacked
  BY DEF ChargesBacked, ReturnsBacked, Fits, BooksAreBacked, ByCard
<1> QED BY <1>1, <1>2, TypeCorrect, BackedStep, PTL DEF Spec

-----------------------------------------------------------------------------
(* Requests that take turns. Two requests for one order at once may both    *)
(* find it unpaid, or its balance unrefunded: the run FindDoubleCapture     *)
(* shows it. What follows holds of every behaviour in which a request of an *)
(* order is admitted only while no other request of that order is at the    *)
(* gateway; requests for different orders interleave as they like. With one *)
(* handler every behaviour is of this kind (lemma AloneTakesTurns).         *)

Occupies(h, o) == handler[h] # Idle /\ handler[h].order = o

TakesTurns ==
  \A h \in Handlers, o \in Orders :
    Pays(h, o) \/ Refunds(h, o) => \A g \in Handlers : ~Occupies(g, o)

OneRequestAnOrder ==
  \A g, h \in Handlers : handler[g] # Idle /\ handler[h] # Idle
                         /\ handler[g].order = handler[h].order => g = h

\* What the columns of an order say together. Its total is nothing or a price
\* with its VAT, so that a share of it that rounds to nothing is nothing.
Coherent(o) ==
  /\ total[o] = 0 \/ total[o] >= 23
  /\ status[o] = "None" <=> collection[o] = "None"
  /\ collection[o] \notin {"COLLECTED", "REFUNDED"} => captured[o] = 0 /\ refunded[o] = 0
  /\ collection[o] \in {"None", "PENDING"} => ~resolved[o]
  /\ collection[o] \in {"FAILED", "REFUNDED"} => resolved[o]
  /\ ~resolved[o] => captured[o] = 0
  /\ collection[o] = "COLLECTED" /\ ~resolved[o] => total[o] = 0
  /\ captured[o] <= total[o] + Halala
  /\ refunded[o] <= captured[o] + Halala + 10
  /\ \A k \in Keys : keyUses[o][k] <= 1

\* What a request at the gateway found is still so.
StillPays(r) ==
  /\ collection[r.order] = "PENDING"
  /\ r.card > 0
  /\ r.wallet + r.card <= total[r.order] + Halala

StillRefunds(r) ==
  /\ collection[r.order] \in {"COLLECTED", "REFUNDED"}
  /\ resolved[r.order]
  /\ r.amount > 0
  /\ refunded[r.order] + r.amount <= captured[r.order] + Halala + 10
  /\ r.key \in Keys => keyUses[r.order][r.key] = 0

TurnsInv ==
  /\ OneRequestAnOrder
  /\ \A o \in Orders : Coherent(o)
  /\ \A h \in Handlers : handler[h].kind = "pay" => StillPays(handler[h])
  /\ \A h \in Handlers : handler[h].kind = "refund" => StillRefunds(handler[h])

\* A price with its VAT, of which nothing is left or at least 23 units.
LEMMA DueIsNothingOrMore ==
  ASSUME NEW subtotal \in Nat, NEW used \in Nat
  PROVE  Due(subtotal, used) = 0 \/ Due(subtotal, used) >= 23
BY DEF Due, Lesser, PointValue

\* Both shares of an order round to nothing only if it costs nothing.
LEMMA SharesNothing ==
  ASSUME TypeOK, NEW o \in Orders, NEW method, total[o] = 0 \/ total[o] >= 23,
         CardShare(o, method) = 0, WalletShare(o, method) = 0
  PROVE  total[o] = 0
<1> DEFINE c == Coverage(o)
<1>1. c \in Nat /\ c <= total[o] /\ total[o] \in Nat
  BY CoverageBounds DEF TypeOK
<1>2. CASE DrawsOnWallet(o, method)
  <2>1. Round(c) = 0 /\ Round(total[o] - c) = 0
    BY <1>2 DEF WalletShare, CardShare
  <2>2. Round(c) >= c - 9 /\ Round(total[o] - c) >= total[o] - c - 9
    BY <1>1, RoundBounds
  <2> HIDE DEF c
  <2> QED BY <1>1, <2>1, <2>2
<1>3. CASE ~DrawsOnWallet(o, method)
  BY <1>3 DEF CardShare
<1> QED BY <1>2, <1>3

\* A share of an order that costs nothing is nothing.
LEMMA SharesOfNothing ==
  ASSUME TypeOK, NEW o \in Orders, NEW method, total[o] = 0
  PROVE  CardShare(o, method) = 0 /\ WalletShare(o, method) = 0
<1>1. Coverage(o) = 0
  BY CoverageBounds
<1>2. Round(0) = 0
  BY DEF Round
<1> QED BY <1>1, <1>2 DEF CardShare, WalletShare

\* What a payment that is admitted finds.
LEMMA PayFinds ==
  ASSUME TypeOK, NEW o \in Orders, Coherent(o), NEW method, MayPay(o, method)
  PROVE  /\ ~resolved[o] /\ captured[o] = 0
         /\ \/ collection[o] = "PENDING"
            \/ collection[o] = "COLLECTED" /\ total[o] = 0
BY DEF TypeOK, Coherent, MayPay, AlreadyResolved

\* What a refund that is admitted finds: its amount is within the slack.
LEMMA RefundFinds ==
  ASSUME TypeOK, NEW o \in Orders, Coherent(o), NEW key \in Keys \cup {NoKey},
         NEW amount \in Int, Refundable(o, key), WithinBalance(amount, Remaining(o))
  PROVE  /\ collection[o] \in {"COLLECTED", "REFUNDED"}
         /\ resolved[o]
         /\ amount > 0
         /\ refunded[o] + amount <= captured[o] + Halala + 10
         /\ key \in Keys => keyUses[o][key] = 0
<1> DEFINE left == captured[o] - refunded[o]
<1>1. captured[o] \in Nat /\ refunded[o] \in Nat /\ left \in Int
  BY DEF TypeOK
<1>2. Remaining(o) \in Int /\ Remaining(o) <= left + 10 /\ Remaining(o) >= left - 9
  BY <1>1, RoundBounds DEF Remaining
<1>3. Remaining(o) > 0 /\ amount > 0 /\ amount <= Remaining(o) + Halala
  BY DEF WithinBalance
<1>4. captured[o] > 0
  <2>1. Remaining(o) = ((left + 10) \div 20) * 20
    BY DEF Remaining, Round
  <2> HIDE DEF left
  <2>2. left > 0
    BY <1>1, <1>3, <2>1
  <2> QED BY <1>1, <2>2 DEF left
<1>5. collection[o] \in {"COLLECTED", "REFUNDED"} /\ resolved[o]
  BY <1>1, <1>4 DEF Coherent
<1>6. refunded[o] + amount <= captured[o] + Halala + 10
  BY <1>1, <1>2, <1>3 DEF Halala
<1>7. key \in Keys => keyUses[o][key] = 0
  BY DEF Refundable, KeyUnused
<1> QED BY <1>3, <1>5, <1>6, <1>7

\* The columns of an order that Coherent reads do not change.
Same(p) ==
  /\ status[p] = "None" <=> status'[p] = "None"
  /\ collection'[p] = collection[p]
  /\ total'[p] = total[p]
  /\ resolved'[p] = resolved[p]
  /\ captured'[p] = captured[p]
  /\ refunded'[p] = refunded[p]
  /\ keyUses'[p] = keyUses[p]

LEMMA SameCoherent ==
  ASSUME NEW p, Coherent(p), Same(p)
  PROVE  Coherent(p)'
BY DEF Coherent, Same

LEMMA SameStill ==
  ASSUME NEW g \in Handlers, handler'[g] = handler[g], Same(handler[g].order),
         handler[g].kind = "pay" => StillPays(handler[g]),
         handler[g].kind = "refund" => StillRefunds(handler[g])
  PROVE  /\ handler'[g].kind = "pay" => StillPays(handler[g])'
         /\ handler'[g].kind = "refund" => StillRefunds(handler[g])'
BY DEF StillPays, StillRefunds, Same

\* A step that writes one order, and leaves no other request of that order.
LEMMA TurnsOrder ==
  ASSUME TypeOK, TurnsInv, NEW o \in Orders, Coherent(o)',
         \A p \in Orders \ {o} : Same(p),
         \A g \in Handlers : \/ handler'[g] = Idle
                             \/ handler'[g] = handler[g] /\ ~Occupies(g, o)
  PROVE  TurnsInv'
<1>1. OneRequestAnOrder'
  BY DEF TurnsInv, OneRequestAnOrder
<1>2. \A p \in Orders : Coherent(p)'
  BY SameCoherent DEF TurnsInv
<1>3. ASSUME NEW g \in Handlers
      PROVE  /\ handler'[g].kind = "pay" => StillPays(handler[g])'
             /\ handler'[g].kind = "refund" => StillRefunds(handler[g])'
  <2>1. CASE handler'[g] = Idle
    BY <2>1 DEF Idle
  <2>2. CASE handler'[g] # Idle
    <3>1. handler'[g] = handler[g] /\ ~Occupies(g, o) /\ handler[g] # Idle
      BY <2>2
    <3>2. handler[g].order \in Orders \ {o}
      BY <3>1, HandlerHolds DEF Occupies, Serving, PayRequests, RefundRequestsInFlight
    <3>3. Same(handler[g].order)
      BY <3>2
    <3> QED BY <3>1, <3>3, SameStill DEF TurnsInv
  <2> QED BY <2>1, <2>2
<1> QED BY <1>1, <1>2, <1>3 DEF TurnsInv

\* A step that writes no order, and admits or answers one request at most.
LEMMA TurnsRequest ==
  ASSUME TypeOK, TurnsInv, \A p \in Orders : Same(p), NEW h \in Handlers,
         \A g \in Handlers : g # h => handler'[g] = handler[g],
         handler'[h] = Idle \/
           /\ handler'[h].kind = "pay" => StillPays(handler'[h])
           /\ handler'[h].kind = "refund" => StillRefunds(handler'[h])
           /\ \A g \in Handlers : g # h => ~Occupies(g, handler'[h].order)
           /\ handler'[h].order \in Orders
  PROVE  TurnsInv'
<1>1. OneRequestAnOrder'
  BY DEF TurnsInv, OneRequestAnOrder, Occupies
<1>2. \A p \in Orders : Coherent(p)'
  BY SameCoherent DEF TurnsInv
<1>3. ASSUME NEW g \in Handlers
      PROVE  /\ handler'[g].kind = "pay" => StillPays(handler[g])'
             /\ handler'[g].kind = "refund" => StillRefunds(handler[g])'
  <2>1. CASE handler'[g] = Idle
    BY <2>1 DEF Idle
  <2>2. CASE handler'[g] # Idle /\ g # h
    <3>1. handler'[g] = handler[g] /\ handler[g].order \in Orders
      BY <2>2, HandlerHolds DEF Serving, PayRequests, RefundRequestsInFlight
    <3>2. Same(handler[g].order)
      BY <3>1
    <3> QED BY <3>1, <3>2, SameStill DEF TurnsInv
  <2>3. CASE handler'[g] # Idle /\ g = h
    <3>1. Same(handler'[h].order)
      BY <2>3
    <3>2. StillPays(handler'[h]) => StillPays(handler[h])'
      BY <3>1 DEF StillPays, Same
    <3>3. StillRefunds(handler'[h]) => StillRefunds(handler[h])'
      BY <3>1 DEF StillRefunds, Same
    <3> QED BY <2>3, <3>2, <3>3
  <2> QED BY <2>1, <2>2, <2>3
<1> QED BY <1>1, <1>2, <1>3 DEF TurnsInv

\* A step that writes no order, and may lose every request.
LEMMA TurnsLost ==
  ASSUME TypeOK, TurnsInv, \A p \in Orders : Same(p),
         \A g \in Handlers : handler'[g] = Idle \/ handler'[g] = handler[g]
  PROVE  TurnsInv'
<1>1. OneRequestAnOrder'
  BY DEF TurnsInv, OneRequestAnOrder
<1>2. \A p \in Orders : Coherent(p)'
  BY SameCoherent DEF TurnsInv
<1>3. ASSUME NEW g \in Handlers
      PROVE  /\ handler'[g].kind = "pay" => StillPays(handler[g])'
             /\ handler'[g].kind = "refund" => StillRefunds(handler[g])'
  <2>1. CASE handler'[g] = Idle
    BY <2>1 DEF Idle
  <2>2. CASE handler'[g] # Idle
    <3>1. handler'[g] = handler[g] /\ handler[g].order \in Orders
      BY <2>2, HandlerHolds DEF Serving, PayRequests, RefundRequestsInFlight
    <3>2. Same(handler[g].order)
      BY <3>1
    <3> QED BY <3>1, <3>2, SameStill DEF TurnsInv
  <2> QED BY <2>1, <2>2
<1> QED BY <1>1, <1>2, <1>3 DEF TurnsInv

\* What settling a payment makes of its order.
LEMMA SettlesCoherent ==
  ASSUME TypeOK, NEW o \in Orders, Coherent(o), NEW wallet \in Nat,
         NEW card \in Nat, NEW success \in BOOLEAN,
         Settles(o, wallet, card, success), UNCHANGED <<total, refunded, keyUses>>,
         ~resolved[o], collection[o] \in {"PENDING", "COLLECTED"},
         wallet + card <= total[o] + Halala,
         ~success => card > 0 /\ collection[o] = "PENDING",
         wallet + card = 0 => total[o] = 0
  PROVE  /\ Coherent(o)'
         /\ captured[o] = 0
         /\ captured'[o] = IF success THEN wallet + card ELSE 0
         /\ \A p \in Orders \ {o} : Same(p)
<1>1. captured[o] = 0 /\ refunded[o] \in Nat /\ total[o] \in Nat
  BY DEF Coherent, TypeOK
<1>2. /\ status'[o] = IF success THEN "Paid" ELSE "Failed"
      /\ collection'[o] = IF success THEN "COLLECTED" ELSE "FAILED"
      /\ \A p \in Orders \ {o} : status'[p] = status[p] /\ collection'[p] = collection[p]
  BY DEF Settles, TypeOK
<1>3. /\ resolved'[o] <=> wallet > 0 \/ card > 0
      /\ \A p \in Orders \ {o} : resolved'[p] = resolved[p]
  BY Zenon DEF Settles, RecordsPayment, TypeOK
<1>4. captured'[o] = IF success THEN wallet + card ELSE 0
  BY <1>1 DEF Settles, RecordsPayment, TypeOK
<1>5. \A p \in Orders \ {o} : captured'[p] = captured[p]
  BY DEF Settles, RecordsPayment, TypeOK
<1>6. \A p \in Orders \ {o} : Same(p)
  BY <1>2, <1>3, <1>5 DEF Same
<1>7. Coherent(o)'
  <2>1. /\ total'[o] = 0 \/ total'[o] >= 23
        /\ status'[o] # "None" /\ collection'[o] # "None"
        /\ collection'[o] \in {"COLLECTED", "FAILED"}
        /\ \A k \in Keys : keyUses'[o][k] <= 1
    BY <1>2 DEF Coherent
  <2>2. captured'[o] <= total'[o] + Halala
    BY <1>1, <1>4 DEF Halala
  <2>3. refunded'[o] <= captured'[o] + Halala + 10
    BY <1>1, <1>4 DEF Coherent, Halala
  <2>4. collection'[o] = "FAILED" => resolved'[o] /\ captured'[o] = 0
    BY <1>2, <1>3, <1>4
  <2>5. ~resolved'[o] => captured'[o] = 0 /\ total'[o] = 0
    <3>1. ~resolved'[o] => wallet = 0 /\ card = 0
      BY <1>3
    <3> QED BY <1>4, <3>1
  <2>6. collection'[o] = "FAILED" => refunded'[o] = 0
    <3>1. collection'[o] = "FAILED" => collection[o] = "PENDING"
      BY <1>2
    <3> QED BY <3>1 DEF Coherent
  <2> QED BY <2>1, <2>2, <2>3, <2>4, <2>5, <2>6 DEF Coherent
<1> QED BY <1>1, <1>4, <1>6, <1>7

\* What recording a refund makes of its order.
LEMMA RefundCoherent ==
  ASSUME TypeOK, NEW n, NEW r \in RefundRequestsInFlight, NEW o \in Orders,
         r.order = o, Coherent(o), StillRefunds(r), NEW full \in BOOLEAN,
         RefundWrites(n, o, r.amount, r.key, r.was, full),
         UNCHANGED <<total, resolved, captured>>
  PROVE  /\ Coherent(o)'
         /\ collection'[o] \in {"COLLECTED", "REFUNDED"}
         /\ refunded'[o] = refunded[o] + r.amount
         /\ collection[o] = "REFUNDED" => collection'[o] = "REFUNDED"
         /\ \A p \in Orders \ {o} : Same(p)
<1>1. r.amount \in Nat
  BY DEF RefundRequestsInFlight
<1>2. /\ status' = status \/ status' = [status EXCEPT ![o] = RefundTarget(full)]
      /\ collection' = collection \/ collection' = [collection EXCEPT ![o] = "REFUNDED"]
      /\ refunded' = [refunded EXCEPT ![o] = @ + r.amount]
      /\ keyUses' = [keyUses EXCEPT ![o] =
           [k \in Keys |-> IF k = r.key THEN @[k] + 1 ELSE @[k]]]
  BY DEF RefundWrites, RecordsRefund
<1>3. RefundTarget(full) # "None"
  BY DEF RefundTarget
<1>4. /\ collection[o] \in {"COLLECTED", "REFUNDED"} /\ resolved[o] /\ r.amount > 0
      /\ refunded[o] + r.amount <= captured[o] + Halala + 10
      /\ r.key \in Keys => keyUses[o][r.key] = 0
  BY DEF StillRefunds
<1>5. \A p \in Orders \ {o} : Same(p)
  BY <1>2 DEF TypeOK, Same
<1>6. /\ refunded'[o] = refunded[o] + r.amount
      /\ collection'[o] \in {"COLLECTED", "REFUNDED"}
      /\ collection[o] = "REFUNDED" => collection'[o] = "REFUNDED"
      /\ status[o] # "None" => status'[o] # "None"
  BY <1>1, <1>2, <1>3, <1>4 DEF TypeOK
<1>7. \A k \in Keys : keyUses'[o][k] <= 1
  <2>1. \A k \in Keys : keyUses[o][k] \in Nat /\ keyUses[o][k] <= 1
    BY DEF TypeOK, Coherent
  <2>2. \A k \in Keys :
          keyUses'[o][k] = IF k = r.key THEN keyUses[o][k] + 1 ELSE keyUses[o][k]
    BY <1>2 DEF TypeOK
  <2> QED BY <1>4, <2>1, <2>2
<1>8. Coherent(o)'
  <2>1. /\ total'[o] = 0 \/ total'[o] >= 23
        /\ captured'[o] <= total'[o] + Halala
        /\ resolved'[o]
    BY <1>4 DEF Coherent
  <2>2. refunded'[o] <= captured'[o] + Halala + 10
    BY <1>4, <1>6
  <2>3. status'[o] # "None" /\ collection'[o] # "None"
    BY <1>4, <1>6 DEF Coherent
  <2> QED BY <1>6, <1>7, <2>1, <2>2, <2>3 DEF Coherent
<1> QED BY <1>5, <1>6, <1>8

\* Every step in turn keeps the columns coherent, and what a request found.
LEMMA TurnsStep ==
  TypeOK /\ TypeOK' /\ TurnsInv /\ [Next /\ TakesTurns]_vars => TurnsInv'
<1> SUFFICES ASSUME TypeOK, TypeOK', TurnsInv, [Next /\ TakesTurns]_vars
             PROVE  TurnsInv'
  OBVIOUS
<1> USE DEF vars, orderVars, statusVars, paidVars, clearVars, refundVars, outside
<1>1. ASSUME UNCHANGED <<status, collection, total, resolved, captured, refunded, keyUses>>
      PROVE  \A p \in Orders : Same(p)
  BY <1>1 DEF Same
<1>2. ASSUME NEW o \in Orders, Creates(o)
      PROVE  TurnsInv'
  <2>1. PICK subtotal \in Subtotals, asked \in PointRequests, withWallet \in BOOLEAN :
          /\ InsertsOrder(o, subtotal, PointsUsed(asked), withWallet)
          /\ UNCHANGED <<resolved, captured, refunded, keyUses>>
          /\ handler' = handler \/ handler' = [g \in Handlers |-> Idle]
          /\ \/ status' = [status EXCEPT ![o] = "Payment Pending"]
             \/ status' = [status EXCEPT ![o] = "Confirmed"]
             \/ status' = [status EXCEPT ![o] = "Created"]
    BY <1>2, Zenon DEF Creates, CreateForPayment, CreateConfirmed, CreateCutShort
  <2> DEFINE due == Due(subtotal, PointsUsed(asked))
  <2>2. due \in Nat /\ (due = 0 \/ due >= 23)
    BY PointsUsedNat, DueNat, DueIsNothingOrMore, SubtotalsAssumption
  <2>3. /\ status[o] = "None" /\ total' = [total EXCEPT ![o] = due]
        /\ \/ collection' = [collection EXCEPT ![o] = "PENDING"]
           \/ collection' = [collection EXCEPT ![o] = "NOT_REQUIRED"]
    BY <2>1 DEF InsertsOrder
  <2> HIDE DEF due
  <2>4. /\ status'[o] # "None" /\ total'[o] = due
        /\ collection'[o] \in {"PENDING", "NOT_REQUIRED"}
        /\ \A p \in Orders \ {o} : Same(p)
    BY <2>1, <2>3 DEF TypeOK, Same
  <2>5. Coherent(o) /\ collection[o] = "None"
    BY <2>3 DEF TurnsInv, Coherent
  <2>6. captured[o] = 0 /\ refunded[o] = 0 /\ ~resolved[o]
        /\ \A k \in Keys : keyUses[o][k] <= 1
    BY <2>5 DEF Coherent
  <2>7. Coherent(o)'
    <3>1. /\ total'[o] \in Nat /\ (total'[o] = 0 \/ total'[o] >= 23)
          /\ captured'[o] = 0 /\ refunded'[o] = 0 /\ ~resolved'[o]
          /\ \A k \in Keys : keyUses'[o][k] <= 1
      BY <2>1, <2>2, <2>4, <2>6
    <3>2. captured'[o] <= total'[o] + Halala /\ refunded'[o] <= captured'[o] + Halala + 10
      BY <3>1 DEF Halala
    <3> QED BY <2>4, <3>1, <3>2 DEF Coherent
  <2>8. ASSUME NEW g \in Handlers PROVE ~Occupies(g, o)
    BY <2>5, HandlerHolds
    DEF Occupies, TurnsInv, StillPays, StillRefunds, Serving, PayRequests,
        RefundRequestsInFlight
  <2>9. \A g \in Handlers : handler'[g] = Idle \/ (handler'[g] = handler[g] /\ ~Occupies(g, o))
    BY <2>1, <2>8
  <2> QED BY <2>4, <2>7, <2>9, TurnsOrder
<1>3. ASSUME NEW h \in Handlers, NEW o \in Orders, Pays(h, o), TakesTurns
      PROVE  TurnsInv'
  <2>1. PICK method \in {"card", "wallet"} : PayAtOnce(h, o, method) \/ PayBegin(h, o, method)
    BY <1>3 DEF Pays
  <2>2. \A g \in Handlers : ~Occupies(g, o)
    BY <1>3 DEF TakesTurns
  <2>3. MayPay(o, method) /\ Coherent(o)
    BY <2>1 DEF PayAtOnce, PayBegin, TurnsInv
  <2>4. /\ ~resolved[o] /\ captured[o] = 0
        /\ \/ collection[o] = "PENDING"
           \/ collection[o] = "COLLECTED" /\ total[o] = 0
    BY <2>3, PayFinds
  <2>5. /\ WalletShare(o, method) \in Nat /\ CardShare(o, method) \in Nat
        /\ WalletShare(o, method) + CardShare(o, method) <= total[o] + Halala
        /\ total[o] \in Nat /\ (total[o] = 0 \/ total[o] >= 23)
    BY <2>3, SharesBounds DEF Coherent, TypeOK
  <2>6. CASE PayAtOnce(h, o, method)
    <3>1. /\ Settles(o, WalletShare(o, method), 0, TRUE)
          /\ UNCHANGED <<total, refunded, keyUses, handler>>
          /\ CardShare(o, method) = 0
      BY <2>6 DEF PayAtOnce
    <3>2. WalletShare(o, method) + 0 = 0 => total[o] = 0
      BY <2>5, <3>1, SharesNothing
    <3>3. WalletShare(o, method) + 0 <= total[o] + Halala
      BY <2>5, <3>1
    <3>4. Coherent(o)' /\ \A p \in Orders \ {o} : Same(p)
      BY <2>3, <2>4, <2>5, <3>1, <3>2, <3>3, SettlesCoherent
    <3> QED BY <2>2, <3>1, <3>4, TurnsOrder
  <2>7. CASE PayBegin(h, o, method)
    <3>1. /\ handler' = [handler EXCEPT ![h] =
               [kind |-> "pay", order |-> o, wallet |-> WalletShare(o, method),
                card |-> CardShare(o, method), answer |-> "awaited"]]
          /\ CardShare(o, method) > 0
      BY <2>7 DEF PayBegin
    <3>2. total[o] # 0
      BY <2>5, <3>1, SharesOfNothing
    <3>3. /\ handler'[h].kind = "pay" /\ handler'[h].order = o
          /\ handler'[h].wallet = WalletShare(o, method)
          /\ handler'[h].card = CardShare(o, method)
          /\ \A g \in Handlers : g # h => handler'[g] = handler[g]
      BY <3>1 DEF TypeOK
    <3>4. StillPays(handler'[h])
      BY <2>4, <2>5, <3>1, <3>2, <3>3 DEF StillPays
    <3>5. \A p \in Orders : Same(p)
      BY <1>1, <2>7 DEF PayBegin
    <3> QED BY <2>2, <3>3, <3>4, <3>5, TurnsRequest
  <2> QED BY <2>1, <2>6, <2>7
<1>4. ASSUME NEW h \in Handlers, NEW o \in Orders, Refunds(h, o), TakesTurns
      PROVE  TurnsInv'
  <2>1. Remaining(o) \in Int /\ \A asked \in RefundRequests : Halala * asked \in Int
    BY RoundBounds, RefundRequestsAssumption DEF Remaining, TypeOK, Halala
  <2>2. PICK amount \in Int, key \in Keys \cup {NoKey} : RefundBegin(h, o, amount, key)
    BY <1>4, <2>1 DEF Refunds
  <2>3. \A g \in Handlers : ~Occupies(g, o)
    BY <1>4 DEF TakesTurns
  <2>4. Refundable(o, key) /\ WithinBalance(amount, Remaining(o)) /\ Coherent(o)
    BY <2>2 DEF RefundBegin, TurnsInv
  <2>5. /\ collection[o] \in {"COLLECTED", "REFUNDED"}
        /\ resolved[o]
        /\ amount > 0
        /\ refunded[o] + amount <= captured[o] + Halala + 10
        /\ key \in Keys => keyUses[o][key] = 0
    BY <2>4, RefundFinds
  <2>6. /\ handler'[h].kind = "refund" /\ handler'[h].order = o
        /\ handler'[h].amount = amount /\ handler'[h].key = key
        /\ \A g \in Handlers : g # h => handler'[g] = handler[g]
    BY <2>2 DEF RefundBegin, TypeOK
  <2>7. StillRefunds(handler'[h])
    BY <2>5, <2>6 DEF StillRefunds
  <2>8. \A p \in Orders : Same(p)
    BY <1>1, <2>2 DEF RefundBegin
  <2> QED BY <2>3, <2>6, <2>7, <2>8, TurnsRequest
<1>5. ASSUME NEW h \in Handlers
      PROVE  /\ handler[h] # Idle =>
                  /\ handler[h].order \in Orders
                  /\ \A g \in Handlers : g # h => ~Occupies(g, handler[h].order)
             /\ handler[h].kind = "pay" => handler[h] # Idle /\ StillPays(handler[h])
             /\ handler[h].kind = "refund" => handler[h] # Idle /\ StillRefunds(handler[h])
  BY HandlerHolds
  DEF TurnsInv, OneRequestAnOrder, Occupies, Serving, PayRequests,
      RefundRequestsInFlight, Idle
<1>6. ASSUME NEW h \in Handlers, NEW answer \in {"Captured", "Failed"},
             GatewayCapture(h, answer)
      PROVE  TurnsInv'
  <2>1. handler[h] \in PayRequests /\ handler[h].kind = "pay"
    BY <1>6, HandlerHolds DEF GatewayCapture
  <2>2. /\ handler'[h].kind = "pay" /\ handler'[h].order = handler[h].order
        /\ handler'[h].wallet = handler[h].wallet /\ handler'[h].card = handler[h].card
        /\ \A g \in Handlers : g # h => handler'[g] = handler[g]
    BY <1>6, <2>1 DEF GatewayCapture, TypeOK, PayRequests
  <2>3. StillPays(handler'[h])
    BY <1>5, <2>1, <2>2 DEF StillPays
  <2>4. \A p \in Orders : Same(p)
    BY <1>1, <1>6 DEF GatewayCapture
  <2> QED BY <1>5, <2>1, <2>2, <2>3, <2>4, TurnsRequest
<1>7. ASSUME NEW h \in Handlers, PayEnd(h)
      PROVE  TurnsInv'
  <2>1. PICK r \in PayRequests : r = handler[h] /\ r.kind = "pay"
    BY <1>7, HandlerHolds DEF PayEnd
  <2>2. PICK o \in Orders : o = r.order
    BY DEF PayRequests
  <2>3. PICK success \in BOOLEAN : success = (r.answer = "Captured")
    OBVIOUS
  <2>4. r.wallet \in Nat /\ r.card \in Nat
    BY DEF PayRequests
  <2>5. /\ Settles(o, r.wallet, r.card, success)
        /\ UNCHANGED <<total, refunded, keyUses>>
        /\ handler' = [handler EXCEPT ![h] = Idle]
    BY <1>7, <2>1, <2>2, <2>3, Zenon DEF PayEnd, Finish
  <2>6. /\ collection[o] = "PENDING" /\ r.card > 0
        /\ r.wallet + r.card <= total[o] + Halala
    BY <1>5, <2>1, <2>2 DEF StillPays
  <2>7. Coherent(o) /\ ~resolved[o]
    BY <2>6 DEF TurnsInv, Coherent
  <2>8. r.wallet + r.card # 0
    BY <2>4, <2>6
  <2>9. \A g \in Handlers : handler'[g] = Idle \/ (handler'[g] = handler[g] /\ ~Occupies(g, o))
    BY <1>5, <2>1, <2>2, <2>5 DEF TypeOK
  <2>10. Coherent(o)' /\ \A p \in Orders \ {o} : Same(p)
    BY <2>4, <2>5, <2>6, <2>7, <2>8, SettlesCoherent
  <2> QED BY <2>9, <2>10, TurnsOrder
<1>8. ASSUME NEW h \in Handlers, GatewayRefund(h)
      PROVE  TurnsInv'
  <2>1. handler[h] \in RefundRequestsInFlight /\ handler[h].kind = "refund"
    BY <1>8, HandlerHolds DEF GatewayRefund
  <2>2. /\ handler'[h].kind = "refund" /\ handler'[h].order = handler[h].order
        /\ handler'[h].amount = handler[h].amount /\ handler'[h].key = handler[h].key
        /\ \A g \in Handlers : g # h => handler'[g] = handler[g]
    BY <1>8, <2>1 DEF GatewayRefund, TypeOK, RefundRequestsInFlight
  <2>3. StillRefunds(handler'[h])
    BY <1>5, <2>1, <2>2 DEF StillRefunds
  <2>4. \A p \in Orders : Same(p)
    BY <1>1, <1>8 DEF GatewayRefund
  <2> QED BY <1>5, <2>1, <2>2, <2>3, <2>4, TurnsRequest
<1>9. ASSUME NEW h \in Handlers, NEW full \in BOOLEAN,
             RefundEnd(h, full) \/ \E n \in 1..3 : RefundCutShort(h, full, n)
      PROVE  TurnsInv'
  <2>1. /\ handler[h].kind = "refund" /\ UNCHANGED <<total, resolved, captured>>
        /\ handler'[h] = Idle
        /\ \A g \in Handlers : handler'[g] = handler[g] \/ handler'[g] = Idle
    BY <1>9 DEF RefundEnd, RefundCutShort, Finish, TypeOK
  <2>2. PICK r \in RefundRequestsInFlight : r = handler[h]
    BY <2>1, HandlerHolds
  <2>3. PICK o \in Orders : o = r.order
    BY DEF RefundRequestsInFlight
  <2>4. PICK n : RefundWrites(n, o, r.amount, r.key, r.was, full)
    BY <1>9, <2>2, <2>3 DEF RefundEnd, RefundCutShort
  <2>5. StillRefunds(r) /\ Coherent(o)
    BY <1>5, <2>1, <2>2 DEF TurnsInv
  <2>6. \A g \in Handlers : handler'[g] = Idle \/ (handler'[g] = handler[g] /\ ~Occupies(g, o))
    BY <1>5, <2>1, <2>2, <2>3
  <2>7. Coherent(o)' /\ \A p \in Orders \ {o} : Same(p)
    BY <2>1, <2>3, <2>4, <2>5, RefundCoherent
  <2> QED BY <2>6, <2>7, TurnsOrder
<1>10. ASSUME NEW o \in Orders, Moves(o)
       PROVE  TurnsInv'
  <2>1. PICK to \in Statuses, role \in Roles, earning \in BOOLEAN :
          Transition(o, to, role, earning)
    BY <1>10 DEF Moves
  <2>2. status[o] # "None" /\ to # "None"
    BY <2>1 DEF Transition, MayMove, CanTransition, SuccessorsOf
  <2>3. status' = [status EXCEPT ![o] = to]
        /\ UNCHANGED <<collection, total, resolved, captured, refunded, keyUses, handler>>
    BY <2>1 DEF Transition
  <2>4. \A p \in Orders : Same(p)
    BY <2>2, <2>3 DEF Same, TypeOK
  <2> QED BY <2>3, <2>4, TurnsLost
<1>11. ASSUME \/ \E h \in Handlers : GatewayDeclinesRefund(h)
              \/ \E p \in Policies : SetPolicy(p)
              \/ Crash
              \/ UNCHANGED vars
       PROVE  TurnsInv'
  <2>1. \A p \in Orders : Same(p)
    BY <1>1, <1>11 DEF GatewayDeclinesRefund, SetPolicy, Crash
  <2>2. \A g \in Handlers : handler'[g] = Idle \/ handler'[g] = handler[g]
    BY <1>11 DEF GatewayDeclinesRefund, SetPolicy, Crash, Finish, TypeOK
  <2> QED BY <2>1, <2>2, TurnsLost
<1> QED
  BY <1>2, <1>3, <1>4, <1>6, <1>7, <1>8, <1>9, <1>10, <1>11 DEF Next, Proceeds

\* With one handler, every request is admitted while none is at the gateway.
LEMMA AloneTakesTurns ==
  ASSUME \A g, h \in Handlers : g = h
  PROVE  Next => TakesTurns
<1> SUFFICES ASSUME NEW h \in Handlers, NEW o \in Orders, Pays(h, o) \/ Refunds(h, o)
             PROVE  handler[h] = Idle
  BY DEF TakesTurns, Occupies
<1> QED BY DEF Pays, Refunds, PayAtOnce, PayBegin, RefundBegin

\* TurnsInv holds of every behaviour whose requests take turns.
LEMMA TurnsKept == Spec /\ [][TakesTurns]_vars => []TurnsInv
<1>1. Init => TurnsInv
  <2> SUFFICES ASSUME Init PROVE TurnsInv
    OBVIOUS
  <2>1. \A h \in Handlers : handler[h] = Idle /\ handler[h].kind = "idle"
    BY DEF Init, Idle
  <2>2. OneRequestAnOrder
    BY <2>1 DEF OneRequestAnOrder
  <2>3. ASSUME NEW o \in Orders PROVE Coherent(o)
    <3>1. /\ total[o] = 0 /\ captured[o] = 0 /\ refunded[o] = 0 /\ ~resolved[o]
          /\ status[o] = "None" /\ collection[o] = "None"
          /\ \A k \in Keys : keyUses[o][k] = 0
      BY DEF Init
    <3> QED BY <3>1 DEF Coherent, Halala
  <2> QED BY <2>1, <2>2, <2>3 DEF TurnsInv
<1> QED BY <1>1, TypeCorrect, TurnsStep, PTL DEF Spec

\* An order is captured at most once, wallet and card together, in every
\* behaviour whose requests for the same order take turns.
THEOREM CapturedOnce == Spec /\ [][TakesTurns]_vars => []CapturedAtMostOnce
<1>1. TurnsInv => CapturedAtMostOnce
  BY DEF TurnsInv, Coherent, CapturedAtMostOnce
<1> QED BY <1>1, TurnsKept, PTL

\* In those behaviours refunds stay within what was captured, up to the
\* comparison's halala and the rounding: the tolerance does not add up over
\* many partial refunds.
THEOREM RefundsBounded == Spec /\ [][TakesTurns]_vars => []RefundWithinTolerance
<1>1. TurnsInv => RefundWithinTolerance
  BY DEF TurnsInv, Coherent, RefundWithinTolerance
<1> QED BY <1>1, TurnsKept, PTL

\* In those behaviours an idempotency key names one refund of an order.
THEOREM KeysNameOne == Spec /\ [][TakesTurns]_vars => []KeyUsedOnce
<1>1. TurnsInv => KeyUsedOnce
  BY DEF TurnsInv, Coherent, KeyUsedOnce
<1> QED BY <1>1, TurnsKept, PTL

\* What a step in turn does to the money of the orders: nothing, or one of
\* three things to one of them.
OthersKept(o) ==
  \A p \in Orders \ {o} : /\ collection'[p] = collection[p] /\ total'[p] = total[p]
                          /\ captured'[p] = captured[p] /\ refunded'[p] = refunded[p]

Placed(o) ==
  /\ collection[o] = "None"
  /\ collection'[o] \in {"PENDING", "NOT_REQUIRED"}
  /\ UNCHANGED <<captured, refunded>>

Settled(o) ==
  /\ UNCHANGED <<total, refunded>>
  /\ \/ /\ collection[o] = "PENDING" /\ collection'[o] = "COLLECTED"
        /\ captured'[o] <= total[o] + Halala
     \/ /\ collection[o] = "PENDING" /\ collection'[o] = "FAILED"
        /\ captured'[o] = captured[o]
     \/ /\ collection[o] = "COLLECTED" /\ collection'[o] = "COLLECTED"
        /\ captured'[o] = captured[o]

GaveBack(o) ==
  /\ collection[o] \in {"COLLECTED", "REFUNDED"}
  /\ collection'[o] \in {"COLLECTED", "REFUNDED"}
  /\ collection[o] = "REFUNDED" => collection'[o] = "REFUNDED"
  /\ UNCHANGED <<total, captured>>
  /\ \E amount \in Nat : /\ amount > 0 /\ refunded'[o] = refunded[o] + amount
                         /\ amount <= captured[o] + Halala + 10 - refunded[o]

LEMMA StepEffects ==
  ASSUME TypeOK, TypeOK', TurnsInv, [Next /\ TakesTurns]_vars
  PROVE  \/ UNCHANGED <<collection, total, captured, refunded>>
         \/ \E o \in Orders : OthersKept(o) /\ (Placed(o) \/ Settled(o) \/ GaveBack(o))
<1> USE DEF vars, orderVars, statusVars, paidVars, clearVars, refundVars, outside
<1> DEFINE Effect == \E o \in Orders :
             OthersKept(o) /\ (Placed(o) \/ Settled(o) \/ GaveBack(o))
<1>1. ASSUME NEW o \in Orders, Creates(o)
      PROVE  Effect
  <2>1. PICK subtotal \in Subtotals, asked \in PointRequests, withWallet \in BOOLEAN :
          /\ InsertsOrder(o, subtotal, PointsUsed(asked), withWallet)
          /\ UNCHANGED <<captured, refunded>>
    BY <1>1, Zenon DEF Creates, CreateForPayment, CreateConfirmed, CreateCutShort
  <2> DEFINE due == Due(subtotal, PointsUsed(asked))
  <2>2. /\ status[o] = "None" /\ total' = [total EXCEPT ![o] = due]
        /\ \/ collection' = [collection EXCEPT ![o] = "PENDING"]
           \/ collection' = [collection EXCEPT ![o] = "NOT_REQUIRED"]
    BY <2>1 DEF InsertsOrder
  <2> HIDE DEF due
  <2>3. collection[o] = "None"
    BY <2>2 DEF TurnsInv, Coherent
  <2>4. OthersKept(o) /\ Placed(o)
    BY <2>1, <2>2, <2>3 DEF OthersKept, Placed, TypeOK
  <2> QED BY <2>4
<1>2. ASSUME NEW o \in Orders, NEW wallet \in Nat, NEW card \in Nat,
             NEW success \in BOOLEAN, Settles(o, wallet, card, success),
             UNCHANGED <<total, refunded, keyUses>>, ~resolved[o],
             \/ collection[o] = "PENDING"
             \/ collection[o] = "COLLECTED" /\ total[o] = 0 /\ success,
             wallet + card <= total[o] + Halala, ~success => card > 0,
             wallet + card = 0 => total[o] = 0,
             total[o] = 0 => wallet + card = 0
      PROVE  Effect
  <2>1. Coherent(o)
    BY DEF TurnsInv
  <2>2. /\ captured[o] = 0
        /\ captured'[o] = IF success THEN wallet + card ELSE 0
        /\ \A p \in Orders \ {o} : Same(p)
    BY <1>2, <2>1, SettlesCoherent
  <2>3. collection'[o] = IF success THEN "COLLECTED" ELSE "FAILED"
    BY <1>2 DEF Settles, TypeOK
  <2>4. Settled(o)
    BY <1>2, <2>2, <2>3 DEF Settled
  <2>5. OthersKept(o)
    BY <2>2 DEF OthersKept, Same
  <2> QED BY <2>4, <2>5
<1>3. ASSUME NEW h \in Handlers, NEW o \in Orders, Pays(h, o)
      PROVE  Effect \/ UNCHANGED <<collection, total, captured, refunded>>
  <2>1. PICK method \in {"card", "wallet"} : PayAtOnce(h, o, method) \/ PayBegin(h, o, method)
    BY <1>3 DEF Pays
  <2>2. CASE PayAtOnce(h, o, method)
    <3>1. /\ Settles(o, WalletShare(o, method), 0, TRUE)
          /\ UNCHANGED <<total, refunded, keyUses>>
          /\ CardShare(o, method) = 0 /\ MayPay(o, method) /\ Coherent(o)
      BY <2>2 DEF PayAtOnce, TurnsInv
    <3>2. ~resolved[o]
          /\ (collection[o] = "PENDING" \/ (collection[o] = "COLLECTED" /\ total[o] = 0))
      BY <3>1, PayFinds
    <3>3. /\ WalletShare(o, method) \in Nat
          /\ WalletShare(o, method) + 0 <= total[o] + Halala
      BY <3>1, SharesBounds
    <3>4. WalletShare(o, method) + 0 = 0 => total[o] = 0
      BY <3>1, <3>3, SharesNothing DEF Coherent
    <3>5. total[o] = 0 => WalletShare(o, method) + 0 = 0
      BY SharesOfNothing
    <3>6. PICK wallet \in Nat, card \in Nat, success \in BOOLEAN :
            wallet = WalletShare(o, method) /\ card = 0 /\ success = TRUE
      BY <3>3
    <3>7. Settles(o, wallet, card, success)
      BY <3>1, <3>6, Zenon
    <3>8. /\ wallet + card <= total[o] + Halala
          /\ ~success => card > 0
          /\ wallet + card = 0 => total[o] = 0
          /\ total[o] = 0 => wallet + card = 0
      BY <3>3, <3>4, <3>5, <3>6
    <3> HIDE DEF Effect
    <3>9. Effect
      BY <1>2, <3>1, <3>2, <3>6, <3>7, <3>8
    <3> QED BY <3>9
  <2>3. CASE PayBegin(h, o, method)
    BY <2>3 DEF PayBegin
  <2> QED BY <2>1, <2>2, <2>3
<1>4. ASSUME NEW h \in Handlers, PayEnd(h)
      PROVE  Effect
  <2>1. PICK r \in PayRequests : r = handler[h] /\ r.kind = "pay"
    BY <1>4, HandlerHolds DEF PayEnd
  <2>2. PICK o \in Orders : o = r.order
    BY DEF PayRequests
  <2>3. PICK success \in BOOLEAN : success = (r.answer = "Captured")
    OBVIOUS
  <2>4. r.wallet \in Nat /\ r.card \in Nat /\ total[o] \in Nat
    BY DEF PayRequests, TypeOK
  <2>5. /\ Settles(o, r.wallet, r.card, success)
        /\ UNCHANGED <<total, refunded, keyUses>>
    BY <1>4, <2>1, <2>2, <2>3, Zenon DEF PayEnd
  <2>6. /\ collection[o] = "PENDING" /\ r.card > 0
        /\ r.wallet + r.card <= total[o] + Halala
    BY <2>1, <2>2 DEF TurnsInv, StillPays
  <2>7. Coherent(o) /\ ~resolved[o]
    BY <2>6 DEF TurnsInv, Coherent
  <2>8. r.wallet + r.card # 0
    BY <2>4, <2>6
  <2>9. CASE success
    <3>1. captured'[o] = r.wallet + r.card
          /\ \A p \in Orders \ {o} : Same(p)
      BY <2>4, <2>5, <2>6, <2>7, <2>8, <2>9, SettlesCoherent
    <3>2. collection'[o] = "COLLECTED"
      BY <2>5, <2>9 DEF Settles, TypeOK
    <3> QED BY <2>5, <2>6, <3>1, <3>2 DEF Settled, OthersKept, Same
  <2>10. CASE ~success
    <3>1. captured' = captured /\ collection' = [collection EXCEPT ![o] = "FAILED"]
      BY <2>5, <2>10 DEF Settles, RecordsPayment
    <3> QED BY <2>5, <2>6, <3>1 DEF Settled, OthersKept, TypeOK
  <2> QED BY <2>9, <2>10
<1>5. ASSUME NEW h \in Handlers, NEW full \in BOOLEAN,
             RefundEnd(h, full) \/ \E n \in 1..3 : RefundCutShort(h, full, n)
      PROVE  Effect
  <2>1. handler[h].kind = "refund" /\ UNCHANGED <<total, resolved, captured>>
    BY <1>5 DEF RefundEnd, RefundCutShort
  <2>2. PICK r \in RefundRequestsInFlight : r = handler[h]
    BY <2>1, HandlerHolds
  <2>3. PICK o \in Orders : o = r.order
    BY DEF RefundRequestsInFlight
  <2>4. PICK n : RefundWrites(n, o, r.amount, r.key, r.was, full)
    BY <1>5, <2>2, <2>3 DEF RefundEnd, RefundCutShort
  <2>5. StillRefunds(r) /\ Coherent(o)
    BY <2>1, <2>2 DEF TurnsInv
  <2>6. /\ collection'[o] \in {"COLLECTED", "REFUNDED"}
        /\ refunded'[o] = refunded[o] + r.amount
        /\ collection[o] = "REFUNDED" => collection'[o] = "REFUNDED"
        /\ \A p \in Orders \ {o} : Same(p)
    <3> HIDE DEF Effect
    <3>1. r.order = o /\ UNCHANGED <<total, resolved, captured>>
      BY <2>1, <2>3
    <3> QED BY <2>4, <2>5, <3>1, RefundCoherent, SMTT(30)
  <2>7. /\ r.amount \in Nat /\ r.amount > 0
        /\ r.amount <= captured[o] + Halala + 10 - refunded[o]
        /\ collection[o] \in {"COLLECTED", "REFUNDED"}
    BY <2>3, <2>5 DEF StillRefunds, RefundRequestsInFlight, TypeOK, Halala
  <2>8. GaveBack(o)
    BY <2>1, <2>6, <2>7 DEF GaveBack
  <2>9. OthersKept(o)
    BY <2>6 DEF OthersKept, Same
  <2> QED BY <2>8, <2>9
<1>6. ASSUME \/ \E h \in Handlers, o \in Orders : Refunds(h, o)
             \/ \E h \in Handlers : \/ \E answer \in {"Captured", "Failed"} :
                                         GatewayCapture(h, answer)
                                    \/ GatewayRefund(h)
                                    \/ GatewayDeclinesRefund(h)
             \/ \E o \in Orders : Moves(o)
             \/ \E p \in Policies : SetPolicy(p)
             \/ Crash
             \/ UNCHANGED vars
      PROVE  UNCHANGED <<collection, total, captured, refunded>>
  BY <1>6
  DEF Refunds, RefundBegin, GatewayCapture, GatewayRefund, GatewayDeclinesRefund,
      Moves, Transition, SetPolicy, Crash
<1> HIDE DEF Effect
<1>7. Effect \/ UNCHANGED <<collection, total, captured, refunded>>
  BY <1>1, <1>3, <1>4, <1>5, <1>6 DEF Next, Proceeds
<1> QED BY <1>7 DEF Effect

\* Once fully refunded, an order never counts as collected or failed again,
\* when the requests for it take turns.
THEOREM RefundedStays == Spec /\ [][TakesTurns]_vars => RefundedIsFinal
<1>1. TypeOK /\ TypeOK' /\ TurnsInv /\ [Next /\ TakesTurns]_vars =>
        [\A o \in Orders :
           collection[o] = "REFUNDED" => collection'[o] = "REFUNDED"]_vars
  <2> SUFFICES ASSUME TypeOK, TypeOK', TurnsInv, [Next /\ TakesTurns]_vars,
                      NEW o \in Orders, collection[o] = "REFUNDED"
               PROVE  collection'[o] = "REFUNDED"
    OBVIOUS
  <2>1. CASE UNCHANGED <<collection, total, captured, refunded>>
    BY <2>1
  <2>2. CASE \E p \in Orders : OthersKept(p) /\ (Placed(p) \/ Settled(p) \/ GaveBack(p))
    BY <2>2 DEF OthersKept, Placed, Settled, GaveBack
  <2> QED BY <2>1, <2>2, StepEffects
<1> QED BY <1>1, TypeCorrect, TurnsKept, PTL DEF Spec, RefundedIsFinal

\* One order's step, as the promise sees it.
LEMMA EffectPromised ==
  ASSUME TypeOK, TypeOK', TurnsInv, NEW o \in Orders, OthersKept(o),
         Placed(o) \/ Settled(o) \/ GaveBack(o)
  PROVE  Promise!Next \/ UNCHANGED Promise!vars
<1> DEFINE stage == [p \in Orders |-> Stage(p)]
           next  == [p \in Orders |-> Stage(p)']
<1>1. stage' = next
  BY DEF Stage
<1>2. \A p \in Orders \ {o} : Stage(p)' = Stage(p)
  BY DEF OthersKept, Stage
<1>3. ASSUME NEW s, Stage(o)' = s PROVE next = [stage EXCEPT ![o] = s]
  BY <1>2, <1>3
<1>4. CASE Placed(o)
  <2>1. Stage(o) = "none" /\ Stage(o)' \in {"open", "exempt"}
    BY <1>4 DEF Placed, Stage
  <2>2. \E s \in {"open", "exempt"} : stage' = [stage EXCEPT ![o] = s]
    BY <1>1, <1>3, <2>1
  <2>3. /\ total' \in [Orders -> Nat] /\ \A p \in Orders \ {o} : total'[p] = total[p]
        /\ UNCHANGED <<captured, refunded>>
    BY <1>4 DEF TypeOK, OthersKept, Placed
  <2>4. Promise!Place(o)
    BY <2>1, <2>2, <2>3 DEF Promise!Place
  <2> QED BY <2>4 DEF Promise!Next
<1>5. CASE Settled(o)
  <2>1. UNCHANGED <<total, refunded>>
    BY <1>5 DEF Settled
  <2>2. CASE collection[o] = "PENDING" /\ collection'[o] = "COLLECTED"
             /\ captured'[o] <= total[o] + Halala
    <3>1. Stage(o) = "open" /\ Stage(o)' = "taken"
      BY <2>2 DEF Stage
    <3>2. captured'[o] \in 0..(total[o] + (Halala + 10))
      BY <2>2 DEF TypeOK, Halala
    <3>3. captured' = [captured EXCEPT ![o] = captured'[o]]
      BY DEF TypeOK, OthersKept
    <3>4. Promise!Take(o)
      BY <1>1, <1>3, <2>1, <3>1, <3>2, <3>3 DEF Promise!Take
    <3> QED BY <3>4 DEF Promise!Next
  <2>3. CASE collection[o] = "PENDING" /\ collection'[o] = "FAILED"
             /\ captured'[o] = captured[o]
    <3>1. Stage(o) = "open" /\ Stage(o)' = "refused"
      BY <2>3 DEF Stage
    <3>2. captured' = captured
      BY <2>3 DEF TypeOK, OthersKept
    <3>3. Promise!Refuse(o)
      BY <1>1, <1>3, <2>1, <3>1, <3>2 DEF Promise!Refuse
    <3> QED BY <3>3 DEF Promise!Next
  <2>4. CASE collection[o] = "COLLECTED" /\ collection'[o] = "COLLECTED"
             /\ captured'[o] = captured[o]
    <3>1. captured' = captured /\ collection' = collection
      BY <2>4 DEF TypeOK, OthersKept
    <3>2. stage' = stage
      BY <1>1, <3>1 DEF Stage
    <3> QED BY <2>1, <3>1, <3>2 DEF Promise!vars
  <2> QED BY <1>5, <2>2, <2>3, <2>4 DEF Settled
<1>6. CASE GaveBack(o)
  <2>1. Stage(o) = "taken" /\ Stage(o)' = "taken"
    BY <1>6 DEF GaveBack, Stage
  <2>2. stage' = stage
    BY <1>1, <1>2, <2>1
  <2>3. PICK amount \in Nat :
          /\ amount > 0 /\ refunded'[o] = refunded[o] + amount
          /\ amount <= captured[o] + Halala + 10 - refunded[o]
    BY <1>6 DEF GaveBack
  <2>4. amount \in 1..(captured[o] + (Halala + 10) - refunded[o])
    BY <2>3 DEF TypeOK, Halala
  <2>5. refunded' = [refunded EXCEPT ![o] = @ + amount]
    BY <2>3 DEF TypeOK, OthersKept
  <2>6. UNCHANGED <<total, captured>>
    BY <1>6 DEF GaveBack
  <2>7. Promise!GiveBack(o)
    BY <2>1, <2>2, <2>4, <2>5, <2>6 DEF Promise!GiveBack
  <2> QED BY <2>7 DEF Promise!Next
<1> QED BY <1>4, <1>5, <1>6

\* The endpoints refine GuestCharge in every behaviour whose requests for the
\* same order take turns: each step places, refuses, takes or gives back the
\* money of one order, or leaves all of them alone.
THEOREM RefinesGuestCharge == Spec /\ [][TakesTurns]_vars => KeepsPromise
<1>1. Init => Promise!Init
  BY DEF Init, Promise!Init, Stage
<1>2. TypeOK /\ TypeOK' /\ TurnsInv /\ [Next /\ TakesTurns]_vars
        => [Promise!Next]_(Promise!vars)
  <2> SUFFICES ASSUME TypeOK, TypeOK', TurnsInv, [Next /\ TakesTurns]_vars
               PROVE  Promise!Next \/ UNCHANGED Promise!vars
    OBVIOUS
  <2>1. CASE UNCHANGED <<collection, total, captured, refunded>>
    BY <2>1 DEF Promise!vars, Stage
  <2>2. CASE \E o \in Orders : OthersKept(o) /\ (Placed(o) \/ Settled(o) \/ GaveBack(o))
    BY <2>2, EffectPromised
  <2> QED BY <2>1, <2>2, StepEffects
<1> QED BY <1>1, <1>2, TypeCorrect, TurnsKept, PTL DEF Spec, KeepsPromise, Promise!Spec

\* With one handler all of this holds of every behaviour: a request is never
\* admitted while another is at the gateway.
THEOREM HandledAlone ==
  ASSUME \A g, h \in Handlers : g = h
  PROVE  Spec => /\ [](CapturedAtMostOnce /\ RefundWithinTolerance /\ KeyUsedOnce)
                 /\ RefundedIsFinal
                 /\ KeepsPromise
<1>1. [Next]_vars => [TakesTurns]_vars
  BY AloneTakesTurns
<1>2. Spec => [][TakesTurns]_vars
  BY <1>1, PTL DEF Spec
<1> QED BY <1>2, CapturedOnce, RefundsBounded, KeysNameOne, RefundedStays,
           RefinesGuestCharge, PTL
=============================================================================
