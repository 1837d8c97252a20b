--------------------------- MODULE PaymentPolicy ---------------------------
(***************************************************************************)
(* How the money of an order is to be collected: the overrides of a        *)
(* partner, its property and its outlets (lib/payment-policy.js), the      *)
(* endpoints that set them, and a guest who reads the policy at the        *)
(* checkout, orders under it and pays under it. Each of the three resolves *)
(* it anew. What a payment does is in OrderMoney.                          *)
(***************************************************************************)
EXTENDS Naturals, Sequences, FiniteSets, SequencesExt

CONSTANTS
  Outlets,    \* of the one property of the one partner
  Unset,
  Decisions,  \* what the administrators ask for: a policy and a list of methods
  MaxChanges  \* decisions taken, a bound for TLC

MethodsByPolicy ==
  [ONLINE           |-> {"card", "applepay", "mada"},
   POS_ON_DELIVERY  |-> {"pos", "cash"},
   CORPORATE_WALLET |-> {"wallet"},
   NO_GUEST_PAYMENT |-> {},
   MIXED            |-> {"card", "applepay", "mada", "pos", "cash", "wallet"}]

\* A list with a card scheme has the card, for which alone the checkout has a
\* button.
ASSUME CardsAreListed ==
  \A d \in Decisions : d.methods \cap {"applepay", "mada"} # {} => "card" \in d.methods

VARIABLES
  overrides,  \* payment_policy_overrides, by scope
  basket,     \* the outlets of the goods in the guest's cart that have one
  offer,      \* S.paymentPolicy, and the basket it was resolved for
  method,     \* S.payMethod
  linked,     \* S.wallet
  placed,     \* the order: what was in it, and whether it is to be collected
  answer,     \* what the server said last
  steady,     \* no override changed since the checkout was opened
  changes

policyVars ==
  <<overrides, basket, offer, method, linked, placed, answer, steady, changes>>

PolicyScopes == {"partner", "property"} \cup Outlets

PolicyInit ==
  /\ overrides = [s \in PolicyScopes |-> Unset]
  /\ basket = {} /\ offer = Unset /\ method = "card" /\ linked = FALSE
  /\ placed = Unset /\ answer = "none" /\ steady = TRUE /\ changes = 0

\* resolvePaymentPolicy, of the overrides as they are: the nearest one decides; a
\* list narrows MIXED.
Resolved(of, outlet) ==
  LET chain == <<"partner", "property">> \o (IF outlet = Unset THEN <<>> ELSE <<outlet>>)
      set == SelectSeq(chain, LAMBDA s : of[s] # Unset)
      decided == IF set = <<>> THEN [policy |-> "ONLINE", methods |-> {}]
                               ELSE of[Last(set)]
  IN  [policy  |-> decided.policy,
       methods |-> IF decided.policy = "MIXED" /\ decided.methods # {}
                     THEN decided.methods \cap MethodsByPolicy.MIXED
                     ELSE MethodsByPolicy[decided.policy]]

Effective(outlet) == Resolved(overrides, outlet)

Collects(p) == p.policy # "NO_GUEST_PAYMENT"

\* As if some outlet of the basket spoke for it.
AnyOutlet(of) == IF of # {} THEN CHOOSE o \in of : TRUE ELSE Unset

\* goCheckout's rule, over the catalog in S.
OutletShown(of) == IF Cardinality(of) = 1 THEN CHOOSE o \in of : TRUE ELSE Unset

\* The server's, over the rows of the order.
OutletOrdered(of) == IF Cardinality(of) = 1 THEN CHOOSE o \in of : TRUE ELSE Unset

-----------------------------------------------------------------------------

Changed ==
  /\ changes < MaxChanges /\ changes' = changes + 1
  /\ steady' = FALSE
  /\ UNCHANGED <<basket, offer, method, linked, placed, answer>>

\* PUT, once validatePolicyPayload has dropped what it does not know.
SetPolicy(s, d) ==
  LET known == d.methods \cap MethodsByPolicy.MIXED
  IN  /\ d.policy = "MIXED" => known # {}
      /\ overrides' = [overrides EXCEPT ![s] =
           [policy |-> d.policy, methods |-> IF d.policy = "MIXED" THEN known ELSE {}]]
      /\ Changed

\* DELETE: back to what the scope inherits.
ClearPolicy(s) ==
  /\ overrides[s] # Unset
  /\ overrides' = [overrides EXCEPT ![s] = Unset]
  /\ Changed

\* The guest changes the cart, which an order does not follow.
Shop(of) ==
  /\ basket' = of
  /\ UNCHANGED <<overrides, offer, method, linked, placed, answer, steady, changes>>

\* goCheckout: a method that is not offered gives way to one that is. Reading
\* the policy may fail, and the screen falls back to cards.
Checkout(reads, m) ==
  LET p == Effective(OutletShown(basket)) IN
  /\ offer' = IF reads THEN [basket |-> basket, policy |-> p] ELSE Unset
  /\ IF reads /\ p.methods # {} /\ method \notin p.methods
       THEN m \in p.methods ELSE m = method
  /\ method' = m
  /\ steady' = TRUE
  /\ UNCHANGED <<overrides, basket, linked, placed, answer, changes>>

\* The rows of the checkout. The wallet's asks for a wallet first (lookupWallet).
ChooseMethod(m) ==
  /\ offer # Unset => m \in offer.policy.methods
  /\ offer = Unset => m = "card"
  /\ method' = m
  /\ linked' = (linked \/ m = "wallet")
  /\ UNCHANGED <<overrides, basket, offer, placed, answer, steady, changes>>

\* submitPayment without an order, and POST /api/orders: what creation resolves
\* takes the place of what the checkout read.
Place ==
  LET p == Effective(OutletOrdered(basket)) IN
  /\ placed = Unset
  /\ IF p.policy = "CORPORATE_WALLET" /\ ~(linked /\ method = "wallet")
       THEN answer' = "wallet required" /\ UNCHANGED <<offer, placed>>
       ELSE /\ placed' = [basket |-> basket, collects |-> Collects(p)]
            /\ answer' = IF Collects(p) THEN "pending" ELSE "confirmed"
            /\ offer' = [basket |-> basket, policy |-> p]
  /\ UNCHANGED <<overrides, basket, method, linked, steady, changes>>

\* Then, or on a later press, POST /api/orders/:id/pay.
PayOrder ==
  LET p == Effective(OutletOrdered(placed.basket)) IN
  /\ placed # Unset /\ answer # "collected"
  /\ offer # Unset => Collects(offer.policy)
  /\ answer' = IF Collects(p) /\ method \in p.methods /\ placed.collects
                 THEN "collected" ELSE "refused"
  /\ UNCHANGED <<overrides, basket, offer, method, linked, placed, steady, changes>>

\* startNewOrder.
NewOrder ==
  /\ placed # Unset
  /\ basket' = {} /\ offer' = Unset /\ method' = "card" /\ linked' = FALSE
  /\ placed' = Unset /\ answer' = "none"
  /\ UNCHANGED <<overrides, steady, changes>>

PolicyNext ==
  \/ \E s \in PolicyScopes, d \in Decisions : SetPolicy(s, d)
  \/ \E s \in PolicyScopes : ClearPolicy(s)
  \/ \E of \in SUBSET Outlets : Shop(of)
  \/ \E reads \in BOOLEAN, m \in MethodsByPolicy.MIXED : Checkout(reads, m)
  \/ \E m \in MethodsByPolicy.MIXED : ChooseMethod(m)
  \/ Place
  \/ PayOrder
  \/ NewOrder

PolicySpec == PolicyInit /\ [][PolicyNext]_policyVars

-----------------------------------------------------------------------------

\* What the checkout offers for a basket, creation resolves for it too and the
\* payment takes, as long as nobody changes a policy in between; but an order
\* created as not to be collected stays so. The guest's rule for the outlet of
\* a cart and the server's are one rule written three times
\* (public/app.js:311-313, server.js:640-641).
OfferIsTaken ==
  [][ steady /\ offer # Unset =>
        /\ Place /\ offer.basket = basket =>
             answer' = "wallet required" \/ offer' = offer
        /\ PayOrder /\ offer.basket = placed.basket /\ method \in offer.policy.methods =>
             (answer' = "collected" <=> placed.collects) ]_policyVars
=============================================================================
