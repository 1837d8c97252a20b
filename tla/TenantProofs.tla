---------------------------- MODULE TenantProofs ----------------------------
(***************************************************************************)
(* Theorems about what a partner is sold and sells: its plan (Plans), how  *)
(* its orders are collected (PaymentPolicy), what its site shows and takes *)
(* (Storefront), under whose pictures (Branding), what each outlet's sales *)
(* and refunds book (Ledger), and the tab its administrators work in       *)
(* (Console). They hold for any number of partners, plans, sites, outlets, *)
(* goods, pictures, contracts and refunds.                                 *)
(***************************************************************************)
EXTENDS Plans, PaymentPolicy, Console, Storefront, Branding, Ledger, TLAPS

-----------------------------------------------------------------------------
(* Plans. No step but an edit writes the entitlements of a plan that is    *)
(* offered, none but a subscription the partner's plan, and none takes a   *)
(* plan away from under a subscriber.                                      *)

PlanTypes ==
  /\ planOf \in [Tenants -> Plans]
  /\ entitlements \in [Plans -> SUBSET Entitlements]

LEMMA PlanTypesKept == PlanTypes /\ [PlansNext]_planVars => PlanTypes'
<1> SUFFICES ASSUME PlanTypes, [PlansNext]_planVars PROVE PlanTypes'
  OBVIOUS
<1>1. ASSUME NEW p \in Plans, NEW wanted \in SUBSET Entitlements, CreatePlan(p, wanted)
      PROVE  PlanTypes'
  BY <1>1 DEF PlanTypes, CreatePlan
<1>2. ASSUME NEW p \in Plans, NEW granted \in SUBSET Entitlements,
             NEW withdrawn \in SUBSET Entitlements, EditPlan(p, granted, withdrawn)
      PROVE  PlanTypes'
  BY <1>2 DEF PlanTypes, EditPlan
<1>3. ASSUME NEW p \in Plans, DeletePlan(p) PROVE PlanTypes'
  BY <1>3 DEF PlanTypes, DeletePlan
<1>4. ASSUME NEW t \in Tenants, NEW p \in Plans, Subscribe(t, p) PROVE PlanTypes'
  BY <1>4 DEF PlanTypes, Subscribe
<1>5. CASE UNCHANGED planVars
  BY <1>5 DEF PlanTypes, planVars
<1> QED BY <1>1, <1>2, <1>3, <1>4, <1>5 DEF PlansNext

LEMMA PlanStepTakesNothing ==
  ASSUME PlanTypes, [PlansNext]_planVars,
         NEW t \in Tenants, NEW f \in Entitlements,
         MayUse(t, f), planOf'[t] = planOf[t], ~MayUse(t, f)'
  PROVE  planOf[t] \in offered' /\ f \notin entitlements'[planOf[t]]
<1> DEFINE p == planOf[t]
<1>1. t \in subscribed /\ p \in offered /\ f \in entitlements[p] /\ p \in Plans
  BY DEF MayUse, PlanTypes
<1>2. t \in subscribed' /\ p \in offered'
  <2>1. ASSUME NEW q \in Plans, NEW wanted \in SUBSET Entitlements, CreatePlan(q, wanted)
        PROVE  t \in subscribed' /\ p \in offered'
    BY <1>1, <2>1 DEF CreatePlan
  <2>2. ASSUME NEW q \in Plans, NEW granted \in SUBSET Entitlements,
               NEW withdrawn \in SUBSET Entitlements, EditPlan(q, granted, withdrawn)
        PROVE  t \in subscribed' /\ p \in offered'
    BY <1>1, <2>2 DEF EditPlan
  <2>3. ASSUME NEW q \in Plans, DeletePlan(q) PROVE t \in subscribed' /\ p \in offered'
    BY <1>1, <2>3 DEF DeletePlan, HasNoSubscriber
  <2>4. ASSUME NEW u \in Tenants, NEW q \in Plans, Subscribe(u, q)
        PROVE  t \in subscribed' /\ p \in offered'
    BY <1>1, <2>4 DEF Subscribe
  <2>5. CASE UNCHANGED planVars
    BY <1>1, <2>5 DEF planVars
  <2> QED BY <2>1, <2>2, <2>3, <2>4, <2>5 DEF PlansNext
<1> QED BY <1>2 DEF MayUse

\* A plan in use cannot be removed, so nobody loses an entitlement but by an edit
\* that names it or by a subscription of its own.
THEOREM SubscribersKeepTheirPlan == PlansSpec => NobodyElseTakesAway
<1>1. PlansInit => PlanTypes
  <2> SUFFICES ASSUME PlansInit PROVE PlanTypes
    OBVIOUS
  <2>1. PICK p \in Plans : planOf = [t \in Tenants |-> p]
    BY DEF PlansInit
  <2>2. planOf \in [Tenants -> Plans]
    BY <2>1
  <2>3. entitlements \in [Plans -> SUBSET Entitlements]
    BY DEF PlansInit
  <2> QED BY <2>2, <2>3 DEF PlanTypes
<1>2. PlanTypes /\ [PlansNext]_planVars =>
        [\A t \in Tenants, f \in Entitlements :
           MayUse(t, f) /\ ~MayUse(t, f)' =>
             \/ planOf'[t] # planOf[t]
             \/ planOf[t] \in offered' /\ f \notin entitlements'[planOf[t]]]_planVars
  BY PlanStepTakesNothing
<1> QED BY <1>1, <1>2, PlanTypesKept, PTL DEF PlansSpec, NobodyElseTakesAway

-----------------------------------------------------------------------------
(* The payment policy. While no override changes, what the tab holds is    *)
(* what the server resolves for the basket it was resolved for.            *)

PolicyInv ==
  offer # Unset =>
    /\ offer = [basket |-> offer.basket, policy |-> offer.policy]
    /\ steady => offer.policy = Effective(OutletShown(offer.basket))

LEMMA PolicyStep == PolicyInv /\ [PolicyNext]_policyVars => PolicyInv'
<1> SUFFICES ASSUME PolicyInv, [PolicyNext]_policyVars PROVE PolicyInv'
  OBVIOUS
<1>1. ASSUME Changed PROVE PolicyInv'
  BY <1>1 DEF PolicyInv, Changed
<1>2. ASSUME UNCHANGED <<overrides, offer, steady>> PROVE PolicyInv'
  BY <1>2 DEF PolicyInv, Effective, OutletShown
<1>3. ASSUME NEW reads \in BOOLEAN, NEW m \in MethodsByPolicy.MIXED, Checkout(reads, m)
      PROVE  PolicyInv'
  <2>1. overrides' = overrides
    BY <1>3 DEF Checkout
  <2>2. CASE ~reads
    BY <1>3, <2>2 DEF PolicyInv, Checkout
  <2>3. CASE reads
    <3>1. offer' = [basket |-> basket, policy |-> Effective(OutletShown(basket))]
      BY <1>3, <2>3 DEF Checkout
    <3> QED BY <2>1, <3>1 DEF PolicyInv, Effective, OutletShown
  <2> QED BY <2>2, <2>3
<1>4. ASSUME Place PROVE PolicyInv'
  <2>1. overrides' = overrides /\ steady' = steady
    BY <1>4 DEF Place
  <2>2. CASE offer' = offer
    BY <1>2, <2>1, <2>2
  <2>3. CASE offer' = [basket |-> basket, policy |-> Effective(OutletOrdered(basket))]
    BY <2>1, <2>3 DEF PolicyInv, Effective, OutletShown, OutletOrdered
  <2> QED BY <1>4, <2>2, <2>3 DEF Place
<1>5. ASSUME NewOrder PROVE PolicyInv'
  BY <1>5 DEF PolicyInv, NewOrder
<1>6. ASSUME NEW s \in PolicyScopes, NEW d \in Decisions, SetPolicy(s, d) PROVE PolicyInv'
  BY <1>1, <1>6 DEF SetPolicy
<1>7. ASSUME NEW s \in PolicyScopes, ClearPolicy(s) PROVE PolicyInv'
  BY <1>1, <1>7 DEF ClearPolicy
<1>8. ASSUME NEW of \in SUBSET Outlets, Shop(of) PROVE PolicyInv'
  BY <1>2, <1>8 DEF Shop
<1>9. ASSUME NEW m \in MethodsByPolicy.MIXED, ChooseMethod(m) PROVE PolicyInv'
  BY <1>2, <1>9 DEF ChooseMethod
<1>10. ASSUME PayOrder PROVE PolicyInv'
  BY <1>2, <1>10 DEF PayOrder
<1>11. CASE UNCHANGED policyVars
  BY <1>2, <1>11 DEF policyVars
<1> QED
  BY <1>3, <1>4, <1>5, <1>6, <1>7, <1>8, <1>9, <1>10, <1>11 DEF PolicyNext

\* The page and the server agree on the outlet of a basket, so what is resolved
\* again is what was offered.
LEMMA OfferTaken ==
  ASSUME PolicyInv, steady, offer # Unset
  PROVE  /\ Place /\ offer.basket = basket =>
              answer' = "wallet required" \/ offer' = offer
         /\ PayOrder /\ offer.basket = placed.basket /\ method \in offer.policy.methods =>
              (answer' = "collected" <=> placed.collects)
<1>1. \A of : OutletOrdered(of) = OutletShown(of)
  BY DEF OutletOrdered, OutletShown
<1>2. offer.policy = Effective(OutletOrdered(offer.basket))
  BY <1>1 DEF PolicyInv
<1>3. ASSUME Place, offer.basket = basket
      PROVE  answer' = "wallet required" \/ offer' = offer
  <2>1. \/ answer' = "wallet required"
        \/ offer' = [basket |-> basket, policy |-> Effective(OutletOrdered(basket))]
    BY <1>3 DEF Place
  <2> QED BY <1>2, <1>3, <2>1 DEF PolicyInv
<1>4. ASSUME PayOrder, offer.basket = placed.basket, method \in offer.policy.methods
      PROVE  answer' = "collected" <=> placed.collects
  <2>1. Collects(offer.policy)
    BY <1>4 DEF PayOrder
  <2>2. answer' = IF /\ Collects(offer.policy) /\ method \in offer.policy.methods
                     /\ placed.collects
                    THEN "collected" ELSE "refused"
    BY <1>2, <1>4 DEF PayOrder
  <2> QED BY <1>4, <2>1, <2>2
<1> QED BY <1>3, <1>4

\* What the checkout offers, the creation resolves too and the payment takes, with
\* any overrides on the three levels, any basket and any order of the calls.
THEOREM OfferHolds == PolicySpec => OfferIsTaken
<1>1. PolicyInit => PolicyInv
  BY DEF PolicyInit, PolicyInv
<1>2. PolicyInv /\ [PolicyNext]_policyVars =>
        [ steady /\ offer # Unset =>
            /\ Place /\ offer.basket = basket =>
                 answer' = "wallet required" \/ offer' = offer
            /\ PayOrder /\ offer.basket = placed.basket /\ method \in offer.policy.methods =>
                 (answer' = "collected" <=> placed.collects) ]_policyVars
  BY OfferTaken
<1> QED BY <1>1, <1>2, PolicyStep, PTL DEF PolicySpec, OfferIsTaken

-----------------------------------------------------------------------------
(* The tab, in the hands of one who lets each answer come, leaves a        *)
(* partner before the next and loads the page for another user. Then one   *)
(* request at most is awaited, so an answer finds the tab where its        *)
(* request left it, and whatever names a partner names the banner's.       *)

Careful == Habits = {}

Requests ==
  [does : {"enter", "name", "exit", "branding", "paymentpolicy"},
   of   : Partners \cup {Initial, Nobody}]

TabTypes ==
  /\ user \in Partners \cup {Platform, Nobody}
  /\ acting \in Partners \cup {Initial, Nobody}
  /\ awaited \subseteq Requests
  /\ \A r, s \in awaited : r = s
  /\ user = Nobody => awaited = {}

\* What is awaited was asked for where the tab is.
AnswersFindTheTab ==
  \A r \in awaited :
    /\ r.does \in {"enter", "name", "exit"} => user = Platform
    /\ r.does = "enter" => banner = Nobody /\ r.of \in Partners
    /\ r.does = "name" => banner = Nobody /\ r.of = acting
    /\ r.does \in {"branding", "paymentpolicy"} => r.of = acting

\* A partner's administrator is at their own partner, a fresh tab at none, and
\* the platform's under the banner of the partner it is at, or about to be.
EachAtTheirOwn ==
  /\ user \in Partners => acting = user /\ banner = Nobody
  /\ acting = Initial =>
       banner = Nobody /\ media \notin Partners /\ policies \notin Partners
  /\ user = Platform =>
       /\ acting \in Partners =>
            acting = banner \/ [does |-> "name", of |-> acting] \in awaited
       /\ media \in Partners => media = banner
       /\ policies \in Partners => policies = banner

TabInv == TabTypes /\ AnswersFindTheTab /\ EachAtTheirOwn /\ WritesGoWhereShown

LEMMA TabInitially == ConsoleInit => TabInv
BY ConsoleAssumption
DEF ConsoleInit, TabInv, TabTypes, AnswersFindTheTab, EachAtTheirOwn, WritesGoWhereShown

\* A write goes to the partner of the banner.
LEMMA WriteShown ==
  ASSUME TabInv, NEW p, Writes(p),
         user = Platform /\ p \in Partners => p = banner
  PROVE  TabInv'
<1>1. UNCHANGED <<user, acting, banner, profile, media, policies, awaited>>
  BY DEF Writes, where, loaded
<1>2. written'.of = written'.under
  BY DEF Writes
<1> QED BY <1>1, <1>2
        DEF TabInv, TabTypes, AnswersFindTheTab, EachAtTheirOwn, WritesGoWhereShown

LEMMA OneAwaited ==
  ASSUME NEW d, NEW q, [does |-> d, of |-> q] \in Requests,
         awaited' = {[does |-> d, of |-> q]}
  PROVE  /\ awaited' \subseteq Requests
         /\ \A r, s \in awaited' : r = s
         /\ \A r \in awaited' : r.does = d /\ r.of = q
OBVIOUS

LEMMA TabStep == ASSUME Careful PROVE TabInv /\ [ConsoleNext]_consoleVars => TabInv'
<1> SUFFICES ASSUME TabInv, [ConsoleNext]_consoleVars PROVE TabInv'
  OBVIOUS
<1> USE ConsoleAssumption
<1>0. TabTypes /\ AnswersFindTheTab /\ EachAtTheirOwn /\ WritesGoWhereShown
  BY DEF TabInv
<1>1. MayPress => user # Nobody /\ awaited = {}
  BY DEF MayPress, Careful
<1>2. ASSUME NEW who \in Partners \cup {Platform}, SignIn(who) PROVE TabInv'
  <2>1. acting = Initial /\ awaited = {} /\ banner = Nobody
    BY <1>0, <1>2 DEF SignIn, Careful, TabTypes, EachAtTheirOwn
  <2>2. TabTypes'
    BY <1>0, <1>2, <2>1 DEF SignIn, TabTypes
  <2>3. AnswersFindTheTab'
    BY <1>2, <2>1 DEF SignIn, AnswersFindTheTab
  <2>4. EachAtTheirOwn'
    BY <1>0, <1>2, <2>1 DEF SignIn, loaded, EachAtTheirOwn
  <2>5. WritesGoWhereShown'
    BY <1>0, <1>2 DEF SignIn, WritesGoWhereShown
  <2> QED BY <2>2, <2>3, <2>4, <2>5 DEF TabInv
<1>3. CASE SignOut
  <2>1. awaited = {} /\ awaited' = {}
    BY <1>1, <1>3 DEF SignOut
  <2>2. TabTypes'
    BY <1>0, <1>3, <2>1 DEF SignOut, TabTypes
  <2>3. AnswersFindTheTab'
    BY <2>1 DEF AnswersFindTheTab
  <2>4. EachAtTheirOwn'
    BY <1>0, <1>3 DEF SignOut, loaded, EachAtTheirOwn
  <2>5. WritesGoWhereShown'
    BY <1>0, <1>3 DEF SignOut, WritesGoWhereShown
  <2> QED BY <2>2, <2>3, <2>4, <2>5 DEF TabInv
<1>4. CASE LoadAnew
  BY <1>0, <1>4
  DEF LoadAnew, TabInv, TabTypes, AnswersFindTheTab, EachAtTheirOwn, WritesGoWhereShown
<1>5. ASSUME NEW p \in Partners, Enter(p) PROVE TabInv'
  <2>1. awaited = {} /\ user = Platform /\ banner = Nobody
    BY <1>1, <1>5 DEF Enter, Careful
  <2>2. awaited' = {[does |-> "enter", of |-> p]} /\ [does |-> "enter", of |-> p] \in Requests
    BY <1>5, <2>1 DEF Enter, Requests
  <2>3. \A r \in awaited' : r.does = "enter" /\ r.of = p
    BY <2>2, OneAwaited
  <2>4. UNCHANGED <<user, acting, banner, profile, media, policies, written>>
    BY <1>5 DEF Enter, where, loaded
  <2>5. TabTypes'
    BY <1>0, <2>1, <2>2, <2>4, OneAwaited DEF TabTypes
  <2>6. AnswersFindTheTab'
    BY <2>1, <2>3, <2>4 DEF AnswersFindTheTab
  <2>7. EachAtTheirOwn'
    BY <1>0, <2>1, <2>4 DEF EachAtTheirOwn
  <2>8. WritesGoWhereShown'
    BY <1>0, <2>4 DEF WritesGoWhereShown
  <2> QED BY <2>5, <2>6, <2>7, <2>8 DEF TabInv
<1>6. ASSUME NEW p \in Partners, Entered(p) PROVE TabInv'
  <2>1. user = Platform /\ banner = Nobody
    BY <1>0, <1>6 DEF Entered, AnswersFindTheTab
  <2>2. awaited' = {[does |-> "name", of |-> p]} /\ [does |-> "name", of |-> p] \in Requests
    BY <1>0, <1>6 DEF Entered, TabTypes, Requests
  <2>3. \A r \in awaited' : r.does = "name" /\ r.of = p
    BY <2>2, OneAwaited
  <2>4. acting' = p /\ UNCHANGED <<user, banner, profile, media, policies, written>>
    BY <1>6 DEF Entered, loaded
  <2>5. user # Nobody
    BY <1>0, <1>6 DEF Entered, TabTypes
  <2>6. TabTypes'
    BY <1>0, <2>2, <2>4, <2>5, OneAwaited DEF TabTypes
  <2>7. AnswersFindTheTab'
    BY <2>1, <2>3, <2>4 DEF AnswersFindTheTab
  <2>8. EachAtTheirOwn'
    BY <1>0, <2>1, <2>2, <2>4 DEF EachAtTheirOwn
  <2>9. WritesGoWhereShown'
    BY <1>0, <2>4 DEF WritesGoWhereShown
  <2> QED BY <2>6, <2>7, <2>8, <2>9 DEF TabInv
<1>7. ASSUME NEW p \in Partners, Named(p) PROVE TabInv'
  <2>1. user = Platform /\ banner = Nobody /\ acting = p
    BY <1>0, <1>7 DEF Named, AnswersFindTheTab
  <2>2. awaited' = {} /\ banner' = p
    BY <1>0, <1>7, <2>1 DEF Named, TabTypes
  <2>3. UNCHANGED <<user, acting, profile, media, policies, written>>
    BY <1>7 DEF Named, loaded
  <2>4. TabTypes'
    BY <1>0, <2>2, <2>3 DEF TabTypes
  <2>5. AnswersFindTheTab'
    BY <2>2 DEF AnswersFindTheTab
  <2>6. EachAtTheirOwn'
    BY <1>0, <2>1, <2>2, <2>3 DEF EachAtTheirOwn
  <2>7. WritesGoWhereShown'
    BY <1>0, <2>3 DEF WritesGoWhereShown
  <2> QED BY <2>4, <2>5, <2>6, <2>7 DEF TabInv
<1>8. CASE Leave
  <2>1. awaited = {} /\ user # Nobody /\ banner # Nobody
    BY <1>1, <1>8 DEF Leave
  <2>2. user = Platform
    BY <1>0, <2>1 DEF TabTypes, EachAtTheirOwn
  <2>3. /\ awaited' = {[does |-> "exit", of |-> acting]}
        /\ [does |-> "exit", of |-> acting] \in Requests
    BY <1>0, <1>8, <2>1 DEF Leave, Requests, TabTypes
  <2>4. \A r \in awaited' : r.does = "exit"
    BY <2>3, OneAwaited
  <2>5. UNCHANGED <<user, acting, banner, profile, media, policies, written>>
    BY <1>8 DEF Leave, where, loaded
  <2>6. TabTypes'
    BY <1>0, <2>1, <2>3, <2>5, OneAwaited DEF TabTypes
  <2>7. AnswersFindTheTab'
    BY <2>2, <2>4, <2>5 DEF AnswersFindTheTab
  <2>8. EachAtTheirOwn'
    BY <1>0, <2>1, <2>5 DEF EachAtTheirOwn
  <2>9. WritesGoWhereShown'
    BY <1>0, <2>5 DEF WritesGoWhereShown
  <2> QED BY <2>6, <2>7, <2>8, <2>9 DEF TabInv
<1>9. ASSUME NEW p \in Partners \cup {Initial, Nobody}, Left(p) PROVE TabInv'
  <2>1. user = Platform /\ user # Nobody
    BY <1>0, <1>9 DEF Left, AnswersFindTheTab, TabTypes
  <2>2. awaited' = {}
    BY <1>0, <1>9 DEF Left, TabTypes
  <2>3. TabTypes'
    BY <1>0, <1>9, <2>1, <2>2 DEF Left, TabTypes
  <2>4. AnswersFindTheTab'
    BY <2>2 DEF AnswersFindTheTab
  <2>5. EachAtTheirOwn'
    BY <1>9, <2>1 DEF Left, EachAtTheirOwn
  <2>6. WritesGoWhereShown'
    BY <1>0, <1>9 DEF Left, WritesGoWhereShown
  <2> QED BY <2>3, <2>4, <2>5, <2>6 DEF TabInv
<1>10. ASSUME NEW s \in Screens, Show(s) PROVE TabInv'
  <2>1. awaited = {} /\ user # Nobody
    BY <1>1, <1>10 DEF Show
  <2>2. UNCHANGED <<user, acting, banner, profile, media, policies, written>>
    BY <1>10 DEF Show, where, loaded
  <2>3. EachAtTheirOwn'
    BY <1>0, <2>1, <2>2 DEF EachAtTheirOwn
  <2>4. WritesGoWhereShown'
    BY <1>0, <2>2 DEF WritesGoWhereShown
  <2>5. CASE s = "tenants"
    <3>1. awaited' = {}
      BY <1>10, <2>1, <2>5 DEF Show
    <3> QED BY <1>0, <2>2, <2>3, <2>4, <3>1 DEF TabInv, TabTypes, AnswersFindTheTab
  <2>6. CASE s # "tenants"
    <3>1. s \in {"branding", "paymentpolicy"}
      BY <2>6 DEF Screens
    <3>2. /\ awaited' = {[does |-> s, of |-> acting]}
          /\ [does |-> s, of |-> acting] \in Requests
      BY <1>0, <1>10, <2>1, <2>6, <3>1 DEF Show, Requests, TabTypes
    <3>3. \A r \in awaited' : r.does = s /\ r.of = acting
      BY <3>2, OneAwaited
    <3>4. TabTypes'
      BY <1>0, <2>1, <2>2, <3>2, OneAwaited DEF TabTypes
    <3>5. AnswersFindTheTab'
      BY <2>2, <3>1, <3>3 DEF AnswersFindTheTab
    <3> QED BY <2>3, <2>4, <3>4, <3>5 DEF TabInv
  <2> QED BY <2>5, <2>6
<1>11. ASSUME NEW p \in Partners \cup {Initial, Nobody}, NEW s \in {"branding", "paymentpolicy"},
              [does |-> s, of |-> p] \in awaited,
              awaited' = awaited \ {[does |-> s, of |-> p]},
              UNCHANGED <<user, acting, banner, written>>,
              media' = media \/ (media = Nobody /\ media' = p),
              policies' = policies \/ (policies' = ReadOf(p) /\ ReadOf(p) \in Partners)
       PROVE  TabInv'
  <2>0. \A r \in awaited : r.does = s => r.of = acting
    BY <1>0, <1>11 DEF AnswersFindTheTab
  <2>1. p = acting /\ user # Nobody
    <3>1. [does |-> s, of |-> p].does = s /\ [does |-> s, of |-> p].of = p
      OBVIOUS
    <3>2. p = acting
      BY <1>11, <2>0, <3>1
    <3> QED BY <1>0, <1>11, <3>2 DEF TabTypes
  <2>2. awaited' = {} /\ awaited = {[does |-> s, of |-> p]}
    <3> DEFINE read == [does |-> s, of |-> p]
    <3>1. \A r, t \in awaited : r = t
      BY <1>0 DEF TabTypes
    <3>2. read \in awaited /\ awaited' = awaited \ {read}
      BY <1>11
    <3> HIDE DEF read
    <3>3. awaited = {read}
      BY <3>1, <3>2
    <3> QED BY <3>2, <3>3 DEF read
  <2>3. [does |-> "name", of |-> acting] \notin awaited
    BY <2>2
  <2>4. TabTypes'
    BY <1>0, <1>11, <2>2 DEF TabTypes
  <2>5. AnswersFindTheTab'
    BY <2>2 DEF AnswersFindTheTab
  <2>6. acting' = Initial =>
          banner' = Nobody /\ media' \notin Partners
    BY <1>0, <1>11, <2>1 DEF EachAtTheirOwn
  <2>7. user \notin Partners => ReadOf(p) = acting
    BY <2>1 DEF ReadOf
  <2>8. user = Platform => user \notin Partners
    OBVIOUS
  <2>9. acting' = Initial => policies' \notin Partners
    BY <1>0, <1>11, <2>1, <2>7 DEF EachAtTheirOwn
  <2>10. user' = Platform =>
           /\ acting' \in Partners => acting' = banner'
           /\ media' \in Partners => media' = banner'
           /\ policies' \in Partners => policies' = banner'
    BY <1>0, <1>11, <2>1, <2>3, <2>7, <2>8 DEF EachAtTheirOwn
  <2>11. EachAtTheirOwn'
    BY <1>0, <1>11, <2>6, <2>9, <2>10 DEF EachAtTheirOwn
  <2>12. WritesGoWhereShown'
    BY <1>0, <1>11 DEF WritesGoWhereShown
  <2> QED BY <2>4, <2>5, <2>11, <2>12 DEF TabInv
<1>12. ASSUME NEW p \in Partners \cup {Initial, Nobody}, BrandingRead(p) PROVE TabInv'
  BY <1>11, <1>12 DEF BrandingRead, where
<1>13. ASSUME NEW p \in Partners \cup {Initial, Nobody}, PoliciesRead(p) PROVE TabInv'
  BY <1>11, <1>13 DEF PoliciesRead, where
<1>14. CASE SaveBranding
  <2>1. acting \in Partners => acting = banner
    BY <1>0, <1>1, <1>14 DEF SaveBranding, EachAtTheirOwn
  <2> QED BY <1>14, <2>1, WriteShown DEF SaveBranding
<1>15. CASE Upload
  BY <1>0, <1>15, WriteShown DEF Upload, EachAtTheirOwn
<1>16. CASE SavePolicy
  BY <1>0, <1>16, WriteShown DEF SavePolicy, EachAtTheirOwn
<1>17. CASE UNCHANGED consoleVars
  BY <1>0, <1>17
  DEF consoleVars, TabInv, TabTypes, AnswersFindTheTab, EachAtTheirOwn, WritesGoWhereShown
<1> QED
  BY <1>2, <1>3, <1>4, <1>5, <1>6, <1>7, <1>8, <1>9, <1>10, <1>12, <1>13, <1>14, <1>15,
     <1>16, <1>17 DEF ConsoleNext

\* What a SuperAdmin writes is written under the banner of the partner it is
\* written for, with any partners and any order of presses and answers, as long
\* as each answer is let come, a partner is left before the next is entered, and
\* the page is loaded for another user.
THEOREM TabIsTruthful == ASSUME Careful PROVE ConsoleSpec => []WritesGoWhereShown
<1>1. TabInv => WritesGoWhereShown
  BY DEF TabInv
<1> QED BY <1>1, TabInitially, TabStep, PTL DEF ConsoleSpec

-----------------------------------------------------------------------------
(* The storefront. The doors read the statuses each by itself, and agree   *)
(* in every state of them.                                                 *)

\* Whoever changes what in whatever order: what the menu shows at an outlet is
\* what the order's creation takes there, since the menu's merchants are among
\* those that creation accepts and the door that resolves a QR code asks no less
\* than the order's.
THEOREM ShownIsOrderable == StorefrontSpec => []WhatIsShownCanBeOrdered
<1>1. WhatIsShownCanBeOrdered
  <2> SUFFICES ASSUME QrResolves, Has("qrOrdering"), NEW c \in HubOffers
               PROVE  Orderable(ShownAt(c))
    BY DEF WhatIsShownCanBeOrdered
  <2>1. point = "on" /\ open /\ zone = "Active"
    BY DEF QrResolves
  <2>2. ASSUME NEW g \in ShownAt(c)
        PROVE  /\ good[g] # None /\ good[g].status = "Active"
               /\ good[g].shop = None \/ shop[good[g].shop] = "Active"
    BY <2>2 DEF ShownAt, Menu, VisibleShops
  <2> QED BY <2>1, <2>2 DEF Orderable
<1> QED BY <1>1, PTL

-----------------------------------------------------------------------------
(* Branding. A picture that a layer names is stored, of that layer and for *)
(* that field: whatever deletes a picture makes every layer forget it.     *)

PictureType ==
  [scope : Scopes, type : Pictures, row : BOOLEAN, file : BOOLEAN]

Stored(id, s, f) ==
  /\ id \in DOMAIN assets
  /\ assets[id].row /\ assets[id].file
  /\ assets[id].scope = s /\ assets[id].type = f

BrandingInv ==
  /\ assets \in Seq(PictureType)
  /\ sending \subseteq [scope : Scopes, type : Pictures]
  /\ DOMAIN override = Scopes /\ \A s \in Scopes : DOMAIN override[s] = Fields
  /\ \A s \in Scopes, f \in Pictures :
       override[s][f] # Inherit => Stored(override[s][f], s, f)

LEMMA ScopesAre == Scopes = {"partner", "property", "merchant", "outlet"}
BY DEF Scopes, Layers

\* After a deletion no layer names the picture, and the others are as they were.
LEMMA DeletionIsComplete ==
  ASSUME NEW stored \in Seq(PictureType), NEW id \in DOMAIN stored,
         NEW named, DOMAIN named = Scopes, \A s \in Scopes : DOMAIN named[s] = Fields,
         NEW s \in Scopes, NEW f \in Pictures,
         Unnamed(named, id)[s][f] # Inherit,
         NEW n, n = named[s][f], n \in DOMAIN stored
  PROVE  /\ Unnamed(named, id)[s][f] = n
         /\ n \in DOMAIN Without(stored, id) /\ Without(stored, id)[n] = stored[n]
<1>1. f \in Fields
  BY DEF Fields
<1>2. Unnamed(named, id)[s][f] = IF named[s][f] = id THEN Inherit ELSE named[s][f]
  BY <1>1 DEF Unnamed
<1>3. n # id /\ Unnamed(named, id)[s][f] = n
  BY <1>2
<1> QED BY <1>3 DEF Without

LEMMA DeletionKeepsTypes ==
  ASSUME NEW stored \in Seq(PictureType), NEW id \in DOMAIN stored, NEW named
  PROVE  /\ Without(stored, id) \in Seq(PictureType)
         /\ DOMAIN Unnamed(named, id) = Scopes
         /\ \A s \in Scopes : DOMAIN Unnamed(named, id)[s] = Fields
<1>1. stored[id] \in PictureType
  OBVIOUS
<1> DEFINE once == [stored EXCEPT ![id].row = FALSE]
<1>2. once \in Seq(PictureType) /\ DOMAIN once = DOMAIN stored
  <2>1. [stored[id] EXCEPT !.row = FALSE] \in PictureType
    BY <1>1 DEF PictureType
  <2> QED BY <2>1
<1>3. Without(stored, id) = [once EXCEPT ![id].file = FALSE]
  BY DEF Without
<1>4. Without(stored, id) \in Seq(PictureType)
  <2> HIDE DEF once
  <2>1. once[id] \in PictureType
    BY <1>2
  <2>2. [once[id] EXCEPT !.file = FALSE] \in PictureType
    BY <2>1 DEF PictureType
  <2> QED BY <1>2, <1>3, <2>2
<1> QED BY <1>4 DEF Unnamed

LEMMA BrandingStep == BrandingInv /\ [BrandingNext]_brandingVars => BrandingInv'
<1> SUFFICES ASSUME BrandingInv, [BrandingNext]_brandingVars PROVE BrandingInv'
  OBVIOUS
<1>1. ASSUME UNCHANGED <<assets, sending, override>> PROVE BrandingInv'
  BY <1>1 DEF BrandingInv, Stored
<1>2. ASSUME ChangeEntitlement PROVE BrandingInv'
  BY <1>1, <1>2 DEF ChangeEntitlement
<1>3. ASSUME NEW m \in {"alnadl", "partner"}, NEW t \in {Inherit, "words"},
             SetPartnerBranding(m, t)
      PROVE  BrandingInv'
  BY <1>1, <1>3 DEF SetPartnerBranding
<1>4. ASSUME NEW s \in Worded, NEW t \in {Inherit, "words"}, SetText(s, t)
      PROVE  BrandingInv'
  <2>1. s \in Scopes
    BY BrandingAssumption
  <2>2. assets' = assets /\ sending' = sending
    BY <1>4 DEF SetText
  <2>3. override' = [override EXCEPT ![s] = [override[s] EXCEPT !["text"] = t]]
    BY <1>4 DEF SetText
  <2>4. \A r \in Scopes, f \in Pictures : override'[r][f] = override[r][f]
    BY <2>1, <2>3 DEF BrandingInv, Pictures, Fields
  <2>5. DOMAIN override' = Scopes /\ \A r \in Scopes : DOMAIN override'[r] = Fields
    BY <2>1, <2>3 DEF BrandingInv
  <2> QED BY <2>2, <2>4, <2>5 DEF BrandingInv, Stored
<1>5. ASSUME NEW s \in Scopes, ClearOverride(s) PROVE BrandingInv'
  <2>1. assets' = assets /\ sending' = sending /\ override' = [override EXCEPT ![s] = Inherits]
    BY <1>5 DEF ClearOverride
  <2>2. \A r \in Scopes, f \in Pictures :
          override'[r][f] = override[r][f] \/ override'[r][f] = Inherit
    BY <2>1 DEF BrandingInv, Inherits, Fields
  <2>3. DOMAIN override' = Scopes /\ \A r \in Scopes : DOMAIN override'[r] = Fields
    BY <2>1 DEF BrandingInv, Inherits
  <2> QED BY <2>1, <2>2, <2>3 DEF BrandingInv, Stored
<1>6. ASSUME NEW s \in Pictured, NEW type \in Pictures, BeginUpload(s, type)
      PROVE  BrandingInv'
  <2>1. assets' = assets /\ override' = override
          /\ sending' = {[scope |-> s, type |-> type]} /\ s \in Scopes
    BY <1>6, BrandingAssumption DEF BeginUpload
  <2> QED BY <2>1 DEF BrandingInv, Stored
<1>7. ASSUME RefuseUpload PROVE BrandingInv'
  BY <1>7 DEF RefuseUpload, BrandingInv, Stored
<1>8. ASSUME NEW s \in Pictured, NEW type \in Pictures, FinishUpload(s, type)
      PROVE  BrandingInv'
  <2> DEFINE new == Len(assets) + 1
             picture == [scope |-> s, type |-> type, row |-> TRUE, file |-> TRUE]
             old == override[s][type]
             stored == Append(assets, picture)
             named == [override EXCEPT ![s][type] = new]
  <2>1. /\ s \in Scopes /\ type \in Fields /\ sending' = {}
        /\ assets' = IF old = Inherit THEN stored ELSE Without(stored, old)
        /\ override' = IF old = Inherit THEN named ELSE Unnamed(named, old)
    BY <1>8, BrandingAssumption DEF FinishUpload, Fields
  <2>2. /\ stored \in Seq(PictureType) /\ new \in DOMAIN stored /\ stored[new] = picture
        /\ \A id \in DOMAIN assets : id \in DOMAIN stored /\ id # new /\ stored[id] = assets[id]
    <3>1. picture \in PictureType
      BY <2>1 DEF PictureType
    <3> HIDE DEF picture
    <3> QED BY <3>1 DEF BrandingInv
  <2>3. /\ DOMAIN named = Scopes /\ \A r \in Scopes : DOMAIN named[r] = Fields
        /\ named[s][type] = new
        /\ \A r \in Scopes, f \in Pictures : r # s \/ f # type => named[r][f] = override[r][f]
    <3>1. named = [override EXCEPT ![s] = [override[s] EXCEPT ![type] = new]]
      OBVIOUS
    <3> HIDE DEF named, new
    <3> QED BY <2>1, <3>1 DEF BrandingInv, Fields
  <2>4. \A r \in Scopes, f \in Pictures : named[r][f] # Inherit =>
          /\ named[r][f] \in DOMAIN stored
          /\ stored[named[r][f]].row /\ stored[named[r][f]].file
          /\ stored[named[r][f]].scope = r /\ stored[named[r][f]].type = f
    <3> SUFFICES ASSUME NEW r \in Scopes, NEW f \in Pictures, named[r][f] # Inherit
                 PROVE  /\ named[r][f] \in DOMAIN stored
                        /\ stored[named[r][f]].row /\ stored[named[r][f]].file
                        /\ stored[named[r][f]].scope = r /\ stored[named[r][f]].type = f
      OBVIOUS
    <3>1. CASE r = s /\ f = type
      BY <2>2, <2>3, <3>1
    <3>2. CASE r # s \/ f # type
      <4>1. named[r][f] = override[r][f]
        BY <2>3, <3>2
      <4>2. Stored(override[r][f], r, f)
        BY <4>1 DEF BrandingInv
      <4> HIDE DEF named, stored
      <4> QED BY <2>2, <4>1, <4>2 DEF Stored
    <3> QED BY <3>1, <3>2
  <2> HIDE DEF named, stored, new
  <2>5. CASE old = Inherit
    BY <2>1, <2>2, <2>3, <2>4, <2>5 DEF BrandingInv, Stored
  <2>6. CASE old # Inherit
    <3>1. old \in DOMAIN stored
      BY <2>1, <2>2, <2>6 DEF BrandingInv, Stored
    <3>2. /\ assets' = Without(stored, old) /\ override' = Unnamed(named, old)
          /\ Without(stored, old) \in Seq(PictureType)
          /\ DOMAIN Unnamed(named, old) = Scopes
          /\ \A r \in Scopes : DOMAIN Unnamed(named, old)[r] = Fields
      BY <2>1, <2>2, <2>6, <3>1, DeletionKeepsTypes
    <3>3. ASSUME NEW r \in Scopes, NEW f \in Pictures, override'[r][f] # Inherit
          PROVE  /\ override'[r][f] \in DOMAIN assets'
                 /\ assets'[override'[r][f]].row /\ assets'[override'[r][f]].file
                 /\ assets'[override'[r][f]].scope = r /\ assets'[override'[r][f]].type = f
      <4>0. PICK n : n = named[r][f]
        OBVIOUS
      <4>1. named[r][f] # Inherit
        BY <3>2, <3>3 DEF Unnamed, Fields
      <4>2. n \in DOMAIN stored
        BY <2>4, <4>0, <4>1
      <4>3. override'[r][f] = n /\ n \in DOMAIN assets' /\ assets'[n] = stored[n]
        BY <2>2, <2>3, <3>1, <3>2, <3>3, <4>0, <4>2, DeletionIsComplete
      <4> QED BY <2>4, <4>0, <4>1, <4>3
    <3> QED BY <2>1, <3>2, <3>3 DEF BrandingInv, Stored
  <2> QED BY <2>5, <2>6
<1>9. ASSUME NEW id \in DOMAIN assets, DeletePicture(id) PROVE BrandingInv'
  <2>1. assets' = Without(assets, id) /\ override' = Unnamed(override, id) /\ sending' = sending
    BY <1>9 DEF DeletePicture
  <2>2. /\ Without(assets, id) \in Seq(PictureType)
        /\ DOMAIN Unnamed(override, id) = Scopes
        /\ \A s \in Scopes : DOMAIN Unnamed(override, id)[s] = Fields
    BY DeletionKeepsTypes DEF BrandingInv
  <2>3. ASSUME NEW s \in Scopes, NEW f \in Pictures, override'[s][f] # Inherit
        PROVE  /\ override'[s][f] \in DOMAIN assets'
               /\ assets'[override'[s][f]].row /\ assets'[override'[s][f]].file
               /\ assets'[override'[s][f]].scope = s /\ assets'[override'[s][f]].type = f
    <3>0. PICK n : n = override[s][f]
      OBVIOUS
    <3>1. override[s][f] # Inherit
      BY <2>1, <2>3 DEF Unnamed, Fields
    <3>2. Stored(n, s, f)
      BY <3>0, <3>1 DEF BrandingInv
    <3>3. override'[s][f] = n /\ n \in DOMAIN assets' /\ assets'[n] = assets[n]
      BY <2>1, <2>3, <3>0, <3>2, DeletionIsComplete DEF BrandingInv, Stored
    <3> QED BY <3>2, <3>3 DEF Stored
  <2> QED BY <2>1, <2>2, <2>3 DEF BrandingInv, Stored
<1>10. CASE UNCHANGED brandingVars
  BY <1>1, <1>10 DEF brandingVars
<1> QED
  BY <1>2, <1>3, <1>4, <1>5, <1>6, <1>7, <1>8, <1>9, <1>10 DEF BrandingNext

\* The strongest of the layers that name a picture names one.
LEMMA StrongestNames ==
  ASSUME NEW f \in Pictures, NEW s \in Scopes, Strongest(f, Len(Layers)) = s
  PROVE  override[s][f] # Inherit
<1> DEFINE set == {i \in 1..4 : override[Layers[i]][f] # Inherit}
<1>1. Len(Layers) = 4
  BY DEF Layers
<1>2. Strongest(f, Len(Layers)) = IF set # {} THEN Layers[Max(set)]
                                  ELSE IF f = "text" /\ table # Inherit THEN "table" ELSE "default"
  BY <1>1 DEF Strongest
<1>3. set # {}
  BY <1>2, ScopesAre
<1>4. \E i \in set : \A j \in set : i >= j
  <2> DEFINE P(i) == override[Layers[i]][f] # Inherit
  <2>1. set = {i \in 1..4 : P(i)}
    OBVIOUS
  <2> HIDE DEF P
  <2>2. (P(4) => 4 \in set) /\ (P(3) => 3 \in set) /\ (P(2) => 2 \in set) /\ (P(1) => 1 \in set)
    BY <2>1
  <2>3. \A i \in set : P(i) /\ i \in {1, 2, 3, 4}
    BY <2>1
  <2> HIDE DEF set
  <2>4. CASE P(4)
    BY <2>2, <2>3, <2>4
  <2>5. CASE ~P(4) /\ P(3)
    BY <2>2, <2>3, <2>5
  <2>6. CASE ~P(4) /\ ~P(3) /\ P(2)
    BY <2>2, <2>3, <2>6
  <2>7. CASE ~P(4) /\ ~P(3) /\ ~P(2)
    BY <1>3, <2>2, <2>3, <2>7
  <2> QED BY <2>4, <2>5, <2>6, <2>7
<1>5. Max(set) \in set
  BY <1>4 DEF Max
<1> QED BY <1>2, <1>3, <1>5

LEMMA StoredIsShown == BrandingInv => ShowsOnlyItsPictures
<1> SUFFICES ASSUME BrandingInv, NEW f \in Pictures, NEW s \in Scopes,
                    s = Source(f, Len(Layers))
             PROVE  /\ assets[override[s][f]].row /\ assets[override[s][f]].file
                    /\ f = "banner" /\ (\E g \in Fields : Source(g, Len(Layers)) = "merchant")
                         => assets[override[s][f]].scope \in {"merchant", "outlet"}
  <2>1. \A f \in Pictures : f \in Fields
    BY DEF Fields
  <2> QED BY <2>1, Zenon DEF ShowsOnlyItsPictures
<1>1. s # "none"
  BY ScopesAre
<1>2. s = Strongest(f, Len(Layers))
  BY <1>1 DEF Source
<1>3. Stored(override[s][f], s, f)
  BY <1>2, StrongestNames DEF BrandingInv
<1>4. ASSUME f = "banner", NEW g \in Fields, Source(g, Len(Layers)) = "merchant"
      PROVE  s \in {"merchant", "outlet"}
  <2>1. Strongest(g, Len(Layers)) = "merchant"
    BY <1>4 DEF Source
  <2> QED BY <1>1, <1>2, <1>4, <2>1 DEF Source
<1> QED BY <1>3, <1>4 DEF Stored

\* Whatever is uploaded, replaced, deleted and cleared in whatever order, and with
\* any number of pictures, a guest is shown only what is stored, and beside a
\* merchant's brand no banner of the property's or the partner's.
THEOREM OnlyItsPictures == BrandingSpec => []ShowsOnlyItsPictures
<1>1. BrandingInit => BrandingInv
  <2> SUFFICES ASSUME BrandingInit PROVE BrandingInv
    OBVIOUS
  <2>1. \A s \in Scopes : DOMAIN override[s] = Fields
          /\ \A f \in Pictures : override[s][f] = Inherit
    BY DEF BrandingInit, Inherits, Fields
  <2> QED BY <2>1 DEF BrandingInit, BrandingInv
<1> QED BY <1>1, BrandingStep, StoredIsShown, PTL DEF BrandingSpec

-----------------------------------------------------------------------------
(* The ledger's arithmetic. A fraction that is booked is off by at most    *)
(* half a halala (Round2Within); the amounts before rounding are whole     *)
(* parts, so percentages of them lose nothing (PercentAdds).               *)

LEMMA DivisionBounds ==
  ASSUME NEW a \in Int, NEW d \in Nat \ {0}
  PROVE  /\ a \div d \in Int
         /\ (a \div d) * d <= a
         /\ a < (a \div d) * d + d
OBVIOUS

LEMMA PartType == Part \in Nat \ {0}
BY SubtotalAssumption DEF Part

\* What is booked of an amount of parts is within half a halala of it, upward.
LEMMA Round2Within ==
  ASSUME NEW x \in Int
  PROVE  /\ Round2(x) \in Int
         /\ 2 * (Round2(x) * Part) - 2 * x <= Part
         /\ 2 * x - 2 * (Round2(x) * Part) < Part
<1> DEFINE q == Round2(x)
           d == 2 * Part
<1>1. 2 * x + Part \in Int /\ d \in Nat \ {0}
  BY PartType
<1>2. q = (2 * x + Part) \div d
  BY DEF Round2
<1> HIDE DEF q, d
<1>3. q \in Int /\ q * d <= 2 * x + Part /\ 2 * x + Part < q * d + d
  BY <1>1, <1>2, DivisionBounds
<1>4. q * d = 2 * (q * Part)
  BY <1>3, PartType DEF d
<1> QED BY <1>3, <1>4, PartType DEF q, d

LEMMA Distributes ==
  ASSUME NEW x \in Int, NEW y \in Int, NEW z \in Int
  PROVE  /\ (x + y) * z = x * z + y * z
         /\ (x - y) * z = x * z - y * z
OBVIOUS

LEMMA PercentOfHundreds ==
  ASSUME NEW rate \in Int, NEW w \in Int
  PROVE  Percent(rate, 100 * w) = rate * w
<1>1. rate * (100 * w) = 100 * (rate * w) /\ rate * w \in Int
  OBVIOUS
<1>2. \A k \in Int : (100 * k) \div 100 = k
  OBVIOUS
<1> QED BY <1>1, <1>2 DEF Percent

LEMMA GrossType == \A o \in Sellers : Gross[o] \in Nat \ {0}
BY GrossAssumption

\* The parts of a hundredth of a sale's base and of a refund's.
SaleParts(o) == 23 * (Gross[o] * (Subtotal - discount))
RefundParts(o, amount) == 20 * (Gross[o] * amount)

LEMMA SaleBaseIs ==
  ASSUME NEW o \in Sellers, discount \in Int
  PROVE  SaleParts(o) \in Int /\ SaleBase(o) = 100 * SaleParts(o)
<1> DEFINE g == Gross[o]
           s == Subtotal - discount
<1>1. g \in Int /\ s \in Int
  BY GrossType, SubtotalAssumption
<1> HIDE DEF g, s
<1>2. g * s \in Int /\ (2300 * g) * s = 100 * (23 * (g * s))
  BY <1>1
<1> QED BY <1>2 DEF g, s, SaleParts, SaleBase

LEMMA RefundBaseIs ==
  ASSUME NEW o \in Sellers, NEW amount \in Int
  PROVE  RefundParts(o, amount) \in Int /\ RefundBase(o, amount) = 100 * RefundParts(o, amount)
<1> DEFINE g == Gross[o]
<1>1. g \in Int
  BY GrossType
<1> HIDE DEF g
<1>2. g * amount \in Int /\ (2000 * g) * amount = 100 * (20 * (g * amount))
  BY <1>1
<1> QED BY <1>2 DEF g, RefundParts, RefundBase

LEMMA RefundBaseAdds ==
  ASSUME NEW o \in Sellers, NEW x \in Int, NEW y \in Int
  PROVE  RefundBase(o, x + y) = RefundBase(o, x) + RefundBase(o, y)
<1> DEFINE g == 2000 * Gross[o]
<1>1. g \in Int
  BY GrossType
<1> HIDE DEF g
<1>2. g * (x + y) = g * x + g * y
  BY <1>1
<1> QED BY <1>2 DEF g, RefundBase

\* The rate Alnadl takes of every base under a model.
RateOf(m) == CASE m.type = "share" -> 100 - m.rate
               [] m.type = "fixed" -> 0
               [] OTHER -> m.rate

\* What it takes besides.
FeeOf(m) == IF m.type \in {"fixed", "hybrid"} THEN m.fee ELSE 0

LEMMA AlnadlPartIs ==
  ASSUME NEW m \in Models, NEW w \in Int
  PROVE  /\ RateOf(m) \in 0..100 /\ FeeOf(m) \in Nat
         /\ AlnadlPart(m, 100 * w) = RateOf(m) * w + FeeOf(m) * Part
         /\ AlnadlPart(m, 100 * w) \in Int
<1>1. m.type \in {"share", "commission", "fixed", "hybrid"} /\ m.rate \in 0..100 /\ m.fee \in Nat
  BY ModelsAssumption
<1>2. RateOf(m) \in 0..100 /\ FeeOf(m) \in Nat
  BY <1>1 DEF RateOf, FeeOf
<1>3. RateOf(m) * w \in Int /\ FeeOf(m) * Part \in Int
  BY <1>2, PartType
<1>4. CASE m.type = "share"
  <2>0. Percent(100 - m.rate, 100 * w) = (100 - m.rate) * w
    <3>1. 100 - m.rate \in Int
      BY <1>1
    <3> QED BY <3>1, PercentOfHundreds
  <2>1. AlnadlPart(m, 100 * w) = (100 - m.rate) * w
    BY <1>4, <2>0 DEF AlnadlPart
  <2>2. RateOf(m) = 100 - m.rate /\ FeeOf(m) = 0
    BY <1>4 DEF RateOf, FeeOf
  <2>3. FeeOf(m) * Part = 0
    BY <2>2, PartType
  <2> QED BY <1>2, <1>3, <2>1, <2>2, <2>3
<1>5. CASE m.type = "commission"
  <2>0. Percent(m.rate, 100 * w) = m.rate * w
    BY <1>1, PercentOfHundreds
  <2>1. AlnadlPart(m, 100 * w) = m.rate * w
    BY <1>5, <2>0 DEF AlnadlPart
  <2>2. RateOf(m) = m.rate /\ FeeOf(m) = 0
    BY <1>5 DEF RateOf, FeeOf
  <2>3. FeeOf(m) * Part = 0
    BY <2>2, PartType
  <2> QED BY <1>2, <1>3, <2>1, <2>2, <2>3
<1>6. CASE m.type = "fixed"
  <2>1. AlnadlPart(m, 100 * w) = m.fee * Part
    BY <1>6 DEF AlnadlPart
  <2>2. RateOf(m) = 0 /\ FeeOf(m) = m.fee
    BY <1>6 DEF RateOf, FeeOf
  <2>3. RateOf(m) * w = 0
    BY <2>2
  <2> QED BY <1>2, <1>3, <2>1, <2>2, <2>3
<1>7. CASE m.type = "hybrid"
  <2>0. Percent(m.rate, 100 * w) = m.rate * w
    BY <1>1, PercentOfHundreds
  <2>1. AlnadlPart(m, 100 * w) = m.rate * w + m.fee * Part
    BY <1>7, <2>0 DEF AlnadlPart
  <2>2. RateOf(m) = m.rate /\ FeeOf(m) = m.fee
    BY <1>7 DEF RateOf, FeeOf
  <2> QED BY <1>2, <1>3, <2>1, <2>2
<1> QED BY <1>1, <1>4, <1>5, <1>6, <1>7

-----------------------------------------------------------------------------
(* The ledger's rows. Each adds at most half a halala of rounding, so the  *)
(* sums stay within as many halves as there are rows.                      *)

LedgerTypes ==
  /\ model \in [Sellers -> Models]
  /\ discount \in 0..Subtotal
  /\ refunded \in Nat
  /\ isFull \in BOOLEAN
  /\ snapshot # <<>> => snapshot \in [Sellers -> Models]
  /\ booked \in [Sellers -> [base : Int, partner : Int, alnadl : Int, rows : Nat]]

\* Before the sale nothing is refunded; the first row is the sale's.
RowsInv ==
  /\ snapshot = <<>> => refunded = 0 /\ ~isFull
  /\ snapshot # <<>> => \A o \in Sellers :
       /\ booked[o].rows >= 1
       /\ booked[o].rows = 1 =>
            /\ refunded = 0 /\ ~isFull
            /\ booked[o].alnadl = Round2(AlnadlPart(snapshot[o], SaleBase(o)))

LedgerInv == LedgerTypes /\ RowsInv /\ BaseIsWhatIsKept /\ RefundFollowsTheSale

LEMMA WithinIs ==
  ASSUME NEW x \in Int, NEW k \in Nat
  PROVE  /\ k * Part \in Nat
         /\ Within(x, k) <=> -(k * Part) <= 2 * x /\ 2 * x <= k * Part
<1>1. k * Part \in Nat
  BY PartType
<1>2. -k * Part = -(k * Part)
  BY <1>1, PartType
<1> QED BY <1>1, <1>2 DEF Within

\* One more row is one more half, two more amounts are two.
LEMMA WithinAdds ==
  ASSUME NEW x \in Int, NEW y \in Int, NEW k \in Nat, NEW n \in Nat,
         Within(x, k), Within(y, n)
  PROVE  Within(x + y, k + n)
<1>1. (k + n) * Part = k * Part + n * Part
  BY PartType
<1>2. k * Part \in Nat /\ -(k * Part) <= 2 * x /\ 2 * x <= k * Part
  BY WithinIs
<1>3. n * Part \in Nat /\ -(n * Part) <= 2 * y /\ 2 * y <= n * Part
  BY WithinIs
<1>4. -((k + n) * Part) <= 2 * (x + y) /\ 2 * (x + y) <= (k + n) * Part
  BY <1>1, <1>2, <1>3
<1>5. x + y \in Int /\ k + n \in Nat
  OBVIOUS
<1> QED BY <1>4, <1>5, WithinIs

LEMMA OneHalf ==
  ASSUME NEW x \in Int
  PROVE  Within(Round2(x) * Part - x, 1) /\ Within(x - Round2(x) * Part, 1)
<1> DEFINE y == Round2(x) * Part
<1>1. y \in Int /\ 2 * y - 2 * x <= Part /\ 2 * x - 2 * y < Part
  BY Round2Within, PartType
<1> HIDE DEF y
<1>2. 1 * Part = Part /\ y - x \in Int /\ x - y \in Int
  BY <1>1, PartType
<1>3. Within(y - x, 1)
  BY <1>1, <1>2, WithinIs, PartType
<1>4. Within(x - y, 1)
  BY <1>1, <1>2, WithinIs, PartType
<1> QED BY <1>3, <1>4 DEF y

LEMMA SaleRowWithin ==
  ASSUME NEW m \in Models, NEW w \in Int
  PROVE  LET row == Row(m, 100 * w) IN
         /\ row \in [base : Int, partner : Int, alnadl : Int, rows : Nat]
         /\ row.rows = 1 /\ row.alnadl = Round2(AlnadlPart(m, 100 * w))
         /\ Within(row.base * Part - 100 * w, 1)
         /\ Within((row.partner + row.alnadl) * Part - 100 * w, 2)
         /\ Within(row.alnadl * Part - AlnadlPart(m, 100 * w), 1)
<1> DEFINE base == 100 * w
           part == AlnadlPart(m, base)
           row == Row(m, base)
<1>1. base \in Int /\ part \in Int
  <2>1. AlnadlPart(m, 100 * w) \in Int
    BY AlnadlPartIs
  <2> QED BY <2>1
<1>2. base - part \in Int
  BY <1>1
<1>3. row.base = Round2(base) /\ row.partner = Round2(base - part)
        /\ row.alnadl = Round2(part) /\ row.rows = 1
  BY DEF Row
<1>4. row.base \in Int /\ row.partner \in Int /\ row.alnadl \in Int
  BY <1>1, <1>2, <1>3, Round2Within
<1>5. row \in [base : Int, partner : Int, alnadl : Int, rows : Nat]
  BY <1>3, <1>4 DEF Row
<1>6. Within(row.base * Part - base, 1)
  BY <1>1, <1>3, OneHalf
<1>7. Within(row.alnadl * Part - part, 1)
  BY <1>1, <1>3, OneHalf
<1>8. Within(row.partner * Part - (base - part), 1)
  BY <1>2, <1>3, OneHalf
<1>9. Within((row.partner + row.alnadl) * Part - base, 2)
  <2> DEFINE x == row.partner * Part - (base - part)
             y == row.alnadl * Part - part
  <2>1. row.partner * Part \in Int /\ row.alnadl * Part \in Int
    BY <1>4, PartType
  <2>2. x \in Int /\ y \in Int
    BY <1>1, <2>1
  <2>3. (row.partner + row.alnadl) * Part = row.partner * Part + row.alnadl * Part
    BY <1>4, PartType, Distributes
  <2>4. x + y = (row.partner + row.alnadl) * Part - base
    BY <1>1, <2>1, <2>3
  <2>5. Within(x + y, 1 + 1)
    BY <1>7, <1>8, <2>2, WithinAdds
  <2> QED BY <2>4, <2>5
<1> QED BY <1>3, <1>5, <1>6, <1>7, <1>9

\* The same of a refund's row, which is taken off: its base is rounded as the
\* negative it is booked as.
LEMMA RefundRowWithin ==
  ASSUME NEW o \in Sellers, NEW amount \in Int, ModelOfSale[o] \in Models
  PROVE  LET row == RefundRow(o, amount)
             base == RefundBase(o, amount)
             part == AlnadlPart(ModelOfSale[o], base) IN
         /\ base \in Int /\ part \in Int
         /\ row.base \in Int /\ row.partner \in Int /\ row.alnadl \in Int
         /\ row.alnadl = Round2(part)
         /\ Within(base - row.base * Part, 1)
         /\ Within(base - (row.partner + row.alnadl) * Part, 2)
         /\ Within(part - row.alnadl * Part, 1)
<1> DEFINE base == RefundBase(o, amount)
           m == ModelOfSale[o]
           part == AlnadlPart(m, base)
           row == RefundRow(o, amount)
<1>1. base \in Int /\ part \in Int
  <2>1. RefundParts(o, amount) \in Int /\ base = 100 * RefundParts(o, amount)
    BY RefundBaseIs
  <2>2. AlnadlPart(m, 100 * RefundParts(o, amount)) \in Int
    BY <2>1, AlnadlPartIs
  <2> QED BY <2>1, <2>2
<1>2. base - part \in Int /\ -base \in Int
  BY <1>1
<1>3. row.base = -Round2(-base) /\ row.partner = Round2(base - part)
        /\ row.alnadl = Round2(part)
  BY DEF RefundRow, Row
<1>4. row.base \in Int /\ row.partner \in Int /\ row.alnadl \in Int
        /\ Round2(-base) \in Int
  BY <1>1, <1>2, <1>3, Round2Within
<1>6. Within(base - row.base * Part, 1)
  <2>1. Within(Round2(-base) * Part - (-base), 1)
    BY <1>2, OneHalf
  <2>2. row.base * Part = -(Round2(-base) * Part) /\ Round2(-base) * Part \in Int
    BY <1>3, <1>4, PartType
  <2>3. base - row.base * Part = Round2(-base) * Part - (-base)
    BY <1>1, <2>2
  <2> QED BY <2>1, <2>3
<1>7. Within(part - row.alnadl * Part, 1)
  BY <1>1, <1>3, OneHalf
<1>8. Within((base - part) - row.partner * Part, 1)
  BY <1>2, <1>3, OneHalf
<1>9. Within(base - (row.partner + row.alnadl) * Part, 2)
  <2> DEFINE x == (base - part) - row.partner * Part
             y == part - row.alnadl * Part
  <2>1. row.partner * Part \in Int /\ row.alnadl * Part \in Int
    BY <1>4, PartType
  <2>2. x \in Int /\ y \in Int
    BY <1>1, <2>1
  <2>3. (row.partner + row.alnadl) * Part = row.partner * Part + row.alnadl * Part
    BY <1>4, PartType, Distributes
  <2>4. x + y = base - (row.partner + row.alnadl) * Part
    BY <1>1, <2>1, <2>3
  <2>5. Within(x + y, 1 + 1)
    BY <1>7, <1>8, <2>2, WithinAdds
  <2> QED BY <2>4, <2>5
<1> QED BY <1>1, <1>3, <1>4, <1>6, <1>7, <1>9

\* All that was paid is, before VAT, within half a halala of all that was sold,
\* so refunding it takes back Alnadl's rate of the sale up to a halala.
LEMMA FullRefund ==
  ASSUME NEW o \in Sellers, NEW m \in Models, discount \in 0..Subtotal,
         NEW amount, amount = (230 * (Subtotal - discount) + 100) \div 200
  PROVE  Within((Round2(AlnadlPart(m, SaleBase(o)))
                   - Round2(AlnadlPart(m, RefundBase(o, amount)))) * Part, 2)
<1> DEFINE g == Gross[o]
           s == Subtotal - discount
           x == AlnadlPart(m, SaleBase(o))
           y == AlnadlPart(m, RefundBase(o, amount))
           w == SaleParts(o) - RefundParts(o, amount)
<1>1. g \in Nat /\ s \in Nat /\ g <= Subtotal /\ Subtotal \in Nat \ {0} /\ discount \in Int
  BY GrossType, SubtotalAssumption
<1>2. amount \in Int /\ 200 * amount <= 230 * s + 100 /\ 230 * s + 100 < 200 * amount + 200
  <2>1. 230 * s + 100 \in Int
    BY <1>1
  <2> QED BY <2>1, DivisionBounds
<1>3. SaleParts(o) \in Int /\ RefundParts(o, amount) \in Int /\ w \in Int
        /\ SaleBase(o) = 100 * SaleParts(o)
        /\ RefundBase(o, amount) = 100 * RefundParts(o, amount)
  BY <1>1, <1>2, SaleBaseIs, RefundBaseIs
<1>4. w <= 10 * Subtotal /\ -(10 * Subtotal) <= w
  <2> DEFINE e == 23 * s - 20 * amount
  <2>1. e \in Int /\ -10 <= e /\ e <= 10
    BY <1>1, <1>2
  <2>2. w = g * e
    <3>1. g * s \in Int /\ g * amount \in Int
      BY <1>1, <1>2
    <3>2. g * e = 23 * (g * s) - 20 * (g * amount)
      <4> HIDE DEF g, s
      <4> QED BY <1>1, <1>2
    <3> QED BY <3>2 DEF SaleParts, RefundParts
  <2> HIDE DEF e, g, w
  <2>3. g * e <= 10 * g /\ -(10 * g) <= g * e
    BY <1>1, <2>1
  <2> QED BY <1>1, <2>2, <2>3
<1>5. PICK r \in 0..100 : r = RateOf(m)
  BY AlnadlPartIs
<1>6. PICK f \in Nat : f = FeeOf(m)
  BY AlnadlPartIs
<1>7. x = r * SaleParts(o) + f * Part /\ y = r * RefundParts(o, amount) + f * Part
        /\ x \in Int /\ y \in Int
  BY <1>3, <1>5, <1>6, AlnadlPartIs
<1>8. x - y = r * w
  <2>1. r * w = r * SaleParts(o) - r * RefundParts(o, amount)
    BY <1>3, <1>5
  <2>2. r * SaleParts(o) \in Int /\ r * RefundParts(o, amount) \in Int /\ f * Part \in Int
    BY <1>3, <1>5, <1>6, PartType
  <2> QED BY <1>7, <2>1, <2>2
<1> HIDE DEF x, y, w
<1>9. r * w <= 1000 * Subtotal /\ -(1000 * Subtotal) <= r * w
  <2>1. ASSUME NEW k \in Nat, w <= k, -k <= w
        PROVE  r * w <= 100 * k /\ -(100 * k) <= r * w
    BY <1>3, <2>1
  <2>2. 10 * Subtotal \in Nat
    BY <1>1
  <2> QED BY <1>1, <1>4, <2>1, <2>2
<1>10. 2 * (x - y) < Part /\ 2 * (y - x) < Part
  BY <1>1, <1>7, <1>8, <1>9 DEF Part
<1> DEFINE a == Round2(x)
           b == Round2(y)
<1>11. /\ a \in Int /\ 2 * (a * Part) - 2 * x <= Part /\ 2 * x - 2 * (a * Part) < Part
       /\ b \in Int /\ 2 * (b * Part) - 2 * y <= Part /\ 2 * y - 2 * (b * Part) < Part
  BY <1>7, Round2Within
<1> HIDE DEF a, b
<1>12. (a - b) * Part = a * Part - b * Part /\ a * Part \in Int /\ b * Part \in Int
  BY <1>11, PartType, Distributes
<1>13. 2 * ((a - b) * Part) < 3 * Part /\ -(3 * Part) < 2 * ((a - b) * Part)
  BY <1>7, <1>10, <1>11, <1>12, PartType
<1>14. a - b <= 1 /\ -1 <= a - b
  <2>1. ASSUME NEW d \in Int, 2 * (d * Part) < 3 * Part, -(3 * Part) < 2 * (d * Part)
        PROVE  d <= 1 /\ -1 <= d
    BY <2>1, PartType
  <2> QED BY <1>11, <1>13, <2>1
<1>15. (a - b) * Part <= Part /\ -Part <= (a - b) * Part
  BY <1>11, <1>14, PartType
<1>16. Within((a - b) * Part, 2)
  <2>1. (a - b) * Part \in Int
    BY <1>12
  <2> QED BY <1>15, <2>1, WithinIs, PartType
<1> QED BY <1>16 DEF a, b, x, y

LEMMA LedgerBegins == LedgerInit => LedgerInv
<1> SUFFICES ASSUME LedgerInit PROVE LedgerInv
  OBVIOUS
<1>1. LedgerTypes
  <2>1. booked \in [Sellers -> [base : Int, partner : Int, alnadl : Int, rows : Nat]]
    <3>1. NoRow \in [base : Int, partner : Int, alnadl : Int, rows : Nat]
      BY DEF NoRow
    <3> QED BY <3>1 DEF LedgerInit
  <2>2. discount \in 0..Subtotal
    BY SubtotalAssumption DEF LedgerInit
  <2> QED BY <2>1, <2>2 DEF LedgerInit, LedgerTypes
<1>2. RowsInv /\ BaseIsWhatIsKept /\ RefundFollowsTheSale
  BY DEF LedgerInit, RowsInv, BaseIsWhatIsKept, RefundFollowsTheSale
<1> QED BY <1>1, <1>2 DEF LedgerInv

\* What is kept of a sale, before and after another refund.
LEMMA KeptIs ==
  ASSUME NEW o \in Sellers, discount \in Int, refunded \in Int
  PROVE  /\ Kept(o) \in Int
         /\ refunded = 0 => Kept(o) = SaleBase(o)
         /\ \E w \in Int : Kept(o) = 100 * w
<1>1. SaleParts(o) \in Int /\ SaleBase(o) = 100 * SaleParts(o)
  BY SaleBaseIs
<1>2. RefundParts(o, refunded) \in Int /\ RefundBase(o, refunded) = 100 * RefundParts(o, refunded)
  BY RefundBaseIs
<1>3. Kept(o) = 100 * (SaleParts(o) - RefundParts(o, refunded))
  BY <1>1, <1>2 DEF Kept
<1>4. refunded = 0 => RefundBase(o, refunded) = 0
  BY GrossType DEF RefundBase
<1> QED BY <1>1, <1>2, <1>3, <1>4 DEF Kept

LEMMA SaleKeepsLedger == LedgerInv /\ RecordSale => LedgerInv'
<1> SUFFICES ASSUME LedgerInv, RecordSale PROVE LedgerInv'
  OBVIOUS
<1>1. /\ model' = model /\ discount' = discount /\ refunded' = refunded /\ isFull' = isFull
      /\ snapshot' = model /\ refunded = 0 /\ ~isFull
      /\ booked' = [o \in Sellers |-> Row(model[o], SaleBase(o))]
  BY DEF RecordSale, LedgerInv, RowsInv
<1>2. /\ model \in [Sellers -> Models] /\ discount \in 0..Subtotal /\ discount \in Int
  BY SubtotalAssumption DEF LedgerInv, LedgerTypes
<1>3. ASSUME NEW o \in Sellers
      PROVE  /\ booked'[o] \in [base : Int, partner : Int, alnadl : Int, rows : Nat]
             /\ booked'[o].rows = 1
             /\ booked'[o].alnadl = Round2(AlnadlPart(snapshot'[o], SaleBase(o)))
             /\ SaleBase(o)' = SaleBase(o) /\ Kept(o)' = SaleBase(o)
             /\ Within(booked'[o].base * Part - SaleBase(o), 1)
             /\ Within((booked'[o].partner + booked'[o].alnadl) * Part - SaleBase(o), 2)
             /\ Within(booked'[o].alnadl * Part - AlnadlPart(snapshot'[o], SaleBase(o)), 1)
  <2>1. SaleParts(o) \in Int /\ SaleBase(o) = 100 * SaleParts(o)
    BY <1>2, SaleBaseIs
  <2>2. booked'[o] = Row(model[o], SaleBase(o)) /\ snapshot'[o] = model[o] /\ model[o] \in Models
    BY <1>1, <1>2
  <2>3. SaleBase(o)' = SaleBase(o)
    BY <1>1 DEF SaleBase
  <2>4. Kept(o)' = SaleBase(o)
    <3>1. Kept(o) = SaleBase(o)
      BY <1>1, <1>2, KeptIs
    <3> QED BY <1>1, <2>3, <3>1 DEF Kept
  <2> QED BY <2>1, <2>2, <2>3, <2>4, SaleRowWithin
<1>4. LedgerTypes'
  BY <1>1, <1>2, <1>3 DEF LedgerInv, LedgerTypes
<1>5. RowsInv'
  BY <1>1, <1>3 DEF RowsInv
<1>6. BaseIsWhatIsKept'
  <2>1. 2 * 1 = 2
    OBVIOUS
  <2> QED BY <1>3, <2>1 DEF BaseIsWhatIsKept, Within
<1>7. RefundFollowsTheSale'
  BY <1>1, <1>3 DEF RefundFollowsTheSale, Within
<1> QED BY <1>4, <1>5, <1>6, <1>7 DEF LedgerInv

LEMMA TakeBackIs ==
  ASSUME NEW sums \in [base : Int, partner : Int, alnadl : Int, rows : Nat], NEW row,
         row.base \in Int, row.partner \in Int, row.alnadl \in Int
  PROVE  /\ TakeBack(sums, row) \in [base : Int, partner : Int, alnadl : Int, rows : Nat]
         /\ TakeBack(sums, row).base = sums.base - row.base
         /\ TakeBack(sums, row).partner = sums.partner - row.partner
         /\ TakeBack(sums, row).alnadl = sums.alnadl - row.alnadl
         /\ TakeBack(sums, row).rows = sums.rows + 1
BY DEF TakeBack

LEMMA RefundKeepsLedger ==
  ASSUME LedgerInv, NEW amount \in Nat, RecordRefund(amount)
  PROVE  LedgerInv'
<1>1. /\ model' = model /\ discount' = discount /\ snapshot' = snapshot
      /\ refunded' = refunded + amount /\ isFull' = (amount = RefundableRest)
      /\ booked' = [o \in Sellers |-> TakeBack(booked[o], RefundRow(o, amount))]
      /\ snapshot # <<>>
  BY DEF RecordRefund
<1>2. /\ snapshot \in [Sellers -> Models] /\ discount \in 0..Subtotal /\ discount \in Int
      /\ refunded \in Nat /\ booked \in [Sellers -> [base : Int, partner : Int, alnadl : Int, rows : Nat]]
      /\ \A o \in Sellers : booked[o].rows >= 1
  BY <1>1, SubtotalAssumption DEF LedgerInv, LedgerTypes, RowsInv
<1>3. ASSUME NEW o \in Sellers
      PROVE  LET row == RefundRow(o, amount)
                 base == RefundBase(o, amount)
                 part == AlnadlPart(snapshot[o], base) IN
             /\ base \in Int /\ part \in Int
             /\ row.base \in Int /\ row.partner \in Int /\ row.alnadl \in Int
             /\ row.alnadl = Round2(part)
             /\ Within(base - row.base * Part, 1)
             /\ Within(base - (row.partner + row.alnadl) * Part, 2)
             /\ Within(part - row.alnadl * Part, 1)
  BY <1>2, RefundRowWithin DEF ModelOfSale
<1>4. ASSUME NEW o \in Sellers
      PROVE  /\ booked'[o] \in [base : Int, partner : Int, alnadl : Int, rows : Nat]
             /\ booked'[o].base = booked[o].base - RefundRow(o, amount).base
             /\ booked'[o].partner = booked[o].partner - RefundRow(o, amount).partner
             /\ booked'[o].alnadl = booked[o].alnadl - RefundRow(o, amount).alnadl
             /\ booked'[o].rows = booked[o].rows + 1
             /\ SaleBase(o)' = SaleBase(o)
             /\ Kept(o) \in Int
             /\ Kept(o)' = Kept(o) - RefundBase(o, amount)
  <2>1. SaleBase(o)' = SaleBase(o)
    BY <1>1 DEF SaleBase
  <2>2. Kept(o)' = SaleBase(o) - RefundBase(o, refunded + amount)
    BY <1>1, <2>1 DEF Kept
  <2>3. RefundBase(o, refunded + amount) = RefundBase(o, refunded) + RefundBase(o, amount)
    BY <1>2, RefundBaseAdds
  <2>4. RefundBase(o, refunded) \in Int /\ SaleBase(o) \in Int /\ RefundBase(o, amount) \in Int
    BY <1>2, RefundBaseIs, SaleBaseIs
  <2>5. Kept(o) \in Int
    BY <2>4 DEF Kept
  <2>6. Kept(o)' = Kept(o) - RefundBase(o, amount)
    BY <2>2, <2>3, <2>4 DEF Kept
  <2>7. booked'[o] = TakeBack(booked[o], RefundRow(o, amount))
    BY <1>1
  <2>8. PICK row : row = RefundRow(o, amount)
    OBVIOUS
  <2>9. row.base \in Int /\ row.partner \in Int /\ row.alnadl \in Int
    BY <1>3, <2>8
  <2>10. booked[o] \in [base : Int, partner : Int, alnadl : Int, rows : Nat]
    BY <1>2
  <2> QED BY <2>1, <2>5, <2>6, <2>7, <2>8, <2>9, <2>10, TakeBackIs
<1>5. LedgerTypes'
  <2>1. booked' \in [Sellers -> [base : Int, partner : Int, alnadl : Int, rows : Nat]]
    <3>1. ASSUME NEW o \in Sellers
          PROVE  booked'[o] \in [base : Int, partner : Int, alnadl : Int, rows : Nat]
      BY <1>4
    <3> QED BY <1>1, <3>1
  <2>2. isFull' \in BOOLEAN
    BY <1>1
  <2> QED BY <1>1, <1>2, <2>1, <2>2 DEF LedgerInv, LedgerTypes
<1>6. RowsInv'
  BY <1>1, <1>2, <1>4 DEF RowsInv
<1>7. BaseIsWhatIsKept'
  <2> SUFFICES ASSUME NEW o \in Sellers
               PROVE  /\ Within(booked'[o].base * Part - Kept(o)', booked'[o].rows)
                      /\ Within((booked'[o].partner + booked'[o].alnadl) * Part - Kept(o)',
                                2 * booked'[o].rows)
    BY DEF BaseIsWhatIsKept, Within
  <2> DEFINE row == RefundRow(o, amount)
             base == RefundBase(o, amount)
             k == booked[o].rows
             b == booked[o].base
             p == booked[o].partner
             a == booked[o].alnadl
             rb == row.base
             rp == row.partner
             ra == row.alnadl
             kept == Kept(o)
  <2>1. /\ k \in Nat /\ b \in Int /\ p \in Int /\ a \in Int /\ kept \in Int
        /\ base \in Int /\ rb \in Int /\ rp \in Int /\ ra \in Int
    BY <1>2, <1>3, <1>4
  <2>2. Within(b * Part - kept, k) /\ Within((p + a) * Part - kept, 2 * k)
    BY <1>1 DEF LedgerInv, BaseIsWhatIsKept
  <2>3. Within(base - rb * Part, 1) /\ Within(base - (rp + ra) * Part, 2)
    BY <1>3
  <2>4. /\ booked'[o].base = b - rb /\ booked'[o].rows = k + 1
        /\ booked'[o].partner + booked'[o].alnadl = (p - rp) + (a - ra)
        /\ Kept(o)' = kept - base
    BY <1>4
  <2> HIDE DEF base, k, b, p, a, rb, rp, ra, kept, row
  <2>5. /\ b * Part \in Int /\ rb * Part \in Int
        /\ (b - rb) * Part = b * Part - rb * Part
    BY <2>1, PartType, Distributes
  <2>6. Within((b - rb) * Part - (kept - base), k + 1)
    <3>1. b * Part - kept \in Int /\ base - rb * Part \in Int
      BY <2>1, <2>5
    <3>2. Within((b * Part - kept) + (base - rb * Part), k + 1)
      BY <2>1, <2>2, <2>3, <3>1, WithinAdds
    <3>3. (b * Part - kept) + (base - rb * Part) = (b - rb) * Part - (kept - base)
      BY <2>1, <2>5
    <3> QED BY <3>2, <3>3
  <2>7. /\ (p + a) * Part \in Int /\ (rp + ra) * Part \in Int
        /\ ((p - rp) + (a - ra)) * Part = (p + a) * Part - (rp + ra) * Part
    <3>1. p + a \in Int /\ rp + ra \in Int /\ (p - rp) + (a - ra) = (p + a) - (rp + ra)
      BY <2>1
    <3> QED BY <3>1, PartType, Distributes
  <2>8. Within(((p - rp) + (a - ra)) * Part - (kept - base), 2 * (k + 1))
    <3>1. (p + a) * Part - kept \in Int /\ base - (rp + ra) * Part \in Int /\ 2 * k \in Nat
      BY <2>1, <2>7
    <3>2. Within(((p + a) * Part - kept) + (base - (rp + ra) * Part), 2 * k + 2)
      BY <2>2, <2>3, <3>1, WithinAdds
    <3>3. ((p + a) * Part - kept) + (base - (rp + ra) * Part)
            = ((p - rp) + (a - ra)) * Part - (kept - base)
      BY <2>1, <2>7
    <3>4. 2 * k + 2 = 2 * (k + 1)
      BY <2>1
    <3> QED BY <3>2, <3>3, <3>4
  <2> QED BY <2>4, <2>6, <2>8
<1>8. RefundFollowsTheSale'
  <2> SUFFICES ASSUME NEW o \in Sellers
               PROVE  /\ snapshot'[o].fee = 0 \/ booked'[o].rows = 1 =>
                           Within(booked'[o].alnadl * Part - AlnadlPart(snapshot'[o], Kept(o)'),
                                  booked'[o].rows)
                      /\ isFull' /\ booked'[o].rows = 2 => Within(booked'[o].alnadl * Part, 2)
    BY DEF RefundFollowsTheSale, Within
  <2>1. /\ booked'[o].rows = booked[o].rows + 1 /\ booked'[o].rows # 1
        /\ booked'[o].alnadl = booked[o].alnadl - RefundRow(o, amount).alnadl
        /\ booked[o].rows \in Nat /\ booked[o].alnadl \in Int
    <3>1. booked[o].rows \in Nat /\ booked[o].alnadl \in Int /\ booked[o].rows >= 1
      BY <1>2
    <3>2. /\ booked'[o].rows = booked[o].rows + 1
          /\ booked'[o].alnadl = booked[o].alnadl - RefundRow(o, amount).alnadl
      BY <1>4
    <3> QED BY <3>1, <3>2
  <2>2. ASSUME snapshot[o].fee = 0
        PROVE  Within(booked'[o].alnadl * Part - AlnadlPart(snapshot'[o], Kept(o)'),
                      booked'[o].rows)
    <3> DEFINE base == RefundBase(o, amount)
               k == booked[o].rows
               a == booked[o].alnadl
               ra == RefundRow(o, amount).alnadl
               kept == Kept(o)
               m == snapshot[o]
    <3>1. PICK w \in Int : kept = 100 * w
      BY <1>2, KeptIs
    <3>2. PICK v \in Int : base = 100 * v
      BY <1>2, RefundBaseIs
    <3>3. m \in Models /\ FeeOf(m) = 0
      BY <1>2, <2>2 DEF FeeOf
    <3>4. kept - base = 100 * (w - v) /\ w - v \in Int
      BY <3>1, <3>2
    <3>5. PICK r \in 0..100 : r = RateOf(m)
      BY <3>3, AlnadlPartIs
    <3>6. /\ AlnadlPart(m, kept) = r * w /\ AlnadlPart(m, base) = r * v
          /\ AlnadlPart(m, kept - base) = r * (w - v)
      <4>1. 0 * Part = 0
        BY PartType
      <4>2. \A u \in Int : AlnadlPart(m, 100 * u) = r * u
        <5> TAKE u \in Int
        <5>1. AlnadlPart(m, 100 * u) = r * u + 0 * Part
          BY <3>3, <3>5, AlnadlPartIs
        <5>2. r * u \in Int
          BY <3>5
        <5> QED BY <4>1, <5>1, <5>2
      <4> QED BY <3>1, <3>2, <3>4, <4>2
    <3>7. r * (w - v) = r * w - r * v /\ r * w \in Int /\ r * v \in Int
      BY <3>1, <3>2, <3>5
    <3>8. Within(a * Part - AlnadlPart(m, kept), k)
      BY <1>1, <2>2 DEF LedgerInv, RefundFollowsTheSale
    <3>9. Within(AlnadlPart(m, base) - ra * Part, 1) /\ ra \in Int
      BY <1>3
    <3>10. Kept(o)' = kept - base
      BY <1>4
    <3> HIDE DEF base, k, a, ra, kept, m
    <3>11. a \in Int /\ k \in Nat
      BY <2>1 DEF a, k
    <3>12. /\ a * Part \in Int /\ ra * Part \in Int
           /\ (a - ra) * Part = a * Part - ra * Part
      BY <3>9, <3>11, PartType, Distributes
    <3>13. Within((a * Part - r * w) + (r * v - ra * Part), k + 1)
      <4>1. a * Part - r * w \in Int /\ r * v - ra * Part \in Int
        BY <3>7, <3>12
      <4> QED BY <3>6, <3>8, <3>9, <3>11, <4>1, WithinAdds
    <3>14. (a * Part - r * w) + (r * v - ra * Part) = (a - ra) * Part - r * (w - v)
      BY <3>7, <3>12
    <3>15. Within((a - ra) * Part - AlnadlPart(m, kept - base), k + 1)
      BY <3>6, <3>13, <3>14
    <3> QED BY <1>1, <2>1, <3>10, <3>15 DEF a, ra, k, m
  <2>3. ASSUME isFull', booked'[o].rows = 2
        PROVE  Within(booked'[o].alnadl * Part, 2)
    <3>1. booked[o].rows = 1
      BY <2>1, <2>3
    <3>2. refunded = 0 /\ booked[o].alnadl = Round2(AlnadlPart(snapshot[o], SaleBase(o)))
      BY <1>1, <3>1 DEF LedgerInv, RowsInv
    <3>3. amount = (230 * (Subtotal - discount) + 100) \div 200
      <4>1. 230 * (Subtotal - discount) + 100 \in Int
        BY <1>2, SubtotalAssumption
      <4>2. (230 * (Subtotal - discount) + 100) \div 200 \in Int
        BY <4>1, DivisionBounds
      <4>3. amount = RefundableRest
        BY <1>1, <2>3
      <4>4. RefundableRest = ((230 * (Subtotal - discount) + 100) \div 200) - 0
        BY <3>2 DEF RefundableRest
      <4> HIDE DEF RefundableRest
      <4> QED BY <4>2, <4>3, <4>4
    <3>4. RefundRow(o, amount).alnadl = Round2(AlnadlPart(snapshot[o], RefundBase(o, amount)))
      BY <1>3
    <3>5. snapshot[o] \in Models
      BY <1>2
    <3> QED BY <1>2, <2>1, <3>2, <3>3, <3>4, <3>5, FullRefund
  <2> QED BY <1>1, <2>1, <2>2, <2>3
<1> QED BY <1>5, <1>6, <1>7, <1>8 DEF LedgerInv

LEMMA LedgerStep == LedgerInv /\ [LedgerNext]_ledgerVars => LedgerInv'
<1> SUFFICES ASSUME LedgerInv, [LedgerNext]_ledgerVars PROVE LedgerInv'
  OBVIOUS
<1>1. ASSUME UNCHANGED <<discount, snapshot, booked, refunded, isFull>>,
             model' \in [Sellers -> Models]
      PROVE  LedgerInv'
  <2>1. LedgerTypes' /\ RowsInv'
    BY <1>1 DEF LedgerInv, LedgerTypes, RowsInv, SaleBase
  <2>2. BaseIsWhatIsKept' /\ RefundFollowsTheSale'
    BY <1>1 DEF LedgerInv, BaseIsWhatIsKept, RefundFollowsTheSale, Kept, SaleBase, Within
  <2> QED BY <2>1, <2>2 DEF LedgerInv
<1>2. ASSUME NEW o \in Sellers, NEW m \in Models, SetModel(o, m) PROVE LedgerInv'
  BY <1>1, <1>2 DEF SetModel, LedgerInv, LedgerTypes
<1>3. ASSUME NEW amount \in Slices \cup {RefundableRest}, amount > 0, RecordRefund(amount)
      PROVE  LedgerInv'
  <2>1. RefundableRest \in Int
    <3>1. 230 * (Subtotal - discount) + 100 \in Int /\ refunded \in Int
      BY SubtotalAssumption DEF LedgerInv, LedgerTypes
    <3>2. (230 * (Subtotal - discount) + 100) \div 200 \in Int
      BY <3>1, DivisionBounds
    <3> QED BY <3>1, <3>2 DEF RefundableRest
  <2>2. amount \in Nat
    BY <1>3, <2>1, SlicesAssumption
  <2> QED BY <1>3, <2>2, RefundKeepsLedger
<1>4. CASE UNCHANGED ledgerVars
  BY <1>1, <1>4 DEF ledgerVars, LedgerInv, LedgerTypes
<1> QED BY <1>2, <1>3, <1>4, SaleKeepsLedger DEF LedgerNext

LEMMA LedgerAlways == LedgerSpec => []LedgerInv
BY LedgerBegins, LedgerStep, PTL DEF LedgerSpec

\* For any outlets, prices, discounts and contracts and any number of refunds:
\* every outlet's rows add up to what it sold less what was refunded of it, with
\* half a halala for each rounded amount and nothing lost beside it.
THEOREM BooksAddUp == LedgerSpec => []BaseIsWhatIsKept
<1>1. LedgerInv => BaseIsWhatIsKept
  BY DEF LedgerInv
<1> QED BY <1>1, LedgerAlways, PTL

\* Whatever the model becomes meanwhile, a refund takes back what the sale's model
\* gave, and one of everything leaves Alnadl at most a halala, its fee included.
THEOREM RefundsFollowTheSale == LedgerSpec => []RefundFollowsTheSale
<1>1. LedgerInv => RefundFollowsTheSale
  BY DEF LedgerInv
<1> QED BY <1>1, LedgerAlways, PTL
=============================================================================
