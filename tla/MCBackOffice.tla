---------------------------- MODULE MCBackOffice ----------------------------
(***************************************************************************)
(* The back office, for TLC: who works in it and in which tab, whose phone *)
(* was proved, the mechanics that are tried on guests, the ledger of what  *)
(* is sold, how it is collected, the partner's pictures, what its site     *)
(* offers, plans, the limit on callers, and the process and file below     *)
(* them. They share no variable, so each is explored while the others rest *)
(* in their initial states.                                                *)
(***************************************************************************)
EXTENDS
  Access, Verification, MechanicLab, Ledger, Branding, Storefront, Plans,
  Deployment, Console, RateLimit, PaymentPolicy, TLC

CONSTANTS
  root, ann, near, far, kiosk, terrace, basic, full, tenant, soup, house, bistro,
  o1, o2, hotel, cafe, grill, caller, other

\* The roles of a tenant with their scopes, and a site's role without one.
OfOnePartner ==
  {[role |-> "SuperAdmin",   scope |-> "platform"],
   [role |-> "PartnerAdmin", scope |-> "partner"],
   [role |-> "Operator",     scope |-> "partner"],
   [role |-> "Operator",     scope |-> "platform"]}

\* Customers just inside and just outside the hard ceiling's share.
Shares == near :> [v \in Versions |-> 4] @@ far :> [v \in Versions |-> 5]

TwoEach == [orders |-> 2]

Prices == kiosk :> 5 @@ terrace :> 12

\* One model of each type.
Contracts ==
  {[type |-> "share",      rate |-> 33, fee |-> 0],
   [type |-> "commission", rate |-> 15, fee |-> 0],
   [type |-> "fixed",      rate |-> 0,  fee |-> 3],
   [type |-> "hybrid",     rate |-> 15, fee |-> 2]}

\* One that collects nothing, one that needs a wallet, a list with a method
\* nobody knows, and a list of nothing else.
Rulings ==
  {[policy |-> "NO_GUEST_PAYMENT", methods |-> {}],
   [policy |-> "CORPORATE_WALLET", methods |-> {}],
   [policy |-> "MIXED",            methods |-> {"card", "cash", "voucher"}],
   [policy |-> "MIXED",            methods |-> {"voucher"}]}

VARIABLE focus  \* which of them takes its steps

backOfficeVars ==
  <<accessVars, verificationVars, labVars, ledgerVars, brandingVars, storefrontVars,
    planVars, deploymentVars, consoleVars, rateVars, policyVars, focus>>

\* The others rest in one of their initial states.
AtRest(which) ==
  /\ which # "ledger" => /\ model = [o \in Sellers |-> CHOOSE m \in Models : TRUE]
                         /\ discount = 0
  /\ which # "branding" => entitled
  /\ which # "plans" => /\ offered = {}
                        /\ entitlements = [p \in Plans |-> {}]
                        /\ planOf = [t \in Tenants |-> basic]
  /\ which # "deployment" => file = NoFile

Init ==
  /\ AccessInit /\ VerificationInit /\ LabInit /\ LedgerInit /\ BrandingInit
  /\ StorefrontInit /\ PlansInit /\ DeploymentInit /\ ConsoleInit /\ RateInit
  /\ PolicyInit
  /\ focus \in {"staff", "guest", "lab", "ledger", "branding", "storefront", "plans",
                "deployment", "console", "limit", "policy"}
  /\ AtRest(focus)

Next ==
  /\ IF focus = "staff" THEN AccessNext ELSE UNCHANGED accessVars
  /\ IF focus = "guest" THEN VerificationNext ELSE UNCHANGED verificationVars
  /\ IF focus = "lab" THEN LabNext ELSE UNCHANGED labVars
  /\ IF focus = "ledger" THEN LedgerNext ELSE UNCHANGED ledgerVars
  /\ IF focus = "branding" THEN BrandingNext ELSE UNCHANGED brandingVars
  /\ IF focus = "storefront" THEN StorefrontNext ELSE UNCHANGED storefrontVars
  /\ IF focus = "plans" THEN PlansNext ELSE UNCHANGED planVars
  /\ IF focus = "deployment" THEN DeploymentNext ELSE UNCHANGED deploymentVars
  /\ IF focus = "console" THEN ConsoleNext ELSE UNCHANGED consoleVars
  /\ IF focus = "limit" THEN RateNext ELSE UNCHANGED rateVars
  /\ IF focus = "policy" THEN PolicyNext ELSE UNCHANGED policyVars
  /\ UNCHANGED focus

Spec == Init /\ [][Next]_backOfficeVars
=============================================================================
