------------------------------- MODULE Plans -------------------------------
(***************************************************************************)
(* The plans partners subscribe to and what they entitle to (lib/plan.js,  *)
(* and the plan and subscription handlers of server.js). Every capability  *)
(* that is sold is asked of the plan of the partner's subscription.        *)
(***************************************************************************)
CONSTANTS
  Plans,         \* the rows plans may have
  Tenants,       \* the partners
  Entitlements   \* the names in features_json

VARIABLES
  offered,        \* the plans with a row
  entitlements,  \* plans.features_json of each
  subscribed,    \* the partners with a row in subscriptions
  planOf         \* plan_id of that row

planVars == <<offered, entitlements, subscribed, planOf>>

PlansInit ==
  /\ offered \in SUBSET Plans
  /\ entitlements \in [Plans -> {{}, Entitlements}]
  /\ subscribed = {}
  /\ planOf \in {[t \in Tenants |-> p] : p \in Plans}

\* POST /api/admin/plans.
CreatePlan(p, wanted) ==
  /\ p \notin offered
  /\ offered' = offered \cup {p}
  /\ entitlements' = [entitlements EXCEPT ![p] = wanted]
  /\ UNCHANGED <<subscribed, planOf>>

\* PATCH /api/admin/plans/:id merges the entitlements that the request names.
EditPlan(p, granted, withdrawn) ==
  /\ p \in offered
  /\ entitlements' = [entitlements EXCEPT ![p] = (@ \cup granted) \ withdrawn]
  /\ UNCHANGED <<offered, subscribed, planOf>>

\* As if it were enough that another plan is left.
HasOtherPlans(p) == offered # {p}

HasNoSubscriber(p) == \A t \in subscribed : planOf[t] # p

\* DELETE /api/admin/plans/:id.
DeletePlan(p) ==
  /\ p \in offered
  /\ HasNoSubscriber(p)
  /\ offered' = offered \ {p}
  /\ UNCHANGED <<entitlements, subscribed, planOf>>

\* POST /api/admin/onboard for a new partner and POST /api/admin/subscription for
\* any: the plan is looked up by its code, which is never rewritten.
Subscribe(t, p) ==
  /\ p \in offered
  /\ subscribed' = subscribed \cup {t}
  /\ planOf' = [planOf EXCEPT ![t] = p]
  /\ UNCHANGED <<offered, entitlements>>

PlansNext ==
  \/ \E p \in Plans : \/ \E wanted \in SUBSET Entitlements : CreatePlan(p, wanted)
                      \/ \E granted, withdrawn \in SUBSET Entitlements :
                           EditPlan(p, granted, withdrawn)
                      \/ DeletePlan(p)
  \/ \E t \in Tenants, p \in Plans : Subscribe(t, p)

PlansSpec == PlansInit /\ [][PlansNext]_planVars

-----------------------------------------------------------------------------

\* requireFeature: the JOIN finds nothing where the plan is gone.
MayUse(t, f) == t \in subscribed /\ planOf[t] \in offered /\ f \in entitlements[planOf[t]]

\* No partner loses what its plan entitles it to because somebody else's
\* administration removed the plan: only an edit of that plan that names the
\* entitlement, or another subscription of its own, takes it away.
NobodyElseTakesAway ==
  [][\A t \in Tenants, f \in Entitlements :
       MayUse(t, f) /\ ~MayUse(t, f)' =>
         \/ planOf'[t] # planOf[t]
         \/ planOf[t] \in offered' /\ f \notin entitlements'[planOf[t]]]_planVars
=============================================================================
