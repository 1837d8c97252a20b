---------------------------- MODULE MechanicLab ----------------------------
(***************************************************************************)
(* The life of the mechanics of one personality, from a proposal to the    *)
(* guests (lib/engage-mechanic-lab.js). Every operation reads and writes   *)
(* within one turn, so its compare-and-swap never finds another state; the *)
(* hazard is the order of the operations, the kill switch among them, and  *)
(* of the guests that are served between them.                             *)
(***************************************************************************)
EXTENDS Naturals

CONSTANTS
  MaxVersion,    \* the versions that are proposed, in the order of created_at
  Customers,     \* exposure profiles, whose ids seed the allocation
  Bucket,        \* the customer's bucket for each version, in percent
  Percentages,   \* the canary percentages administrators ask for
  HardMax,       \* CANARY_HARD_MAX_PERCENTAGE
  Default,       \* DEFAULT_MIN_SAMPLE
  Samples,       \* the minimum samples administrators ask for
  MaxServed      \* bound on the moments of a version

\* Version 0 is the content a fresh database is seeded with.
Versions == 0..MaxVersion

ASSUME LabAssumption ==
  /\ MaxVersion \in Nat /\ MaxServed \in Nat
  /\ HardMax \in Nat /\ Default \in Nat \ {0}
  /\ Percentages \subseteq Nat
  /\ Samples \subseteq Nat \ {Default} \* so that minSample tells whether a row is there
  /\ Bucket \in [Customers -> [Versions -> Nat]]

VARIABLES
  lifecycle,  \* mechanic_version.lifecycle_state, "none" before it is proposed
  share,      \* mechanic_version.canary_percentage
  simulated,  \* the versions with a row in mechanic_simulation_run
  incidents,  \* the versions with an open safety incident
  been,       \* the states of each version in mechanic_lifecycle_event
  served,     \* how many moments each version has
  reached,    \* the customers these moments were for
  minSample   \* the override of mechanic_min_sample that is read, or Default

labVars ==
  <<lifecycle, share, simulated, incidents, been, served, reached, minSample>>

LabStates == {"draft", "simulated", "canary", "emerging", "held", "promoted",
              "rejected", "retired"}

\* ALLOWED_TRANSITIONS.
LabSuccessors ==
  [draft     |-> {"simulated"},
   simulated |-> {"canary"},
   canary    |-> {"emerging", "held", "rejected"},
   emerging  |-> {"promoted", "held", "rejected"},
   held      |-> {"canary", "emerging", "rejected"},
   promoted  |-> {"retired"},
   rejected  |-> {},
   retired   |-> {}]

-----------------------------------------------------------------------------

LabInit ==
  /\ lifecycle = [v \in Versions |-> IF v = 0 THEN "promoted" ELSE "none"]
  /\ share = [v \in Versions |-> 0]
  /\ simulated = {}
  /\ incidents = {}
  /\ been = [v \in Versions |-> {}]
  /\ served = [v \in Versions |-> 0]
  /\ reached = [v \in Versions |-> {}]
  /\ minSample = Default

\* proposeMechanicFromAI.
Propose(v) ==
  /\ lifecycle[v] = "none"
  /\ \A older \in Versions : older < v => lifecycle[older] # "none"
  /\ lifecycle' = [lifecycle EXCEPT ![v] = "draft"]
  /\ UNCHANGED <<share, simulated, incidents, been, served, reached, minSample>>

\* runSimulation: its results are counted, and never looked at again.
Simulate(v) ==
  /\ lifecycle[v] # "none"
  /\ simulated' = simulated \cup {v}
  /\ UNCHANGED <<lifecycle, share, incidents, been, served, reached, minSample>>

\* transitionLifecycle from where its gates have let the request through.
EntersState(v, to, percentage) ==
  /\ lifecycle' = [lifecycle EXCEPT ![v] = to]
  /\ share' = [share EXCEPT ![v] = percentage]
  /\ been' = [been EXCEPT ![v] = @ \cup {to}]
  /\ UNCHANGED <<simulated, incidents, served, reached, minSample>>

\* Any whole percentage.
AnyPercentage(percentage) == percentage \in 1..100

WithinHardMax(percentage) == percentage \in 1..HardMax

\* Promotes whatever no incident is open for.
MayPromoteUnsampled(v) == v \notin incidents

MayPromote(v) == served[v] >= minSample /\ v \notin incidents

\* POST /api/admin/mechanics/:id/transition.
Advance(v, to, percentage) ==
  /\ lifecycle[v] # "none"
  /\ to \in LabSuccessors[lifecycle[v]]
  /\ to = "simulated" => v \in simulated
  /\ to = "canary" => WithinHardMax(percentage)
  /\ to = "promoted" => MayPromote(v)
  /\ EntersState(v, to, IF to = "canary" THEN percentage ELSE share[v])

\* POST /api/admin/mechanics/:id/kill-switch, from any state that is not final,
\* those a mechanic has on its way to the guests among them.
Kill(v, to) ==
  /\ lifecycle[v] \notin {"none", "rejected", "retired", to}
  /\ to \in {"held", "rejected"}
  /\ EntersState(v, to, share[v])

\* recordSafetyIncident, which the program exports and no handler calls yet, and
\* POST /api/admin/mechanics/safety-incidents/:incidentId/resolve.
RaiseIncident(v) ==
  /\ lifecycle[v] # "none"
  /\ incidents' = incidents \cup {v}
  /\ UNCHANGED <<lifecycle, share, simulated, been, served, reached, minSample>>

ResolveIncident(v) ==
  /\ incidents' = incidents \ {v}
  /\ UNCHANGED <<lifecycle, share, simulated, been, served, reached, minSample>>

\* setMinSampleOverride adds a row; resolveMinSample reads the oldest.
SetMinSample(n) ==
  /\ n >= 1
  /\ minSample' = IF minSample = Default THEN n ELSE minSample
  /\ UNCHANGED <<lifecycle, share, simulated, incidents, been, served, reached>>

-----------------------------------------------------------------------------

\* resolveEligibleMechanicVersion: the newest canary for the customers that fall
\* into its share, for the others the newest that is promoted.
NewestIn(state) ==
  {v \in Versions : /\ lifecycle[v] = state
                    /\ \A w \in Versions : lifecycle[w] = state => w <= v}

IsAllocatedToCanary(c, v) == Bucket[c][v] < share[v]

Eligible(c) ==
  LET canary == {v \in NewestIn("canary") : IsAllocatedToCanary(c, v)}
  IN IF canary # {} THEN canary ELSE NewestIn("promoted")

\* The moment's row is inserted in the turn that resolved the version.
Serve(c, v) ==
  /\ v \in Eligible(c)
  /\ served[v] < MaxServed
  /\ served' = [served EXCEPT ![v] = @ + 1]
  /\ reached' = [reached EXCEPT ![v] = @ \cup {c}]
  /\ UNCHANGED <<lifecycle, share, simulated, incidents, been, minSample>>

LabNext ==
  \/ \E v \in Versions : \/ Propose(v)
                         \/ Simulate(v)
                         \/ RaiseIncident(v)
                         \/ ResolveIncident(v)
  \/ \E v \in Versions, to \in LabStates : \/ \E p \in Percentages : Advance(v, to, p)
                                           \/ Kill(v, to)
  \/ \E n \in Samples : SetMinSample(n)
  \/ \E c \in Customers, v \in Versions : Serve(c, v)

LabSpec == LabInit /\ [][LabNext]_labVars

-----------------------------------------------------------------------------

\* Whatever way a mechanic took to promotion, the kill switch's shortcuts into
\* "held" and out of it among them, it has shown itself in a canary to the
\* customers a canary is for.
PromotedWasTried ==
  \A v \in Versions \ {0} : "promoted" \in been[v] =>
    /\ "canary" \in been[v]
    /\ \E c \in reached[v] : Bucket[c][v] < HardMax

\* Until a mechanic is promoted nobody outside the hard ceiling's share has seen
\* it, however often its percentage changed and it was held and taken back.
OnlyTheShareIsExposed ==
  \A v \in Versions \ {0} : "promoted" \notin been[v] =>
    \A c \in reached[v] : Bucket[c][v] < HardMax
=============================================================================
