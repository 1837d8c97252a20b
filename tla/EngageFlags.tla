----------------------------- MODULE EngageFlags -----------------------------
(***************************************************************************)
(* Whether Engage is on where an order was placed: lib/engage-flags.js for *)
(* one partner, one property and one zone of it. The global kill switch    *)
(* and the partner's contract forbid; below them the zone's override wins  *)
(* over the property's.                                                    *)
(***************************************************************************)
EXTENDS Naturals, Sequences

CONSTANT MaxOverrides  \* bound on the override rows of a scope

VARIABLES
  killSwitch,  \* the global override does not say FALSE
  contract,    \* an active subscription to a plan with engage_enabled
  overrides    \* venue_policy_override rows of a scope, oldest first

flagVars == <<killSwitch, contract, overrides>>

Scopes == {"property", "zone"}

FlagsTypeOK ==
  /\ killSwitch \in BOOLEAN
  /\ contract \in BOOLEAN
  /\ overrides \in [Scopes -> Seq(BOOLEAN)]

\* Plans have engage_enabled off unless an administrator turns it on.
FlagsInit ==
  /\ killSwitch = TRUE
  /\ contract = FALSE
  /\ overrides = [s \in Scopes |-> <<>>]

Overridden(s) == overrides[s] # <<>>

\* getBoolOverride: the query has no order, so the oldest row answers it.
Override(s) == Head(overrides[s])

EngageOnByScope ==
  IF Overridden("zone") THEN Override("zone")
  ELSE IF Overridden("property") THEN Override("property")
  ELSE contract

\* resolveFlag.
EngageOn ==
  /\ killSwitch
  /\ contract
  /\ IF Overridden("zone") THEN Override("zone")
     ELSE Overridden("property") => Override("property")

\* The kill switch's row is updated in place.
SetKillSwitch(enabled) ==
  /\ killSwitch' = enabled
  /\ UNCHANGED <<contract, overrides>>

SetContract(enabled) ==
  /\ contract' = enabled
  /\ UNCHANGED <<killSwitch, overrides>>

\* An override is always a new row.
SetOverride(s, enabled) ==
  /\ Len(overrides[s]) < MaxOverrides
  /\ overrides' = [overrides EXCEPT ![s] = Append(@, enabled)]
  /\ UNCHANGED <<killSwitch, contract>>

FlagsNext ==
  \E enabled \in BOOLEAN :
    \/ SetKillSwitch(enabled)
    \/ SetContract(enabled)
    \/ \E s \in Scopes : SetOverride(s, enabled)
=============================================================================
