---------------------------- MODULE EventDelivery ----------------------------
(***************************************************************************)
(* What the outbox promises of the confirmation of an order: that it is    *)
(* settled in the end, for good, and that it counts as issued only after a *)
(* pass exists. Delivery is at least once: passes may be issued while it   *)
(* is pending, as often as it is attempted.                                *)
(***************************************************************************)
EXTENDS Naturals

CONSTANT Events

VARIABLES
  stage,  \* of each event
  passes  \* issued for it

vars == <<stage, passes>>

Init ==
  /\ stage = [e \in Events |-> "none"]
  /\ passes = [e \in Events |-> 0]

Publish(e) ==
  /\ stage[e] = "none"
  /\ stage' = [stage EXCEPT ![e] = "pending"]
  /\ UNCHANGED passes

Issue(e) ==
  /\ stage[e] = "pending"
  /\ passes' = [passes EXCEPT ![e] = @ + 1]
  /\ UNCHANGED stage

Settle(e) ==
  /\ stage[e] = "pending"
  /\ \E outcome \in {"declined", "abandoned"}
                      \cup (IF passes[e] > 0 THEN {"issued"} ELSE {}) :
       stage' = [stage EXCEPT ![e] = outcome]
  /\ UNCHANGED passes

Next == \E e \in Events : Publish(e) \/ Issue(e) \/ Settle(e)

Spec == Init /\ [][Next]_vars /\ \A e \in Events : WF_vars(Settle(e))
=============================================================================
