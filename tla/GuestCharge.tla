----------------------------- MODULE GuestCharge -----------------------------
(***************************************************************************)
(* What the payment and refund endpoints promise a guest about one order's *)
(* money: it is asked for once or not at all, taken once or refused for    *)
(* good, and given back at most as far as it was taken. Slack is the       *)
(* imprecision the promise allows, in the unit of the amounts.             *)
(***************************************************************************)
EXTENDS Integers

CONSTANTS Orders, Slack

VARIABLES
  stage,     \* of the charge of each order
  due,       \* what the order costs
  taken,     \* what was taken from the guest or the company's wallet
  givenBack  \* what was given back

vars == <<stage, due, taken, givenBack>>

Init ==
  /\ stage = [o \in Orders |-> "none"]
  /\ due = [o \in Orders |-> 0]
  /\ taken = [o \in Orders |-> 0]
  /\ givenBack = [o \in Orders |-> 0]

\* The order is placed, and is charged to the guest or exempt.
Place(o) ==
  /\ stage[o] = "none"
  /\ \E s \in {"open", "exempt"} : stage' = [stage EXCEPT ![o] = s]
  /\ due' \in [Orders -> Nat]
  /\ \A p \in Orders \ {o} : due'[p] = due[p]
  /\ UNCHANGED <<taken, givenBack>>

Refuse(o) ==
  /\ stage[o] = "open"
  /\ stage' = [stage EXCEPT ![o] = "refused"]
  /\ UNCHANGED <<due, taken, givenBack>>

Take(o) ==
  /\ stage[o] = "open"
  /\ stage' = [stage EXCEPT ![o] = "taken"]
  /\ \E amount \in 0..(due[o] + Slack) : taken' = [taken EXCEPT ![o] = amount]
  /\ UNCHANGED <<due, givenBack>>

GiveBack(o) ==
  /\ stage[o] = "taken"
  /\ \E amount \in 1..(taken[o] + Slack - givenBack[o]) :
       givenBack' = [givenBack EXCEPT ![o] = @ + amount]
  /\ UNCHANGED <<stage, due, taken>>

Next == \E o \in Orders : Place(o) \/ Refuse(o) \/ Take(o) \/ GiveBack(o)

Spec == Init /\ [][Next]_vars
=============================================================================
