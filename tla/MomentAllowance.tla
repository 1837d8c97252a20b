--------------------------- MODULE MomentAllowance ---------------------------
(***************************************************************************)
(* What Engage promises of a pass: one session, whose allowance of moments *)
(* is fixed when it opens, and which gives no moment more once it is over. *)
(***************************************************************************)
EXTENDS Naturals

CONSTANTS
  Passes,
  Allowances  \* what a session may be allowed

VARIABLES
  stage,    \* of the pass's only session
  limit,    \* its allowance
  enjoyed   \* the moments taken from it

vars == <<stage, limit, enjoyed>>

Init ==
  /\ stage = [p \in Passes |-> "none"]
  /\ limit = [p \in Passes |-> 0]
  /\ enjoyed = [p \in Passes |-> 0]

Open(p) ==
  /\ stage[p] = "none"
  /\ stage' = [stage EXCEPT ![p] = "running"]
  /\ \E n \in Allowances : limit' = [limit EXCEPT ![p] = n]
  /\ UNCHANGED enjoyed

\* A moment, which may be the one with which the session is over.
Enjoy(p) ==
  /\ stage[p] = "running"
  /\ enjoyed[p] < limit[p]
  /\ enjoyed' = [enjoyed EXCEPT ![p] = @ + 1]
  /\ \E s \in {"running", "ended"} : stage' = [stage EXCEPT ![p] = s]
  /\ UNCHANGED limit

Close(p) ==
  /\ stage[p] = "running"
  /\ stage' = [stage EXCEPT ![p] = "ended"]
  /\ UNCHANGED <<limit, enjoyed>>

Next == \E p \in Passes : Open(p) \/ Enjoy(p) \/ Close(p)

Spec == Init /\ [][Next]_vars
=============================================================================
