------------------------- MODULE MCPartnerLifecycle -------------------------
(***************************************************************************)
(* Instances of PartnerLifecycle for TLC: two outlets, one of the site's   *)
(* own and one of a restaurant that sells there.                           *)
(***************************************************************************)
EXTENDS PartnerLifecycle, TLC

CONSTANTS cafe, grill, restaurant

Tenancy == cafe :> Direct @@ grill :> restaurant
=============================================================================
