---------------------------- MODULE MCUnifiedCart ----------------------------
(***************************************************************************)
(* Instances of UnifiedCart for TLC.                                       *)
(***************************************************************************)
EXTENDS UnifiedCart, TLC

SiteRoles == {"Operator", "SiteManager", "Runner", "AlnadlFinance"}

Interchangeable == Permutations(Outlets) \cup Permutations(Handlers)
=============================================================================
