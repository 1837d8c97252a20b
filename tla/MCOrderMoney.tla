---------------------------- MODULE MCOrderMoney ----------------------------
(***************************************************************************)
(* Instances of OrderMoney for TLC.                                        *)
(***************************************************************************)
EXTENDS OrderMoney, TLC

\* Staff of the site; a SuperAdmin may make every move of the table.
SiteRoles == {"Operator", "SiteManager", "Runner", "AlnadlFinance"}

Interchangeable == Permutations(Orders) \cup Permutations(Handlers)
=============================================================================
