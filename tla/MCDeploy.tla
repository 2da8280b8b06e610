------------------------------ MODULE MCDeploy ------------------------------
(***************************************************************************)
(* Deploy for TLC: two connections of two tenants; two releases, the       *)
(* second of which brings revision 2.                                      *)
(***************************************************************************)
EXTENDS Deploy, TLC

CONSTANTS c0, c1, t0, t1

OfConnection == c0 :> t0 @@ c1 :> t1

Heads == <<1, 2>>

=============================================================================
