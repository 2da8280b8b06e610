------------------------------- MODULE MCShops -------------------------------
(***************************************************************************)
(* Shops for TLC: t1 has two connections to one shop and two PlentyONE     *)
(* systems; t2 has a PlentyONE system only.                                *)
(***************************************************************************)
EXTENDS Shops, TLC

CONSTANTS t1, t2, a, b, p1, p2, p3, shop, im, co, sh

MiraklTenants == a :> t1 @@ b :> t1

MiraklShops == a :> shop @@ b :> shop

PlentyTenants == p1 :> t1 @@ p2 :> t1 @@ p3 :> t2

\* Both have sold through other channels before.
ForeignOrders == {<<p2, 1>>, <<p3, 1>>}

TaskOfRun == im :> "import" @@ co :> "confirm" @@ sh :> "ship"

=============================================================================
