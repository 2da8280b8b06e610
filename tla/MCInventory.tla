----------------------------- MODULE MCInventory -----------------------------
(***************************************************************************)
(* Inventory for TLC.  No symmetry: it is unsound for liveness.            *)
(***************************************************************************)
EXTENDS Inventory, TLC

=============================================================================
