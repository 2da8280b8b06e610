---------------------------- MODULE MCImportRun ----------------------------
(***************************************************************************)
(* ImportRun for TLC: the connections of one tenant.                       *)
(***************************************************************************)
EXTENDS ImportRun, TLC

CONSTANTS t1, a, b

OfOneTenant == a :> t1 @@ b :> t1

\* Runs are interchangeable, and so are the connections of one tenant.
Symmetry == Permutations(Runs) \cup Permutations(Connections)

=============================================================================
