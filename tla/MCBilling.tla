----------------------------- MODULE MCBilling -----------------------------
(***************************************************************************)
(* Billing for TLC.                                                        *)
(***************************************************************************)
EXTENDS Billing, TLC

\* Tenants, customers and sessions are interchangeable.
Symmetry ==
    Permutations(Tenants) \cup Permutations(Customers) \cup Permutations(Sessions)

=============================================================================
