---------------------------- MODULE OrderPromise ----------------------------
(***************************************************************************)
(* What the connector promises about the orders of one connection, seen    *)
(* from outside.  An order is created in PlentyONE, accepted at Mirakl,    *)
(* dispatched by the merchant and shipped at Mirakl, in this order; the    *)
(* record kept about it may lag behind, but never runs ahead.              *)
(***************************************************************************)
EXTENDS Naturals

CONSTANT Orders

VARIABLES
    stage,       \* how far each order really is: an index of Stages
    dispatched,  \* the orders whose goods have left
    claim        \* how far the record of each order says it is

vars == <<stage, dispatched, claim>>

\* 0 waiting at Mirakl, 1 created in PlentyONE, 2 accepted, 3 shipped.
Stages == 0 .. 3

Init ==
    /\ stage = [o \in Orders |-> 0]
    /\ dispatched = {}
    /\ claim = [o \in Orders |-> 0]

Advance(o) ==
    /\ stage[o] < 3
    /\ stage[o] = 2 => o \in dispatched
    /\ stage' = [stage EXCEPT ![o] = @ + 1]
    /\ UNCHANGED <<dispatched, claim>>

Dispatch(o) ==
    /\ stage[o] > 0
    /\ dispatched' = dispatched \cup {o}
    /\ UNCHANGED <<stage, claim>>

\* A commit writes any number of records at once, even backwards.
WriteRecords ==
    /\ claim' \in [Orders -> Stages]
    /\ \A o \in Orders : claim'[o] <= stage[o]
    /\ UNCHANGED <<stage, dispatched>>

Next ==
    \/ \E o \in Orders : Advance(o) \/ Dispatch(o)
    \/ WriteRecords

Spec == Init /\ [][Next]_vars

=============================================================================
