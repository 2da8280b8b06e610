-------------------------------- MODULE Shops --------------------------------
(***************************************************************************)
(* Tenants with several Mirakl and PlentyONE connections, which an         *)
(* operator creates and removes (scripts/saas_admin.py) while tasks and    *)
(* webhooks use them.  A run of a task reads all pairs of a Mirakl and a   *)
(* PlentyONE connection when it starts (orchestrator._active_pairs) and    *)
(* keeps them to its end.                                                  *)
(*                                                                         *)
(* An order is handled in one step here, its commit included: what         *)
(* sessions do to each other is OrderFlow's matter.                        *)
(***************************************************************************)
EXTENDS Naturals, FiniteSets

CONSTANTS
    Tenants,
    Connections,  \* Mirakl connections an operator may add
    TenantOf,     \* the tenant of each
    ShopOf,       \* the Mirakl shop each gives access to
    Systems,      \* PlentyONE connections an operator may add, each to a
    OwnerOf,      \*   system of its own; and the tenant of each
    Provisioned,  \* the connections of both kinds that are there at first
    Foreign,      \* orders in PlentyONE that are none of the connector's
    Other,        \* what such an order stands for
    Numbers,      \* Mirakl order ids, used by every shop
    Runs,
    TaskOf,       \* the task each run is of
    None,
    RepeatOk,     \* Mirakl answers a repeated accept or ship with success
    MaxId,        \* orders of a PlentyONE system (bounds the model)
    MaxEdits      \* commands of the operator (bounds the model)

Tasks == {"import", "confirm", "ship"}

Shops == {ShopOf[c] : c \in Connections}

ASSUME ShopsAssumption ==
    /\ TenantOf \in [Connections -> Tenants]
    /\ OwnerOf \in [Systems -> Tenants]
    /\ TaskOf \in [Runs -> Tasks]
    /\ RepeatOk \in BOOLEAN
    /\ MaxId \in Nat
    /\ MaxEdits \in Nat
    /\ None \notin (Connections \X Systems) \cup (Systems \X Nat)
    /\ None \notin (Shops \X Numbers) \cup {Other}
    /\ Other \notin Shops \X Numbers
    /\ Foreign \subseteq Systems \X (1 .. MaxId)
    /\ IsFiniteSet(Connections) /\ IsFiniteSet(Systems)

VARIABLES
    status,   \* tenants.status
    mirakl,   \* the Mirakl connections
    plenty,   \* the PlentyONE connections, which no command removes
    order,    \* the orders at Mirakl
    parcel,   \* the PlentyONE order whose tracking number Mirakl was given
    made,     \* the orders in PlentyONE
    left,     \* the PlentyONE orders that are dispatched
    record,   \* order_sync
    run,      \* the state of each run
    edits     \* commands so far

vars == <<status, mirakl, plenty, order, parcel, made, left, record, run,
          edits>>

Orders == Shops \X Numbers

Keys == Connections \X Numbers

Ids == 1 .. MaxId

\* The ids start at the same number in every system.
PlentyOrders == Systems \X Ids

NoRecord == [status |-> "none", id |-> 0]

Run == [todo : SUBSET (Connections \X Systems),       \* pairs still to come
        pair : (Connections \X Systems) \cup {None},  \* the current one
        page : SUBSET Numbers]                        \* orders still to handle

Idle == [todo |-> {}, pair |-> None, page |-> {}]

TypeOK ==
    /\ status \in [Tenants -> {"active", "suspended"}]
    /\ mirakl \in [Connections -> {"none", "active", "removed"}]
    /\ plenty \subseteq Systems
    /\ order \in [Orders -> {"waiting", "accepted", "shipped"}]
    /\ parcel \in [Orders -> PlentyOrders \cup {None}]
    /\ made \in [PlentyOrders -> Orders \cup {Other, None}]
    /\ left \subseteq {x \in PlentyOrders : made[x] # None}
    /\ record \in [Keys -> [status : {"none", "IMPORTED", "CONFIRMED", "SHIPPED"},
                            id : Ids \cup {0}]]
    /\ run \in [Runs -> Run]
    /\ edits \in 0 .. MaxEdits

Init ==
    /\ status = [t \in Tenants |-> "active"]
    /\ mirakl = [c \in Connections |-> IF c \in Provisioned THEN "active" ELSE "none"]
    /\ plenty = Systems \cap Provisioned
    /\ order = [o \in Orders |-> "waiting"]
    /\ parcel = [o \in Orders |-> None]
    /\ made = [x \in PlentyOrders |-> IF x \in Foreign THEN Other ELSE None]
    /\ left = Foreign
    /\ record = [k \in Keys |-> NoRecord]
    /\ run = [r \in Runs |-> Idle]
    /\ edits = 0

tenancy == <<status, mirakl, plenty, edits>>

OrderAt(c, n) == <<ShopOf[c], n>>

SystemsOf(t) == {p \in plenty : OwnerOf[p] = t}

-----------------------------------------------------------------------------
(* scripts/saas_admin.py *)

Edit ==
    /\ edits < MaxEdits
    /\ edits' = edits + 1
    /\ UNCHANGED <<order, parcel, made, left, record, run>>

TenantSetStatus(t, s) ==
    /\ Edit
    /\ status' = [status EXCEPT ![t] = s]
    /\ UNCHANGED <<mirakl, plenty>>

MiraklAdd(c) ==
    /\ mirakl[c] = "none"
    /\ Edit
    /\ mirakl' = [mirakl EXCEPT ![c] = "active"]
    /\ UNCHANGED <<status, plenty>>

\* A soft delete; nothing makes the connection active again.
MiraklRemove(c) ==
    /\ mirakl[c] = "active"
    /\ Edit
    /\ mirakl' = [mirakl EXCEPT ![c] = "removed"]
    /\ UNCHANGED <<status, plenty>>

PlentyAdd(p) ==
    /\ p \notin plenty
    /\ Edit
    /\ plenty' = plenty \cup {p}
    /\ UNCHANGED <<status, mirakl>>

-----------------------------------------------------------------------------
(* The tasks *)

\* Mutant: the SELECT forgets the tenant.
AnyAssignments == [Tenants -> Systems]

\* One PlentyONE connection for each tenant.
Assignments == {f \in [Tenants -> Systems] : \A t \in Tenants : OwnerOf[f[t]] = t}

\* Of a tenant's active ones it is the first of an unordered SELECT.
ActivePairs(first) ==
    {<<c, first[TenantOf[c]]>> :
        c \in {m \in Connections : /\ mirakl[m] = "active"
                                  /\ status[TenantOf[m]] = "active"
                                  /\ first[TenantOf[m]] \in plenty}}

StartTask(r) ==
    /\ run[r] = Idle
    /\ \E first \in Assignments :
          /\ \A t \in Tenants : SystemsOf(t) # {} => first[t] \in plenty
          /\ ActivePairs(first) # {}
          /\ run' = [run EXCEPT ![r].todo = ActivePairs(first)]
    /\ UNCHANGED <<tenancy, order, parcel, made, left, record>>

\* Mutant: ship_orders selects what confirm_orders does.
PageShipsImported(task, c) ==
    {n \in Numbers :
        \/ task = "import" /\ order[OrderAt(c, n)] = "waiting"
        \/ task \in {"confirm", "ship"} /\ record[<<c, n>>].status = "IMPORTED"}

\* What the task loads: Mirakl's waiting orders, or records by their status.
Page(task, c) ==
    {n \in Numbers :
        \/ task = "import" /\ order[OrderAt(c, n)] = "waiting"
        \/ task = "confirm" /\ record[<<c, n>>].status = "IMPORTED"
        \/ task = "ship" /\ record[<<c, n>>].status = "CONFIRMED"}

\* With the last order of the last pair the run ends.
Turn(r, new) ==
    run' = [run EXCEPT ![r] = IF new.page = {} /\ new.todo = {} THEN Idle ELSE new]

NextPair(r) ==
    /\ run[r].page = {}
    /\ \E pair \in run[r].todo :
          Turn(r, [todo |-> run[r].todo \ {pair}, pair |-> pair,
                   page |-> Page(TaskOf[r], pair[1])])
    /\ UNCHANGED <<tenancy, order, parcel, made, left, record>>

Handle(r, n) ==
    /\ n \in run[r].page
    /\ Turn(r, [run[r] EXCEPT !.page = @ \ {n}])

\* The id a PlentyONE system gives to its next order.
NextId(p) ==
    {i \in Ids : made[<<p, i>>] = None /\ \A j \in 1 .. i - 1 : made[<<p, j>>] # None}

\* Mutant: no look at the records.
AlwaysImportable(c, n) == TRUE

\* An order that has a record of this connection is not imported again.
Importable(c, n) == record[<<c, n>>].status = "none"

ImportOrder(r, n) ==
    LET c == run[r].pair[1]
        p == run[r].pair[2]
    IN  /\ TaskOf[r] = "import"
        /\ Handle(r, n)
        /\ IF Importable(c, n)
             THEN \E i \in NextId(p) :
                    /\ made' = [made EXCEPT ![<<p, i>>] = OrderAt(c, n)]
                    /\ record' = [record EXCEPT ![<<c, n>>] =
                                     [status |-> "IMPORTED", id |-> i]]
             ELSE UNCHANGED <<made, record>>
        /\ UNCHANGED <<tenancy, order, parcel, left>>

\* Mirakl refuses an accept of an order that is past it, unless RepeatOk.
ConfirmOrder(r, n) ==
    LET c == run[r].pair[1]
        o == OrderAt(c, n)
        ok == order[o] = "waiting" \/ RepeatOk
    IN  /\ TaskOf[r] = "confirm"
        /\ Handle(r, n)
        /\ order' = IF order[o] = "waiting" THEN [order EXCEPT ![o] = "accepted"]
                                            ELSE order
        /\ record' = IF ok THEN [record EXCEPT ![<<c, n>>].status = "CONFIRMED"]
                           ELSE record
        /\ UNCHANGED <<tenancy, parcel, made, left>>

\* Mutant: the status is written as Mirakl spells it.
ShipLowercase(o, x, k) ==
    IF order[o] = "accepted" \/ (order[o] = "shipped" /\ RepeatOk)
      THEN /\ order' = [order EXCEPT ![o] = "shipped"]
           /\ parcel' = [parcel EXCEPT ![o] = IF @ = None THEN x ELSE @]
           /\ record' = [record EXCEPT ![k].status = "shipped"]
      ELSE UNCHANGED <<order, parcel, record>>

\* ship_order with the tracking number of x, and what becomes of the record k.
Ship(o, x, k) ==
    IF order[o] = "accepted" \/ (order[o] = "shipped" /\ RepeatOk)
      THEN /\ order' = [order EXCEPT ![o] = "shipped"]
           /\ parcel' = [parcel EXCEPT ![o] = IF @ = None THEN x ELSE @]
           /\ record' = [record EXCEPT ![k].status = "SHIPPED"]
      ELSE UNCHANGED <<order, parcel, record>>

\* The system is that of the run's pair, whichever system the order is in.
ShipOrder(r, n) ==
    LET c == run[r].pair[1]
        x == <<run[r].pair[2], record[<<c, n>>].id>>
    IN  /\ TaskOf[r] = "ship"
        /\ Handle(r, n)
        /\ IF x \in left THEN Ship(OrderAt(c, n), x, <<c, n>>)
                         ELSE UNCHANGED <<order, parcel, record>>
        /\ UNCHANGED <<tenancy, made, left>>

-----------------------------------------------------------------------------
(* The webhook and the merchant *)

\* Mutant: the row is looked up in all tenants.
RowsOfAnyTenant(t, id) == {k \in Keys : record[k].status # "none" /\ record[k].id = id}

\* The rows with the PlentyONE id, of removed connections, too.
RowsOf(t, id) ==
    {k \in Keys : TenantOf[k[1]] = t /\ record[k].status # "none" /\ record[k].id = id}

\* PlentyONE tells that an order has left.  A second active connection makes
\* the lookup raise; the tenant's status is not looked at.
PlentyOrderStatus(x) ==
    LET t == OwnerOf[x[1]]
    IN  /\ x \in left
        /\ SystemsOf(t) = {x[1]}
        /\ \E k \in RowsOf(t, x[2]) : Ship(OrderAt(k[1], k[2]), x, k)
        /\ UNCHANGED <<tenancy, made, left, run>>

Dispatch(x) ==
    /\ made[x] # None
    /\ left' = left \cup {x}
    /\ UNCHANGED <<tenancy, order, parcel, made, record, run>>

-----------------------------------------------------------------------------
TaskStep(r) ==
    \/ StartTask(r)
    \/ NextPair(r)
    \/ \E n \in Numbers :
          \/ ImportOrder(r, n)
          \/ ConfirmOrder(r, n)
          \/ ShipOrder(r, n)

Next ==
    \/ \E t \in Tenants :
          \E s \in {"active", "suspended"} \ {status[t]} : TenantSetStatus(t, s)
    \/ \E c \in Connections : MiraklAdd(c) \/ MiraklRemove(c)
    \/ \E p \in Systems : PlentyAdd(p)
    \/ \E r \in Runs : TaskStep(r)
    \/ \E x \in PlentyOrders : PlentyOrderStatus(x) \/ Dispatch(x)

Spec == Init /\ [][Next]_vars

\* The schedule starts the tasks for ever, and a run goes on.  Of the three,
\* the properties need the one that ships.
Fairness == \A r \in Runs : TaskOf[r] = "ship" => WF_vars(TaskStep(r))

FairSpec == Spec /\ Fairness

-----------------------------------------------------------------------------
(* Properties *)

\* Nothing of a tenant's shop gets into another tenant's PlentyONE system, and
\* Mirakl is told the tracking number of no other tenant's parcel
\* (orchestrator.py:50, webhooks/plenty.py:117).
TenantsApart ==
    /\ \A x \in PlentyOrders : made[x] \in Orders =>
          \E c \in Connections :
              TenantOf[c] = OwnerOf[x[1]] /\ ShopOf[c] = made[x][1]
    /\ \A o \in Orders : parcel[o] # None =>
          \E c \in Connections :
              TenantOf[c] = OwnerOf[parcel[o][1]] /\ ShopOf[c] = o[1]

\* A shipped order carries its own tracking number as long as the tenant has
\* one PlentyONE connection (ARCHITECTURE_SAAS.md:414, assumption A6).  With a
\* second one, the id of a record is looked up in the wrong system.
OwnParcel ==
    \A o \in Orders : parcel[o] # None =>
        \/ made[parcel[o]] = o
        \/ Cardinality(SystemsOf(OwnerOf[parcel[o][1]])) > 1

\* An order gets into PlentyONE once for every connection to its shop that was
\* added before Mirakl had it accepted, and no more often: a removed connection
\* that is added again knows nothing of the old one's records
\* (order_service.py:74, 002_multitenancy.py:184).
CopiesOf(o) == {x \in PlentyOrders : made[x] = o}

DuplicateOnlyByReadd ==
    \A o \in Orders :
        Cardinality(CopiesOf(o)) <=
            Cardinality({c \in Connections : ShopOf[c] = o[1] /\ mirakl[c] # "none"})

\* Without any webhook, a confirmed and dispatched order gets shipped
\* (orchestrator.py:137), unless the connection is removed, the tenant is
\* suspended, or a second PlentyONE connection hides the order.
PollerShips ==
    \A k \in Keys :
        record[k].status = "CONFIRMED"
          ~> \/ record[k].status = "SHIPPED"
             \/ mirakl[k[1]] # "active"
             \/ status[TenantOf[k[1]]] # "active"
             \/ Cardinality(SystemsOf(TenantOf[k[1]])) > 1
             \/ \A p \in SystemsOf(TenantOf[k[1]]) : <<p, record[k].id>> \notin left

=============================================================================
