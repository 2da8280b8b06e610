---------------------------- MODULE ShopsProofs -----------------------------
(***************************************************************************)
(* Proofs about Shops, for any tenants, connections, systems, orders and   *)
(* runs: tenants stay apart, a parcel is the order's own as long as its    *)
(* tenant has one PlentyONE connection, and an order has no more copies    *)
(* than its shop has had connections.                                      *)
(***************************************************************************)
EXTENDS Shops, FiniteSetTheorems, TLAPS

\* The pairs of a connection and a system of one tenant.
Pairs ==
    {pair \in Connections \X Systems :
        /\ TenantOf[pair[1]] = OwnerOf[pair[2]]
        /\ mirakl[pair[1]] # "none"
        /\ pair[2] \in plenty}

Recorded(k) == record[k].status # "none"

\* Runs work on such pairs, and all but an import on records that exist.
RunsTrue ==
    \A r \in Runs :
        /\ run[r].todo \subseteq Pairs
        /\ run[r].page # {} => run[r].pair \in Pairs
        /\ TaskOf[r] # "import" =>
              \A n \in run[r].page : Recorded(<<run[r].pair[1], n>>)

\* A record's id is that of the order in a system of the same tenant; which
\* one, the record does not say.
RecordsTrue ==
    \A k \in Keys : Recorded(k) =>
        /\ mirakl[k[1]] # "none"
        /\ \E p \in SystemsOf(TenantOf[k[1]]) :
              /\ <<p, record[k].id>> \in PlentyOrders
              /\ made[<<p, record[k].id>>] = OrderAt(k[1], k[2])

RecordersOf(o) == {c \in Connections : ShopOf[c] = o[1] /\ Recorded(<<c, o[2]>>)}

\* Each copy of an order has its record.
CopiesTrue ==
    \A o \in Orders :
        /\ IsFiniteSet(CopiesOf(o))
        /\ Cardinality(CopiesOf(o)) <= Cardinality(RecordersOf(o))

ParcelsTrue == \A o \in Orders : parcel[o] # None => parcel[o][1] \in plenty

Truths ==
    RunsTrue /\ RecordsTrue /\ CopiesTrue /\ ParcelsTrue /\ TenantsApart /\ OwnParcel

IInv == TypeOK /\ Truths

-----------------------------------------------------------------------------
(* Types *)

LEMMA Constants ==
    /\ TenantOf \in [Connections -> Tenants] /\ OwnerOf \in [Systems -> Tenants]
    /\ TaskOf \in [Runs -> Tasks] /\ MaxId \in Nat /\ MaxEdits \in Nat
    /\ None \notin PlentyOrders /\ None \notin Orders /\ None # Other
    /\ None \notin Connections \X Systems
    /\ Other \notin Orders /\ Foreign \subseteq PlentyOrders
    /\ IsFiniteSet(Connections) /\ IsFiniteSet(Systems)
  BY ShopsAssumption DEF PlentyOrders, Ids, Orders

LEMMA OrderAtType ==
    ASSUME NEW c \in Connections, NEW n \in Numbers
    PROVE  /\ OrderAt(c, n) \in Orders /\ OrderAt(c, n) # None
           /\ OrderAt(c, n)[1] = ShopOf[c] /\ OrderAt(c, n)[2] = n
           /\ <<c, n>> \in Keys /\ <<c, n>>[1] = c /\ <<c, n>>[2] = n
  BY Constants DEF OrderAt, Orders, Shops, Keys

LEMMA RunFields ==
    ASSUME TypeOK, NEW r \in Runs
    PROVE  /\ run[r] \in Run
           /\ run[r].todo \subseteq Connections \X Systems
           /\ run[r].pair \in (Connections \X Systems) \cup {None}
           /\ run[r].page \subseteq Numbers
  BY DEF TypeOK, Run

LEMMA IdleType == Idle \in Run
  BY DEF Idle, Run

LEMMA TurnType ==
    ASSUME TypeOK, NEW r \in Runs, NEW new \in Run, Turn(r, new)
    PROVE  run' \in [Runs -> Run]
  BY IdleType DEF TypeOK, Turn

LEMMA HandleType ==
    ASSUME TypeOK, NEW r \in Runs, NEW n \in Numbers, Handle(r, n)
    PROVE  run' \in [Runs -> Run]
  <1>1. [run[r] EXCEPT !.page = @ \ {n}] \in Run
    BY RunFields DEF Run
  <1> QED
    BY <1>1, TurnType DEF Handle

\* The pair of a run that handles an order.
LEMMA HandlePair ==
    ASSUME IInv, NEW r \in Runs, NEW n \in Numbers, Handle(r, n)
    PROVE  /\ run[r].pair \in Pairs
           /\ run[r].pair[1] \in Connections /\ run[r].pair[2] \in Systems
           /\ run[r].pair[2] \in SystemsOf(TenantOf[run[r].pair[1]])
           /\ TenantOf[run[r].pair[1]] = OwnerOf[run[r].pair[2]]
           /\ mirakl[run[r].pair[1]] # "none" /\ run[r].pair[2] \in plenty
           /\ TaskOf[r] # "import" => Recorded(<<run[r].pair[1], n>>)
  BY DEF IInv, Truths, RunsTrue, Handle, Pairs, SystemsOf

LEMMA ShipType ==
    ASSUME TypeOK, NEW o \in Orders, NEW x \in PlentyOrders, NEW k \in Keys,
           Ship(o, x, k)
    PROVE  /\ order' \in [Orders -> {"waiting", "accepted", "shipped"}]
           /\ parcel' \in [Orders -> PlentyOrders \cup {None}]
           /\ record' \in [Keys -> [status : {"none", "IMPORTED", "CONFIRMED", "SHIPPED"},
                                    id : Ids \cup {0}]]
  <1> DEFINE Goes == order[o] = "accepted" \/ (order[o] = "shipped" /\ RepeatOk)
  <1>1. CASE Goes
    <2>1. order' = [order EXCEPT ![o] = "shipped"]
      BY <1>1 DEF Ship
    <2>2. parcel' = [parcel EXCEPT ![o] = IF @ = None THEN x ELSE @]
      BY <1>1 DEF Ship
    <2>3. record' = [record EXCEPT ![k].status = "SHIPPED"]
      BY <1>1 DEF Ship
    <2>4. order' \in [Orders -> {"waiting", "accepted", "shipped"}]
      BY <2>1 DEF TypeOK
    <2>5. parcel' \in [Orders -> PlentyOrders \cup {None}]
      BY <2>2 DEF TypeOK
    <2>6. record' \in [Keys -> [status : {"none", "IMPORTED", "CONFIRMED", "SHIPPED"},
                                id : Ids \cup {0}]]
      BY <2>3 DEF TypeOK
    <2> QED
      BY <2>4, <2>5, <2>6
  <1>2. CASE ~ Goes
    <2>1. UNCHANGED <<order, parcel, record>>
      BY <1>2 DEF Ship
    <2> QED
      BY <2>1 DEF TypeOK
  <1> QED
    BY <1>1, <1>2

LEMMA TypeInit ==
    ASSUME Init
    PROVE  TypeOK
  <1>1. NoRecord \in [status : {"none", "IMPORTED", "CONFIRMED", "SHIPPED"},
                      id : Ids \cup {0}]
    BY DEF NoRecord
  <1>2. left \subseteq {x \in PlentyOrders : made[x] # None}
    BY Constants DEF Init
  <1>3. edits \in 0 .. MaxEdits
    BY Constants DEF Init
  <1> QED
    BY <1>1, <1>2, <1>3, IdleType DEF Init, TypeOK

LEMMA CommandTypes ==
    ASSUME TypeOK,
           \/ \E t \in Tenants :
                 \E s \in {"active", "suspended"} \ {status[t]} : TenantSetStatus(t, s)
           \/ \E c \in Connections : MiraklAdd(c) \/ MiraklRemove(c)
           \/ \E p \in Systems : PlentyAdd(p)
    PROVE  TypeOK'
  <1>1. Edit
    BY DEF TenantSetStatus, MiraklAdd, MiraklRemove, PlentyAdd
  <1>2. edits' \in 0 .. MaxEdits
    BY <1>1, Constants DEF Edit, TypeOK
  <1>3. UNCHANGED <<order, parcel, made, left, record, run>>
    BY <1>1 DEF Edit
  <1>4. /\ status' \in [Tenants -> {"active", "suspended"}]
        /\ mirakl' \in [Connections -> {"none", "active", "removed"}]
        /\ plenty' \subseteq Systems
    BY DEF TenantSetStatus, MiraklAdd, MiraklRemove, PlentyAdd, TypeOK
  <1> QED
    BY <1>2, <1>3, <1>4 DEF TypeOK

LEMMA StartPairs ==
    ASSUME TypeOK, NEW first \in Assignments
    PROVE  ActivePairs(first) \subseteq Pairs
  <1>1. ASSUME NEW m \in Connections, mirakl[m] = "active", first[TenantOf[m]] \in plenty
        PROVE  <<m, first[TenantOf[m]]>> \in Pairs
    <2>1. TenantOf[m] \in Tenants
      BY Constants
    <2>2. first[TenantOf[m]] \in Systems /\ OwnerOf[first[TenantOf[m]]] = TenantOf[m]
      BY <2>1 DEF Assignments
    <2> QED
      BY <1>1, <2>2 DEF Pairs
  <1> QED
    BY <1>1 DEF ActivePairs

LEMMA TaskTypes ==
    ASSUME IInv, NEW r \in Runs, TaskStep(r)
    PROVE  TypeOK'
  <1> USE DEF tenancy
  <1>1. CASE StartTask(r)
    <2>1. PICK first \in Assignments : run' = [run EXCEPT ![r].todo = ActivePairs(first)]
      BY <1>1 DEF StartTask
    <2>2. ActivePairs(first) \subseteq Connections \X Systems
      BY StartPairs DEF IInv, Pairs
    <2>3. [run[r] EXCEPT !.todo = ActivePairs(first)] \in Run
      BY <2>2, RunFields DEF IInv, Run
    <2>4. run' \in [Runs -> Run]
      BY <2>1, <2>3 DEF IInv, TypeOK
    <2> QED
      BY <1>1, <2>4 DEF StartTask, IInv, TypeOK
  <1>2. CASE NextPair(r)
    <2>1. PICK pair \in run[r].todo :
             Turn(r, [todo |-> run[r].todo \ {pair}, pair |-> pair,
                      page |-> Page(TaskOf[r], pair[1])])
      BY <1>2 DEF NextPair
    <2>2. [todo |-> run[r].todo \ {pair}, pair |-> pair,
           page |-> Page(TaskOf[r], pair[1])] \in Run
      BY RunFields DEF IInv, Run, Page
    <2>3. run' \in [Runs -> Run]
      BY <2>1, <2>2, TurnType DEF IInv
    <2> QED
      BY <1>2, <2>3 DEF NextPair, IInv, TypeOK
  <1>3. ASSUME NEW n \in Numbers, ImportOrder(r, n)
        PROVE  TypeOK'
    <2>1. run' \in [Runs -> Run] /\ Handle(r, n)
      BY <1>3, HandleType DEF ImportOrder, IInv
    <2>2. PICK c, p : c = run[r].pair[1] /\ p = run[r].pair[2]
      OBVIOUS
    <2>3. c \in Connections /\ p \in Systems
      BY <2>1, <2>2, HandlePair
    <2>4. CASE UNCHANGED <<made, record>>
      BY <1>3, <2>1, <2>4 DEF ImportOrder, IInv, TypeOK
    <2>5. ASSUME NEW i \in NextId(p),
                 made' = [made EXCEPT ![<<p, i>>] = OrderAt(c, n)],
                 record' = [record EXCEPT ![<<c, n>>] = [status |-> "IMPORTED", id |-> i]]
          PROVE  TypeOK'
      <3>1. i \in Ids /\ <<p, i>> \in PlentyOrders
        BY <2>3 DEF NextId, PlentyOrders
      <3>2. made' \in [PlentyOrders -> Orders \cup {Other, None}]
        BY <2>3, <2>5, <3>1, OrderAtType DEF IInv, TypeOK
      <3>3. left' \subseteq {x \in PlentyOrders : made'[x] # None}
        BY <1>3, <2>3, <2>5, OrderAtType DEF ImportOrder, IInv, TypeOK
      <3>4. [status |-> "IMPORTED", id |-> i]
               \in [status : {"none", "IMPORTED", "CONFIRMED", "SHIPPED"}, id : Ids \cup {0}]
        BY <3>1
      <3>5. record' \in [Keys -> [status : {"none", "IMPORTED", "CONFIRMED", "SHIPPED"},
                                  id : Ids \cup {0}]]
        BY <2>5, <3>4 DEF IInv, TypeOK
      <3> QED
        BY <1>3, <2>1, <3>2, <3>3, <3>5 DEF ImportOrder, IInv, TypeOK
    <2> QED
      BY <1>3, <2>2, <2>4, <2>5 DEF ImportOrder
  <1>4. ASSUME NEW n \in Numbers, ConfirmOrder(r, n)
        PROVE  TypeOK'
    <2>1. run' \in [Runs -> Run]
      BY <1>4, HandleType DEF ConfirmOrder, IInv
    <2>2. order' \in [Orders -> {"waiting", "accepted", "shipped"}]
      BY <1>4 DEF ConfirmOrder, IInv, TypeOK
    <2>3. record' \in [Keys -> [status : {"none", "IMPORTED", "CONFIRMED", "SHIPPED"},
                                id : Ids \cup {0}]]
      BY <1>4 DEF ConfirmOrder, IInv, TypeOK
    <2> QED
      BY <1>4, <2>1, <2>2, <2>3 DEF ConfirmOrder, IInv, TypeOK
  <1>5. ASSUME NEW n \in Numbers, ShipOrder(r, n)
        PROVE  TypeOK'
    <2>1. run' \in [Runs -> Run] /\ Handle(r, n)
      BY <1>5, HandleType DEF ShipOrder, IInv
    <2>2. PICK c, p : c = run[r].pair[1] /\ p = run[r].pair[2]
      OBVIOUS
    <2>3. c \in Connections /\ p \in Systems
      BY <2>1, <2>2, HandlePair
    <2>4. CASE UNCHANGED <<order, parcel, record>>
      BY <1>5, <2>1, <2>4 DEF ShipOrder, IInv, TypeOK
    <2>5. CASE /\ <<p, record[<<c, n>>].id>> \in left
               /\ Ship(OrderAt(c, n), <<p, record[<<c, n>>].id>>, <<c, n>>)
      <3>1. <<p, record[<<c, n>>].id>> \in PlentyOrders
        BY <2>5 DEF IInv, TypeOK
      <3> QED
        BY <1>5, <2>1, <2>3, <2>5, <3>1, OrderAtType, ShipType
           DEF ShipOrder, IInv, TypeOK
    <2> QED
      BY <1>5, <2>2, <2>4, <2>5 DEF ShipOrder
  <1> QED
    BY <1>1, <1>2, <1>3, <1>4, <1>5 DEF TaskStep

LEMMA WorldTypes ==
    ASSUME TypeOK, NEW x \in PlentyOrders, PlentyOrderStatus(x) \/ Dispatch(x)
    PROVE  TypeOK'
  <1> USE DEF tenancy
  <1>1. ASSUME NEW k \in Keys, Ship(OrderAt(k[1], k[2]), x, k), PlentyOrderStatus(x)
        PROVE  TypeOK'
    <2>1. OrderAt(k[1], k[2]) \in Orders
      BY OrderAtType DEF Keys
    <2>2. /\ order' \in [Orders -> {"waiting", "accepted", "shipped"}]
          /\ parcel' \in [Orders -> PlentyOrders \cup {None}]
          /\ record' \in [Keys -> [status : {"none", "IMPORTED", "CONFIRMED", "SHIPPED"},
                                   id : Ids \cup {0}]]
      BY <1>1, <2>1, ShipType
    <2> QED
      BY <1>1, <2>2 DEF PlentyOrderStatus, TypeOK
  <1>2. CASE PlentyOrderStatus(x)
    BY <1>1, <1>2 DEF PlentyOrderStatus, RowsOf
  <1>3. CASE Dispatch(x)
    BY <1>3 DEF Dispatch, TypeOK
  <1> QED
    BY <1>2, <1>3

LEMMA TypeNext ==
    ASSUME IInv, [Next]_vars
    PROVE  TypeOK'
  <1>1. CASE UNCHANGED vars
    BY <1>1 DEF vars, IInv, TypeOK
  <1>2. CASE Next
    BY <1>2, CommandTypes, TaskTypes, WorldTypes DEF Next, IInv
  <1> QED
    BY <1>1, <1>2

-----------------------------------------------------------------------------
(* Truths *)

\* Connections are only added.
Kept ==
    /\ \A c \in Connections : mirakl[c] # "none" => mirakl'[c] # "none"
    /\ plenty \subseteq plenty'

LEMMA PairsKept ==
    ASSUME Kept
    PROVE  Pairs \subseteq Pairs'
  BY DEF Kept, Pairs

LEMMA SystemsKept ==
    ASSUME Kept, TypeOK', NEW t \in Tenants
    PROVE  /\ SystemsOf(t) \subseteq SystemsOf(t)'
           /\ IsFiniteSet(SystemsOf(t)')
           /\ Cardinality(SystemsOf(t)) <= Cardinality(SystemsOf(t)')
           /\ Cardinality(SystemsOf(t)) \in Nat
           /\ Cardinality(SystemsOf(t)') \in Nat
  <1>1. SystemsOf(t) \subseteq SystemsOf(t)' /\ SystemsOf(t)' \subseteq Systems
    BY DEF Kept, SystemsOf, TypeOK
  <1>2. IsFiniteSet(SystemsOf(t)')
    BY <1>1, Constants, FS_Subset
  <1> QED
    BY <1>1, <1>2, FS_Subset, FS_CardinalityType

\* Two systems are more than one.
LEMMA MoreThanOne ==
    ASSUME NEW S, IsFiniteSet(S), NEW y \in S, NEW z \in S, y # z
    PROVE  Cardinality(S) > 1
  <1>1. Cardinality({y}) = 1 /\ IsFiniteSet({y})
    BY FS_Singleton
  <1>2. Cardinality({y} \cup {z}) = 2
    BY <1>1, FS_AddElement
  <1>3. Cardinality({y} \cup {z}) <= Cardinality(S) /\ Cardinality(S) \in Nat
    BY FS_Subset, FS_CardinalityType
  <1> QED
    BY <1>2, <1>3

LEMMA TruthsInit ==
    ASSUME Init
    PROVE  Truths
  <1>1. RunsTrue
    BY DEF Init, RunsTrue, Idle
  <1>2. RecordsTrue
    BY DEF Init, RecordsTrue, Recorded, NoRecord
  <1>3. ASSUME NEW o \in Orders
        PROVE  CopiesOf(o) = {}
    BY <1>3, Constants DEF Init, CopiesOf
  <1>4. CopiesTrue
    <2>1. ASSUME NEW o \in Orders
          PROVE  RecordersOf(o) = {}
      BY DEF Init, RecordersOf, Recorded, NoRecord, Keys, Orders
    <2> QED
      BY <1>3, <2>1, FS_EmptySet DEF CopiesTrue
  <1>5. ParcelsTrue /\ OwnParcel
    BY DEF Init, ParcelsTrue, OwnParcel
  <1>6. TenantsApart
    BY Constants DEF Init, TenantsApart
  <1> QED
    BY <1>1, <1>2, <1>4, <1>5, <1>6 DEF Truths

\* What commands and steps without an order leave true.
LEMMA CommandTruths ==
    ASSUME IInv, TypeOK', Kept, RunsTrue', UNCHANGED <<order, parcel, made, record>>
    PROVE  Truths'
  <1>1. RecordsTrue'
    <2>1. ASSUME NEW k \in Keys
          PROVE  TenantOf[k[1]] \in Tenants /\ k[1] \in Connections
      BY Constants DEF Keys
    <2> QED
      BY <2>1, SystemsKept DEF IInv, Truths, RecordsTrue, Recorded, Kept
  <1>2. CopiesTrue'
    BY DEF IInv, Truths, CopiesTrue, CopiesOf, RecordersOf, Recorded
  <1>3. ParcelsTrue' /\ TenantsApart'
    BY DEF IInv, Truths, ParcelsTrue, TenantsApart, Kept
  <1>4. OwnParcel'
    <2>1. SUFFICES ASSUME NEW o \in Orders, parcel[o] # None, made[parcel[o]] # o
                   PROVE  Cardinality(SystemsOf(OwnerOf[parcel[o][1]])') > 1
      BY DEF OwnParcel
    <2>2. Cardinality(SystemsOf(OwnerOf[parcel[o][1]])) > 1
      BY <2>1 DEF IInv, Truths, OwnParcel
    <2>3. OwnerOf[parcel[o][1]] \in Tenants
      BY <2>1, Constants DEF IInv, TypeOK, PlentyOrders
    <2> QED
      BY <2>2, <2>3, SystemsKept
  <1> QED
    BY <1>1, <1>2, <1>3, <1>4 DEF Truths

LEMMA RunsStart ==
    ASSUME IInv, NEW r \in Runs, StartTask(r)
    PROVE  RunsTrue'
  <1>1. PICK first \in Assignments : run' = [run EXCEPT ![r].todo = ActivePairs(first)]
    BY DEF StartTask
  <1>2. ActivePairs(first) \subseteq Pairs
    BY StartPairs DEF IInv
  <1>3. run[r].page = {} /\ run \in [Runs -> Run]
    BY DEF StartTask, Idle, IInv, TypeOK
  <1>4. /\ run'[r].todo = ActivePairs(first) /\ run'[r].page = {}
        /\ \A q \in Runs : q # r => run'[q] = run[q]
    BY <1>1, <1>3 DEF Run
  <1>5. Pairs' = Pairs /\ record' = record
    BY DEF StartTask, tenancy, Pairs
  <1> QED
    BY <1>2, <1>4, <1>5 DEF IInv, Truths, RunsTrue, Recorded

LEMMA RunsNext ==
    ASSUME IInv, NEW r \in Runs, NextPair(r)
    PROVE  RunsTrue'
  <1>1. PICK pair \in run[r].todo :
           Turn(r, [todo |-> run[r].todo \ {pair}, pair |-> pair,
                    page |-> Page(TaskOf[r], pair[1])])
    BY DEF NextPair
  <1>2. pair \in Pairs /\ run[r].todo \subseteq Pairs /\ pair[1] \in Connections
    BY <1>1 DEF IInv, Truths, RunsTrue, Pairs
  <1>3. TaskOf[r] # "import" =>
           \A n \in Page(TaskOf[r], pair[1]) : Recorded(<<pair[1], n>>)
    BY DEF Page, Recorded
  <1>4. run \in [Runs -> Run]
    BY DEF IInv, TypeOK
  <1>5. /\ run'[r].todo \subseteq Pairs
        /\ run'[r].page # {} => run'[r].pair \in Pairs
        /\ TaskOf[r] # "import" => \A n \in run'[r].page : Recorded(<<run'[r].pair[1], n>>)
    BY <1>1, <1>2, <1>3, <1>4 DEF Turn, Idle
  <1>6. \A q \in Runs : q # r => run'[q] = run[q]
    BY <1>1, <1>4 DEF Turn
  <1>7. Pairs' = Pairs /\ record' = record
    BY DEF NextPair, tenancy, Pairs
  <1> QED
    BY <1>5, <1>6, <1>7 DEF IInv, Truths, RunsTrue, Recorded

LEMMA RunsHandle ==
    ASSUME IInv, NEW r \in Runs, NEW n \in Numbers, Handle(r, n), UNCHANGED tenancy,
           \A k \in Keys : Recorded(k) => Recorded(k)'
    PROVE  RunsTrue'
  <1>1. PICK new : new = [run[r] EXCEPT !.page = @ \ {n}]
    OBVIOUS
  <1>2. new.todo = run[r].todo /\ new.pair = run[r].pair /\ new.page = run[r].page \ {n}
    BY <1>1, RunFields DEF IInv, Run
  <1>3. run'[r] = Idle \/ run'[r] = new
    BY <1>1 DEF Handle, Turn, IInv, TypeOK
  <1>4. \A q \in Runs : q # r => run'[q] = run[q]
    BY DEF Handle, Turn, IInv, TypeOK
  <1>5. Pairs' = Pairs
    BY DEF tenancy, Pairs
  <1>6. ASSUME NEW q \in Runs, NEW m \in run[q].page
        PROVE  <<run[q].pair[1], m>> \in Keys
    BY <1>6, RunFields DEF IInv, Truths, RunsTrue, Pairs, Keys
  <1>7. ASSUME NEW q \in Runs
        PROVE  /\ run'[q].todo \subseteq Pairs
               /\ run'[q].page # {} => run'[q].pair \in Pairs
    BY <1>2, <1>3, <1>4 DEF IInv, Truths, RunsTrue, Idle
  <1>8. ASSUME NEW q \in Runs, TaskOf[q] # "import", NEW m \in run'[q].page
        PROVE  record'[<<run'[q].pair[1], m>>].status # "none"
    <2>1. m \in run[q].page /\ run'[q].pair = run[q].pair
      BY <1>2, <1>3, <1>4, <1>8 DEF Idle
    <2>2. Recorded(<<run[q].pair[1], m>>)
      BY <1>8, <2>1 DEF IInv, Truths, RunsTrue
    <2> QED
      BY <1>6, <2>1, <2>2 DEF Recorded
  <1> QED
    BY <1>5, <1>7, <1>8 DEF RunsTrue, Recorded

\* A step that only moves records on.
SameRecords ==
    /\ UNCHANGED <<tenancy, made>>
    /\ \A k \in Keys : record'[k].id = record[k].id /\ (Recorded(k)' <=> Recorded(k))

LEMMA SameTruths ==
    ASSUME IInv, SameRecords
    PROVE  RecordsTrue' /\ CopiesTrue'
  <1>1. RecordsTrue'
    BY DEF IInv, Truths, RecordsTrue, SameRecords, tenancy, SystemsOf
  <1>2. ASSUME NEW o \in Orders
        PROVE  CopiesOf(o)' = CopiesOf(o) /\ RecordersOf(o)' = RecordersOf(o)
    BY DEF SameRecords, CopiesOf, RecordersOf, Keys, Orders
  <1> QED
    BY <1>1, <1>2 DEF IInv, Truths, CopiesTrue

LEMMA ShipRecords ==
    ASSUME TypeOK, NEW o \in Orders, NEW x \in PlentyOrders, NEW k \in Keys, Recorded(k),
           Ship(o, x, k), UNCHANGED <<tenancy, made>>
    PROVE  /\ SameRecords
           /\ \A u \in Orders : parcel'[u] = parcel[u] \/ (u = o /\ parcel'[u] = x)
  <1> DEFINE Goes == order[o] = "accepted" \/ (order[o] = "shipped" /\ RepeatOk)
  <1>1. CASE Goes
    <2>1. parcel' = [parcel EXCEPT ![o] = IF @ = None THEN x ELSE @]
      BY <1>1 DEF Ship
    <2>2. record' = [record EXCEPT ![k].status = "SHIPPED"]
      BY <1>1 DEF Ship
    <2>3. \A j \in Keys : record'[j].id = record[j].id /\ (Recorded(j)' <=> Recorded(j))
      BY <2>2 DEF TypeOK, Recorded
    <2> QED
      BY <2>1, <2>3 DEF SameRecords, TypeOK
  <1>2. CASE ~ Goes
    BY <1>2 DEF Ship, SameRecords, Recorded
  <1> QED
    BY <1>1, <1>2

LEMMA ShipTruths ==
    ASSUME IInv, RunsTrue', NEW k \in Keys, Recorded(k),
           NEW p \in SystemsOf(TenantOf[k[1]]), <<p, record[k].id>> \in PlentyOrders,
           Ship(OrderAt(k[1], k[2]), <<p, record[k].id>>, k), UNCHANGED <<tenancy, made>>
    PROVE  Truths'
  <1>1. PICK o, x : o = OrderAt(k[1], k[2]) /\ x = <<p, record[k].id>>
    OBVIOUS
  <1>2. /\ o \in Orders /\ k[1] \in Connections /\ ShopOf[k[1]] = o[1]
        /\ x \in PlentyOrders /\ x[1] = p /\ p \in plenty /\ OwnerOf[p] = TenantOf[k[1]]
    BY <1>1, OrderAtType DEF Keys, SystemsOf
  <1>3. /\ SameRecords
        /\ \A u \in Orders : parcel'[u] = parcel[u] \/ (u = o /\ parcel'[u] = x)
    BY <1>1, <1>2, ShipRecords DEF IInv
  <1>4. RecordsTrue' /\ CopiesTrue'
    BY <1>3, SameTruths
  <1>5. ParcelsTrue'
    BY <1>2, <1>3 DEF IInv, Truths, ParcelsTrue, tenancy
  <1>6. TenantsApart'
    BY <1>2, <1>3 DEF IInv, Truths, TenantsApart
  <1>7. made[x] = o \/ Cardinality(SystemsOf(TenantOf[k[1]])) > 1
    <2>1. PICK q \in SystemsOf(TenantOf[k[1]]) : made[<<q, record[k].id>>] = o
      BY <1>1 DEF IInv, Truths, RecordsTrue
    <2>2. IsFiniteSet(SystemsOf(TenantOf[k[1]]))
      BY Constants, FS_Subset DEF SystemsOf, IInv, TypeOK
    <2> QED
      BY <1>1, <2>1, <2>2, MoreThanOne
  <1>8. OwnParcel'
    BY <1>2, <1>3, <1>7 DEF IInv, Truths, OwnParcel, SystemsOf, tenancy
  <1> QED
    BY <1>4, <1>5, <1>6, <1>8 DEF Truths

LEMMA ImportTruths ==
    ASSUME IInv, RunsTrue', UNCHANGED <<tenancy, parcel>>, NEW pair \in Pairs, NEW n \in Numbers,
           ~ Recorded(<<pair[1], n>>), NEW i \in NextId(pair[2]),
           made' = [made EXCEPT ![<<pair[2], i>>] = OrderAt(pair[1], n)],
           record' = [record EXCEPT ![<<pair[1], n>>] = [status |-> "IMPORTED", id |-> i]]
    PROVE  Truths'
  <1>1. PICK c, p, o, x, k : /\ c = pair[1] /\ p = pair[2] /\ o = OrderAt(c, n)
                             /\ x = <<p, i>> /\ k = <<c, n>>
    OBVIOUS
  <1>2. /\ c \in Connections /\ p \in Systems /\ p \in plenty
        /\ TenantOf[c] = OwnerOf[p] /\ mirakl[c] # "none"
    BY <1>1 DEF Pairs
  <1>3. /\ x \in PlentyOrders /\ x[1] = p /\ made[x] = None
        /\ k \in Keys /\ k[1] = c /\ k[2] = n
        /\ o \in Orders /\ o[1] = ShopOf[c] /\ o[2] = n /\ o # None
    BY <1>1, <1>2, OrderAtType DEF NextId, PlentyOrders
  <1>4. /\ made'[x] = o /\ \A y \in PlentyOrders : y # x => made'[y] = made[y]
        /\ record'[k].status = "IMPORTED" /\ record'[k].id = i
        /\ \A j \in Keys : j # k => record'[j] = record[j]
    BY <1>1, <1>3 DEF IInv, TypeOK
  <1>5. SystemsOf(TenantOf[c])' = SystemsOf(TenantOf[c]) /\ p \in SystemsOf(TenantOf[c])
    BY <1>2 DEF SystemsOf, tenancy
  <1>6. RecordsTrue'
    <2>1. ASSUME NEW j \in Keys, Recorded(j)'
          PROVE  /\ mirakl[j[1]] # "none"
                 /\ \E q \in SystemsOf(TenantOf[j[1]]) :
                       /\ <<q, record'[j].id>> \in PlentyOrders
                       /\ made'[<<q, record'[j].id>>] = OrderAt(j[1], j[2])
      <3>1. CASE j = k
        BY <1>1, <1>2, <1>3, <1>4, <1>5, <3>1
      <3>2. CASE j # k
        <4>1. record'[j] = record[j] /\ Recorded(j)
          BY <1>4, <2>1, <3>2 DEF Recorded
        <4>2. PICK q \in SystemsOf(TenantOf[j[1]]) :
                 /\ <<q, record[j].id>> \in PlentyOrders
                 /\ made[<<q, record[j].id>>] = OrderAt(j[1], j[2])
          BY <4>1 DEF IInv, Truths, RecordsTrue
        <4>3. OrderAt(j[1], j[2]) # None
          BY OrderAtType DEF Keys
        <4>4. made'[<<q, record[j].id>>] = OrderAt(j[1], j[2])
          BY <1>3, <1>4, <4>2, <4>3
        <4> QED
          BY <4>1, <4>2, <4>4 DEF IInv, Truths, RecordsTrue
      <3> QED
        BY <3>1, <3>2
    <2> QED
      BY <2>1 DEF RecordsTrue, SystemsOf, tenancy
  <1>7. CopiesTrue'
    <2>1. SUFFICES ASSUME NEW u \in Orders
                   PROVE  /\ IsFiniteSet(CopiesOf(u)')
                          /\ Cardinality(CopiesOf(u)') <= Cardinality(RecordersOf(u)')
      BY DEF CopiesTrue
    <2>2. /\ IsFiniteSet(CopiesOf(u)) /\ IsFiniteSet(RecordersOf(u))
          /\ Cardinality(CopiesOf(u)) <= Cardinality(RecordersOf(u))
          /\ Cardinality(CopiesOf(u)) \in Nat /\ Cardinality(RecordersOf(u)) \in Nat
      <3>1. IsFiniteSet(RecordersOf(u))
        BY Constants, FS_Subset DEF RecordersOf
      <3> QED
        BY <3>1, FS_CardinalityType DEF IInv, Truths, CopiesTrue
    <2>3. u \in Shops \X Numbers /\ o \in Shops \X Numbers /\ u # None
      BY <1>3, Constants DEF Orders
    <2>4. CASE u = o
      <3>1. CopiesOf(u)' = CopiesOf(u) \cup {x} /\ x \notin CopiesOf(u)
        BY <1>3, <1>4, <2>4 DEF CopiesOf
      <3>2. c \notin RecordersOf(u)
        BY <1>1, <1>3, <2>4 DEF RecordersOf
      <3>3. RecordersOf(u)' = RecordersOf(u) \cup {c}
        BY <1>1, <1>2, <1>3, <1>4, <2>4 DEF RecordersOf, Recorded, Keys
      <3>4. /\ IsFiniteSet(CopiesOf(u) \cup {x})
            /\ Cardinality(CopiesOf(u) \cup {x}) = Cardinality(CopiesOf(u)) + 1
        BY <2>2, <3>1, FS_AddElement
      <3>5. Cardinality(RecordersOf(u) \cup {c}) = Cardinality(RecordersOf(u)) + 1
        BY <2>2, <3>2, FS_AddElement
      <3> QED
        BY <2>2, <3>1, <3>3, <3>4, <3>5
    <2>5. CASE u # o
      <3>1. CopiesOf(u)' = CopiesOf(u)
        BY <1>3, <1>4, <2>3, <2>5 DEF CopiesOf
      <3>2. ASSUME NEW d \in Connections, ShopOf[d] = u[1]
            PROVE  <<d, u[2]>> \in Keys /\ <<d, u[2]>> # k
        <4>1. u = <<u[1], u[2]>> /\ o = <<o[1], o[2]>> /\ u[2] \in Numbers
          BY <2>3
        <4>2. d # c \/ u[2] # n
          BY <1>3, <2>5, <3>2, <4>1
        <4> QED
          BY <1>1, <4>1, <4>2 DEF Keys
      <3>3. RecordersOf(u)' = RecordersOf(u)
        BY <1>4, <3>2 DEF RecordersOf, Recorded
      <3> QED
        BY <2>2, <3>1, <3>3
    <2> QED
      BY <2>4, <2>5
  <1>8. ParcelsTrue'
    BY DEF IInv, Truths, ParcelsTrue, tenancy
  <1>9. TenantsApart'
    BY <1>2, <1>3, <1>4 DEF IInv, Truths, TenantsApart
  <1>10. OwnParcel'
    <2>1. SUFFICES ASSUME NEW u \in Orders, parcel[u] # None, made'[parcel[u]] # u
                   PROVE  Cardinality(SystemsOf(OwnerOf[parcel[u][1]])) > 1
      BY DEF OwnParcel, SystemsOf, tenancy
    <2>2. u # None /\ parcel[u] \in PlentyOrders
      BY <2>1, Constants DEF IInv, TypeOK
    <2>3. made[parcel[u]] # u
      BY <1>3, <1>4, <2>1, <2>2
    <2> QED
      BY <2>1, <2>3 DEF IInv, Truths, OwnParcel
  <1> QED
    BY <1>6, <1>7, <1>8, <1>9, <1>10 DEF Truths

LEMMA TruthsNext ==
    ASSUME IInv, TypeOK', [Next]_vars
    PROVE  Truths'
  <1>1. CASE UNCHANGED vars
    <2>1. Kept
      BY <1>1 DEF vars, Kept
    <2>2. RunsTrue'
      BY <1>1 DEF vars, IInv, Truths, RunsTrue, Recorded, Pairs
    <2> QED
      BY <1>1, <2>1, <2>2, CommandTruths DEF vars
  <1>2. ASSUME \/ \E t \in Tenants :
                     \E s \in {"active", "suspended"} \ {status[t]} : TenantSetStatus(t, s)
               \/ \E c \in Connections : MiraklAdd(c) \/ MiraklRemove(c)
               \/ \E p \in Systems : PlentyAdd(p)
        PROVE  Truths'
    <2>1. UNCHANGED <<order, parcel, made, left, record, run>>
      BY <1>2 DEF Edit, TenantSetStatus, MiraklAdd, MiraklRemove, PlentyAdd
    <2>2. Kept
      BY <1>2 DEF Kept, TenantSetStatus, MiraklAdd, MiraklRemove, PlentyAdd, IInv, TypeOK
    <2>3. RunsTrue'
      BY <2>1, <2>2, PairsKept DEF IInv, Truths, RunsTrue, Recorded
    <2> QED
      BY <2>1, <2>2, <2>3, CommandTruths
  <1>3. ASSUME NEW r \in Runs, StartTask(r) \/ NextPair(r)
        PROVE  Truths'
    <2>1. UNCHANGED <<tenancy, order, parcel, made, left, record>>
      BY <1>3 DEF StartTask, NextPair
    <2>2. Kept
      BY <2>1 DEF tenancy, Kept
    <2>3. RunsTrue'
      BY <1>3, RunsStart, RunsNext
    <2> QED
      BY <2>1, <2>2, <2>3, CommandTruths
  <1>4. ASSUME NEW r \in Runs, NEW n \in Numbers, ImportOrder(r, n)
        PROVE  Truths'
    <2>1. PICK pair : pair = run[r].pair
      OBVIOUS
    <2>2. Handle(r, n) /\ UNCHANGED <<tenancy, order, parcel, left>>
      BY <1>4 DEF ImportOrder
    <2>3. pair \in Pairs /\ pair[1] \in Connections /\ <<pair[1], n>> \in Keys
      BY <2>1, <2>2, HandlePair, OrderAtType
    <2>4. CASE UNCHANGED <<made, record>>
      <3>1. RunsTrue'
        BY <2>2, <2>4, RunsHandle DEF Recorded
      <3>2. Kept
        BY <2>2 DEF tenancy, Kept
      <3> QED
        BY <2>2, <2>4, <3>1, <3>2, CommandTruths
    <2>5. ASSUME ~ Recorded(<<pair[1], n>>), NEW i \in NextId(pair[2]),
                 made' = [made EXCEPT ![<<pair[2], i>>] = OrderAt(pair[1], n)],
                 record' = [record EXCEPT ![<<pair[1], n>>] = [status |-> "IMPORTED", id |-> i]]
          PROVE  Truths'
      <3>1. \A k \in Keys : Recorded(k) => Recorded(k)'
        BY <2>3, <2>5 DEF Recorded, IInv, TypeOK
      <3>2. RunsTrue'
        BY <2>2, <3>1, RunsHandle
      <3> QED
        BY <2>2, <2>3, <2>5, <3>2, ImportTruths
    <2> QED
      BY <1>4, <2>1, <2>4, <2>5 DEF ImportOrder, Importable, Recorded
  <1>5. ASSUME NEW r \in Runs, NEW n \in Numbers, ConfirmOrder(r, n)
        PROVE  Truths'
    <2>1. Handle(r, n) /\ UNCHANGED <<tenancy, parcel, made, left>>
      BY <1>5 DEF ConfirmOrder
    <2>2. PICK k : k = <<run[r].pair[1], n>>
      OBVIOUS
    <2>3. k \in Keys /\ Recorded(k)
      BY <1>5, <2>1, <2>2, HandlePair, OrderAtType DEF ConfirmOrder, Tasks
    <2>4. record' = record \/ record' = [record EXCEPT ![k].status = "CONFIRMED"]
      BY <1>5, <2>2 DEF ConfirmOrder
    <2>5. \A j \in Keys : record'[j].id = record[j].id /\ (Recorded(j)' <=> Recorded(j))
      BY <2>3, <2>4 DEF Recorded, IInv, TypeOK
    <2>6. SameRecords
      BY <2>1, <2>5 DEF SameRecords
    <2>7. RunsTrue'
      BY <2>1, <2>5, RunsHandle
    <2>8. ParcelsTrue' /\ TenantsApart' /\ OwnParcel'
      BY <2>1 DEF IInv, Truths, ParcelsTrue, TenantsApart, OwnParcel, SystemsOf, tenancy
    <2> QED
      BY <2>6, <2>7, <2>8, SameTruths DEF Truths
  <1>6. ASSUME NEW r \in Runs, NEW n \in Numbers, ShipOrder(r, n)
        PROVE  Truths'
    <2>1. Handle(r, n) /\ UNCHANGED <<tenancy, made, left>>
      BY <1>6 DEF ShipOrder
    <2>2. PICK c, p, k : c = run[r].pair[1] /\ p = run[r].pair[2] /\ k = <<c, n>>
      OBVIOUS
    <2>3. /\ k \in Keys /\ Recorded(k) /\ k[1] = c /\ k[2] = n
          /\ p \in SystemsOf(TenantOf[c]) /\ c \in Connections
      BY <1>6, <2>1, <2>2, HandlePair, OrderAtType DEF ShipOrder, Tasks
    <2>4. CASE UNCHANGED <<order, parcel, record>>
      <3>1. RunsTrue'
        BY <2>1, <2>4, RunsHandle DEF Recorded
      <3>2. Kept
        BY <2>1 DEF tenancy, Kept
      <3> QED
        BY <2>1, <2>4, <3>1, <3>2, CommandTruths
    <2>5. CASE /\ <<p, record[k].id>> \in left
               /\ Ship(OrderAt(c, n), <<p, record[k].id>>, k)
      <3>1. <<p, record[k].id>> \in PlentyOrders /\ OrderAt(c, n) \in Orders
        BY <2>3, <2>5, OrderAtType DEF IInv, TypeOK
      <3>2. SameRecords
        BY <2>1, <2>3, <2>5, <3>1, ShipRecords DEF IInv
      <3>3. RunsTrue'
        BY <2>1, <3>2, RunsHandle DEF SameRecords
      <3> QED
        BY <2>1, <2>3, <2>5, <3>1, <3>3, ShipTruths
    <2> QED
      BY <1>6, <2>2, <2>4, <2>5 DEF ShipOrder
  <1>7. ASSUME NEW x \in PlentyOrders, PlentyOrderStatus(x)
        PROVE  Truths'
    <2>1. PICK k \in RowsOf(OwnerOf[x[1]], x[2]) : Ship(OrderAt(k[1], k[2]), x, k)
      BY <1>7 DEF PlentyOrderStatus
    <2>2. /\ k \in Keys /\ Recorded(k) /\ TenantOf[k[1]] = OwnerOf[x[1]] /\ record[k].id = x[2]
          /\ x = <<x[1], record[k].id>> /\ OrderAt(k[1], k[2]) \in Orders
      BY <2>1, OrderAtType DEF RowsOf, Recorded, Keys, PlentyOrders
    <2>3. x[1] \in SystemsOf(TenantOf[k[1]]) /\ UNCHANGED <<tenancy, made, left, run>>
      BY <1>7, <2>2 DEF PlentyOrderStatus
    <2>4. SameRecords
      BY <2>1, <2>2, <2>3, ShipRecords DEF IInv
    <2>5. RunsTrue'
      <3>1. Pairs' = Pairs
        BY <2>3 DEF Pairs, tenancy
      <3>2. ASSUME NEW r \in Runs, NEW n \in run[r].page
            PROVE  <<run[r].pair[1], n>> \in Keys
        BY <3>2, RunFields DEF IInv, Truths, RunsTrue, Pairs, Keys
      <3> QED
        BY <2>3, <2>4, <3>1, <3>2 DEF IInv, Truths, RunsTrue, SameRecords, Recorded
    <2> QED
      BY <2>1, <2>2, <2>3, <2>5, ShipTruths
  <1>8. ASSUME NEW x \in PlentyOrders, Dispatch(x)
        PROVE  Truths'
    <2>1. UNCHANGED <<tenancy, order, parcel, made, record, run>>
      BY <1>8 DEF Dispatch
    <2>2. Kept
      BY <2>1 DEF tenancy, Kept
    <2>3. RunsTrue'
      BY <2>1 DEF tenancy, IInv, Truths, RunsTrue, Recorded, Pairs
    <2> QED
      BY <2>1, <2>2, <2>3, CommandTruths
  <1> QED
    BY <1>1, <1>2, <1>3, <1>4, <1>5, <1>6, <1>7, <1>8 DEF Next, TaskStep

-----------------------------------------------------------------------------
(* Theorems *)

\* IInv holds in every state, whatever operators, tasks and merchants do.
THEOREM Inductive == Spec => []IInv
  <1>1. Init => IInv
    BY TypeInit, TruthsInit DEF IInv
  <1>2. IInv /\ [Next]_vars => IInv'
    BY TypeNext, TruthsNext DEF IInv
  <1> QED
    BY <1>1, <1>2, PTL DEF Spec

\* The variables keep their types (tenancy/models.py, models/tables.py).
THEOREM TypeCorrect == Spec => []TypeOK
  <1>1. IInv => TypeOK
    BY DEF IInv
  <1> QED
    BY <1>1, Inductive, PTL

\* No order and no tracking number crosses from one tenant to another
\* (orchestrator.py:50, webhooks/plenty.py:117).
THEOREM TenantsStayApart == Spec => []TenantsApart
  <1>1. IInv => TenantsApart
    BY DEF IInv, Truths
  <1> QED
    BY <1>1, Inductive, PTL

\* With one PlentyONE connection a tenant's orders carry their own tracking
\* numbers (order_service.py:187).
THEOREM ParcelsAreOwn == Spec => []OwnParcel
  <1>1. IInv => OwnParcel
    BY DEF IInv, Truths
  <1> QED
    BY <1>1, Inductive, PTL

\* Only another connection to the shop gets an order into PlentyONE again
\* (order_service.py:74).
THEOREM DuplicatesOnlyByReadd == Spec => []DuplicateOnlyByReadd
  <1>1. ASSUME IInv
        PROVE  DuplicateOnlyByReadd
    <2>1. SUFFICES ASSUME NEW o \in Orders
                   PROVE  Cardinality(CopiesOf(o)) <=
                            Cardinality({c \in Connections : ShopOf[c] = o[1] /\ mirakl[c] # "none"})
      BY DEF DuplicateOnlyByReadd
    <2>2. PICK S : S = {c \in Connections : ShopOf[c] = o[1] /\ mirakl[c] # "none"}
      OBVIOUS
    <2>3. o[2] \in Numbers
      BY DEF Orders
    <2>4. RecordersOf(o) \subseteq S
      BY <1>1, <2>2, <2>3 DEF IInv, Truths, RecordsTrue, RecordersOf, Keys
    <2>5. IsFiniteSet(S)
      BY <2>2, Constants, FS_Subset
    <2>6. /\ Cardinality(RecordersOf(o)) <= Cardinality(S)
          /\ Cardinality(RecordersOf(o)) \in Nat /\ Cardinality(S) \in Nat
      BY <2>4, <2>5, FS_Subset, FS_CardinalityType
    <2>7. /\ Cardinality(CopiesOf(o)) <= Cardinality(RecordersOf(o))
          /\ Cardinality(CopiesOf(o)) \in Nat
      BY <1>1, FS_CardinalityType DEF IInv, Truths, CopiesTrue
    <2> QED
      BY <2>2, <2>6, <2>7
  <1>2. IInv => DuplicateOnlyByReadd
    BY <1>1
  <1> QED
    BY <1>2, Inductive, PTL

=============================================================================
