----------------------------- MODULE OrderFlow -----------------------------
(***************************************************************************)
(* The life of the orders of one (tenant, Mirakl connection) pair: the     *)
(* three Celery tasks of services/order_service.py, the PlentyONE webhook  *)
(* and the retry endpoint, all of them database sessions that run          *)
(* concurrently against the table order_sync, Mirakl and PlentyONE.        *)
(*                                                                         *)
(* A session is one SQLAlchemy AsyncSession and one Postgres transaction   *)
(* (READ COMMITTED).  It loads records into memory (view), changes columns *)
(* there (dirty), and a flush sends the changes to the database, where     *)
(* they take row locks (lock) and become visible to others at the commit.  *)
(* Calls to Mirakl and PlentyONE take effect at once and are never undone. *)
(*                                                                         *)
(* Data that no property tells apart is left out: messages, raw_json,      *)
(* e-mail addresses, error counters.  Mirakl's page and the SELECTs of the *)
(* code carry no order, so a session takes its orders in any order.        *)
(***************************************************************************)
EXTENDS Naturals, FiniteSets

CONSTANTS
    Orders,      \* the orders of the connection, by primary key of their record
    PlentyIds,   \* order ids PlentyONE can hand out (bounds the model)
    Importers,   \* concurrent runs of the task poll_orders
    Confirmers,  \* concurrent runs of the task confirm_orders
    Shippers,    \* concurrent runs of the task check_tracking
    Hooks,       \* concurrent requests to the PlentyONE webhook
    Retriers,    \* concurrent requests to POST /orders/{id}/retry
    None,        \* no PlentyONE id, no session, no order
    PageSize,    \* limit of get_orders
    MaxAttempts, \* stop_after_attempt of create_order
    MaxFaults,   \* faults of the environment in a behaviour (bounds the model)
    RepeatOk     \* whether Mirakl answers a repeated accept or ship with success

Sessions == Importers \cup Confirmers \cup Shippers \cup Hooks \cup Retriers

ASSUME NoneAssumption == None \notin Orders \cup PlentyIds \cup Sessions

ASSUME SessionsAssumption ==
    /\ Importers \cap (Confirmers \cup Shippers \cup Hooks \cup Retriers) = {}
    /\ Confirmers \cap (Shippers \cup Hooks \cup Retriers) = {}
    /\ (Shippers \cup Hooks) \cap Retriers = {}
    /\ Shippers \cap Hooks = {}

ASSUME BoundsAssumption ==
    /\ Orders \subseteq Nat
    /\ PlentyIds \subseteq Nat
    /\ PageSize \in Nat \ {0}
    /\ MaxAttempts \in Nat \ {0}
    /\ MaxFaults \in Nat
    /\ RepeatOk \in BOOLEAN

VARIABLES
    mirakl,   \* the state of each order at Mirakl
    plenty,   \* the Mirakl order each PlentyONE order was created for
    tracked,  \* the PlentyONE orders dispatched, which have a tracking number
    mapped,   \* the orders whose SKUs all resolve to a PlentyONE variation
    row,      \* the committed order_sync record of each order
    lock,     \* the session whose uncommitted change each record carries
    ses,      \* the state of each session
    faults    \* the faults so far

vars == <<mirakl, plenty, tracked, mapped, row, lock, ses, faults>>

-----------------------------------------------------------------------------
(* Records and sessions *)

MiraklState == {"WAITING", "SHIPPING", "SHIPPED"}

Status == {"NONE", "NEW", "IMPORTED", "CONFIRMED", "SHIPPED", "ERROR"}

\* Statuses that claim that a PlentyONE order exists.
Claims == {"IMPORTED", "CONFIRMED", "SHIPPED"}

Record == [status : Status, plenty : PlentyIds \cup {None}]

\* "NONE" is no record at all.
Absent == [status |-> "NONE", plenty |-> None]

\* "insert" marks a new object, "error" stands for the columns left out.
Column == {"insert", "status", "plenty", "error"}

Session ==
    [pc    : {"idle", "next", "resolve", "create", "mark", "flush"},
     todo  : SUBSET Orders,               \* orders of this run still to come
     cur   : Orders \cup {None},          \* the order being imported
     view  : [Orders -> Record],          \* the objects in memory
     dirty : [Orders -> SUBSET Column],   \* their changed columns
     tries : 0 .. MaxAttempts]            \* failed attempts of create_order

Idle ==
    [pc |-> "idle", todo |-> {}, cur |-> None,
     view |-> [o \in Orders |-> Absent], dirty |-> [o \in Orders |-> {}],
     tries |-> 0]

TypeOK ==
    /\ mirakl \in [Orders -> MiraklState]
    /\ plenty \in [PlentyIds -> Orders \cup {None}]
    /\ tracked \subseteq PlentyIds
    /\ mapped \subseteq Orders
    /\ row \in [Orders -> Record]
    /\ lock \in [Orders -> Sessions \cup {None}]
    /\ ses \in [Sessions -> Session]
    /\ faults \in Nat

Init ==
    /\ mirakl = [o \in Orders |-> "WAITING"]
    /\ plenty = [id \in PlentyIds |-> None]
    /\ tracked = {}
    /\ mapped \in SUBSET Orders
    /\ row = [o \in Orders |-> Absent]
    /\ lock = [o \in Orders |-> None]
    /\ ses = [s \in Sessions |-> Idle]
    /\ faults = 0

world == <<mirakl, plenty, tracked, mapped>>
db == <<row, lock>>

Become(s, next) == ses' = [ses EXCEPT ![s] = next]

Fault == faults < MaxFaults /\ faults' = faults + 1

\* A run that has dealt with its last order flushes before it ends.
Continue(todo) == IF todo = {} THEN "flush" ELSE "next"

\* Session s sets the given columns of its object of order o and goes on at pc.
Assign(s, o, status, id, columns, pc) ==
    [pc    |-> pc,
     todo  |-> ses[s].todo \ {o},
     cur   |-> None,
     view  |-> [ses[s].view EXCEPT ![o] = [status |-> status, plenty |-> id]],
     dirty |-> [ses[s].dirty EXCEPT ![o] = @ \cup columns],
     tries |-> 0]

-----------------------------------------------------------------------------
(* Flush, commit and rollback of any session *)

Unflushed(s) == {o \in Orders : ses[s].dirty[o] # {} /\ lock[o] # s}

\* The next statement of a flush: records are written by primary key.
Statement(s, o) ==
    /\ ses[s].pc = "flush"
    /\ o \in Unflushed(s)
    /\ \A p \in Unflushed(s) : o <= p

\* UPDATE writes the changed columns only; nothing checks what they were.
Stored(s, o) ==
    [status |-> IF "status" \in ses[s].dirty[o]
                THEN ses[s].view[o].status ELSE row[o].status,
     plenty |-> IF "plenty" \in ses[s].dirty[o]
                THEN ses[s].view[o].plenty ELSE row[o].plenty]

Release(s) == lock' = [o \in Orders |-> IF lock[o] = s THEN None ELSE lock[o]]

\* Mutant: the connection goes back to the pool inside its transaction.
LeakyRollback(s) ==
    /\ Become(s, Idle)
    /\ UNCHANGED <<world, db>>

Rollback(s) ==
    /\ Become(s, Idle)
    /\ Release(s)
    /\ UNCHANGED <<world, row>>

\* The statement of one record goes through: its row lock was free.
FlushOne(s, o) ==
    /\ Statement(s, o)
    /\ lock[o] = None
    /\ "insert" \in ses[s].dirty[o] => row[o] = Absent
    /\ lock' = [lock EXCEPT ![o] = s]
    /\ UNCHANGED <<world, row, ses, faults>>

\* The unique constraint refuses a second record of the order.  The session
\* is poisoned and the whole run rolls back.
FlushConflict(s, o) ==
    /\ Statement(s, o)
    /\ lock[o] = None
    /\ "insert" \in ses[s].dirty[o]
    /\ row[o] # Absent
    /\ Rollback(s)
    /\ UNCHANGED faults

FlushDone(s) ==
    /\ ses[s].pc = "flush"
    /\ Unflushed(s) = {}
    /\ ses[s].todo # {}
    /\ Become(s, [ses[s] EXCEPT !.pc = "next"])
    /\ UNCHANGED <<world, db, faults>>

Commit(s) ==
    /\ ses[s].pc = "flush"
    /\ Unflushed(s) = {}
    /\ ses[s].todo = {}
    /\ row' = [o \in Orders |-> IF lock[o] = s THEN Stored(s, o) ELSE row[o]]
    /\ Release(s)
    /\ Become(s, Idle)
    /\ UNCHANGED <<world, faults>>

\* The next statement of s needs a row lock that t holds.
WaitsFor(s, t) == \E o \in Orders : Statement(s, o) /\ lock[o] = t

\* Postgres breaks a cycle of waiting transactions.
DeadlockVictim(s) ==
    /\ ses[s].pc = "flush"
    /\ \E D \in SUBSET {t \in Sessions : ses[t].pc = "flush"} :
          /\ s \in D
          /\ \A t \in D : \E u \in D : WaitsFor(t, u)
          /\ \A u \in D : \E t \in D : WaitsFor(t, u)
    /\ Rollback(s)
    /\ UNCHANGED faults

\* The worker dies, or a statement or the commit fails.  The task is
\* delivered again, which is another run.
Crash(s) ==
    /\ ses[s].pc # "idle"
    /\ Fault
    /\ Rollback(s)

-----------------------------------------------------------------------------
(* import_new_orders *)

Waiting == {o \in Orders : mirakl[o] = "WAITING"}

ImportNewOrders(i) ==
    /\ ses[i].pc = "idle"
    /\ \E page \in SUBSET Waiting :
          /\ page # {}
          /\ Cardinality(page) = PageSize \/ page = Waiting
          /\ Cardinality(page) <= PageSize
          /\ Become(i, [Idle EXCEPT !.pc = "next", !.todo = page])
    /\ UNCHANGED <<world, db, faults>>

\* Mutant: an order counts as processed once it is accepted.
ReimportUntilAccepted(record) == record.status \notin {"CONFIRMED", "SHIPPED"}

\* The idempotency check.
Importable(record) == record.status \in {"NONE", "NEW", "ERROR"}

FindOrder(i, o) ==
    /\ ses[i].pc = "next"
    /\ o \in ses[i].todo
    /\ LET rest == ses[i].todo \ {o}
       IN Become(i, IF Importable(row[o])
                    THEN [ses[i] EXCEPT !.pc = "resolve", !.cur = o,
                                        !.todo = rest, !.view[o] = row[o]]
                    ELSE [ses[i] EXCEPT !.pc = Continue(rest), !.todo = rest])
    /\ UNCHANGED <<world, db, faults>>

InsertIfAbsent(record) == IF record = Absent THEN {"insert"} ELSE {}

ToMark(i) == Become(i, [ses[i] EXCEPT !.pc = "mark"])

\* By the mapping table or, where a mapping is inactive, by its EAN.
ResolveSkus(i) ==
    /\ ses[i].pc = "resolve"
    /\ \/ /\ ses[i].cur \in mapped
          /\ Become(i, [ses[i] EXCEPT !.pc = "create"])
       \/ /\ ses[i].cur \notin mapped
          /\ ToMark(i)
    /\ UNCHANGED <<world, db, faults>>

\* find_variant_by_ean raises: nothing catches it before the orchestrator,
\* which ends the run of this connection and commits what is flushed.
EanLookupRaises(i) ==
    /\ ses[i].pc = "resolve"
    /\ Fault
    /\ Become(i, [ses[i] EXCEPT !.pc = "flush", !.todo = {}, !.cur = None])
    /\ UNCHANGED <<world, db>>

\* PlentyONE stores the order under its next id.
NewPlentyOrder(id, o) ==
    /\ plenty[id] = None
    /\ \A j \in PlentyIds : plenty[j] = None => id <= j
    /\ plenty' = [plenty EXCEPT ![id] = o]

\* Mutant: the client is left in its dry-run mode.
DryRunCreateOrder(i) ==
    /\ ses[i].pc = "create"
    /\ Become(i, Assign(i, ses[i].cur, "IMPORTED", 0, {"status", "plenty"},
                        "flush"))
    /\ UNCHANGED <<world, db, faults>>

CreateOrder(i) ==
    /\ ses[i].pc = "create"
    /\ LET o == ses[i].cur
       IN \E id \in PlentyIds :
             /\ NewPlentyOrder(id, o)
             /\ Become(i, Assign(i, o, "IMPORTED", id,
                                 {"status", "plenty"}
                                    \cup InsertIfAbsent(ses[i].view[o]),
                                 "flush"))
    /\ UNCHANGED <<mirakl, tracked, mapped, db, faults>>

\* An attempt fails, before or after PlentyONE stored the order.  An HTTP
\* error is tried again up to MaxAttempts times, anything else is not.
CreateRaises(i) ==
    /\ ses[i].pc = "create"
    /\ Fault
    /\ \/ UNCHANGED plenty
       \/ \E id \in PlentyIds : NewPlentyOrder(id, ses[i].cur)
    /\ \/ /\ ses[i].tries + 1 < MaxAttempts
          /\ Become(i, [ses[i] EXCEPT !.tries = @ + 1])
       \/ ToMark(i)
    /\ UNCHANGED <<mirakl, tracked, mapped, db>>

\* Mutant: the PlentyONE id is cleared along with the status.
MarkErrorClearsId(i) ==
    /\ ses[i].pc = "mark"
    /\ LET o == ses[i].cur
       IN Become(i, Assign(i, o, "ERROR", None,
                           {"error", "status", "plenty"}
                              \cup InsertIfAbsent(row[o]), "flush"))
    /\ UNCHANGED <<world, db, faults>>

\* _mark_error looks the record up again: an object already in memory is
\* returned as it is, otherwise what is committed by now is loaded.
MarkError(i) ==
    /\ ses[i].pc = "mark"
    /\ LET o == ses[i].cur
           found == IF ses[i].view[o] = Absent THEN row[o] ELSE ses[i].view[o]
           changed == IF found.status = "ERROR" THEN {} ELSE {"status"}
       IN Become(i, Assign(i, o, "ERROR", found.plenty,
                           {"error"} \cup changed \cup InsertIfAbsent(found),
                           "flush"))
    /\ UNCHANGED <<world, db, faults>>

-----------------------------------------------------------------------------
(* confirm_orders *)

\* The objects a SELECT loads.
Load(found) == [o \in Orders |-> IF o \in found THEN row[o] ELSE Absent]

BeginWith(s, found) ==
    /\ ses[s].pc = "idle"
    /\ found # {}
    /\ Become(s, [Idle EXCEPT !.pc = "next", !.todo = found,
                              !.view = Load(found)])
    /\ UNCHANGED <<world, db, faults>>

\* Mutant: every order not yet confirmed is accepted.
ConfirmUnconfirmed(c) ==
    BeginWith(c, {o \in Orders : row[o].status \in {"NEW", "ERROR", "IMPORTED"}})

ConfirmOrders(c) == BeginWith(c, {o \in Orders : row[o].status = "IMPORTED"})

\* Mutant: accept_order answers success without a call.
DryRunAccept(o) == UNCHANGED mirakl

\* Mirakl moves a waiting order on.
AcceptedAtMirakl(o) ==
    mirakl' = [mirakl EXCEPT ![o] = IF @ = "WAITING" THEN "SHIPPING" ELSE @]

\* Mutant: an exception is taken for "already done".
TakeForDone(s, o) ==
    Become(s, Assign(s, o,
                     IF s \in Confirmers THEN "CONFIRMED" ELSE "SHIPPED",
                     ses[s].view[o].plenty, {"status", "error"}, "flush"))

\* Mutant: a failing accept or ship marks the order as an error.
IncrementErrorSetsError(s, o) ==
    Become(s, Assign(s, o, "ERROR", ses[s].view[o].plenty,
                     {"status", "error"}, "flush"))

\* The call fails: the environment's fault, or Mirakl refuses a repetition.
IncrementError(s, o) ==
    Become(s, Assign(s, o, ses[s].view[o].status, ses[s].view[o].plenty,
                     {"error"}, "flush"))

AcceptOrder(c, o) ==
    /\ ses[c].pc = "next"
    /\ o \in ses[c].todo
    /\ mirakl[o] = "WAITING" \/ RepeatOk
    /\ AcceptedAtMirakl(o)
    /\ Become(c, Assign(c, o, "CONFIRMED", ses[c].view[o].plenty, {"status"},
                        Continue(ses[c].todo \ {o})))
    /\ UNCHANGED <<plenty, tracked, mapped, db, faults>>

AcceptRaises(c, o) ==
    /\ ses[c].pc = "next"
    /\ o \in ses[c].todo
    /\ \/ /\ Fault
          /\ AcceptedAtMirakl(o) \/ UNCHANGED mirakl
       \/ /\ mirakl[o] # "WAITING" /\ ~RepeatOk
          /\ UNCHANGED <<mirakl, faults>>
    /\ IncrementError(c, o)
    /\ UNCHANGED <<plenty, tracked, mapped, db>>

-----------------------------------------------------------------------------
(* ship_orders and the PlentyONE webhook *)

ShipOrders(s) ==
    BeginWith(s, {o \in Orders : row[o].status = "CONFIRMED"
                                   /\ row[o].plenty # None})

\* The webhook of a dispatched order; an id without a record is ignored.
PlentyOrderStatus(h) ==
    \E id \in tracked, o \in Orders :
        row[o].plenty = id /\ BeginWith(h, {o})

\* Mutant: a package without a number counts as tracking.
HasPackage(s, o) == ses[s].view[o].plenty # None

\* get_tracking finds a package with a number.
HasTracking(s, o) == ses[s].view[o].plenty \in tracked

NoTrackingYet(s, o) ==
    /\ ses[s].pc = "next"
    /\ o \in ses[s].todo
    /\ ~HasTracking(s, o)
    /\ LET rest == ses[s].todo \ {o}
       IN Become(s, [ses[s] EXCEPT !.pc = Continue(rest), !.todo = rest])
    /\ UNCHANGED <<world, db, faults>>

\* Mutant: ship_order answers success without a call.
DryRunShip(o) == UNCHANGED mirakl

ShippedAtMirakl(o) ==
    mirakl' = [mirakl EXCEPT ![o] = IF @ = "SHIPPING" THEN "SHIPPED" ELSE @]

\* Mirakl ships accepted orders only.
ShipOrder(s, o) ==
    /\ ses[s].pc = "next"
    /\ o \in ses[s].todo
    /\ HasTracking(s, o)
    /\ mirakl[o] = "SHIPPING" \/ (mirakl[o] = "SHIPPED" /\ RepeatOk)
    /\ ShippedAtMirakl(o)
    /\ Become(s, Assign(s, o, "SHIPPED", ses[s].view[o].plenty,
                        IF ses[s].view[o].status = "SHIPPED"
                        THEN {} ELSE {"status"},
                        Continue(ses[s].todo \ {o})))
    /\ UNCHANGED <<plenty, tracked, mapped, db, faults>>

\* get_tracking or ship_order raises.
ShipCallRaises(s, o) ==
    /\ ses[s].pc = "next"
    /\ o \in ses[s].todo
    /\ \/ /\ Fault
          /\ \/ UNCHANGED mirakl
             \/ HasTracking(s, o) /\ ShippedAtMirakl(o)
       \/ /\ HasTracking(s, o)
          /\ mirakl[o] = "WAITING" \/ (mirakl[o] = "SHIPPED" /\ ~RepeatOk)
          /\ UNCHANGED <<mirakl, faults>>
    /\ UNCHANGED <<plenty, tracked, mapped, row>>

ShipRaises(s, o) ==
    /\ ShipCallRaises(s, o)
    /\ IncrementError(s, o)
    /\ UNCHANGED lock

\* In the webhook the exception ends the request: get_db rolls back.
HookRaises(h, o) ==
    /\ ShipCallRaises(h, o)
    /\ Become(h, Idle)
    /\ UNCHANGED lock

-----------------------------------------------------------------------------
(* POST /orders/{mirakl_order_id}/retry, and the world outside *)

RetryOrder(r, o) ==
    /\ ses[r].pc = "idle"
    /\ row[o].status = "ERROR"
    /\ Become(r, [Idle EXCEPT !.pc = "flush",
                              !.view[o] = [row[o] EXCEPT !.status = "NEW"],
                              !.dirty[o] = {"status", "error"}])
    /\ UNCHANGED <<world, db, faults>>

\* The merchant dispatches a PlentyONE order: packages get a tracking number.
Dispatch(id) ==
    /\ plenty[id] # None
    /\ id \notin tracked
    /\ tracked' = tracked \cup {id}
    /\ UNCHANGED <<mirakl, plenty, mapped, db, ses, faults>>

\* An operator completes the SKU mapping of an order.
AddMapping(o) ==
    /\ o \notin mapped
    /\ mapped' = mapped \cup {o}
    /\ UNCHANGED <<mirakl, plenty, tracked, db, ses, faults>>

-----------------------------------------------------------------------------

Import(i) ==
    \/ ImportNewOrders(i)
    \/ \E o \in Orders : FindOrder(i, o)
    \/ ResolveSkus(i)
    \/ CreateOrder(i)
    \/ MarkError(i)

Confirm(c) == ConfirmOrders(c) \/ \E o \in Orders : AcceptOrder(c, o)

Ship(s) ==
    \/ ShipOrders(s)
    \/ \E o \in Orders : NoTrackingYet(s, o) \/ ShipOrder(s, o)

EndFlush(s) ==
    \/ \E o \in Orders : FlushOne(s, o) \/ FlushConflict(s, o)
    \/ FlushDone(s)
    \/ Commit(s)
    \/ DeadlockVictim(s)

Raises ==
    \/ \E i \in Importers : EanLookupRaises(i) \/ CreateRaises(i)
    \/ \E c \in Confirmers, o \in Orders : AcceptRaises(c, o)
    \/ \E s \in Shippers, o \in Orders : ShipRaises(s, o)
    \/ \E h \in Hooks, o \in Orders : HookRaises(h, o)

Next ==
    \/ \E i \in Importers : Import(i)
    \/ \E c \in Confirmers : Confirm(c)
    \/ \E s \in Shippers : Ship(s)
    \/ \E h \in Hooks :
          PlentyOrderStatus(h) \/ \E o \in Orders : ShipOrder(h, o)
    \/ \E r \in Retriers, o \in Orders : RetryOrder(r, o)
    \/ \E s \in Sessions : EndFlush(s) \/ Crash(s)
    \/ Raises
    \/ \E id \in PlentyIds : Dispatch(id)
    \/ \E o \in Orders : AddMapping(o)

Spec == Init /\ [][Next]_vars

\* Celery beat starts each task again and again and a started run goes on;
\* nothing is assumed of webhooks, retries, mappings or faults.
Fairness ==
    /\ \A i \in Importers : WF_vars(Import(i) \/ EndFlush(i))
    /\ \A c \in Confirmers :
          WF_vars(Confirm(c) \/ EndFlush(c) \/ \E o \in Orders : AcceptRaises(c, o))
    /\ \A s \in Shippers :
          WF_vars(Ship(s) \/ EndFlush(s) \/ \E o \in Orders : ShipRaises(s, o))
    /\ \A s \in Hooks \cup Retriers : WF_vars(EndFlush(s))
    /\ \A id \in PlentyIds : WF_vars(Dispatch(id))

FairSpec == Spec /\ Fairness

-----------------------------------------------------------------------------
(* Properties *)

PlentyOrdersOf(o) == {id \in PlentyIds : plenty[id] = o}

\* A record whose status claims a PlentyONE order names one, and any id a
\* record names is an order created for this very Mirakl order: the columns
\* two sessions wrote never combine to a dangling or foreign reference
\* (order_service.py, flush in _import_single_order and confirm_orders).
RecordNamesOwnOrder ==
    \A o \in Orders :
        /\ row[o].plenty # None => plenty[row[o].plenty] = o
        /\ row[o].status \in Claims => row[o].plenty # None

\* The committed record never runs ahead of Mirakl: CONFIRMED means accepted
\* there, SHIPPED means shipped there, whatever stale objects sessions flush.
RecordNeverAhead ==
    \A o \in Orders :
        /\ row[o].status = "CONFIRMED" => mirakl[o] # "WAITING"
        /\ row[o].status = "SHIPPED" => mirakl[o] = "SHIPPED"

\* The connector commits to an order at Mirakl only when the merchant's ERP
\* has it: no crash, retry or overlap accepts an order PlentyONE never got.
AcceptedOnlyIfCreated ==
    \A o \in Orders : mirakl[o] # "WAITING" => PlentyOrdersOf(o) # {}

\* An order is reported shipped only when goods of it have left: the poller
\* and the webhook agree on the tracking of an order created for it.
ShippedOnlyIfDispatched ==
    \A o \in Orders : mirakl[o] = "SHIPPED" => PlentyOrdersOf(o) \cap tracked # {}

\* With one import run at a time and no retry request, PlentyONE gets an
\* order a second time only because of a fault: every surplus order is paid
\* for by a lost answer or a crash between the create and the commit.
SurplusOnlyByFaults ==
    \A o \in Orders : Cardinality(PlentyOrdersOf(o)) <= 1 + faults

\* order_service.py:96, "Idempotent: if the order already exists in DB, skip
\* it": polling an order again never creates it a second time.
AtMostOnePlentyOrder ==
    \A o \in Orders : Cardinality(PlentyOrdersOf(o)) <= 1

Rank(status) ==
    CASE status = "IMPORTED" -> 1
      [] status = "CONFIRMED" -> 2
      [] status = "SHIPPED" -> 3
      [] OTHER -> 0

\* tables.py:88, "State machine: NEW -> IMPORTED -> CONFIRMED -> SHIPPED": a
\* committed status never moves backwards along it.
StatusNeverRegresses ==
    [][\A o \in Orders : Rank(row'[o].status) >= Rank(row[o].status)]_row

\* An order whose SKUs are mapped is in the end shipped at Mirakl, over
\* crashes and failed calls, if the merchant dispatches what PlentyONE holds
\* and orders without a mapping do not fill every page (mirakl_client.py:143).
\* After a failed create, or a mapping that came late, this rests on every poll
\* importing ERROR records again (order_service.py:100), although tables.py:88
\* says "ERROR is terminal" and README.md:130 has the operator retry the order.
MappedOrdersGetShipped ==
    \A o \in Orders :
        <>[](Cardinality(Waiting \ mapped) < PageSize)
            => (o \in mapped ~> mirakl[o] = "SHIPPED")

\* README.md:134, "The next import cycle (within 5 min) will re-process it":
\* a record that the retry endpoint has put back to NEW does not stay there.
RetriedGetsProcessed ==
    \A o \in Orders : row[o].status = "NEW" ~> row[o].status # "NEW"

\* Import runs that overlap abort each other, by the unique constraint or by
\* a deadlock, but not for ever: one of them commits the record of each order
\* that waits, even if it is only the record of its error.
WaitingOrdersGetRecorded ==
    \A o \in Orders : mirakl[o] = "WAITING" ~> row[o] # Absent

\* No session waits for row locks for ever, whoever holds them and however
\* often they pass to another: its transaction commits or is rolled back.
RunsEnd ==
    \A s \in Sessions : ses[s].pc # "idle" ~> ses[s].pc = "idle"

\* The connector keeps the promise of module OrderPromise.
Stage(o) ==
    IF mirakl[o] = "SHIPPED" THEN 3
    ELSE IF mirakl[o] = "SHIPPING" THEN 2
    ELSE IF PlentyOrdersOf(o) # {} THEN 1 ELSE 0

Promise == INSTANCE OrderPromise
    WITH stage <- [o \in Orders |-> Stage(o)],
         dispatched <- {o \in Orders : PlentyOrdersOf(o) \cap tracked # {}},
         claim <- [o \in Orders |-> Rank(row[o].status)]

\* Refinement of OrderPromise: each step of the code is a step of the
\* promise or changes nothing the promise speaks of.
KeepsPromise == Promise!Spec

-----------------------------------------------------------------------------
(* The inductive invariant that the proofs of OrderFlowProofs use *)

\* What a record of order o says is true of PlentyONE and Mirakl.
TrueOf(o, record) ==
    /\ record.plenty # None => plenty[record.plenty] = o
    /\ record.status \in Claims => record.plenty # None
    /\ record.status = "CONFIRMED" => mirakl[o] # "WAITING"
    /\ record.status = "SHIPPED" => mirakl[o] = "SHIPPED"

RowsTrue == \A o \in Orders : TrueOf(o, row[o])

\* An object in memory is true too, and so is what its flush makes of the
\* record, however the record changed since it was loaded.
ObjectTrue(s, o) ==
    /\ TrueOf(o, ses[s].view[o])
    /\ ses[s].view[o].plenty # None /\ "plenty" \notin ses[s].dirty[o]
          => row[o].plenty # None
    /\ "plenty" \in ses[s].dirty[o] => ses[s].view[o].plenty # None
    /\ o \in ses[s].todo => ses[s].dirty[o] = {}
    /\ o \in ses[s].todo /\ s \in Confirmers
          => ses[s].view[o].status = "IMPORTED"

ImportingOne(s) ==
    ses[s].pc \in {"resolve", "create", "mark"} => ses[s].cur \in Orders

SessionsTrue ==
    \A s \in Sessions : ImportingOne(s) /\ \A o \in Orders : ObjectTrue(s, o)

TrackedExist == \A id \in tracked : plenty[id] # None

\* All of it at once: no session, however stale its objects, is about to
\* write something untrue of PlentyONE or Mirakl.
IInv ==
    /\ TypeOK
    /\ RowsTrue
    /\ SessionsTrue
    /\ TrackedExist
    /\ AcceptedOnlyIfCreated
    /\ ShippedOnlyIfDispatched

=============================================================================
