--------------------------- MODULE OrderFlowProofs ---------------------------
(***************************************************************************)
(* Proofs about OrderFlow, for every number of orders, sessions of each    *)
(* kind, attempts and faults: its records stay true of PlentyONE and       *)
(* Mirakl, and it implements OrderPromise.                                 *)
(***************************************************************************)
EXTENDS OrderFlow, TLAPS

USE DEF Claims, Record, Absent, Column, Status, MiraklState

-----------------------------------------------------------------------------
(* Lemmas about the helpers *)

\* Assign yields a session, of which it changes the object of o only.
LEMMA AssignType ==
    ASSUME TypeOK, NEW s \in Sessions, NEW o \in Orders,
           NEW status \in Status, NEW id \in PlentyIds \cup {None},
           NEW columns \in SUBSET Column, NEW pc \in {"next", "flush"}
    PROVE  LET r == Assign(s, o, status, id, columns, pc)
           IN /\ r \in Session
              /\ r.pc = pc
              /\ r.todo = ses[s].todo \ {o}
              /\ r.view = [ses[s].view EXCEPT
                              ![o] = [status |-> status, plenty |-> id]]
              /\ r.dirty = [ses[s].dirty EXCEPT ![o] = @ \cup columns]
<1>1. ses[s] \in Session
  BY DEF TypeOK
<1>2. 0 \in 0 .. MaxAttempts
  BY BoundsAssumption
<1>. QED
  BY <1>1, <1>2 DEF Assign, Session

\* The idle session is a session.
LEMMA IdleType == Idle \in Session
  BY BoundsAssumption DEF Idle, Session

\* Giving one session a new state keeps ses well-typed and the others.
LEMMA BecomeType ==
    ASSUME TypeOK, NEW s \in Sessions, NEW r \in Session, Become(s, r)
    PROVE  /\ ses' \in [Sessions -> Session]
           /\ ses'[s] = r
           /\ \A t \in Sessions \ {s} : ses'[t] = ses[t]
  BY DEF TypeOK, Become

\* Releasing the locks of a session keeps lock well-typed.
LEMMA ReleaseType ==
    ASSUME TypeOK, NEW s, Release(s)
    PROVE  lock' \in [Orders -> Sessions \cup {None}]
  BY DEF TypeOK, Release

\* What a flush stores is a record.
LEMMA StoredType ==
    ASSUME TypeOK, NEW s \in Sessions, NEW o \in Orders
    PROVE  Stored(s, o) \in Record
<1>1. ses[s] \in Session /\ row[o] \in Record
  BY DEF TypeOK
<1>2. ses[s].view[o] \in Record
  BY <1>1 DEF Session
<1>. QED
  BY <1>1, <1>2 DEF Stored

\* The fields of a session, typed.
LEMMA Fields ==
    ASSUME TypeOK, NEW s \in Sessions
    PROVE  /\ ses[s] \in Session
           /\ ses[s].todo \in SUBSET Orders
           /\ ses[s].cur \in Orders \cup {None}
           /\ ses[s].view \in [Orders -> Record]
           /\ ses[s].dirty \in [Orders -> SUBSET Column]
           /\ ses[s].tries \in 0 .. MaxAttempts
           /\ \A o \in Orders : /\ ses[s].view[o] \in Record
                                /\ ses[s].view[o].status \in Status
                                /\ ses[s].view[o].plenty \in PlentyIds \cup {None}
  BY DEF TypeOK, Session

-----------------------------------------------------------------------------
(* Type correctness *)

\* Every step of import_new_orders keeps the types.
LEMMA ImportType ==
    ASSUME IInv, NEW i \in Importers,
           Import(i) \/ EanLookupRaises(i) \/ CreateRaises(i)
    PROVE  TypeOK'
<1>. i \in Sessions /\ TypeOK /\ ImportingOne(i)
  BY DEF Sessions, IInv, SessionsTrue
<1>f. /\ ses[i] \in Session
      /\ ses[i].todo \in SUBSET Orders
      /\ ses[i].view \in [Orders -> Record]
      /\ ses[i].dirty \in [Orders -> SUBSET Column]
      /\ ses[i].tries \in 0 .. MaxAttempts
  BY Fields
<1>b. ASSUME NEW r \in Session, Become(i, r)
      PROVE  ses' \in [Sessions -> Session]
  BY <1>b, BecomeType
<1>1. CASE ImportNewOrders(i)
  <2>1. PICK page \in SUBSET Waiting :
          Become(i, [Idle EXCEPT !.pc = "next", !.todo = page])
    BY <1>1 DEF ImportNewOrders
  <2>2. [Idle EXCEPT !.pc = "next", !.todo = page] \in Session
    BY IdleType DEF Waiting, Session
  <2>. QED
    BY <1>1, <1>b, <2>1, <2>2 DEF ImportNewOrders, TypeOK, world, db
<1>2. ASSUME NEW o \in Orders, FindOrder(i, o)
      PROVE  TypeOK'
  <2>. DEFINE rest == ses[i].todo \ {o}
  <2>1. [ses[i] EXCEPT !.pc = "resolve", !.cur = o, !.todo = rest,
                       !.view[o] = row[o]] \in Session
    BY <1>f DEF Session, TypeOK
  <2>2. [ses[i] EXCEPT !.pc = Continue(rest), !.todo = rest] \in Session
    BY <1>f DEF Session, Continue
  <2>. QED
    BY <1>2, <1>b, <2>1, <2>2 DEF FindOrder, TypeOK, world, db
<1>3. CASE ResolveSkus(i)
  <2>1. /\ [ses[i] EXCEPT !.pc = "create"] \in Session
        /\ [ses[i] EXCEPT !.pc = "mark"] \in Session
    BY <1>f DEF Session
  <2>. QED
    BY <1>3, <1>b, <2>1 DEF ResolveSkus, ToMark, TypeOK, world, db
<1>4. CASE CreateOrder(i)
  <2>. DEFINE o == ses[i].cur
              columns == {"status", "plenty"} \cup InsertIfAbsent(ses[i].view[o])
  <2>1. o \in Orders
    BY <1>4 DEF CreateOrder, ImportingOne
  <2>2. PICK id \in PlentyIds :
          /\ NewPlentyOrder(id, o)
          /\ Become(i, Assign(i, o, "IMPORTED", id, columns, "flush"))
    BY <1>4 DEF CreateOrder
  <2>3. Assign(i, o, "IMPORTED", id, columns, "flush") \in Session
    BY <2>1, AssignType DEF InsertIfAbsent
  <2>. QED
    BY <1>4, <1>b, <2>1, <2>2, <2>3 DEF CreateOrder, NewPlentyOrder, TypeOK, db
<1>5. CASE MarkError(i)
  <2>. DEFINE o == ses[i].cur
              found == IF ses[i].view[o] = Absent THEN row[o] ELSE ses[i].view[o]
              changed == IF found.status = "ERROR" THEN {} ELSE {"status"}
              columns == {"error"} \cup changed \cup InsertIfAbsent(found)
  <2>1. o \in Orders
    BY <1>5 DEF MarkError, ImportingOne
  <2>2. found.plenty \in PlentyIds \cup {None}
    <3>1. row[o] \in Record /\ ses[i].view[o] \in Record
      BY <2>1, <1>f DEF TypeOK
    <3>. QED
      BY <3>1
  <2>3. columns \in SUBSET Column
    BY DEF InsertIfAbsent
  <2>4. Assign(i, o, "ERROR", found.plenty, columns, "flush") \in Session
    BY <2>1, <2>2, <2>3, AssignType
  <2>5. Become(i, Assign(i, o, "ERROR", found.plenty, columns, "flush"))
    BY <1>5 DEF MarkError
  <2>. QED
    BY <1>5, <1>b, <2>4, <2>5 DEF MarkError, TypeOK, world, db
<1>6. CASE EanLookupRaises(i)
  <2>1. [ses[i] EXCEPT !.pc = "flush", !.todo = {}, !.cur = None] \in Session
    BY <1>f DEF Session
  <2>. QED
    BY <1>6, <1>b, <2>1 DEF EanLookupRaises, Fault, TypeOK, world, db
<1>7. CASE CreateRaises(i)
  <2>1. ses[i].cur \in Orders
    BY <1>7 DEF CreateRaises, ImportingOne
  <2>2. plenty' \in [PlentyIds -> Orders \cup {None}]
    BY <1>7, <2>1 DEF CreateRaises, NewPlentyOrder, TypeOK
  <2>3. ASSUME ses[i].tries + 1 < MaxAttempts
        PROVE  [ses[i] EXCEPT !.tries = @ + 1] \in Session
    BY <2>3, <1>f, BoundsAssumption DEF Session
  <2>4. [ses[i] EXCEPT !.pc = "mark"] \in Session
    BY <1>f DEF Session
  <2>. QED
    BY <1>7, <1>b, <2>2, <2>3, <2>4 DEF CreateRaises, ToMark, Fault, TypeOK, db
<1>. QED
  BY <1>1, <1>2, <1>3, <1>4, <1>5, <1>6, <1>7 DEF Import

\* The records a SELECT loads into an idle session.
LEMMA BeginType ==
    ASSUME TypeOK, NEW s \in Sessions, NEW found \in SUBSET Orders,
           BeginWith(s, found)
    PROVE  TypeOK'
<1>. DEFINE r == [Idle EXCEPT !.pc = "next", !.todo = found, !.view = Load(found)]
<1>1. Load(found) \in [Orders -> Record]
  BY DEF Load, TypeOK
<1>2. r \in Session
  BY <1>1, IdleType DEF Session
<1>3. Become(s, r)
  BY DEF BeginWith
<1>4. ses' \in [Sessions -> Session]
  BY <1>2, <1>3, BecomeType
<1>. QED
  BY <1>4 DEF BeginWith, TypeOK, world, db

\* Assigning in memory after a call to Mirakl keeps the types.
LEMMA CallType ==
    ASSUME TypeOK, NEW s \in Sessions, NEW o \in Orders,
           NEW status \in Status, NEW columns \in SUBSET Column,
           NEW pc \in {"next", "flush"},
           Become(s, Assign(s, o, status, ses[s].view[o].plenty, columns, pc)),
           UNCHANGED <<plenty, tracked, mapped, db>>,
           mirakl' = mirakl \/ AcceptedAtMirakl(o) \/ ShippedAtMirakl(o),
           faults' = faults \/ Fault
    PROVE  TypeOK'
<1>1. ses[s].view[o].plenty \in PlentyIds \cup {None}
  BY Fields
<1>2. ses' \in [Sessions -> Session]
  <2>. DEFINE id == ses[s].view[o].plenty
              r == Assign(s, o, status, id, columns, pc)
  <2>1. r \in Session
    <3>1. id \in PlentyIds \cup {None}
      BY <1>1
    <3>2. 0 \in 0 .. MaxAttempts
      BY BoundsAssumption
    <3>. HIDE DEF id
    <3>. QED
      BY <3>1, <3>2, Fields DEF Assign, Session
  <2>. QED
    BY <2>1, BecomeType
<1>3. mirakl' \in [Orders -> MiraklState]
  BY DEF AcceptedAtMirakl, ShippedAtMirakl, TypeOK
<1>4. faults' \in Nat
  BY DEF Fault, TypeOK
<1>. QED
  BY <1>2, <1>3, <1>4 DEF TypeOK, db

\* Every step of confirm_orders keeps the types.
LEMMA ConfirmType ==
    ASSUME TypeOK, NEW c \in Confirmers,
           Confirm(c) \/ \E o \in Orders : AcceptRaises(c, o)
    PROVE  TypeOK'
<1>. c \in Sessions
  BY DEF Sessions
<1>1. CASE ConfirmOrders(c)
  BY <1>1, BeginType DEF ConfirmOrders
<1>2. ASSUME NEW o \in Orders, AcceptOrder(c, o)
      PROVE  TypeOK'
  BY <1>2, CallType DEF AcceptOrder, Continue
<1>3. ASSUME NEW o \in Orders, AcceptRaises(c, o)
      PROVE  TypeOK'
  <2>1. ses[c].view[o].status \in Status
    BY Fields
  <2>. QED
    BY <1>3, <2>1, CallType DEF AcceptRaises, IncrementError, Fault
<1>. QED
  BY <1>1, <1>2, <1>3 DEF Confirm

\* Every step of ship_orders and of the webhook keeps the types.
LEMMA ShipType ==
    ASSUME TypeOK, NEW s \in Shippers \cup Hooks,
           \/ Ship(s)
           \/ PlentyOrderStatus(s)
           \/ \E o \in Orders : ShipOrder(s, o) \/ ShipRaises(s, o) \/ HookRaises(s, o)
    PROVE  TypeOK'
<1>. s \in Sessions
  BY DEF Sessions
<1>1. CASE ShipOrders(s)
  BY <1>1, BeginType DEF ShipOrders
<1>2. CASE PlentyOrderStatus(s)
  BY <1>2, BeginType DEF PlentyOrderStatus
<1>3. ASSUME NEW o \in Orders, NoTrackingYet(s, o)
      PROVE  TypeOK'
  <2>. DEFINE rest == ses[s].todo \ {o}
              r == [ses[s] EXCEPT !.pc = Continue(rest), !.todo = rest]
  <2>1. ses[s] \in Session /\ rest \in SUBSET Orders
    BY Fields
  <2>2. r \in Session
    BY <2>1 DEF Session, Continue
  <2>3. ses' \in [Sessions -> Session]
    BY <1>3, <2>2, BecomeType DEF NoTrackingYet
  <2>. QED
    BY <1>3, <2>3 DEF NoTrackingYet, TypeOK, world, db
<1>4. ASSUME NEW o \in Orders, ShipOrder(s, o)
      PROVE  TypeOK'
  <2>. DEFINE columns == IF ses[s].view[o].status = "SHIPPED"
                         THEN {} ELSE {"status"}
  <2>1. columns \in SUBSET Column
    OBVIOUS
  <2>. QED
    BY <1>4, <2>1, CallType DEF ShipOrder, Continue
<1>5. ASSUME NEW o \in Orders, ShipRaises(s, o)
      PROVE  TypeOK'
  <2>1. ses[s].view[o].status \in Status
    BY Fields
  <2>. QED
    BY <1>5, <2>1, CallType
       DEF ShipRaises, ShipCallRaises, IncrementError, Fault, db
<1>6. ASSUME NEW o \in Orders, HookRaises(s, o)
      PROVE  TypeOK'
  <2>1. ses' \in [Sessions -> Session]
    BY <1>6, IdleType, BecomeType DEF HookRaises
  <2>2. mirakl' \in [Orders -> MiraklState]
    BY <1>6 DEF HookRaises, ShipCallRaises, ShippedAtMirakl, TypeOK
  <2>3. faults' \in Nat
    BY <1>6 DEF HookRaises, ShipCallRaises, Fault, TypeOK
  <2>. QED
    BY <1>6, <2>1, <2>2, <2>3 DEF HookRaises, ShipCallRaises, TypeOK
<1>. QED
  BY <1>1, <1>2, <1>3, <1>4, <1>5, <1>6 DEF Ship

\* Flushes, commits, rollbacks and crashes keep the types.
LEMMA EndType ==
    ASSUME TypeOK, NEW s \in Sessions, EndFlush(s) \/ Crash(s)
    PROVE  TypeOK'
<1>1. ASSUME Rollback(s), faults' = faults \/ Fault
      PROVE  TypeOK'
  <2>1. ses' \in [Sessions -> Session]
    BY <1>1, IdleType, BecomeType DEF Rollback
  <2>2. lock' \in [Orders -> Sessions \cup {None}]
    BY <1>1, ReleaseType DEF Rollback
  <2>3. faults' \in Nat
    BY <1>1 DEF Fault, TypeOK
  <2>. QED
    BY <1>1, <2>1, <2>2, <2>3 DEF Rollback, TypeOK, world
<1>2. ASSUME NEW o \in Orders, FlushOne(s, o)
      PROVE  TypeOK'
  BY <1>2 DEF FlushOne, TypeOK, world
<1>3. ASSUME NEW o \in Orders, FlushConflict(s, o)
      PROVE  TypeOK'
  BY <1>1, <1>3 DEF FlushConflict
<1>4. CASE FlushDone(s)
  <2>1. [ses[s] EXCEPT !.pc = "next"] \in Session
    BY Fields DEF Session
  <2>2. ses' \in [Sessions -> Session]
    BY <1>4, <2>1, BecomeType DEF FlushDone
  <2>. QED
    BY <1>4, <2>2 DEF FlushDone, TypeOK, world, db
<1>5. CASE Commit(s)
  <2>1. ses' \in [Sessions -> Session]
    BY <1>5, IdleType, BecomeType DEF Commit
  <2>2. lock' \in [Orders -> Sessions \cup {None}]
    BY <1>5, ReleaseType DEF Commit
  <2>3. \A o \in Orders : row[o] \in Record /\ Stored(s, o) \in Record
    BY StoredType DEF TypeOK
  <2>4. row' \in [Orders -> Record]
    BY <1>5, <2>3 DEF Commit
  <2>. QED
    BY <1>5, <2>1, <2>2, <2>4 DEF Commit, TypeOK, world
<1>6. CASE DeadlockVictim(s)
  BY <1>1, <1>6 DEF DeadlockVictim
<1>7. CASE Crash(s)
  BY <1>1, <1>7 DEF Crash
<1>. QED
  BY <1>2, <1>3, <1>4, <1>5, <1>6, <1>7 DEF EndFlush

\* The retry endpoint, the merchant and the operator keep the types.
LEMMA OutsideType ==
    ASSUME TypeOK,
           \/ \E r \in Retriers, o \in Orders : RetryOrder(r, o)
           \/ \E id \in PlentyIds : Dispatch(id)
           \/ \E o \in Orders : AddMapping(o)
    PROVE  TypeOK'
<1>1. ASSUME NEW r \in Retriers, NEW o \in Orders, RetryOrder(r, o)
      PROVE  TypeOK'
  <2>. DEFINE new == [row[o] EXCEPT !.status = "NEW"]
              s == [Idle EXCEPT !.pc = "flush", !.view[o] = new,
                                !.dirty[o] = {"status", "error"}]
  <2>1. r \in Sessions /\ new \in Record
    BY DEF Sessions, TypeOK
  <2>2. s \in Session
    <3>. HIDE DEF new
    <3>1. Idle \in Session
      BY IdleType
    <3>2. [Idle.view EXCEPT ![o] = new] \in [Orders -> Record]
      BY <3>1, <2>1 DEF Session
    <3>3. [Idle.dirty EXCEPT ![o] = {"status", "error"}] \in [Orders -> SUBSET Column]
      BY <3>1 DEF Session
    <3>. QED
      BY <3>1, <3>2, <3>3 DEF Session
  <2>3. ses' \in [Sessions -> Session]
    BY <1>1, <2>1, <2>2, BecomeType DEF RetryOrder
  <2>. QED
    BY <1>1, <2>3 DEF RetryOrder, TypeOK, world, db
<1>2. ASSUME NEW id \in PlentyIds, Dispatch(id)
      PROVE  TypeOK'
  BY <1>2 DEF Dispatch, TypeOK, db
<1>3. ASSUME NEW o \in Orders, AddMapping(o)
      PROVE  TypeOK'
  BY <1>3 DEF AddMapping, TypeOK, db
<1>. QED
  BY <1>1, <1>2, <1>3

-----------------------------------------------------------------------------
(* What is true stays true: Mirakl, PlentyONE and the ids in the records   *)
(* only move forward                                                       *)

Grows ==
    /\ \A id \in PlentyIds : plenty[id] # None => plenty'[id] = plenty[id]
    /\ \A o \in Orders : /\ mirakl[o] # "WAITING" => mirakl'[o] # "WAITING"
                         /\ mirakl[o] = "SHIPPED" => mirakl'[o] = "SHIPPED"
                         /\ row[o].plenty # None => row'[o].plenty # None

\* A record that is true of the world stays true of it.
LEMMA TrueOfStays ==
    ASSUME TypeOK, Grows, NEW o \in Orders, NEW record \in Record,
           TrueOf(o, record)
    PROVE  TrueOf(o, record)'
<1>1. record.plenty # None => record.plenty \in PlentyIds /\ o # None
  BY NoneAssumption
<1>. QED
  BY <1>1 DEF TrueOf, Grows

\* Steps that write no record keep the committed records true.
LEMMA RowsStay ==
    ASSUME IInv, Grows, UNCHANGED row
    PROVE  RowsTrue'
<1>1. \A o \in Orders : row[o] \in Record /\ TrueOf(o, row[o])
  BY DEF IInv, TypeOK, RowsTrue
<1>2. \A o \in Orders : TrueOf(o, row[o])'
  <2>. TAKE o \in Orders
  <2>1. row[o] \in Record /\ TrueOf(o, row[o])
    BY <1>1
  <2>2. ASSUME NEW rec \in Record, TrueOf(o, rec)
        PROVE  TrueOf(o, rec)'
    BY <2>2, TrueOfStays DEF IInv
  <2>3. row'[o] = row[o]
    OBVIOUS
  <2>. QED
    BY <2>1, <2>2, <2>3 DEF TrueOf
<1>. QED
  BY <1>2 DEF RowsTrue

\* Only s changes its objects: the invariant of sessions is about s alone.
LEMMA SessionsStay ==
    ASSUME IInv, Grows, NEW s \in Sessions,
           \A t \in Sessions \ {s} : ses'[t] = ses[t],
           ImportingOne(s)', \A o \in Orders : ObjectTrue(s, o)'
    PROVE  SessionsTrue'
<1>1. ASSUME NEW t \in Sessions \ {s}
      PROVE  ImportingOne(t)' /\ \A o \in Orders : ObjectTrue(t, o)'
  <2>1. ses'[t] = ses[t] /\ ImportingOne(t) /\ \A o \in Orders : ObjectTrue(t, o)
    BY DEF IInv, SessionsTrue
  <2>2. ImportingOne(t)'
    BY <2>1 DEF ImportingOne
  <2>3. ASSUME NEW o \in Orders
        PROVE  ObjectTrue(t, o)'
    <3>1. ses[t].view[o] \in Record /\ TrueOf(o, ses[t].view[o])
      BY <2>1, Fields DEF IInv, ObjectTrue
    <3>2. ASSUME NEW rec \in Record, TrueOf(o, rec)
          PROVE  TrueOf(o, rec)'
      BY <3>2, TrueOfStays DEF IInv
    <3>3. TrueOf(o, ses[t].view[o])'
      BY <2>1, <3>1, <3>2 DEF TrueOf
    <3>. QED
      BY <2>1, <3>3 DEF ObjectTrue, Grows
  <2>. QED
    BY <2>2, <2>3
<1>. QED
  BY <1>1 DEF SessionsTrue

\* A session without objects says nothing untrue.
LEMMA IdleTrue ==
    ASSUME IInv, Grows, NEW s \in Sessions, Become(s, Idle)
    PROVE  SessionsTrue'
<1>1. ses'[s] = Idle /\ \A t \in Sessions \ {s} : ses'[t] = ses[t]
  BY IdleType, BecomeType DEF IInv
<1>2. ImportingOne(s)'
  BY <1>1 DEF ImportingOne, Idle
<1>3. \A o \in Orders : ObjectTrue(s, o)'
  BY <1>1 DEF ObjectTrue, TrueOf, Idle
<1>. QED
  BY <1>1, <1>2, <1>3, SessionsStay

\* A session that goes on with the objects it has says nothing new.
LEMMA MoveTrue ==
    ASSUME IInv, Grows, NEW s \in Sessions, NEW r \in Session, Become(s, r),
           r.view = ses[s].view, r.dirty = ses[s].dirty,
           r.todo \subseteq ses[s].todo,
           r.pc \in {"resolve", "create", "mark"} => r.cur \in Orders
    PROVE  SessionsTrue'
<1>1. ses'[s] = r /\ \A t \in Sessions \ {s} : ses'[t] = ses[t]
  BY BecomeType DEF IInv
<1>2. ImportingOne(s)'
  BY <1>1 DEF ImportingOne
<1>3. ASSUME NEW o \in Orders
      PROVE  ObjectTrue(s, o)'
  <2>1. ObjectTrue(s, o) /\ ses[s].view[o] \in Record
    BY Fields DEF IInv, SessionsTrue
  <2>2. TrueOf(o, ses[s].view[o])
    BY <2>1 DEF ObjectTrue
  <2>3. ASSUME NEW rec \in Record, TrueOf(o, rec)
        PROVE  TrueOf(o, rec)'
    BY <2>3, TrueOfStays DEF IInv
  <2>4. TrueOf(o, ses[s].view[o])'
    BY <1>1, <2>1, <2>2, <2>3 DEF TrueOf
  <2>. QED
    BY <1>1, <2>1, <2>4 DEF ObjectTrue, Grows
<1>. QED
  BY <1>1, <1>2, <1>3, SessionsStay

\* A session that assigns its object of o says nothing untrue, if what it
\* assigns is true and will be true of the record once it is flushed.
LEMMA AssignTrue ==
    ASSUME IInv, Grows, NEW s \in Sessions, NEW o \in Orders,
           NEW status \in Status, NEW id \in PlentyIds \cup {None},
           NEW columns \in SUBSET Column, NEW pc \in {"next", "flush"},
           Become(s, Assign(s, o, status, id, columns, pc)),
           TrueOf(o, [status |-> status, plenty |-> id])',
           id # None /\ "plenty" \notin ses[s].dirty[o] \cup columns
              => row'[o].plenty # None,
           "plenty" \in ses[s].dirty[o] \cup columns => id # None
    PROVE  SessionsTrue'
<1>0. TypeOK
  BY DEF IInv
<1>a. Assign(s, o, status, id, columns, pc) \in Session
  <2>1. 0 \in 0 .. MaxAttempts
    BY BoundsAssumption
  <2>2. /\ ses[s].todo \in SUBSET Orders
        /\ ses[s].view \in [Orders -> Record]
        /\ ses[s].dirty \in [Orders -> SUBSET Column]
    BY <1>0, Fields
  <2>. QED
    BY <2>1, <2>2 DEF Assign, Session
<1>1. PICK r \in Session : r = Assign(s, o, status, id, columns, pc)
  BY <1>a
<1>b. /\ r.pc = pc
      /\ r.todo = ses[s].todo \ {o}
      /\ r.view = [ses[s].view EXCEPT ![o] = [status |-> status, plenty |-> id]]
      /\ r.dirty = [ses[s].dirty EXCEPT ![o] = @ \cup columns]
  BY <1>1 DEF Assign
<1>2. ses'[s] = r /\ \A t \in Sessions \ {s} : ses'[t] = ses[t]
  BY <1>0, <1>1, BecomeType
<1>3. ImportingOne(s)'
  BY <1>b, <1>2 DEF ImportingOne
<1>4. ASSUME NEW p \in Orders
      PROVE  ObjectTrue(s, p)'
  <2>1. /\ ObjectTrue(s, p)
        /\ ses[s].view \in [Orders -> Record]
        /\ ses[s].dirty \in [Orders -> SUBSET Column]
    BY <1>0, Fields DEF IInv, SessionsTrue
  <2>2. CASE p = o
    <3>1. r.view[p] = [status |-> status, plenty |-> id]
      BY <1>b, <2>1, <2>2
    <3>2. r.dirty[p] = ses[s].dirty[o] \cup columns
      BY <1>b, <2>1, <2>2
    <3>3. p \notin r.todo
      BY <1>b, <2>2
    <3>. QED
      BY <1>2, <2>2, <3>1, <3>2, <3>3 DEF ObjectTrue, TrueOf
  <2>3. CASE p # o
    <3>1. r.view[p] = ses[s].view[p] /\ r.dirty[p] = ses[s].dirty[p]
      BY <1>b, <2>1, <2>3
    <3>2. p \in r.todo => p \in ses[s].todo
      BY <1>b
    <3>3. ASSUME NEW rec \in Record, TrueOf(p, rec)
          PROVE  TrueOf(p, rec)'
      BY <1>0, <3>3, TrueOfStays
    <3>4. TrueOf(p, r.view[p])'
      BY <1>2, <2>1, <3>1, <3>3 DEF TrueOf, ObjectTrue
    <3>. QED
      BY <1>2, <2>1, <3>1, <3>2, <3>4 DEF ObjectTrue, TrueOf, Grows
  <2>. QED
    BY <2>2, <2>3
<1>. QED
  BY <1>2, <1>3, <1>4, SessionsStay

-----------------------------------------------------------------------------
(* Every step keeps the inductive invariant *)

\* A step that changes neither the world nor a committed record only has to
\* keep the sessions true.
LEMMA QuietStep ==
    ASSUME IInv, TypeOK', UNCHANGED <<world, row>>,
           Grows => SessionsTrue'
    PROVE  IInv'
<1>1. Grows
  BY DEF Grows, world
<1>2. RowsTrue'
  BY <1>1, RowsStay
<1>. QED
  BY <1>1, <1>2 DEF IInv, world, TrackedExist, AcceptedOnlyIfCreated,
                    ShippedOnlyIfDispatched, PlentyOrdersOf

\* So has a step that only creates an order in PlentyONE.
LEMMA CreatingStep ==
    ASSUME IInv, TypeOK', UNCHANGED <<mirakl, tracked, row>>,
           NEW id \in PlentyIds, NEW o \in Orders, NewPlentyOrder(id, o),
           Grows /\ plenty'[id] = o => SessionsTrue'
    PROVE  IInv'
<1>1. plenty[id] = None /\ plenty' = [plenty EXCEPT ![id] = o]
  BY DEF NewPlentyOrder
<1>2. plenty \in [PlentyIds -> Orders \cup {None}] /\ o # None
  BY NoneAssumption DEF IInv, TypeOK
<1>3. plenty'[id] = o /\ \A j \in PlentyIds : plenty[j] # None => plenty'[j] = plenty[j]
  BY <1>1, <1>2
<1>4. Grows
  BY <1>3 DEF Grows
<1>5. RowsTrue'
  BY <1>4, RowsStay
<1>6. \A p \in Orders : PlentyOrdersOf(p) \subseteq PlentyOrdersOf(p)'
  BY <1>3, NoneAssumption DEF PlentyOrdersOf
<1>7. TrackedExist'
  BY <1>2, <1>3 DEF IInv, TypeOK, TrackedExist
<1>. QED
  BY <1>3, <1>4, <1>5, <1>6, <1>7
     DEF IInv, AcceptedOnlyIfCreated, ShippedOnlyIfDispatched

\* And a step that moves an order on at Mirakl, if PlentyONE has the order
\* and, to ship it, its goods have left.
LEMMA MovingStep ==
    ASSUME IInv, TypeOK', NEW o \in Orders, UNCHANGED <<plenty, tracked, row>>,
           \/ UNCHANGED mirakl
           \/ AcceptedAtMirakl(o) /\ PlentyOrdersOf(o) # {}
           \/ ShippedAtMirakl(o) /\ PlentyOrdersOf(o) \cap tracked # {},
           Grows => SessionsTrue'
    PROVE  IInv'
<1>0. mirakl \in [Orders -> MiraklState]
  BY DEF IInv, TypeOK
<1>1. Grows
  BY <1>0 DEF Grows, AcceptedAtMirakl, ShippedAtMirakl
<1>2. RowsTrue'
  BY <1>1, RowsStay
<1>3. \A p \in Orders : PlentyOrdersOf(p)' = PlentyOrdersOf(p)
  BY DEF PlentyOrdersOf
<1>4. AcceptedOnlyIfCreated'
  BY <1>0, <1>3 DEF IInv, AcceptedOnlyIfCreated, AcceptedAtMirakl, ShippedAtMirakl
<1>5. ShippedOnlyIfDispatched'
  BY <1>0, <1>3 DEF IInv, ShippedOnlyIfDispatched, AcceptedAtMirakl, ShippedAtMirakl
<1>. QED
  BY <1>1, <1>2, <1>4, <1>5 DEF IInv, TrackedExist

\* Loading records says nothing new: they are true.
LEMMA BeginStep ==
    ASSUME IInv, TypeOK', NEW s \in Sessions, NEW found \in SUBSET Orders,
           BeginWith(s, found),
           s \in Confirmers => \A o \in found : row[o].status = "IMPORTED"
    PROVE  IInv'
<1>1. PICK r \in Session :
        r = [Idle EXCEPT !.pc = "next", !.todo = found, !.view = Load(found)]
  <2>1. Load(found) \in [Orders -> Record]
    BY DEF Load, IInv, TypeOK
  <2>. QED
    BY <2>1, IdleType DEF Session
<1>2. ses'[s] = r /\ \A t \in Sessions \ {s} : ses'[t] = ses[t]
  BY <1>1, BecomeType DEF BeginWith, IInv
<1>3. ImportingOne(s)'
  BY <1>1, <1>2 DEF ImportingOne, Idle
<1>4. ASSUME Grows, NEW o \in Orders
      PROVE  ObjectTrue(s, o)'
  <2>1. r.view[o] = (IF o \in found THEN row[o] ELSE Absent) /\ r.dirty[o] = {}
    BY <1>1 DEF Idle, Load
  <2>2. TrueOf(o, row[o])' /\ row' = row
    BY <1>4, RowsStay DEF RowsTrue, BeginWith, db
  <2>3. o \in r.todo => o \in found
    BY <1>1 DEF Idle
  <2>. QED
    BY <1>2, <2>1, <2>2, <2>3 DEF ObjectTrue, TrueOf
<1>. QED
  BY <1>2, <1>3, <1>4, SessionsStay, QuietStep DEF BeginWith, world, db

\* import_new_orders: an importer writes ERROR, which says nothing, or
\* IMPORTED with the order it has just created.
LEMMA ImportStep ==
    ASSUME IInv, TypeOK', NEW i \in Importers,
           Import(i) \/ EanLookupRaises(i) \/ CreateRaises(i)
    PROVE  IInv'
<1>. i \in Sessions /\ i \notin Confirmers
  BY SessionsAssumption DEF Sessions
<1>t. TypeOK /\ ImportingOne(i) /\ \A o \in Orders : ObjectTrue(i, o)
  BY DEF IInv, SessionsTrue
<1>f. /\ ses[i] \in Session
      /\ ses[i].todo \in SUBSET Orders
      /\ ses[i].view \in [Orders -> Record]
      /\ ses[i].dirty \in [Orders -> SUBSET Column]
      /\ ses[i].tries \in 0 .. MaxAttempts
  BY <1>t, Fields
<1>1. CASE ImportNewOrders(i)
  <2>1. PICK page \in SUBSET Waiting :
          Become(i, [Idle EXCEPT !.pc = "next", !.todo = page])
    BY <1>1 DEF ImportNewOrders
  <2>2. PICK r \in Session : r = [Idle EXCEPT !.pc = "next", !.todo = page]
    BY IdleType DEF Waiting, Session
  <2>3. ses'[i] = r /\ \A t \in Sessions \ {i} : ses'[t] = ses[t]
    BY <1>t, <2>1, <2>2, BecomeType
  <2>4. ImportingOne(i)'
    BY <2>2, <2>3 DEF ImportingOne, Idle
  <2>5. \A o \in Orders : ObjectTrue(i, o)'
    BY <2>2, <2>3 DEF ObjectTrue, TrueOf, Idle
  <2>. QED
    BY <1>1, <2>3, <2>4, <2>5, SessionsStay, QuietStep
       DEF ImportNewOrders, world, db
<1>2. ASSUME NEW o \in Orders, FindOrder(i, o), ~Importable(row[o])
      PROVE  IInv'
  <2>. DEFINE rest == ses[i].todo \ {o}
  <2>1. PICK r \in Session : r = [ses[i] EXCEPT !.pc = Continue(rest), !.todo = rest]
    BY <1>f DEF Session, Continue
  <2>2. /\ r.view = ses[i].view /\ r.dirty = ses[i].dirty
        /\ r.todo \subseteq ses[i].todo /\ r.pc \in {"next", "flush"}
    BY <1>f, <2>1 DEF Session, Continue
  <2>3. Grows => SessionsTrue'
    BY <1>2, <2>1, <2>2, MoveTrue DEF FindOrder
  <2>. QED
    BY <1>2, <2>3, QuietStep DEF FindOrder, world, db
<1>3. ASSUME NEW o \in Orders, FindOrder(i, o), Importable(row[o])
      PROVE  IInv'
  <2>. DEFINE rest == ses[i].todo \ {o}
  <2>0. row[o] \in Record
    BY <1>t DEF TypeOK
  <2>1. PICK r \in Session :
          r = [ses[i] EXCEPT !.pc = "resolve", !.cur = o, !.todo = rest,
                             !.view[o] = row[o]]
    BY <1>f, <2>0 DEF Session
  <2>2. /\ r.view = [ses[i].view EXCEPT ![o] = row[o]]
        /\ r.dirty = ses[i].dirty /\ r.todo = rest /\ r.cur = o
    BY <1>f, <2>1 DEF Session
  <2>3. ses'[i] = r /\ \A t \in Sessions \ {i} : ses'[t] = ses[t]
    BY <1>t, <1>3, <2>1, BecomeType DEF FindOrder
  <2>4. ImportingOne(i)'
    BY <2>2, <2>3 DEF ImportingOne
  <2>5. ASSUME Grows, NEW p \in Orders
        PROVE  ObjectTrue(i, p)'
    <3>0. row' = row /\ ObjectTrue(i, p) /\ ses[i].view[p] \in Record
      BY <1>3, <1>f, <1>t DEF FindOrder, db
    <3>1. CASE p = o
      <4>1. TrueOf(o, row[o])' /\ ses[i].dirty[o] = {}
        BY <1>3, <1>t, <2>5, <3>0, RowsStay DEF RowsTrue, ObjectTrue, FindOrder
      <4>2. r.view[p] = row[o]
        BY <1>f, <2>2, <3>1
      <4>. QED
        BY <2>2, <2>3, <3>0, <3>1, <4>1, <4>2 DEF ObjectTrue, TrueOf
    <3>2. CASE p # o
      <4>1. r.view[p] = ses[i].view[p]
        BY <1>f, <2>2, <3>2
      <4>2. ASSUME NEW rec \in Record, TrueOf(p, rec)
            PROVE  TrueOf(p, rec)'
        BY <1>t, <2>5, <4>2, TrueOfStays
      <4>3. TrueOf(p, ses[i].view[p])
        BY <3>0 DEF ObjectTrue
      <4>4. TrueOf(p, r.view[p])'
        BY <3>0, <4>1, <4>2, <4>3 DEF TrueOf
      <4>. QED
        BY <2>2, <2>3, <3>0, <4>1, <4>4 DEF ObjectTrue, TrueOf
    <3>. QED
      BY <3>1, <3>2
  <2>6. Grows => SessionsTrue'
    BY <2>3, <2>4, <2>5, SessionsStay
  <2>. QED
    BY <1>3, <2>6, QuietStep DEF FindOrder, world, db
<1>4. CASE ResolveSkus(i)
  <2>1. PICK r \in Session : /\ Become(i, r)
                             /\ \/ r = [ses[i] EXCEPT !.pc = "create"]
                                \/ r = [ses[i] EXCEPT !.pc = "mark"]
    BY <1>4, <1>f DEF ResolveSkus, ToMark, Session
  <2>2. /\ r.view = ses[i].view /\ r.dirty = ses[i].dirty
        /\ r.todo = ses[i].todo /\ r.cur = ses[i].cur
    BY <1>f, <2>1 DEF Session
  <2>3. ses[i].cur \in Orders
    BY <1>4, <1>t DEF ResolveSkus, ImportingOne
  <2>4. Grows => SessionsTrue'
    BY <2>1, <2>2, <2>3, MoveTrue
  <2>. QED
    BY <1>4, <2>4, QuietStep DEF ResolveSkus, world, db
<1>5. CASE CreateOrder(i)
  <2>1. PICK o \in Orders : o = ses[i].cur
    BY <1>5, <1>t DEF CreateOrder, ImportingOne
  <2>2. PICK columns \in SUBSET Column :
          columns = {"status", "plenty"} \cup InsertIfAbsent(ses[i].view[o])
    BY DEF InsertIfAbsent
  <2>3. PICK id \in PlentyIds :
          /\ NewPlentyOrder(id, o)
          /\ Become(i, Assign(i, o, "IMPORTED", id, columns, "flush"))
    BY <1>5, <2>1, <2>2 DEF CreateOrder
  <2>4. ASSUME Grows, plenty'[id] = o
        PROVE  SessionsTrue'
    <3>1. TrueOf(o, [status |-> "IMPORTED", plenty |-> id])'
      BY <2>4, NoneAssumption DEF TrueOf
    <3>2. "plenty" \in columns /\ id # None
      BY <2>2, NoneAssumption
    <3>. QED
      BY <2>3, <2>4, <3>1, <3>2, AssignTrue
  <2>. QED
    BY <1>5, <2>3, <2>4, CreatingStep DEF CreateOrder, db
<1>6. CASE MarkError(i)
  <2>. DEFINE o == ses[i].cur
              found == IF ses[i].view[o] = Absent THEN row[o] ELSE ses[i].view[o]
              changed == IF found.status = "ERROR" THEN {} ELSE {"status"}
              columns == {"error"} \cup changed \cup InsertIfAbsent(found)
  <2>1. PICK p \in Orders : p = o
    BY <1>6, <1>t DEF MarkError, ImportingOne
  <2>2. /\ row[p] \in Record /\ TrueOf(p, row[p])
        /\ ses[i].view[p] \in Record /\ ObjectTrue(i, p)
    BY <1>t, <1>f DEF TypeOK, IInv, RowsTrue
  <2>3. found \in Record /\ found.plenty \in PlentyIds \cup {None}
    BY <2>1, <2>2
  <2>4. PICK cs \in SUBSET Column, id \in PlentyIds \cup {None} :
          cs = columns /\ id = found.plenty
    BY <2>3 DEF InsertIfAbsent
  <2>5. Become(i, Assign(i, p, "ERROR", id, cs, "flush"))
    BY <1>6, <2>1, <2>4 DEF MarkError
  <2>6. "plenty" \notin cs
    BY <2>4 DEF InsertIfAbsent
  <2>7. ASSUME Grows
        PROVE  SessionsTrue'
    <3>1. TrueOf(p, [status |-> "ERROR", plenty |-> id])
      BY <2>1, <2>2, <2>4 DEF TrueOf, ObjectTrue
    <3>2. [status |-> "ERROR", plenty |-> id] \in Record
      OBVIOUS
    <3>3. TrueOf(p, [status |-> "ERROR", plenty |-> id])'
      BY <1>t, <2>7, <3>1, <3>2, TrueOfStays
    <3>4. id # None /\ "plenty" \notin ses[i].dirty[p] \cup cs => row'[p].plenty # None
      BY <1>6, <2>1, <2>2, <2>4 DEF ObjectTrue, MarkError, db
    <3>5. "plenty" \in ses[i].dirty[p] \cup cs => id # None
      BY <2>1, <2>2, <2>4, <2>6 DEF ObjectTrue
    <3>. HIDE DEF o, found, changed, columns
    <3>. QED
      BY <2>5, <2>7, <3>3, <3>4, <3>5, AssignTrue
  <2>. QED
    BY <1>6, <2>7, QuietStep DEF MarkError, world, db
<1>7. CASE EanLookupRaises(i)
  <2>1. PICK r \in Session :
          r = [ses[i] EXCEPT !.pc = "flush", !.todo = {}, !.cur = None]
    BY <1>f DEF Session
  <2>2. /\ r.view = ses[i].view /\ r.dirty = ses[i].dirty
        /\ r.todo = {} /\ r.pc = "flush"
    BY <1>f, <2>1 DEF Session
  <2>3. Grows => SessionsTrue'
    BY <1>7, <2>1, <2>2, MoveTrue DEF EanLookupRaises
  <2>. QED
    BY <1>7, <2>3, QuietStep DEF EanLookupRaises, world, db
<1>8. CASE CreateRaises(i)
  <2>1. PICK r \in Session :
          /\ Become(i, r)
          /\ \/ r = [ses[i] EXCEPT !.tries = @ + 1]
             \/ r = [ses[i] EXCEPT !.pc = "mark"]
    <3>1. ses[i].tries + 1 < MaxAttempts
             => [ses[i] EXCEPT !.tries = @ + 1] \in Session
      BY <1>f, BoundsAssumption DEF Session
    <3>2. [ses[i] EXCEPT !.pc = "mark"] \in Session
      BY <1>f DEF Session
    <3>. QED
      BY <1>8, <3>1, <3>2 DEF CreateRaises, ToMark
  <2>2. /\ r.view = ses[i].view /\ r.dirty = ses[i].dirty
        /\ r.todo = ses[i].todo /\ r.cur = ses[i].cur
    BY <1>f, <2>1 DEF Session
  <2>3. ses[i].cur \in Orders
    BY <1>8, <1>t DEF CreateRaises, ImportingOne
  <2>4. Grows => SessionsTrue'
    BY <2>1, <2>2, <2>3, MoveTrue
  <2>5. UNCHANGED <<mirakl, tracked, mapped, row>>
    BY <1>8 DEF CreateRaises, db
  <2>6. CASE UNCHANGED plenty
    BY <2>4, <2>5, <2>6, QuietStep DEF world
  <2>7. CASE \E id \in PlentyIds : NewPlentyOrder(id, ses[i].cur)
    BY <2>3, <2>4, <2>5, <2>7, CreatingStep
  <2>. QED
    BY <1>8, <2>6, <2>7 DEF CreateRaises
<1>. QED
  BY <1>1, <1>2, <1>3, <1>4, <1>5, <1>6, <1>7, <1>8 DEF Import

\* A call to Mirakl about an order o of the run, whatever comes of it.
LEMMA CallStep ==
    ASSUME IInv, TypeOK', NEW s \in Sessions, NEW o \in Orders,
           o \in ses[s].todo,
           NEW status \in Status, NEW columns \in SUBSET {"status", "error"},
           NEW pc \in {"next", "flush"},
           Become(s, Assign(s, o, status, ses[s].view[o].plenty, columns, pc)),
           UNCHANGED <<plenty, tracked, mapped, row>>,
           \/ UNCHANGED mirakl
           \/ AcceptedAtMirakl(o) /\ PlentyOrdersOf(o) # {}
           \/ ShippedAtMirakl(o) /\ PlentyOrdersOf(o) \cap tracked # {},
           \/ status = ses[s].view[o].status
           \/ /\ ses[s].view[o].plenty # None
              /\ status = "CONFIRMED" => mirakl'[o] # "WAITING"
              /\ status = "SHIPPED" => mirakl'[o] = "SHIPPED"
    PROVE  IInv'
<1>1. TypeOK /\ ObjectTrue(s, o)
  BY DEF IInv, SessionsTrue
<1>2. PICK id \in PlentyIds \cup {None} : id = ses[s].view[o].plenty
  BY <1>1, Fields
<1>3. TrueOf(o, ses[s].view[o]) /\ ses[s].view[o] \in Record
  BY <1>1, Fields DEF ObjectTrue
<1>4. ASSUME Grows
      PROVE  SessionsTrue'
  <2>1. [status |-> status, plenty |-> id] \in Record
    OBVIOUS
  <2>2. TrueOf(o, [status |-> status, plenty |-> id])'
    <3>1. CASE status = ses[s].view[o].status
      <4>1. TrueOf(o, [status |-> status, plenty |-> id])
        BY <1>2, <1>3, <3>1 DEF TrueOf
      <4>. QED
        BY <1>1, <1>4, <2>1, <4>1, TrueOfStays
    <3>2. CASE status # ses[s].view[o].status
      <4>1. id # None /\ plenty[id] = o
        BY <1>2, <1>3, <3>2 DEF TrueOf
      <4>. QED
        BY <3>2, <4>1 DEF TrueOf
    <3>. QED
      BY <3>1, <3>2
  <2>3. /\ id # None /\ "plenty" \notin ses[s].dirty[o] \cup columns
             => row'[o].plenty # None
        /\ "plenty" \in ses[s].dirty[o] \cup columns => id # None
    BY <1>1, <1>2 DEF ObjectTrue
  <2>4. Become(s, Assign(s, o, status, id, columns, pc)) /\ columns \in SUBSET Column
    BY <1>2
  <2>. QED
    BY <1>4, <2>2, <2>3, <2>4, AssignTrue
<1>. QED
  BY <1>4, MovingStep

\* confirm_orders accepts only orders that PlentyONE has.
LEMMA ConfirmStep ==
    ASSUME IInv, TypeOK', NEW c \in Confirmers,
           Confirm(c) \/ \E o \in Orders : AcceptRaises(c, o)
    PROVE  IInv'
<1>. c \in Sessions
  BY DEF Sessions
<1>1. CASE ConfirmOrders(c)
  BY <1>1, BeginStep DEF ConfirmOrders
<1>2. ASSUME NEW o \in Orders, o \in ses[c].todo
      PROVE  /\ ses[c].view[o].plenty # None
             /\ PlentyOrdersOf(o) # {}
             /\ ses[c].view[o].status \in Status
  <2>1. /\ ObjectTrue(c, o)
        /\ ses[c].view[o].plenty \in PlentyIds \cup {None}
        /\ ses[c].view[o].status \in Status
    BY Fields DEF IInv, SessionsTrue
  <2>. QED
    BY <1>2, <2>1 DEF ObjectTrue, TrueOf, PlentyOrdersOf
<1>3. ASSUME NEW o \in Orders, AcceptOrder(c, o)
      PROVE  IInv'
  <2>1. mirakl'[o] # "WAITING"
    BY <1>3 DEF AcceptOrder, AcceptedAtMirakl, IInv, TypeOK
  <2>2. Continue(ses[c].todo \ {o}) \in {"next", "flush"}
    BY DEF Continue
  <2>. QED
    BY <1>2, <1>3, <2>1, <2>2, CallStep DEF AcceptOrder, db
<1>4. ASSUME NEW o \in Orders, AcceptRaises(c, o)
      PROVE  IInv'
  BY <1>2, <1>4, CallStep DEF AcceptRaises, IncrementError, db
<1>. QED
  BY <1>1, <1>3, <1>4 DEF Confirm

\* ship_orders and the webhook report only goods that have left.
LEMMA ShipStep ==
    ASSUME IInv, TypeOK', NEW s \in Shippers \cup Hooks,
           \/ Ship(s)
           \/ PlentyOrderStatus(s)
           \/ \E o \in Orders : ShipOrder(s, o) \/ ShipRaises(s, o) \/ HookRaises(s, o)
    PROVE  IInv'
<1>. s \in Sessions /\ s \notin Confirmers
  BY SessionsAssumption DEF Sessions
<1>0. TypeOK
  BY DEF IInv
<1>1. CASE ShipOrders(s)
  BY <1>1, BeginStep DEF ShipOrders
<1>2. CASE PlentyOrderStatus(s)
  BY <1>2, BeginStep DEF PlentyOrderStatus
<1>3. ASSUME NEW o \in Orders
      PROVE  /\ ses[s].view[o].status \in Status
             /\ ses[s].view[o].plenty \in tracked
                   => /\ ses[s].view[o].plenty # None
                      /\ PlentyOrdersOf(o) \cap tracked # {}
  <2>1. /\ TrueOf(o, ses[s].view[o])
        /\ ses[s].view[o].plenty \in PlentyIds \cup {None}
        /\ ses[s].view[o].status \in Status
    BY Fields DEF IInv, SessionsTrue, ObjectTrue
  <2>2. None \notin tracked
    BY <1>0, NoneAssumption DEF TypeOK
  <2>. QED
    BY <2>1, <2>2 DEF TrueOf, PlentyOrdersOf
<1>4. ASSUME NEW o \in Orders, NoTrackingYet(s, o)
      PROVE  IInv'
  <2>. DEFINE rest == ses[s].todo \ {o}
  <2>0. ses[s] \in Session /\ rest \in SUBSET Orders
    BY <1>0, Fields
  <2>1. PICK r \in Session : r = [ses[s] EXCEPT !.pc = Continue(rest), !.todo = rest]
    BY <2>0 DEF Session, Continue
  <2>2. /\ r.view = ses[s].view /\ r.dirty = ses[s].dirty
        /\ r.todo \subseteq ses[s].todo /\ r.pc \in {"next", "flush"}
    BY <2>0, <2>1 DEF Session, Continue
  <2>3. Grows => SessionsTrue'
    BY <1>4, <2>1, <2>2, MoveTrue DEF NoTrackingYet
  <2>. QED
    BY <1>4, <2>3, QuietStep DEF NoTrackingYet, world, db
<1>5. ASSUME NEW o \in Orders, ShipOrder(s, o)
      PROVE  IInv'
  <2>1. PICK columns \in SUBSET {"status", "error"} :
          columns = IF ses[s].view[o].status = "SHIPPED" THEN {} ELSE {"status"}
    OBVIOUS
  <2>2. mirakl'[o] = "SHIPPED"
    BY <1>5, <1>0 DEF ShipOrder, ShippedAtMirakl, TypeOK
  <2>3. Continue(ses[s].todo \ {o}) \in {"next", "flush"}
    BY DEF Continue
  <2>. QED
    BY <1>3, <1>5, <2>1, <2>2, <2>3, CallStep DEF ShipOrder, HasTracking, db
<1>6. ASSUME NEW o \in Orders, ShipCallRaises(s, o)
      PROVE  /\ UNCHANGED <<plenty, tracked, mapped, row>>
             /\ \/ UNCHANGED mirakl
                \/ ShippedAtMirakl(o) /\ PlentyOrdersOf(o) \cap tracked # {}
  BY <1>3, <1>6 DEF ShipCallRaises, HasTracking
<1>7. ASSUME NEW o \in Orders, ShipRaises(s, o)
      PROVE  IInv'
  <2>1. o \in ses[s].todo
    BY <1>7 DEF ShipRaises, ShipCallRaises
  <2>. QED
    BY <1>3, <1>6, <1>7, <2>1, CallStep DEF ShipRaises, IncrementError
<1>8. ASSUME NEW o \in Orders, HookRaises(s, o)
      PROVE  IInv'
  <2>1. Grows => SessionsTrue'
    BY <1>8, IdleTrue DEF HookRaises
  <2>. QED
    BY <1>6, <1>8, <2>1, MovingStep DEF HookRaises
<1>. QED
  BY <1>1, <1>2, <1>4, <1>5, <1>7, <1>8 DEF Ship

\* A commit stores changed columns of true objects over true records: what
\* comes of the mixture is true again.
LEMMA StoredTrue ==
    ASSUME IInv, NEW s \in Sessions, NEW o \in Orders
    PROVE  TrueOf(o, Stored(s, o)) /\ (row[o].plenty # None => Stored(s, o).plenty # None)
<1>1. TypeOK /\ ObjectTrue(s, o) /\ TrueOf(o, row[o]) /\ TrueOf(o, ses[s].view[o])
  BY DEF IInv, SessionsTrue, ObjectTrue, RowsTrue
<1>2. row[o] \in Record /\ ses[s].view[o] \in Record
  BY <1>1, Fields DEF TypeOK
<1>. QED
  BY <1>1, <1>2 DEF ObjectTrue, TrueOf, Stored

\* Flushes, commits, rollbacks and crashes.
LEMMA EndStep ==
    ASSUME IInv, TypeOK', NEW s \in Sessions, EndFlush(s) \/ Crash(s)
    PROVE  IInv'
<1>0. TypeOK
  BY DEF IInv
<1>1. ASSUME Rollback(s)
      PROVE  IInv'
  BY <1>1, IdleTrue, QuietStep DEF Rollback
<1>2. ASSUME NEW o \in Orders, FlushOne(s, o)
      PROVE  IInv'
  <2>1. SessionsTrue'
    BY <1>2 DEF FlushOne, IInv, SessionsTrue, ImportingOne, ObjectTrue, TrueOf, world
  <2>. QED
    BY <1>2, <2>1, QuietStep DEF FlushOne
<1>3. ASSUME NEW o \in Orders, FlushConflict(s, o)
      PROVE  IInv'
  BY <1>1, <1>3 DEF FlushConflict
<1>4. CASE FlushDone(s)
  <2>0. ses[s] \in Session
    BY <1>0, Fields
  <2>1. PICK r \in Session : r = [ses[s] EXCEPT !.pc = "next"]
    BY <2>0 DEF Session
  <2>2. /\ r.view = ses[s].view /\ r.dirty = ses[s].dirty
        /\ r.todo = ses[s].todo /\ r.pc = "next"
    BY <2>0, <2>1 DEF Session
  <2>3. Grows => SessionsTrue'
    BY <1>4, <2>1, <2>2, MoveTrue DEF FlushDone
  <2>. QED
    BY <1>4, <2>3, QuietStep DEF FlushDone, db
<1>5. CASE Commit(s)
  <2>1. \A o \in Orders : row'[o] = IF lock[o] = s THEN Stored(s, o) ELSE row[o]
    BY <1>5 DEF Commit
  <2>2. Grows
    BY <1>5, <2>1, StoredTrue DEF Commit, Grows, world
  <2>3. SessionsTrue'
    BY <1>5, <2>2, IdleTrue DEF Commit
  <2>4. ASSUME NEW o \in Orders
        PROVE  TrueOf(o, row'[o])
    <3>1. TrueOf(o, row[o]) /\ TrueOf(o, Stored(s, o))
      BY StoredTrue DEF IInv, RowsTrue
    <3>. QED
      BY <2>1, <3>1
  <2>5. RowsTrue'
    BY <1>5, <2>4 DEF RowsTrue, TrueOf, Commit, world
  <2>. QED
    BY <1>5, <2>3, <2>5 DEF IInv, Commit, world, TrackedExist,
       AcceptedOnlyIfCreated, ShippedOnlyIfDispatched, PlentyOrdersOf
<1>6. CASE DeadlockVictim(s)
  BY <1>1, <1>6 DEF DeadlockVictim
<1>7. CASE Crash(s)
  BY <1>1, <1>7 DEF Crash
<1>. QED
  BY <1>2, <1>3, <1>4, <1>5, <1>6, <1>7 DEF EndFlush

\* The retry endpoint writes NEW, which says nothing; goods leave only for
\* orders that exist; mappings are outside the invariant.
LEMMA OutsideStep ==
    ASSUME IInv, TypeOK',
           \/ \E r \in Retriers, o \in Orders : RetryOrder(r, o)
           \/ \E id \in PlentyIds : Dispatch(id)
           \/ \E o \in Orders : AddMapping(o)
    PROVE  IInv'
<1>0. TypeOK
  BY DEF IInv
<1>1. ASSUME NEW r \in Retriers, NEW o \in Orders, RetryOrder(r, o)
      PROVE  IInv'
  <2>. DEFINE new == [row[o] EXCEPT !.status = "NEW"]
  <2>1. r \in Sessions /\ r \notin Confirmers /\ row[o] \in Record
    BY <1>0, SessionsAssumption DEF Sessions, TypeOK
  <2>2. ses'[r] = [Idle EXCEPT !.pc = "flush", !.view[o] = new,
                               !.dirty[o] = {"status", "error"}]
    BY <1>0, <1>1, <2>1 DEF RetryOrder, Become, TypeOK
  <2>3. \A t \in Sessions \ {r} : ses'[t] = ses[t]
    BY <1>0, <1>1 DEF RetryOrder, Become, TypeOK
  <2>4. ImportingOne(r)'
    BY <2>2 DEF ImportingOne, Idle
  <2>5. ASSUME Grows, NEW p \in Orders
        PROVE  ObjectTrue(r, p)'
    <3>1. /\ ses'[r].view[p] = IF p = o THEN new ELSE Absent
          /\ ses'[r].dirty[p] = IF p = o THEN {"status", "error"} ELSE {}
          /\ ses'[r].todo = {}
      BY <2>2 DEF Idle
    <3>2. TrueOf(o, row[o])' /\ row' = row
      BY <1>1, <2>5, RowsStay DEF RowsTrue, RetryOrder, db
    <3>3. new.status = "NEW" /\ new.plenty = row[o].plenty
      BY <2>1
    <3>. HIDE DEF new
    <3>. QED
      BY <3>1, <3>2, <3>3 DEF ObjectTrue, TrueOf
  <2>6. Grows => SessionsTrue'
    BY <2>1, <2>3, <2>4, <2>5, SessionsStay
  <2>. QED
    BY <1>1, <2>6, QuietStep DEF RetryOrder, world, db
<1>2. ASSUME NEW id \in PlentyIds, Dispatch(id)
      PROVE  IInv'
  <2>1. SessionsTrue' /\ RowsTrue'
    BY <1>2 DEF Dispatch, IInv, SessionsTrue, RowsTrue, ImportingOne, ObjectTrue,
                TrueOf, db
  <2>. QED
    BY <1>2, <2>1 DEF Dispatch, IInv, TrackedExist, AcceptedOnlyIfCreated,
                      ShippedOnlyIfDispatched, PlentyOrdersOf
<1>3. ASSUME NEW o \in Orders, AddMapping(o)
      PROVE  IInv'
  BY <1>3 DEF AddMapping, IInv, SessionsTrue, RowsTrue, ImportingOne, ObjectTrue,
              TrueOf, TrackedExist, AcceptedOnlyIfCreated, ShippedOnlyIfDispatched,
              PlentyOrdersOf, db
<1>. QED
  BY <1>1, <1>2, <1>3

\* The invariant is inductive: it holds at the start ...
LEMMA InitIInv == Init => IInv
<1>. SUFFICES ASSUME Init
              PROVE  IInv
  OBVIOUS
<1>1. TypeOK
  BY IdleType DEF Init, TypeOK
<1>2. \A s \in Sessions : ses[s] = Idle
  BY DEF Init
<1>3. SessionsTrue
  BY <1>2 DEF SessionsTrue, ImportingOne, ObjectTrue, TrueOf, Idle
<1>4. RowsTrue
  BY DEF Init, RowsTrue, TrueOf
<1>. QED
  BY <1>1, <1>3, <1>4 DEF Init, IInv, TrackedExist, AcceptedOnlyIfCreated,
                          ShippedOnlyIfDispatched

\* ... and every step keeps it.
LEMMA NextIInv == IInv /\ [Next]_vars => IInv'
<1>. SUFFICES ASSUME IInv, [Next]_vars
              PROVE  IInv'
  OBVIOUS
<1>0. TypeOK
  BY DEF IInv
<1>1. ASSUME NEW i \in Importers, Import(i) \/ EanLookupRaises(i) \/ CreateRaises(i)
      PROVE  IInv'
  BY <1>1, ImportType, ImportStep
<1>2. ASSUME NEW c \in Confirmers, Confirm(c) \/ \E o \in Orders : AcceptRaises(c, o)
      PROVE  IInv'
  BY <1>0, <1>2, ConfirmType, ConfirmStep
<1>3. ASSUME NEW s \in Shippers \cup Hooks,
             \/ Ship(s)
             \/ PlentyOrderStatus(s)
             \/ \E o \in Orders :
                   ShipOrder(s, o) \/ ShipRaises(s, o) \/ HookRaises(s, o)
      PROVE  IInv'
  BY <1>0, <1>3, ShipType, ShipStep
<1>4. ASSUME NEW s \in Sessions, EndFlush(s) \/ Crash(s)
      PROVE  IInv'
  BY <1>0, <1>4, EndType, EndStep
<1>5. CASE \/ \E r \in Retriers, o \in Orders : RetryOrder(r, o)
           \/ \E id \in PlentyIds : Dispatch(id)
           \/ \E o \in Orders : AddMapping(o)
  BY <1>0, <1>5, OutsideType, OutsideStep
<1>6. CASE UNCHANGED vars
  BY <1>6 DEF vars, IInv, TypeOK, SessionsTrue, RowsTrue, ImportingOne, ObjectTrue,
              TrueOf, TrackedExist, AcceptedOnlyIfCreated, ShippedOnlyIfDispatched,
              PlentyOrdersOf
<1>. QED
  BY <1>1, <1>2, <1>3, <1>4, <1>5, <1>6 DEF Next, Raises

-----------------------------------------------------------------------------
(* Theorems *)

\* The inductive invariant holds in every reachable state: no session, how
\* stale its objects may be, is about to write what is not true.
THEOREM Inductive == Spec => []IInv
  BY InitIInv, NextIInv, PTL DEF Spec

\* Type correctness.
THEOREM TypeCorrect == Spec => []TypeOK
<1>1. IInv => TypeOK
  BY DEF IInv
<1>. QED
  BY <1>1, Inductive, PTL

\* Every record names an order of PlentyONE created for its own Mirakl order
\* once its status claims one.
THEOREM NamesOwnOrder == Spec => []RecordNamesOwnOrder
<1>1. IInv => RecordNamesOwnOrder
  BY DEF IInv, RowsTrue, TrueOf, RecordNamesOwnOrder
<1>. QED
  BY <1>1, Inductive, PTL

\* The committed status never runs ahead of Mirakl.
THEOREM NeverAhead == Spec => []RecordNeverAhead
<1>1. IInv => RecordNeverAhead
  BY DEF IInv, RowsTrue, TrueOf, RecordNeverAhead
<1>. QED
  BY <1>1, Inductive, PTL

\* Mirakl is told to accept only orders that PlentyONE has.
THEOREM AcceptsCreated == Spec => []AcceptedOnlyIfCreated
<1>1. IInv => AcceptedOnlyIfCreated
  BY DEF IInv
<1>. QED
  BY <1>1, Inductive, PTL

\* Mirakl is told that an order is shipped only when goods of it have left.
THEOREM ShipsDispatched == Spec => []ShippedOnlyIfDispatched
<1>1. IInv => ShippedOnlyIfDispatched
  BY DEF IInv
<1>. QED
  BY <1>1, Inductive, PTL

-----------------------------------------------------------------------------
(* Implementation of OrderPromise *)

Outside == <<mirakl, plenty, tracked, row>>

\* What a step may do to the state the promise speaks of.
LEMMA StepShape ==
    ASSUME IInv, [Next]_vars
    PROVE  \/ UNCHANGED Outside
           \/ \E id \in PlentyIds, o \in Orders :
                 NewPlentyOrder(id, o) /\ UNCHANGED <<mirakl, tracked, row>>
           \/ \E o \in Orders :
                 /\ \/ AcceptedAtMirakl(o) /\ PlentyOrdersOf(o) # {}
                    \/ ShippedAtMirakl(o) /\ PlentyOrdersOf(o) \cap tracked # {}
                 /\ UNCHANGED <<plenty, tracked, row>>
           \/ \E id \in PlentyIds : Dispatch(id)
           \/ UNCHANGED world
<1>0. TypeOK
  BY DEF IInv
<1>1. ASSUME NEW i \in Importers, Import(i) \/ EanLookupRaises(i)
      PROVE  \/ UNCHANGED Outside
             \/ \E id \in PlentyIds, o \in Orders :
                   NewPlentyOrder(id, o) /\ UNCHANGED <<mirakl, tracked, row>>
  <2>1. CASE CreateOrder(i)
    <3>1. ses[i].cur \in Orders
      BY <2>1 DEF CreateOrder, IInv, SessionsTrue, ImportingOne, Sessions
    <3>. QED
      BY <2>1, <3>1 DEF CreateOrder, db
  <2>. QED
    BY <1>1, <2>1 DEF Import, ImportNewOrders, FindOrder, ResolveSkus, MarkError,
                      EanLookupRaises, Outside, world, db
<1>2. ASSUME NEW i \in Importers, CreateRaises(i)
      PROVE  \/ UNCHANGED Outside
             \/ \E id \in PlentyIds, o \in Orders :
                   NewPlentyOrder(id, o) /\ UNCHANGED <<mirakl, tracked, row>>
  <2>1. ses[i].cur \in Orders
    BY <1>2 DEF CreateRaises, IInv, SessionsTrue, ImportingOne, Sessions
  <2>. QED
    BY <1>2, <2>1 DEF CreateRaises, Outside, db
<1>3. ASSUME NEW c \in Confirmers, NEW o \in Orders,
             AcceptOrder(c, o) \/ AcceptRaises(c, o)
      PROVE  /\ UNCHANGED <<plenty, tracked, row>>
             /\ \/ UNCHANGED mirakl
                \/ AcceptedAtMirakl(o) /\ PlentyOrdersOf(o) # {}
  <2>1. c \in Sessions /\ o \in ses[c].todo
    BY <1>3 DEF AcceptOrder, AcceptRaises, Sessions
  <2>2. ObjectTrue(c, o) /\ ses[c].view[o].plenty \in PlentyIds \cup {None}
    BY <2>1, Fields DEF IInv, SessionsTrue
  <2>3. PlentyOrdersOf(o) # {}
    BY <2>1, <2>2 DEF ObjectTrue, TrueOf, PlentyOrdersOf
  <2>. QED
    BY <1>3, <2>3 DEF AcceptOrder, AcceptRaises, db
<1>4. ASSUME NEW s \in Shippers \cup Hooks, NEW o \in Orders,
             ShipOrder(s, o) \/ ShipRaises(s, o) \/ HookRaises(s, o)
      PROVE  /\ UNCHANGED <<plenty, tracked, row>>
             /\ \/ UNCHANGED mirakl
                \/ ShippedAtMirakl(o) /\ PlentyOrdersOf(o) \cap tracked # {}
  <2>1. ObjectTrue(s, o) /\ ses[s].view[o].plenty \in PlentyIds \cup {None}
    BY Fields DEF IInv, SessionsTrue, Sessions
  <2>2. ses[s].view[o].plenty \in tracked => PlentyOrdersOf(o) \cap tracked # {}
    BY <1>0, <2>1, NoneAssumption DEF TypeOK, ObjectTrue, TrueOf, PlentyOrdersOf
  <2>. QED
    BY <1>4, <2>2 DEF ShipOrder, ShipRaises, HookRaises, ShipCallRaises,
                      HasTracking, db
<1>5. ASSUME NEW s \in Sessions, EndFlush(s) \/ Crash(s)
      PROVE  UNCHANGED world
  BY <1>5 DEF EndFlush, FlushOne, FlushConflict, FlushDone, Commit, DeadlockVictim,
              Crash, Rollback, world
<1>6. ASSUME NEW s, NEW found, BeginWith(s, found)
      PROVE  UNCHANGED Outside
  BY <1>6 DEF BeginWith, Outside, world, db
<1>7. ASSUME NEW s, NEW o, NoTrackingYet(s, o) \/ RetryOrder(s, o) \/ AddMapping(o)
      PROVE  UNCHANGED Outside
  BY <1>7 DEF NoTrackingYet, RetryOrder, AddMapping, Outside, world, db
<1>8. CASE UNCHANGED vars
  BY <1>8 DEF vars, Outside
<1>9. CASE \E c \in Confirmers : Confirm(c)
  BY <1>3, <1>6, <1>9 DEF Confirm, ConfirmOrders, Outside
<1>10. CASE \E s \in Shippers : Ship(s)
  BY <1>4, <1>6, <1>7, <1>10 DEF Ship, ShipOrders, Outside
<1>11. CASE \E h \in Hooks :
              PlentyOrderStatus(h) \/ \E o \in Orders : ShipOrder(h, o)
  BY <1>4, <1>6, <1>11 DEF PlentyOrderStatus, Outside
<1>12. CASE Raises
  BY <1>1, <1>2, <1>3, <1>4, <1>12 DEF Raises, Outside
<1>. QED
  BY <1>1, <1>5, <1>7, <1>8, <1>9, <1>10, <1>11, <1>12 DEF Next

\* The record of an order claims no more than the stage the order is at.
LEMMA ClaimBelowStage ==
    ASSUME IInv, NEW o \in Orders
    PROVE  /\ Rank(row[o].status) \in 0 .. 3
           /\ Stage(o) \in 0 .. 3
           /\ Rank(row[o].status) <= Stage(o)
<1>1. /\ row[o] \in Record /\ TrueOf(o, row[o])
      /\ mirakl[o] \in MiraklState
  BY DEF IInv, TypeOK, RowsTrue
<1>2. row[o].status \in Claims => PlentyOrdersOf(o) # {}
  BY <1>1 DEF TrueOf, PlentyOrdersOf
<1>. QED
  BY <1>1, <1>2 DEF TrueOf, Stage, Rank

\* A step that moves at most one order, one stage on, is such a step.
LEMMA AdvanceOne ==
    ASSUME NEW o \in Orders, UNCHANGED row,
           \A p \in Orders \ {o} : Stage(p)' = Stage(p),
           \A p \in Orders :
              PlentyOrdersOf(p)' \cap tracked' = PlentyOrdersOf(p) \cap tracked,
           \/ Stage(o)' = Stage(o)
           \/ /\ Stage(o) \in 0 .. 2
              /\ Stage(o)' = Stage(o) + 1
              /\ Stage(o) = 2 => PlentyOrdersOf(o) \cap tracked # {}
    PROVE  Promise!Advance(o) \/ UNCHANGED Promise!vars
<1>1. /\ {p \in Orders : PlentyOrdersOf(p) \cap tracked # {}}'
           = {p \in Orders : PlentyOrdersOf(p) \cap tracked # {}}
      /\ [p \in Orders |-> Rank(row[p].status)]' = [p \in Orders |-> Rank(row[p].status)]
  OBVIOUS
<1>2. CASE Stage(o)' = Stage(o)
  <2>1. \A p \in Orders : Stage(p)' = Stage(p)
    BY <1>2
  <2>2. [p \in Orders |-> Stage(p)]' = [p \in Orders |-> Stage(p)]
    BY <2>1
  <2>. QED
    BY <1>1, <2>2 DEF Promise!vars
<1>3. CASE Stage(o)' # Stage(o)
  <2>1. [p \in Orders |-> Stage(p)]'
          = [[p \in Orders |-> Stage(p)] EXCEPT ![o] = Stage(o) + 1]
    BY <1>3
  <2>. QED
    BY <1>1, <1>3, <2>1 DEF Promise!Advance
<1>. QED
  BY <1>2, <1>3

\* Each step is a step of the promise, or changes nothing it speaks of.
LEMMA PromiseStep ==
    ASSUME IInv, IInv', [Next]_vars
    PROVE  [Promise!Next]_Promise!vars
<1>0. TypeOK /\ TypeOK'
  BY DEF IInv
<1>1. CASE UNCHANGED Outside
  BY <1>1 DEF Outside, Promise!vars, Stage, PlentyOrdersOf
<1>2. ASSUME NEW id \in PlentyIds, NEW o \in Orders, NewPlentyOrder(id, o),
             UNCHANGED <<mirakl, tracked, row>>
      PROVE  Promise!Advance(o) \/ UNCHANGED Promise!vars
  <2>1. plenty[id] = None /\ plenty' = [plenty EXCEPT ![id] = o] /\ o # None
    BY <1>2, NoneAssumption DEF NewPlentyOrder
  <2>2. \A p \in Orders \ {o} : PlentyOrdersOf(p)' = PlentyOrdersOf(p)
    BY <1>0, <2>1, NoneAssumption DEF TypeOK, PlentyOrdersOf
  <2>3. PlentyOrdersOf(o)' = PlentyOrdersOf(o) \cup {id}
    BY <1>0, <2>1 DEF TypeOK, PlentyOrdersOf
  <2>4. id \notin tracked
    BY <2>1 DEF IInv, TrackedExist
  <2>5. \A p \in Orders :
          PlentyOrdersOf(p)' \cap tracked' = PlentyOrdersOf(p) \cap tracked
    BY <1>2, <2>2, <2>3, <2>4
  <2>6. \A p \in Orders \ {o} : Stage(p)' = Stage(p)
    BY <1>2, <2>2 DEF Stage
  <2>7. Stage(o)' = Stage(o) \/ (Stage(o) = 0 /\ Stage(o)' = 1)
    BY <1>2, <2>3 DEF Stage
  <2>. QED
    BY <1>2, <2>5, <2>6, <2>7, AdvanceOne
<1>3. ASSUME NEW o \in Orders,
             \/ AcceptedAtMirakl(o) /\ PlentyOrdersOf(o) # {}
             \/ ShippedAtMirakl(o) /\ PlentyOrdersOf(o) \cap tracked # {},
             UNCHANGED <<plenty, tracked, row>>
      PROVE  Promise!Advance(o) \/ UNCHANGED Promise!vars
  <2>1. \A p \in Orders : PlentyOrdersOf(p)' = PlentyOrdersOf(p)
    BY <1>3 DEF PlentyOrdersOf
  <2>2. \A p \in Orders \ {o} : Stage(p)' = Stage(p)
    BY <1>0, <1>3, <2>1 DEF Stage, AcceptedAtMirakl, ShippedAtMirakl, TypeOK
  <2>3. \/ Stage(o)' = Stage(o)
        \/ Stage(o) = 1 /\ Stage(o)' = 2
        \/ Stage(o) = 2 /\ Stage(o)' = 3 /\ PlentyOrdersOf(o) \cap tracked # {}
    BY <1>0, <1>3, <2>1 DEF Stage, AcceptedAtMirakl, ShippedAtMirakl, TypeOK
  <2>. QED
    BY <1>3, <2>1, <2>2, <2>3, AdvanceOne
<1>4. ASSUME NEW id \in PlentyIds, Dispatch(id)
      PROVE  \E o \in Orders : Promise!Dispatch(o)
  <2>1. plenty[id] \in Orders
    BY <1>0, <1>4 DEF Dispatch, TypeOK
  <2>2. \A p \in Orders : PlentyOrdersOf(p)' = PlentyOrdersOf(p) /\ Stage(p)' = Stage(p)
    BY <1>4 DEF Dispatch, PlentyOrdersOf, Stage
  <2>3. Stage(plenty[id]) > 0
    BY <2>1 DEF Stage, PlentyOrdersOf
  <2>4. {o \in Orders : PlentyOrdersOf(o) \cap tracked # {}}'
          = {o \in Orders : PlentyOrdersOf(o) \cap tracked # {}} \cup {plenty[id]}
    BY <1>4, <2>1 DEF Dispatch, PlentyOrdersOf
  <2>. QED
    BY <1>4, <2>1, <2>2, <2>3, <2>4 DEF Promise!Dispatch, Dispatch, db
<1>5. CASE UNCHANGED world
  <2>1. \A o \in Orders : /\ Stage(o)' = Stage(o)
                          /\ PlentyOrdersOf(o)' \cap tracked' = PlentyOrdersOf(o) \cap tracked
    BY <1>5 DEF world, Stage, PlentyOrdersOf
  <2>2. \A o \in Orders : /\ Rank(row'[o].status) \in 0 .. 3
                          /\ Rank(row'[o].status) <= Stage(o)
    <3>1. ASSUME NEW o \in Orders
          PROVE  (Rank(row[o].status) \in 0 .. 3 /\ Rank(row[o].status) <= Stage(o))'
      BY <3>1, ClaimBelowStage, PTL
    <3>. QED
      BY <2>1, <3>1
  <2>. QED
    BY <2>1, <2>2 DEF Promise!Next, Promise!WriteRecords, Promise!Stages
<1>. QED
  BY <1>1, <1>2, <1>3, <1>4, <1>5, StepShape DEF Promise!Next

\* The connector implements OrderPromise: an order is created, accepted,
\* dispatched and shipped in this order, and its record never runs ahead.
THEOREM Refinement == Spec => KeepsPromise
<1>1. Init => Promise!Init
  BY NoneAssumption DEF Init, Promise!Init, Stage, PlentyOrdersOf, Rank
<1>2. IInv /\ IInv' /\ [Next]_vars => [Promise!Next]_Promise!vars
  BY PromiseStep
<1>. QED
  BY <1>1, <1>2, Inductive, PTL DEF Spec, KeepsPromise, Promise!Spec

=============================================================================
