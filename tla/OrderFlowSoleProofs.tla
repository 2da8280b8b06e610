------------------------ MODULE OrderFlowSoleProofs -------------------------
(***************************************************************************)
(* Proofs about OrderFlow when runs of one task do not overlap and nobody  *)
(* retries by hand: PlentyONE gets a second order only through a fault,    *)
(* and, without webhooks, the committed status never moves backwards.      *)
(*                                                                         *)
(* The argument: the importer works on records without a PlentyONE id, all *)
(* other sessions on records with one, so neither changes a record under   *)
(* the other and the importer never waits for a lock.  Then the only way   *)
(* to lose the id of a created order is a fault, which is counted.         *)
(***************************************************************************)
EXTENDS OrderFlowProofs, FiniteSetTheorems

\* One run of import_new_orders at a time and no request to the retry endpoint.
OneImport == (\A i, j \in Importers : i = j) /\ Retriers = {}

\* A session has to do with an order: it is to come, or changed in memory.
InWork(s, o) == ses[s].dirty[o] # {} \/ o \in ses[s].todo

\* An object that a session other than the importer works on claims an order.
Follows(s, o) ==
    /\ ses[s].dirty[o] \subseteq {"status", "error"}
    /\ InWork(s, o) => ses[s].view[o].status \in Claims

\* The importer has in memory what is committed, and works on orders without
\* a PlentyONE order on record.
Leads(i, o) ==
    /\ ses[i].dirty[o] # {} => row[o].plenty = None
    /\ "insert" \in ses[i].dirty[o] => row[o] = Absent
    /\ "plenty" \in ses[i].dirty[o] =>
          "status" \in ses[i].dirty[o] /\ ses[i].view[o].status = "IMPORTED"
    /\ ses[i].pc \in {"resolve", "create", "mark"} /\ ses[i].cur = o =>
          /\ row[o].plenty = None
          /\ ses[i].view[o] = row[o]
          /\ ses[i].dirty[o] = {}

\* A webhook request deals with one order, which it has not changed before.
OneOrder(s) ==
    /\ \A o, p \in ses[s].todo : o = p
    /\ ses[s].todo # {} => \A o \in Orders : ses[s].dirty[o] = {}

SoleSession(s) ==
    /\ ses[s].pc = "idle" => ses[s] = Idle
    /\ \A o \in Orders :
          /\ lock[o] = s => ses[s].dirty[o] # {}
          /\ s \in Importers => Leads(s, o)
          /\ s \notin Importers => Follows(s, o)
    /\ s \in Hooks => OneOrder(s)

\* The converse of what RowsTrue has.
RowsWhole == \A o \in Orders : row[o].plenty # None => row[o].status \in Claims

\* A record names the order, or the importer is going to write that it does.
Recording(o) == \E i \in Importers : "plenty" \in ses[i].dirty[o]

Known(o) == row[o].plenty # None \/ Recording(o)

SurplusTrue ==
    \A o \in Orders :
        /\ IsFiniteSet(PlentyOrdersOf(o))
        /\ Cardinality(PlentyOrdersOf(o)) <= faults + (IF Known(o) THEN 1 ELSE 0)

SessionsSole == \A s \in Sessions : SoleSession(s)

SInv == RowsWhole /\ SessionsSole /\ SurplusTrue

\* Nor does a second run of confirm_orders overlap, and there are no webhooks.
OneConfirm == OneImport /\ (\A c, d \in Confirmers : c = d) /\ Hooks = {}

\* What a session works on has not left the status the session found it in,
\* or has been shipped by another run of ship_orders.
ForwardIn(s, o) ==
    /\ s \in Confirmers /\ InWork(s, o) => row[o].status = "IMPORTED"
    /\ s \in Shippers =>
          /\ InWork(s, o) => row[o].status \in {"CONFIRMED", "SHIPPED"}
          /\ "status" \in ses[s].dirty[o] => ses[s].view[o].status = "SHIPPED"

Forward == \A s \in Sessions, o \in Orders : ForwardIn(s, o)

USE DEF Claims, Record, Absent, Column, Status, MiraklState

-----------------------------------------------------------------------------
(* Steps of one session *)

\* A step of s that writes no record only has to keep s itself sole.
LEMMA SoleStep ==
    ASSUME SInv, NEW s \in Sessions, UNCHANGED row,
           \A t \in Sessions \ {s} : ses'[t] = ses[t],
           \A o \in Orders : lock'[o] \in {lock[o], s, None},
           SoleSession(s)'
    PROVE  RowsWhole' /\ SessionsSole'
<1>1. ASSUME NEW t \in Sessions \ {s}
      PROVE  SoleSession(t)'
  <2>1. SoleSession(t) /\ ses'[t] = ses[t] /\ t # None
    BY NoneAssumption DEF SInv, SessionsSole
  <2>. QED
    BY <2>1 DEF SoleSession, Leads, Follows, OneOrder, InWork
<1>. QED
  BY <1>1 DEF SInv, RowsWhole, SessionsSole

\* What PlentyONE holds is bounded again, if an order more is known or paid
\* for by a fault, and one known before is known still or paid for.
LEMMA SurplusStep ==
    ASSUME TypeOK, TypeOK', SurplusTrue, faults' >= faults,
           \A o \in Orders :
              \/ /\ PlentyOrdersOf(o)' = PlentyOrdersOf(o)
                 /\ faults' = faults + 1 \/ (Known(o) => Known(o)')
              \/ /\ \E id : PlentyOrdersOf(o)' = PlentyOrdersOf(o) \cup {id}
                 /\ \/ faults' = faults + 1 /\ (Known(o) => Known(o)')
                    \/ ~Known(o) /\ Known(o)'
    PROVE  SurplusTrue'
<1>1. SUFFICES ASSUME NEW o \in Orders
               PROVE  /\ IsFiniteSet(PlentyOrdersOf(o)')
                      /\ Cardinality(PlentyOrdersOf(o)')
                            <= faults' + (IF Known(o)' THEN 1 ELSE 0)
  BY DEF SurplusTrue
<1>2. /\ IsFiniteSet(PlentyOrdersOf(o))
      /\ Cardinality(PlentyOrdersOf(o)) <= faults + (IF Known(o) THEN 1 ELSE 0)
      /\ Cardinality(PlentyOrdersOf(o)) \in Nat
      /\ faults \in Nat /\ faults' \in Nat
  BY FS_CardinalityType DEF SurplusTrue, TypeOK
<1>3. ASSUME NEW id
      PROVE  /\ IsFiniteSet(PlentyOrdersOf(o) \cup {id})
             /\ Cardinality(PlentyOrdersOf(o) \cup {id}) \in Nat
             /\ Cardinality(PlentyOrdersOf(o) \cup {id})
                   <= Cardinality(PlentyOrdersOf(o)) + 1
  <2>1. PICK S : S = PlentyOrdersOf(o)
    OBVIOUS
  <2>2. /\ IsFiniteSet(S \cup {id})
        /\ Cardinality(S \cup {id}) = IF id \in S THEN Cardinality(S) ELSE Cardinality(S) + 1
    BY <1>2, <2>1, FS_AddElement
  <2>. QED
    BY <1>2, <2>1, <2>2
<1>4. CASE PlentyOrdersOf(o)' = PlentyOrdersOf(o)
  BY <1>2, <1>4
<1>5. CASE PlentyOrdersOf(o)' # PlentyOrdersOf(o)
  <2>1. PICK id : PlentyOrdersOf(o)' = PlentyOrdersOf(o) \cup {id}
    BY <1>5
  <2>2. \/ faults' = faults + 1 /\ (Known(o) => Known(o)')
        \/ ~Known(o) /\ Known(o)'
    BY <1>5
  <2>. QED
    BY <1>2, <1>3, <2>1, <2>2
<1>. QED
  BY <1>4, <1>5

\* A step of s that keeps its changes in memory and creates nothing.
LEMMA KeepsSurplus ==
    ASSUME TypeOK, TypeOK', SurplusTrue, NEW s \in Sessions, UNCHANGED <<plenty, row>>,
           \A t \in Sessions \ {s} : ses'[t] = ses[t],
           s \in Importers => \A o \in Orders : ses[s].dirty[o] \subseteq ses'[s].dirty[o],
           faults' = faults \/ Fault
    PROVE  SurplusTrue'
<1>1. \A o \in Orders : PlentyOrdersOf(o)' = PlentyOrdersOf(o)
  BY DEF PlentyOrdersOf
<1>2. \A o \in Orders : Known(o) => Known(o)'
  BY DEF Known, Recording, Sessions
<1>3. faults' >= faults
  BY DEF Fault, TypeOK
<1>. QED
  BY <1>1, <1>2, <1>3, SurplusStep

\* The step of the importer that creates an order in PlentyONE.
LEMMA CreatedOrders ==
    ASSUME TypeOK, NEW id \in PlentyIds, NEW o \in Orders, NewPlentyOrder(id, o)
    PROVE  /\ PlentyOrdersOf(o)' = PlentyOrdersOf(o) \cup {id}
           /\ \A p \in Orders \ {o} : PlentyOrdersOf(p)' = PlentyOrdersOf(p)
BY NoneAssumption DEF NewPlentyOrder, PlentyOrdersOf, TypeOK

\* A session that ends holds nothing.
LEMMA EndsSole ==
    ASSUME TypeOK, SInv, NEW s \in Sessions, Become(s, Idle), UNCHANGED row,
           \/ Release(s)
           \/ UNCHANGED lock /\ \A o \in Orders : ses[s].dirty[o] = {}
    PROVE  RowsWhole' /\ SessionsSole'
<1>1. ses'[s] = Idle /\ \A t \in Sessions \ {s} : ses'[t] = ses[t]
  BY IdleType, BecomeType
<1>2. \A o \in Orders : lock'[o] # s /\ lock'[o] \in {lock[o], None}
  <2>1. s # None /\ SoleSession(s)
    BY NoneAssumption DEF SInv, SessionsSole
  <2>. QED
    BY <2>1 DEF Release, SoleSession
<1>3. SoleSession(s)'
  BY <1>1, <1>2 DEF SoleSession, Leads, Follows, OneOrder, InWork, Idle
<1>. QED
  BY <1>1, <1>2, <1>3, SoleStep

-----------------------------------------------------------------------------
(* The importer *)

\* The importer goes on with the objects it has.
LEMMA LeadsOn ==
    ASSUME TypeOK, SInv, NEW i \in Importers, NEW r \in Session, Become(i, r),
           r.pc # "idle", r.view = ses[i].view, r.dirty = ses[i].dirty,
           r.pc \in {"resolve", "create", "mark"} =>
              ses[i].pc \in {"resolve", "create", "mark"} /\ r.cur = ses[i].cur,
           UNCHANGED db
    PROVE  RowsWhole' /\ SessionsSole' /\ \A o \in Orders : ses'[i].dirty[o] = ses[i].dirty[o]
<1>1. i \in Sessions /\ i \notin Hooks
  BY SessionsAssumption DEF Sessions
<1>2. ses'[i] = r /\ \A t \in Sessions \ {i} : ses'[t] = ses[t]
  BY <1>1, BecomeType
<1>3. SoleSession(i)'
  <2>1. SoleSession(i)
    BY <1>1 DEF SInv, SessionsSole
  <2>. QED
    BY <1>1, <1>2, <2>1 DEF SoleSession, Leads, db
<1>. QED
  BY <1>1, <1>2, <1>3, SoleStep DEF db

\* The importer assigns to its object of the order in hand.
LEMMA LeadsAssign ==
    ASSUME TypeOK, SInv, NEW i \in Importers, NEW o \in Orders,
           ses[i].pc \in {"create", "mark"}, ses[i].cur = o,
           NEW status \in Status, NEW id \in PlentyIds \cup {None},
           NEW columns \in SUBSET Column, columns # {},
           "insert" \in columns => row[o] = Absent,
           "plenty" \in columns => "status" \in columns /\ status = "IMPORTED",
           Become(i, Assign(i, o, status, id, columns, "flush")),
           UNCHANGED db
    PROVE  /\ RowsWhole' /\ SessionsSole'
           /\ ses'[i].dirty[o] = columns
           /\ \A p \in Orders \ {o} : ses'[i].dirty[p] = ses[i].dirty[p]
           /\ row[o].plenty = None /\ ses[i].dirty[o] = {}
<1>1. i \in Sessions /\ i \notin Hooks
  BY SessionsAssumption DEF Sessions
<1>2. PICK r \in Session : /\ r = Assign(i, o, status, id, columns, "flush")
                           /\ r.pc = "flush"
                           /\ r.view = [ses[i].view EXCEPT
                                           ![o] = [status |-> status, plenty |-> id]]
                           /\ r.dirty = [ses[i].dirty EXCEPT ![o] = @ \cup columns]
  <2>0. 0 \in 0 .. MaxAttempts
    BY BoundsAssumption
  <2>1. Assign(i, o, status, id, columns, "flush") \in Session
    <3>1. /\ ses[i].todo \in SUBSET Orders
          /\ ses[i].view \in [Orders -> Record]
          /\ ses[i].dirty \in [Orders -> SUBSET Column]
      BY <1>1, Fields
    <3>. QED
      BY <2>0, <3>1 DEF Assign, Session
  <2>2. PICK r \in Session : r = Assign(i, o, status, id, columns, "flush")
    BY <2>1
  <2>. QED
    BY <2>2 DEF Assign
<1>3. ses'[i] = r /\ \A t \in Sessions \ {i} : ses'[t] = ses[t]
  BY <1>1, <1>2, BecomeType
<1>4. SoleSession(i) /\ row[o].plenty = None /\ ses[i].dirty[o] = {}
  BY <1>1 DEF SInv, SessionsSole, SoleSession, Leads
<1>5. /\ r.view[o] = [status |-> status, plenty |-> id] /\ r.dirty[o] = columns
      /\ \A p \in Orders \ {o} : r.view[p] = ses[i].view[p] /\ r.dirty[p] = ses[i].dirty[p]
  BY <1>1, <1>2, <1>4, Fields
<1>6. \A p \in Orders : Leads(i, p)'
  <2>1. TAKE p \in Orders
  <2>2. CASE p = o
    BY <1>2, <1>3, <1>4, <1>5, <2>2 DEF Leads, db
  <2>3. CASE p # o
    BY <1>1, <1>2, <1>3, <1>4, <1>5, <2>3 DEF SoleSession, Leads, db
  <2>. QED
    BY <2>2, <2>3
<1>7. SoleSession(i)'
  BY <1>1, <1>2, <1>3, <1>4, <1>5, <1>6 DEF SoleSession, db
<1>. QED
  BY <1>1, <1>3, <1>4, <1>5, <1>7, SoleStep DEF db

\* import_new_orders, with one importer at a time.
LEMMA ImportSole ==
    ASSUME IInv, TypeOK', SInv, OneImport, NEW i \in Importers,
           Import(i) \/ EanLookupRaises(i) \/ CreateRaises(i)
    PROVE  SInv'
<1>0. TypeOK /\ i \in Sessions /\ i \notin Hooks /\ ImportingOne(i)
  BY SessionsAssumption DEF Sessions, IInv, SessionsTrue
<1>s. SoleSession(i) /\ \A o \in Orders : ObjectTrue(i, o)
  BY <1>0 DEF SInv, SessionsSole, IInv, SessionsTrue
<1>f. /\ ses[i] \in Session
      /\ ses[i].todo \in SUBSET Orders
      /\ ses[i].view \in [Orders -> Record]
      /\ ses[i].dirty \in [Orders -> SUBSET Column]
      /\ ses[i].tries \in 0 .. MaxAttempts
  BY <1>0, Fields
<1>k. ASSUME RowsWhole', SessionsSole', UNCHANGED <<plenty, row>>,
             \A t \in Sessions \ {i} : ses'[t] = ses[t],
             \A o \in Orders : ses[i].dirty[o] \subseteq ses'[i].dirty[o],
             faults' = faults \/ Fault
      PROVE  SInv'
  BY <1>0, <1>k, KeepsSurplus DEF SInv
<1>b. ASSUME NEW r \in Session, Become(i, r)
      PROVE  ses'[i] = r /\ \A t \in Sessions \ {i} : ses'[t] = ses[t]
  BY <1>0, <1>b, BecomeType
<1>1. CASE ImportNewOrders(i)
  <2>1. PICK page \in SUBSET Orders :
          Become(i, [Idle EXCEPT !.pc = "next", !.todo = page])
    BY <1>1 DEF ImportNewOrders, Waiting
  <2>2. PICK r \in Session : r = [Idle EXCEPT !.pc = "next", !.todo = page]
    BY IdleType DEF Session
  <2>3. ses[i] = Idle
    BY <1>1, <1>s DEF ImportNewOrders, SoleSession
  <2>4. r.pc = "next" /\ r.view = ses[i].view /\ r.dirty = ses[i].dirty
    BY <2>2, <2>3 DEF Idle
  <2>5. RowsWhole' /\ SessionsSole' /\ \A o \in Orders : ses'[i].dirty[o] = ses[i].dirty[o]
    BY <1>0, <1>1, <2>1, <2>2, <2>4, LeadsOn DEF ImportNewOrders
  <2>. QED
    BY <1>1, <1>b, <1>k, <2>1, <2>2, <2>5 DEF ImportNewOrders, world, db
<1>2. ASSUME NEW o \in Orders, FindOrder(i, o)
      PROVE  SInv'
  <2>. DEFINE rest == ses[i].todo \ {o}
  <2>1. CASE Importable(row[o])
    <3>1. PICK r \in Session : r = [ses[i] EXCEPT !.pc = "resolve", !.cur = o,
                                                  !.todo = rest, !.view[o] = row[o]]
      BY <1>0, <1>f DEF Session, TypeOK
    <3>2. ses'[i] = r /\ \A t \in Sessions \ {i} : ses'[t] = ses[t]
      BY <1>2, <1>b, <2>1, <3>1 DEF FindOrder
    <3>3. /\ r.pc = "resolve" /\ r.cur = o /\ r.dirty = ses[i].dirty
          /\ r.view[o] = row[o]
          /\ \A p \in Orders \ {o} : r.view[p] = ses[i].view[p]
      BY <1>f, <3>1 DEF Session
    <3>4. row[o].plenty = None /\ ses[i].dirty[o] = {}
      <4>1. row[o].status \notin Claims
        BY <2>1 DEF Importable
      <4>. QED
        BY <1>2, <1>s, <4>1 DEF FindOrder, SInv, RowsWhole, ObjectTrue
    <3>5. \A p \in Orders : Leads(i, p)'
      BY <1>2, <1>s, <3>2, <3>3, <3>4 DEF SoleSession, Leads, FindOrder, db
    <3>6. SoleSession(i)'
      BY <1>0, <1>2, <1>s, <3>2, <3>3, <3>5 DEF SoleSession, FindOrder, db
    <3>7. RowsWhole' /\ SessionsSole'
      BY <1>0, <1>2, <3>2, <3>6, SoleStep DEF FindOrder, db
    <3>. QED
      BY <1>2, <1>k, <3>2, <3>3, <3>7 DEF FindOrder, world, db
  <2>2. CASE ~Importable(row[o])
    <3>1. PICK r \in Session : r = [ses[i] EXCEPT !.pc = Continue(rest), !.todo = rest]
      BY <1>f DEF Session, Continue
    <3>2. /\ r.pc \in {"next", "flush"} /\ r.view = ses[i].view /\ r.dirty = ses[i].dirty
      BY <1>f, <3>1 DEF Session, Continue
    <3>3. Become(i, r)
      BY <1>2, <2>2, <3>1 DEF FindOrder
    <3>4. RowsWhole' /\ SessionsSole' /\ \A p \in Orders : ses'[i].dirty[p] = ses[i].dirty[p]
      BY <1>0, <1>2, <3>2, <3>3, LeadsOn DEF FindOrder
    <3>. QED
      BY <1>2, <1>b, <1>k, <3>3, <3>4 DEF FindOrder, world, db
  <2>. QED
    BY <2>1, <2>2
<1>3. CASE ResolveSkus(i)
  <2>1. PICK pc \in {"create", "mark"} : Become(i, [ses[i] EXCEPT !.pc = pc])
    BY <1>3 DEF ResolveSkus, ToMark
  <2>2. PICK r \in Session : r = [ses[i] EXCEPT !.pc = pc]
    BY <1>f DEF Session
  <2>3. /\ r.pc = pc /\ r.view = ses[i].view /\ r.dirty = ses[i].dirty
        /\ r.cur = ses[i].cur
    BY <1>f, <2>2 DEF Session
  <2>4. ses[i].pc = "resolve"
    BY <1>3 DEF ResolveSkus
  <2>5. RowsWhole' /\ SessionsSole' /\ \A p \in Orders : ses'[i].dirty[p] = ses[i].dirty[p]
    BY <1>0, <1>3, <2>1, <2>2, <2>3, <2>4, LeadsOn DEF ResolveSkus
  <2>. QED
    BY <1>3, <1>b, <1>k, <2>1, <2>2, <2>5 DEF ResolveSkus, world, db
<1>4. CASE CreateOrder(i)
  <2>0. ses[i].cur \in Orders /\ ses[i].pc = "create"
    BY <1>0, <1>4 DEF CreateOrder, ImportingOne
  <2>1. PICK o \in Orders : o = ses[i].cur
    BY <2>0
  <2>c. PICK columns \in SUBSET Column :
           columns = {"status", "plenty"} \cup InsertIfAbsent(ses[i].view[o])
    BY DEF InsertIfAbsent
  <2>2. PICK id \in PlentyIds :
          /\ NewPlentyOrder(id, o)
          /\ Become(i, Assign(i, o, "IMPORTED", id, columns, "flush"))
    BY <1>4, <2>1, <2>c DEF CreateOrder
  <2>3. /\ columns \in SUBSET Column /\ columns # {} /\ "status" \in columns
        /\ "plenty" \in columns /\ ("insert" \in columns => row[o] = Absent)
    BY <1>s, <2>0, <2>1, <2>c DEF InsertIfAbsent, SoleSession, Leads
  <2>4. /\ RowsWhole' /\ SessionsSole'
        /\ "plenty" \in ses'[i].dirty[o]
        /\ \A p \in Orders \ {o} : ses'[i].dirty[p] = ses[i].dirty[p]
        /\ row[o].plenty = None /\ ses[i].dirty[o] = {}
    <3>1. UNCHANGED db /\ "IMPORTED" \in Status /\ id \in PlentyIds \cup {None}
      BY <1>4 DEF CreateOrder
    <3>2. /\ RowsWhole' /\ SessionsSole'
          /\ ses'[i].dirty[o] = columns
          /\ \A p \in Orders \ {o} : ses'[i].dirty[p] = ses[i].dirty[p]
          /\ row[o].plenty = None /\ ses[i].dirty[o] = {}
      BY <1>0, <2>0, <2>1, <2>2, <2>3, <3>1, LeadsAssign, SMTT(30)
    <3>. QED
      BY <2>3, <3>2
  <2>5. \A t \in Sessions \ {i} : ses'[t] = ses[t]
    BY <1>0, <2>2 DEF Become, TypeOK
  <2>6. row' = row /\ faults' = faults
    BY <1>4 DEF CreateOrder, db
  <2>7. ~Known(o) /\ Known(o)'
    BY <2>4 DEF Known, Recording, OneImport
  <2>8. \A p \in Orders \ {o} : Known(p) => Known(p)'
    BY <2>4, <2>6 DEF Known, Recording, OneImport
  <2>9. SurplusTrue'
    <3>1. /\ PlentyOrdersOf(o)' = PlentyOrdersOf(o) \cup {id}
          /\ \A p \in Orders \ {o} : PlentyOrdersOf(p)' = PlentyOrdersOf(p)
      BY <1>0, <2>1, <2>2, CreatedOrders
    <3>2. faults' >= faults
      BY <1>0, <2>6 DEF TypeOK
    <3>3. \A p \in Orders :
              \/ /\ PlentyOrdersOf(p)' = PlentyOrdersOf(p)
                 /\ faults' = faults + 1 \/ (Known(p) => Known(p)')
              \/ /\ \E j : PlentyOrdersOf(p)' = PlentyOrdersOf(p) \cup {j}
                 /\ \/ faults' = faults + 1 /\ (Known(p) => Known(p)')
                    \/ ~Known(p) /\ Known(p)'
      BY <2>7, <2>8, <3>1
    <3>. QED
      BY <1>0, <3>2, <3>3, SurplusStep DEF SInv
  <2>. QED
    BY <2>4, <2>9 DEF SInv
<1>5. CASE MarkError(i)
  <2>. DEFINE o == ses[i].cur
              found == IF ses[i].view[o] = Absent THEN row[o] ELSE ses[i].view[o]
              changed == IF found.status = "ERROR" THEN {} ELSE {"status"}
              columns == {"error"} \cup changed \cup InsertIfAbsent(found)
  <2>1. o \in Orders /\ ses[i].pc = "mark"
    BY <1>0, <1>5 DEF MarkError, ImportingOne
  <2>2. row[o] = ses[i].view[o]
    BY <1>s, <2>1 DEF SoleSession, Leads
  <2>3. /\ columns \in SUBSET Column /\ columns # {}
        /\ "plenty" \notin columns /\ ("insert" \in columns => row[o] = Absent)
    BY <2>2 DEF InsertIfAbsent
  <2>4. found.plenty \in PlentyIds \cup {None}
    <3>1. row[o] \in Record
      BY <1>0, <2>1 DEF TypeOK
    <3>. QED
      BY <2>2, <3>1
  <2>5. Become(i, Assign(i, o, "ERROR", found.plenty, columns, "flush"))
    BY <1>5 DEF MarkError
  <2>6. /\ RowsWhole' /\ SessionsSole'
        /\ ses'[i].dirty[o] = columns
        /\ \A p \in Orders \ {o} : ses'[i].dirty[p] = ses[i].dirty[p]
        /\ row[o].plenty = None /\ ses[i].dirty[o] = {}
    <3>. HIDE DEF columns, found
    <3>. QED
      BY <1>0, <1>5, <2>1, <2>3, <2>4, <2>5, LeadsAssign DEF MarkError
  <2>7. \A t \in Sessions \ {i} : ses'[t] = ses[t]
    BY <1>0, <2>5 DEF Become, TypeOK
  <2>8. \A p \in Orders : ses[i].dirty[p] \subseteq ses'[i].dirty[p]
    <3>. HIDE DEF columns, o
    <3>. QED
      BY <2>6
  <2>. QED
    BY <1>5, <1>k, <2>6, <2>7, <2>8 DEF MarkError, world, db
<1>6. CASE EanLookupRaises(i)
  <2>1. PICK r \in Session : r = [ses[i] EXCEPT !.pc = "flush", !.todo = {}, !.cur = None]
    BY <1>f DEF Session
  <2>2. r.pc = "flush" /\ r.view = ses[i].view /\ r.dirty = ses[i].dirty
    BY <1>f, <2>1 DEF Session
  <2>3. Become(i, r)
    BY <1>6, <2>1 DEF EanLookupRaises
  <2>4. RowsWhole' /\ SessionsSole' /\ \A p \in Orders : ses'[i].dirty[p] = ses[i].dirty[p]
    BY <1>0, <1>6, <2>2, <2>3, LeadsOn DEF EanLookupRaises
  <2>. QED
    BY <1>6, <1>b, <1>k, <2>3, <2>4 DEF EanLookupRaises, world, db
<1>7. CASE CreateRaises(i)
  <2>1. ses[i].cur \in Orders /\ ses[i].pc = "create"
    BY <1>0, <1>7 DEF CreateRaises, ImportingOne
  <2>2. PICK r \in Session : /\ Become(i, r)
                             /\ r.pc \in {"create", "mark"} /\ r.cur = ses[i].cur
                             /\ r.view = ses[i].view /\ r.dirty = ses[i].dirty
    <3>1. CASE Become(i, [ses[i] EXCEPT !.tries = @ + 1]) /\ ses[i].tries + 1 < MaxAttempts
      <4>1. PICK r \in Session : r = [ses[i] EXCEPT !.tries = @ + 1]
        BY <1>f, <3>1, BoundsAssumption DEF Session
      <4>. QED
        BY <1>f, <2>1, <3>1, <4>1 DEF Session
    <3>2. CASE ToMark(i)
      <4>1. PICK r \in Session : r = [ses[i] EXCEPT !.pc = "mark"]
        BY <1>f DEF Session
      <4>. QED
        BY <1>f, <3>2, <4>1 DEF Session, ToMark
    <3>. QED
      BY <1>7, <3>1, <3>2 DEF CreateRaises
  <2>3. RowsWhole' /\ SessionsSole' /\ \A p \in Orders : ses'[i].dirty[p] = ses[i].dirty[p]
    BY <1>0, <1>7, <2>1, <2>2, LeadsOn DEF CreateRaises
  <2>4. \A t \in Sessions \ {i} : ses'[t] = ses[t]
    BY <1>b, <2>2
  <2>5. row' = row /\ faults' = faults + 1 /\ faults' >= faults
    BY <1>0, <1>7 DEF CreateRaises, db, Fault, TypeOK
  <2>6. \A p \in Orders : Known(p) => Known(p)'
    BY <2>3, <2>5 DEF Known, Recording, OneImport
  <2>7. \A p \in Orders : \/ PlentyOrdersOf(p)' = PlentyOrdersOf(p)
                          \/ \E id : PlentyOrdersOf(p)' = PlentyOrdersOf(p) \cup {id}
    <3>1. CASE UNCHANGED plenty
      BY <3>1 DEF PlentyOrdersOf
    <3>2. ASSUME NEW id \in PlentyIds, NewPlentyOrder(id, ses[i].cur)
          PROVE  \A p \in Orders :
                    \/ PlentyOrdersOf(p)' = PlentyOrdersOf(p)
                    \/ PlentyOrdersOf(p)' = PlentyOrdersOf(p) \cup {id}
      BY <1>0, <2>1, <3>2, CreatedOrders
    <3>. QED
      BY <1>7, <3>1, <3>2 DEF CreateRaises
  <2>8. SurplusTrue'
    BY <1>0, <2>5, <2>6, <2>7, SurplusStep DEF SInv
  <2>. QED
    BY <2>3, <2>8 DEF SInv
<1>. QED
  BY <1>1, <1>2, <1>3, <1>4, <1>5, <1>6, <1>7 DEF Import

-----------------------------------------------------------------------------
(* The other sessions *)

\* Records loaded for the other tasks claim an order.
LEMMA FollowsBegin ==
    ASSUME IInv, TypeOK', SInv, NEW s \in Sessions \ Importers,
           NEW found \in SUBSET Orders, BeginWith(s, found),
           \A o \in found : row[o].status \in Claims,
           s \in Hooks => \A o, p \in found : o = p
    PROVE  SInv'
<1>0. TypeOK
  BY DEF IInv
<1>1. PICK r \in Session :
        r = [Idle EXCEPT !.pc = "next", !.todo = found, !.view = Load(found)]
  <2>1. Load(found) \in [Orders -> Record]
    BY <1>0 DEF Load, TypeOK
  <2>. QED
    BY <2>1, IdleType DEF Session
<1>2. ses'[s] = r /\ \A t \in Sessions \ {s} : ses'[t] = ses[t]
  BY <1>0, <1>1, BecomeType DEF BeginWith
<1>3. /\ r.pc = "next" /\ r.todo = found
      /\ \A o \in Orders : r.dirty[o] = {}
      /\ \A o \in found : r.view[o] = row[o]
  BY <1>1 DEF Idle, Load
<1>4. \A o \in Orders : lock[o] # s
  <2>1. SoleSession(s) /\ ses[s].pc = "idle"
    BY DEF SInv, SessionsSole, BeginWith
  <2>. QED
    BY <2>1 DEF SoleSession, Idle
<1>5. SoleSession(s)'
  BY <1>2, <1>3, <1>4 DEF SoleSession, Follows, OneOrder, InWork, BeginWith, db
<1>6. RowsWhole' /\ SessionsSole'
  BY <1>2, <1>5, SoleStep DEF BeginWith, db
<1>. QED
  BY <1>0, <1>2, <1>6, KeepsSurplus DEF SInv, BeginWith, world, db

\* After a call to Mirakl the object still claims an order.
LEMMA FollowsAssign ==
    ASSUME IInv, TypeOK', SInv, NEW s \in Sessions \ Importers, NEW o \in Orders,
           o \in ses[s].todo, NEW status \in Claims,
           NEW columns \in SUBSET {"status", "error"}, NEW pc \in {"next", "flush"},
           Become(s, Assign(s, o, status, ses[s].view[o].plenty, columns, pc)),
           UNCHANGED <<plenty, row, lock>>, faults' = faults \/ Fault
    PROVE  SInv'
<1>0. TypeOK /\ SoleSession(s)
  BY DEF IInv, SInv, SessionsSole
<1>1. PICK id \in PlentyIds \cup {None} : id = ses[s].view[o].plenty
  BY <1>0, Fields
<1>f. /\ ses[s].todo \in SUBSET Orders
      /\ ses[s].view \in [Orders -> Record]
      /\ ses[s].dirty \in [Orders -> SUBSET Column]
  BY <1>0, Fields
<1>2. PICK r \in Session : /\ r = Assign(s, o, status, id, columns, pc)
                           /\ r.pc = pc /\ r.todo = ses[s].todo \ {o}
                           /\ r.view = [ses[s].view EXCEPT
                                           ![o] = [status |-> status, plenty |-> id]]
                           /\ r.dirty = [ses[s].dirty EXCEPT ![o] = @ \cup columns]
  <2>1. 0 \in 0 .. MaxAttempts
    BY BoundsAssumption
  <2>2. Assign(s, o, status, id, columns, pc) \in Session
    BY <1>f, <2>1 DEF Assign, Session
  <2>3. PICK r \in Session : r = Assign(s, o, status, id, columns, pc)
    BY <2>2
  <2>. QED
    BY <2>3 DEF Assign
<1>3. ses'[s] = r /\ \A t \in Sessions \ {s} : ses'[t] = ses[t]
  BY <1>0, <1>1, <1>2, BecomeType
<1>4. /\ r.view[o].status = status /\ r.dirty[o] = ses[s].dirty[o] \cup columns
      /\ \A p \in Orders \ {o} : r.view[p] = ses[s].view[p] /\ r.dirty[p] = ses[s].dirty[p]
  BY <1>f, <1>2
<1>5. SoleSession(s)'
  <2>1. \A p \in Orders : Follows(s, p)' /\ (lock'[p] = s => ses'[s].dirty[p] # {})
    <3>1. TAKE p \in Orders
    <3>2. Follows(s, p) /\ (lock[p] = s => ses[s].dirty[p] # {})
      BY <1>0 DEF SoleSession
    <3>3. CASE p = o
      BY <1>2, <1>3, <1>4, <3>2, <3>3 DEF Follows, InWork
    <3>4. CASE p # o
      BY <1>2, <1>3, <1>4, <3>2, <3>4 DEF Follows, InWork
    <3>. QED
      BY <3>3, <3>4
  <2>2. s \in Hooks => OneOrder(s)'
    BY <1>0, <1>2, <1>3, <1>f DEF SoleSession, OneOrder
  <2>. QED
    BY <1>2, <1>3, <2>1, <2>2 DEF SoleSession
<1>6. RowsWhole' /\ SessionsSole'
  BY <1>3, <1>5, SoleStep
<1>. QED
  BY <1>0, <1>3, <1>6, KeepsSurplus DEF SInv

\* confirm_orders.
LEMMA ConfirmSole ==
    ASSUME IInv, TypeOK', SInv, NEW c \in Confirmers,
           Confirm(c) \/ \E o \in Orders : AcceptRaises(c, o)
    PROVE  SInv'
<1>0. c \in Sessions \ Importers /\ c \notin Hooks
  BY SessionsAssumption DEF Sessions
<1>1. CASE ConfirmOrders(c)
  BY <1>0, <1>1, FollowsBegin DEF ConfirmOrders
<1>2. ASSUME NEW o \in Orders, AcceptOrder(c, o)
      PROVE  SInv'
  <2>1. PICK pc \in {"next", "flush"} : pc = Continue(ses[c].todo \ {o})
    BY DEF Continue
  <2>2. Become(c, Assign(c, o, "CONFIRMED", ses[c].view[o].plenty, {"status"}, pc))
    BY <1>2, <2>1 DEF AcceptOrder
  <2>3. {"status"} \in SUBSET {"status", "error"} /\ "CONFIRMED" \in Claims
    OBVIOUS
  <2>. QED
    BY <1>0, <1>2, <2>2, <2>3, FollowsAssign DEF AcceptOrder, db
<1>3. ASSUME NEW o \in Orders, AcceptRaises(c, o)
      PROVE  SInv'
  <2>1. PICK status \in Claims : status = ses[c].view[o].status
    BY <1>0, <1>3 DEF AcceptRaises, SInv, SessionsSole, SoleSession, Follows, InWork
  <2>2. Become(c, Assign(c, o, status, ses[c].view[o].plenty, {"error"}, "flush"))
    BY <1>3, <2>1 DEF AcceptRaises, IncrementError
  <2>3. {"error"} \in SUBSET {"status", "error"}
    OBVIOUS
  <2>. QED
    BY <1>0, <1>3, <2>2, <2>3, FollowsAssign DEF AcceptRaises, db
<1>. QED
  BY <1>1, <1>2, <1>3 DEF Confirm

\* ship_orders and the webhook.
LEMMA ShipSole ==
    ASSUME IInv, TypeOK', SInv, NEW s \in Shippers \cup Hooks,
           \/ s \in Shippers /\ Ship(s)
           \/ PlentyOrderStatus(s)
           \/ \E o \in Orders : ShipOrder(s, o) \/ ShipRaises(s, o)
           \/ s \in Hooks /\ \E o \in Orders : HookRaises(s, o)
    PROVE  SInv'
<1>0. /\ s \in Sessions \ Importers /\ TypeOK /\ SoleSession(s)
      /\ s \in Shippers => s \notin Hooks
  BY SessionsAssumption DEF Sessions, IInv, SInv, SessionsSole
<1>1. CASE s \in Shippers /\ ShipOrders(s)
  BY <1>0, <1>1, FollowsBegin DEF ShipOrders
<1>2. CASE PlentyOrderStatus(s)
  <2>1. PICK o \in Orders : row[o].plenty \in tracked /\ BeginWith(s, {o})
    BY <1>2 DEF PlentyOrderStatus
  <2>2. row[o].status \in Claims
    BY <1>0, <2>1, NoneAssumption DEF SInv, RowsWhole, TypeOK
  <2>. QED
    BY <1>0, <2>1, <2>2, FollowsBegin
<1>3. ASSUME s \in Shippers, NEW o \in Orders, NoTrackingYet(s, o)
      PROVE  SInv'
  <2>1. PICK r \in Session : r = [ses[s] EXCEPT !.pc = Continue(ses[s].todo \ {o}),
                                                !.todo = ses[s].todo \ {o}]
    BY <1>0, Fields DEF Session, Continue
  <2>2. /\ r.pc \in {"next", "flush"} /\ r.view = ses[s].view /\ r.dirty = ses[s].dirty
        /\ r.todo = ses[s].todo \ {o}
    BY <1>0, <2>1, Fields DEF Session, Continue
  <2>3. ses'[s] = r /\ \A t \in Sessions \ {s} : ses'[t] = ses[t]
    BY <1>0, <1>3, <2>1, BecomeType DEF NoTrackingYet
  <2>4. SoleSession(s)'
    BY <1>0, <1>3, <2>2, <2>3 DEF SoleSession, Follows, InWork, NoTrackingYet, db
  <2>5. RowsWhole' /\ SessionsSole'
    BY <1>0, <1>3, <2>3, <2>4, SoleStep DEF NoTrackingYet, db
  <2>. QED
    BY <1>0, <1>3, <2>3, <2>5, KeepsSurplus DEF SInv, NoTrackingYet, world, db
<1>4. ASSUME NEW o \in Orders, ShipOrder(s, o)
      PROVE  SInv'
  <2>1. PICK pc \in {"next", "flush"} : pc = Continue(ses[s].todo \ {o})
    BY DEF Continue
  <2>2. PICK columns \in SUBSET {"status", "error"} :
           columns = IF ses[s].view[o].status = "SHIPPED" THEN {} ELSE {"status"}
    OBVIOUS
  <2>3. Become(s, Assign(s, o, "SHIPPED", ses[s].view[o].plenty, columns, pc))
    BY <1>4, <2>1, <2>2 DEF ShipOrder
  <2>4. "SHIPPED" \in Claims
    OBVIOUS
  <2>. QED
    BY <1>0, <1>4, <2>3, <2>4, FollowsAssign DEF ShipOrder, db
<1>5. ASSUME NEW o \in Orders, ShipRaises(s, o)
      PROVE  SInv'
  <2>1. PICK status \in Claims : status = ses[s].view[o].status
    BY <1>0, <1>5
       DEF ShipRaises, ShipCallRaises, SInv, SessionsSole, SoleSession, Follows, InWork
  <2>2. Become(s, Assign(s, o, status, ses[s].view[o].plenty, {"error"}, "flush"))
    BY <1>5, <2>1 DEF ShipRaises, IncrementError
  <2>3. {"error"} \in SUBSET {"status", "error"}
    OBVIOUS
  <2>. QED
    BY <1>0, <1>5, <2>2, <2>3, FollowsAssign DEF ShipRaises, ShipCallRaises
<1>6. ASSUME s \in Hooks, NEW o \in Orders, HookRaises(s, o)
      PROVE  SInv'
  <2>1. \A p \in Orders : ses[s].dirty[p] = {}
    BY <1>0, <1>6 DEF HookRaises, ShipCallRaises, SoleSession, OneOrder
  <2>2. RowsWhole' /\ SessionsSole'
    BY <1>0, <1>6, <2>1, EndsSole DEF HookRaises, ShipCallRaises
  <2>3. \A t \in Sessions \ {s} : ses'[t] = ses[t]
    BY <1>0, <1>6 DEF HookRaises, Become, TypeOK
  <2>. QED
    BY <1>0, <1>6, <2>2, <2>3, KeepsSurplus DEF SInv, HookRaises, ShipCallRaises
<1>. QED
  BY <1>1, <1>2, <1>3, <1>4, <1>5, <1>6 DEF Ship

-----------------------------------------------------------------------------
(* Flushes, commits, rollbacks and crashes *)

\* A session that changed an object of an order on record is not the importer.
LEMMA Owner ==
    ASSUME IInv, SInv, NEW s \in Sessions, NEW o \in Orders, ses[s].dirty[o] # {}
    PROVE  /\ s \in Importers => row[o].plenty = None /\ row[o].status \notin Claims
           /\ s \notin Importers => /\ row[o].plenty # None
                                    /\ "plenty" \notin ses[s].dirty[o]
                                    /\ "insert" \notin ses[s].dirty[o]
                                    /\ ses[s].view[o].status \in Claims
<1>1. SoleSession(s) /\ ObjectTrue(s, o) /\ TrueOf(o, row[o])
  BY DEF SInv, SessionsSole, IInv, SessionsTrue, RowsTrue
<1>. QED
  BY <1>1 DEF SoleSession, Leads, Follows, InWork, ObjectTrue, TrueOf

\* No record is inserted twice, and the importer waits for nobody.
LEMMA NoConflict ==
    ASSUME IInv, SInv, OneImport, NEW s \in Sessions
    PROVE  /\ \A o \in Orders : ~FlushConflict(s, o)
           /\ s \in Importers => ~DeadlockVictim(s)
<1>1. ASSUME NEW o \in Orders, FlushConflict(s, o)
      PROVE  FALSE
  <2>1. "insert" \in ses[s].dirty[o] /\ row[o] # Absent
    BY <1>1 DEF FlushConflict
  <2>2. SoleSession(s)
    BY DEF SInv, SessionsSole
  <2>. QED
    BY <2>1, <2>2, Owner DEF SoleSession, Leads
<1>2. ASSUME s \in Importers, DeadlockVictim(s)
      PROVE  FALSE
  <2>1. PICK u \in Sessions, o \in Orders : Statement(s, o) /\ lock[o] = u
    BY <1>2 DEF DeadlockVictim, WaitsFor
  <2>2. ses[s].dirty[o] # {} /\ u # s
    BY <2>1 DEF Statement, Unflushed
  <2>3. SoleSession(u) /\ u \notin Importers
    BY <1>2, <2>2 DEF SInv, SessionsSole, OneImport
  <2>4. ses[u].dirty[o] # {}
    BY <2>1, <2>3 DEF SoleSession
  <2>. QED
    BY <1>2, <2>2, <2>3, <2>4, Owner
<1>. QED
  BY <1>1, <1>2

\* The commit keeps what other sessions have in work, and records the id of
\* what the importer created.
LEMMA CommitSole ==
    ASSUME IInv, TypeOK', SInv, OneImport, NEW s \in Sessions, Commit(s)
    PROVE  SInv'
<1>0. TypeOK /\ SoleSession(s) /\ s # None
  BY NoneAssumption DEF IInv, SInv, SessionsSole
<1>1. /\ ses'[s] = Idle /\ \A t \in Sessions \ {s} : ses'[t] = ses[t]
      /\ \A o \in Orders : row'[o] = IF lock[o] = s THEN Stored(s, o) ELSE row[o]
      /\ \A o \in Orders : lock'[o] = IF lock[o] = s THEN None ELSE lock[o]
      /\ \A o \in Orders : ses[s].dirty[o] # {} => lock[o] = s
      /\ UNCHANGED <<plenty, faults>>
  BY <1>0 DEF Commit, Become, Release, Unflushed, world, TypeOK
<1>2. \A o \in Orders : lock[o] = s => ses[s].dirty[o] # {}
  BY <1>0 DEF SoleSession
<1>3. ASSUME NEW o \in Orders, lock[o] = s
      PROVE  /\ row'[o].plenty # None => row'[o].status \in Claims
             /\ s \notin Importers => row'[o].plenty # None
             /\ "plenty" \in ses[s].dirty[o] => row'[o].plenty # None
  <2>1. row'[o] = Stored(s, o) /\ ses[s].dirty[o] # {}
    BY <1>1, <1>2, <1>3
  <2>2. ObjectTrue(s, o) /\ (row[o].plenty # None => row[o].status \in Claims)
    BY DEF IInv, SessionsTrue, SInv, RowsWhole
  <2>3. CASE s \in Importers
    <3>1. row[o].plenty = None /\ Leads(s, o)
      BY <1>0, <2>1, <2>3 DEF SoleSession, Leads
    <3>. QED
      BY <2>1, <2>2, <2>3, <3>1 DEF Leads, Stored, ObjectTrue
  <2>4. CASE s \notin Importers
    BY <2>1, <2>2, <2>4, Owner DEF Stored
  <2>. QED
    BY <2>3, <2>4
<1>4. RowsWhole'
  BY <1>1, <1>3 DEF SInv, RowsWhole
<1>5. ASSUME NEW t \in Sessions
      PROVE  SoleSession(t)'
  <2>1. CASE t = s
    BY <1>0, <1>1, <2>1 DEF SoleSession, Leads, Follows, OneOrder, InWork, Idle
  <2>2. CASE t # s
    <3>1. ses'[t] = ses[t] /\ SoleSession(t) /\ t # None
      BY <1>1, <2>2, NoneAssumption DEF SInv, SessionsSole
    <3>2. \A o \in Orders : lock'[o] = t => lock[o] = t
      BY <1>1, <3>1
    <3>3. ASSUME t \in Importers, NEW o \in Orders
          PROVE  Leads(t, o)'
      <4>1. Leads(t, o) /\ s \notin Importers
        BY <2>2, <3>1, <3>3 DEF SoleSession, OneImport
      <4>2. CASE lock[o] = s
        <5>1. row[o].plenty # None
          BY <1>2, <4>1, <4>2, Owner
        <5>. QED
          BY <3>1, <4>1, <5>1 DEF Leads
      <4>3. CASE lock[o] # s
        BY <1>1, <3>1, <4>1, <4>3 DEF Leads
      <4>. QED
        BY <4>2, <4>3
    <3>. QED
      BY <3>1, <3>2, <3>3 DEF SoleSession, Follows, OneOrder, InWork
  <2>. QED
    BY <2>1, <2>2
<1>6. \A o \in Orders : Known(o) => Known(o)'
  <2>1. ASSUME NEW o \in Orders, row[o].plenty # None
        PROVE  row'[o].plenty # None
    BY <1>1, <2>1, StoredTrue
  <2>2. ASSUME NEW o \in Orders, NEW i \in Importers, "plenty" \in ses[i].dirty[o]
        PROVE  Known(o)'
    <3>1. i \in Sessions
      BY DEF Sessions
    <3>2. CASE i = s
      BY <1>1, <1>3, <2>2, <3>2 DEF Known
    <3>3. CASE i # s
      BY <1>1, <2>2, <3>1, <3>3 DEF Known, Recording
    <3>. QED
      BY <3>2, <3>3
  <2>. QED
    BY <2>1, <2>2 DEF Known, Recording
<1>7. SurplusTrue'
  <2>1. \A o \in Orders : PlentyOrdersOf(o)' = PlentyOrdersOf(o)
    BY <1>1 DEF PlentyOrdersOf
  <2>2. faults' >= faults
    BY <1>0, <1>1 DEF TypeOK
  <2>. QED
    BY <1>0, <1>6, <2>1, <2>2, SurplusStep DEF SInv
<1>. QED
  BY <1>4, <1>5, <1>7 DEF SInv, SessionsSole

\* Flushes, rollbacks and crashes too.
LEMMA EndSole ==
    ASSUME IInv, TypeOK', SInv, OneImport, NEW s \in Sessions, EndFlush(s) \/ Crash(s)
    PROVE  SInv'
<1>0. TypeOK /\ SoleSession(s)
  BY DEF IInv, SInv, SessionsSole
<1>1. ASSUME NEW o \in Orders, FlushOne(s, o)
      PROVE  SInv'
  <2>1. ses[s].dirty[o] # {} /\ lock' = [lock EXCEPT ![o] = s] /\ UNCHANGED <<world, row, ses, faults>>
    BY <1>1 DEF FlushOne, Statement, Unflushed
  <2>2. \A p \in Orders : lock'[p] = IF p = o THEN s ELSE lock[p]
    BY <1>0, <2>1 DEF TypeOK
  <2>3. SoleSession(s)'
    BY <1>0, <2>1, <2>2 DEF SoleSession, Leads, Follows, OneOrder, InWork
  <2>4. RowsWhole' /\ SessionsSole'
    BY <2>1, <2>2, <2>3, SoleStep
  <2>. QED
    BY <1>0, <2>1, <2>4, KeepsSurplus DEF SInv, world
<1>2. CASE FlushDone(s)
  <2>1. PICK r \in Session : r = [ses[s] EXCEPT !.pc = "next"]
    BY <1>0, Fields DEF Session
  <2>2. /\ r.pc = "next" /\ r.view = ses[s].view /\ r.dirty = ses[s].dirty
        /\ r.todo = ses[s].todo
    BY <1>0, <2>1, Fields DEF Session
  <2>3. ses'[s] = r /\ \A t \in Sessions \ {s} : ses'[t] = ses[t]
    BY <1>0, <1>2, <2>1, BecomeType DEF FlushDone
  <2>4. SoleSession(s)'
    BY <1>0, <1>2, <2>2, <2>3
       DEF SoleSession, Leads, Follows, OneOrder, InWork, FlushDone, db
  <2>5. RowsWhole' /\ SessionsSole'
    BY <1>2, <2>3, <2>4, SoleStep DEF FlushDone, db
  <2>. QED
    BY <1>0, <1>2, <2>2, <2>3, <2>5, KeepsSurplus DEF SInv, FlushDone, world, db
<1>3. CASE DeadlockVictim(s)
  <2>1. s \notin Importers
    BY <1>3, NoConflict
  <2>2. Become(s, Idle) /\ Release(s) /\ UNCHANGED <<world, row, faults>>
    BY <1>3 DEF DeadlockVictim, Rollback
  <2>3. RowsWhole' /\ SessionsSole'
    BY <1>0, <2>2, EndsSole
  <2>4. \A t \in Sessions \ {s} : ses'[t] = ses[t]
    BY <1>0, <2>2 DEF Become, TypeOK
  <2>. QED
    BY <1>0, <2>1, <2>2, <2>3, <2>4, KeepsSurplus DEF SInv, world
<1>4. CASE Crash(s)
  <2>1. Become(s, Idle) /\ Release(s) /\ UNCHANGED <<world, row>> /\ faults' = faults + 1
    BY <1>4 DEF Crash, Rollback, Fault
  <2>2. RowsWhole' /\ SessionsSole'
    BY <1>0, <2>1, EndsSole
  <2>3. \A o \in Orders : PlentyOrdersOf(o)' = PlentyOrdersOf(o)
    BY <2>1 DEF PlentyOrdersOf, world
  <2>4. faults' >= faults
    BY <1>0, <2>1 DEF TypeOK
  <2>. QED
    BY <1>0, <2>1, <2>2, <2>3, <2>4, SurplusStep DEF SInv
<1>. QED
  BY <1>1, <1>2, <1>3, <1>4, NoConflict, CommitSole DEF EndFlush

-----------------------------------------------------------------------------
(* Every step, and the theorems *)

LEMMA InitSole == Init => SInv
<1>. SUFFICES ASSUME Init
              PROVE  SInv
  OBVIOUS
<1>1. \A s \in Sessions : ses[s] = Idle /\ s # None
  BY NoneAssumption DEF Init
<1>2. SessionsSole
  BY <1>1 DEF Init, SessionsSole, SoleSession, Leads, Follows, OneOrder, InWork, Idle
<1>3. \A o \in Orders : PlentyOrdersOf(o) = {}
  BY NoneAssumption DEF Init, PlentyOrdersOf
<1>4. SurplusTrue
  <2>1. \A o \in Orders : ~Known(o)
    BY <1>1 DEF Known, Recording, Init, Idle, Sessions
  <2>2. IsFiniteSet({}) /\ Cardinality({}) = 0
    BY FS_EmptySet
  <2>3. faults = 0
    BY DEF Init
  <2>. QED
    BY <1>3, <2>1, <2>2, <2>3 DEF SurplusTrue
<1>. QED
  BY <1>2, <1>4 DEF SInv, RowsWhole, Init

LEMMA NextSole ==
    ASSUME OneImport, IInv, IInv', SInv, [Next]_vars
    PROVE  SInv'
<1>0. TypeOK /\ TypeOK'
  BY DEF IInv
<1>1. ASSUME NEW i \in Importers, Import(i) \/ EanLookupRaises(i) \/ CreateRaises(i)
      PROVE  SInv'
  BY <1>0, <1>1, ImportSole
<1>2. ASSUME NEW c \in Confirmers, Confirm(c) \/ \E o \in Orders : AcceptRaises(c, o)
      PROVE  SInv'
  BY <1>0, <1>2, ConfirmSole
<1>3. ASSUME NEW s \in Shippers, Ship(s) \/ \E o \in Orders : ShipRaises(s, o)
      PROVE  SInv'
  BY <1>0, <1>3, ShipSole
<1>4. ASSUME NEW h \in Hooks,
             \/ PlentyOrderStatus(h)
             \/ \E o \in Orders : ShipOrder(h, o) \/ HookRaises(h, o)
      PROVE  SInv'
  BY <1>0, <1>4, ShipSole
<1>5. ASSUME NEW s \in Sessions, EndFlush(s) \/ Crash(s)
      PROVE  SInv'
  BY <1>0, <1>5, EndSole
<1>6. ASSUME UNCHANGED <<plenty, row, lock, ses, faults>>
      PROVE  SInv'
  <2>1. RowsWhole' /\ SessionsSole'
    BY <1>6 DEF SInv, RowsWhole, SessionsSole, SoleSession, Leads, Follows, OneOrder,
                InWork
  <2>2. \A o \in Orders : PlentyOrdersOf(o)' = PlentyOrdersOf(o) /\ (Known(o) => Known(o)')
    BY <1>6 DEF Known, Recording, PlentyOrdersOf
  <2>3. faults' >= faults
    BY <1>0, <1>6 DEF TypeOK
  <2>. QED
    BY <1>0, <2>1, <2>2, <2>3, SurplusStep DEF SInv
<1>7. CASE \/ \E id \in PlentyIds : Dispatch(id)
           \/ \E o \in Orders : AddMapping(o)
           \/ UNCHANGED vars
  BY <1>6, <1>7 DEF Dispatch, AddMapping, vars, db
<1>. QED
  BY <1>1, <1>2, <1>3, <1>4, <1>5, <1>7 DEF Next, Raises, OneImport

\* With one importer at a time, a record with a PlentyONE id is nobody's to
\* import, and the one without is the importer's alone (SInv is inductive
\* within IInv).
THEOREM SoleInductive ==
    ASSUME OneImport
    PROVE  Spec => []SInv
<1>1. IInv /\ IInv' /\ SInv /\ [Next]_vars => SInv'
  BY NextSole
<1>. QED
  BY <1>1, InitSole, Inductive, PTL DEF Spec

\* order_service.py:96: for any orders, sessions and faults, one importer and
\* no retry request, each PlentyONE order too many was paid for by a fault.
THEOREM SurplusPaidByFaults ==
    ASSUME OneImport
    PROVE  Spec => []SurplusOnlyByFaults
<1>1. IInv /\ SInv => SurplusOnlyByFaults
  <2>1. SUFFICES ASSUME IInv, SInv, NEW o \in Orders
                 PROVE  Cardinality(PlentyOrdersOf(o)) <= 1 + faults
    BY DEF SurplusOnlyByFaults
  <2>2. /\ Cardinality(PlentyOrdersOf(o)) <= faults + (IF Known(o) THEN 1 ELSE 0)
        /\ Cardinality(PlentyOrdersOf(o)) \in Nat /\ faults \in Nat
    BY <2>1, FS_CardinalityType DEF IInv, TypeOK, SInv, SurplusTrue
  <2>. QED
    BY <2>2
<1>. QED
  BY <1>1, Inductive, SoleInductive, PTL

\* Nothing has gone wrong.
NoFaults == faults = 0

\* So without faults the promise of order_service.py:96 holds: "if the order
\* already exists in DB, skip it" creates no order a second time.
THEOREM OnceWithoutFaults ==
    ASSUME OneImport, MaxFaults = 0
    PROVE  Spec => []AtMostOnePlentyOrder
<1>1. Init => NoFaults
  BY DEF Init, NoFaults
<1>2. IInv /\ NoFaults /\ [Next]_vars => NoFaults'
  <2>1. SUFFICES ASSUME IInv, NoFaults, [Next]_vars
                 PROVE  NoFaults'
    OBVIOUS
  <2>2. ~Fault
    BY <2>1 DEF Fault, NoFaults
  <2>3. faults' = faults
    BY <2>1, <2>2 DEF Next, Import, ImportNewOrders, FindOrder, ResolveSkus,
       CreateOrder, MarkError, Confirm, ConfirmOrders, BeginWith, AcceptOrder, Ship,
       ShipOrders, NoTrackingYet, ShipOrder, PlentyOrderStatus, RetryOrder, EndFlush,
       FlushOne, FlushConflict, FlushDone, Commit, DeadlockVictim, Crash, Raises,
       EanLookupRaises, CreateRaises, AcceptRaises, ShipRaises, HookRaises,
       ShipCallRaises, Dispatch, AddMapping, vars
  <2>. QED
    BY <2>1, <2>3 DEF NoFaults
<1>3. IInv /\ NoFaults /\ SurplusOnlyByFaults => AtMostOnePlentyOrder
  <2>1. SUFFICES ASSUME IInv, NoFaults, SurplusOnlyByFaults, NEW o \in Orders
                 PROVE  Cardinality(PlentyOrdersOf(o)) <= 1
    BY DEF AtMostOnePlentyOrder
  <2>2. faults = 0 /\ Cardinality(PlentyOrdersOf(o)) <= 1 + faults
    BY <2>1 DEF NoFaults, SurplusOnlyByFaults
  <2>. QED
    BY <2>2
<1>4. Spec => []SurplusOnlyByFaults
  BY SurplusPaidByFaults
<1>. QED
  BY <1>1, <1>2, <1>3, <1>4, Inductive, PTL DEF Spec

-----------------------------------------------------------------------------
(* The status moves forwards *)

\* A step that writes no record only has to keep its own session forward.
LEMMA ForwardStep ==
    ASSUME Forward, NEW s \in Sessions, UNCHANGED row,
           \A t \in Sessions \ {s} : ses'[t] = ses[t],
           \A o \in Orders : ForwardIn(s, o)'
    PROVE  Forward'
<1>1. ASSUME NEW t \in Sessions \ {s}, NEW o \in Orders
      PROVE  ForwardIn(t, o)'
  BY <1>1 DEF Forward, ForwardIn, InWork
<1>. QED
  BY <1>1 DEF Forward

\* A session that assigned its object of an order in work.
LEMMA ForwardAssign ==
    ASSUME TypeOK, Forward, NEW s \in Sessions, NEW o \in Orders, o \in ses[s].todo,
           NEW status, NEW id, NEW columns, NEW pc,
           Become(s, Assign(s, o, status, id, columns, pc)), UNCHANGED row,
           s \in Shippers /\ "status" \in ses[s].dirty[o] \cup columns => status = "SHIPPED"
    PROVE  Forward'
<1>1. /\ ses'[s] = Assign(s, o, status, id, columns, pc)
      /\ \A t \in Sessions \ {s} : ses'[t] = ses[t]
  BY DEF Become, TypeOK
<1>f. /\ ses[s].view \in [Orders -> Record]
      /\ ses[s].dirty \in [Orders -> SUBSET Column]
  BY Fields
<1>2. /\ ses'[s].todo = ses[s].todo \ {o}
      /\ ses'[s].view[o].status = status
      /\ ses'[s].dirty[o] = ses[s].dirty[o] \cup columns
      /\ \A p \in Orders \ {o} : /\ ses'[s].view[p] = ses[s].view[p]
                                 /\ ses'[s].dirty[p] = ses[s].dirty[p]
  BY <1>1, <1>f DEF Assign
<1>3. ASSUME NEW p \in Orders
      PROVE  ForwardIn(s, p)'
  <2>1. ForwardIn(s, p)
    BY DEF Forward
  <2>2. CASE p = o
    BY <1>2, <2>1, <2>2 DEF ForwardIn, InWork
  <2>3. CASE p # o
    BY <1>2, <2>1, <2>3 DEF ForwardIn, InWork
  <2>. QED
    BY <2>2, <2>3
<1>. QED
  BY <1>1, <1>3, ForwardStep

\* A session that goes on with the objects it has, or ends.
LEMMA ForwardOn ==
    ASSUME TypeOK, Forward, NEW s \in Sessions, NEW r, Become(s, r), UNCHANGED row,
           \/ r = Idle
           \/ /\ r.view = ses[s].view /\ r.dirty = ses[s].dirty
              /\ r.todo \subseteq ses[s].todo
    PROVE  Forward'
<1>1. ses'[s] = r /\ \A t \in Sessions \ {s} : ses'[t] = ses[t]
  BY DEF Become, TypeOK
<1>2. ASSUME NEW o \in Orders
      PROVE  ForwardIn(s, o)'
  BY <1>1 DEF Forward, ForwardIn, InWork, Idle
<1>. QED
  BY <1>1, <1>2, ForwardStep

\* A task that begins has nothing but the records its SELECT found.
LEMMA ForwardBegin ==
    ASSUME TypeOK, Forward, NEW s \in Sessions, NEW found, BeginWith(s, found),
           \A o \in found : /\ s \in Confirmers => row[o].status = "IMPORTED"
                            /\ s \in Shippers => row[o].status = "CONFIRMED"
    PROVE  Forward'
<1>1. /\ ses'[s] = [Idle EXCEPT !.pc = "next", !.todo = found, !.view = Load(found)]
      /\ \A t \in Sessions \ {s} : ses'[t] = ses[t] /\ row' = row
  BY DEF BeginWith, Become, TypeOK, db
<1>2. ses'[s].todo = found /\ \A o \in Orders : ses'[s].dirty[o] = {}
  BY <1>1 DEF Idle
<1>3. ASSUME NEW o \in Orders
      PROVE  ForwardIn(s, o)'
  BY <1>2 DEF ForwardIn, InWork, BeginWith, db
<1>. QED
  BY <1>1, <1>3, ForwardStep DEF BeginWith, db

\* The importer's objects are not spoken of.
LEMMA ForwardImport ==
    ASSUME TypeOK, Forward, NEW i \in Importers, UNCHANGED row,
           \A t \in Sessions \ {i} : ses'[t] = ses[t]
    PROVE  Forward'
<1>1. i \in Sessions /\ i \notin Confirmers \cup Shippers
  BY SessionsAssumption DEF Sessions
<1>. QED
  BY <1>1, ForwardStep DEF ForwardIn

\* Who commits a record has it in work, at a status the others do not touch.
LEMMA ForwardCommit ==
    ASSUME IInv, SInv, Forward, OneConfirm, NEW s \in Sessions, Commit(s)
    PROVE  /\ Forward'
           /\ \A o \in Orders : Rank(row'[o].status) >= Rank(row[o].status)
<1>0. TypeOK /\ SoleSession(s)
  BY DEF IInv, SInv, SessionsSole
<1>1. /\ ses'[s] = Idle /\ \A t \in Sessions \ {s} : ses'[t] = ses[t]
      /\ \A o \in Orders : row'[o] = IF lock[o] = s THEN Stored(s, o) ELSE row[o]
  BY <1>0 DEF Commit, Become, TypeOK
<1>2. Sessions = Importers \cup Confirmers \cup Shippers
  BY DEF Sessions, OneConfirm, OneImport
<1>3. ASSUME NEW o \in Orders, lock[o] = s
      PROVE  /\ s \in Importers => row[o].status \notin Claims
             /\ s \in Confirmers => /\ row[o].status = "IMPORTED"
                                    /\ row'[o].status \in Claims
             /\ s \in Shippers => /\ row[o].status \in {"CONFIRMED", "SHIPPED"}
                                  /\ row'[o].status \in {row[o].status, "SHIPPED"}
  <2>1. ses[s].dirty[o] # {} /\ row'[o] = Stored(s, o) /\ ForwardIn(s, o)
    BY <1>0, <1>1, <1>3 DEF SoleSession, Forward
  <2>2. s \in Confirmers \cup Shippers => s \notin Importers
    BY SessionsAssumption
  <2>3. /\ s \in Importers => row[o].status \notin Claims
        /\ s \notin Importers => ses[s].view[o].status \in Claims
    BY <2>1, Owner
  <2>. QED
    BY <2>1, <2>2, <2>3 DEF ForwardIn, InWork, Stored
<1>4. ASSUME NEW t \in Sessions, NEW o \in Orders
      PROVE  ForwardIn(t, o)'
  <2>1. CASE t = s
    BY <1>1, <2>1 DEF ForwardIn, InWork, Idle
  <2>2. CASE t # s
    <3>1. ForwardIn(t, o) /\ ses'[t] = ses[t]
      BY <1>1, <2>2 DEF Forward
    <3>2. CASE lock[o] = s
      BY <1>2, <1>3, <2>2, <3>1, <3>2, SessionsAssumption
         DEF ForwardIn, InWork, OneConfirm
    <3>3. CASE lock[o] # s
      BY <1>1, <3>1, <3>3 DEF ForwardIn, InWork
    <3>. QED
      BY <3>2, <3>3
  <2>. QED
    BY <2>1, <2>2
<1>5. ASSUME NEW o \in Orders
      PROVE  Rank(row'[o].status) >= Rank(row[o].status)
  <2>1. \A status : Rank(status) \in 0 .. 3
    BY DEF Rank
  <2>2. CASE lock[o] = s
    BY <1>2, <1>3, <2>1, <2>2 DEF Rank
  <2>3. CASE lock[o] # s
    BY <1>1, <2>1, <2>3
  <2>. QED
    BY <2>2, <2>3
<1>. QED
  BY <1>4, <1>5 DEF Forward

LEMMA NextForward ==
    ASSUME OneConfirm, IInv, SInv, Forward, [Next]_vars
    PROVE  /\ Forward'
           /\ \/ UNCHANGED row
              \/ \A o \in Orders : Rank(row'[o].status) >= Rank(row[o].status)
<1>0. TypeOK
  BY DEF IInv
<1>1. ASSUME NEW i \in Importers, Import(i) \/ EanLookupRaises(i) \/ CreateRaises(i)
      PROVE  Forward' /\ UNCHANGED row
  <2>1. UNCHANGED row
    BY <1>1 DEF Import, ImportNewOrders, FindOrder, ResolveSkus, CreateOrder,
                MarkError, EanLookupRaises, CreateRaises, db
  <2>2. \A t \in Sessions \ {i} : ses'[t] = ses[t]
    BY <1>0, <1>1 DEF Import, ImportNewOrders, FindOrder, ResolveSkus, ToMark,
       CreateOrder, MarkError, EanLookupRaises, CreateRaises, Become, TypeOK
  <2>. QED
    BY <1>0, <2>1, <2>2, ForwardImport
<1>2. ASSUME NEW c \in Confirmers, Confirm(c) \/ \E o \in Orders : AcceptRaises(c, o)
      PROVE  Forward' /\ UNCHANGED row
  <2>0. c \in Sessions /\ c \notin Shippers
    BY SessionsAssumption DEF Sessions
  <2>1. CASE ConfirmOrders(c)
    BY <1>0, <2>0, <2>1, ForwardBegin DEF ConfirmOrders, BeginWith, db
  <2>2. ASSUME NEW o \in Orders, AcceptOrder(c, o)
        PROVE  Forward' /\ UNCHANGED row
    BY <1>0, <2>0, <2>2, ForwardAssign DEF AcceptOrder, db
  <2>3. ASSUME NEW o \in Orders, AcceptRaises(c, o)
        PROVE  Forward' /\ UNCHANGED row
    BY <1>0, <2>0, <2>3, ForwardAssign DEF AcceptRaises, IncrementError, db
  <2>. QED
    BY <1>2, <2>1, <2>2, <2>3 DEF Confirm
<1>3. ASSUME NEW s \in Shippers, Ship(s) \/ \E o \in Orders : ShipRaises(s, o)
      PROVE  Forward' /\ UNCHANGED row
  <2>0. s \in Sessions /\ s \notin Confirmers /\ ses[s] \in Session
    BY <1>0, SessionsAssumption DEF Sessions, TypeOK
  <2>1. CASE ShipOrders(s)
    BY <1>0, <2>0, <2>1, ForwardBegin DEF ShipOrders, BeginWith, db
  <2>2. ASSUME NEW o \in Orders, NoTrackingYet(s, o)
        PROVE  Forward' /\ UNCHANGED row
    <3>1. PICK r : r = [ses[s] EXCEPT !.pc = Continue(ses[s].todo \ {o}),
                                      !.todo = ses[s].todo \ {o}]
      OBVIOUS
    <3>2. /\ r.view = ses[s].view /\ r.dirty = ses[s].dirty
          /\ r.todo \subseteq ses[s].todo
      BY <2>0, <3>1 DEF Session
    <3>. QED
      BY <1>0, <2>0, <2>2, <3>1, <3>2, ForwardOn DEF NoTrackingYet, db
  <2>3. ASSUME NEW o \in Orders, ShipOrder(s, o)
        PROVE  Forward' /\ UNCHANGED row
    BY <1>0, <2>0, <2>3, ForwardAssign DEF ShipOrder, db
  <2>4. ASSUME NEW o \in Orders, ShipRaises(s, o)
        PROVE  Forward' /\ UNCHANGED row
    <3>1. o \in ses[s].todo /\ UNCHANGED row
      BY <2>4 DEF ShipRaises, ShipCallRaises
    <3>2. ses[s].dirty[o] = {}
      BY <2>0, <3>1 DEF IInv, SessionsTrue, ObjectTrue
    <3>3. "status" \notin ses[s].dirty[o] \cup {"error"}
      BY <3>2
    <3>. QED
      BY <1>0, <2>0, <2>4, <3>1, <3>3, ForwardAssign DEF ShipRaises, IncrementError
  <2>. QED
    BY <1>3, <2>1, <2>2, <2>3, <2>4 DEF Ship
<1>4. ASSUME NEW s \in Sessions, EndFlush(s) \/ Crash(s), ~Commit(s)
      PROVE  Forward' /\ UNCHANGED row
  <2>0. ses[s] \in Session
    BY <1>0 DEF TypeOK
  <2>1. CASE \E o \in Orders : FlushOne(s, o)
    BY <2>1 DEF FlushOne, world, Forward, ForwardIn, InWork
  <2>2. CASE FlushDone(s)
    <3>1. PICK r : r = [ses[s] EXCEPT !.pc = "next"]
      OBVIOUS
    <3>2. r.view = ses[s].view /\ r.dirty = ses[s].dirty /\ r.todo = ses[s].todo
      BY <2>0, <3>1 DEF Session
    <3>. QED
      BY <1>0, <2>2, <3>1, <3>2, ForwardOn DEF FlushDone, db
  <2>3. CASE Rollback(s)
    BY <1>0, <2>3, ForwardOn DEF Rollback
  <2>. QED
    BY <1>4, <2>1, <2>2, <2>3 DEF EndFlush, FlushConflict, DeadlockVictim, Crash
<1>5. CASE \/ \E id \in PlentyIds : Dispatch(id)
           \/ \E o \in Orders : AddMapping(o)
           \/ UNCHANGED vars
  BY <1>5 DEF Dispatch, AddMapping, vars, db, Forward, ForwardIn, InWork
<1>. QED
  BY <1>1, <1>2, <1>3, <1>4, <1>5, ForwardCommit DEF Next, Raises, OneConfirm, OneImport

\* tables.py:88, "State machine: NEW -> IMPORTED -> CONFIRMED -> SHIPPED": for
\* any orders, faults and runs of ship_orders, the status moves this way only,
\* if runs of the other tasks do not overlap and there are neither webhooks
\* nor retries.
THEOREM StatusMovesForward ==
    ASSUME OneConfirm
    PROVE  Spec => StatusNeverRegresses
<1>0. OneImport
  BY DEF OneConfirm
<1>1. Init => Forward
  BY DEF Init, Forward, ForwardIn, InWork, Idle
<1>2. IInv /\ SInv /\ Forward /\ [Next]_vars => Forward'
  BY NextForward
<1>3. IInv /\ SInv /\ Forward /\ [Next]_vars
        => [\A o \in Orders : Rank(row'[o].status) >= Rank(row[o].status)]_row
  BY NextForward
<1>. QED
  BY <1>0, <1>1, <1>2, <1>3, Inductive, SoleInductive, PTL
     DEF Spec, StatusNeverRegresses

=============================================================================
