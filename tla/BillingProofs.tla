--------------------------- MODULE BillingProofs ---------------------------
(***************************************************************************)
(* Proofs about Billing: IInv is inductive, so a tenant is canceled only   *)
(* if a subscription of its own has ended.  What makes it so is that a     *)
(* subscription never comes back from "canceled" and a checkout names its  *)
(* tenant once: an event, however late, tells of something still true.     *)
(***************************************************************************)
EXTENDS Billing, TLAPS

\* IInv without the types.
Truths ==
    /\ NamedWhenSold
    /\ EventsTrue
    /\ LinkedToOwn
    /\ SessionsTrue
    /\ CanceledOnlyIfEnded

\* Stripe's steps: a subscription is sold or moves on, and never comes back.
StripeStep(c, status, types) ==
    /\ Issue(c, status, types)
    /\ types \subseteq EventType
    /\ status \in SubStatus \ {"none"}
    /\ sub[c] = "canceled" \/ "deleted" \in types => status = "canceled"
    /\ \/ sub[c] # "none" /\ UNCHANGED <<owner, inSub>>
       \/ /\ sub[c] = "none"
          /\ \E t \in Tenants \cup {None} : owner' = [owner EXCEPT ![c] = t]
          /\ inSub' \in {inSub, inSub \cup {c}}
          /\ "checkout" \in types
    /\ types # {}
    /\ late' \in {late, late \cup {c}}
    /\ c \notin late' =>
          \A e \in Event :
             e.type \in types /\ e.status = status
                 => Brings(DueFor(sub[c]), e) /\ Brings(DueFor(status), e)

-----------------------------------------------------------------------------
(* Types *)

LEMMA StripeSteps ==
    ASSUME TypeOK, NEW c \in Customers,
           Checkout(c) \/ PaymentSucceeds(c) \/ PaymentFails(c) \/ Ends(c)
    PROVE  \E status \in SubStatus, types \in SUBSET EventType :
              StripeStep(c, status, types)
  <1> USE DEF Brings, NewStatus, DueFor, OnSubscriptionChange, OnPaymentSucceeded
  <1>1. CASE Checkout(c)
    <2>1. StripeStep(c, "active", {"change", "checkout"})
      BY <1>1 DEF Checkout, StripeStep, SubStatus, EventType
    <2> QED
      BY <2>1 DEF SubStatus, EventType
  <1>2. CASE PaymentSucceeds(c)
    <2>1. CASE sub[c] \in {"active", "canceled"} /\ Issue(c, sub[c], {"succeeded"})
      <3>1. StripeStep(c, sub[c], {"succeeded"})
        BY <1>2, <2>1 DEF PaymentSucceeds, StripeStep, SubStatus, EventType
      <3> QED
        BY <2>1, <3>1 DEF SubStatus, EventType
    <2>2. CASE /\ sub[c] \in {"past_due", "unpaid"}
               /\ Issue(c, "active", {"succeeded", "change"})
      <3>1. StripeStep(c, "active", {"succeeded", "change"})
        BY <1>2, <2>2 DEF PaymentSucceeds, StripeStep, SubStatus, EventType
      <3> QED
        BY <3>1 DEF SubStatus, EventType
    <2> QED
      BY <1>2, <2>1, <2>2 DEF PaymentSucceeds
  <1>3. CASE PaymentFails(c)
    <2>1. \/ StripeStep(c, "past_due", {"failed", "change"})
          \/ StripeStep(c, "past_due", {"failed"})
          \/ StripeStep(c, "unpaid", {"change"})
          \/ StripeStep(c, "canceled", {"failed"})
      BY <1>3 DEF PaymentFails, StripeStep, SubStatus, EventType
    <2> QED
      BY <2>1 DEF SubStatus, EventType
  <1>4. CASE Ends(c)
    <2>1. StripeStep(c, "canceled", {"deleted"})
      BY <1>4 DEF Ends, StripeStep, SubStatus, EventType
    <2> QED
      BY <2>1 DEF SubStatus, EventType
  <1> QED
    BY <1>1, <1>2, <1>3, <1>4

LEMMA StripeTypes ==
    ASSUME TypeOK, NEW c \in Customers, NEW status \in SubStatus,
           NEW types \in SUBSET EventType, StripeStep(c, status, types)
    PROVE  TypeOK'
  <1>1. issued' \in 1 .. MaxChanges
    BY BoundsAssumption DEF TypeOK, StripeStep, Issue
  <1>2. outbox' \subseteq Event
    <2>1. ASSUME NEW type \in types
          PROVE  [n |-> issued', type |-> type, customer |-> c,
                  status |-> status] \in Event
      BY <1>1 DEF Event
    <2> QED
      BY <2>1 DEF TypeOK, StripeStep, Issue
  <1>3. /\ owner' \in [Customers -> Tenants \cup {None}]
        /\ inSub' \subseteq Customers /\ late' \subseteq Customers
    BY DEF TypeOK, StripeStep
  <1>4. sub' \in [Customers -> SubStatus] /\ issued' \in 0 .. MaxChanges
    BY <1>1 DEF TypeOK, StripeStep, Issue
  <1>5. UNCHANGED <<tenant, ses, disturbed, edits, faults>>
    BY DEF StripeStep, Issue
  <1> QED
    BY <1>2, <1>3, <1>4, <1>5 DEF TypeOK

\* An event's status is stored only where the code knows it.
LEMMA NewRecord ==
    ASSUME TypeOK, NEW e \in outbox, NEW t \in Tenants
    PROVE  /\ NewStatus(tenant[t].status, e) \in TenantStatus
           /\ NewCustomer(tenant[t].customer, e) \in Customers \cup {None}
  <1>1. e \in Event /\ tenant[t] \in Record
    BY DEF TypeOK
  <1>2. /\ e.type \in EventType /\ e.customer \in Customers
        /\ tenant[t].status \in TenantStatus
        /\ tenant[t].customer \in Customers \cup {None}
    BY <1>1 DEF Event, Record
  <1> QED
    BY <1>2 DEF NewStatus, NewCustomer, OnSubscriptionChange,
                OnPaymentSucceeded, TenantStatus, EventType

\* A session that loads a tenant has the type of a session.
LEMMA LoadType ==
    ASSUME TypeOK, NEW s \in Sessions, NEW t \in Tenants,
           NEW e \in Event \cup {None}, NEW status \in TenantStatus,
           NEW customer \in Customers \cup {None},
           Load(s, t, e, status, customer)
    PROVE  ses' \in [Sessions -> Session]
  <1>1. [status |-> status, customer |-> customer] \in Record
    BY DEF Record
  <1> QED
    BY <1>1 DEF Load, TypeOK, Session

LEMMA TenantOfType ==
    ASSUME TypeOK, NEW e \in outbox
    PROVE  TenantOf(e) \subseteq Tenants
  <1>1. e.customer \in Customers
    BY DEF TypeOK, Event
  <1> QED
    BY <1>1 DEF TypeOK, TenantOf, ByMetadata, ByCustomer

LEMMA IdleType == Idle \in Session
  BY DEF Idle, Session, Fresh, Record, TenantStatus

LEMMA TypeNext ==
    ASSUME TypeOK, [Next]_vars
    PROVE  TypeOK'
  <1>1. CASE UNCHANGED vars
    BY <1>1 DEF TypeOK, vars, stripe
  <1>2. ASSUME NEW c \in Customers,
               Checkout(c) \/ PaymentSucceeds(c) \/ PaymentFails(c) \/ Ends(c)
        PROVE  TypeOK'
    BY <1>2, StripeSteps, StripeTypes
  <1>3. ASSUME NEW s \in Sessions, NEW e \in outbox, Receive(s, e)
        PROVE  TypeOK'
    <2>1. e \in Event /\ owner[e.customer] \in Tenants \cup {None}
      BY DEF TypeOK, Event
    <2>2. disturbed' \subseteq Tenants
      BY <1>3, <2>1 DEF Receive, TypeOK
    <2>3. outbox' \subseteq Event
      BY <1>3 DEF Receive, TypeOK
    <2>4. ses' \in [Sessions -> Session]
      <3>1. CASE TenantOf(e) = {}
        BY <1>3, <3>1 DEF Receive, TypeOK
      <3>2. CASE TenantOf(e) # {}
        <4>1. PICK t \in TenantOf(e) :
                 Load(s, t, e, NewStatus(tenant[t].status, e),
                      NewCustomer(tenant[t].customer, e))
          BY <1>3, <3>2 DEF Receive
        <4>2. t \in Tenants
          BY TenantOfType
        <4> QED
          BY <2>1, <4>1, <4>2, NewRecord, LoadType
      <3> QED
        BY <3>1, <3>2
    <2> QED
      BY <1>3, <2>2, <2>3, <2>4 DEF Receive, TypeOK, stripe
  <1>4. ASSUME NEW s \in Sessions, Commit(s)
        PROVE  TypeOK'
    <2>1. ses[s] \in Session /\ ses[s].tenant \in Tenants
      BY <1>4 DEF Commit, TypeOK, Session
    <2>2. ses[s].view \in Record /\ tenant[ses[s].tenant] \in Record
      BY <2>1 DEF TypeOK, Session
    <2>3. tenant' \in [Tenants -> Record]
      BY <1>4, <2>1, <2>2 DEF Commit, TypeOK, Record
    <2>4. ses' \in [Sessions -> Session]
      BY <1>4, IdleType DEF Commit, TypeOK
    <2>5. faults' \in 0 .. MaxFaults /\ outbox' \subseteq Event
      BY <1>4, BoundsAssumption DEF Commit, Fault, TypeOK
    <2> QED
      BY <1>4, <2>3, <2>4, <2>5 DEF Commit, TypeOK, stripe
  <1>5. ASSUME NEW s \in Sessions, Fails(s)
        PROVE  TypeOK'
    BY <1>5, IdleType, BoundsAssumption DEF Fails, Fault, TypeOK, stripe
  <1>6. ASSUME NEW s \in Sessions, NEW t \in Tenants, SetStatus(s, t)
        PROVE  TypeOK'
    <2>1. PICK status \in {"suspended", "active"} :
             Load(s, t, None, status, tenant[t].customer)
      BY <1>6 DEF SetStatus
    <2>2. status \in TenantStatus /\ tenant[t].customer \in Customers \cup {None}
      BY DEF TypeOK, Record, TenantStatus
    <2>3. ses' \in [Sessions -> Session]
      BY <2>1, <2>2, LoadType
    <2>4. edits' \in 0 .. MaxEdits
      BY <1>6, BoundsAssumption DEF SetStatus, TypeOK
    <2> QED
      BY <1>6, <2>3, <2>4 DEF SetStatus, TypeOK, stripe
  <1> QED
    BY <1>1, <1>2, <1>3, <1>4, <1>5, <1>6 DEF Next, Handle

-----------------------------------------------------------------------------
(* Truths *)

\* What is sold stays sold to its tenant, and what has ended stays ended.
LEMMA SoldStays ==
    ASSUME TypeOK, NamedWhenSold, NEW c \in Customers, NEW status, NEW types,
           StripeStep(c, status, types), NEW d \in Customers
    PROVE  /\ sub[d] # "none" => sub'[d] # "none" /\ owner'[d] = owner[d]
           /\ owner[d] # None => owner'[d] = owner[d]
           /\ sub[d] = "canceled" => sub'[d] = "canceled"
  BY DEF TypeOK, NamedWhenSold, StripeStep, Issue

LEMMA StripeTruths ==
    ASSUME TypeOK, Truths, NEW c \in Customers, NEW status, NEW types,
           StripeStep(c, status, types)
    PROVE  Truths'
  <1> USE DEF Truths
  <1>1. UNCHANGED <<tenant, ses>>
    BY DEF StripeStep, Issue
  <1>2. NamedWhenSold'
    BY DEF TypeOK, NamedWhenSold, StripeStep, Issue
  <1>3. EventsTrue'
    <2>1. ASSUME NEW e \in outbox
          PROVE  /\ sub'[e.customer] # "none"
                 /\ e.type = "deleted" \/ e.status = "canceled"
                       => sub'[e.customer] = "canceled"
      <3>1. e.customer \in Customers
        BY DEF TypeOK, Event
      <3> QED
        BY <3>1, SoldStays DEF EventsTrue
    <2>2. ASSUME NEW e \in outbox', e \notin outbox
          PROVE  /\ e.customer = c /\ e.status = status /\ e.type \in types
      BY <2>2 DEF StripeStep, Issue
    <2>3. sub'[c] = status /\ status # "none"
      BY DEF TypeOK, StripeStep, Issue
    <2>4. "deleted" \in types => status = "canceled"
      BY DEF StripeStep
    <2> QED
      BY <2>1, <2>2, <2>3, <2>4 DEF EventsTrue
  <1>4. ASSUME NEW t \in Tenants
        PROVE  SomeEnded(t) => SomeEnded(t)'
    <2>1. ASSUME NEW d \in Customers, owner[d] = t, sub[d] = "canceled"
          PROVE  owner'[d] = t /\ sub'[d] = "canceled"
      BY <2>1, SoldStays
    <2> QED
      BY <2>1 DEF SomeEnded
  <1>5. ASSUME NEW d \in Customers, NEW t \in Tenants, owner[d] = t
        PROVE  owner'[d] = t
    BY <1>5, SoldStays, NoneAssumption
  <1>6. LinkedToOwn'
    <2>1. \A t \in Tenants : tenant[t].customer \in Customers \cup {None}
      BY DEF TypeOK, Record
    <2> QED
      BY <1>1, <1>5, <2>1 DEF LinkedToOwn
  <1>7. SessionsTrue'
    <2>1. ASSUME NEW s \in Sessions, NEW t \in Tenants, ses[s].tenant = t
          PROVE  /\ ses[s].view.customer # None
                       => owner'[ses[s].view.customer] = t
                 /\ ses[s].view.status = "canceled" => SomeEnded(t)'
      <3>1. ses[s].view.customer \in Customers \cup {None}
        BY DEF TypeOK, Session, Record
      <3>2. /\ ses[s].view.customer # None => owner[ses[s].view.customer] = t
            /\ ses[s].view.status = "canceled" => SomeEnded(t)
        BY <2>1, NoneAssumption DEF SessionsTrue
      <3> QED
        BY <3>1, <3>2, <1>4, <1>5
    <2>2. \A s \in Sessions : ses[s].tenant \in Tenants \cup {None}
      BY DEF TypeOK, Session
    <2> QED
      BY <2>1, <2>2, <1>1 DEF SessionsTrue, SomeEnded
  <1>8. CanceledOnlyIfEnded'
    BY <1>1, <1>4 DEF CanceledOnlyIfEnded
  <1> QED
    BY <1>2, <1>3, <1>6, <1>7, <1>8

\* An event is handled for the tenant its subscription was sold to.
LEMMA RightTenant ==
    ASSUME TypeOK, Truths, NEW e \in outbox, NEW t \in TenantOf(e)
    PROVE  t \in Tenants /\ owner[e.customer] = t
  <1>1. e.customer \in Customers
    BY DEF TypeOK, Event
  <1>2. t \in Tenants
    BY TenantOfType
  <1>3. CASE t \in ByMetadata(e)
    BY <1>2, <1>3 DEF ByMetadata
  <1>4. CASE t \in ByCustomer(e)
    <2>1. tenant[t].customer = e.customer
      BY <1>4 DEF ByCustomer
    <2> QED
      BY <2>1, <1>1, <1>2, NoneAssumption DEF Truths, LinkedToOwn
  <1> QED
    BY <1>2, <1>3, <1>4 DEF TenantOf

\* Whatever the record was, a true event leaves it true.
LEMMA NewRecordTrue ==
    ASSUME TypeOK, Truths, NEW e \in outbox, NEW t \in TenantOf(e)
    PROVE  /\ NewStatus(tenant[t].status, e) = "canceled" => SomeEnded(t)
           /\ NewCustomer(tenant[t].customer, e) # None
                 => owner[NewCustomer(tenant[t].customer, e)] = t
  <1>1. t \in Tenants /\ owner[e.customer] = t
    BY RightTenant
  <1>2. e.customer \in Customers /\ e.type \in EventType
    BY DEF TypeOK, Event
  <1>3. e.type = "deleted" \/ e.status = "canceled" => SomeEnded(t)
    BY <1>1, <1>2 DEF Truths, EventsTrue, SomeEnded
  <1>4. tenant[t].status = "canceled" => SomeEnded(t)
    BY <1>1 DEF Truths, CanceledOnlyIfEnded
  <1>5. NewStatus(tenant[t].status, e) = "canceled"
            => \/ e.type = "deleted" \/ e.status = "canceled"
               \/ tenant[t].status = "canceled"
    BY <1>2 DEF NewStatus, OnSubscriptionChange, OnPaymentSucceeded, EventType
  <1>6. tenant[t].customer # None => owner[tenant[t].customer] = t
    BY <1>1 DEF Truths, LinkedToOwn
  <1> QED
    BY <1>1, <1>3, <1>4, <1>5, <1>6 DEF NewCustomer

\* A session may load what is true of its tenant.
LEMMA LoadTrue ==
    ASSUME TypeOK, SessionsTrue, NEW s \in Sessions, NEW t \in Tenants, NEW e,
           NEW status, NEW customer, Load(s, t, e, status, customer),
           UNCHANGED stripe,
           status = "canceled" => SomeEnded(t),
           customer # None => owner[customer] = t
    PROVE  SessionsTrue'
  <1>1. ASSUME NEW r \in Sessions, r # s
        PROVE  ses'[r] = ses[r]
    BY <1>1 DEF Load, TypeOK
  <1>2. /\ ses'[s].tenant = t
        /\ ses'[s].view = [status |-> status, customer |-> customer]
    BY DEF Load, TypeOK
  <1> QED
    BY <1>1, <1>2 DEF SessionsTrue, SomeEnded, stripe

\* A session that is over writes nothing.
LEMMA IdleTrue ==
    ASSUME TypeOK, SessionsTrue, NEW s \in Sessions,
           ses' = [ses EXCEPT ![s] = Idle], UNCHANGED stripe
    PROVE  SessionsTrue'
  BY DEF TypeOK, SessionsTrue, SomeEnded, Idle, stripe

LEMMA TruthsNext ==
    ASSUME TypeOK, Truths, [Next]_vars
    PROVE  Truths'
  <1> USE DEF Truths
  <1>1. CASE UNCHANGED vars
    BY <1>1 DEF vars, stripe, NamedWhenSold, EventsTrue, LinkedToOwn,
                SessionsTrue, CanceledOnlyIfEnded, SomeEnded
  <1>2. ASSUME NEW c \in Customers,
               Checkout(c) \/ PaymentSucceeds(c) \/ PaymentFails(c) \/ Ends(c)
        PROVE  Truths'
    BY <1>2, StripeSteps, StripeTruths
  <1>3. ASSUME UNCHANGED stripe, outbox' \subseteq outbox
        PROVE  NamedWhenSold' /\ EventsTrue'
    BY <1>3 DEF stripe, NamedWhenSold, EventsTrue
  <1>4. ASSUME UNCHANGED <<stripe, tenant>>
        PROVE  LinkedToOwn' /\ CanceledOnlyIfEnded'
    BY <1>4 DEF stripe, LinkedToOwn, CanceledOnlyIfEnded, SomeEnded
  <1>5. ASSUME NEW s \in Sessions, NEW e \in outbox, Receive(s, e)
        PROVE  Truths'
    <2>1. CASE TenantOf(e) = {}
      <3>1. UNCHANGED <<stripe, ses>>
        BY <1>5, <2>1 DEF Receive
      <3>2. SessionsTrue'
        BY <3>1 DEF SessionsTrue, SomeEnded, stripe
      <3> QED
        BY <1>3, <1>4, <1>5, <3>2 DEF Receive
    <2>2. CASE TenantOf(e) # {}
      <3>1. PICK t \in TenantOf(e) :
               Load(s, t, e, NewStatus(tenant[t].status, e),
                    NewCustomer(tenant[t].customer, e))
        BY <1>5, <2>2 DEF Receive
      <3>2. t \in Tenants
        BY RightTenant
      <3>3. UNCHANGED stripe
        BY <1>5 DEF Receive
      <3>4. SessionsTrue'
        BY <3>1, <3>2, <3>3, NewRecordTrue, LoadTrue
      <3> QED
        BY <1>3, <1>4, <1>5, <3>4 DEF Receive
    <2> QED
      BY <2>1, <2>2
  <1>6. ASSUME NEW s \in Sessions, Commit(s)
        PROVE  Truths'
    <2> DEFINE t == ses[s].tenant
               new == tenant'[t]
    <2>1. t \in Tenants /\ t # None /\ UNCHANGED stripe
      BY <1>6 DEF Commit, TypeOK, Session
    <2>2. \A u \in Tenants : u # t => tenant'[u] = tenant[u]
      BY <1>6 DEF Commit, TypeOK
    <2>3. new.status = tenant[t].status \/ new.status = ses[s].view.status
      BY <1>6, <2>1 DEF Commit, TypeOK
    <2>4. new.customer = tenant[t].customer \/ new.customer = ses[s].view.customer
      BY <1>6, <2>1 DEF Commit, TypeOK
    <2>5. /\ ses[s].view.customer # None => owner[ses[s].view.customer] = t
          /\ ses[s].view.status = "canceled" => SomeEnded(t)
      BY <2>1 DEF SessionsTrue
    <2>6. CanceledOnlyIfEnded'
      <3>1. \A u \in Tenants : SomeEnded(u)' <=> SomeEnded(u)
        BY <2>1 DEF SomeEnded, stripe
      <3> QED
        BY <2>1, <2>2, <2>3, <2>5, <3>1 DEF CanceledOnlyIfEnded
    <2>7. LinkedToOwn'
      BY <2>1, <2>2, <2>4, <2>5 DEF LinkedToOwn, stripe
    <2>8. SessionsTrue'
      BY <1>6, <2>1, IdleTrue DEF Commit
    <2>9. outbox' \subseteq outbox
      BY <1>6 DEF Commit
    <2> QED
      BY <1>3, <2>1, <2>6, <2>7, <2>8, <2>9
  <1>7. ASSUME NEW s \in Sessions, Fails(s)
        PROVE  Truths'
    <2>1. SessionsTrue'
      BY <1>7, IdleTrue DEF Fails
    <2> QED
      BY <1>3, <1>4, <1>7, <2>1 DEF Fails
  <1>8. ASSUME NEW s \in Sessions, NEW t \in Tenants, SetStatus(s, t)
        PROVE  Truths'
    <2>1. PICK status \in {"suspended", "active"} :
             Load(s, t, None, status, tenant[t].customer)
      BY <1>8 DEF SetStatus
    <2>2. tenant[t].customer # None => owner[tenant[t].customer] = t
      BY DEF LinkedToOwn
    <2>3. UNCHANGED stripe
      BY <1>8 DEF SetStatus
    <2>4. SessionsTrue'
      BY <2>1, <2>2, <2>3, LoadTrue
    <2> QED
      BY <1>3, <1>4, <1>8, <2>4 DEF SetStatus
  <1> QED
    BY <1>1, <1>2, <1>5, <1>6, <1>7, <1>8 DEF Next, Handle

-----------------------------------------------------------------------------
(* Order: an undisturbed tenant gets its events as they were issued *)

\* IInv without the types and Truths.
Orderly ==
    /\ EventsNumbered
    /\ EventsRepeat
    /\ EventsChain
    /\ LastTells
    /\ OwnWork
    /\ InOrder
    /\ CheckoutLinks
    /\ RecordInStep

Undisturbed == Tenants \ disturbed

LEMMA EventTypes ==
    ASSUME TypeOK, NEW e \in outbox
    PROVE  /\ e \in Event /\ e # None
           /\ e.n \in Nat /\ e.customer \in Customers
           /\ e.type \in EventType /\ e.status \in SubStatus
           /\ owner[e.customer] \in Tenants \cup {None}
  BY NoEventAssumption, BoundsAssumption DEF TypeOK, Event

\* What Stripe issues: the old events, and news of one customer's change.
LEMMA NewsOf ==
    ASSUME TypeOK, EventsNumbered, NEW c \in Customers, NEW status \in SubStatus,
           NEW types \in SUBSET EventType, StripeStep(c, status, types)
    PROVE  /\ issued' = issued + 1 /\ issued \in Nat
           /\ outbox \subseteq outbox'
           /\ \A e \in outbox : e.n <= issued
           /\ \A e \in outbox' \ outbox :
                 /\ e.n = issued' /\ e.customer = c /\ e.status = status
                 /\ c \notin late' =>
                       Brings(DueFor(sub[c]), e) /\ Brings(DueFor(status), e)
           /\ \E e \in outbox' \ outbox : TRUE
           /\ sub[c] = "none" =>
                 \E e \in outbox' : e.customer = c /\ e.type = "checkout"
  <1>1. TypeOK'
    BY StripeTypes
  <1>2. issued \in Nat /\ issued' = issued + 1
    BY DEF TypeOK, StripeStep, Issue
  <1>3. outbox' = outbox \cup {[n |-> issued', type |-> type, customer |-> c,
                                status |-> status] : type \in types}
    BY DEF StripeStep, Issue
  <1>4. \A e \in outbox : e.n <= issued
    BY DEF EventsNumbered
  <1>5. ASSUME NEW e \in outbox', e \notin outbox
        PROVE  /\ e.n = issued' /\ e.customer = c /\ e.status = status
               /\ e.type \in types
    BY <1>3, <1>5
  <1>6. ASSUME NEW e \in outbox', e \notin outbox
        PROVE  c \notin late' =>
                  Brings(DueFor(sub[c]), e) /\ Brings(DueFor(status), e)
    <2>1. e \in Event
      BY <1>1 DEF TypeOK, Event
    <2> QED
      BY <1>5, <1>6, <2>1 DEF StripeStep
  <1>7. ASSUME NEW type \in types
        PROVE  \E e \in outbox' \ outbox : e.customer = c /\ e.type = type
    <2> DEFINE e == [n |-> issued', type |-> type, customer |-> c,
                     status |-> status]
    <2>1. e \in outbox'
      BY <1>3
    <2>2. e \notin outbox
      BY <1>2, <1>4
    <2> QED
      BY <2>1, <2>2
  <1>8. PICK type \in types : TRUE
    BY DEF StripeStep
  <1>9. sub[c] = "none" => "checkout" \in types
    BY DEF StripeStep
  <1>10. \E e \in outbox' \ outbox : TRUE
    BY <1>7, <1>8
  <1>11. sub[c] = "none" =>
            \E e \in outbox' : e.customer = c /\ e.type = "checkout"
    BY <1>7, <1>9
  <1> QED
    BY <1>2, <1>3, <1>4, <1>5, <1>6, <1>10, <1>11

\* An event is about a subscription that is sold, which it stays.
LEMMA EventOwner ==
    ASSUME TypeOK, Truths, NEW c \in Customers, NEW status, NEW types,
           StripeStep(c, status, types), NEW e \in outbox
    PROVE  owner'[e.customer] = owner[e.customer]
  BY EventTypes, SoldStays DEF Truths, EventsTrue

\* An event is for the same tenants as before.
LEMMA SameTenants ==
    ASSUME TypeOK, Truths, NEW c \in Customers, NEW status, NEW types,
           StripeStep(c, status, types), NEW e \in outbox
    PROVE  TenantOf(e)' = TenantOf(e)
  <1>1. tenant' = tenant
    BY DEF StripeStep, Issue
  <1>2. owner'[e.customer] = owner[e.customer]
    BY EventOwner
  <1>3. e.customer \in inSub' <=> e.customer \in inSub
    <2>1. sub[e.customer] # "none"
      BY DEF Truths, EventsTrue
    <2> QED
      BY <2>1 DEF StripeStep
  <1> QED
    BY <1>1, <1>2, <1>3 DEF TenantOf, ByMetadata, ByCustomer

LEMMA StripeOrder ==
    ASSUME TypeOK, Truths, Orderly, NEW c \in Customers,
           NEW status \in SubStatus, NEW types \in SUBSET EventType,
           StripeStep(c, status, types)
    PROVE  Orderly'
  <1> USE DEF Orderly
  <1>1. TypeOK'
    BY StripeTypes
  <1>2. /\ issued' = issued + 1 /\ issued \in Nat
        /\ outbox \subseteq outbox'
        /\ \A e \in outbox : e.n <= issued
    BY NewsOf
  <1>3. \A e \in outbox' \ outbox :
           /\ e.n = issued' /\ e.customer = c /\ e.status = status
           /\ c \notin late' =>
                 Brings(DueFor(sub[c]), e) /\ Brings(DueFor(status), e)
    BY NewsOf
  <1>4. PICK new \in outbox' \ outbox : TRUE
    BY NewsOf
  <1>5. UNCHANGED <<tenant, ses, disturbed>>
    BY DEF StripeStep, Issue
  <1>6. sub' = [sub EXCEPT ![c] = status]
    BY DEF StripeStep, Issue
  <1>7. \A e \in outbox : owner'[e.customer] = owner[e.customer]
    BY EventOwner
  <1>8. \A e \in outbox' : e.n \in Nat /\ e.customer \in Customers
    BY <1>1, BoundsAssumption DEF TypeOK, Event
  <1>9. \A d \in Customers :
           /\ About(d) = {e \in outbox : e.customer = d}
           /\ About(d)' = {e \in outbox' : e.customer = d}
    BY DEF About
  <1>10. EventsNumbered'
    BY <1>2, <1>3, <1>8 DEF EventsNumbered
  <1>18. late \subseteq late'
    BY DEF StripeStep
  <1>11. EventsRepeat'
    BY <1>2, <1>3, <1>18 DEF EventsRepeat
  <1>12. EventsChain'
    <2> SUFFICES ASSUME NEW e \in outbox', NEW f \in outbox',
                        owner'[e.customer] \in Undisturbed,
                        e.customer \notin late',
                        f.customer = e.customer, e.n < f.n,
                        \A g \in About(e.customer)' : g.n <= e.n \/ f.n <= g.n
                 PROVE  Brings(DueFor(e.status), f)
      BY <1>5 DEF EventsChain, About, Undisturbed
    <2>1. e \in outbox
      BY <1>2, <1>3, <1>8
    <2>2. owner[e.customer] \in Undisturbed
      BY <2>1, <1>7
    <2>3. CASE f \in outbox
      <3>1. f \in About(e.customer)
        BY <2>3 DEF About
      <3>2. \A g \in About(e.customer) : g.n <= e.n \/ f.n <= g.n
        BY <1>2 DEF About
      <3> QED
        BY <1>18, <2>1, <2>2, <2>3, <3>1, <3>2 DEF EventsChain, Undisturbed
    <2>4. CASE f \notin outbox
      <3>1. \A g \in About(e.customer) : g.n <= e.n
        BY <2>4, <1>2, <1>3, <1>8 DEF About
      <3>2. e.status = sub[e.customer]
        BY <2>1, <2>2, <3>1 DEF LastTells, Undisturbed
      <3> QED
        BY <2>4, <3>2, <1>3
    <2> QED
      BY <2>3, <2>4
  <1>13. LastTells'
    <2> SUFFICES ASSUME NEW e \in outbox', owner'[e.customer] \in Undisturbed,
                        \A f \in About(e.customer)' : f.n <= e.n
                 PROVE  e.status = sub'[e.customer]
      BY <1>5 DEF LastTells, Undisturbed
    <2>1. CASE e.customer = c
      <3>1. new.n <= e.n
        BY <2>1, <1>3, <1>4, <1>9
      <3>2. e \notin outbox
        BY <3>1, <1>2, <1>3, <1>4, <1>8
      <3> QED
        BY <3>2, <1>3, <1>6, <2>1 DEF TypeOK
    <2>2. CASE e.customer # c
      <3>1. e \in outbox
        BY <2>2, <1>3
      <3>2. \A f \in About(e.customer) : f.n <= e.n
        BY <1>2 DEF About
      <3>3. e.status = sub[e.customer]
        BY <3>1, <3>2, <1>7 DEF LastTells, Undisturbed
      <3> QED
        BY <3>1, <3>3, <2>2, <1>6, EventTypes DEF TypeOK
    <2> QED
      BY <2>1, <2>2
  <1>14. OwnWork'
    <2> SUFFICES ASSUME NEW s \in Sessions, ses[s].tenant # None,
                        ses[s].event # None
                 PROVE  owner'[ses[s].event.customer] = ses[s].tenant
      BY <1>5 DEF OwnWork
    <2>1. ses[s].event \in Event
      BY DEF TypeOK, Session
    <2>2. owner[ses[s].event.customer] = ses[s].tenant
      BY DEF OwnWork
    <2>3. ses[s].event.customer \in Customers
      BY <2>1 DEF Event
    <2> QED
      BY <2>2, <2>3, SoldStays DEF Truths
  <1>15. InOrder'
    <2> SUFFICES ASSUME NEW s \in Sessions, NEW t \in Undisturbed,
                        ses[s].tenant = t, NEW e, e = ses[s].event
                 PROVE  /\ e \in AboutOwned(t)'
                        /\ \A f \in AboutOwned(t)' : e.n <= f.n
                        /\ \A r \in Sessions : ses[r].tenant = t => r = s
                        /\ t \in TenantOf(e)'
                        /\ ses[s].view.status = NewStatus(tenant[t].status, e)
                        /\ ses[s].view.customer = NewCustomer(tenant[t].customer, e)
                        /\ "status" \notin ses[s].dirty
                              => ses[s].view.status = tenant[t].status
                        /\ "customer" \notin ses[s].dirty
                              => ses[s].view.customer = tenant[t].customer
      BY <1>5 DEF InOrder, Undisturbed
    <2>1. /\ e \in AboutOwned(t)
          /\ \A f \in AboutOwned(t) : e.n <= f.n
          /\ t \in TenantOf(e)
      BY DEF InOrder, Undisturbed
    <2>2. e \in outbox /\ e \in AboutOwned(t)'
      BY <2>1, <1>2, <1>7 DEF AboutOwned
    <2>3. ASSUME NEW f \in AboutOwned(t)'
          PROVE  e.n <= f.n
      <3>1. f \in outbox => f \in AboutOwned(t)
        BY <1>7 DEF AboutOwned
      <3>2. f \in outbox' /\ e \in outbox'
        BY <2>2, <1>2 DEF AboutOwned
      <3> QED
        BY <3>1, <3>2, <2>1, <2>2, <1>2, <1>3, <1>8
    <2>4. t \in TenantOf(e)'
      BY <2>1, <2>2, SameTenants
    <2> QED
      BY <2>2, <2>3, <2>4 DEF InOrder, Undisturbed
  <1>16. CheckoutLinks'
    <2> SUFFICES ASSUME NEW d \in Customers, owner'[d] \in Undisturbed
                 PROVE  \/ \E e \in About(d)' : e.type = "checkout"
                        \/ tenant[owner'[d]].customer # None
      BY <1>5 DEF CheckoutLinks, Undisturbed
    <2>1. CASE owner'[d] = owner[d]
      <3>1. \/ \E e \in About(d) : e.type = "checkout"
            \/ tenant[owner[d]].customer # None
        BY <2>1 DEF CheckoutLinks, Undisturbed
      <3> QED
        BY <3>1, <2>1, <1>2 DEF About
    <2>2. CASE owner'[d] # owner[d]
      <3>1. d = c /\ sub[c] = "none"
        BY <2>2 DEF StripeStep, TypeOK
      <3> QED
        BY <3>1, NewsOf, <1>9
    <2> QED
      BY <2>1, <2>2
  <1>17. RecordInStep'
    <2> SUFFICES ASSUME NEW t \in Undisturbed, NEW d \in Customers \ late',
                        tenant[t].customer = d,
                        Owned(t)' \cap inSub' \subseteq {d}
                 PROVE  /\ About(d)' = {} => tenant[t].status = Due(d)'
                        /\ \A e \in About(d)' :
                              (\A f \in About(d)' : e.n <= f.n)
                                  => Brings(tenant[t].status, e)
      BY <1>5 DEF RecordInStep, Undisturbed
    <2>1. t \in Tenants
      BY DEF Undisturbed
    <2>2. Owned(t) \cap inSub \subseteq {d}
      <3>1. \A x \in Owned(t) : x \in Owned(t)'
        BY <2>1, NoneAssumption, SoldStays DEF Owned, Truths
      <3>2. inSub \subseteq inSub'
        BY DEF StripeStep
      <3> QED
        BY <3>1, <3>2
    <2>3. /\ About(d) = {} => tenant[t].status = Due(d)
          /\ \A e \in About(d) :
                (\A f \in About(d) : e.n <= f.n) => Brings(tenant[t].status, e)
      BY <1>18, <2>2 DEF RecordInStep, Undisturbed
    <2>4. ASSUME About(d)' = {}
          PROVE  tenant[t].status = Due(d)'
      <3>1. d # c
        BY <2>4, <1>3, <1>4, <1>9
      <3>2. About(d) = {}
        BY <2>4, <1>2, <1>9
      <3> QED
        BY <3>1, <3>2, <2>3, <1>6 DEF Due, TypeOK
    <2>5. ASSUME NEW e \in About(d)', \A f \in About(d)' : e.n <= f.n
          PROVE  Brings(tenant[t].status, e)
      <3>1. CASE e \in outbox
        <4>1. e \in About(d) /\ \A f \in About(d) : e.n <= f.n
          BY <3>1, <2>5, <1>2, <1>9
        <4> QED
          BY <4>1, <2>3
      <3>2. CASE e \notin outbox
        <4>1. d = c
          BY <3>2, <1>3, <1>9
        <4>2. About(d) = {}
          BY <2>5, <3>2, <1>2, <1>3, <1>8, <1>9
        <4> QED
          BY <4>1, <4>2, <3>2, <2>3, <1>3, <1>9 DEF Due
      <3> QED
        BY <3>1, <3>2
    <2> QED
      BY <2>4, <2>5
  <1> QED
    BY <1>10, <1>11, <1>12, <1>13, <1>14, <1>15, <1>16, <1>17

-----------------------------------------------------------------------------
(* Sessions at work *)

\* An event that an undisturbed tenant's session answers was the first of its
\* events, so no other event loses the one before it.
LEMMA Answered ==
    ASSUME TypeOK, Orderly, UNCHANGED stripe, disturbed \subseteq disturbed',
           NEW e, outbox' = outbox \/ outbox' = outbox \ {e},
           e \in outbox /\ owner[e.customer] \in Tenants \ disturbed'
               => \A f \in AboutOwned(owner[e.customer]) : e.n <= f.n
    PROVE  EventsNumbered' /\ EventsRepeat' /\ EventsChain' /\ LastTells'
  <1>1. outbox' \subseteq outbox
    OBVIOUS
  <1>2. EventsNumbered' /\ EventsRepeat'
    BY <1>1 DEF Orderly, EventsNumbered, EventsRepeat, stripe
  <1>3. ASSUME NEW x \in outbox', NEW g \in About(x.customer),
               owner[x.customer] \in Tenants \ disturbed'
        PROVE  g \in About(x.customer)' \/ g.n <= x.n
    <2>1. CASE g \in outbox'
      BY <2>1 DEF About
    <2>2. CASE g \notin outbox'
      <3>1. g = e /\ g.customer = x.customer /\ g \in outbox
        BY <2>2 DEF About
      <3>2. x \in AboutOwned(owner[e.customer])
        BY <3>1, <1>1 DEF AboutOwned
      <3> QED
        BY <3>1, <3>2, <1>3
    <2> QED
      BY <2>1, <2>2
  <1>4. EventsChain'
    <2> SUFFICES ASSUME NEW x \in outbox', NEW f \in outbox',
                        owner[x.customer] \in Tenants \ disturbed',
                        x.customer \notin late,
                        f.customer = x.customer, x.n < f.n,
                        \A g \in About(x.customer)' : g.n <= x.n \/ f.n <= g.n
                 PROVE  Brings(DueFor(x.status), f)
      BY DEF EventsChain, About, stripe
    <2>1. \A g \in About(x.customer) : g.n <= x.n \/ f.n <= g.n
      BY <1>3
    <2>2. f \in About(x.customer)
      BY <1>1 DEF About
    <2> QED
      BY <2>1, <2>2, <1>1 DEF Orderly, EventsChain
  <1>5. LastTells'
    <2> SUFFICES ASSUME NEW x \in outbox',
                        owner[x.customer] \in Tenants \ disturbed',
                        \A f \in About(x.customer)' : f.n <= x.n
                 PROVE  x.status = sub[x.customer]
      BY DEF LastTells, stripe
    <2>1. \A f \in About(x.customer) : f.n <= x.n
      BY <1>3
    <2> QED
      BY <2>1, <1>1 DEF Orderly, LastTells
  <1> QED
    BY <1>2, <1>4, <1>5

\* What does not touch the record or the events keeps them in step.
LEMMA NothingWritten ==
    ASSUME TypeOK, Orderly, UNCHANGED <<stripe, outbox, tenant>>,
           disturbed \subseteq disturbed'
    PROVE  /\ EventsNumbered' /\ EventsRepeat' /\ EventsChain' /\ LastTells'
           /\ CheckoutLinks' /\ RecordInStep'
  <1>1. \A d \in Customers : About(d)' = About(d) /\ Due(d)' = Due(d)
    BY DEF About, Due, stripe
  <1>2. EventsNumbered' /\ EventsRepeat'
    BY DEF Orderly, EventsNumbered, EventsRepeat, stripe
  <1>3. EventsChain' /\ LastTells'
    BY DEF Orderly, EventsChain, LastTells, About, stripe
  <1>4. CheckoutLinks'
    BY <1>1 DEF Orderly, CheckoutLinks, stripe
  <1>5. \A t \in Tenants : Owned(t)' = Owned(t)
    BY DEF Owned, stripe
  <1>6. RecordInStep'
    BY <1>1, <1>5 DEF Orderly, RecordInStep, stripe
  <1> QED
    BY <1>2, <1>3, <1>4, <1>6

\* What InOrder says of session s at work for tenant t.
AtWork(s, t) ==
    LET e == ses[s].event
        view == ses[s].view
        dirty == ses[s].dirty
    IN /\ e \in AboutOwned(t)
       /\ \A f \in AboutOwned(t) : e.n <= f.n
       /\ \A r \in Sessions : ses[r].tenant = t => r = s
       /\ t \in TenantOf(e)
       /\ view.status = NewStatus(tenant[t].status, e)
       /\ view.customer = NewCustomer(tenant[t].customer, e)
       /\ "status" \notin dirty => view.status = tenant[t].status
       /\ "customer" \notin dirty => view.customer = tenant[t].customer

LEMMA InOrderAtWork ==
    InOrder <=> \A s \in Sessions, t \in Undisturbed :
                    ses[s].tenant = t => AtWork(s, t)
  BY DEF InOrder, AtWork, Undisturbed

\* One session's step leaves another at work as it is, when its tenant's
\* record and events stay.
LEMMA StillAtWork ==
    ASSUME UNCHANGED stripe, NEW t \in Tenants, NEW s \in Sessions, AtWork(s, t),
           tenant'[t] = tenant[t], ses'[s] = ses[s],
           AboutOwned(t)' = AboutOwned(t),
           \A r \in Sessions : ses'[r].tenant = t => ses[r].tenant = t
    PROVE  AtWork(s, t)'
  <1> PICK e : e = ses[s].event
    OBVIOUS
  <1>1. t \in TenantOf(e)'
    <2>1. t \in TenantOf(e)
      BY DEF AtWork
    <2>2. ByMetadata(e)' = ByMetadata(e)
      BY DEF ByMetadata, stripe
    <2> QED
      BY <2>1, <2>2 DEF TenantOf, ByCustomer
  <1> QED
    BY <1>1 DEF AtWork

LEMMA ReceiveOrder ==
    ASSUME TypeOK, Truths, Orderly, NEW s \in Sessions, NEW e \in outbox,
           Receive(s, e)
    PROVE  Orderly'
  <1> PICK u : u = owner[e.customer]
    OBVIOUS
  <1>1. /\ UNCHANGED <<stripe, tenant>> /\ disturbed \subseteq disturbed'
        /\ ses[s] = Idle
    BY DEF Receive
  <1>2. u \in Tenants \ disturbed' => ~ Disorder(s, e)
    BY NoneAssumption DEF Receive
  <1>3. u \in Tenants \ disturbed' => \A f \in AboutOwned(u) : e.n <= f.n
    <2> HAVE u \in Tenants \ disturbed'
    <2> TAKE f \in AboutOwned(u)
    <2>1. f \in outbox /\ ~(f.n < e.n)
      BY <1>2 DEF Disorder, AboutOwned
    <2> QED
      BY <2>1, EventTypes
  <1>4. u \in Tenants \ disturbed' =>
            \A r \in Sessions : ses[r].tenant = u => r = s
    BY <1>2, NoneAssumption DEF Disorder
  <1>5. \A r \in Sessions : ses[r].tenant = None \/ r # s
    BY <1>1 DEF Idle
  <1>6. CASE TenantOf(e) = {}
    <2>1. ses' = ses /\ outbox' = outbox \ {e}
      BY <1>6 DEF Receive
    <2>2. e.type = "checkout" => u = None
      BY <1>6 DEF TenantOf, ByMetadata
    <2>3. ASSUME NEW t \in Tenants
          PROVE  tenant[t].customer # e.customer
      <3>1. CASE e.type = "checkout"
        BY <3>1, <2>2, EventTypes, NoneAssumption DEF Truths, LinkedToOwn
      <3>2. CASE e.type # "checkout"
        BY <3>2, <1>6 DEF TenantOf, ByCustomer
      <3> QED
        BY <3>1, <3>2
    <2>4. EventsNumbered' /\ EventsRepeat' /\ EventsChain' /\ LastTells'
      BY <1>1, <1>3, <2>1, Answered
    <2>5. OwnWork'
      BY <1>1, <2>1 DEF Orderly, OwnWork, stripe
    <2>6. InOrder'
      <3> SUFFICES ASSUME NEW r \in Sessions, NEW t \in Tenants \ disturbed',
                          ses[r].tenant = t
                   PROVE  AtWork(r, t)'
        BY <2>1, InOrderAtWork DEF InOrder, AtWork, Undisturbed
      <3>1. AtWork(r, t)
        BY <1>1, InOrderAtWork DEF Orderly, Undisturbed
      <3>2. t # u
        BY <1>4, <1>5, NoneAssumption
      <3>3. AboutOwned(t)' = AboutOwned(t)
        BY <1>1, <2>1, <3>2 DEF AboutOwned, stripe
      <3> QED
        BY <1>1, <2>1, <3>1, <3>3, StillAtWork
    <2>7. CheckoutLinks'
      <3> SUFFICES ASSUME NEW d \in Customers, owner[d] \in Tenants \ disturbed'
                   PROVE  \/ \E x \in About(d)' : x.type = "checkout"
                          \/ tenant[owner[d]].customer # None
        BY <1>1 DEF CheckoutLinks, stripe
      <3>1. \/ \E x \in About(d) : x.type = "checkout"
            \/ tenant[owner[d]].customer # None
        BY <1>1 DEF Orderly, CheckoutLinks
      <3>2. ASSUME NEW x \in About(d), x.type = "checkout"
            PROVE  x \in About(d)'
        BY <2>1, <2>2, <3>2, NoneAssumption DEF About
      <3> QED
        BY <3>1, <3>2
    <2>8. RecordInStep'
      <3> SUFFICES ASSUME NEW t \in Tenants \ disturbed', NEW d \in Customers \ late,
                          tenant[t].customer = d, Owned(t) \cap inSub \subseteq {d}
                   PROVE  /\ About(d)' = {} => tenant[t].status = Due(d)
                          /\ \A x \in About(d)' :
                                (\A f \in About(d)' : x.n <= f.n)
                                    => Brings(tenant[t].status, x)
        BY <1>1 DEF RecordInStep, Owned, Due, stripe
      <3>1. About(d)' = About(d)
        BY <2>1, <2>3 DEF About
      <3> QED
        BY <1>1, <3>1 DEF Orderly, RecordInStep
    <2> QED
      BY <2>4, <2>5, <2>6, <2>7, <2>8 DEF Orderly
  <1>7. CASE TenantOf(e) # {}
    <2>1. PICK t \in TenantOf(e) :
             Load(s, t, e, NewStatus(tenant[t].status, e),
                  NewCustomer(tenant[t].customer, e))
      BY <1>7 DEF Receive
    <2>2. t \in Tenants /\ t = u
      BY RightTenant
    <2>3. outbox' = outbox
      BY <1>7, <2>1, <2>2 DEF Receive, Load, TypeOK, Idle
    <2>4. \A r \in Sessions : r # s => ses'[r] = ses[r]
      BY <2>1 DEF Load, TypeOK
    <2>5. /\ ses'[s].tenant = t /\ ses'[s].event = e
          /\ ses'[s].view.status = NewStatus(tenant[t].status, e)
          /\ ses'[s].view.customer = NewCustomer(tenant[t].customer, e)
          /\ "status" \notin ses'[s].dirty
                => ses'[s].view.status = tenant[t].status
          /\ "customer" \notin ses'[s].dirty
                => ses'[s].view.customer = tenant[t].customer
      BY <2>1 DEF Load, TypeOK
    <2>6. OwnWork'
      BY <1>1, <2>2, <2>4, <2>5 DEF Orderly, OwnWork, stripe
    <2>7. InOrder'
      <3> SUFFICES ASSUME NEW r \in Sessions, NEW v \in Tenants \ disturbed',
                          ses'[r].tenant = v
                   PROVE  AtWork(r, v)'
        BY DEF InOrder, AtWork
      <3>1. AboutOwned(v)' = AboutOwned(v)
        BY <1>1, <2>3 DEF AboutOwned, stripe
      <3>2. CASE r = s
        <4>1. v = t /\ e \in AboutOwned(v)
          BY <2>2, <2>5, <3>2 DEF AboutOwned
        <4>2. \A q \in Sessions : ses'[q].tenant = v => q = s
          BY <1>4, <2>2, <2>4, <4>1
        <4>3. TenantOf(e)' = TenantOf(e)
          BY <1>1 DEF TenantOf, ByMetadata, ByCustomer, stripe
        <4> QED
          BY <1>1, <1>3, <2>2, <2>5, <3>1, <3>2, <4>1, <4>2, <4>3 DEF AtWork
      <3>3. CASE r # s
        <4>1. AtWork(r, v)
          BY <1>1, <2>4, <3>3, InOrderAtWork DEF Orderly, Undisturbed
        <4>2. v # t
          BY <1>4, <2>2, <2>4, <3>3
        <4> QED
          BY <1>1, <2>4, <2>5, <3>1, <3>3, <4>1, <4>2, StillAtWork
      <3> QED
        BY <3>2, <3>3
    <2> QED
      BY <1>1, <2>3, <2>6, <2>7, NothingWritten DEF Orderly
  <1> QED
    BY <1>6, <1>7

\* Session s is over and has written the record of its tenant only.
LEMMA CommitWorks ==
    ASSUME TypeOK, NEW s \in Sessions, Commit(s), NEW t, t = ses[s].tenant
    PROVE  /\ t \in Tenants /\ t # None
           /\ \A v \in Tenants : v # t => tenant'[v] = tenant[v]
           /\ tenant'[t].status = IF "status" \in ses[s].dirty
                                  THEN ses[s].view.status ELSE tenant[t].status
           /\ tenant'[t].customer = IF "customer" \in ses[s].dirty
                                    THEN ses[s].view.customer
                                    ELSE tenant[t].customer
           /\ \A r \in Sessions : r # s => ses'[r] = ses[r]
           /\ ses'[s] = Idle
           /\ UNCHANGED <<stripe, disturbed>>
  <1>1. t \in Tenants /\ t # None
    BY DEF Commit, TypeOK, Session
  <1> QED
    BY <1>1 DEF Commit, TypeOK

\* The commit for an undisturbed tenant brings its record in step with the
\* event, and the next event about the customer finds it so.
LEMMA CommitInStep ==
    ASSUME TypeOK, Truths, Orderly, UNCHANGED stripe,
           NEW t \in Undisturbed, NEW e \in outbox, owner[e.customer] = t,
           \A f \in AboutOwned(t) : e.n <= f.n, t \in TenantOf(e),
           tenant'[t].status = NewStatus(tenant[t].status, e),
           tenant'[t].customer = NewCustomer(tenant[t].customer, e),
           outbox' = outbox \/ outbox' = outbox \ {e},
           NEW d \in Customers \ late, tenant'[t].customer = d,
           Owned(t) \cap inSub \subseteq {d}
    PROVE  /\ About(d)' = {} => tenant'[t].status = Due(d)
           /\ \A f \in About(d)' : (\A g \in About(d)' : f.n <= g.n)
                                       => Brings(tenant'[t].status, f)
  <1>1. t \in Tenants /\ t \notin disturbed
    BY DEF Undisturbed
  <1>2. e.customer = d
    <2> SUFFICES ASSUME e.type # "checkout"
                 PROVE  e.customer = d
      BY DEF NewCustomer
    <2>1. tenant[t].customer = d
      BY DEF NewCustomer
    <2>2. CASE ByMetadata(e) # {}
      <3>1. e.customer \in Owned(t) \cap inSub
        BY <2>2, EventTypes DEF ByMetadata, Owned
      <3> QED
        BY <3>1
    <2>3. CASE ByMetadata(e) = {}
      BY <2>1, <2>3 DEF TenantOf, ByCustomer
    <2> QED
      BY <2>2, <2>3
  <1>3. e \in About(d) /\ About(d) \subseteq AboutOwned(t)
    BY <1>2 DEF About, AboutOwned
  <1>4. Brings(tenant[t].status, e)
    <2>1. CASE e.type = "checkout"
      <3>1. Brings(DueFor(e.status), e)
        BY <1>2 DEF Orderly, EventsRepeat
      <3> QED
        BY <2>1, <3>1 DEF Brings, NewStatus
    <2>2. CASE e.type # "checkout"
      <3>1. tenant[t].customer = d
        BY <2>2 DEF NewCustomer
      <3> QED
        BY <1>1, <1>3, <3>1 DEF Orderly, RecordInStep
    <2> QED
      BY <2>1, <2>2
  <1>5. tenant'[t].status = DueFor(e.status)
    BY <1>4 DEF Brings
  <1>6. About(d)' \subseteq About(d) /\ About(d) \subseteq About(d)' \cup {e}
    BY DEF About
  <1>7. \A f \in About(d) : f \in outbox /\ f.customer = d /\ f.n \in Nat
    BY EventTypes DEF About
  <1>8. ASSUME About(d)' = {}
        PROVE  tenant'[t].status = Due(d)
    <2>1. \A f \in About(d) : f.n <= e.n
      BY <1>3, <1>6, <1>7, <1>8
    <2>2. e.status = sub[d]
      BY <1>1, <1>2, <2>1 DEF Orderly, LastTells
    <2> QED
      BY <1>5, <2>2 DEF Due
  <1>9. ASSUME NEW f \in About(d)', \A g \in About(d)' : f.n <= g.n
        PROVE  Brings(DueFor(e.status), f)
    <2>1. f \in About(d) /\ e.n <= f.n
      BY <1>3, <1>6
    <2>2. CASE e.n = f.n
      <3>1. e.status = f.status
        BY <1>7, <2>1, <2>2 DEF Orderly, EventsNumbered
      <3> QED
        BY <1>7, <2>1, <3>1 DEF Orderly, EventsRepeat
    <2>3. CASE e.n < f.n
      <3>1. \A g \in About(d) : g.n <= e.n \/ f.n <= g.n
        BY <1>3, <1>6, <1>7, <1>9
      <3> QED
        BY <1>1, <1>2, <1>7, <2>1, <2>3, <3>1 DEF Orderly, EventsChain
    <2> QED
      BY <1>3, <1>7, <2>1, <2>2, <2>3
  <1> QED
    BY <1>5, <1>8, <1>9

LEMMA CommitOrder ==
    ASSUME TypeOK, Truths, Orderly, NEW s \in Sessions, Commit(s)
    PROVE  Orderly'
  <1> PICK t, e : t = ses[s].tenant /\ e = ses[s].event
    OBVIOUS
  <1>1. /\ t \in Tenants /\ t # None
        /\ \A v \in Tenants : v # t => tenant'[v] = tenant[v]
        /\ \A r \in Sessions : r # s => ses'[r] = ses[r]
        /\ ses'[s].tenant = None
        /\ UNCHANGED <<stripe, disturbed>>
    BY CommitWorks DEF Idle
  <1>2. outbox' = outbox \/ outbox' = outbox \ {e}
    BY DEF Commit
  <1>3. e \in outbox => owner[e.customer] = t
    BY <1>1, EventTypes DEF Orderly, OwnWork
  <1>4. t \in Undisturbed => AtWork(s, t)
    BY InOrderAtWork DEF Orderly
  <1>5. t \in Undisturbed =>
           /\ e \in outbox /\ owner[e.customer] = t
           /\ \A f \in AboutOwned(t) : e.n <= f.n
           /\ \A r \in Sessions : ses[r].tenant = t => r = s
           /\ t \in TenantOf(e)
    BY <1>4 DEF AtWork, AboutOwned
  <1>6. t \in Undisturbed =>
           /\ tenant'[t].status = NewStatus(tenant[t].status, e)
           /\ tenant'[t].customer = NewCustomer(tenant[t].customer, e)
    BY <1>4, CommitWorks DEF AtWork
  <1>7. EventsNumbered' /\ EventsRepeat' /\ EventsChain' /\ LastTells'
    BY <1>1, <1>2, <1>3, <1>5, Answered DEF Undisturbed
  <1>8. OwnWork'
    BY <1>1 DEF Orderly, OwnWork, stripe
  <1>9. InOrder'
    <2> SUFFICES ASSUME NEW r \in Sessions, NEW v \in Undisturbed,
                        ses'[r].tenant = v
                 PROVE  AtWork(r, v)'
      BY <1>1 DEF InOrder, AtWork, Undisturbed
    <2>1. v \in Tenants /\ v # None /\ r # s
      BY <1>1, NoneAssumption DEF Undisturbed
    <2>2. v # t
      BY <1>1, <1>5, <2>1
    <2>3. AtWork(r, v)
      BY <1>1, <2>1, InOrderAtWork DEF Orderly
    <2>4. AboutOwned(v)' = AboutOwned(v)
      BY <1>1, <1>2, <1>3, <2>2 DEF AboutOwned, stripe
    <2> QED
      BY <1>1, <2>1, <2>2, <2>3, <2>4, StillAtWork
  <1>10. CheckoutLinks'
    <2> SUFFICES ASSUME NEW d \in Customers, NEW v \in Undisturbed, owner[d] = v
                 PROVE  \/ \E x \in About(d)' : x.type = "checkout"
                        \/ tenant'[v].customer # None
      BY <1>1 DEF CheckoutLinks, Undisturbed, stripe
    <2>1. \/ \E x \in About(d) : x.type = "checkout"
          \/ tenant[v].customer # None
      BY DEF Orderly, CheckoutLinks, Undisturbed
    <2>2. v = t => e.customer # None
      BY <1>5, EventTypes, NoneAssumption
    <2>3. ASSUME tenant[v].customer # None
          PROVE  tenant'[v].customer # None
      BY <1>1, <1>6, <2>2, <2>3 DEF NewCustomer, Undisturbed
    <2>4. ASSUME NEW x \in About(d), x.type = "checkout", x \notin About(d)'
          PROVE  tenant'[v].customer # None
      <3>1. x = e /\ e \in outbox
        BY <1>2, <2>4 DEF About
      <3>2. v = t
        BY <1>3, <2>4, <3>1 DEF About
      <3> QED
        BY <1>6, <2>2, <2>4, <3>1, <3>2 DEF NewCustomer
    <2> QED
      BY <2>1, <2>3, <2>4
  <1>11. RecordInStep'
    <2> SUFFICES ASSUME NEW v \in Undisturbed, NEW d \in Customers \ late,
                        tenant'[v].customer = d, Owned(v) \cap inSub \subseteq {d}
                 PROVE  /\ About(d)' = {} => tenant'[v].status = Due(d)
                        /\ \A f \in About(d)' :
                              (\A g \in About(d)' : f.n <= g.n)
                                  => Brings(tenant'[v].status, f)
      BY <1>1 DEF RecordInStep, Undisturbed, Owned, Due, stripe
    <2>1. CASE v = t
      BY <1>1, <1>2, <1>5, <1>6, <2>1, CommitInStep
    <2>2. CASE v # t
      <3>1. tenant'[v] = tenant[v]
        BY <1>1, <2>2 DEF Undisturbed
      <3>2. owner[d] = v
        BY <3>1, NoneAssumption DEF Truths, LinkedToOwn, Undisturbed
      <3>3. About(d)' = About(d)
        BY <1>2, <1>3, <2>2, <3>2 DEF About
      <3> QED
        BY <3>1, <3>3 DEF Orderly, RecordInStep, Undisturbed
    <2> QED
      BY <2>1, <2>2
  <1> QED
    BY <1>7, <1>8, <1>9, <1>10, <1>11 DEF Orderly

LEMMA OrderlyNext ==
    ASSUME TypeOK, Truths, Orderly, [Next]_vars
    PROVE  Orderly'
  <1>1. ASSUME UNCHANGED <<stripe, outbox, tenant>>, disturbed \subseteq disturbed',
               NEW s \in Sessions,
               \A r \in Sessions : r # s => ses'[r] = ses[r],
               ses'[s].tenant \notin Tenants \ disturbed',
               ses'[s].event = None \/ ses'[s].tenant = None
        PROVE  Orderly'
    <2>1. OwnWork'
      BY <1>1 DEF Orderly, OwnWork, stripe
    <2>2. InOrder'
      <3> SUFFICES ASSUME NEW r \in Sessions, NEW v \in Tenants \ disturbed',
                          ses'[r].tenant = v
                   PROVE  AtWork(r, v)'
        BY DEF InOrder, AtWork
      <3>1. r # s
        BY <1>1
      <3>2. AtWork(r, v)
        BY <1>1, <3>1, InOrderAtWork DEF Orderly, Undisturbed
      <3>3. AboutOwned(v)' = AboutOwned(v)
        BY <1>1 DEF AboutOwned, stripe
      <3> QED
        BY <1>1, <3>1, <3>2, <3>3, StillAtWork
    <2> QED
      BY <1>1, <2>1, <2>2, NothingWritten DEF Orderly
  <1>2. CASE UNCHANGED vars
    <2>1. UNCHANGED <<stripe, outbox, tenant, ses, disturbed>>
      BY <1>2 DEF vars
    <2>2. OwnWork'
      BY <2>1 DEF Orderly, OwnWork, stripe
    <2>3. InOrder'
      BY <2>1 DEF Orderly, InOrder, AboutOwned, TenantOf, ByMetadata, ByCustomer,
                  stripe
    <2> QED
      BY <2>1, <2>2, <2>3, NothingWritten DEF Orderly
  <1>3. ASSUME NEW c \in Customers,
               Checkout(c) \/ PaymentSucceeds(c) \/ PaymentFails(c) \/ Ends(c)
        PROVE  Orderly'
    BY <1>3, StripeSteps, StripeOrder
  <1>4. ASSUME NEW s \in Sessions, Fails(s)
        PROVE  Orderly'
    <2>1. /\ ses'[s].tenant = None /\ None \notin Tenants
          /\ \A r \in Sessions : r # s => ses'[r] = ses[r]
      BY <1>4, NoneAssumption DEF Fails, TypeOK, Idle
    <2> QED
      BY <1>1, <1>4, <2>1 DEF Fails
  <1>5. ASSUME NEW s \in Sessions, NEW t \in Tenants, SetStatus(s, t)
        PROVE  Orderly'
    <2>1. /\ ses'[s].tenant = t /\ ses'[s].event = None
          /\ \A r \in Sessions : r # s => ses'[r] = ses[r]
      BY <1>5 DEF SetStatus, Load, TypeOK
    <2>2. t \in disturbed' /\ disturbed \subseteq disturbed'
      BY <1>5 DEF SetStatus
    <2> QED
      BY <1>1, <1>5, <2>1, <2>2 DEF SetStatus
  <1> QED
    BY <1>2, <1>3, <1>4, <1>5, ReceiveOrder, CommitOrder DEF Next, Handle

-----------------------------------------------------------------------------
(* Theorems *)

LEMMA InitInductive ==
    ASSUME Init
    PROVE  IInv
  <1>1. Fresh \in Record /\ Idle \in Session
    BY IdleType DEF Fresh, Record, TenantStatus
  <1>2. TypeOK
    BY <1>1, BoundsAssumption DEF Init, TypeOK, SubStatus
  <1>3. Truths
    BY DEF Init, Truths, NamedWhenSold, EventsTrue, LinkedToOwn, SessionsTrue,
           CanceledOnlyIfEnded, Fresh, Idle
  <1>4. Orderly
    BY NoneAssumption
       DEF Init, Orderly, EventsNumbered, EventsRepeat, EventsChain, LastTells,
           OwnWork, InOrder, CheckoutLinks, RecordInStep, Idle, Fresh
  <1> QED
    BY <1>2, <1>3, <1>4 DEF IInv, Truths, Orderly

\* The invariant holds for any number of tenants, customers, sessions,
\* events, faults and operator's commands (Next, all of billing/webhook.py).
THEOREM Inductive == Spec => []IInv
  <1>1. Init => IInv
    BY InitInductive
  <1>2. IInv /\ [Next]_vars => IInv'
    BY TypeNext, TruthsNext, OrderlyNext DEF IInv, Truths, Orderly
  <1> QED
    BY <1>1, <1>2, PTL DEF Spec

\* The types of the records, events and sessions of billing/webhook.py.
THEOREM TypeCorrect == Spec => []TypeOK
  <1>1. IInv => TypeOK
    BY DEF IInv
  <1> QED
    BY <1>1, Inductive, PTL

\* A tenant is canceled only if a subscription sold to it has ended, in
\* whatever order and however often the handlers get Stripe's events.
THEOREM CancelsEnded == Spec => []CanceledOnlyIfEnded
  <1>1. IInv => CanceledOnlyIfEnded
    BY DEF IInv
  <1> QED
    BY <1>1, Inductive, PTL

\* With its events answered, an undisturbed tenant is linked to a customer of
\* its own, and its record is what that subscription asks for.
LEMMA OrderlySettles ==
    ASSUME IInv
    PROVE  SettledAgrees
  <1> SUFFICES ASSUME NEW t \in Tenants \ disturbed, NEW c \in Customers \ late,
                      owner[c] = t, tenant[t].customer = c \/ Owned(t) = {c},
                      Owned(t) \cap inSub \subseteq {c}, Settled(t)
               PROVE  tenant[t].status = Due(c)
    BY DEF SettledAgrees
  <1>1. About(c) = {}
    BY DEF Settled, About
  <1>2. tenant[t].customer = c
    <2> SUFFICES ASSUME Owned(t) = {c}
                 PROVE  tenant[t].customer = c
      OBVIOUS
    <2>1. tenant[t].customer # None
      BY <1>1 DEF IInv, CheckoutLinks
    <2>2. tenant[t].customer \in Customers /\ owner[tenant[t].customer] = t
      BY <2>1 DEF IInv, TypeOK, Record, LinkedToOwn
    <2> QED
      BY <2>2 DEF Owned
  <1> QED
    BY <1>1, <1>2 DEF IInv, RecordInStep

\* Repeated deliveries, lost answers and failing requests alone never leave a
\* tenant's status other than its subscription asks for, once the handlers
\* have answered all its events.
THEOREM SettlesInStep == Spec => []SettledAgrees
  <1>1. IInv => SettledAgrees
    BY OrderlySettles
  <1> QED
    BY <1>1, Inductive, PTL

=============================================================================
