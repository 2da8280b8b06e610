------------------------------ MODULE Billing ------------------------------
(***************************************************************************)
(* The status of tenants, as Stripe's events and the operator drive it     *)
(* (billing/webhook.py, scripts/saas_admin.py).                            *)
(*                                                                         *)
(* Stripe delivers an event at least once, in any order, and delivers it   *)
(* again until it is answered.  Each delivery is a session of its own: it  *)
(* loads the tenant, changes the object, and its flush and commit write    *)
(* the changed columns.  One record is all a session writes, so its flush  *)
(* and its commit are one step.                                            *)
(*                                                                         *)
(* Every checkout makes a customer with one subscription, so a customer    *)
(* stands for both.  Left out: subscription id, period, e-mails, plans.    *)
(***************************************************************************)
EXTENDS Naturals

CONSTANTS
    Tenants,    \* the tenants an operator has created
    Customers,  \* the customers Stripe can make (bounds the model)
    Sessions,   \* concurrent requests and operator's commands
    None,       \* no tenant, no customer, no event
    MaxChanges, \* changes of subscriptions (bounds the model)
    MaxEdits,   \* operator's commands (bounds the model)
    MaxFaults   \* failing requests and lost answers (bounds the model)

ASSUME NoneAssumption == None \notin Tenants \cup Customers

ASSUME BoundsAssumption ==
    MaxChanges \in Nat /\ MaxEdits \in Nat /\ MaxFaults \in Nat

VARIABLES
    sub,        \* each customer's subscription at Stripe
    owner,      \* the tenant_id in the metadata of the customer's checkout
    inSub,      \* the customers whose subscription carries it as well
    late,       \* history: customers a payment of whom failed after the end
    outbox,     \* the events not answered yet
    issued,     \* the changes so far, which number the events
    tenant,     \* the committed record of each tenant
    ses,        \* the state of each session
    disturbed,  \* the tenants that events reached out of order, or an operator
    edits,      \* the operator's commands so far
    faults      \* the faults so far

stripe == <<sub, owner, inSub, late, issued>>
vars == <<stripe, outbox, tenant, ses, disturbed, edits, faults>>

-----------------------------------------------------------------------------

SubStatus == {"none", "active", "past_due", "unpaid", "canceled"}

TenantStatus == {"active", "past_due", "suspended", "canceled"}

EventType == {"checkout", "change", "deleted", "succeeded", "failed"}

Event == [n : 1 .. MaxChanges, type : EventType, customer : Customers,
          status : SubStatus]

Record == [status : TenantStatus, customer : Customers \cup {None}]

Session == [tenant : Tenants \cup {None},
            event  : Event \cup {None},
            view   : Record,
            dirty  : SUBSET {"status", "customer"}]

ASSUME NoEventAssumption == None \notin Event

Fresh == [status |-> "active", customer |-> None]

Idle == [tenant |-> None, event |-> None, view |-> Fresh, dirty |-> {}]

TypeOK ==
    /\ sub \in [Customers -> SubStatus]
    /\ owner \in [Customers -> Tenants \cup {None}]
    /\ inSub \subseteq Customers
    /\ late \subseteq Customers
    /\ outbox \subseteq Event
    /\ issued \in 0 .. MaxChanges
    /\ tenant \in [Tenants -> Record]
    /\ ses \in [Sessions -> Session]
    /\ disturbed \subseteq Tenants
    /\ edits \in 0 .. MaxEdits
    /\ faults \in 0 .. MaxFaults

Init ==
    /\ sub = [c \in Customers |-> "none"]
    /\ owner = [c \in Customers |-> None]
    /\ inSub = {}
    /\ late = {}
    /\ outbox = {}
    /\ issued = 0
    /\ tenant = [t \in Tenants |-> Fresh]
    /\ ses = [s \in Sessions |-> Idle]
    /\ disturbed = {}
    /\ edits = 0
    /\ faults = 0

-----------------------------------------------------------------------------
(* Stripe *)

\* Subscription c gets the given status, and Stripe issues events of the given
\* types about it at once; an event carries the status of its time.
Issue(c, status, types) ==
    /\ issued < MaxChanges
    /\ issued' = issued + 1
    /\ sub' = [sub EXCEPT ![c] = status]
    /\ outbox' = outbox \cup {[n |-> issued', type |-> type, customer |-> c,
                               status |-> status] : type \in types}
    /\ UNCHANGED <<tenant, ses, disturbed, edits, faults>>

\* The checkout of main.py gives no tenant_id, a signup page does.
Checkout(c) ==
    /\ sub[c] = "none"
    /\ \E t \in Tenants \cup {None} :
          /\ owner' = [owner EXCEPT ![c] = t]
          /\ inSub' \in IF t = None THEN {inSub} ELSE {inSub, inSub \cup {c}}
    /\ UNCHANGED late
    /\ Issue(c, "active", {"change", "checkout"})

PaymentSucceeds(c) ==
    /\ UNCHANGED <<owner, inSub, late>>
    /\ \/ /\ sub[c] \in {"active", "canceled"}
          /\ Issue(c, sub[c], {"succeeded"})
       \/ /\ sub[c] \in {"past_due", "unpaid"}
          /\ Issue(c, "active", {"succeeded", "change"})

\* An invoice left open may still be tried after the subscription has ended.
PaymentFails(c) ==
    /\ UNCHANGED <<owner, inSub>>
    /\ late' = IF sub[c] = "canceled" THEN late \cup {c} ELSE late
    /\ \/ /\ sub[c] = "active"
          /\ Issue(c, "past_due", {"failed", "change"})
       \/ /\ sub[c] = "past_due"
          /\ \/ Issue(c, "past_due", {"failed"})
             \/ Issue(c, "unpaid", {"change"})
       \/ /\ sub[c] = "canceled"
          /\ Issue(c, "canceled", {"failed"})

Ends(c) ==
    /\ sub[c] \in {"active", "past_due", "unpaid"}
    /\ UNCHANGED <<owner, inSub, late>>
    /\ Issue(c, "canceled", {"deleted"})

-----------------------------------------------------------------------------
(* handle_stripe_event *)

ByMetadata(e) ==
    IF e.type = "checkout" \/ (e.type = "change" /\ e.customer \in inSub)
    THEN {owner[e.customer]} \ {None} ELSE {}

ByCustomer(e) ==
    IF e.type = "checkout" THEN {}
    ELSE {t \in Tenants : tenant[t].customer = e.customer}

\* Mutant: the customer is only asked for, not compared.
TenantOfAnyone(e) ==
    IF ByMetadata(e) # {} THEN ByMetadata(e)
    ELSE {t \in Tenants : tenant[t].customer # None}

\* The metadata come first.
TenantOf(e) == IF ByMetadata(e) # {} THEN ByMetadata(e) ELSE ByCustomer(e)

\* Mutant: a subscription is active or it is not.
ChangeToActive(status, e) == IF e.status = "canceled" THEN "canceled" ELSE "active"

\* Mutant: a subscription that stays unpaid is over.
ChangeUnpaidEnds(status, e) == IF e.status = "unpaid" THEN "canceled" ELSE e.status

\* Mutant: Stripe's word is stored as it is.
ChangeAsTold(status, e) == e.status

\* _on_subscription_change: other states leave the status alone.
OnSubscriptionChange(status, e) ==
    IF e.status \in {"active", "past_due", "canceled"} THEN e.status ELSE status

OnPaymentSucceeded(status) ==
    IF status \in {"past_due", "suspended"} THEN "active" ELSE status

NewStatus(status, e) ==
    CASE e.type = "checkout"  -> "active"
      [] e.type = "change"    -> OnSubscriptionChange(status, e)
      [] e.type = "deleted"   -> "canceled"
      [] e.type = "succeeded" -> OnPaymentSucceeded(status)
      [] e.type = "failed"    -> "past_due"

NewCustomer(customer, e) == IF e.type = "checkout" THEN e.customer ELSE customer

\* Session s has loaded tenant t and changed its object; a column that gets
\* the value it had is not written.
Load(s, t, e, status, customer) ==
    ses' = [ses EXCEPT ![s] =
              [tenant |-> t, event |-> e,
               view   |-> [status |-> status, customer |-> customer],
               dirty  |-> {col \in {"status", "customer"} :
                             IF col = "status" THEN status # tenant[t].status
                             ELSE customer # tenant[t].customer}]]

\* An event overtakes one issued before it, or meets another session that is
\* at work for the same tenant.
Disorder(s, e) ==
    \/ \E f \in outbox :
          owner[f.customer] = owner[e.customer] /\ f.n < e.n
    \/ \E r \in Sessions :
          r # s /\ ses[r].tenant # None /\ ses[r].tenant = owner[e.customer]

Receive(s, e) ==
    /\ ses[s] = Idle
    /\ e \in outbox
    /\ disturbed' = IF Disorder(s, e) THEN disturbed \cup ({owner[e.customer]} \ {None})
                    ELSE disturbed
    /\ \/ \E t \in TenantOf(e) :
             /\ Load(s, t, e, NewStatus(tenant[t].status, e),
                     NewCustomer(tenant[t].customer, e))
             /\ UNCHANGED outbox
       \/ /\ TenantOf(e) = {}
          /\ outbox' = outbox \ {e}
          /\ UNCHANGED ses
    /\ UNCHANGED <<stripe, tenant, edits, faults>>

Fault == faults < MaxFaults /\ faults' = faults + 1

\* The commit writes the changed columns over whatever the record is by now.
\* Stripe learns of it, or the answer is lost and the event comes again.
Commit(s) ==
    /\ ses[s].tenant # None
    /\ tenant' = [tenant EXCEPT ![ses[s].tenant] =
                    [status   |-> IF "status" \in ses[s].dirty
                                  THEN ses[s].view.status ELSE @.status,
                     customer |-> IF "customer" \in ses[s].dirty
                                  THEN ses[s].view.customer ELSE @.customer]]
    /\ ses' = [ses EXCEPT ![s] = Idle]
    /\ \/ outbox' = outbox \ {ses[s].event} /\ UNCHANGED faults
       \/ ses[s].event # None /\ Fault /\ UNCHANGED outbox
    /\ UNCHANGED <<stripe, disturbed, edits>>

\* The request fails: get_db rolls back and the event comes again.
Fails(s) ==
    /\ ses[s].tenant # None
    /\ Fault
    /\ ses' = [ses EXCEPT ![s] = Idle]
    /\ UNCHANGED <<stripe, outbox, tenant, disturbed, edits>>

\* saas_admin.py tenant suspend and tenant activate.
SetStatus(s, t) ==
    /\ ses[s] = Idle
    /\ edits < MaxEdits
    /\ edits' = edits + 1
    /\ \E status \in {"suspended", "active"} :
          Load(s, t, None, status, tenant[t].customer)
    /\ disturbed' = disturbed \cup {t}
    /\ UNCHANGED <<stripe, outbox, tenant, faults>>

-----------------------------------------------------------------------------

Handle(s) == (\E e \in outbox : Receive(s, e)) \/ Commit(s)

Next ==
    \/ \E c \in Customers :
          Checkout(c) \/ PaymentSucceeds(c) \/ PaymentFails(c) \/ Ends(c)
    \/ \E s \in Sessions : Handle(s) \/ Fails(s) \/ \E t \in Tenants : SetStatus(s, t)

Spec == Init /\ [][Next]_vars

\* Stripe delivers an event until it is answered, and requests end; nothing
\* is assumed of what customers and operators do.
FairSpec == Spec /\ \A s \in Sessions : WF_vars(Handle(s))

-----------------------------------------------------------------------------
(* Properties *)

\* A subscription sold to tenant t has ended.
SomeEnded(t) == \E c \in Customers : owner[c] = t /\ sub[c] = "canceled"

\* A tenant is canceled only if a subscription sold to this very tenant has
\* ended at Stripe, whatever the order of events, customers and sessions
\* (webhook.py, _tenant_by_customer and the handlers that write "canceled").
CanceledOnlyIfEnded ==
    \A t \in Tenants : tenant[t].status = "canceled" => SomeEnded(t)

Owned(t) == {c \in Customers : owner[c] = t}

Settled(t) ==
    /\ \A e \in outbox : owner[e.customer] # t
    /\ \A s \in Sessions : ses[s].tenant # t

DueFor(status) == IF status = "unpaid" THEN "past_due" ELSE status

Due(c) == DueFor(sub[c])

\* Duplicates, lost answers and failing requests alone never make a tenant's
\* status differ from the subscription it is linked to: once all its events
\* are answered the two agree, unless one overtook another or an operator
\* stepped in, an older subscription goes on naming the tenant, or a payment
\* failed after the end, which makes the tenant past_due (webhook.py:168).
SettledAgrees ==
    \A t \in Tenants \ disturbed, c \in Customers \ late :
        /\ owner[c] = t
        /\ tenant[t].customer = c \/ Owned(t) = {c}
        /\ Owned(t) \cap inSub \subseteq {c}
        /\ Settled(t)
        => tenant[t].status = Due(c)

\* ARCHITECTURE_SAAS.md:212, "customer.subscription.deleted ->
\* status=canceled": a tenant whose subscription has ended, without a payment
\* failing after the end, is canceled in the end.
CanceledInTheEnd ==
    \A t \in Tenants :
        <>[](\E c \in Customers \ late : Owned(t) = {c} /\ sub[c] = "canceled")
            => <>[](tenant[t].status = "canceled")

-----------------------------------------------------------------------------
(* The inductive invariant that the proofs of BillingProofs use *)

\* A checkout names its tenant once and for all.
NamedWhenSold == \A c \in Customers : sub[c] = "none" => owner[c] = None

\* An event that tells of the end was issued after it.
EventsTrue ==
    \A e \in outbox :
        /\ sub[e.customer] # "none"
        /\ e.type = "deleted" \/ e.status = "canceled"
              => sub[e.customer] = "canceled"

LinkedToOwn ==
    \A t \in Tenants : tenant[t].customer # None => owner[tenant[t].customer] = t

\* What a session is about to write is true of its tenant.
SessionsTrue ==
    \A s \in Sessions :
        LET t == ses[s].tenant
            view == ses[s].view
        IN t # None =>
              /\ view.customer # None => owner[view.customer] = t
              /\ view.status = "canceled" => SomeEnded(t)

\* The events about customer c that are not answered yet, and those of a
\* tenant's customers.
About(c) == {e \in outbox : e.customer = c}

AboutOwned(t) == {e \in outbox : owner[e.customer] = t}

\* Events are numbered in the order they are issued; those issued together
\* tell the same of one customer.
EventsNumbered ==
    \A e \in outbox :
        /\ e.n <= issued
        /\ \A f \in outbox :
              e.n = f.n => e.customer = f.customer /\ e.status = f.status

\* Handled on a record with this status, the event makes it what is due.
Brings(status, e) == NewStatus(status, e) = DueFor(e.status)

\* Of a customer without a failed payment after the end, so does every event
\* on a record to which it is news no more,
EventsRepeat ==
    \A e \in outbox : e.customer \notin late => Brings(DueFor(e.status), e)

\* and the next one about the same customer.
EventsChain ==
    \A e, f \in outbox :
        /\ owner[e.customer] \in Tenants \ disturbed
        /\ e.customer \notin late
        /\ f \in About(e.customer)
        /\ e.n < f.n
        /\ \A g \in About(e.customer) : g.n <= e.n \/ f.n <= g.n
        => Brings(DueFor(e.status), f)

\* The last event about a customer tells of its subscription.
LastTells ==
    \A e \in outbox :
        /\ owner[e.customer] \in Tenants \ disturbed
        /\ \A f \in About(e.customer) : f.n <= e.n
        => e.status = sub[e.customer]

\* A session is at work for the tenant its event's subscription was sold to.
OwnWork ==
    \A s \in Sessions :
        ses[s].tenant # None /\ ses[s].event # None
            => owner[ses[s].event.customer] = ses[s].tenant

\* An undisturbed tenant has one session at a time, at work on the first of
\* its events, and the record is as the session found it.
InOrder ==
    \A s \in Sessions :
        LET t == ses[s].tenant
            e == ses[s].event
            view == ses[s].view
            dirty == ses[s].dirty
        IN t \in Tenants \ disturbed =>
              /\ e \in AboutOwned(t)
              /\ \A f \in AboutOwned(t) : e.n <= f.n
              /\ \A r \in Sessions : ses[r].tenant = t => r = s
              /\ t \in TenantOf(e)
              /\ view.status = NewStatus(tenant[t].status, e)
              /\ view.customer = NewCustomer(tenant[t].customer, e)
              /\ "status" \notin dirty => view.status = tenant[t].status
              /\ "customer" \notin dirty => view.customer = tenant[t].customer

\* A checkout that is answered has linked its tenant.
CheckoutLinks ==
    \A c \in Customers :
        owner[c] \in Tenants \ disturbed =>
            \/ \E e \in About(c) : e.type = "checkout"
            \/ tenant[owner[c]].customer # None

\* The record of an undisturbed tenant is as the customer it is linked to
\* was before the first event not answered yet.
RecordInStep ==
    \A t \in Tenants \ disturbed, c \in Customers \ late :
        /\ tenant[t].customer = c
        /\ Owned(t) \cap inSub \subseteq {c}
        => /\ About(c) = {} => tenant[t].status = Due(c)
           /\ \A e \in About(c) :
                 (\A f \in About(c) : e.n <= f.n) => Brings(tenant[t].status, e)

IInv ==
    /\ TypeOK
    /\ NamedWhenSold
    /\ EventsTrue
    /\ LinkedToOwn
    /\ SessionsTrue
    /\ CanceledOnlyIfEnded
    /\ EventsNumbered
    /\ EventsRepeat
    /\ EventsChain
    /\ LastTells
    /\ OwnWork
    /\ InOrder
    /\ CheckoutLinks
    /\ RecordInStep

=============================================================================
