----------------------------- MODULE ImportRun -----------------------------
(***************************************************************************)
(* One level above OrderFlow: a run of the task import_orders over the     *)
(* Mirakl connections of all tenants (orchestrator.import_orders_for_all), *)
(* with the monthly order quota of billing/quota.py.                       *)
(*                                                                         *)
(* A run is ONE database transaction for all tenants.  It checks a         *)
(* tenant's quota before each connection and counts the imported orders    *)
(* after it, in the row of usage_counters of the tenant and the month; the *)
(* row stays locked until the run commits.  Runs overlap.                  *)
(*                                                                         *)
(* The orders of a page are counted, not told apart: OrderFlow has them    *)
(* one by one.  An import is one create_order with the upsert after it,    *)
(* whether the upsert inserts a record or updates one that was NEW or      *)
(* ERROR: two runs that import the same record make two imports of it.     *)
(* Alerts, the audit log and connection health are left out.               *)
(***************************************************************************)
EXTENDS Integers, FiniteSets, FiniteSetsExt

CONSTANTS
    Tenants,
    Connections, \* the active Mirakl connections
    TenantOf,    \* the tenant of each connection
    Runs,        \* concurrent runs of the task
    None,        \* no connection, no run
    PageSize,    \* limit of get_orders
    MaxAttempts, \* stop_after_attempt of create_order
    Quotas,      \* the values monthly_quota is given
    LastMonth,   \* months of a behaviour (bounds the model)
    MaxCreated,  \* PlentyONE orders of a behaviour (bounds the model)
    MaxAborts,   \* runs rolled back in a behaviour (bounds the model)
    MaxEdits     \* changes by the operator in a behaviour (bounds the model)

ASSUME ConstantsAssumption ==
    /\ TenantOf \in [Connections -> Tenants]
    /\ None \notin Connections \cup Runs
    /\ {PageSize, MaxAttempts} \subseteq Nat \ {0}
    /\ Quotas \subseteq Nat
    /\ \E q \in Quotas \cup {1} : \A p \in Quotas \cup {1} : q >= p
    /\ IsFiniteSet(Runs) /\ IsFiniteSet(Connections)
    /\ {LastMonth, MaxCreated, MaxAborts, MaxEdits} \subseteq Nat

Months == 0 .. LastMonth

Cells == Tenants \X Months

VARIABLES
    status,    \* tenants.status
    quota,     \* tenants.monthly_quota
    counter,   \* usage_counters.orders_imported, 0 where there is no row
    opened,    \* the rows of usage_counters that exist
    holder,    \* the run whose uncommitted increment each row carries
    imports,   \* the imports committed so far, per tenant
    created,   \* the orders stored in PlentyONE, per tenant
    surplus,   \* those of them whose id create_order has not returned
    run,       \* the state of each run
    utc,       \* the month in UTC
    berlin,    \* the month in Europe/Berlin, Celery's time zone
    reset,     \* whether the reset of the Berlin month is done
    aborts,    \* the runs rolled back so far
    edits,     \* the changes by the operator so far
    failed     \* history: tenants a connection of which failed after imports

vars == <<status, quota, counter, opened, holder, imports, created, surplus, run,
          utc, berlin, reset, aborts, edits, failed>>

-----------------------------------------------------------------------------

\* The statuses the code below gives or tests.
TenantStatus == {"active", "suspended", "quota_exceeded"}

Allowed == {"active"}

Run ==
    [pc    : {"idle", "next", "import"},
     todo  : SUBSET Connections,         \* connections still to come
     conn  : Connections \cup {None},    \* the current or last connection
     quota : [Tenants -> Nat],           \* as loaded at the start
     page  : 0 .. PageSize,              \* orders still to be created
     count : Nat,                        \* counts["imported"]
     made  : [Tenants -> Nat],           \* imports not committed yet
     added : [Cells -> Nat]]             \* increments not committed yet

Zero(S) == [x \in S |-> 0]

Idle ==
    [pc |-> "idle", todo |-> {}, conn |-> None, quota |-> Zero(Tenants),
     page |-> 0, count |-> 0, made |-> Zero(Tenants), added |-> Zero(Cells)]

TypeOK ==
    /\ status \in [Tenants -> TenantStatus]
    /\ quota \in [Tenants -> Quotas]
    /\ counter \in [Cells -> Nat]
    /\ opened \subseteq Cells
    /\ holder \in [Cells -> Runs \cup {None}]
    /\ imports \in [Tenants -> Nat]
    /\ created \in [Tenants -> Nat]
    /\ surplus \in [Tenants -> Nat]
    /\ run \in [Runs -> Run]
    /\ utc \in Months
    /\ berlin \in {utc, utc + 1}
    /\ reset \in BOOLEAN
    /\ aborts \in 0 .. MaxAborts
    /\ edits \in 0 .. MaxEdits
    /\ failed \subseteq Tenants

Init ==
    /\ status = [t \in Tenants |-> "active"]
    /\ quota \in [Tenants -> Quotas]
    /\ counter = Zero(Cells)
    /\ opened = {}
    /\ holder = [cell \in Cells |-> None]
    /\ imports = Zero(Tenants)
    /\ created = Zero(Tenants)
    /\ surplus = Zero(Tenants)
    /\ run = [r \in Runs |-> Idle]
    /\ utc = 0
    /\ berlin = 0
    /\ reset = TRUE
    /\ aborts = 0
    /\ edits = 0
    /\ failed = {}

tenants == <<status, quota, edits>>
history == <<aborts, failed>>
usage == <<counter, opened, holder>>
erp == <<created, surplus>>
clock == <<utc, berlin, reset>>

Become(r, next) == run' = [run EXCEPT ![r] = next]

-----------------------------------------------------------------------------
(* import_orders_for_all *)

TenantConnections(t) == {c \in Connections : TenantOf[c] = t}

ImportOrdersForAll(r) ==
    /\ run[r].pc = "idle"
    /\ LET pairs == {c \in Connections : status[TenantOf[c]] \in Allowed}
       IN /\ pairs # {}
          /\ Become(r, [Idle EXCEPT !.pc = "next", !.todo = pairs,
                                    !.quota = quota])
    /\ UNCHANGED <<tenants, usage, imports, erp, clock, history>>

\* Connections come grouped by tenant, otherwise in any order.
Upcoming(r) ==
    LET last == run[r].conn
        same == {c \in run[r].todo : last # None /\ TenantOf[c] = TenantOf[last]}
    IN IF same # {} THEN same ELSE run[r].todo

\* Mutant: the counter is read outside the transaction of the run.
UsedCommitted(r, t) == counter[<<t, utc>>]

\* quota_status sees committed increments and those of its own transaction.
Used(r, t) == counter[<<t, utc>>] + run[r].added[<<t, utc>>]

\* A quota of 0 counts as 1.
Limit(r, t) == IF run[r].quota[t] = 0 THEN 1 ELSE run[r].quota[t]

Blocked(r, t) == Used(r, t) >= Limit(r, t)

SkipBlocked(r, c) ==
    /\ run[r].pc = "next"
    /\ c \in Upcoming(r)
    /\ Blocked(r, TenantOf[c])
    /\ Become(r, [run[r] EXCEPT !.todo = @ \ {c}, !.conn = c])
    /\ UNCHANGED <<tenants, usage, imports, erp, clock, history>>

\* Mutant: the limit is not passed on.
OrdersPlusOne == 0 .. PageSize + 1

\* How many orders of a page get as far as create_order; the others are skipped
\* or quarantined, which changes nothing here.
Orders == 0 .. PageSize

\* Mutant: one counts dictionary for the whole run.
BeginKeepingCount(r, c, page) ==
    Become(r, [run[r] EXCEPT !.pc = "import", !.todo = @ \ {c}, !.conn = c,
                             !.page = page])

Begin(r, c, page) ==
    Become(r, [run[r] EXCEPT !.pc = "import", !.todo = @ \ {c}, !.conn = c,
                             !.page = page, !.count = 0])

BeginConnection(r, c) ==
    /\ run[r].pc = "next"
    /\ c \in Upcoming(r)
    /\ ~Blocked(r, TenantOf[c])
    /\ \E page \in Orders : Begin(r, c, page)
    /\ UNCHANGED <<tenants, usage, imports, erp, clock, history>>

\* create_order is tried again after an HTTP error, and an attempt may have
\* stored the order all the same.
Stored(t, attempts) ==
    /\ created[t] + attempts <= MaxCreated
    /\ created' = [created EXCEPT ![t] = @ + attempts]

\* The last attempt is answered with the id the record gets.
ImportOne(r) ==
    /\ run[r].pc = "import"
    /\ run[r].page > 0
    /\ LET t == TenantOf[run[r].conn]
       IN /\ \E attempts \in 1 .. MaxAttempts :
                /\ Stored(t, attempts)
                /\ surplus' = [surplus EXCEPT ![t] = @ + attempts - 1]
          /\ Become(r, [run[r] EXCEPT !.page = @ - 1, !.count = @ + 1,
                                      !.made[t] = @ + 1])
    /\ UNCHANGED <<tenants, usage, imports, clock, history>>

\* The last attempt fails: the record becomes an ERROR, which counts nothing.
CreateRaises(r) ==
    /\ run[r].pc = "import"
    /\ run[r].page > 0
    /\ LET t == TenantOf[run[r].conn]
       IN \E attempts \in 0 .. MaxAttempts :
             /\ Stored(t, attempts)
             /\ surplus' = [surplus EXCEPT ![t] = @ + attempts]
    /\ Become(r, [run[r] EXCEPT !.page = @ - 1])
    /\ UNCHANGED <<tenants, usage, imports, clock, history>>

\* Mutant: what the connection imported so far is undone.
EndAndUndo(r) ==
    Become(r, [run[r] EXCEPT !.pc = "next", !.page = 0,
                             !.made[TenantOf[run[r].conn]] = 0])

EndConnection(r) == Become(r, [run[r] EXCEPT !.pc = "next", !.page = 0])

\* An exception the service does not catch, such as a failed EAN lookup: the
\* orchestrator goes on with the next connection.
ConnectionFails(r) ==
    /\ run[r].pc = "import"
    /\ EndConnection(r)
    /\ failed' = IF run[r].count > 0 THEN failed \cup {TenantOf[run[r].conn]}
                                    ELSE failed
    /\ UNCHANGED <<tenants, usage, imports, erp, clock, aborts>>

NothingImported(r) ==
    /\ run[r].pc = "import"
    /\ run[r].page = 0
    /\ run[r].count = 0
    /\ Become(r, [run[r] EXCEPT !.pc = "next"])
    /\ UNCHANGED <<tenants, usage, imports, erp, clock, history>>

\* increment_usage waits for the lock of the row.
IncrementUsage(r) ==
    /\ run[r].pc = "import"
    /\ run[r].page = 0
    /\ run[r].count > 0
    /\ LET cell == <<TenantOf[run[r].conn], utc>>
       IN /\ holder[cell] \in {None, r}
          /\ holder' = [holder EXCEPT ![cell] = r]
          /\ Become(r, [run[r] EXCEPT !.pc = "next", !.added[cell] = @ + run[r].count])
    /\ UNCHANGED <<tenants, counter, opened, imports, erp, clock, history>>

Release(r) ==
    holder' = [cell \in Cells |-> IF holder[cell] = r THEN None ELSE holder[cell]]

\* Mutant: ON CONFLICT DO NOTHING, as the reset has it.
CommitIfNew(r) ==
    /\ run[r].pc = "next"
    /\ run[r].todo = {}
    /\ counter' = [cell \in Cells |-> IF cell \in opened THEN counter[cell]
                                                       ELSE run[r].added[cell]]
    /\ opened' = opened \cup {cell \in Cells : run[r].added[cell] > 0}
    /\ imports' = [t \in Tenants |-> imports[t] + run[r].made[t]]
    /\ Release(r)
    /\ Become(r, Idle)
    /\ UNCHANGED <<tenants, erp, clock, history>>

Commit(r) ==
    /\ run[r].pc = "next"
    /\ run[r].todo = {}
    /\ counter' = [cell \in Cells |-> counter[cell] + run[r].added[cell]]
    /\ opened' = opened \cup {cell \in Cells : run[r].added[cell] > 0}
    /\ imports' = [t \in Tenants |-> imports[t] + run[r].made[t]]
    /\ Release(r)
    /\ Become(r, Idle)
    /\ UNCHANGED <<tenants, erp, clock, history>>

\* A statement fails (unique constraint, deadlock, lost connection) or the
\* worker dies: the transaction of ALL tenants is undone.
Rollback(r) ==
    /\ run[r].pc # "idle"
    /\ aborts < MaxAborts
    /\ aborts' = aborts + 1
    /\ Release(r)
    /\ Become(r, Idle)
    /\ UNCHANGED <<tenants, counter, opened, imports, erp, clock, failed>>

-----------------------------------------------------------------------------
(* The operator and the calendar *)

Edit == edits < MaxEdits /\ edits' = edits + 1

SetQuota(t) ==
    /\ Edit
    /\ \E q \in Quotas \ {quota[t]} : quota' = [quota EXCEPT ![t] = q]
    /\ UNCHANGED <<status, usage, imports, erp, run, clock, history>>

SetStatus(t) ==
    /\ Edit
    /\ \E s \in {"active", "suspended"} \ {status[t]} :
          status' = [status EXCEPT ![t] = s]
    /\ UNCHANGED <<quota, usage, imports, erp, run, clock, history>>

\* Midnight of the first comes to Berlin before it comes to UTC.
BerlinMonth ==
    /\ berlin = utc
    /\ berlin < LastMonth
    /\ berlin' = berlin + 1
    /\ reset' = FALSE
    /\ UNCHANGED <<tenants, usage, imports, erp, run, utc, history>>

UtcMonth ==
    /\ utc < berlin
    /\ utc' = utc + 1
    /\ UNCHANGED <<tenants, usage, imports, erp, run, berlin, reset, history>>

\* Celery beat fires at 00:05 in Berlin; the code asks for the month in UTC.
MonthlyReset ==
    /\ ~reset
    /\ reset' = TRUE
    /\ LET found == {t \in Tenants : status[t] \in {"active", "quota_exceeded"}}
       IN /\ opened' = opened \cup {<<t, utc>> : t \in found}
          /\ status' = [t \in Tenants |-> IF status[t] = "quota_exceeded"
                                         THEN "active" ELSE status[t]]
    /\ UNCHANGED <<quota, counter, holder, imports, erp, run, utc, berlin,
                   history, edits>>

-----------------------------------------------------------------------------

RunStep(r) ==
    \/ ImportOrdersForAll(r)
    \/ \E c \in Connections : SkipBlocked(r, c) \/ BeginConnection(r, c)
    \/ ImportOne(r)
    \/ CreateRaises(r)
    \/ ConnectionFails(r)
    \/ NothingImported(r)
    \/ IncrementUsage(r)
    \/ Commit(r)

Next ==
    \/ \E r \in Runs : RunStep(r) \/ Rollback(r)
    \/ \E t \in Tenants : SetQuota(t) \/ SetStatus(t)
    \/ BerlinMonth
    \/ UtcMonth
    \/ MonthlyReset

Spec == Init /\ [][Next]_vars

-----------------------------------------------------------------------------
(* Properties *)

Counted(t) == SumFunction([m \in Months |-> counter[<<t, m>>]])

\* A tenant is charged only for imports that are kept: the count and the
\* records behind it are committed together or not at all, over failing
\* connections, waits for the row and rollbacks (orchestrator.py:95).
CountedAreImported == \A t \in Tenants : Counted(t) <= imports[t]

\* However runs overlap and the quota changes, a month's usage passes the
\* largest quota by at most one page per run: every run that has imported on a
\* stale reading waits for the row's lock and then reads what it has caused.
LargestLimit == Max(Quotas \cup {1})

OvershootBounded ==
    \A cell \in Cells :
        counter[cell] < LargestLimit + Cardinality(Runs) * PageSize

\* A PlentyONE order whose id create_order has returned belongs to an import
\* that is committed, or will be with its run; only a rollback parts the two,
\* and loses no more than one page per connection of the tenant
\* (order_service.py:121-136, orchestrator.py:103).
Answered(t) == created[t] - surplus[t]

Pending(t) == SumFunction([r \in Runs |-> run[r].made[t]])

LostOnlyByRollback ==
    \A t \in Tenants :
        Answered(t) - imports[t] - Pending(t)
            <= aborts * Cardinality(TenantConnections(t)) * PageSize

\* An import is kept and not counted only if its connection failed further on
\* in the page, although quota.py:3 says "increment on each successful Plenty
\* order create"; never by an overlap, a rollback, the reset or the turn of
\* the month.
UncountedOnlyByFailure ==
    \A t \in Tenants \ failed : imports[t] <= Counted(t)

=============================================================================
