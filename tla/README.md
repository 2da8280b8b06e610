# Verification of the PlentyONE – Mirakl connector

The connector moves the orders of merchants from Mirakl marketplaces into
PlentyONE, accepts them at the marketplace, and reports their shipment when the
merchant has dispatched the goods. It does this with periodic Celery tasks,
webhooks and an operator's API, all of them concurrent database sessions that
call two remote systems. What is hard in it is not any single function: it is
what sessions working on stale objects, remote calls that cannot be undone, and
crashes between a call and a commit do to each other. This project models that,
and how releases and migrations treat the data underneath.

    OrderPromise      what the connector promises about an order, from outside
    OrderFlow         the sessions on the orders of one connection
    OrderFlowProofs   its theorems, and that it implements OrderPromise
    OrderFlowSoleProofs  what holds when import runs do not overlap
    Shops             tenants with several connections, and who changes them
    ShopsProofs       its theorems
    ImportRun         an import run over the connections of all tenants, quota
    ImportRunProofs   its theorems
    Sums              theorems about sums over finite sets, which it uses
    Inventory         overlapping stock runs against Mirakl's offer imports
    InventoryProofs   its theorems
    Billing           tenants' status under Stripe's events and an operator
    BillingProofs     its theorems
    Migration         the alembic revisions as functions of the database
    Deploy            releases, containers and the database (extends Migration)
    DeployProofs      the theorems of both
    MC*               the same modules for TLC; *.cfg the instances

`tlc -workers 2 -config OrderFlowSafe.cfg MCOrderFlow.tla` checks an instance,
`tlapm OrderFlowProofs.tla` the proofs of a module. `PROJECT.json` lists runs,
the source lines of every definition, findings, hazards and theorems.

## Inventory of the system

| Component | State | Operations | Works with |
| --- | --- | --- | --- |
| Order service (`services/order_service.py`) | objects of `order_sync` in the session's memory | `import_new_orders`, `confirm_orders`, `ship_orders` | Mirakl, PlentyONE, database |
| Database sessions (`models/database.py`, `models/tables.py`) | `order_sync`, `sku_mapping`, `inventory_log` | flush, commit, rollback; no autoflush, objects do not expire | all |
| Orchestrator (`services/orchestrator.py`) | connection health | one loop over all tenants per task, one transaction per loop (import, confirm, ship, stock) | order service, quota, inventory |
| Celery (`tasks/`) | queue, schedule | import every 5 min, confirm 6 min, tracking 15 min, stock hourly, monthly reset; four worker processes, late acknowledgement | orchestrator |
| PlentyONE webhook (`webhooks/plenty.py`) | – | ships an order as soon as PlentyONE says it left | Mirakl, `order_sync` |
| Operator API (`main.py`) | – | retry of an ERROR order, status, Stripe checkout | `order_sync`, Stripe |
| Clients (`api/*_client.py`) | PlentyONE token | retries with back-off around every call | remote systems |
| Quota (`billing/quota.py`) | `usage_counters`, `tenants.monthly_quota` | check, increment, monthly reset | orchestrator |
| Stripe billing (`billing/webhook.py`) | `tenants.status` | five kinds of events, at least once and in any order | authentication, orchestrator |
| Inventory (`services/inventory_service.py`) | `inventory_log` | stock of PlentyONE to Mirakl's asynchronous offer import | both remote systems |
| Tenancy (`tenancy/`, `auth/`) | tenants, connections, `app.current_tenant` | scope of a session, API keys, encryption | all |
| Operator scripts (`scripts/`) | – | tenants, connections, quotas, SKU mappings | database |
| Releases (`bin/deploy.sh`, `.deploy_*.py`, `.github/workflows/`, `docker-compose.*.yml`) | files and git HEAD of the server's directory, images, containers, dumps | build, dump, replace containers, smoke test | migrations, api, worker |
| Migrations (`alembic/`) | the schema, the rows' owners | upgrade at every start of the api, downgrade by hand | database |

What makes each correct:

* *Order service, webhook, retry*: an order gets into PlentyONE before it is
  accepted, is accepted before it is shipped, is shipped only when dispatched;
  the record never claims what has not happened; nothing is created twice;
  every order that can be processed is processed in the end.
* *Orchestrator and quota*: usage and imports agree; a quota is overshot by a
  known amount at most; a failure at one connection costs no more than it must.
* *Billing*: the tenant's status follows the subscription whatever the order of
  events. *Inventory*: the last stock read is the last one Mirakl applies.
  *Tenancy and connections*: nothing of one tenant gets to another; a record's
  PlentyONE id is looked up where it was issued.
* *Releases and migrations*: no row is lost, the running code meets its own
  schema, a migration can be taken back, and a success means what it says.

## OrderFlow: sessions against one connection's orders

A session (`ses[s]`) is one SQLAlchemy `AsyncSession`. Its `view` holds the
objects as it loaded or changed them, `dirty` their changed columns. A flush
sends one statement per changed object in the order of the primary key; each
takes the row lock (`lock[o]`) or waits for it. The commit makes
`Stored(s, o)` the record: only the *changed* columns, over whatever other
sessions have committed since the object was loaded. Nothing in the code
compares the old values, so this is where stale objects do their harm.
`FlushConflict` is the unique constraint on (connection, order),
`DeadlockVictim` a cycle of lock waits, `Crash` a dead worker, a failing
statement or a lost connection; each rolls the session back.

| Code | Actions |
| --- | --- |
| `import_new_orders`, `_import_single_order` | `ImportNewOrders`, `FindOrder`, `ResolveSkus`, `CreateOrder`, `CreateRaises`, `MarkError`, `EanLookupRaises` |
| `confirm_orders` | `ConfirmOrders`, `AcceptOrder`, `AcceptRaises` |
| `ship_orders` | `ShipOrders`, `NoTrackingYet`, `ShipOrder`, `ShipRaises` |
| `plenty_order_status` | `PlentyOrderStatus`, `ShipOrder`, `HookRaises` |
| `retry_order` | `RetryOrder` |
| flush, `db_session`, `get_db` | `FlushOne`, `FlushConflict`, `FlushDone`, `Commit`, `DeadlockVictim`, `Crash` |
| the merchant, the operator | `Dispatch`, `AddMapping` |

A step ends where another process may come between: at a remote call, a query
or a statement. A call to Mirakl or PlentyONE takes effect at once and is never
undone; a failing call may or may not have had its effect. `create_order` is
attempted up to `MaxAttempts` times within one call, and each attempt may have
stored an order. `accept_order` and `ship_order` are retried as well, but since
a repetition changes nothing at Mirakl, a retried call is one call that
succeeds or fails. The marketplace belongs to nobody here, so whether it
answers a *repeated* accept or ship with success or an error is the constant
`RepeatOk`. An answer other than 200 and 204 is treated like a failing call.

`mapped` is the set of orders whose SKUs all resolve, by an active mapping or by
the EAN of an inactive one; it only grows. Left out: what a record says beyond
status and PlentyONE id, error counts, the audit log, Mirakl's own cancellation
of orders, and the dry-run mode of the clients (which appears in mutants).
That Mirakl refuses to ship an order nobody has accepted is assumed.

`OrderPromise` is the view from outside: an order advances through the stages
waiting, created, accepted, shipped, one at a time, the last only when it is
dispatched, and the record may lag behind the stage or even go backwards but
never ahead. `KeepsPromise` says that OrderFlow implements it.

## ImportRun: one transaction over all tenants

`import_orders_for_all` opens one session, reads tenants, statuses and quotas,
and goes through the connections, grouped by tenant: `SkipBlocked` when usage
has reached the quota, otherwise `BeginConnection`, `ImportOne` for each order
that becomes IMPORTED, then `IncrementUsage` or, when the service raised,
`ConnectionFails`. The increment locks the counter row until `Commit`; a
`Rollback` undoes the run for every tenant, but not the orders in PlentyONE.
Orders are counted here, OrderFlow has them one by one. An import is one
`create_order` that returned an id, with the upsert after it; the record may be
new, or an ERROR or NEW one that is updated, so two overlapping runs may import
one record twice. Each is counted in `usage_counters`, and `imports` has both.
`created` has what PlentyONE stored: `create_order` makes up to `MaxAttempts`
attempts, any of which may have stored an order, and either returns the id of
the last (`ImportOne`) or raises (`CreateRaises`, which leaves an ERROR record
and counts nothing). `surplus` has the stored orders whose id was never
returned. `SetQuota` and `SetStatus` are the operator's commands. The month is kept twice, in Berlin (Celery's time zone)
and in UTC (the code's `_ym`), Berlin turning first.

## Billing: events in any order

Stripe's side (`sub`) is external: a subscription is sold, paid, not paid, ends,
and each change issues events (`outbox`) that carry its status of that time.
`Receive` takes any of them into a session that loads the tenant, by the
checkout's metadata or by the customer, and changes the object; `Commit` writes
the changed columns and answers, unless the answer is lost; `Fails` rolls back.
In both of the latter cases the event stays and is delivered again. An event
is therefore duplicated, overtaken, or handled at the same time as another.
One record is all a session writes, so flush and commit are one step here.
`SetStatus` is `tenant suspend` and `tenant activate`. Every checkout makes a
new customer, as `billing_checkout` does, and an id that stands for both
customer and subscription suffices; `owner` is the `tenant_id` of its metadata,
`None` for the checkouts of `main.py`, and `inSub` says whether the
subscription's metadata have it, too. `disturbed` is a history variable: the
tenants whose events arrived out of order or met another session, or that an
operator changed. A tenant's status is never `trial` or `quota_exceeded`,
which nothing in the code writes. A payment of an invoice that is still open may
succeed or fail after the subscription has ended; `_on_payment_failed` then makes
a canceled tenant `past_due`, whatever the order of events. `late` is the history
of the customers to whom this happened: `SettledAgrees` and `CanceledInTheEnd`
except them, since the architecture wants `past_due` for a failed payment and
`canceled` for an ended subscription and does not say which is to win.

| Code | Actions |
| --- | --- |
| `stripe_webhook`, `handle_stripe_event` and its five handlers | `Receive` (with `TenantOf`, `NewStatus`, `NewCustomer`) |
| `get_db` | `Commit`, `Fails` |
| `cmd_tenant_set_status` | `SetStatus`, then `Commit` or `Fails` |
| `billing_checkout` and Stripe | `Checkout`, `PaymentSucceeds`, `PaymentFails`, `Ends` |

## Inventory: stock runs against asynchronous imports

An hourly run (`run[r]`) reads the stock of each mapped SKU in PlentyONE, posts
the quantities it got as one offer import (OF01), polls it (OF02) and logs what
it sent. Mirakl takes imports in an order of its own (`Complete`), may reject
lines or the whole import, and takes an import as well that nobody polls any
more. A quantity is a version number: the n-th quantity an SKU has is n, so the
model can tell an older one from a newer one, which no assertion on amounts
could. An SKU whose reading fails, or whose reading meets an expired token, is
left out of the push. `update_offers` is retried as a whole, so a failing poll
posts the import again.

| Code | Actions |
| --- | --- |
| `sync_inventory_for_all`, `sync_stock` | `SyncStock`, `GetPlentyStock`, `ReadFails`, `HaveRead`, `LogPushes`, `RunFails` |
| `update_offers` | `Post`, `PostRaises`, `StillQueued`, `PollsRunOut`, `Answered`, `PollRaises` |
| Mirakl, the merchant | `Complete`, `Rejects`, `ImportFails`, `Sell` |

`alone`, `waited` and `disturbed` are histories: a run next to which no other
has been active, an import its run still waits for in such a run, and whether
anything failed, timed out or overlapped at all. The service asks PlentyONE for
the stock of the warehouse in the settings, whatever warehouse the connection
names; the stock of the model is that one. No two imports of one id are ever in
use (`NextId`).

## Shops: tenants with several connections

A task reads the pairs of a Mirakl connection and a PlentyONE connection once,
at its start (`_active_pairs`, `StartTask`), and keeps them. If a tenant has
several PlentyONE connections, the pair has the first row of an unordered
SELECT, a different one in every run (`Assignments`). Meanwhile the operator
adds Mirakl connections, also to a shop that is connected already, removes them
softly, adds PlentyONE systems, suspends tenants. Record ids are those of
PlentyONE, whose systems all count from the same number, and no record says in
which system its id is.

| Code | Actions |
| --- | --- |
| `_active_pairs` and the loops of the orchestrator | `StartTask`, `NextPair` |
| the three methods of the order service | `ImportOrder`, `ConfirmOrder`, `ShipOrder` |
| `plenty_order_status` with its lookups | `PlentyOrderStatus` |
| `scripts/saas_admin.py` | `TenantSetStatus`, `MiraklAdd`, `MiraklRemove`, `PlentyAdd` |
| the merchant | `Dispatch` |

An order is handled in one step with its commit: what sessions do to each other
is OrderFlow's subject, and so are failing calls, unmapped SKUs and ERROR
records. The webhook needs exactly one active PlentyONE connection of its
tenant (`scalar_one_or_none`), finds rows of removed connections as well, and
ignores the tenant's status. Tenants are given; creating one is in Deploy.

## Deploy and Migration: releases over a live database

`Migration` has the two alembic revisions as functions of the database: the
rows of the keyed tables with their tenant and connection, the tenants, whether
row-level security is on, and `ok`, cleared when a statement fails. All missing
revisions run in one transaction (`alembic/env.py`), so that a failing one
leaves nothing behind. `Bypass` says whether the migrating role is exempt from
row-level security; as deployed, it is a superuser.

`Deploy` is one compose project: database, api and worker containers, the image
of the project, the directory of `deploy.sh` with its git HEAD, the directory
of the upload scripts, and the runs of both programs, which nothing keeps from
running at once. In staging all programs release to one project; in production
`.deploy_prod.py` has a project of its own, which is the module with `Hand` and
`Ci` empty.

| Code | Actions |
| --- | --- |
| `bin/deploy.sh` | `DeployDirectory`, `DeployRef`, `Build`, `Dump`, `Exits`, `Up`, `Succeeds`, `GivesUp` |
| `.github/workflows/` | `DeployFromCi` |
| `.deploy_staging.py`, `.deploy_prod.py` | `DeployUpload`, `Build`, `BuildFailureUnseen`, `Up`, `Succeeds`, `GivesUp` |
| `docker-compose.*.yml` | `ApiStarts` (alembic upgrade head, then the server), `ApiStops` |
| `alembic downgrade` | `Downgrade` |
| `tenant create`, the worker | `TenantCreate`, `WorkerWrites` |

Three facts of the code shape it. The check of the schema in `deploy.sh` greps
for `[0-9]{3}_...`, but alembic prints the revisions of this repository as
`001` and `002`: nothing matches, and neither its migration nor its refusal
ever happens. The schema is migrated by the api container at its start. After
the workflow's rsync, git's HEAD is not what the directory holds (`Dirty`), and
a checkout of another commit fails, which `deploy.sh` does notice
(`pipefail`). And `up` takes whatever image the last build left.

## What the runs check

| Run | Instance | Result |
| --- | --- | --- |
| `flow_safe` | one order, two importers, one session of every other kind, one fault, Mirakl refuses repetitions | all safety properties, `IInv`, `KeepsPromise` hold |
| `flow_live` | two orders, a page of one, one importer, confirmer, shipper, one fault, repetitions succeed | `SurplusOnlyByFaults`, `StatusNeverRegresses`, `MappedOrdersGetShipped` hold |
| `flow_overlap` | two orders, no SKU mapped, two importers and nobody else, no fault | `WaitingOrdersGetRecorded`, `RunsEnd` hold through conflicts and deadlocks |
| `flow_duplicate` | one order, two importers, no fault | `AtMostOnePlentyOrder` violated |
| `flow_regress` | one order, webhook against confirm, no fault | `StatusNeverRegresses` violated |
| `flow_retry` | one order, retry against import, one failed create | `RetriedGetsProcessed` violated |
| `run_safe` | two runs, one tenant with two connections, quota 0 or 2, two attempts per order, one rollback, one operator's change, two months | `CountedAreImported`, `OvershootBounded`, `LostOnlyByRollback`, `UncountedOnlyByFailure` hold |
| `billing_safe` | two tenants, subscriptions and sessions, three changes at Stripe, one fault, one operator's command | `CanceledOnlyIfEnded`, `SettledAgrees`, `IInv` hold |
| `billing_canceled` | one tenant, subscription, no fault, no operator | `CanceledInTheEnd` violated |
| `inventory_safe` | two SKUs, two runs, two imports at a time, one fault, two attempts, two polls | `NoStepBack`, `LogAgrees`, `StockConverges` hold |
| `shops_safe` | two tenants, one shop with up to two connections, three PlentyONE systems, one run of each task, two commands | `TenantsApart`, `OwnParcel`, `DuplicateOnlyByReadd`, `PollerShips` hold |
| `deploy_safe` | two releases, the second with revision 2; a run by hand, by the workflow and by upload, three starts in all, two connections | `RowsSurvive`, `ServesItsSchema`, `UpgradesAreBackedUp`, `SuccessServes`, `ApiComesBack` hold |

The four violations are what the code does against what its documentation says:

1. *Duplicate orders.* Two overlapping import runs both find no record and both
   create the order; the constraint on the table comes too late.
2. *SHIPPED put back to CONFIRMED.* `confirm_orders` flushes objects it loaded
   before the webhook shipped the order. The next tracking run ships it again.
3. *A lost retry.* A retry request that read ERROR before the order's import
   committed writes NEW over what import and confirm did. Mirakl no longer lists
   the order, no task selects NEW records: it stays there.
4. *A canceled tenant comes back.* An update issued before the end of the
   subscription and delivered after it sets the status to active, for good.

Other disagreements are in the models as the code has them, and the properties
of the passing runs state what holds in spite of them:

* `tables.py:88` ("ERROR is terminal"), `ARCHITECTURE_SAAS.md:355`, and
  `README.md:130`, which has the operator retry a failed order: the idempotency
  check lets NEW and ERROR records pass (`order_service.py:100`, `Importable`),
  so every poll imports an ERROR record again as long as Mirakl lists its order,
  unasked. `MappedOrdersGetShipped` holds because of it: a failed create or a
  late mapping heals at the next poll. `SurplusOnlyByFaults` bounds what it
  costs: a create that was stored and reported as failed is repeated.
* `quota.py:3`, an increment on each successful create: a connection that fails
  in the middle of a page leaves its imports uncounted. `UncountedOnlyByFailure`
  says that nothing else does. Two overlapping imports of one ERROR record are
  both counted, as they are two creates; one of the two orders is a duplicate.
* `quota.py:51`: a quota of 0 is taken for 1 (`Limit`), so the first page of a
  tenant meant to get nothing is imported.
* `webhook.py:168`: a payment that fails after the end of the subscription makes
  a canceled tenant `past_due` (see Billing).
* `quota.py:86`, a reset at 00:05 UTC: it fires at 00:05 in Berlin and opens the
  rows of the ending month. Harmless for the count, an absent row counting as 0.
* `deploy.sh:9` and `:125`, migrations with `--migrate` only, and before the
  swap: the api migrates at every start, with or without a dump.
  `UpgradesAreBackedUp` is what is left of the promise.
* `README.md:285` and `deploy.sh:148`, rollback by `--rollback`: behind a
  migration the old release never serves, its alembic not knowing the database's
  revision, and after a release by the workflow the checkout fails.
  `ApiComesBack` and `SuccessServes` except these cases by name.
* `002_multitenancy.py:310`, a downgrade preserves tenant data: the columns that
  say whose a row is are dropped, and row-level security stays on.
  `RowsSurvive` keeps the rows always, their owners until a downgrade.

Why the bounds suffice. Orders of one connection interact only through the
batch of a session (its one flush, its abort as a whole) and through lock
order, which takes two orders and no more. Every property speaks of one order,
and every harmful pattern is between two sessions, of which at least one is
stale; `flow_safe` has all pairs of kinds and two importers. One fault
separates "by a fault" from "by an overlap", and the theorems below hold for
any number of them. The rows that importers fight over are the same whether an
import succeeds or not, so `flow_overlap` takes the one that needs no PlentyONE
ids, and its runs overlap without end. In `run_safe` a page is one order and the
largest quota two, so a counter of four, as many as PlentyONE gets orders, would
break `OvershootBounded`; two attempts tell an answered order from a surplus one.
Three changes at Stripe are a sale, a failure and a recovery, end or giving up,
or an ended subscription followed by a new one, which are all the patterns of
status the handlers tell apart; two sessions give every order and overlap. In
Inventory every harmful pattern is a newer quantity, an older one, and two
imports that carry them; the second SKU lets a run's reads straddle a sale and a
page be incomplete, and two polls tell an answered import from an abandoned one.
In Shops a second connection to a shop, a second PlentyONE system and a second
tenant are what each confusion takes, two commands are what it takes to replace
a connection, and `RepeatOk` is TRUE, which lets a second copy be
shipped as well. In Deploy the repository has two revisions, so two releases are
all the kinds there are; three starts let two runs meet and a downgrade or a
third run follow. The theorems below hold for any of these numbers.

Each property also has a mutant: a variant of one definition with a plausible
bug, written beside it and marked so, under which TLC finds the property
violated.

**Fairness.** Celery beat starts the tasks over and over and a started run goes
on, so each of them is weakly fair, failing calls included (Mirakl's refusals
are answers, too). A flush in progress goes on. The merchant dispatches in the
end. Nothing is assumed of webhooks, retry requests, mappings or faults, whose
number is finite in a behaviour. Stripe delivers until it is answered, so
handling events is weakly fair. `flow_overlap` needs strong fairness of the
statements that take row locks: two runs over two orders can deadlock, the
victim start again and get its lock back before the other one is served, for
ever, and without strong fairness TLC finds just this. Postgres hands a
released row lock to a transaction that waits for it, so being able to go on
again and again means going on (`QueuedSpec`). `MappedOrdersGetShipped` needs one more
assumption, `RepeatOk`: if Mirakl refuses a repeated accept, an order whose
accept succeeded but whose commit was lost stays IMPORTED for ever, each later
confirm run being refused. Mirakl is asked for
the first page only, so the property also assumes that from some point on orders
without a mapping leave room in it; with a page of one, `flow_live` has both the
starved order and the one that gets through. And it rests on ERROR records being
imported again, contrary to `tables.py:88` (see above). The schedule starts stock runs for
ever and Mirakl works its queue (`Complete` is weakly fair), while failures and
sales end. In Shops only the runs that ship need to be fair: what they do not
ship is due to a removed connection, a suspended tenant or a second system.
In Deploy docker restarts the api until it runs (`restart: unless-stopped`) and
a run of a script ends, its waiting being limited.

## What is proved

`OrderFlowProofs` proves, for any orders, sessions, bounds and either answer to
repetitions, from the three assumptions of `OrderFlow` on its constants:

| Theorem | Statement |
| --- | --- |
| `Inductive` | `Spec => []IInv` |
| `TypeCorrect`, `NamesOwnOrder`, `NeverAhead`, `AcceptsCreated`, `ShipsDispatched` | the safety properties of `flow_safe` |
| `Refinement` | `Spec => KeepsPromise` |

`RecordNamesOwnOrder` and `RecordNeverAhead` are not inductive: a commit writes
what a session has in memory, so the invariant must speak of every object of
every session. `IInv` says that each object is *true* of PlentyONE and Mirakl
(`TrueOf`), that a column a flush will not write is already set in the record,
and that objects still to be processed are unchanged. It holds because the
facts records state are stable: a PlentyONE order stays, Mirakl's states only
advance. So staleness can make a record lag, never lie. The proof takes the
actions in groups: steps that only move a session (`QuietStep`), that create
(`CreatingStep`), that call Mirakl (`CallStep`), and the end of a transaction
(`EndStep`); types are proved first, action by action. The refinement then
needs only that each step changes either the world or the records.

`OrderFlowSoleProofs` proves what overlapping sessions take away. Its hypotheses
are named, are met by the instance of `flow_live`, and neither can be dropped:
`OneImport` (one import run at a time, no retry request), without which
`flow_duplicate` has the counterexample, and `OneConfirm` (`OneImport`, one
confirm run and no webhook), without which `flow_regress` has it.

| Theorem | Statement |
| --- | --- |
| `SurplusPaidByFaults` | `OneImport` gives `Spec => []SurplusOnlyByFaults` |
| `OnceWithoutFaults` | `OneImport` and `MaxFaults = 0` give `Spec => []AtMostOnePlentyOrder` |
| `StatusMovesForward` | `OneConfirm` gives `Spec => StatusNeverRegresses` |

The invariant is `SInv` (`SoleInductive`). The importer works on records without
a PlentyONE id and changes only those, every other session on records with one;
so the importer never waits for a lock, what it found is still so when it
commits, and a record that names an order is never imported again. Each order in
PlentyONE is therefore the one on record, the one the importer is about to
record, or one whose loss was a fault. `Forward` adds for the last theorem
that a record with work to come has not left the status its session found it in,
or has been shipped meanwhile. TLC agrees with
both on instances with two orders, two confirmers or shippers, a webhook where
the hypothesis allows it, and two faults.

`BillingProofs` proves, for any tenants, customers, sessions and bounds,
`Inductive` (`Spec => []IInv`), `TypeCorrect`, `CancelsEnded`
(`CanceledOnlyIfEnded`) and `SettlesInStep` (`SettledAgrees`), from the three
assumptions of `Billing`. No property is inductive alone. The first takes that a
subscription never leaves "canceled", that a checkout names its tenant once
(`NamedWhenSold`), that an event telling of an end was issued after it
(`EventsTrue`), that a tenant is linked only to a customer of its own
(`LinkedToOwn`, which is also why the lookup by customer never finds two
tenants), and the same of what sessions hold (`SessionsTrue`).

`SettledAgrees` takes the order of events, since not every handler sets a
status outright: an unpaid subscription leaves it alone, a payment only lifts
`past_due`. Call a status ready for an event if handling the event makes of it
what the event's subscription asked for (`Brings`). The record of an undisturbed
tenant is ready for the first event not answered yet, or right if there is none
(`RecordInStep`); what an event leaves is ready for the next about the same
customer (`EventsChain`) and for the same event once more, or one issued with it
(`EventsRepeat`, `EventsNumbered`), which is why repetitions do no harm, a customer in `late`
excepted; the last event tells how the subscription is (`LastTells`). A session of such a
tenant is alone with it, works on the first of its events, and finds the record
at its commit as it was when it loaded it (`InOrder`, `OwnWork`). Finally an
answered checkout has linked the tenant (`CheckoutLinks`). All of this is in
`IInv`, which `billing_safe` checks.

`ShopsProofs` proves `Inductive`, `TypeCorrect`, `TenantsStayApart`
(`TenantsApart`), `ParcelsAreOwn` (`OwnParcel`) and `DuplicatesOnlyByReadd`
(`DuplicateOnlyByReadd`), from the one assumption of `Shops`. The state of the
connections changes under the runs, so the invariant says what outlasts every
command (`RunsTrue`): a run's pairs are of one tenant, of connections that
exist or did exist, and a record a run has on its page does not go away. A
record's id is that of its order in *some* system of the tenant (`RecordsTrue`);
with one system it is the one looked up, hence `OwnParcel`. For the duplicates
`CopiesTrue` counts: an import adds one copy and one connection that has a
record, so the copies never outnumber the connections with a record
(`RecordersOf`), which are among those ever added.

`ImportRunProofs` proves `Inductive`, `TypeCorrect` and `OvershootAlwaysBounded`
(`OvershootBounded`), from the one assumption of `ImportRun` (finitely many
connections and runs, a largest quota). The bound alone is not inductive, nor is it obvious that
runs do not overshoot one after the other. The invariant counts the runs in
flight at a counter (`InFlight`): those that have added to it uncommitted, or are
importing for it and will add without another check. A counter at the limit
still has room for a page of each (`CounterBounded`), and none joins them, since
to begin a connection takes a counter below the limit. A run in flight adds one
page at most there, because it reads its own increments (`BelowWhenBegun`,
`AddedBounded`), and two runs never have uncommitted increments in one row
(`AddedHolds`). The turn of the month moves a run to a counter that nobody has
touched (`FutureEmpty`).

From the same assumption it proves `ChargedAreImported` (`CountedAreImported`),
`UncountedAfterFailure` (`UncountedOnlyByFailure`) and `LostAfterRollback`
(`LostOnlyByRollback`), which relate sums over months, runs and connections. The
invariant is `Kept` (`UsageInductive`), on which TLC agrees for the instance of
`run_safe`. What a run has made for a tenant is at
least what it has added to the tenant's counters and has in hand at its present
connection, and no more than that as long as none of the tenant's connections
has failed (`MadeCounted`); and it fits into one page for each connection the
run has begun or skipped (`MadeBounded`). A commit moves both sides to
`imports` and `counter`, a rollback drops both, so the first gives the two
properties of the usage and the second the bound on what rollbacks lose. What an
attempt of `create_order` stores without an answer is in `created` and `surplus`
alike. `Sums` has the
algebra behind it: a sum is changed at one place by the difference there, is
monotone and additive. The community modules define `SumFunction` by a fold, a
recursive function of which it must first be shown that it exists;
`Sums` derives its recursion from the definition, by well-founded choice of a
smallest subset for which a statement about sums fails, and so without the induction
theorems that take an operator.

`InventoryProofs` proves `Inductive`, `TypeCorrect`, `NeverStepsBack`
(`NoStepBack`) and `LogAlwaysAgrees` (`LogAgrees`), from the one assumption of
`Inventory`. Behind it: nothing is
newer than the stock (`StockLeads`), so that a run reads something at least as
new as all Mirakl has; a run that is alone stays so, since another's beginning
takes `alone` away (`AloneIsAlone`, `AloneLeads`); and an import still waited
for carries the offers of such a run (`WaitedIsPolled`). For the log, `LogTrue`
adds where an undisturbed run stands between its import's end and its row in the
log.

`DeployProofs` proves `Inductive`, `TypeCorrect`, `RowsAlwaysSurvive`
(`RowsSurvive`), `AlwaysServesItsSchema` (`ServesItsSchema`), `AlwaysBackedUp`
(`UpgradesAreBackedUp`) and `SuccessAlwaysServes` (`SuccessServes`), from the
assumptions of `Migration` and `Deploy`. It first computes what an upgrade and a
downgrade make of any database (`UpgradeResult`, `DowngradeResult`). The
invariant ties the rows to what the application has committed (`RowsTrue`), the
images to the revisions of their files (`ImagesTrue`, `SchemaServed`), the dumps
to the schema of their time (`DumpsTrue`), and a run of `deploy.sh` that has no
company to its release (`AloneIsAlone`, `ReleaseTrue`). It does not need
`Bypass`. `UpgradeAlwaysApplies` says that no statement of a missing revision
fails on any rows the application has written, unless a downgrade by a role
under row-level security comes before it; as the reason why a release can
serve, it is what `ApiComesBack` rests on.

Only model-checked: the liveness properties (`MappedOrdersGetShipped`,
`WaitingOrdersGetRecorded`, `RunsEnd`, `StockConverges`, `PollerShips`,
`ApiComesBack`), which rest on fairness and are beyond the prover, and the
violations. Every invariant and action property that a run checks is a theorem,
those of `flow_live` under the hypotheses given above.

## Not modelled, and the plan

What further work would prove: how far an order is duplicated when import runs
do overlap (a copy for each run in flight and each fault), and the steps of the
liveness arguments that are safety (that an order once accepted is on the
tracker's page until it is shipped, that a mapped order once waiting stays importable).
What further work would model: the charge of each order by composing OrderFlow
with the counters of ImportRun, which would say how often one record is charged.

Not modelled, for these reasons:

* *Row-level security and the tenant scope.* The deployed role is a superuser
  (ARCHITECTURE_SAAS.md, assumption A1), for whom policies do not count, so that
  the scope of a session changes nothing; Migration has the policies where they
  would.
* *Authentication, encryption, panel, schemas, configuration, logging*:
  stateless, read-only or pure calls. *Audit log*: append-only, read by the
  panel only.
* *The retry endpoint's lookup without a connection* (`main.py:249`) and a
  *malformed order that hides its page* (`mirakl_client.py:164`): each is one
  statement that raises, without any interleaving to explore. Parsing is left out.
* *Discovery, smoke test, demo, the CSV of SKU mappings*: tools; what a mapping
  changes is `AddMapping`.
* In Deploy: the rotation of dumps, the text of `.env`, fetching tags, grants
  and indexes.
