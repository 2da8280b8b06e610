------------------------------ MODULE Migration -------------------------------
(***************************************************************************)
(* The two alembic revisions as functions of the database.  `rows' stands  *)
(* for the tables with a natural key (order_sync, sku_mapping): a row has  *)
(* its Mirakl id or SKU and, from revision 2 on, its tenant and its Mirakl *)
(* connection.  alembic/env.py runs all missing revisions in one           *)
(* transaction: a statement that fails clears `ok', and nothing of the     *)
(* revision stays.                                                         *)
(***************************************************************************)
EXTENDS Naturals, FiniteSets

CONSTANTS
    Keys,      \* Mirakl order ids and SKUs
    Conns,     \* Mirakl connections, the default one included
    TenantOf,  \* TenantOf[c]: the tenant of connection c
    Default,   \* the connection that revision 2 makes for the existing rows
    None,      \* NULL
    Bypass     \* the role that migrates is not subject to row-level security

ASSUME MigrationAssumption ==
    /\ Default \in Conns
    /\ None \notin Conns
    /\ Bypass \in BOOLEAN
    /\ \A c \in Conns : TenantOf[c] # None

Tenants == {TenantOf[c] : c \in Conns}

Row == [key : Keys, tenant : Tenants \cup {None}, conn : Conns \cup {None}]

Revisions == 0 .. 2

Database ==
    [rev : Revisions, rows : SUBSET Row, tenants : SUBSET Tenants,
     rls : BOOLEAN, ok : BOOLEAN]

Empty == [rev |-> 0, rows |-> {}, tenants |-> {}, rls |-> FALSE, ok |-> TRUE]

Require(db, condition) == [db EXCEPT !.ok = @ /\ condition]

-----------------------------------------------------------------------------
\* A unique index or primary key on the given columns can be created.
UniqueKey(rows) == \A r1, r2 \in rows : r1.key = r2.key => r1 = r2

UniqueInConnection(rows) ==
    \A r1, r2 \in rows : r1.key = r2.key /\ r1.conn = r2.conn => r1 = r2

\* What a statement of the migrating role sees outside any tenant's scope:
\* forced row-level security hides every row from a role that cannot bypass it.
VisibleToMigration(db) == IF db.rls /\ ~Bypass THEN {} ELSE db.rows

Initial(db) == [db EXCEPT !.rev = 1]

CreateTenancy(db) == [db EXCEPT !.tenants = {}]

DefaultTenant(db) == [db EXCEPT !.tenants = @ \cup {TenantOf[Default]}]

\* The rows with these values in the columns of revision 2.
Owned(rows, t, c) == {[key |-> r.key, tenant |-> t, conn |-> c] : r \in rows}

AddColumns(db) == [db EXCEPT !.rows = Owned(@, None, None)]

\* Mutant: no UPDATE between the new columns and their NOT NULL.
BackfillForgotten(db) == db

Backfill(db) ==
    LET old == {r \in VisibleToMigration(db) : r.tenant = None}
    IN  [db EXCEPT !.rows = (@ \ old) \cup Owned(old, TenantOf[Default], Default)]

\* NOT NULL and the foreign keys.
Constrain(db) ==
    Require(db, \A r \in db.rows : r.tenant \in db.tenants /\ r.conn \in Conns)

SurrogateKey(db) == Require(db, UniqueInConnection(db.rows))

EnableRowLevelSecurity(db) == [db EXCEPT !.rls = TRUE]

\* Mutant: the revision stamped is one that no file has.
UpgradeStampedWrong(db) ==
    [EnableRowLevelSecurity(SurrogateKey(Constrain(Backfill(
         AddColumns(DefaultTenant(CreateTenancy(db))))))) EXCEPT !.rev = 3]

Upgrade002(db) ==
    [EnableRowLevelSecurity(SurrogateKey(Constrain(Backfill(
         AddColumns(DefaultTenant(CreateTenancy(db))))))) EXCEPT !.rev = 2]

NaturalKey(db) == Require(db, UniqueKey(db.rows))

\* Mutant: the tenants are deleted while their rows still refer to them.
DropTenancyCascading(db) == [db EXCEPT !.rows = {}, !.tenants = {}]

DropTenancy(db) ==
    [db EXCEPT !.rows = Owned(@, None, None), !.tenants = {}]

\* The policies go, but row-level security stays enabled and forced.
Downgrade002(db) == [DropTenancy(NaturalKey(db)) EXCEPT !.rev = 1]

\* alembic upgrade head, with the revisions up to `head' at hand.
UpgradeTo(db, head) ==
    LET one == IF db.rev = 0 /\ head >= 1 THEN Initial(db) ELSE db
    IN  IF one.rev = 1 /\ head >= 2 THEN Upgrade002(one) ELSE one

=============================================================================
