-------------------------------- MODULE Deploy --------------------------------
(***************************************************************************)
(* One stack of the connector (a compose project: database, api, worker)   *)
(* and the programs that release code to it:                               *)
(*   - bin/deploy.sh, by hand with its flags, or by the CI workflow, which *)
(*     first replaces the files of the directory by rsync;                 *)
(*   - the .deploy_*.py scripts, which upload over a directory of their    *)
(*     own and never delete a file there.                                  *)
(* Nothing keeps two of them from running at once.  (In staging all of     *)
(* them release to one stack; in production the script's stack is another, *)
(* and Py or the rest is empty.)  The schema is migrated by the api        *)
(* container itself, whenever it starts: deploy.sh looks for revisions by  *)
(* a pattern that no revision matches, so its own check never acts.        *)
(***************************************************************************)
EXTENDS Migration

CONSTANTS
    Versions,  \* releases, 1 .. n in the order of their tags
    HeadOf,    \* HeadOf[v]: the last revision among the files of v
    Hand,      \* deploy.sh runs by hand
    Ci,        \* deploy.sh runs of the workflow, one at a time
    Py,        \* .deploy_*.py runs
    NoBackup,
    MaxStarts  \* runs and downgrades of a behaviour (bounds the model)

ASSUME DeployAssumption ==
    /\ Versions \subseteq Nat
    /\ 1 \in Versions
    /\ HeadOf \in [Versions -> {1, 2}]
    /\ NoBackup \notin Revisions
    /\ Py \cap (Hand \cup Ci) = {}
    /\ MaxStarts \in Nat

Jobs == Hand \cup Ci \cup Py

VARIABLES
    db,          \* the database
    tree,        \* the release in deploy.sh's directory
    gitHead,     \* HEAD of the git repository there
    upload,      \* what the scripts have uploaded: the code, the last revision
    image,       \* the image of the project
    api,         \* the api container; the worker runs the same image
    job,         \* the state of each run
    written,     \* history: the rows the application has committed
    downgraded,  \* history: someone has run alembic downgrade
    starts       \* runs and downgrades so far

vars == <<db, tree, gitHead, upload, image, api, job, written, downgraded,
          starts>>

-----------------------------------------------------------------------------
Image == [code : Versions, head : {1, 2}, by : {"git", "upload"}]

Container ==
    [image : Image, state : {"starting", "up"},
     migrate : BOOLEAN,                      \* released with --migrate
     backup : Revisions \cup {NoBackup}]     \* the schema of that run's dump

Job ==
    [pc : {"idle", "build", "dump", "up", "wait"},
     want : Versions \cup {None},  \* the release asked for
     skip : BOOLEAN, migrate : BOOLEAN,
     alone : BOOLEAN,              \* no other run so far
     backup : Revisions \cup {NoBackup}]

NoJob == [pc |-> "idle", want |-> None, skip |-> FALSE, migrate |-> FALSE,
          alone |-> FALSE, backup |-> NoBackup]

Written == [key : Keys, conn : Conns]

TypeOK ==
    /\ db \in Database
    /\ tree \in Versions
    /\ gitHead \in Versions
    /\ upload \in Image
    /\ image \in Image
    /\ api \in Container
    /\ job \in [Jobs -> Job]
    /\ written \subseteq Written
    /\ downgraded \in BOOLEAN
    /\ starts \in 0 .. MaxStarts

FromGit(v) == [code |-> v, head |-> HeadOf[v], by |-> "git"]

\* The first release is starting on a new database.
Init ==
    /\ db = Empty
    /\ tree = 1
    /\ gitHead = 1
    /\ upload = [code |-> 1, head |-> HeadOf[1], by |-> "upload"]
    /\ image = FromGit(1)
    /\ api = [image |-> image, state |-> "starting", migrate |-> FALSE,
              backup |-> NoBackup]
    /\ job = [j \in Jobs |-> NoJob]
    /\ written = {}
    /\ downgraded = FALSE
    /\ starts = 0

files == <<tree, gitHead, upload>>
stack == <<db, api>>
history == <<written, downgraded>>

Running == {j \in Jobs : job[j].pc # "idle"}

Start == starts < MaxStarts /\ starts' = starts + 1

\* A new run, next to which no other is alone any more.
Launch(j, new) ==
    /\ job[j].pc = "idle"
    /\ Start
    /\ job' = [i \in Jobs |->
                  IF i = j THEN [new EXCEPT !.alone = Running = {}]
                           ELSE [job[i] EXCEPT !.alone = FALSE]]

GoTo(j, pc) == job' = [job EXCEPT ![j].pc = pc]

Leave(j) == job' = [job EXCEPT ![j] = NoJob]

-----------------------------------------------------------------------------
(* bin/deploy.sh *)

\* Files that rsync has changed: git will not check out another commit.
Dirty == tree # gitHead

CanCheckout(ref) == ref = gitHead \/ ~Dirty

\* The flags after the release: --skip-build and --migrate.
ShJob(want, skip, migrate) ==
    [NoJob EXCEPT !.pc = IF ~skip THEN "build" ELSE IF migrate THEN "dump" ELSE "up",
                  !.want = want, !.skip = skip, !.migrate = migrate]

\* No release is named: that of the directory.
DeployDirectory(j) ==
    /\ j \in Hand
    /\ \E skip, migrate \in BOOLEAN :
          Launch(j, ShJob(IF skip THEN None ELSE tree, skip, migrate))
    /\ UNCHANGED <<files, image, stack, history>>

\* --ref with any release, or --rollback, which names the one before HEAD.
DeployRef(j, ref) ==
    /\ j \in Hand
    /\ CanCheckout(ref)
    /\ gitHead' = ref
    /\ tree' = IF Dirty THEN tree ELSE ref
    /\ \E migrate \in BOOLEAN : Launch(j, ShJob(ref, FALSE, migrate))
    /\ UNCHANGED <<upload, image, stack, history>>

\* The workflow's rsync --delete, which leaves .git alone, and its deploy.sh.
DeployFromCi(j, v) ==
    /\ j \in Ci
    /\ Ci \cap Running = {}
    /\ tree' = v
    /\ Launch(j, ShJob(v, FALSE, TRUE))
    /\ UNCHANGED <<gitHead, upload, image, stack, history>>

\* pg_dump of what the database holds now, while the old worker goes on.
Dump(j) ==
    /\ job[j].pc = "dump"
    /\ job' = [job EXCEPT ![j].pc = "up", ![j].backup = db.rev]
    /\ UNCHANGED <<files, image, stack, history, starts>>

\* The build or the dump fails, and the script exits.
Exits(j) ==
    /\ \/ job[j].pc = "build" /\ j \notin Py
       \/ job[j].pc = "dump"
    /\ Leave(j)
    /\ UNCHANGED <<files, image, stack, history, starts>>

-----------------------------------------------------------------------------
(* .deploy_staging.py and .deploy_prod.py *)

\* Files that the new release no longer has stay: migrations, for one.
Overlay(v) == [upload EXCEPT !.code = v,
                             !.head = IF HeadOf[v] > @ THEN HeadOf[v] ELSE @]

DeployUpload(j, v) ==
    /\ j \in Py
    /\ upload' = Overlay(v)
    /\ Launch(j, [NoJob EXCEPT !.pc = "build", !.want = v])
    /\ UNCHANGED <<tree, gitHead, image, stack, history>>

\* Mutant: deploy.sh without `set -e' goes on, too.
AnyBuildFailureUnseen(j) ==
    /\ job[j].pc = "build"
    /\ GoTo(j, IF job[j].migrate THEN "dump" ELSE "up")
    /\ UNCHANGED <<files, image, stack, history, starts>>

\* The build's output goes through tail, whose exit code is not the build's.
BuildFailureUnseen(j) ==
    /\ j \in Py
    /\ job[j].pc = "build"
    /\ GoTo(j, "up")
    /\ UNCHANGED <<files, image, stack, history, starts>>

-----------------------------------------------------------------------------
(* Both: docker compose build and up *)

\* Mutant: --migrate makes no dump.
BuildWithoutDump(j) ==
    /\ job[j].pc = "build"
    /\ image' = IF j \in Py THEN upload ELSE FromGit(tree)
    /\ GoTo(j, "up")
    /\ UNCHANGED <<files, stack, history, starts>>

Build(j) ==
    /\ job[j].pc = "build"
    /\ image' = IF j \in Py THEN upload ELSE FromGit(tree)
    /\ GoTo(j, IF job[j].migrate THEN "dump" ELSE "up")
    /\ UNCHANGED <<files, stack, history, starts>>

\* Containers of another image are replaced, the others keep running.
Up(j) ==
    /\ job[j].pc = "up"
    /\ IF api.image = image
         THEN UNCHANGED api
         ELSE api' = [image |-> image, state |-> "starting",
                      migrate |-> job[j].migrate, backup |-> job[j].backup]
    /\ GoTo(j, "wait")
    /\ UNCHANGED <<db, files, image, history, starts>>

\* --wait and the smoke test, or the script's polling, see a healthy api.
Succeeds(j) ==
    /\ job[j].pc = "wait"
    /\ api.state = "up"
    /\ Leave(j)
    /\ UNCHANGED <<files, image, stack, history, starts>>

\* 90 s are over.  The new containers stay.
GivesUp(j) ==
    /\ job[j].pc = "wait"
    /\ api.state # "up"
    /\ Leave(j)
    /\ UNCHANGED <<files, image, stack, history, starts>>

-----------------------------------------------------------------------------
(* The containers *)

\* Mutant: uvicorn is started whatever alembic says.
ApiStartsAnyway ==
    LET new == UpgradeTo(db, api.image.head)
    IN  /\ api.state = "starting"
        /\ db' = IF new.ok THEN new ELSE db
        /\ api' = [api EXCEPT !.state = "up"]
        /\ UNCHANGED <<files, image, job, history, starts>>

\* The command of the api container: alembic upgrade head && uvicorn.  A
\* database newer than the files ("can't locate revision") or a statement that
\* fails ends it, and docker starts it again.
ApiStarts ==
    LET new == UpgradeTo(db, api.image.head)
    IN  /\ api.state = "starting"
        /\ db.rev <= api.image.head
        /\ new.ok
        /\ db' = new
        /\ api' = [api EXCEPT !.state = "up"]
        /\ UNCHANGED <<files, image, job, history, starts>>

\* The process or the host goes down; restart: unless-stopped.
ApiStops ==
    /\ api.state = "up"
    /\ api' = [api EXCEPT !.state = "starting"]
    /\ UNCHANGED <<db, files, image, job, history, starts>>

\* tenant create, and the connections of the tenant.
TenantCreate(t) ==
    /\ HeadOf[api.image.code] = 2
    /\ db.rev = 2
    /\ t \notin db.tenants
    /\ db' = [db EXCEPT !.tenants = @ \cup {t}]
    /\ UNCHANGED <<api, files, image, job, history, starts>>

\* The worker records an order or a SKU.  Its models fit one schema only.
WorkerWrites(k, c) ==
    LET old == HeadOf[api.image.code] = 1
        row == [key |-> k, tenant |-> IF old THEN None ELSE TenantOf[c],
                conn |-> IF old THEN None ELSE c]
    IN  /\ db.rev = HeadOf[api.image.code]
        /\ IF old THEN c = Default ELSE TenantOf[c] \in db.tenants
        /\ \A r \in db.rows : r.key = k => r.conn # row.conn
        /\ db' = [db EXCEPT !.rows = @ \cup {row}]
        /\ written' = written \cup {[key |-> k, conn |-> c]}
        /\ UNCHANGED <<api, files, image, job, downgraded, starts>>

\* alembic downgrade, run by hand in a container that has revision 2.
Downgrade ==
    LET new == Downgrade002(db)
    IN  /\ Start
        /\ db.rev = 2
        /\ api.image.head = 2
        /\ new.ok
        /\ db' = new
        /\ downgraded' = TRUE
        /\ UNCHANGED <<api, files, image, job, written>>

-----------------------------------------------------------------------------
JobStep(j) ==
    \/ Build(j)
    \/ BuildFailureUnseen(j)
    \/ Dump(j)
    \/ Up(j)
    \/ Succeeds(j)
    \/ GivesUp(j)
    \/ Exits(j)

Next ==
    \/ \E j \in Jobs :
          \/ DeployDirectory(j)
          \/ \E v \in Versions :
                \/ DeployRef(j, v)
                \/ DeployFromCi(j, v)
                \/ DeployUpload(j, v)
          \/ JobStep(j)
    \/ ApiStarts
    \/ ApiStops
    \/ \E t \in Tenants : TenantCreate(t)
    \/ \E k \in Keys, c \in Conns : WorkerWrites(k, c)
    \/ Downgrade

Spec == Init /\ [][Next]_vars

\* docker restarts the api until it runs; a run ends.
Fairness == WF_vars(ApiStarts) /\ \A j \in Jobs : WF_vars(JobStep(j))

FairSpec == Spec /\ Fairness

-----------------------------------------------------------------------------
(* Properties *)

\* No release, restart, upgrade or downgrade loses a row the application has
\* written, or makes one up; and a row keeps the connection it belongs to, the
\* default one if it is older than connections, until someone downgrades
\* (002_multitenancy.py:213, :333).
RowsSurvive ==
    /\ {w.key : w \in written} = {r.key : r \in db.rows}
    /\ ~downgraded /\ db.rev = 2 =>
          written = {[key |-> r.key, conn |-> r.conn] : r \in db.rows}

\* Code that deploy.sh has built serves the schema it was written for, whoever
\* releases, restarts or migrates meanwhile, except after a downgrade behind its
\* back.  Of an uploaded image nothing is said: it may hold older code next to a
\* newer release's migrations (.deploy_staging.py:120).
ServesItsSchema ==
    api.state = "up" /\ HeadOf[api.image.code] # db.rev =>
        api.image.by = "upload" \/ downgraded

\* deploy.sh:9, a migration comes with a dump: when the api was released with
\* --migrate, the schema it replaces is the one that was dumped, or the dump
\* was taken before the first release had made any table.
UpgradesAreBackedUp ==
    [][db'.rev > db.rev /\ api.migrate /\ ~downgraded
          => api.backup \in {0, db.rev}]_vars

\* A run of deploy.sh that reports success, with no other run at its side,
\* has released what was asked for, and the api serves it on its own schema;
\* unless the build was skipped or git's HEAD is not what the directory holds.
SuccessServes ==
    [][\A j \in Hand \cup Ci :
          /\ job[j].pc = "wait" /\ job'[j].pc = "idle" /\ api.state = "up"
          /\ job[j].alone /\ ~job[j].skip /\ ~(j \in Hand /\ Dirty)
          => /\ api.image = FromGit(job[j].want)
             /\ db.rev = HeadOf[job[j].want] \/ downgraded]_vars

\* The api comes back from every release and restart by itself, whatever rows
\* a migration meets, unless its image is older than the schema.
ApiComesBack == []<>(api.state = "up" \/ db.rev > api.image.head)

=============================================================================
