---------------------------- MODULE DeployProofs ----------------------------
(***************************************************************************)
(* Proofs about Migration and Deploy.  First, what an upgrade and a        *)
(* downgrade make of a database; then the types, and the invariant that    *)
(* ties the rows to what the application has written, the images to their  *)
(* revisions, and a run of deploy.sh to what it releases.                  *)
(***************************************************************************)
EXTENDS Deploy, TLAPS

KeysOf(rows) == {r.key : r \in rows}

\* The databases a revision leaves behind.
WellFormed(d) ==
    /\ d.ok
    /\ d.rev = 0 => d.rows = {}
    /\ d.rev = 1 => UniqueKey(d.rows) /\ \A r \in d.rows : r.conn = None
    /\ d.rev = 2 => \A r \in d.rows : r.conn \in Conns

\* RowsSurvive, and before revision 2 everything belongs to the default.
RowsTrue ==
    /\ WellFormed(db)
    /\ RowsSurvive
    /\ ~downgraded /\ db.rev < 2 => \A w \in written : w.conn = Default

\* An image knows the revisions of its files; scripts may have more than that.
ImagesTrue ==
    /\ upload.by = "upload"
    /\ image.by = "git" => image.head = HeadOf[image.code]
    /\ api.image.by = "git" => api.image.head = HeadOf[api.image.code]

SchemaServed == api.state = "up" /\ ~downgraded => db.rev = api.image.head

\* A dump is of the schema of now or an older one.
Dumped(backup) == backup \in Revisions /\ (~downgraded => backup <= db.rev)

DumpsTrue ==
    /\ \A j \in Py : ~job[j].migrate
    /\ \A j \in Jobs : job[j].migrate /\ job[j].pc \in {"up", "wait"} => Dumped(job[j].backup)
    /\ api.migrate => Dumped(api.backup)

AloneIsAlone == \A j, i \in Jobs : job[j].alone /\ job[i].pc # "idle" => i = j

\* How far a run of deploy.sh without company has got with its release.
ReleaseTrue ==
    \A j \in Hand \cup Ci :
        job[j].alone /\ ~job[j].skip /\ job[j].pc # "idle" =>
            /\ job[j].want = tree \/ (j \in Hand /\ Dirty)
            /\ job[j].pc # "build" => image = FromGit(tree)
            /\ job[j].pc = "wait" => api.image = image

Truths ==
    RowsTrue /\ ImagesTrue /\ SchemaServed /\ DumpsTrue /\ AloneIsAlone /\ ReleaseTrue

IInv == TypeOK /\ Truths

-----------------------------------------------------------------------------
(* The migrations *)

LEMMA Constants ==
    /\ Default \in Conns /\ None \notin Conns /\ Bypass \in BOOLEAN
    /\ \A c \in Conns : TenantOf[c] \in Tenants /\ TenantOf[c] # None
    /\ HeadOf \in [Versions -> {1, 2}] /\ 1 \in Versions
    /\ NoBackup \notin Revisions /\ MaxStarts \in Nat
    /\ Py \cap (Hand \cup Ci) = {} /\ Versions \subseteq Nat
  BY MigrationAssumption, DeployAssumption DEF Tenants

LEMMA OwnedRows ==
    ASSUME NEW rows \in SUBSET Row, NEW t \in Tenants \cup {None},
           NEW c \in Conns \cup {None}
    PROVE  /\ Owned(rows, t, c) \in SUBSET Row
           /\ KeysOf(Owned(rows, t, c)) = KeysOf(rows)
           /\ UniqueKey(Owned(rows, t, c))
           /\ \A r \in Owned(rows, t, c) : r.tenant = t /\ r.conn = c
  <1>1. \A r \in rows : r.key \in Keys
    BY DEF Row
  <1>2. Owned(rows, t, c) \in SUBSET Row
    BY <1>1 DEF Owned, Row
  <1>3. KeysOf(Owned(rows, t, c)) = KeysOf(rows)
    <2>1. ASSUME NEW x \in Owned(rows, t, c)
          PROVE  x.key \in KeysOf(rows)
      BY DEF Owned, KeysOf
    <2>2. ASSUME NEW r \in rows
          PROVE  r.key \in KeysOf(Owned(rows, t, c))
      <3>1. PICK x : x = [key |-> r.key, tenant |-> t, conn |-> c]
        OBVIOUS
      <3>2. x \in Owned(rows, t, c)
        BY <3>1 DEF Owned
      <3>3. x.key = r.key
        BY <3>1
      <3> QED
        BY <3>2, <3>3, Zenon DEF KeysOf
    <2> QED
      BY <2>1, <2>2 DEF KeysOf
  <1>4. UniqueKey(Owned(rows, t, c))
    BY DEF Owned, UniqueKey
  <1>5. \A r \in Owned(rows, t, c) : r.tenant = t /\ r.conn = c
    BY DEF Owned
  <1> QED
    BY <1>2, <1>3, <1>4, <1>5

\* The rows after the new columns and the UPDATE, and the tenants.
LEMMA BackfillResult ==
    ASSUME NEW d \in Database, NEW new,
           new = Backfill(AddColumns(DefaultTenant(CreateTenancy(d))))
    PROVE  /\ new \in Database
           /\ new.tenants = {TenantOf[Default]}
           /\ new.ok = d.ok
           /\ KeysOf(new.rows) = KeysOf(d.rows)
           /\ UniqueKey(new.rows)
           /\ \A r \in new.rows :
                 \/ r.conn = Default /\ r.tenant = TenantOf[Default]
                 \/ r.tenant = None /\ d.rls /\ ~Bypass
  <1>1. PICK d0 : d0 = DefaultTenant(CreateTenancy(d))
    OBVIOUS
  <1>2. d0 = [d EXCEPT !.tenants = {TenantOf[Default]}]
    BY <1>1 DEF DefaultTenant, CreateTenancy, Database
  <1>3. PICK blank : blank = Owned(d.rows, None, None)
    OBVIOUS
  <1>4. PICK d1 : d1 = AddColumns(d0)
    OBVIOUS
  <1>5. /\ d1 \in Database /\ d1.rows = blank /\ d1.tenants = {TenantOf[Default]}
        /\ d1.rls = d.rls /\ d1.ok = d.ok
    <2>1. d.rows \in SUBSET Row /\ d0.rows = d.rows
      BY <1>2 DEF Database
    <2>2. blank \in SUBSET Row
      BY <1>3, <2>1, OwnedRows
    <2>3. d1 = [d0 EXCEPT !.rows = blank]
      BY <1>3, <1>4, <2>1 DEF AddColumns
    <2> QED
      BY <1>2, <2>2, <2>3, Constants DEF Database
  <1>6. /\ blank \in SUBSET Row /\ KeysOf(blank) = KeysOf(d.rows) /\ UniqueKey(blank)
        /\ \A r \in blank : r.tenant = None
    BY <1>3, OwnedRows DEF Database
  <1>7. new = Backfill(d1)
    BY <1>1, <1>4
  <1>8. CASE d.rls /\ ~Bypass
    <2>1. VisibleToMigration(d1) = {}
      BY <1>5, <1>8 DEF VisibleToMigration
    <2>2. Owned({}, TenantOf[Default], Default) = {}
      BY DEF Owned
    <2>3. new = [d1 EXCEPT !.rows = (@ \ {}) \cup {}]
      BY <1>7, <2>1, <2>2 DEF Backfill
    <2>4. (blank \ {}) \cup {} = blank
      OBVIOUS
    <2>5. new.rows = blank /\ new \in Database /\ new.tenants = d1.tenants
          /\ new.ok = d1.ok
      BY <1>5, <1>6, <2>3, <2>4 DEF Database
    <2> QED
      BY <1>5, <1>6, <1>8, <2>5
  <1>9. CASE ~(d.rls /\ ~Bypass)
    <2>1. PICK full : full = Owned(blank, TenantOf[Default], Default)
      OBVIOUS
    <2>2. /\ full \in SUBSET Row /\ KeysOf(full) = KeysOf(blank) /\ UniqueKey(full)
          /\ \A r \in full : r.tenant = TenantOf[Default] /\ r.conn = Default
      BY <1>6, <2>1, OwnedRows, Constants
    <2>3. {r \in VisibleToMigration(d1) : r.tenant = None} = blank
      BY <1>5, <1>6, <1>9 DEF VisibleToMigration
    <2>4. new = [d1 EXCEPT !.rows = (@ \ blank) \cup full]
      BY <1>7, <2>1, <2>3 DEF Backfill
    <2>5. (d1.rows \ blank) \cup full = full
      BY <1>5
    <2>6. new.rows = full /\ new \in Database /\ new.tenants = d1.tenants
          /\ new.ok = d1.ok
      BY <1>5, <2>2, <2>4, <2>5 DEF Database
    <2> QED
      BY <1>5, <1>6, <2>2, <2>6
  <1> QED
    BY <1>8, <1>9

LEMMA UpgradeResult ==
    ASSUME NEW d \in Database, NEW new, new = Upgrade002(d)
    PROVE  /\ new \in Database
           /\ new.rev = 2
           /\ KeysOf(new.rows) = KeysOf(d.rows)
           /\ new.ok => d.ok /\ \A r \in new.rows : r.conn = Default
           /\ d.ok /\ (Bypass \/ ~d.rls) => new.ok
  <1>1. PICK d2 : d2 = Backfill(AddColumns(DefaultTenant(CreateTenancy(d))))
    OBVIOUS
  <1>2. /\ d2 \in Database /\ d2.tenants = {TenantOf[Default]} /\ d2.ok = d.ok
        /\ KeysOf(d2.rows) = KeysOf(d.rows) /\ UniqueKey(d2.rows)
        /\ \A r \in d2.rows : \/ r.conn = Default /\ r.tenant = TenantOf[Default]
                              \/ r.tenant = None /\ d.rls /\ ~Bypass
    BY <1>1, BackfillResult
  <1>3. PICK owned \in BOOLEAN :
           owned = \A r \in d2.rows : r.tenant \in d2.tenants /\ r.conn \in Conns
    OBVIOUS
  <1>4. Constrain(d2) = [d2 EXCEPT !.ok = @ /\ owned]
    BY <1>3 DEF Constrain, Require
  <1>5. UniqueInConnection(d2.rows)
    BY <1>2 DEF UniqueKey, UniqueInConnection
  <1>6. PICK d3 : d3 = Constrain(d2)
    OBVIOUS
  <1>7. d3 \in Database /\ d3.rows = d2.rows /\ d3.ok = (d2.ok /\ owned)
    BY <1>2, <1>4, <1>6 DEF Database
  <1>8. PICK d4 : d4 = SurrogateKey(d3)
    OBVIOUS
  <1>9. d4 = [d3 EXCEPT !.ok = @ /\ UniqueInConnection(d3.rows)]
    BY <1>8 DEF SurrogateKey, Require
  <1>10. d4 \in Database /\ d4.rows = d3.rows /\ d4.ok = d3.ok
    BY <1>5, <1>7, <1>9 DEF Database
  <1>11. new = [EnableRowLevelSecurity(d4) EXCEPT !.rev = 2]
    BY <1>1, <1>6, <1>8 DEF Upgrade002
  <1>12. EnableRowLevelSecurity(d4) = [d4 EXCEPT !.rls = TRUE]
    BY DEF EnableRowLevelSecurity
  <1>13. /\ new \in Database /\ new.rev = 2 /\ new.rows = d2.rows
         /\ new.ok = (d2.ok /\ owned)
    <2>1. PICK d5 : d5 = EnableRowLevelSecurity(d4)
      OBVIOUS
    <2>2. d5 \in Database /\ d5.rows = d4.rows /\ d5.ok = d4.ok
      BY <1>10, <1>12, <2>1 DEF Database
    <2>3. new = [d5 EXCEPT !.rev = 2]
      BY <1>11, <2>1
    <2>4. 2 \in Revisions
      BY DEF Revisions
    <2>5. new \in Database /\ new.rev = 2 /\ new.rows = d5.rows /\ new.ok = d5.ok
      BY <2>2, <2>3, <2>4 DEF Database
    <2> QED
      BY <1>7, <1>10, <2>2, <2>5
  <1>14. owned => \A r \in d2.rows : r.conn = Default
    BY <1>2, <1>3, Constants
  <1>15. Bypass \/ ~d.rls => owned
    BY <1>2, <1>3, Constants
  <1> QED
    BY <1>2, <1>13, <1>14, <1>15

LEMMA DowngradeResult ==
    ASSUME NEW d \in Database, NEW new, new = Downgrade002(d), new.ok
    PROVE  /\ new \in Database
           /\ new.rev = 1
           /\ KeysOf(new.rows) = KeysOf(d.rows)
           /\ WellFormed(new)
  <1>1. PICK blank : blank = Owned(d.rows, None, None)
    OBVIOUS
  <1>2. /\ blank \in SUBSET Row /\ KeysOf(blank) = KeysOf(d.rows) /\ UniqueKey(blank)
        /\ \A r \in blank : r.conn = None
    BY <1>1, OwnedRows DEF Database
  <1>3. PICK d1 : d1 = NaturalKey(d)
    OBVIOUS
  <1>4. d1 = [d EXCEPT !.ok = @ /\ UniqueKey(d.rows)]
    BY <1>3 DEF NaturalKey, Require
  <1>5. d1 \in Database /\ d1.rows = d.rows
    BY <1>4 DEF Database, UniqueKey
  <1>6. new = [[d1 EXCEPT !.rows = blank, !.tenants = {}] EXCEPT !.rev = 1]
    BY <1>1, <1>3, <1>5 DEF Downgrade002, DropTenancy
  <1>7. PICK d2 : d2 = [d1 EXCEPT !.rows = blank, !.tenants = {}]
    OBVIOUS
  <1>8. d2 \in Database /\ d2.rows = blank
    BY <1>2, <1>5, <1>7 DEF Database
  <1>9. 1 \in Revisions
    BY DEF Revisions
  <1>10. new \in Database /\ new.rev = 1 /\ new.rows = blank
    BY <1>6, <1>7, <1>8, <1>9 DEF Database
  <1> QED
    BY <1>2, <1>10 DEF WellFormed

\* What the api makes of the database when it comes up.
LEMMA UpgradeToResult ==
    ASSUME NEW d \in Database, NEW head \in {1, 2}, NEW new,
           new = UpgradeTo(d, head), d.rev <= head, WellFormed(d)
    PROVE  /\ new \in Database
           /\ new.rev = head
           /\ KeysOf(new.rows) = KeysOf(d.rows)
           /\ new.ok => WellFormed(new)
           /\ new.ok /\ d.rev < 2 /\ new.rev = 2 => \A r \in new.rows : r.conn = Default
           /\ d.rev = new.rev => new = d
           /\ Bypass \/ ~d.rls => new.ok
  <1>1. PICK one : one = IF d.rev = 0 /\ head >= 1 THEN Initial(d) ELSE d
    OBVIOUS
  <1>2. d.rev \in {0, 1, 2}
    BY DEF Database, Revisions
  <1>3. new = IF one.rev = 1 /\ head >= 2 THEN Upgrade002(one) ELSE one
    BY <1>1 DEF UpgradeTo
  <1>4. /\ one \in Database /\ one.rows = d.rows /\ one.rls = d.rls /\ one.ok = d.ok
        /\ one.rev = IF d.rev = 0 THEN 1 ELSE d.rev
        /\ d.rev # 0 => one = d
    BY <1>1, <1>2 DEF Initial, Database, Revisions
  <1>5. WellFormed(one)
    BY <1>2, <1>4 DEF WellFormed, UniqueKey
  <1>6. CASE one.rev = 1 /\ head = 2
    <2>1. new = Upgrade002(one)
      BY <1>3, <1>6
    <2>2. /\ new \in Database /\ new.rev = 2 /\ KeysOf(new.rows) = KeysOf(one.rows)
          /\ new.ok => \A r \in new.rows : r.conn = Default
          /\ one.ok /\ (Bypass \/ ~one.rls) => new.ok
      BY <1>4, <2>1, UpgradeResult
    <2> QED
      BY <1>2, <1>4, <1>6, <2>2, Constants DEF WellFormed
  <1>7. CASE ~(one.rev = 1 /\ head = 2)
    <2>1. new = one /\ new.rev = head
      BY <1>2, <1>3, <1>4, <1>7
    <2> QED
      BY <1>2, <1>4, <1>5, <2>1 DEF WellFormed
  <1> QED
    BY <1>6, <1>7

-----------------------------------------------------------------------------
(* Types *)

LEMMA JobFields ==
    ASSUME TypeOK, NEW j \in Jobs
    PROVE  /\ job[j] \in Job
           /\ job[j].want \in Versions \cup {None}
           /\ job[j].skip \in BOOLEAN /\ job[j].migrate \in BOOLEAN
           /\ job[j].alone \in BOOLEAN
           /\ job[j].backup \in Revisions \cup {NoBackup}
  BY DEF TypeOK, Job

LEMMA NoJobType == NoJob \in Job
  BY DEF NoJob, Job

LEMMA ShJobType ==
    ASSUME NEW want \in Versions \cup {None}, NEW skip \in BOOLEAN,
           NEW migrate \in BOOLEAN
    PROVE  /\ ShJob(want, skip, migrate) \in Job
           /\ ShJob(want, skip, migrate).want = want
           /\ ShJob(want, skip, migrate).skip = skip
           /\ ShJob(want, skip, migrate).migrate = migrate
           /\ skip \/ ShJob(want, skip, migrate).pc = "build"
           /\ migrate => ShJob(want, skip, migrate).pc \in {"build", "dump"}
           /\ ShJob(want, skip, migrate).pc # "wait"
  BY DEF ShJob, NoJob, Job

LEMMA LaunchType ==
    ASSUME TypeOK, NEW j \in Jobs, NEW new \in Job, Launch(j, new)
    PROVE  job' \in [Jobs -> Job] /\ starts' \in 0 .. MaxStarts
  <1>1. [new EXCEPT !.alone = Running = {}] \in Job
    BY DEF Job
  <1>2. \A i \in Jobs : [job[i] EXCEPT !.alone = FALSE] \in Job
    BY JobFields DEF Job
  <1>3. job' \in [Jobs -> Job]
    BY <1>1, <1>2 DEF Launch
  <1>4. starts' \in 0 .. MaxStarts
    BY Constants DEF Launch, Start, TypeOK
  <1> QED
    BY <1>3, <1>4

LEMMA FromGitType ==
    ASSUME NEW v \in Versions
    PROVE  FromGit(v) \in Image
  BY Constants DEF FromGit, Image

LEMMA TypeInit ==
    ASSUME Init
    PROVE  TypeOK
  <1>1. Empty \in Database
    BY DEF Empty, Database, Revisions
  <1>2. image \in Image /\ upload \in Image
    BY FromGitType, Constants DEF Init, Image
  <1>3. api \in Container
    BY <1>2 DEF Init, Container
  <1>4. starts \in 0 .. MaxStarts
    BY Constants DEF Init
  <1> QED
    BY <1>1, <1>2, <1>3, <1>4, NoJobType, Constants DEF Init, TypeOK

LEMMA LaunchTypes ==
    ASSUME TypeOK, NEW j \in Jobs, NEW v \in Versions,
           DeployDirectory(j) \/ DeployRef(j, v) \/ DeployFromCi(j, v) \/ DeployUpload(j, v)
    PROVE  TypeOK'
  <1>1. CASE DeployDirectory(j)
    <2>1. PICK skip, migrate \in BOOLEAN :
             Launch(j, ShJob(IF skip THEN None ELSE tree, skip, migrate))
      BY <1>1 DEF DeployDirectory
    <2>2. (IF skip THEN None ELSE tree) \in Versions \cup {None}
      BY DEF TypeOK
    <2>3. job' \in [Jobs -> Job] /\ starts' \in 0 .. MaxStarts
      BY <2>1, <2>2, ShJobType, LaunchType
    <2> QED
      BY <1>1, <2>3 DEF DeployDirectory, TypeOK, files, stack, history
  <1>2. CASE DeployRef(j, v)
    <2>1. PICK migrate \in BOOLEAN : Launch(j, ShJob(v, FALSE, migrate))
      BY <1>2 DEF DeployRef
    <2>2. job' \in [Jobs -> Job] /\ starts' \in 0 .. MaxStarts
      BY <2>1, ShJobType, LaunchType
    <2> QED
      BY <1>2, <2>2 DEF DeployRef, TypeOK, stack, history
  <1>3. CASE DeployFromCi(j, v)
    <2>1. job' \in [Jobs -> Job] /\ starts' \in 0 .. MaxStarts
      BY <1>3, ShJobType, LaunchType DEF DeployFromCi
    <2> QED
      BY <1>3, <2>1 DEF DeployFromCi, TypeOK, stack, history
  <1>4. CASE DeployUpload(j, v)
    <2>1. [NoJob EXCEPT !.pc = "build", !.want = v] \in Job
      BY NoJobType DEF NoJob, Job
    <2>2. job' \in [Jobs -> Job] /\ starts' \in 0 .. MaxStarts
      BY <1>4, <2>1, LaunchType DEF DeployUpload
    <2>3. Overlay(v) \in Image
      BY Constants DEF Overlay, TypeOK, Image
    <2> QED
      BY <1>4, <2>2, <2>3 DEF DeployUpload, TypeOK, stack, history
  <1> QED
    BY <1>1, <1>2, <1>3, <1>4

LEMMA JobTypes ==
    ASSUME TypeOK, NEW j \in Jobs, JobStep(j)
    PROVE  TypeOK'
  <1>1. CASE Build(j) \/ BuildFailureUnseen(j)
    <2>1. image' \in Image
      BY <1>1, FromGitType DEF Build, BuildFailureUnseen, TypeOK
    <2>2. \A pc \in {"dump", "up"} : [job[j] EXCEPT !.pc = pc] \in Job
      BY JobFields DEF Job
    <2>3. job' \in [Jobs -> Job]
      BY <1>1, <2>2 DEF Build, BuildFailureUnseen, GoTo, TypeOK
    <2> QED
      BY <1>1, <2>1, <2>3 DEF Build, BuildFailureUnseen, TypeOK, files, stack, history
  <1>2. CASE Dump(j)
    <2>1. [job[j] EXCEPT !.pc = "up", !.backup = db.rev] \in Job
      BY JobFields DEF Job, TypeOK, Database
    <2>2. job' \in [Jobs -> Job]
      BY <1>2, <2>1 DEF Dump, TypeOK
    <2> QED
      BY <1>2, <2>2 DEF Dump, TypeOK, files, stack, history
  <1>3. CASE Up(j)
    <2>1. [job[j] EXCEPT !.pc = "wait"] \in Job
      BY JobFields DEF Job
    <2>2. job' \in [Jobs -> Job]
      BY <1>3, <2>1 DEF Up, GoTo, TypeOK
    <2>3. [image |-> image, state |-> "starting", migrate |-> job[j].migrate,
           backup |-> job[j].backup] \in Container
      BY JobFields DEF TypeOK, Container
    <2>4. api' \in Container
      BY <1>3, <2>3 DEF Up, TypeOK
    <2> QED
      BY <1>3, <2>2, <2>4 DEF Up, TypeOK, files, history
  <1>4. CASE Succeeds(j) \/ GivesUp(j) \/ Exits(j)
    <2>1. job' \in [Jobs -> Job]
      BY <1>4, NoJobType DEF Succeeds, GivesUp, Exits, Leave, TypeOK
    <2> QED
      BY <1>4, <2>1 DEF Succeeds, GivesUp, Exits, TypeOK, files, stack, history
  <1> QED
    BY <1>1, <1>2, <1>3, <1>4 DEF JobStep

LEMMA WorldTypes ==
    ASSUME IInv,
           \/ ApiStarts \/ ApiStops \/ Downgrade
           \/ \E t \in Tenants : TenantCreate(t)
           \/ \E k \in Keys, c \in Conns : WorkerWrites(k, c)
    PROVE  TypeOK'
  <1>1. CASE ApiStarts
    <2>1. api.image.head \in {1, 2} /\ WellFormed(db) /\ db \in Database
      BY DEF IInv, TypeOK, Container, Image, Truths, RowsTrue
    <2>2. db' \in Database
      BY <1>1, <2>1, UpgradeToResult DEF ApiStarts
    <2>3. [api EXCEPT !.state = "up"] \in Container
      BY DEF IInv, TypeOK, Container
    <2> QED
      BY <1>1, <2>2, <2>3 DEF ApiStarts, IInv, TypeOK, files, history
  <1>2. CASE ApiStops
    <2>1. [api EXCEPT !.state = "starting"] \in Container
      BY DEF IInv, TypeOK, Container
    <2> QED
      BY <1>2, <2>1 DEF ApiStops, IInv, TypeOK, files, history
  <1>3. CASE Downgrade
    <2>1. db' \in Database
      BY <1>3, DowngradeResult DEF Downgrade, IInv, TypeOK
    <2>2. starts' \in 0 .. MaxStarts
      BY <1>3, Constants DEF Downgrade, Start, IInv, TypeOK
    <2> QED
      BY <1>3, <2>1, <2>2 DEF Downgrade, IInv, TypeOK, files
  <1>4. ASSUME NEW t \in Tenants, TenantCreate(t)
        PROVE  TypeOK'
    <2>1. db' \in Database
      BY <1>4 DEF TenantCreate, IInv, TypeOK, Database
    <2> QED
      BY <1>4, <2>1 DEF TenantCreate, IInv, TypeOK, files, history
  <1>5. ASSUME NEW k \in Keys, NEW c \in Conns, WorkerWrites(k, c)
        PROVE  TypeOK'
    <2>1. PICK row \in Row : db' = [db EXCEPT !.rows = @ \cup {row}]
      <3>1. PICK old \in BOOLEAN : old = (HeadOf[api.image.code] = 1)
        OBVIOUS
      <3>2. [key |-> k, tenant |-> IF old THEN None ELSE TenantOf[c],
             conn |-> IF old THEN None ELSE c] \in Row
        BY Constants DEF Row
      <3> QED
        BY <1>5, <3>1, <3>2 DEF WorkerWrites
    <2>2. db' \in Database
      BY <2>1 DEF IInv, TypeOK, Database
    <2>3. written' \subseteq Written
      BY <1>5 DEF WorkerWrites, IInv, TypeOK, Written
    <2> QED
      BY <1>5, <2>2, <2>3 DEF WorkerWrites, IInv, TypeOK, files
  <1> QED
    BY <1>1, <1>2, <1>3, <1>4, <1>5

LEMMA TypeNext ==
    ASSUME IInv, [Next]_vars
    PROVE  TypeOK'
  <1>1. CASE UNCHANGED vars
    BY <1>1 DEF IInv, TypeOK, vars
  <1>2. TypeOK
    BY DEF IInv
  <1>3. ASSUME NEW j \in Jobs, DeployDirectory(j)
        PROVE  TypeOK'
    BY <1>2, <1>3, LaunchTypes, Constants
  <1> QED
    BY <1>1, <1>2, <1>3, LaunchTypes, JobTypes, WorldTypes DEF Next

-----------------------------------------------------------------------------
(* The invariant *)

LEMMA TruthsInit ==
    ASSUME Init
    PROVE  Truths
  <1>1. RowsTrue
    BY DEF Init, Empty, RowsTrue, WellFormed, RowsSurvive
  <1>2. ImagesTrue
    BY Constants DEF Init, ImagesTrue, FromGit
  <1>3. SchemaServed /\ DumpsTrue
    BY DEF Init, SchemaServed, DumpsTrue, NoJob, Jobs
  <1>4. AloneIsAlone /\ ReleaseTrue
    BY DEF Init, AloneIsAlone, ReleaseTrue, NoJob, Jobs
  <1> QED
    BY <1>1, <1>2, <1>3, <1>4 DEF Truths

\* A run starts: nothing is built or migrated yet.
Launches(j, new) ==
    /\ Launch(j, new)
    /\ new.pc # "wait" /\ (new.migrate => new.pc # "up" /\ j \notin Py)
    /\ j \in Hand \cup Ci /\ ~new.skip =>
          new.pc = "build" /\ (new.want = tree' \/ (j \in Hand /\ Dirty'))
    /\ upload'.by = "upload"
    /\ UNCHANGED <<image, stack, history>>

LEMMA LaunchSteps ==
    ASSUME IInv, NEW j \in Jobs, NEW v \in Versions,
           DeployDirectory(j) \/ DeployRef(j, v) \/ DeployFromCi(j, v) \/ DeployUpload(j, v)
    PROVE  \E new \in Job : Launches(j, new)
  <1>1. upload \in Image /\ upload.by = "upload"
    BY DEF IInv, TypeOK, Truths, ImagesTrue
  <1>2. CASE DeployDirectory(j)
    <2>1. PICK skip, migrate \in BOOLEAN :
             Launch(j, ShJob(IF skip THEN None ELSE tree, skip, migrate))
      BY <1>2 DEF DeployDirectory
    <2>2. (IF skip THEN None ELSE tree) \in Versions \cup {None}
      BY DEF IInv, TypeOK
    <2>3. PICK new \in Job : new = ShJob(IF skip THEN None ELSE tree, skip, migrate)
      BY <2>2, ShJobType
    <2>4. /\ new.want = (IF skip THEN None ELSE tree) /\ new.skip = skip
          /\ new.migrate = migrate /\ (skip \/ new.pc = "build")
          /\ (migrate => new.pc \in {"build", "dump"}) /\ new.pc # "wait"
      BY <2>2, <2>3, ShJobType
    <2>5. Launches(j, new)
      BY <1>1, <1>2, <2>1, <2>3, <2>4, Constants DEF DeployDirectory, Launches, files
    <2> QED
      BY <2>5
  <1>3. CASE DeployRef(j, v)
    <2>1. PICK migrate \in BOOLEAN : Launch(j, ShJob(v, FALSE, migrate))
      BY <1>3 DEF DeployRef
    <2>2. PICK new \in Job : new = ShJob(v, FALSE, migrate)
      BY ShJobType
    <2>3. /\ new.want = v /\ new.migrate = migrate /\ new.pc = "build"
      BY <2>2, ShJobType
    <2>4. v = tree' \/ Dirty'
      BY <1>3 DEF DeployRef, CanCheckout, Dirty
    <2>5. Launches(j, new)
      BY <1>1, <1>3, <2>1, <2>2, <2>3, <2>4, Constants DEF DeployRef, Launches
    <2> QED
      BY <2>5
  <1>4. CASE DeployFromCi(j, v)
    <2>1. PICK new \in Job : new = ShJob(v, FALSE, TRUE)
      BY ShJobType
    <2>2. new.want = v /\ new.pc = "build"
      BY <2>1, ShJobType
    <2>3. Launches(j, new)
      BY <1>1, <1>4, <2>1, <2>2, Constants DEF DeployFromCi, Launches
    <2> QED
      BY <2>3
  <1>5. CASE DeployUpload(j, v)
    <2>1. PICK new : new = [NoJob EXCEPT !.pc = "build", !.want = v]
      OBVIOUS
    <2>2. new \in Job /\ new.pc = "build" /\ ~new.migrate
      BY <2>1, NoJobType DEF NoJob, Job
    <2>3. Overlay(v).by = "upload"
      BY <1>1 DEF Overlay, Image
    <2>4. Launches(j, new)
      BY <1>5, <2>1, <2>2, <2>3, Constants DEF DeployUpload, Launches
    <2> QED
      BY <2>2, <2>4
  <1> QED
    BY <1>2, <1>3, <1>4, <1>5

LEMMA LaunchTruths ==
    ASSUME IInv, NEW j \in Jobs, NEW new \in Job, Launches(j, new)
    PROVE  Truths'
  <1>1. UNCHANGED <<db, api, image, written, downgraded>>
    BY DEF Launches, stack, history
  <1>2. /\ job[j].pc = "idle"
        /\ job'[j].pc = new.pc /\ job'[j].want = new.want /\ job'[j].skip = new.skip
        /\ job'[j].migrate = new.migrate /\ job'[j].alone = (Running = {})
    BY DEF Launches, Launch, Job
  <1>3. \A i \in Jobs \ {j} :
           /\ job'[i].pc = job[i].pc /\ job'[i].migrate = job[i].migrate
           /\ job'[i].backup = job[i].backup /\ job'[i].alone = FALSE
    BY JobFields DEF Launches, Launch, IInv, Job
  <1>4. RowsTrue'
    BY <1>1 DEF IInv, Truths, RowsTrue, WellFormed, RowsSurvive
  <1>5. ImagesTrue' /\ SchemaServed'
    BY <1>1 DEF Launches, IInv, Truths, ImagesTrue, SchemaServed
  <1>6. DumpsTrue'
    BY <1>1, <1>2, <1>3 DEF Launches, IInv, Truths, DumpsTrue, Dumped, Job, Jobs
  <1>7. job'[j].alone => \A i \in Jobs : job[i].pc = "idle"
    BY <1>2 DEF Running
  <1>8. AloneIsAlone'
    <2>1. SUFFICES ASSUME NEW k \in Jobs, NEW i \in Jobs, job'[k].alone,
                          job'[i].pc # "idle"
                   PROVE  i = k
      BY DEF AloneIsAlone
    <2>2. k = j
      BY <1>3, <2>1
    <2> QED
      BY <1>3, <1>7, <2>1, <2>2
  <1>9. ReleaseTrue'
    BY <1>2, <1>3 DEF Launches, ReleaseTrue, Jobs
  <1> QED
    BY <1>4, <1>5, <1>6, <1>8, <1>9 DEF Truths

\* A run goes on or ends; the database stays as it is.
JobMoves(j) ==
    /\ UNCHANGED <<db, files, history>>
    /\ \A i \in Jobs \ {j} : job'[i] = job[i]
    /\ job[j].pc # "idle"
    /\ job'[j].alone => job[j].alone
    /\ job'[j].migrate => job[j].migrate
    /\ job'[j].pc # "idle" =>
          /\ job'[j].want = job[j].want /\ job'[j].skip = job[j].skip
          /\ job'[j].pc # "build"

LEMMA JobSteps ==
    ASSUME TypeOK, NEW j \in Jobs, JobStep(j)
    PROVE  JobMoves(j)
  <1>1. CASE Build(j) \/ BuildFailureUnseen(j) \/ Up(j)
    BY <1>1, JobFields
       DEF Build, BuildFailureUnseen, Up, GoTo, JobMoves, TypeOK, Job, files, stack, history
  <1>2. CASE Dump(j)
    BY <1>2, JobFields DEF Dump, JobMoves, TypeOK, Job, files, stack, history
  <1>3. CASE Succeeds(j) \/ GivesUp(j) \/ Exits(j)
    BY <1>3 DEF Succeeds, GivesUp, Exits, Leave, NoJob, JobMoves, TypeOK, files, stack, history
  <1> QED
    BY <1>1, <1>2, <1>3 DEF JobStep

LEMMA BuildTruths ==
    ASSUME IInv, NEW j \in Jobs, Build(j), JobMoves(j)
    PROVE  ImagesTrue' /\ SchemaServed' /\ DumpsTrue' /\ ReleaseTrue'
  <1>1. /\ job[j].pc = "build" /\ UNCHANGED <<db, api, downgraded, tree, gitHead, upload>>
        /\ image' = IF j \in Py THEN upload ELSE FromGit(tree)
        /\ job'[j].pc = IF job[j].migrate THEN "dump" ELSE "up"
        /\ job'[j].migrate = job[j].migrate
    BY JobFields DEF Build, GoTo, stack, history, files, IInv, TypeOK, Job
  <1>2. ImagesTrue'
    BY <1>1 DEF IInv, Truths, ImagesTrue, FromGit
  <1>3. SchemaServed' /\ DumpsTrue'
    BY <1>1, JobFields DEF JobMoves, IInv, Truths, SchemaServed, DumpsTrue, Dumped, Jobs
  <1>4. ReleaseTrue'
    <2>1. SUFFICES ASSUME NEW i \in Hand \cup Ci, job'[i].alone, ~job'[i].skip,
                          job'[i].pc # "idle"
                   PROVE  /\ job'[i].want = tree \/ (i \in Hand /\ Dirty)
                          /\ image' = FromGit(tree)
                          /\ job'[i].pc # "wait"
      BY <1>1 DEF ReleaseTrue, Dirty
    <2>2. i = j
      BY <1>1, <2>1 DEF JobMoves, IInv, Truths, AloneIsAlone, Jobs
    <2>3. job[j].alone /\ ~job[j].skip /\ job'[j].want = job[j].want
      BY <2>1, <2>2 DEF JobMoves
    <2> QED
      BY <1>1, <2>1, <2>2, <2>3, Constants DEF IInv, Truths, ReleaseTrue
  <1> QED
    BY <1>2, <1>3, <1>4

LEMMA UpTruths ==
    ASSUME IInv, NEW j \in Jobs, Up(j), JobMoves(j)
    PROVE  ImagesTrue' /\ SchemaServed' /\ DumpsTrue' /\ ReleaseTrue'
  <1>1. /\ job[j].pc = "up" /\ UNCHANGED <<db, image, downgraded, tree, gitHead, upload>>
        /\ api'.image = image
        /\ \/ api' = api
           \/ /\ api'.state = "starting"
              /\ api'.migrate = job[j].migrate /\ api'.backup = job[j].backup
        /\ job'[j].pc = "wait"
        /\ job'[j].migrate = job[j].migrate /\ job'[j].backup = job[j].backup
    BY JobFields DEF Up, GoTo, history, files, IInv, TypeOK, Job
  <1>2. ImagesTrue' /\ SchemaServed'
    BY <1>1 DEF IInv, Truths, ImagesTrue, SchemaServed
  <1>3. DumpsTrue'
    BY <1>1, JobFields DEF JobMoves, IInv, Truths, DumpsTrue, Dumped, Jobs
  <1>4. ReleaseTrue'
    <2>1. SUFFICES ASSUME NEW i \in Hand \cup Ci, job'[i].alone, ~job'[i].skip,
                          job'[i].pc # "idle"
                   PROVE  /\ job'[i].want = tree \/ (i \in Hand /\ Dirty)
                          /\ image = FromGit(tree)
      BY <1>1 DEF ReleaseTrue, Dirty
    <2>2. i = j
      BY <1>1, <2>1 DEF JobMoves, IInv, Truths, AloneIsAlone, Jobs
    <2>3. job[j].alone /\ ~job[j].skip /\ job'[j].want = job[j].want
      BY <2>1, <2>2 DEF JobMoves
    <2> QED
      BY <1>1, <2>1, <2>2, <2>3 DEF IInv, Truths, ReleaseTrue
  <1> QED
    BY <1>2, <1>3, <1>4

\* The other steps of a run: a dump, a failure, an end.
LEMMA OtherTruths ==
    ASSUME IInv, NEW j \in Jobs, JobMoves(j),
           BuildFailureUnseen(j) \/ Dump(j) \/ Succeeds(j) \/ GivesUp(j) \/ Exits(j)
    PROVE  ImagesTrue' /\ SchemaServed' /\ DumpsTrue' /\ ReleaseTrue'
  <1>1. UNCHANGED <<db, image, api, downgraded, tree, gitHead, upload>>
    BY DEF BuildFailureUnseen, Dump, Succeeds, GivesUp, Exits, files, stack, history
  <1>2. ImagesTrue' /\ SchemaServed'
    BY <1>1 DEF IInv, Truths, ImagesTrue, SchemaServed
  <1>3. DumpsTrue'
    <2>1. CASE BuildFailureUnseen(j)
      <3>1. j \in Py
        BY <2>1 DEF BuildFailureUnseen
      <3> QED
        BY <1>1, <3>1 DEF JobMoves, IInv, Truths, DumpsTrue, Dumped, Jobs
    <2>2. CASE Dump(j)
      <3>1. job'[j].backup = db.rev
        BY <2>2, JobFields DEF Dump, IInv, TypeOK, Job
      <3>2. db.rev \in Revisions /\ db.rev <= db.rev
        BY DEF IInv, TypeOK, Database, Revisions
      <3> QED
        BY <1>1, <3>1, <3>2 DEF JobMoves, IInv, Truths, DumpsTrue, Dumped, Jobs
    <2>3. CASE Succeeds(j) \/ GivesUp(j) \/ Exits(j)
      <3>1. job'[j].pc = "idle"
        BY <2>3 DEF Succeeds, GivesUp, Exits, Leave, NoJob, IInv, TypeOK
      <3> QED
        BY <1>1, <3>1 DEF JobMoves, IInv, Truths, DumpsTrue, Dumped, Jobs
    <2> QED
      BY <2>1, <2>2, <2>3
  <1>4. ReleaseTrue'
    <2>1. SUFFICES ASSUME NEW i \in Hand \cup Ci, job'[i].alone, ~job'[i].skip,
                          job'[i].pc # "idle"
                   PROVE  /\ job'[i].want = tree \/ (i \in Hand /\ Dirty)
                          /\ image = FromGit(tree)
                          /\ job'[i].pc # "wait"
      BY <1>1 DEF ReleaseTrue, Dirty
    <2>2. i = j
      BY <1>1, <2>1 DEF JobMoves, IInv, Truths, AloneIsAlone, Jobs
    <2>3. job[j].alone /\ ~job[j].skip /\ job'[j].want = job[j].want
      BY <2>1, <2>2 DEF JobMoves
    <2>4. Dump(j) /\ job'[j].pc = "up"
      BY <2>1, <2>2, Constants, JobFields
         DEF BuildFailureUnseen, Dump, Succeeds, GivesUp, Exits, Leave, NoJob, Job,
             IInv, TypeOK
    <2> QED
      BY <1>1, <2>1, <2>2, <2>3, <2>4 DEF Dump, IInv, Truths, ReleaseTrue
  <1> QED
    BY <1>2, <1>3, <1>4

LEMMA JobTruths ==
    ASSUME IInv, NEW j \in Jobs, JobStep(j)
    PROVE  Truths'
  <1>1. JobMoves(j)
    BY JobSteps DEF IInv
  <1>2. RowsTrue'
    BY <1>1 DEF JobMoves, history, IInv, Truths, RowsTrue, WellFormed, RowsSurvive
  <1>3. AloneIsAlone'
    BY <1>1 DEF JobMoves, IInv, Truths, AloneIsAlone
  <1>4. ImagesTrue' /\ SchemaServed' /\ DumpsTrue' /\ ReleaseTrue'
    BY <1>1, BuildTruths, UpTruths, OtherTruths DEF JobStep
  <1> QED
    BY <1>2, <1>3, <1>4 DEF Truths

LEMMA ApiStartsTruths ==
    ASSUME IInv, ApiStarts
    PROVE  Truths'
  <1>1. /\ db \in Database /\ WellFormed(db) /\ api.image.head \in {1, 2}
        /\ db.rev \in {0, 1, 2}
    BY DEF IInv, TypeOK, Truths, RowsTrue, Container, Image, Database, Revisions
  <1>2. /\ db' = UpgradeTo(db, api.image.head) /\ db.rev <= api.image.head /\ db'.ok
        /\ api' = [api EXCEPT !.state = "up"] /\ UNCHANGED <<files, image, job, history>>
    BY DEF ApiStarts
  <1>3. /\ db' \in Database /\ db'.rev = api.image.head
        /\ KeysOf(db'.rows) = KeysOf(db.rows) /\ WellFormed(db')
        /\ db.rev < 2 /\ db'.rev = 2 => \A r \in db'.rows : r.conn = Default
        /\ db.rev = db'.rev => db' = db
    BY <1>1, <1>2, UpgradeToResult
  <1>4. /\ UNCHANGED <<written, downgraded, tree, gitHead, upload, image, job>>
        /\ api'.image = api.image /\ api'.state = "up" /\ api'.migrate = api.migrate
        /\ api'.backup = api.backup
    BY <1>2 DEF files, history, IInv, TypeOK, Container
  <1>5. KeysOf(written) = KeysOf(db.rows)
    BY DEF KeysOf, IInv, Truths, RowsTrue, RowsSurvive
  <1>6. KeysOf(written) = KeysOf(db'.rows)
    BY <1>3, <1>5
  <1>7. RowsTrue'
    <2>1. CASE db'.rev = db.rev
      <3>1. db' = db
        BY <1>3, <2>1
      <3> QED
        BY <1>4, <3>1 DEF IInv, Truths, RowsTrue, WellFormed, RowsSurvive
    <2>2. CASE db'.rev # db.rev
      <3>1. db.rev < 2 /\ db'.rev \in {1, 2}
        BY <1>1, <1>2, <1>3, <2>2
      <3>2. ~downgraded => \A w \in written : w.conn = Default
        BY <3>1 DEF IInv, Truths, RowsTrue
      <3>3. ASSUME ~downgraded, db'.rev = 2
            PROVE  written = {[key |-> r.key, conn |-> r.conn] : r \in db'.rows}
        <4>1. \A r \in db'.rows : r.conn = Default
          BY <1>3, <3>1, <3>3
        <4>2. \A w \in written : w = [key |-> w.key, conn |-> Default]
          BY <3>2, <3>3 DEF IInv, TypeOK, Written
        <4>3. \A w \in written : \E r \in db'.rows : r.key = w.key
          BY <1>6 DEF KeysOf
        <4>4. \A r \in db'.rows : \E w \in written : r.key = w.key
          BY <1>6 DEF KeysOf
        <4> QED
          BY <4>1, <4>2, <4>3, <4>4
      <3>4. RowsSurvive'
        BY <1>4, <1>6, <3>3 DEF RowsSurvive, KeysOf
      <3>5. (~downgraded /\ db.rev < 2 => \A w \in written : w.conn = Default)'
        BY <1>4, <3>2
      <3>6. WellFormed(db)'
        BY <1>3 DEF WellFormed, UniqueKey
      <3> QED
        BY <3>4, <3>5, <3>6 DEF RowsTrue
    <2> QED
      BY <2>1, <2>2
  <1>8. ImagesTrue' /\ SchemaServed'
    BY <1>3, <1>4 DEF IInv, Truths, ImagesTrue, SchemaServed
  <1>9. DumpsTrue'
    <2>1. \A b : Dumped(b) => b \in Revisions /\ (~downgraded => b <= db'.rev)
      BY <1>1, <1>2, <1>3 DEF Dumped, Revisions
    <2> QED
      BY <1>4, <2>1 DEF IInv, Truths, DumpsTrue, Dumped, Jobs
  <1>10. AloneIsAlone' /\ ReleaseTrue'
    BY <1>4 DEF IInv, Truths, AloneIsAlone, ReleaseTrue, Dirty
  <1> QED
    BY <1>7, <1>8, <1>9, <1>10 DEF Truths

\* Steps that leave the images and the runs alone, and the revision.
LEMMA SameRevision ==
    ASSUME IInv, UNCHANGED <<files, image, job, downgraded>>, db'.rev = db.rev,
           api'.image = api.image, api'.migrate = api.migrate, api'.backup = api.backup,
           api'.state = "up" => api.state = "up"
    PROVE  ImagesTrue' /\ SchemaServed' /\ DumpsTrue' /\ AloneIsAlone' /\ ReleaseTrue'
  <1>1. UNCHANGED <<tree, gitHead, upload>>
    BY DEF files
  <1> QED
    BY <1>1 DEF IInv, Truths, ImagesTrue, SchemaServed, DumpsTrue, Dumped, AloneIsAlone,
                ReleaseTrue, Dirty

LEMMA WriteTruths ==
    ASSUME IInv, NEW k \in Keys, NEW c \in Conns, WorkerWrites(k, c)
    PROVE  Truths'
  <1>1. PICK old \in BOOLEAN : old = (HeadOf[api.image.code] = 1)
    OBVIOUS
  <1>2. PICK row : row = [key |-> k, tenant |-> IF old THEN None ELSE TenantOf[c],
                          conn |-> IF old THEN None ELSE c]
    OBVIOUS
  <1>3. PICK new : new = [key |-> k, conn |-> c]
    OBVIOUS
  <1>4. /\ db' = [db EXCEPT !.rows = @ \cup {row}] /\ written' = written \cup {new}
        /\ db.rev = HeadOf[api.image.code] /\ (old => c = Default)
        /\ \A r \in db.rows : r.key = k => r.conn # row.conn
        /\ UNCHANGED <<api, files, image, job, downgraded>>
    BY <1>1, <1>2, <1>3 DEF WorkerWrites
  <1>5. /\ row.key = k /\ row.conn = (IF old THEN None ELSE c)
        /\ new.key = k /\ new.conn = c
    BY <1>2, <1>3
  <1>6. db.rev = IF old THEN 1 ELSE 2
    <2>1. api.image.code \in Versions
      BY DEF IInv, TypeOK, Container, Image
    <2> QED
      BY <1>1, <1>4, <2>1, Constants
  <1>7. db'.rev = db.rev /\ db'.rows = db.rows \cup {row} /\ db'.ok = db.ok
    BY <1>4 DEF IInv, TypeOK, Database
  <1>8. WellFormed(db)'
    <2>1. CASE old
      <3>1. \A r \in db.rows : r.conn = None /\ r.key # k
        BY <1>4, <1>5, <1>6, <2>1 DEF IInv, Truths, RowsTrue, WellFormed
      <3> QED
        BY <1>5, <1>6, <1>7, <2>1, <3>1
           DEF IInv, Truths, RowsTrue, WellFormed, UniqueKey
    <2>2. CASE ~old
      BY <1>5, <1>6, <1>7, <2>2 DEF IInv, Truths, RowsTrue, WellFormed
    <2> QED
      BY <2>1, <2>2
  <1>9. {w.key : w \in written'} = {r.key : r \in db'.rows}
    BY <1>4, <1>5, <1>7 DEF IInv, Truths, RowsTrue, RowsSurvive
  <1>10. ~downgraded /\ ~old =>
            written' = {[key |-> r.key, conn |-> r.conn] : r \in db'.rows}
    BY <1>3, <1>4, <1>5, <1>6, <1>7 DEF IInv, Truths, RowsTrue, RowsSurvive
  <1>11. RowsTrue'
    <2>1. RowsSurvive'
      BY <1>4, <1>6, <1>7, <1>9, <1>10 DEF RowsSurvive
    <2>2. (~downgraded /\ db.rev < 2 => \A w \in written : w.conn = Default)'
      BY <1>4, <1>5, <1>6, <1>7 DEF IInv, Truths, RowsTrue
    <2> QED
      BY <1>8, <2>1, <2>2 DEF RowsTrue
  <1>12. ImagesTrue' /\ SchemaServed' /\ DumpsTrue' /\ AloneIsAlone' /\ ReleaseTrue'
    BY <1>4, <1>7, SameRevision
  <1> QED
    BY <1>11, <1>12 DEF Truths

LEMMA DowngradeTruths ==
    ASSUME IInv, Downgrade
    PROVE  Truths'
  <1>1. /\ db' = Downgrade002(db) /\ db'.ok /\ downgraded' = TRUE
        /\ UNCHANGED <<api, tree, gitHead, upload, image, job, written>>
    BY DEF Downgrade, files
  <1>2. db'.rev = 1 /\ KeysOf(db'.rows) = KeysOf(db.rows) /\ WellFormed(db')
    BY <1>1, DowngradeResult DEF IInv, TypeOK
  <1>3. RowsTrue'
    <2>1. RowsSurvive'
      BY <1>1, <1>2 DEF IInv, Truths, RowsTrue, RowsSurvive, KeysOf
    <2>2. WellFormed(db)'
      BY <1>2 DEF WellFormed, UniqueKey
    <2> QED
      BY <1>1, <2>1, <2>2 DEF RowsTrue
  <1> QED
    BY <1>1, <1>3 DEF IInv, Truths, ImagesTrue, SchemaServed, DumpsTrue, Dumped,
                      AloneIsAlone, ReleaseTrue, Dirty

LEMMA WorldTruths ==
    ASSUME IInv,
           \/ ApiStarts \/ ApiStops \/ Downgrade
           \/ \E t \in Tenants : TenantCreate(t)
           \/ \E k \in Keys, c \in Conns : WorkerWrites(k, c)
    PROVE  Truths'
  <1>1. CASE ApiStops
    <2>1. /\ UNCHANGED <<db, files, image, job, written, downgraded>>
          /\ api'.image = api.image /\ api'.state = "starting"
          /\ api'.migrate = api.migrate /\ api'.backup = api.backup
      BY <1>1 DEF ApiStops, history, IInv, TypeOK, Container
    <2>2. RowsTrue'
      BY <2>1 DEF IInv, Truths, RowsTrue, WellFormed, RowsSurvive
    <2> QED
      BY <2>1, <2>2, SameRevision DEF Truths
  <1>2. ASSUME NEW t \in Tenants, TenantCreate(t)
        PROVE  Truths'
    <2>1. /\ UNCHANGED <<api, files, image, job, written, downgraded>>
          /\ db'.rev = db.rev /\ db'.rows = db.rows /\ db'.ok = db.ok
      BY <1>2 DEF TenantCreate, history, IInv, TypeOK, Database
    <2>2. RowsTrue'
      BY <2>1 DEF IInv, Truths, RowsTrue, WellFormed, RowsSurvive, UniqueKey
    <2> QED
      BY <2>1, <2>2, SameRevision DEF Truths
  <1> QED
    BY <1>1, <1>2, ApiStartsTruths, WriteTruths, DowngradeTruths

LEMMA TruthsNext ==
    ASSUME IInv, [Next]_vars
    PROVE  Truths'
  <1>1. CASE UNCHANGED vars
    <2>1. UNCHANGED <<db, files, image, job, written, downgraded, api>>
      BY <1>1 DEF vars, files
    <2>2. RowsTrue'
      BY <2>1 DEF IInv, Truths, RowsTrue, WellFormed, RowsSurvive
    <2> QED
      BY <2>1, <2>2, SameRevision DEF Truths
  <1>2. ASSUME NEW j \in Jobs,
               \/ DeployDirectory(j)
               \/ \E v \in Versions :
                     DeployRef(j, v) \/ DeployFromCi(j, v) \/ DeployUpload(j, v)
        PROVE  Truths'
    <2>1. PICK v \in Versions :
             DeployDirectory(j) \/ DeployRef(j, v) \/ DeployFromCi(j, v) \/ DeployUpload(j, v)
      BY <1>2, Constants
    <2>2. PICK new \in Job : Launches(j, new)
      BY <2>1, LaunchSteps
    <2> QED
      BY <2>2, LaunchTruths
  <1> QED
    BY <1>1, <1>2, JobTruths, WorldTruths DEF Next

-----------------------------------------------------------------------------
(* The theorems *)

\* The database stays what its revision and its history say, and a run without
\* company builds and starts what it was asked for (IInv is inductive).
THEOREM Inductive == Spec => []IInv
  <1>1. Init => IInv
    BY TypeInit, TruthsInit DEF IInv
  <1>2. IInv /\ [Next]_vars => IInv'
    BY TypeNext, TruthsNext DEF IInv
  <1> QED
    BY <1>1, <1>2, PTL DEF Spec

\* The database is at a revision that some file has, with rows it allows.
THEOREM TypeCorrect == Spec => []TypeOK
  <1>1. IInv => TypeOK
    BY DEF IInv
  <1> QED
    BY <1>1, Inductive, PTL

\* No order of releases, restarts, upgrades and downgrades loses a row.
THEOREM RowsAlwaysSurvive == Spec => []RowsSurvive
  <1>1. IInv => RowsSurvive
    BY DEF IInv, Truths, RowsTrue
  <1> QED
    BY <1>1, Inductive, PTL

\* The api serves the schema of its code, but for uploads and downgrades.
THEOREM AlwaysServesItsSchema == Spec => []ServesItsSchema
  <1>1. IInv => ServesItsSchema
    <2>1. SUFFICES ASSUME IInv, api.state = "up", HeadOf[api.image.code] # db.rev,
                          ~downgraded
                   PROVE  api.image.by = "upload"
      BY DEF ServesItsSchema
    <2>2. api.image.by \in {"git", "upload"}
      BY <2>1 DEF IInv, TypeOK, Container, Image
    <2> QED
      BY <2>1, <2>2 DEF IInv, Truths, ImagesTrue, SchemaServed
  <1> QED
    BY <1>1, Inductive, PTL

\* The upgrade of a starting container meets no row it cannot handle, unless
\* row-level security hides the rows from it.
UpgradeApplies ==
    db.rev <= api.image.head /\ (Bypass \/ ~db.rls) => UpgradeTo(db, api.image.head).ok

\* docker-compose.staging.yml:53, `alembic upgrade head' goes through on any
\* rows the application, an upgrade or a downgrade may have left.
THEOREM UpgradeAlwaysApplies == Spec => []UpgradeApplies
  <1>1. IInv => UpgradeApplies
    <2>1. SUFFICES ASSUME IInv, db.rev <= api.image.head, Bypass \/ ~db.rls
                   PROVE  UpgradeTo(db, api.image.head).ok
      BY DEF UpgradeApplies
    <2>2. db \in Database /\ api.image.head \in {1, 2} /\ WellFormed(db)
      BY <2>1 DEF IInv, TypeOK, Container, Image, Truths, RowsTrue
    <2> QED
      BY <2>1, <2>2, UpgradeToResult
  <1> QED
    BY <1>1, Inductive, PTL

\* A schema that a release with --migrate replaces has been dumped.
THEOREM AlwaysBackedUp == Spec => UpgradesAreBackedUp
  <1> DEFINE BackedUp == db'.rev > db.rev /\ api.migrate /\ ~downgraded
                            => api.backup \in {0, db.rev}
  <1>1. IInv /\ [Next]_vars => BackedUp
    <2>1. SUFFICES ASSUME IInv, [Next]_vars, db'.rev > db.rev, api.migrate, ~downgraded
                   PROVE  api.backup \in {0, db.rev}
      OBVIOUS
    <2>2. db.rev \in {0, 1, 2} /\ db'.rev \in {0, 1, 2}
      BY <2>1, TypeNext DEF IInv, TypeOK, Database, Revisions
    <2>3. db.rev \in {0, 1}
      BY <2>1, <2>2
    <2>4. api.backup \in Revisions /\ api.backup <= db.rev
      BY <2>1 DEF IInv, Truths, DumpsTrue, Dumped
    <2> QED
      BY <2>3, <2>4 DEF Revisions
  <1> QED
    BY <1>1, Inductive, PTL DEF UpgradesAreBackedUp, Spec

\* deploy.sh reports success only of what it was asked to release.
THEOREM SuccessAlwaysServes == Spec => SuccessServes
  <1> DEFINE Serves ==
        \A j \in Hand \cup Ci :
          /\ job[j].pc = "wait" /\ job'[j].pc = "idle" /\ api.state = "up"
          /\ job[j].alone /\ ~job[j].skip /\ ~(j \in Hand /\ Dirty)
          => /\ api.image = FromGit(job[j].want)
             /\ db.rev = HeadOf[job[j].want] \/ downgraded
  <1>1. IInv => Serves
    <2>1. SUFFICES ASSUME IInv, NEW j \in Hand \cup Ci, job[j].pc = "wait",
                          api.state = "up", job[j].alone, ~job[j].skip,
                          ~(j \in Hand /\ Dirty)
                   PROVE  /\ api.image = FromGit(job[j].want)
                          /\ db.rev = HeadOf[job[j].want] \/ downgraded
      OBVIOUS
    <2>2. api.image = FromGit(job[j].want)
      BY <2>1 DEF IInv, Truths, ReleaseTrue
    <2>3. api.image.head = HeadOf[job[j].want]
      BY <2>2 DEF FromGit
    <2> QED
      BY <2>1, <2>2, <2>3 DEF IInv, Truths, SchemaServed
  <1> QED
    BY <1>1, Inductive, PTL DEF SuccessServes, Spec

=============================================================================
