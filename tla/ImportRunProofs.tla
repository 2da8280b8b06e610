-------------------------- MODULE ImportRunProofs ---------------------------
(***************************************************************************)
(* Proofs about ImportRun: its types; that a month's usage passes the      *)
(* largest quota by at most a page for each run, however runs overlap,     *)
(* fail, and cross changes of the quota and of the month; and that what is *)
(* counted, what is imported and what PlentyONE has answered with an id    *)
(* stay together but for a failing connection and a rolled-back run.       *)
(*                                                                         *)
(* The argument for the limit: once a counter has reached the largest      *)
(* limit, no run begins a connection of its tenant any more.  Those that   *)
(* are in flight by then add a page each, after which they read what they  *)
(* have caused.                                                            *)
(*                                                                         *)
(* The argument for the usage: within a run, the increments of all months  *)
(* and the orders of the connection in hand add up to the imports made     *)
(* (MadeCounted), and a connection begun makes no more than its page       *)
(* (MadeBounded).  A commit moves both sums at once; a rollback drops what *)
(* the run made.  The sums over months and runs are taken apart by the     *)
(* lemmas of Sums.                                                         *)
(***************************************************************************)
EXTENDS ImportRun, Sums

\* The counter that the orders of a run's connection go to.
CellOf(r) == <<TenantOf[run[r].conn], utc>>

\* The runs that have added to a counter or may do so without another check.
InFlight(cell) ==
    {r \in Runs : \/ run[r].added[cell] > 0
                  \/ run[r].pc = "import" /\ CellOf(r) = cell}

\* Quotas are those the operator gives; a page bounds what is imported.
PagesTrue ==
    \A r \in Runs :
        /\ run[r].pc # "idle" => \A t \in Tenants : run[r].quota[t] \in Quotas
        /\ run[r].pc = "import" => /\ run[r].conn \in Connections
                                   /\ run[r].count + run[r].page <= PageSize

\* An increment holds the row's lock, and is of a month that has come.
AddedHolds ==
    \A r \in Runs, cell \in Cells :
        run[r].added[cell] > 0 => holder[cell] = r /\ cell[2] <= utc

\* A run that has added to the counter of its connection saw it below.
BelowWhenBegun ==
    \A r \in Runs :
        run[r].pc = "import" /\ run[r].added[CellOf(r)] > 0
            => counter[CellOf(r)] + run[r].added[CellOf(r)] < LargestLimit

\* What a run is about to add to a counter.
AddedBounded ==
    \A r \in Runs, cell \in Cells :
        run[r].added[cell] > 0 =>
            IF counter[cell] < LargestLimit
              THEN counter[cell] + run[r].added[cell] < LargestLimit + PageSize
              ELSE run[r].added[cell] <= PageSize

\* Of a counter at the limit, each run in flight still has its page to add.
CounterBounded ==
    \A cell \in Cells : counter[cell] >= LargestLimit =>
        counter[cell] + PageSize * Cardinality(InFlight(cell))
            < LargestLimit + Cardinality(Runs) * PageSize

\* Nothing is counted in a month to come.
FutureEmpty == \A cell \in Cells : cell[2] > utc => counter[cell] = 0

Truths ==
    /\ PagesTrue
    /\ AddedHolds
    /\ BelowWhenBegun
    /\ AddedBounded
    /\ CounterBounded
    /\ FutureEmpty

IInv == TypeOK /\ berlin <= LastMonth /\ Truths

\* The increments of a run for a tenant, over the months.
Added(r, t) == SumFunctionOnSet([m \in Months |-> run[r].added[<<t, m>>]], Months)

\* What the current connection of a run has imported for a tenant, or still may.
InHand(r, t) ==
    IF run[r].pc = "import" /\ TenantOf[run[r].conn] = t THEN run[r].count ELSE 0

ToCome(r, t) ==
    IF run[r].pc = "import" /\ TenantOf[run[r].conn] = t THEN run[r].page ELSE 0

\* The connections of a tenant that a run has begun or skipped.
Done(r, t) == TenantConnections(t) \ run[r].todo

IdleTrue == \A r \in Runs : run[r].pc = "idle" => run[r] = Idle

\* A run counts what it makes, but for a failing connection.
MadeCounted ==
    \A r \in Runs, t \in Tenants :
        /\ Added(r, t) + InHand(r, t) <= run[r].made[t]
        /\ t \notin failed => run[r].made[t] <= Added(r, t) + InHand(r, t)

\* A run makes no more than a page for each connection it has begun.
MadeBounded ==
    \A r \in Runs, t \in Tenants :
        run[r].made[t] + ToCome(r, t) <= Cardinality(Done(r, t)) * PageSize

UsageTrue == MadeCounted /\ CountedAreImported /\ UncountedOnlyByFailure

LossTrue == MadeBounded /\ LostOnlyByRollback

Kept == IdleTrue /\ UsageTrue /\ LossTrue

-----------------------------------------------------------------------------
(* Constants and types *)

LEMMA Constants ==
    /\ TenantOf \in [Connections -> Tenants]
    /\ None \notin Connections /\ None \notin Runs
    /\ PageSize \in Nat /\ PageSize > 0 /\ MaxAttempts \in Nat
    /\ Quotas \subseteq Nat
    /\ LastMonth \in Nat /\ MaxCreated \in Nat /\ MaxAborts \in Nat /\ MaxEdits \in Nat
    /\ IsFiniteSet(Runs)
  BY ConstantsAssumption

LEMMA LimitLargest ==
    /\ LargestLimit \in Nat /\ LargestLimit >= 1
    /\ \A q \in Quotas : LargestLimit >= q
  <1> DEFINE S == Quotas \cup {1}
  <1>1. S \subseteq Nat
    BY ConstantsAssumption
  <1>2. PICK q \in S : \A p \in S : q >= p
    BY ConstantsAssumption
  <1>3. LargestLimit \in S /\ \A p \in S : LargestLimit >= p
    BY <1>2 DEF LargestLimit, Max
  <1> QED
    BY <1>1, <1>3

LEMMA RunFields ==
    ASSUME TypeOK, NEW r \in Runs
    PROVE  /\ run[r] \in Run
           /\ run[r].todo \subseteq Connections
           /\ run[r].conn \in Connections \cup {None}
           /\ run[r].quota \in [Tenants -> Nat]
           /\ run[r].page \in 0 .. PageSize
           /\ run[r].count \in Nat
           /\ run[r].made \in [Tenants -> Nat]
           /\ run[r].added \in [Cells -> Nat]
  BY DEF TypeOK, Run

LEMMA ZeroType ==
    /\ Zero(Tenants) \in [Tenants -> Nat] /\ Zero(Cells) \in [Cells -> Nat]
    /\ Idle \in Run
    /\ Idle.pc = "idle" /\ Idle.added = Zero(Cells)
  BY Constants DEF Zero, Idle, Run

LEMMA BecomeType ==
    ASSUME TypeOK, NEW r \in Runs, NEW next \in Run, Become(r, next)
    PROVE  /\ run' \in [Runs -> Run]
           /\ run'[r] = next
           /\ \A q \in Runs \ {r} : run'[q] = run[q]
  BY DEF TypeOK, Become

LEMMA CellType ==
    ASSUME TypeOK, NEW r \in Runs, run[r].conn \in Connections
    PROVE  CellOf(r) \in Cells /\ TenantOf[run[r].conn] \in Tenants
  BY Constants DEF TypeOK, CellOf, Cells

LEMMA TypeInit ==
    ASSUME Init
    PROVE  TypeOK
  <1>1. 0 \in Months /\ "active" \in TenantStatus
    BY Constants DEF Months, TenantStatus
  <1> QED
    BY <1>1, ZeroType, Constants DEF Init, TypeOK

\* A run starts, or goes on with the next connection.
LEMMA BeginTypes ==
    ASSUME TypeOK, PagesTrue, NEW r \in Runs, NEW c \in Connections,
           ImportOrdersForAll(r) \/ SkipBlocked(r, c) \/ BeginConnection(r, c)
    PROVE  TypeOK'
  <1>1. CASE ImportOrdersForAll(r)
    <2>1. PICK pairs \in SUBSET Connections :
             Become(r, [Idle EXCEPT !.pc = "next", !.todo = pairs, !.quota = quota])
      BY <1>1 DEF ImportOrdersForAll
    <2>2. quota \in [Tenants -> Nat]
      BY Constants DEF TypeOK
    <2>3. [Idle EXCEPT !.pc = "next", !.todo = pairs, !.quota = quota] \in Run
      BY <2>2, ZeroType DEF Run
    <2> QED
      BY <1>1, <2>1, <2>3, BecomeType
         DEF ImportOrdersForAll, tenants, usage, clock, erp, history, TypeOK
  <1>2. CASE SkipBlocked(r, c)
    <2>1. [run[r] EXCEPT !.todo = @ \ {c}, !.conn = c] \in Run
      BY RunFields DEF Run
    <2> QED
      BY <1>2, <2>1, BecomeType
         DEF SkipBlocked, tenants, usage, clock, erp, history, TypeOK
  <1>3. CASE BeginConnection(r, c)
    <2>1. PICK page \in 0 .. PageSize : Begin(r, c, page)
      BY <1>3 DEF BeginConnection, Orders
    <2>2. [run[r] EXCEPT !.pc = "import", !.todo = @ \ {c}, !.conn = c,
                         !.page = page, !.count = 0] \in Run
      BY RunFields DEF Run
    <2> QED
      BY <1>3, <2>1, <2>2, BecomeType
         DEF BeginConnection, Begin, tenants, usage, clock, erp, history, TypeOK
  <1> QED
    BY <1>1, <1>2, <1>3

LEMMA ConnectionTypes ==
    ASSUME TypeOK, PagesTrue, NEW r \in Runs,
           \/ ImportOne(r) \/ CreateRaises(r) \/ ConnectionFails(r) \/ NothingImported(r)
           \/ IncrementUsage(r)
    PROVE  TypeOK'
  <1>1. run[r].pc = "import" /\ run[r].conn \in Connections
    BY DEF ImportOne, CreateRaises, ConnectionFails, NothingImported, IncrementUsage,
           PagesTrue
  <1>2. TenantOf[run[r].conn] \in Tenants /\ CellOf(r) \in Cells
    BY <1>1, CellType
  <1>3. CASE ImportOne(r)
    <2>1. PICK t \in Tenants : t = TenantOf[run[r].conn]
      BY <1>2
    <2>2. run[r].page - 1 \in 0 .. PageSize /\ run[r].count + 1 \in Nat
      BY <1>3, RunFields, Constants DEF ImportOne
    <2>3. [run[r].made EXCEPT ![t] = @ + 1] \in [Tenants -> Nat]
      BY RunFields
    <2>4. [run[r] EXCEPT !.page = @ - 1, !.count = @ + 1, !.made[t] = @ + 1] \in Run
      BY <2>2, <2>3, RunFields DEF Run
    <2>5. created' \in [Tenants -> Nat] /\ surplus' \in [Tenants -> Nat]
      BY <1>3, <2>1, Constants DEF ImportOne, Stored, TypeOK
    <2> QED
      BY <1>3, <2>1, <2>4, <2>5, BecomeType
         DEF ImportOne, tenants, usage, clock, history, TypeOK
  <1>7. CASE CreateRaises(r)
    <2>1. run[r].page - 1 \in 0 .. PageSize
      BY <1>7, RunFields, Constants DEF CreateRaises
    <2>2. [run[r] EXCEPT !.page = @ - 1] \in Run
      BY <2>1, RunFields DEF Run
    <2>3. created' \in [Tenants -> Nat] /\ surplus' \in [Tenants -> Nat]
      BY <1>2, <1>7, Constants DEF CreateRaises, Stored, TypeOK
    <2> QED
      BY <1>7, <2>2, <2>3, BecomeType
         DEF CreateRaises, tenants, usage, clock, history, TypeOK
  <1>4. CASE ConnectionFails(r)
    <2>1. [run[r] EXCEPT !.pc = "next", !.page = 0] \in Run
      <3>1. 0 \in 0 .. PageSize
        BY Constants
      <3> QED
        BY <3>1, RunFields DEF Run
    <2>2. failed' \subseteq Tenants
      BY <1>2, <1>4 DEF ConnectionFails, TypeOK
    <2> QED
      BY <1>4, <2>1, <2>2, BecomeType
         DEF ConnectionFails, EndConnection, tenants, usage, clock, erp, TypeOK
  <1>5. CASE NothingImported(r)
    <2>1. [run[r] EXCEPT !.pc = "next"] \in Run
      BY RunFields DEF Run
    <2> QED
      BY <1>5, <2>1, BecomeType
         DEF NothingImported, tenants, usage, clock, erp, history, TypeOK
  <1>6. CASE IncrementUsage(r)
    <2>1. PICK cell \in Cells : cell = CellOf(r)
      BY <1>2
    <2>2. [run[r].added EXCEPT ![cell] = @ + run[r].count] \in [Cells -> Nat]
      BY RunFields
    <2>3. [run[r] EXCEPT !.pc = "next", !.added[cell] = @ + run[r].count] \in Run
      BY <2>2, RunFields DEF Run
    <2>4. holder' \in [Cells -> Runs \cup {None}]
      BY <1>6, <2>1 DEF IncrementUsage, CellOf, TypeOK
    <2> QED
      BY <1>6, <2>1, <2>3, <2>4, BecomeType
         DEF IncrementUsage, CellOf, tenants, clock, erp, history, TypeOK
  <1> QED
    BY <1>3, <1>4, <1>5, <1>6, <1>7

LEMMA EndTypes ==
    ASSUME TypeOK, NEW r \in Runs, Commit(r) \/ Rollback(r)
    PROVE  TypeOK'
  <1>1. holder' \in [Cells -> Runs \cup {None}]
    BY DEF Commit, Rollback, Release, TypeOK
  <1>2. run' \in [Runs -> Run]
    BY ZeroType, BecomeType DEF Commit, Rollback
  <1>3. CASE Commit(r)
    <2>1. counter' \in [Cells -> Nat] /\ imports' \in [Tenants -> Nat]
      BY <1>3, RunFields DEF Commit, TypeOK
    <2>2. opened' \subseteq Cells
      BY <1>3 DEF Commit, TypeOK
    <2> QED
      BY <1>1, <1>2, <1>3, <2>1, <2>2 DEF Commit, tenants, clock, erp, history, TypeOK
  <1>4. CASE Rollback(r)
    <2>1. aborts' \in 0 .. MaxAborts
      BY <1>4, Constants DEF Rollback, TypeOK
    <2> QED
      BY <1>1, <1>2, <1>4, <2>1 DEF Rollback, tenants, clock, erp, TypeOK
  <1> QED
    BY <1>3, <1>4

LEMMA WorldTypes ==
    ASSUME TypeOK, berlin <= LastMonth,
           \/ \E t \in Tenants : SetQuota(t) \/ SetStatus(t)
           \/ BerlinMonth \/ UtcMonth \/ MonthlyReset
    PROVE  TypeOK' /\ berlin' <= LastMonth
  <1>1. ASSUME NEW t \in Tenants, SetQuota(t)
        PROVE  TypeOK' /\ berlin' <= LastMonth
    BY <1>1, Constants DEF SetQuota, Edit, usage, clock, erp, history, TypeOK
  <1>2. ASSUME NEW t \in Tenants, SetStatus(t)
        PROVE  TypeOK' /\ berlin' <= LastMonth
    BY <1>2, Constants DEF SetStatus, Edit, usage, clock, erp, history, TypeOK, TenantStatus
  <1>3. CASE BerlinMonth
    <2>1. berlin' = utc + 1 /\ berlin' <= LastMonth /\ utc' = utc
      BY <1>3, Constants DEF BerlinMonth, TypeOK, Months
    <2>2. reset' \in BOOLEAN
      BY <1>3 DEF BerlinMonth
    <2> QED
      BY <1>3, <2>1, <2>2 DEF BerlinMonth, tenants, usage, erp, history, TypeOK
  <1>4. CASE UtcMonth
    <2>1. utc' \in Months /\ berlin' = utc'
      BY <1>4, Constants DEF UtcMonth, TypeOK, Months
    <2> QED
      BY <1>4, <2>1 DEF UtcMonth, tenants, usage, erp, history, TypeOK
  <1>5. CASE MonthlyReset
    <2>1. PICK found \in SUBSET Tenants : opened' = opened \cup {<<t, utc>> : t \in found}
      BY <1>5 DEF MonthlyReset
    <2>2. opened' \subseteq Cells
      BY <2>1 DEF TypeOK, Cells
    <2>3. status' \in [Tenants -> TenantStatus]
      BY <1>5 DEF MonthlyReset, TypeOK, TenantStatus
    <2> QED
      BY <1>5, <2>2, <2>3 DEF MonthlyReset, erp, history, TypeOK
  <1> QED
    BY <1>1, <1>2, <1>3, <1>4, <1>5

\* The calendar is the calendar's own.
LEMMA TypeNext ==
    ASSUME TypeOK, berlin <= LastMonth, PagesTrue, [Next]_vars
    PROVE  TypeOK' /\ berlin' <= LastMonth
  <1>1. CASE UNCHANGED vars
    BY <1>1 DEF vars, TypeOK
  <1>2. ASSUME NEW r \in Runs, RunStep(r) \/ Rollback(r)
        PROVE  TypeOK' /\ berlin' = berlin
    <2>1. TypeOK'
      BY <1>2, BeginTypes, ConnectionTypes, EndTypes DEF RunStep, Upcoming, ImportOrdersForAll
    <2>2. berlin' = berlin
      BY <1>2 DEF RunStep, Rollback, ImportOrdersForAll, SkipBlocked, BeginConnection,
                  ImportOne, CreateRaises, ConnectionFails, NothingImported, IncrementUsage, Commit,
                  clock
    <2> QED
      BY <2>1, <2>2
  <1> QED
    BY <1>1, <1>2, WorldTypes DEF Next

-----------------------------------------------------------------------------
(* Runs in flight *)

\* Fewer runs in flight have fewer pages to add.
LEMMA Pages ==
    ASSUME NEW S \in SUBSET Runs, NEW T \in SUBSET S
    PROVE  /\ Cardinality(S) \in Nat /\ Cardinality(T) \in Nat
           /\ PageSize * Cardinality(S) \in Nat /\ PageSize * Cardinality(T) \in Nat
           /\ PageSize * Cardinality(T) <= PageSize * Cardinality(S)
           /\ \A r \in S \ T : PageSize * Cardinality(T) + PageSize <= PageSize * Cardinality(S)
  <1>1. IsFiniteSet(S) /\ IsFiniteSet(T)
    BY Constants, FS_Subset
  <1>2. /\ Cardinality(S) \in Nat /\ Cardinality(T) \in Nat
        /\ Cardinality(T) <= Cardinality(S)
    BY <1>1, FS_CardinalityType, FS_Subset
  <1>3. \A m, n \in Nat : PageSize * m \in Nat /\ (m <= n => PageSize * m <= PageSize * n)
    BY Constants
  <1>4. ASSUME NEW r \in S \ T
        PROVE  PageSize * Cardinality(T) + PageSize <= PageSize * Cardinality(S)
    <2>1. T \in SUBSET (S \ {r}) /\ IsFiniteSet(S \ {r})
      BY <1>1, FS_RemoveElement
    <2>2. Cardinality(T) <= Cardinality(S \ {r})
      BY <2>1, FS_Subset
    <2>3. Cardinality(S \ {r}) = Cardinality(S) - 1
      BY <1>1, FS_RemoveElement
    <2>4. Cardinality(T) + 1 <= Cardinality(S)
      BY <1>2, <2>2, <2>3
    <2>5. PageSize * (Cardinality(T) + 1) <= PageSize * Cardinality(S)
      BY <1>2, <1>3, <2>4
    <2>6. PageSize * (Cardinality(T) + 1) = PageSize * Cardinality(T) + PageSize
      BY <1>2, Constants
    <2> QED
      BY <2>5, <2>6
  <1> QED
    BY <1>2, <1>3, <1>4

LEMMA CardinalityOfRuns ==
    /\ Cardinality(Runs) \in Nat /\ Cardinality(Runs) * PageSize \in Nat
    /\ Cardinality(Runs) * PageSize = PageSize * Cardinality(Runs)
  BY Constants, FS_CardinalityType

\* A counter that stays, and no run that comes into flight next to it.
CounterKept(cell) ==
    counter'[cell] = counter[cell] /\ InFlight(cell)' \subseteq InFlight(cell)

LEMMA KeptBounded ==
    ASSUME TypeOK, CounterBounded, NEW cell \in Cells, CounterKept(cell),
           counter'[cell] >= LargestLimit
    PROVE  counter'[cell] + PageSize * Cardinality(InFlight(cell)')
               < LargestLimit + Cardinality(Runs) * PageSize
  <1>1. InFlight(cell) \in SUBSET Runs
    BY DEF InFlight
  <1>2. InFlight(cell)' \in SUBSET InFlight(cell)
    BY DEF CounterKept
  <1>3. counter[cell] + PageSize * Cardinality(InFlight(cell))
            < LargestLimit + Cardinality(Runs) * PageSize
    BY DEF CounterBounded, CounterKept
  <1>4. counter[cell] \in Nat
    BY DEF TypeOK
  <1> QED
    BY <1>1, <1>2, <1>3, <1>4, Pages, CardinalityOfRuns, LimitLargest DEF CounterKept

LEMMA TruthsInit ==
    ASSUME Init
    PROVE  Truths
  <1>1. \A r \in Runs : run[r].pc = "idle" /\ \A cell \in Cells : run[r].added[cell] = 0
    BY ZeroType DEF Init, Zero
  <1>2. \A cell \in Cells : counter[cell] = 0
    BY DEF Init, Zero
  <1>3. CounterBounded
    BY <1>2, LimitLargest DEF CounterBounded
  <1> QED
    BY <1>1, <1>2, <1>3
       DEF Truths, PagesTrue, AddedHolds, BelowWhenBegun, AddedBounded, FutureEmpty

-----------------------------------------------------------------------------
(* The invariant *)

\* A run moves on without adding to a counter; if it begins a connection, the
\* connection's counter is below.
RunMoves(r) ==
    /\ UNCHANGED <<counter, utc, holder>>
    /\ \A q \in Runs \ {r} : run'[q] = run[q]
    /\ run'[r] \in Run
    /\ run'[r].pc # "idle" => \A t \in Tenants : run'[r].quota[t] \in Quotas
    /\ run'[r].pc = "import" => /\ run'[r].conn \in Connections
                                /\ run'[r].count + run'[r].page <= PageSize
    /\ \A cell \in Cells : run'[r].added[cell] > 0 => run'[r].added[cell] = run[r].added[cell]
    /\ run'[r].pc = "import" =>
          \/ /\ run[r].pc = "import" /\ run'[r].conn = run[r].conn
             /\ run'[r].added = run[r].added
          \/ counter[CellOf(r)'] + run'[r].added[CellOf(r)'] < LargestLimit

LEMMA MoveTruths ==
    ASSUME TypeOK, Truths, NEW r \in Runs, RunMoves(r)
    PROVE  Truths'
  <1>1. /\ UNCHANGED <<counter, utc, holder>>
        /\ \A q \in Runs \ {r} : run'[q] = run[q] /\ CellOf(q)' = CellOf(q)
    BY DEF RunMoves, CellOf
  <1>2. \A q \in Runs, cell \in Cells :
           run'[q].added[cell] > 0 => run'[q].added[cell] = run[q].added[cell]
    BY <1>1 DEF RunMoves
  <1>3. PagesTrue'
    BY DEF RunMoves, Truths, PagesTrue
  <1>4. AddedHolds'
    BY <1>1, <1>2 DEF Truths, AddedHolds
  <1>5. BelowWhenBegun'
    <2>1. SUFFICES ASSUME NEW q \in Runs, run'[q].pc = "import",
                          run'[q].added[CellOf(q)'] > 0
                   PROVE  counter'[CellOf(q)'] + run'[q].added[CellOf(q)'] < LargestLimit
      BY DEF BelowWhenBegun
    <2>2. CASE q # r
      BY <1>1, <2>1, <2>2 DEF Truths, BelowWhenBegun
    <2>3. CASE q = r /\ run[r].pc = "import" /\ run'[r].conn = run[r].conn
               /\ run'[r].added = run[r].added
      BY <1>1, <2>1, <2>3 DEF Truths, BelowWhenBegun, CellOf
    <2> QED
      BY <1>1, <2>1, <2>2, <2>3 DEF RunMoves
  <1>6. AddedBounded'
    BY <1>1, <1>2 DEF Truths, AddedBounded
  <1>7. CounterBounded'
    <2>1. SUFFICES ASSUME NEW cell \in Cells, counter'[cell] >= LargestLimit
                   PROVE  InFlight(cell)' \subseteq InFlight(cell)
      BY <1>1, KeptBounded DEF Truths, CounterBounded, CounterKept
    <2>2. counter[cell] \in Nat /\ run'[r].added \in [Cells -> Nat]
      BY DEF TypeOK, RunMoves, Run
    <2>3. run'[r].pc = "import" /\ CellOf(r)' = cell
             => run[r].pc = "import" /\ CellOf(r) = cell
      BY <1>1, <2>1, <2>2, LimitLargest DEF RunMoves, CellOf
    <2> QED
      BY <1>1, <1>2, <2>3 DEF InFlight
  <1>8. FutureEmpty'
    BY <1>1 DEF Truths, FutureEmpty
  <1> QED
    BY <1>3, <1>4, <1>5, <1>6, <1>7, <1>8 DEF Truths

\* A connection is begun below the largest limit only.
LEMMA NotBlockedBelow ==
    ASSUME TypeOK, PagesTrue, NEW r \in Runs, NEW c \in Connections,
           run[r].pc # "idle", ~Blocked(r, TenantOf[c])
    PROVE  counter[<<TenantOf[c], utc>>] + run[r].added[<<TenantOf[c], utc>>] < LargestLimit
  <1>1. PICK t \in Tenants : t = TenantOf[c]
    BY Constants
  <1>2. <<t, utc>> \in Cells
    BY DEF TypeOK, Cells
  <1>3. counter[<<t, utc>>] \in Nat /\ run[r].added[<<t, utc>>] \in Nat
    BY <1>2, RunFields DEF TypeOK
  <1>4. run[r].quota[t] \in Quotas /\ run[r].quota[t] \in Nat
    BY Constants DEF PagesTrue
  <1>5. Limit(r, t) <= LargestLimit /\ Limit(r, t) \in Nat
    BY <1>4, LimitLargest DEF Limit
  <1>6. ~(counter[<<t, utc>>] + run[r].added[<<t, utc>>] >= Limit(r, t))
    BY <1>1 DEF Blocked, Used
  <1> QED
    BY <1>1, <1>3, <1>5, <1>6, LimitLargest

LEMMA MovingSteps ==
    ASSUME TypeOK, Truths, TypeOK', NEW r \in Runs,
           \/ ImportOrdersForAll(r)
           \/ \E c \in Connections : SkipBlocked(r, c) \/ BeginConnection(r, c)
           \/ ImportOne(r) \/ CreateRaises(r) \/ ConnectionFails(r) \/ NothingImported(r)
    PROVE  RunMoves(r)
  <1>1. run'[r] \in Run /\ PagesTrue
    BY DEF TypeOK, Truths
  <1>2. CASE ImportOrdersForAll(r)
    <2>1. PICK pairs \in SUBSET Connections :
             Become(r, [Idle EXCEPT !.pc = "next", !.todo = pairs, !.quota = quota])
      BY <1>2 DEF ImportOrdersForAll
    <2>2. /\ run'[r].pc = "next" /\ run'[r].quota = quota /\ run'[r].added = Zero(Cells)
          /\ \A q \in Runs \ {r} : run'[q] = run[q]
      BY <2>1 DEF Become, Idle, TypeOK
    <2> QED
      BY <1>1, <1>2, <2>2 DEF ImportOrdersForAll, usage, clock, RunMoves, TypeOK, Zero
  <1>3. ASSUME NEW c \in Connections, SkipBlocked(r, c)
        PROVE  RunMoves(r)
    <2>1. /\ run[r].pc = "next" /\ run'[r].pc = "next"
          /\ run'[r].quota = run[r].quota /\ run'[r].added = run[r].added
          /\ \A q \in Runs \ {r} : run'[q] = run[q]
      BY <1>3, RunFields DEF SkipBlocked, Become, TypeOK, Run
    <2> QED
      BY <1>1, <1>3, <2>1 DEF SkipBlocked, usage, clock, RunMoves, PagesTrue
  <1>4. ASSUME NEW c \in Connections, BeginConnection(r, c)
        PROVE  RunMoves(r)
    <2>1. PICK page \in 0 .. PageSize : Begin(r, c, page)
      BY <1>4 DEF BeginConnection, Orders
    <2>2. /\ run[r].pc = "next" /\ run'[r].pc = "import" /\ run'[r].conn = c
          /\ run'[r].count = 0 /\ run'[r].page = page
          /\ run'[r].quota = run[r].quota /\ run'[r].added = run[r].added
          /\ \A q \in Runs \ {r} : run'[q] = run[q]
      <3>1. /\ run'[r] = [run[r] EXCEPT !.pc = "import", !.todo = @ \ {c}, !.conn = c,
                                        !.page = page, !.count = 0]
            /\ \A q \in Runs \ {r} : run'[q] = run[q]
        BY <2>1 DEF Begin, Become, TypeOK
      <3>2. run[r].pc = "next"
        BY <1>4 DEF BeginConnection
      <3> QED
        BY <3>1, <3>2, RunFields DEF Run
    <2>3. UNCHANGED <<counter, utc, holder>> /\ ~Blocked(r, TenantOf[c])
      BY <1>4 DEF BeginConnection, usage, clock
    <2>4. CellOf(r)' = <<TenantOf[c], utc>>
      BY <2>2, <2>3 DEF CellOf
    <2>5. counter[CellOf(r)'] + run'[r].added[CellOf(r)'] < LargestLimit
      BY <1>1, <2>2, <2>3, <2>4, NotBlockedBelow
    <2>6. run'[r].count + run'[r].page <= PageSize
      BY <2>2, Constants
    <2> QED
      BY <1>1, <2>2, <2>3, <2>5, <2>6 DEF RunMoves, PagesTrue
  <1>5. CASE ImportOne(r)
    <2>1. /\ run[r].pc = "import" /\ run'[r].pc = "import" /\ run'[r].conn = run[r].conn
          /\ run'[r].count = run[r].count + 1 /\ run'[r].page = run[r].page - 1
          /\ run'[r].quota = run[r].quota /\ run'[r].added = run[r].added
          /\ \A q \in Runs \ {r} : run'[q] = run[q]
      <3>1. PICK t : t = TenantOf[run[r].conn]
        OBVIOUS
      <3>2. /\ run'[r] = [run[r] EXCEPT !.page = @ - 1, !.count = @ + 1, !.made[t] = @ + 1]
            /\ \A q \in Runs \ {r} : run'[q] = run[q]
        BY <1>5, <3>1 DEF ImportOne, Become, TypeOK
      <3>3. run[r].pc = "import"
        BY <1>5 DEF ImportOne
      <3> QED
        BY <3>2, <3>3, RunFields DEF Run
    <2>2. run'[r].count + run'[r].page <= PageSize
      BY <1>1, <2>1, RunFields, Constants DEF PagesTrue
    <2> QED
      BY <1>1, <1>5, <2>1, <2>2 DEF ImportOne, usage, clock, RunMoves, PagesTrue
  <1>8. CASE CreateRaises(r)
    <2>1. /\ run[r].pc = "import" /\ run'[r].pc = "import" /\ run'[r].conn = run[r].conn
          /\ run'[r].count = run[r].count /\ run'[r].page = run[r].page - 1
          /\ run'[r].quota = run[r].quota /\ run'[r].added = run[r].added
          /\ \A q \in Runs \ {r} : run'[q] = run[q]
      BY <1>8, RunFields DEF CreateRaises, Become, TypeOK, Run
    <2>2. run'[r].count + run'[r].page <= PageSize
      BY <1>1, <2>1, RunFields, Constants DEF PagesTrue
    <2> QED
      BY <1>1, <1>8, <2>1, <2>2 DEF CreateRaises, usage, clock, RunMoves, PagesTrue
  <1>6. CASE ConnectionFails(r)
    <2>1. /\ run[r].pc = "import" /\ run'[r].pc = "next"
          /\ run'[r].quota = run[r].quota /\ run'[r].added = run[r].added
          /\ \A q \in Runs \ {r} : run'[q] = run[q]
      BY <1>6, RunFields DEF ConnectionFails, EndConnection, Become, TypeOK, Run
    <2> QED
      BY <1>1, <1>6, <2>1 DEF ConnectionFails, usage, clock, RunMoves, PagesTrue
  <1>7. CASE NothingImported(r)
    <2>1. /\ run[r].pc = "import" /\ run'[r].pc = "next"
          /\ run'[r].quota = run[r].quota /\ run'[r].added = run[r].added
          /\ \A q \in Runs \ {r} : run'[q] = run[q]
      BY <1>7, RunFields DEF NothingImported, Become, TypeOK, Run
    <2> QED
      BY <1>1, <1>7, <2>1 DEF NothingImported, usage, clock, RunMoves, PagesTrue
  <1> QED
    BY <1>2, <1>3, <1>4, <1>5, <1>6, <1>7, <1>8

\* The page goes to the counter, whose row the run locks.
LEMMA IncrementTruths ==
    ASSUME TypeOK, Truths, TypeOK', NEW r \in Runs, IncrementUsage(r)
    PROVE  Truths'
  <1>1. run[r].pc = "import" /\ run[r].conn \in Connections /\ run[r].count <= PageSize
    BY RunFields, Constants DEF IncrementUsage, Truths, PagesTrue
  <1>2. PICK own \in Cells : own = CellOf(r)
    BY <1>1, CellType
  <1>3. /\ run'[r] = [run[r] EXCEPT !.pc = "next", !.added[own] = @ + run[r].count]
        /\ \A q \in Runs \ {r} : run'[q] = run[q]
        /\ holder[own] \in {None, r}
        /\ holder' = [holder EXCEPT ![own] = r]
        /\ UNCHANGED <<counter, utc>>
    BY <1>2 DEF IncrementUsage, Become, CellOf, clock, TypeOK
  <1>4. /\ run'[r].pc = "next" /\ run'[r].quota = run[r].quota
        /\ run'[r].added = [run[r].added EXCEPT ![own] = @ + run[r].count]
    BY <1>3, RunFields DEF Run
  <1>5. /\ run'[r].added[own] = run[r].added[own] + run[r].count
        /\ \A cell \in Cells \ {own} : run'[r].added[cell] = run[r].added[cell]
        /\ run[r].added[own] \in Nat
    BY <1>4, RunFields
  <1>6. \A q \in Runs \ {r} : CellOf(q)' = CellOf(q)
    BY <1>3 DEF CellOf
  <1>7. PagesTrue'
    BY <1>1, <1>3, <1>4 DEF Truths, PagesTrue
  <1>8. AddedHolds'
    <2>1. SUFFICES ASSUME NEW q \in Runs, NEW cell \in Cells, run'[q].added[cell] > 0
                   PROVE  holder'[cell] = q /\ cell[2] <= utc
      BY <1>3 DEF AddedHolds
    <2>2. CASE cell # own
      <3>1. run[q].added[cell] > 0
        BY <1>3, <1>5, <2>1, <2>2
      <3>2. holder'[cell] = holder[cell]
        BY <1>3, <2>2 DEF TypeOK
      <3> QED
        BY <3>1, <3>2 DEF Truths, AddedHolds
    <2>3. CASE cell = own /\ q = r
      <3>1. own[2] = utc /\ utc <= utc
        BY <1>2 DEF CellOf, TypeOK, Months
      <3> QED
        BY <1>3, <2>3, <3>1 DEF TypeOK
    <2>4. CASE cell = own /\ q # r
      BY <1>3, <2>1, <2>4, Constants DEF Truths, AddedHolds
    <2> QED
      BY <2>2, <2>3, <2>4
  <1>9. BelowWhenBegun'
    BY <1>3, <1>4, <1>6 DEF Truths, BelowWhenBegun
  <1>10. AddedBounded'
    <2>1. SUFFICES ASSUME NEW q \in Runs, NEW cell \in Cells, run'[q].added[cell] > 0
                   PROVE  IF counter[cell] < LargestLimit
                            THEN counter[cell] + run'[q].added[cell] < LargestLimit + PageSize
                            ELSE run'[q].added[cell] <= PageSize
      BY <1>3 DEF AddedBounded
    <2>2. CASE q # r \/ cell # own
      BY <1>3, <1>5, <2>1, <2>2 DEF Truths, AddedBounded
    <2>3. CASE q = r /\ cell = own
      <3>1. /\ counter[own] \in Nat /\ run[r].count \in Nat /\ PageSize \in Nat
            /\ LargestLimit \in Nat
        BY RunFields, Constants, LimitLargest DEF TypeOK
      <3>2. run[r].added[own] > 0 => counter[own] + run[r].added[own] < LargestLimit
        BY <1>1, <1>2 DEF Truths, BelowWhenBegun
      <3> QED
        BY <1>1, <1>5, <2>3, <3>1, <3>2
    <2> QED
      BY <2>2, <2>3
  <1>11. CounterBounded'
    <2>1. SUFFICES ASSUME NEW cell \in Cells, counter'[cell] >= LargestLimit
                   PROVE  InFlight(cell)' \subseteq InFlight(cell)
      BY <1>3, KeptBounded DEF Truths, CounterBounded, CounterKept
    <2> QED
      BY <1>1, <1>2, <1>3, <1>4, <1>5, <1>6 DEF InFlight
  <1>12. FutureEmpty'
    BY <1>3 DEF Truths, FutureEmpty
  <1> QED
    BY <1>7, <1>8, <1>9, <1>10, <1>11, <1>12 DEF Truths

\* A run ends, and the rows it has locked are free.
LEMMA EndsIdle ==
    ASSUME TypeOK, NEW r \in Runs, Commit(r) \/ Rollback(r)
    PROVE  /\ run'[r].pc = "idle" /\ \A cell \in Cells : run'[r].added[cell] = 0
           /\ \A q \in Runs \ {r} : run'[q] = run[q] /\ CellOf(q)' = CellOf(q)
           /\ \A cell \in Cells : holder[cell] # r => holder'[cell] = holder[cell]
           /\ utc' = utc
  <1>1. /\ run'[r] = Idle
        /\ \A q \in Runs \ {r} : run'[q] = run[q]
        /\ utc' = utc
    BY DEF Commit, Rollback, Become, clock, TypeOK
  <1>2. Release(r)
    BY DEF Commit, Rollback
  <1> QED
    BY <1>1, <1>2, ZeroType DEF Zero, Release, CellOf

LEMMA EndedTruths ==
    ASSUME TypeOK, Truths, NEW r \in Runs, Commit(r) \/ Rollback(r)
    PROVE  PagesTrue' /\ AddedHolds'
  <1>1. PagesTrue'
    BY EndsIdle DEF Truths, PagesTrue
  <1>2. AddedHolds'
    <2>1. SUFFICES ASSUME NEW q \in Runs, NEW cell \in Cells, run'[q].added[cell] > 0
                   PROVE  holder'[cell] = q /\ cell[2] <= utc
      BY EndsIdle DEF AddedHolds
    <2>2. q # r /\ run[q].added[cell] > 0
      BY <2>1, EndsIdle
    <2> QED
      BY <2>2, EndsIdle DEF Truths, AddedHolds
  <1> QED
    BY <1>1, <1>2

LEMMA RollbackTruths ==
    ASSUME TypeOK, Truths, NEW r \in Runs, Rollback(r)
    PROVE  Truths'
  <1>1. counter' = counter
    BY DEF Rollback
  <1>2. /\ run'[r].pc = "idle" /\ \A cell \in Cells : run'[r].added[cell] = 0
        /\ \A q \in Runs \ {r} : run'[q] = run[q] /\ CellOf(q)' = CellOf(q)
        /\ utc' = utc
    BY EndsIdle
  <1>3. BelowWhenBegun'
    BY <1>1, <1>2 DEF Truths, BelowWhenBegun
  <1>4. AddedBounded'
    BY <1>1, <1>2 DEF Truths, AddedBounded
  <1>5. CounterBounded'
    <2>1. \A cell \in Cells : InFlight(cell)' \subseteq InFlight(cell)
      BY <1>2 DEF InFlight
    <2> QED
      BY <1>1, <2>1, KeptBounded DEF Truths, CounterBounded, CounterKept
  <1>6. FutureEmpty'
    BY <1>1, <1>2 DEF Truths, FutureEmpty
  <1> QED
    BY <1>3, <1>4, <1>5, <1>6, EndedTruths DEF Truths

\* Increments of different runs are never in one row.
LEMMA CommitCounts ==
    ASSUME TypeOK, Truths, NEW r \in Runs, Commit(r), NEW cell \in Cells
    PROVE  /\ counter'[cell] = counter[cell] + run[r].added[cell]
           /\ counter[cell] \in Nat /\ run[r].added[cell] \in Nat
           /\ \A q \in Runs : run'[q].added[cell] > 0 =>
                 run'[q].added[cell] = run[q].added[cell] /\ run[r].added[cell] = 0
  <1>1. /\ counter'[cell] = counter[cell] + run[r].added[cell]
        /\ counter[cell] \in Nat /\ run[r].added[cell] \in Nat
    BY RunFields DEF Commit, TypeOK
  <1>2. ASSUME NEW q \in Runs, run'[q].added[cell] > 0
        PROVE  run'[q].added[cell] = run[q].added[cell] /\ run[r].added[cell] = 0
    <2>1. q # r /\ run'[q] = run[q]
      BY <1>2, EndsIdle
    <2>2. holder[cell] = q
      BY <1>2, <2>1 DEF Truths, AddedHolds
    <2>3. ~(run[r].added[cell] > 0)
      BY <2>1, <2>2 DEF Truths, AddedHolds
    <2> QED
      BY <1>1, <2>1, <2>3
  <1> QED
    BY <1>1, <1>2

\* The increments of the run become part of the counters, at whose limit it
\* leaves its page to the others.
LEMMA CommitBounded ==
    ASSUME TypeOK, Truths, NEW r \in Runs, Commit(r)
    PROVE  CounterBounded'
  <1>1. SUFFICES ASSUME NEW cell \in Cells, counter'[cell] >= LargestLimit
                 PROVE  counter'[cell] + PageSize * Cardinality(InFlight(cell)')
                            < LargestLimit + Cardinality(Runs) * PageSize
    BY DEF CounterBounded
  <1>2. InFlight(cell)' \subseteq InFlight(cell) /\ r \notin InFlight(cell)'
    BY EndsIdle DEF InFlight
  <1>3. /\ counter'[cell] = counter[cell] + run[r].added[cell]
        /\ counter[cell] \in Nat /\ run[r].added[cell] \in Nat
    BY CommitCounts
  <1>4. InFlight(cell) \in SUBSET Runs /\ InFlight(cell)' \in SUBSET InFlight(cell)
    BY <1>2 DEF InFlight
  <1>5. PICK rest \in Nat : rest = PageSize * Cardinality(InFlight(cell)')
    BY <1>4, Pages
  <1>6. PICK all \in Nat : all = Cardinality(Runs) * PageSize
    BY CardinalityOfRuns
  <1>7. CASE run[r].added[cell] = 0
    <2>1. CounterKept(cell)
      BY <1>2, <1>3, <1>7 DEF CounterKept
    <2> QED
      BY <1>1, <2>1, KeptBounded DEF Truths
  <1>8. CASE run[r].added[cell] > 0 /\ counter[cell] < LargestLimit
    <2>1. counter[cell] + run[r].added[cell] < LargestLimit + PageSize
      BY <1>8 DEF Truths, AddedBounded
    <2>2. InFlight(cell)' \in SUBSET Runs /\ r \in Runs \ InFlight(cell)'
      BY <1>2, <1>4
    <2>3. rest + PageSize <= all
      BY <1>5, <1>6, <2>2, Pages, CardinalityOfRuns
    <2> QED
      BY <1>3, <1>5, <1>6, <2>1, <2>3, LimitLargest, Constants
  <1>9. CASE run[r].added[cell] > 0 /\ counter[cell] >= LargestLimit
    <2>1. run[r].added[cell] <= PageSize
      BY <1>3, <1>9, LimitLargest DEF Truths, AddedBounded
    <2>2. r \in InFlight(cell) \ InFlight(cell)'
      BY <1>2, <1>9 DEF InFlight
    <2>3. PICK before \in Nat : before = PageSize * Cardinality(InFlight(cell))
      BY <1>4, Pages
    <2>4. rest + PageSize <= before
      BY <1>4, <1>5, <2>2, <2>3, Pages
    <2>5. counter[cell] + before < LargestLimit + all
      BY <1>6, <1>9, <2>3 DEF Truths, CounterBounded
    <2> QED
      BY <1>3, <1>5, <1>6, <2>1, <2>4, <2>5, LimitLargest, Constants
  <1> QED
    BY <1>3, <1>7, <1>8, <1>9, LimitLargest

LEMMA CommitTruths ==
    ASSUME TypeOK, Truths, NEW r \in Runs, Commit(r)
    PROVE  Truths'
  <1>1. \A q \in Runs, cell \in Cells : run'[q].added[cell] > 0 =>
           /\ run'[q].added[cell] = run[q].added[cell]
           /\ counter'[cell] = counter[cell]
    BY CommitCounts
  <1>2. BelowWhenBegun'
    <2>1. SUFFICES ASSUME NEW q \in Runs, run'[q].pc = "import",
                          run'[q].added[CellOf(q)'] > 0
                   PROVE  counter'[CellOf(q)'] + run'[q].added[CellOf(q)'] < LargestLimit
      BY DEF BelowWhenBegun
    <2>2. run'[q] = run[q] /\ CellOf(q)' = CellOf(q)
      BY <2>1, EndsIdle
    <2>3. CellOf(q) \in Cells
      BY <2>1, <2>2, CellType DEF Truths, PagesTrue
    <2> QED
      BY <1>1, <2>1, <2>2, <2>3 DEF Truths, BelowWhenBegun
  <1>3. AddedBounded'
    BY <1>1 DEF Truths, AddedBounded
  <1>4. FutureEmpty'
    <2>1. SUFFICES ASSUME NEW cell \in Cells, cell[2] > utc
                   PROVE  counter'[cell] = 0
      BY EndsIdle DEF FutureEmpty
    <2>2. ~(run[r].added[cell] > 0)
      <3>1. cell[2] \in Nat /\ utc \in Nat
        BY DEF Cells, Months, TypeOK
      <3> QED
        BY <2>1, <3>1 DEF Truths, AddedHolds
    <2> QED
      BY <2>1, <2>2, CommitCounts DEF Truths, FutureEmpty
  <1> QED
    BY <1>2, <1>3, <1>4, EndedTruths, CommitBounded DEF Truths

\* In a new month every counter is 0, and no run has added to it.
LEMMA MonthTruths ==
    ASSUME TypeOK, Truths, TypeOK', UtcMonth
    PROVE  Truths'
  <1>1. utc' = utc + 1 /\ utc \in Nat /\ UNCHANGED <<counter, holder, run>>
    BY DEF UtcMonth, usage, TypeOK, Months
  <1>2. \A cell \in Cells : cell[2] \in Nat
    BY DEF Cells, Months
  <1>3. PagesTrue'
    BY <1>1 DEF Truths, PagesTrue
  <1>4. AddedHolds'
    BY <1>1, <1>2 DEF Truths, AddedHolds
  <1>5. AddedBounded' /\ FutureEmpty'
    BY <1>1, <1>2 DEF Truths, AddedBounded, FutureEmpty
  <1>6. \A q \in Runs : CellOf(q)'[2] = utc + 1
    BY <1>1 DEF CellOf
  <1>7. BelowWhenBegun'
    <2>1. SUFFICES ASSUME NEW q \in Runs, run[q].pc = "import",
                          run[q].added[CellOf(q)'] > 0
                   PROVE  FALSE
      BY <1>1 DEF BelowWhenBegun
    <2>2. CellOf(q)' \in Cells
      <3>1. utc + 1 \in Months
        BY <1>1 DEF TypeOK
      <3>2. TenantOf[run[q].conn] \in Tenants
        BY <2>1, Constants DEF Truths, PagesTrue
      <3>3. CellOf(q)' = <<TenantOf[run[q].conn], utc + 1>>
        BY <1>1 DEF CellOf
      <3> QED
        BY <3>1, <3>2, <3>3 DEF Cells
    <2> QED
      BY <1>1, <1>6, <2>1, <2>2 DEF Truths, AddedHolds
  <1>8. CounterBounded'
    <2>1. SUFFICES ASSUME NEW cell \in Cells, counter'[cell] >= LargestLimit
                   PROVE  InFlight(cell)' \subseteq InFlight(cell)
      BY <1>1, KeptBounded DEF Truths, CounterBounded, CounterKept
    <2>2. cell[2] <= utc
      BY <1>1, <1>2, <2>1, LimitLargest DEF Truths, FutureEmpty
    <2>3. \A q \in Runs : CellOf(q)' # cell
      BY <1>1, <1>2, <1>6, <2>2
    <2> QED
      BY <1>1, <2>3 DEF InFlight
  <1> QED
    BY <1>3, <1>4, <1>5, <1>7, <1>8 DEF Truths

LEMMA TruthsNext ==
    ASSUME TypeOK, Truths, TypeOK', [Next]_vars
    PROVE  Truths'
  <1>1. ASSUME UNCHANGED <<counter, holder, utc, run>>
        PROVE  Truths'
    <2>1. \A r \in Runs : CellOf(r)' = CellOf(r)
      BY <1>1 DEF CellOf
    <2>2. \A cell \in Cells : InFlight(cell)' = InFlight(cell)
      BY <1>1, <2>1 DEF InFlight
    <2> QED
      BY <1>1, <2>1, <2>2 DEF Truths, PagesTrue, AddedHolds, BelowWhenBegun, AddedBounded,
                              CounterBounded, FutureEmpty
  <1>2. ASSUME NEW r \in Runs, RunStep(r) \/ Rollback(r)
        PROVE  Truths'
    BY <1>2, MovingSteps, MoveTruths, IncrementTruths, CommitTruths, RollbackTruths
       DEF RunStep
  <1>3. ASSUME NEW t \in Tenants, SetQuota(t) \/ SetStatus(t)
        PROVE  Truths'
    BY <1>1, <1>3 DEF SetQuota, SetStatus, usage, clock
  <1>4. CASE BerlinMonth \/ MonthlyReset \/ UNCHANGED vars
    BY <1>1, <1>4 DEF BerlinMonth, MonthlyReset, vars, usage
  <1> QED
    BY <1>2, <1>3, <1>4, MonthTruths DEF Next

-----------------------------------------------------------------------------
(* What is made, counted, imports and lost *)

LEMMA Finite ==
    /\ IsFiniteSet(Months) /\ IsFiniteSet(Connections) /\ IsFiniteSet(Runs)
    /\ \A t \in Tenants, m \in Months : <<t, m>> \in Cells
  <1>1. 0 \in Int /\ LastMonth \in Int
    BY Constants
  <1>2. IsFiniteSet(0 .. LastMonth)
    BY <1>1, FS_Interval
  <1> QED
    BY <1>2, ConstantsAssumption DEF Months, Cells

LEMMA AddedType ==
    ASSUME TypeOK, NEW r \in Runs, NEW t \in Tenants
    PROVE  Added(r, t) \in Int
  <1>1. \A m \in Months : run[r].added[<<t, m>>] \in Int
    BY RunFields, Finite
  <1> QED
    BY <1>1, Finite, SumInt DEF Added

LEMMA SameAdded ==
    ASSUME NEW r \in Runs, NEW t \in Tenants, run'[r].added = run[r].added
    PROVE  Added(r, t)' = Added(r, t)
  BY DEF Added, Months

LEMMA IdleEmpty ==
    ASSUME NEW r \in Runs, run[r] = Idle, NEW t \in Tenants
    PROVE  /\ run[r].made[t] = 0 /\ Added(r, t) = 0
           /\ InHand(r, t) = 0 /\ ToCome(r, t) = 0
  <1>1. \A m \in Months : run[r].added[<<t, m>>] = 0
    BY Finite DEF Idle, Zero
  <1>2. Added(r, t) = 0
    BY <1>1, Finite, SumZero DEF Added
  <1> QED
    BY <1>2 DEF InHand, ToCome, Idle, Zero

LEMMA IdleEmptyNext ==
    ASSUME NEW r \in Runs, run'[r] = Idle, NEW t \in Tenants
    PROVE  /\ run'[r].made[t] = 0 /\ Added(r, t)' = 0
           /\ InHand(r, t)' = 0 /\ ToCome(r, t)' = 0
  <1>1. \A m \in Months : run'[r].added[<<t, m>>] = 0
    BY Finite DEF Idle, Zero
  <1>2. Added(r, t)' = 0
    BY <1>1, Finite, SumZero DEF Added, Months
  <1> QED
    BY <1>2 DEF InHand, ToCome, Idle, Zero

\* A connection more has a page more.
LEMMA ConnectionPages ==
    ASSUME NEW T \in SUBSET Connections, NEW S \in SUBSET T
    PROVE  /\ Cardinality(S) * PageSize \in Nat /\ Cardinality(T) * PageSize \in Nat
           /\ Cardinality(S) * PageSize <= Cardinality(T) * PageSize
           /\ \A c \in T \ S : Cardinality(S) * PageSize + PageSize <= Cardinality(T) * PageSize
  <1>1. IsFiniteSet(S) /\ IsFiniteSet(T)
    BY Finite, FS_Subset
  <1>2. /\ Cardinality(S) \in Nat /\ Cardinality(T) \in Nat
        /\ Cardinality(S) <= Cardinality(T)
    BY <1>1, FS_CardinalityType, FS_Subset
  <1>3. \A m, n \in Nat : m * PageSize \in Nat /\ (m <= n => m * PageSize <= n * PageSize)
    BY Constants
  <1>4. ASSUME NEW c \in T \ S
        PROVE  Cardinality(S) * PageSize + PageSize <= Cardinality(T) * PageSize
    <2>1. S \in SUBSET (T \ {c}) /\ IsFiniteSet(T \ {c})
      BY <1>1, FS_RemoveElement
    <2>2. Cardinality(S) + 1 <= Cardinality(T)
      BY <1>1, <1>2, <2>1, FS_Subset, FS_RemoveElement
    <2>3. (Cardinality(S) + 1) * PageSize <= Cardinality(T) * PageSize
      BY <1>2, <1>3, <2>2
    <2>4. (Cardinality(S) + 1) * PageSize = Cardinality(S) * PageSize + PageSize
      BY <1>2, Constants
    <2> QED
      BY <2>3, <2>4
  <1> QED
    BY <1>2, <1>3, <1>4

\* A step of run r that commits nothing.
UsageStep(r, t) ==
    /\ Added(r, t)' + InHand(r, t)' - run'[r].made[t]
          <= Added(r, t) + InHand(r, t) - run[r].made[t]
    /\ t \notin failed' =>
          Added(r, t)' + InHand(r, t)' - run'[r].made[t]
             = Added(r, t) + InHand(r, t) - run[r].made[t]

LossStep(r, t) ==
    /\ run'[r].made[t] + ToCome(r, t)' <= Cardinality(Done(r, t)') * PageSize
    /\ Answered(t)' - run'[r].made[t] = Answered(t) - run[r].made[t]

LEMMA NumberTypes ==
    ASSUME TypeOK, NEW r \in Runs, NEW t \in Tenants
    PROVE  /\ run[r].made[t] \in Nat /\ run[r].count \in Nat /\ run[r].page \in 0 .. PageSize
           /\ InHand(r, t) \in Nat /\ ToCome(r, t) \in 0 .. PageSize
           /\ Added(r, t) \in Int /\ Answered(t) \in Int /\ imports[t] \in Nat
           /\ Done(r, t) \in SUBSET Connections
           /\ Cardinality(Done(r, t)) * PageSize \in Nat
  <1>1. 0 \in 0 .. PageSize
    BY Constants
  <1>2. Done(r, t) \in SUBSET Connections
    BY DEF Done, TenantConnections
  <1>3. Cardinality(Done(r, t)) * PageSize \in Nat
    BY <1>2, ConnectionPages
  <1> QED
    BY <1>1, <1>2, <1>3, RunFields, AddedType DEF InHand, ToCome, TypeOK, Answered

LEMMA StartNumbers ==
    ASSUME TypeOK, IdleTrue, NEW r \in Runs, ImportOrdersForAll(r), NEW t \in Tenants
    PROVE  UsageStep(r, t) /\ LossStep(r, t)
  <1>1. run[r] = Idle
    BY DEF ImportOrdersForAll, IdleTrue
  <1>2. /\ run'[r].pc = "next" /\ run'[r].made = run[r].made
        /\ run'[r].added = run[r].added /\ Answered(t)' = Answered(t)
    <2>1. PICK pairs \in SUBSET Connections :
             Become(r, [Idle EXCEPT !.pc = "next", !.todo = pairs, !.quota = quota])
      BY DEF ImportOrdersForAll
    <2> QED
      BY <1>1, <2>1 DEF ImportOrdersForAll, Become, Idle, TypeOK, Answered, erp
  <1>3. InHand(r, t)' = 0 /\ ToCome(r, t)' = 0 /\ Added(r, t)' = Added(r, t)
    BY <1>2, SameAdded DEF InHand, ToCome
  <1>4. Cardinality(Done(r, t)') * PageSize \in Nat
    <2>1. Done(r, t)' \in SUBSET Connections
      BY DEF Done, TenantConnections
    <2> QED
      BY <2>1, ConnectionPages
  <1> QED
    BY <1>1, <1>2, <1>3, <1>4, IdleEmpty, NumberTypes DEF UsageStep, LossStep

LEMMA SkipNumbers ==
    ASSUME TypeOK, MadeBounded, NEW r \in Runs, NEW c \in Connections,
           SkipBlocked(r, c), NEW t \in Tenants
    PROVE  UsageStep(r, t) /\ LossStep(r, t)
  <1>1. /\ run[r].pc = "next" /\ run'[r].pc = "next" /\ run'[r].made = run[r].made
        /\ run'[r].added = run[r].added /\ run'[r].todo = run[r].todo \ {c}
        /\ Answered(t)' = Answered(t)
    BY RunFields DEF SkipBlocked, Become, TypeOK, Run, Answered, erp
  <1>2. /\ InHand(r, t)' = 0 /\ ToCome(r, t)' = 0 /\ Added(r, t)' = Added(r, t)
        /\ InHand(r, t) = 0 /\ ToCome(r, t) = 0
    BY <1>1, SameAdded DEF InHand, ToCome
  <1>3. Cardinality(Done(r, t)) * PageSize <= Cardinality(Done(r, t)') * PageSize
    <2>1. Done(r, t)' \in SUBSET Connections /\ Done(r, t) \in SUBSET (Done(r, t)')
      BY <1>1 DEF Done, TenantConnections
    <2> QED
      BY <2>1, ConnectionPages
  <1>4. Cardinality(Done(r, t)') * PageSize \in Nat
    <2>1. Done(r, t)' \in SUBSET Connections
      BY DEF Done, TenantConnections
    <2> QED
      BY <2>1, ConnectionPages
  <1> QED
    BY <1>1, <1>2, <1>3, <1>4, NumberTypes DEF UsageStep, LossStep, MadeBounded

LEMMA BeginNumbers ==
    ASSUME TypeOK, MadeBounded, NEW r \in Runs, NEW c \in Connections,
           BeginConnection(r, c), NEW t \in Tenants
    PROVE  UsageStep(r, t) /\ LossStep(r, t)
  <1>1. PICK page \in 0 .. PageSize : Begin(r, c, page)
    BY DEF BeginConnection, Orders
  <1>2. /\ run[r].pc = "next" /\ run'[r].pc = "import" /\ run'[r].conn = c
        /\ run'[r].count = 0 /\ run'[r].page = page /\ run'[r].made = run[r].made
        /\ run'[r].added = run[r].added /\ run'[r].todo = run[r].todo \ {c}
        /\ c \in run[r].todo /\ Answered(t)' = Answered(t)
    <2>1. /\ run'[r] = [run[r] EXCEPT !.pc = "import", !.todo = @ \ {c}, !.conn = c,
                                      !.page = page, !.count = 0]
      BY <1>1 DEF Begin, Become, TypeOK
    <2>2. run[r].pc = "next" /\ c \in run[r].todo /\ Answered(t)' = Answered(t)
      BY DEF BeginConnection, Upcoming, Answered, erp
    <2> QED
      BY <2>1, <2>2, RunFields DEF Run
  <1>3. /\ InHand(r, t)' = 0 /\ InHand(r, t) = 0 /\ ToCome(r, t) = 0
        /\ Added(r, t)' = Added(r, t)
    BY <1>2, SameAdded DEF InHand, ToCome
  <1>4. Done(r, t)' \in SUBSET Connections /\ Done(r, t) \in SUBSET (Done(r, t)')
    BY <1>2 DEF Done, TenantConnections
  <1>5. /\ Cardinality(Done(r, t)) * PageSize <= Cardinality(Done(r, t)') * PageSize
        /\ Cardinality(Done(r, t)') * PageSize \in Nat
    BY <1>4, ConnectionPages
  <1>6. run[r].made[t] + ToCome(r, t)' <= Cardinality(Done(r, t)') * PageSize
    <2>1. CASE TenantOf[c] = t
      <3>1. c \in Done(r, t)' \ Done(r, t)
        BY <1>2, <2>1 DEF Done, TenantConnections
      <3>2. Cardinality(Done(r, t)) * PageSize + PageSize <= Cardinality(Done(r, t)') * PageSize
        BY <1>4, <3>1, ConnectionPages
      <3>3. ToCome(r, t)' <= PageSize /\ ToCome(r, t)' \in Nat
        BY <1>2, Constants DEF ToCome
      <3>4. run[r].made[t] <= Cardinality(Done(r, t)) * PageSize
        BY <1>3, NumberTypes DEF MadeBounded
      <3> QED
        BY <1>5, <3>2, <3>3, <3>4, NumberTypes, Constants
    <2>2. CASE TenantOf[c] # t
      BY <1>2, <1>3, <1>5, <2>2, NumberTypes DEF ToCome, MadeBounded
    <2> QED
      BY <2>1, <2>2
  <1> QED
    BY <1>2, <1>3, <1>6, NumberTypes DEF UsageStep, LossStep

LEMMA OneNumbers ==
    ASSUME TypeOK, PagesTrue, MadeBounded, NEW r \in Runs, ImportOne(r), NEW t \in Tenants
    PROVE  UsageStep(r, t) /\ LossStep(r, t)
  <1>1. PICK own \in Tenants : own = TenantOf[run[r].conn]
    BY CellType DEF ImportOne, PagesTrue
  <1>2. /\ run[r].pc = "import" /\ run'[r].pc = "import" /\ run'[r].conn = run[r].conn
        /\ run'[r].count = run[r].count + 1 /\ run'[r].page = run[r].page - 1
        /\ run'[r].made = [run[r].made EXCEPT ![own] = @ + 1]
        /\ run'[r].added = run[r].added /\ run'[r].todo = run[r].todo
        /\ Answered(own)' = Answered(own) + 1
        /\ t # own => Answered(t)' = Answered(t)
    <2>1. /\ run'[r] = [run[r] EXCEPT !.page = @ - 1, !.count = @ + 1, !.made[own] = @ + 1]
      BY <1>1 DEF ImportOne, Become, TypeOK
    <2>2. run[r].pc = "import"
      BY DEF ImportOne
    <2>3. PICK attempts \in 1 .. MaxAttempts :
             /\ created' = [created EXCEPT ![own] = @ + attempts]
             /\ surplus' = [surplus EXCEPT ![own] = @ + attempts - 1]
      BY <1>1 DEF ImportOne, Stored
    <2>4. /\ Answered(own)' = Answered(own) + 1
          /\ t # own => Answered(t)' = Answered(t)
      BY <2>3, Constants DEF Answered, TypeOK
    <2> QED
      BY <2>1, <2>2, <2>4, RunFields DEF Run
  <1>3. Added(r, t)' = Added(r, t) /\ Done(r, t)' = Done(r, t)
    BY <1>2, SameAdded DEF Done, TenantConnections
  <1>4. run[r].made[t] + ToCome(r, t) <= Cardinality(Done(r, t)) * PageSize
    BY DEF MadeBounded
  <1>5. CASE t = own
    <2>1. /\ run'[r].made[t] = run[r].made[t] + 1 /\ Answered(t)' = Answered(t) + 1
          /\ InHand(r, t) = run[r].count /\ InHand(r, t)' = run[r].count + 1
          /\ ToCome(r, t) = run[r].page /\ ToCome(r, t)' = run[r].page - 1
      BY <1>1, <1>2, <1>5, RunFields DEF InHand, ToCome, TypeOK
    <2> QED
      BY <1>3, <1>4, <2>1, NumberTypes DEF UsageStep, LossStep
  <1>6. CASE t # own
    <2>1. /\ run'[r].made[t] = run[r].made[t] /\ Answered(t)' = Answered(t)
          /\ InHand(r, t) = 0 /\ InHand(r, t)' = 0
          /\ ToCome(r, t) = 0 /\ ToCome(r, t)' = 0
      BY <1>1, <1>2, <1>6, RunFields DEF InHand, ToCome, TypeOK
    <2> QED
      BY <1>3, <1>4, <2>1, NumberTypes DEF UsageStep, LossStep
  <1> QED
    BY <1>5, <1>6

\* What a failing create_order has stored is surplus.
LEMMA RaiseNumbers ==
    ASSUME TypeOK, PagesTrue, MadeBounded, NEW r \in Runs, CreateRaises(r), NEW t \in Tenants
    PROVE  UsageStep(r, t) /\ LossStep(r, t)
  <1>1. PICK own \in Tenants : own = TenantOf[run[r].conn]
    BY CellType DEF CreateRaises, PagesTrue
  <1>2. /\ run[r].pc = "import" /\ run'[r].pc = "import" /\ run'[r].conn = run[r].conn
        /\ run'[r].count = run[r].count /\ run'[r].page = run[r].page - 1
        /\ run'[r].made = run[r].made
        /\ run'[r].added = run[r].added /\ run'[r].todo = run[r].todo
    <2>1. run'[r] = [run[r] EXCEPT !.page = @ - 1] /\ run[r].pc = "import"
      BY DEF CreateRaises, Become, TypeOK
    <2> QED
      BY <2>1, RunFields DEF Run
  <1>3. Answered(t)' = Answered(t)
    <2>1. PICK attempts \in 0 .. MaxAttempts :
             /\ created' = [created EXCEPT ![own] = @ + attempts]
             /\ surplus' = [surplus EXCEPT ![own] = @ + attempts]
      BY <1>1 DEF CreateRaises, Stored
    <2> QED
      BY <2>1, Constants DEF Answered, TypeOK
  <1>4. /\ Added(r, t)' = Added(r, t) /\ Done(r, t)' = Done(r, t)
        /\ InHand(r, t)' = InHand(r, t) /\ ToCome(r, t)' <= ToCome(r, t)
        /\ ToCome(r, t)' \in Int
    BY <1>2, SameAdded, RunFields, Constants DEF Done, TenantConnections, InHand, ToCome
  <1>5. run[r].made[t] + ToCome(r, t) <= Cardinality(Done(r, t)) * PageSize
    BY DEF MadeBounded
  <1> QED
    BY <1>2, <1>3, <1>4, <1>5, NumberTypes DEF UsageStep, LossStep

\* The connection is over: nothing imported, or what is imported is lost count of.
LEMMA OverNumbers ==
    ASSUME TypeOK, PagesTrue, MadeBounded, NEW r \in Runs,
           ConnectionFails(r) \/ NothingImported(r), NEW t \in Tenants
    PROVE  UsageStep(r, t) /\ LossStep(r, t)
  <1>1. /\ run[r].pc = "import" /\ run'[r].pc = "next" /\ run'[r].made = run[r].made
        /\ run'[r].added = run[r].added /\ run'[r].todo = run[r].todo
        /\ Answered(t)' = Answered(t)
    <2>1. \/ run'[r] = [run[r] EXCEPT !.pc = "next", !.page = 0]
          \/ run'[r] = [run[r] EXCEPT !.pc = "next"]
      BY DEF ConnectionFails, EndConnection, NothingImported, Become, TypeOK
    <2>2. run[r].pc = "import" /\ Answered(t)' = Answered(t)
      BY DEF ConnectionFails, NothingImported, Answered, erp
    <2> QED
      BY <2>1, <2>2, RunFields DEF Run
  <1>2. /\ Added(r, t)' = Added(r, t) /\ Done(r, t)' = Done(r, t)
        /\ InHand(r, t)' = 0 /\ ToCome(r, t)' = 0
    BY <1>1, SameAdded DEF Done, TenantConnections, InHand, ToCome
  <1>3. t \notin failed' => InHand(r, t) = 0
    BY RunFields DEF ConnectionFails, NothingImported, InHand
  <1>4. run[r].made[t] + ToCome(r, t) <= Cardinality(Done(r, t)) * PageSize
    BY DEF MadeBounded
  <1> QED
    BY <1>1, <1>2, <1>3, <1>4, NumberTypes, Constants DEF UsageStep, LossStep

\* The increment moves the count from the connection to the month's row.
LEMMA IncrementNumbers ==
    ASSUME TypeOK, PagesTrue, MadeBounded, NEW r \in Runs, IncrementUsage(r), NEW t \in Tenants
    PROVE  UsageStep(r, t) /\ LossStep(r, t)
  <1>1. PICK own \in Cells : own = CellOf(r)
    BY CellType DEF IncrementUsage, PagesTrue
  <1>2. /\ run[r].pc = "import" /\ run'[r].pc = "next" /\ run'[r].made = run[r].made
        /\ run'[r].added = [run[r].added EXCEPT ![own] = @ + run[r].count]
        /\ run'[r].todo = run[r].todo /\ Answered(t)' = Answered(t) /\ run[r].page = 0
    <2>1. run'[r] = [run[r] EXCEPT !.pc = "next", !.added[own] = @ + run[r].count]
      BY <1>1 DEF IncrementUsage, Become, CellOf, TypeOK
    <2>2. run[r].pc = "import" /\ Answered(t)' = Answered(t) /\ run[r].page = 0
      BY DEF IncrementUsage, Answered, erp
    <2> QED
      BY <2>1, <2>2, RunFields DEF Run
  <1>3. /\ Done(r, t)' = Done(r, t) /\ InHand(r, t)' = 0 /\ ToCome(r, t)' = 0
    BY <1>2 DEF Done, TenantConnections, InHand, ToCome
  <1>4. run[r].made[t] + ToCome(r, t) <= Cardinality(Done(r, t)) * PageSize
    BY DEF MadeBounded
  <1>5. Added(r, t)' = Added(r, t) + InHand(r, t)
    <2> DEFINE f == [m \in Months |-> run[r].added[<<t, m>>]]
               g == [m \in Months |-> run'[r].added[<<t, m>>]]
    <2>1. Added(r, t) = SumFunctionOnSet(f, Months) /\ Added(r, t)' = SumFunctionOnSet(g, Months)
      BY DEF Added, Months
    <2>2. \A m \in Months : f[m] \in Int /\ g[m] \in Int
      BY <1>2, RunFields, Finite
    <2>3. CASE t = TenantOf[run[r].conn]
      <3>1. utc \in Months /\ own = <<t, utc>>
        BY <1>1, <2>3 DEF CellOf, TypeOK
      <3>2. g[utc] = f[utc] + run[r].count /\ \A m \in Months \ {utc} : g[m] = f[m]
        BY <1>2, <3>1, RunFields, Finite
      <3>3. SumFunctionOnSet(g, Months) = SumFunctionOnSet(f, Months) + (g[utc] - f[utc])
        <4> HIDE DEF f, g
        <4> QED
          BY <2>2, <3>1, <3>2, Finite, SumChange
      <3>4. InHand(r, t) = run[r].count
        BY <1>2, <2>3 DEF InHand
      <3>5. g[utc] - f[utc] = run[r].count
        BY <2>2, <3>1, <3>2, RunFields
      <3> QED
        BY <2>1, <3>3, <3>4, <3>5
    <2>4. CASE t # TenantOf[run[r].conn]
      <3>1. \A m \in Months : g[m] = f[m]
        BY <1>1, <1>2, <2>4, RunFields, Finite DEF CellOf
      <3>2. SumFunctionOnSet(g, Months) = SumFunctionOnSet(f, Months)
        <4> HIDE DEF f, g
        <4> QED
          BY <2>2, <3>1, Finite, SumEqual
      <3>3. InHand(r, t) = 0
        BY <2>4 DEF InHand
      <3> QED
        BY <2>1, <3>2, <3>3, AddedType
    <2> QED
      BY <2>3, <2>4
  <1> QED
    BY <1>2, <1>3, <1>4, <1>5, NumberTypes, Constants DEF UsageStep, LossStep


\* A step of one run that commits nothing.
LEMMA WorkNumbers ==
    ASSUME TypeOK, PagesTrue, IdleTrue, MadeBounded, NEW r \in Runs,
           \/ ImportOrdersForAll(r)
           \/ \E c \in Connections : SkipBlocked(r, c) \/ BeginConnection(r, c)
           \/ ImportOne(r) \/ CreateRaises(r) \/ ConnectionFails(r) \/ NothingImported(r)
           \/ IncrementUsage(r),
           NEW t \in Tenants
    PROVE  UsageStep(r, t) /\ LossStep(r, t)
  BY StartNumbers, SkipNumbers, BeginNumbers, OneNumbers, RaiseNumbers, OverNumbers,
     IncrementNumbers

LEMMA WorkShape ==
    ASSUME TypeOK, NEW r \in Runs,
           \/ ImportOrdersForAll(r)
           \/ \E c \in Connections : SkipBlocked(r, c) \/ BeginConnection(r, c)
           \/ ImportOne(r) \/ CreateRaises(r) \/ ConnectionFails(r) \/ NothingImported(r)
           \/ IncrementUsage(r)
    PROVE  /\ UNCHANGED <<counter, imports, aborts>> /\ failed \subseteq failed'
           /\ \A q \in Runs \ {r} : run'[q] = run[q]
           /\ run'[r].pc # "idle"
  <1>1. UNCHANGED <<counter, imports, aborts>> /\ failed \subseteq failed'
    BY DEF ImportOrdersForAll, SkipBlocked, BeginConnection, ImportOne, CreateRaises,
           ConnectionFails, NothingImported, IncrementUsage, usage, history
  <1>2. PICK next : Become(r, next)
    BY DEF ImportOrdersForAll, SkipBlocked, BeginConnection, Begin, ImportOne,
           CreateRaises, ConnectionFails, EndConnection, NothingImported, IncrementUsage
  <1>3. \A q \in Runs \ {r} : run'[q] = run[q]
    BY <1>2 DEF Become, TypeOK
  <1>4. run'[r].pc # "idle"
    <2>1. \A new : Become(r, new) => run'[r] = new
      BY DEF Become, TypeOK
    <2>2. CASE ImportOrdersForAll(r)
      <3>1. PICK pairs :
               Become(r, [Idle EXCEPT !.pc = "next", !.todo = pairs, !.quota = quota])
        BY <2>2 DEF ImportOrdersForAll
      <3> QED
        BY <2>1, <3>1 DEF Idle
    <2>3. CASE \E c \in Connections : SkipBlocked(r, c)
      <3>1. PICK c : Become(r, [run[r] EXCEPT !.todo = @ \ {c}, !.conn = c])
        BY <2>3 DEF SkipBlocked
      <3>2. run[r].pc = "next"
        BY <2>3 DEF SkipBlocked
      <3> QED
        BY <2>1, <3>1, <3>2, RunFields DEF Run
    <2>4. CASE \E c \in Connections : BeginConnection(r, c)
      <3>1. PICK c, page :
               Become(r, [run[r] EXCEPT !.pc = "import", !.todo = @ \ {c}, !.conn = c,
                                        !.page = page, !.count = 0])
        BY <2>4 DEF BeginConnection, Begin
      <3> QED
        BY <2>1, <3>1, RunFields DEF Run
    <2>5. CASE ImportOne(r)
      <3>1. PICK t : Become(r, [run[r] EXCEPT !.page = @ - 1, !.count = @ + 1,
                                              !.made[t] = @ + 1])
        BY <2>5 DEF ImportOne
      <3>2. run[r].pc = "import"
        BY <2>5 DEF ImportOne
      <3> QED
        BY <2>1, <3>1, <3>2, RunFields DEF Run
    <2>6. CASE ConnectionFails(r) \/ NothingImported(r)
      <3>1. \/ Become(r, [run[r] EXCEPT !.pc = "next", !.page = 0])
            \/ Become(r, [run[r] EXCEPT !.pc = "next"])
        BY <2>6 DEF ConnectionFails, EndConnection, NothingImported
      <3> QED
        BY <2>1, <3>1, RunFields DEF Run
    <2>7. CASE IncrementUsage(r)
      <3>1. PICK cell : Become(r, [run[r] EXCEPT !.pc = "next",
                                                 !.added[cell] = @ + run[r].count])
        BY <2>7 DEF IncrementUsage
      <3> QED
        BY <2>1, <3>1, RunFields DEF Run
    <2>8. CASE CreateRaises(r)
      <3>1. Become(r, [run[r] EXCEPT !.page = @ - 1]) /\ run[r].pc = "import"
        BY <2>8 DEF CreateRaises
      <3> QED
        BY <2>1, <3>1, RunFields DEF Run
    <2> QED
      BY <2>2, <2>3, <2>4, <2>5, <2>6, <2>7, <2>8
  <1> QED
    BY <1>1, <1>3, <1>4

LEMMA SameNumbers ==
    ASSUME NEW r \in Runs, run'[r] = run[r], NEW t \in Tenants
    PROVE  /\ Added(r, t)' = Added(r, t) /\ InHand(r, t)' = InHand(r, t)
           /\ ToCome(r, t)' = ToCome(r, t) /\ Done(r, t)' = Done(r, t)
  BY SameAdded DEF InHand, ToCome, Done, TenantConnections

LEMMA SumTypes ==
    ASSUME TypeOK, NEW t \in Tenants
    PROVE  Counted(t) \in Int /\ Pending(t) \in Int
  <1>1. \A m \in Months : counter[<<t, m>>] \in Int
    BY Finite DEF TypeOK
  <1>2. \A r \in Runs : run[r].made[t] \in Int
    BY RunFields
  <1> QED
    BY <1>1, <1>2, Finite, SumInt DEF Counted, Pending, SumFunction

\* The imports pending change by what the run that steps does.
LEMMA PendingChange ==
    ASSUME TypeOK, TypeOK', NEW r \in Runs, \A q \in Runs \ {r} : run'[q] = run[q],
           NEW t \in Tenants
    PROVE  Pending(t)' = Pending(t) + (run'[r].made[t] - run[r].made[t])
  <1> DEFINE f == [q \in Runs |-> run[q].made[t]]
             g == [q \in Runs |-> run'[q].made[t]]
  <1>1. Pending(t) = SumFunctionOnSet(f, Runs) /\ Pending(t)' = SumFunctionOnSet(g, Runs)
    BY DEF Pending, SumFunction
  <1>2. \A q \in Runs : f[q] \in Int
    BY RunFields
  <1>3. \A q \in Runs : g[q] \in Int
    BY DEF TypeOK, Run
  <1>4. \A q \in Runs \ {r} : g[q] = f[q]
    OBVIOUS
  <1>5. g[r] - f[r] = run'[r].made[t] - run[r].made[t]
    OBVIOUS
  <1>6. SumFunctionOnSet(g, Runs) = SumFunctionOnSet(f, Runs) + (g[r] - f[r])
    <2> HIDE DEF f, g
    <2> QED
      BY <1>2, <1>3, <1>4, Finite, SumChange
  <1> QED
    BY <1>1, <1>5, <1>6

LEMMA SameCounted ==
    ASSUME NEW t \in Tenants, counter' = counter
    PROVE  Counted(t)' = Counted(t)
  BY DEF Counted, Months

LEMMA WorkUsage ==
    ASSUME TypeOK, TypeOK', PagesTrue, IdleTrue, UsageTrue, LossTrue, NEW r \in Runs,
           \/ ImportOrdersForAll(r)
           \/ \E c \in Connections : SkipBlocked(r, c) \/ BeginConnection(r, c)
           \/ ImportOne(r) \/ CreateRaises(r) \/ ConnectionFails(r) \/ NothingImported(r)
           \/ IncrementUsage(r)
    PROVE  IdleTrue' /\ UsageTrue' /\ LossTrue'
  <1>1. /\ UNCHANGED <<counter, imports, aborts>> /\ failed \subseteq failed'
        /\ \A q \in Runs \ {r} : run'[q] = run[q]
        /\ run'[r].pc # "idle"
    BY WorkShape
  <1>2. \A t \in Tenants : UsageStep(r, t) /\ LossStep(r, t)
    BY WorkNumbers DEF LossTrue
  <1>3. IdleTrue'
    BY <1>1 DEF IdleTrue
  <1>4. MadeCounted' /\ MadeBounded'
    <2>1. SUFFICES ASSUME NEW q \in Runs, NEW t \in Tenants
                   PROVE  /\ Added(q, t)' + InHand(q, t)' <= run'[q].made[t]
                          /\ t \notin failed' => run'[q].made[t] <= Added(q, t)' + InHand(q, t)'
                          /\ run'[q].made[t] + ToCome(q, t)' <= Cardinality(Done(q, t)') * PageSize
      BY DEF MadeCounted, MadeBounded
    <2>2. CASE q # r
      BY <1>1, <2>2, SameNumbers DEF UsageTrue, MadeCounted, LossTrue, MadeBounded
    <2>3. CASE q = r
      <3>1. /\ Added(r, t) + InHand(r, t) <= run[r].made[t]
            /\ t \notin failed' => run[r].made[t] <= Added(r, t) + InHand(r, t)
        BY <1>1 DEF UsageTrue, MadeCounted
      <3>2. /\ run[r].made[t] \in Int /\ Added(r, t) \in Int /\ InHand(r, t) \in Int
        BY NumberTypes
      <3>3. /\ run'[r].made[t] \in Int /\ Added(r, t)' \in Int /\ InHand(r, t)' \in Int
        <4>1. run'[r].made[t] \in Int /\ InHand(r, t)' \in Int
          BY DEF TypeOK, Run, InHand
        <4>2. \A m \in Months : run'[r].added[<<t, m>>] \in Int
          BY Finite DEF TypeOK, Run
        <4>3. Added(r, t)' \in Int
          BY <4>2, Finite, SumInt DEF Added, Months
        <4> QED
          BY <4>1, <4>3
      <3> QED
        BY <1>2, <2>3, <3>1, <3>2, <3>3 DEF UsageStep, LossStep
    <2> QED
      BY <2>2, <2>3
  <1>5. CountedAreImported' /\ UncountedOnlyByFailure'
    BY <1>1, SameCounted DEF UsageTrue, CountedAreImported, UncountedOnlyByFailure
  <1>6. LostOnlyByRollback'
    <2>1. SUFFICES ASSUME NEW t \in Tenants
                   PROVE  Answered(t)' - imports'[t] - Pending(t)'
                            <= aborts' * Cardinality(TenantConnections(t)') * PageSize
      BY DEF LostOnlyByRollback
    <2>2. Answered(t) - imports[t] - Pending(t)
            <= aborts * Cardinality(TenantConnections(t)) * PageSize
      BY DEF LossTrue, LostOnlyByRollback
    <2>3. Pending(t)' = Pending(t) + (run'[r].made[t] - run[r].made[t])
      BY <1>1, PendingChange
    <2>4. Answered(t)' - run'[r].made[t] = Answered(t) - run[r].made[t]
      BY <1>2 DEF LossStep
    <2>5. /\ Answered(t) \in Int /\ Answered(t)' \in Int /\ imports[t] \in Int
          /\ run[r].made[t] \in Int /\ run'[r].made[t] \in Int /\ Pending(t) \in Int
      BY RunFields, SumTypes DEF TypeOK, Run, Answered
    <2>6. TenantConnections(t)' = TenantConnections(t)
      BY DEF TenantConnections
    <2>7. Answered(t)' - imports[t] - Pending(t)' = Answered(t) - imports[t] - Pending(t)
      BY <2>3, <2>4, <2>5
    <2> QED
      BY <1>1, <2>2, <2>6, <2>7
  <1> QED
    BY <1>3, <1>4, <1>5, <1>6 DEF UsageTrue, LossTrue

\* The commit moves the run's imports and increments together.
LEMMA CommitUsage ==
    ASSUME TypeOK, TypeOK', UsageTrue, LossTrue, NEW r \in Runs, Commit(r)
    PROVE  UsageTrue' /\ LostOnlyByRollback' /\ run'[r] = Idle
           /\ \A q \in Runs \ {r} : run'[q] = run[q]
  <1>1. /\ run[r].pc = "next" /\ run'[r] = Idle
        /\ \A q \in Runs \ {r} : run'[q] = run[q]
        /\ UNCHANGED <<created, surplus, failed, aborts>>
        /\ \A t \in Tenants : imports'[t] = imports[t] + run[r].made[t]
        /\ \A cell \in Cells : counter'[cell] = counter[cell] + run[r].added[cell]
    BY DEF Commit, Become, erp, history, TypeOK
  <1>2. \A t \in Tenants : Counted(t)' = Counted(t) + Added(r, t)
    <2>1. TAKE t \in Tenants
    <2> DEFINE f == [m \in Months |-> counter[<<t, m>>]]
               g == [m \in Months |-> run[r].added[<<t, m>>]]
               h == [m \in Months |-> counter'[<<t, m>>]]
    <2>2. /\ Counted(t) = SumFunctionOnSet(f, Months)
          /\ Added(r, t) = SumFunctionOnSet(g, Months)
          /\ Counted(t)' = SumFunctionOnSet(h, Months)
      BY DEF Counted, SumFunction, Added, Months
    <2>3. \A m \in Months : f[m] \in Int /\ g[m] \in Int /\ h[m] = f[m] + g[m]
      BY <1>1, RunFields, Finite DEF TypeOK
    <2>4. SumFunctionOnSet(h, Months) = SumFunctionOnSet(f, Months) + SumFunctionOnSet(g, Months)
      <3> HIDE DEF f, g, h
      <3> QED
        BY <2>3, Finite, SumOfSums
    <2> QED
      BY <2>2, <2>4
  <1>3. ASSUME NEW t \in Tenants
        PROVE  /\ Counted(t)' <= imports'[t]
               /\ t \notin failed' => imports'[t] <= Counted(t)'
    <2>1. InHand(r, t) = 0
      BY <1>1 DEF InHand
    <2>2. /\ Added(r, t) <= run[r].made[t]
          /\ t \notin failed => run[r].made[t] <= Added(r, t)
      BY <2>1, NumberTypes DEF UsageTrue, MadeCounted
    <2>3. Counted(t) <= imports[t] /\ (t \notin failed => imports[t] <= Counted(t))
      BY DEF UsageTrue, CountedAreImported, UncountedOnlyByFailure
    <2> QED
      BY <1>1, <1>2, <2>2, <2>3, NumberTypes, SumTypes
  <1>4. CountedAreImported' /\ UncountedOnlyByFailure'
    BY <1>3 DEF CountedAreImported, UncountedOnlyByFailure
  <1>5. MadeCounted'
    <2>1. SUFFICES ASSUME NEW q \in Runs, NEW t \in Tenants
                   PROVE  /\ Added(q, t)' + InHand(q, t)' <= run'[q].made[t]
                          /\ t \notin failed' => run'[q].made[t] <= Added(q, t)' + InHand(q, t)'
      BY DEF MadeCounted
    <2>2. CASE q = r
      <3>1. run'[q].made[t] = 0 /\ Added(q, t)' = 0 /\ InHand(q, t)' = 0
        BY <1>1, <2>2, IdleEmptyNext
      <3> QED
        BY <3>1
    <2>3. CASE q # r
      BY <1>1, <2>3, SameNumbers DEF UsageTrue, MadeCounted
    <2> QED
      BY <2>2, <2>3
  <1>6. LostOnlyByRollback'
    <2>1. SUFFICES ASSUME NEW t \in Tenants
                   PROVE  Answered(t)' - imports'[t] - Pending(t)'
                            <= aborts' * Cardinality(TenantConnections(t)') * PageSize
      BY DEF LostOnlyByRollback
    <2>2. Answered(t) - imports[t] - Pending(t)
            <= aborts * Cardinality(TenantConnections(t)) * PageSize
      BY DEF LossTrue, LostOnlyByRollback
    <2>3. Pending(t)' = Pending(t) + (run'[r].made[t] - run[r].made[t])
      BY <1>1, PendingChange
    <2>4. run'[r].made[t] = 0
      BY <1>1 DEF Idle, Zero
    <2>5. /\ Answered(t) \in Int /\ imports[t] \in Int
          /\ run[r].made[t] \in Int /\ Pending(t) \in Int
      BY RunFields, SumTypes DEF TypeOK, Answered
    <2>6. TenantConnections(t)' = TenantConnections(t)
      BY DEF TenantConnections
    <2>7. Answered(t)' - imports'[t] - Pending(t)' = Answered(t) - imports[t] - Pending(t)
      BY <1>1, <2>3, <2>4, <2>5 DEF Answered
    <2> QED
      BY <1>1, <2>2, <2>6, <2>7
  <1> QED
    BY <1>1, <1>4, <1>5, <1>6 DEF UsageTrue


LEMMA CommitLoss ==
    ASSUME TypeOK, LossTrue, NEW r \in Runs, run'[r] = Idle,
           \A q \in Runs \ {r} : run'[q] = run[q]
    PROVE  MadeBounded'
  <1>1. SUFFICES ASSUME NEW q \in Runs, NEW t \in Tenants
                 PROVE  run'[q].made[t] + ToCome(q, t)' <= Cardinality(Done(q, t)') * PageSize
    BY DEF MadeBounded
  <1>2. CASE q = r
    <2>1. Done(q, t)' \in SUBSET Connections
      BY DEF Done, TenantConnections
    <2>2. Cardinality(Done(q, t)') * PageSize \in Nat
      BY <2>1, ConnectionPages
    <2> QED
      BY <1>2, <2>2, IdleEmptyNext
  <1>3. CASE q # r
    BY <1>3, SameNumbers DEF LossTrue, MadeBounded
  <1> QED
    BY <1>2, <1>3

\* A rollback loses what the run has made, a page for each of its connections.
LEMMA RollbackUsage ==
    ASSUME TypeOK, TypeOK', UsageTrue, LossTrue, NEW r \in Runs, Rollback(r)
    PROVE  UsageTrue' /\ LostOnlyByRollback' /\ run'[r] = Idle
           /\ \A q \in Runs \ {r} : run'[q] = run[q]
  <1>1. /\ run'[r] = Idle
        /\ \A q \in Runs \ {r} : run'[q] = run[q]
        /\ UNCHANGED <<counter, created, surplus, imports, failed>> /\ aborts' = aborts + 1
    BY DEF Rollback, Become, erp, TypeOK
  <1>2. CountedAreImported' /\ UncountedOnlyByFailure'
    BY <1>1, SameCounted DEF UsageTrue, CountedAreImported, UncountedOnlyByFailure
  <1>3. MadeCounted'
    <2>1. SUFFICES ASSUME NEW q \in Runs, NEW t \in Tenants
                   PROVE  /\ Added(q, t)' + InHand(q, t)' <= run'[q].made[t]
                          /\ t \notin failed' => run'[q].made[t] <= Added(q, t)' + InHand(q, t)'
      BY DEF MadeCounted
    <2>2. CASE q = r
      <3>1. run'[q].made[t] = 0 /\ Added(q, t)' = 0 /\ InHand(q, t)' = 0
        BY <1>1, <2>2, IdleEmptyNext
      <3> QED
        BY <3>1
    <2>3. CASE q # r
      BY <1>1, <2>3, SameNumbers DEF UsageTrue, MadeCounted
    <2> QED
      BY <2>2, <2>3
  <1>4. LostOnlyByRollback'
    <2>1. SUFFICES ASSUME NEW t \in Tenants
                   PROVE  Answered(t)' - imports'[t] - Pending(t)'
                            <= aborts' * Cardinality(TenantConnections(t)') * PageSize
      BY DEF LostOnlyByRollback
    <2> DEFINE n == Cardinality(TenantConnections(t))
    <2>2. Answered(t) - imports[t] - Pending(t) <= aborts * n * PageSize
      BY DEF LossTrue, LostOnlyByRollback
    <2>3. Pending(t)' = Pending(t) + (run'[r].made[t] - run[r].made[t])
      BY <1>1, PendingChange
    <2>4. run'[r].made[t] = 0
      BY <1>1 DEF Idle, Zero
    <2>5. /\ Answered(t) \in Int /\ imports[t] \in Int
          /\ run[r].made[t] \in Int /\ Pending(t) \in Int
      BY RunFields, SumTypes DEF TypeOK, Answered
    <2>6. TenantConnections(t)' = TenantConnections(t)
      BY DEF TenantConnections
    <2>7. run[r].made[t] <= n * PageSize
      <3>1. run[r].made[t] + ToCome(r, t) <= Cardinality(Done(r, t)) * PageSize
        BY DEF LossTrue, MadeBounded
      <3>2. /\ TenantConnections(t) \in SUBSET Connections
            /\ Done(r, t) \in SUBSET TenantConnections(t)
        BY DEF TenantConnections, Done
      <3>3. Cardinality(Done(r, t)) * PageSize <= n * PageSize /\ n * PageSize \in Nat
        BY <3>2, ConnectionPages
      <3> QED
        BY <3>1, <3>3, NumberTypes, Constants
    <2>8. n \in Nat
      BY Finite, FS_Subset, FS_CardinalityType DEF TenantConnections
    <2>9. (aborts + 1) * n * PageSize = aborts * n * PageSize + n * PageSize
      BY <2>8, Constants DEF TypeOK
    <2>10. Answered(t)' - imports'[t] - Pending(t)'
             = (Answered(t) - imports[t] - Pending(t)) + run[r].made[t]
      BY <1>1, <2>3, <2>4, <2>5 DEF Answered
    <2>11. aborts * n * PageSize \in Int /\ n * PageSize \in Int
      BY <2>8, Constants DEF TypeOK
    <2> HIDE DEF n
    <2> QED
      BY <1>1, <2>2, <2>5, <2>6, <2>7, <2>9, <2>10, <2>11 DEF n
  <1> QED
    BY <1>1, <1>2, <1>3, <1>4 DEF UsageTrue

LEMMA UsageInit ==
    ASSUME Init
    PROVE  IdleTrue /\ UsageTrue /\ LossTrue
  <1>1. TypeOK /\ \A r \in Runs : run[r] = Idle
    BY TypeInit DEF Init
  <1>2. IdleTrue
    BY <1>1 DEF IdleTrue
  <1>3. MadeCounted
    BY <1>1, IdleEmpty DEF MadeCounted
  <1>4. MadeBounded
    BY <1>1, IdleEmpty, NumberTypes DEF MadeBounded
  <1>5. \A t \in Tenants : Answered(t) = 0 /\ imports[t] = 0 /\ Counted(t) = 0 /\ Pending(t) = 0
    <2>1. TAKE t \in Tenants
    <2>2. \A m \in Months : counter[<<t, m>>] = 0
      BY Finite DEF Init, Zero
    <2>3. \A r \in Runs : run[r].made[t] = 0
      BY <1>1, IdleEmpty
    <2>4. Counted(t) = 0 /\ Pending(t) = 0
      BY <2>2, <2>3, Finite, SumZero DEF Counted, Pending, SumFunction
    <2> QED
      BY <2>4 DEF Init, Zero, Answered
  <1>6. CountedAreImported /\ UncountedOnlyByFailure
    BY <1>5 DEF CountedAreImported, UncountedOnlyByFailure
  <1>7. LostOnlyByRollback
    <2>1. \A t \in Tenants : aborts * Cardinality(TenantConnections(t)) * PageSize = 0
      <3>1. TAKE t \in Tenants
      <3>2. Cardinality(TenantConnections(t)) \in Nat
        BY Finite, FS_Subset, FS_CardinalityType DEF TenantConnections
      <3> QED
        BY <3>2, Constants DEF Init
    <2> QED
      BY <1>5, <2>1 DEF LostOnlyByRollback
  <1> QED
    BY <1>2, <1>3, <1>4, <1>6, <1>7 DEF UsageTrue, LossTrue

LEMMA UsageNext ==
    ASSUME IInv, IInv', IdleTrue, UsageTrue, LossTrue, [Next]_vars
    PROVE  IdleTrue' /\ UsageTrue' /\ LossTrue'
  <1>1. TypeOK /\ TypeOK' /\ PagesTrue
    BY DEF IInv, Truths
  <1>2. ASSUME UNCHANGED <<run, counter, imports, created, surplus, aborts, failed>>
        PROVE  IdleTrue' /\ UsageTrue' /\ LossTrue'
    <2>1. \A r \in Runs, t \in Tenants :
             /\ Added(r, t)' = Added(r, t) /\ InHand(r, t)' = InHand(r, t)
             /\ ToCome(r, t)' = ToCome(r, t) /\ Done(r, t)' = Done(r, t)
      BY <1>2, SameNumbers
    <2>2. \A t \in Tenants : /\ Counted(t)' = Counted(t)
                             /\ TenantConnections(t)' = TenantConnections(t)
      BY <1>2, SameCounted DEF TenantConnections
    <2>3. \A t \in Tenants : Pending(t)' = Pending(t)
      BY <1>2 DEF Pending
    <2>4. IdleTrue'
      BY <1>2 DEF IdleTrue
    <2>5. UsageTrue'
      BY <1>2, <2>1, <2>2
         DEF UsageTrue, MadeCounted, CountedAreImported, UncountedOnlyByFailure
    <2>6. LossTrue'
      BY <1>2, <2>1, <2>2, <2>3 DEF LossTrue, MadeBounded, LostOnlyByRollback, Answered
    <2> QED
      BY <2>4, <2>5, <2>6
  <1>3. ASSUME NEW r \in Runs, RunStep(r) \/ Rollback(r)
        PROVE  IdleTrue' /\ UsageTrue' /\ LossTrue'
    <2>1. CASE Commit(r) \/ Rollback(r)
      <3>1. /\ UsageTrue' /\ LostOnlyByRollback' /\ run'[r] = Idle
            /\ \A q \in Runs \ {r} : run'[q] = run[q]
        BY <1>1, <2>1, CommitUsage, RollbackUsage
      <3>2. IdleTrue' /\ MadeBounded'
        BY <1>1, <3>1, CommitLoss DEF IdleTrue
      <3> QED
        BY <3>1, <3>2 DEF LossTrue
    <2> QED
      BY <1>1, <1>3, <2>1, WorkUsage DEF RunStep
  <1>4. CASE \E t \in Tenants : SetQuota(t) \/ SetStatus(t)
    BY <1>2, <1>4 DEF SetQuota, SetStatus, usage, erp, history
  <1>5. CASE BerlinMonth \/ UtcMonth \/ MonthlyReset \/ UNCHANGED vars
    BY <1>2, <1>5 DEF BerlinMonth, UtcMonth, MonthlyReset, usage, erp, history, vars
  <1> QED
    BY <1>3, <1>4, <1>5 DEF Next

-----------------------------------------------------------------------------
(* The theorems *)

\* At a limit a counter has room for a page of each run in flight, and a run
\* holds the rows it has added to (IInv is inductive).
THEOREM Inductive == Spec => []IInv
  <1>1. Init => IInv
    <2>1. Init => berlin <= LastMonth
      BY Constants DEF Init
    <2> QED
      BY <2>1, TypeInit, TruthsInit DEF IInv
  <1>2. IInv /\ [Next]_vars => IInv'
    BY TypeNext, TruthsNext DEF IInv, Truths
  <1> QED
    BY <1>1, <1>2, PTL DEF Spec

\* Counters, records and runs keep their types, over any turn of the month.
THEOREM TypeCorrect == Spec => []TypeOK
  <1>1. IInv => TypeOK
    BY DEF IInv
  <1> QED
    BY <1>1, Inductive, PTL

\* quota.py:62: for any tenants, connections, runs, quotas and page size, a
\* month's usage passes the largest quota by less than a page for each run.
THEOREM OvershootAlwaysBounded == Spec => []OvershootBounded
  <1>1. IInv => OvershootBounded
    <2>1. SUFFICES ASSUME IInv, NEW cell \in Cells
                   PROVE  counter[cell] < LargestLimit + Cardinality(Runs) * PageSize
      BY DEF OvershootBounded
    <2>2. counter[cell] \in Nat
      BY <2>1 DEF IInv, TypeOK
    <2>3. PageSize * Cardinality(InFlight(cell)) \in Nat
      <3>1. InFlight(cell) \in SUBSET Runs
        BY DEF InFlight
      <3> QED
        BY <3>1, Pages
    <2>4. counter[cell] >= LargestLimit =>
             counter[cell] + PageSize * Cardinality(InFlight(cell))
                 < LargestLimit + Cardinality(Runs) * PageSize
      BY <2>1 DEF IInv, Truths, CounterBounded
    <2> QED
      BY <2>2, <2>3, <2>4, CardinalityOfRuns, LimitLargest
  <1> QED
    BY <1>1, Inductive, PTL

\* What a run has made, it has counted or is about to count, and is bounded by
\* the connections it has begun (Kept is inductive within IInv).
THEOREM UsageInductive == Spec => []Kept
  <1>1. Init => Kept
    BY UsageInit DEF Kept
  <1>2. IInv /\ IInv' /\ Kept /\ [Next]_vars => Kept'
    BY UsageNext DEF Kept
  <1> QED
    BY <1>1, <1>2, Inductive, PTL DEF Spec

\* orchestrator.py:95: for any tenants, connections and runs, a tenant is
\* charged for no import that is not committed.
THEOREM ChargedAreImported == Spec => []CountedAreImported
  <1>1. Kept => CountedAreImported
    BY DEF Kept, UsageTrue
  <1> QED
    BY <1>1, UsageInductive, PTL

\* An import is left out of the usage only for a tenant with a connection that
\* failed in the middle of a page, by no overlap, rollback, reset or month.
THEOREM UncountedAfterFailure == Spec => []UncountedOnlyByFailure
  <1>1. Kept => UncountedOnlyByFailure
    BY DEF Kept, UsageTrue
  <1> QED
    BY <1>1, UsageInductive, PTL

\* PlentyONE orders whose id was returned and that no import keeps come from
\* rollbacks only, a page for each connection of the tenant and rollback at the
\* most, however often create_order was tried.
THEOREM LostAfterRollback == Spec => []LostOnlyByRollback
  <1>1. Kept => LostOnlyByRollback
    BY DEF Kept, LossTrue
  <1> QED
    BY <1>1, UsageInductive, PTL

=============================================================================
