------------------------------ MODULE Inventory ------------------------------
(***************************************************************************)
(* The stock of one Mirakl connection: hourly runs read it in PlentyONE    *)
(* and push it to Mirakl's asynchronous offer import, which applies it     *)
(* when it gets there.  Quantities are version numbers: the n-th quantity  *)
(* of an SKU is n, so that an older one can be told from a newer one.      *)
(*                                                                         *)
(* Stock is that of the warehouse of the settings, which the service asks  *)
(* for whatever warehouse the connection has.                              *)
(***************************************************************************)
EXTENDS Naturals, FiniteSets

CONSTANTS
    Skus,         \* the active SKU mappings of the connection
    Runs,         \* concurrent runs of the task
    Imports,      \* imports at Mirakl at a time (bounds the model)
    None,
    MaxAttempts,  \* stop_after_attempt
    MaxPolls,     \* polls of one import
    MaxSales,     \* quantities an SKU has (bounds the model)
    MaxFaults     \* failures of a behaviour (bounds the model)

ASSUME InventoryAssumption ==
    /\ Skus # {}
    /\ None \notin Imports \cup Nat
    /\ {MaxAttempts, MaxPolls} \subseteq Nat \ {0}
    /\ {MaxSales, MaxFaults} \subseteq Nat

VARIABLES
    stock,      \* the quantity of each SKU in PlentyONE
    shown,      \* the quantity Mirakl offers
    import,     \* the imports at Mirakl
    run,        \* the state of each run
    logged,     \* the last quantity inventory_log has of each SKU
    faults,     \* failures so far
    disturbed   \* history: a failure, a timeout or an overlap has happened

vars == <<stock, shown, import, run, logged, faults, disturbed>>

Quantity == 0 .. MaxSales

\* A page of offers: the SKUs whose stock was read.
Offers == [Skus -> Quantity \cup {None}]

NoOffers == [k \in Skus |-> None]

\* What Mirakl has of an import it has not taken yet, otherwise NoImport.
\* `waited' is a history: the run that posted the import still polls it, and
\* no other run has been active since that run began.
Import == [queued : BOOLEAN, offers : Offers, waited : BOOLEAN]

Run ==
    [pc : {"idle", "read", "post", "poll", "log"},
     todo : SUBSET Skus,               \* mappings whose stock is not read yet
     offers : Offers,
     import : Imports \cup {None},
     tries : 0 .. MaxAttempts,         \* attempts of update_offers
     polls : 0 .. MaxPolls,
     alone : BOOLEAN]                  \* history: no other run since it began

NoImport == [queued |-> FALSE, offers |-> NoOffers, waited |-> FALSE]

Idle == [pc |-> "idle", todo |-> {}, offers |-> NoOffers, import |-> None,
         tries |-> 0, polls |-> 0, alone |-> FALSE]

TypeOK ==
    /\ stock \in [Skus -> Quantity]
    /\ shown \in [Skus -> Quantity]
    /\ import \in [Imports -> Import]
    /\ run \in [Runs -> Run]
    /\ logged \in Offers
    /\ faults \in 0 .. MaxFaults
    /\ disturbed \in BOOLEAN

Init ==
    /\ stock = [k \in Skus |-> 0]
    /\ shown = [k \in Skus |-> 0]
    /\ import = [i \in Imports |-> NoImport]
    /\ run = [r \in Runs |-> Idle]
    /\ logged = NoOffers
    /\ faults = 0
    /\ disturbed = FALSE

Active == {r \in Runs : run[r].pc # "idle"}

Queued == {i \in Imports : import[i].queued}

\* An id that Mirakl may give to the next import.
Free(i) == i \notin Queued /\ \A r \in Runs : run[r].import # i

NextId == CHOOSE i \in Imports : Free(i)

Fault == faults < MaxFaults /\ faults' = faults + 1 /\ disturbed' = TRUE

Become(r, new) == run' = [run EXCEPT ![r] = new]

\* The run no longer waits for its import, which Mirakl may still apply.
Abandon(r) ==
    import' = [i \in Imports |-> IF i = run[r].import
                                 THEN [import[i] EXCEPT !.waited = FALSE]
                                 ELSE import[i]]

-----------------------------------------------------------------------------
(* sync_stock: the PlentyONE side *)

\* The mappings are loaded.  Runs are not kept from overlapping.
SyncStock(r) ==
    /\ run[r].pc = "idle"
    /\ run' = [q \in Runs |->
                  IF q = r THEN [Idle EXCEPT !.pc = "read", !.todo = Skus,
                                             !.alone = Active = {}]
                           ELSE [run[q] EXCEPT !.alone = FALSE]]
    /\ import' = IF Active = {} THEN import
                 ELSE [i \in Imports |-> [import[i] EXCEPT !.waited = FALSE]]
    /\ disturbed' = (disturbed \/ Active # {})
    /\ UNCHANGED <<stock, shown, logged, faults>>

\* Mutant: an SKU that could not be read is pushed as sold out.
ReadFailsAsZero(r, k) ==
    /\ run[r].pc = "read"
    /\ k \in run[r].todo
    /\ Fault
    /\ Become(r, [run[r] EXCEPT !.todo = @ \ {k}, !.offers[k] = 0])
    /\ UNCHANGED <<stock, shown, import, logged>>

\* A failing request, or a token that has expired: the SKU is left out.
ReadFails(r, k) ==
    /\ run[r].pc = "read"
    /\ k \in run[r].todo
    /\ Fault
    /\ Become(r, [run[r] EXCEPT !.todo = @ \ {k}])
    /\ UNCHANGED <<stock, shown, import, logged>>

\* Mutant: a quantity the log already has is not pushed again.
GetPlentyStockIfChanged(r, k) ==
    /\ run[r].pc = "read"
    /\ k \in run[r].todo
    /\ Become(r, [run[r] EXCEPT !.todo = @ \ {k},
                               !.offers[k] = IF stock[k] = logged[k] THEN None
                                                                    ELSE stock[k]])
    /\ UNCHANGED <<stock, shown, import, logged, faults, disturbed>>

GetPlentyStock(r, k) ==
    /\ run[r].pc = "read"
    /\ k \in run[r].todo
    /\ Become(r, [run[r] EXCEPT !.todo = @ \ {k}, !.offers[k] = stock[k]])
    /\ UNCHANGED <<stock, shown, import, logged, faults, disturbed>>

\* Without any quantity there is nothing to push.
HaveRead(r) ==
    /\ run[r].pc = "read"
    /\ run[r].todo = {}
    /\ Become(r, IF run[r].offers = NoOffers THEN Idle
                                             ELSE [run[r] EXCEPT !.pc = "post"])
    /\ UNCHANGED <<stock, shown, import, logged, faults, disturbed>>

-----------------------------------------------------------------------------
(* update_offers: the Mirakl side *)

Queue(r, i, waited) ==
    import' = [import EXCEPT ![i] = [queued |-> TRUE, offers |-> run[r].offers,
                                     waited |-> waited]]

\* OF01
Post(r) ==
    /\ run[r].pc = "post"
    /\ \E i \in Imports : Free(i)
    /\ LET i == NextId
       IN /\ Queue(r, i, run[r].alone)
          /\ Become(r, [run[r] EXCEPT !.pc = "poll", !.import = i, !.polls = 0])
    /\ UNCHANGED <<stock, shown, logged, faults, disturbed>>

\* tenacity: the whole function again, or the exception.
TryAgain(r) ==
    Become(r, IF run[r].tries + 1 < MaxAttempts
              THEN [run[r] EXCEPT !.pc = "post", !.import = None, !.tries = @ + 1]
              ELSE Idle)

\* The request may have got through.
PostRaises(r) ==
    /\ run[r].pc = "post"
    /\ Fault
    /\ \/ UNCHANGED import
       \/ (\E i \in Imports : Free(i)) /\ Queue(r, NextId, FALSE)
    /\ TryAgain(r)
    /\ UNCHANGED <<stock, shown, logged>>

PollRaises(r) ==
    /\ run[r].pc = "poll"
    /\ Fault
    /\ Abandon(r)
    /\ TryAgain(r)
    /\ UNCHANGED <<stock, shown, logged>>

\* Mutant: the polls are not counted.
PollsForEver(r) ==
    /\ run[r].pc = "poll"
    /\ run[r].import \in Queued
    /\ Become(r, [run[r] EXCEPT !.polls = @ + 1])
    /\ UNCHANGED <<stock, shown, import, logged, faults, disturbed>>

\* Mutant: any answer of OF02 ends the polling.
FirstPollTaken(r) ==
    /\ run[r].pc = "poll"
    /\ run[r].import \in Queued
    /\ Become(r, [run[r] EXCEPT !.pc = "log", !.import = None])
    /\ UNCHANGED <<stock, shown, import, logged, faults, disturbed>>

StillQueued(r) ==
    /\ run[r].pc = "poll"
    /\ run[r].import \in Queued
    /\ run[r].polls + 1 < MaxPolls
    /\ Become(r, [run[r] EXCEPT !.polls = @ + 1])
    /\ UNCHANGED <<stock, shown, import, logged, faults, disturbed>>

\* The last poll: errors are reported for an import that may yet succeed.
PollsRunOut(r) ==
    /\ run[r].pc = "poll"
    /\ run[r].import \in Queued
    /\ run[r].polls + 1 = MaxPolls
    /\ disturbed' = TRUE
    /\ Abandon(r)
    /\ Become(r, [run[r] EXCEPT !.pc = "log", !.import = None])
    /\ UNCHANGED <<stock, shown, logged, faults>>

\* COMPLETE, or FAILED or CANCELED.
Answered(r) ==
    /\ run[r].pc = "poll"
    /\ run[r].import \notin Queued
    /\ Become(r, [run[r] EXCEPT !.pc = "log", !.import = None])
    /\ UNCHANGED <<stock, shown, import, logged, faults, disturbed>>

\* A row for every quantity sent, whatever became of it, and the commit.
LogPushes(r) ==
    /\ run[r].pc = "log"
    /\ logged' = [k \in Skus |-> IF run[r].offers[k] = None THEN logged[k]
                                                           ELSE run[r].offers[k]]
    /\ Become(r, Idle)
    /\ UNCHANGED <<stock, shown, import, faults, disturbed>>

\* The worker dies or the transaction of all connections is rolled back.
RunFails(r) ==
    /\ run[r].pc # "idle"
    /\ Fault
    /\ Abandon(r)
    /\ Become(r, Idle)
    /\ UNCHANGED <<stock, shown, logged>>

-----------------------------------------------------------------------------
(* Mirakl's imports, and the merchant *)

\* Imports are taken in any order; lines may be rejected.
Process(i, lines) ==
    /\ i \in Queued
    /\ lines \subseteq {k \in Skus : import[i].offers[k] # None}
    /\ shown' = [k \in Skus |-> IF k \in lines THEN import[i].offers[k] ELSE shown[k]]
    /\ import' = [import EXCEPT ![i] = NoImport]

Complete(i) ==
    /\ Process(i, {k \in Skus : import[i].offers[k] # None})
    /\ UNCHANGED <<stock, run, logged, faults, disturbed>>

Rejects(i) ==
    /\ Fault
    /\ \E lines \in SUBSET Skus : Process(i, lines)
    /\ UNCHANGED <<stock, run, logged>>

ImportFails(i) ==
    /\ i \in Queued
    /\ Fault
    /\ import' = [import EXCEPT ![i] = NoImport]
    /\ UNCHANGED <<stock, shown, run, logged>>

Sell(k) ==
    /\ stock[k] < MaxSales
    /\ stock' = [stock EXCEPT ![k] = @ + 1]
    /\ UNCHANGED <<shown, import, run, logged, faults, disturbed>>

-----------------------------------------------------------------------------
RunStep(r) ==
    \/ SyncStock(r)
    \/ \E k \in Skus : GetPlentyStock(r, k)
    \/ HaveRead(r)
    \/ Post(r)
    \/ StillQueued(r)
    \/ PollsRunOut(r)
    \/ Answered(r)
    \/ LogPushes(r)

Failure(r) ==
    \/ \E k \in Skus : ReadFails(r, k)
    \/ PostRaises(r)
    \/ PollRaises(r)
    \/ RunFails(r)

Next ==
    \/ \E r \in Runs : RunStep(r) \/ Failure(r)
    \/ \E i \in Imports : Complete(i) \/ Rejects(i) \/ ImportFails(i)
    \/ \E k \in Skus : Sell(k)

Spec == Init /\ [][Next]_vars

\* The schedule starts runs for ever, runs go on, and Mirakl works its queue.
Fairness ==
    /\ \A r \in Runs : WF_vars(RunStep(r))
    /\ \A i \in Imports : WF_vars(Complete(i))

FairSpec == Spec /\ Fairness

-----------------------------------------------------------------------------
(* Properties *)

\* Mirakl goes back to an older quantity only by an import that its run has
\* given up or that met another run: the last quantity read wins otherwise,
\* whatever imports earlier runs have left behind (mirakl_client.py:319).
NoStepBack ==
    [][\A i \in Imports :
          i \in Queued /\ i \notin Queued' /\ import[i].waited
          => \A k \in Skus : shown'[k] >= shown[k]]_vars

\* As long as nothing fails, times out or overlaps, a run leaves the log and
\* the marketplace in agreement (inventory_service.py:78).
LogAgrees ==
    ~disturbed /\ Active = {} =>
        \A k \in Skus : logged[k] # None => logged[k] = shown[k]

\* Once stock and failures have come to an end, Mirakl shows the stock and
\* stays with it, in spite of overlaps, timeouts and abandoned imports.
StockConverges == <>[](shown = stock)

=============================================================================
