--------------------------- MODULE InventoryProofs ---------------------------
(***************************************************************************)
(* Proofs about Inventory: its types, and that Mirakl goes back to an      *)
(* older quantity only by an import nobody waits for.  The argument: a     *)
(* run that is alone reads quantities that are at least as new as all that *)
(* Mirakl shows and all that is queued there, and while it is alone nobody *)
(* else posts anything.                                                    *)
(***************************************************************************)
EXTENDS Inventory, TLAPS

\* A quantity is not older than another one, which need not be there.
NotOlder(q, other) == other # None => q >= other

\* Nothing is newer than the stock.
StockLeads ==
    \A k \in Skus :
        /\ stock[k] >= shown[k]
        /\ \A i \in Queued : NotOlder(stock[k], import[i].offers[k])
        /\ \A r \in Runs : NotOlder(stock[k], run[r].offers[k])

AloneIsAlone == \A r, q \in Runs : run[r].alone /\ q \in Active => q = r

\* What a run alone has read is not older than anything at Mirakl.
AloneLeads ==
    \A r \in Runs, k \in Skus :
        run[r].alone /\ run[r].offers[k] # None =>
            /\ run[r].offers[k] >= shown[k]
            /\ \A i \in Queued : NotOlder(run[r].offers[k], import[i].offers[k])

\* The run that waits for an import is alone and has posted it.
WaitedIsPolled ==
    \A i \in Queued : import[i].waited =>
        \E r \in Runs : /\ run[r].pc = "poll"
                        /\ run[r].alone
                        /\ run[r].import = i
                        /\ run[r].offers = import[i].offers

Truths == StockLeads /\ AloneIsAlone /\ AloneLeads /\ WaitedIsPolled

IInv == TypeOK /\ Truths

-----------------------------------------------------------------------------
(* Types *)

LEMMA Constants ==
    /\ MaxAttempts \in Nat \ {0} /\ MaxPolls \in Nat \ {0}
    /\ MaxSales \in Nat /\ MaxFaults \in Nat
    /\ None \notin Quantity /\ None \notin Imports /\ Quantity \subseteq Nat
  BY InventoryAssumption DEF Quantity

LEMMA IdleType == Idle \in Run /\ NoImport \in Import
  BY Constants DEF Idle, Run, NoImport, Import, NoOffers, Offers

LEMMA FieldTypes ==
    ASSUME TypeOK, NEW r \in Runs
    PROVE  /\ run[r] \in Run
           /\ run[r].todo \in SUBSET Skus
           /\ run[r].offers \in Offers
           /\ run[r].import \in Imports \cup {None}
           /\ run[r].tries \in 0 .. MaxAttempts
           /\ run[r].polls \in 0 .. MaxPolls
           /\ run[r].alone \in BOOLEAN
  BY DEF TypeOK, Run

LEMMA NextIdFree ==
    ASSUME \E i \in Imports : Free(i)
    PROVE  NextId \in Imports /\ Free(NextId)
  BY DEF NextId

LEMMA FaultType ==
    ASSUME TypeOK, Fault
    PROVE  faults' \in 0 .. MaxFaults /\ disturbed' \in BOOLEAN
  BY Constants DEF TypeOK, Fault

LEMMA AbandonType ==
    ASSUME TypeOK, NEW r \in Runs, Abandon(r)
    PROVE  import' \in [Imports -> Import]
  BY DEF TypeOK, Abandon, Import

LEMMA QueueType ==
    ASSUME TypeOK, NEW r \in Runs, NEW i \in Imports, NEW w \in BOOLEAN,
           Queue(r, i, w)
    PROVE  import' \in [Imports -> Import]
  <1>1. [queued |-> TRUE, offers |-> run[r].offers, waited |-> w] \in Import
    BY FieldTypes DEF Import
  <1> QED
    BY <1>1 DEF TypeOK, Queue

LEMMA BecomeType ==
    ASSUME TypeOK, NEW r \in Runs, NEW new \in Run, Become(r, new)
    PROVE  run' \in [Runs -> Run]
  BY DEF TypeOK, Become

LEMMA TryAgainType ==
    ASSUME TypeOK, NEW r \in Runs, TryAgain(r)
    PROVE  run' \in [Runs -> Run]
  <1>1. CASE run[r].tries + 1 < MaxAttempts
    <2>1. run[r].tries + 1 \in 0 .. MaxAttempts
      BY <1>1, FieldTypes, Constants
    <2>2. [run[r] EXCEPT !.pc = "post", !.import = None, !.tries = @ + 1] \in Run
      BY <2>1, FieldTypes DEF Run
    <2> QED
      BY <1>1, <2>2, BecomeType DEF TryAgain
  <1>2. CASE ~(run[r].tries + 1 < MaxAttempts)
    BY <1>2, IdleType, BecomeType DEF TryAgain
  <1> QED
    BY <1>1, <1>2

LEMMA ProcessType ==
    ASSUME TypeOK, NEW i \in Imports, NEW lines, Process(i, lines)
    PROVE  shown' \in [Skus -> Quantity] /\ import' \in [Imports -> Import]
  <1>1. ASSUME NEW k \in lines
        PROVE  import[i].offers[k] \in Quantity
    <2>1. k \in Skus /\ import[i].offers[k] # None
      BY DEF Process
    <2>2. import[i].offers \in Offers
      BY DEF TypeOK, Import
    <2> QED
      BY <2>1, <2>2 DEF Offers
  <1>2. shown' \in [Skus -> Quantity]
    BY <1>1 DEF TypeOK, Process
  <1>3. import' \in [Imports -> Import]
    BY IdleType DEF TypeOK, Process
  <1> QED
    BY <1>2, <1>3

LEMMA ReadTypes ==
    ASSUME TypeOK, NEW r \in Runs,
           \/ SyncStock(r)
           \/ \E k \in Skus : GetPlentyStock(r, k) \/ ReadFails(r, k)
           \/ HaveRead(r)
    PROVE  TypeOK'
  <1>1. CASE SyncStock(r)
    <2>1. [Idle EXCEPT !.pc = "read", !.todo = Skus, !.alone = Active = {}] \in Run
      BY IdleType DEF Run, Idle
    <2>2. \A q \in Runs : [run[q] EXCEPT !.alone = FALSE] \in Run
      BY FieldTypes DEF Run
    <2>3. run' \in [Runs -> Run]
      BY <1>1, <2>1, <2>2 DEF SyncStock
    <2>4. import' \in [Imports -> Import]
      BY <1>1 DEF SyncStock, TypeOK, Import
    <2>5. disturbed' \in BOOLEAN
      BY <1>1 DEF SyncStock, TypeOK
    <2> QED
      BY <1>1, <2>3, <2>4, <2>5 DEF SyncStock, TypeOK
  <1>2. ASSUME NEW k \in Skus, GetPlentyStock(r, k)
        PROVE  TypeOK'
    <2>1. stock[k] \in Quantity
      BY DEF TypeOK
    <2>2. [run[r].offers EXCEPT ![k] = stock[k]] \in Offers
      BY <2>1, FieldTypes DEF Offers
    <2>3. [run[r] EXCEPT !.todo = @ \ {k}, !.offers[k] = stock[k]] \in Run
      BY <2>2, FieldTypes DEF Run
    <2>4. run' \in [Runs -> Run]
      BY <1>2, <2>3, BecomeType DEF GetPlentyStock
    <2> QED
      BY <1>2, <2>4 DEF GetPlentyStock, TypeOK
  <1>3. ASSUME NEW k \in Skus, ReadFails(r, k)
        PROVE  TypeOK'
    <2>1. [run[r] EXCEPT !.todo = @ \ {k}] \in Run
      BY FieldTypes DEF Run
    <2>2. run' \in [Runs -> Run]
      BY <1>3, <2>1, BecomeType DEF ReadFails
    <2> QED
      BY <1>3, <2>2, FaultType DEF ReadFails, TypeOK
  <1>4. CASE HaveRead(r)
    <2>1. [run[r] EXCEPT !.pc = "post"] \in Run
      BY FieldTypes DEF Run
    <2>2. run' \in [Runs -> Run]
      BY <1>4, <2>1, IdleType, BecomeType DEF HaveRead
    <2> QED
      BY <1>4, <2>2 DEF HaveRead, TypeOK
  <1> QED
    BY <1>1, <1>2, <1>3, <1>4

LEMMA PushTypes ==
    ASSUME TypeOK, NEW r \in Runs,
           Post(r) \/ StillQueued(r) \/ PollsRunOut(r) \/ Answered(r)
    PROVE  TypeOK'
  <1>1. CASE Post(r)
    <2>1. NextId \in Imports
      BY <1>1, NextIdFree DEF Post
    <2>2. import' \in [Imports -> Import]
      BY <1>1, <2>1, FieldTypes, QueueType DEF Post
    <2>3. 0 \in 0 .. MaxPolls
      BY Constants
    <2>4. \A i \in Imports :
             [run[r] EXCEPT !.pc = "poll", !.import = i, !.polls = 0] \in Run
      BY <2>3, FieldTypes DEF Run
    <2>5. run' \in [Runs -> Run]
      BY <1>1, <2>1, <2>4, BecomeType DEF Post
    <2> QED
      BY <1>1, <2>2, <2>5 DEF Post, TypeOK
  <1>2. CASE StillQueued(r)
    <2>1. run[r].polls + 1 \in 0 .. MaxPolls
      BY <1>2, FieldTypes, Constants DEF StillQueued
    <2>2. [run[r] EXCEPT !.polls = @ + 1] \in Run
      BY <2>1, FieldTypes DEF Run
    <2>3. run' \in [Runs -> Run]
      BY <1>2, <2>2, BecomeType DEF StillQueued
    <2> QED
      BY <1>2, <2>3 DEF StillQueued, TypeOK
  <1>3. CASE PollsRunOut(r) \/ Answered(r)
    <2>1. [run[r] EXCEPT !.pc = "log", !.import = None] \in Run
      BY FieldTypes DEF Run
    <2>2. run' \in [Runs -> Run]
      BY <1>3, <2>1, BecomeType DEF PollsRunOut, Answered
    <2>3. import' \in [Imports -> Import]
      BY <1>3, AbandonType DEF PollsRunOut, Answered, TypeOK
    <2> QED
      BY <1>3, <2>2, <2>3 DEF PollsRunOut, Answered, TypeOK
  <1> QED
    BY <1>1, <1>2, <1>3

LEMMA EndTypes ==
    ASSUME TypeOK, NEW r \in Runs,
           LogPushes(r) \/ PostRaises(r) \/ PollRaises(r) \/ RunFails(r)
    PROVE  TypeOK'
  <1>1. CASE LogPushes(r)
    <2>1. logged' \in Offers
      BY <1>1, FieldTypes DEF LogPushes, TypeOK, Offers
    <2>2. run' \in [Runs -> Run]
      BY <1>1, IdleType, BecomeType DEF LogPushes
    <2> QED
      BY <1>1, <2>1, <2>2 DEF LogPushes, TypeOK
  <1>2. CASE PostRaises(r)
    <2>1. import' \in [Imports -> Import]
      BY <1>2, NextIdFree, QueueType DEF PostRaises, TypeOK
    <2> QED
      BY <1>2, <2>1, FaultType, TryAgainType DEF PostRaises, TypeOK
  <1>3. CASE PollRaises(r)
    BY <1>3, AbandonType, FaultType, TryAgainType DEF PollRaises, TypeOK
  <1>4. CASE RunFails(r)
    <2>1. run' \in [Runs -> Run]
      BY <1>4, IdleType, BecomeType DEF RunFails
    <2> QED
      BY <1>4, <2>1, AbandonType, FaultType DEF RunFails, TypeOK
  <1> QED
    BY <1>1, <1>2, <1>3, <1>4

LEMMA WorldTypes ==
    ASSUME TypeOK,
           \/ \E i \in Imports : Complete(i) \/ Rejects(i) \/ ImportFails(i)
           \/ \E k \in Skus : Sell(k)
    PROVE  TypeOK'
  <1>1. ASSUME NEW i \in Imports, Complete(i)
        PROVE  TypeOK'
    BY <1>1, ProcessType DEF Complete, TypeOK
  <1>2. ASSUME NEW i \in Imports, Rejects(i)
        PROVE  TypeOK'
    BY <1>2, ProcessType, FaultType DEF Rejects, TypeOK
  <1>3. ASSUME NEW i \in Imports, ImportFails(i)
        PROVE  TypeOK'
    BY <1>3, IdleType, FaultType DEF ImportFails, TypeOK
  <1>4. ASSUME NEW k \in Skus, Sell(k)
        PROVE  TypeOK'
    <2>1. stock[k] + 1 \in Quantity
      BY <1>4, Constants DEF Sell, TypeOK, Quantity
    <2> QED
      BY <1>4, <2>1 DEF Sell, TypeOK
  <1> QED
    BY <1>1, <1>2, <1>3, <1>4

LEMMA TypeNext ==
    ASSUME TypeOK, [Next]_vars
    PROVE  TypeOK'
  <1>1. CASE UNCHANGED vars
    BY <1>1 DEF TypeOK, vars
  <1>2. CASE Next
    BY <1>2, ReadTypes, PushTypes, EndTypes, WorldTypes DEF Next, RunStep, Failure
  <1> QED
    BY <1>1, <1>2

LEMMA TypeInit ==
    ASSUME Init
    PROVE  TypeOK
  <1>1. 0 \in Quantity /\ 0 \in 0 .. MaxFaults
    BY Constants DEF Quantity
  <1>2. NoOffers \in Offers
    BY DEF NoOffers, Offers
  <1> QED
    BY <1>1, <1>2, IdleType DEF Init, TypeOK

-----------------------------------------------------------------------------
(* The invariant *)

\* What the steps of a run do to Mirakl's imports.
ImportsStay(i) == import'[i].queued = import[i].queued
                  /\ import'[i].offers = import[i].offers

LEMMA Quantities ==
    ASSUME TypeOK, NEW k \in Skus
    PROVE  /\ stock[k] \in Nat /\ shown[k] \in Nat
           /\ \A i \in Imports : import[i].offers[k] \in Nat \cup {None}
           /\ \A r \in Runs : run[r].offers[k] \in Nat \cup {None}
           /\ None \notin Nat
  <1>1. \A i \in Imports : import[i].offers \in Offers
    BY DEF TypeOK, Import
  <1>2. \A r \in Runs : run[r].offers \in Offers
    BY FieldTypes
  <1> QED
    BY <1>1, <1>2, Constants, InventoryAssumption DEF TypeOK, Offers

LEMMA TruthsInit ==
    ASSUME Init
    PROVE  Truths
  <1>1. \A r \in Runs : run[r] = Idle
    BY DEF Init
  <1>2. Queued = {}
    BY DEF Init, Queued, NoImport
  <1>3. StockLeads
    BY <1>1, <1>2 DEF Init, StockLeads, NotOlder, Idle, NoOffers
  <1>4. \A r \in Runs : ~run[r].alone
    BY <1>1 DEF Idle
  <1> QED
    BY <1>2, <1>3, <1>4 DEF Truths, AloneIsAlone, AloneLeads, WaitedIsPolled

\* A run starts: the others are no longer alone, and it has read nothing.
LEMMA SyncStockTruths ==
    ASSUME TypeOK, Truths, NEW r \in Runs, SyncStock(r)
    PROVE  Truths'
  <1>1. /\ run'[r].offers = NoOffers
        /\ run'[r].pc = "read"
        /\ run'[r].alone = (Active = {})
    BY DEF SyncStock, TypeOK, Idle
  <1>2. \A q \in Runs \ {r} : /\ ~run'[q].alone
                              /\ run'[q].pc = run[q].pc
                              /\ run'[q].offers = run[q].offers
    BY FieldTypes DEF SyncStock, TypeOK, Run
  <1>3. \A i \in Imports : ImportsStay(i)
    BY DEF SyncStock, TypeOK, Import, ImportsStay
  <1>4. Queued' = Queued
    BY <1>3 DEF Queued, ImportsStay
  <1>5. UNCHANGED <<stock, shown>>
    BY DEF SyncStock
  <1>6. StockLeads'
    BY <1>1, <1>2, <1>3, <1>4, <1>5
       DEF Truths, StockLeads, NotOlder, ImportsStay, NoOffers, Queued
  <1>7. AloneIsAlone'
    BY <1>1, <1>2 DEF AloneIsAlone, Active
  <1>8. AloneLeads'
    BY <1>1, <1>2 DEF AloneLeads, NoOffers
  <1>9. \A i \in Queued' : ~import'[i].waited
    <2>1. CASE Active = {}
      <3>1. import' = import /\ \A q \in Runs : run[q].pc = "idle"
        BY <2>1 DEF SyncStock, Active
      <3> QED
        BY <1>4, <3>1 DEF Truths, WaitedIsPolled
    <2>2. CASE Active # {}
      BY <2>2 DEF SyncStock, TypeOK, Import, Queued
    <2> QED
      BY <2>1, <2>2
  <1> QED
    BY <1>6, <1>7, <1>8, <1>9 DEF Truths, WaitedIsPolled

\* A run goes on without reading or posting, or ends.
QuietStep(r) ==
    /\ UNCHANGED <<stock, shown>>
    /\ \A q \in Runs \ {r} : run'[q] = run[q]
    /\ run'[r].pc # "idle" => run[r].pc # "idle"
    /\ run'[r].alone => run[r].alone
    /\ run'[r].offers \in {run[r].offers, NoOffers}
    /\ \A i \in Imports : ImportsStay(i) /\ (import'[i].waited => import[i].waited)
    /\ \A i \in Imports :
          import'[i].waited /\ import[i].queued /\ run[r].pc = "poll" /\ run[r].import = i
          => /\ run'[r].pc = "poll" /\ run'[r].import = i
             /\ run'[r].alone = run[r].alone /\ run'[r].offers = run[r].offers

LEMMA QuietTruths ==
    ASSUME TypeOK, Truths, NEW r \in Runs, QuietStep(r)
    PROVE  Truths'
  <1>1. Queued' = Queued
    BY DEF QuietStep, Queued, ImportsStay
  <1>2. \A q \in Runs : /\ q \in Active' => q \in Active
                        /\ run'[q].alone => run[q].alone
    BY DEF QuietStep, Active
  <1>3. \A q \in Runs, k \in Skus :
           run'[q].offers[k] # None => run'[q].offers[k] = run[q].offers[k]
    BY DEF QuietStep, NoOffers
  <1>4. \A i \in Queued : import'[i].offers = import[i].offers
    BY DEF QuietStep, ImportsStay, Queued
  <1>5. StockLeads'
    BY <1>1, <1>3, <1>4 DEF Truths, StockLeads, NotOlder, QuietStep
  <1>6. AloneIsAlone'
    BY <1>2 DEF Truths, AloneIsAlone, Active
  <1>7. AloneLeads'
    BY <1>1, <1>2, <1>3, <1>4 DEF Truths, AloneLeads, NotOlder, QuietStep
  <1>8. WaitedIsPolled'
    <2>1. SUFFICES ASSUME NEW i \in Queued, import'[i].waited
                   PROVE  \E q \in Runs : /\ run'[q].pc = "poll"
                                          /\ run'[q].alone
                                          /\ run'[q].import = i
                                          /\ run'[q].offers = import'[i].offers
      BY <1>1 DEF WaitedIsPolled
    <2>2. i \in Imports /\ import[i].queued /\ import[i].waited
      BY <2>1 DEF QuietStep, Queued
    <2>3. PICK q \in Runs : /\ run[q].pc = "poll"
                            /\ run[q].alone
                            /\ run[q].import = i
                            /\ run[q].offers = import[i].offers
      BY <2>2 DEF Truths, WaitedIsPolled
    <2>4. CASE q = r
      BY <1>4, <2>1, <2>2, <2>3, <2>4 DEF QuietStep
    <2>5. CASE q # r
      BY <1>4, <2>3, <2>5 DEF QuietStep
    <2> QED
      BY <2>4, <2>5
  <1> QED
    BY <1>5, <1>6, <1>7, <1>8 DEF Truths

LEMMA TryAgainQuiet ==
    ASSUME TypeOK, NEW r \in Runs, TryAgain(r)
    PROVE  /\ \A q \in Runs \ {r} : run'[q] = run[q]
           /\ run'[r].alone => run[r].alone /\ run'[r].offers = run[r].offers
           /\ run'[r].offers \in {run[r].offers, NoOffers}
  BY FieldTypes DEF TryAgain, Become, TypeOK, Run, Idle

LEMMA AbandonQuiet ==
    ASSUME TypeOK, NEW r \in Runs, Abandon(r), NEW i \in Imports
    PROVE  /\ ImportsStay(i) /\ (import'[i].waited => import[i].waited)
           /\ run[r].import = i => ~import'[i].waited
  BY DEF Abandon, TypeOK, Import, ImportsStay

LEMMA QuietSteps ==
    ASSUME TypeOK, NEW r \in Runs,
           \/ \E k \in Skus : ReadFails(r, k)
           \/ HaveRead(r) \/ StillQueued(r) \/ PollsRunOut(r) \/ Answered(r)
           \/ LogPushes(r) \/ PollRaises(r) \/ RunFails(r)
    PROVE  QuietStep(r)
  <1>1. CASE \E k \in Skus : ReadFails(r, k)
    BY <1>1, FieldTypes DEF ReadFails, Become, TypeOK, Run, QuietStep, ImportsStay
  <1>2. CASE HaveRead(r)
    BY <1>2, FieldTypes DEF HaveRead, Become, TypeOK, Run, QuietStep, ImportsStay, Idle
  <1>3. CASE StillQueued(r)
    BY <1>3, FieldTypes DEF StillQueued, Become, TypeOK, Run, QuietStep, ImportsStay
  <1>4. CASE PollsRunOut(r)
    BY <1>4, FieldTypes, AbandonQuiet
       DEF PollsRunOut, Become, TypeOK, Run, QuietStep, ImportsStay
  <1>5. CASE Answered(r)
    BY <1>5, FieldTypes DEF Answered, Become, TypeOK, Run, QuietStep, ImportsStay, Queued
  <1>6. CASE LogPushes(r)
    BY <1>6, FieldTypes DEF LogPushes, Become, TypeOK, Run, QuietStep, ImportsStay, Idle
  <1>7. CASE PollRaises(r)
    BY <1>7, FieldTypes, AbandonQuiet, TryAgainQuiet
       DEF PollRaises, TypeOK, Run, QuietStep, ImportsStay
  <1>8. CASE RunFails(r)
    BY <1>8, FieldTypes, AbandonQuiet
       DEF RunFails, Become, TypeOK, Run, QuietStep, ImportsStay, Idle
  <1> QED
    BY <1>1, <1>2, <1>3, <1>4, <1>5, <1>6, <1>7, <1>8

\* What is read is the stock of now.
LEMMA ReadTruths ==
    ASSUME TypeOK, Truths, NEW r \in Runs, NEW k \in Skus, GetPlentyStock(r, k)
    PROVE  Truths'
  <1>1. /\ run'[r].offers = [run[r].offers EXCEPT ![k] = stock[k]]
        /\ run'[r].alone = run[r].alone
        /\ run'[r].pc = "read" /\ run[r].pc = "read"
        /\ \A q \in Runs \ {r} : run'[q] = run[q]
        /\ UNCHANGED <<stock, shown, import>>
    BY FieldTypes DEF GetPlentyStock, Become, TypeOK, Run
  <1>2. Queued' = Queued
    BY <1>1 DEF Queued
  <1>3. /\ run'[r].offers[k] = stock[k]
        /\ \A l \in Skus \ {k} : run'[r].offers[l] = run[r].offers[l]
    BY <1>1, FieldTypes DEF Offers
  <1>4. stock[k] >= stock[k]
    BY Quantities
  <1>5. StockLeads'
    BY <1>1, <1>2, <1>3, <1>4 DEF Truths, StockLeads, NotOlder
  <1>6. AloneIsAlone'
    BY <1>1 DEF Truths, AloneIsAlone, Active
  <1>7. AloneLeads'
    <2>1. SUFFICES ASSUME NEW q \in Runs, NEW l \in Skus,
                          run'[q].alone, run'[q].offers[l] # None
                   PROVE  /\ run'[q].offers[l] >= shown[l]
                          /\ \A i \in Queued : NotOlder(run'[q].offers[l], import[i].offers[l])
      BY <1>1, <1>2 DEF AloneLeads, NotOlder
    <2>2. CASE q = r /\ l = k
      BY <1>3, <2>2 DEF Truths, StockLeads
    <2>3. CASE ~(q = r /\ l = k)
      <3>1. run[q].alone /\ run'[q].offers[l] = run[q].offers[l]
        BY <1>1, <1>3, <2>1, <2>3
      <3> QED
        BY <2>1, <3>1 DEF Truths, AloneLeads
    <2> QED
      BY <2>2, <2>3
  <1>8. WaitedIsPolled'
    BY <1>1, <1>2 DEF Truths, WaitedIsPolled
  <1> QED
    BY <1>5, <1>6, <1>7, <1>8 DEF Truths

\* An import is posted and, if `w', waited for.
PostingStep(r, i, w) ==
    /\ UNCHANGED <<stock, shown>>
    /\ run[r].pc = "post"
    /\ Free(i)
    /\ Queue(r, i, w)
    /\ \A q \in Runs \ {r} : run'[q] = run[q]
    /\ run'[r].alone => run[r].alone
    /\ run'[r].offers \in {run[r].offers, NoOffers}
    /\ w => /\ run'[r].pc = "poll" /\ run'[r].import = i /\ run'[r].alone
            /\ run'[r].offers = run[r].offers

LEMMA PostingTruths ==
    ASSUME TypeOK, Truths, NEW r \in Runs, NEW i \in Imports, NEW w \in BOOLEAN,
           PostingStep(r, i, w)
    PROVE  Truths'
  <1>1. /\ import'[i].offers = run[r].offers /\ import'[i].waited = w
        /\ \A j \in Imports \ {i} : import'[j] = import[j]
    BY DEF PostingStep, Queue, TypeOK
  <1>2. \A j \in Queued' : j # i => j \in Queued
    BY <1>1 DEF Queued
  <1>3. \A q \in Runs, k \in Skus :
           run'[q].offers[k] # None => run'[q].offers[k] = run[q].offers[k]
    BY DEF PostingStep, NoOffers
  <1>4. \A q \in Runs : run'[q].alone => run[q].alone
    BY DEF PostingStep
  <1>5. r \in Active
    BY DEF PostingStep, Active
  <1>6. \A q \in Runs : run[q].alone => q = r
    BY <1>5 DEF Truths, AloneIsAlone
  <1>7. \A q \in Active' : q \in Active
    BY <1>5 DEF PostingStep, Active
  <1>8. UNCHANGED <<stock, shown>>
    BY DEF PostingStep
  <1>9. \A j \in Queued' : \/ import'[j].offers = run[r].offers
                           \/ j \in Queued /\ import'[j].offers = import[j].offers
    BY <1>1, <1>2 DEF Queued
  <1>10. StockLeads'
    BY <1>3, <1>8, <1>9 DEF Truths, StockLeads, NotOlder
  <1>11. AloneIsAlone'
    BY <1>4, <1>7 DEF Truths, AloneIsAlone
  <1>12. AloneLeads'
    <2>1. SUFFICES ASSUME NEW q \in Runs, NEW k \in Skus, run'[q].alone,
                          run'[q].offers[k] # None
                   PROVE  /\ run'[q].offers[k] >= shown[k]
                          /\ \A j \in Queued' :
                                NotOlder(run'[q].offers[k], import'[j].offers[k])
      BY <1>8 DEF AloneLeads, NotOlder
    <2>2. q = r /\ run[r].alone /\ run'[q].offers[k] = run[r].offers[k]
      BY <1>3, <1>4, <1>6, <2>1
    <2>3. run[r].offers[k] >= run[r].offers[k]
      BY <2>1, <2>2, Quantities
    <2> QED
      BY <1>9, <2>1, <2>2, <2>3 DEF Truths, AloneLeads, NotOlder
  <1>13. WaitedIsPolled'
    <2>1. SUFFICES ASSUME NEW j \in Queued', import'[j].waited
                   PROVE  \E q \in Runs : /\ run'[q].pc = "poll"
                                          /\ run'[q].alone
                                          /\ run'[q].import = j
                                          /\ run'[q].offers = import'[j].offers
      BY DEF WaitedIsPolled
    <2>2. CASE j # i
      <3>1. j \in Queued /\ import[j].waited
        BY <1>1, <1>2, <2>1, <2>2 DEF Queued
      <3>2. PICK q \in Runs : run[q].pc = "poll" /\ run[q].alone
        BY <3>1 DEF Truths, WaitedIsPolled
      <3> QED
        BY <1>6, <3>2 DEF PostingStep
    <2>3. CASE j = i
      BY <1>1, <2>1, <2>3 DEF PostingStep
    <2> QED
      BY <2>2, <2>3
  <1> QED
    BY <1>10, <1>11, <1>12, <1>13 DEF Truths

LEMMA PostTruths ==
    ASSUME TypeOK, Truths, NEW r \in Runs, Post(r)
    PROVE  Truths'
  <1>1. NextId \in Imports /\ Free(NextId)
    BY NextIdFree DEF Post
  <1>2. ASSUME NEW i \in Imports, i = NextId
        PROVE  PostingStep(r, i, run[r].alone)
    BY <1>1, <1>2, FieldTypes DEF Post, Become, TypeOK, Run, PostingStep
  <1> QED
    BY <1>1, <1>2, FieldTypes, PostingTruths

LEMMA PostRaisesTruths ==
    ASSUME TypeOK, Truths, NEW r \in Runs, PostRaises(r)
    PROVE  Truths'
  <1>1. CASE UNCHANGED import
    <2>1. QuietStep(r)
      BY <1>1, TryAgainQuiet, FieldTypes
         DEF PostRaises, QuietStep, ImportsStay
    <2> QED
      BY <2>1, QuietTruths
  <1>2. CASE (\E i \in Imports : Free(i)) /\ Queue(r, NextId, FALSE)
    <2>1. NextId \in Imports /\ Free(NextId)
      BY <1>2, NextIdFree
    <2>2. ASSUME NEW i \in Imports, i = NextId
          PROVE  PostingStep(r, i, FALSE)
      BY <1>2, <2>1, <2>2, TryAgainQuiet DEF PostRaises, PostingStep
    <2> QED
      BY <2>1, <2>2, PostingTruths
  <1> QED
    BY <1>1, <1>2 DEF PostRaises

\* Mirakl takes an import, or drops it.
LEMMA TakenTruths ==
    ASSUME TypeOK, Truths, NEW i \in Imports, NEW lines \in SUBSET Skus,
           i \in Queued, UNCHANGED <<stock, run>>,
           \A k \in lines : import[i].offers[k] # None,
           shown' = [k \in Skus |-> IF k \in lines THEN import[i].offers[k]
                                                   ELSE shown[k]],
           import' = [import EXCEPT ![i] = NoImport]
    PROVE  Truths'
  <1>1. /\ \A j \in Queued' : j \in Queued /\ import'[j] = import[j]
        /\ i \notin Queued'
    BY DEF TypeOK, Queued, NoImport
  <1>2. \A k \in Skus : \/ shown'[k] = shown[k]
                        \/ k \in lines /\ shown'[k] = import[i].offers[k]
    OBVIOUS
  <1>3. StockLeads'
    BY <1>1, <1>2 DEF Truths, StockLeads, NotOlder
  <1>4. AloneIsAlone'
    BY DEF Truths, AloneIsAlone, Active
  <1>5. AloneLeads'
    BY <1>1, <1>2 DEF Truths, AloneLeads, NotOlder
  <1>6. WaitedIsPolled'
    BY <1>1 DEF Truths, WaitedIsPolled
  <1> QED
    BY <1>3, <1>4, <1>5, <1>6 DEF Truths

LEMMA ImportTruths ==
    ASSUME TypeOK, Truths, NEW i \in Imports,
           Complete(i) \/ Rejects(i) \/ ImportFails(i)
    PROVE  Truths'
  <1>1. CASE Complete(i)
    <2>1. {k \in Skus : import[i].offers[k] # None} \in SUBSET Skus
      OBVIOUS
    <2> QED
      BY <1>1, <2>1, TakenTruths DEF Complete, Process
  <1>2. CASE Rejects(i)
    BY <1>2, TakenTruths DEF Rejects, Process
  <1>3. CASE ImportFails(i)
    <2>1. shown' = [k \in Skus |-> IF k \in {} THEN import[i].offers[k] ELSE shown[k]]
      BY <1>3 DEF ImportFails, TypeOK
    <2>2. {} \in SUBSET Skus
      OBVIOUS
    <2> QED
      BY <1>3, <2>1, <2>2, TakenTruths DEF ImportFails
  <1> QED
    BY <1>1, <1>2, <1>3

LEMMA SellTruths ==
    ASSUME TypeOK, Truths, NEW k \in Skus, Sell(k)
    PROVE  Truths'
  <1>1. /\ \A l \in Skus : stock'[l] = IF l = k THEN stock[l] + 1 ELSE stock[l]
        /\ UNCHANGED <<shown, import, run>>
    BY DEF Sell, TypeOK
  <1>2. Queued' = Queued /\ Active' = Active
    BY <1>1 DEF Queued, Active
  <1>3. StockLeads'
    <2>1. ASSUME NEW l \in Skus
          PROVE  /\ stock'[l] >= shown[l]
                 /\ \A i \in Queued : NotOlder(stock'[l], import[i].offers[l])
                 /\ \A r \in Runs : NotOlder(stock'[l], run[r].offers[l])
      BY <1>1, Quantities DEF Truths, StockLeads, NotOlder, Queued
    <2> QED
      BY <1>1, <1>2, <2>1 DEF StockLeads, NotOlder
  <1>4. AloneIsAlone' /\ AloneLeads' /\ WaitedIsPolled'
    BY <1>1, <1>2 DEF Truths, AloneIsAlone, AloneLeads, WaitedIsPolled, NotOlder
  <1> QED
    BY <1>3, <1>4 DEF Truths

LEMMA TruthsNext ==
    ASSUME TypeOK, Truths, [Next]_vars
    PROVE  Truths'
  <1>1. CASE UNCHANGED vars
    BY <1>1 DEF vars, Truths, StockLeads, AloneIsAlone, AloneLeads,
                WaitedIsPolled, Queued, Active, NotOlder
  <1>2. ASSUME NEW r \in Runs, RunStep(r) \/ Failure(r)
        PROVE  Truths'
    BY <1>2, SyncStockTruths, ReadTruths, QuietSteps, QuietTruths, PostTruths,
       PostRaisesTruths DEF RunStep, Failure
  <1> QED
    BY <1>1, <1>2, ImportTruths, SellTruths DEF Next

-----------------------------------------------------------------------------
(* The log *)

AgreesOn(k) == logged[k] # None => logged[k] = shown[k]

\* The run's import is out of Mirakl's queue, its quantities not yet logged.
Taken(r) ==
    run[r].pc = "log" \/ (run[r].pc = "poll" /\ run[r].import \notin Queued)

\* As long as nothing has gone wrong, there is one run at a time, which waits
\* for its import; between the import's end and the log's row Mirakl shows what
\* the run has sent, and at all other times what the log has.
LogTrue ==
    ~disturbed =>
        /\ \A r \in Active : run[r].alone
        /\ \A i \in Queued : import[i].waited
        /\ (\A r \in Runs : ~Taken(r)) => \A k \in Skus : AgreesOn(k)
        /\ \A r \in Runs : Taken(r) =>
              \A k \in Skus : \/ run[r].offers[k] = None /\ AgreesOn(k)
                              \/ shown[k] = run[r].offers[k]

LEMMA LogInit ==
    ASSUME Init
    PROVE  LogTrue
  BY DEF Init, LogTrue, Active, Queued, Taken, Idle, NoImport, NoOffers, AgreesOn

\* Steps that leave Mirakl and the log alone, and do not end a poll.
LEMMA LogReads ==
    ASSUME TypeOK, LogTrue, NEW r \in Runs,
           SyncStock(r) \/ (\E k \in Skus : GetPlentyStock(r, k)) \/ HaveRead(r)
    PROVE  LogTrue'
  <1>1. SUFFICES ASSUME ~disturbed'
                 PROVE  LogTrue'
    BY DEF LogTrue
  <1>2. /\ ~disturbed
        /\ UNCHANGED <<shown, logged, import>>
        /\ SyncStock(r) => Active = {}
    <2>1. CASE SyncStock(r)
      <3>1. ~(disturbed \/ Active # {})
        BY <1>1, <2>1, Zenon DEF SyncStock
      <3> QED
        BY <2>1, <3>1 DEF SyncStock
    <2>2. CASE (\E k \in Skus : GetPlentyStock(r, k)) \/ HaveRead(r)
      <3>1. UNCHANGED <<shown, logged, import, disturbed>>
        BY <2>2 DEF GetPlentyStock, HaveRead
      <3>2. ~SyncStock(r)
        BY <2>2 DEF GetPlentyStock, HaveRead, SyncStock
      <3> QED
        BY <1>1, <3>1, <3>2, Zenon
    <2> QED
      BY <2>1, <2>2
  <1>3. Queued' = Queued
    BY <1>2 DEF Queued
  <1>4. /\ run[r].pc \in {"idle", "read"}
        /\ run'[r].pc \in {"idle", "read", "post"}
        /\ run'[r].pc # "idle" => run'[r].alone \/ (run[r].alone = run'[r].alone /\ r \in Active)
    <2>1. CASE SyncStock(r)
      <3>1. run'[r] = [Idle EXCEPT !.pc = "read", !.todo = Skus, !.alone = Active = {}]
        BY <2>1 DEF SyncStock, TypeOK
      <3>2. run[r].pc = "idle" /\ run'[r].pc = "read" /\ run'[r].alone
        BY <1>2, <2>1, <3>1 DEF SyncStock, Idle
      <3> QED
        BY <3>2
    <2>2. ASSUME NEW k \in Skus, GetPlentyStock(r, k)
          PROVE  run[r].pc = "read" /\ run'[r].pc = "read" /\ run'[r].alone = run[r].alone
      BY <2>2, FieldTypes DEF GetPlentyStock, Become, TypeOK, Run
    <2>3. ASSUME HaveRead(r)
          PROVE  /\ run[r].pc = "read" /\ run'[r].pc \in {"idle", "post"}
                 /\ run'[r].pc # "idle" => run'[r].alone = run[r].alone
      BY <2>3, FieldTypes DEF HaveRead, Become, TypeOK, Run, Idle
    <2> QED
      BY <2>1, <2>2, <2>3 DEF Active
  <1>5. \A q \in Runs \ {r} : run'[q] = run[q] \/ (q \notin Active /\ q \notin Active')
    <2>1. CASE SyncStock(r)
      BY <1>2, <2>1, FieldTypes DEF SyncStock, TypeOK, Run, Active
    <2>2. CASE ~SyncStock(r)
      BY <2>2 DEF GetPlentyStock, HaveRead, Become, TypeOK
    <2> QED
      BY <2>1, <2>2
  <1>6. \A q \in Runs : /\ Taken(q)' => q # r /\ run'[q] = run[q] /\ Taken(q)
                        /\ Taken(q) => Taken(q)'
    BY <1>3, <1>4, <1>5 DEF Taken, Active
  <1>7. \A q \in Active' : run'[q].alone
    BY <1>2, <1>4, <1>5 DEF LogTrue, Active
  <1> QED
    BY <1>2, <1>3, <1>6, <1>7 DEF LogTrue, AgreesOn

\* The import that a run posts is waited for.
LEMMA LogPost ==
    ASSUME TypeOK, Truths, LogTrue, NEW r \in Runs, Post(r)
    PROVE  LogTrue'
  <1>1. SUFFICES ASSUME ~disturbed
                 PROVE  LogTrue'
    BY DEF LogTrue, Post
  <1>2. PICK i \in Imports : i = NextId /\ Free(i)
    BY NextIdFree DEF Post
  <1>3. /\ run'[r] = [run[r] EXCEPT !.pc = "poll", !.import = i, !.polls = 0]
        /\ \A q \in Runs \ {r} : run'[q] = run[q]
        /\ import' = [import EXCEPT ![i] = [queued |-> TRUE, offers |-> run[r].offers,
                                            waited |-> run[r].alone]]
        /\ run[r].pc = "post"
        /\ UNCHANGED <<shown, logged>>
    BY <1>2 DEF Post, Become, Queue, TypeOK
  <1>4. run[r].alone /\ r \in Active
    BY <1>1, <1>3 DEF LogTrue, Active
  <1>5. Queued' = Queued \cup {i} /\ \A j \in Queued' : import'[j].waited
    BY <1>1, <1>3, <1>4 DEF LogTrue, Queued, TypeOK
  <1>6. run'[r].pc = "poll" /\ run'[r].import = i /\ run'[r].alone
    BY <1>3, <1>4, FieldTypes DEF Run
  <1>7. \A q \in Runs : ~Taken(q) /\ ~Taken(q)'
    BY <1>3, <1>4, <1>5, <1>6 DEF Truths, AloneIsAlone, Active, Taken
  <1>8. \A q \in Active' : run'[q].alone
    BY <1>1, <1>3, <1>6 DEF LogTrue, Active
  <1> QED
    BY <1>1, <1>3, <1>5, <1>7, <1>8 DEF LogTrue, AgreesOn

LEMMA LogPolls ==
    ASSUME TypeOK, LogTrue, NEW r \in Runs, StillQueued(r) \/ Answered(r)
    PROVE  LogTrue'
  <1>1. SUFFICES ASSUME ~disturbed
                 PROVE  LogTrue'
    BY DEF LogTrue, StillQueued, Answered
  <1>2. /\ UNCHANGED <<shown, logged, import>>
        /\ run'[r].alone = run[r].alone /\ run'[r].offers = run[r].offers
        /\ r \in Active
        /\ \A q \in Runs \ {r} : run'[q] = run[q]
    <2>1. CASE StillQueued(r)
      BY <2>1, FieldTypes DEF StillQueued, Become, TypeOK, Run, Active
    <2>2. CASE Answered(r)
      BY <2>2, FieldTypes DEF Answered, Become, TypeOK, Run, Active
    <2> QED
      BY <2>1, <2>2
  <1>3. Queued' = Queued
    BY <1>2 DEF Queued
  <1>4. Taken(r)' <=> Taken(r)
    <2>1. CASE StillQueued(r)
      <3>1. /\ run[r].pc = "poll" /\ run[r].import \in Queued
            /\ run'[r].pc = "poll" /\ run'[r].import = run[r].import
        BY <2>1, FieldTypes DEF StillQueued, Become, TypeOK, Run
      <3> QED
        BY <1>3, <3>1 DEF Taken
    <2>2. CASE Answered(r)
      <3>1. /\ run[r].pc = "poll" /\ run[r].import \notin Queued
            /\ run'[r].pc = "log"
        BY <2>2, FieldTypes DEF Answered, Become, TypeOK, Run
      <3> QED
        BY <3>1 DEF Taken
    <2> QED
      BY <2>1, <2>2
  <1>5. \A q \in Runs : Taken(q)' <=> Taken(q)
    BY <1>2, <1>3, <1>4 DEF Taken
  <1>6. \A q \in Active' : run'[q].alone
    BY <1>1, <1>2 DEF LogTrue, Active
  <1> QED
    BY <1>1, <1>2, <1>3, <1>5, <1>6 DEF LogTrue, AgreesOn

LEMMA LogRow ==
    ASSUME TypeOK, Truths, LogTrue, NEW r \in Runs, LogPushes(r)
    PROVE  LogTrue'
  <1>1. SUFFICES ASSUME ~disturbed
                 PROVE  LogTrue'
    BY DEF LogTrue, LogPushes
  <1>2. /\ run'[r] = Idle /\ run[r].pc = "log"
        /\ \A q \in Runs \ {r} : run'[q] = run[q]
        /\ UNCHANGED <<shown, import>>
        /\ \A k \in Skus : logged'[k] = IF run[r].offers[k] = None THEN logged[k]
                                                                  ELSE run[r].offers[k]
    BY DEF LogPushes, Become, TypeOK
  <1>3. run[r].alone /\ Taken(r)
    BY <1>1, <1>2 DEF LogTrue, Active, Taken
  <1>4. Queued' = Queued
    BY <1>2 DEF Queued
  <1>5. \A q \in Runs : ~Taken(q)' /\ q \notin Active'
    BY <1>2, <1>3, <1>4 DEF Truths, AloneIsAlone, Active, Taken, Idle
  <1>6. \A k \in Skus : AgreesOn(k)'
    <2>1. SUFFICES ASSUME NEW k \in Skus
                   PROVE  AgreesOn(k)'
      OBVIOUS
    <2>2. \/ run[r].offers[k] = None /\ AgreesOn(k)
          \/ shown[k] = run[r].offers[k]
      BY <1>1, <1>3 DEF LogTrue
    <2>3. shown'[k] = shown[k]
      BY <1>2
    <2> QED
      BY <1>2, <2>2, <2>3, Quantities DEF AgreesOn
  <1>7. \A i \in Queued' : import'[i].waited
    BY <1>1, <1>2, <1>4 DEF LogTrue
  <1> QED
    BY <1>5, <1>6, <1>7 DEF LogTrue, Active

\* The run whose import Mirakl takes is the only one, and has sent it.
LEMMA LogComplete ==
    ASSUME TypeOK, Truths, LogTrue, NEW i \in Imports, Complete(i)
    PROVE  LogTrue'
  <1>1. SUFFICES ASSUME ~disturbed
                 PROVE  LogTrue'
    BY DEF LogTrue, Complete
  <1>2. /\ i \in Queued /\ UNCHANGED <<run, logged>>
        /\ \A k \in Skus : shown'[k] = IF import[i].offers[k] # None
                                       THEN import[i].offers[k] ELSE shown[k]
        /\ import' = [import EXCEPT ![i] = NoImport]
    BY DEF Complete, Process
  <1>3. PICK r \in Runs : /\ run[r].pc = "poll" /\ run[r].alone /\ run[r].import = i
                          /\ run[r].offers = import[i].offers
    BY <1>1, <1>2 DEF LogTrue, Truths, WaitedIsPolled
  <1>4. \A q \in Active : q = r
    BY <1>3 DEF Truths, AloneIsAlone, Active
  <1>5. \A q \in Runs : ~Taken(q)
    BY <1>2, <1>3, <1>4 DEF Taken, Active
  <1>6. \A k \in Skus : AgreesOn(k)
    BY <1>1, <1>5 DEF LogTrue
  <1>7. /\ \A j \in Queued' : j \in Queued /\ import'[j] = import[j]
        /\ i \notin Queued'
    BY <1>2 DEF TypeOK, Queued, NoImport
  <1>8. Taken(r)' /\ \A q \in Runs : Taken(q)' => q = r
    BY <1>2, <1>3, <1>4, <1>7 DEF Taken, Active
  <1>9. \A k \in Skus : \/ run[r].offers[k] = None /\ AgreesOn(k)'
                        \/ shown'[k] = run[r].offers[k]
    BY <1>2, <1>3, <1>6 DEF AgreesOn
  <1>10. Active' = Active
    BY <1>2 DEF Active
  <1> QED
    BY <1>1, <1>2, <1>7, <1>8, <1>9, <1>10 DEF LogTrue

LEMMA LogNext ==
    ASSUME TypeOK, Truths, LogTrue, [Next]_vars
    PROVE  LogTrue'
  <1>1. CASE UNCHANGED vars
    BY <1>1 DEF vars, LogTrue, Active, Queued, Taken, AgreesOn
  <1>2. CASE disturbed'
    BY <1>2 DEF LogTrue
  <1>3. ASSUME NEW r \in Runs, RunStep(r), ~disturbed'
        PROVE  LogTrue'
    BY <1>3, LogReads, LogPost, LogPolls, LogRow DEF RunStep, PollsRunOut
  <1>4. ASSUME NEW r \in Runs, Failure(r)
        PROVE  disturbed'
    BY <1>4 DEF Failure, ReadFails, PostRaises, PollRaises, RunFails, Fault
  <1>5. ASSUME NEW i \in Imports, Complete(i) \/ Rejects(i) \/ ImportFails(i), ~disturbed'
        PROVE  LogTrue'
    BY <1>5, LogComplete DEF Rejects, ImportFails, Fault
  <1>6. ASSUME NEW k \in Skus, Sell(k)
        PROVE  LogTrue'
    BY <1>6 DEF Sell, LogTrue, Active, Queued, Taken, AgreesOn
  <1> QED
    BY <1>1, <1>2, <1>3, <1>4, <1>5, <1>6 DEF Next

-----------------------------------------------------------------------------
(* The theorems *)

\* What is queued and waited for, shown and read stays in the order of the
\* stock, whatever fails, overlaps or is given up (IInv is inductive).
THEOREM Inductive == Spec => []IInv
  <1>1. Init => IInv
    BY TypeInit, TruthsInit DEF IInv
  <1>2. IInv /\ [Next]_vars => IInv'
    BY TypeNext, TruthsNext DEF IInv
  <1> QED
    BY <1>1, <1>2, PTL DEF Spec

\* No run polls or attempts more often than update_offers allows, and every
\* quantity is one the stock can have.
THEOREM TypeCorrect == Spec => []TypeOK
  <1>1. IInv => TypeOK
    BY DEF IInv
  <1> QED
    BY <1>1, Inductive, PTL

\* An import that is waited for holds nothing older than what is shown.
LEMMA TakenIsNewer ==
    ASSUME IInv, NEW i \in Imports, NEW lines,
           import[i].waited, Process(i, lines), NEW k \in Skus
    PROVE  shown'[k] >= shown[k]
  <1>1. i \in Queued /\ \A l \in lines : import[i].offers[l] # None
    BY DEF Process
  <1>2. PICK r \in Runs : run[r].alone /\ run[r].offers = import[i].offers
    BY <1>1 DEF IInv, Truths, WaitedIsPolled
  <1>3. shown'[k] = IF k \in lines THEN import[i].offers[k] ELSE shown[k]
    BY DEF Process
  <1>4. shown[k] >= shown[k]
    BY Quantities DEF IInv
  <1> QED
    BY <1>1, <1>2, <1>3, <1>4 DEF IInv, Truths, AloneLeads

\* The import of a run that is alone and waits for it never puts an older
\* quantity in the place of a newer one, even after imports of earlier runs
\* that were given up, for any number of SKUs, runs, imports and failures.
THEOREM NeverStepsBack == Spec => NoStepBack
  <1> DEFINE StepsForward ==
        \A i \in Imports : i \in Queued /\ i \notin Queued' /\ import[i].waited
            => \A k \in Skus : shown'[k] >= shown[k]
  <1>1. IInv /\ [Next]_vars => StepsForward
    <2>1. SUFFICES ASSUME IInv, [Next]_vars, NEW i \in Imports, i \in Queued,
                          i \notin Queued', import[i].waited, NEW k \in Skus
                   PROVE  shown'[k] >= shown[k]
      OBVIOUS
    <2>2. shown[k] >= shown[k]
      BY <2>1, Quantities DEF IInv
    <2>3. CASE UNCHANGED shown
      BY <2>2, <2>3
    <2>4. ASSUME NEW j \in Imports, NEW lines, Process(j, lines)
          PROVE  shown'[k] >= shown[k]
      <3>1. j = i
        BY <2>1, <2>4 DEF Process, Queued, IInv, TypeOK
      <3> QED
        BY <2>1, <2>4, <3>1, TakenIsNewer
    <2>5. \/ UNCHANGED shown
          \/ \E j \in Imports : \E lines : Process(j, lines)
      BY <2>1 DEF Next, RunStep, Failure, vars, SyncStock, GetPlentyStock, HaveRead,
                  Post, StillQueued, PollsRunOut, Answered, LogPushes, ReadFails,
                  PostRaises, PollRaises, RunFails, Complete, Rejects, ImportFails,
                  Sell
    <2> QED
      BY <2>3, <2>4, <2>5
  <1> QED
    BY <1>1, Inductive, PTL DEF NoStepBack, Spec

\* After undisturbed runs the log has what the marketplace shows, for any
\* number of SKUs, runs and imports: a run logs when its import has been taken,
\* and no other import is left by then.
THEOREM LogAlwaysAgrees == Spec => []LogAgrees
  <1>1. Init => LogTrue
    BY LogInit
  <1>2. IInv /\ LogTrue /\ [Next]_vars => LogTrue'
    BY LogNext DEF IInv
  <1>3. LogTrue => LogAgrees
    BY DEF LogTrue, LogAgrees, Active, Taken, AgreesOn
  <1> QED
    BY <1>1, <1>2, <1>3, Inductive, PTL DEF Spec

=============================================================================
