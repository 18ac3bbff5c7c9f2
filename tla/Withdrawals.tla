---------------------------- MODULE Withdrawals ----------------------------
(***************************************************************************)
(* The wallet updater of bitcoin-processing (package wallet): the single   *)
(* goroutine that executes withdrawal, confirmation and cancellation       *)
(* requests, polls the Bitcoin node, and re-plans the pending withdrawals  *)
(* whenever money may have become available.                               *)
(*                                                                         *)
(* The goroutine itself is sequential, but each of its steps is a separate *)
(* database transaction or a separate node call, and between any two of    *)
(* them the node's balance can change, the call can fail or its answer can *)
(* be lost, and the process can be killed.  A step of this module is one   *)
(* such transaction or call.                                               *)
(*                                                                         *)
(* A withdrawal is identified by the id of its request.  Its amount is     *)
(* debited in full from the wallet (the recipient pays the fee), so fees   *)
(* do not appear.  Confirmations of outgoing transactions are left out:    *)
(* a row is "new" from its broadcast on.                                   *)
(***************************************************************************)
EXTENDS Integers, FiniteSets, Functions

CONSTANTS
    Ids,             \* ids of withdrawal requests
    NoId,            \* the empty wallet_operation, and "no transaction in hand"
    Amount,          \* amount of each withdrawal
    ColdIds,         \* withdrawals to cold storage
    InternalIds,     \* withdrawals to an address of one of our own accounts
    RefusedIds,      \* withdrawals the node refuses whatever the balance
    MinWithdraw,     \* wallet.min_withdraw
    MinWithdrawWithoutManualConfirmation,
    Deposits,        \* incoming bitcoin transactions that may arrive
    DepositAmount,   \* amount of each of them
    InitialBalance,  \* confirmed balance of the node's wallet at the start
    WithdrawSaveRetries,  \* attempts to save a result after the first one
    TriggerCapacity, \* capacity of the pendingTxUpdateTrigger channel
    MaxTimers,       \* bound: outstanding retry timers that are told apart
    Faults,          \* the kinds of failure that may happen
    MaxFaults        \* bound: how many failures happen in a behaviour

FaultKinds == {"dbFail",      \* a database transaction is rolled back
               "dbFailLate",  \* it is rolled back at its last statement or commit
               "dbLost",      \* it is committed, but Commit returns an error
               "nodeError",   \* a node call fails and has no effect
               "nodeShort",   \* coin selection fails though the balance suffices
               "answerLost",  \* the node broadcasts, but the answer is lost
               "crash"}       \* the process is killed

ASSUME ConstantsAssumption ==
    /\ NoId \notin Ids
    /\ Amount \in [Ids -> Nat \ {0}]
    /\ ColdIds \subseteq Ids
    /\ InternalIds \subseteq Ids
    /\ RefusedIds \subseteq Ids
    /\ MinWithdraw \in Nat
    /\ MinWithdrawWithoutManualConfirmation \in Nat
    /\ DepositAmount \in Nat \ {0}
    /\ InitialBalance \in Nat
    /\ WithdrawSaveRetries \in Nat
    /\ TriggerCapacity \in Nat \ {0}
    /\ MaxTimers \in Nat \ {0}
    /\ Faults \subseteq FaultKinds
    /\ MaxFaults \in Nat

ASSUME FinitenessAssumption == IsFiniteSet(Ids) /\ IsFiniteSet(Deposits)

VARIABLES
    rows,      \* transactions table: status and reported_confirmations of each id
    strays,    \* rows of broadcasts of an id stored under a generated id
    lock,      \* metadata wallet_operation: the id being sent, or NoId
    required,  \* metadata money_required_from_cold_storage
    seen,      \* the state of each deposit as the transactions table has it
    sent,      \* how many times the node broadcast each withdrawal
    credited,  \* how many times each withdrawal was credited to our own account
    announced, \* how many NewOutgoingTx events each withdrawal has had
    approved,  \* the withdrawals an operator asked to /confirm
    conf,      \* confirmed balance of the node's wallet
    deposit,   \* the state of each deposit on the node
    pc,        \* where the updater goroutine is
    cur,       \* the transaction it is sending, and for whom
    plan,      \* locals of tryToUpdatePendingTxns
    ret,       \* where updatePendingTxns returns to
    booting,   \* Run has not reached mainLoop yet
    trigger,   \* signals waiting in pendingTxUpdateTrigger
    timers,    \* outstanding time.AfterFunc(7s, schedulePendingTxUpdate)
    retries,   \* failed attempts of persistWithdrawResultWithRetry
    gauge,     \* metric txns_waiting_manual_confirmation
    faults     \* failures so far

db == <<rows, strays, lock, required, seen>>
outside == <<sent, credited, announced, approved, conf, deposit>>
memory == <<pc, cur, plan, ret, booting, trigger, timers, retries, gauge>>
vars == <<db, outside, memory, faults>>

-----------------------------------------------------------------------------
Statuses == {"absent", "new", "fully-confirmed", "pending",
             "pending-cold-storage", "pending-manual-confirmation", "cancelled"}

DepositStates == {"none", "unconfirmed", "confirmed"}

Points == {"down", "idle", "poll1", "poll2", "update", "balance", "loop",
           "prepare", "send", "persistOK", "persistPending", "persistFailed"}

NoTx == [id |-> NoId, from |-> "none", reported |-> -1]
NoPlan == [queue |-> {}, avail |-> 0, unconf |-> 0]

DatabaseTypeOK ==
    /\ rows \in [Ids -> [status : Statuses, reported : {-1, 0}]]
    /\ strays \in [Ids -> Nat]
    /\ lock \in Ids \cup {NoId}
    /\ seen \in [Deposits -> DepositStates]

OutsideTypeOK ==
    /\ sent \in [Ids -> Nat]
    /\ credited \in [Ids -> Nat]
    /\ announced \in [Ids -> Nat]
    /\ approved \subseteq Ids
    /\ conf \in Nat
    /\ deposit \in [Deposits -> DepositStates]

MemoryTypeOK ==
    /\ pc \in Points
    /\ cur \in [id : Ids \cup {NoId}, from : {"none", "withdraw", "confirm", "loop"},
                reported : {-1, 0}]
    /\ plan \in [queue : SUBSET Ids, avail : Nat, unconf : Nat]
    /\ ret \in {"idle", "poll1", "poll2", "update"}
    /\ booting \in BOOLEAN
    /\ trigger \in 0..TriggerCapacity
    /\ timers \in 0..MaxTimers
    /\ retries \in 0..WithdrawSaveRetries
    /\ gauge \in Int
    /\ faults \in 0..MaxFaults

\* The types of the state.  In particular no number of sends overfills the
\* trigger channel, the balance is never overdrawn, and no broadcast is stored
\* under a generated id that the node did not make (strays stays a count).
TypeOK == DatabaseTypeOK /\ OutsideTypeOK /\ MemoryTypeOK

Init ==
    /\ rows = [id \in Ids |-> [status |-> "absent", reported |-> -1]]
    /\ strays = [id \in Ids |-> 0]
    /\ lock = NoId
    /\ required = 0
    /\ seen = [d \in Deposits |-> "none"]
    /\ sent = [id \in Ids |-> 0]
    /\ credited = [id \in Ids |-> 0]
    /\ announced = [id \in Ids |-> 0]
    /\ approved = {}
    /\ conf = InitialBalance
    /\ deposit = [d \in Deposits |-> "none"]
    /\ pc = "down"
    /\ cur = NoTx
    /\ plan = NoPlan
    /\ ret = "idle"
    /\ booting = FALSE
    /\ trigger = 0
    /\ timers = 0
    /\ retries = 0
    /\ gauge = 0
    /\ faults = 0

-----------------------------------------------------------------------------
(* Helpers.                                                                *)

Fault(kind) == kind \in Faults /\ faults < MaxFaults /\ faults' = faults + 1

Status(id) == rows[id].status
Held == {id \in Ids : Status(id) = "pending-manual-confirmation"}

\* Mutant of GetPendingTransactions: it also returns those held for confirmation.
GetPendingTransactionsAndHeld == {id \in Ids : Status(id) \in
    {"pending", "pending-cold-storage", "pending-manual-confirmation"}}

\* The withdrawals tryToUpdatePendingTxns considers.
GetPendingTransactions ==
    {id \in Ids : Status(id) \in {"pending", "pending-cold-storage"}}

\* The statuses /cancel_pending accepts.
Cancellable ==
    {"pending", "pending-cold-storage", "pending-manual-confirmation"}

\* Limits are not checked for cold storage, which is never held either.
WithinLimits(id) == id \in ColdIds \/ Amount[id] >= MinWithdraw
NeedsManualConfirmation(id) ==
    id \notin ColdIds /\ Amount[id] > MinWithdrawWithoutManualConfirmation

Total(S) == SumFunctionOnSet(Amount, S)

Unconfirmed ==
    DepositAmount * Cardinality({d \in Deposits : deposit[d] = "unconfirmed"})

\* Broadcasts of id the database has no row for.
Unrecorded(id) ==
    sent[id] - strays[id] - (IF Status(id) = "new" THEN 1 ELSE 0)

\* Sends to the channel unless it is full.
schedulePendingTxUpdate ==
    trigger' = IF trigger < TriggerCapacity THEN trigger + 1 ELSE trigger

\* updatePendingTxns after tryToUpdatePendingTxns succeeded.
UpdateDone ==
    /\ pc' = ret
    /\ ret' = "idle"
    /\ plan' = NoPlan
    /\ UNCHANGED timers

\* Mutant of UpdateFailed: no timer is started.
UpdateFailedNoRetry == UpdateDone

\* updatePendingTxns after it failed: try again in 7 seconds.
UpdateFailed ==
    /\ pc' = ret
    /\ ret' = "idle"
    /\ plan' = NoPlan
    /\ timers' = IF timers < MaxTimers THEN timers + 1 ELSE timers

\* sendWithdrawal returns an error to the request or to the pending loop.
SendReturnsError ==
    /\ cur' = NoTx
    /\ IF cur.from = "loop"
         THEN UpdateFailed
         ELSE pc' = "poll1" /\ UNCHANGED <<ret, plan, timers>>

\* sendWithdrawal returns nil: the loop goes on, confirmPendingTx lowers its
\* metric, and a request ends, after which mainLoop polls the node.
SendReturns ==
    /\ cur' = NoTx
    /\ pc' = IF cur.from = "loop" THEN "loop" ELSE "poll1"
    /\ gauge' = IF cur.from = "confirm" THEN gauge - 1 ELSE gauge

\* The tail of sendWithdrawal: a request schedules an update of the others.
SendReturnsAndSchedules ==
    /\ SendReturns
    /\ IF cur.from = "loop" THEN UNCHANGED trigger ELSE schedulePendingTxUpdate

\* sendWithdrawal is called with the row of id, or with a fresh transaction.
SendWithdrawal(id, from) ==
    /\ cur' = [id |-> id, from |-> from, reported |-> rows[id].reported]
    /\ pc' = "prepare"

Down ==
    /\ pc' = "down"
    /\ cur' = NoTx
    /\ plan' = NoPlan
    /\ ret' = "idle"
    /\ booting' = FALSE
    /\ trigger' = 0
    /\ timers' = 0
    /\ retries' = 0
    /\ gauge' = 0

-----------------------------------------------------------------------------
(* Starting, polling the node.                                             *)

\* Mutant of MayStart: main does not call Check.
MayStartUnchecked == TRUE

\* Check refuses to start while wallet_operation is set.
MayStart == lock = NoId

\* main: Check, then Run, which sets the metric before it polls.
Start ==
    /\ pc = "down"
    /\ MayStart
    /\ pc' = "poll1"
    /\ booting' = TRUE
    /\ gauge' = Cardinality(Held)
    /\ UNCHANGED <<db, outside, cur, plan, ret, trigger, timers, retries, faults>>

\* The ticker, or a walletnotify call: the select does nothing but poll.
Tick ==
    /\ pc = "idle"
    /\ pc' = "poll1"
    /\ UNCHANGED <<db, outside, cur, plan, ret, booting, trigger, timers,
                   retries, gauge, faults>>

\* Mutant of Unannounced: reported_confirmations is not looked at.
UnannouncedAlways(id) == Status(id) = "new" /\ id \notin ColdIds

\* updateTxInfo on the rows of our broadcasts: notifyTransaction emits the
\* NewOutgoingTx event if it is missing.  Cold storage is not notified.
Unannounced(id) ==
    Status(id) = "new" /\ rows[id].reported = -1 /\ id \notin ColdIds

NotifyBroadcasts ==
    /\ rows' = [id \in Ids |->
                  IF Unannounced(id) THEN [rows[id] EXCEPT !.reported = 0]
                                     ELSE rows[id]]
    /\ announced' = [id \in Ids |->
                       IF Unannounced(id) THEN announced[id] + 1 ELSE announced[id]]

\* The transaction of checkForNewTransactions: every transaction the node lists
\* is stored, unknown broadcasts under a generated id.
StoreNewTransactions ==
    /\ NotifyBroadcasts
    /\ strays' = [id \in Ids |-> strays[id] + Unrecorded(id)]
    /\ seen' = deposit
    /\ UNCHANGED <<lock, required, sent, credited, approved, conf, deposit>>

NewTxInfo == seen # deposit \/ \E id \in Ids : Unrecorded(id) # 0

CheckForNewTransactions ==
    /\ pc = "poll1"
    /\ StoreNewTransactions
    /\ IF NewTxInfo THEN pc' = "update" /\ ret' = "poll2"
                    ELSE pc' = "poll2" /\ UNCHANGED ret
    /\ UNCHANGED <<cur, plan, booting, trigger, timers, retries, gauge, faults>>

\* The transaction or the node call fails; the error is logged.
CheckForNewTransactionsFails ==
    /\ pc = "poll1"
    /\ pc' = "poll2"
    /\ \/ (Fault("dbFail") \/ Fault("nodeError")) /\ UNCHANGED <<db, outside>>
       \/ Fault("dbLost") /\ StoreNewTransactions
    /\ UNCHANGED <<cur, plan, ret, booting, trigger, timers, retries, gauge>>

\* The transaction of checkForExistingTransactionUpdates: only rows there are.
KnownDeposits ==
    [d \in Deposits |-> IF seen[d] = "unconfirmed" THEN deposit[d] ELSE seen[d]]

StoreExistingTransactions ==
    /\ NotifyBroadcasts
    /\ seen' = KnownDeposits
    /\ UNCHANGED <<strays, lock, required, sent, credited, approved, conf, deposit>>

\* After the second poll mainLoop waits; Run first updates the pending ones.
AfterPolls == IF booting THEN "update" ELSE "idle"

CheckForExistingTransactionUpdates ==
    /\ pc = "poll2"
    /\ StoreExistingTransactions
    /\ IF seen # KnownDeposits
         THEN pc' = "update" /\ ret' = AfterPolls
         ELSE pc' = AfterPolls /\ UNCHANGED ret
    /\ booting' = FALSE
    /\ UNCHANGED <<cur, plan, trigger, timers, retries, gauge, faults>>

CheckForExistingTransactionUpdatesFails ==
    /\ pc = "poll2"
    /\ pc' = AfterPolls
    /\ \/ (Fault("dbFail") \/ Fault("nodeError")) /\ UNCHANGED <<db, outside>>
       \/ Fault("dbLost") /\ StoreExistingTransactions
    /\ booting' = FALSE
    /\ UNCHANGED <<cur, plan, ret, trigger, timers, retries, gauge>>

-----------------------------------------------------------------------------
(* Requests taken from the queues by mainLoop.  A request that is refused, *)
(* or whose first transaction is rolled back, changes nothing: it is a     *)
(* Tick.                                                                   *)

Hold(id) == rows' = [rows EXCEPT ![id].status = "pending-manual-confirmation"]

\* withdraw with hold set; the commit may be reported as an error.
WithdrawHeld(id) ==
    /\ pc = "idle"
    /\ Status(id) = "absent"
    /\ WithinLimits(id)
    /\ NeedsManualConfirmation(id)
    /\ Hold(id)
    /\ pc' = "poll1"
    /\ \/ gauge' = gauge + 1 /\ UNCHANGED faults
       \/ Fault("dbLost") /\ UNCHANGED gauge
    /\ UNCHANGED <<strays, lock, required, seen, outside, cur, plan, ret, booting,
                   trigger, timers, retries>>

\* Mutant of WithdrawNow: ensureTxIDIsFree is not called.
WithdrawNowAnyId(id) ==
    /\ pc = "idle"
    /\ WithinLimits(id)
    /\ ~NeedsManualConfirmation(id)
    /\ SendWithdrawal(id, "withdraw")
    /\ UNCHANGED <<db, outside, plan, ret, booting, trigger, timers, retries,
                   gauge, faults>>

\* withdraw without hold.
WithdrawNow(id) ==
    /\ pc = "idle"
    /\ Status(id) = "absent"
    /\ WithinLimits(id)
    /\ ~NeedsManualConfirmation(id)
    /\ SendWithdrawal(id, "withdraw")
    /\ UNCHANGED <<db, outside, plan, ret, booting, trigger, timers, retries,
                   gauge, faults>>

Confirm(id) ==
    /\ pc = "idle"
    /\ Status(id) = "pending-manual-confirmation"
    /\ SendWithdrawal(id, "confirm")
    /\ approved' = approved \cup {id}
    /\ UNCHANGED <<db, sent, credited, announced, conf, deposit, plan, ret,
                   booting, trigger, timers, retries, gauge, faults>>

\* Mutant of Cancel: the pending withdrawals are not updated afterwards.
CancelNoUpdate(id) ==
    /\ pc = "idle"
    /\ Status(id) \in Cancellable
    /\ rows' = [rows EXCEPT ![id].status = "cancelled"]
    /\ gauge' = gauge - 1
    /\ pc' = "poll1"
    /\ UNCHANGED <<strays, lock, required, seen, outside, cur, plan, ret, booting,
                   trigger, timers, retries, faults>>

\* cancelPendingTx: one transaction, the metric, then updatePendingTxns.
Cancel(id) ==
    /\ pc = "idle"
    /\ Status(id) \in Cancellable
    /\ rows' = [rows EXCEPT ![id].status = "cancelled"]
    /\ \/ gauge' = gauge - 1 /\ pc' = "update" /\ ret' = "poll1" /\ UNCHANGED faults
       \/ Fault("dbLost") /\ pc' = "poll1" /\ UNCHANGED <<gauge, ret>>
    /\ UNCHANGED <<strays, lock, required, seen, outside, cur, plan, booting,
                   trigger, timers, retries>>

\* A signal from pendingTxUpdateTrigger.
TriggerTaken ==
    /\ pc = "idle"
    /\ trigger > 0
    /\ trigger' = trigger - 1
    /\ pc' = "update"
    /\ ret' = "poll1"
    /\ UNCHANGED <<db, outside, cur, plan, booting, timers, retries, gauge, faults>>

\* A retry timer, which runs on a goroutine of its own.
TimerFires ==
    /\ timers > 0
    /\ timers' = timers - 1
    /\ schedulePendingTxUpdate
    /\ UNCHANGED <<db, outside, pc, cur, plan, ret, booting, retries, gauge, faults>>

-----------------------------------------------------------------------------
(* tryToUpdatePendingTxns.                                                 *)

\* The pending rows and the confirmed balance are read ...
ReadPending ==
    /\ pc = "update"
    /\ plan' = [queue |-> GetPendingTransactions, avail |-> conf, unconf |-> 0]
    /\ pc' = "balance"
    /\ UNCHANGED <<db, outside, cur, ret, booting, trigger, timers, retries,
                   gauge, faults>>

\* ... and the unconfirmed balance by a second call, so that a deposit that
\* confirms in between is in neither.
ReadUnconfirmed ==
    /\ pc = "balance"
    /\ plan' = [plan EXCEPT !.unconf = Unconfirmed]
    /\ pc' = "loop"
    /\ UNCHANGED <<db, outside, cur, ret, booting, trigger, timers, retries,
                   gauge, faults>>

ReadFails ==
    /\ pc \in {"update", "balance"}
    /\ Fault("dbFail") \/ Fault("nodeError")
    /\ UpdateFailed
    /\ UNCHANGED <<db, outside, cur, booting, trigger, retries, gauge>>

\* The cheapest withdrawals left; sort.Slice leaves the order of ties open.
Cheapest(S) == {id \in S : \A other \in S : Amount[id] <= Amount[other]}

Affordable(id) == plan.avail >= Amount[id]

SendNext ==
    /\ pc = "loop"
    /\ \E id \in Cheapest(plan.queue) :
         /\ Affordable(id)
         /\ plan' = [plan EXCEPT !.queue = @ \ {id}, !.avail = @ - Amount[id]]
         /\ SendWithdrawal(id, "loop")
    /\ UNCHANGED <<db, outside, ret, booting, trigger, timers, retries, gauge, faults>>

\* Every pending withdrawal was sent: nothing is required from cold storage.
AllFunded ==
    /\ pc = "loop"
    /\ plan.queue = {}
    /\ \/ required' = 0 /\ UpdateDone /\ UNCHANGED faults
       \/ required' = 0 /\ Fault("dbLost") /\ UpdateFailed
       \/ Fault("dbFail") /\ UpdateFailed /\ UNCHANGED required
    /\ UNCHANGED <<rows, strays, lock, seen, outside, cur, booting, trigger,
                   retries, gauge>>

\* Mutant of FundedPrefix: a withdrawal that takes the whole budget is left out.
FundedPrefixStrict(P, S, budget) ==
    /\ \A id \in P, other \in S \ P : Amount[id] <= Amount[other]
    /\ P = {} \/ Total(P) < budget
    /\ \A other \in S \ P : Total(P) + Amount[other] >= budget

\* P are the cheapest of S, as many as the budget pays for.
FundedPrefix(P, S, budget) ==
    /\ \A id \in P, other \in S \ P : Amount[id] <= Amount[other]
    /\ Total(P) <= budget
    /\ \A other \in S \ P : Total(P) + Amount[other] > budget

\* The transaction that ends tryToUpdatePendingTxns: unconfirmed money may pay
\* for some of the rest, the others need money from cold storage.
StoreClassification ==
    LET S      == plan.queue
        budget == plan.avail + plan.unconf
    IN  \E P \in SUBSET S :
          /\ FundedPrefix(P, S, budget)
          /\ rows' = [id \in Ids |->
                        CASE id \in P     -> [rows[id] EXCEPT !.status = "pending"]
                          [] id \in S \ P -> [rows[id] EXCEPT !.status = "pending-cold-storage"]
                          [] OTHER        -> rows[id]]
          /\ required' = IF P = S THEN 0 ELSE Total(S) - budget

Classify ==
    /\ pc = "loop"
    /\ plan.queue # {}
    /\ \A id \in Cheapest(plan.queue) : ~Affordable(id)
    /\ \/ StoreClassification /\ UpdateDone /\ UNCHANGED faults
       \/ StoreClassification /\ Fault("dbLost") /\ UpdateFailed
       \/ Fault("dbFail") /\ UpdateFailed /\ UNCHANGED <<rows, required>>
    /\ UNCHANGED <<strays, lock, seen, outside, cur, booting, trigger, retries, gauge>>

-----------------------------------------------------------------------------
(* sendWithdrawal.                                                         *)

\* The transaction of internalWithdrawBetweenOurAccounts: the outgoing row
\* (not for cold storage) with its events, and an incoming row with a new id.
StoreInternalTransfer(id) ==
    /\ credited' = [credited EXCEPT ![id] = @ + 1]
    /\ IF id \in ColdIds
         THEN UNCHANGED <<rows, announced>>
         ELSE /\ rows' = [rows EXCEPT ![id] = [status |-> "fully-confirmed", reported |-> 0]]
              /\ announced' = [announced EXCEPT ![id] = IF cur.reported = -1 THEN @ + 1 ELSE @]

InternalTransfer ==
    /\ pc = "prepare"
    /\ cur.id \in InternalIds
    /\ StoreInternalTransfer(cur.id)
    /\ SendReturns
    /\ schedulePendingTxUpdate
    /\ UNCHANGED <<strays, lock, required, seen, sent, approved, conf, deposit,
                   plan, ret, booting, timers, retries, faults>>

InternalTransferLost ==
    /\ pc = "prepare"
    /\ cur.id \in InternalIds
    /\ StoreInternalTransfer(cur.id)
    /\ Fault("dbLost")
    /\ SendReturnsError
    /\ UNCHANGED <<strays, lock, required, seen, sent, approved, conf, deposit,
                   booting, trigger, retries, gauge>>

\* Before any money moves, a transaction of its own records what is being sent.
LockWallet ==
    /\ pc = "prepare"
    /\ cur.id \notin InternalIds
    /\ lock' = cur.id
    /\ \/ pc' = "send" /\ UNCHANGED <<cur, ret, plan, timers, faults>>
       \/ Fault("dbLost") /\ SendReturnsError
    /\ UNCHANGED <<rows, strays, required, seen, outside, booting, trigger,
                   retries, gauge>>

\* The account lookup or the first transaction fails.
PrepareFails ==
    /\ pc = "prepare"
    /\ Fault("dbFail")
    /\ SendReturnsError
    /\ UNCHANGED <<db, outside, booting, trigger, retries, gauge>>

\* External: the node creates, signs and broadcasts the transaction.
Broadcast(id) ==
    /\ id \notin RefusedIds
    /\ conf >= Amount[id]
    /\ sent' = [sent EXCEPT ![id] = @ + 1]
    /\ conf' = conf - Amount[id]

NodeSends ==
    /\ pc = "send"
    /\ Broadcast(cur.id)
    /\ \/ pc' = "persistOK" /\ UNCHANGED faults
       \/ pc' = "persistFailed" /\ Fault("answerLost")
    /\ retries' = 0
    /\ UNCHANGED <<db, credited, announced, approved, deposit, cur, plan, ret,
                   booting, trigger, timers, gauge>>

\* handleWithdrawalError: only "Insufficient funds" makes a withdrawal pending,
\* and never one to cold storage.
NodeRefusesFunds ==
    /\ pc = "send"
    /\ \/ conf < Amount[cur.id] /\ UNCHANGED faults
       \/ Fault("nodeShort")
    /\ pc' = IF cur.id \in ColdIds THEN "persistFailed" ELSE "persistPending"
    /\ retries' = 0
    /\ UNCHANGED <<db, outside, cur, plan, ret, booting, trigger, timers, gauge>>

NodeFails ==
    /\ pc = "send"
    /\ \/ cur.id \in RefusedIds /\ UNCHANGED faults
       \/ Fault("nodeError")
    /\ pc' = "persistFailed"
    /\ retries' = 0
    /\ UNCHANGED <<db, outside, cur, plan, ret, booting, trigger, timers, gauge>>

-----------------------------------------------------------------------------
(* persistWithdrawResultWithRetry.                                         *)

\* Mutant of StoreSuccess: the event is stored whatever was reported before.
StoreSuccessAlwaysNotifies(id) ==
    /\ rows' = [rows EXCEPT ![id] = [status |-> "new", reported |-> 0]]
    /\ announced' = [announced EXCEPT ![id] = @ + 1]
    /\ lock' = NoId

\* The transaction of handleWithdrawalSuccess.  An existing row keeps its
\* reported_confirmations, a new one is inserted with those of the transaction
\* in memory; notifyTransaction announces what the latter have not reported.
StoreSuccess(id) ==
    LET notifies == cur.reported = -1 /\ id \notin ColdIds
        stored   == IF Status(id) = "absent" THEN cur.reported ELSE rows[id].reported
    IN  /\ rows' = [rows EXCEPT ![id] =
                      [status |-> "new", reported |-> IF notifies THEN 0 ELSE stored]]
        /\ announced' = [announced EXCEPT ![id] = IF notifies THEN @ + 1 ELSE @]
        /\ lock' = NoId

PersistSuccess ==
    /\ pc = "persistOK"
    /\ StoreSuccess(cur.id)
    /\ SendReturnsAndSchedules
    /\ UNCHANGED <<strays, required, seen, sent, credited, approved, conf, deposit,
                   plan, ret, booting, timers, retries, faults>>

\* The transaction of handleWithdrawalError; it works on a copy of the one in
\* memory.
StoreError(id) ==
    /\ lock' = NoId
    /\ rows' = IF pc = "persistPending"
                 THEN [rows EXCEPT ![id].status = "pending"]
                 ELSE rows

PersistPending ==
    /\ pc = "persistPending"
    /\ StoreError(cur.id)
    /\ SendReturnsAndSchedules
    /\ UNCHANGED <<strays, required, seen, outside, plan, ret, booting, timers,
                   retries, faults>>

PersistFailed ==
    /\ pc = "persistFailed"
    /\ StoreError(cur.id)
    /\ SendReturnsError
    /\ UNCHANGED <<strays, required, seen, outside, booting, trigger, retries,
                   gauge, faults>>

\* Another attempt, or log.Panic, which ends mainLoop and the process.
RetryOrPanic(reported) ==
    \/ /\ retries < WithdrawSaveRetries
       /\ retries' = retries + 1
       /\ cur' = [cur EXCEPT !.reported = reported]
       /\ UNCHANGED <<pc, plan, ret, booting, trigger, timers, gauge>>
    \/ /\ retries = WithdrawSaveRetries
       /\ Down

PersistRolledBack ==
    /\ pc \in {"persistOK", "persistPending", "persistFailed"}
    /\ Fault("dbFail")
    /\ RetryOrPanic(cur.reported)
    /\ UNCHANGED <<db, outside>>

\* handleWithdrawalSuccess works on the transaction itself, so what
\* updateReportedConfirmations wrote to it survives the rollback.
PersistRolledBackLate ==
    /\ pc = "persistOK"
    /\ Fault("dbFailLate")
    /\ RetryOrPanic(IF cur.id \in ColdIds THEN cur.reported ELSE 0)
    /\ UNCHANGED <<db, outside>>

PersistCommitLost ==
    /\ pc \in {"persistOK", "persistPending", "persistFailed"}
    /\ Fault("dbLost")
    /\ IF pc = "persistOK"
         THEN /\ StoreSuccess(cur.id)
              /\ RetryOrPanic(IF cur.id \in ColdIds THEN cur.reported ELSE 0)
         ELSE /\ StoreError(cur.id)
              /\ RetryOrPanic(cur.reported)
              /\ UNCHANGED announced
    /\ UNCHANGED <<strays, required, seen, sent, credited, approved, conf, deposit>>

-----------------------------------------------------------------------------
(* The environment.                                                        *)

\* The process is killed, or stopped between two requests (Stop).
Crash ==
    /\ pc # "down"
    /\ Fault("crash")
    /\ Down
    /\ UNCHANGED <<db, outside>>

\* What the message of Check asks for: the operator looks whether the operation
\* was completed, updates the row accordingly and deletes wallet_operation.
OperatorResolves ==
    /\ pc = "down"
    /\ lock # NoId
    /\ rows' = IF Unrecorded(lock) > 0
                 THEN [rows EXCEPT ![lock].status = "new"]
                 ELSE rows
    /\ lock' = NoId
    /\ UNCHANGED <<strays, required, seen, outside, memory, faults>>

DepositArrives(d) ==
    /\ deposit[d] = "none"
    /\ deposit' = [deposit EXCEPT ![d] = "unconfirmed"]
    /\ UNCHANGED <<db, sent, credited, announced, approved, conf, memory, faults>>

DepositConfirms(d) ==
    /\ deposit[d] = "unconfirmed"
    /\ deposit' = [deposit EXCEPT ![d] = "confirmed"]
    /\ conf' = conf + DepositAmount
    /\ UNCHANGED <<db, sent, credited, announced, approved, memory, faults>>

-----------------------------------------------------------------------------
Polling ==
    \/ CheckForNewTransactions
    \/ CheckForNewTransactionsFails
    \/ CheckForExistingTransactionUpdates
    \/ CheckForExistingTransactionUpdatesFails

Updating ==
    \/ ReadPending
    \/ ReadUnconfirmed
    \/ ReadFails
    \/ SendNext
    \/ AllFunded
    \/ Classify

Sending ==
    \/ InternalTransfer
    \/ InternalTransferLost
    \/ LockWallet
    \/ PrepareFails
    \/ NodeSends
    \/ NodeRefusesFunds
    \/ NodeFails

Persisting ==
    \/ PersistSuccess
    \/ PersistPending
    \/ PersistFailed
    \/ PersistRolledBack
    \/ PersistRolledBackLate
    \/ PersistCommitLost

\* What the updater does once mainLoop's select has chosen a case.
Working == Polling \/ Updating \/ Sending \/ Persisting

Requests ==
    \E id \in Ids : WithdrawHeld(id) \/ WithdrawNow(id) \/ Confirm(id) \/ Cancel(id)

Environment ==
    \/ Crash
    \/ OperatorResolves
    \/ \E d \in Deposits : DepositArrives(d) \/ DepositConfirms(d)

Next ==
    \/ Start
    \/ Tick
    \/ Requests
    \/ TriggerTaken
    \/ TimerFires
    \/ Working
    \/ Environment

Spec == Init /\ [][Next]_vars

\* The process is restarted and inspected by an operator; the updater's steps
\* follow one another; timers fire; Go's select takes each ready case in turn.
Fairness ==
    /\ WF_vars(Start)
    /\ WF_vars(OperatorResolves)
    /\ WF_vars(Working)
    /\ WF_vars(Tick)
    /\ WF_vars(TimerFires)
    /\ SF_vars(TriggerTaken)

FairSpec == Spec /\ Fairness

-----------------------------------------------------------------------------
(* Properties.                                                             *)

\* No withdrawal is paid twice: over all retries, restarts, resubmissions of
\* the id and rounds of tryToUpdatePendingTxns, the node broadcasts it or the
\* internal transfer credits it at most once (wallet_operation and the row
\* written under it are what sendWithdrawal relies on).
PaidAtMostOnce == \A id \in Ids : sent[id] + credited[id] <= 1

\* Money that left the wallet is never forgotten: from the broadcast until its
\* row says so, wallet_operation names the withdrawal, so that Check stops a
\* restarted process until an operator has looked.
BroadcastIsRecorded ==
    \A id \in Ids : sent[id] > 0 => Status(id) = "new" \/ lock = id

\* The client is told of every broadcast exactly once: reported_confirmations
\* of a row says 0 if and only if its one NewOutgoingTx event was stored.
AnnouncedExactlyOnce ==
    \A id \in Ids \ ColdIds :
        announced[id] = IF rows[id].reported = 0 THEN 1 ELSE 0

\* No NewOutgoingTx event is stored twice for a withdrawal, however often the
\* transaction that stores it is retried and whatever the polls find meanwhile.
AnnouncedAtMostOnce == \A id \in Ids : announced[id] <= 1

\* A withdrawal waits for cold storage only while /get_required_from_cold_storage
\* asks the operator for money.
RequiredCoversPending ==
    (\E id \in Ids : Status(id) = "pending-cold-storage") => required > 0

\* When the updater is at rest, having nothing to retry and having seen all the
\* node knows, the money required is exactly what the pending withdrawals exceed
\* the balance by: no order of deposits, requests, failures and restarts leaves
\* a stale figure behind (updatePendingTxns runs after each of them).
AtRest == pc = "idle" /\ trigger = 0 /\ timers = 0 /\ ~NewTxInfo

RequiredIsExactAtRest ==
    AtRest =>
      LET missing == Total(GetPendingTransactions) - conf - Unconfirmed
      IN  required = IF missing > 0 THEN missing ELSE 0

\* The metric txns_waiting_manual_confirmation counts what its help text says,
\* whenever the updater waits for a request.
GaugeCountsHeld == pc = "idle" => gauge = Cardinality(Held)

\* No broadcast is ever stored under an id that StoreTransaction generates.
NoGeneratedIds == \A id \in Ids : strays[id] = 0

\* A pending withdrawal that the confirmed balance can pay for, with all the
\* others, does not stay pending: some update sends it or it is cancelled (unless
\* the node refuses that very withdrawal).
FundedPendingEventuallySent ==
    \A id \in Ids \ RefusedIds :
        []<>~(/\ id \in GetPendingTransactions
              /\ conf >= Total(GetPendingTransactions))

\* What a withdrawal's row, and what was paid for it, amount to in the ledger.
LedgerState(id) ==
    IF sent[id] + credited[id] > 0 THEN "paid"
    ELSE CASE Status(id) = "absent"                      -> "none"
           [] Status(id) = "pending-manual-confirmation" -> "held"
           [] id \in GetPendingTransactions              -> "queued"
           [] Status(id) = "cancelled"                   -> "cancelled"
           [] OTHER                                      -> "paid"

Ledger == INSTANCE WithdrawalLedger WITH
    Guarded  <- {id \in Ids : NeedsManualConfirmation(id)},
    state    <- [id \in Ids |-> LedgerState(id)],
    payments <- [id \in Ids |-> sent[id] + credited[id]]

\* Every step of the wallet is a step of the ledger or leaves it alone: paid at
\* most once, held until approved, and cancelled for good.
ImplementsLedger == Ledger!LedgerSpec

=============================================================================
