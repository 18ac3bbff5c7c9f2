----------------------------- MODULE TxTracking -----------------------------
(***************************************************************************)
(* How the wallet updater follows bitcoin transactions: the two polls of   *)
(* checkForWalletUpdates (wallet/updates.go), the rows and events they     *)
(* write, and the block tree of the node they follow.                      *)
(*                                                                         *)
(* checkForNewTransactions asks the node for what happened since the last  *)
(* block it has seen and moves that mark in the database transaction that  *)
(* stores the answer.  checkForExistingTransactionUpdates asks for every   *)
(* row that has not enough confirmations yet, one call per row.  Between   *)
(* two calls, and between the last call and the commit, blocks arrive, the *)
(* chain is reorganised and the process may die.                           *)
(*                                                                         *)
(* The same goroutine saves the withdrawals it has broadcast, and announces *)
(* them, in a database transaction of their own that is tried again when   *)
(* it fails.                                                               *)
(*                                                                         *)
(* A member of Txs is what the code stores as one row: a bitcoin           *)
(* transaction, its direction and one address it pays to.                  *)
(***************************************************************************)
EXTENDS Integers, FiniteSets, Sequences

CONSTANTS
    Txs,               \* transactions of the wallet
    NoTx,              \* none of them
    Kind,              \* what each of them is
    DoubleSpendable,   \* those whose inputs another transaction may spend
    MaxConfirmations,  \* transaction.max_confirmations
    MaxBlocks,         \* bound: blocks mined in a behaviour
    Faults,            \* the kinds of failure that may happen
    MaxFaults          \* bound: how many failures happen in a behaviour

Kinds == {"deposit",     \* pays to an address of an account
          "hot",         \* pays to the hot wallet address
          "withdrawal",  \* a withdrawal this application has broadcast
          "cold"}        \* a withdrawal to cold storage

FaultKinds == {"nodeError",  \* a node call fails
               "dbFail",     \* a database transaction is rolled back
               "dbFailLate", \* so is a save that had announced its withdrawal
               "dbLost",     \* it is committed, but Commit returns an error
               "crash"}      \* the process is killed

ASSUME TrackingAssumption ==
    /\ NoTx \notin Txs
    /\ Kind \in [Txs -> Kinds]
    /\ DoubleSpendable \subseteq Txs
    /\ MaxConfirmations \in Nat \ {0}
    /\ MaxBlocks \in Nat
    /\ Faults \subseteq FaultKinds
    /\ MaxFaults \in Nat

VARIABLES
    blocks,   \* the blocks the node knows, with parent and contents
    tip,      \* the last block of the active chain; 0 is the genesis block
    onNode,   \* transactions in the node's wallet
    best,     \* the most confirmations each transaction has had; -1: none seen
    account,  \* progress of CreateAccount for the address each deposit pays to
    accounts, \* those whose row in the accounts table is committed
    db,       \* the committed rows, events and last_seen_block_hash
    open,     \* the same as the updater's open database transaction sees it
    pc,       \* where the updater goroutine is
    todo,     \* rows checkForExistingTransactionUpdates has still to ask about
    changed,  \* anyTxInfoChanged
    booting,  \* Run has not reached mainLoop yet
    lock,     \* the withdrawal wallet_operation names in the database
    saving,   \* the broadcast withdrawal handleWithdrawalSuccess saves
    rolledBack, \* new withdrawals whose first event was rolled back once
    owed,     \* money appeared and updatePendingTxns has not run since
    lost,     \* some commit was reported as failed though it happened
    faults    \* failures so far

node == <<blocks, tip, onNode, best>>
memory == <<open, pc, todo, changed, booting>>
withdrawing == <<lock, saving, rolledBack>>
vars == <<node, account, accounts, db, memory, withdrawing, owed, lost, faults>>

NoBlock == 0  \* the empty block hash

NoRow == [stored |-> FALSE, conf |-> 0, status |-> "new", block |-> NoBlock,
          reported |-> -1, known |-> FALSE]

Statuses == {"new", "confirmed", "fully-confirmed"}
Accounts == {"none", "generated", "stored", "answered", "lost"}
Points == {"down", "idle", "list", "commit1", "update1",
           "existing", "get", "commit2", "update2", "save"}

\* A transaction in memory with its ReportedConfirmations, whether the
\* database has a pending row of it, and where the updater goes on afterwards.
SavingType == [tx : Txs \cup {NoTx}, reported : {-1, 0}, pending : BOOLEAN,
               back : {"list", "update1", "update2"}]

NoSaving == [tx |-> NoTx, reported |-> -1, pending |-> FALSE, back |-> "list"]

RowType == [stored : BOOLEAN, conf : Int, status : Statuses, block : Nat,
            reported : -1 .. MaxConfirmations, known : BOOLEAN]

EventType == [conf : 0 .. MaxConfirmations, status : Statuses, block : Nat,
              known : BOOLEAN]

DatabaseType == [rows : [Txs -> RowType], events : [Txs -> Seq(EventType)], seen : Nat]

BlockType == [parent : Nat, txs : SUBSET Txs, rivals : SUBSET DoubleSpendable]

\* The types of the state; a block comes after its parent, and the mark names
\* a block the node knows.
TypeOK ==
    /\ blocks \in Seq(BlockType) /\ Len(blocks) <= MaxBlocks
    /\ \A b \in 1 .. Len(blocks) : blocks[b].parent < b
    /\ tip \in 0 .. Len(blocks)
    /\ onNode \subseteq Txs
    /\ best \in [Txs -> -1 .. MaxBlocks]
    /\ account \in [Txs -> Accounts]
    /\ accounts \subseteq Txs
    /\ db \in DatabaseType /\ db.seen <= Len(blocks)
    /\ open \in DatabaseType /\ open.seen <= Len(blocks)
    /\ pc \in Points
    /\ todo \subseteq Txs
    /\ changed \in BOOLEAN /\ booting \in BOOLEAN
    /\ lock \in Txs \cup {NoTx}
    /\ saving \in SavingType
    /\ rolledBack \subseteq Txs
    /\ owed \in BOOLEAN /\ lost \in BOOLEAN
    /\ faults \in 0 .. MaxFaults

EmptyDatabase == [rows |-> [t \in Txs |-> NoRow],
                  events |-> [t \in Txs |-> << >>],
                  seen |-> NoBlock]

Init ==
    /\ blocks = << >>
    /\ tip = 0
    /\ onNode = {}
    /\ best = [t \in Txs |-> -1]
    /\ account = [t \in Txs |-> "none"]
    /\ accounts = {}
    /\ db = EmptyDatabase
    /\ open = EmptyDatabase
    /\ pc = "down"
    /\ todo = {}
    /\ changed = FALSE
    /\ booting = FALSE
    /\ lock = NoTx
    /\ saving = NoSaving
    /\ rolledBack = {}
    /\ owed = FALSE
    /\ lost = FALSE
    /\ faults = 0

Fault(kind) == kind \in Faults /\ faults < MaxFaults /\ faults' = faults + 1

-----------------------------------------------------------------------------
(* The node: a tree of blocks; the active chain is the longest one that    *)
(* was completed first.                                                    *)

\* The blocks from b down to the genesis block.
Chain(b) ==
    LET chain[c \in 0 .. Len(blocks)] ==
          IF c = 0 THEN {0} ELSE {c} \cup chain[blocks[c].parent]
    IN chain[b]

Height(b) == Cardinality(Chain(b)) - 1

\* The block of the chain of b that has t, or NoBlock.
BlockOf(t, b) ==
    IF \E c \in Chain(b) \ {0} : t \in blocks[c].txs
    THEN CHOOSE c \in Chain(b) \ {0} : t \in blocks[c].txs
    ELSE NoBlock

\* The block of the chain of b that has a double spend of t, or NoBlock.
RivalOf(t, b) ==
    IF \E c \in Chain(b) \ {0} : t \in blocks[c].rivals
    THEN CHOOSE c \in Chain(b) \ {0} : t \in blocks[c].rivals
    ELSE NoBlock

Depth(b) == Height(tip) - Height(b) + 1

\* What gettransaction says: negative for a transaction that lost its inputs.
Confirmations(t) ==
    IF BlockOf(t, tip) # NoBlock THEN Depth(BlockOf(t, tip))
    ELSE IF RivalOf(t, tip) # NoBlock THEN -Depth(RivalOf(t, tip))
    ELSE 0

\* What listsinceblock says: all that lies above the last block the active
\* chain shares with the chain of the given one, and the unconfirmed.
ListTransactionsSinceBlock(since) ==
    LET shared == Chain(tip) \cap Chain(since)
        fork == CHOOSE b \in shared : \A c \in shared : Height(c) <= Height(b)
    IN {t \in onNode : Confirmations(t) < Depth(fork)}

\* Keeps the record of the most confirmations up to date.
RecordBest ==
    best' = [t \in Txs |-> IF t \in onNode' /\ Confirmations(t)' > best[t]
                            THEN Confirmations(t)' ELSE best[t]]

\* A miner extends some known block; the node follows the longest chain.
Mine(b, txs, rivals) ==
    LET n == Len(blocks) + 1 IN
    /\ Len(blocks) < MaxBlocks
    /\ \A t \in txs \cup rivals : BlockOf(t, b) = NoBlock /\ RivalOf(t, b) = NoBlock
    /\ txs \cap rivals = {}
    /\ blocks' = Append(blocks, [parent |-> b, txs |-> txs, rivals |-> rivals])
    /\ tip' = IF Height(b) + 1 > Height(tip) THEN n ELSE tip
    /\ UNCHANGED <<onNode, account, accounts, db, memory, withdrawing, owed, lost, faults>>
    /\ RecordBest

\* Somebody pays to an address: of the hot wallet, or one an API call gave out.
Pay(t) ==
    /\ t \notin onNode
    /\ Kind[t] \in {"deposit", "hot"}
    /\ Kind[t] = "deposit" => account[t] = "answered"
    /\ onNode' = onNode \cup {t}
    /\ UNCHANGED <<blocks, tip, account, accounts, db, memory, withdrawing, owed, lost, faults>>
    /\ RecordBest

-----------------------------------------------------------------------------
(* CreateAccount, run by a goroutine of the API.                           *)

AccountIs(t, before, after) ==
    /\ pc # "down"
    /\ account[t] = before
    /\ account' = [account EXCEPT ![t] = after]
    /\ UNCHANGED <<node, db, memory, withdrawing, owed, lost>>

GenerateNewAddress(t) ==
    /\ Kind[t] = "deposit"
    /\ AccountIs(t, "none", "generated")
    /\ UNCHANGED <<accounts, faults>>

\* Mutant of StoreAccount: an error of the database is not returned.
StoreAccountNoError(t) ==
    \/ AccountIs(t, "generated", "stored") /\ accounts' = accounts \cup {t} /\ UNCHANGED faults
    \/ AccountIs(t, "generated", "stored") /\ UNCHANGED accounts /\ Fault("dbFail")

\* The account and its event are one transaction; an error ends the call.
StoreAccount(t) ==
    \/ AccountIs(t, "generated", "stored") /\ accounts' = accounts \cup {t} /\ UNCHANGED faults
    \/ AccountIs(t, "generated", "none") /\ UNCHANGED accounts /\ Fault("dbFail")
    \/ AccountIs(t, "generated", "lost") /\ accounts' = accounts \cup {t} /\ Fault("dbLost")

\* The address goes to the client only now.
AnswerAccount(t) ==
    AccountIs(t, "stored", "answered") /\ UNCHANGED <<accounts, faults>>

-----------------------------------------------------------------------------
(* Rows and events.                                                        *)

\* The number of confirmations as notifyTransaction counts them.
Capped(conf) == IF conf < MaxConfirmations THEN conf ELSE MaxConfirmations

setTxStatusByConfirmations(conf) ==
    IF conf <= 0 THEN "new"
    ELSE IF conf < MaxConfirmations THEN "confirmed"
    ELSE "fully-confirmed"

\* Transactions between the wallet's own storages are not announced.
Announced(t) == Kind[t] \in {"deposit", "withdrawal"}

\* Mutant of Notification: the event of a new transaction names its block.
NotificationWithBlock(row, conf) ==
    [conf |-> conf, status |-> setTxStatusByConfirmations(conf),
     block |-> row.block, known |-> row.known]

\* The event for one number of confirmations: the row as it was back then.
Notification(row, conf) ==
    [conf |-> conf,
     status |-> setTxStatusByConfirmations(conf),
     block |-> IF conf = 0 THEN NoBlock ELSE row.block,
     known |-> row.known]

\* Mutant of notifyTransaction: counts from the confirmations stored before.
notifyTransactionFromStored(d, t) ==
    LET row == d.rows[t]
        from == db.rows[t].conf
        upTo == Capped(row.conf)
    IN IF ~Announced(t) \/ upTo <= from THEN d
       ELSE [d EXCEPT !.rows[t].reported = upTo,
                      !.events[t] = @ \o [n \in 1 .. upTo - from |->
                                            Notification(row, from + n)]]

\* Announces each number of confirmations not reported yet.
notifyTransaction(d, t) ==
    LET row == d.rows[t]
        upTo == Capped(row.conf)
    IN IF ~Announced(t) \/ upTo <= row.reported THEN d
       ELSE [d EXCEPT !.rows[t].reported = upTo,
                      !.events[t] = @ \o [n \in 1 .. upTo - row.reported |->
                                            Notification(row, row.reported + n)]]

\* Mutant of StoreTransaction: a fully confirmed row is left alone.
StoreTransactionFinal(row, t) ==
    IF row.status = "fully-confirmed" THEN row
    ELSE [(IF row.stored THEN row ELSE [NoRow EXCEPT !.stored = TRUE, !.known = (t \in accounts)])
            EXCEPT !.conf = Confirmations(t),
                   !.block = BlockOf(t, tip),
                   !.status = setTxStatusByConfirmations(Confirmations(t))]

\* The row of t after the node's current answer about it.  An existing row
\* keeps what it says of the account.
StoreTransaction(row, t) ==
    LET fresh == [NoRow EXCEPT !.stored = TRUE, !.known = (t \in accounts)]
    IN [(IF row.stored THEN row ELSE fresh) EXCEPT
          !.conf = Confirmations(t),
          !.block = BlockOf(t, tip),
          !.status = setTxStatusByConfirmations(Confirmations(t))]

updateTxInfo(d, t) ==
    notifyTransaction([d EXCEPT !.rows[t] = StoreTransaction(d.rows[t], t)], t)

\* Every transaction the node lists, each in a row of its own.
StoreListed(d, listed) ==
    [d EXCEPT
       !.rows = [t \in Txs |-> IF t \in listed THEN updateTxInfo(d, t).rows[t]
                               ELSE d.rows[t]],
       !.events = [t \in Txs |-> IF t \in listed THEN updateTxInfo(d, t).events[t]
                                 ELSE d.events[t]]]

\* A commit stores a transaction that was unknown or gained confirmations.
MoneyAppeared(t) ==
    \/ db.rows[t].stored # db'.rows[t].stored
    \/ db.rows[t].status # db'.rows[t].status /\ db'.rows[t].status # "new"

-----------------------------------------------------------------------------
(* The updater goroutine.                                                  *)

\* The poll's function returned: the database transaction is over.
EndPoll(next) ==
    /\ open' = db'
    /\ todo' = {}
    /\ changed' = FALSE
    /\ pc' = next

\* After both polls the loop goes on; at the start updatePendingTxns runs.
AfterPolls == IF booting THEN "update2" ELSE "idle"

\* Check refuses to start while wallet_operation is set.
Start ==
    /\ pc = "down"
    /\ lock = NoTx
    /\ pc' = "list"
    /\ booting' = TRUE
    /\ UNCHANGED <<node, account, accounts, db, withdrawing, open, todo, changed, owed, lost, faults>>

Tick ==
    /\ pc = "idle"
    /\ pc' = "list"
    /\ UNCHANGED <<node, account, accounts, db, withdrawing, open, todo, changed, booting, owed, lost, faults>>

\* checkForNewTransactions up to the commit: the node answers once.
List ==
    LET listed == ListTransactionsSinceBlock(db.seen)
        stored == StoreListed(db, listed)
    IN
    /\ pc = "list"
    /\ open' = [stored EXCEPT !.seen = tip]
    /\ changed' = \E t \in listed : ~db.rows[t].stored
                                      \/ stored.rows[t].status # "new"
    /\ pc' = "commit1"
    /\ UNCHANGED <<node, account, accounts, db, withdrawing, todo, booting, owed, lost, faults>>

ListFails ==
    /\ pc = "list"
    /\ Fault("nodeError")
    /\ pc' = "existing"
    /\ UNCHANGED <<node, account, accounts, db, withdrawing, open, todo, changed, booting, owed, lost>>

Commits ==
    /\ db' = open
    /\ owed' = (owed \/ \E t \in Txs : MoneyAppeared(t))
    /\ UNCHANGED <<node, account, accounts, withdrawing, booting>>

CommitNew ==
    /\ pc = "commit1"
    /\ Commits
    /\ EndPoll(IF changed THEN "update1" ELSE "existing")
    /\ UNCHANGED <<lost, faults>>

\* Mutant of CommitNewFails: last_seen_block_hash is stored on its own.
CommitNewFailsMarkKept ==
    /\ pc = "commit1"
    /\ Fault("dbFail")
    /\ db' = [db EXCEPT !.seen = open.seen]
    /\ EndPoll("existing")
    /\ UNCHANGED <<node, account, accounts, withdrawing, booting, owed, lost>>

\* Rolled back: the error is logged and the other poll goes on.
CommitNewFails ==
    /\ pc = "commit1"
    /\ Fault("dbFail")
    /\ UNCHANGED db
    /\ EndPoll("existing")
    /\ UNCHANGED <<node, account, accounts, withdrawing, booting, owed, lost>>

\* Committed, but taken for a failure: updatePendingTxns is not called.
CommitNewLost ==
    /\ pc = "commit1"
    /\ Fault("dbLost")
    /\ lost' = TRUE
    /\ Commits
    /\ EndPoll("existing")

UpdatePendingTxns ==
    /\ \/ pc = "update1" /\ pc' = "existing" /\ UNCHANGED booting
       \/ pc = "update2" /\ pc' = "idle" /\ booting' = FALSE
    /\ owed' = FALSE
    /\ UNCHANGED <<node, account, accounts, db, withdrawing, open, todo, changed, lost, faults>>

\* Mutant: rows that were fully announced are not asked about.
GetBroadcastedByReported ==
    {t \in Txs : db.rows[t].stored /\ db.rows[t].reported < MaxConfirmations - 1}

GetBroadcastedTransactionsWithLessConfirmations ==
    {t \in Txs : db.rows[t].stored /\ db.rows[t].conf < MaxConfirmations}

CheckExisting ==
    /\ pc = "existing"
    /\ todo' = GetBroadcastedTransactionsWithLessConfirmations
    /\ pc' = IF todo' = {} THEN "commit2" ELSE "get"
    /\ UNCHANGED <<node, account, accounts, db, withdrawing, open, changed, booting, owed, lost, faults>>

\* The node answers about one row; other calls follow.
GetTransaction(t) ==
    /\ pc = "get"
    /\ t \in todo
    /\ open' = updateTxInfo(open, t)
    /\ changed' = (changed \/ open'.rows[t].status # open.rows[t].status)
    /\ todo' = todo \ {t}
    /\ pc' = IF todo' = {} THEN "commit2" ELSE "get"
    /\ UNCHANGED <<node, account, accounts, db, withdrawing, booting, owed, lost, faults>>

GetTransactionFails ==
    /\ pc = "get"
    /\ Fault("nodeError")
    /\ UNCHANGED db
    /\ EndPoll(AfterPolls)
    /\ UNCHANGED <<node, account, accounts, withdrawing, booting, owed, lost>>

\* Mutant of CommitExisting: updatePendingTxns is not called.
CommitExistingForgets ==
    /\ pc = "commit2"
    /\ Commits
    /\ EndPoll(AfterPolls)
    /\ UNCHANGED <<lost, faults>>

CommitExisting ==
    /\ pc = "commit2"
    /\ Commits
    /\ EndPoll(IF changed THEN "update2" ELSE AfterPolls)
    /\ UNCHANGED <<lost, faults>>

CommitExistingFails ==
    /\ pc = "commit2"
    /\ Fault("dbFail")
    /\ UNCHANGED db
    /\ EndPoll(AfterPolls)
    /\ UNCHANGED <<node, account, accounts, withdrawing, booting, owed, lost>>

CommitExistingLost ==
    /\ pc = "commit2"
    /\ Fault("dbLost")
    /\ lost' = TRUE
    /\ Commits
    /\ EndPoll(AfterPolls)

\* The process is gone: open transactions are rolled back, and CreateAccount
\* calls that were under way never answer.
Down ==
    /\ EndPoll("down")
    /\ booting' = FALSE
    /\ saving' = NoSaving
    /\ account' = [t \in Txs |-> CASE account[t] = "generated" -> "none"
                                   [] account[t] = "stored" -> "lost"
                                   [] OTHER -> account[t]]

Crash ==
    /\ pc # "down"
    /\ Fault("crash")
    /\ UNCHANGED db
    /\ Down
    /\ UNCHANGED <<node, accounts, lock, rolledBack, owed, lost>>

-----------------------------------------------------------------------------
(* Withdrawals, from the broadcast on (module Withdrawals has what comes   *)
(* before it, and counts the retries of the save).                         *)

\* sendWithdrawal has set wallet_operation and the node has broadcast t: a new
\* request, a confirmed one, or one that updatePendingTxns found money for.
Withdraw(t, pending) ==
    /\ pc \in {"idle", "update1", "update2"}
    /\ pc # "idle" => pending
    /\ Kind[t] \in (IF pending THEN {"withdrawal"} ELSE {"withdrawal", "cold"})
    /\ t \notin onNode
    /\ onNode' = onNode \cup {t}
    /\ lock' = t
    /\ saving' = [tx |-> t, reported |-> -1, pending |-> pending,
                  back |-> IF pc = "idle" THEN "list" ELSE pc]
    /\ pc' = "save"
    /\ UNCHANGED <<blocks, tip, account, accounts, db, rolledBack, open, todo, changed, booting, owed, lost, faults>>
    /\ RecordBest

\* What one attempt of the save writes.  A row is inserted with the number
\* of reported confirmations the transaction has in memory; a pending row keeps
\* its own.  notifyTransaction looks at the number in memory, too.
SaveOf(s) ==
    LET fresh == [NoRow EXCEPT !.stored = TRUE,
                               !.reported = IF s.pending THEN -1 ELSE s.reported]
        d == [db EXCEPT !.rows[s.tx] = IF @.stored THEN @ ELSE fresh]
    IN IF s.reported = -1 THEN notifyTransaction(d, s.tx) ELSE d

\* The number in memory once an attempt has come to its end: nothing sets it
\* back when the database transaction is rolled back.
ReportedAfter(s) == IF Announced(s.tx) THEN 0 ELSE s.reported

SaveWithdrawal ==
    /\ pc = "save"
    /\ db' = SaveOf(saving)
    /\ lock' = NoTx
    /\ saving' = NoSaving
    /\ EndPoll(saving.back)
    /\ UNCHANGED <<node, account, accounts, rolledBack, booting, owed, lost, faults>>

\* persistFunc returns an error: it is called again, or this was the last
\* attempt and the process panics.
SaveFails(reported) ==
    /\ \/ EndPoll("save") /\ saving' = [saving EXCEPT !.reported = reported] /\ UNCHANGED <<account, booting>>
       \/ Down
    /\ UNCHANGED <<node, accounts, owed, lost>>

\* Rolled back before notifyTransaction.
SaveRolledBack ==
    /\ pc = "save"
    /\ Fault("dbFail")
    /\ UNCHANGED <<db, lock, rolledBack>>
    /\ SaveFails(saving.reported)

\* Rolled back after notifyTransaction, by ClearWallet or the commit.
SaveRolledBackLate ==
    /\ pc = "save"
    /\ Fault("dbFailLate")
    /\ UNCHANGED <<db, lock>>
    /\ rolledBack' = IF saving.reported # ReportedAfter(saving) /\ ~saving.pending
                     THEN rolledBack \cup {saving.tx} ELSE rolledBack
    /\ SaveFails(ReportedAfter(saving))

\* Committed, but taken for a failure.
SaveLost ==
    /\ pc = "save"
    /\ Fault("dbLost")
    /\ db' = SaveOf(saving)
    /\ lock' = NoTx
    /\ UNCHANGED rolledBack
    /\ SaveFails(ReportedAfter(saving))

\* The operator does what the message of Check asks for: the broadcast
\* withdrawal gets its row, and wallet_operation is deleted.
OperatorResolves ==
    /\ pc = "down"
    /\ lock # NoTx
    /\ db' = [db EXCEPT !.rows[lock].stored = TRUE]
    /\ open' = db'
    /\ lock' = NoTx
    /\ UNCHANGED <<node, account, accounts, saving, rolledBack, pc, todo, changed, booting, owed, lost, faults>>

-----------------------------------------------------------------------------
UpdaterStep ==
    \/ Start
    \/ Tick
    \/ List
    \/ CommitNew
    \/ UpdatePendingTxns
    \/ CheckExisting
    \/ \E t \in Txs : GetTransaction(t)
    \/ CommitExisting
    \/ SaveWithdrawal

UpdaterFault ==
    \/ ListFails
    \/ CommitNewFails
    \/ CommitNewLost
    \/ GetTransactionFails
    \/ CommitExistingFails
    \/ CommitExistingLost
    \/ SaveRolledBack
    \/ SaveRolledBackLate
    \/ SaveLost
    \/ Crash

Environment ==
    \/ \E b \in 0 .. Len(blocks) : \E txs \in SUBSET onNode :
         \E rivals \in SUBSET (DoubleSpendable \cap onNode) : Mine(b, txs, rivals)
    \/ \E t \in Txs : Pay(t)
    \/ \E t \in Txs, pending \in BOOLEAN : Withdraw(t, pending)
    \/ OperatorResolves
    \/ \E t \in Txs : GenerateNewAddress(t) \/ StoreAccount(t) \/ AnswerAccount(t)

Next == UpdaterStep \/ UpdaterFault \/ Environment

\* The updater goroutine always has something to do: its ticker fires, and
\* the process is restarted when it has died, once the operator has resolved
\* what Check complains about.
Spec == Init /\ [][Next]_vars /\ WF_vars(UpdaterStep) /\ WF_vars(OperatorResolves)

-----------------------------------------------------------------------------
(* Properties.                                                             *)

\* Whatever the commits, crashes and reorganisations, the events a client
\* can read are those ConfirmationFeed promises: no number of confirmations
\* is skipped, repeated, or announced before the node had counted that far.
\* The one exception is the number 0 of a new withdrawal whose save was rolled
\* back after notifyTransaction: the retry of handleWithdrawalSuccess does not
\* announce it again.  A pending one is announced by the next poll.
Feed == INSTANCE ConfirmationFeed WITH
            feed <- [t \in Txs |-> [n \in 1 .. Len(db.events[t]) |->
                                      db.events[t][n].conf]]
FeedSpec == Feed!Spec

\* Every transaction in the blocks up to the mark last_seen_block_hash has a
\* row: the next listsinceblock will not mention it any more.
NothingMissed ==
    \A t \in Txs : BlockOf(t, db.seen) # NoBlock => db.rows[t].stored

\* An event of a confirmation names a block the transaction was mined in,
\* also when the confirmations before it were counted on another branch; the
\* event of a new transaction names none, even if it is sent late.
EventsNameBlocks ==
    \A t \in Txs : \A n \in 1 .. Len(db.events[t]) :
        LET e == db.events[t][n] IN
        IF e.conf = 0 THEN e.block = NoBlock
        ELSE e.block # NoBlock /\ t \in blocks[e.block].txs

\* A deposit to an address that CreateAccount has given out is never taken
\* for one to an unknown account, which its row would say for good.
DepositsKnown ==
    \A t \in Txs : Kind[t] = "deposit" /\ db.rows[t].stored => db.rows[t].known

\* Once the chain rests, every row comes to agree with the node, up to the
\* confirmations beyond the maximum: also a row that was fully confirmed and
\* then thrown out of the chain, and one whose poll failed.  (Not so the block
\* of a fully confirmed row: when the chain leaves a branch right after a
\* checkForNewTransactions and comes back before the next one, the row may
\* keep the block of the other branch, as neither poll asks about it again.)
RowsFollowNode ==
    <>[](\A t \in onNode :
           LET row == db.rows[t] IN
           /\ row.stored
           /\ Capped(row.conf) = Capped(Confirmations(t))
           /\ row.conf < MaxConfirmations => row.block = BlockOf(t, tip)
           /\ row.status = setTxStatusByConfirmations(Confirmations(t)))

\* Each new transaction, and each change of a status to confirmed or fully
\* confirmed, is followed by updatePendingTxns, which may now have money to
\* spend, unless a commit was taken for a failure.  (A change back to new is
\* not: updateTxInfo compares the status with new, not with the stored one,
\* so money that a reorganisation takes away is noticed by a later update.)
PendingReconsidered == []<>(~owed \/ lost)
=============================================================================
