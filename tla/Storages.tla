------------------------------ MODULE Storages ------------------------------
(***************************************************************************)
(* The two implementations of the storage interfaces: the PostgreSQL one,  *)
(* used in production, and the memory one, on which the unit tests run.    *)
(* The wallet's own code drives both with the same calls.                  *)
(*                                                                         *)
(* The difference the model is about: PostgreSQL keeps rows of text and    *)
(* answers with copies; the memory storage keeps pointers and answers with *)
(* the pointers, so that what the wallet writes to a transaction it holds  *)
(* is written to the stored one.  A handle is a transaction the wallet     *)
(* holds: its fields, and the place in the heap it points to (0: a copy).  *)
(*                                                                         *)
(* The wallet is one goroutine, so a handler is one step, except that it   *)
(* lets go while the node sends the money.  Database failures, the choice  *)
(* of what is sent and reorganisations are left to Withdrawals and         *)
(* TxTracking: whatever the node answers is possible here.  Fresh, which   *)
(* only makes the pending withdrawals looked at sooner, is left out.       *)
(***************************************************************************)
EXTENDS Codec, Sequences, SequencesExt, FiniteSets

CONSTANTS
    Ids,               \* ids of withdrawal requests
    Request,           \* what each of them asks for
    Deposits,          \* hashes of incoming bitcoin transactions
    PaysTo,            \* the addresses each of them pays to
    AccountAddress,    \* the address CreateAccount generates
    HotAddress,        \* the address generated for the hot wallet
    MaxConfirmations,  \* transaction.max_confirmations
    MaxBlocks,         \* bound: blocks found
    MaxEvents          \* bound: events after which requests stop

ASSUME StoragesAssumption ==
    /\ IsFiniteSet(Ids) /\ IsFiniteSet(Deposits)
    /\ Ids \cap Deposits = {} /\ Ids \cap Nat = {}  \* a generated id is a number
    /\ "" \notin Ids \cup Deposits
    /\ \A id \in Ids : /\ Request[id].amount \in 0 .. 2 ^ (Width - 1) - 1
                       /\ Request[id].fee \in 0 .. 2 ^ (Width - 1) - 1
                       /\ Request[id].feeType \in {PerKBRateFee, FixedFee}
                       /\ Request[id].cold \in BOOLEAN
    /\ MaxConfirmations \in Nat \ {0}
    /\ MaxBlocks \in Nat /\ MaxEvents \in Nat

VARIABLES
    pg,       \* the PostgreSQL storages
    mem,      \* the memory storages
    sending,  \* the withdrawal the node is sending, as each run of the code holds it
    node,     \* confirmations of the bitcoin transactions; -1: not known yet
    height,   \* blocks found so far; the last one's hash is named by its height
    hot       \* hotWalletAddress of the wallet

vars == <<pg, mem, sending, node, height, hot>>

Nil == 0       \* uuid.Nil; a generated id is a number
Idle == << >>  \* nothing is being sent
Hashes == Deposits \cup Ids  \* the hash of a broadcast is named after its withdrawal

Init ==
    /\ pg = [kind |-> "postgres", rows |-> << >>, accounts |-> {},
             meta |-> << >>, events |-> << >>]
    /\ mem = [kind |-> "memory", heap |-> << >>, list |-> << >>, accounts |-> << >>,
              hot |-> "", hotWasSet |-> FALSE, seen |-> 0, money |-> 0, lock |-> "",
              events |-> << >>]
    /\ sending = Idle
    /\ node = [h \in Hashes |-> -1]
    /\ height = 0
    /\ hot = ""

-----------------------------------------------------------------------------
(* Metadata: rows of text by key, or fields.                               *)

GetMeta(s, key, default) == IF key \in DOMAIN s.meta THEN s.meta[key] ELSE default

SetMeta(s, key, text) ==
    [s EXCEPT !.meta = [k \in DOMAIN s.meta \cup {key} |->
                           IF k = key THEN text ELSE s.meta[k]]]

\* The text of a number of Width bits.
FormatUint(n) == [decimal |-> n]
ParseUint(text) == CHOOSE n \in 0 .. 2 ^ Width - 1 : FormatUint(n) = text

PgGetMoneyRequired(s) ==
    ParseUint(GetMeta(s, "money_required_from_cold_storage", FormatUint(0)))
PgSetMoneyRequired(s, n) ==
    SetMeta(s, "money_required_from_cold_storage", FormatUint(n))
MemGetMoneyRequired(s) == s.money
MemSetMoneyRequired(s, n) == [s EXCEPT !.money = n]

PgGetLastSeenBlockHash(s) == GetMeta(s, "last_seen_block_hash", 0)
PgSetLastSeenBlockHash(s, b) == SetMeta(s, "last_seen_block_hash", b)
MemSetLastSeenBlockHash(s, b) == [s EXCEPT !.seen = b]

\* The answer "" stands for ErrHotWalletAddressNotGeneratedYet.
PgGetHotWalletAddress(s) == GetMeta(s, "hot_wallet_address", "")
PgSetHotWalletAddress(s, a) == SetMeta(s, "hot_wallet_address", a)
MemGetHotWalletAddress(s) == IF s.hotWasSet THEN s.hot ELSE ""
MemSetHotWalletAddress(s, a) == [s EXCEPT !.hot = a, !.hotWasSet = TRUE]

PgLockWallet(s, operation) == SetMeta(s, "wallet_operation", operation)
PgClearWallet(s) == SetMeta(s, "wallet_operation", "")
PgCheckWalletLock(s) == GetMeta(s, "wallet_operation", "")
MemLockWallet(s, operation) == [s EXCEPT !.lock = operation]
MemClearWallet(s) == [s EXCEPT !.lock = ""]
MemCheckWalletLock(s) == s.lock

PgGetAccountByAddress(s, a) == a \in s.accounts
PgStoreAccount(s, a) == [s EXCEPT !.accounts = @ \cup {a}]
MemGetAccountByAddress(s, a) == \E i \in DOMAIN s.accounts : s.accounts[i] = a
MemStoreAccount(s, a) == [s EXCEPT !.accounts = Append(@, a)]

IsPg(s) == s.kind = "postgres"
SetMoneyRequiredFromColdStorage(s, n) ==
    IF IsPg(s) THEN PgSetMoneyRequired(s, n) ELSE MemSetMoneyRequired(s, n)
SetLastSeenBlockHash(s, b) ==
    IF IsPg(s) THEN PgSetLastSeenBlockHash(s, b) ELSE MemSetLastSeenBlockHash(s, b)
setHotWalletAddress(s, a) ==
    IF IsPg(s) THEN PgSetHotWalletAddress(s, a) ELSE MemSetHotWalletAddress(s, a)
LockWallet(s, op) == IF IsPg(s) THEN PgLockWallet(s, op) ELSE MemLockWallet(s, op)
ClearWallet(s) == IF IsPg(s) THEN PgClearWallet(s) ELSE MemClearWallet(s)
GetAccountByAddress(s, a) ==
    IF IsPg(s) THEN PgGetAccountByAddress(s, a) ELSE MemGetAccountByAddress(s, a)
StoreAccount(s, a) == IF IsPg(s) THEN PgStoreAccount(s, a) ELSE MemStoreAccount(s, a)

-----------------------------------------------------------------------------
(* Rows of the transactions table, and the heap of the memory storage.     *)

\* The columns an INSERT writes.
Row(tx) ==
    [id |-> tx.id, hash |-> tx.hash, confirmations |-> tx.confirmations,
     address |-> tx.address, direction |-> DirectionString(tx.direction),
     status |-> StatusString(tx.status), amount |-> tx.amount, fee |-> tx.fee,
     fee_type |-> FeeTypeString(tx.feeType), cold_storage |-> tx.cold,
     reported_confirmations |-> tx.reported]

\* Whether a row can be read: the fee type's error is ignored.
RowIsRead(row) ==
    /\ TransactionDirectionFromString(row.direction).ok
    /\ TransactionStatusFromString(row.status).ok

transactionFromDatabaseRow(row) ==
    [id |-> row.id, hash |-> row.hash, confirmations |-> row.confirmations,
     address |-> row.address,
     direction |-> TransactionDirectionFromString(row.direction).value,
     status |-> TransactionStatusFromString(row.status).value,
     amount |-> row.amount, fee |-> row.fee,
     feeType |-> FeeTypeFromString(row.fee_type).value, cold |-> row.cold_storage,
     reported |-> row.reported_confirmations]

Private(tx) == [ref |-> 0, tx |-> tx]

\* The loop over the rows of an answer: each one becomes a copy.
PgAnswer(rows) == [i \in DOMAIN rows |-> Private(transactionFromDatabaseRow(rows[i]))]

\* What a loop over s.transactions returns: the pointers.
MemAnswer(s, pointers) ==
    [i \in DOMAIN pointers |-> [ref |-> pointers[i], tx |-> s.heap[pointers[i]]]]

\* A loop over all of them that keeps some.
Selected(seq, Where(_)) ==
    FoldLeft(LAMBDA kept, x : IF Where(x) THEN Append(kept, x) ELSE kept, << >>, seq)

PgQuery(s, Where(_)) == PgAnswer(Selected(s.rows, Where))
MemQuery(s, Where(_)) == MemAnswer(s, Selected(s.list, LAMBDA p : Where(s.heap[p])))

PgGetTransactionByID(s, id) == PgQuery(s, LAMBDA r : r.id = id)
MemGetTransactionByID(s, id) == MemQuery(s, LAMBDA t : t.id = id)

PgGetTransactionByHash(s, hash) == PgQuery(s, LAMBDA r : r.hash = hash)
MemGetTransactionByHash(s, hash) == MemQuery(s, LAMBDA t : t.hash = hash)


PgGetTransactionByHashDirectionAndAddress(s, tx) ==
    PgQuery(s, LAMBDA r : /\ r.hash = tx.hash
                          /\ r.direction = DirectionString(tx.direction)
                          /\ r.address = tx.address)

MemGetTransactionByHashDirectionAndAddress(s, tx) ==
    MemQuery(s, LAMBDA t : /\ t.hash = tx.hash
                           /\ t.direction = tx.direction
                           /\ t.address = tx.address)

PgGetPendingTransactions(s) ==
    PgQuery(s, LAMBDA r : \/ r.status = StatusString(PendingTransaction)
                          \/ r.status = StatusString(PendingColdStorageTransaction))

MemGetPendingTransactions(s) ==
    MemQuery(s, LAMBDA t : t.status \in {PendingTransaction,
                                         PendingColdStorageTransaction})

\* The two differ in what they compare.
PgGetBroadcastedTransactionsWithLessConfirmations(s) ==
    PgQuery(s, LAMBDA r : r.confirmations < MaxConfirmations /\ r.hash # "")

MemGetBroadcastedTransactionsWithLessConfirmations(s) ==
    MemQuery(s, LAMBDA t : t.reported < MaxConfirmations /\ t.hash # "")

\* An empty filter lets everything through.
PgGetTransactionsWithFilter(s, direction, status) ==
    PgQuery(s, LAMBDA r : direction \in {"", r.direction} /\ status \in {"", r.status})

MemGetTransactionsWithFilter(s, direction, status) ==
    MemQuery(s, LAMBDA t : /\ direction \in {"", DirectionString(t.direction)}
                           /\ status \in {"", StatusString(t.status)})

GetTransactionByID(s, id) ==
    IF IsPg(s) THEN PgGetTransactionByID(s, id) ELSE MemGetTransactionByID(s, id)
GetTransactionByHashDirectionAndAddress(s, tx) ==
    IF IsPg(s) THEN PgGetTransactionByHashDirectionAndAddress(s, tx)
               ELSE MemGetTransactionByHashDirectionAndAddress(s, tx)
GetPendingTransactions(s) ==
    IF IsPg(s) THEN PgGetPendingTransactions(s) ELSE MemGetPendingTransactions(s)
GetBroadcastedTransactionsWithLessConfirmations(s) ==
    IF IsPg(s) THEN PgGetBroadcastedTransactionsWithLessConfirmations(s)
               ELSE MemGetBroadcastedTransactionsWithLessConfirmations(s)

-----------------------------------------------------------------------------
(* StoreTransaction.  Its result: the storage, the transaction returned,   *)
(* and what the caller's own transaction is afterwards.                    *)

\* Update also panics if the hash would change; PgKeepsTable says it never does.
Update(tx, other) ==
    [tx EXCEPT !.hash = other.hash, !.confirmations = other.confirmations,
               !.status = other.status]

PgUpdate(s, existing, h) ==
    [s |-> [s EXCEPT !.rows = [i \in DOMAIN @ |->
               IF @[i].id # existing.tx.id THEN @[i]
               ELSE [@[i] EXCEPT !.hash = h.tx.hash,
                                 !.confirmations = h.tx.confirmations,
                                 !.status = StatusString(h.tx.status)]]],
     h |-> Private(Update(existing.tx, h.tx)), own |-> h]

MemUpdate(s, existing, h) ==
    LET updated == [existing EXCEPT !.tx = Update(existing.tx, h.tx)]
    IN [s |-> [s EXCEPT !.heap[existing.ref] = updated.tx], h |-> updated,
        own |-> IF h.ref = existing.ref THEN updated ELSE h]

WithId(tx, n) == IF tx.id = Nil THEN [tx EXCEPT !.id = n] ELSE tx

PgInsert(s, h) ==
    LET stored == Private(WithId(h.tx, Len(s.rows) + 1))
    IN [s |-> [s EXCEPT !.rows = Append(@, Row(stored.tx))], h |-> stored, own |-> stored]

\* The caller's transaction itself is appended.
MemInsert(s, h) ==
    LET place == IF h.ref # 0 THEN h.ref ELSE Len(s.heap) + 1
        stored == [ref |-> place, tx |-> WithId(h.tx, Len(s.list) + 1)]
    IN [s |-> [s EXCEPT !.heap = [i \in DOMAIN @ \cup {place} |->
                                     IF i = place THEN stored.tx ELSE @[i]],
                        !.list = Append(@, place)],
        h |-> stored, own |-> stored]

\* The answer to the query by id, or to the one by hash if that found nothing.
FoundByHash(s, h, byId) ==
    IF byId = << >> /\ h.tx.hash # ""
      THEN GetTransactionByHashDirectionAndAddress(s, h.tx) ELSE byId

UpdateOrInsert(s, h, found) ==
    IF found # << >>
      THEN IF IsPg(s) THEN PgUpdate(s, found[1], h) ELSE MemUpdate(s, found[1], h)
      ELSE IF IsPg(s) THEN PgInsert(s, h) ELSE MemInsert(s, h)

FoundById(s, h) == IF h.tx.id # Nil THEN GetTransactionByID(s, h.tx.id) ELSE << >>

StoreTransactionById(s, h) ==  \* without the search by hash
    UpdateOrInsert(s, h, FoundById(s, h))

StoreTransaction(s, h) == UpdateOrInsert(s, h, FoundByHash(s, h, FoundById(s, h)))

PgUpdateReportedConfirmations(s, id, n) ==
    [s EXCEPT !.rows = [i \in DOMAIN @ |->
        IF @[i].id = id THEN [@[i] EXCEPT !.reported_confirmations = n] ELSE @[i]]]

MemUpdateReportedConfirmations(s, id, n) ==
    LET stored == MemGetTransactionByID(s, id)
    IN IF stored = << >> THEN s ELSE [s EXCEPT !.heap[stored[1].ref].reported = n]

updateReportedConfirmations(s, id, n) ==
    IF IsPg(s) THEN PgUpdateReportedConfirmations(s, id, n)
               ELSE MemUpdateReportedConfirmations(s, id, n)

-----------------------------------------------------------------------------
(* Events.  The memory storage numbers them from 0, PostgreSQL from 1.     *)

PgStoreEvent(s, type, data) ==
    [s EXCEPT !.events =
        Append(@, [seq |-> Len(@) + 1, type |-> EventTypeString(type),
                   data |-> IF type = NewAddressEvent THEN data
                            ELSE MarshalNotification(data)])]

MemStoreEvent(s, type, data) ==
    [s EXCEPT !.events = Append(@, [seq |-> Len(@), type |-> type, data |-> data])]

Notify(s, type, data) ==
    IF IsPg(s) THEN PgStoreEvent(s, type, data) ELSE MemStoreEvent(s, type, data)

NotifyTransaction(s, type, tx) == Notify(s, type, TxNotification(tx))

\* The data stays JSON.
PgGetEventsFromSeq(s, seq) == Selected(s.events, LAMBDA e : e.seq >= seq)

MemGetEventsFromSeq(s, seq) ==
    LET from == IF seq < Len(s.events) THEN seq ELSE Len(s.events)
    IN SubSeq(s.events, from + 1, Len(s.events))

\* The data goes through the unmarshaler registered for the event's type.
PgGetNextEventFromSeq(s, seq) == DecodeEvent(PgGetEventsFromSeq(s, seq)[1])

MemGetNextEventFromSeq(s, seq) == s.events[seq + 1]

-----------------------------------------------------------------------------
(* The wallet's code that reads and writes them.                           *)

\* Writing to a transaction the wallet holds: through a pointer, to the heap.
Write(s, h, tx) ==
    [s |-> IF h.ref = 0 THEN s ELSE [s EXCEPT !.heap[h.ref] = tx],
     h |-> [h EXCEPT !.tx = tx]]

statusByConfirmations(tx) ==
    IF tx.status > FullyConfirmedTransaction THEN tx.status
    ELSE CASE tx.confirmations <= 0 -> NewTransaction
           [] tx.confirmations \in 1 .. MaxConfirmations - 1 -> ConfirmedTransaction
           [] OTHER -> FullyConfirmedTransaction

getTransactionNotificationType(n, tx) ==
    IF tx.direction = IncomingDirection
      THEN IF n = 0 THEN NewIncomingTxEvent ELSE IncomingTxConfirmedEvent
      ELSE IF n = 0 THEN NewOutgoingTxEvent ELSE OutgoingTxConfirmedEvent

\* The event that a transaction has n confirmations.
Report(s, original, n) ==
    LET tx == [original EXCEPT !.confirmations = n, !.reported = n - 1]
        notification == [tx EXCEPT !.status = statusByConfirmations(tx)]
    IN updateReportedConfirmations(
           NotifyTransaction(s, getTransactionNotificationType(n, original), notification),
           original.id, n)

\* The numbers not reported yet.
Unreported(tx) ==
    LET last == IF tx.confirmations < MaxConfirmations
                  THEN tx.confirmations ELSE MaxConfirmations
    IN [i \in 1 .. last - tx.reported |-> tx.reported + i]

notifyTransaction(s, h) ==
    FoldLeft(LAMBDA storage, n : Report(storage, h.tx, n), s, Unreported(h.tx))

\* A handle to a transaction on which the node has news.
updateTxInfo(s, h) ==
    LET written == Write(s, h, [h.tx EXCEPT !.status = statusByConfirmations(h.tx)])
        stored == StoreTransaction(written.s, written.h)
    IN IF h.tx.address = hot \/ stored.h.tx.cold THEN stored.s
       ELSE notifyTransaction(stored.s, stored.h)

updatePendingTxStatus(s, h, status) ==
    LET written == Write(s, h, [h.tx EXCEPT !.status = status])
        stored == StoreTransaction(written.s, written.h)
        event == IF status = CancelledTransaction
                   THEN PendingTxCancelledEvent ELSE PendingStatusUpdatedEvent
    IN IF status = h.tx.status THEN s
       ELSE NotifyTransaction(stored.s, event, stored.own.tx)

\* A transfer between accounts: the withdrawal is stored as confirmed and
\* then, rewritten, stored once more as a deposit.
internalWithdrawBetweenOurAccounts(s, h) ==
    LET fee == IF h.tx.feeType = FixedFee THEN h.tx.fee ELSE 0
        done == Write(s, h, [h.tx EXCEPT !.fee = fee,
                                         !.confirmations = MaxConfirmations,
                                         !.status = FullyConfirmedTransaction])
        stored == StoreTransaction(done.s, done.h)
        out == IF h.tx.cold THEN [s |-> done.s, own |-> done.h]
               ELSE [s |-> notifyTransaction(stored.s, stored.h), own |-> stored.own]
        deposit == Write(out.s, out.own,
                         [out.own.tx EXCEPT !.reported = -1, !.direction = IncomingDirection,
                                            !.id = Nil, !.amount = @ - fee])
        credited == StoreTransaction(deposit.s, deposit.h)
    IN notifyTransaction(credited.s, credited.h)

handleWithdrawalSuccess(s, h) ==
    LET written == Write(s, h, [h.tx EXCEPT !.status = NewTransaction, !.hash = h.tx.id])
        stored == StoreTransaction(written.s, written.h)
    IN ClearWallet(IF h.tx.cold THEN stored.s ELSE notifyTransaction(stored.s, stored.own))

\* A copy is made pending.
handleWithdrawalError(s, h, insufficient) ==
    ClearWallet(IF insufficient /\ ~h.tx.cold
                  THEN updatePendingTxStatus(s, Private(h.tx), PendingTransaction)
                  ELSE s)

-----------------------------------------------------------------------------
(* Steps: the same call on either storage.                                 *)

Events == Len(pg.events)

\* The transaction Withdraw makes of a request.
outgoingTx(id) ==
    [id |-> id, hash |-> "", confirmations |-> 0, address |-> Request[id].address,
     direction |-> OutgoingDirection, status |-> NewTransaction,
     amount |-> Request[id].amount, fee |-> Request[id].fee,
     feeType |-> Request[id].feeType, cold |-> Request[id].cold,
     reported |-> -1]

NewTransactionFromBTCJSON(output) ==
    [id |-> Nil, hash |-> output.hash, confirmations |-> node[output.hash],
     address |-> output.address,
     direction |-> CASE output.category = "receive" -> IncomingDirection
                     [] output.category = "send" -> OutgoingDirection
                     [] OTHER -> UnknownDirection,
     status |-> NewTransaction, amount |-> output.amount, fee |-> 0,
     feeType |-> InvalidFee, cold |-> FALSE, reported |-> -1]

\* GetHotWalletAddress answers that there is none, and one is generated.
initHotWallet ==
    /\ hot = ""
    /\ hot' = HotAddress
    /\ pg' = setHotWalletAddress(pg, HotAddress)
    /\ mem' = setHotWalletAddress(mem, HotAddress)
    /\ UNCHANGED <<sending, node, height>>

CreateAccount ==
    /\ ~PgGetAccountByAddress(pg, AccountAddress)
    /\ pg' = Notify(StoreAccount(pg, AccountAddress), NewAddressEvent, AccountAddress)
    /\ mem' = Notify(StoreAccount(mem, AccountAddress), NewAddressEvent, AccountAddress)
    /\ UNCHANGED <<sending, node, height, hot>>

\* sendWithdrawal as far as the call to the node.
sendWithdrawal(inPg, inMem) ==
    IF GetAccountByAddress(pg, inPg.tx.address)
      THEN /\ inPg.tx.feeType = FixedFee => inPg.tx.amount >= inPg.tx.fee
           /\ pg' = internalWithdrawBetweenOurAccounts(pg, inPg)
           /\ mem' = internalWithdrawBetweenOurAccounts(mem, inMem)
           /\ UNCHANGED sending
      ELSE /\ pg' = LockWallet(pg, inPg.tx.id)
           /\ mem' = LockWallet(mem, inMem.tx.id)
           /\ sending' = <<[pg |-> inPg, mem |-> inMem]>>

\* The updater is in mainLoop, which Run enters after initHotWallet.
AtLoop == hot # "" /\ sending = Idle
Ready == AtLoop /\ Events < MaxEvents

\* ensureTxIDIsFree, then the request is held or sent.
Withdraw(id) ==
    /\ Ready
    /\ GetTransactionByID(pg, id) = << >>
    /\ Request[id].address # hot
    /\ LET tx == Private(outgoingTx(id))
       IN \/ /\ ~tx.tx.cold
             /\ pg' = updatePendingTxStatus(pg, tx, PendingManualConfirmationTransaction)
             /\ mem' = updatePendingTxStatus(mem, tx, PendingManualConfirmationTransaction)
             /\ UNCHANGED sending
          \/ sendWithdrawal(tx, tx)
    /\ UNCHANGED <<node, height, hot>>

confirmPendingTx(id) ==
    /\ Ready
    /\ LET inPg == GetTransactionByID(pg, id)
           inMem == GetTransactionByID(mem, id)
       IN /\ inPg # << >> /\ inMem # << >>
          /\ inPg[1].tx.status = PendingManualConfirmationTransaction
          /\ sendWithdrawal(inPg[1], inMem[1])
    /\ UNCHANGED <<node, height, hot>>

cancelPendingTx(id) ==
    /\ Ready
    /\ LET inPg == GetTransactionByID(pg, id)
           inMem == GetTransactionByID(mem, id)
       IN /\ inPg # << >> /\ inMem # << >>
          /\ inPg[1].tx.status \in {PendingTransaction, PendingColdStorageTransaction,
                                    PendingManualConfirmationTransaction}
          /\ pg' = updatePendingTxStatus(pg, inPg[1], CancelledTransaction)
          /\ mem' = updatePendingTxStatus(mem, inMem[1], CancelledTransaction)
    /\ UNCHANGED <<sending, node, height, hot>>

\* updatePendingTxns sends one of the pending withdrawals ...
SendPending ==
    /\ Ready
    /\ LET inPg == GetPendingTransactions(pg)
           inMem == GetPendingTransactions(mem)
       IN \E i \in DOMAIN inPg : /\ i \in DOMAIN inMem
                                 /\ sendWithdrawal(inPg[i], inMem[i])
    /\ UNCHANGED <<node, height, hot>>

\* ... or marks them by what unconfirmed money will cover (any of them, here),
\* and adds up the others.
Mark(s, h, covered) ==
    updatePendingTxStatus(s, h, IF h.tx.id \in covered THEN PendingTransaction
                                ELSE PendingColdStorageTransaction)

Exceed(money, h, covered) ==
    IF h.tx.id \in covered THEN money ELSE (money + h.tx.amount) % 2 ^ Width

MarkAll(s, covered) ==
    LET pending == GetPendingTransactions(s)
    IN SetMoneyRequiredFromColdStorage(
           FoldLeft(LAMBDA storage, h : Mark(storage, h, covered), s, pending),
           FoldLeft(LAMBDA money, h : Exceed(money, h, covered), 0, pending))

MarkPending ==
    /\ Ready
    /\ \E covered \in SUBSET Ids :
           /\ GetPendingTransactions(pg) # << >>
           /\ pg' = MarkAll(pg, covered)
           /\ mem' = MarkAll(mem, covered)
    /\ UNCHANGED <<sending, node, height, hot>>

\* The node answers: it has broadcast the withdrawal, or it has not.
SendSucceeds ==
    /\ sending # Idle
    /\ pg' = handleWithdrawalSuccess(pg, sending[1].pg)
    /\ mem' = handleWithdrawalSuccess(mem, sending[1].mem)
    /\ node' = [node EXCEPT ![sending[1].pg.tx.id] = 0]
    /\ sending' = Idle
    /\ UNCHANGED <<height, hot>>

SendFails ==
    /\ sending # Idle
    /\ \E insufficient \in BOOLEAN :
           /\ pg' = handleWithdrawalError(pg, sending[1].pg, insufficient)
           /\ mem' = handleWithdrawalError(mem, sending[1].mem, insufficient)
    /\ sending' = Idle
    /\ UNCHANGED <<node, height, hot>>

\* External: a deposit arrives; a block is found, with all that waits for one.
DepositArrives(d) ==
    /\ node[d] = -1
    /\ node' = [node EXCEPT ![d] = 0]
    /\ UNCHANGED <<pg, mem, sending, height, hot>>

BlockFound ==
    /\ height < MaxBlocks
    /\ height' = height + 1
    /\ node' = [h \in Hashes |-> IF node[h] >= 0 THEN node[h] + 1 ELSE node[h]]
    /\ UNCHANGED <<pg, mem, sending, hot>>

\* What listsinceblock lists: an output to an address of ours is received,
\* one of a withdrawal is sent, and a withdrawal to ourselves is both.
Outputs ==
    {[hash |-> p[1], category |-> "receive", address |-> p[2], amount |-> 1] :
         p \in {q \in Deposits \X {AccountAddress, HotAddress} : q[2] \in PaysTo[q[1]]}}
    \cup {[hash |-> id, category |-> "send", address |-> Request[id].address,
           amount |-> Request[id].amount] : id \in Ids}
    \cup {[hash |-> id, category |-> "receive", address |-> Request[id].address,
           amount |-> Request[id].amount] :
              id \in {i \in Ids : Request[i].address \in {AccountAddress, HotAddress}}}

GetLastSeenBlockHash(s) == IF IsPg(s) THEN PgGetLastSeenBlockHash(s) ELSE s.seen

Listed(s) == {o \in Outputs : node[o.hash] \in 0 .. height - GetLastSeenBlockHash(s)}

TakeListed(s, output) == updateTxInfo(s, Private(NewTransactionFromBTCJSON(output)))

TakeAllListed(s) == SetLastSeenBlockHash(FoldLeft(TakeListed, s, SetToSeq(Listed(s))), height)

checkForNewTransactions ==
    /\ AtLoop
    /\ pg' = TakeAllListed(pg)
    /\ mem' = TakeAllListed(mem)
    /\ UNCHANGED <<sending, node, height, hot>>

UpdateFromFullTxInfo(tx) == [tx EXCEPT !.confirmations = node[tx.hash]]

TakeKnown(s, h) ==
    LET written == Write(s, h, UpdateFromFullTxInfo(h.tx))
    IN updateTxInfo(written.s, written.h)

TakeAllKnown(s) == FoldLeft(TakeKnown, s, GetBroadcastedTransactionsWithLessConfirmations(s))

checkForExistingTransactionUpdates ==
    /\ AtLoop
    /\ pg' = TakeAllKnown(pg)
    /\ mem' = TakeAllKnown(mem)
    /\ UNCHANGED <<sending, node, height, hot>>

Next ==
    \/ initHotWallet
    \/ CreateAccount
    \/ \E id \in Ids : Withdraw(id) \/ confirmPendingTx(id) \/ cancelPendingTx(id)
    \/ SendPending
    \/ MarkPending
    \/ SendSucceeds
    \/ SendFails
    \/ \E d \in Deposits : DepositArrives(d)
    \/ BlockFound
    \/ checkForNewTransactions
    \/ checkForExistingTransactionUpdates

Spec == Init /\ [][Next]_vars

-----------------------------------------------------------------------------
(* Properties.                                                             *)

Transactions(answer) == {answer[i].tx : i \in DOMAIN answer}

\* What the PostgreSQL storage answers implements the table a storage
\* promises: through every handler, two rows of one bitcoin transaction
\* included, StoreTransaction finds the row an update belongs to, loses none
\* and makes none twice, and what is read back is what was stored.
PgTable == INSTANCE WalletTable WITH
    table <- {transactionFromDatabaseRow(r) : r \in {q \in ToSet(pg.rows) : RowIsRead(q)}}
PgKeepsTable == PgTable!Spec

\* A transfer between accounts, which has no bitcoin transaction.
Internal(tx) == tx.hash = "" /\ tx.status = FullyConfirmedTransaction

\* What a caller can tell of an answer; confirmations beyond the maximum are
\* not told apart, transfers between accounts are left out.
Seen(answer) ==
    {[tx EXCEPT !.confirmations = IF @ < MaxConfirmations THEN @ ELSE MaxConfirmations] :
         tx \in {t \in Transactions(answer) : ~Internal(t)}}

\* The memory storage still has the notification itself, one number lower.
\* (They differ for a transfer that breaks NoFeePerKB.)
SameEvent(kept, json) ==
    /\ json.seq = kept.seq + 1
    /\ json.type = EventTypeString(kept.type)
    /\ json.data = IF kept.type = NewAddressEvent THEN kept.data
                   ELSE MarshalNotification(kept.data)

Unconfirmed(seen) == {tx \in seen : tx.confirmations < MaxConfirmations}


\* "... but still have less than given number of confirmations"
\* (GetBroadcastedTransactionsWithLessConfirmations of the memory storage): a
\* transaction nobody is told about is never reported, and stays in the answer.
LessConfirmations ==
    \A tx \in Transactions(MemGetBroadcastedTransactionsWithLessConfirmations(mem)) :
        tx.confirmations < MaxConfirmations

\* What a transaction is about.
Subject(tx) == <<tx.address, tx.direction, tx.amount, tx.fee, tx.feeType, tx.cold>>

\* The answer to a query by id has what a transaction in an event says.
OnRecord(tx, stored) ==
    /\ stored # << >>
    /\ Subject(stored[1].tx) = Subject(tx)
    /\ tx.hash \in {"", stored[1].tx.hash}

\* The event numbered n, as JSON and as it is read.
ReadBack(n, json, read) ==
    /\ read.ok /\ read.seq = n /\ json.seq = n
    /\ json.type = EventTypeString(read.type)
    /\ IF read.type = NewAddressEvent
         THEN json.data = read.data /\ PgGetAccountByAddress(pg, read.data)
         ELSE /\ json.data = MarshalNotification(read.data)
              /\ OnRecord(read.data.tx, PgGetTransactionByID(pg, read.data.tx.id))

\* A reader of the events table gets what was sent: asking from a number
\* finds the event with that number, its JSON goes through the unmarshaler
\* registered for its type without an error and without losing anything, and
\* what is read names an account or transaction that is on record, as the
\* record has it, however it was updated since.
EventsReadBack ==
    \A n \in DOMAIN pg.events :
        ReadBack(n, PgGetEventsFromSeq(pg, n)[1], PgGetNextEventFromSeq(pg, n))

\* A transfer between accounts with a fee per kilobyte costs nothing: the code
\* logs that it is "treating this as a zero fee", and so no event of the
\* transfer names a fee.
NoFeePerKB ==
    \A n \in DOMAIN pg.events :
        LET e == pg.events[n]
            waits == {NewAddressEvent, PendingStatusUpdatedEvent, PendingTxCancelledEvent}
        IN /\ e.type \notin {EventTypeString(type) : type \in waits}
           /\ e.data.hash = "" /\ e.data.feeType # FeeTypeString(FixedFee)
           => e.data.fee = ToStringedFloat(0)
=============================================================================
