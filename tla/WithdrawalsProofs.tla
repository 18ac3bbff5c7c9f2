------------------------- MODULE WithdrawalsProofs -------------------------
(***************************************************************************)
(* Proofs about Withdrawals for every set of withdrawals, every balance,   *)
(* every sequence of deposits and any number of failures.                  *)
(***************************************************************************)
EXTENDS Withdrawals, FoldTheorems

\* The points at which the updater has a transaction in hand.
SendingPoints == {"prepare", "send", "persistOK", "persistPending", "persistFailed"}

\* Whoever sends has a withdrawal in hand, and no broadcast is recorded that the
\* node did not make: what TypeOK needs to be inductive.
HasTransaction == pc \in SendingPoints => cur.id \in Ids

RecordedWasSent ==
    /\ \A id \in Ids : Unrecorded(id) >= 0
    /\ pc = "persistOK" => Status(cur.id) = "new" \/ Unrecorded(cur.id) >= 1

TypeInv == TypeOK /\ HasTransaction /\ RecordedWasSent

\* The number of held rows, which Run stores in the metric, is a number.
LEMMA HeldCount == Cardinality(Held) \in Nat
<1>1. Held \subseteq Ids
  BY DEF Held
<1>2. IsFiniteSet(Held)
  BY <1>1, FinitenessAssumption, FS_Subset
<1>. QED
  BY <1>2, FS_CardinalityType

\* The unconfirmed balance the node reports is a number.
LEMMA UnconfirmedType == Unconfirmed \in Nat
<1>. DEFINE U == {d \in Deposits : deposit[d] = "unconfirmed"}
<1>1. IsFiniteSet(U)
  <2>1. U \subseteq Deposits
    OBVIOUS
  <2>. QED
    BY <2>1, FinitenessAssumption, FS_Subset
<1>2. Cardinality(U) \in Nat
  BY <1>1, FS_CardinalityType
<1>3. DepositAmount \in Nat
  BY ConstantsAssumption
<1>. HIDE DEF U
<1>4. DepositAmount * Cardinality(U) \in Nat
  BY <1>2, <1>3
<1>. QED
  BY <1>4 DEF Unconfirmed, U

\* The initial state has its types, and nothing was sent or recorded in it.
LEMMA InitTypeInv == Init => TypeInv
<1>. SUFFICES ASSUME Init
              PROVE  TypeInv
  OBVIOUS
<1>. USE DEF Init
<1>1. TypeOK
  <2>1. rows \in [Ids -> [status : Statuses, reported : {-1, 0}]]
    BY DEF Statuses
  <2>2. cur \in [id : Ids \cup {NoId}, from : {"none", "withdraw", "confirm", "loop"},
                reported : {-1, 0}]
    BY DEF NoTx
  <2>3. plan \in [queue : SUBSET Ids, avail : Nat, unconf : Nat]
    BY DEF NoPlan
  <2>4. /\ trigger \in 0..TriggerCapacity /\ timers \in 0..MaxTimers
        /\ retries \in 0..WithdrawSaveRetries /\ faults \in 0..MaxFaults
        /\ conf \in Nat
    BY ConstantsAssumption
  <2>5. seen \in [Deposits -> DepositStates] /\ deposit \in [Deposits -> DepositStates]
    BY DEF DepositStates
  <2>6. booting \in BOOLEAN
    BY Zenon
  <2>7. /\ strays \in [Ids -> Nat] /\ sent \in [Ids -> Nat]
        /\ credited \in [Ids -> Nat] /\ announced \in [Ids -> Nat]
    OBVIOUS
  <2>8. lock \in Ids \cup {NoId} /\ approved \subseteq Ids /\ pc \in Points
        /\ ret \in {"idle", "poll1", "poll2", "update"} /\ gauge \in Int
    BY DEF Points
  <2>. QED
    BY ONLY <2>1, <2>2, <2>3, <2>4, <2>5, <2>6, <2>7, <2>8, Zenon
    DEF TypeOK, DatabaseTypeOK, OutsideTypeOK, MemoryTypeOK
<1>2. HasTransaction /\ RecordedWasSent
  BY DEF HasTransaction, RecordedWasSent, SendingPoints, Unrecorded, Status
<1>. QED
  BY <1>1, <1>2 DEF TypeInv

\* A failure leaves the count of failures within its bound.
LEMMA FaultType ==
    ASSUME TypeOK, NEW kind, Fault(kind)
    PROVE  faults' \in 0..MaxFaults
  BY ConstantsAssumption DEF TypeOK, MemoryTypeOK, Fault

\* A killed process forgets what it was doing.
LEMMA DownType ==
    ASSUME Down, faults' \in 0..MaxFaults
    PROVE  MemoryTypeOK' /\ HasTransaction'
<1>. USE DEF Down
<1>1. (/\ pc \in Points
       /\ ret \in {"idle", "poll1", "poll2", "update"}
       /\ trigger \in 0..TriggerCapacity
       /\ timers \in 0..MaxTimers
       /\ retries \in 0..WithdrawSaveRetries
       /\ gauge \in Int)'
  BY ConstantsAssumption DEF Points
<1>2. (cur \in [id : Ids \cup {NoId}, from : {"none", "withdraw", "confirm", "loop"},
                reported : {-1, 0}])'
  BY DEF NoTx
<1>3. (plan \in [queue : SUBSET Ids, avail : Nat, unconf : Nat])'
  BY DEF NoPlan
<1>4. (booting \in BOOLEAN)'
  BY Zenon
<1>5. HasTransaction'
  BY DEF HasTransaction, SendingPoints
<1>. QED
  BY ONLY <1>1, <1>2, <1>3, <1>4, <1>5, faults' \in 0..MaxFaults, Zenon DEF MemoryTypeOK

\* After a failed attempt to save, the updater is where it was or it is down.
LEMMA RetryType ==
    ASSUME TypeOK, HasTransaction, NEW r \in {-1, 0}, RetryOrPanic(r),
           faults' \in 0..MaxFaults
    PROVE  /\ MemoryTypeOK' /\ HasTransaction'
           /\ pc' = "down" \/ (pc' = pc /\ cur'.id = cur.id)
<1>1. CASE Down
  BY <1>1, DownType DEF Down
<1>2. CASE ~Down
  <2>1. /\ retries < WithdrawSaveRetries
        /\ retries' = retries + 1
        /\ cur' = [cur EXCEPT !.reported = r]
        /\ UNCHANGED <<pc, plan, ret, booting, trigger, timers, gauge>>
    BY <1>2 DEF RetryOrPanic
  <2>2. retries' \in 0..WithdrawSaveRetries
    BY <2>1, ConstantsAssumption DEF TypeOK, MemoryTypeOK
  <2>3. /\ cur' \in [id : Ids \cup {NoId}, from : {"none", "withdraw", "confirm", "loop"},
                     reported : {-1, 0}]
        /\ cur'.id = cur.id
    BY <2>1 DEF TypeOK, MemoryTypeOK
  <2>4. MemoryTypeOK'
    BY <2>1, <2>2, <2>3 DEF TypeOK, MemoryTypeOK
  <2>. QED
    BY <2>1, <2>3, <2>4 DEF HasTransaction
<1>. QED
  BY <1>1, <1>2

\* The polls keep the rows' statuses.
LEMMA NotifyType ==
    ASSUME TypeOK, NotifyBroadcasts
    PROVE  /\ rows' \in [Ids -> [status : Statuses, reported : {-1, 0}]]
           /\ announced' \in [Ids -> Nat]
           /\ \A id \in Ids : rows'[id].status = rows[id].status
  BY DEF TypeOK, DatabaseTypeOK, OutsideTypeOK, NotifyBroadcasts

\* The first poll: every broadcast has a row afterwards.
LEMMA StoreNewType ==
    ASSUME TypeInv, pc # "persistOK", pc' # "persistOK", StoreNewTransactions
    PROVE  DatabaseTypeOK' /\ OutsideTypeOK' /\ RecordedWasSent'
<1>. USE DEF TypeInv, TypeOK, DatabaseTypeOK, OutsideTypeOK, StoreNewTransactions
<1>1. /\ rows' \in [Ids -> [status : Statuses, reported : {-1, 0}]]
      /\ announced' \in [Ids -> Nat]
      /\ \A id \in Ids : rows'[id].status = rows[id].status
  BY NotifyType
<1>2. ASSUME NEW id \in Ids
      PROVE  Unrecorded(id) \in Nat
  BY DEF RecordedWasSent, Unrecorded, Status
<1>3. strays' \in [Ids -> Nat]
  BY <1>2
<1>4. DatabaseTypeOK' /\ OutsideTypeOK'
  BY <1>1, <1>3
<1>5. ASSUME NEW id \in Ids
      PROVE  Unrecorded(id)' >= 0
  BY <1>1 DEF Unrecorded, Status
<1>. QED
  BY <1>4, <1>5 DEF RecordedWasSent

\* The second poll changes neither the broadcasts nor the statuses of rows.
LEMMA StoreExistingType ==
    ASSUME TypeInv, pc # "persistOK", pc' # "persistOK", StoreExistingTransactions
    PROVE  DatabaseTypeOK' /\ OutsideTypeOK' /\ RecordedWasSent'
<1>. USE DEF TypeInv, TypeOK, DatabaseTypeOK, OutsideTypeOK, StoreExistingTransactions
<1>1. /\ rows' \in [Ids -> [status : Statuses, reported : {-1, 0}]]
      /\ announced' \in [Ids -> Nat]
      /\ \A id \in Ids : rows'[id].status = rows[id].status
  BY NotifyType
<1>2. seen' \in [Deposits -> DepositStates]
  BY DEF KnownDeposits
<1>3. DatabaseTypeOK' /\ OutsideTypeOK'
  BY <1>1, <1>2
<1>4. ASSUME NEW id \in Ids
      PROVE  Unrecorded(id)' >= 0
  BY <1>1 DEF Unrecorded, Status, RecordedWasSent
<1>. QED
  BY <1>3, <1>4 DEF RecordedWasSent

\* Saving the success records the broadcast just made, or one recorded before.
LEMMA StoreSuccessType ==
    ASSUME TypeInv, pc = "persistOK", StoreSuccess(cur.id)
    PROVE  /\ rows' \in [Ids -> [status : Statuses, reported : {-1, 0}]]
           /\ announced' \in [Ids -> Nat]
           /\ lock' = NoId
           /\ \A id \in Ids : rows'[id].status = IF id = cur.id THEN "new" ELSE rows[id].status
<1>. USE DEF TypeInv, TypeOK, DatabaseTypeOK, OutsideTypeOK
<1>1. cur.id \in Ids /\ cur.reported \in {-1, 0}
  BY DEF HasTransaction, SendingPoints, MemoryTypeOK
<1>2. rows' \in [Ids -> [status : Statuses, reported : {-1, 0}]]
  BY <1>1 DEF StoreSuccess, Statuses
<1>3. announced' \in [Ids -> Nat]
  BY <1>1 DEF StoreSuccess
<1>. QED
  BY <1>1, <1>2, <1>3 DEF StoreSuccess

\* Every step of the updater, of its environment and of a request preserves
\* the inductive form of type correctness.
LEMMA StepTypeInv == TypeInv /\ [Next]_vars => TypeInv'
<1>. SUFFICES ASSUME TypeInv, [Next]_vars
              PROVE  TypeInv'
  OBVIOUS
<1>1. CASE Start
  BY <1>1, ConstantsAssumption, HeldCount
  DEF Start, MayStart, TypeInv, TypeOK, DatabaseTypeOK, OutsideTypeOK, MemoryTypeOK, HasTransaction, RecordedWasSent, SendingPoints, Statuses, DepositStates, Points, Unrecorded, Status, db, outside
<1>2. CASE Tick
  BY <1>2, ConstantsAssumption
  DEF Tick, TypeInv, TypeOK, DatabaseTypeOK, OutsideTypeOK, MemoryTypeOK, HasTransaction, RecordedWasSent, SendingPoints, Statuses, DepositStates, Points, Unrecorded, Status, db, outside
<1>3. CASE TriggerTaken
  BY <1>3, ConstantsAssumption
  DEF TriggerTaken, TypeInv, TypeOK, DatabaseTypeOK, OutsideTypeOK, MemoryTypeOK, HasTransaction, RecordedWasSent, SendingPoints, Statuses, DepositStates, Points, Unrecorded, Status, db, outside
<1>4. CASE TimerFires
  BY <1>4, ConstantsAssumption
  DEF TimerFires, schedulePendingTxUpdate, TypeInv, TypeOK, DatabaseTypeOK, OutsideTypeOK, MemoryTypeOK, HasTransaction, RecordedWasSent, SendingPoints, Statuses, DepositStates, Points, Unrecorded, Status, db, outside
<1>5. CASE CheckForNewTransactions
  BY <1>5, ConstantsAssumption
  DEF CheckForNewTransactions, StoreNewTransactions, NotifyBroadcasts, TypeInv, TypeOK, DatabaseTypeOK, OutsideTypeOK, MemoryTypeOK, HasTransaction, RecordedWasSent, SendingPoints, Statuses, DepositStates, Points, Unrecorded, Status, db, outside
<1>6. CASE CheckForNewTransactionsFails
  <2>. USE <1>6 DEF CheckForNewTransactionsFails
  <2>1. faults' \in 0..MaxFaults
    BY FaultType DEF TypeInv
  <2>2. MemoryTypeOK' /\ HasTransaction'
    BY <2>1 DEF TypeInv, TypeOK, MemoryTypeOK, HasTransaction, Points, SendingPoints
  <2>3. CASE UNCHANGED <<db, outside>>
    BY <2>2, <2>3 DEF db, outside, TypeInv, TypeOK, DatabaseTypeOK, OutsideTypeOK, MemoryTypeOK, HasTransaction, RecordedWasSent, SendingPoints, Statuses, DepositStates, Points, Unrecorded, Status
  <2>4. CASE StoreNewTransactions
    BY <2>2, <2>4, StoreNewType DEF TypeInv, TypeOK
  <2>. QED
    BY <2>3, <2>4
<1>7. CASE CheckForExistingTransactionUpdates
  <2>. USE <1>7 DEF CheckForExistingTransactionUpdates
  <2>1. AfterPolls \in {"idle", "update"}
    BY DEF AfterPolls
  <2>2. booting' \in BOOLEAN
    BY Zenon
  <2>3. MemoryTypeOK' /\ HasTransaction'
    BY <2>1, <2>2 DEF TypeInv, TypeOK, MemoryTypeOK, HasTransaction, Points, SendingPoints
  <2>4. DatabaseTypeOK' /\ OutsideTypeOK' /\ RecordedWasSent'
    BY <2>1, StoreExistingType
  <2>. QED
    BY <2>3, <2>4 DEF TypeInv, TypeOK
<1>8. CASE CheckForExistingTransactionUpdatesFails
  <2>. USE <1>8 DEF CheckForExistingTransactionUpdatesFails
  <2>1. AfterPolls \in {"idle", "update"}
    BY DEF AfterPolls
  <2>2. booting' \in BOOLEAN
    BY Zenon
  <2>3. faults' \in 0..MaxFaults
    BY FaultType DEF TypeInv
  <2>4. MemoryTypeOK' /\ HasTransaction'
    BY <2>1, <2>2, <2>3 DEF TypeInv, TypeOK, MemoryTypeOK, HasTransaction, Points, SendingPoints
  <2>5. CASE UNCHANGED <<db, outside>>
    BY <2>1, <2>4, <2>5 DEF db, outside, TypeInv, TypeOK, DatabaseTypeOK, OutsideTypeOK, MemoryTypeOK, HasTransaction, RecordedWasSent, SendingPoints, Statuses, DepositStates, Points, Unrecorded, Status
  <2>6. CASE StoreExistingTransactions
    BY <2>1, <2>4, <2>6, StoreExistingType DEF TypeInv, TypeOK
  <2>. QED
    BY <2>5, <2>6
<1>9. CASE ReadPending
  BY <1>9, ConstantsAssumption
  DEF ReadPending, GetPendingTransactions, TypeInv, TypeOK, DatabaseTypeOK, OutsideTypeOK, MemoryTypeOK, HasTransaction, RecordedWasSent, SendingPoints, Statuses, DepositStates, Points, Unrecorded, Status, db, outside
<1>10. CASE ReadUnconfirmed
  BY <1>10, ConstantsAssumption, UnconfirmedType
  DEF ReadUnconfirmed, TypeInv, TypeOK, DatabaseTypeOK, OutsideTypeOK, MemoryTypeOK, HasTransaction, RecordedWasSent, SendingPoints, Statuses, DepositStates, Points, Unrecorded, Status, db, outside
<1>11. CASE ReadFails
  BY <1>11, ConstantsAssumption
  DEF ReadFails, Fault, UpdateFailed, NoPlan, TypeInv, TypeOK, DatabaseTypeOK, OutsideTypeOK, MemoryTypeOK, HasTransaction, RecordedWasSent, SendingPoints, Statuses, DepositStates, Points, Unrecorded, Status, db, outside
<1>12. CASE SendNext
  <2>. USE <1>12, ConstantsAssumption DEF SendNext
  <2>1. PICK id \in Cheapest(plan.queue) :
          /\ Affordable(id)
          /\ plan' = [plan EXCEPT !.queue = @ \ {id}, !.avail = @ - Amount[id]]
          /\ SendWithdrawal(id, "loop")
    OBVIOUS
  <2>2. plan.queue \in SUBSET Ids /\ plan.avail \in Nat
    BY DEF TypeInv, TypeOK, MemoryTypeOK
  <2>3. id \in Ids /\ Amount[id] \in Nat /\ plan.avail >= Amount[id]
    BY <2>1, <2>2 DEF Cheapest, Affordable
  <2>4. plan' \in [queue : SUBSET Ids, avail : Nat, unconf : Nat]
    <3>1. plan \in [queue : SUBSET Ids, avail : Nat, unconf : Nat]
      BY DEF TypeInv, TypeOK, MemoryTypeOK
    <3>2. plan.queue \ {id} \in SUBSET Ids /\ plan.avail - Amount[id] \in Nat
      BY <2>2, <2>3
    <3>. QED
      BY ONLY <2>1, <3>1, <3>2
  <2>5. /\ cur' \in [id : Ids \cup {NoId}, from : {"none", "withdraw", "confirm", "loop"},
                     reported : {-1, 0}]
        /\ cur'.id \in Ids /\ pc' = "prepare"
    BY <2>1, <2>3 DEF SendWithdrawal, TypeInv, TypeOK, DatabaseTypeOK
  <2>6. MemoryTypeOK' /\ HasTransaction'
    BY <2>4, <2>5 DEF TypeInv, TypeOK, MemoryTypeOK, HasTransaction, Points
  <2>7. DatabaseTypeOK' /\ OutsideTypeOK' /\ RecordedWasSent'
    BY <2>5 DEF TypeInv, TypeOK, DatabaseTypeOK, OutsideTypeOK, MemoryTypeOK, HasTransaction, RecordedWasSent, SendingPoints, Statuses, DepositStates, Points, Unrecorded, Status, db, outside
  <2>. QED
    BY <2>6, <2>7 DEF TypeInv, TypeOK
<1>13. CASE AllFunded
  BY <1>13, ConstantsAssumption
  DEF AllFunded, UpdateDone, UpdateFailed, Fault, NoPlan, TypeInv, TypeOK, DatabaseTypeOK, OutsideTypeOK, MemoryTypeOK, HasTransaction, RecordedWasSent, SendingPoints, Statuses, DepositStates, Points, Unrecorded, Status, db, outside
<1>14. CASE Classify
  <2>. DEFINE RowType == [status : Statuses, reported : {-1, 0}]
  <2>1. rows \in [Ids -> RowType]
    BY DEF TypeInv, TypeOK, DatabaseTypeOK
  <2>2. ASSUME StoreClassification
        PROVE  rows' \in [Ids -> RowType]
    <3>1. PICK P \in SUBSET plan.queue :
            rows' = [id \in Ids |->
                       CASE id \in P -> [rows[id] EXCEPT !.status = "pending"]
                         [] id \in plan.queue \ P ->
                              [rows[id] EXCEPT !.status = "pending-cold-storage"]
                         [] OTHER -> rows[id]]
      BY <2>2 DEF StoreClassification
    <3>2. \A id \in Ids :
            /\ rows[id] \in RowType
            /\ [rows[id] EXCEPT !.status = "pending"] \in RowType
            /\ [rows[id] EXCEPT !.status = "pending-cold-storage"] \in RowType
      BY <2>1 DEF Statuses
    <3>3. ASSUME NEW id \in Ids
          PROVE  rows'[id] \in RowType
      <4>1. \/ rows'[id] = [rows[id] EXCEPT !.status = "pending"]
            \/ rows'[id] = [rows[id] EXCEPT !.status = "pending-cold-storage"]
            \/ rows'[id] = rows[id]
        BY ONLY <3>1, <3>3
      <4>. QED
        BY ONLY <4>1, <3>2, <3>3
    <3>4. DOMAIN rows' = Ids /\ rows' = [id \in Ids |-> rows'[id]]
      BY ONLY <3>1
    <3>. QED
      BY ONLY <3>3, <3>4
  <2>3. /\ rows' \in [Ids -> RowType]
        /\ UNCHANGED <<strays, lock, seen, outside, cur, booting, trigger, retries, gauge>>
    BY <1>14, <2>1, <2>2 DEF Classify
  <2>4. DatabaseTypeOK'
    BY <2>3 DEF TypeInv, TypeOK, DatabaseTypeOK
  <2>5. OutsideTypeOK'
    BY <2>3 DEF TypeInv, TypeOK, OutsideTypeOK, outside
  <2>. USE <1>14, ConstantsAssumption DEF Classify, StoreClassification, UpdateDone, UpdateFailed, Fault, NoPlan, TypeInv, TypeOK, DatabaseTypeOK, OutsideTypeOK, MemoryTypeOK, HasTransaction, RecordedWasSent, SendingPoints, Statuses, DepositStates, Points, Unrecorded, Status, db, outside
  <2>6. MemoryTypeOK'
    OBVIOUS
  <2>7. HasTransaction' /\ RecordedWasSent'
    OBVIOUS
  <2>. QED
    BY ONLY <2>4, <2>5, <2>6, <2>7 DEF TypeInv, TypeOK
<1>15. CASE InternalTransfer
  <2>. USE <1>15, ConstantsAssumption DEF InternalTransfer, StoreInternalTransfer, SendReturns, schedulePendingTxUpdate, NoTx, TypeInv, TypeOK, DatabaseTypeOK, OutsideTypeOK, MemoryTypeOK, HasTransaction, RecordedWasSent, SendingPoints, Statuses, DepositStates, Points, Unrecorded, Status, db, outside
  <2>1. DatabaseTypeOK'
    OBVIOUS
  <2>2. OutsideTypeOK'
    OBVIOUS
  <2>3. MemoryTypeOK'
    OBVIOUS
  <2>4. HasTransaction' /\ RecordedWasSent'
    OBVIOUS
  <2>. QED
    BY ONLY <2>1, <2>2, <2>3, <2>4 DEF TypeInv, TypeOK
<1>16. CASE InternalTransferLost
  <2>. USE <1>16, ConstantsAssumption DEF InternalTransferLost, StoreInternalTransfer, SendReturnsError, UpdateFailed, Fault, NoTx, NoPlan, TypeInv, TypeOK, DatabaseTypeOK, OutsideTypeOK, MemoryTypeOK, HasTransaction, RecordedWasSent, SendingPoints, Statuses, DepositStates, Points, Unrecorded, Status, db, outside
  <2>1. DatabaseTypeOK'
    OBVIOUS
  <2>2. OutsideTypeOK'
    OBVIOUS
  <2>3. MemoryTypeOK'
    OBVIOUS
  <2>4. HasTransaction' /\ RecordedWasSent'
    OBVIOUS
  <2>. QED
    BY ONLY <2>1, <2>2, <2>3, <2>4 DEF TypeInv, TypeOK
<1>17. CASE LockWallet
  BY <1>17, ConstantsAssumption
  DEF LockWallet, SendReturnsError, UpdateFailed, Fault, NoTx, NoPlan, TypeInv, TypeOK, DatabaseTypeOK, OutsideTypeOK, MemoryTypeOK, HasTransaction, RecordedWasSent, SendingPoints, Statuses, DepositStates, Points, Unrecorded, Status, db, outside
<1>18. CASE PrepareFails
  BY <1>18, ConstantsAssumption
  DEF PrepareFails, SendReturnsError, UpdateFailed, Fault, NoTx, NoPlan, TypeInv, TypeOK, DatabaseTypeOK, OutsideTypeOK, MemoryTypeOK, HasTransaction, RecordedWasSent, SendingPoints, Statuses, DepositStates, Points, Unrecorded, Status, db, outside
<1>19. CASE NodeSends
  <2>. USE <1>19, ConstantsAssumption DEF NodeSends, Broadcast
  <2>1. cur.id \in Ids /\ Amount[cur.id] \in Nat
    BY DEF TypeInv, HasTransaction, SendingPoints
  <2>2. conf' \in Nat /\ sent' \in [Ids -> Nat]
    BY <2>1 DEF TypeInv, TypeOK, OutsideTypeOK
  <2>3. DatabaseTypeOK' /\ OutsideTypeOK'
    BY <2>2 DEF TypeInv, TypeOK, DatabaseTypeOK, OutsideTypeOK, MemoryTypeOK, db
  <2>4. faults' \in 0..MaxFaults /\ retries' \in 0..WithdrawSaveRetries
    BY FaultType DEF TypeInv, TypeOK, MemoryTypeOK
  <2>5. MemoryTypeOK' /\ HasTransaction'
    BY <2>1, <2>4 DEF TypeInv, TypeOK, DatabaseTypeOK, OutsideTypeOK, MemoryTypeOK, Points, HasTransaction
  <2>6. ASSUME NEW id \in Ids
        PROVE  Unrecorded(id)' = Unrecorded(id) + (IF id = cur.id THEN 1 ELSE 0)
    BY <2>1 DEF TypeInv, TypeOK, DatabaseTypeOK, OutsideTypeOK, MemoryTypeOK, Unrecorded, Status, db
  <2>7. RecordedWasSent'
    BY <2>1, <2>6 DEF TypeInv, TypeOK, DatabaseTypeOK, OutsideTypeOK, MemoryTypeOK, RecordedWasSent, Unrecorded, Status, db
  <2>. QED
    BY <2>3, <2>5, <2>7 DEF TypeInv, TypeOK
<1>20. CASE NodeRefusesFunds
  BY <1>20, ConstantsAssumption
  DEF NodeRefusesFunds, Fault, TypeInv, TypeOK, DatabaseTypeOK, OutsideTypeOK, MemoryTypeOK, HasTransaction, RecordedWasSent, SendingPoints, Statuses, DepositStates, Points, Unrecorded, Status, db, outside
<1>21. CASE NodeFails
  BY <1>21, ConstantsAssumption
  DEF NodeFails, Fault, TypeInv, TypeOK, DatabaseTypeOK, OutsideTypeOK, MemoryTypeOK, HasTransaction, RecordedWasSent, SendingPoints, Statuses, DepositStates, Points, Unrecorded, Status, db, outside
<1>22. CASE PersistSuccess
  BY <1>22, ConstantsAssumption
  DEF PersistSuccess, StoreSuccess, SendReturnsAndSchedules, SendReturns, schedulePendingTxUpdate, NoTx, TypeInv, TypeOK, DatabaseTypeOK, OutsideTypeOK, MemoryTypeOK, HasTransaction, RecordedWasSent, SendingPoints, Statuses, DepositStates, Points, Unrecorded, Status, db, outside
<1>23. CASE PersistPending
  BY <1>23, ConstantsAssumption
  DEF PersistPending, StoreError, SendReturnsAndSchedules, SendReturns, schedulePendingTxUpdate, NoTx, TypeInv, TypeOK, DatabaseTypeOK, OutsideTypeOK, MemoryTypeOK, HasTransaction, RecordedWasSent, SendingPoints, Statuses, DepositStates, Points, Unrecorded, Status, db, outside
<1>24. CASE PersistFailed
  BY <1>24, ConstantsAssumption
  DEF PersistFailed, StoreError, SendReturnsError, UpdateFailed, NoTx, NoPlan, TypeInv, TypeOK, DatabaseTypeOK, OutsideTypeOK, MemoryTypeOK, HasTransaction, RecordedWasSent, SendingPoints, Statuses, DepositStates, Points, Unrecorded, Status, db, outside
<1>25. CASE PersistRolledBack
  <2>. USE <1>25 DEF PersistRolledBack
  <2>1. faults' \in 0..MaxFaults
    BY FaultType DEF TypeInv
  <2>2. cur.reported \in {-1, 0}
    BY DEF TypeInv, TypeOK, MemoryTypeOK
  <2>3. /\ MemoryTypeOK' /\ HasTransaction'
        /\ pc' = "down" \/ (pc' = pc /\ cur'.id = cur.id)
    BY <2>1, <2>2, RetryType DEF TypeInv
  <2>. QED
    BY <2>3 DEF TypeInv, TypeOK, DatabaseTypeOK, OutsideTypeOK, RecordedWasSent, Unrecorded, Status, db, outside
<1>26. CASE PersistRolledBackLate
  <2>. USE <1>26 DEF PersistRolledBackLate
  <2>1. faults' \in 0..MaxFaults
    BY FaultType DEF TypeInv
  <2>2. cur.reported \in {-1, 0}
    BY DEF TypeInv, TypeOK, MemoryTypeOK
  <2>3. /\ MemoryTypeOK' /\ HasTransaction'
        /\ pc' = "down" \/ (pc' = pc /\ cur'.id = cur.id)
    BY <2>1, <2>2, RetryType DEF TypeInv
  <2>. QED
    BY <2>3 DEF TypeInv, TypeOK, DatabaseTypeOK, OutsideTypeOK, RecordedWasSent, Unrecorded, Status, db, outside
<1>27. CASE PersistCommitLost
  <2>. USE <1>27 DEF PersistCommitLost
  <2>1. faults' \in 0..MaxFaults
    BY FaultType DEF TypeInv
  <2>2. cur.id \in Ids /\ cur.reported \in {-1, 0}
    BY DEF TypeInv, TypeOK, DatabaseTypeOK, OutsideTypeOK, MemoryTypeOK, HasTransaction, SendingPoints
  <2>3. /\ MemoryTypeOK' /\ HasTransaction'
        /\ pc' = "down" \/ (pc' = pc /\ cur'.id = cur.id)
    BY <2>1, <2>2, RetryType DEF TypeInv
  <2>4. CASE pc = "persistOK"
    <3>1. /\ rows' \in [Ids -> [status : Statuses, reported : {-1, 0}]]
          /\ announced' \in [Ids -> Nat]
          /\ lock' = NoId
          /\ \A id \in Ids : rows'[id].status = IF id = cur.id THEN "new" ELSE rows[id].status
      BY <2>4, StoreSuccessType
    <3>2. DatabaseTypeOK' /\ OutsideTypeOK'
      BY <3>1 DEF TypeInv, TypeOK, DatabaseTypeOK, OutsideTypeOK, MemoryTypeOK
    <3>3. RecordedWasSent'
      BY <2>2, <2>3, <2>4, <3>1 DEF TypeInv, TypeOK, DatabaseTypeOK, OutsideTypeOK, MemoryTypeOK, RecordedWasSent, Unrecorded, Status
    <3>. QED
      BY <2>3, <3>2, <3>3 DEF TypeInv, TypeOK
  <2>5. CASE pc # "persistOK"
    <3>1. StoreError(cur.id) /\ UNCHANGED announced
      BY <2>5
    <3>2. DatabaseTypeOK' /\ OutsideTypeOK'
      BY <2>2, <3>1 DEF TypeInv, TypeOK, DatabaseTypeOK, OutsideTypeOK, MemoryTypeOK, StoreError, Statuses
    <3>3. RecordedWasSent'
      BY <2>2, <2>3, <2>5, <3>1 DEF TypeInv, TypeOK, DatabaseTypeOK, OutsideTypeOK, MemoryTypeOK, RecordedWasSent, Unrecorded, Status, StoreError
    <3>. QED
      BY <2>3, <3>2, <3>3 DEF TypeInv, TypeOK
  <2>. QED
    BY <2>4, <2>5
<1>28. CASE Crash
  <2>. USE <1>28 DEF Crash
  <2>1. faults' \in 0..MaxFaults
    BY FaultType DEF TypeInv
  <2>2. MemoryTypeOK' /\ HasTransaction' /\ pc' = "down"
    BY <2>1, DownType DEF Down
  <2>. QED
    BY <2>2 DEF TypeInv, TypeOK, DatabaseTypeOK, OutsideTypeOK, RecordedWasSent, Unrecorded, Status, db, outside
<1>29. CASE OperatorResolves
  BY <1>29, ConstantsAssumption
  DEF OperatorResolves, memory, TypeInv, TypeOK, DatabaseTypeOK, OutsideTypeOK, MemoryTypeOK, HasTransaction, RecordedWasSent, SendingPoints, Statuses, DepositStates, Points, Unrecorded, Status, db, outside
<1>30. ASSUME NEW id \in Ids, WithdrawHeld(id) PROVE TypeInv'
  <2>. USE <1>30, ConstantsAssumption DEF WithdrawHeld, Hold, Fault, TypeInv, TypeOK, DatabaseTypeOK, OutsideTypeOK, MemoryTypeOK, HasTransaction, RecordedWasSent, SendingPoints, Statuses, DepositStates, Points, Unrecorded, Status, db, outside
  <2>1. DatabaseTypeOK'
    <3>1. rows \in [Ids -> [status : Statuses, reported : {-1, 0}]]
      OBVIOUS
    <3>2. rows' \in [Ids -> [status : Statuses, reported : {-1, 0}]]
      BY ONLY <1>30, <3>1 DEF WithdrawHeld, Hold, Statuses
    <3>. QED
      BY ONLY <1>30, <3>2, TypeInv DEF WithdrawHeld, TypeInv, TypeOK, DatabaseTypeOK
  <2>2. OutsideTypeOK'
    OBVIOUS
  <2>3. MemoryTypeOK'
    OBVIOUS
  <2>4. HasTransaction' /\ RecordedWasSent'
    OBVIOUS
  <2>. QED
    BY ONLY <2>1, <2>2, <2>3, <2>4 DEF TypeInv, TypeOK
<1>31. ASSUME NEW id \in Ids, WithdrawNow(id) PROVE TypeInv'
  BY <1>31, ConstantsAssumption
  DEF WithdrawNow, SendWithdrawal, TypeInv, TypeOK, DatabaseTypeOK, OutsideTypeOK, MemoryTypeOK, HasTransaction, RecordedWasSent, SendingPoints, Statuses, DepositStates, Points, Unrecorded, Status, db, outside
<1>32. ASSUME NEW id \in Ids, Confirm(id) PROVE TypeInv'
  BY <1>32, ConstantsAssumption
  DEF Confirm, SendWithdrawal, TypeInv, TypeOK, DatabaseTypeOK, OutsideTypeOK, MemoryTypeOK, HasTransaction, RecordedWasSent, SendingPoints, Statuses, DepositStates, Points, Unrecorded, Status, db, outside
<1>33. ASSUME NEW id \in Ids, Cancel(id) PROVE TypeInv'
  BY <1>33, ConstantsAssumption
  DEF Cancel, Fault, TypeInv, TypeOK, DatabaseTypeOK, OutsideTypeOK, MemoryTypeOK, HasTransaction, RecordedWasSent, SendingPoints, Statuses, DepositStates, Points, Unrecorded, Status, db, outside
<1>34. ASSUME NEW d \in Deposits, DepositArrives(d) PROVE TypeInv'
  BY <1>34, ConstantsAssumption
  DEF DepositArrives, memory, TypeInv, TypeOK, DatabaseTypeOK, OutsideTypeOK, MemoryTypeOK, HasTransaction, RecordedWasSent, SendingPoints, Statuses, DepositStates, Points, Unrecorded, Status, db, outside
<1>35. ASSUME NEW d \in Deposits, DepositConfirms(d) PROVE TypeInv'
  BY <1>35, ConstantsAssumption
  DEF DepositConfirms, memory, TypeInv, TypeOK, DatabaseTypeOK, OutsideTypeOK, MemoryTypeOK, HasTransaction, RecordedWasSent, SendingPoints, Statuses, DepositStates, Points, Unrecorded, Status, db, outside
<1>36. CASE UNCHANGED vars
  BY <1>36 DEF vars, memory, TypeInv, TypeOK, DatabaseTypeOK, OutsideTypeOK, MemoryTypeOK, HasTransaction, RecordedWasSent, SendingPoints, Statuses, DepositStates, Points, Unrecorded, Status, db, outside
<1>. QED
  BY <1>1, <1>2, <1>3, <1>4, <1>5, <1>6, <1>7, <1>8, <1>9, <1>10, <1>11, <1>12, <1>13, <1>14, <1>15, <1>16, <1>17, <1>18, <1>19, <1>20, <1>21, <1>22, <1>23, <1>24, <1>25, <1>26, <1>27, <1>28, <1>29, <1>30, <1>31, <1>32, <1>33, <1>34, <1>35, <1>36 DEF Next, Working, Polling, Updating, Sending, Persisting, Requests, Environment

\* The state keeps its types whatever fails: the balance is never overdrawn,
\* the trigger channel never overfilled, and every broadcast a row records was
\* made (wallet/withdraw.go, pending.go, updates.go).
THEOREM TypeCorrect == Spec => []TypeOK
<1>1. TypeInv => TypeOK
  BY DEF TypeInv
<1>. QED
  BY <1>1, InitTypeInv, StepTypeInv, PTL DEF Spec

-----------------------------------------------------------------------------
(***************************************************************************)
(* Paid at most once.  The argument is the discipline of wallet_operation: *)
(* the updater writes it before it calls the node and clears it in the     *)
(* transaction that stores the result, so a broadcast without a row can    *)
(* only be the one in hand, or one a dead process left behind under the    *)
(* lock, which stops the next one from starting.                           *)
(*                                                                         *)
(* Two things are assumed.  The node's answer is not lost after it has     *)
(* broadcast: handleWithdrawalError takes that for a failure.  And no cold *)
(* storage withdrawal goes to an account of our own: its id gets no row.   *)
(***************************************************************************)
ReliableAnswers ==
    /\ "answerLost" \notin Faults
    /\ ColdIds \cap InternalIds = {}

\* Every broadcast is recorded, but for the one just made or left by a crash.
OnlyCurrentUnrecorded ==
    \A id \in Ids :
        sent[id] > 0 /\ Status(id) # "new" =>
            (pc = "persistOK" /\ cur.id = id) \/ pc = "down"

\* What the rows say was paid is what was paid.
RowsAreTrue ==
    \A id \in Ids :
        /\ Status(id) = "new" => sent[id] = 1
        /\ credited[id] > 0 => Status(id) = "fully-confirmed"
        /\ strays[id] = 0

\* The withdrawal in hand is unpaid until the node has answered.
CurrentIsUnpaid ==
    /\ pc \in {"prepare", "send", "persistPending", "persistFailed"} =>
         sent[cur.id] = 0 /\ credited[cur.id] = 0
    /\ pc = "send" => lock = cur.id
    /\ pc = "persistOK" => sent[cur.id] = 1 /\ credited[cur.id] = 0

\* The withdrawals planned are still pending, and only the loop has a plan.
PlanIsPending ==
    /\ \A id \in plan.queue :
         /\ id \in GetPendingTransactions
         /\ pc \in SendingPoints => id # cur.id
    /\ pc \in {"down", "idle", "poll1", "poll2", "update"} => plan.queue = {}
    /\ pc \in SendingPoints /\ cur.from # "loop" => plan.queue = {}

PaidInv ==
    /\ TypeInv
    /\ PaidAtMostOnce
    /\ BroadcastIsRecorded
    /\ OnlyCurrentUnrecorded
    /\ RowsAreTrue
    /\ CurrentIsUnpaid
    /\ PlanIsPending

\* Initially nothing was sent.
LEMMA InitPaidInv == Init => PaidInv
<1>. SUFFICES ASSUME Init
              PROVE  PaidInv
  OBVIOUS
<1>1. TypeInv
  BY InitTypeInv
<1>2. PaidAtMostOnce /\ BroadcastIsRecorded /\ OnlyCurrentUnrecorded /\ RowsAreTrue
  BY DEF Init, PaidAtMostOnce, BroadcastIsRecorded, OnlyCurrentUnrecorded, RowsAreTrue, Status
<1>3. CurrentIsUnpaid /\ PlanIsPending
  BY DEF Init, CurrentIsUnpaid, PlanIsPending, NoPlan, SendingPoints
<1>. QED
  BY <1>1, <1>2, <1>3 DEF PaidInv

\* A step that moves no money and changes no status keeps the invariant, if it
\* leaves the updater alone or takes it to a point where it has nothing in hand.
LEMMA QuietStep ==
    ASSUME PaidInv, TypeInv',
           UNCHANGED <<sent, credited, strays, lock>>,
           \A id \in Ids : rows'[id].status = rows[id].status,
           \/ UNCHANGED <<pc, cur, plan>>
           \/ /\ pc # "persistOK"
              /\ pc' \notin SendingPoints
              /\ pc = "down" => lock = NoId
              /\ plan'.queue \subseteq GetPendingTransactions
              /\ pc' \notin {"balance", "loop"} => plan'.queue = {}
    PROVE  PaidInv'
<1>. USE DEF PaidInv, Status
<1>1. PaidAtMostOnce' /\ BroadcastIsRecorded' /\ RowsAreTrue'
  BY DEF PaidAtMostOnce, BroadcastIsRecorded, RowsAreTrue
<1>2. OnlyCurrentUnrecorded'
  BY ConstantsAssumption DEF OnlyCurrentUnrecorded, BroadcastIsRecorded, SendingPoints
<1>3. CurrentIsUnpaid'
  BY DEF CurrentIsUnpaid, SendingPoints
<1>4. PlanIsPending'
  <2>1. GetPendingTransactions' = GetPendingTransactions
    BY DEF GetPendingTransactions
  <2>. QED
    BY <2>1 DEF PlanIsPending, SendingPoints
<1>. QED
  BY ONLY <1>1, <1>2, <1>3, <1>4, TypeInv' DEF PaidInv

\* While a process runs and has nothing half done, the node knows of no
\* broadcast that the rows do not.
LEMMA NothingUnrecorded ==
    ASSUME PaidInv, pc \notin {"persistOK", "down"}, NEW id \in Ids
    PROVE  Unrecorded(id) = 0
<1>1. sent[id] \in Nat /\ credited[id] \in Nat
  BY DEF PaidInv, TypeInv, TypeOK, OutsideTypeOK
<1>2. sent[id] + credited[id] <= 1
  BY DEF PaidInv, PaidAtMostOnce
<1>3. Status(id) = "new" => sent[id] = 1
  BY DEF PaidInv, RowsAreTrue
<1>4. strays[id] = 0
  BY DEF PaidInv, RowsAreTrue
<1>5. Status(id) # "new" => sent[id] = 0
  BY <1>1 DEF PaidInv, OnlyCurrentUnrecorded
<1>. QED
  BY <1>1, <1>3, <1>4, <1>5 DEF Unrecorded

\* So a poll generates no ids.
LEMMA StoreNewIsQuiet ==
    ASSUME PaidInv, pc \notin {"persistOK", "down"}, StoreNewTransactions
    PROVE  /\ UNCHANGED <<sent, credited, strays, lock>>
           /\ \A id \in Ids : rows'[id].status = rows[id].status
<1>1. \A id \in Ids : strays[id] + Unrecorded(id) = strays[id]
  BY NothingUnrecorded DEF PaidInv, TypeInv, TypeOK, DatabaseTypeOK
<1>2. strays' = strays
  BY <1>1 DEF StoreNewTransactions, PaidInv, TypeInv, TypeOK, DatabaseTypeOK
<1>. QED
  BY <1>2, NotifyType DEF StoreNewTransactions, PaidInv, TypeInv

\* Every step keeps the invariant.
LEMMA StepPaidInv == ReliableAnswers /\ PaidInv /\ [Next]_vars => PaidInv'
<1>. SUFFICES ASSUME ReliableAnswers, PaidInv, [Next]_vars
              PROVE  PaidInv'
  OBVIOUS
<1>0. TypeInv'
  BY StepTypeInv DEF PaidInv
<1>. USE DEF ReliableAnswers
<1>1. CASE Start
  BY <1>0, <1>1, QuietStep
  DEF Start, MayStart, db, outside, SendingPoints, PaidInv, TypeInv, TypeOK, PlanIsPending
<1>2. CASE Tick
  BY <1>0, <1>2, QuietStep
  DEF Tick, db, outside, SendingPoints, PaidInv, TypeInv, TypeOK, PlanIsPending
<1>3. CASE TriggerTaken
  BY <1>0, <1>3, QuietStep
  DEF TriggerTaken, db, outside, SendingPoints, PaidInv, TypeInv, TypeOK, PlanIsPending
<1>4. CASE TimerFires
  BY <1>0, <1>4, QuietStep
  DEF TimerFires, db, outside, PaidInv, TypeInv, TypeOK, PlanIsPending
<1>5. CASE CheckForNewTransactions
  <2>1. /\ UNCHANGED <<sent, credited, strays, lock>>
        /\ \A id \in Ids : rows'[id].status = rows[id].status
    BY <1>5, StoreNewIsQuiet DEF CheckForNewTransactions, StoreExistingTransactions, db, outside, PaidInv, TypeInv
  <2>2. pc' \in {"update", "poll2", "idle"} /\ plan' = plan
    BY <1>5 DEF CheckForNewTransactions, AfterPolls
  <2>. QED
    BY <1>0, <1>5, <2>1, <2>2, QuietStep
    DEF CheckForNewTransactions, PaidInv, PlanIsPending, SendingPoints
<1>6. CASE CheckForNewTransactionsFails
  <2>1. /\ UNCHANGED <<sent, credited, strays, lock>>
        /\ \A id \in Ids : rows'[id].status = rows[id].status
    BY <1>6, StoreNewIsQuiet DEF CheckForNewTransactionsFails, StoreExistingTransactions, db, outside, PaidInv, TypeInv
  <2>2. pc' \in {"update", "poll2", "idle"} /\ plan' = plan
    BY <1>6 DEF CheckForNewTransactionsFails, AfterPolls
  <2>. QED
    BY <1>0, <1>6, <2>1, <2>2, QuietStep
    DEF CheckForNewTransactionsFails, PaidInv, PlanIsPending, SendingPoints
<1>7. CASE CheckForExistingTransactionUpdates
  <2>1. /\ UNCHANGED <<sent, credited, strays, lock>>
        /\ \A id \in Ids : rows'[id].status = rows[id].status
    BY <1>7, NotifyType DEF CheckForExistingTransactionUpdates, StoreExistingTransactions, db, outside, PaidInv, TypeInv
  <2>2. pc' \in {"update", "poll2", "idle"} /\ plan' = plan
    BY <1>7 DEF CheckForExistingTransactionUpdates, AfterPolls
  <2>. QED
    BY <1>0, <1>7, <2>1, <2>2, QuietStep
    DEF CheckForExistingTransactionUpdates, PaidInv, PlanIsPending, SendingPoints
<1>8. CASE CheckForExistingTransactionUpdatesFails
  <2>1. /\ UNCHANGED <<sent, credited, strays, lock>>
        /\ \A id \in Ids : rows'[id].status = rows[id].status
    BY <1>8, NotifyType DEF CheckForExistingTransactionUpdatesFails, StoreExistingTransactions, db, outside, PaidInv, TypeInv
  <2>2. pc' \in {"update", "poll2", "idle"} /\ plan' = plan
    BY <1>8 DEF CheckForExistingTransactionUpdatesFails, AfterPolls
  <2>. QED
    BY <1>0, <1>8, <2>1, <2>2, QuietStep
    DEF CheckForExistingTransactionUpdatesFails, PaidInv, PlanIsPending, SendingPoints
<1>9. CASE ReadPending
  BY <1>0, <1>9, QuietStep
  DEF ReadPending, db, outside, SendingPoints, PaidInv, TypeInv, TypeOK, PlanIsPending
<1>10. CASE ReadUnconfirmed
  BY <1>0, <1>10, QuietStep
  DEF ReadUnconfirmed, db, outside, SendingPoints, PaidInv, TypeInv, TypeOK, PlanIsPending
<1>11. CASE ReadFails
  BY <1>0, <1>11, QuietStep
  DEF ReadFails, UpdateFailed, NoPlan, db, outside, SendingPoints, MemoryTypeOK, PaidInv, TypeInv, TypeOK, PlanIsPending
<1>12. CASE SendNext
  <2>. USE <1>12, ConstantsAssumption DEF SendNext, Cheapest, Affordable, SendWithdrawal, PaidInv, TypeInv, TypeOK, DatabaseTypeOK, OutsideTypeOK, MemoryTypeOK, HasTransaction, SendingPoints, Statuses, Status, db, outside, PaidAtMostOnce, BroadcastIsRecorded, OnlyCurrentUnrecorded, RowsAreTrue, CurrentIsUnpaid, PlanIsPending, GetPendingTransactions, Unrecorded
  <2>1. PaidAtMostOnce'
    OBVIOUS
  <2>2. BroadcastIsRecorded'
    OBVIOUS
  <2>3. OnlyCurrentUnrecorded'
    OBVIOUS
  <2>4. RowsAreTrue'
    OBVIOUS
  <2>5. CurrentIsUnpaid'
    OBVIOUS
  <2>6. PlanIsPending'
    OBVIOUS
  <2>. QED
    BY ONLY <1>0, <2>1, <2>2, <2>3, <2>4, <2>5, <2>6 DEF PaidInv
<1>13. CASE AllFunded
  BY <1>0, <1>13, QuietStep
  DEF AllFunded, UpdateDone, UpdateFailed, NoPlan, outside, SendingPoints, MemoryTypeOK, PaidInv, TypeInv, TypeOK, PlanIsPending
<1>14. CASE Classify
  <2>. USE <1>14, ConstantsAssumption DEF Classify, StoreClassification, UpdateDone, UpdateFailed, Fault, NoPlan, PaidInv, TypeInv, TypeOK, DatabaseTypeOK, OutsideTypeOK, MemoryTypeOK, HasTransaction, SendingPoints, Statuses, Status, db, outside, PaidAtMostOnce, BroadcastIsRecorded, OnlyCurrentUnrecorded, RowsAreTrue, CurrentIsUnpaid, PlanIsPending, GetPendingTransactions, Unrecorded
  <2>1. PaidAtMostOnce'
    OBVIOUS
  <2>2. BroadcastIsRecorded'
    OBVIOUS
  <2>3. OnlyCurrentUnrecorded'
    OBVIOUS
  <2>4. RowsAreTrue'
    OBVIOUS
  <2>5. CurrentIsUnpaid'
    OBVIOUS
  <2>6. PlanIsPending'
    OBVIOUS
  <2>. QED
    BY ONLY <1>0, <2>1, <2>2, <2>3, <2>4, <2>5, <2>6 DEF PaidInv
<1>15. CASE InternalTransfer
  <2>. USE <1>15, ConstantsAssumption DEF InternalTransfer, StoreInternalTransfer, SendReturns, schedulePendingTxUpdate, NoTx, PaidInv, TypeInv, TypeOK, DatabaseTypeOK, OutsideTypeOK, MemoryTypeOK, HasTransaction, SendingPoints, Statuses, Status, db, outside, PaidAtMostOnce, BroadcastIsRecorded, OnlyCurrentUnrecorded, RowsAreTrue, CurrentIsUnpaid, PlanIsPending, GetPendingTransactions, Unrecorded
  <2>1. PaidAtMostOnce'
    OBVIOUS
  <2>2. BroadcastIsRecorded'
    OBVIOUS
  <2>3. OnlyCurrentUnrecorded'
    OBVIOUS
  <2>4. RowsAreTrue'
    OBVIOUS
  <2>5. CurrentIsUnpaid'
    OBVIOUS
  <2>6. PlanIsPending'
    OBVIOUS
  <2>. QED
    BY ONLY <1>0, <2>1, <2>2, <2>3, <2>4, <2>5, <2>6 DEF PaidInv
<1>16. CASE InternalTransferLost
  <2>. USE <1>16, ConstantsAssumption DEF InternalTransferLost, StoreInternalTransfer, SendReturnsError, UpdateFailed, Fault, NoTx, NoPlan, PaidInv, TypeInv, TypeOK, DatabaseTypeOK, OutsideTypeOK, MemoryTypeOK, HasTransaction, SendingPoints, Statuses, Status, db, outside, PaidAtMostOnce, BroadcastIsRecorded, OnlyCurrentUnrecorded, RowsAreTrue, CurrentIsUnpaid, PlanIsPending, GetPendingTransactions, Unrecorded
  <2>1. PaidAtMostOnce'
    OBVIOUS
  <2>2. BroadcastIsRecorded'
    OBVIOUS
  <2>3. OnlyCurrentUnrecorded'
    OBVIOUS
  <2>4. RowsAreTrue'
    OBVIOUS
  <2>5. CurrentIsUnpaid'
    OBVIOUS
  <2>6. PlanIsPending'
    OBVIOUS
  <2>. QED
    BY ONLY <1>0, <2>1, <2>2, <2>3, <2>4, <2>5, <2>6 DEF PaidInv
<1>17. CASE LockWallet
  <2>. USE <1>17, ConstantsAssumption DEF LockWallet, SendReturnsError, UpdateFailed, Fault, NoTx, NoPlan, PaidInv, TypeInv, TypeOK, DatabaseTypeOK, OutsideTypeOK, MemoryTypeOK, HasTransaction, SendingPoints, Statuses, Status, db, outside, PaidAtMostOnce, BroadcastIsRecorded, OnlyCurrentUnrecorded, RowsAreTrue, CurrentIsUnpaid, PlanIsPending, GetPendingTransactions, Unrecorded
  <2>1. PaidAtMostOnce'
    OBVIOUS
  <2>2. BroadcastIsRecorded'
    OBVIOUS
  <2>3. OnlyCurrentUnrecorded'
    OBVIOUS
  <2>4. RowsAreTrue'
    OBVIOUS
  <2>5. CurrentIsUnpaid'
    OBVIOUS
  <2>6. PlanIsPending'
    OBVIOUS
  <2>. QED
    BY ONLY <1>0, <2>1, <2>2, <2>3, <2>4, <2>5, <2>6 DEF PaidInv
<1>18. CASE PrepareFails
  BY <1>0, <1>18, QuietStep
  DEF PrepareFails, SendReturnsError, UpdateFailed, NoPlan, db, outside, SendingPoints, MemoryTypeOK, PaidInv, TypeInv, TypeOK, PlanIsPending
<1>19. CASE NodeSends
  <2>. USE <1>19, ConstantsAssumption DEF NodeSends, Broadcast, Fault, PaidInv, TypeInv, TypeOK, DatabaseTypeOK, OutsideTypeOK, MemoryTypeOK, HasTransaction, SendingPoints, Statuses, Status, db, outside, PaidAtMostOnce, BroadcastIsRecorded, OnlyCurrentUnrecorded, RowsAreTrue, CurrentIsUnpaid, PlanIsPending, GetPendingTransactions, Unrecorded
  <2>1. PaidAtMostOnce'
    OBVIOUS
  <2>2. BroadcastIsRecorded'
    OBVIOUS
  <2>3. OnlyCurrentUnrecorded'
    OBVIOUS
  <2>4. RowsAreTrue'
    OBVIOUS
  <2>5. CurrentIsUnpaid'
    OBVIOUS
  <2>6. PlanIsPending'
    OBVIOUS
  <2>. QED
    BY ONLY <1>0, <2>1, <2>2, <2>3, <2>4, <2>5, <2>6 DEF PaidInv
<1>20. CASE NodeRefusesFunds
  <2>. USE <1>20, ConstantsAssumption DEF NodeRefusesFunds, Fault, PaidInv, TypeInv, TypeOK, DatabaseTypeOK, OutsideTypeOK, MemoryTypeOK, HasTransaction, SendingPoints, Statuses, Status, db, outside, PaidAtMostOnce, BroadcastIsRecorded, OnlyCurrentUnrecorded, RowsAreTrue, CurrentIsUnpaid, PlanIsPending, GetPendingTransactions, Unrecorded
  <2>1. PaidAtMostOnce'
    OBVIOUS
  <2>2. BroadcastIsRecorded'
    OBVIOUS
  <2>3. OnlyCurrentUnrecorded'
    OBVIOUS
  <2>4. RowsAreTrue'
    OBVIOUS
  <2>5. CurrentIsUnpaid'
    OBVIOUS
  <2>6. PlanIsPending'
    OBVIOUS
  <2>. QED
    BY ONLY <1>0, <2>1, <2>2, <2>3, <2>4, <2>5, <2>6 DEF PaidInv
<1>21. CASE NodeFails
  <2>. USE <1>21, ConstantsAssumption DEF NodeFails, Fault, PaidInv, TypeInv, TypeOK, DatabaseTypeOK, OutsideTypeOK, MemoryTypeOK, HasTransaction, SendingPoints, Statuses, Status, db, outside, PaidAtMostOnce, BroadcastIsRecorded, OnlyCurrentUnrecorded, RowsAreTrue, CurrentIsUnpaid, PlanIsPending, GetPendingTransactions, Unrecorded
  <2>1. PaidAtMostOnce'
    OBVIOUS
  <2>2. BroadcastIsRecorded'
    OBVIOUS
  <2>3. OnlyCurrentUnrecorded'
    OBVIOUS
  <2>4. RowsAreTrue'
    OBVIOUS
  <2>5. CurrentIsUnpaid'
    OBVIOUS
  <2>6. PlanIsPending'
    OBVIOUS
  <2>. QED
    BY ONLY <1>0, <2>1, <2>2, <2>3, <2>4, <2>5, <2>6 DEF PaidInv
<1>22. CASE PersistSuccess
  <2>. USE <1>22, ConstantsAssumption DEF PersistSuccess, StoreSuccess, SendReturnsAndSchedules, SendReturns, schedulePendingTxUpdate, NoTx, PaidInv, TypeInv, TypeOK, DatabaseTypeOK, OutsideTypeOK, MemoryTypeOK, HasTransaction, SendingPoints, Statuses, Status, db, outside, PaidAtMostOnce, BroadcastIsRecorded, OnlyCurrentUnrecorded, RowsAreTrue, CurrentIsUnpaid, PlanIsPending, GetPendingTransactions, Unrecorded
  <2>1. PaidAtMostOnce'
    OBVIOUS
  <2>2. BroadcastIsRecorded'
    OBVIOUS
  <2>3. OnlyCurrentUnrecorded'
    OBVIOUS
  <2>4. RowsAreTrue'
    OBVIOUS
  <2>5. CurrentIsUnpaid'
    OBVIOUS
  <2>6. PlanIsPending'
    OBVIOUS
  <2>. QED
    BY ONLY <1>0, <2>1, <2>2, <2>3, <2>4, <2>5, <2>6 DEF PaidInv
<1>23. CASE PersistPending
  <2>. USE <1>23, ConstantsAssumption DEF PersistPending, StoreError, SendReturnsAndSchedules, SendReturns, schedulePendingTxUpdate, NoTx, PaidInv, TypeInv, TypeOK, DatabaseTypeOK, OutsideTypeOK, MemoryTypeOK, HasTransaction, SendingPoints, Statuses, Status, db, outside, PaidAtMostOnce, BroadcastIsRecorded, OnlyCurrentUnrecorded, RowsAreTrue, CurrentIsUnpaid, PlanIsPending, GetPendingTransactions, Unrecorded
  <2>1. PaidAtMostOnce'
    OBVIOUS
  <2>2. BroadcastIsRecorded'
    OBVIOUS
  <2>3. OnlyCurrentUnrecorded'
    OBVIOUS
  <2>4. RowsAreTrue'
    OBVIOUS
  <2>5. CurrentIsUnpaid'
    OBVIOUS
  <2>6. PlanIsPending'
    OBVIOUS
  <2>. QED
    BY ONLY <1>0, <2>1, <2>2, <2>3, <2>4, <2>5, <2>6 DEF PaidInv
<1>24. CASE PersistFailed
  <2>. USE <1>24, ConstantsAssumption DEF PersistFailed, StoreError, SendReturnsError, UpdateFailed, NoTx, NoPlan, PaidInv, TypeInv, TypeOK, DatabaseTypeOK, OutsideTypeOK, MemoryTypeOK, HasTransaction, SendingPoints, Statuses, Status, db, outside, PaidAtMostOnce, BroadcastIsRecorded, OnlyCurrentUnrecorded, RowsAreTrue, CurrentIsUnpaid, PlanIsPending, GetPendingTransactions, Unrecorded
  <2>1. PaidAtMostOnce'
    OBVIOUS
  <2>2. BroadcastIsRecorded'
    OBVIOUS
  <2>3. OnlyCurrentUnrecorded'
    OBVIOUS
  <2>4. RowsAreTrue'
    OBVIOUS
  <2>5. CurrentIsUnpaid'
    OBVIOUS
  <2>6. PlanIsPending'
    OBVIOUS
  <2>. QED
    BY ONLY <1>0, <2>1, <2>2, <2>3, <2>4, <2>5, <2>6 DEF PaidInv
<1>25. CASE PersistRolledBack
  <2>. USE <1>25, ConstantsAssumption DEF PersistRolledBack, Fault, RetryOrPanic, Down, NoTx, NoPlan, PaidInv, TypeInv, TypeOK, DatabaseTypeOK, OutsideTypeOK, MemoryTypeOK, HasTransaction, SendingPoints, Statuses, Status, db, outside, PaidAtMostOnce, BroadcastIsRecorded, OnlyCurrentUnrecorded, RowsAreTrue, CurrentIsUnpaid, PlanIsPending, GetPendingTransactions, Unrecorded
  <2>1. PaidAtMostOnce'
    OBVIOUS
  <2>2. BroadcastIsRecorded'
    OBVIOUS
  <2>3. OnlyCurrentUnrecorded'
    OBVIOUS
  <2>4. RowsAreTrue'
    OBVIOUS
  <2>5. CurrentIsUnpaid'
    OBVIOUS
  <2>6. PlanIsPending'
    OBVIOUS
  <2>. QED
    BY ONLY <1>0, <2>1, <2>2, <2>3, <2>4, <2>5, <2>6 DEF PaidInv
<1>26. CASE PersistRolledBackLate
  <2>. USE <1>26, ConstantsAssumption DEF PersistRolledBackLate, Fault, RetryOrPanic, Down, NoTx, NoPlan, PaidInv, TypeInv, TypeOK, DatabaseTypeOK, OutsideTypeOK, MemoryTypeOK, HasTransaction, SendingPoints, Statuses, Status, db, outside, PaidAtMostOnce, BroadcastIsRecorded, OnlyCurrentUnrecorded, RowsAreTrue, CurrentIsUnpaid, PlanIsPending, GetPendingTransactions, Unrecorded
  <2>1. PaidAtMostOnce'
    OBVIOUS
  <2>2. BroadcastIsRecorded'
    OBVIOUS
  <2>3. OnlyCurrentUnrecorded'
    OBVIOUS
  <2>4. RowsAreTrue'
    OBVIOUS
  <2>5. CurrentIsUnpaid'
    OBVIOUS
  <2>6. PlanIsPending'
    OBVIOUS
  <2>. QED
    BY ONLY <1>0, <2>1, <2>2, <2>3, <2>4, <2>5, <2>6 DEF PaidInv
<1>27. CASE PersistCommitLost
  <2>. USE <1>27, ConstantsAssumption DEF PersistCommitLost, Fault, StoreSuccess, StoreError, RetryOrPanic, Down, NoTx, NoPlan, PaidInv, TypeInv, TypeOK, DatabaseTypeOK, OutsideTypeOK, MemoryTypeOK, HasTransaction, SendingPoints, Statuses, Status, db, outside, PaidAtMostOnce, BroadcastIsRecorded, OnlyCurrentUnrecorded, RowsAreTrue, CurrentIsUnpaid, PlanIsPending, GetPendingTransactions, Unrecorded
  <2>1. PaidAtMostOnce'
    OBVIOUS
  <2>2. BroadcastIsRecorded'
    OBVIOUS
  <2>3. OnlyCurrentUnrecorded'
    OBVIOUS
  <2>4. RowsAreTrue'
    OBVIOUS
  <2>5. CurrentIsUnpaid'
    OBVIOUS
  <2>6. PlanIsPending'
    OBVIOUS
  <2>. QED
    BY ONLY <1>0, <2>1, <2>2, <2>3, <2>4, <2>5, <2>6 DEF PaidInv
<1>28. CASE Crash
  <2>. USE <1>28, ConstantsAssumption DEF Crash, Fault, Down, NoTx, NoPlan, PaidInv, TypeInv, TypeOK, DatabaseTypeOK, OutsideTypeOK, MemoryTypeOK, HasTransaction, SendingPoints, Statuses, Status, db, outside, PaidAtMostOnce, BroadcastIsRecorded, OnlyCurrentUnrecorded, RowsAreTrue, CurrentIsUnpaid, PlanIsPending, GetPendingTransactions, Unrecorded
  <2>1. PaidAtMostOnce'
    OBVIOUS
  <2>2. BroadcastIsRecorded'
    OBVIOUS
  <2>3. OnlyCurrentUnrecorded'
    OBVIOUS
  <2>4. RowsAreTrue'
    OBVIOUS
  <2>5. CurrentIsUnpaid'
    OBVIOUS
  <2>6. PlanIsPending'
    OBVIOUS
  <2>. QED
    BY ONLY <1>0, <2>1, <2>2, <2>3, <2>4, <2>5, <2>6 DEF PaidInv
<1>29. CASE OperatorResolves
  <2>. USE <1>29, ConstantsAssumption DEF OperatorResolves, memory, PaidInv, TypeInv, TypeOK, DatabaseTypeOK, OutsideTypeOK, MemoryTypeOK, HasTransaction, SendingPoints, Statuses, Status, db, outside, PaidAtMostOnce, BroadcastIsRecorded, OnlyCurrentUnrecorded, RowsAreTrue, CurrentIsUnpaid, PlanIsPending, GetPendingTransactions, Unrecorded
  <2>1. PaidAtMostOnce'
    OBVIOUS
  <2>2. BroadcastIsRecorded'
    OBVIOUS
  <2>3. OnlyCurrentUnrecorded'
    OBVIOUS
  <2>4. RowsAreTrue'
    OBVIOUS
  <2>5. CurrentIsUnpaid'
    OBVIOUS
  <2>6. PlanIsPending'
    OBVIOUS
  <2>. QED
    BY ONLY <1>0, <2>1, <2>2, <2>3, <2>4, <2>5, <2>6 DEF PaidInv
<1>30. ASSUME NEW id \in Ids, WithdrawHeld(id) PROVE PaidInv'
  <2>. USE <1>30, ConstantsAssumption DEF WithdrawHeld, Hold, Fault, PaidInv, TypeInv, TypeOK, DatabaseTypeOK, OutsideTypeOK, MemoryTypeOK, HasTransaction, SendingPoints, Statuses, Status, db, outside, PaidAtMostOnce, BroadcastIsRecorded, OnlyCurrentUnrecorded, RowsAreTrue, CurrentIsUnpaid, PlanIsPending, GetPendingTransactions, Unrecorded
  <2>1. PaidAtMostOnce'
    OBVIOUS
  <2>2. BroadcastIsRecorded'
    OBVIOUS
  <2>3. OnlyCurrentUnrecorded'
    OBVIOUS
  <2>4. RowsAreTrue'
    OBVIOUS
  <2>5. CurrentIsUnpaid'
    OBVIOUS
  <2>6. PlanIsPending'
    OBVIOUS
  <2>. QED
    BY ONLY <1>0, <2>1, <2>2, <2>3, <2>4, <2>5, <2>6 DEF PaidInv
<1>31. ASSUME NEW id \in Ids, WithdrawNow(id) PROVE PaidInv'
  <2>. USE <1>31, ConstantsAssumption DEF WithdrawNow, SendWithdrawal, PaidInv, TypeInv, TypeOK, DatabaseTypeOK, OutsideTypeOK, MemoryTypeOK, HasTransaction, SendingPoints, Statuses, Status, db, outside, PaidAtMostOnce, BroadcastIsRecorded, OnlyCurrentUnrecorded, RowsAreTrue, CurrentIsUnpaid, PlanIsPending, GetPendingTransactions, Unrecorded
  <2>1. PaidAtMostOnce'
    OBVIOUS
  <2>2. BroadcastIsRecorded'
    OBVIOUS
  <2>3. OnlyCurrentUnrecorded'
    OBVIOUS
  <2>4. RowsAreTrue'
    OBVIOUS
  <2>5. CurrentIsUnpaid'
    OBVIOUS
  <2>6. PlanIsPending'
    OBVIOUS
  <2>. QED
    BY ONLY <1>0, <2>1, <2>2, <2>3, <2>4, <2>5, <2>6 DEF PaidInv
<1>32. ASSUME NEW id \in Ids, Confirm(id) PROVE PaidInv'
  <2>. USE <1>32, ConstantsAssumption DEF Confirm, SendWithdrawal, PaidInv, TypeInv, TypeOK, DatabaseTypeOK, OutsideTypeOK, MemoryTypeOK, HasTransaction, SendingPoints, Statuses, Status, db, outside, PaidAtMostOnce, BroadcastIsRecorded, OnlyCurrentUnrecorded, RowsAreTrue, CurrentIsUnpaid, PlanIsPending, GetPendingTransactions, Unrecorded
  <2>1. PaidAtMostOnce'
    OBVIOUS
  <2>2. BroadcastIsRecorded'
    OBVIOUS
  <2>3. OnlyCurrentUnrecorded'
    OBVIOUS
  <2>4. RowsAreTrue'
    OBVIOUS
  <2>5. CurrentIsUnpaid'
    OBVIOUS
  <2>6. PlanIsPending'
    OBVIOUS
  <2>. QED
    BY ONLY <1>0, <2>1, <2>2, <2>3, <2>4, <2>5, <2>6 DEF PaidInv
<1>33. ASSUME NEW id \in Ids, Cancel(id) PROVE PaidInv'
  <2>. USE <1>33, ConstantsAssumption DEF Cancel, Cancellable, Fault, PaidInv, TypeInv, TypeOK, DatabaseTypeOK, OutsideTypeOK, MemoryTypeOK, HasTransaction, SendingPoints, Statuses, Status, db, outside, PaidAtMostOnce, BroadcastIsRecorded, OnlyCurrentUnrecorded, RowsAreTrue, CurrentIsUnpaid, PlanIsPending, GetPendingTransactions, Unrecorded
  <2>1. PaidAtMostOnce'
    OBVIOUS
  <2>2. BroadcastIsRecorded'
    OBVIOUS
  <2>3. OnlyCurrentUnrecorded'
    OBVIOUS
  <2>4. RowsAreTrue'
    OBVIOUS
  <2>5. CurrentIsUnpaid'
    OBVIOUS
  <2>6. PlanIsPending'
    OBVIOUS
  <2>. QED
    BY ONLY <1>0, <2>1, <2>2, <2>3, <2>4, <2>5, <2>6 DEF PaidInv
<1>34. ASSUME NEW d \in Deposits, DepositArrives(d) PROVE PaidInv'
  BY <1>0, <1>34, QuietStep DEF DepositArrives, db, memory
<1>35. ASSUME NEW d \in Deposits, DepositConfirms(d) PROVE PaidInv'
  BY <1>0, <1>35, QuietStep DEF DepositConfirms, db, memory
<1>36. CASE UNCHANGED vars
  BY <1>0, <1>36, QuietStep DEF vars, db, outside, memory
<1>. QED
  BY <1>1, <1>2, <1>3, <1>4, <1>5, <1>6, <1>7, <1>8, <1>9, <1>10, <1>11, <1>12, <1>13, <1>14, <1>15, <1>16, <1>17, <1>18, <1>19, <1>20, <1>21, <1>22, <1>23, <1>24, <1>25, <1>26, <1>27, <1>28, <1>29, <1>30, <1>31, <1>32, <1>33, <1>34, <1>35, <1>36 DEF Next, Working, Polling, Updating, Sending, Persisting, Requests, Environment

\* The invariant holds throughout.
THEOREM PaidInvHolds == ReliableAnswers /\ Spec => []PaidInv
<1>. SUFFICES ASSUME ReliableAnswers
              PROVE  Spec => []PaidInv
  OBVIOUS
<1>1. Init => PaidInv
  BY InitPaidInv
<1>2. PaidInv /\ [Next]_vars => PaidInv'
  BY StepPaidInv
<1>. QED
  BY <1>1, <1>2, PTL DEF Spec

\* No withdrawal is paid twice, for any number of withdrawals, retries, failed
\* or half-reported transactions, crashes and restarts (sendWithdrawal with
\* LockWallet and Check).
THEOREM NeverPaidTwice == ReliableAnswers /\ Spec => []PaidAtMostOnce
<1>1. PaidInv => PaidAtMostOnce
  BY DEF PaidInv
<1>. QED
  BY <1>1, PaidInvHolds, PTL

\* Every broadcast has its row or is named by wallet_operation, in every state a
\* crash can leave behind.
THEOREM BroadcastsAreRecorded == ReliableAnswers /\ Spec => []BroadcastIsRecorded
<1>1. PaidInv => BroadcastIsRecorded
  BY DEF PaidInv
<1>. QED
  BY <1>1, PaidInvHolds, PTL

-----------------------------------------------------------------------------
(* Withdrawals implements WithdrawalLedger: every transaction, node call,  *)
(* failure and restart of the wallet is a step of the ledger or leaves the *)
(* ledger alone.                                                           *)

\* The points at which the withdrawal in hand may still be paid or queued.
UnpaidPoints == {"prepare", "send", "persistPending", "persistFailed"}

\* The statuses from which sendWithdrawal may be called.
Sendable == {"absent", "pending", "pending-cold-storage", "pending-manual-confirmation"}

Approved(id) == NeedsManualConfirmation(id) => id \in approved

\* Only approved withdrawals are sent or wait for money, and a withdrawal in
\* hand is not cancelled meanwhile.
ApprovalInv ==
    /\ \A id \in Ids : id \in GetPendingTransactions => Approved(id)
    /\ pc \in UnpaidPoints => Status(cur.id) \in Sendable /\ Approved(cur.id)

\* Initially the ledger is empty.
LEMMA InitApproval == Init => ApprovalInv /\ Ledger!LedgerInit
<1>. SUFFICES ASSUME Init
              PROVE  ApprovalInv /\ Ledger!LedgerInit
  OBVIOUS
<1>1. ApprovalInv
  BY DEF Init, ApprovalInv, UnpaidPoints, GetPendingTransactions, Status
<1>2. \A id \in Ids : LedgerState(id) = "none" /\ sent[id] + credited[id] = 0
  BY DEF Init, LedgerState, Status, GetPendingTransactions
<1>3. Ledger!LedgerInit
  BY <1>2 DEF Ledger!LedgerInit, Init
<1>. QED
  BY <1>1, <1>3

\* A step that changes neither what was paid nor what the rows amount to leaves
\* the ledger alone.
LEMMA LedgerStutters ==
    ASSUME \A id \in Ids : LedgerState(id)' = LedgerState(id),
           \A id \in Ids : (sent[id] + credited[id])' = sent[id] + credited[id],
           approved' = approved
    PROVE  UNCHANGED Ledger!ledgerVars
  BY DEF Ledger!ledgerVars

\* So does one that changes neither a status nor a payment.
LEMMA SameRows ==
    ASSUME \A id \in Ids : rows'[id].status = rows[id].status,
           UNCHANGED <<sent, credited, approved>>
    PROVE  UNCHANGED Ledger!ledgerVars /\ GetPendingTransactions' = GetPendingTransactions
<1>1. \A id \in Ids : LedgerState(id)' = LedgerState(id)
  BY DEF LedgerState, Status, GetPendingTransactions
<1>2. GetPendingTransactions' = GetPendingTransactions
  BY DEF Status, GetPendingTransactions
<1>. QED
  BY <1>1, <1>2, LedgerStutters

\* And it keeps the approvals, if it picks up no withdrawal that lacks one.
LEMMA SameApprovals ==
    ASSUME ApprovalInv, GetPendingTransactions' = GetPendingTransactions,
           approved' = approved,
           pc' \in UnpaidPoints => rows'[cur'.id].status \in Sendable /\ Approved(cur'.id)
    PROVE  ApprovalInv'
  BY DEF ApprovalInv, Approved, Status, NeedsManualConfirmation

\* Between two requests no pending, held or absent withdrawal has been paid.
LEMMA RowsUnpaid ==
    ASSUME PaidInv, pc \notin {"persistOK", "down"}, NEW id \in Ids,
           Status(id) \notin {"new", "fully-confirmed"}
    PROVE  sent[id] = 0 /\ credited[id] = 0
<1>1. sent[id] \in Nat /\ credited[id] \in Nat
  BY DEF PaidInv, TypeInv, TypeOK, OutsideTypeOK
<1>2. sent[id] = 0
  BY <1>1 DEF PaidInv, OnlyCurrentUnrecorded
<1>3. credited[id] = 0
  BY <1>1 DEF PaidInv, RowsAreTrue
<1>. QED
  BY <1>2, <1>3

\* The withdrawal in hand is unpaid, and the ledger may pay or queue it.
LEMMA CurrentMayBePaid ==
    ASSUME PaidInv, ApprovalInv, pc \in UnpaidPoints
    PROVE  /\ cur.id \in Ids /\ sent[cur.id] = 0 /\ credited[cur.id] = 0
           /\ LedgerState(cur.id) \in {"none", "held", "queued"}
           /\ Ledger!MayPay(cur.id)
<1>1. cur.id \in Ids
  BY DEF PaidInv, TypeInv, HasTransaction, SendingPoints, UnpaidPoints
<1>2. sent[cur.id] = 0 /\ credited[cur.id] = 0
  BY DEF PaidInv, CurrentIsUnpaid, UnpaidPoints
<1>3. LedgerState(cur.id) \in {"none", "held", "queued"}
  BY <1>1, <1>2 DEF LedgerState, ApprovalInv, Sendable, Status, GetPendingTransactions
<1>4. Ledger!MayPay(cur.id)
  BY <1>1 DEF Ledger!MayPay, ApprovalInv, Approved
<1>. QED
  BY <1>1, <1>2, <1>3, <1>4

\* A step that takes one withdrawal to another ledger state.
LEMMA LedgerMoves ==
    ASSUME NEW id \in Ids, NEW st,
           LedgerState(id)' = st,
           \A other \in Ids \ {id} : LedgerState(other)' = LedgerState(other)
    PROVE  [i \in Ids |-> LedgerState(i)]' = [[i \in Ids |-> LedgerState(i)] EXCEPT ![id] = st]
  OBVIOUS

\* A step that pays one withdrawal.
LEMMA PaymentMoves ==
    ASSUME NEW id \in Ids,
           (sent[id] + credited[id])' = sent[id] + credited[id] + 1,
           \A other \in Ids \ {id} : (sent[other] + credited[other])' = sent[other] + credited[other]
    PROVE  [i \in Ids |-> sent[i] + credited[i]]'
             = [[i \in Ids |-> sent[i] + credited[i]] EXCEPT ![id] = @ + 1]
<1>. DEFINE p == [i \in Ids |-> sent[i] + credited[i]]
<1>1. p' = [i \in Ids |-> sent'[i] + credited'[i]]
  OBVIOUS
<1>2. ASSUME NEW i \in Ids
      PROVE  sent'[i] + credited'[i] = [p EXCEPT ![id] = @ + 1][i]
  <2>1. CASE i = id
    BY <2>1
  <2>2. CASE i # id
    BY <2>2
  <2>. QED
    BY <2>1, <2>2
<1>3. [p EXCEPT ![id] = @ + 1] = [i \in Ids |-> [p EXCEPT ![id] = @ + 1][i]]
  OBVIOUS
<1>. QED
  BY <1>1, <1>2, <1>3

\* Every step of the wallet keeps the approvals and is a step of the ledger.
LEMMA StepRefines ==
    ASSUME ReliableAnswers, PaidInv, ApprovalInv, [Next]_vars
    PROVE  ApprovalInv' /\ [Ledger!LedgerNext]_(Ledger!ledgerVars)
<1>1. CASE Start
  BY <1>1, SameRows, SameApprovals DEF Start, db, outside, UnpaidPoints
<1>2. CASE Tick
  BY <1>2, SameRows, SameApprovals DEF Tick, db, outside, UnpaidPoints
<1>3. CASE TriggerTaken
  BY <1>3, SameRows, SameApprovals DEF TriggerTaken, db, outside, UnpaidPoints
<1>4. CASE ReadPending
  BY <1>4, SameRows, SameApprovals DEF ReadPending, db, outside, UnpaidPoints
<1>5. CASE ReadUnconfirmed
  BY <1>5, SameRows, SameApprovals DEF ReadUnconfirmed, db, outside, UnpaidPoints
<1>6. CASE ReadFails
  BY <1>6, SameRows, SameApprovals DEF ReadFails, UpdateFailed, db, outside, UnpaidPoints, PaidInv, TypeInv, TypeOK, MemoryTypeOK
<1>7. CASE AllFunded
  BY <1>7, SameRows, SameApprovals DEF AllFunded, UpdateDone, UpdateFailed, outside, UnpaidPoints, PaidInv, TypeInv, TypeOK, MemoryTypeOK
<1>8. CASE PrepareFails
  BY <1>8, SameRows, SameApprovals DEF PrepareFails, SendReturnsError, UpdateFailed, db, outside, UnpaidPoints, PaidInv, TypeInv, TypeOK, MemoryTypeOK
<1>9. CASE PersistFailed
  BY <1>9, SameRows, SameApprovals DEF PersistFailed, StoreError, SendReturnsError, UpdateFailed, outside, UnpaidPoints, PaidInv, TypeInv, TypeOK, MemoryTypeOK
<1>10. CASE Crash
  BY <1>10, SameRows, SameApprovals DEF Crash, Down, db, outside, UnpaidPoints
<1>11. CASE TimerFires
  BY <1>11, SameRows, SameApprovals DEF TimerFires, db, outside, ApprovalInv, Status, UnpaidPoints
<1>12. CASE LockWallet
  BY <1>12, SameRows, SameApprovals DEF LockWallet, SendReturnsError, UpdateFailed, outside, UnpaidPoints, PaidInv, TypeInv, TypeOK, MemoryTypeOK, ApprovalInv, Status
<1>13. CASE NodeRefusesFunds
  BY <1>13, SameRows, SameApprovals DEF NodeRefusesFunds, db, outside, ApprovalInv, Status, UnpaidPoints
<1>14. CASE NodeFails
  BY <1>14, SameRows, SameApprovals DEF NodeFails, db, outside, ApprovalInv, Status, UnpaidPoints
<1>15. CASE PersistRolledBackLate
  BY <1>15, SameRows, SameApprovals DEF PersistRolledBackLate, RetryOrPanic, Down, db, outside, UnpaidPoints
<1>16. CASE PersistRolledBack
  <2>1. (cur'.id = cur.id /\ pc' = pc) \/ pc' = "down"
    BY <1>16 DEF PersistRolledBack, RetryOrPanic, Down, PaidInv, TypeInv, TypeOK, MemoryTypeOK
  <2>. QED
    BY <1>16, <2>1, SameRows, SameApprovals
    DEF PersistRolledBack, db, outside, ApprovalInv, Status, UnpaidPoints
<1>17. CASE CheckForNewTransactions
  <2>1. \A id \in Ids : rows'[id].status = rows[id].status
    BY <1>17, NotifyType
    DEF CheckForNewTransactions, StoreNewTransactions, db, PaidInv, TypeInv
  <2>. QED
    BY <1>17, <2>1, SameRows, SameApprovals
    DEF CheckForNewTransactions, StoreNewTransactions, outside, UnpaidPoints
<1>18. CASE CheckForNewTransactionsFails
  <2>1. \A id \in Ids : rows'[id].status = rows[id].status
    BY <1>18, NotifyType
    DEF CheckForNewTransactionsFails, StoreNewTransactions, db, PaidInv, TypeInv
  <2>. QED
    BY <1>18, <2>1, SameRows, SameApprovals
    DEF CheckForNewTransactionsFails, StoreNewTransactions, outside, UnpaidPoints
<1>19. CASE CheckForExistingTransactionUpdates
  <2>1. \A id \in Ids : rows'[id].status = rows[id].status
    BY <1>19, NotifyType
    DEF CheckForExistingTransactionUpdates, StoreExistingTransactions, db, PaidInv, TypeInv
  <2>. QED
    BY <1>19, <2>1, SameRows, SameApprovals
    DEF CheckForExistingTransactionUpdates, StoreExistingTransactions, AfterPolls, outside, UnpaidPoints
<1>20. CASE CheckForExistingTransactionUpdatesFails
  <2>1. \A id \in Ids : rows'[id].status = rows[id].status
    BY <1>20, NotifyType
    DEF CheckForExistingTransactionUpdatesFails, StoreExistingTransactions, db, PaidInv, TypeInv
  <2>. QED
    BY <1>20, <2>1, SameRows, SameApprovals
    DEF CheckForExistingTransactionUpdatesFails, StoreExistingTransactions, AfterPolls, outside, UnpaidPoints
<1>21. CASE SendNext
  <2>1. PICK id \in Cheapest(plan.queue) : SendWithdrawal(id, "loop")
    BY <1>21 DEF SendNext
  <2>2. id \in GetPendingTransactions
    BY <2>1 DEF Cheapest, PaidInv, PlanIsPending
  <2>3. Status(id) \in Sendable /\ Approved(id)
    BY <2>2 DEF ApprovalInv, GetPendingTransactions, Sendable
  <2>. QED
    BY <1>21, <2>1, <2>3, SameRows, SameApprovals DEF SendNext, SendWithdrawal, db, outside, Status
<1>22. ASSUME NEW id \in Ids, WithdrawNow(id) PROVE ApprovalInv' /\ [Ledger!LedgerNext]_(Ledger!ledgerVars)
  BY <1>22, SameRows, SameApprovals
  DEF WithdrawNow, SendWithdrawal, db, outside, Status, Sendable, Approved
<1>23. ASSUME NEW d \in Deposits, DepositArrives(d) \/ DepositConfirms(d) PROVE ApprovalInv' /\ [Ledger!LedgerNext]_(Ledger!ledgerVars)
  BY <1>23, SameRows, SameApprovals
  DEF DepositArrives, DepositConfirms, db, memory, ApprovalInv, Status
<1>24. CASE UNCHANGED vars
  BY <1>24, SameRows, SameApprovals DEF vars, db, outside, memory, ApprovalInv, Status
<1>25. CASE Classify
  <2>1. \A id \in Ids \ plan.queue : rows'[id].status = rows[id].status
    BY <1>25 DEF Classify, StoreClassification
  <2>2. \A id \in plan.queue :
          /\ id \in GetPendingTransactions
          /\ rows'[id].status \in {"pending", "pending-cold-storage"}
    BY <1>25 DEF Classify, StoreClassification, PaidInv, PlanIsPending, GetPendingTransactions,
              TypeInv, TypeOK, DatabaseTypeOK, MemoryTypeOK, Status
  <2>3. GetPendingTransactions' = GetPendingTransactions
    BY <2>1, <2>2 DEF GetPendingTransactions, Status
  <2>4. \A id \in Ids : LedgerState(id)' = LedgerState(id)
    BY <1>25, <2>1, <2>2, <2>3 DEF Classify, outside, LedgerState, Status, GetPendingTransactions
  <2>5. pc' \notin UnpaidPoints /\ UNCHANGED <<sent, credited, approved>>
    BY <1>25 DEF Classify, UpdateDone, UpdateFailed, outside, UnpaidPoints, PaidInv, TypeInv,
              TypeOK, MemoryTypeOK
  <2>. QED
    BY <2>3, <2>4, <2>5, LedgerStutters, SameApprovals
<1>26. CASE PersistSuccess \/ (PersistCommitLost /\ pc = "persistOK")
  <2>1. StoreSuccess(cur.id) /\ pc = "persistOK" /\ UNCHANGED <<sent, credited, approved>>
    BY <1>26 DEF PersistSuccess, PersistCommitLost
  <2>2. cur.id \in Ids /\ sent[cur.id] + credited[cur.id] > 0
    BY <2>1 DEF PaidInv, CurrentIsUnpaid, TypeInv, HasTransaction, SendingPoints
  <2>3. \A id \in Ids : rows'[id].status = IF id = cur.id THEN "new" ELSE rows[id].status
    BY <2>1, StoreSuccessType DEF PaidInv
  <2>4. \A id \in Ids : LedgerState(id)' = LedgerState(id)
    BY <2>1, <2>2, <2>3 DEF LedgerState, Status, GetPendingTransactions
  <2>5. pc' \notin UnpaidPoints
    BY <1>26, <2>1 DEF PersistSuccess, PersistCommitLost, SendReturnsAndSchedules, SendReturns,
                    RetryOrPanic, Down, UnpaidPoints
  <2>6. GetPendingTransactions' \subseteq GetPendingTransactions
    BY <2>3 DEF GetPendingTransactions, Status
  <2>7. ApprovalInv'
    BY <2>1, <2>5, <2>6 DEF ApprovalInv, Approved, NeedsManualConfirmation
  <2>. QED
    BY <2>1, <2>4, <2>7, LedgerStutters
<1>27. CASE OperatorResolves
  <2>1. UNCHANGED <<sent, credited, approved, pc, cur>> /\ pc = "down" /\ lock \in Ids
    BY <1>27 DEF OperatorResolves, outside, memory, PaidInv, TypeInv, TypeOK, DatabaseTypeOK
  <2>2. \A id \in Ids :
          \/ rows'[id].status = rows[id].status
          \/ id = lock /\ sent[id] > 0 /\ rows'[id].status = "new"
    BY <1>27, <2>1 DEF OperatorResolves, Unrecorded, Status, PaidInv, RowsAreTrue, TypeInv, TypeOK,
              DatabaseTypeOK, OutsideTypeOK
  <2>3. \A id \in Ids : LedgerState(id)' = LedgerState(id)
    BY <2>1, <2>2 DEF LedgerState, Status, GetPendingTransactions, PaidInv, TypeInv, TypeOK,
              OutsideTypeOK
  <2>4. GetPendingTransactions' \subseteq GetPendingTransactions
    BY <2>2 DEF GetPendingTransactions, Status
  <2>5. ApprovalInv'
    BY <2>1, <2>4 DEF ApprovalInv, Approved, NeedsManualConfirmation, UnpaidPoints
  <2>. QED
    BY <2>1, <2>3, <2>5, LedgerStutters
<1>28. ASSUME NEW id \in Ids, WithdrawHeld(id) PROVE ApprovalInv' /\ [Ledger!LedgerNext]_(Ledger!ledgerVars)
  <2>1. /\ Status(id) = "absent" /\ rows'[id].status = "pending-manual-confirmation"
        /\ \A other \in Ids \ {id} : rows'[other].status = rows[other].status
        /\ UNCHANGED <<sent, credited, approved>> /\ pc' = "poll1"
        /\ NeedsManualConfirmation(id) /\ pc = "idle"
    BY <1>28 DEF WithdrawHeld, Hold, outside, PaidInv, TypeInv, TypeOK, DatabaseTypeOK
  <2>2. sent[id] = 0 /\ credited[id] = 0
    BY <2>1, RowsUnpaid
  <2>3. LedgerState(id) = "none" /\ LedgerState(id)' = "held"
    BY <2>1, <2>2 DEF LedgerState, Status, GetPendingTransactions
  <2>4. \A other \in Ids \ {id} : LedgerState(other)' = LedgerState(other)
    BY <2>1 DEF LedgerState, Status, GetPendingTransactions
  <2>5. Ledger!HoldForApproval(id)
    BY <2>1, <2>3, <2>4, LedgerMoves DEF Ledger!HoldForApproval
  <2>6. ApprovalInv'
    BY <2>1 DEF ApprovalInv, Approved, NeedsManualConfirmation, UnpaidPoints,
                GetPendingTransactions, Status
  <2>. QED
    BY <2>5, <2>6 DEF Ledger!LedgerNext
<1>29. ASSUME NEW id \in Ids, Confirm(id) PROVE ApprovalInv' /\ [Ledger!LedgerNext]_(Ledger!ledgerVars)
  <2>1. /\ Status(id) = "pending-manual-confirmation" /\ pc = "idle" /\ pc' = "prepare"
        /\ UNCHANGED <<rows, sent, credited>> /\ approved' = approved \cup {id}
        /\ cur'.id = id
    BY <1>29 DEF Confirm, SendWithdrawal, db
  <2>2. sent[id] = 0 /\ credited[id] = 0
    BY <2>1, RowsUnpaid
  <2>3. LedgerState(id) = "held"
    BY <2>1, <2>2 DEF LedgerState, Status, GetPendingTransactions
  <2>4. \A other \in Ids : LedgerState(other)' = LedgerState(other)
    BY <2>1 DEF LedgerState, Status, GetPendingTransactions
  <2>5. Ledger!Approve(id)
    BY <2>1, <2>3, <2>4 DEF Ledger!Approve
  <2>6. ApprovalInv'
    BY <2>1 DEF ApprovalInv, Approved, NeedsManualConfirmation, GetPendingTransactions, Status,
                Sendable
  <2>. QED
    BY <2>5, <2>6 DEF Ledger!LedgerNext
<1>30. ASSUME NEW id \in Ids, Cancel(id) PROVE ApprovalInv' /\ [Ledger!LedgerNext]_(Ledger!ledgerVars)
  <2>1. /\ Status(id) \in Cancellable /\ rows'[id].status = "cancelled"
        /\ \A other \in Ids \ {id} : rows'[other].status = rows[other].status
        /\ UNCHANGED <<sent, credited, approved>> /\ pc' \in {"poll1", "update"}
        /\ pc = "idle"
    BY <1>30 DEF Cancel, outside, PaidInv, TypeInv, TypeOK, DatabaseTypeOK
  <2>2. sent[id] = 0 /\ credited[id] = 0
    BY <2>1, RowsUnpaid DEF Cancellable
  <2>3. LedgerState(id) \in {"held", "queued"} /\ LedgerState(id)' = "cancelled"
    BY <2>1, <2>2 DEF LedgerState, Status, GetPendingTransactions, Cancellable
  <2>4. \A other \in Ids \ {id} : LedgerState(other)' = LedgerState(other)
    BY <2>1 DEF LedgerState, Status, GetPendingTransactions
  <2>5. Ledger!CancelQueued(id)
    BY <2>1, <2>3, <2>4, LedgerMoves DEF Ledger!CancelQueued
  <2>6. ApprovalInv'
    BY <2>1 DEF ApprovalInv, Approved, NeedsManualConfirmation, UnpaidPoints,
                GetPendingTransactions, Status
  <2>. QED
    BY <2>5, <2>6 DEF Ledger!LedgerNext
<1>31. CASE NodeSends
  <2>0. PICK id \in Ids : id = cur.id
    BY CurrentMayBePaid, <1>31 DEF NodeSends, UnpaidPoints
  <2>1. /\ pc = "send" /\ pc' = "persistOK" /\ UNCHANGED <<rows, credited, approved>>
        /\ sent' = [sent EXCEPT ![id] = @ + 1]
    BY <2>0, <1>31 DEF NodeSends, Broadcast, Fault, db, ReliableAnswers
  <2>2. /\ id \in Ids /\ sent[id] = 0 /\ credited[id] = 0
        /\ LedgerState(id) \in {"none", "held", "queued"} /\ Ledger!MayPay(id)
    BY <2>0, <2>1, CurrentMayBePaid DEF UnpaidPoints
  <2>3. /\ (sent[id] + credited[id])' = 1
        /\ \A other \in Ids \ {id} : (sent[other] + credited[other])' = sent[other] + credited[other]
    BY <2>0, <2>1, <2>2 DEF PaidInv, TypeInv, TypeOK, OutsideTypeOK
  <2>4. LedgerState(id)' = "paid"
    BY <2>3 DEF LedgerState
  <2>5. \A other \in Ids \ {id} : LedgerState(other)' = LedgerState(other)
    BY <2>0, <2>1, <2>3 DEF LedgerState, Status, GetPendingTransactions
  <2>6. [i \in Ids |-> sent[i] + credited[i]]'
          = [[i \in Ids |-> sent[i] + credited[i]] EXCEPT ![id] = @ + 1]
    BY <2>2, <2>3, PaymentMoves
  <2>7. Ledger!Pay(id)
    BY <2>0, <2>1, <2>2, <2>4, <2>5, <2>6, LedgerMoves DEF Ledger!Pay
  <2>8. ApprovalInv'
    BY <2>0, <2>1 DEF ApprovalInv, Approved, NeedsManualConfirmation, UnpaidPoints,
                GetPendingTransactions, Status
  <2>. QED
    BY <2>2, <2>7, <2>8 DEF Ledger!LedgerNext
<1>32. CASE InternalTransfer \/ InternalTransferLost
  <2>0. PICK id \in Ids : id = cur.id
    BY CurrentMayBePaid, <1>32 DEF InternalTransfer, InternalTransferLost, UnpaidPoints
  <2>1. /\ pc = "prepare" /\ pc' \notin UnpaidPoints /\ UNCHANGED <<sent, approved>>
        /\ credited' = [credited EXCEPT ![id] = @ + 1]
        /\ \A other \in Ids \ {id} : rows'[other].status = rows[other].status
        /\ rows'[id].status = "fully-confirmed" \/ rows' = rows
    BY <2>0, <1>32 DEF InternalTransfer, InternalTransferLost, StoreInternalTransfer, SendReturns,
              SendReturnsError, UpdateFailed, UnpaidPoints, PaidInv, TypeInv, TypeOK,
              DatabaseTypeOK, MemoryTypeOK, HasTransaction, SendingPoints
  <2>2. /\ id \in Ids /\ sent[id] = 0 /\ credited[id] = 0
        /\ LedgerState(id) \in {"none", "held", "queued"} /\ Ledger!MayPay(id)
    BY <2>0, <2>1, CurrentMayBePaid DEF UnpaidPoints
  <2>3. /\ (sent[id] + credited[id])' = 1
        /\ \A other \in Ids \ {id} : (sent[other] + credited[other])' = sent[other] + credited[other]
    BY <2>0, <2>1, <2>2 DEF PaidInv, TypeInv, TypeOK, OutsideTypeOK
  <2>4. LedgerState(id)' = "paid"
    BY <2>3 DEF LedgerState
  <2>5. \A other \in Ids \ {id} : LedgerState(other)' = LedgerState(other)
    BY <2>0, <2>1, <2>3 DEF LedgerState, Status, GetPendingTransactions
  <2>6. [i \in Ids |-> sent[i] + credited[i]]'
          = [[i \in Ids |-> sent[i] + credited[i]] EXCEPT ![id] = @ + 1]
    BY <2>2, <2>3, PaymentMoves
  <2>7. Ledger!Pay(id)
    BY <2>0, <2>1, <2>2, <2>4, <2>5, <2>6, LedgerMoves DEF Ledger!Pay
  <2>8. GetPendingTransactions' \subseteq GetPendingTransactions
    BY <2>0, <2>1, <2>2 DEF GetPendingTransactions, Status
  <2>9. ApprovalInv'
    BY <2>0, <2>1, <2>8 DEF ApprovalInv, Approved, NeedsManualConfirmation
  <2>. QED
    BY <2>2, <2>7, <2>9 DEF Ledger!LedgerNext
<1>33. CASE PersistPending \/ (PersistCommitLost /\ pc # "persistOK")
  <2>0. PICK id \in Ids : id = cur.id
    BY CurrentMayBePaid, <1>33 DEF PersistPending, PersistCommitLost, UnpaidPoints
  <2>1. /\ pc \in {"persistPending", "persistFailed"}
        /\ UNCHANGED <<sent, credited, approved>>
        /\ StoreError(id)
        /\ pc' \in UnpaidPoints => pc' = pc /\ cur'.id = id
    BY <2>0, <1>33 DEF PersistPending, PersistCommitLost, SendReturnsAndSchedules, SendReturns,
              RetryOrPanic, Down, UnpaidPoints, outside, PaidInv, TypeInv, TypeOK, MemoryTypeOK
  <2>2. /\ id \in Ids /\ sent[id] = 0 /\ credited[id] = 0
        /\ LedgerState(id) \in {"none", "held", "queued"} /\ Ledger!MayPay(id)
    BY <2>0, <2>1, CurrentMayBePaid DEF UnpaidPoints
  <2>3. CASE pc = "persistFailed"
    <3>1. rows' = rows
      BY <2>0, <2>1, <2>3 DEF StoreError
    <3>. QED
      BY <2>0, <2>1, <2>3, <3>1, SameRows, SameApprovals DEF ApprovalInv, Status, UnpaidPoints
  <2>4. CASE pc = "persistPending"
    <3>1. /\ rows'[id].status = "pending"
          /\ \A other \in Ids \ {id} : rows'[other].status = rows[other].status
      BY <2>0, <2>1, <2>2, <2>4 DEF StoreError, PaidInv, TypeInv, TypeOK, DatabaseTypeOK
    <3>2. LedgerState(id)' = "queued"
      BY <2>0, <2>1, <2>2, <3>1 DEF LedgerState, Status, GetPendingTransactions
    <3>3. \A other \in Ids \ {id} : LedgerState(other)' = LedgerState(other)
      BY <2>0, <2>1, <3>1 DEF LedgerState, Status, GetPendingTransactions
    <3>4. ApprovalInv'
      BY <2>0, <2>1, <2>2, <2>4, <3>1 DEF ApprovalInv, Approved, NeedsManualConfirmation, UnpaidPoints,
                GetPendingTransactions, Status, Sendable
    <3>5. CASE LedgerState(id) = "queued"
      BY <2>0, <2>1, <3>2, <3>3, <3>4, <3>5, LedgerStutters
    <3>6. CASE LedgerState(id) \in {"none", "held"}
      <4>1. Ledger!Queue(id)
        BY <2>0, <2>1, <2>2, <3>2, <3>3, <3>6, LedgerMoves DEF Ledger!Queue
      <4>. QED
        BY <2>2, <3>4, <4>1 DEF Ledger!LedgerNext
    <3>. QED
      BY <2>2, <3>5, <3>6
  <2>. QED
    BY <2>0, <2>1, <2>3, <2>4
<1>. QED
  BY <1>1, <1>2, <1>3, <1>4, <1>5, <1>6, <1>7, <1>8, <1>9, <1>10, <1>11, <1>12, <1>13, <1>14, <1>15, <1>16, <1>17, <1>18, <1>19, <1>20, <1>21, <1>22, <1>23, <1>24, <1>25, <1>26, <1>27, <1>28, <1>29, <1>30, <1>31, <1>32, <1>33
  DEF Next, Working, Polling, Updating, Sending, Persisting, Requests, Environment

\* The wallet implements the ledger: whatever fails, a withdrawal is paid at most
\* once, a large one only after /confirm, and never once it is cancelled.
THEOREM Refinement == ReliableAnswers /\ Spec => ImplementsLedger
<1>. SUFFICES ASSUME ReliableAnswers
              PROVE  Spec => ImplementsLedger
  OBVIOUS
<1>1. Spec => []PaidInv
  BY PaidInvHolds
<1>2. Init => ApprovalInv /\ Ledger!LedgerInit
  BY InitApproval
<1>3. PaidInv /\ ApprovalInv /\ [Next]_vars => ApprovalInv' /\ [Ledger!LedgerNext]_(Ledger!ledgerVars)
  BY StepRefines
<1>. QED
  BY <1>1, <1>2, <1>3, PTL DEF Spec, ImplementsLedger, Ledger!LedgerSpec

-----------------------------------------------------------------------------
(***************************************************************************)
(* Announced at most once.  notifyTransaction looks at the reported        *)
(* confirmations of the transaction in memory, not at those of the row, so *)
(* the argument is about the two: whenever the one in hand says that       *)
(* nothing was reported, the row says so too.  Nothing is assumed about    *)
(* the failures that happen.                                               *)
(***************************************************************************)

\* What was announced is marked in the row; a row there never was is unmarked.
MarkedIfAnnounced ==
    \A id \in Ids :
        /\ announced[id] <= 1
        /\ announced[id] = 1 => rows[id].reported = 0
        /\ Status(id) = "absent" => rows[id].reported = -1

HandKnowsReported ==
    pc \in SendingPoints /\ cur.reported = -1 => rows[cur.id].reported = -1

AnnounceInv == TypeInv /\ MarkedIfAnnounced /\ HandKnowsReported

\* If no transaction fails after it has written to the one in memory, the two
\* agree, and the row is marked only when the event is stored.
HandAgreesWithRow ==
    pc \in SendingPoints /\ cur.id \notin ColdIds => cur.reported = rows[cur.id].reported

ExactInv == TypeInv /\ AnnouncedExactlyOnce /\ HandAgreesWithRow

\* What a step does to the events and to the reported confirmations, when it
\* announces nothing: the rows keep theirs, and a transaction that is taken in
\* hand has those of its row.
QuietForEvents ==
    /\ announced' = announced
    /\ \A id \in Ids : /\ rows'[id].reported = rows[id].reported
                       /\ Status(id)' = "absent" => Status(id) = "absent"
    /\ pc' \in SendingPoints =>
         \/ pc \in SendingPoints /\ cur'.id = cur.id /\ cur'.reported = cur.reported
         \/ cur'.reported = rows[cur'.id].reported

\* What updateReportedConfirmations leaves in memory, committed or not.
MarkedInMemory == IF cur.id \in ColdIds THEN cur.reported ELSE 0

Retried(reported) ==
    pc' \in SendingPoints => cur'.id = cur.id /\ cur'.reported = reported

\* The steps that store events, or that lose them.
LoudForEvents ==
    \/ NotifyBroadcasts /\ pc' \notin SendingPoints
    \/ pc = "prepare" /\ StoreInternalTransfer(cur.id) /\ pc' \notin SendingPoints
    \/ pc = "persistOK" /\ StoreSuccess(cur.id) /\ Retried(MarkedInMemory)
    \/ /\ pc = "persistOK" /\ "dbFailLate" \in Faults
       /\ UNCHANGED <<rows, announced>> /\ Retried(MarkedInMemory)

\* Every step is quiet or one of those four.
LEMMA EventSteps ==
    ASSUME TypeInv, [Next]_vars
    PROVE  QuietForEvents \/ LoudForEvents
<1>1. CASE Start
  BY <1>1 DEF Start, QuietForEvents, SendingPoints, Status, db, outside, memory
<1>2. CASE Tick
  BY <1>2 DEF Tick, QuietForEvents, SendingPoints, Status, db, outside, memory
<1>3. CASE TriggerTaken
  BY <1>3 DEF TriggerTaken, QuietForEvents, SendingPoints, Status, db, outside, memory
<1>4. CASE TimerFires
  BY <1>4 DEF TimerFires, QuietForEvents, SendingPoints, Status, db, outside, memory
<1>5. CASE ReadPending
  BY <1>5 DEF ReadPending, QuietForEvents, SendingPoints, Status, db, outside, memory
<1>6. CASE ReadUnconfirmed
  BY <1>6 DEF ReadUnconfirmed, QuietForEvents, SendingPoints, Status, db, outside, memory
<1>7. CASE ReadFails
  BY <1>7 DEF ReadFails, UpdateFailed, TypeInv, TypeOK, MemoryTypeOK, DatabaseTypeOK, QuietForEvents, SendingPoints, Status, db, outside, memory
<1>8. CASE AllFunded
  BY <1>8 DEF AllFunded, UpdateDone, UpdateFailed, TypeInv, TypeOK, MemoryTypeOK, DatabaseTypeOK, QuietForEvents, SendingPoints, Status, db, outside, memory
<1>9. CASE LockWallet
  BY <1>9 DEF LockWallet, SendReturnsError, UpdateFailed, TypeInv, TypeOK, MemoryTypeOK, DatabaseTypeOK, QuietForEvents, SendingPoints, Status, db, outside, memory
<1>10. CASE PrepareFails
  BY <1>10 DEF PrepareFails, SendReturnsError, UpdateFailed, TypeInv, TypeOK, MemoryTypeOK, DatabaseTypeOK, QuietForEvents, SendingPoints, Status, db, outside, memory
<1>11. CASE NodeSends
  BY <1>11 DEF NodeSends, QuietForEvents, SendingPoints, Status, db, outside, memory
<1>12. CASE NodeRefusesFunds
  BY <1>12 DEF NodeRefusesFunds, QuietForEvents, SendingPoints, Status, db, outside, memory
<1>13. CASE NodeFails
  BY <1>13 DEF NodeFails, QuietForEvents, SendingPoints, Status, db, outside, memory
<1>14. CASE PersistFailed
  BY <1>14 DEF PersistFailed, StoreError, SendReturnsError, UpdateFailed, TypeInv, TypeOK, MemoryTypeOK, DatabaseTypeOK, QuietForEvents, SendingPoints, Status, db, outside, memory
<1>15. CASE PersistRolledBack
  BY <1>15 DEF PersistRolledBack, RetryOrPanic, Down, TypeInv, TypeOK, MemoryTypeOK, DatabaseTypeOK, QuietForEvents, SendingPoints, Status, db, outside, memory
<1>16. CASE Crash
  BY <1>16 DEF Crash, Down, QuietForEvents, SendingPoints, Status, db, outside, memory
<1>17. CASE SendNext
  BY <1>17 DEF SendNext, SendWithdrawal, QuietForEvents, SendingPoints, Status, db, outside
<1>18. CASE PersistPending
  <2>1. cur.id \in Ids
    BY <1>18 DEF PersistPending, TypeInv, HasTransaction, SendingPoints
  <2>. QED
    BY <1>18, <2>1 DEF PersistPending, StoreError, SendReturnsAndSchedules, SendReturns, QuietForEvents,
                     SendingPoints, Status, outside, TypeInv, TypeOK, MemoryTypeOK, DatabaseTypeOK
<1>19. ASSUME NEW id \in Ids, WithdrawHeld(id) PROVE QuietForEvents
  BY <1>19 DEF WithdrawHeld, Hold, SendWithdrawal, Cancellable, QuietForEvents, SendingPoints, Status, db, outside, TypeInv, TypeOK, MemoryTypeOK, DatabaseTypeOK
<1>20. ASSUME NEW id \in Ids, WithdrawNow(id) PROVE QuietForEvents
  BY <1>20 DEF WithdrawNow, Hold, SendWithdrawal, Cancellable, QuietForEvents, SendingPoints, Status, db, outside, TypeInv, TypeOK, MemoryTypeOK, DatabaseTypeOK
<1>21. ASSUME NEW id \in Ids, Confirm(id) PROVE QuietForEvents
  BY <1>21 DEF Confirm, Hold, SendWithdrawal, Cancellable, QuietForEvents, SendingPoints, Status, db, outside, TypeInv, TypeOK, MemoryTypeOK, DatabaseTypeOK
<1>22. ASSUME NEW id \in Ids, Cancel(id) PROVE QuietForEvents
  BY <1>22 DEF Cancel, Hold, SendWithdrawal, Cancellable, QuietForEvents, SendingPoints, Status, db, outside, TypeInv, TypeOK, MemoryTypeOK, DatabaseTypeOK
<1>23. ASSUME NEW d \in Deposits, DepositArrives(d) \/ DepositConfirms(d) PROVE QuietForEvents
  BY <1>23 DEF DepositArrives, DepositConfirms, QuietForEvents, SendingPoints, Status, db, memory
<1>24. CASE UNCHANGED vars
  BY <1>24 DEF vars, QuietForEvents, SendingPoints, Status, db, outside, memory
<1>25. CASE OperatorResolves
  BY <1>25 DEF OperatorResolves, QuietForEvents, SendingPoints, Status, outside, memory, TypeInv, TypeOK, MemoryTypeOK, DatabaseTypeOK
<1>26. CASE Classify
  <2>1. pc' \notin SendingPoints
    BY <1>26 DEF Classify, UpdateDone, UpdateFailed, SendingPoints, TypeInv, TypeOK, MemoryTypeOK, DatabaseTypeOK
  <2>2. CASE rows' = rows
    BY <1>26, <2>1, <2>2 DEF Classify, QuietForEvents, Status, outside
  <2>3. CASE StoreClassification
    <3>1. \A id \in Ids : /\ rows'[id].reported = rows[id].reported
                          /\ rows'[id].status = "absent" => rows[id].status = "absent"
      BY <2>3 DEF StoreClassification, TypeInv, TypeOK, MemoryTypeOK, DatabaseTypeOK
    <3>. QED
      BY <1>26, <2>1, <3>1 DEF Classify, QuietForEvents, Status, outside
  <2>. QED
    BY <1>26, <2>2, <2>3 DEF Classify
<1>27. CASE CheckForNewTransactions
  <2>1. pc' \notin SendingPoints
    BY <1>27 DEF CheckForNewTransactions, AfterPolls, SendingPoints
  <2>. QED
    BY <1>27, <2>1 DEF CheckForNewTransactions, StoreNewTransactions, LoudForEvents, QuietForEvents, Status, db, outside
<1>28. CASE CheckForNewTransactionsFails
  <2>1. pc' \notin SendingPoints
    BY <1>28 DEF CheckForNewTransactionsFails, AfterPolls, SendingPoints
  <2>. QED
    BY <1>28, <2>1 DEF CheckForNewTransactionsFails, StoreNewTransactions, LoudForEvents, QuietForEvents, Status, db, outside
<1>29. CASE CheckForExistingTransactionUpdates
  <2>1. pc' \notin SendingPoints
    BY <1>29 DEF CheckForExistingTransactionUpdates, AfterPolls, SendingPoints
  <2>. QED
    BY <1>29, <2>1 DEF CheckForExistingTransactionUpdates, StoreExistingTransactions, LoudForEvents, QuietForEvents, Status, db, outside
<1>30. CASE CheckForExistingTransactionUpdatesFails
  <2>1. pc' \notin SendingPoints
    BY <1>30 DEF CheckForExistingTransactionUpdatesFails, AfterPolls, SendingPoints
  <2>. QED
    BY <1>30, <2>1 DEF CheckForExistingTransactionUpdatesFails, StoreExistingTransactions, LoudForEvents, QuietForEvents, Status, db, outside
<1>31. CASE InternalTransfer
  <2>1. pc' \notin SendingPoints
    BY <1>31 DEF InternalTransfer, SendReturns, SendReturnsError, UpdateFailed, SendingPoints, TypeInv, TypeOK, MemoryTypeOK, DatabaseTypeOK
  <2>. QED
    BY <1>31, <2>1 DEF InternalTransfer, LoudForEvents
<1>32. CASE InternalTransferLost
  <2>1. pc' \notin SendingPoints
    BY <1>32 DEF InternalTransferLost, SendReturns, SendReturnsError, UpdateFailed, SendingPoints, TypeInv, TypeOK, MemoryTypeOK, DatabaseTypeOK
  <2>. QED
    BY <1>32, <2>1 DEF InternalTransferLost, LoudForEvents
<1>33. CASE PersistSuccess
  <2>1. pc' \notin SendingPoints
    BY <1>33 DEF PersistSuccess, SendReturnsAndSchedules, SendReturns, SendingPoints
  <2>. QED
    BY <1>33, <2>1 DEF PersistSuccess, LoudForEvents, Retried
<1>34. CASE PersistRolledBackLate
  BY <1>34 DEF PersistRolledBackLate, Fault, RetryOrPanic, Down, LoudForEvents, Retried, MarkedInMemory,
              SendingPoints, db, outside, TypeInv, TypeOK, MemoryTypeOK, DatabaseTypeOK
<1>35. CASE PersistCommitLost
  <2>1. cur.id \in Ids
    BY <1>35 DEF PersistCommitLost, TypeInv, HasTransaction, SendingPoints
  <2>2. CASE pc = "persistOK"
    BY <1>35, <2>2 DEF PersistCommitLost, RetryOrPanic, Down, LoudForEvents, Retried, MarkedInMemory,
                      SendingPoints, TypeInv, TypeOK, MemoryTypeOK, DatabaseTypeOK
  <2>3. CASE pc # "persistOK"
    BY <1>35, <2>1, <2>3 DEF PersistCommitLost, StoreError, RetryOrPanic, Down, QuietForEvents, Status,
                      SendingPoints, TypeInv, TypeOK, MemoryTypeOK, DatabaseTypeOK
  <2>. QED
    BY <2>2, <2>3
<1>. QED
  BY <1>1, <1>2, <1>3, <1>4, <1>5, <1>6, <1>7, <1>8, <1>9, <1>10, <1>11, <1>12, <1>13, <1>14, <1>15, <1>16, <1>17, <1>18, <1>19, <1>20, <1>21, <1>22, <1>23, <1>24, <1>25, <1>26, <1>27, <1>28, <1>29, <1>30, <1>31, <1>32, <1>33, <1>34, <1>35
  DEF Next, Working, Polling, Updating, Sending, Persisting, Requests, Environment
\* In the initial state nothing was announced or reported.
LEMMA InitAnnounce == Init => AnnounceInv /\ ExactInv
<1>. SUFFICES ASSUME Init
              PROVE  AnnounceInv /\ ExactInv
  OBVIOUS
<1>1. TypeInv
  BY InitTypeInv
<1>2. MarkedIfAnnounced /\ HandKnowsReported
  BY DEF Init, MarkedIfAnnounced, HandKnowsReported, Status, SendingPoints
<1>3. AnnouncedExactlyOnce /\ HandAgreesWithRow
  BY DEF Init, AnnouncedExactlyOnce, HandAgreesWithRow, SendingPoints
<1>. QED
  BY <1>1, <1>2, <1>3 DEF AnnounceInv, ExactInv

\* Whatever fails, an event is stored only for a row that says it was not.
LEMMA StepAnnounce == AnnounceInv /\ [Next]_vars => AnnounceInv'
<1>. SUFFICES ASSUME AnnounceInv, [Next]_vars
              PROVE  AnnounceInv'
  OBVIOUS
<1>1. TypeInv /\ TypeInv'
  BY StepTypeInv DEF AnnounceInv
<1>2. /\ rows \in [Ids -> [status : Statuses, reported : {-1, 0}]]
      /\ announced \in [Ids -> Nat]
      /\ cur.reported \in {-1, 0}
      /\ pc \in SendingPoints => cur.id \in Ids
      /\ pc' \in SendingPoints => cur'.id \in Ids
  BY <1>1 DEF TypeInv, TypeOK, DatabaseTypeOK, OutsideTypeOK, MemoryTypeOK, HasTransaction
<1>3. CASE QuietForEvents
  <2>1. MarkedIfAnnounced'
    BY <1>2, <1>3 DEF QuietForEvents, AnnounceInv, MarkedIfAnnounced
  <2>2. HandKnowsReported'
    BY <1>2, <1>3 DEF QuietForEvents, AnnounceInv, HandKnowsReported
  <2>. QED
    BY <1>1, <2>1, <2>2 DEF AnnounceInv
<1>4. CASE NotifyBroadcasts /\ pc' \notin SendingPoints
  <2>1. MarkedIfAnnounced'
    <3>. SUFFICES ASSUME NEW id \in Ids
                  PROVE  (/\ announced[id] <= 1
                          /\ announced[id] = 1 => rows[id].reported = 0
                          /\ Status(id) = "absent" => rows[id].reported = -1)'
      BY DEF MarkedIfAnnounced
    <3>1. /\ announced[id] <= 1 /\ announced[id] \in Nat
          /\ announced[id] = 1 => rows[id].reported = 0
          /\ Status(id) = "absent" => rows[id].reported = -1
      BY <1>2 DEF AnnounceInv, MarkedIfAnnounced
    <3>2. CASE Unannounced(id)
      <4>1. announced[id] = 0
        BY <3>1, <3>2 DEF Unannounced
      <4>2. announced'[id] = 1 /\ rows'[id].reported = 0 /\ rows'[id].status = "new"
        BY <1>2, <1>4, <3>2, <4>1 DEF NotifyBroadcasts, Unannounced, Status
      <4>. QED
        BY <4>2 DEF Status
    <3>3. CASE ~Unannounced(id)
      BY <1>4, <3>1, <3>3 DEF NotifyBroadcasts, Status
    <3>. QED
      BY <3>2, <3>3
  <2>. QED
    BY <1>1, <1>4, <2>1 DEF AnnounceInv, HandKnowsReported
<1>5. CASE pc = "prepare" /\ StoreInternalTransfer(cur.id) /\ pc' \notin SendingPoints
  <2>1. PICK id \in Ids : id = cur.id
    BY <1>2, <1>5 DEF SendingPoints
  <2>2. cur.reported = -1 => announced[id] = 0
    <3>1. cur.reported = -1 => rows[id].reported = -1
      BY <1>5, <2>1 DEF AnnounceInv, HandKnowsReported, SendingPoints
    <3>. QED
      BY <1>2, <3>1 DEF AnnounceInv, MarkedIfAnnounced
  <2>3. CASE id \in ColdIds
    BY <1>1, <1>5, <2>1, <2>3
    DEF StoreInternalTransfer, AnnounceInv, MarkedIfAnnounced, HandKnowsReported, Status
  <2>4. CASE id \notin ColdIds
    <3>1. /\ rows' = [rows EXCEPT ![id] = [status |-> "fully-confirmed", reported |-> 0]]
          /\ announced' = [announced EXCEPT ![id] = IF cur.reported = -1 THEN @ + 1 ELSE @]
      BY <1>5, <2>1, <2>4 DEF StoreInternalTransfer
    <3>2. MarkedIfAnnounced'
      BY <1>2, <2>2, <3>1 DEF AnnounceInv, MarkedIfAnnounced, Status
    <3>. QED
      BY <1>1, <1>5, <3>2 DEF AnnounceInv, HandKnowsReported
  <2>. QED
    BY <2>3, <2>4
<1>6. CASE pc = "persistOK" /\ StoreSuccess(cur.id) /\ Retried(MarkedInMemory)
  <2>1. PICK id \in Ids : id = cur.id
    BY <1>2, <1>6 DEF SendingPoints
  <2>2. cur.reported = -1 => announced[id] = 0 /\ rows[id].reported = -1
    BY <1>2, <1>6, <2>1 DEF AnnounceInv, MarkedIfAnnounced, HandKnowsReported, SendingPoints
  <2>3. /\ announced' = [announced EXCEPT ![id] =
                           IF cur.reported = -1 /\ id \notin ColdIds THEN @ + 1 ELSE @]
        /\ \A other \in Ids \ {id} : rows'[other] = rows[other]
        /\ rows'[id].status = "new"
        /\ rows'[id].reported = IF cur.reported = -1 /\ id \notin ColdIds THEN 0
                                ELSE IF Status(id) = "absent" THEN cur.reported
                                ELSE rows[id].reported
    BY <1>2, <1>6, <2>1 DEF StoreSuccess
  <2>4. Status(id) = "absent" => announced[id] = 0
    BY <1>2 DEF AnnounceInv, MarkedIfAnnounced
  <2>5. MarkedIfAnnounced'
    BY <1>2, <2>2, <2>3, <2>4 DEF AnnounceInv, MarkedIfAnnounced, Status
  <2>6. HandKnowsReported'
    BY <1>2, <1>6, <2>1, <2>2, <2>3 DEF Retried, MarkedInMemory, HandKnowsReported
  <2>. QED
    BY <1>1, <2>5, <2>6 DEF AnnounceInv
<1>7. CASE pc = "persistOK" /\ UNCHANGED <<rows, announced>> /\ Retried(MarkedInMemory)
  BY <1>1, <1>2, <1>7
  DEF AnnounceInv, MarkedIfAnnounced, HandKnowsReported, Retried, MarkedInMemory, Status, SendingPoints
<1>. QED
  BY <1>1, <1>3, <1>4, <1>5, <1>6, <1>7, EventSteps DEF LoudForEvents

\* No withdrawal is announced twice, whichever transactions are rolled back,
\* committed without an answer, repeated, or cut short by a crash: a second
\* attempt of handleWithdrawalSuccess, a poll that finds the broadcast first, an
\* internal transfer retried from a pending row.
THEOREM NeverAnnouncedTwice == Spec => []AnnouncedAtMostOnce
<1>1. Init => AnnounceInv
  BY InitAnnounce
<1>2. AnnounceInv /\ [Next]_vars => AnnounceInv'
  BY StepAnnounce
<1>3. AnnounceInv => AnnouncedAtMostOnce
  BY DEF AnnounceInv, MarkedIfAnnounced, AnnouncedAtMostOnce
<1>. QED
  BY <1>1, <1>2, <1>3, PTL DEF Spec

\* If no commit fails after the transaction in memory was marked, the row is
\* marked if and only if the event is stored.
LEMMA StepExact ==
    "dbFailLate" \notin Faults /\ ExactInv /\ [Next]_vars => ExactInv'
<1>. SUFFICES ASSUME "dbFailLate" \notin Faults, ExactInv, [Next]_vars
              PROVE  ExactInv'
  OBVIOUS
<1>1. TypeInv /\ TypeInv'
  BY StepTypeInv DEF ExactInv
<1>2. /\ rows \in [Ids -> [status : Statuses, reported : {-1, 0}]]
      /\ announced \in [Ids -> Nat]
      /\ cur.reported \in {-1, 0}
      /\ pc \in SendingPoints => cur.id \in Ids
      /\ pc' \in SendingPoints => cur'.id \in Ids
  BY <1>1 DEF TypeInv, TypeOK, DatabaseTypeOK, OutsideTypeOK, MemoryTypeOK, HasTransaction
<1>3. CASE QuietForEvents
  <2>1. AnnouncedExactlyOnce'
    BY <1>2, <1>3 DEF QuietForEvents, ExactInv, AnnouncedExactlyOnce
  <2>2. HandAgreesWithRow'
    BY <1>2, <1>3 DEF QuietForEvents, ExactInv, HandAgreesWithRow
  <2>. QED
    BY <1>1, <2>1, <2>2 DEF ExactInv
<1>4. CASE NotifyBroadcasts /\ pc' \notin SendingPoints
  <2>1. AnnouncedExactlyOnce'
    BY <1>2, <1>4 DEF NotifyBroadcasts, Unannounced, Status, ExactInv, AnnouncedExactlyOnce
  <2>. QED
    BY <1>1, <1>4, <2>1 DEF ExactInv, HandAgreesWithRow
<1>5. CASE pc = "prepare" /\ StoreInternalTransfer(cur.id) /\ pc' \notin SendingPoints
  <2>1. PICK id \in Ids : id = cur.id
    BY <1>2, <1>5 DEF SendingPoints
  <2>2. CASE id \in ColdIds
    BY <1>1, <1>5, <2>1, <2>2
    DEF StoreInternalTransfer, ExactInv, AnnouncedExactlyOnce, HandAgreesWithRow
  <2>3. CASE id \notin ColdIds
    <3>1. /\ rows' = [rows EXCEPT ![id] = [status |-> "fully-confirmed", reported |-> 0]]
          /\ announced' = [announced EXCEPT ![id] = IF cur.reported = -1 THEN @ + 1 ELSE @]
          /\ cur.reported = rows[id].reported
      BY <1>5, <2>1, <2>3 DEF StoreInternalTransfer, ExactInv, HandAgreesWithRow, SendingPoints
    <3>2. AnnouncedExactlyOnce'
      BY <1>2, <2>3, <3>1 DEF ExactInv, AnnouncedExactlyOnce
    <3>. QED
      BY <1>1, <1>5, <3>2 DEF ExactInv, HandAgreesWithRow
  <2>. QED
    BY <2>2, <2>3
<1>6. CASE pc = "persistOK" /\ StoreSuccess(cur.id) /\ Retried(MarkedInMemory)
  <2>1. PICK id \in Ids : id = cur.id
    BY <1>2, <1>6 DEF SendingPoints
  <2>2. id \notin ColdIds => cur.reported = rows[id].reported
    BY <1>6, <2>1 DEF ExactInv, HandAgreesWithRow, SendingPoints
  <2>3. /\ announced' = [announced EXCEPT ![id] =
                           IF cur.reported = -1 /\ id \notin ColdIds THEN @ + 1 ELSE @]
        /\ \A other \in Ids \ {id} : rows'[other] = rows[other]
        /\ id \notin ColdIds => rows'[id].reported = 0
    BY <1>2, <1>6, <2>1, <2>2 DEF StoreSuccess
  <2>4. AnnouncedExactlyOnce'
    BY <1>2, <2>2, <2>3 DEF ExactInv, AnnouncedExactlyOnce
  <2>5. HandAgreesWithRow'
    BY <1>2, <1>6, <2>1, <2>3 DEF Retried, MarkedInMemory, HandAgreesWithRow
  <2>. QED
    BY <1>1, <2>4, <2>5 DEF ExactInv
<1>. QED
  BY <1>1, <1>3, <1>4, <1>5, <1>6, EventSteps DEF LoudForEvents

\* The client is told of every broadcast exactly when its row says so, as long as
\* no commit fails after handleWithdrawalSuccess marked the transaction in memory
\* (the run of the lost event shows what happens otherwise).
THEOREM ToldExactlyOnce == "dbFailLate" \notin Faults /\ Spec => []AnnouncedExactlyOnce
<1>. SUFFICES ASSUME "dbFailLate" \notin Faults
              PROVE  Spec => []AnnouncedExactlyOnce
  OBVIOUS
<1>1. Init => ExactInv
  BY InitAnnounce
<1>2. ExactInv /\ [Next]_vars => ExactInv'
  BY StepExact
<1>3. ExactInv => AnnouncedExactlyOnce
  BY DEF ExactInv
<1>. QED
  BY <1>1, <1>2, <1>3, PTL DEF Spec
-----------------------------------------------------------------------------
(***************************************************************************)
(* The money required from cold storage.  A row waits for it only after a  *)
(* classification, which stores the figure with it; the figure is lowered  *)
(* only by a classification of all the pending rows, or when every one of  *)
(* them was sent.                                                          *)
(***************************************************************************)

WaitingForCold == {id \in Ids : Status(id) = "pending-cold-storage"}

\* The plan has every row that waits, but for the one being sent.
PlanCoversWaiting ==
    /\ pc \in {"balance", "loop"} => WaitingForCold \subseteq plan.queue
    /\ pc \in SendingPoints /\ cur.from = "loop" => WaitingForCold \subseteq plan.queue \cup {cur.id}

\* Withdrawals to cold storage never wait.
ColdNeverWaits ==
    /\ \A id \in ColdIds : id \notin GetPendingTransactions
    /\ plan.queue \cap ColdIds = {}
    /\ pc = "persistPending" => cur.id \notin ColdIds
    /\ pc \in SendingPoints /\ cur.from = "loop" => cur.id \notin ColdIds

RequiredInv == TypeInv /\ RequiredCoversPending /\ PlanCoversWaiting /\ ColdNeverWaits

\* What a step other than those of tryToUpdatePendingTxns does: no row begins to
\* wait for cold storage, and the loop goes on only after the row that was in
\* hand has left the queue for good.
QuietForCold ==
    /\ required' = required
    /\ \A id \in Ids :
         \/ rows'[id].status = rows[id].status
         \/ rows'[id].status \notin {"pending", "pending-cold-storage"}
         \/ rows'[id].status = "pending" /\ id \notin ColdIds
    /\ plan'.queue \in {plan.queue, {}}
    /\ pc' \in {"balance", "loop"} =>
         /\ plan'.queue = plan.queue
         /\ \/ pc \in {"balance", "loop"}
            \/ /\ pc \in SendingPoints /\ cur.from = "loop"
               /\ rows'[cur.id].status # "pending-cold-storage"
    /\ pc' \in SendingPoints /\ cur'.from = "loop" =>
         /\ plan'.queue = plan.queue
         /\ pc \in SendingPoints /\ cur.from = "loop" /\ cur'.id = cur.id
    /\ pc' = "persistPending" => cur'.id \notin ColdIds

\* A quiet step preserves the invariant.
LEMMA QuietKeepsRequired ==
    ASSUME RequiredInv, TypeInv', QuietForCold
    PROVE  RequiredInv'
<1>1. WaitingForCold' \subseteq WaitingForCold
  BY DEF QuietForCold, WaitingForCold, Status
<1>2. RequiredCoversPending'
  <2>1. WaitingForCold # {} => required > 0
    BY DEF RequiredInv, RequiredCoversPending, WaitingForCold
  <2>2. WaitingForCold' # {} => required' > 0
    BY <1>1, <2>1 DEF QuietForCold
  <2>. QED
    BY <2>2 DEF RequiredCoversPending, WaitingForCold
<1>3. PlanCoversWaiting'
  <2>1. CASE pc' \in {"balance", "loop"}
    <3>1. plan'.queue = plan.queue /\ pc' \notin SendingPoints
      BY <2>1 DEF QuietForCold, SendingPoints
    <3>2. CASE pc \in {"balance", "loop"}
      BY <1>1, <3>1, <3>2 DEF RequiredInv, PlanCoversWaiting
    <3>3. CASE /\ pc \in SendingPoints /\ cur.from = "loop"
               /\ rows'[cur.id].status # "pending-cold-storage"
      <4>1. WaitingForCold \subseteq plan.queue \cup {cur.id}
        BY <3>3 DEF RequiredInv, PlanCoversWaiting
      <4>2. cur.id \notin WaitingForCold'
        BY <3>3 DEF WaitingForCold, Status
      <4>3. WaitingForCold' \subseteq plan'.queue
        BY <1>1, <3>1, <4>1, <4>2
      <4>. QED
        BY <3>1, <4>3 DEF PlanCoversWaiting
    <3>. QED
      BY <2>1, <3>2, <3>3 DEF QuietForCold
  <2>2. CASE pc' \in SendingPoints /\ cur'.from = "loop"
    <3>1. /\ plan'.queue = plan.queue /\ cur'.id = cur.id
          /\ WaitingForCold \subseteq plan.queue \cup {cur.id}
      BY <2>2 DEF QuietForCold, RequiredInv, PlanCoversWaiting
    <3>2. WaitingForCold' \subseteq plan'.queue \cup {cur'.id}
      BY <1>1, <3>1
    <3>. QED
      BY <2>2, <3>2 DEF PlanCoversWaiting, SendingPoints
  <2>. QED
    BY <2>1, <2>2 DEF PlanCoversWaiting
<1>4. ColdNeverWaits'
  <2>1. \A id \in ColdIds : id \notin GetPendingTransactions'
    BY ConstantsAssumption DEF QuietForCold, RequiredInv, ColdNeverWaits, GetPendingTransactions, Status
  <2>2. plan'.queue \cap ColdIds = {}
    BY DEF QuietForCold, RequiredInv, ColdNeverWaits
  <2>3. pc' \in SendingPoints /\ cur'.from = "loop" => cur'.id \notin ColdIds
    BY DEF QuietForCold, RequiredInv, ColdNeverWaits
  <2>. QED
    BY <2>1, <2>2, <2>3 DEF ColdNeverWaits, QuietForCold
<1>. QED
  BY <1>2, <1>3, <1>4 DEF RequiredInv

\* The steps of tryToUpdatePendingTxns that are not quiet.
PlansForCold == ReadPending \/ SendNext \/ AllFunded \/ Classify

\* All other steps are quiet.
LEMMA ColdSteps ==
    ASSUME RequiredInv, [Next]_vars, ~PlansForCold
    PROVE  QuietForCold
<1>1. /\ rows \in [Ids -> [status : Statuses, reported : {-1, 0}]]
      /\ pc \in SendingPoints => cur.id \in Ids
      /\ ret \in {"idle", "poll1", "poll2", "update"}
      /\ cur \in [id : Ids \cup {NoId}, from : {"none", "withdraw", "confirm", "loop"},
                  reported : {-1, 0}]
      /\ TypeOK
  BY DEF RequiredInv, TypeInv, TypeOK, DatabaseTypeOK, MemoryTypeOK, HasTransaction
<1>2. /\ pc = "persistPending" => cur.id \notin ColdIds
      /\ pc \in SendingPoints /\ cur.from = "loop" => cur.id \notin ColdIds
  BY DEF RequiredInv, ColdNeverWaits
<1>3. NoPlan.queue = {}
  BY DEF NoPlan
<1>4. CASE Start
  BY <1>1, <1>2, <1>3, <1>4 DEF Start, db, outside, QuietForCold, SendingPoints
<1>5. CASE Tick
  BY <1>1, <1>2, <1>3, <1>5 DEF Tick, db, outside, QuietForCold, SendingPoints
<1>6. CASE TriggerTaken
  BY <1>1, <1>2, <1>3, <1>6 DEF TriggerTaken, db, outside, QuietForCold, SendingPoints
<1>7. CASE TimerFires
  BY <1>1, <1>2, <1>3, <1>7 DEF TimerFires, db, outside, QuietForCold, SendingPoints
<1>8. CASE ReadUnconfirmed
  BY <1>1, <1>2, <1>3, <1>8 DEF ReadUnconfirmed, db, outside, QuietForCold, SendingPoints, TypeOK, MemoryTypeOK
<1>9. CASE ReadFails
  BY <1>1, <1>2, <1>3, <1>9 DEF ReadFails, UpdateFailed, db, outside, QuietForCold, SendingPoints
<1>10. CASE LockWallet
  BY <1>1, <1>2, <1>3, <1>10 DEF LockWallet, SendReturnsError, UpdateFailed, outside, QuietForCold, SendingPoints
<1>11. CASE PrepareFails
  BY <1>1, <1>2, <1>3, <1>11 DEF PrepareFails, SendReturnsError, UpdateFailed, db, outside, QuietForCold, SendingPoints
<1>12. CASE NodeSends
  BY <1>1, <1>2, <1>3, <1>12 DEF NodeSends, db, QuietForCold, SendingPoints
<1>13. CASE NodeRefusesFunds
  BY <1>1, <1>2, <1>3, <1>13 DEF NodeRefusesFunds, db, QuietForCold, SendingPoints
<1>14. CASE NodeFails
  BY <1>1, <1>2, <1>3, <1>14 DEF NodeFails, db, QuietForCold, SendingPoints
<1>15. CASE PersistFailed
  BY <1>1, <1>2, <1>3, <1>15 DEF PersistFailed, StoreError, SendReturnsError, UpdateFailed, outside, QuietForCold, SendingPoints
<1>16. CASE PersistRolledBack
  BY <1>1, <1>2, <1>3, <1>16 DEF PersistRolledBack, RetryOrPanic, Down, db, QuietForCold, SendingPoints
<1>17. CASE PersistRolledBackLate
  BY <1>1, <1>2, <1>3, <1>17 DEF PersistRolledBackLate, RetryOrPanic, Down, db, QuietForCold, SendingPoints
<1>18. CASE Crash
  BY <1>1, <1>2, <1>3, <1>18 DEF Crash, Down, db, QuietForCold, SendingPoints
<1>19. CASE PersistPending
  BY <1>1, <1>2, <1>3, <1>19 DEF PersistPending, StoreError, SendReturnsAndSchedules, SendReturns, QuietForCold, SendingPoints
<1>20. CASE PersistSuccess
  BY <1>1, <1>2, <1>3, <1>20 DEF PersistSuccess, StoreSuccess, SendReturnsAndSchedules, SendReturns, QuietForCold, SendingPoints
<1>21. CASE InternalTransfer
  BY <1>1, <1>2, <1>3, <1>21 DEF InternalTransfer, StoreInternalTransfer, SendReturns, QuietForCold, SendingPoints
<1>22. CASE InternalTransferLost
  BY <1>1, <1>2, <1>3, <1>22 DEF InternalTransferLost, StoreInternalTransfer, SendReturnsError, UpdateFailed, QuietForCold, SendingPoints
<1>23. CASE OperatorResolves
  BY <1>1, <1>2, <1>3, <1>23 DEF OperatorResolves, memory, QuietForCold, SendingPoints
<1>24. CASE PersistCommitLost
  <2>1. CASE pc = "persistOK"
    BY <1>1, <1>2, <1>3, <1>24, <2>1
    DEF PersistCommitLost, StoreSuccess, RetryOrPanic, Down, QuietForCold, SendingPoints
  <2>2. CASE pc # "persistOK"
    BY <1>1, <1>2, <1>3, <1>24, <2>2
    DEF PersistCommitLost, StoreError, RetryOrPanic, Down, QuietForCold, SendingPoints
  <2>. QED
    BY <2>1, <2>2
<1>25. ASSUME NEW id \in Ids, WithdrawHeld(id) PROVE QuietForCold
  BY <1>1, <1>2, <1>3, <1>25 DEF WithdrawHeld, Hold, NeedsManualConfirmation, QuietForCold, SendingPoints
<1>26. ASSUME NEW id \in Ids, WithdrawNow(id) PROVE QuietForCold
  BY <1>1, <1>2, <1>3, <1>26 DEF WithdrawNow, SendWithdrawal, db, QuietForCold, SendingPoints
<1>27. ASSUME NEW id \in Ids, Confirm(id) PROVE QuietForCold
  BY <1>1, <1>2, <1>3, <1>27 DEF Confirm, SendWithdrawal, db, QuietForCold, SendingPoints
<1>28. ASSUME NEW id \in Ids, Cancel(id) PROVE QuietForCold
  BY <1>1, <1>2, <1>3, <1>28 DEF Cancel, outside, QuietForCold, SendingPoints
<1>29. ASSUME NEW d \in Deposits, DepositArrives(d) \/ DepositConfirms(d) PROVE QuietForCold
  BY <1>1, <1>2, <1>3, <1>29 DEF DepositArrives, DepositConfirms, QuietForCold, SendingPoints, db, memory
<1>30. CASE UNCHANGED vars
  BY <1>1, <1>2, <1>3, <1>30 DEF vars, QuietForCold, SendingPoints, db, outside, memory
<1>31. CASE CheckForNewTransactions
  <2>1. \A id \in Ids : rows'[id].status = rows[id].status
    BY <1>1, <1>31, NotifyType DEF CheckForNewTransactions, StoreNewTransactions, db
  <2>. QED
    BY <1>1, <1>31, <2>1 DEF CheckForNewTransactions, StoreNewTransactions, AfterPolls, QuietForCold, SendingPoints, db
<1>32. CASE CheckForNewTransactionsFails
  <2>1. \A id \in Ids : rows'[id].status = rows[id].status
    BY <1>1, <1>32, NotifyType DEF CheckForNewTransactionsFails, StoreNewTransactions, db
  <2>. QED
    BY <1>1, <1>32, <2>1 DEF CheckForNewTransactionsFails, StoreNewTransactions, AfterPolls, QuietForCold, SendingPoints, db
<1>33. CASE CheckForExistingTransactionUpdates
  <2>1. \A id \in Ids : rows'[id].status = rows[id].status
    BY <1>1, <1>33, NotifyType DEF CheckForExistingTransactionUpdates, StoreExistingTransactions, db
  <2>. QED
    BY <1>1, <1>33, <2>1 DEF CheckForExistingTransactionUpdates, StoreExistingTransactions, AfterPolls, QuietForCold, SendingPoints, db
<1>34. CASE CheckForExistingTransactionUpdatesFails
  <2>1. \A id \in Ids : rows'[id].status = rows[id].status
    BY <1>1, <1>34, NotifyType DEF CheckForExistingTransactionUpdatesFails, StoreExistingTransactions, db
  <2>. QED
    BY <1>1, <1>34, <2>1 DEF CheckForExistingTransactionUpdatesFails, StoreExistingTransactions, AfterPolls, QuietForCold, SendingPoints, db
<1>. QED
  BY <1>4, <1>5, <1>6, <1>7, <1>8, <1>9, <1>10, <1>11, <1>12, <1>13, <1>14, <1>15, <1>16, <1>17, <1>18, <1>19, <1>20, <1>21, <1>22, <1>23, <1>24, <1>25, <1>26, <1>27, <1>28, <1>29, <1>30, <1>31, <1>32, <1>33, <1>34
  DEF PlansForCold, Next, Working, Polling, Updating, Sending, Persisting, Requests, Environment
\* Sums of amounts are numbers, and a set costs at least as much as the part of
\* it that is funded and any one of the others.
LEMMA TotalOfMore ==
    ASSUME NEW S \in SUBSET Ids, NEW P \in SUBSET S, NEW other \in S \ P
    PROVE  /\ Total(S) \in Nat /\ Total(P) \in Nat
           /\ Total(S) >= Total(P) + Amount[other]
<1>1. \A x \in Ids : Amount[x] \in Nat /\ Amount[x] \in Int
  BY ConstantsAssumption
<1>2. IsFiniteSet(S) /\ IsFiniteSet(P) /\ IsFiniteSet(S \ P) /\ IsFiniteSet((S \ P) \ {other})
  BY FinitenessAssumption, FS_Subset
<1>3. Total(S) \in Nat /\ Total(P) \in Nat /\ Total((S \ P) \ {other}) \in Nat
  BY <1>1, <1>2, SumNat DEF Total
<1>4. Total(S) = Total(P) + Total(S \ P)
  BY <1>1, <1>2, SumUnion DEF Total
<1>5. Total(S \ P) = Amount[other] + Total((S \ P) \ {other})
  BY <1>1, <1>2, SumRemove DEF Total
<1>6. Amount[other] \in Nat
  BY <1>1
<1>. QED
  BY <1>3, <1>4, <1>5, <1>6

\* A classification that leaves a row waiting asks for more than nothing.
LEMMA ClassificationCovers ==
    ASSUME RequiredInv, pc = "loop", StoreClassification
    PROVE  RequiredCoversPending'
<1>. DEFINE S == plan.queue
            budget == plan.avail + plan.unconf
<1>1. PICK P \in SUBSET S :
        /\ FundedPrefix(P, S, budget)
        /\ rows' = [id \in Ids |->
                      CASE id \in P     -> [rows[id] EXCEPT !.status = "pending"]
                        [] id \in S \ P -> [rows[id] EXCEPT !.status = "pending-cold-storage"]
                        [] OTHER        -> rows[id]]
        /\ required' = IF P = S THEN 0 ELSE Total(S) - budget
  BY DEF StoreClassification
<1>2. S \in SUBSET Ids /\ budget \in Nat
  BY DEF RequiredInv, TypeInv, TypeOK, MemoryTypeOK
<1>3. CASE P = S
  <2>1. ASSUME NEW id \in Ids PROVE rows'[id].status # "pending-cold-storage"
    <3>1. CASE id \in P
      BY <1>1, <3>1 DEF RequiredInv, TypeInv, TypeOK, DatabaseTypeOK
    <3>2. CASE id \notin P
      <4>1. id \notin WaitingForCold
        BY <1>3, <3>2 DEF RequiredInv, PlanCoversWaiting
      <4>2. rows'[id] = rows[id]
        BY <1>1, <1>3, <3>2
      <4>. QED
        BY <4>1, <4>2 DEF WaitingForCold, Status
    <3>. QED
      BY <3>1, <3>2
  <2>. QED
    BY <2>1 DEF RequiredCoversPending, Status
<1>4. CASE P # S
  <2>1. PICK other \in S \ P : TRUE
    BY <1>4
  <2>2. Total(P) + Amount[other] > budget
    BY <1>1, <2>1 DEF FundedPrefix
  <2>3. Total(S) \in Nat /\ Total(P) \in Nat /\ Total(S) >= Total(P) + Amount[other]
    <3>. HIDE DEF S
    <3>. QED
      BY <1>2, <2>1, TotalOfMore
  <2>4. Amount[other] \in Nat
    BY <1>2, ConstantsAssumption
  <2>5. required' = Total(S) - budget
    BY <1>1, <1>4
  <2>6. required' > 0
    <3>. HIDE DEF S, budget
    <3>. QED
      BY <1>2, <2>2, <2>3, <2>4, <2>5
  <2>. QED
    BY <2>6 DEF RequiredCoversPending
<1>. QED
  BY <1>3, <1>4

\* Every step keeps the figure above zero while a row waits for it.
LEMMA StepRequired == RequiredInv /\ [Next]_vars => RequiredInv'
<1>. SUFFICES ASSUME RequiredInv, [Next]_vars
              PROVE  RequiredInv'
  OBVIOUS
<1>1. TypeInv /\ TypeInv'
  BY StepTypeInv DEF RequiredInv
<1>2. CASE ~PlansForCold
  BY <1>1, <1>2, ColdSteps, QuietKeepsRequired
<1>3. CASE ReadPending
  <2>1. /\ rows' = rows /\ required' = required
        /\ plan'.queue = GetPendingTransactions /\ pc' = "balance"
    BY <1>3 DEF ReadPending, db
  <2>2. RequiredCoversPending'
    BY <2>1 DEF RequiredInv, RequiredCoversPending, Status
  <2>3. PlanCoversWaiting'
    BY <2>1 DEF PlanCoversWaiting, WaitingForCold, GetPendingTransactions, Status, SendingPoints
  <2>4. ColdNeverWaits'
    BY <2>1 DEF RequiredInv, ColdNeverWaits, GetPendingTransactions, Status, SendingPoints
  <2>. QED
    BY <1>1, <2>2, <2>3, <2>4 DEF RequiredInv
<1>4. CASE SendNext
  <2>1. PICK id \in Cheapest(plan.queue) :
          /\ plan' = [plan EXCEPT !.queue = @ \ {id}, !.avail = @ - Amount[id]]
          /\ SendWithdrawal(id, "loop")
    BY <1>4 DEF SendNext
  <2>2. /\ rows' = rows /\ required' = required /\ pc = "loop"
        /\ id \in plan.queue /\ cur'.id = id /\ pc' = "prepare"
    BY <1>4, <2>1 DEF SendNext, SendWithdrawal, Cheapest, db
  <2>3. plan'.queue = plan.queue \ {id}
    BY <1>1, <2>1 DEF TypeInv, TypeOK, MemoryTypeOK
  <2>4. RequiredCoversPending'
    BY <2>2 DEF RequiredInv, RequiredCoversPending, Status
  <2>5. PlanCoversWaiting'
    BY <2>2, <2>3 DEF RequiredInv, PlanCoversWaiting, WaitingForCold, Status, SendingPoints
  <2>6. ColdNeverWaits'
    BY <2>2, <2>3 DEF RequiredInv, ColdNeverWaits, GetPendingTransactions, Status, SendingPoints
  <2>. QED
    BY <1>1, <2>4, <2>5, <2>6 DEF RequiredInv
<1>5. CASE AllFunded
  <2>1. /\ rows' = rows /\ plan'.queue = {} /\ pc = "loop" /\ plan.queue = {}
        /\ pc' \notin SendingPoints \cup {"balance", "loop"}
    BY <1>1, <1>5
    DEF AllFunded, UpdateDone, UpdateFailed, NoPlan, SendingPoints, TypeInv, TypeOK, MemoryTypeOK
  <2>2. WaitingForCold = {}
    BY <2>1 DEF RequiredInv, PlanCoversWaiting
  <2>3. RequiredCoversPending'
    BY <2>1, <2>2 DEF RequiredCoversPending, WaitingForCold, Status
  <2>4. PlanCoversWaiting' /\ ColdNeverWaits'
    BY <2>1 DEF RequiredInv, PlanCoversWaiting, ColdNeverWaits, GetPendingTransactions, Status,
                SendingPoints
  <2>. QED
    BY <1>1, <2>3, <2>4 DEF RequiredInv
<1>6. CASE Classify
  <2>1. /\ plan'.queue = {} /\ pc = "loop"
        /\ pc' \notin SendingPoints \cup {"balance", "loop"}
        /\ StoreClassification \/ UNCHANGED <<rows, required>>
    BY <1>1, <1>6
    DEF Classify, UpdateDone, UpdateFailed, NoPlan, SendingPoints, TypeInv, TypeOK, MemoryTypeOK
  <2>2. RequiredCoversPending'
    <3>1. CASE StoreClassification
      BY <2>1, <3>1, ClassificationCovers
    <3>2. CASE UNCHANGED <<rows, required>>
      BY <3>2 DEF RequiredInv, RequiredCoversPending, Status
    <3>. QED
      BY <2>1, <3>1, <3>2
  <2>3. \A id \in ColdIds : id \notin GetPendingTransactions'
    <3>1. \A id \in ColdIds : id \notin plan.queue /\ id \notin GetPendingTransactions /\ id \in Ids
      BY ConstantsAssumption DEF RequiredInv, ColdNeverWaits
    <3>2. \A id \in Ids \ plan.queue : rows'[id] = rows[id]
      BY <2>1 DEF StoreClassification
    <3>. QED
      BY <3>1, <3>2 DEF GetPendingTransactions, Status
  <2>4. PlanCoversWaiting' /\ ColdNeverWaits'
    BY <2>1, <2>3 DEF PlanCoversWaiting, ColdNeverWaits, SendingPoints
  <2>. QED
    BY <1>1, <2>2, <2>4 DEF RequiredInv
<1>. QED
  BY <1>2, <1>3, <1>4, <1>5, <1>6 DEF PlansForCold

\* A withdrawal never waits for cold storage while the operator is asked for
\* nothing, for every order of requests, deposits, failures and restarts: the
\* classification and its figure are one transaction, and whatever lowers the
\* figure has looked at every waiting row.
THEOREM WaitingIsAskedFor == Spec => []RequiredCoversPending
<1>1. Init => RequiredInv
  <2>. SUFFICES ASSUME Init
                PROVE  RequiredInv
    OBVIOUS
  <2>1. TypeInv
    BY InitTypeInv
  <2>2. RequiredCoversPending /\ PlanCoversWaiting
    BY DEF Init, RequiredCoversPending, PlanCoversWaiting, Status, SendingPoints
  <2>3. ColdNeverWaits
    BY ConstantsAssumption
    DEF Init, ColdNeverWaits, GetPendingTransactions, Status, NoPlan, SendingPoints
  <2>. QED
    BY <2>1, <2>2, <2>3 DEF RequiredInv
<1>2. RequiredInv /\ [Next]_vars => RequiredInv'
  BY StepRequired
<1>3. RequiredInv => RequiredCoversPending
  BY DEF RequiredInv
<1>. QED
  BY <1>1, <1>2, <1>3, PTL DEF Spec

-----------------------------------------------------------------------------
(***************************************************************************)
(* The figure at rest.  Whatever changes what the pending withdrawals      *)
(* exceed the balance by leaves something behind that leads to another     *)
(* run of tryToUpdatePendingTxns: a signal in the channel, a timer, news   *)
(* for the next poll, or a goroutine that is not at rest.  And the run     *)
(* computes the right figure unless it leaves one of them behind.  Only a  *)
(* commit that is reported as an error escapes this (a cancellation that   *)
(* took place and is reported as failed is followed by no update).         *)
(***************************************************************************)

\* What the pending withdrawals exceed the balance by.
Missing == Total(GetPendingTransactions) - conf - Unconfirmed

FigureIsExact == required = IF Missing > 0 THEN Missing ELSE 0

\* tryToUpdatePendingTxns is running.
InUpdate ==
    \/ pc \in {"update", "balance", "loop"}
    \/ pc \in SendingPoints /\ cur.from = "loop"

\* Another update, or its start, is certain to come.
UpdateDue ==
    \/ InUpdate
    \/ pc \in {"down", "persistOK", "persistPending"}
    \/ booting
    \/ trigger > 0
    \/ timers > 0
    \/ NewTxInfo

\* The database never knows more of a deposit than the node.
SeenLags ==
    \A d \in Deposits : /\ seen[d] = "confirmed" => deposit[d] = "confirmed"
                        /\ seen[d] = "unconfirmed" => deposit[d] # "none"

\* Run is in its polls, or in an update that returns to the second of them.
BootingPolls == booting => pc \in {"poll1", "poll2"} \/ (ret = "poll2" /\ pc # "idle")

\* What is planned, or in hand for the loop, is pending.
PlanIsQueued ==
    /\ pc \in {"balance", "loop"} => plan.queue \subseteq GetPendingTransactions
    /\ pc \in SendingPoints /\ cur.from = "loop" =>
         /\ plan.queue \subseteq GetPendingTransactions
         /\ cur.id \in GetPendingTransactions \ plan.queue

\* The plan is about a balance or a queue that is no more, and an update follows.
PlanIsStale == seen # deposit \/ trigger > 0

\* What the plan still has to pay for exceeds its balance by what the pending
\* withdrawals exceed the balance by, be they sent, refused or yet to come.
PlanMissing == Total(plan.queue) - plan.avail - plan.unconf

PlanIsTrue ==
    \/ PlanIsStale
    \/ /\ pc = "balance" =>
            Total(GetPendingTransactions) - conf = Total(plan.queue) - plan.avail
       /\ pc = "loop" => Missing = PlanMissing
       /\ pc \in {"prepare", "send", "persistPending"} /\ cur.from = "loop" => Missing = PlanMissing
       /\ pc = "persistOK" /\ cur.from = "loop" => Missing - Amount[cur.id] = PlanMissing

RestInv ==
    /\ TypeInv
    /\ SeenLags
    /\ BootingPolls
    /\ PlanIsQueued
    /\ PlanIsTrue
    /\ FigureIsExact \/ UpdateDue

-----------------------------------------------------------------------------
\* The points of an update at which it has a plan.
HasPlan == pc \in {"balance", "loop"} \/ (pc \in SendingPoints /\ cur.from = "loop")

\* The updater, apart from the news of the next poll, has reason to update.
MemoryDue ==
    InUpdate \/ pc \in {"down", "persistOK", "persistPending"} \/ booting \/ trigger > 0 \/ timers > 0

\* A step that changes nothing the figure depends on, and no news.
SameMoney ==
    /\ UNCHANGED <<required, conf, deposit, seen>>
    /\ GetPendingTransactions' = GetPendingTransactions
    /\ \A id \in Ids : Unrecorded(id)' = Unrecorded(id)

\* Steps of memory alone are of that kind.
LEMMA SameDatabase ==
    ASSUME UNCHANGED <<db, outside>>
    PROVE  SameMoney
BY DEF SameMoney, db, outside, GetPendingTransactions, Unrecorded, Status

\* Such a step keeps the figure right or wrong, and the news.
LEMMA SameFigure ==
    ASSUME SameMoney
    PROVE  /\ Missing' = Missing
           /\ FigureIsExact' <=> FigureIsExact
           /\ NewTxInfo' <=> NewTxInfo
           /\ SeenLags => SeenLags'
<1>1. Unconfirmed' = Unconfirmed
  BY DEF SameMoney, Unconfirmed
<1>2. Missing' = Missing
  BY <1>1 DEF SameMoney, Missing
<1>3. FigureIsExact' <=> FigureIsExact
  BY <1>2 DEF SameMoney, FigureIsExact
<1>4. NewTxInfo' <=> NewTxInfo
  BY DEF SameMoney, NewTxInfo
<1>5. SeenLags => SeenLags'
  BY DEF SameMoney, SeenLags
<1>. QED
  BY <1>2, <1>3, <1>4, <1>5

\* Without a plan there is nothing to say about it.
LEMMA NoPlanNoClaim ==
    ASSUME ~HasPlan'
    PROVE  PlanIsQueued' /\ PlanIsTrue'
<1>1. /\ pc' \notin {"balance", "loop"}
      /\ ~(pc' \in SendingPoints /\ cur'.from = "loop")
  BY DEF HasPlan
<1>2. PlanIsQueued'
  BY <1>1 DEF PlanIsQueued
<1>3. PlanIsTrue'
  BY <1>1 DEF PlanIsTrue, SendingPoints
<1>. QED
  BY <1>2, <1>3

\* The plan stays true while it is carried out without a broadcast.
LEMMA PlanKept ==
    ASSUME PlanIsQueued, PlanIsTrue, SameMoney, plan' = plan, trigger > 0 => trigger' > 0,
           \/ pc' = pc /\ cur'.id = cur.id /\ cur'.from = cur.from
           \/ /\ pc \in {"prepare", "send", "persistPending"}
              /\ pc' \in {"send", "persistPending", "persistFailed"} /\ cur' = cur
           \/ pc = "persistPending" /\ cur.from = "loop" /\ pc' = "loop"
    PROVE  PlanIsQueued' /\ PlanIsTrue'
<1>1. /\ GetPendingTransactions' = GetPendingTransactions /\ conf' = conf
      /\ Missing' = Missing /\ PlanMissing' = PlanMissing
      /\ PlanIsStale => PlanIsStale'
  BY SameFigure DEF SameMoney, PlanMissing, PlanIsStale
<1>2. PlanIsQueued'
  BY <1>1 DEF PlanIsQueued, SendingPoints
<1>3. PlanIsTrue'
  BY <1>1 DEF PlanIsTrue
<1>. QED
  BY <1>2, <1>3

\* A step that changes no money preserves the invariant, if it keeps the plan and
\* whatever the next update is due to.
LEMMA SameMoneyKeeps ==
    ASSUME RestInv, TypeInv', SameMoney, BootingPolls', PlanIsQueued', PlanIsTrue',
           MemoryDue => UpdateDue'
    PROVE  RestInv'
<1>1. UpdateDue => MemoryDue \/ NewTxInfo
  BY DEF UpdateDue, MemoryDue
<1>2. NewTxInfo' => UpdateDue'
  BY DEF UpdateDue
<1>3. FigureIsExact' \/ UpdateDue'
  BY <1>1, <1>2, SameFigure DEF RestInv
<1>4. SeenLags'
  BY SameFigure DEF RestInv
<1>. QED
  BY <1>3, <1>4 DEF RestInv
\* The steps that change no money: requests taken and refused, failures, crashes,
\* the steps of sendWithdrawal before and after the broadcast, timers.
LEMMA QuietRest ==
    ASSUME "dbLost" \notin Faults, RestInv, [Next]_vars, TypeInv'
    PROVE  \/ RestInv'
           \/ ReadPending \/ ReadUnconfirmed \/ SendNext \/ AllFunded \/ Classify
           \/ InternalTransfer \/ NodeSends \/ PersistSuccess \/ PersistPending
           \/ CheckForNewTransactions \/ CheckForExistingTransactionUpdates
           \/ OperatorResolves
           \/ \E id \in Ids : Cancel(id)
           \/ \E d \in Deposits : DepositArrives(d) \/ DepositConfirms(d)
<1>1. /\ ret \in {"idle", "poll1", "poll2", "update"}
      /\ pc \in Points
      /\ cur \in [id : Ids \cup {NoId}, from : {"none", "withdraw", "confirm", "loop"},
                  reported : {-1, 0}]
      /\ trigger \in Nat /\ timers \in Nat
      /\ booting \in BOOLEAN
      /\ rows \in [Ids -> [status : Statuses, reported : {-1, 0}]]
  BY ConstantsAssumption DEF RestInv, TypeInv, TypeOK, DatabaseTypeOK, MemoryTypeOK
<1>2. TriggerCapacity \in Nat \ {0} /\ MaxTimers \in Nat \ {0}
  BY ConstantsAssumption
<1>3. BootingPolls
  BY DEF RestInv
<1>. DEFINE Unless == SameMoney /\ BootingPolls' /\ (MemoryDue => UpdateDue')
<1>4. ASSUME Unless, ~HasPlan' PROVE RestInv'
  BY <1>4, NoPlanNoClaim, SameMoneyKeeps
<1>5. ASSUME Unless, plan' = plan, trigger > 0 => trigger' > 0,
             \/ pc' = pc /\ cur'.id = cur.id /\ cur'.from = cur.from
             \/ /\ pc \in {"prepare", "send", "persistPending"}
                /\ pc' \in {"send", "persistPending", "persistFailed"} /\ cur' = cur
      PROVE  RestInv'
  <2>1. PlanIsQueued' /\ PlanIsTrue'
    BY <1>5, PlanKept DEF RestInv
  <2>. QED
    BY <1>5, <2>1, SameMoneyKeeps
<1>6. CASE Start
  <2>1. SameMoney
    BY <1>6, <1>1, SameDatabase DEF Start
  <2>2. ~HasPlan' /\ BootingPolls' /\ (MemoryDue => UpdateDue')
    BY <1>6, <1>1, <1>2, <1>3 DEF Start, HasPlan, BootingPolls, MemoryDue, UpdateDue, InUpdate, SendingPoints
  <2>. QED
    BY <1>4, <2>1, <2>2
<1>7. CASE Tick
  <2>1. SameMoney
    BY <1>7, <1>1, SameDatabase DEF Tick
  <2>2. ~HasPlan' /\ BootingPolls' /\ (MemoryDue => UpdateDue')
    BY <1>7, <1>1, <1>2, <1>3 DEF Tick, HasPlan, BootingPolls, MemoryDue, UpdateDue, InUpdate, SendingPoints
  <2>. QED
    BY <1>4, <2>1, <2>2
<1>8. CASE TriggerTaken
  <2>1. SameMoney
    BY <1>8, <1>1, SameDatabase DEF TriggerTaken
  <2>2. ~HasPlan' /\ BootingPolls' /\ (MemoryDue => UpdateDue')
    BY <1>8, <1>1, <1>2, <1>3 DEF TriggerTaken, HasPlan, BootingPolls, MemoryDue, UpdateDue, InUpdate, SendingPoints
  <2>. QED
    BY <1>4, <2>1, <2>2
<1>9. CASE TimerFires
  <2>1. SameMoney
    BY <1>9, <1>1, SameDatabase DEF TimerFires
  <2>2. /\ plan' = plan /\ (trigger > 0 => trigger' > 0)
        /\ \/ pc' = pc /\ cur'.id = cur.id /\ cur'.from = cur.from
           \/ /\ pc \in {"prepare", "send", "persistPending"}
              /\ pc' \in {"send", "persistPending", "persistFailed"} /\ cur' = cur
        /\ BootingPolls' /\ (MemoryDue => UpdateDue')
    BY <1>9, <1>1, <1>2, <1>3 DEF TimerFires, schedulePendingTxUpdate, HasPlan, BootingPolls, MemoryDue, UpdateDue, InUpdate, SendingPoints
  <2>. QED
    BY <1>5, <2>1, <2>2
<1>10. CASE UNCHANGED vars
  <2>1. SameMoney
    BY <1>10, SameDatabase DEF vars
  <2>2. /\ plan' = plan /\ trigger' = trigger /\ pc' = pc /\ cur' = cur
        /\ BootingPolls' /\ (MemoryDue => UpdateDue')
    BY <1>10, <1>3 DEF vars, memory, HasPlan, BootingPolls, MemoryDue, UpdateDue, InUpdate, SendingPoints
  <2>. QED
    BY <1>5, <2>1, <2>2
<1>11. CASE CheckForNewTransactionsFails
  <2>1. SameMoney
    BY <1>11, <1>1, SameDatabase DEF CheckForNewTransactionsFails, Fault
  <2>2. ~HasPlan' /\ BootingPolls' /\ (MemoryDue => UpdateDue')
    BY <1>11, <1>1, <1>2, <1>3 DEF CheckForNewTransactionsFails, AfterPolls, HasPlan, BootingPolls, MemoryDue, UpdateDue, InUpdate, SendingPoints
  <2>. QED
    BY <1>4, <2>1, <2>2
<1>12. CASE CheckForExistingTransactionUpdatesFails
  <2>1. SameMoney
    BY <1>12, <1>1, SameDatabase DEF CheckForExistingTransactionUpdatesFails, Fault
  <2>2. ~HasPlan' /\ BootingPolls' /\ (MemoryDue => UpdateDue')
    BY <1>12, <1>1, <1>2, <1>3 DEF CheckForExistingTransactionUpdatesFails, AfterPolls, HasPlan, BootingPolls, MemoryDue, UpdateDue, InUpdate, SendingPoints
  <2>. QED
    BY <1>4, <2>1, <2>2
<1>13. CASE ReadFails
  <2>1. SameMoney
    BY <1>13, <1>1, SameDatabase DEF ReadFails
  <2>2. ~HasPlan' /\ BootingPolls' /\ (MemoryDue => UpdateDue')
    BY <1>13, <1>1, <1>2, <1>3 DEF ReadFails, UpdateFailed, HasPlan, BootingPolls, MemoryDue, UpdateDue, InUpdate, SendingPoints
  <2>. QED
    BY <1>4, <2>1, <2>2
<1>14. CASE PrepareFails
  <2>1. SameMoney
    BY <1>14, <1>1, SameDatabase DEF PrepareFails
  <2>2. ~HasPlan' /\ BootingPolls' /\ (MemoryDue => UpdateDue')
    BY <1>14, <1>1, <1>2, <1>3 DEF PrepareFails, SendReturnsError, UpdateFailed, HasPlan, BootingPolls, MemoryDue, UpdateDue, InUpdate, SendingPoints
  <2>. QED
    BY <1>4, <2>1, <2>2
<1>15. CASE LockWallet
  <2>1. SameMoney
    BY <1>15 DEF LockWallet, SameMoney, outside, GetPendingTransactions, Unrecorded, Status
  <2>2. /\ plan' = plan /\ trigger' = trigger
        /\ pc = "prepare" /\ pc' = "send" /\ cur' = cur
        /\ BootingPolls' /\ (MemoryDue => UpdateDue')
    BY <1>15, <1>1, <1>3 DEF LockWallet, Fault, HasPlan, BootingPolls, MemoryDue, UpdateDue, InUpdate, SendingPoints
  <2>. QED
    BY <1>5, <2>1, <2>2
<1>16. CASE NodeRefusesFunds
  <2>1. SameMoney
    BY <1>16, <1>1, SameDatabase DEF NodeRefusesFunds
  <2>2. /\ plan' = plan /\ (trigger > 0 => trigger' > 0)
        /\ \/ pc' = pc /\ cur'.id = cur.id /\ cur'.from = cur.from
           \/ /\ pc \in {"prepare", "send", "persistPending"}
              /\ pc' \in {"send", "persistPending", "persistFailed"} /\ cur' = cur
        /\ BootingPolls' /\ (MemoryDue => UpdateDue')
    BY <1>16, <1>1, <1>2, <1>3 DEF NodeRefusesFunds, HasPlan, BootingPolls, MemoryDue, UpdateDue, InUpdate, SendingPoints
  <2>. QED
    BY <1>5, <2>1, <2>2
<1>17. CASE NodeFails
  <2>1. SameMoney
    BY <1>17, <1>1, SameDatabase DEF NodeFails
  <2>2. /\ plan' = plan /\ (trigger > 0 => trigger' > 0)
        /\ \/ pc' = pc /\ cur'.id = cur.id /\ cur'.from = cur.from
           \/ /\ pc \in {"prepare", "send", "persistPending"}
              /\ pc' \in {"send", "persistPending", "persistFailed"} /\ cur' = cur
        /\ BootingPolls' /\ (MemoryDue => UpdateDue')
    BY <1>17, <1>1, <1>2, <1>3 DEF NodeFails, HasPlan, BootingPolls, MemoryDue, UpdateDue, InUpdate, SendingPoints
  <2>. QED
    BY <1>5, <2>1, <2>2
<1>18. CASE PersistFailed
  <2>1. SameMoney
    BY <1>18, <1>1, <1>1 DEF PersistFailed, StoreError, SameMoney, outside, GetPendingTransactions, Unrecorded, Status
  <2>2. ~HasPlan' /\ BootingPolls' /\ (MemoryDue => UpdateDue')
    BY <1>18, <1>1, <1>2, <1>3 DEF PersistFailed, SendReturnsError, UpdateFailed, HasPlan, BootingPolls, MemoryDue, UpdateDue, InUpdate, SendingPoints
  <2>. QED
    BY <1>4, <2>1, <2>2
<1>19. CASE PersistRolledBack
  <2>1. SameMoney
    BY <1>19, SameDatabase DEF PersistRolledBack
  <2>2. CASE Down
    <3>1. ~HasPlan' /\ BootingPolls' /\ UpdateDue'
      BY <2>2 DEF Down, HasPlan, BootingPolls, MemoryDue, UpdateDue, InUpdate, SendingPoints
    <3>. QED
      BY <1>4, <2>1, <3>1
  <2>3. CASE ~Down
    <3>1. /\ plan' = plan /\ trigger' = trigger
          /\ pc' = pc /\ cur'.id = cur.id /\ cur'.from = cur.from
          /\ BootingPolls' /\ (MemoryDue => UpdateDue')
      BY <1>19, <1>1, <1>3, <2>3 DEF PersistRolledBack, RetryOrPanic, HasPlan, BootingPolls, MemoryDue, UpdateDue, InUpdate, SendingPoints
    <3>. QED
      BY <1>5, <2>1, <3>1
  <2>. QED
    BY <2>2, <2>3
<1>20. CASE PersistRolledBackLate
  <2>1. SameMoney
    BY <1>20, SameDatabase DEF PersistRolledBackLate
  <2>2. CASE Down
    <3>1. ~HasPlan' /\ BootingPolls' /\ UpdateDue'
      BY <2>2 DEF Down, HasPlan, BootingPolls, MemoryDue, UpdateDue, InUpdate, SendingPoints
    <3>. QED
      BY <1>4, <2>1, <3>1
  <2>3. CASE ~Down
    <3>1. /\ plan' = plan /\ trigger' = trigger
          /\ pc' = pc /\ cur'.id = cur.id /\ cur'.from = cur.from
          /\ BootingPolls' /\ (MemoryDue => UpdateDue')
      BY <1>20, <1>1, <1>3, <2>3 DEF PersistRolledBackLate, RetryOrPanic, HasPlan, BootingPolls, MemoryDue, UpdateDue, InUpdate, SendingPoints
    <3>. QED
      BY <1>5, <2>1, <3>1
  <2>. QED
    BY <2>2, <2>3
<1>21. CASE Crash
  <2>1. SameMoney
    BY <1>21, <1>1, SameDatabase DEF Crash
  <2>2. ~HasPlan' /\ BootingPolls' /\ (MemoryDue => UpdateDue')
    BY <1>21, <1>1, <1>2, <1>3 DEF Crash, Down, HasPlan, BootingPolls, MemoryDue, UpdateDue, InUpdate, SendingPoints
  <2>. QED
    BY <1>4, <2>1, <2>2
<1>22. ASSUME NEW id \in Ids, WithdrawHeld(id) PROVE RestInv'
  <2>1. SameMoney
    BY <1>22, <1>1, <1>1 DEF WithdrawHeld, Hold, SameMoney, outside, GetPendingTransactions, Unrecorded, Status
  <2>2. ~HasPlan' /\ BootingPolls' /\ (MemoryDue => UpdateDue')
    BY <1>22, <1>1, <1>2, <1>3 DEF WithdrawHeld, HasPlan, BootingPolls, MemoryDue, UpdateDue, InUpdate, SendingPoints
  <2>. QED
    BY <1>4, <2>1, <2>2
<1>23. ASSUME NEW id \in Ids, WithdrawNow(id) PROVE RestInv'
  <2>1. SameMoney
    BY <1>23, <1>1, SameDatabase DEF WithdrawNow
  <2>2. ~HasPlan' /\ BootingPolls' /\ (MemoryDue => UpdateDue')
    BY <1>23, <1>1, <1>2, <1>3 DEF WithdrawNow, SendWithdrawal, HasPlan, BootingPolls, MemoryDue, UpdateDue, InUpdate, SendingPoints
  <2>. QED
    BY <1>4, <2>1, <2>2
<1>24. ASSUME NEW id \in Ids, Confirm(id) PROVE RestInv'
  <2>1. SameMoney
    BY <1>24, <1>1, <1>1 DEF Confirm, SameMoney, db, GetPendingTransactions, Unrecorded, Status
  <2>2. ~HasPlan' /\ BootingPolls' /\ (MemoryDue => UpdateDue')
    BY <1>24, <1>1, <1>2, <1>3 DEF Confirm, SendWithdrawal, HasPlan, BootingPolls, MemoryDue, UpdateDue, InUpdate, SendingPoints
  <2>. QED
    BY <1>4, <2>1, <2>2
<1>25. CASE InternalTransferLost \/ PersistCommitLost
  BY <1>25 DEF InternalTransferLost, PersistCommitLost, Fault
<1>. QED
  BY <1>6, <1>7, <1>8, <1>9, <1>10, <1>11, <1>12, <1>13, <1>14, <1>15, <1>16, <1>17, <1>18, <1>19, <1>20, <1>21, <1>22, <1>23, <1>24, <1>25
  DEF Next, Working, Polling, Updating, Sending, Persisting, Requests, Environment

\* What a set of withdrawals costs is a number.
LEMMA TotalType ==
    ASSUME NEW S \in SUBSET Ids
    PROVE  Total(S) \in Nat
<1>1. \A x \in S : Amount[x] \in Nat
  BY ConstantsAssumption
<1>2. IsFiniteSet(S)
  BY FinitenessAssumption, FS_Subset
<1>. QED
  BY <1>1, <1>2, SumNat DEF Total

\* One withdrawal less costs its amount less.
LEMMA TotalWithout ==
    ASSUME NEW S \in SUBSET Ids, NEW id \in S
    PROVE  /\ Total(S \ {id}) = Total(S) - Amount[id]
           /\ Amount[id] \in Nat
<1>1. \A x \in S : Amount[x] \in Int
  BY ConstantsAssumption
<1>2. IsFiniteSet(S)
  BY FinitenessAssumption, FS_Subset
<1>3. Total(S) = Amount[id] + Total(S \ {id})
  BY <1>1, <1>2, SumRemove DEF Total
<1>4. Total(S) \in Nat /\ Total(S \ {id}) \in Nat /\ Amount[id] \in Nat
  BY TotalType, ConstantsAssumption
<1>. QED
  BY <1>3, <1>4

\* The numbers the figure is made of.
LEMMA MoneyTypes ==
    ASSUME TypeInv
    PROVE  /\ GetPendingTransactions \in SUBSET Ids /\ Total(GetPendingTransactions) \in Nat
           /\ conf \in Nat /\ Unconfirmed \in Nat
           /\ plan.queue \in SUBSET Ids /\ Total(plan.queue) \in Nat
           /\ plan.avail \in Nat /\ plan.unconf \in Nat
           /\ Missing \in Int /\ PlanMissing \in Int
<1>1. GetPendingTransactions \in SUBSET Ids
  BY DEF GetPendingTransactions
<1>2. conf \in Nat
  BY DEF TypeInv, TypeOK, OutsideTypeOK
<1>3. plan.queue \in SUBSET Ids /\ plan.avail \in Nat /\ plan.unconf \in Nat
  BY DEF TypeInv, TypeOK, MemoryTypeOK
<1>4. Total(GetPendingTransactions) \in Nat /\ Total(plan.queue) \in Nat
  BY <1>1, <1>3, TotalType
<1>5. Missing \in Int /\ PlanMissing \in Int
  BY <1>2, <1>3, <1>4, UnconfirmedType DEF Missing, PlanMissing
<1>. QED
  BY <1>1, <1>2, <1>3, <1>4, <1>5, UnconfirmedType

\* tryToUpdatePendingTxns reads the rows and the two balances.
LEMMA ReadingRest ==
    ASSUME RestInv, TypeInv', ReadPending \/ ReadUnconfirmed
    PROVE  RestInv'
<1>1. SameMoney
  BY SameDatabase DEF ReadPending, ReadUnconfirmed
<1>2. /\ GetPendingTransactions' = GetPendingTransactions /\ conf' = conf
      /\ Missing' = Missing /\ (PlanIsStale => PlanIsStale')
  BY <1>1, SameFigure DEF SameMoney, PlanIsStale, ReadPending, ReadUnconfirmed
<1>3. BootingPolls' /\ UpdateDue' /\ pc' \in {"balance", "loop"} /\ pc' \notin SendingPoints
  BY DEF RestInv, BootingPolls, UpdateDue, InUpdate, SendingPoints, ReadPending, ReadUnconfirmed
<1>4. CASE ReadPending
  <2>1. pc' = "balance" /\ plan'.queue = GetPendingTransactions /\ plan'.avail = conf
    BY <1>4 DEF ReadPending
  <2>2. PlanIsQueued'
    BY <1>2, <1>3, <2>1 DEF PlanIsQueued
  <2>3. PlanIsTrue'
    BY <1>2, <1>3, <2>1 DEF PlanIsTrue
  <2>. QED
    BY <1>1, <1>3, <2>2, <2>3, SameMoneyKeeps
<1>5. CASE ReadUnconfirmed
  <2>1. /\ pc = "balance" /\ pc' = "loop"
        /\ plan'.queue = plan.queue /\ plan'.avail = plan.avail /\ plan'.unconf = Unconfirmed
    BY <1>5 DEF ReadUnconfirmed, RestInv, TypeInv, TypeOK, MemoryTypeOK
  <2>2. PlanIsQueued'
    BY <1>2, <1>3, <2>1 DEF RestInv, PlanIsQueued
  <2>3. ASSUME PlanIsStale PROVE PlanIsTrue'
    BY <1>2, <2>3 DEF PlanIsTrue
  <2>4. ASSUME ~PlanIsStale PROVE PlanIsTrue'
    <3>1. Total(GetPendingTransactions) - conf = Total(plan.queue) - plan.avail
      BY <2>1, <2>4 DEF RestInv, PlanIsTrue
    <3>2. PlanMissing' = Total(plan.queue) - plan.avail - Unconfirmed
      BY <2>1 DEF PlanMissing
    <3>3. Missing = PlanMissing'
      BY <3>1, <3>2, MoneyTypes DEF RestInv, Missing
    <3>. QED
      BY <1>2, <2>1, <3>3 DEF PlanIsTrue
  <2>. QED
    BY <1>1, <1>3, <2>2, <2>3, <2>4, SameMoneyKeeps
<1>. QED
  BY <1>4, <1>5

\* The loop takes the cheapest withdrawal, and its amount from the balance.
LEMMA SendNextRest ==
    ASSUME RestInv, TypeInv', SendNext
    PROVE  RestInv'
<1>1. SameMoney
  BY SameDatabase DEF SendNext
<1>2. PICK id \in Cheapest(plan.queue) :
        /\ plan' = [plan EXCEPT !.queue = @ \ {id}, !.avail = @ - Amount[id]]
        /\ SendWithdrawal(id, "loop")
  BY DEF SendNext
<1>3. /\ pc = "loop" /\ pc' = "prepare" /\ cur'.id = id /\ cur'.from = "loop"
      /\ id \in plan.queue /\ (PlanIsStale => PlanIsStale')
  BY <1>2 DEF SendNext, SendWithdrawal, Cheapest, PlanIsStale, db, outside
<1>4. /\ plan'.queue = plan.queue \ {id} /\ plan'.avail = plan.avail - Amount[id]
      /\ plan'.unconf = plan.unconf
  BY <1>2 DEF RestInv, TypeInv, TypeOK, MemoryTypeOK
<1>5. GetPendingTransactions' = GetPendingTransactions /\ Missing' = Missing
  BY <1>1, SameFigure DEF SameMoney
<1>6. BootingPolls' /\ UpdateDue'
  BY <1>3 DEF SendNext, RestInv, BootingPolls, UpdateDue, InUpdate, SendingPoints
<1>7. PlanIsQueued'
  BY <1>3, <1>4, <1>5 DEF RestInv, PlanIsQueued, SendingPoints
<1>8. PlanMissing' = PlanMissing
  <2>1. /\ plan.queue \in SUBSET Ids /\ Total(plan.queue) \in Nat
        /\ plan.avail \in Nat /\ plan.unconf \in Nat
    BY MoneyTypes DEF RestInv
  <2>2. Total(plan.queue \ {id}) = Total(plan.queue) - Amount[id] /\ Amount[id] \in Nat
    BY <1>3, <2>1, TotalWithout
  <2>. QED
    BY <1>4, <2>1, <2>2 DEF PlanMissing
<1>9. PlanIsTrue'
  BY <1>3, <1>5, <1>8 DEF RestInv, PlanIsTrue
<1>. QED
  BY <1>1, <1>6, <1>7, <1>9, SameMoneyKeeps

\* The update ends; the figure it stores is that of its plan.
LEMMA EndOfUpdateRest ==
    ASSUME "dbLost" \notin Faults, RestInv, TypeInv', AllFunded \/ Classify
    PROVE  RestInv'
<1>1. /\ pc = "loop" /\ ~HasPlan' /\ UNCHANGED <<conf, deposit, seen, trigger>>
      /\ UpdateDone \/ UpdateFailed
  BY DEF AllFunded, Classify, UpdateDone, UpdateFailed, HasPlan, SendingPoints, outside, RestInv,
         TypeInv, TypeOK, MemoryTypeOK
<1>2. PlanIsQueued' /\ PlanIsTrue'
  BY <1>1, NoPlanNoClaim
<1>3. BootingPolls'
  BY <1>1 DEF RestInv, BootingPolls, UpdateDone, UpdateFailed, AllFunded, Classify
<1>4. SeenLags'
  BY <1>1 DEF RestInv, SeenLags
<1>5. CASE UpdateFailed
  <2>1. timers' > 0
    BY <1>5, ConstantsAssumption DEF UpdateFailed, RestInv, TypeInv, TypeOK, MemoryTypeOK
  <2>. QED
    BY <1>2, <1>3, <1>4, <2>1 DEF RestInv, UpdateDue
<1>6. CASE PlanIsStale
  <2>1. UpdateDue'
    BY <1>1, <1>6 DEF PlanIsStale, UpdateDue, NewTxInfo
  <2>. QED
    BY <1>2, <1>3, <1>4, <2>1 DEF RestInv
<1>7. CASE ~UpdateFailed /\ ~PlanIsStale
  <2>1. Missing = PlanMissing
    BY <1>1, <1>7 DEF RestInv, PlanIsTrue
  <2>2. plan.queue \subseteq GetPendingTransactions
    BY <1>1 DEF RestInv, PlanIsQueued
  <2>3. Unconfirmed' = Unconfirmed
    BY <1>1 DEF Unconfirmed
  <2>4. CASE AllFunded
    <3>1. /\ plan.queue = {} /\ required' = 0
          /\ GetPendingTransactions' = GetPendingTransactions
      BY <1>7, <2>4 DEF AllFunded, Fault, GetPendingTransactions, Status
    <3>2. Missing' = Missing
      BY <1>1, <2>3, <3>1 DEF Missing
    <3>3. Total({}) = 0
      BY SumEmpty DEF Total
    <3>4. plan.avail \in Nat /\ plan.unconf \in Nat
      BY MoneyTypes DEF RestInv
    <3>5. ~(Missing' > 0)
      <4>1. Missing' = 0 - plan.avail - plan.unconf
        BY <2>1, <3>1, <3>2, <3>3 DEF PlanMissing
      <4>. QED
        BY ONLY <3>4, <4>1
    <3>6. FigureIsExact'
      BY <3>1, <3>5 DEF FigureIsExact
    <3>. QED
      BY <1>2, <1>3, <1>4, <3>6 DEF RestInv
  <2>5. CASE Classify
    <3>. DEFINE S == plan.queue
                budget == plan.avail + plan.unconf
    <3>1. PICK P \in SUBSET S :
            /\ FundedPrefix(P, S, budget)
            /\ rows' = [id \in Ids |->
                          CASE id \in P     -> [rows[id] EXCEPT !.status = "pending"]
                            [] id \in S \ P -> [rows[id] EXCEPT !.status = "pending-cold-storage"]
                            [] OTHER        -> rows[id]]
            /\ required' = IF P = S THEN 0 ELSE Total(S) - budget
      BY <1>7, <2>5 DEF Classify, StoreClassification, Fault
    <3>2. \A id \in Ids : /\ id \in S => rows'[id].status \in {"pending", "pending-cold-storage"}
                          /\ id \notin S => rows'[id].status = rows[id].status
      BY <3>1 DEF RestInv, TypeInv, TypeOK, DatabaseTypeOK
    <3>3. GetPendingTransactions' = GetPendingTransactions
      BY <2>2, <3>2 DEF GetPendingTransactions, Status
    <3>4. Missing' = Missing
      BY <1>1, <2>3, <3>3 DEF Missing
    <3>5. /\ S \in SUBSET Ids /\ Total(S) \in Nat /\ budget \in Nat
          /\ plan.avail \in Nat /\ plan.unconf \in Nat
      BY MoneyTypes DEF RestInv
    <3>6. Missing' = Total(S) - budget
      BY <2>1, <3>4, <3>5 DEF PlanMissing
    <3>7. ASSUME P = S PROVE FigureIsExact'
      <4>1. Total(S) <= budget /\ required' = 0
        BY <3>1, <3>7 DEF FundedPrefix
      <4>2. ~(Missing' > 0)
        <5>. HIDE DEF S, budget
        <5>. QED
          BY <3>5, <3>6, <4>1
      <4>. QED
        BY <4>1, <4>2 DEF FigureIsExact
    <3>8. ASSUME P # S PROVE FigureIsExact'
      <4>1. PICK other \in S \ P : TRUE
        BY <3>8
      <4>2. Total(P) + Amount[other] > budget /\ required' = Total(S) - budget
        BY <3>1, <3>8, <4>1 DEF FundedPrefix
      <4>3. Total(P) \in Nat /\ Total(S) >= Total(P) + Amount[other] /\ Amount[other] \in Nat
        <5>. HIDE DEF S
        <5>. QED
          BY <3>5, <4>1, TotalOfMore, ConstantsAssumption
      <4>4. Missing' > 0
        <5>. HIDE DEF S, budget
        <5>. QED
          BY <3>5, <3>6, <4>2, <4>3
      <4>. QED
        BY <3>6, <4>2, <4>4 DEF FigureIsExact
    <3>. QED
      BY <1>2, <1>3, <1>4, <3>7, <3>8 DEF RestInv
  <2>. QED
    BY <2>4, <2>5
<1>. QED
  BY <1>1, <1>5, <1>6, <1>7
\* An internal transfer always schedules an update.
LEMMA InternalRest ==
    ASSUME RestInv, TypeInv', InternalTransfer
    PROVE  RestInv'
<1>1. /\ pc = "prepare" /\ cur.id \in Ids
      /\ pc' = (IF cur.from = "loop" THEN "loop" ELSE "poll1") /\ pc' \notin SendingPoints
      /\ UNCHANGED <<booting, ret, plan, seen, deposit>>
  BY DEF InternalTransfer, SendReturns, SendingPoints, RestInv, TypeInv, HasTransaction
<1>2. trigger' > 0
  BY ConstantsAssumption DEF InternalTransfer, schedulePendingTxUpdate, RestInv, TypeInv, TypeOK,
                             MemoryTypeOK
<1>3. UpdateDue' /\ PlanIsTrue'
  BY <1>2 DEF UpdateDue, PlanIsTrue, PlanIsStale
<1>4. BootingPolls' /\ SeenLags'
  BY <1>1 DEF RestInv, BootingPolls, SeenLags
<1>5. GetPendingTransactions \ {cur.id} \subseteq GetPendingTransactions'
  <2>1. \A other \in Ids \ {cur.id} : rows'[other] = rows[other]
    BY <1>1 DEF InternalTransfer, StoreInternalTransfer, RestInv, TypeInv, TypeOK, DatabaseTypeOK
  <2>. QED
    BY <2>1 DEF GetPendingTransactions, Status
<1>6. PlanIsQueued'
  BY <1>1, <1>5 DEF RestInv, PlanIsQueued, SendingPoints
<1>. QED
  BY <1>3, <1>4, <1>6 DEF RestInv

\* The broadcast lowers the balance: its success will be followed by an update,
\* and if its answer is lost the next poll finds it.
LEMMA NodeSendsRest ==
    ASSUME RestInv, TypeInv', NodeSends
    PROVE  RestInv'
<1>1. PICK id \in Ids : id = cur.id
  BY DEF NodeSends, RestInv, TypeInv, HasTransaction, SendingPoints
<1>2. /\ pc = "send" /\ pc' \in {"persistOK", "persistFailed"}
      /\ sent' = [sent EXCEPT ![id] = @ + 1] /\ conf' = conf - Amount[id]
      /\ UNCHANGED <<rows, strays, seen, deposit, cur, plan, ret, booting, trigger>>
  BY <1>1 DEF NodeSends, Broadcast, db
<1>3. /\ GetPendingTransactions' = GetPendingTransactions /\ Unconfirmed' = Unconfirmed
      /\ PlanMissing' = PlanMissing /\ (PlanIsStale => PlanIsStale')
  BY <1>2 DEF GetPendingTransactions, Status, Unconfirmed, PlanMissing, PlanIsStale
<1>4. Missing' - Amount[id] = Missing
  <2>1. Amount[id] \in Nat
    BY ConstantsAssumption
  <2>2. Missing' = Total(GetPendingTransactions) - (conf - Amount[id]) - Unconfirmed
    BY <1>2, <1>3 DEF Missing
  <2>. QED
    BY <2>1, <2>2, MoneyTypes DEF RestInv, Missing
<1>5. UpdateDue'
  <2>1. CASE pc' = "persistOK"
    BY <2>1 DEF UpdateDue
  <2>2. CASE pc' = "persistFailed"
    <3>1. Unrecorded(id)' = Unrecorded(id) + 1
      BY <1>2 DEF Unrecorded, Status, RestInv, TypeInv, TypeOK, DatabaseTypeOK, OutsideTypeOK
    <3>2. Unrecorded(id) >= 0 /\ Unrecorded(id) \in Int
      BY DEF Unrecorded, Status, RestInv, TypeInv, TypeOK, RecordedWasSent, DatabaseTypeOK, OutsideTypeOK
    <3>3. Unrecorded(id)' # 0
      BY <3>1, <3>2
    <3>. QED
      BY <3>3 DEF UpdateDue, NewTxInfo
  <2>. QED
    BY <1>2, <2>1, <2>2
<1>6. BootingPolls' /\ SeenLags'
  BY <1>2 DEF RestInv, BootingPolls, SeenLags
<1>7. PlanIsQueued'
  BY <1>2, <1>3 DEF RestInv, PlanIsQueued, SendingPoints
<1>8. PlanIsTrue'
  BY <1>1, <1>2, <1>3, <1>4 DEF RestInv, PlanIsTrue
<1>. QED
  BY <1>5, <1>6, <1>7, <1>8 DEF RestInv

\* Saving a success takes its row out of the queue; the loop goes on with a plan
\* that has paid for it, a request schedules an update.
LEMMA PersistSuccessRest ==
    ASSUME RestInv, TypeInv', PersistSuccess
    PROVE  RestInv'
<1>1. PICK id \in Ids : id = cur.id
  BY DEF PersistSuccess, RestInv, TypeInv, HasTransaction, SendingPoints
<1>2. /\ pc = "persistOK"
      /\ pc' = (IF cur.from = "loop" THEN "loop" ELSE "poll1") /\ pc' \notin SendingPoints
      /\ UNCHANGED <<booting, ret, plan, seen, deposit, conf>>
  BY DEF PersistSuccess, SendReturnsAndSchedules, SendReturns, SendingPoints
<1>3. \A other \in Ids : rows'[other].status = IF other = id THEN "new" ELSE rows[other].status
  BY <1>1, StoreSuccessType DEF PersistSuccess, RestInv
<1>4. GetPendingTransactions' = GetPendingTransactions \ {id}
  BY <1>3 DEF GetPendingTransactions, Status
<1>5. BootingPolls' /\ SeenLags'
  BY <1>2 DEF RestInv, BootingPolls, SeenLags
<1>6. CASE cur.from # "loop"
  <2>1. trigger' > 0
    BY <1>6, ConstantsAssumption
    DEF PersistSuccess, SendReturnsAndSchedules, schedulePendingTxUpdate, RestInv, TypeInv, TypeOK,
        MemoryTypeOK
  <2>2. ~HasPlan'
    BY <1>2, <1>6 DEF HasPlan
  <2>3. UpdateDue' /\ PlanIsQueued' /\ PlanIsTrue'
    BY <2>1, <2>2, NoPlanNoClaim DEF UpdateDue
  <2>. QED
    BY <1>5, <2>3 DEF RestInv
<1>7. CASE cur.from = "loop"
  <2>1. pc' = "loop" /\ trigger' = trigger
    BY <1>2, <1>7 DEF PersistSuccess, SendReturnsAndSchedules
  <2>2. plan.queue \subseteq GetPendingTransactions /\ id \in GetPendingTransactions \ plan.queue
    BY <1>1, <1>2, <1>7 DEF RestInv, PlanIsQueued, SendingPoints
  <2>3. PlanIsQueued' /\ UpdateDue'
    BY <1>2, <1>4, <2>1, <2>2 DEF PlanIsQueued, UpdateDue, InUpdate
  <2>4. Missing' = Missing - Amount[id]
    <3>1. Unconfirmed' = Unconfirmed
      BY <1>2 DEF Unconfirmed
    <3>2. /\ GetPendingTransactions \in SUBSET Ids /\ Total(GetPendingTransactions) \in Nat
          /\ conf \in Nat /\ Unconfirmed \in Nat
      BY MoneyTypes DEF RestInv
    <3>3. /\ Total(GetPendingTransactions \ {id}) = Total(GetPendingTransactions) - Amount[id]
          /\ Amount[id] \in Nat
      BY <2>2, <3>2, TotalWithout
    <3>4. Missing' = Total(GetPendingTransactions) - Amount[id] - conf - Unconfirmed
      BY <1>2, <1>4, <3>1, <3>3 DEF Missing
    <3>. QED
      BY <3>2, <3>3, <3>4 DEF Missing
  <2>5. PlanMissing' = PlanMissing /\ (PlanIsStale => PlanIsStale')
    BY <1>2, <2>1 DEF PlanMissing, PlanIsStale
  <2>6. PlanIsTrue'
    BY <1>1, <1>2, <1>7, <2>1, <2>4, <2>5 DEF RestInv, PlanIsTrue
  <2>. QED
    BY <1>5, <2>3, <2>6 DEF RestInv
<1>. QED
  BY <1>6, <1>7

\* A withdrawal of the loop that the node refused for want of funds stays pending.
LEMMA PersistPendingRest ==
    ASSUME RestInv, TypeInv', PersistPending
    PROVE  RestInv'
<1>1. PICK id \in Ids : id = cur.id
  BY DEF PersistPending, RestInv, TypeInv, HasTransaction, SendingPoints
<1>2. /\ pc = "persistPending"
      /\ pc' = (IF cur.from = "loop" THEN "loop" ELSE "poll1") /\ pc' \notin SendingPoints
      /\ UNCHANGED <<booting, ret, plan, seen, deposit, conf, required, sent, strays>>
      /\ rows' = [rows EXCEPT ![id].status = "pending"]
  BY <1>1 DEF PersistPending, StoreError, SendReturnsAndSchedules, SendReturns, SendingPoints, outside
<1>3. BootingPolls' /\ SeenLags'
  BY <1>2 DEF RestInv, BootingPolls, SeenLags
<1>4. CASE cur.from # "loop"
  <2>1. trigger' > 0
    BY <1>4, ConstantsAssumption
    DEF PersistPending, SendReturnsAndSchedules, schedulePendingTxUpdate, RestInv, TypeInv, TypeOK,
        MemoryTypeOK
  <2>2. ~HasPlan'
    BY <1>2, <1>4 DEF HasPlan
  <2>3. UpdateDue' /\ PlanIsQueued' /\ PlanIsTrue'
    BY <2>1, <2>2, NoPlanNoClaim DEF UpdateDue
  <2>. QED
    BY <1>3, <2>3 DEF RestInv
<1>5. CASE cur.from = "loop"
  <2>1. pc' = "loop" /\ trigger' = trigger
    BY <1>2, <1>5 DEF PersistPending, SendReturnsAndSchedules
  <2>2. id \in GetPendingTransactions
    BY <1>1, <1>2, <1>5 DEF RestInv, PlanIsQueued, SendingPoints
  <2>3. /\ rows'[id].status = "pending"
        /\ \A other \in Ids \ {id} : rows'[other].status = rows[other].status
    BY <1>2 DEF RestInv, TypeInv, TypeOK, DatabaseTypeOK
  <2>4. GetPendingTransactions' = GetPendingTransactions
    BY <2>2, <2>3 DEF GetPendingTransactions, Status
  <2>5. \A other \in Ids : Unrecorded(other)' = Unrecorded(other)
    BY <1>2, <2>2, <2>3 DEF Unrecorded, Status, GetPendingTransactions
  <2>6. SameMoney
    BY <1>2, <2>4, <2>5 DEF SameMoney
  <2>7. PlanIsQueued' /\ PlanIsTrue'
    BY <1>2, <1>5, <2>1, <2>6, PlanKept DEF RestInv
  <2>8. UpdateDue'
    BY <2>1 DEF UpdateDue, InUpdate
  <2>. QED
    BY <1>3, <2>6, <2>7, <2>8, SameMoneyKeeps
<1>. QED
  BY <1>4, <1>5

\* A poll that finds news is followed by an update, and one that finds none
\* changes nothing that matters.
LEMMA PollRest ==
    ASSUME RestInv, TypeInv', CheckForNewTransactions \/ CheckForExistingTransactionUpdates
    PROVE  RestInv'
<1>1. /\ ~HasPlan' /\ pc \in {"poll1", "poll2"}
      /\ NotifyBroadcasts /\ UNCHANGED <<required, conf, deposit, sent, cur, plan, trigger, timers>>
  BY DEF CheckForNewTransactions, CheckForExistingTransactionUpdates, StoreNewTransactions,
         StoreExistingTransactions, AfterPolls, HasPlan, SendingPoints
<1>2. \A id \in Ids : rows'[id].status = rows[id].status
  BY <1>1, NotifyType DEF RestInv, TypeInv
<1>3. PlanIsQueued' /\ PlanIsTrue'
  BY <1>1, NoPlanNoClaim
<1>4. GetPendingTransactions' = GetPendingTransactions
  BY <1>2 DEF GetPendingTransactions, Status
<1>5. CASE CheckForNewTransactions
  <2>1. BootingPolls'
    BY <1>5 DEF CheckForNewTransactions, RestInv, BootingPolls
  <2>2. SeenLags'
    BY <1>5 DEF CheckForNewTransactions, StoreNewTransactions, RestInv, SeenLags
  <2>3. CASE NewTxInfo
    <3>1. UpdateDue'
      BY <1>5, <2>3 DEF CheckForNewTransactions, UpdateDue, InUpdate
    <3>. QED
      BY <1>3, <2>1, <2>2, <3>1 DEF RestInv
  <2>4. CASE ~NewTxInfo
    <3>1. seen = deposit /\ \A id \in Ids : Unrecorded(id) = 0
      BY <2>4 DEF NewTxInfo
    <3>2. \A id \in Ids : strays'[id] = strays[id]
      BY <1>5, <3>1
      DEF CheckForNewTransactions, StoreNewTransactions, RestInv, TypeInv, TypeOK, DatabaseTypeOK
    <3>3. SameMoney
      BY <1>1, <1>2, <1>4, <1>5, <3>1, <3>2
      DEF CheckForNewTransactions, StoreNewTransactions, SameMoney, Unrecorded, Status
    <3>4. MemoryDue => UpdateDue'
      BY <1>1, <1>5 DEF CheckForNewTransactions, MemoryDue, UpdateDue, InUpdate, SendingPoints
    <3>. QED
      BY <1>3, <2>1, <3>3, <3>4, SameMoneyKeeps
  <2>. QED
    BY <2>3, <2>4
<1>6. CASE CheckForExistingTransactionUpdates
  <2>1. BootingPolls'
    BY <1>6 DEF CheckForExistingTransactionUpdates, RestInv, BootingPolls
  <2>2. SeenLags'
    BY <1>6 DEF CheckForExistingTransactionUpdates, StoreExistingTransactions, KnownDeposits, RestInv,
                SeenLags
  <2>3. CASE seen # KnownDeposits \/ booting
    <3>1. UpdateDue'
      BY <1>6, <2>3 DEF CheckForExistingTransactionUpdates, AfterPolls, UpdateDue, InUpdate
    <3>. QED
      BY <1>3, <2>1, <2>2, <3>1 DEF RestInv
  <2>4. CASE seen = KnownDeposits /\ ~booting
    <3>1. SameMoney
      BY <1>1, <1>2, <1>4, <1>6, <2>4
      DEF CheckForExistingTransactionUpdates, StoreExistingTransactions, SameMoney, Unrecorded, Status
    <3>2. MemoryDue => UpdateDue'
      BY <1>1, <1>6, <2>4
      DEF CheckForExistingTransactionUpdates, MemoryDue, UpdateDue, InUpdate, SendingPoints
    <3>. QED
      BY <1>3, <2>1, <3>1, <3>2, SameMoneyKeeps
  <2>. QED
    BY <2>3, <2>4
<1>. QED
  BY <1>5, <1>6

\* A deposit is news until a poll has seen it.
LEMMA DepositRest ==
    ASSUME RestInv, TypeInv', NEW d \in Deposits, DepositArrives(d) \/ DepositConfirms(d)
    PROVE  RestInv'
<1>1. UNCHANGED <<rows, seen, pc, cur, plan, ret, booting>>
  BY DEF DepositArrives, DepositConfirms, db, memory
<1>2. deposit \in [Deposits -> DepositStates]
  BY DEF RestInv, TypeInv, TypeOK, OutsideTypeOK
<1>3. /\ deposit'[d] # seen[d] /\ deposit'[d] # "none"
      /\ \A other \in Deposits \ {d} : deposit'[other] = deposit[other]
      /\ seen[d] # "confirmed"
  BY <1>2 DEF DepositArrives, DepositConfirms, RestInv, SeenLags
<1>4. PlanIsStale' /\ NewTxInfo'
  BY <1>1, <1>3 DEF PlanIsStale, NewTxInfo
<1>5. SeenLags'
  BY <1>1, <1>3 DEF RestInv, SeenLags
<1>6. BootingPolls' /\ PlanIsQueued'
  BY <1>1 DEF RestInv, BootingPolls, PlanIsQueued, GetPendingTransactions, Status
<1>. QED
  BY <1>4, <1>5, <1>6 DEF RestInv, PlanIsTrue, UpdateDue

\* Every step preserves it, unless a commit is reported as an error.
LEMMA StepRest ==
    ASSUME "dbLost" \notin Faults, RestInv, [Next]_vars
    PROVE  RestInv'
<1>1. TypeInv'
  BY StepTypeInv DEF RestInv
<1>2. CASE OperatorResolves
  <2>1. /\ pc' = "down" /\ ~HasPlan' /\ UNCHANGED <<pc, ret, booting, seen, deposit>>
    BY <1>2 DEF OperatorResolves, memory, outside, HasPlan, SendingPoints
  <2>2. UpdateDue' /\ BootingPolls' /\ SeenLags'
    BY <2>1 DEF UpdateDue, RestInv, BootingPolls, SeenLags
  <2>. QED
    BY <1>1, <2>1, <2>2, NoPlanNoClaim DEF RestInv
<1>3. ASSUME NEW id \in Ids, Cancel(id) PROVE RestInv'
  <2>1. /\ pc = "idle" /\ pc' = "update" /\ ~HasPlan' /\ UNCHANGED <<booting, seen, deposit>>
    BY <1>3 DEF Cancel, Fault, outside, HasPlan, SendingPoints
  <2>2. UpdateDue' /\ BootingPolls' /\ SeenLags'
    BY <2>1 DEF UpdateDue, InUpdate, RestInv, BootingPolls, SeenLags
  <2>. QED
    BY <1>1, <2>1, <2>2, NoPlanNoClaim DEF RestInv
<1>. QED
  BY <1>1, <1>2, <1>3, QuietRest, ReadingRest, SendNextRest, EndOfUpdateRest, InternalRest,
     NodeSendsRest, PersistSuccessRest, PersistPendingRest, PollRest, DepositRest

\* The figure of /get_required_from_cold_storage is never stale once the updater
\* has come to rest: it is what the pending withdrawals exceed the balance by,
\* whatever was requested, deposited, refused, lost or restarted before, provided
\* that no commit is reported as an error.
THEOREM FigureAtRest == "dbLost" \notin Faults /\ Spec => []RequiredIsExactAtRest
<1>. SUFFICES ASSUME "dbLost" \notin Faults
              PROVE  Spec => []RequiredIsExactAtRest
  OBVIOUS
<1>1. Init => RestInv
  <2>. SUFFICES ASSUME Init
                PROVE  RestInv
    OBVIOUS
  <2>1. TypeInv
    BY InitTypeInv
  <2>2. SeenLags /\ BootingPolls /\ UpdateDue
    BY DEF Init, SeenLags, BootingPolls, UpdateDue
  <2>3. PlanIsQueued /\ PlanIsTrue
    BY DEF Init, PlanIsQueued, PlanIsTrue, SendingPoints
  <2>. QED
    BY <2>1, <2>2, <2>3 DEF RestInv
<1>2. RestInv /\ [Next]_vars => RestInv'
  BY StepRest
<1>3. RestInv => RequiredIsExactAtRest
  <2>. SUFFICES ASSUME RestInv, AtRest
                PROVE  FigureIsExact
    BY DEF RequiredIsExactAtRest, FigureIsExact, Missing
  <2>1. ~UpdateDue
    BY DEF AtRest, UpdateDue, InUpdate, SendingPoints, RestInv, BootingPolls
  <2>. QED
    BY <2>1 DEF RestInv
<1>. QED
  BY <1>1, <1>2, <1>3, PTL DEF Spec

=============================================================================
