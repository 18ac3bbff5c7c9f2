---------------------------- MODULE BrokerProofs ----------------------------
(***************************************************************************)
(* Proofs about the two halves of the event broker, which read the same    *)
(* tables: the HTTP callback sender, for every set of transactions, every  *)
(* backoff, every channel capacity, every number of retries and every kind *)
(* and number of failures, and the websocket broadcaster, for every number *)
(* of clients, every channel size and every number of failures.            *)
(***************************************************************************)
EXTENDS HTTPCallback, Broadcaster, FiniteSetTheorems, TLAPS

-----------------------------------------------------------------------------
(***************************************************************************)
(* The writers: what each of their steps guarantees to their readers.       *)
(***************************************************************************)

\* The tables are empty at the start.
LEMMA StoreInitInv == StoreInit => StoreInv
<1> SUFFICES ASSUME StoreInit PROVE StoreInv
    OBVIOUS
<1>1. StoreTypeOK
    <2>1. up \in BOOLEAN
        BY Zenon DEF StoreInit
    <2>2. about \in [Seqs -> TxIds \cup {NewAddress, NoEvent}]
        BY DEF StoreInit
    <2> QED
        BY <2>1, <2>2, StoreAssumption DEF StoreInit, StoreTypeOK
<1>2. stored = {} /\ walletTx = {} /\ accountTx = {}
    BY DEF StoreInit
<1> QED
    BY <1>1, <1>2 DEF StoreInv

\* INSERT takes a fresh number and leaves what is known of the others.
LEMMA StoreEventInv ==
    ASSUME StoreInv, NEW subject \in TxIds \cup {NewAddress}, StoreEvent(subject)
    PROVE  /\ serial + 1 \in Seqs
           /\ serial' = serial + 1
           /\ serial' \in 0 .. MaxSeq
           /\ about' \in [Seqs -> TxIds \cup {NewAddress, NoEvent}]
           /\ about'[serial + 1] = subject
           /\ \A s \in Seqs : s <= serial => about'[s] = about[s]
BY StoreAssumption DEF StoreInv, StoreTypeOK, StoreEvent, Seqs

\* A writer keeps the invariant, and its rows are visible in order (events
\* about new addresses excepted).
LEMMA WriterInv ==
    ASSUME StoreInv, WriterStep
    PROVE  StoreInv' /\ RowsOnlyAppended /\ UNCHANGED <<up, muted>>
<1> USE StoreAssumption DEF StoreInv, StoreTypeOK, IsTxEvent, RowsOnlyAppended
<1>1. CASE WalletNotifies
    <2>1. PICK tx \in TxIds : StoreEvent(tx)
        BY <1>1 DEF WalletNotifies
    <2>2. /\ serial + 1 \in Seqs
          /\ serial' = serial + 1
          /\ serial' \in 0 .. MaxSeq
          /\ about' \in [Seqs -> TxIds \cup {NewAddress, NoEvent}]
          /\ about'[serial + 1] = tx
          /\ \A s \in Seqs : s <= serial => about'[s] = about[s]
        BY <2>1, StoreEventInv
    <2>3. /\ walletTx' = walletTx \cup {serial + 1}
          /\ UNCHANGED <<up, stored, accountTx, muted>>
        BY <1>1 DEF WalletNotifies
    <2> QED
        BY <2>2, <2>3 DEF Seqs
<1>2. CASE WalletCommits
    BY <1>2 DEF WalletCommits, Seqs
<1>3. CASE WalletRollsBack
    BY <1>3 DEF WalletRollsBack, Seqs
<1>4. CASE CreateAccount
    <2>1. StoreEvent(NewAddress)
        BY <1>4 DEF CreateAccount
    <2>2. /\ serial + 1 \in Seqs
          /\ serial' = serial + 1
          /\ serial' \in 0 .. MaxSeq
          /\ about' \in [Seqs -> TxIds \cup {NewAddress, NoEvent}]
          /\ about'[serial + 1] = NewAddress
          /\ \A s \in Seqs : s <= serial => about'[s] = about[s]
        BY <2>1, StoreEventInv
    <2>3. /\ accountTx' = accountTx \cup {serial + 1}
          /\ UNCHANGED <<up, stored, walletTx, muted>>
        BY <1>4 DEF CreateAccount
    <2> QED
        BY <2>2, <2>3 DEF Seqs
<1>5. CASE AccountCommits
    BY <1>5 DEF AccountCommits, Seqs
<1>6. CASE AccountRollsBack
    BY <1>6 DEF AccountRollsBack, Seqs
<1> QED
    BY <1>1, <1>2, <1>3, <1>4, <1>5, <1>6 DEF WriterStep

\* Rolling back everything that is open keeps the invariant.
LEMMA DeathInv ==
    ASSUME StoreInv, ProcessDies, UNCHANGED <<serial, about, stored, muted>>
    PROVE  StoreInv'
BY DEF StoreInv, StoreTypeOK, ProcessDies, IsTxEvent, Seqs

\* Steps that leave the tables and the process alone keep what is known of
\* the tables.
LEMMA QuietStore == ASSUME StoreInv, UNCHANGED storeVars PROVE StoreInv'
BY DEF StoreInv, StoreTypeOK, storeVars, writers, IsTxEvent, Seqs

-----------------------------------------------------------------------------
(***************************************************************************)
(* The HTTP callback sender.                                               *)
(***************************************************************************)

\* s is an event about a transaction, and the only such events between the
\* cursor and s are muted.
Front(s) ==
    /\ s \in stored
    /\ IsTxEvent(s)
    /\ \A t \in stored : IsTxEvent(t) /\ lastSent < t /\ t < s => about[t] \in muted

\* Where the sender is: at the event in hand, or else at the cursor.
Position == IF event = 0 THEN lastSent ELSE event

\* The cursor is at an event about a transaction, and the lock names one that
\* is next in turn.
CursorInv ==
    /\ lastSent # 0 => lastSent \in stored /\ IsTxEvent(lastSent)
    /\ lock # 0 => Front(lock) /\ lastSent < lock

\* From the lock until its result is saved there is an event in hand.
InHand == pc \in {"post", "posted", "saveSent", "saveRetry"} => event # 0

\* The event in hand is the next in turn, and the lock names it from before
\* its POST until its result is saved.
EventInv ==
    /\ event # 0 => Front(event) /\ about[event] \notin muted /\ lastSent <= event
    /\ event # 0 => pc \in {"post", "posted", "saveSent", "saveRetry", "panicked"}
    /\ pc \in {"post", "posted"} => lock = event
    /\ pc = "posted" /\ accepted => event \in received
    /\ pc = "saveSent" => event \in received \cup gaveUp
    /\ pc = "saveSent" => lock = event \/ lastSent = event

\* The rest of the query result: what became visible since lies above it.
BatchInv ==
    /\ batch # {} => event # 0 \/ pc = "loop"
    /\ \A b \in batch :
          /\ b \in stored
          /\ Position < b
          /\ about[b] \notin muted
    /\ \A b \in batch, s \in stored :
          IsTxEvent(b) /\ IsTxEvent(s) /\ about[s] \notin muted /\ Position < s /\ s < b
             => s \in batch

\* An event that was ever sent is behind the cursor or next in turn.
PostsInv == \A s \in Seqs : posts[s] > 0 => Front(s)

\* An acknowledged event is behind the cursor, or the lock still names it and
\* the sender is about to save the result, or is dead.
AckedInv ==
    \A s \in acked :
        /\ s \in received
        /\ \/ s <= lastSent
           \/ /\ lock = s
              /\ pc = "down" \/ (event = s /\ pc \in {"saveSent", "panicked"})

SendInv ==
    /\ TypeOK
    /\ StoreInv
    /\ InHand
    /\ CursorInv
    /\ EventInv
    /\ BatchInv
    /\ NothingSkipped
    /\ PostsInv
    /\ AckedInv

-----------------------------------------------------------------------------
(***************************************************************************)
(* Type correctness.                                                       *)
(***************************************************************************)

\* The initial state is well typed.
LEMMA InitType == Init => TypeOK /\ StoreInv /\ InHand
<1> SUFFICES ASSUME Init PROVE TypeOK /\ StoreInv /\ InHand
    OBVIOUS
<1>1. StoreInv
    BY StoreInitInv DEF Init
<1>2. up = FALSE /\ accepted = FALSE /\ isRetrying = FALSE
    BY DEF Init, StoreInit
<1>3. accepted \in BOOLEAN /\ isRetrying \in BOOLEAN /\ up = (pc # "down")
    BY <1>2, Zenon DEF Init
<1>4. posts \in [Seqs -> Nat] /\ triggers \in Seq(BOOLEAN) /\ Len(triggers) = 0
    BY DEF Init
<1> QED
    BY <1>1, <1>3, <1>4, StoreAssumption, CallbackAssumption
    DEF Init, TypeOK, StoreInv, InHand, Points

\* A non-blocking send keeps the channel within its capacity.
LEMMA TriggerType ==
    ASSUME TypeOK, triggerHTTPNotificationSending
    PROVE  triggers' \in Seq(BOOLEAN) /\ Len(triggers') <= TriggerCapacity
<1>1. CASE Len(triggers) < TriggerCapacity
    <2>1. triggers' = Append(triggers, FALSE)
        BY <1>1 DEF triggerHTTPNotificationSending
    <2> QED
        BY <1>1, <2>1, CallbackAssumption DEF TypeOK
<1>2. CASE ~(Len(triggers) < TriggerCapacity)
    BY <1>2 DEF TypeOK, triggerHTTPNotificationSending
<1> QED
    BY <1>1, <1>2

\* Every step keeps every variable in its type.
LEMMA StepType ==
    ASSUME TypeOK, StoreInv, InHand, [Next]_vars
    PROVE  TypeOK' /\ StoreInv' /\ InHand'
<1> USE StoreAssumption, CallbackAssumption
<1> USE DEF TypeOK, InHand, Points, cursor, history, loop, retry, timing
<1>1. CASE Writer
    <2>1. StoreInv' /\ up' = up
        BY <1>1, WriterInv DEF Writer
    <2> QED
        BY <1>1, <2>1 DEF Writer, StoreInv
<1>2. ASSUME UNCHANGED storeVars, StoreInv', StoreTypeOK' /\ up' = up,
             \/ SendNotifications \/ EarlyTimerFires \/ RetryTimerFires
             \/ TriggerIgnored \/ TriggerTaken
      PROVE  TypeOK' /\ InHand'
    <2>1. CASE SendNotifications
        BY <1>2, <2>1, TriggerType DEF SendNotifications
    <2>2. CASE EarlyTimerFires
        BY <1>2, <2>2, TriggerType DEF EarlyTimerFires
    <2>3. CASE RetryTimerFires
        BY <1>2, <2>3 DEF RetryTimerFires
    <2>4. CASE TriggerIgnored
        BY <1>2, <2>4 DEF TriggerIgnored
    <2>5. CASE TriggerTaken
        <3>1. isRetrying' \in BOOLEAN
            BY <2>5, Zenon DEF TriggerTaken
        <3>2. retryingSeq' \in -1 .. MaxSeq
            BY <2>5 DEF TriggerTaken
        <3>3. triggers' \in Seq(BOOLEAN) /\ Len(triggers') <= TriggerCapacity
            BY <2>5 DEF TriggerTaken
        <3> QED
            BY <1>2, <2>5, <3>1, <3>2, <3>3 DEF TriggerTaken
    <2> QED
        BY <1>2, <2>1, <2>2, <2>3, <2>4, <2>5
<1>3. ASSUME UNCHANGED storeVars, StoreInv', StoreTypeOK' /\ up' = up,
             \/ ReadEvents \/ ReadFails \/ LoopEnds \/ SkipNewAddress
             \/ LockHTTPCallback \/ LockLost
      PROVE  TypeOK' /\ InHand'
    <2>1. CASE ReadEvents
        BY <1>3, <2>1 DEF ReadEvents, GetEventsFromSeq, StoreTypeOK
    <2>2. CASE ReadFails
        BY <1>3, <2>2 DEF ReadFails, EarlyError, Fault
    <2>3. CASE LoopEnds
        BY <1>3, <2>3 DEF LoopEnds
    <2>4. CASE SkipNewAddress
        BY <1>3, <2>4 DEF SkipNewAddress
    <2>5. CASE LockHTTPCallback
        BY <1>3, <2>5 DEF LockHTTPCallback, Seqs
    <2>6. CASE LockLost
        BY <1>3, <2>6 DEF LockLost, EarlyError, Fault, Seqs
    <2> QED
        BY <1>3, <2>1, <2>2, <2>3, <2>4, <2>5, <2>6
<1>4. ASSUME UNCHANGED storeVars, StoreInv', StoreTypeOK' /\ up' = up,
             \/ Post \/ PostSucceeds \/ PostFails
             \/ SaveSent \/ SaveRetry \/ SaveFails \/ SaveLost
      PROVE  TypeOK' /\ InHand'
    <2>1. CASE Post
        <3>1. PICK taken \in BOOLEAN :
                /\ accepted' = taken
                /\ received' = IF taken THEN received \cup {event} ELSE received
            BY <2>1 DEF Post
        <3>2. event \in Seqs
            BY <2>1 DEF Post, Seqs
        <3>3. posts[event] \in Nat
            BY <3>2
        <3>4. posts' \in [Seqs -> Nat]
            BY <2>1, <3>2, <3>3 DEF Post
        <3>5. received' \subseteq Seqs
            BY <3>1, <3>2
        <3> QED
            BY <1>4, <2>1, <3>1, <3>2, <3>4, <3>5 DEF Post
    <2>2. CASE PostSucceeds
        <3>1. event \in Seqs
            BY <2>2 DEF PostSucceeds, Seqs
        <3> QED
            BY <1>4, <2>2, <3>1 DEF PostSucceeds, CountAttempt
    <2>3. CASE PostFails
        <3>1. event \in Seqs
            BY <2>3 DEF PostFails, Seqs
        <3>2. retries' \in Nat
            BY <2>3 DEF PostFails, CountAttempt
        <3>3. gaveUp' \subseteq Seqs /\ pc' \in {"saveSent", "saveRetry"}
            BY <2>3, <3>1 DEF PostFails
        <3> QED
            BY <1>4, <2>3, <3>1, <3>2, <3>3 DEF PostFails
    <2>4. CASE SaveSent
        <3>1. accepted' \in BOOLEAN
            BY <2>4, Zenon DEF SaveSent
        <3> QED
            BY <1>4, <2>4, <3>1 DEF SaveSent, StoreSent
    <2>5. CASE SaveRetry
        <3>1. accepted' \in BOOLEAN /\ isRetrying' \in BOOLEAN
            BY <2>5, Zenon DEF SaveRetry
        <3> QED
            BY <1>4, <2>5, <3>1 DEF SaveRetry, StoreRetry
    <2>6. CASE SaveFails
        BY <1>4, <2>6 DEF SaveFails, RetryOrPanic, Fault
    <2>7. CASE SaveLost
        BY <1>4, <2>7 DEF SaveLost, StoreSent, StoreRetry, RetryOrPanic, Fault
    <2> QED
        BY <1>4, <2>1, <2>2, <2>3, <2>4, <2>5, <2>6, <2>7
<1>5. CASE Mute \/ MuteCurrent
    <2>1. PICK tx \in TxIds : MuteEventsWithTxID(tx) /\ blamed' \subseteq TxIds
        BY <1>5 DEF Mute, MuteCurrent, IsTxEvent
    <2>2. pc' = pc /\ up' = up /\ StoreInv'
        BY <1>5, <2>1 DEF MuteEventsWithTxID, StoreInv, StoreTypeOK, writers, IsTxEvent
    <2>3. retries' \in Nat
        BY <2>1 DEF MuteEventsWithTxID, ResetRetryState
    <2>4. carried' \subseteq TxIds /\ faults' \in 0 .. MaxFaults
        BY <2>1 DEF MuteEventsWithTxID, Carry, Fault
    <2> QED
        BY <1>5, <2>1, <2>2, <2>3, <2>4 DEF MuteEventsWithTxID, StoreInv
<1>6. CASE Start
    <2>1. up' \in BOOLEAN /\ up' = (pc' # "down")
        BY <1>6, Zenon DEF Start
    <2>2. StoreInv'
        BY <1>6, <2>1 DEF Start, StoreInv, StoreTypeOK, writers, IsTxEvent
    <2> QED
        BY <1>6, <2>1, <2>2 DEF Start, StoreInv
<1>7. ASSUME Down, faults' \in 0 .. MaxFaults
      PROVE  TypeOK' /\ StoreInv' /\ InHand'
    <2>1. StoreInv'
        BY <1>7, DeathInv DEF Down
    <2>2. /\ accepted' \in BOOLEAN
          /\ isRetrying' \in BOOLEAN
          /\ up' = (pc' # "down")
        BY <1>7, Zenon DEF Down, ProcessDies
    <2>3. triggers' \in Seq(BOOLEAN) /\ Len(triggers') = 0
        BY <1>7 DEF Down
    <2> QED
        BY <1>7, <2>1, <2>2, <2>3 DEF Down, StoreInv
<1>8. CASE Crash \/ Exit
    <2>1. Down /\ faults' \in 0 .. MaxFaults
        BY <1>8 DEF Crash, Exit, Fault
    <2> QED
        BY <1>7, <2>1
<1>9. CASE OperatorResolves
    <2>1. StoreInv' /\ up' = up
        BY <1>9, QuietStore DEF OperatorResolves, storeVars
    <2> QED
        BY <1>9, <2>1 DEF OperatorResolves, StoreInv
<1>10. CASE UNCHANGED vars
    <2>1. StoreInv' /\ up' = up
        BY <1>10, QuietStore DEF vars, storeVars
    <2> QED
        BY <1>10, <2>1 DEF vars, StoreInv
<1>11. ASSUME UNCHANGED storeVars
       PROVE  StoreInv' /\ StoreTypeOK' /\ up' = up
    BY <1>11, QuietStore DEF StoreInv, storeVars
<1>12. CASE SendNotifications \/ EarlyTimerFires \/ RetryTimerFires
    <2>1. UNCHANGED storeVars
        BY <1>12 DEF SendNotifications, EarlyTimerFires, RetryTimerFires
    <2> QED
        BY <1>2, <1>11, <1>12, <2>1
<1>13. CASE SenderStep
    <2>1. UNCHANGED storeVars
        BY <1>13 DEF SenderStep, OwnStep, PostReturns, TriggerIgnored, TriggerTaken,
           ReadEvents, ReadFails,
           EarlyError, LoopEnds, SkipNewAddress, LockHTTPCallback, LockLost, Post,
           PostSucceeds, PostFails, SaveSent, SaveRetry, SaveFails, SaveLost, RetryOrPanic
    <2> QED
        BY <1>2, <1>3, <1>4, <1>11, <1>13, <2>1 DEF SenderStep, OwnStep, PostReturns
<1> QED
    BY <1>1, <1>5, <1>6, <1>8, <1>9, <1>10, <1>12, <1>13 DEF Next

\* Every variable of the HTTP callback sender always holds a value of the kind
\* the code gives it, and the trigger channel stays within its capacity.
THEOREM TypeCorrect == Spec => []TypeOK
<1>1. Init => TypeOK /\ StoreInv /\ InHand
    BY InitType
<1>2. TypeOK /\ StoreInv /\ InHand /\ [Next]_vars => (TypeOK /\ StoreInv /\ InHand)'
    BY StepType
<1> QED
    BY <1>1, <1>2, PTL DEF Spec

-----------------------------------------------------------------------------
(***************************************************************************)
(* Delivery: nothing is skipped, reordered or sent after its               *)
(* acknowledgement.                                                        *)
(***************************************************************************)

\* The parts of the invariant besides typing.
DeliveryInv == CursorInv /\ EventInv /\ BatchInv /\ NothingSkipped /\ PostsInv /\ AckedInv

\* An event next in turn stays so while rows are appended, transactions are
\* muted and the cursor moves forward.
LEMMA FrontKept ==
    ASSUME TypeOK, NEW s \in Seqs, Front(s), RowsOnlyAppended, muted \subseteq muted',
           lastSent' \in 0 .. MaxSeq, lastSent <= lastSent', stored' \subseteq Seqs
    PROVE  Front(s)'
<1>1. MaxSeq \in Nat /\ lastSent \in Nat /\ lastSent' \in Nat
    BY StoreAssumption DEF TypeOK
<1>2. \A t \in stored' : t \in Nat
    BY <1>1, StoreAssumption DEF Seqs
<1>3. s \in stored' /\ about'[s] \in TxIds
    BY DEF Front, RowsOnlyAppended, IsTxEvent
<1>4. ASSUME NEW t \in stored', about'[t] \in TxIds, lastSent' < t, t < s
      PROVE  about'[t] \in muted'
    <2>1. t \in Nat /\ s \in Nat /\ ~(s < t)
        BY <1>1, <1>2, <1>3, <1>4
    <2>2. s \in stored /\ about[s] \in TxIds
        BY DEF Front, IsTxEvent
    <2>3. t \in stored
        BY <1>4, <2>1, <2>2 DEF RowsOnlyAppended
    <2>4. about'[t] = about[t]
        BY <2>3 DEF RowsOnlyAppended
    <2>5. lastSent < t
        BY <1>1, <1>4, <2>1
    <2>. QED
        BY <1>4, <2>3, <2>4, <2>5 DEF Front, IsTxEvent
<1>. QED
    BY <1>3, <1>4 DEF Front, IsTxEvent

\* A step that does not write events appends nothing.
LEMMA NothingAppended == UNCHANGED <<about, stored>> => RowsOnlyAppended
BY DEF RowsOnlyAppended

\* At the start there is nothing to deliver.
LEMMA InitDelivery == Init => DeliveryInv
BY DEF Init, StoreInit, DeliveryInv, CursorInv, EventInv, BatchInv, NothingSkipped,
       PostsInv, AckedInv

\* Steps of the writers: rows appear, but only above everything that the
\* sender has seen, as far as events about transactions go.
LEMMA WriterDelivery ==
    ASSUME TypeOK, StoreInv, InHand, DeliveryInv, Writer
    PROVE  DeliveryInv'
<1> USE DEF cursor, history, loop, retry, timing
<1>1. StoreInv' /\ RowsOnlyAppended /\ UNCHANGED <<up, muted>>
    BY WriterInv DEF Writer
<1>2. \A s \in Seqs : Front(s) => Front(s)'
    BY <1>1, FrontKept DEF Writer, TypeOK, StoreInv, StoreTypeOK
<1>3. CursorInv'
    BY <1>1, <1>2 DEF Writer, DeliveryInv, CursorInv, TypeOK, RowsOnlyAppended, IsTxEvent,
       Seqs
<1>4. EventInv'
    BY <1>1, <1>2 DEF Writer, DeliveryInv, EventInv, TypeOK, RowsOnlyAppended, IsTxEvent,
       Front, Seqs
<1>5. BatchInv'
    <2>1. Position' = Position /\ batch' = batch /\ event' = event /\ pc' = pc
        BY DEF Writer, Position
    <2>2. ASSUME NEW b \in batch, NEW s \in stored', about'[b] \in TxIds,
                 about'[s] \in TxIds, about'[s] \notin muted', Position < s, s < b
          PROVE  s \in batch
        <3>1. b \in stored /\ about'[b] = about[b] /\ b \in Seqs /\ s \in Seqs
            BY <1>1, <2>2 DEF DeliveryInv, BatchInv, RowsOnlyAppended, TypeOK, StoreInv,
               StoreTypeOK
        <3>2. s \in stored
            BY <1>1, <2>2, <3>1 DEF RowsOnlyAppended, Seqs
        <3> QED
            BY <1>1, <2>2, <3>1, <3>2 DEF DeliveryInv, BatchInv, IsTxEvent, RowsOnlyAppended
    <2>3. \A b \in batch : b \in stored' /\ Position < b /\ about'[b] \notin muted'
        BY <1>1 DEF DeliveryInv, BatchInv, RowsOnlyAppended
    <2> QED
        BY <2>1, <2>2, <2>3 DEF DeliveryInv, BatchInv, IsTxEvent
<1>6. NothingSkipped'
    BY <1>1 DEF Writer, DeliveryInv, CursorInv, NothingSkipped, Passed, TypeOK,
       RowsOnlyAppended, IsTxEvent, Seqs, StoreInv, StoreTypeOK
<1>7. PostsInv'
    BY <1>2 DEF Writer, DeliveryInv, PostsInv
<1>8. AckedInv'
    BY DEF Writer, DeliveryInv, AckedInv
<1> QED
    BY <1>3, <1>4, <1>5, <1>6, <1>7, <1>8 DEF DeliveryInv

\* Muting happens with no event in hand and no query result left.
LEMMA MuteDelivery ==
    ASSUME TypeOK, StoreInv, InHand, DeliveryInv, Mute \/ MuteCurrent
    PROVE  DeliveryInv'
<1> USE DEF cursor, history, loop, retry, timing
<1>1. PICK tx \in TxIds : MuteEventsWithTxID(tx)
    BY DEF Mute, MuteCurrent, IsTxEvent
<1>2. pc = "idle" /\ event = 0 /\ batch = {}
    BY DEF Mute, MuteCurrent, DeliveryInv, EventInv, BatchInv
<1>3. /\ muted \subseteq muted'
      /\ UNCHANGED <<about, stored, lastSent, lock, received, acked, gaveUp, posts,
                     pc, batch, event, accepted>>
    BY <1>1 DEF MuteEventsWithTxID
<1>4. \A s \in Seqs : Front(s) => Front(s)'
    BY <1>3, NothingAppended, FrontKept DEF TypeOK, StoreTypeOK
<1>5. CursorInv'
    BY <1>3, <1>4 DEF DeliveryInv, CursorInv, TypeOK, IsTxEvent, Seqs
<1>6. EventInv' /\ BatchInv'
    BY <1>2, <1>3 DEF EventInv, BatchInv
<1>7. NothingSkipped'
    BY <1>3 DEF DeliveryInv, NothingSkipped, Passed, IsTxEvent
<1>8. PostsInv' /\ AckedInv'
    BY <1>3, <1>4 DEF DeliveryInv, PostsInv, AckedInv
<1> QED
    BY <1>5, <1>6, <1>7, <1>8 DEF DeliveryInv

\* Steps that only touch triggers, timers and the retry state.
LEMMA TimingDelivery ==
    ASSUME TypeOK, StoreInv, InHand, DeliveryInv,
           \/ SendNotifications \/ EarlyTimerFires \/ RetryTimerFires
           \/ TriggerIgnored \/ TriggerTaken \/ Start \/ UNCHANGED vars
    PROVE  DeliveryInv'
<1> USE DEF cursor, history, loop, retry, timing, storeVars, vars
<1>1. /\ UNCHANGED <<about, stored, muted, lastSent, lock, received, acked, gaveUp, posts,
                     batch, event, accepted>>
      /\ \/ pc' = pc
         \/ pc \in {"idle", "down"} /\ pc' = "read" /\ (pc = "down" => lock = 0)
    BY DEF SendNotifications, EarlyTimerFires, RetryTimerFires, TriggerIgnored,
       TriggerTaken, Start, MayStart
<1>2. event # 0 => pc' = pc
    BY <1>1 DEF DeliveryInv, EventInv
<1>3. CursorInv' /\ NothingSkipped' /\ PostsInv'
    BY <1>1 DEF DeliveryInv, CursorInv, NothingSkipped, PostsInv, Front, Passed, IsTxEvent
<1>4. EventInv' /\ BatchInv'
    BY <1>1, <1>2 DEF DeliveryInv, EventInv, BatchInv, Front, Position, IsTxEvent
<1>5. AckedInv'
    <2>1. \A s \in acked : s \in Seqs
        BY DEF TypeOK
    <2> QED
        BY <1>1, <1>2, <2>1 DEF DeliveryInv, AckedInv, Seqs
<1> QED
    BY <1>3, <1>4, <1>5 DEF DeliveryInv

\* The query, an early error, the end of the loop.
LEMMA ReadDelivery ==
    ASSUME TypeOK, StoreInv, InHand, DeliveryInv, ReadEvents \/ ReadFails \/ LoopEnds
    PROVE  DeliveryInv'
<1> USE DEF cursor, history, loop, retry, timing, storeVars
<1>1. /\ UNCHANGED <<about, stored, muted, lastSent, lock, received, acked, gaveUp, posts,
                     event, accepted>>
      /\ pc \in {"read", "loop"}
      /\ \/ pc' = "loop" /\ batch' = GetEventsFromSeq(lastSent + 1)
         \/ pc' = "idle" /\ batch' = {}
    BY DEF ReadEvents, ReadFails, EarlyError, LoopEnds
<1>2. event = 0
    BY <1>1 DEF DeliveryInv, EventInv
<1>3. CursorInv' /\ NothingSkipped' /\ PostsInv'
    BY <1>1 DEF DeliveryInv, CursorInv, NothingSkipped, PostsInv, Front, Passed, IsTxEvent
<1>4. EventInv'
    BY <1>1, <1>2 DEF DeliveryInv, EventInv
<1>5. BatchInv'
    <2>1. Position' = lastSent
        BY <1>1, <1>2 DEF Position
    <2>2. CASE pc' = "loop" /\ batch' = GetEventsFromSeq(lastSent + 1)
        <3>1. \A s \in stored : s >= lastSent + 1 <=> lastSent < s
            BY DEF TypeOK, StoreTypeOK, Seqs
        <3>2. batch' = {s \in stored : lastSent < s /\ about[s] \notin muted}
            BY <2>2, <3>1 DEF GetEventsFromSeq
        <3> QED
            BY <1>1, <2>1, <2>2, <3>2 DEF BatchInv, IsTxEvent
    <2> QED
        BY <1>1, <2>2 DEF BatchInv
<1>6. AckedInv'
    BY <1>1 DEF DeliveryInv, AckedInv
<1> QED
    BY <1>3, <1>4, <1>5, <1>6 DEF DeliveryInv

\* The first event of the query result is next in turn.
LEMMA FirstIsFront ==
    ASSUME TypeOK, StoreInv, DeliveryInv, pc = "loop",
           NEW s \in batch, IsFirst(s, batch), IsTxEvent(s)
    PROVE  s \in Seqs /\ event = 0 /\ Front(s) /\ lastSent < s /\ about[s] \notin muted
<1>1. event = 0 /\ Position = lastSent
    BY DEF DeliveryInv, EventInv, Position
<1>2. s \in stored /\ lastSent < s /\ about[s] \notin muted
    BY <1>1 DEF DeliveryInv, BatchInv
<1>3. ASSUME NEW t \in stored, IsTxEvent(t), lastSent < t, t < s
      PROVE  about[t] \in muted
    <2>1. t \in Seqs /\ s \in Seqs
        BY DEF TypeOK, StoreTypeOK
    <2>2. about[t] \notin muted => t \in batch
        BY <1>1, <1>3 DEF DeliveryInv, BatchInv
    <2> QED
        BY <1>3, <2>1, <2>2 DEF IsFirst, Seqs
<1> QED
    BY <1>1, <1>2, <1>3 DEF Front, TypeOK

\* Taking the next event of the query result.
LEMMA TakeDelivery ==
    ASSUME TypeOK, StoreInv, InHand, DeliveryInv,
           SkipNewAddress \/ LockHTTPCallback \/ LockLost
    PROVE  DeliveryInv'
<1> USE DEF cursor, history, loop, retry, timing, storeVars
<1>1. CASE SkipNewAddress
    <2>1. PICK s \in batch : IsFirst(s, batch) /\ ~IsTxEvent(s) /\ batch' = batch \ {s}
        BY <1>1 DEF SkipNewAddress
    <2>2. /\ UNCHANGED <<about, stored, muted, lastSent, lock, received, acked, gaveUp,
                         posts, event, accepted, pc>>
          /\ pc = "loop"
        BY <1>1 DEF SkipNewAddress
    <2>3. BatchInv'
        BY <2>1, <2>2 DEF DeliveryInv, BatchInv, Position, IsTxEvent
    <2> QED
        BY <2>2, <2>3 DEF DeliveryInv, CursorInv, EventInv, NothingSkipped, PostsInv,
           AckedInv, Front, Passed, IsTxEvent
<1>2. CASE LockHTTPCallback
    <2>1. PICK s \in batch : /\ IsFirst(s, batch)
                             /\ IsTxEvent(s)
                             /\ lock' = s /\ event' = s /\ batch' = batch \ {s}
        BY <1>2 DEF LockHTTPCallback
    <2>2. /\ UNCHANGED <<about, stored, muted, lastSent, received, acked, gaveUp, posts,
                         accepted>>
          /\ pc = "loop" /\ pc' = "post"
        BY <1>2 DEF LockHTTPCallback
    <2>3. s \in Seqs /\ event = 0 /\ Front(s) /\ lastSent < s /\ about[s] \notin muted
        BY <2>1, <2>2, FirstIsFront
    <2>4. Front(s)'
        BY <2>2, <2>3 DEF Front, IsTxEvent
    <2>5. CursorInv' /\ EventInv'
        BY <2>1, <2>2, <2>3, <2>4 DEF DeliveryInv, CursorInv, EventInv, TypeOK, Seqs,
           IsTxEvent
    <2>6. BatchInv'
        <3>1. Position = lastSent /\ Position' = s
            BY <2>1, <2>3 DEF Position, Seqs
        <3>2. batch \subseteq Seqs /\ stored \subseteq Seqs /\ lastSent \in 0 .. MaxSeq
            BY DEF TypeOK, StoreTypeOK
        <3> QED
            BY <2>1, <2>2, <2>3, <3>1, <3>2, StoreAssumption
            DEF DeliveryInv, BatchInv, IsFirst, IsTxEvent, Seqs
    <2>7. NothingSkipped' /\ PostsInv'
        BY <2>2 DEF DeliveryInv, NothingSkipped, PostsInv, Front, Passed, IsTxEvent
    <2>8. AckedInv'
        BY <2>2 DEF DeliveryInv, AckedInv
    <2> QED
        BY <2>5, <2>6, <2>7, <2>8 DEF DeliveryInv
<1>3. CASE LockLost
    <2>1. PICK s \in batch : IsFirst(s, batch) /\ IsTxEvent(s) /\ lock' = s
        BY <1>3 DEF LockLost
    <2>2. /\ UNCHANGED <<about, stored, muted, lastSent, received, acked, gaveUp, posts,
                         event, accepted>>
          /\ pc = "loop" /\ pc' = "idle" /\ batch' = {}
        BY <1>3 DEF LockLost, EarlyError
    <2>3. s \in Seqs /\ event = 0 /\ Front(s) /\ lastSent < s
        BY <2>1, <2>2, FirstIsFront
    <2>4. Front(s)'
        BY <2>2, <2>3 DEF Front, IsTxEvent
    <2>5. CursorInv' /\ EventInv' /\ BatchInv'
        BY <2>1, <2>2, <2>3, <2>4 DEF DeliveryInv, CursorInv, EventInv, BatchInv, IsTxEvent
    <2>6. NothingSkipped' /\ PostsInv'
        BY <2>2 DEF DeliveryInv, NothingSkipped, PostsInv, Front, Passed, IsTxEvent
    <2>7. AckedInv'
        BY <2>2 DEF DeliveryInv, AckedInv
    <2> QED
        BY <2>5, <2>6, <2>7 DEF DeliveryInv
<1> QED
    BY <1>1, <1>2, <1>3

\* The two halves of a POST.
LEMMA PostDelivery ==
    ASSUME TypeOK, StoreInv, InHand, DeliveryInv, Post \/ PostSucceeds \/ PostFails
    PROVE  DeliveryInv'
<1> USE DEF cursor, history, loop, retry, timing, storeVars
<1>1. /\ UNCHANGED <<about, stored, muted, lastSent, lock, batch, event>>
      /\ received \subseteq received' /\ gaveUp \subseteq gaveUp'
      /\ pc \in {"post", "posted"}
      /\ pc' \in {"posted", "saveSent", "saveRetry"}
    BY DEF Post, PostSucceeds, PostFails
<1>2. /\ event \in Seqs /\ lock = event /\ lastSent < event
      /\ Front(event) /\ about[event] \notin muted
    BY <1>1 DEF InHand, DeliveryInv, EventInv, CursorInv, TypeOK, Seqs
<1>3. CursorInv' /\ BatchInv' /\ NothingSkipped'
    BY <1>1, <1>2 DEF DeliveryInv, CursorInv, BatchInv, NothingSkipped, Front, Position,
       Passed, IsTxEvent, Seqs
<1>4. Front(event)' /\ \A s \in Seqs : Front(s) => Front(s)'
    BY <1>1, <1>2 DEF Front, IsTxEvent
<1>5. PostsInv'
    <2>1. CASE Post
        BY <1>1, <1>2, <1>4, <2>1 DEF Post, DeliveryInv, PostsInv, TypeOK
    <2>2. CASE posts' = posts
        BY <1>4, <2>2 DEF DeliveryInv, PostsInv
    <2> QED
        BY <2>1, <2>2 DEF PostSucceeds, PostFails
<1>6. EventInv'
    <2>1. event' # 0 => Front(event)' /\ about'[event'] \notin muted' /\ lastSent' <= event'
        BY <1>1, <1>2, <1>4 DEF TypeOK, Seqs
    <2>2. pc' = "posted" /\ accepted' => event' \in received'
        BY <1>1 DEF Post, PostSucceeds, PostFails
    <2>3. pc' = "saveSent" => event' \in received' \cup gaveUp'
        <3>1. CASE PostSucceeds
            BY <1>1, <3>1 DEF PostSucceeds, DeliveryInv, EventInv
        <3>2. CASE PostFails
            BY <3>2 DEF PostFails
        <3> QED
            BY <3>1, <3>2 DEF Post
    <2> QED
        BY <1>1, <1>2, <2>1, <2>2, <2>3 DEF EventInv
<1>7. AckedInv'
    <2>1. \A s \in acked : s \in received /\ s <= lastSent
        BY <1>1 DEF DeliveryInv, AckedInv
    <2>2. \/ acked' = acked
          \/ /\ acked' = acked \cup {event} /\ pc = "posted" /\ accepted
             /\ pc' = "saveSent" /\ received' = received
        BY DEF Post, PostSucceeds, PostFails
    <2>3. pc = "posted" /\ accepted => event \in received
        BY DEF DeliveryInv, EventInv
    <2> QED
        BY <1>1, <1>2, <2>1, <2>2, <2>3 DEF AckedInv
<1> QED
    BY <1>3, <1>5, <1>6, <1>7 DEF DeliveryInv

\* Moving the cursor to an event that was received or given up skips nothing.
LEMMA StoreSentDelivery ==
    ASSUME TypeOK, InHand, DeliveryInv, pc = "saveSent", StoreSent,
           UNCHANGED <<about, stored, muted, received, acked, gaveUp, posts>>
    PROVE  /\ CursorInv' /\ NothingSkipped' /\ PostsInv'
           /\ \A s \in acked : s \in received /\ s <= lastSent'
           /\ \A s \in Seqs : Front(s) => Front(s)'
           /\ lastSent' = event /\ lock' = 0 /\ event \in Seqs
<1>1. event \in Seqs /\ Front(event) /\ lastSent <= event
    BY DEF InHand, DeliveryInv, EventInv, TypeOK, Seqs
<1>2. lastSent' = event /\ lock' = 0
    BY DEF StoreSent
<1>3. \A s \in Seqs : Front(s) => Front(s)'
    BY <1>1, <1>2, NothingAppended, FrontKept DEF TypeOK, StoreTypeOK, Seqs
<1>4. CursorInv' /\ PostsInv'
    BY <1>1, <1>2, <1>3 DEF CursorInv, DeliveryInv, PostsInv, Front, IsTxEvent
<1>5. NothingSkipped'
    <2>1. event \in received \cup gaveUp
        BY DEF DeliveryInv, EventInv
    <2> SUFFICES ASSUME NEW s \in stored, IsTxEvent(s), s <= event
                 PROVE  s \in received \cup gaveUp \/ about[s] \in muted
        BY <1>2 DEF NothingSkipped, Passed, IsTxEvent
    <2>2. s \in Seqs /\ lastSent \in 0 .. MaxSeq
        BY DEF TypeOK, StoreTypeOK
    <2>3. CASE s <= lastSent
        BY <2>3 DEF DeliveryInv, NothingSkipped, Passed
    <2>4. CASE lastSent < s /\ s < event
        BY <1>1, <2>4 DEF Front
    <2> QED
        BY <1>1, <2>1, <2>2, <2>3, <2>4 DEF Seqs
<1>6. \A s \in acked : s \in received /\ s <= lastSent'
    BY <1>1, <1>2 DEF DeliveryInv, AckedInv, TypeOK, Seqs
<1> QED
    BY <1>1, <1>2, <1>3, <1>4, <1>5, <1>6

\* Saving the result of a POST.
LEMMA SaveDelivery ==
    ASSUME TypeOK, StoreInv, InHand, DeliveryInv,
           SaveSent \/ SaveRetry \/ SaveFails \/ SaveLost
    PROVE  DeliveryInv'
<1> USE DEF cursor, history, loop, retry, timing, storeVars
<1>1. /\ UNCHANGED <<about, stored, muted, received, acked, gaveUp, posts>>
      /\ pc \in {"saveSent", "saveRetry"}
    BY DEF SaveSent, SaveRetry, SaveFails, SaveLost, RetryOrPanic
<1>2. /\ event \in Seqs /\ lastSent \in 0 .. MaxSeq
      /\ Front(event) /\ about[event] \notin muted /\ lastSent <= event
    BY <1>1 DEF InHand, DeliveryInv, EventInv, TypeOK, Seqs
<1>3. ASSUME pc = "saveSent", StoreSent
      PROVE  /\ CursorInv' /\ NothingSkipped' /\ PostsInv'
             /\ \A s \in acked : s \in received /\ s <= lastSent'
             /\ \A s \in Seqs : Front(s) => Front(s)'
             /\ lastSent' = event /\ lock' = 0
    BY <1>1, <1>3, StoreSentDelivery
<1>4. ASSUME pc = "saveRetry", StoreRetry
      PROVE  /\ CursorInv' /\ NothingSkipped' /\ PostsInv'
             /\ \A s \in acked : s \in received /\ s <= lastSent'
             /\ \A s \in Seqs : Front(s) => Front(s)'
             /\ lastSent' = lastSent /\ lock' = 0
    BY <1>1, <1>4 DEF StoreRetry, DeliveryInv, CursorInv, NothingSkipped, PostsInv,
       AckedInv, Front, Passed, IsTxEvent
<1>5. CASE SaveSent
    <2>1. /\ pc = "saveSent" /\ StoreSent
          /\ pc' = "loop" /\ event' = 0 /\ batch' = batch
        BY <1>5 DEF SaveSent
    <2>2. Position' = Position
        BY <1>2, <1>3, <2>1 DEF Position, Seqs
    <2>3. EventInv' /\ BatchInv'
        BY <1>1, <2>1, <2>2 DEF EventInv, BatchInv, DeliveryInv, IsTxEvent
    <2>4. AckedInv'
        BY <1>1, <1>3, <2>1 DEF AckedInv
    <2> QED
        BY <1>3, <2>1, <2>3, <2>4 DEF DeliveryInv
<1>6. CASE SaveRetry
    <2>1. /\ pc = "saveRetry" /\ StoreRetry
          /\ pc' = "idle" /\ event' = 0 /\ batch' = {}
        BY <1>6 DEF SaveRetry
    <2>2. EventInv' /\ BatchInv'
        BY <2>1 DEF EventInv, BatchInv
    <2>3. AckedInv'
        BY <1>1, <1>4, <2>1 DEF AckedInv
    <2> QED
        BY <1>4, <2>1, <2>2, <2>3 DEF DeliveryInv
<1>7. CASE SaveFails
    <2>1. /\ UNCHANGED <<lastSent, lock, batch, event, accepted>>
          /\ pc' \in {pc, "panicked"}
        BY <1>7 DEF SaveFails, RetryOrPanic
    <2>2. CursorInv' /\ NothingSkipped' /\ PostsInv'
        BY <1>1, <2>1 DEF DeliveryInv, CursorInv, NothingSkipped, PostsInv, Front, Passed,
           IsTxEvent
    <2>3. EventInv' /\ BatchInv'
        BY <1>1, <1>2, <2>1 DEF DeliveryInv, EventInv, BatchInv, Front, Position, IsTxEvent
    <2>4. AckedInv'
        BY <1>1, <2>1 DEF DeliveryInv, AckedInv
    <2> QED
        BY <2>2, <2>3, <2>4 DEF DeliveryInv
<1>8. CASE SaveLost
    <2>1. /\ UNCHANGED <<batch, event, accepted>>
          /\ pc' \in {pc, "panicked"}
          /\ (pc = "saveSent" /\ StoreSent) \/ (pc = "saveRetry" /\ StoreRetry)
        BY <1>8 DEF SaveLost, RetryOrPanic
    <2>2. /\ CursorInv' /\ NothingSkipped' /\ PostsInv'
          /\ \A s \in acked : s \in received /\ s <= lastSent'
          /\ \A s \in Seqs : Front(s) => Front(s)'
          /\ lastSent' \in {lastSent, event} /\ lock' = 0
          /\ pc = "saveSent" => lastSent' = event
        BY <1>3, <1>4, <2>1
    <2>3. Position' = Position
        BY <1>2, <2>1 DEF Position, Seqs
    <2>4. Front(event)'
        BY <1>2, <2>1, <2>2
    <2>5. EventInv'
        BY <1>1, <1>2, <2>1, <2>2, <2>4 DEF DeliveryInv, EventInv, Seqs
    <2>6. BatchInv'
        BY <1>1, <1>2, <2>1, <2>3 DEF DeliveryInv, BatchInv, IsTxEvent, Seqs
    <2>7. AckedInv'
        BY <1>1, <2>2 DEF AckedInv
    <2> QED
        BY <2>2, <2>5, <2>6, <2>7 DEF DeliveryInv
<1> QED
    BY <1>5, <1>6, <1>7, <1>8

\* The end of the process, and the operator's repair.
LEMMA DownDelivery ==
    ASSUME TypeOK, StoreInv, InHand, DeliveryInv, Crash \/ Exit \/ OperatorResolves
    PROVE  DeliveryInv'
<1> USE DEF cursor, history, loop, retry, timing, storeVars
<1>1. UNCHANGED <<about, stored, muted, received, acked, gaveUp, posts>>
    BY DEF Crash, Exit, Down, OperatorResolves
<1>2. CASE Crash \/ Exit
    <2>1. /\ UNCHANGED <<lastSent, lock>>
          /\ pc' = "down" /\ event' = 0 /\ batch' = {}
        BY <1>2 DEF Crash, Exit, Down
    <2>2. CursorInv' /\ NothingSkipped' /\ PostsInv'
        BY <1>1, <2>1 DEF DeliveryInv, CursorInv, NothingSkipped, PostsInv, Front, Passed,
           IsTxEvent
    <2>3. EventInv' /\ BatchInv'
        BY <2>1 DEF EventInv, BatchInv
    <2>4. AckedInv'
        BY <1>1, <2>1 DEF DeliveryInv, AckedInv
    <2> QED
        BY <2>2, <2>3, <2>4 DEF DeliveryInv
<1>3. CASE OperatorResolves
    <2>1. /\ pc = "down" /\ lock # 0 /\ lock' = 0
          /\ lastSent' = IF lock \in received THEN lock ELSE lastSent
          /\ UNCHANGED <<pc, batch, event, accepted>>
        BY <1>3 DEF OperatorResolves
    <2>2. event = 0 /\ batch = {}
        BY <2>1 DEF DeliveryInv, EventInv, BatchInv
    <2>3. lock \in Seqs /\ Front(lock) /\ lastSent < lock
        BY <2>1 DEF DeliveryInv, CursorInv, TypeOK, Seqs
    <2>4. lastSent' \in 0 .. MaxSeq /\ lastSent <= lastSent'
        BY <2>1, <2>3 DEF TypeOK, Seqs
    <2>5. \A s \in Seqs : Front(s) => Front(s)'
        BY <1>1, <2>4, NothingAppended, FrontKept DEF TypeOK, StoreTypeOK
    <2>6. CursorInv' /\ PostsInv'
        BY <1>1, <2>1, <2>3, <2>5 DEF DeliveryInv, CursorInv, PostsInv, Front, IsTxEvent
    <2>7. EventInv' /\ BatchInv'
        BY <2>1, <2>2 DEF EventInv, BatchInv
    <2>8. NothingSkipped'
        <3>1. CASE lock \notin received
            BY <1>1, <2>1, <3>1 DEF DeliveryInv, NothingSkipped, Passed, IsTxEvent
        <3>2. CASE lock \in received
            <4> SUFFICES ASSUME NEW s \in stored, IsTxEvent(s), s <= lock
                         PROVE  s \in received \cup gaveUp \/ about[s] \in muted
                BY <1>1, <2>1, <3>2 DEF NothingSkipped, Passed, IsTxEvent
            <4>1. s \in Seqs /\ lastSent \in 0 .. MaxSeq
                BY DEF TypeOK, StoreTypeOK
            <4>2. CASE s <= lastSent
                BY <4>2 DEF DeliveryInv, NothingSkipped, Passed
            <4>3. CASE lastSent < s /\ s < lock
                BY <2>3, <4>3 DEF Front
            <4> QED
                BY <2>3, <3>2, <4>1, <4>2, <4>3 DEF Seqs
        <3> QED
            BY <3>1, <3>2
    <2>9. AckedInv'
        BY <1>1, <2>1, <2>2, <2>3, <2>4 DEF DeliveryInv, AckedInv, TypeOK, Seqs
    <2> QED
        BY <2>6, <2>7, <2>8, <2>9 DEF DeliveryInv
<1> QED
    BY <1>2, <1>3

\* The invariant behind the three delivery properties holds in every state.
THEOREM SendInvHolds == Spec => []SendInv
<1>1. Init => SendInv
    BY InitType, InitDelivery DEF SendInv, DeliveryInv
<1>2. SendInv /\ [Next]_vars => SendInv'
    <2> SUFFICES ASSUME SendInv, [Next]_vars PROVE SendInv'
        OBVIOUS
    <2>1. TypeOK /\ StoreInv /\ InHand /\ DeliveryInv
        BY DEF SendInv, DeliveryInv
    <2>2. TypeOK' /\ StoreInv' /\ InHand'
        BY <2>1, StepType
    <2>3. DeliveryInv'
        BY <2>1, WriterDelivery, MuteDelivery, TimingDelivery, ReadDelivery, TakeDelivery,
           PostDelivery, SaveDelivery, DownDelivery DEF Next, SenderStep, OwnStep, PostReturns
    <2> QED
        BY <2>2, <2>3 DEF SendInv, DeliveryInv
<1> QED
    BY <1>1, <1>2, PTL DEF Spec

\* No event about a transaction is ever skipped by the HTTP callback: not when
\* rows become visible out of order, not by a retry, a mute, a failed or lost
\* save, or a crash at any point.
THEOREM NothingIsSkipped == Spec => []NothingSkipped
<1>1. SendInv => NothingSkipped
    BY DEF SendInv
<1> QED
    BY <1>1, SendInvHolds, PTL

\* The client sees events in order.
THEOREM EventsSentInOrder == Spec => SentInOrder
<1>1. SendInv /\ [Next]_vars => [Post => \A s \in Seqs : s > event => posts[s] = 0]_vars
    <2> SUFFICES ASSUME SendInv, Post, NEW s \in Seqs, s > event
                 PROVE  posts[s] = 0
        OBVIOUS
    <2>1. /\ event \in Seqs /\ event \in stored /\ IsTxEvent(event)
          /\ about[event] \notin muted /\ lastSent < event
        BY DEF SendInv, InHand, EventInv, CursorInv, Front, Post, TypeOK, Seqs
    <2>2. ~Front(s)
        BY <2>1 DEF Front, Seqs
    <2> QED
        BY <2>2 DEF SendInv, PostsInv, TypeOK
<1> QED
    BY <1>1, SendInvHolds, PTL DEF Spec, SentInOrder

\* An acknowledged event is never sent again.
THEOREM AcknowledgedStaySent == Spec => AcknowledgedNeverResent
<1>1. SendInv /\ [Next]_vars => [Post => event \notin acked]_vars
    <2> SUFFICES ASSUME SendInv, Post PROVE event \notin acked
        OBVIOUS
    <2>1. event \in Seqs /\ lastSent < event /\ pc = "post"
        BY DEF SendInv, InHand, EventInv, CursorInv, Post, TypeOK, Seqs
    <2> QED
        BY <2>1 DEF SendInv, AckedInv, TypeOK, Seqs
<1> QED
    BY <1>1, SendInvHolds, PTL DEF Spec, AcknowledgedNeverResent

-----------------------------------------------------------------------------
(***************************************************************************)
(* Retries.  A retry is due exactly while httpCallbackIsRetrying holds     *)
(* back the other triggers; it is set when the loop ends and cleared when  *)
(* the next run of the sender begins.                                      *)
(***************************************************************************)

NoRetryQueued(q) == \A i \in 1 .. Len(q) : ~q[i]
OneRetryQueued(q) == \E i \in 1 .. Len(q) : q[i] /\ \A j \in 1 .. Len(q) : q[j] => j = i

\* Exactly one retry is on its way, or none.
OneOnItsWay ==
    \/ retryTimers = 1 /\ NoRetryQueued(triggers)
    \/ retryTimers = 0 /\ OneRetryQueued(triggers)
NoneOnItsWay == retryTimers = 0 /\ NoRetryQueued(triggers)

RetryInv ==
    /\ isRetrying => pc = "idle"
    /\ isRetrying => OneOnItsWay
    /\ ~isRetrying => NoneOnItsWay

\* The channel after a send: an ordinary trigger brings no retry with it.
LEMMA QueueAfterSend ==
    ASSUME NEW q \in Seq(BOOLEAN)
    PROVE  /\ NoRetryQueued(q) => NoRetryQueued(Append(q, FALSE))
           /\ OneRetryQueued(q) => OneRetryQueued(Append(q, FALSE))
           /\ NoRetryQueued(q) => OneRetryQueued(Append(q, TRUE))
<1>1. Len(q) \in Nat
    OBVIOUS
<1>2. ASSUME NEW b \in BOOLEAN
      PROVE  /\ Len(Append(q, b)) = Len(q) + 1
             /\ \A i \in 1 .. Len(q) : Append(q, b)[i] = q[i]
             /\ Append(q, b)[Len(q) + 1] = b
    OBVIOUS
<1>3. \A i \in 1 .. Len(q) + 1 : i \in 1 .. Len(q) \/ i = Len(q) + 1
    BY <1>1
<1>4. /\ 1 .. Len(q) \subseteq 1 .. Len(q) + 1
      /\ Len(q) + 1 \in 1 .. Len(q) + 1 /\ Len(q) + 1 \notin 1 .. Len(q)
    BY <1>1
<1>. DEFINE f == Append(q, FALSE)
            t == Append(q, TRUE)
            n == Len(q)
<1>5. Len(f) = n + 1 /\ (\A i \in 1 .. n : f[i] = q[i]) /\ ~f[n + 1]
    BY <1>2
<1>6. Len(t) = n + 1 /\ (\A i \in 1 .. n : t[i] = q[i]) /\ t[n + 1]
    BY <1>2
<1>. HIDE DEF f, t
<1>7. NoRetryQueued(q) => NoRetryQueued(f)
    BY <1>3, <1>5 DEF NoRetryQueued
<1>8. OneRetryQueued(q) => OneRetryQueued(f)
    <2>. SUFFICES ASSUME OneRetryQueued(q) PROVE OneRetryQueued(f)
        OBVIOUS
    <2>1. PICK i \in 1 .. n : q[i] /\ \A j \in 1 .. n : q[j] => j = i
        BY DEF OneRetryQueued
    <2>2. i \in 1 .. Len(f) /\ f[i]
        BY <1>4, <1>5, <2>1
    <2>3. \A j \in 1 .. Len(f) : f[j] => j = i
        BY <1>3, <1>5, <2>1
    <2>. QED
        BY <2>2, <2>3 DEF OneRetryQueued
<1>9. NoRetryQueued(q) => OneRetryQueued(t)
    <2>. SUFFICES ASSUME NoRetryQueued(q) PROVE OneRetryQueued(t)
        OBVIOUS
    <2>1. n + 1 \in 1 .. Len(t) /\ t[n + 1]
        BY <1>4, <1>6
    <2>2. \A j \in 1 .. Len(t) : t[j] => j = n + 1
        BY <1>3, <1>6 DEF NoRetryQueued
    <2>. QED
        BY <2>1, <2>2 DEF OneRetryQueued
<1>. QED
    BY <1>7, <1>8, <1>9 DEF f, t

\* What is received first from a channel that is not empty.
LEMMA HeadOfQueue ==
    ASSUME NEW q \in Seq(BOOLEAN), q # << >>
    PROVE  Head(q) = q[1] /\ 1 \in 1 .. Len(q)
<1>1. Len(q) \in Nat /\ Len(q) >= 1 /\ Head(q) = q[1]
    OBVIOUS
<1>. QED
    BY <1>1

\* The channel after a receive: the retry is gone exactly if it was received.
LEMMA QueueAfterReceive ==
    ASSUME NEW q \in Seq(BOOLEAN), q # << >>
    PROVE  /\ NoRetryQueued(q) => NoRetryQueued(Tail(q))
           /\ OneRetryQueued(q) /\ ~Head(q) => OneRetryQueued(Tail(q))
           /\ OneRetryQueued(q) /\ Head(q) => NoRetryQueued(Tail(q))
<1>. DEFINE t == Tail(q)
            n == Len(q)
<1>1. n \in Nat /\ n >= 1 /\ Len(t) = n - 1 /\ Head(q) = q[1]
    OBVIOUS
<1>2. \A i \in 1 .. Len(t) : t[i] = q[i + 1]
    OBVIOUS
<1>. HIDE DEF t, n
<1>3. \A i \in 1 .. Len(t) : i + 1 \in 1 .. n /\ i + 1 # 1
    BY <1>1
<1>4. \A i \in 1 .. n : i # 1 => i - 1 \in 1 .. Len(t) /\ (i - 1) + 1 = i
    BY <1>1
<1>5. 1 \in 1 .. n
    BY <1>1
<1>6. NoRetryQueued(q) => NoRetryQueued(t)
    BY <1>2, <1>3 DEF NoRetryQueued, n
<1>7. OneRetryQueued(q) /\ Head(q) => NoRetryQueued(t)
    BY <1>1, <1>2, <1>3, <1>5 DEF NoRetryQueued, OneRetryQueued, n
<1>8. OneRetryQueued(q) /\ ~Head(q) => OneRetryQueued(t)
    <2>. SUFFICES ASSUME OneRetryQueued(q), ~Head(q) PROVE OneRetryQueued(t)
        OBVIOUS
    <2>1. PICK i \in 1 .. n : q[i] /\ \A j \in 1 .. n : q[j] => j = i
        BY DEF OneRetryQueued, n
    <2>2. i # 1
        BY <1>1, <2>1
    <2>3. i - 1 \in 1 .. Len(t) /\ t[i - 1]
        BY <1>2, <1>4, <2>1, <2>2
    <2>4. \A j \in 1 .. Len(t) : t[j] => j = i - 1
        <3>. SUFFICES ASSUME NEW j \in 1 .. Len(t), t[j] PROVE j = i - 1
            OBVIOUS
        <3>1. q[j + 1] /\ j + 1 \in 1 .. n
            BY <1>2, <1>3
        <3>2. j + 1 = i
            BY <2>1, <3>1
        <3>3. i \in Int
            BY ONLY <1>1, i \in 1 .. n
        <3>4. j \in Int
            BY ONLY <1>1, j \in 1 .. Len(t)
        <3>. QED
            BY ONLY <3>2, <3>3, <3>4
    <2>. QED
        BY <2>3, <2>4 DEF OneRetryQueued
<1>. QED
    BY <1>6, <1>7, <1>8 DEF t

\* The number of retries on their way is what the two formulas say.
LEMMA RetriesCounted ==
    ASSUME TypeOK
    PROVE  /\ NoneOnItsWay => RetriesDue = 0
           /\ OneOnItsWay => RetriesDue = 1
<1>. DEFINE Q == {i \in DOMAIN triggers : triggers[i]}
<1>1. DOMAIN triggers = 1 .. Len(triggers)
    BY DEF TypeOK
<1>2. NoRetryQueued(triggers) => Q = {}
    BY <1>1 DEF NoRetryQueued
<1>3. OneRetryQueued(triggers) => \E i : Q = {i}
    BY <1>1 DEF OneRetryQueued
<1>4. NoRetryQueued(triggers) => Cardinality(Q) = 0
    BY <1>2, FS_EmptySet
<1>5. OneRetryQueued(triggers) => Cardinality(Q) = 1
    <2>. HIDE DEF Q
    <2>. QED
        BY <1>3, FS_Singleton
<1>. HIDE DEF Q
<1>6. RetriesDue = retryTimers + Cardinality(Q)
    BY DEF RetriesDue, Q
<1>. QED
    BY <1>4, <1>5, <1>6 DEF NoneOnItsWay, OneOnItsWay

\* Every step keeps exactly one retry on its way while the sender is retrying.
LEMMA StepRetry ==
    ASSUME TypeOK, RetryInv, [Next]_vars
    PROVE  RetryInv'
<1> USE DEF cursor, history, loop, retry, timing
<1>1. triggers \in Seq(BOOLEAN) /\ isRetrying \in BOOLEAN
    BY DEF TypeOK
<1>2. ASSUME UNCHANGED <<isRetrying, triggers, retryTimers>>, pc = "idle" => pc' = "idle"
      PROVE  RetryInv'
    BY <1>2 DEF RetryInv, OneOnItsWay, NoneOnItsWay
<1>3. ASSUME triggerHTTPNotificationSending, UNCHANGED <<isRetrying, retryTimers, pc>>
      PROVE  RetryInv'
    <2>1. CASE triggers' = triggers
        BY <1>2, <1>3, <2>1
    <2>2. CASE triggers' = Append(triggers, FALSE)
        BY <1>1, <1>3, <2>2, QueueAfterSend DEF RetryInv, OneOnItsWay, NoneOnItsWay
    <2> QED
        BY <1>3, <2>1, <2>2 DEF triggerHTTPNotificationSending
<1>4. CASE SendNotifications \/ EarlyTimerFires
    BY <1>3, <1>4 DEF SendNotifications, EarlyTimerFires
<1>5. CASE RetryTimerFires
    <2>1. /\ retryTimers > 0 /\ retryTimers' = retryTimers - 1
          /\ triggers' = Append(triggers, TRUE) /\ UNCHANGED <<isRetrying, pc>>
        BY <1>5 DEF RetryTimerFires
    <2>2. isRetrying /\ retryTimers = 1 /\ NoRetryQueued(triggers)
        BY <2>1 DEF RetryInv, OneOnItsWay, NoneOnItsWay
    <2>3. retryTimers' = 0
        BY <2>1, <2>2
    <2>4. OneRetryQueued(triggers')
        BY <1>1, <2>1, <2>2, QueueAfterSend
    <2> QED
        BY <2>1, <2>2, <2>3, <2>4 DEF RetryInv, OneOnItsWay
<1>6. CASE TriggerIgnored
    <2>1. /\ triggers # << >> /\ isRetrying /\ ~Head(triggers)
          /\ triggers' = Tail(triggers) /\ UNCHANGED <<isRetrying, pc, retryTimers>>
        BY <1>6 DEF TriggerIgnored, Postponed
    <2>2. OneOnItsWay'
        BY <1>1, <2>1, QueueAfterReceive DEF RetryInv, OneOnItsWay
    <2> QED
        BY <2>1, <2>2 DEF RetryInv
<1>7. CASE TriggerTaken
    <2>1. /\ triggers # << >> /\ (isRetrying => Head(triggers))
          /\ triggers' = Tail(triggers) /\ UNCHANGED retryTimers /\ isRetrying' = FALSE
        BY <1>7 DEF TriggerTaken, Postponed
    <2>2. Head(triggers) = triggers[1] /\ 1 \in 1 .. Len(triggers)
        BY <1>1, <2>1, HeadOfQueue
    <2>3. isRetrying => retryTimers = 0 /\ OneRetryQueued(triggers)
        BY <2>1, <2>2 DEF RetryInv, OneOnItsWay, NoRetryQueued
    <2>4. NoneOnItsWay'
        BY <1>1, <2>1, <2>3, QueueAfterReceive DEF RetryInv, NoneOnItsWay
    <2> QED
        BY <2>1, <2>4 DEF RetryInv
<1>8. CASE SaveRetry
    <2>1. /\ pc = "saveRetry" /\ pc' = "idle" /\ isRetrying' = TRUE
          /\ retryTimers' = retryTimers + 1 /\ triggers' = triggers
        BY <1>8 DEF SaveRetry
    <2>2. NoneOnItsWay
        BY <2>1 DEF RetryInv
    <2>3. OneOnItsWay'
        BY <2>1, <2>2 DEF NoneOnItsWay, OneOnItsWay
    <2> QED
        BY <2>1, <2>3 DEF RetryInv
<1>9. CASE Crash \/ Exit
    <2>1. isRetrying' = FALSE /\ retryTimers' = 0 /\ triggers' = << >>
        BY <1>9 DEF Crash, Exit, Down
    <2>2. NoneOnItsWay'
        BY <2>1 DEF NoneOnItsWay, NoRetryQueued
    <2> QED
        BY <2>1, <2>2 DEF RetryInv
<1>10. CASE Writer \/ Mute \/ MuteCurrent \/ OperatorResolves \/ UNCHANGED vars
    BY <1>2, <1>10 DEF Writer, Mute, MuteCurrent, MuteEventsWithTxID, OperatorResolves, vars
<1>11. CASE Start \/ ReadEvents \/ ReadFails \/ LoopEnds \/ SkipNewAddress
            \/ LockHTTPCallback \/ LockLost \/ Post \/ PostSucceeds \/ PostFails \/ SaveSent
    BY <1>2, <1>11 DEF Start, ReadEvents, ReadFails, EarlyError, LoopEnds, SkipNewAddress,
       LockHTTPCallback, LockLost, Post, PostSucceeds, PostFails, SaveSent
<1>12. CASE SaveFails \/ SaveLost
    BY <1>2, <1>12 DEF SaveFails, SaveLost, RetryOrPanic
<1> QED
    BY <1>4, <1>5, <1>6, <1>7, <1>8, <1>9, <1>10, <1>11, <1>12 DEF Next, SenderStep, OwnStep, PostReturns

\* At the start no retry is due.
LEMMA InitRetry == Init => RetryInv
<1> SUFFICES ASSUME Init PROVE RetryInv
    OBVIOUS
<1>1. isRetrying = FALSE /\ retryTimers = 0 /\ triggers = << >>
    BY DEF Init
<1>2. NoneOnItsWay
    BY <1>1 DEF NoneOnItsWay, NoRetryQueued
<1> QED
    BY <1>1, <1>2 DEF RetryInv

\* Retries are neither lost nor pile up: while httpCallbackIsRetrying holds back
\* the other triggers, exactly one retry is in a timer or in the channel, and
\* otherwise none, whatever the capacity of the channel and whatever fails.
THEOREM RetriesNeitherLostNorDoubled == Spec => []OneRetryDue
<1>1. Init => TypeOK /\ StoreInv /\ InHand /\ RetryInv
    BY InitType, InitRetry
<1>2. TypeOK /\ StoreInv /\ InHand /\ RetryInv /\ [Next]_vars
        => (TypeOK /\ StoreInv /\ InHand /\ RetryInv)'
    BY StepType, StepRetry
<1>3. TypeOK /\ RetryInv => OneRetryDue
    BY RetriesCounted DEF RetryInv, OneRetryDue
<1> QED
    BY <1>1, <1>2, <1>3, PTL DEF Spec

-----------------------------------------------------------------------------
(***************************************************************************)
(* Attempts.  httpCallbackRetries is a counter of the sender and not of an *)
(* event; it counts the POSTs of the event that is next in turn because    *)
(* nothing but a mute can put another event in its place, and a mute that  *)
(* leaves the counter to the next event is on record.                      *)
(***************************************************************************)

\* The event the next POST is of: next in turn, not muted, not passed.
Due(s) == Front(s) /\ lastSent < s /\ about[s] \notin muted

\* Some event was sent as often as the counter says, and the sender has still
\* to send it: in the loop it is part of the query result.
Counted ==
    \E s \in stored : Due(s) /\ posts[s] >= retries /\ (pc = "loop" => s \in batch)

\* The counter may go on from the POSTs of an event muted without a reset.
CarriedOver == \E t \in Seqs : about[t] \in carried /\ posts[t] > 0

AttemptsInv ==
    /\ carried \subseteq muted
    /\ Backoff = 0 => retries = 0
    /\ pc = "down" => retries = 0
    /\ pc \in {"posted", "saveRetry"} => lastSent < event
    /\ pc \in {"idle", "read", "loop", "post", "saveRetry"} /\ retries > 0
          => Counted \/ CarriedOver
    /\ pc = "posted"
          => posts[event] > retries \/ posts[event] >= Backoff \/ CarriedOver

\* There is at most one event to be sent next.
LEMMA OneDue ==
    ASSUME SendInv, NEW s \in stored, NEW t \in stored, Due(s), Due(t)
    PROVE  s = t
<1>1. s \in Int /\ t \in Int
    BY DEF SendInv, TypeOK, StoreTypeOK, Seqs
<1>2. ~(s < t) /\ ~(t < s)
    BY DEF Due, Front
<1> QED
    BY <1>1, <1>2

\* The event in hand is the one to be sent next, until the cursor passes it.
LEMMA HandIsDue ==
    ASSUME SendInv, event # 0, lastSent < event
    PROVE  event \in stored /\ Due(event)
BY DEF SendInv, EventInv, Due, Front

\* A muted event that was sent comes before the event to be sent next.
LEMMA CarriedIsEarlier ==
    ASSUME SendInv, carried \subseteq muted, NEW s \in stored, Due(s), CarriedOver
    PROVE  \E t \in Seqs : t < s /\ about[t] \in carried /\ posts[t] > 0
<1>1. PICK t \in Seqs : about[t] \in carried /\ posts[t] > 0
    BY DEF CarriedOver
<1>2. Front(t) /\ about[t] \in muted
    BY <1>1 DEF SendInv, PostsInv
<1>3. s \in Int /\ t \in Int
    BY DEF SendInv, TypeOK, StoreTypeOK, Seqs
<1>4. s # t /\ ~(s < t)
    BY <1>2 DEF Due, Front
<1> QED
    BY <1>1, <1>3, <1>4

\* The histories only grow, and an event that was sent is in the table, where
\* it stays what it is about.
LEMMA HistoryKept ==
    ASSUME SendInv, carried \subseteq carried',
           \A s \in stored : about'[s] = about[s],
           \A s \in Seqs : posts'[s] \in Nat /\ posts'[s] >= posts[s]
    PROVE  /\ CarriedOver => CarriedOver'
           /\ GivenUpAfterBackoff /\ gaveUp' = gaveUp => GivenUpAfterBackoff'
<1>1. posts \in [Seqs -> Nat] /\ gaveUp \subseteq Seqs /\ Backoff \in Nat
    BY CallbackAssumption DEF SendInv, TypeOK
<1>2. \A t \in Seqs : posts[t] > 0 => posts'[t] > 0 /\ about'[t] = about[t]
    BY <1>1 DEF SendInv, PostsInv, Front
<1>3. CarriedOver => CarriedOver'
    BY <1>2 DEF CarriedOver
<1>4. ASSUME GivenUpAfterBackoff, gaveUp' = gaveUp PROVE GivenUpAfterBackoff'
    <2> SUFFICES ASSUME NEW s \in gaveUp
                 PROVE  \/ posts'[s] >= Backoff
                        \/ \E t \in Seqs : t < s /\ about'[t] \in carried' /\ posts'[t] > 0
        BY <1>4 DEF GivenUpAfterBackoff
    <2>1. CASE posts[s] >= Backoff
        <3>1. posts[s] \in Nat /\ posts'[s] \in Nat /\ posts'[s] >= posts[s]
            BY <1>1
        <3> QED
            BY <1>1, <2>1, <3>1
    <2>2. CASE \E t \in Seqs : t < s /\ about[t] \in carried /\ posts[t] > 0
        BY <1>2, <2>2
    <2> QED
        BY <1>4, <2>1, <2>2 DEF GivenUpAfterBackoff
<1> QED
    BY <1>3, <1>4

\* Steps that leave the histories and the table alone are of that kind.
LEMMA HistorySame ==
    ASSUME SendInv, UNCHANGED <<posts, carried>>, \A s \in stored : about'[s] = about[s]
    PROVE  /\ CarriedOver => CarriedOver'
           /\ GivenUpAfterBackoff /\ gaveUp' = gaveUp => GivenUpAfterBackoff'
<1>1. \A s \in Seqs : posts'[s] \in Nat /\ posts'[s] >= posts[s]
    BY DEF SendInv, TypeOK
<1> QED
    BY <1>1, HistoryKept

\* A step that leaves the tables, the cursor and the counters alone keeps what
\* is counted, if the sender does not enter the loop.
LEMMA CountedKept ==
    ASSUME Counted, UNCHANGED <<stored, about, muted, lastSent, posts, retries>>,
           pc' = "loop" => pc = "loop" /\ batch' = batch
    PROVE  Counted'
BY DEF Counted, Due, Front, IsTxEvent

\* Attempts: steps of the writers.
LEMMA WriterAttempts ==
    ASSUME SendInv, AttemptsInv, GivenUpAfterBackoff, Writer
    PROVE  AttemptsInv' /\ GivenUpAfterBackoff'
<1> USE DEF cursor, history, loop, retry, timing
<1>1. StoreInv' /\ RowsOnlyAppended /\ UNCHANGED <<up, muted>>
    BY WriterInv DEF Writer, SendInv
<1>2. UNCHANGED <<lastSent, posts, pc, batch, event, retries, carried, gaveUp>>
    BY DEF Writer
<1>3. ASSUME Counted PROVE Counted'
    <2>1. PICK s \in stored : /\ Due(s) /\ posts[s] >= retries
                              /\ pc = "loop" => s \in batch
        BY <1>3 DEF Counted
    <2>2. s \in Seqs /\ TypeOK /\ stored' \subseteq Seqs /\ lastSent <= lastSent'
          /\ lastSent' \in 0 .. MaxSeq
        BY <1>1, <1>2, StoreAssumption DEF SendInv, TypeOK, StoreInv, StoreTypeOK
    <2>3. Front(s)'
        BY <1>1, <2>1, <2>2, FrontKept DEF Due
    <2>4. s \in stored' /\ Due(s)'
        BY <1>1, <1>2, <2>1, <2>3 DEF Due, RowsOnlyAppended
    <2> QED
        BY <1>2, <2>1, <2>4 DEF Counted
<1>4. (CarriedOver => CarriedOver') /\ GivenUpAfterBackoff'
    BY <1>1, <1>2, HistorySame DEF RowsOnlyAppended
<1> QED
    BY <1>1, <1>2, <1>3, <1>4 DEF AttemptsInv

\* Attempts: a mute takes the place of the event next in turn away from it; the
\* counter starts anew, or the mute is on record.
LEMMA MuteAttempts ==
    ASSUME SendInv, AttemptsInv, GivenUpAfterBackoff, Mute \/ MuteCurrent
    PROVE  AttemptsInv' /\ GivenUpAfterBackoff'
<1>1. PICK tx \in TxIds : MuteEventsWithTxID(tx)
    BY DEF Mute, MuteCurrent, IsTxEvent
<1>2. /\ pc = "idle" /\ pc' = "idle" /\ retries \in Nat
      /\ UNCHANGED <<stored, about, lastSent, posts, gaveUp>>
      /\ muted' = muted \cup {tx}
    BY <1>1 DEF Mute, MuteCurrent, MuteEventsWithTxID, loop, cursor, SendInv, TypeOK
<1>3. \/ retries' = 0 /\ carried' = carried
      \/ retries' = retries /\ carried' = IF retries > 0 THEN carried \cup {tx} ELSE carried
    BY <1>1 DEF MuteEventsWithTxID, ResetRetryState, Carry
<1>4. carried \subseteq carried' /\ carried' \subseteq muted'
    BY <1>2, <1>3 DEF AttemptsInv
<1>5. (CarriedOver => CarriedOver') /\ GivenUpAfterBackoff'
    <2>1. \A s \in Seqs : posts'[s] \in Nat /\ posts'[s] >= posts[s]
        BY <1>2 DEF SendInv, TypeOK
    <2> QED
        BY <1>2, <1>4, <2>1, HistoryKept
<1>6. ASSUME retries' > 0 PROVE Counted' \/ CarriedOver'
    <2>1. retries' = retries /\ tx \in carried' /\ retries > 0
        BY <1>2, <1>3, <1>6
    <2>2. CASE CarriedOver
        BY <1>5, <2>2
    <2>3. ASSUME NEW s \in stored, Due(s), posts[s] >= retries
          PROVE  Counted' \/ CarriedOver'
        <3>1. s \in Seqs /\ posts[s] \in Nat
            BY DEF SendInv, TypeOK, StoreTypeOK
        <3>2. CASE about[s] = tx
            BY <1>2, <2>1, <2>3, <3>1, <3>2 DEF CarriedOver
        <3>3. CASE about[s] # tx
            <4>1. Due(s)' /\ s \in stored'
                BY <1>2, <2>3, <3>3 DEF Due, Front, IsTxEvent
            <4> QED
                BY <1>2, <2>1, <2>3, <4>1 DEF Counted
        <3> QED
            BY <3>2, <3>3
    <2> QED
        BY <1>2, <2>1, <2>2, <2>3 DEF AttemptsInv, Counted
<1>7. Backoff = 0 => retries' = 0
    BY <1>3 DEF AttemptsInv
<1> QED
    BY <1>2, <1>4, <1>5, <1>6, <1>7 DEF AttemptsInv

\* Attempts: triggers, timers, the start of a run of the sender, its end in an
\* early error, and steps of the process.
LEMMA TimingAttempts ==
    ASSUME SendInv, AttemptsInv, GivenUpAfterBackoff,
           \/ SendNotifications \/ EarlyTimerFires \/ RetryTimerFires \/ TriggerIgnored
           \/ TriggerTaken \/ ReadFails \/ LockLost
           \/ Start \/ Crash \/ Exit \/ OperatorResolves \/ UNCHANGED vars
    PROVE  AttemptsInv' /\ GivenUpAfterBackoff'
<1> USE DEF cursor, history, loop, retry, timing, storeVars
<1>1. UNCHANGED <<stored, about, muted, posts, carried, gaveUp>>
    BY DEF SendNotifications, EarlyTimerFires, RetryTimerFires, TriggerIgnored, TriggerTaken,
           ReadFails, LockLost, EarlyError, Start, Crash, Exit, Down, OperatorResolves, vars
<1>2. (CarriedOver => CarriedOver') /\ GivenUpAfterBackoff'
    BY <1>1, HistorySame
<1>3. CASE SendNotifications \/ EarlyTimerFires \/ RetryTimerFires \/ TriggerIgnored
           \/ UNCHANGED vars
    <2>1. UNCHANGED <<lastSent, pc, batch, event, retries>>
        BY <1>3 DEF SendNotifications, EarlyTimerFires, RetryTimerFires, TriggerIgnored, vars
    <2> QED
        BY <1>1, <1>2, <2>1, CountedKept DEF AttemptsInv
<1>4. CASE TriggerTaken \/ ReadFails \/ LockLost
    <2>1. /\ pc \in {"idle", "read", "loop"} /\ pc' \in {"idle", "read"}
          /\ UNCHANGED <<lastSent, event, retries>>
        BY <1>4 DEF TriggerTaken, ReadFails, LockLost, EarlyError
    <2> QED
        BY <1>1, <1>2, <2>1, CountedKept DEF AttemptsInv
<1>5. CASE Start \/ Crash \/ Exit \/ OperatorResolves
    <2>1. retries' = 0 /\ pc' \in {"down", "read"}
        BY <1>5 DEF AttemptsInv, Start, Crash, Exit, Down, OperatorResolves
    <2> QED
        BY <1>1, <1>2, <2>1 DEF AttemptsInv
<1> QED
    BY <1>3, <1>4, <1>5

\* Attempts: the query and the loop over its result.
LEMMA LoopAttempts ==
    ASSUME SendInv, AttemptsInv, GivenUpAfterBackoff,
           ReadEvents \/ LoopEnds \/ SkipNewAddress \/ LockHTTPCallback
    PROVE  AttemptsInv' /\ GivenUpAfterBackoff'
<1> USE DEF cursor, history, loop, retry, timing, storeVars
<1>1. /\ UNCHANGED <<stored, about, muted, lastSent, posts, retries, carried, gaveUp>>
      /\ pc \in {"read", "loop"} /\ pc' \in {"loop", "idle", "post"}
    BY DEF ReadEvents, LoopEnds, SkipNewAddress, LockHTTPCallback
<1>2. retries \in Nat
    BY DEF SendInv, TypeOK
<1>3. (CarriedOver => CarriedOver') /\ GivenUpAfterBackoff'
    BY <1>1, HistorySame
<1>4. ASSUME retries > 0, ~CarriedOver PROVE pc' # "idle" /\ Counted'
    <2>1. PICK s \in stored : /\ Due(s) /\ posts[s] >= retries
                              /\ pc = "loop" => s \in batch
        BY <1>1, <1>4 DEF AttemptsInv, Counted
    <2>2. Due(s)' /\ s \in stored' /\ posts'[s] >= retries'
        BY <1>1, <2>1 DEF Due, Front, IsTxEvent
    <2>3. ASSUME pc' = "loop" PROVE s \in batch'
        <3>1. CASE ReadEvents
            <4>1. s \in Int /\ lastSent \in Int
                BY DEF SendInv, TypeOK, StoreTypeOK, Seqs
            <4>2. s >= lastSent + 1
                BY <2>1, <4>1 DEF Due
            <4> QED
                BY <2>1, <3>1, <4>2 DEF ReadEvents, GetEventsFromSeq, Due
        <3>2. CASE SkipNewAddress
            BY <2>1, <3>2 DEF SkipNewAddress, Due, Front
        <3> QED
            BY <2>3, <3>1, <3>2 DEF LoopEnds, LockHTTPCallback
    <2>4. pc' # "idle"
        BY <2>1 DEF ReadEvents, LoopEnds, SkipNewAddress, LockHTTPCallback
    <2> QED
        BY <2>2, <2>3, <2>4 DEF Counted
<1> QED
    BY <1>1, <1>2, <1>3, <1>4 DEF AttemptsInv

\* Attempts: a POST is counted for the event in hand, which is the one whose
\* attempts the counter holds.
LEMMA PostAttempts ==
    ASSUME SendInv, AttemptsInv, GivenUpAfterBackoff, Post
    PROVE  AttemptsInv' /\ GivenUpAfterBackoff'
<1> USE DEF cursor, history, loop, retry, timing, storeVars
<1>1. /\ pc = "post" /\ pc' = "posted"
      /\ UNCHANGED <<stored, about, muted, lastSent, event, retries, carried, gaveUp>>
    BY DEF Post
<1>2. event \in Seqs /\ lastSent < event
    BY <1>1 DEF SendInv, InHand, EventInv, CursorInv, TypeOK, Seqs
<1>3. event # 0 /\ posts \in [Seqs -> Nat] /\ retries \in Nat /\ Backoff \in Nat
    BY <1>2, CallbackAssumption DEF SendInv, TypeOK, Seqs
<1>4. event \in stored /\ Due(event)
    BY <1>2, <1>3, HandIsDue
<1>5. posts[event] >= retries \/ CarriedOver
    <2>1. CASE retries > 0 /\ ~CarriedOver
        <3>1. PICK s \in stored : Due(s) /\ posts[s] >= retries
            BY <1>1, <2>1 DEF AttemptsInv, Counted
        <3>2. s = event
            BY <1>4, <3>1, OneDue
        <3> QED
            BY <3>1, <3>2
    <2> QED
        BY <1>2, <1>3, <2>1
<1>6. posts' = [posts EXCEPT ![event] =
                    IF posts[event] < Backoff \/ posts[event] = 0
                    THEN posts[event] + 1 ELSE posts[event]]
    BY DEF Post
<1>7. posts'[event] = IF posts[event] < Backoff \/ posts[event] = 0
                      THEN posts[event] + 1 ELSE posts[event]
    BY <1>2, <1>3, <1>6
<1>8. \A s \in Seqs : posts'[s] \in Nat /\ posts'[s] >= posts[s]
    <2> SUFFICES ASSUME NEW s \in Seqs PROVE posts'[s] \in Nat /\ posts'[s] >= posts[s]
        OBVIOUS
    <2>1. posts[s] \in Nat
        BY <1>3
    <2>2. CASE s = event
        BY <1>7, <2>1, <2>2
    <2>3. CASE s # event
        BY <1>2, <1>3, <1>6, <2>1, <2>3
    <2> QED
        BY <2>2, <2>3
<1>9. (CarriedOver => CarriedOver') /\ GivenUpAfterBackoff'
    BY <1>1, <1>8, HistoryKept
<1>10. posts'[event] > retries \/ posts'[event] >= Backoff \/ CarriedOver'
    <2>1. posts[event] \in Nat
        BY <1>2, <1>3
    <2> QED
        BY <1>3, <1>5, <1>7, <1>9, <2>1
<1> QED
    BY <1>1, <1>2, <1>9, <1>10 DEF AttemptsInv

\* Attempts: the answer of the endpoint.  The event is given up only when it
\* was sent Backoff times, or after an event muted without a reset.
LEMMA AnswerAttempts ==
    ASSUME SendInv, AttemptsInv, GivenUpAfterBackoff, PostSucceeds \/ PostFails
    PROVE  AttemptsInv' /\ GivenUpAfterBackoff'
<1> USE DEF cursor, history, loop, retry, timing, storeVars
<1>1. /\ pc = "posted"
      /\ UNCHANGED <<stored, about, muted, lastSent, posts, event, carried>>
      /\ retries' = IF Backoff = 0 THEN retries ELSE retries + 1
    BY DEF PostSucceeds, PostFails, CountAttempt
<1>2. event \in Seqs /\ event # 0 /\ lastSent < event
    BY <1>1 DEF SendInv, InHand, TypeOK, Seqs, AttemptsInv
<1>3. posts[event] \in Nat /\ retries \in Nat /\ Backoff \in Nat
    BY <1>2, CallbackAssumption DEF SendInv, TypeOK
<1>4. event \in stored /\ Due(event)
    BY <1>2, HandIsDue
<1>5. posts[event] > retries \/ posts[event] >= Backoff \/ CarriedOver
    BY <1>1 DEF AttemptsInv
<1>6. Backoff = 0 => retries = 0 /\ retries' = 0
    BY <1>1 DEF AttemptsInv
<1>7. /\ CarriedOver => CarriedOver'
      /\ gaveUp' = gaveUp => GivenUpAfterBackoff'
      /\ carried' \subseteq muted'
    BY <1>1, HistorySame DEF AttemptsInv
<1>8. CASE PostSucceeds
    <2>1. pc' = "saveSent" /\ gaveUp' = gaveUp
        BY <1>8 DEF PostSucceeds
    <2> QED
        BY <1>1, <1>6, <1>7, <2>1 DEF AttemptsInv
<1>9. CASE PostFails /\ GivesUp(retries')
    <2>1. pc' = "saveSent" /\ gaveUp' = gaveUp \cup {event}
        BY <1>9 DEF PostFails
    <2>2. posts[event] >= Backoff \/ CarriedOver
        BY <1>1, <1>3, <1>5, <1>9 DEF GivesUp
    <2>3. \/ posts[event] >= Backoff
          \/ \E t \in Seqs : t < event /\ about[t] \in carried /\ posts[t] > 0
        BY <1>4, <2>2, CarriedIsEarlier DEF AttemptsInv
    <2>4. GivenUpAfterBackoff'
        BY <1>1, <2>1, <2>3 DEF GivenUpAfterBackoff
    <2> QED
        BY <1>1, <1>6, <1>7, <2>1, <2>4 DEF AttemptsInv
<1>10. CASE PostFails /\ ~GivesUp(retries')
    <2>1. pc' = "saveRetry" /\ gaveUp' = gaveUp
        BY <1>10 DEF PostFails
    <2>2. posts[event] >= retries' \/ CarriedOver
        BY <1>1, <1>3, <1>5, <1>6, <1>10 DEF GivesUp
    <2>3. Due(event)' /\ event \in stored'
        BY <1>1, <1>4 DEF Due, Front, IsTxEvent
    <2>4. Counted' \/ CarriedOver'
        BY <1>1, <1>7, <2>1, <2>2, <2>3 DEF Counted
    <2> QED
        BY <1>1, <1>2, <1>6, <1>7, <2>1, <2>4 DEF AttemptsInv
<1> QED
    BY <1>8, <1>9, <1>10

\* Attempts: saving the result.
LEMMA SaveAttempts ==
    ASSUME SendInv, AttemptsInv, GivenUpAfterBackoff,
           SaveSent \/ SaveRetry \/ SaveFails \/ SaveLost
    PROVE  AttemptsInv' /\ GivenUpAfterBackoff'
<1> USE DEF cursor, history, loop, retry, timing, storeVars
<1>1. UNCHANGED <<stored, about, muted, posts, carried, gaveUp>>
    BY DEF SaveSent, SaveRetry, SaveFails, SaveLost, RetryOrPanic
<1>2. (CarriedOver => CarriedOver') /\ GivenUpAfterBackoff'
    BY <1>1, HistorySame
<1>3. CASE SaveSent
    BY <1>1, <1>2, <1>3 DEF SaveSent, AttemptsInv
<1>4. CASE SaveRetry
    <2>1. /\ pc = "saveRetry" /\ pc' = "idle"
          /\ UNCHANGED <<lastSent, retries>>
        BY <1>4 DEF SaveRetry, StoreRetry
    <2>2. Counted => Counted'
        BY <1>1, <2>1, CountedKept
    <2> QED
        BY <1>1, <1>2, <2>1, <2>2 DEF AttemptsInv
<1>5. CASE SaveFails \/ SaveLost
    <2>1. /\ pc \in {"saveSent", "saveRetry"} /\ pc' \in {pc, "panicked"}
          /\ UNCHANGED <<event, retries>>
          /\ pc = "saveRetry" => lastSent' = lastSent
        BY <1>5 DEF SaveFails, SaveLost, RetryOrPanic, StoreRetry
    <2>2. pc = "saveRetry" /\ Counted => Counted'
        BY <1>1, <2>1, CountedKept
    <2> QED
        BY <1>1, <1>2, <2>1, <2>2 DEF AttemptsInv
<1> QED
    BY <1>3, <1>4, <1>5

\* An event is given up only after Backoff POSTs of that very event, or when
\* the counter went on from an earlier event whose mute did not reset it: for
\* every backoff, every order of mutes, errors, crashes and retries.
THEOREM GivenUpOnlyAfterBackoff == Spec => []GivenUpAfterBackoff
<1> DEFINE TriesInv == AttemptsInv /\ GivenUpAfterBackoff
<1>1. Init => TriesInv
    BY DEF Init, AttemptsInv, GivenUpAfterBackoff
<1>2. SendInv /\ TriesInv /\ [Next]_vars => TriesInv'
    <2> SUFFICES ASSUME SendInv, AttemptsInv, GivenUpAfterBackoff, [Next]_vars
                 PROVE  AttemptsInv' /\ GivenUpAfterBackoff'
        OBVIOUS
    <2> QED
        BY WriterAttempts, MuteAttempts, TimingAttempts, LoopAttempts, PostAttempts,
           AnswerAttempts, SaveAttempts DEF Next, SenderStep, OwnStep, PostReturns
<1> HIDE DEF TriesInv
<1>3. TriesInv => GivenUpAfterBackoff
    BY DEF TriesInv
<1> QED
    BY <1>1, <1>2, <1>3, SendInvHolds, PTL DEF Spec

-----------------------------------------------------------------------------
(***************************************************************************)
(* The websocket broadcaster.                                              *)
(***************************************************************************)

\* A connection that is not there has no events.
NoneInv == \A c \in Clients : conn[c] = "none" => queue[c] = << >> /\ got[c] = {}

\* A position was asked for, or is at most one past a visible event.
PositionInv ==
    /\ minSeq = 0 \/ \E t \in stored : minSeq <= t + 1
    /\ \A c \in Clients : subs[c] <= from[c] \/ \E t \in stored : subs[c] <= t + 1

\* What was written comes before what is queued, slices are queued in order,
\* and everything is below the subscriber's position.
OrderInv ==
    \A c \in Clients :
        /\ \A s \in got[c] : s < subs[c]
        /\ \A i \in DOMAIN queue[c] : \A s \in queue[c][i] : s < subs[c]
        /\ \A i \in DOMAIN queue[c] : \A s \in queue[c][i], t \in got[c] : t < s
        /\ \A i, j \in DOMAIN queue[c] :
              i < j => \A s \in queue[c][i], t \in queue[c][j] : s < t

BroadcastInv ==
    /\ WSTypeOK
    /\ StoreInv
    /\ NoneInv
    /\ PositionInv
    /\ OrderInv
    /\ NothingMissed

-----------------------------------------------------------------------------
\* The initial state is well typed.
LEMMA WSInitType == WSInit => WSTypeOK /\ StoreInv
<1> SUFFICES ASSUME WSInit PROVE WSTypeOK /\ StoreInv
    OBVIOUS
<1>1. StoreInv
    BY StoreInitInv DEF WSInit
<1>2. queue \in [Clients -> Seq(SUBSET Seqs)] /\ \A c \in Clients : Len(queue[c]) = 0
    BY DEF WSInit
<1> QED
    BY <1>1, <1>2, StoreAssumption, BroadcasterAssumption
    DEF WSInit, WSTypeOK, StoreInv, Positions

\* A connection that ends leaves every variable in its type.
LEMMA ForgetType ==
    ASSUME WSTypeOK, NEW c \in Clients, Forget(c)
    PROVE  /\ conn' \in [Clients -> {"none", "open", "closed"}]
           /\ from' \in [Clients -> Positions]
           /\ subs' \in [Clients -> Positions]
           /\ queue' \in [Clients -> Seq(SUBSET Seqs)]
           /\ \A d \in Clients : Len(queue'[d]) <= ChannelSize
           /\ got' \in [Clients -> SUBSET Seqs]
<1>1. /\ conn' \in [Clients -> {"none", "open", "closed"}]
      /\ from' \in [Clients -> Positions]
      /\ subs' \in [Clients -> Positions]
      /\ got' \in [Clients -> SUBSET Seqs]
    BY StoreAssumption DEF WSTypeOK, Forget, Positions
<1>2. \A d \in Clients : queue'[d] = IF d = c THEN << >> ELSE queue[d]
    BY DEF WSTypeOK, Forget
<1>3. << >> \in Seq(SUBSET Seqs) /\ Len(<< >>) <= ChannelSize
    BY BroadcasterAssumption
<1>4. queue' \in [Clients -> Seq(SUBSET Seqs)]
    BY <1>3 DEF WSTypeOK, Forget
<1> QED
    BY <1>1, <1>2, <1>3, <1>4 DEF WSTypeOK

\* A non-blocking send keeps the channel within its capacity.
LEMMA WSTriggerType ==
    ASSUME WSTypeOK, triggerWSNotificationSending
    PROVE  wsTriggers' \in 0 .. WSTriggerCapacity
BY BroadcasterAssumption DEF WSTypeOK, triggerWSNotificationSending

\* A broadcast keeps every channel within its capacity.
LEMMA BroadcastType ==
    ASSUME WSTypeOK, NEW last \in Seqs, NEW events \in SUBSET Seqs,
           BroadcastEvents(events, last + 1)
    PROVE  /\ conn' \in [Clients -> {"none", "open", "closed"}]
           /\ subs' \in [Clients -> Positions]
           /\ queue' \in [Clients -> Seq(SUBSET Seqs)]
           /\ \A d \in Clients : Len(queue'[d]) <= ChannelSize
           /\ minSeq' \in Positions
<1>1. last + 1 \in Positions
    BY StoreAssumption DEF Positions, Seqs
<1>2. conn' \in [Clients -> {"none", "open", "closed"}]
    BY DEF BroadcastEvents, WSTypeOK
<1>3. subs' \in [Clients -> Positions] /\ minSeq' \in Positions
    BY <1>1 DEF BroadcastEvents, WSTypeOK, Advanced
<1>4. ASSUME NEW d \in Clients
      PROVE  queue'[d] \in Seq(SUBSET Seqs) /\ Len(queue'[d]) <= ChannelSize
    <2>1. queue[d] \in Seq(SUBSET Seqs) /\ Len(queue[d]) <= ChannelSize
        BY DEF WSTypeOK
    <2>2. Wanted(d, events) \in SUBSET Seqs
        BY DEF Wanted
    <2>3. \/ queue'[d] = queue[d]
          \/ queue'[d] = Append(queue[d], Wanted(d, events)) /\ Len(queue[d]) < ChannelSize
        BY DEF BroadcastEvents, HasRoom
    <2>4. CASE queue'[d] = queue[d]
        BY <2>1, <2>4
    <2>5. CASE queue'[d] = Append(queue[d], Wanted(d, events)) /\ Len(queue[d]) < ChannelSize
        <3>1. ChannelSize \in Nat
            BY BroadcasterAssumption
        <3> DEFINE q == queue[d]
                   W == Wanted(d, events)
        <3> HIDE DEF q, W
        <3>2. q \in Seq(SUBSET Seqs) /\ W \in SUBSET Seqs /\ Len(q) < ChannelSize
            BY <2>1, <2>2, <2>5 DEF q, W
        <3>3. Append(q, W) \in Seq(SUBSET Seqs) /\ Len(Append(q, W)) <= ChannelSize
            BY <3>1, <3>2
        <3> QED
            BY <2>5, <3>3 DEF q, W
    <2> QED
        BY <2>3, <2>4, <2>5
<1>5. queue' = [d \in Clients |-> queue'[d]]
    BY DEF BroadcastEvents
<1> QED
    BY <1>2, <1>3, <1>4, <1>5

\* Every step keeps every variable in its type.
LEMMA WSStepType ==
    ASSUME WSTypeOK, StoreInv, [WSNext]_wsVars
    PROVE  WSTypeOK' /\ StoreInv'
<1> USE StoreAssumption, BroadcasterAssumption
<1> USE DEF subscribers
<1>1. CASE WSWriter
    <2>1. StoreInv'
        BY <1>1, WriterInv DEF WSWriter
    <2>2. late' \subseteq Seqs
        BY <1>1, <2>1 DEF WSWriter, WSTypeOK, StoreInv, StoreTypeOK
    <2> QED
        BY <1>1, <2>1, <2>2 DEF WSWriter, WSTypeOK, StoreInv
<1>2. CASE WSMute
    <2>1. StoreInv'
        BY <1>2 DEF WSMute, StoreInv, StoreTypeOK, writers, IsTxEvent
    <2> QED
        BY <1>2, <2>1 DEF WSMute, WSTypeOK, StoreInv
<1>3. ASSUME UNCHANGED storeVars
      PROVE  StoreInv' /\ StoreTypeOK'
    BY <1>3, QuietStore DEF StoreInv
<1>4. CASE WSSendNotifications
    BY <1>3, <1>4, WSTriggerType DEF WSSendNotifications, WSTypeOK
<1>5. CASE TimerFires
    BY <1>3, <1>5, WSTriggerType DEF TimerFires, WSTypeOK
<1>6. ASSUME NEW c \in Clients, NEW seq \in Positions, SubscribeFromSeq(c, seq)
      PROVE  WSTypeOK' /\ StoreInv'
    <2>1. minSeq' \in Positions
        BY <1>6 DEF SubscribeFromSeq, LowerMinSeq, WSTypeOK
    <2>2. /\ conn' \in [Clients -> {"none", "open", "closed"}]
          /\ from' \in [Clients -> Positions]
          /\ subs' \in [Clients -> Positions]
        BY <1>6 DEF SubscribeFromSeq, WSTypeOK
    <2> QED
        BY <1>3, <1>6, <2>1, <2>2, WSTriggerType DEF SubscribeFromSeq, WSTypeOK
<1>7. ASSUME NEW c \in Clients, Unsubscribe(c) \/ HandlerEnds(c)
      PROVE  WSTypeOK' /\ StoreInv'
    <2>1. Forget(c) /\ UNCHANGED <<storeVars, minSeq, wsTriggers, timers, late, wsFaults>>
        BY <1>7 DEF Unsubscribe, HandlerEnds
    <2> QED
        BY <1>3, <2>1, ForgetType DEF WSTypeOK
<1>8. ASSUME NEW c \in Clients, Write(c)
      PROVE  WSTypeOK' /\ StoreInv'
    <2>1. queue[c] \in Seq(SUBSET Seqs) /\ queue[c] # << >> /\ Len(queue[c]) <= ChannelSize
        BY <1>8 DEF Write, WSTypeOK
    <2>2. /\ Head(queue[c]) \in SUBSET Seqs
          /\ Tail(queue[c]) \in Seq(SUBSET Seqs)
          /\ Len(Tail(queue[c])) <= ChannelSize
        BY <2>1
    <2>3. queue' \in [Clients -> Seq(SUBSET Seqs)] /\ got' \in [Clients -> SUBSET Seqs]
        BY <1>8, <2>2 DEF Write, WSTypeOK
    <2>4. \A d \in Clients : Len(queue'[d]) <= ChannelSize
        BY <1>8, <2>2 DEF Write, WSTypeOK
    <2> QED
        BY <1>3, <1>8, <2>3, <2>4 DEF Write, WSTypeOK
<1>9. CASE Broadcast
    <2>1. wsTriggers' \in 0 .. WSTriggerCapacity
        BY <1>9 DEF Broadcast, TakeTrigger, WSTypeOK
    <2>2. CASE UNCHANGED <<subscribers, minSeq>>
        BY <1>3, <1>9, <2>1, <2>2 DEF Broadcast, WSTypeOK
    <2>3. ASSUME NEW s \in GetEventsFromSeq(minSeq),
                 BroadcastEvents(GetEventsFromSeq(minSeq), s + 1), UNCHANGED <<from, got>>
          PROVE  WSTypeOK' /\ StoreInv'
        <3>1. s \in Seqs /\ GetEventsFromSeq(minSeq) \in SUBSET Seqs
            BY DEF GetEventsFromSeq, WSTypeOK, StoreTypeOK
        <3>2. /\ conn' \in [Clients -> {"none", "open", "closed"}]
              /\ subs' \in [Clients -> Positions]
              /\ queue' \in [Clients -> Seq(SUBSET Seqs)]
              /\ \A d \in Clients : Len(queue'[d]) <= ChannelSize
              /\ minSeq' \in Positions
            BY <2>3, <3>1, BroadcastType
        <3> QED
            BY <1>3, <1>9, <2>1, <2>3, <3>2 DEF Broadcast, WSTypeOK
    <2> QED
        BY <1>9, <2>2, <2>3 DEF Broadcast
<1>10. CASE BroadcastFails
    BY <1>3, <1>10 DEF BroadcastFails, TakeTrigger, WSTypeOK
<1>11. CASE WSStart
    <2>1. StoreInv'
        BY <1>11 DEF WSStart, StoreInv, StoreTypeOK, writers, IsTxEvent
    <2> QED
        BY <1>11, <2>1 DEF WSStart, WSTypeOK, StoreInv
<1>12. CASE WSCrash
    <2>1. StoreInv'
        BY <1>12, DeathInv DEF WSCrash
    <2>2. queue' \in [Clients -> Seq(SUBSET Seqs)] /\ \A d \in Clients : Len(queue'[d]) = 0
        BY <1>12 DEF WSCrash
    <2>3. /\ conn' \in [Clients -> {"none", "open", "closed"}]
          /\ from' \in [Clients -> Positions]
          /\ subs' \in [Clients -> Positions]
          /\ got' \in [Clients -> SUBSET Seqs]
          /\ minSeq' \in Positions
        BY <1>12 DEF WSCrash, Positions
    <2> QED
        BY <1>12, <2>1, <2>2, <2>3 DEF WSCrash, WSTypeOK, StoreInv
<1>13. CASE UNCHANGED wsVars
    BY <1>3, <1>13 DEF wsVars, WSTypeOK
<1> QED
    BY <1>1, <1>2, <1>4, <1>5, <1>6, <1>7, <1>8, <1>9, <1>10, <1>11, <1>12, <1>13 DEF WSNext

\* Every variable of the broadcaster always holds a value of the kind the code
\* gives it, and no channel ever holds more than its capacity.
THEOREM WSTypeCorrect == WSSpec => []WSTypeOK
<1>1. WSTypeOK /\ StoreInv /\ [WSNext]_wsVars => (WSTypeOK /\ StoreInv)'
    BY WSStepType
<1> QED
    BY <1>1, WSInitType, PTL DEF WSSpec

-----------------------------------------------------------------------------
(***************************************************************************)
(* Subscribers miss nothing and see events in order.                       *)
(***************************************************************************)

\* The parts of the invariant besides typing.
SubscriberInv == NoneInv /\ PositionInv /\ OrderInv /\ NothingMissed

\* At the start nobody is connected.
LEMMA InitSubscriber == WSInit => SubscriberInv
BY DEF WSInit, SubscriberInv, NoneInv, PositionInv, OrderInv, NothingMissed, Owed

\* What it means for an event to be in a subscriber's hands.
LEMMA HasMeans ==
    ASSUME NEW c, NEW s
    PROVE  Has(c, s) <=> s \in got[c] \/ \E i \in DOMAIN queue[c] : s \in queue[c][i]
BY DEF Has, Queued

\* A row that becomes visible in order is above every position, so it is still
\* to come for everybody who asked for it.
LEMMA WriterSubscriber ==
    ASSUME WSTypeOK, StoreInv, SubscriberInv, WSWriter
    PROVE  SubscriberInv'
<1> USE DEF subscribers
<1>1. StoreInv' /\ RowsOnlyAppended /\ UNCHANGED <<muted, subscribers, minSeq>>
    BY WriterInv DEF WSWriter
<1>2. NoneInv' /\ OrderInv'
    BY <1>1 DEF SubscriberInv, NoneInv, OrderInv
<1>3. PositionInv'
    BY <1>1 DEF SubscriberInv, PositionInv, RowsOnlyAppended
<1>4. NothingMissed'
    <2> SUFFICES ASSUME NEW c \in Clients, NEW s \in Seqs, s \notin late', Owed(c, s)'
                 PROVE  Has(c, s) \/ StillToCome(c, s)
        BY <1>1 DEF NothingMissed, Has, Queued, StillToCome
    <2>1. CASE s \in stored
        <3>1. s \notin late /\ Owed(c, s)
            BY <1>1, <2>1 DEF Owed, RowsOnlyAppended, WSWriter
        <3> QED
            BY <3>1 DEF SubscriberInv, NothingMissed
    <2>2. CASE s \notin stored
        <3>1. \A t \in stored : ~(t > s)
            BY <2>2 DEF WSWriter, Owed
        <3>2. \A t \in stored : t \in Seqs /\ t + 1 <= s
            BY <2>2, <3>1 DEF WSTypeOK, StoreTypeOK, Seqs
        <3>3. /\ minSeq \in Positions /\ subs[c] \in Positions /\ from[c] \in Positions
              /\ s >= from[c]
            BY <1>1 DEF WSTypeOK, Owed
        <3> QED
            BY <3>2, <3>3 DEF SubscriberInv, PositionInv, StillToCome, Positions, Seqs
    <2> QED
        BY <2>1, <2>2
<1> QED
    BY <1>2, <1>3, <1>4 DEF SubscriberInv

\* Muting, wsTriggers and timers: nobody is owed more than before.
LEMMA QuietSubscriber ==
    ASSUME SubscriberInv, muted \subseteq muted',
           UNCHANGED <<about, stored, subscribers, minSeq, late>>
    PROVE  SubscriberInv'
BY DEF subscribers, SubscriberInv, NoneInv, PositionInv, OrderInv, NothingMissed, Owed, Has,
       Queued, StillToCome

\* A new subscriber is to get everything from the number it asked for on.
LEMMA SubscribeSubscriber ==
    ASSUME WSTypeOK, SubscriberInv, NEW c \in Clients, NEW seq \in Positions,
           SubscribeFromSeq(c, seq)
    PROVE  SubscriberInv'
<1>1. /\ UNCHANGED <<about, stored, muted, queue, got, late>>
      /\ conn[c] = "none" /\ queue[c] = << >> /\ got[c] = {}
    BY DEF SubscribeFromSeq, storeVars, SubscriberInv, NoneInv
<1>2. /\ conn'[c] = "open" /\ from'[c] = seq /\ subs'[c] = seq
      /\ \A d \in Clients : d # c => /\ conn'[d] = conn[d]
                                     /\ from'[d] = from[d]
                                     /\ subs'[d] = subs[d]
    BY DEF SubscribeFromSeq, WSTypeOK
<1>3. minSeq' \in Positions /\ minSeq' <= minSeq /\ minSeq' <= seq /\ minSeq \in Positions
    BY DEF SubscribeFromSeq, LowerMinSeq, WSTypeOK, Positions
<1>4. NoneInv'
    BY <1>1, <1>2 DEF SubscriberInv, NoneInv
<1>5. PositionInv'
    <2>1. minSeq' = 0 \/ \E t \in stored : minSeq' <= t + 1
        BY <1>3 DEF SubscriberInv, PositionInv, WSTypeOK, StoreTypeOK, Positions, Seqs
    <2> QED
        BY <1>1, <1>2, <2>1 DEF SubscriberInv, PositionInv, Positions
<1>6. OrderInv'
    BY <1>1, <1>2 DEF SubscriberInv, OrderInv
<1>7. NothingMissed'
    <2> SUFFICES ASSUME NEW d \in Clients, NEW s \in Seqs \ late, Owed(d, s)'
                 PROVE  Has(d, s)' \/ StillToCome(d, s)'
        BY <1>1 DEF NothingMissed
    <2>1. CASE d = c
        BY <1>2, <1>3, <2>1 DEF Owed, StillToCome, Positions, Seqs
    <2>2. CASE d # c
        <3>1. Owed(d, s)
            BY <1>1, <1>2, <2>2 DEF Owed
        <3>2. Has(d, s) \/ StillToCome(d, s)
            BY <3>1 DEF SubscriberInv, NothingMissed
        <3>3. Has(d, s) => Has(d, s)'
            BY <1>1 DEF Has, Queued
        <3>4. StillToCome(d, s) => StillToCome(d, s)'
            BY <1>2, <1>3, <2>2 DEF StillToCome, Positions, Seqs
        <3> QED
            BY <3>2, <3>3, <3>4
    <2> QED
        BY <2>1, <2>2
<1> QED
    BY <1>4, <1>5, <1>6, <1>7 DEF SubscriberInv

\* A connection that ends is owed nothing.
LEMMA ForgetSubscriber ==
    ASSUME WSTypeOK, SubscriberInv, NEW c \in Clients, Forget(c),
           UNCHANGED <<about, stored, muted, minSeq, late>>
    PROVE  SubscriberInv'
<1>1. /\ conn'[c] = "none" /\ from'[c] = 0 /\ subs'[c] = 0
      /\ queue'[c] = << >> /\ got'[c] = {}
      /\ \A d \in Clients : d # c => /\ conn'[d] = conn[d] /\ from'[d] = from[d]
                                     /\ subs'[d] = subs[d] /\ queue'[d] = queue[d]
                                     /\ got'[d] = got[d]
    BY DEF Forget, WSTypeOK
<1>2. NoneInv' /\ PositionInv'
    BY <1>1 DEF SubscriberInv, NoneInv, PositionInv
<1>3. OrderInv'
    BY <1>1 DEF SubscriberInv, OrderInv
<1>4. NothingMissed'
    BY <1>1 DEF SubscriberInv, NothingMissed, Owed, Has, Queued, StillToCome
<1> QED
    BY <1>2, <1>3, <1>4 DEF SubscriberInv

\* Writing a slice moves it from the channel to the connection.
LEMMA WriteSubscriber ==
    ASSUME WSTypeOK, SubscriberInv, NEW c \in Clients, Write(c)
    PROVE  SubscriberInv'
<1>1. queue[c] \in Seq(SUBSET Seqs) /\ queue[c] # << >>
    BY DEF Write, WSTypeOK
<1>2. /\ 1 \in DOMAIN queue[c] /\ Head(queue[c]) = queue[c][1]
      /\ \A i \in DOMAIN Tail(queue[c]) : /\ i + 1 \in DOMAIN queue[c]
                                          /\ Tail(queue[c])[i] = queue[c][i + 1]
                                          /\ i \in Nat \ {0}
      /\ \A i \in DOMAIN queue[c] :
            i # 1 => i - 1 \in DOMAIN Tail(queue[c]) /\ Tail(queue[c])[i - 1] = queue[c][i]
    BY <1>1
<1>3. /\ queue'[c] = Tail(queue[c]) /\ got'[c] = got[c] \cup queue[c][1]
      /\ \A d \in Clients : d # c => queue'[d] = queue[d] /\ got'[d] = got[d]
      /\ UNCHANGED <<about, stored, muted, conn, from, subs, minSeq, late>>
      /\ conn[c] # "none"
    BY <1>2 DEF Write, WSTypeOK, storeVars
<1>4. NoneInv' /\ PositionInv'
    BY <1>3 DEF SubscriberInv, NoneInv, PositionInv
<1>5. OrderInv'
    <2> SUFFICES ASSUME NEW d \in Clients
                 PROVE  /\ \A s \in got'[d] : s < subs[d]
                        /\ \A i \in DOMAIN queue'[d] : \A s \in queue'[d][i] : s < subs[d]
                        /\ \A i \in DOMAIN queue'[d] :
                              \A s \in queue'[d][i], t \in got'[d] : t < s
                        /\ \A i, j \in DOMAIN queue'[d] :
                              i < j => \A s \in queue'[d][i], t \in queue'[d][j] : s < t
        BY <1>3 DEF OrderInv
    <2>1. CASE d # c
        BY <1>3, <2>1 DEF SubscriberInv, OrderInv
    <2>2. CASE d = c
        <3>1. \A s \in got'[c] : s < subs[c]
            BY <1>2, <1>3 DEF SubscriberInv, OrderInv
        <3>2. \A i \in DOMAIN queue'[c] : \A s \in queue'[c][i] : s < subs[c]
            BY <1>2, <1>3 DEF SubscriberInv, OrderInv
        <3>3. \A i \in DOMAIN queue'[c] : \A s \in queue'[c][i], t \in got'[c] : t < s
            BY <1>2, <1>3 DEF SubscriberInv, OrderInv
        <3>4. \A i, j \in DOMAIN queue'[c] :
                 i < j => \A s \in queue'[c][i], t \in queue'[c][j] : s < t
            <4> SUFFICES ASSUME NEW i \in DOMAIN queue'[c], NEW j \in DOMAIN queue'[c], i < j
                         PROVE  \A s \in queue'[c][i], t \in queue'[c][j] : s < t
                OBVIOUS
            <4>1. /\ i + 1 \in DOMAIN queue[c] /\ j + 1 \in DOMAIN queue[c] /\ i + 1 < j + 1
                  /\ queue'[c][i] = queue[c][i + 1] /\ queue'[c][j] = queue[c][j + 1]
                BY <1>2, <1>3
            <4> QED
                BY <4>1 DEF SubscriberInv, OrderInv
        <3> QED
            BY <2>2, <3>1, <3>2, <3>3, <3>4
    <2> QED
        BY <2>1, <2>2
<1>6. NothingMissed'
    <2> SUFFICES ASSUME NEW d \in Clients, NEW s \in Seqs \ late, Owed(d, s)
                 PROVE  Has(d, s)' \/ StillToCome(d, s)
        BY <1>3 DEF NothingMissed, Owed, StillToCome
    <2>1. Has(d, s) \/ StillToCome(d, s)
        BY DEF SubscriberInv, NothingMissed
    <2>2. Has(d, s) => Has(d, s)'
        <3>1. CASE d # c
            BY <1>3, <3>1 DEF Has, Queued
        <3>2. CASE d = c
            <4> SUFFICES ASSUME Has(c, s) PROVE Has(c, s)'
                BY <3>2
            <4>1. s \in got[c] \/ \E i \in DOMAIN queue[c] : s \in queue[c][i]
                BY HasMeans
            <4>2. s \in got'[c] \/ \E i \in DOMAIN queue'[c] : s \in queue'[c][i]
                BY <1>2, <1>3, <4>1
            <4> QED
                BY <4>2 DEF Has, Queued
        <3> QED
            BY <3>1, <3>2
    <2> QED
        BY <2>1, <2>2
<1> QED
    BY <1>4, <1>5, <1>6 DEF SubscriberInv

\* A broadcast gives every subscriber what was still to come for it, or
\* disconnects it.
LEMMA BroadcastSubscriber ==
    ASSUME WSTypeOK, SubscriberInv, UNCHANGED <<about, stored, muted, from, got, late>>,
           NEW events, events = GetEventsFromSeq(minSeq),
           NEW last \in events, IsLast(last, events), BroadcastEvents(events, last + 1)
    PROVE  SubscriberInv'
<1>1. /\ last \in Seqs /\ last \in stored /\ events \in SUBSET Seqs
      /\ minSeq' = last + 1 /\ minSeq \in Positions
      /\ \A s \in events : s < last + 1
    <2>1. last \in stored /\ stored \subseteq Seqs /\ events \subseteq stored
        BY DEF GetEventsFromSeq, WSTypeOK, StoreTypeOK
    <2>2. minSeq' = last + 1 /\ minSeq \in Positions
        BY DEF BroadcastEvents, WSTypeOK
    <2>3. \A s \in events : s \in Nat /\ s <= last
        BY <2>1 DEF IsLast, Seqs
    <2>4. \A s \in events : s < last + 1
        BY <2>3
    <2>5. last \in Seqs /\ events \in SUBSET Seqs
        BY <2>1
    <2> QED
        BY <2>1, <2>2, <2>4, <2>5
<1>2. ASSUME NEW d \in Clients
      PROVE  \/ /\ conn[d] = "open" /\ conn'[d] = "open"
                /\ queue'[d] = Append(queue[d], Wanted(d, events))
                /\ subs'[d] = last + 1
                /\ Wanted(d, events) # {}
             \/ /\ queue'[d] = queue[d] /\ subs'[d] = subs[d]
                /\ conn[d] = "open" /\ conn'[d] = "closed"
             \/ /\ queue'[d] = queue[d] /\ subs'[d] = subs[d] /\ conn'[d] = conn[d]
                /\ conn[d] = "open" => Wanted(d, events) = {}
    BY DEF BroadcastEvents, Feeds, Advanced
<1>3. NoneInv'
    BY <1>2 DEF SubscriberInv, NoneInv
<1>4. PositionInv'
    BY <1>1, <1>2 DEF SubscriberInv, PositionInv, Seqs
<1>5. OrderInv'
    <2> SUFFICES ASSUME NEW d \in Clients
                 PROVE  /\ \A s \in got[d] : s < subs'[d]
                        /\ \A i \in DOMAIN queue'[d] : \A s \in queue'[d][i] : s < subs'[d]
                        /\ \A i \in DOMAIN queue'[d] :
                              \A s \in queue'[d][i], t \in got[d] : t < s
                        /\ \A i, j \in DOMAIN queue'[d] :
                              i < j => \A s \in queue'[d][i], t \in queue'[d][j] : s < t
        BY DEF OrderInv
    <2>1. CASE queue'[d] = queue[d] /\ subs'[d] = subs[d]
        BY <2>1 DEF SubscriberInv, OrderInv
    <2>2. CASE /\ queue'[d] = Append(queue[d], Wanted(d, events))
               /\ subs'[d] = last + 1
               /\ Wanted(d, events) # {}
        <3> DEFINE W == Wanted(d, events)
        <3>1. /\ queue[d] \in Seq(SUBSET Seqs) /\ W \in SUBSET Seqs
              /\ subs[d] \in Positions /\ got[d] \in SUBSET Seqs
            BY <1>1 DEF WSTypeOK, Wanted
        <3>2. (\A s \in W : subs[d] <= s /\ s < last + 1) /\ subs[d] < last + 1
            BY <1>1, <2>2, <3>1 DEF Wanted, Positions, Seqs
        <3>3. /\ \A s \in got[d] : s < subs[d]
              /\ \A i \in DOMAIN queue[d] : \A s \in queue[d][i] : s < subs[d] /\ s \in Seqs
            BY <3>1 DEF SubscriberInv, OrderInv
        <3>4. \A i \in DOMAIN queue'[d] :
                 \/ i \in DOMAIN queue[d] /\ queue'[d][i] = queue[d][i]
                 \/ i = Len(queue[d]) + 1 /\ queue'[d][i] = W
            BY <2>2, <3>1
        <3>5. \A i \in DOMAIN queue[d] : i \in Nat /\ i < Len(queue[d]) + 1
            BY <3>1
        <3>6. Len(queue[d]) \in Nat
            BY <3>1
        <3> HIDE DEF W
        <3>7. \A s \in got[d] : s < subs'[d]
            BY <1>1, <2>2, <3>1, <3>2, <3>3 DEF Positions, Seqs
        <3>8. \A i \in DOMAIN queue'[d] : \A s \in queue'[d][i] : s < subs'[d]
            <4> SUFFICES ASSUME NEW i \in DOMAIN queue'[d], NEW s \in queue'[d][i]
                         PROVE  s < last + 1
                BY <2>2
            <4>1. CASE queue'[d][i] = W
                BY <3>2, <4>1
            <4>2. CASE i \in DOMAIN queue[d] /\ queue'[d][i] = queue[d][i]
                <5>1. s < subs[d] /\ s \in Seqs
                    BY <3>3, <4>2
                <5> QED
                    BY <1>1, <3>1, <3>2, <5>1 DEF Positions, Seqs
            <4> QED
                BY <3>4, <4>1, <4>2
        <3>9. \A i \in DOMAIN queue'[d] : \A s \in queue'[d][i], t \in got[d] : t < s
            <4> SUFFICES ASSUME NEW i \in DOMAIN queue'[d], NEW s \in queue'[d][i],
                                NEW t \in got[d]
                         PROVE  t < s
                OBVIOUS
            <4>1. CASE queue'[d][i] = W
                <5>1. subs[d] <= s /\ t < subs[d] /\ s \in Seqs /\ t \in Seqs
                    BY <3>1, <3>2, <3>3, <4>1
                <5> QED
                    BY <3>1, <5>1 DEF Positions, Seqs
            <4>2. CASE i \in DOMAIN queue[d] /\ queue'[d][i] = queue[d][i]
                BY <4>2 DEF SubscriberInv, OrderInv
            <4> QED
                BY <3>4, <4>1, <4>2
        <3>10. ASSUME NEW i \in DOMAIN queue'[d], NEW j \in DOMAIN queue'[d], i < j,
                      NEW s \in queue'[d][i], NEW t \in queue'[d][j]
               PROVE  s < t
            <4>1. i \in DOMAIN queue[d] /\ queue'[d][i] = queue[d][i]
                BY <3>4, <3>5, <3>6, <3>10
            <4>2. CASE j \in DOMAIN queue[d] /\ queue'[d][j] = queue[d][j]
                BY <3>10, <4>1, <4>2 DEF SubscriberInv, OrderInv
            <4>3. CASE queue'[d][j] = W
                <5>1. s < subs[d] /\ s \in Seqs
                    BY <3>3, <3>10, <4>1
                <5>2. subs[d] <= t /\ t \in Seqs
                    BY <3>1, <3>2, <3>10, <4>3
                <5> QED
                    BY <3>1, <5>1, <5>2 DEF Positions, Seqs
            <4> QED
                BY <3>4, <4>2, <4>3
        <3> QED
            BY <3>7, <3>8, <3>9, <3>10
    <2> QED
        BY <1>2, <2>1, <2>2
<1>6. NothingMissed'
    <2> SUFFICES ASSUME NEW d \in Clients, NEW s \in Seqs \ late, Owed(d, s)'
                 PROVE  Has(d, s)' \/ StillToCome(d, s)'
        BY DEF NothingMissed
    <2>1. conn'[d] = "open" /\ conn[d] = "open" /\ Owed(d, s)
        BY <1>2 DEF Owed
    <2>2. Has(d, s) \/ StillToCome(d, s)
        BY <2>1 DEF SubscriberInv, NothingMissed
    <2>3. StillToCome(d, s) => s \in Wanted(d, events)
        BY <2>1 DEF StillToCome, Owed, Wanted, GetEventsFromSeq
    <2>4. CASE queue'[d] = queue[d] /\ Wanted(d, events) = {}
        BY <2>2, <2>3, <2>4 DEF Has, Queued
    <2>5. CASE queue'[d] = Append(queue[d], Wanted(d, events))
        <3>1. queue[d] \in Seq(SUBSET Seqs) /\ Wanted(d, events) \in SUBSET Seqs
            BY <1>1 DEF WSTypeOK, Wanted
        <3>2. /\ \A i \in DOMAIN queue[d] : i \in DOMAIN queue'[d] /\ queue'[d][i] = queue[d][i]
              /\ Len(queue[d]) + 1 \in DOMAIN queue'[d]
              /\ queue'[d][Len(queue[d]) + 1] = Wanted(d, events)
            BY <2>5, <3>1
        <3>3. s \in got'[d] \/ \E i \in DOMAIN queue'[d] : s \in queue'[d][i]
            BY <2>2, <2>3, <3>2, HasMeans
        <3> QED
            BY <3>3 DEF Has, Queued
    <2> QED
        BY <1>2, <2>1, <2>4, <2>5
<1> QED
    BY <1>3, <1>4, <1>5, <1>6 DEF SubscriberInv

\* Every step keeps the invariant.
LEMMA StepSubscriber ==
    ASSUME WSTypeOK, StoreInv, SubscriberInv, [WSNext]_wsVars
    PROVE  SubscriberInv'
<1> USE DEF subscribers, storeVars, writers
<1>1. CASE \/ WSMute \/ WSSendNotifications \/ TimerFires \/ BroadcastFails \/ WSStart
           \/ UNCHANGED wsVars
    <2>1. muted \subseteq muted' /\ UNCHANGED <<about, stored, subscribers, minSeq, late>>
        BY <1>1 DEF WSMute, WSSendNotifications, TimerFires, BroadcastFails, WSStart, wsVars
    <2> QED
        BY <2>1, QuietSubscriber
<1>2. ASSUME NEW c \in Clients, Unsubscribe(c) \/ HandlerEnds(c)
      PROVE  SubscriberInv'
    BY <1>2, ForgetSubscriber DEF Unsubscribe, HandlerEnds
<1>3. CASE Broadcast
    <2>1. UNCHANGED <<about, stored, muted, late>>
        BY <1>3 DEF Broadcast
    <2>2. CASE UNCHANGED <<subscribers, minSeq>>
        BY <2>1, <2>2, QuietSubscriber
    <2>3. ASSUME NEW s \in GetEventsFromSeq(minSeq),
                 IsLast(s, GetEventsFromSeq(minSeq)),
                 BroadcastEvents(GetEventsFromSeq(minSeq), s + 1), UNCHANGED <<from, got>>
          PROVE  SubscriberInv'
        BY <2>1, <2>3, BroadcastSubscriber
    <2> QED
        BY <1>3, <2>2, <2>3 DEF Broadcast
<1>4. CASE WSCrash
    BY <1>4 DEF WSCrash, SubscriberInv, NoneInv, PositionInv, OrderInv, NothingMissed, Owed
<1> QED
    BY <1>1, <1>2, <1>3, <1>4, WriterSubscriber, SubscribeSubscriber, WriteSubscriber DEF WSNext

\* The invariant behind the two properties of subscribers.
THEOREM BroadcastInvHolds == WSSpec => []BroadcastInv
<1>1. WSInit => BroadcastInv
    BY WSInitType, InitSubscriber DEF BroadcastInv, SubscriberInv
<1>2. BroadcastInv /\ [WSNext]_wsVars => BroadcastInv'
    <2> SUFFICES ASSUME BroadcastInv, [WSNext]_wsVars PROVE BroadcastInv'
        OBVIOUS
    <2>1. WSTypeOK /\ StoreInv /\ SubscriberInv
        BY DEF BroadcastInv, SubscriberInv
    <2> QED
        BY <2>1, WSStepType, StepSubscriber DEF BroadcastInv, SubscriberInv
<1> QED
    BY <1>1, <1>2, PTL DEF WSSpec

\* A websocket subscriber misses no event, except one that became visible
\* after an event with a higher number: whatever the other subscribers do and
\* wherever minSeq stands when it comes.
THEOREM SubscribersMissNothing == WSSpec => []NothingMissed
<1>1. BroadcastInv => NothingMissed
    BY DEF BroadcastInv
<1> QED
    BY <1>1, BroadcastInvHolds, PTL

\* A websocket subscriber gets its events in order, and none twice.
THEOREM SubscribersSeeOrder == WSSpec => WrittenInOrder
<1>1. BroadcastInv /\ [WSNext]_wsVars
        => [\A c \in Clients :
               Write(c) => \A s \in Head(queue[c]), t \in got[c] : t < s]_wsVars
    <2> SUFFICES ASSUME BroadcastInv, NEW c \in Clients, Write(c),
                        NEW s \in Head(queue[c]), NEW t \in got[c]
                 PROVE  t < s
        OBVIOUS
    <2>1. queue[c] \in Seq(SUBSET Seqs) /\ queue[c] # << >>
        BY DEF BroadcastInv, WSTypeOK, Write
    <2>2. 1 \in DOMAIN queue[c] /\ Head(queue[c]) = queue[c][1]
        BY <2>1
    <2> QED
        BY <2>2 DEF BroadcastInv, OrderInv
<1> QED
    BY <1>1, BroadcastInvHolds, PTL DEF WSSpec, WrittenInOrder
=============================================================================
