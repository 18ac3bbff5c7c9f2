---------------------------- MODULE HTTPCallback ----------------------------
(***************************************************************************)
(* The HTTP callback sender of the event broker (events/broker.go,         *)
(* events/httpcallback.go, events/mute.go, events/integrity.go): the       *)
(* broker goroutine takes triggers from a bounded channel, POSTs the       *)
(* events after the persistent cursor last_http_sent_seq one by one, and   *)
(* moves the cursor when an event was accepted or given up.  While a POST  *)
(* is in flight the row http_callback_operation in the database names the  *)
(* event, so that a process that died half way is not started again before *)
(* an operator has found out whether the client got the event.             *)
(*                                                                         *)
(* A step is one database transaction, one half of a POST, or one receive  *)
(* from a channel.                                                         *)
(***************************************************************************)
EXTENDS EventStore, Sequences, FiniteSets

CONSTANTS
    Backoff,         \* transaction.callback.backoff; 0 means retry endlessly
    TriggerCapacity, \* capacity of httpCallbackNotificationTrigger
    SaveRetries,     \* httpCBResultSaveRetries
    Faults,          \* the kinds of failure that may happen
    MaxFaults        \* bound: how many failures happen in a behaviour

FaultKinds == {"readFail",  \* a step before the POST gets a database error
               "lockLost",  \* the lock is committed, but Commit returns an error
               "saveFail",  \* saving the result of a POST is rolled back
               "saveLost",  \* it is committed, but Commit returns an error
               "muteLost",  \* a mute is stored, but its INSERT returns an error
               "crash"}     \* the process is killed

ASSUME CallbackAssumption ==
    /\ Backoff \in Nat
    /\ TriggerCapacity \in Nat \ {0}
    /\ SaveRetries \in Nat
    /\ Faults \subseteq FaultKinds
    /\ MaxFaults \in Nat

VARIABLES
    lastSent,    \* metadata last_http_sent_seq
    lock,        \* metadata http_callback_operation: a sequence number, or 0
    received,    \* events the client's endpoint has taken
    acked,       \* events for which the broker has seen status 200
    gaveUp,      \* events the broker has given up
    posts,       \* POSTs of each event, counted up to Backoff
    blamed,      \* transactions muted as "current_problematic"
    carried,     \* transactions whose mute left httpCallbackRetries in place
    pc,          \* where the broker goroutine is
    batch,       \* events still to be handled by the loop over the query result
    event,       \* the event in hand, or 0
    accepted,    \* the endpoint took the POST in flight
    retries,     \* httpCallbackRetries
    isRetrying,  \* httpCallbackIsRetrying
    retryingSeq, \* httpCallbackRetryingSeq
    triggers,    \* httpCallbackNotificationTrigger
    retryTimers, \* outstanding AfterFunc(delay, triggerHTTPNotificationRetry)
    earlyTimers, \* outstanding AfterFunc(delay, triggerHTTPNotificationSending)
    saveTries,   \* failed attempts of persistHTTPCallbackSendResultWithRetry
    faults       \* failures so far

cursor == <<lastSent, lock>>
history == <<received, acked, gaveUp, posts, blamed, carried>>
loop == <<pc, batch, event, accepted, saveTries>>
retry == <<retries, isRetrying, retryingSeq>>
timing == <<triggers, retryTimers, earlyTimers>>
vars == <<storeVars, cursor, history, loop, retry, timing, faults>>

Points == {"down", "idle", "read", "loop", "post", "posted", "saveSent",
           "saveRetry", "panicked"}

\* Every variable holds a value of the kind the code gives it; in particular
\* the trigger channel never holds more than its capacity.
TypeOK ==
    /\ StoreTypeOK
    /\ lastSent \in 0 .. MaxSeq
    /\ lock \in 0 .. MaxSeq
    /\ received \subseteq Seqs
    /\ acked \subseteq Seqs
    /\ gaveUp \subseteq Seqs
    /\ posts \in [Seqs -> Nat]
    /\ blamed \subseteq TxIds
    /\ carried \subseteq TxIds
    /\ pc \in Points
    /\ batch \subseteq Seqs
    /\ event \in 0 .. MaxSeq
    /\ accepted \in BOOLEAN
    /\ retries \in Nat
    /\ isRetrying \in BOOLEAN
    /\ retryingSeq \in -1 .. MaxSeq
    /\ triggers \in Seq(BOOLEAN)
    /\ Len(triggers) <= TriggerCapacity
    /\ retryTimers \in Nat
    /\ earlyTimers \in Nat
    /\ saveTries \in 0 .. SaveRetries
    /\ faults \in 0 .. MaxFaults
    /\ up = (pc # "down")

Init ==
    /\ StoreInit
    /\ lastSent = 0
    /\ lock = 0
    /\ received = {}
    /\ acked = {}
    /\ gaveUp = {}
    /\ posts = [s \in Seqs |-> 0]
    /\ blamed = {}
    /\ carried = {}
    /\ pc = "down"
    /\ batch = {}
    /\ event = 0
    /\ accepted = FALSE
    /\ retries = 0
    /\ isRetrying = FALSE
    /\ retryingSeq = -1
    /\ triggers = << >>
    /\ retryTimers = 0
    /\ earlyTimers = 0
    /\ saveTries = 0
    /\ faults = 0

Fault(kind) ==
    /\ kind \in Faults
    /\ faults < MaxFaults
    /\ faults' = faults + 1

-----------------------------------------------------------------------------
(***************************************************************************)
(* The trigger channel and the timers.                                     *)
(***************************************************************************)

\* SendNotifications: a non-blocking send, dropped when the channel is full.
triggerHTTPNotificationSending ==
    triggers' = IF Len(triggers) < TriggerCapacity
                THEN Append(triggers, FALSE) ELSE triggers

\* The wallet calls it after every commit and at the end of every poll.
SendNotifications ==
    /\ up
    /\ triggerHTTPNotificationSending
    /\ UNCHANGED <<storeVars, cursor, history, loop, retry, retryTimers,
                   earlyTimers, faults>>

EarlyTimerFires ==
    /\ up
    /\ earlyTimers > 0
    /\ earlyTimers' = earlyTimers - 1
    /\ triggerHTTPNotificationSending
    /\ UNCHANGED <<storeVars, cursor, history, loop, retry, retryTimers, faults>>

\* Mutant of RetryTimerFires: the retry is dropped when the channel is full.
RetryTimerFiresNonBlocking ==
    /\ up
    /\ retryTimers > 0
    /\ retryTimers' = retryTimers - 1
    /\ triggers' = IF Len(triggers) < TriggerCapacity
                   THEN Append(triggers, TRUE) ELSE triggers
    /\ UNCHANGED <<storeVars, cursor, history, loop, retry, earlyTimers, faults>>

\* triggerHTTPNotificationRetry: a blocking send, so that no retry is lost.
RetryTimerFires ==
    /\ up
    /\ retryTimers > 0
    /\ Len(triggers) < TriggerCapacity
    /\ retryTimers' = retryTimers - 1
    /\ triggers' = Append(triggers, TRUE)
    /\ UNCHANGED <<storeVars, cursor, history, loop, retry, earlyTimers, faults>>

\* Mutant of Postponed: any trigger starts the sender, whether a retry is due or not.
PostponedNever(isRetry) == FALSE

\* sendHTTPCallbackNotifications up to its first query: a trigger that is not
\* a retry does nothing while a retry is due.
Postponed(isRetry) == isRetrying /\ ~isRetry

TriggerIgnored ==
    /\ pc = "idle"
    /\ triggers # << >>
    /\ Postponed(Head(triggers))
    /\ triggers' = Tail(triggers)
    /\ UNCHANGED <<storeVars, cursor, history, loop, retry, retryTimers,
                   earlyTimers, faults>>

TriggerTaken ==
    /\ pc = "idle"
    /\ triggers # << >>
    /\ ~Postponed(Head(triggers))
    /\ triggers' = Tail(triggers)
    /\ pc' = "read"
    /\ isRetrying' = FALSE
    /\ retryingSeq' = IF isRetrying THEN -1 ELSE retryingSeq
    /\ UNCHANGED <<storeVars, cursor, history, batch, event, accepted, saveTries,
                   retries, retryTimers, earlyTimers, faults>>

-----------------------------------------------------------------------------
(***************************************************************************)
(* sendHTTPCallbackNotifications.                                          *)
(***************************************************************************)

\* GetLastHTTPSentSeq and GetEventsFromSeq(seq + 1).  Only this goroutine
\* changes the cursor and muted_events, so the two queries are one step.
ReadEvents ==
    /\ pc = "read"
    /\ batch' = GetEventsFromSeq(lastSent + 1)
    /\ pc' = "loop"
    /\ UNCHANGED <<storeVars, cursor, history, event, accepted, saveTries, retry,
                   timing, faults>>

\* handleEarlyErrorPreparingHTTPCallback.
EarlyError ==
    /\ pc' = "idle"
    /\ batch' = {}
    /\ earlyTimers' = earlyTimers + 1
    /\ UNCHANGED <<storeVars, lastSent, history, event, accepted, saveTries, retry,
                   triggers, retryTimers>>

ReadFails ==
    /\ pc \in {"read", "loop"}
    /\ pc = "loop" => \E s \in batch : IsFirst(s, batch) /\ IsTxEvent(s)
    /\ Fault("readFail")
    /\ EarlyError
    /\ UNCHANGED lock

LoopEnds ==
    /\ pc = "loop"
    /\ batch = {}
    /\ pc' = "idle"
    /\ UNCHANGED <<storeVars, cursor, history, batch, event, accepted, saveTries,
                   retry, timing, faults>>

\* Mutant of SkipNewAddress: passing over a NewAddressEvent moves the cursor.
SkipNewAddressAdvances ==
    /\ pc = "loop"
    /\ \E s \in batch : /\ IsFirst(s, batch)
                        /\ ~IsTxEvent(s)
                        /\ batch' = batch \ {s}
                        /\ lastSent' = s
    /\ UNCHANGED <<storeVars, lock, history, pc, event, accepted, saveTries,
                   retry, timing, faults>>

\* A NewAddressEvent is passed over; the cursor stays where it is.
SkipNewAddress ==
    /\ pc = "loop"
    /\ \E s \in batch : /\ IsFirst(s, batch)
                        /\ ~IsTxEvent(s)
                        /\ batch' = batch \ {s}
    /\ UNCHANGED <<storeVars, cursor, history, pc, event, accepted, saveTries,
                   retry, timing, faults>>

LockHTTPCallback ==
    /\ pc = "loop"
    /\ \E s \in batch : /\ IsFirst(s, batch)
                        /\ IsTxEvent(s)
                        /\ lock' = s
                        /\ event' = s
                        /\ batch' = batch \ {s}
    /\ pc' = "post"
    /\ UNCHANGED <<storeVars, lastSent, history, accepted, saveTries, retry, timing,
                   faults>>

LockLost ==
    /\ pc = "loop"
    /\ Fault("lockLost")
    /\ \E s \in batch : IsFirst(s, batch) /\ IsTxEvent(s) /\ lock' = s
    /\ EarlyError

\* sendDataToHTTPCallback, first half: the client's endpoint gets the request
\* and takes the event, or it does not.
Post ==
    /\ pc = "post"
    /\ \E taken \in BOOLEAN :
          /\ accepted' = taken
          /\ received' = IF taken THEN received \cup {event} ELSE received
    /\ posts' = [posts EXCEPT ![event] =
                     IF @ < Backoff \/ @ = 0 THEN @ + 1 ELSE @]
    /\ pc' = "posted"
    /\ UNCHANGED <<storeVars, cursor, acked, gaveUp, blamed, carried, batch, event,
                   saveTries, retry, timing, faults>>

\* httpCallbackRetries++; with Backoff = 0 the counter is never looked at.
CountAttempt == retries' = IF Backoff = 0 THEN retries ELSE retries + 1

\* Second half: status 200.
PostSucceeds ==
    /\ pc = "posted"
    /\ accepted
    /\ acked' = acked \cup {event}
    /\ CountAttempt
    /\ pc' = "saveSent"
    /\ UNCHANGED <<storeVars, cursor, received, gaveUp, posts, blamed, carried, batch,
                   event, accepted, saveTries, isRetrying, retryingSeq, timing, faults>>

\* Mutant of GivesUp: the last attempt is not made.
GivesUpEarly(attempts) == Backoff > 0 /\ attempts >= Backoff - 1

\* handleHTTPCallbackError: retries has already been incremented.
GivesUp(attempts) == Backoff > 0 /\ attempts >= Backoff

\* Another status, or no answer; the endpoint may have taken the event.
PostFails ==
    /\ pc = "posted"
    /\ CountAttempt
    /\ IF GivesUp(retries')
       THEN pc' = "saveSent" /\ gaveUp' = gaveUp \cup {event}
       ELSE pc' = "saveRetry" /\ UNCHANGED gaveUp
    /\ UNCHANGED <<storeVars, cursor, received, acked, posts, blamed, carried, batch,
                   event, accepted, saveTries, isRetrying, retryingSeq, timing, faults>>

-----------------------------------------------------------------------------
(***************************************************************************)
(* persistHTTPCallbackSendResultWithRetry and what follows it.             *)
(***************************************************************************)

\* StoreLastHTTPSentSeq and ClearHTTPCallback in one transaction.
StoreSent == lastSent' = event /\ lock' = 0

\* ClearHTTPCallback alone.
StoreRetry == lock' = 0 /\ UNCHANGED lastSent

SaveSent ==
    /\ pc = "saveSent"
    /\ StoreSent
    /\ pc' = "loop"
    /\ event' = 0
    /\ accepted' = FALSE
    /\ saveTries' = 0
    /\ retries' = 0
    /\ UNCHANGED <<storeVars, history, batch, isRetrying, retryingSeq, timing, faults>>

\* Mutant of SaveRetry: the loop goes on with the next event while a retry is due.
SaveRetryContinues ==
    /\ pc = "saveRetry"
    /\ StoreRetry
    /\ pc' = "loop"
    /\ event' = 0
    /\ accepted' = FALSE
    /\ saveTries' = 0
    /\ isRetrying' = TRUE
    /\ retryingSeq' = event
    /\ retryTimers' = retryTimers + 1
    /\ UNCHANGED <<storeVars, history, batch, retries, triggers, earlyTimers, faults>>

SaveRetry ==
    /\ pc = "saveRetry"
    /\ StoreRetry
    /\ pc' = "idle"
    /\ batch' = {}
    /\ event' = 0
    /\ accepted' = FALSE
    /\ saveTries' = 0
    /\ isRetrying' = TRUE
    /\ retryingSeq' = event
    /\ retryTimers' = retryTimers + 1
    /\ UNCHANGED <<storeVars, history, retries, triggers, earlyTimers, faults>>

\* The next attempt, or the panic that stops the process.
RetryOrPanic ==
    /\ IF saveTries < SaveRetries
       THEN saveTries' = saveTries + 1 /\ UNCHANGED pc
       ELSE pc' = "panicked" /\ UNCHANGED saveTries
    /\ UNCHANGED <<storeVars, history, batch, event, accepted, retry, timing>>

SaveFails ==
    /\ pc \in {"saveSent", "saveRetry"}
    /\ Fault("saveFail")
    /\ UNCHANGED cursor
    /\ RetryOrPanic

SaveLost ==
    /\ Fault("saveLost")
    /\ \/ pc = "saveSent" /\ StoreSent
       \/ pc = "saveRetry" /\ StoreRetry
    /\ RetryOrPanic

-----------------------------------------------------------------------------
(***************************************************************************)
(* mute.  Requests reach the broker goroutine through muteRequests and are *)
(* served between two runs of the sender.  MuteEventsWithTxID is a single  *)
(* INSERT outside any transaction: when it fails nothing changes, but it   *)
(* may also take effect and report an error, and then mute returns before  *)
(* it gets to the retry state.                                             *)
(***************************************************************************)

\* The retry state is "reset" only while a retry is due, and even then
\* httpCallbackIsRetrying and httpCallbackRetryingSeq keep their values.
ResetRetryState == retries' = IF isRetrying THEN 0 ELSE retries

\* History: the mute of tx leaves in place a counter that is not zero.
Carry(tx) == carried' = IF retries > 0 THEN carried \cup {tx} ELSE carried

MuteEventsWithTxID(tx) ==
    /\ tx \notin muted
    /\ muted' = muted \cup {tx}
    /\ \/ /\ ResetRetryState
          /\ IF isRetrying THEN UNCHANGED carried ELSE Carry(tx)
          /\ UNCHANGED faults
       \/ Fault("muteLost") /\ Carry(tx) /\ UNCHANGED retries
    /\ UNCHANGED <<up, serial, about, stored, writers, cursor, received, acked, gaveUp,
                   posts, loop, isRetrying, retryingSeq, timing>>

Mute ==
    /\ pc = "idle"
    /\ \E tx \in TxIds : MuteEventsWithTxID(tx)
    /\ UNCHANGED blamed

\* "current_problematic": the transaction of the first visible event at or
\* after httpCallbackRetryingSeq that is not muted.
MuteCurrent ==
    /\ pc = "idle"
    /\ isRetrying
    /\ retryingSeq # -1
    /\ \E s \in stored :
          /\ IsFirst(s, GetEventsFromSeq(retryingSeq))
          /\ IsTxEvent(s)
          /\ MuteEventsWithTxID(about[s])
          /\ blamed' = blamed \cup {about[s]}

-----------------------------------------------------------------------------
(***************************************************************************)
(* The process.                                                            *)
(***************************************************************************)

\* Mutant of MayStart: start without looking at the lock.
MayStartUnchecked == TRUE

\* Check: refuse to start while http_callback_operation names an event.
MayStart == lock = 0

\* Run calls sendHTTPCallbackNotifications before it enters mainLoop.
Start ==
    /\ pc = "down"
    /\ MayStart
    /\ up' = TRUE
    /\ pc' = "read"
    /\ UNCHANGED <<serial, about, stored, writers, muted, cursor, history, batch, event,
                   accepted, saveTries, retry, timing, faults>>

Down ==
    /\ ProcessDies
    /\ pc' = "down"
    /\ batch' = {}
    /\ event' = 0
    /\ accepted' = FALSE
    /\ saveTries' = 0
    /\ retries' = 0
    /\ isRetrying' = FALSE
    /\ retryingSeq' = -1
    /\ triggers' = << >>
    /\ retryTimers' = 0
    /\ earlyTimers' = 0
    /\ UNCHANGED <<serial, about, stored, muted, cursor, history>>

Crash ==
    /\ up
    /\ Fault("crash")
    /\ Down

\* main stops the other components once the broker has panicked.
Exit ==
    /\ pc = "panicked"
    /\ Down
    /\ UNCHANGED faults

\* What the message of Check asks for: find out whether the event was
\* delivered, update last_http_sent_seq accordingly, delete the lock.
OperatorResolves ==
    /\ pc = "down"
    /\ lock # 0
    /\ lastSent' = IF lock \in received THEN lock ELSE lastSent
    /\ lock' = 0
    /\ UNCHANGED <<storeVars, history, loop, retry, timing, faults>>

-----------------------------------------------------------------------------
Writer ==
    /\ WriterStep
    /\ UNCHANGED <<cursor, history, loop, retry, timing, faults>>

\* The call of http.Post ends, with an answer or an error.
PostReturns == PostSucceeds \/ PostFails

\* What the broker goroutine does without waiting for the endpoint.
OwnStep ==
    \/ TriggerIgnored
    \/ TriggerTaken
    \/ ReadEvents
    \/ ReadFails
    \/ LoopEnds
    \/ SkipNewAddress
    \/ LockHTTPCallback
    \/ LockLost
    \/ Post
    \/ SaveSent
    \/ SaveRetry
    \/ SaveFails
    \/ SaveLost

SenderStep == OwnStep \/ PostReturns

Next ==
    \/ Writer
    \/ SendNotifications
    \/ EarlyTimerFires
    \/ RetryTimerFires
    \/ SenderStep
    \/ Mute
    \/ MuteCurrent
    \/ Start
    \/ Crash
    \/ Exit
    \/ OperatorResolves

Spec == Init /\ [][Next]_vars

\* The broker goroutine keeps running, timers expire, the wallet goes on
\* polling (and so calling SendNotifications), and a stopped process is
\* restarted, after the operator has done what Check asks for.  A goroutine
\* blocked in a send gets the next slot of the channel that becomes free, even
\* if others keep filling it: hence strong fairness for the retry.  Nothing is
\* assumed of the writers, nor of what the client's endpoint answers; but the
\* endpoint must answer, or its connection break, WF_vars(PostReturns), for
\* http.Post uses the default client, which has no timeout.
Fairness ==
    /\ WF_vars(OwnStep)
    /\ WF_vars(PostReturns)
    /\ WF_vars(SendNotifications)
    /\ WF_vars(EarlyTimerFires)
    /\ SF_vars(RetryTimerFires)
    /\ WF_vars(Exit)
    /\ WF_vars(OperatorResolves)
    /\ WF_vars(Start)

FairSpec == Spec /\ Fairness

-----------------------------------------------------------------------------
\* An event is behind the sender: the cursor is at or past it.
Passed(s) == s <= lastSent

\* No event about a transaction is skipped: each visible one that the cursor
\* has passed was taken by the client's endpoint, given up, or muted.  Rows
\* become visible out of order, so this rests on what may move the cursor.
NothingSkipped ==
    \A s \in stored :
        IsTxEvent(s) /\ Passed(s)
            => s \in received \cup gaveUp \/ about[s] \in muted

\* An event the client has answered with status 200 is never sent again, even
\* if the process dies before the cursor is saved (the dirty bit and Check).
AcknowledgedNeverResent ==
    [][Post => event \notin acked]_vars

\* An event is never sent after a later one: retries, mutes, crashes and
\* restarts do not reorder what the client sees.
SentInOrder ==
    [][Post => \A s \in Seqs : s > event => posts[s] = 0]_vars

RetriesDue == retryTimers + Cardinality({i \in DOMAIN triggers : triggers[i]})

\* While httpCallbackIsRetrying holds back all other triggers, exactly one
\* retry is on its way (a timer, or a TRUE in the channel); otherwise none
\* is, so retries can neither be lost nor pile up.
OneRetryDue == up => RetriesDue = IF isRetrying THEN 1 ELSE 0

\* httpCallbackRetries belongs to the sender and not to an event.  Still an
\* event is given up only after Backoff POSTs of that very event, or else the
\* counter went on from the POSTs of an earlier event, whose transaction was
\* muted while nothing reset it: after an early error, when no retry is due,
\* or by an INSERT that reported an error though it took effect.
GivenUpAfterBackoff ==
    \A s \in gaveUp :
        \/ posts[s] >= Backoff
        \/ \E t \in Seqs : t < s /\ about[t] \in carried /\ posts[t] > 0

\* A transaction muted as "current_problematic" is one whose event the broker
\* has at least once tried to deliver.
BlamedWasTried ==
    \A tx \in blamed : \E s \in Seqs : about[s] = tx /\ posts[s] > 0

\* Every visible event about a transaction is eventually delivered, given up
\* or muted, whatever the client's endpoint answers, as long as every POST
\* returns.
EveryEventSettled ==
    \A s \in Seqs :
        (s \in stored /\ IsTxEvent(s))
            ~> (Passed(s) \/ about[s] \in muted)
=============================================================================
