---------------------------- MODULE Broadcaster ----------------------------
(***************************************************************************)
(* The websocket side of the event broker (events/broadcaster.go,          *)
(* events/websocket.go) and the connection handlers that feed from it      *)
(* (api/websocket.go).                                                     *)
(*                                                                         *)
(* The broadcaster remembers for each subscriber the sequence number it is *)
(* to get next, and in minSeq where its next query has to start.  A        *)
(* subscriber has a bounded channel of slices; one whose channel is full   *)
(* is disconnected.  Each operation holds the broadcaster's mutex, so it   *)
(* is one step.  Names that HTTPCallback, the other half of the broker,    *)
(* has as well are told apart by WS.                                       *)
(***************************************************************************)
EXTENDS EventStore, Sequences

CONSTANTS
    Clients,           \* websocket connections that may be open at the same time
    ChannelSize,       \* channelSize: slices a subscriber's channel holds
    WSTriggerCapacity, \* capacity of wsNotificationTrigger
    MaxWSFaults        \* bound: how many failures happen in a behaviour

ASSUME BroadcasterAssumption ==
    /\ ChannelSize \in Nat \ {0}
    /\ WSTriggerCapacity \in Nat \ {0}
    /\ MaxWSFaults \in Nat

VARIABLES
    conn,       \* the subscriber's channel: "none", "open", or "closed" by the broadcaster
    from,       \* the sequence number the client asked for
    subs,       \* subs[ch]: the sequence number the subscriber gets next
    queue,      \* the channel: slices of events, as sets of sequence numbers
    got,        \* events written to the connection
    minSeq,     \* where the next query starts
    wsTriggers, \* signals waiting in wsNotificationTrigger
    timers,     \* outstanding AfterFunc(3s, triggerWSNotificationSending)
    late,       \* events that became visible after an event with a higher number
    wsFaults    \* failures so far

subscribers == <<conn, from, subs, queue, got>>
wsVars == <<storeVars, subscribers, minSeq, wsTriggers, timers, late, wsFaults>>

Positions == 0 .. MaxSeq + 1

\* Every variable holds a value of the kind the code gives it; in particular
\* no channel ever holds more than its capacity.
WSTypeOK ==
    /\ StoreTypeOK
    /\ conn \in [Clients -> {"none", "open", "closed"}]
    /\ from \in [Clients -> Positions]
    /\ subs \in [Clients -> Positions]
    /\ queue \in [Clients -> Seq(SUBSET Seqs)]
    /\ \A c \in Clients : Len(queue[c]) <= ChannelSize
    /\ got \in [Clients -> SUBSET Seqs]
    /\ minSeq \in Positions
    /\ wsTriggers \in 0 .. WSTriggerCapacity
    /\ timers \in Nat
    /\ late \subseteq Seqs
    /\ wsFaults \in 0 .. MaxWSFaults

WSInit ==
    /\ StoreInit
    /\ conn = [c \in Clients |-> "none"]
    /\ from = [c \in Clients |-> 0]
    /\ subs = [c \in Clients |-> 0]
    /\ queue = [c \in Clients |-> << >>]
    /\ got = [c \in Clients |-> {}]
    /\ minSeq = 0
    /\ wsTriggers = 0
    /\ timers = 0
    /\ late = {}
    /\ wsFaults = 0

-----------------------------------------------------------------------------
\* A step of a writer.  late is a history variable: it collects the rows that
\* a commit makes visible below one that is visible already.
WSWriter ==
    /\ WriterStep
    /\ late' = late \cup {s \in stored' \ stored : \E t \in stored : t > s}
    /\ UNCHANGED <<subscribers, minSeq, wsTriggers, timers, wsFaults>>

WSMute ==
    /\ up
    /\ \E tx \in TxIds \ muted : muted' = muted \cup {tx}
    /\ UNCHANGED <<up, serial, about, stored, writers, subscribers, minSeq, wsTriggers,
                   timers, late, wsFaults>>

\* A non-blocking send.
triggerWSNotificationSending ==
    wsTriggers' = IF wsTriggers < WSTriggerCapacity THEN wsTriggers + 1 ELSE wsTriggers

WSSendNotifications ==
    /\ up
    /\ triggerWSNotificationSending
    /\ UNCHANGED <<storeVars, subscribers, minSeq, timers, late, wsFaults>>

TimerFires ==
    /\ up
    /\ timers > 0
    /\ timers' = timers - 1
    /\ triggerWSNotificationSending
    /\ UNCHANGED <<storeVars, subscribers, minSeq, late, wsFaults>>

\* The connection of c is over and its channel garbage.
Forget(c) ==
    /\ conn' = [conn EXCEPT ![c] = "none"]
    /\ from' = [from EXCEPT ![c] = 0]
    /\ subs' = [subs EXCEPT ![c] = 0]
    /\ queue' = [queue EXCEPT ![c] = << >>]
    /\ got' = [got EXCEPT ![c] = {}]

-----------------------------------------------------------------------------
(***************************************************************************)
(* SubscribeFromSeq and Unsubscribe, called by the connection's handler.   *)
(***************************************************************************)

\* Mutant of LowerMinSeq: a subscriber that wants old events does not make
\* the next query start earlier.
LowerMinSeqNot(seq) == UNCHANGED minSeq

LowerMinSeq(seq) == minSeq' = IF seq < minSeq THEN seq ELSE minSeq

SubscribeFromSeq(c, seq) ==
    /\ up
    /\ conn[c] = "none"
    /\ conn' = [conn EXCEPT ![c] = "open"]
    /\ from' = [from EXCEPT ![c] = seq]
    /\ subs' = [subs EXCEPT ![c] = seq]
    /\ LowerMinSeq(seq)
    /\ triggerWSNotificationSending
    /\ UNCHANGED <<storeVars, queue, got, timers, late, wsFaults>>

\* The client closes the connection, or a write to it fails.
Unsubscribe(c) ==
    /\ conn[c] # "none"
    /\ Forget(c)
    /\ UNCHANGED <<storeVars, minSeq, wsTriggers, timers, late, wsFaults>>

\* The handler takes a slice from the channel and writes its events.  A
\* closed channel is drained first.
Write(c) ==
    /\ conn[c] # "none"
    /\ queue[c] # << >>
    /\ got' = [got EXCEPT ![c] = @ \cup Head(queue[c])]
    /\ queue' = [queue EXCEPT ![c] = Tail(@)]
    /\ UNCHANGED <<storeVars, conn, from, subs, minSeq, wsTriggers, timers, late, wsFaults>>

\* The handler finds the channel closed and empty.
HandlerEnds(c) ==
    /\ conn[c] = "closed"
    /\ queue[c] = << >>
    /\ Forget(c)
    /\ UNCHANGED <<storeVars, minSeq, wsTriggers, timers, late, wsFaults>>

-----------------------------------------------------------------------------
(***************************************************************************)
(* Broadcast.                                                              *)
(***************************************************************************)

\* Mutant of Wanted: the event the subscriber is to get next is left out.
WantedStrict(c, events) == {s \in events : s > subs[c]}

\* events[i:] for the first event the subscriber has not had.
Wanted(c, events) == {s \in events : s >= subs[c]}

Feeds(c, events) == conn[c] = "open" /\ Wanted(c, events) # {}

HasRoom(c) == Len(queue[c]) < ChannelSize

\* Mutant of Advanced: the subscriber's position stays where it was.
AdvancedNot(c, nextSeq) == subs[c]

Advanced(c, nextSeq) == nextSeq

\* The subscribers with something new get it in one slice; those without room
\* are disconnected; minSeq moves past everything that was read.
BroadcastEvents(events, nextSeq) ==
    LET served == {c \in Clients : Feeds(c, events) /\ HasRoom(c)}
        dropped == {c \in Clients : Feeds(c, events) /\ ~HasRoom(c)}
    IN  /\ queue' = [c \in Clients |->
                        IF c \in served THEN Append(queue[c], Wanted(c, events))
                                        ELSE queue[c]]
        /\ subs' = [c \in Clients |->
                        IF c \in served THEN Advanced(c, nextSeq) ELSE subs[c]]
        /\ conn' = [c \in Clients |-> IF c \in dropped THEN "closed" ELSE conn[c]]
        /\ minSeq' = nextSeq

TakeTrigger == up /\ wsTriggers > 0 /\ wsTriggers' = wsTriggers - 1

Broadcast ==
    /\ TakeTrigger
    /\ LET events == GetEventsFromSeq(minSeq)
       IN  \/ events = {} /\ UNCHANGED <<subscribers, minSeq>>
           \/ \E s \in events : /\ IsLast(s, events)
                                /\ BroadcastEvents(events, s + 1)
                                /\ UNCHANGED <<from, got>>
    /\ UNCHANGED <<storeVars, timers, late, wsFaults>>

BroadcastFails ==
    /\ TakeTrigger
    /\ wsFaults < MaxWSFaults
    /\ wsFaults' = wsFaults + 1
    /\ timers' = timers + 1
    /\ UNCHANGED <<storeVars, subscribers, minSeq, late>>

-----------------------------------------------------------------------------
WSStart ==
    /\ ~up
    /\ up' = TRUE
    /\ UNCHANGED <<serial, about, stored, writers, muted, subscribers, minSeq, wsTriggers,
                   timers, late, wsFaults>>

\* All connections break, and the broadcaster starts from nothing.
WSCrash ==
    /\ up
    /\ wsFaults < MaxWSFaults
    /\ wsFaults' = wsFaults + 1
    /\ ProcessDies
    /\ conn' = [c \in Clients |-> "none"]
    /\ from' = [c \in Clients |-> 0]
    /\ subs' = [c \in Clients |-> 0]
    /\ queue' = [c \in Clients |-> << >>]
    /\ got' = [c \in Clients |-> {}]
    /\ minSeq' = 0
    /\ wsTriggers' = 0
    /\ timers' = 0
    /\ UNCHANGED <<serial, about, stored, muted, late>>

WSNext ==
    \/ WSWriter
    \/ WSMute
    \/ WSSendNotifications
    \/ TimerFires
    \/ \E c \in Clients : \/ \E seq \in Positions : SubscribeFromSeq(c, seq)
                          \/ Unsubscribe(c)
                          \/ Write(c)
                          \/ HandlerEnds(c)
    \/ Broadcast
    \/ BroadcastFails
    \/ WSStart
    \/ WSCrash

WSSpec == WSInit /\ [][WSNext]_wsVars

\* The broker goroutine keeps taking triggers: it also sends the callbacks, so
\* this assumes that their POSTs return, though they have no timeout.  The
\* wallet goes on polling and so calling SendNotifications, and the handler of
\* an open connection keeps writing: the client reads, or the write fails.
WSFairness ==
    /\ WF_wsVars(Broadcast)
    /\ WF_wsVars(WSSendNotifications)
    /\ WF_wsVars(TimerFires)
    /\ \A c \in Clients : WF_wsVars(Write(c))

WSFairSpec == WSSpec /\ WSFairness

-----------------------------------------------------------------------------
Queued(c) == UNION {queue[c][i] : i \in DOMAIN queue[c]}

Has(c, s) == s \in got[c] \cup Queued(c)

\* The next query will find s, and the subscriber will be given it.
StillToCome(c, s) == s >= minSeq /\ s >= subs[c]

\* A visible event that a connected client asked for.
Owed(c, s) ==
    /\ conn[c] = "open"
    /\ s \in stored
    /\ s >= from[c]
    /\ about[s] \notin muted

\* A subscriber misses nothing: every visible event from the number it asked
\* for on has been put into its channel or will be, whatever the other
\* subscribers ask for and whenever they come.  Only an event that became
\* visible after one with a higher number may be missed.
NothingMissed ==
    \A c \in Clients, s \in Seqs \ late :
        Owed(c, s) => Has(c, s) \/ StillToCome(c, s)

\* The same without the exception, as SubscribeFromSeq is documented: it
\* "allows to get old events starting with given sequence number and new
\* ones".
EveryEventReachesSubscribers ==
    \A c \in Clients, s \in Seqs :
        Owed(c, s) => Has(c, s) \/ StillToCome(c, s)

\* A client gets its events in the order of their numbers and none twice.
WrittenInOrder ==
    [][\A c \in Clients :
          Write(c) => \A s \in Head(queue[c]), t \in got[c] : t < s]_wsVars

\* A client that stays connected eventually gets every event it asked for.
EveryEventWritten ==
    \A c \in Clients, s \in Seqs :
        (Owed(c, s) /\ s \notin late) ~> (s \in got[c] \/ ~Owed(c, s))
=============================================================================
