--------------------------- MODULE WebsocketClient ---------------------------
(***************************************************************************)
(* One websocket connection from end to end: the client library            *)
(* (api/client/websocket.go) as the listener of the integration tests and  *)
(* the command line client use it, the connection, and the handler of the  *)
(* API server (api/websocket.go) with the channel the broadcaster fills.   *)
(*                                                                         *)
(* The library runs two goroutines: the reader hands every notification to *)
(* the callback, the writer subscribes and carries out Close.  The server  *)
(* runs two as well: the handler writes events, the watcher waits for the  *)
(* client's close message.  Each direction of the connection is a queue;   *)
(* writes to a full one block, an end that has been closed fails.          *)
(***************************************************************************)
EXTENDS Integers, Sequences

CONSTANTS
    StartSeq,     \* the first event the client asks for
    MaxSeq,       \* bound: events in a behaviour
    ChannelSize,  \* slices a subscriber's channel holds
    Window,       \* messages the connection holds on their way to the client
    Messages,     \* messages the listener's own channel holds
    MayDie        \* whether a process may die

ASSUME WebsocketAssumption ==
    /\ MaxSeq \in Nat /\ StartSeq \in 1 .. MaxSeq
    /\ ChannelSize \in Nat \ {0} /\ Window \in Nat \ {0} /\ Messages \in Nat
    /\ MayDie \in BOOLEAN

VARIABLES
    events,    \* events stored so far; their numbers are 1 .. events
    next,      \* the first one the broadcaster has not sent to this subscriber
    channel,   \* eventSequenceQueue: the slices in it
    subscribed,\* the broadcaster has the channel, which is open
    handler,   \* where handleWebsocketConnection is
    slice,     \* the events it has still to write
    watcher,   \* its goroutine that reads from the client
    closeSent, \* the server has sent a close message: later writes fail
    toClient,  \* messages on the way to the client ...
    toServer,  \* ... and to the server
    serverEnd, \* the server's end of the connection is open
    clientEnd, \* the client's end is
    writer,    \* the client's goroutine that writes
    reader,    \* the client's goroutine that reads; "ended": done is closed
    got,       \* events given to the callback
    queued,    \* those of them in the listener's channel
    owner      \* the caller of Close: "open", "closing", "closed"

broker == <<events, next, channel, subscribed>>
server == <<handler, slice, watcher, closeSent, serverEnd>>
client == <<writer, reader, got, queued, clientEnd, owner>>
vars == <<broker, server, client, toClient, toServer>>

Close == 0      \* a close message; an event is its number
Subscribe == 1  \* a SubscribeMessage

SliceType == Seq(1 .. MaxSeq)

\* The types of the state; no channel and no window holds more than it may.
TypeOK ==
    /\ events \in 0 .. MaxSeq
    /\ next \in 1 .. MaxSeq + 1
    /\ channel \in Seq(SliceType) /\ Len(channel) <= ChannelSize
    /\ subscribed \in BOOLEAN
    /\ handler \in {"reading", "serving", "ended"}
    /\ slice \in SliceType
    /\ watcher \in {"none", "watching", "ended"}
    /\ closeSent \in BOOLEAN
    /\ toClient \in Seq(0 .. MaxSeq) /\ Len(toClient) <= Window
    /\ toServer \in Seq({Subscribe, Close})
    /\ serverEnd \in BOOLEAN /\ clientEnd \in BOOLEAN
    /\ writer \in {"subscribing", "selecting", "waiting", "finished", "ended"}
    /\ reader \in {"reading", "callback", "ended", "panicked"}
    /\ got \in Seq(1 .. MaxSeq)
    /\ queued \in 0 .. Messages
    /\ owner \in {"open", "closing", "closed"}

Init ==
    /\ events = 0
    /\ next = StartSeq
    /\ channel = << >>
    /\ subscribed = FALSE
    /\ handler = "reading" /\ slice = << >>
    /\ watcher = "none"
    /\ closeSent = FALSE
    /\ toClient = << >> /\ toServer = << >>
    /\ serverEnd = TRUE /\ clientEnd = TRUE
    /\ writer = "subscribing"
    /\ reader = "reading"
    /\ got = << >> /\ queued = 0
    /\ owner = "open"

-----------------------------------------------------------------------------
(* The broker.                                                             *)

StoreEvent ==
    /\ events < MaxSeq
    /\ events' = events + 1
    /\ UNCHANGED <<next, channel, subscribed, server, client, toClient, toServer>>

\* Mutant of Broadcast: what does not fit into the channel is dropped.
BroadcastDrops ==
    /\ subscribed
    /\ next <= events
    /\ channel' = IF Len(channel) < ChannelSize
                  THEN Append(channel, [n \in 1 .. events - next + 1 |-> next + n - 1])
                  ELSE channel
    /\ next' = events + 1
    /\ UNCHANGED <<subscribed, events, server, client, toClient, toServer>>

\* All events the subscriber wants, as one slice; a full channel is closed.
Broadcast ==
    /\ subscribed
    /\ next <= events
    /\ IF Len(channel) < ChannelSize
       THEN /\ channel' = Append(channel, [n \in 1 .. events - next + 1 |-> next + n - 1])
            /\ next' = events + 1
            /\ UNCHANGED subscribed
       ELSE subscribed' = FALSE /\ UNCHANGED <<channel, next>>
    /\ UNCHANGED <<events, server, client, toClient, toServer>>

-----------------------------------------------------------------------------
(* handleWebsocketConnection.                                              *)

\* It returns: UnsubscribeFromSeq and conn.Close are deferred.
HandlerReturns ==
    /\ handler' = "ended"
    /\ slice' = << >>
    /\ subscribed' = FALSE
    /\ serverEnd' = FALSE

\* readSeqFromClient, SubscribeFromSeq, and the watcher is started.
ReadSeqFromClient ==
    /\ handler = "reading"
    /\ toServer # << >> /\ Head(toServer) = Subscribe
    /\ toServer' = Tail(toServer)
    /\ handler' = "serving"
    /\ watcher' = "watching"
    /\ subscribed' = TRUE
    /\ UNCHANGED <<events, next, channel, slice, closeSent, serverEnd, client, toClient>>

\* The client has gone without a subscription: its read fails, and so does
\* the close message of shutdownConnection.
NoSeqFromClient ==
    /\ handler = "reading"
    /\ toServer = << >> /\ ~clientEnd
    /\ HandlerReturns
    /\ UNCHANGED <<events, next, channel, watcher, closeSent, client, toClient, toServer>>

TakeSlice ==
    /\ handler = "serving" /\ slice = << >>
    /\ channel # << >>
    /\ slice' = Head(channel)
    /\ channel' = Tail(channel)
    /\ UNCHANGED <<events, next, subscribed, handler, watcher, closeSent, serverEnd,
                   client, toClient, toServer>>

\* WriteJSON blocks while the connection is full.
WriteEvent ==
    /\ slice # << >>
    /\ ~closeSent
    /\ Len(toClient) < Window
    /\ toClient' = Append(toClient, Head(slice))
    /\ slice' = Tail(slice)
    /\ UNCHANGED <<broker, handler, watcher, closeSent, serverEnd, client, toServer>>

WriteFails ==
    /\ slice # << >>
    /\ closeSent \/ ~clientEnd
    /\ HandlerReturns
    /\ UNCHANGED <<events, next, channel, watcher, closeSent, client, toClient, toServer>>

\* The broadcaster has closed the channel, and it is empty.
ChannelClosed ==
    /\ handler = "serving" /\ slice = << >>
    /\ ~subscribed /\ channel = << >>
    /\ HandlerReturns
    /\ UNCHANGED <<events, next, channel, watcher, closeSent, client, toClient, toServer>>

\* Mutant of ClientClosedConnection: nobody waits for the watcher.
ClientClosedConnectionIgnored == FALSE /\ UNCHANGED vars

ClientClosedConnection ==
    /\ handler = "serving" /\ slice = << >>
    /\ watcher = "ended"
    /\ HandlerReturns
    /\ UNCHANGED <<events, next, channel, watcher, closeSent, client, toClient, toServer>>

\* The websocket library answers a close message, if it can, and reports it.
WatcherReads ==
    /\ watcher = "watching"
    /\ \/ /\ toServer # << >> /\ Head(toServer) = Close /\ serverEnd
          /\ toServer' = Tail(toServer)
          /\ closeSent' = (closeSent \/ Len(toClient) < Window)
          /\ toClient' = IF ~closeSent /\ Len(toClient) < Window
                         THEN Append(toClient, Close) ELSE toClient
       \/ /\ ~serverEnd \/ (toServer = << >> /\ ~clientEnd)
          /\ UNCHANGED <<toServer, toClient, closeSent>>
    /\ watcher' = "ended"
    /\ UNCHANGED <<broker, handler, slice, serverEnd, client>>

ServerDies ==
    /\ MayDie /\ serverEnd
    /\ HandlerReturns
    /\ watcher' = "ended"
    /\ UNCHANGED <<events, next, channel, closeSent, client, toClient, toServer>>

-----------------------------------------------------------------------------
(* The client library.                                                     *)

ReaderIs(state) == reader' = state /\ UNCHANGED <<writer, clientEnd, owner>>

\* ReadJSON returns a notification, and the callback gets it.  What has
\* arrived can be read even after the connection was closed.
ReadNotification ==
    /\ reader = "reading"
    /\ toClient # << >> /\ Head(toClient) # Close
    /\ toClient' = Tail(toClient)
    /\ got' = Append(got, Head(toClient))
    /\ ReaderIs("callback")
    /\ UNCHANGED <<broker, server, queued, toServer>>

\* ReadJSON fails, and done is closed.
ReadFails ==
    /\ reader = "reading"
    /\ \/ toClient # << >> /\ Head(toClient) = Close
       \/ toClient = << >> /\ ~serverEnd
       \/ ~clientEnd
    /\ ReaderIs("ended")
    /\ UNCHANGED <<broker, server, got, queued, toClient, toServer>>

\* processMessage of the listener: it blocks while its channel is full.
CallbackReturns ==
    /\ reader = "callback"
    /\ owner # "closed"
    /\ queued < Messages
    /\ queued' = queued + 1
    /\ ReaderIs("reading")
    /\ UNCHANGED <<broker, server, got, toClient, toServer>>

\* Stop has closed the listener's channel, and to send to it is a panic.
CallbackPanics ==
    /\ reader = "callback"
    /\ owner = "closed"
    /\ ReaderIs("panicked")
    /\ UNCHANGED <<broker, server, got, queued, toClient, toServer>>

\* The test takes a message.
GetNextMessage ==
    /\ queued > 0
    /\ queued' = queued - 1
    /\ UNCHANGED <<broker, server, writer, reader, got, clientEnd, owner, toClient, toServer>>

\* An error is logged, and the goroutine goes on.
WriteSubscribe ==
    /\ writer = "subscribing"
    /\ writer' = "selecting"
    /\ toServer' = IF serverEnd THEN Append(toServer, Subscribe) ELSE toServer
    /\ UNCHANGED <<broker, server, reader, got, queued, clientEnd, owner, toClient>>

\* Mutant of ReaderDone: the writer waits for the interrupt only.
ReaderDoneIgnored == FALSE /\ UNCHANGED vars

ReaderDone ==
    /\ writer \in {"selecting", "waiting"}
    /\ reader = "ended"
    /\ writer' = "finished"
    /\ UNCHANGED <<broker, server, reader, got, queued, clientEnd, owner, toClient, toServer>>

\* The interrupt channel is closed: the close message goes out, or fails.
Interrupted ==
    /\ writer = "selecting"
    /\ owner # "open"
    /\ \/ toServer' = Append(toServer, Close) /\ writer' = "waiting"
       \/ ~serverEnd /\ writer' = "finished" /\ UNCHANGED toServer
    /\ UNCHANGED <<broker, server, reader, got, queued, clientEnd, owner, toClient>>

\* Mutant of WaitTimesOut: the server is waited for without a limit.
WaitTimesOutNever == FALSE /\ UNCHANGED vars

WaitTimesOut ==
    /\ writer = "waiting"
    /\ writer' = "finished"
    /\ UNCHANGED <<broker, server, reader, got, queued, clientEnd, owner, toClient, toServer>>

\* clientFinished is closed before the connection is.
CloseConnection ==
    /\ writer = "finished"
    /\ writer' = "ended"
    /\ clientEnd' = FALSE
    /\ UNCHANGED <<broker, server, reader, got, queued, owner, toClient, toServer>>

\* Close: at a signal, at the end of a test, or when Done is closed.
CallClose ==
    /\ owner = "open"
    /\ owner' = "closing"
    /\ UNCHANGED <<broker, server, writer, reader, got, queued, clientEnd, toClient, toServer>>

CloseReturnsStep ==
    /\ owner = "closing"
    /\ writer \in {"finished", "ended"}
    /\ owner' = "closed"
    /\ UNCHANGED <<broker, server, writer, reader, got, queued, clientEnd, toClient, toServer>>

ClientDies ==
    /\ MayDie /\ clientEnd
    /\ clientEnd' = FALSE
    /\ reader' = "ended" /\ writer' = "ended" /\ owner' = "closed"
    /\ UNCHANGED <<broker, server, got, queued, toClient, toServer>>

-----------------------------------------------------------------------------
HandlerStep ==
    \/ ReadSeqFromClient \/ NoSeqFromClient
    \/ TakeSlice \/ WriteEvent \/ WriteFails \/ ChannelClosed \/ ClientClosedConnection

WriterStep ==
    WriteSubscribe \/ ReaderDone \/ Interrupted \/ WaitTimesOut \/ CloseConnection

ReaderStep == ReadNotification \/ ReadFails \/ CallbackReturns \/ CallbackPanics

Next ==
    \/ StoreEvent \/ Broadcast \/ GetNextMessage \/ CallClose
    \/ ServerDies \/ ClientDies
    \/ HandlerStep
    \/ WatcherReads
    \/ WriterStep
    \/ ReaderStep
    \/ CloseReturnsStep

\* Each goroutine executes its next statement.  Nobody has to take messages
\* from the listener, and nobody has to call Close.
Spec ==
    /\ Init /\ [][Next]_vars
    /\ WF_vars(HandlerStep) /\ WF_vars(WatcherReads)
    /\ WF_vars(WriterStep) /\ WF_vars(ReaderStep) /\ WF_vars(CloseReturnsStep)

-----------------------------------------------------------------------------
(* Properties.                                                             *)

\* The callback gets every event from StartSeq on, in order, none left out
\* and none twice, however slices, blocked writes and an overflow of the
\* subscriber's channel come together: the connection ends before it skips.
GotWithoutGap == \A n \in 1 .. Len(got) : got[n] = StartSeq + n - 1

\* Close returns, also while the callback is blocked, the connection is full,
\* or the server is gone or never answers.
CloseReturns == owner = "closing" ~> owner = "closed"

\* Once the client has left, the handler ends and its subscription with it,
\* whether or not there is ever another event to write.
SubscriptionEnds == ~clientEnd ~> handler = "ended" /\ watcher # "watching" /\ ~subscribed

\* When the server's side has ended, the client finds out without having to
\* call Close, unless its callback never returns.
EndIsNoticed == handler = "ended" ~> writer = "ended" \/ reader = "callback"
=============================================================================
