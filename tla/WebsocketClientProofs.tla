----------------------- MODULE WebsocketClientProofs -----------------------
(***************************************************************************)
(* Proofs about a websocket connection, for every channel, window and      *)
(* number of events: nothing gets lost on the way from the broadcaster to  *)
(* the client's callback.                                                  *)
(***************************************************************************)
EXTENDS WebsocketClient, TLAPS

-----------------------------------------------------------------------------
(* The inductive invariant.                                                *)

\* s holds the numbers first, first + 1, ...
Consecutive(s, first) == \A i \in 1 .. Len(s) : s[i] = first + i - 1

\* The first number that has not reached the client's callback, the one that
\* has not been written, and the one that has not been taken from the channel.
ToRead == StartSeq + Len(got)
ToWrite == ToRead + Len(toClient)
ToTake == ToWrite + Len(slice)

\* What is on its way follows what was read; a close message is the last.
WireInv ==
    \A i \in 1 .. Len(toClient) :
        IF toClient[i] = Close THEN closeSent /\ i = Len(toClient)
        ELSE toClient[i] = ToRead + i - 1

\* The slices of the channel lie between ToTake and the broadcaster's position.
ChannelInv ==
    /\ \A k \in 1 .. Len(channel) :
         /\ channel[k] # << >>
         /\ Consecutive(channel[k], channel[k][1])
         /\ channel[k][1] = IF k = 1 THEN ToTake
                            ELSE channel[k - 1][1] + Len(channel[k - 1])
    /\ next = IF channel = << >> THEN ToTake
              ELSE channel[Len(channel)][1] + Len(channel[Len(channel)])

\* While the handler may write, nothing is missing between the callback and
\* the broadcaster.
PipelineInv ==
    /\ slice # << >> => handler = "serving"
    /\ handler # "ended" /\ ~closeSent => Consecutive(slice, ToWrite) /\ ChannelInv

ClientInv == TypeOK /\ GotWithoutGap /\ WireInv /\ PipelineInv

-----------------------------------------------------------------------------
(* Sequences.                                                              *)

\* A run stays one when its next number is appended.
LEMMA ConsecutiveAppend ==
    ASSUME NEW S \in SUBSET Int, NEW s \in Seq(S), NEW first \in Int, Consecutive(s, first),
           NEW e \in S, e = first + Len(s)
    PROVE  Append(s, e) \in Seq(S) /\ Consecutive(Append(s, e), first)
BY DEF Consecutive

\* A run without its first element is a run.
LEMMA ConsecutiveTail ==
    ASSUME NEW S \in SUBSET Int, NEW s \in Seq(S), NEW first \in Int, Consecutive(s, first), s # << >>
    PROVE  /\ Head(s) = first /\ Tail(s) \in Seq(S) /\ Len(Tail(s)) = Len(s) - 1
           /\ Consecutive(Tail(s), first + 1)
BY DEF Consecutive

-----------------------------------------------------------------------------
(* Types.                                                                  *)

\* The initial state satisfies the invariant.
LEMMA InitInv == ASSUME Init PROVE ClientInv
<1>. USE WebsocketAssumption
<1>1. TypeOK
  <2>1. << >> \in SliceType /\ << >> \in Seq(SliceType) /\ Len(<< >>) = 0
    BY DEF SliceType
  <2>2. << >> \in Seq(0 .. MaxSeq) /\ << >> \in Seq({Subscribe, Close}) /\ << >> \in Seq(1 .. MaxSeq)
    OBVIOUS
  <2>3. StartSeq \in 1 .. MaxSeq + 1 /\ 0 \in 0 .. MaxSeq /\ 0 \in 0 .. Messages
        /\ 0 <= ChannelSize /\ 0 <= Window
    OBVIOUS
  <2>. QED BY <2>1, <2>2, <2>3 DEF Init, TypeOK
<1>2. GotWithoutGap /\ WireInv
  BY DEF Init, GotWithoutGap, WireInv
<1>3. PipelineInv
  BY DEF Init, PipelineInv, Consecutive, ChannelInv, ToTake, ToWrite, ToRead
<1>. QED
  BY <1>1, <1>2, <1>3 DEF ClientInv

\* The slice a broadcast makes.
NewSlice == [n \in 1 .. events - next + 1 |-> next + n - 1]

\* It is the run of events from the subscriber's position on.
LEMMA NewSliceType ==
    ASSUME TypeOK, next <= events
    PROVE  /\ NewSlice \in Seq(1 .. MaxSeq) /\ NewSlice # << >>
           /\ Len(NewSlice) = events - next + 1
           /\ NewSlice[1] = next /\ Consecutive(NewSlice, next)
<1>1. events \in Nat /\ next \in Nat /\ next >= 1 /\ events <= MaxSeq /\ MaxSeq \in Nat
  BY WebsocketAssumption DEF TypeOK
<1>2. events - next + 1 \in Nat \ {0}
  BY <1>1
<1>3. \A n \in 1 .. events - next + 1 : next + n - 1 \in 1 .. MaxSeq
  BY <1>1
<1>4. NewSlice \in Seq(1 .. MaxSeq)
  <2>. DEFINE k == events - next + 1
              T == 1 .. MaxSeq
  <2>1. k \in Nat /\ \A n \in 1 .. k : next + n - 1 \in T
    BY <1>2, <1>3
  <2>2. NewSlice = [n \in 1 .. k |-> next + n - 1]
    BY DEF NewSlice
  <2>. HIDE DEF k, T
  <2>3. NewSlice \in Seq(T)
    BY <2>1, <2>2
  <2>. QED BY <2>3 DEF T
<1>5. Len(NewSlice) = events - next + 1
  BY <1>2 DEF NewSlice
<1>6. NewSlice # << >>
  BY <1>2, <1>4, <1>5
<1>7. NewSlice[1] = next
  BY <1>1, <1>2 DEF NewSlice
<1>. QED
  BY <1>4, <1>5, <1>6, <1>7 DEF NewSlice, Consecutive

\* The steps of the broker and the server keep every variable in its type.
LEMMA ServerType ==
    ASSUME TypeOK, StoreEvent \/ Broadcast \/ HandlerStep \/ WatcherReads \/ ServerDies
    PROVE  TypeOK'
<1>. USE WebsocketAssumption
<1>1. CASE StoreEvent
  BY <1>1 DEF StoreEvent, TypeOK, server, client
<1>2. CASE Broadcast
  <2>1. CASE Len(channel) < ChannelSize
    <3>1. channel' = Append(channel, NewSlice) /\ next' = events + 1 /\ UNCHANGED subscribed
      BY <1>2, <2>1 DEF Broadcast, NewSlice
    <3>2. NewSlice \in SliceType
      BY <1>2, NewSliceType DEF Broadcast, SliceType
    <3>3. channel' \in Seq(SliceType) /\ Len(channel') <= ChannelSize
      BY <2>1, <3>1, <3>2 DEF TypeOK
    <3>4. next' \in 1 .. MaxSeq + 1
      BY <3>1 DEF TypeOK
    <3>. QED BY <1>2, <3>1, <3>3, <3>4 DEF Broadcast, TypeOK, server, client
  <2>2. CASE ~(Len(channel) < ChannelSize)
    <3>1. subscribed' = FALSE /\ UNCHANGED <<events, next, channel, server, client, toClient, toServer>>
      BY <1>2, <2>2 DEF Broadcast
    <3>. QED BY <3>1, ZenonT(60) DEF TypeOK, server, client
  <2>. QED BY <2>1, <2>2
<1>3. CASE ReadSeqFromClient
  BY <1>3 DEF ReadSeqFromClient, TypeOK, client
<1>4. ASSUME HandlerReturns, UNCHANGED <<events, next, channel, closeSent, client, toClient, toServer>>,
             watcher' \in {"none", "watching", "ended"}
      PROVE  TypeOK'
  <2>1. << >> \in SliceType
    BY DEF SliceType
  <2>. QED BY <1>4, <2>1 DEF HandlerReturns, TypeOK, client
<1>5. CASE NoSeqFromClient \/ WriteFails \/ ChannelClosed \/ ClientClosedConnection \/ ServerDies
  BY <1>4, <1>5 DEF NoSeqFromClient, WriteFails, ChannelClosed, ClientClosedConnection,
     ServerDies, TypeOK
<1>6. CASE TakeSlice
  <2>1. Head(channel) \in SliceType /\ Tail(channel) \in Seq(SliceType)
        /\ Len(Tail(channel)) <= ChannelSize
    BY <1>6 DEF TakeSlice, TypeOK
  <2>. QED BY <1>6, <2>1 DEF TakeSlice, TypeOK, client
<1>7. CASE WriteEvent
  <2>1. Head(slice) \in 0 .. MaxSeq /\ Tail(slice) \in SliceType
    BY <1>7 DEF WriteEvent, TypeOK, SliceType
  <2>. QED BY <1>7, <2>1 DEF WriteEvent, TypeOK, client, broker
<1>8. CASE WatcherReads
  <2>1. /\ UNCHANGED <<broker, handler, slice, serverEnd, client>> /\ watcher' = "ended"
        /\ closeSent' \in BOOLEAN
    BY <1>8 DEF WatcherReads, TypeOK
  <2>2. toServer' \in Seq({Subscribe, Close})
    <3>. DEFINE T == {Subscribe, Close}
    <3>1. toServer \in Seq(T)
      BY DEF TypeOK
    <3>2. toServer' = toServer \/ (toServer # << >> /\ toServer' = Tail(toServer))
      BY <1>8, Zenon DEF WatcherReads
    <3>. HIDE DEF T
    <3>3. toServer # << >> => Tail(toServer) \in Seq(T)
      BY <3>1
    <3>4. toServer' \in Seq(T)
      BY <3>1, <3>2, <3>3
    <3>. QED BY <3>4 DEF T
  <2>3. toClient' \in Seq(0 .. MaxSeq) /\ Len(toClient') <= Window
    <3>. DEFINE room == ~closeSent /\ Len(toClient) < Window
    <3>1. \/ toClient' = toClient
          \/ toClient' = IF room THEN Append(toClient, Close) ELSE toClient
      BY <1>8, Zenon DEF WatcherReads
    <3>2. toClient' = toClient \/ (Len(toClient) < Window /\ toClient' = Append(toClient, 0))
      BY <3>1 DEF Close
    <3>3. toClient \in Seq(0 .. MaxSeq) /\ Len(toClient) <= Window /\ 0 \in 0 .. MaxSeq
      BY DEF TypeOK
    <3>. QED BY <3>2, <3>3
  <2>. QED BY <2>1, <2>2, <2>3 DEF TypeOK, client, broker
<1>. QED
  BY <1>1, <1>2, <1>3, <1>5, <1>6, <1>7, <1>8 DEF HandlerStep

\* So do the steps of the client.
LEMMA ClientType ==
    ASSUME TypeOK, \/ GetNextMessage \/ CallClose \/ ClientDies \/ WriterStep
                   \/ ReaderStep \/ CloseReturnsStep
    PROVE  TypeOK'
<1>. USE WebsocketAssumption
<1>1. CASE ReadNotification
  <2>1. Head(toClient) \in 1 .. MaxSeq /\ Tail(toClient) \in Seq(0 .. MaxSeq)
        /\ Len(Tail(toClient)) <= Window
    BY <1>1 DEF ReadNotification, TypeOK, Close
  <2>. QED BY <1>1, <2>1 DEF ReadNotification, ReaderIs, TypeOK, broker, server
<1>2. CASE ReadFails \/ CallbackReturns \/ CallbackPanics
  BY <1>2, SMTT(60) DEF ReadFails, CallbackReturns, CallbackPanics, ReaderIs, TypeOK, broker, server
<1>3. CASE GetNextMessage \/ CallClose \/ ClientDies \/ CloseReturnsStep
  <2>1. queued' \in 0 .. Messages
    BY <1>3 DEF GetNextMessage, CallClose, ClientDies, CloseReturnsStep, TypeOK
  <2>2. /\ writer' \in {"subscribing", "selecting", "waiting", "finished", "ended"}
        /\ reader' \in {"reading", "callback", "ended", "panicked"}
        /\ owner' \in {"open", "closing", "closed"}
    BY <1>3 DEF GetNextMessage, CallClose, ClientDies, CloseReturnsStep, TypeOK
  <2>3. clientEnd' \in BOOLEAN
    BY <1>3 DEF GetNextMessage, CallClose, ClientDies, CloseReturnsStep, TypeOK
  <2>4. UNCHANGED <<broker, server, got, toClient, toServer>>
    BY <1>3 DEF GetNextMessage, CallClose, ClientDies, CloseReturnsStep
  <2>. QED BY <2>1, <2>2, <2>3, <2>4 DEF TypeOK, broker, server
<1>4. CASE WriterStep
  <2>1. toServer' \in Seq({Subscribe, Close})
    <3>. DEFINE T == {Subscribe, Close}
    <3>1. toServer \in Seq(T) /\ Subscribe \in T /\ Close \in T
      BY DEF TypeOK
    <3>2. \/ toServer' = toServer \/ toServer' = Append(toServer, Subscribe)
          \/ toServer' = Append(toServer, Close)
      BY <1>4 DEF WriterStep, WriteSubscribe, ReaderDone, Interrupted, WaitTimesOut,
         CloseConnection
    <3>. HIDE DEF T
    <3>3. toServer' \in Seq(T)
      BY <3>1, <3>2
    <3>. QED BY <3>3 DEF T
  <2>2. writer' \in {"subscribing", "selecting", "waiting", "finished", "ended"}
    BY <1>4 DEF WriterStep, WriteSubscribe, ReaderDone, Interrupted, WaitTimesOut,
       CloseConnection, TypeOK
  <2>3. clientEnd' \in BOOLEAN
    BY <1>4 DEF WriterStep, WriteSubscribe, ReaderDone, Interrupted, WaitTimesOut,
       CloseConnection, TypeOK
  <2>4. UNCHANGED <<broker, server, reader, got, queued, owner, toClient>>
    BY <1>4 DEF WriterStep, WriteSubscribe, ReaderDone, Interrupted, WaitTimesOut,
       CloseConnection
  <2>. QED BY <2>1, <2>2, <2>3, <2>4 DEF TypeOK, broker, server
<1>. QED
  BY <1>1, <1>2, <1>3, <1>4 DEF ReaderStep

-----------------------------------------------------------------------------
(* The events on their way.                                                *)

\* The positions are numbers.
LEMMA Positions ==
    ASSUME TypeOK
    PROVE  /\ StartSeq \in Nat \ {0} /\ Len(got) \in Nat /\ Len(toClient) \in Nat
           /\ Len(slice) \in Nat /\ Len(channel) \in Nat
           /\ ToRead \in Nat \ {0} /\ ToWrite \in Nat \ {0} /\ ToTake \in Nat \ {0}
<1>1. StartSeq \in Nat \ {0}
  BY WebsocketAssumption
<1>2. Len(got) \in Nat /\ Len(toClient) \in Nat /\ Len(channel) \in Nat
  BY DEF TypeOK
<1>3. Len(slice) \in Nat
  BY DEF TypeOK, SliceType
<1>. QED
  BY <1>1, <1>2, <1>3 DEF ToRead, ToWrite, ToTake

\* A slice is put at the end of the channel.
LEMMA AppendSlice ==
    ASSUME TypeOK, ChannelInv, next <= events,
           channel' = Append(channel, NewSlice), next' = events + 1, ToTake' = ToTake
    PROVE  ChannelInv'
<1>1. /\ NewSlice \in SliceType /\ NewSlice # << >> /\ Len(NewSlice) = events - next + 1
      /\ NewSlice[1] = next /\ Consecutive(NewSlice, next)
  BY NewSliceType DEF SliceType
<1>2. channel \in Seq(SliceType) /\ next \in Nat /\ events \in Nat
  BY WebsocketAssumption DEF TypeOK
<1>. DEFINE m == Len(channel)
<1>3. /\ m \in Nat /\ Len(channel') = m + 1 /\ channel'[m + 1] = NewSlice
      /\ \A k \in 1 .. m : channel'[k] = channel[k]
      /\ channel = << >> <=> m = 0
      /\ channel' # << >>
  BY <1>1, <1>2
<1>. HIDE DEF m
<1>4. next' = NewSlice[1] + Len(NewSlice)
  BY <1>1, <1>2
<1>5. ASSUME NEW k \in 1 .. m + 1
      PROVE  /\ channel'[k] # << >>
             /\ Consecutive(channel'[k], channel'[k][1])
             /\ channel'[k][1] = IF k = 1 THEN ToTake
                                 ELSE channel'[k - 1][1] + Len(channel'[k - 1])
  <2>1. CASE k \in 1 .. m
    <3>1. channel'[k] = channel[k] /\ (k # 1 => channel'[k - 1] = channel[k - 1])
      BY <1>3, <2>1
    <3>. QED BY <2>1, <3>1 DEF ChannelInv, m
  <2>2. CASE k = m + 1
    <3>1. channel'[k] = NewSlice
      BY <1>3, <2>2
    <3>2. k = 1 => next = ToTake
      BY <1>3, <2>2 DEF ChannelInv
    <3>3. k # 1 => next = channel'[k - 1][1] + Len(channel'[k - 1])
      BY <1>3, <2>2 DEF ChannelInv, m
    <3>. QED BY <1>1, <3>1, <3>2, <3>3
  <2>. QED BY <1>3, <2>1, <2>2
<1>. QED
  BY <1>3, <1>4, <1>5 DEF ChannelInv

\* The first slice is taken from the channel.
LEMMA TakeFirst ==
    ASSUME TypeOK, ChannelInv, channel # << >>, channel' = Tail(channel),
           UNCHANGED next, ToTake' = ToTake + Len(Head(channel))
    PROVE  ChannelInv' /\ Consecutive(Head(channel), ToTake)
<1>1. channel \in Seq(SliceType)
  BY DEF TypeOK
<1>. DEFINE m == Len(channel)
<1>2. /\ m \in Nat \ {0} /\ Len(channel') = m - 1 /\ Head(channel) = channel[1]
      /\ \A k \in 1 .. m - 1 : channel'[k] = channel[k + 1]
      /\ channel' = << >> <=> m = 1
  <2>1. channel' \in Seq(SliceType) /\ Len(channel') = m - 1 /\ m \in Nat \ {0}
    BY <1>1
  <2>2. Head(channel) = channel[1] /\ \A k \in 1 .. m - 1 : channel'[k] = channel[k + 1]
    BY <1>1
  <2>3. \A c \in Seq(SliceType) : c = << >> <=> Len(c) = 0
    OBVIOUS
  <2>4. channel' = << >> <=> m - 1 = 0
    BY <2>1, <2>3
  <2>. HIDE DEF m
  <2>5. channel' = << >> <=> m = 1
    BY <2>1, <2>4
  <2>. QED BY <2>1, <2>2, <2>5 DEF m
<1>. HIDE DEF m
<1>3. Consecutive(channel[1], ToTake) /\ channel[1][1] = ToTake
  BY <1>2 DEF ChannelInv, m
<1>4. ASSUME NEW k \in 1 .. m - 1
      PROVE  /\ channel'[k] # << >>
             /\ Consecutive(channel'[k], channel'[k][1])
             /\ channel'[k][1] = IF k = 1 THEN ToTake'
                                 ELSE channel'[k - 1][1] + Len(channel'[k - 1])
  <2>1. k + 1 \in 1 .. m /\ k + 1 # 1 /\ (k + 1) - 1 = k /\ (k # 1 => k - 1 \in 1 .. m - 1)
        /\ (k - 1) + 1 = k
    BY <1>2
  <2>2. /\ channel[k + 1] # << >>
        /\ Consecutive(channel[k + 1], channel[k + 1][1])
        /\ channel[k + 1][1] = channel[k][1] + Len(channel[k])
    BY <2>1 DEF ChannelInv, m
  <2>3. channel'[k] = channel[k + 1] /\ (k # 1 => channel'[k - 1] = channel[k])
    BY <1>2, <2>1
  <2>4. k = 1 => channel[k][1] + Len(channel[k]) = ToTake'
    BY <1>2, <1>3
  <2>. QED BY <2>2, <2>3, <2>4
<1>5. next' = IF channel' = << >> THEN ToTake'
              ELSE channel'[m - 1][1] + Len(channel'[m - 1])
  <2>1. next = channel[m][1] + Len(channel[m])
    BY <1>2 DEF ChannelInv, m
  <2>2. CASE m = 1
    BY <1>2, <1>3, <2>1, <2>2
  <2>3. CASE m # 1
    <3>1. channel'[m - 1] = channel[m]
      BY <1>2, <2>3
    <3>. QED BY <1>2, <2>1, <2>3, <3>1
  <2>. QED BY <2>2, <2>3
<1>. QED
  BY <1>2, <1>3, <1>4, <1>5 DEF ChannelInv

\* Steps that touch neither the pipeline nor what decides whether it is used.
LEMMA QuietStep ==
    ASSUME ClientInv, UNCHANGED <<got, toClient, slice, channel, next, closeSent>>,
           handler' = handler \/ (handler = "reading" /\ handler' = "serving")
    PROVE  GotWithoutGap' /\ WireInv' /\ PipelineInv'
<1>1. ToRead' = ToRead /\ ToWrite' = ToWrite /\ ToTake' = ToTake
  BY DEF ToRead, ToWrite, ToTake
<1>2. GotWithoutGap'
  BY DEF ClientInv, GotWithoutGap
<1>3. WireInv'
  BY <1>1 DEF ClientInv, WireInv, Close
<1>4. ChannelInv => ChannelInv'
  BY <1>1 DEF ChannelInv, Consecutive
<1>5. Consecutive(slice, ToWrite) => Consecutive(slice', ToWrite')
  BY <1>1
<1>6. (handler # "ended" /\ ~closeSent)' => handler # "ended" /\ ~closeSent
  OBVIOUS
<1>7. slice' # << >> => handler' = "serving"
  BY DEF ClientInv, PipelineInv
<1>8. PipelineInv'
  BY <1>4, <1>5, <1>6, <1>7 DEF ClientInv, PipelineInv
<1>. QED
  BY <1>2, <1>3, <1>8

\* A notification goes from the wire to the callback.
LEMMA ReadStep ==
    ASSUME ClientInv, ReadNotification
    PROVE  GotWithoutGap' /\ WireInv' /\ PipelineInv'
<1>0. TypeOK /\ GotWithoutGap /\ WireInv /\ PipelineInv
  BY DEF ClientInv
<1>1. /\ StartSeq \in Nat \ {0} /\ Len(got) \in Nat /\ Len(toClient) \in Nat
      /\ Len(slice) \in Nat
      /\ ToRead \in Nat \ {0} /\ ToWrite \in Nat \ {0} /\ ToTake \in Nat \ {0}
  BY <1>0, Positions
<1>2. /\ toClient # << >> /\ Head(toClient) # Close
      /\ toClient' = Tail(toClient) /\ got' = Append(got, Head(toClient))
      /\ UNCHANGED <<slice, channel, next, closeSent, handler>>
  BY DEF ReadNotification, broker, server
<1>3. toClient \in Seq(0 .. MaxSeq) /\ got \in Seq(1 .. MaxSeq)
  BY <1>0 DEF TypeOK
<1>4. /\ Head(toClient) = toClient[1] /\ Len(toClient') = Len(toClient) - 1 /\ Len(toClient) >= 1
      /\ \A i \in 1 .. Len(toClient) - 1 : toClient'[i] = toClient[i + 1]
  BY <1>2, <1>3
<1>5. Head(toClient) = ToRead
  <2>1. 1 \in 1 .. Len(toClient) /\ toClient[1] # Close
    BY <1>1, <1>2, <1>4
  <2>2. toClient[1] = ToRead + 1 - 1
    BY <1>0, <2>1 DEF WireInv
  <2>. QED BY <1>1, <1>4, <2>2
<1>6. /\ Len(got') = Len(got) + 1 /\ got'[Len(got) + 1] = ToRead
      /\ \A n \in 1 .. Len(got) : got'[n] = got[n]
  BY <1>2, <1>3, <1>5
<1>7. ToRead' = ToRead + 1 /\ ToWrite' = ToWrite /\ ToTake' = ToTake
  BY <1>1, <1>2, <1>4, <1>6 DEF ToRead, ToWrite, ToTake
<1>8. GotWithoutGap'
  <2>1. SUFFICES ASSUME NEW n \in 1 .. Len(got') PROVE got'[n] = StartSeq + n - 1
    BY DEF GotWithoutGap
  <2>2. CASE n \in 1 .. Len(got)
    BY <1>0, <1>6, <2>2 DEF GotWithoutGap
  <2>3. CASE n = Len(got) + 1
    BY <1>1, <1>6, <2>3 DEF ToRead
  <2>. QED BY <1>1, <1>6, <2>2, <2>3
<1>9. WireInv'
  <2>1. SUFFICES ASSUME NEW i \in 1 .. Len(toClient')
                 PROVE  IF toClient'[i] = Close THEN closeSent' /\ i = Len(toClient')
                        ELSE toClient'[i] = ToRead' + i - 1
    BY DEF WireInv, Close
  <2>2. i + 1 \in 1 .. Len(toClient) /\ toClient'[i] = toClient[i + 1]
    BY <1>1, <1>4
  <2>3. IF toClient[i + 1] = Close THEN closeSent /\ i + 1 = Len(toClient)
        ELSE toClient[i + 1] = ToRead + (i + 1) - 1
    BY <1>0, <2>2 DEF WireInv
  <2>4. CASE toClient[i + 1] = Close
    <3>1. closeSent /\ i + 1 = Len(toClient)
      BY <2>3, <2>4
    <3>2. closeSent'
      BY <1>2, <3>1
    <3>3. i = Len(toClient')
      BY <1>1, <1>4, <3>1
    <3>. QED BY <2>2, <2>4, <3>2, <3>3
  <2>5. CASE toClient[i + 1] # Close
    BY <1>1, <1>4, <1>7, <2>2, <2>3, <2>5
  <2>. QED BY <2>4, <2>5
<1>10. ChannelInv => ChannelInv'
  BY <1>2, <1>7 DEF ChannelInv, Consecutive
<1>11. PipelineInv'
  BY <1>0, <1>2, <1>7, <1>10 DEF PipelineInv
<1>. QED
  BY <1>8, <1>9, <1>11

\* An event goes from the handler's slice to the wire.
LEMMA WriteStep ==
    ASSUME ClientInv, WriteEvent
    PROVE  GotWithoutGap' /\ WireInv' /\ PipelineInv'
<1>0. TypeOK /\ GotWithoutGap /\ WireInv /\ PipelineInv
  BY DEF ClientInv
<1>1. /\ StartSeq \in Nat \ {0} /\ Len(got) \in Nat /\ Len(toClient) \in Nat
      /\ Len(slice) \in Nat
      /\ ToRead \in Nat \ {0} /\ ToWrite \in Nat \ {0} /\ ToTake \in Nat \ {0}
  BY <1>0, Positions
<1>2. /\ slice # << >> /\ ~closeSent /\ handler = "serving"
      /\ toClient' = Append(toClient, Head(slice)) /\ slice' = Tail(slice)
      /\ UNCHANGED <<got, channel, next, closeSent, handler>>
  BY <1>0 DEF WriteEvent, PipelineInv, broker, client
<1>3. Consecutive(slice, ToWrite) /\ ChannelInv
  BY <1>0, <1>2 DEF PipelineInv
<1>4. slice \in Seq(1 .. MaxSeq) /\ toClient \in Seq(0 .. MaxSeq) /\ (1 .. MaxSeq) \in SUBSET Int
  BY <1>0 DEF TypeOK, SliceType
<1>5. /\ Head(slice) = ToWrite /\ Len(slice') = Len(slice) - 1
      /\ Consecutive(slice', ToWrite + 1)
  BY <1>1, <1>2, <1>3, <1>4, ConsecutiveTail
<1>6. /\ Len(toClient') = Len(toClient) + 1 /\ toClient'[Len(toClient) + 1] = ToWrite
      /\ \A i \in 1 .. Len(toClient) : toClient'[i] = toClient[i]
  BY <1>2, <1>4, <1>5
<1>7. ToRead' = ToRead /\ ToWrite' = ToWrite + 1 /\ ToTake' = ToTake
  BY <1>1, <1>2, <1>5, <1>6 DEF ToRead, ToWrite, ToTake
<1>8. GotWithoutGap'
  BY <1>0, <1>2 DEF GotWithoutGap
<1>9. WireInv'
  <2>1. SUFFICES ASSUME NEW i \in 1 .. Len(toClient')
                 PROVE  toClient'[i] = ToRead' + i - 1
    BY <1>1, <1>7 DEF WireInv, Close
  <2>2. CASE i \in 1 .. Len(toClient)
    <3>1. toClient[i] # Close
      BY <1>0, <1>2, <2>2 DEF WireInv
    <3>. QED BY <1>0, <1>6, <1>7, <2>2, <3>1 DEF WireInv
  <2>3. CASE i = Len(toClient) + 1
    BY <1>1, <1>6, <1>7, <2>3 DEF ToWrite
  <2>. QED BY <1>1, <1>6, <2>2, <2>3
<1>10. ChannelInv'
  BY <1>2, <1>3, <1>7 DEF ChannelInv, Consecutive
<1>11. PipelineInv'
  BY <1>2, <1>5, <1>7, <1>10 DEF PipelineInv
<1>. QED
  BY <1>8, <1>9, <1>11

\* The client's close message is answered: the last thing on the wire.
LEMMA CloseStep ==
    ASSUME ClientInv, WatcherReads
    PROVE  GotWithoutGap' /\ WireInv' /\ PipelineInv'
<1>0. TypeOK /\ GotWithoutGap /\ WireInv /\ PipelineInv
  BY DEF ClientInv
<1>1. UNCHANGED <<got, slice, channel, next, handler>>
  BY DEF WatcherReads, broker, client
<1>2. CASE UNCHANGED <<toClient, closeSent>>
  BY <1>1, <1>2, QuietStep
<1>3. CASE ~closeSent /\ closeSent' = TRUE /\ toClient' = Append(toClient, Close)
  <2>1. toClient \in Seq(0 .. MaxSeq) /\ Len(toClient) \in Nat
    BY <1>0 DEF TypeOK
  <2>2. /\ Len(toClient') = Len(toClient) + 1 /\ toClient'[Len(toClient) + 1] = Close
        /\ \A i \in 1 .. Len(toClient) : toClient'[i] = toClient[i]
    BY <1>3, <2>1
  <2>3. ToRead' = ToRead
    BY <1>1 DEF ToRead
  <2>4. ASSUME NEW i \in 1 .. Len(toClient')
        PROVE  IF toClient'[i] = Close THEN closeSent' /\ i = Len(toClient')
               ELSE toClient'[i] = ToRead' + i - 1
    <3>1. CASE i \in 1 .. Len(toClient)
      <4>1. toClient[i] # Close
        BY <1>0, <1>3, <3>1 DEF WireInv
      <4>. QED BY <1>0, <2>2, <2>3, <3>1, <4>1 DEF WireInv
    <3>2. CASE i = Len(toClient) + 1
      BY <1>3, <2>2, <3>2
    <3>. QED BY <2>1, <2>2, <3>1, <3>2
  <2>5. WireInv'
    BY <2>4 DEF WireInv, Close
  <2>6. GotWithoutGap' /\ PipelineInv'
    BY <1>0, <1>1, <1>3 DEF GotWithoutGap, PipelineInv
  <2>. QED BY <2>5, <2>6
<1>4. \/ UNCHANGED <<toClient, closeSent>>
      \/ ~closeSent /\ closeSent' = TRUE /\ toClient' = Append(toClient, Close)
  <2>. DEFINE room == Len(toClient) < Window
  <2>1. \/ UNCHANGED <<toClient, closeSent>>
        \/ /\ closeSent' = (closeSent \/ room)
           /\ toClient' = IF ~closeSent /\ room THEN Append(toClient, Close) ELSE toClient
    BY Zenon DEF WatcherReads
  <2>2. closeSent \in BOOLEAN
    BY <1>0 DEF TypeOK
  <2>. HIDE DEF room
  <2>3. CASE closeSent
    BY <2>1, <2>2, <2>3
  <2>4. CASE ~closeSent /\ room
    BY <2>1, <2>2, <2>4
  <2>5. CASE ~closeSent /\ ~room
    BY <2>1, <2>2, <2>5
  <2>. QED BY <2>3, <2>4, <2>5
<1>. QED
  BY <1>2, <1>3, <1>4

\* The broadcaster's steps and the handler's.
LEMMA ServerStep ==
    ASSUME ClientInv, Broadcast \/ HandlerStep \/ ServerDies
    PROVE  GotWithoutGap' /\ WireInv' /\ PipelineInv'
<1>0. TypeOK /\ GotWithoutGap /\ WireInv /\ PipelineInv
  BY DEF ClientInv
<1>1. CASE Broadcast
  <2>1. UNCHANGED <<got, toClient, slice, closeSent, handler>> /\ next <= events
    BY <1>1 DEF Broadcast, server, client
  <2>2. CASE Len(channel) < ChannelSize
    <3>1. channel' = Append(channel, NewSlice) /\ next' = events + 1
      BY <1>1, <2>2 DEF Broadcast, NewSlice
    <3>2. ToRead' = ToRead /\ ToWrite' = ToWrite /\ ToTake' = ToTake
      BY <2>1 DEF ToRead, ToWrite, ToTake
    <3>3. GotWithoutGap' /\ WireInv'
      BY <1>0, <2>1, <3>2 DEF GotWithoutGap, WireInv, Close
    <3>4. ChannelInv => ChannelInv'
      BY <1>0, <2>1, <3>1, <3>2, AppendSlice
    <3>5. PipelineInv'
      BY <1>0, <2>1, <3>2, <3>4 DEF PipelineInv
    <3>. QED BY <3>3, <3>5
  <2>3. CASE ~(Len(channel) < ChannelSize)
    BY <1>1, <2>1, <2>3, QuietStep DEF Broadcast
  <2>. QED BY <2>2, <2>3
<1>2. CASE ReadSeqFromClient
  BY <1>2, QuietStep DEF ReadSeqFromClient, client
<1>3. ASSUME HandlerReturns, UNCHANGED <<got, toClient, closeSent>>
      PROVE  GotWithoutGap' /\ WireInv' /\ PipelineInv'
  BY <1>0, <1>3 DEF HandlerReturns, GotWithoutGap, WireInv, PipelineInv, ToRead, Close
<1>4. CASE NoSeqFromClient \/ WriteFails \/ ChannelClosed \/ ClientClosedConnection \/ ServerDies
  BY <1>3, <1>4 DEF NoSeqFromClient, WriteFails, ChannelClosed, ClientClosedConnection,
     ServerDies, client
<1>5. CASE TakeSlice
  <2>1. /\ handler = "serving" /\ slice = << >> /\ channel # << >>
        /\ slice' = Head(channel) /\ channel' = Tail(channel)
        /\ UNCHANGED <<got, toClient, next, closeSent, handler>>
    BY <1>5 DEF TakeSlice, client
  <2>2. ToRead' = ToRead /\ ToWrite' = ToWrite /\ ToTake = ToWrite + 0
        /\ ToTake' = ToWrite + Len(Head(channel))
    BY <2>1 DEF ToRead, ToWrite, ToTake
  <2>3. ToTake = ToWrite
    BY <1>0, <2>2, Positions
  <2>4. GotWithoutGap' /\ WireInv'
    BY <1>0, <2>1, <2>2 DEF GotWithoutGap, WireInv, Close
  <2>5. ChannelInv => ChannelInv' /\ Consecutive(Head(channel), ToTake)
    BY <1>0, <2>1, <2>2, <2>3, TakeFirst
  <2>6. PipelineInv'
    BY <1>0, <2>1, <2>2, <2>3, <2>5 DEF PipelineInv
  <2>. QED BY <2>4, <2>6
<1>6. CASE WriteEvent
  BY <1>6, WriteStep
<1>. QED
  BY <1>1, <1>2, <1>4, <1>5, <1>6 DEF HandlerStep

-----------------------------------------------------------------------------
(* The theorems.                                                           *)

\* Every step keeps the invariant.
LEMMA ClientInvStep == ASSUME ClientInv, [Next]_vars PROVE ClientInv'
<1>0. TypeOK
  BY DEF ClientInv
<1>1. CASE Broadcast \/ HandlerStep \/ ServerDies
  BY <1>0, <1>1, ServerStep, ServerType DEF ClientInv
<1>2. CASE WatcherReads
  BY <1>0, <1>2, CloseStep, ServerType DEF ClientInv
<1>3. CASE ReadNotification
  BY <1>0, <1>3, ReadStep, ClientType DEF ClientInv, ReaderStep
<1>4. CASE StoreEvent
  <2>1. TypeOK'
    BY <1>0, <1>4, ServerType
  <2>2. GotWithoutGap' /\ WireInv' /\ PipelineInv'
    BY <1>4, QuietStep DEF StoreEvent, server, client
  <2>. QED BY <2>1, <2>2 DEF ClientInv
<1>5. CASE \/ GetNextMessage \/ CallClose \/ ClientDies \/ WriterStep \/ CloseReturnsStep
           \/ ReadFails \/ CallbackReturns \/ CallbackPanics
  <2>1. TypeOK'
    BY <1>0, <1>5, ClientType DEF ReaderStep
  <2>2. UNCHANGED <<got, toClient, slice, channel, next, closeSent, handler>>
    BY <1>5 DEF GetNextMessage, CallClose, ClientDies, WriterStep, WriteSubscribe, ReaderDone,
       Interrupted, WaitTimesOut, CloseConnection, CloseReturnsStep, ReadFails,
       CallbackReturns, CallbackPanics, broker, server
  <2>3. GotWithoutGap' /\ WireInv' /\ PipelineInv'
    BY <2>2, QuietStep
  <2>. QED BY <2>1, <2>3 DEF ClientInv
<1>6. CASE UNCHANGED vars
  <2>1. GotWithoutGap' /\ WireInv' /\ PipelineInv'
    BY <1>6, QuietStep DEF vars, broker, server, client
  <2>2. TypeOK'
    BY <1>0, <1>6 DEF TypeOK, vars, broker, server, client
  <2>. QED BY <2>1, <2>2 DEF ClientInv
<1>. QED
  BY <1>1, <1>2, <1>3, <1>4, <1>5, <1>6 DEF Next, ReaderStep

\* Every state satisfies the invariant.
THEOREM ClientInvHolds == Spec => []ClientInv
<1>1. Init => ClientInv
  BY InitInv
<1>2. ClientInv /\ [Next]_vars => ClientInv'
  BY ClientInvStep
<1>. QED
  BY <1>1, <1>2, PTL DEF Spec

\* Every variable keeps its type; eventSequenceQueue, the connection and the
\* listener's channel stay within their sizes.
THEOREM TypeCorrect == Spec => []TypeOK
<1>1. ClientInv => TypeOK
  BY DEF ClientInv
<1>. QED
  BY <1>1, ClientInvHolds, PTL

\* The callback gets the events from StartSeq on without a gap, whatever the
\* sizes of the channels and however the connection ends.
THEOREM GotWithoutGapHolds == Spec => []GotWithoutGap
<1>1. ClientInv => GotWithoutGap
  BY DEF ClientInv
<1>. QED
  BY <1>1, ClientInvHolds, PTL
=============================================================================
