-------------------------- MODULE LifecycleProofs --------------------------
(***************************************************************************)
(* Proofs about the life cycle of the process for every set of requests,   *)
(* every configuration and every kind and number of failures and restarts. *)
(***************************************************************************)
EXTENDS Lifecycle, TLAPS

\* What was begun after Stop was called, by where the updater is: each step of
\* its boot uses up one of those that were left, and what the select takes is
\* the last thing.
Begun ==
    /\ wallet \in BeforeBoot => late + 2 <= bootLeft
    /\ wallet = "boot" => late + 1 <= bootLeft
    /\ wallet \in {"bootPending", "select", "poll"} => late <= bootLeft
    /\ late <= 1 + bootLeft

\* The stopper goroutine lives in the process, and nothing is counted before
\* Stop is called.
StopInv ==
    /\ ~Running => stopper = "off"
    /\ ~WalletStopped => late = 0 /\ bootLeft = 0
    /\ WalletStopped => Begun

LifeInv == TypeOK /\ StopInv

-----------------------------------------------------------------------------
\* The initial state is well typed, and nothing was begun.
LEMMA InitLife == Init => LifeInv
<1> SUFFICES ASSUME Init PROVE LifeInv
    OBVIOUS
<1>1. signalled \in BOOLEAN
    BY Zenon DEF Init
<1>2. request \in [Requests -> RequestStates]
    BY DEF Init, RequestStates
<1>3. StopInv
    BY DEF Init, StopInv, WalletStopped
<1> QED
    BY <1>1, <1>2, <1>3, LifecycleAssumption DEF Init, LifeInv, TypeOK

\* The end of the process.
LEMMA EndLife ==
    ASSUME LifeInv, EndProcess, UNCHANGED <<config, runs>>,
           storedHot' \in Nat /\ made' \in Nat /\ storedHot' <= made',
           faults' \in 0 .. MaxFaults
    PROVE  LifeInv'
<1>1. signalled' \in BOOLEAN
    BY Zenon DEF EndProcess
<1>2. request' \in [Requests -> RequestStates]
    BY DEF EndProcess, LifeInv, TypeOK, RequestStates
<1>3. StopInv'
    BY DEF EndProcess, StopInv, WalletStopped
<1> QED
    BY <1>1, <1>2, <1>3 DEF EndProcess, LifeInv, TypeOK, config

\* A failure leaves the count of failures within its bound.
LEMMA FaultType ==
    ASSUME LifeInv, NEW kind, Fault(kind)
    PROVE  faults' \in 0 .. MaxFaults
BY LifecycleAssumption DEF LifeInv, TypeOK, Fault

\* A panic in the boot before the loop ends the process.
LEMMA BootPanicLife == ASSUME LifeInv, WalletBootPanics PROVE LifeInv'
<1>1. faults' \in 0 .. MaxFaults
    BY FaultType DEF WalletBootPanics
<1> QED
    BY <1>1, EndLife DEF WalletBootPanics, LifeInv, TypeOK, config, database

\* A panic before the loop ends the process; an address of the node may have
\* been made, and stored, before it.
LEMMA PanicLife == ASSUME LifeInv, WalletInitPanics PROVE LifeInv'
<1>1. storedHot \in Nat /\ made \in Nat /\ storedHot <= made
    BY DEF LifeInv, TypeOK
<1>2. storedHot' \in Nat /\ made' \in Nat /\ storedHot' <= made'
    <2>1. CASE UNCHANGED database
        BY <1>1, <2>1 DEF database
    <2>2. CASE UNCHANGED storedHot /\ made' \in {made, made + (IF storedHot = 0 THEN 1 ELSE 0)}
        BY <1>1, <2>2
    <2>3. CASE made' = made + 1 /\ storedHot' = made + 1
        BY <1>1, <2>3
    <2> QED
        BY <2>1, <2>2, <2>3 DEF WalletInitPanics
<1>3. faults' \in 0 .. MaxFaults
    <2>1. faults \in 0 .. MaxFaults
        BY DEF LifeInv, TypeOK
    <2>2. faults' = faults \/ \E kind \in FaultKinds : Fault(kind)
        BY LifecycleAssumption DEF WalletInitPanics, Fault
    <2> QED
        BY <2>1, <2>2, FaultType
<1>4. EndProcess /\ UNCHANGED <<config, runs>>
    BY DEF WalletInitPanics
<1> QED
    BY <1>2, <1>3, <1>4, EndLife

\* Start, exit and death of the process, and signals.
LEMMA ProcessLife ==
    ASSUME LifeInv, Start \/ Exit \/ Killed \/ Signal
    PROVE  LifeInv'
<1> USE DEF config, database, goroutines, hands
<1>1. CASE Start
    <2>1. late' = 0 /\ bootLeft' = 0 /\ bootLeft' \in 0 .. 2
        BY <1>1 DEF Start, LifeInv, StopInv, WalletStopped
    <2>2. runs' \in 0 .. MaxRuns
        BY <1>1, LifecycleAssumption DEF Start, LifeInv, TypeOK
    <2>3. process' = "running" /\ stopper' = "waiting"
        BY <1>1 DEF Start
    <2>4. StopInv'
        BY <2>1, <2>3 DEF StopInv, Running, WalletStopped
    <2> QED
        BY <1>1, <2>2, <2>4 DEF Start, LifeInv, TypeOK
<1>2. CASE Exit
    BY <1>2, EndLife DEF Exit, LifeInv, TypeOK
<1>3. CASE Killed
    <2>1. faults' \in 0 .. MaxFaults
        BY <1>3, FaultType DEF Killed
    <2> QED
        BY <1>3, <2>1, EndLife DEF Killed, LifeInv, TypeOK
<1>4. CASE Signal
    <2>1. signalled' \in BOOLEAN
        BY <1>4, Zenon DEF Signal
    <2> QED
        BY <1>4, <2>1 DEF Signal, LifeInv, TypeOK, StopInv, Running, WalletStopped, Begun
<1> QED
    BY <1>1, <1>2, <1>3, <1>4

\* The stopper goroutine: once the wallet's stop channel is closed it stays so.
LEMMA StopperLife ==
    ASSUME LifeInv, StopperWakes \/ StopLoop \/ StopServer
    PROVE  LifeInv'
<1> USE DEF config, database, goroutines, hands
<1>1. CASE StopperWakes
    <2>1. signalled' \in BOOLEAN
        BY <1>1, Zenon DEF StopperWakes
    <2> QED
        BY <1>1, <2>1 DEF StopperWakes, LifeInv, TypeOK, StopInv, Running, WalletStopped
<1>2. CASE StopLoop
    <2>1. UNCHANGED <<config, database, process, runs, api, wallet, broker, signalled, hot,
                      inWallet, inBroker, request, late, faults>>
        BY <1>2 DEF StopLoop
    <2>2. CASE stopper = "wallet" /\ stopper' = "broker" /\ bootLeft' = BootLeft
        <3>1. late' = 0 /\ bootLeft' = BootLeft /\ wallet' = wallet
            BY <2>1, <2>2 DEF LifeInv, StopInv, WalletStopped
        <3>2. Running /\ Running'
            BY <2>1, <2>2 DEF LifeInv, StopInv, Running
        <3>3. StopInv'
            BY <2>2, <3>1, <3>2 DEF StopInv, Begun, BootLeft, BeforeBoot, WalletStopped
        <3>4. bootLeft' \in 0 .. 2
            BY <3>1 DEF BootLeft
        <3> QED
            BY <2>1, <2>2, <3>3, <3>4 DEF LifeInv, TypeOK
    <2>3. CASE stopper = "broker" /\ stopper' = "api" /\ UNCHANGED bootLeft
        BY <2>1, <2>3 DEF LifeInv, TypeOK, StopInv, Begun, Running, WalletStopped
    <2> QED
        BY <1>2, <2>2, <2>3 DEF StopLoop
<1>3. CASE StopServer
    BY <1>3 DEF StopServer, LifeInv, TypeOK, StopInv, Begun, Running, WalletStopped
<1> QED
    BY <1>1, <1>2, <1>3

\* A step of a request leaves every request in one of its states.
LEMMA RequestType ==
    ASSUME LifeInv, NEW r \in Requests, NEW before, NEW after \in RequestStates,
           RequestIs(r, before, after)
    PROVE  request' \in [Requests -> RequestStates]
BY DEF LifeInv, TypeOK, RequestIs

\* The API server and the handlers.
LEMMA ServerLife ==
    ASSUME LifeInv,
           \/ Listen \/ ListenFails
           \/ \E r \in Requests : AskWallet(r) \/ AskMute(r) \/ SendMute(r)
    PROVE  LifeInv'
<1> USE DEF config, database, goroutines, hands
<1>1. CASE Listen
    BY <1>1 DEF Listen, LifeInv, TypeOK, StopInv, Running, WalletStopped, Begun
<1>2. CASE ListenFails
    <2>1. faults' \in 0 .. MaxFaults
        BY <1>2, FaultType DEF ListenFails
    <2> QED
        BY <1>2, <2>1 DEF ListenFails, LifeInv, TypeOK, StopInv, Running, WalletStopped,
           Begun
<1>3. ASSUME NEW r \in Requests, AskWallet(r) \/ AskMute(r) \/ SendMute(r)
      PROVE  LifeInv'
    <2>1. PICK before, after \in RequestStates : RequestIs(r, before, after)
        BY <1>3 DEF AskWallet, AskMute, SendMute, RequestStates
    <2>2. request' \in [Requests -> RequestStates]
        BY <2>1, RequestType
    <2>3. AfterRequest
        BY <1>3 DEF AskWallet, AskMute, SendMute
    <2> QED
        BY <2>2, <2>3 DEF AfterRequest, LifeInv, TypeOK, StopInv, Running, WalletStopped,
           Begun
<1> QED
    BY <1>1, <1>2, <1>3

\* Something is begun, and one less is left.
LEMMA OneLess ==
    ASSUME NEW n \in Nat, NEW m \in Nat, NEW left \in Nat, m = n \/ m = n + 1, n + 2 <= left
    PROVE  m + 1 <= left /\ m <= 1 + left
OBVIOUS

\* The steps of the wallet before its loop: Stop may have been called already,
\* and each step of the boot that begins nevertheless is one that was left.
LEMMA BootLife ==
    ASSUME LifeInv,
           \/ InitMetric \/ InitMetricFails \/ InitHotWallet \/ CheckHotWalletAddress
           \/ InitColdWallet \/ WalletBoot \/ WalletBootPending
    PROVE  LifeInv'
<1> USE DEF config, database, AfterWallet, WalletGoes
<1>1. /\ UNCHANGED <<config, process, runs, api, broker, stopper, signalled, inBroker,
                     inWallet, request, bootLeft>>
      /\ wallet' \in {"initHot", "checkHot", "initCold", "boot", "bootPending", "select",
                      "returned"}
      /\ hot' \in {hot, "set"}
      /\ late' \in {late, late + 1}
    BY DEF InitMetric, InitMetricFails, InitHotWallet, CheckHotWalletAddress, InitColdWallet,
       WalletBoot, WalletBootPending, CountLate
<1>2. storedHot \in Nat /\ made \in Nat /\ storedHot <= made
    BY DEF LifeInv, TypeOK
<1>3. UNCHANGED <<storedHot, made>> \/ (made' = made + 1 /\ storedHot' = made + 1)
    BY DEF InitMetric, InitMetricFails, InitHotWallet, getOrCreateHotWallet,
       CheckHotWalletAddress, InitColdWallet, WalletBoot, WalletBootPending
<1>4. storedHot' \in Nat /\ made' \in Nat /\ storedHot' <= made'
    BY <1>2, <1>3
<1>5. faults' \in 0 .. MaxFaults
    <2>1. faults \in 0 .. MaxFaults
        BY DEF LifeInv, TypeOK
    <2>2. faults' = faults \/ Fault("dbFail")
        BY DEF InitMetric, InitMetricFails, InitHotWallet, CheckHotWalletAddress,
           InitColdWallet, WalletBoot, WalletBootPending
    <2> QED
        BY <2>1, <2>2, FaultType
<1>6. /\ late \in Nat /\ bootLeft \in Nat /\ late' \in Nat
      /\ late' = late \/ late' = late + 1
      /\ bootLeft' = bootLeft
    BY <1>1 DEF LifeInv, TypeOK
<1>7. ~WalletStopped => late' = late
    BY DEF InitMetric, InitMetricFails, InitHotWallet, CheckHotWalletAddress, InitColdWallet,
       WalletBoot, WalletBootPending, CountLate
<1>8. Begun => Begun'
    <2>1. CASE InitMetric \/ InitMetricFails \/ InitHotWallet \/ CheckHotWalletAddress
        <3>1. /\ wallet \in BeforeBoot
              /\ wallet' \in {"initHot", "checkHot", "initCold", "returned"}
              /\ late' = late
            BY <2>1 DEF InitMetric, InitMetricFails, InitHotWallet, CheckHotWalletAddress,
               BeforeBoot
        <3> QED
            BY <1>1, <1>6, <3>1 DEF Begun, BeforeBoot
    <2>2. CASE InitColdWallet \/ WalletBoot \/ WalletBootPending
        <3>1. CASE InitColdWallet
            <4>1. wallet = "initCold" /\ wallet' = "boot"
                BY <3>1 DEF InitColdWallet
            <4>2. Begun => late + 2 <= bootLeft
                BY <4>1 DEF Begun, BeforeBoot
            <4>3. Begun => late' + 1 <= bootLeft' /\ late' <= 1 + bootLeft'
                BY <1>6, <4>2, OneLess
            <4> QED
                BY <4>1, <4>3 DEF Begun, BeforeBoot
        <3>2. CASE WalletBoot
            BY <1>1, <1>6, <3>2 DEF WalletBoot, Begun, BeforeBoot
        <3>3. CASE WalletBootPending
            BY <1>1, <1>6, <3>3 DEF WalletBootPending, Begun, BeforeBoot
        <3> QED
            BY <2>2, <3>1, <3>2, <3>3
    <2> QED
        BY <2>1, <2>2
<1>9. StopInv'
    BY <1>1, <1>7, <1>8 DEF LifeInv, StopInv, Running, WalletStopped
<1> QED
    BY <1>1, <1>4, <1>5, <1>6, <1>9 DEF LifeInv, TypeOK

\* The loop of the wallet: whatever is begun after Stop is the last thing, as
\* the stop channel is looked at as soon as it is done.
LEMMA LoopLife ==
    ASSUME LifeInv,
           \/ WalletTick \/ WalletReturns \/ WalletWorks \/ WalletPolls \/ WalletPanics
           \/ \E r \in Requests : WalletTakes(r)
    PROVE  LifeInv'
<1> USE DEF config, database, AfterWallet, WalletGoes
<1>1. UNCHANGED <<config, process, runs, api, broker, stopper, signalled, inBroker, hot,
                  bootLeft, database>>
    BY DEF WalletTick, WalletReturns, WalletWorks, WalletPolls, WalletPanics, WalletTakes
<1>2. faults' \in 0 .. MaxFaults
    <2>1. faults \in 0 .. MaxFaults
        BY DEF LifeInv, TypeOK
    <2>2. faults' = faults \/ Fault("panic")
        BY DEF WalletTick, WalletReturns, WalletWorks, WalletPolls, WalletPanics, WalletTakes
    <2> QED
        BY <2>1, <2>2, FaultType
<1>3. request' \in [Requests -> RequestStates]
    <2>1. ASSUME NEW r \in Requests, WalletTakes(r)
          PROVE  request' \in [Requests -> RequestStates]
        BY <2>1, RequestType DEF WalletTakes, RequestStates
    <2>2. CASE WalletWorks
        BY <2>2 DEF WalletWorks, LifeInv, TypeOK, RequestStates
    <2>3. CASE UNCHANGED request
        BY <2>3 DEF LifeInv, TypeOK
    <2> QED
        BY <2>1, <2>2, <2>3 DEF WalletTick, WalletReturns, WalletPolls, WalletPanics
<1>4. inWallet' \in Requests \cup {NoRequest}
    BY DEF LifeInv, TypeOK, WalletTick, WalletReturns, WalletWorks, WalletPolls,
       WalletPanics, WalletTakes
<1>5. CASE WalletTick \/ \E r \in Requests : WalletTakes(r)
    <2>1. wallet = "select" /\ wallet' = "work" /\ CountLate
        BY <1>5 DEF WalletTick, WalletTakes
    <2>2. late \in Nat /\ bootLeft \in Nat /\ (WalletStopped => late <= bootLeft)
        BY <2>1 DEF LifeInv, TypeOK, StopInv, Begun
    <2>3. late' = IF WalletStopped THEN late + 1 ELSE late
        BY <2>1 DEF CountLate
    <2>4. WalletStopped => Begun'
        BY <1>1, <2>1, <2>2, <2>3 DEF Begun, BeforeBoot
    <2>5. StopInv'
        BY <1>1, <2>3, <2>4 DEF LifeInv, StopInv, Running, WalletStopped
    <2>6. late' \in Nat
        BY <2>2, <2>3
    <2> QED
        BY <1>1, <1>2, <1>3, <1>4, <2>1, <2>5, <2>6 DEF LifeInv, TypeOK
<1>6. CASE WalletReturns \/ WalletWorks \/ WalletPolls \/ WalletPanics
    <2>1. /\ late' = late /\ wallet' \in {"poll", "select", "returned"}
          /\ WalletStopped => wallet' = "returned"
        BY <1>6 DEF WalletReturns, WalletWorks, WalletPolls, WalletPanics, UnlessStopped
    <2>2. StopInv'
        BY <1>1, <2>1 DEF LifeInv, StopInv, Running, WalletStopped, Begun, BeforeBoot
    <2> QED
        BY <1>1, <1>2, <1>3, <1>4, <2>1, <2>2 DEF LifeInv, TypeOK
<1> QED
    BY <1>5, <1>6

\* The broker's loop.
LEMMA BrokerLife ==
    ASSUME LifeInv,
           \/ BrokerBoot \/ BrokerNotifies \/ BrokerReturns \/ BrokerWorks \/ BrokerPanics
           \/ \E r \in Requests : BrokerTakes(r)
    PROVE  LifeInv'
<1> USE DEF config, database, AfterBroker, BrokerGoes
<1>1. /\ UNCHANGED <<config, database, process, runs, api, wallet, stopper, signalled, hot,
                     inWallet, late, bootLeft>>
      /\ broker' \in {"select", "work", "returned"}
    BY DEF BrokerBoot, BrokerNotifies, BrokerReturns, BrokerWorks, BrokerPanics, BrokerTakes
<1>2. faults' \in 0 .. MaxFaults
    <2>1. faults \in 0 .. MaxFaults
        BY DEF LifeInv, TypeOK
    <2>2. faults' = faults \/ Fault("panic")
        BY DEF BrokerBoot, BrokerNotifies, BrokerReturns, BrokerWorks, BrokerPanics,
           BrokerTakes
    <2> QED
        BY <2>1, <2>2, FaultType
<1>3. request' \in [Requests -> RequestStates]
    <2>1. ASSUME NEW r \in Requests, BrokerTakes(r)
          PROVE  request' \in [Requests -> RequestStates]
        BY <2>1, RequestType DEF BrokerTakes, RequestStates
    <2>2. CASE BrokerWorks
        BY <2>2 DEF BrokerWorks, LifeInv, TypeOK, RequestStates
    <2>3. CASE UNCHANGED request
        BY <2>3 DEF LifeInv, TypeOK
    <2> QED
        BY <2>1, <2>2, <2>3 DEF BrokerBoot, BrokerNotifies, BrokerReturns, BrokerPanics
<1>4. inBroker' \in Requests \cup {NoRequest}
    BY DEF LifeInv, TypeOK, BrokerBoot, BrokerNotifies, BrokerReturns, BrokerWorks,
       BrokerPanics, BrokerTakes
<1> QED
    BY <1>1, <1>2, <1>3, <1>4 DEF LifeInv, TypeOK, StopInv, Running, WalletStopped, Begun

\* The invariant holds in every state.
THEOREM LifeInvHolds == Spec => []LifeInv
<1>1. LifeInv /\ [Next]_vars => LifeInv'
    <2> SUFFICES ASSUME LifeInv, [Next]_vars PROVE LifeInv'
        OBVIOUS
    <2>1. CASE UNCHANGED vars
        BY <2>1 DEF vars, config, database, goroutines, hands, LifeInv, TypeOK, StopInv,
           Running, WalletStopped, Begun
    <2> QED
        BY <2>1, PanicLife, BootPanicLife, ProcessLife, StopperLife, ServerLife, BootLife, LoopLife,
           BrokerLife DEF Next, WalletStep, BrokerStep, MainStep, Environment
<1> QED
    BY <1>1, InitLife, PTL DEF Spec

\* Every variable of the process always holds a value of its type.
THEOREM TypeCorrect == Spec => []TypeOK
<1>1. LifeInv => TypeOK
    BY DEF LifeInv
<1> QED
    BY <1>1, LifeInvHolds, PTL

\* Once Stop was called the wallet updater begins what is left of its boot and at
\* most one more piece of work, however many requests, ticks and notifications
\* are waiting for it.
THEOREM WorkAfterStopBounded == Spec => []WorkAfterStop
<1>1. LifeInv => WorkAfterStop
    BY DEF LifeInv, TypeOK, StopInv, Begun, WorkAfterStop
<1> QED
    BY <1>1, LifeInvHolds, PTL

\* The address that clients send money to never changes once it is stored,
\* whatever fails while it is made, stored or read, over any number of restarts.
THEOREM HotAddressNeverChanges == Spec => HotAddressStable
<1>1. [Next]_vars => [storedHot # 0 => storedHot' = storedHot]_vars
    <2> SUFFICES ASSUME Next, storedHot # 0 PROVE storedHot' = storedHot
        BY DEF vars, database
    <2> USE DEF database
    <2>1. CASE WalletInitPanics
        BY <2>1 DEF WalletInitPanics
    <2>2. CASE InitHotWallet
        BY <2>2 DEF InitHotWallet, getOrCreateHotWallet
    <2>3. CASE InitMetric \/ InitMetricFails \/ CheckHotWalletAddress \/ InitColdWallet
               \/ WalletBoot \/ WalletBootPending \/ WalletBootPanics \/ WalletTick
               \/ WalletReturns \/ WalletWorks \/ WalletPolls \/ WalletPanics
               \/ \E r \in Requests : WalletTakes(r)
        BY <2>3 DEF InitMetric, InitMetricFails, CheckHotWalletAddress, InitColdWallet,
           WalletBoot, WalletBootPending, WalletBootPanics, WalletTick, WalletReturns, WalletWorks, WalletPolls, WalletPanics, WalletTakes
    <2>4. CASE BrokerStep \/ BrokerPanics \/ \E r \in Requests : BrokerTakes(r)
        BY <2>4 DEF BrokerStep, BrokerBoot, BrokerNotifies, BrokerReturns, BrokerWorks,
           BrokerPanics, BrokerTakes, AfterBroker
    <2>5. CASE MainStep \/ Start \/ Signal \/ Killed \/ ListenFails
        BY <2>5 DEF MainStep, StopperWakes, StopLoop, StopServer, Listen, Exit, Start,
           Signal, Killed, ListenFails
    <2>6. CASE \E r \in Requests : AskWallet(r) \/ AskMute(r) \/ SendMute(r)
        BY <2>6 DEF AskWallet, AskMute, SendMute, AfterRequest
    <2> QED
        BY <2>1, <2>2, <2>3, <2>4, <2>5, <2>6 DEF Next, WalletStep, Environment
<1> QED
    BY <1>1, PTL DEF Spec, HotAddressStable
=============================================================================
