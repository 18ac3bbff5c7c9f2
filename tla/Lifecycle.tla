----------------------------- MODULE Lifecycle ------------------------------
(***************************************************************************)
(* The life of a bitcoin-processing process: main starts the API server,   *)
(* the wallet and the event broker at the same time, each in a goroutine,  *)
(* and a stopper goroutine that shuts all three down when one of them ends *)
(* or a signal arrives.                                                    *)
(*                                                                         *)
(* A request that changes the wallet goes from the goroutine of its HTTP   *)
(* handler through a channel to the wallet updater, a request to mute      *)
(* events through another one to the broker's loop, and the handler blocks *)
(* until somebody sends the result.  The API listens before the wallet has *)
(* its addresses, and handlers live on while the loops stop.  What a       *)
(* request does is modelled in Withdrawals and HTTPCallback.               *)
(***************************************************************************)
EXTENDS Integers, FiniteSets

CONSTANTS
    WalletRequests, \* withdrawals, confirmations and cancellations
    HotRequests,    \* withdrawals to the hot wallet address
    MuteRequests,   \* requests to mute events
    HotSettings,    \* what wallet.hot_wallet_address may be
    ColdSettings,   \* what wallet.cold_wallet_address may be
    MuteCapacity,   \* capacity of the muteRequests channel
    Faults,         \* the kinds of failure that may happen
    MaxFaults,      \* bound: how many failures happen in a behaviour
    MaxRuns         \* bound: how often the process is started

Requests == WalletRequests \cup HotRequests \cup MuteRequests

\* A configured address: not set, of this wallet, or of another one.
AddressSettings == {"none", "mine", "foreign"}

FaultKinds == {"nodeError",   \* a call of the node fails
               "dbFail",      \* a statement of the database fails
               "dbLost",      \* it is executed, but an error is returned
               "listenError", \* the API server cannot listen
               "panic",       \* a loop panics while it works on something
               "crash"}       \* the process is killed

ASSUME LifecycleAssumption ==
    /\ HotRequests \cap MuteRequests = {}
    /\ WalletRequests \cap (HotRequests \cup MuteRequests) = {}
    /\ HotSettings \subseteq AddressSettings
    /\ ColdSettings \subseteq AddressSettings
    /\ MuteCapacity \in Nat \ {0}
    /\ Faults \subseteq FaultKinds
    /\ MaxFaults \in Nat
    /\ MaxRuns \in Nat

VARIABLES
    hotSetting,  \* wallet.hot_wallet_address of the configuration
    coldSetting, \* wallet.cold_wallet_address of it
    storedHot,   \* metadata hot_wallet_address: which address the node made, or 0
    made,        \* how many addresses the node has made for the hot wallet
    process,     \* "off" or "running"
    runs,        \* how often it was started
    api,         \* where Run of the API server is
    wallet,      \* where the wallet updater is
    broker,      \* where the broker's loop is
    stopper,     \* how far the stopper goroutine has come
    signalled,   \* a signal has arrived
    hot,         \* hotWalletAddress in memory: "unset" or "set"
    inWallet,    \* the request the updater works on
    inBroker,    \* the request the broker works on
    request,     \* the state of each request
    late,        \* history: what the updater began after Stop was called
    bootLeft,    \* history: the steps of its boot it had to begin when Stop was called
    faults       \* failures so far

config == <<hotSetting, coldSetting>>
database == <<storedHot, made>>
goroutines == <<api, wallet, broker, stopper>>
hands == <<inWallet, inBroker, request, late, bootLeft>>
vars == <<config, database, process, runs, goroutines, signalled, hot, hands, faults>>

NoRequest == "none"

\* A request that is over was answered, or the process of its handler has ended.
RequestStates == {"no", "sending", "queued", "taken", "over"}

\* The types of the state.
TypeOK ==
    /\ hotSetting \in HotSettings /\ coldSetting \in ColdSettings
    /\ storedHot \in Nat /\ made \in Nat /\ storedHot <= made
    /\ process \in {"off", "running"}
    /\ runs \in 0 .. MaxRuns
    /\ api \in {"off", "starting", "listening", "returned"}
    /\ wallet \in {"off", "initMetric", "initHot", "checkHot", "initCold", "boot",
                   "bootPending", "select", "work", "poll", "returned"}
    /\ broker \in {"off", "boot", "select", "work", "returned"}
    /\ stopper \in {"off", "waiting", "wallet", "broker", "api", "done"}
    /\ signalled \in BOOLEAN
    /\ hot \in {"unset", "set"}
    /\ inWallet \in Requests \cup {NoRequest}
    /\ inBroker \in Requests \cup {NoRequest}
    /\ request \in [Requests -> RequestStates]
    /\ late \in Nat /\ bootLeft \in 0 .. 2
    /\ faults \in 0 .. MaxFaults

Init ==
    /\ hotSetting \in HotSettings /\ coldSetting \in ColdSettings
    /\ storedHot = 0 /\ made = 0
    /\ process = "off" /\ runs = 0
    /\ api = "off" /\ wallet = "off" /\ broker = "off" /\ stopper = "off"
    /\ signalled = FALSE
    /\ hot = "unset"
    /\ inWallet = NoRequest /\ inBroker = NoRequest
    /\ request = [r \in Requests |-> "no"]
    /\ late = 0 /\ bootLeft = 0
    /\ faults = 0

Fault(kind) == kind \in Faults /\ faults < MaxFaults /\ faults' = faults + 1

Running == process = "running"

-----------------------------------------------------------------------------
(* Start and end of the process.                                           *)

\* Everything that lives in memory is gone; handlers never answer.
EndProcess ==
    /\ process' = "off"
    /\ api' = "off" /\ wallet' = "off" /\ broker' = "off" /\ stopper' = "off"
    /\ signalled' = FALSE
    /\ hot' = "unset"
    /\ inWallet' = NoRequest /\ inBroker' = NoRequest
    /\ late' = 0 /\ bootLeft' = 0
    /\ request' = [r \in Requests |-> IF request[r] = "no" THEN "no" ELSE "over"]

\* main: the node and the database were reachable and both locks were free.
Start ==
    /\ ~Running
    /\ runs < MaxRuns
    /\ runs' = runs + 1
    /\ process' = "running"
    /\ api' = "starting" /\ wallet' = "initMetric" /\ broker' = "boot"
    /\ stopper' = "waiting"
    /\ UNCHANGED <<config, database, signalled, hot, hands, faults>>

\* runner.wait returns when all three goroutines are done.
Exit ==
    /\ Running
    /\ api = "returned" /\ wallet = "returned" /\ broker = "returned"
    /\ EndProcess
    /\ UNCHANGED <<config, database, runs, faults>>

Killed ==
    /\ Running
    /\ Fault("crash")
    /\ EndProcess
    /\ UNCHANGED <<config, database, runs>>

\* Signals after the first one that the stopper reads are never looked at.
Signal ==
    /\ stopper = "waiting"
    /\ ~signalled
    /\ signalled' = TRUE
    /\ UNCHANGED <<config, database, process, runs, goroutines, hot, hands, faults>>

-----------------------------------------------------------------------------
(* The stopper goroutine.                                                  *)

\* Mutant of StopCause: the end of the wallet goes unnoticed.
StopCauseNotWallet == signalled \/ api = "returned" \/ broker = "returned"

\* What the stopper's select waits for: a signal, or a channel that is closed
\* when Run of a component has returned.
StopCause ==
    signalled \/ api = "returned" \/ wallet = "returned" \/ broker = "returned"

StopperWakes ==
    /\ stopper = "waiting"
    /\ StopCause
    /\ stopper' = "wallet"
    /\ signalled' = FALSE
    /\ UNCHANGED <<config, database, process, runs, api, wallet, broker, hot, hands, faults>>

\* The wallet updater before its first poll.
BeforeBoot == {"initMetric", "initHot", "checkHot", "initCold"}

\* Run polls and updates pending transactions before the loop, whether or not
\* it was told to stop: how many of these two are yet to begin.
BootLeft == IF wallet \in BeforeBoot THEN 2 ELSE IF wallet = "boot" THEN 1 ELSE 0

\* Stop closes the stop channel of the wallet, then that of the broker.
StopLoop ==
    /\ \/ stopper = "wallet" /\ stopper' = "broker" /\ bootLeft' = BootLeft
       \/ stopper = "broker" /\ stopper' = "api" /\ UNCHANGED bootLeft
    /\ UNCHANGED <<config, database, process, runs, api, wallet, broker, signalled, hot,
                   inWallet, inBroker, request, late, faults>>

\* Shutdown makes ListenAndServe return at once, if it was reached.  It waits
\* 150 ms for the handlers, but nobody waits for it.
StopServer ==
    /\ stopper = "api"
    /\ stopper' = "done"
    /\ api' = IF api \in {"starting", "listening"} THEN "returned" ELSE api
    /\ UNCHANGED <<config, database, process, runs, wallet, broker, signalled, hot, hands,
                   faults>>

WalletStopped == stopper \in {"broker", "api", "done"}
BrokerStopped == stopper \in {"api", "done"}

-----------------------------------------------------------------------------
(* The API server and the handlers.                                        *)

Listen ==
    /\ api = "starting"
    /\ api' = "listening"
    /\ UNCHANGED <<config, database, process, runs, wallet, broker, stopper, signalled, hot,
                   hands, faults>>

ListenFails ==
    /\ api = "starting"
    /\ Fault("listenError")
    /\ api' = "returned"
    /\ UNCHANGED <<config, database, process, runs, wallet, broker, stopper, signalled, hot,
                   hands>>

RequestIs(r, before, after) ==
    request[r] = before /\ request' = [request EXCEPT ![r] = after]

AfterRequest == UNCHANGED <<config, database, process, runs, goroutines, signalled, hot,
                            inWallet, inBroker, late, bootLeft, faults>>

\* Withdraw compares the address with the one in memory, when there is one.
RefusedAtOnce(r) == r \in HotRequests /\ hot = "set"

\* Withdraw, CancelPendingTx and ConfirmPendingTransaction hand the request to
\* the updater: withdrawQueue and its like are never full.  The client knows the
\* hot wallet address from the configuration or from an earlier time.
AskWallet(r) ==
    /\ api = "listening"
    /\ r \in WalletRequests \cup HotRequests
    /\ r \in HotRequests => hotSetting # "none" \/ storedHot # 0
    /\ RequestIs(r, "no", IF RefusedAtOnce(r) THEN "over" ELSE "queued")
    /\ AfterRequest

\* MuteEventsWithTxID blocks while the broker's channel is full.
AskMute(r) ==
    /\ api = "listening"
    /\ r \in MuteRequests
    /\ RequestIs(r, "no", "sending")
    /\ AfterRequest

SendMute(r) ==
    /\ Running
    /\ r \in MuteRequests
    /\ Cardinality({q \in MuteRequests : request[q] = "queued"}) < MuteCapacity
    /\ RequestIs(r, "sending", "queued")
    /\ AfterRequest

-----------------------------------------------------------------------------
(* Run of the wallet.                                                      *)

WalletGoes(from, to) == wallet = from /\ wallet' = to

AfterWallet == UNCHANGED <<config, process, runs, api, broker, stopper, signalled, inBroker,
                           bootLeft>>

\* The updater begins something: a poll with the updates of pending
\* transactions it leads to, such an update by itself, or a request.
CountLate == late' = IF WalletStopped THEN late + 1 ELSE late

\* initPendingManualConfirmationsTxMetric reads the held withdrawals.
InitMetric ==
    /\ WalletGoes("initMetric", "initHot")
    /\ UNCHANGED <<database, hot, inWallet, request, late, faults>>
    /\ AfterWallet

\* When it cannot, Run returns the error.
InitMetricFails ==
    /\ WalletGoes("initMetric", "returned")
    /\ Fault("dbFail")
    /\ UNCHANGED <<database, hot, inWallet, request, late>>
    /\ AfterWallet

\* A panic outside mainLoop is not recovered: it ends the process.
WalletInitPanics ==
    /\ \/ /\ wallet = "initHot" /\ hotSetting = "none"
          /\ \/ Fault("nodeError") /\ storedHot = 0 /\ UNCHANGED database
             \/ Fault("dbFail") /\ UNCHANGED storedHot
                /\ made' \in {made, made + (IF storedHot = 0 THEN 1 ELSE 0)}
             \/ Fault("dbLost") /\ storedHot = 0
                /\ made' = made + 1 /\ storedHot' = made + 1
       \/ /\ wallet = "checkHot"
          /\ \/ Fault("nodeError")
             \/ hotSetting = "foreign" /\ UNCHANGED faults
          /\ UNCHANGED database
       \/ /\ wallet = "initCold" /\ coldSetting # "none"
          /\ \/ Fault("nodeError")
             \/ coldSetting = "mine" /\ UNCHANGED faults
          /\ UNCHANGED database
    /\ EndProcess
    /\ UNCHANGED <<config, runs>>

\* Mutant of getOrCreateHotWallet: an address is generated at every start.
getOrCreateHotWalletAnew ==
    IF hotSetting # "none" THEN UNCHANGED database
    ELSE made' = made + 1 /\ storedHot' = made + 1

\* The configured address, else the stored one, else a new one of the node,
\* which is stored before it is used.
getOrCreateHotWallet ==
    IF hotSetting # "none" \/ storedHot # 0 THEN UNCHANGED database
    ELSE made' = made + 1 /\ storedHot' = made + 1

InitHotWallet ==
    /\ WalletGoes("initHot", "checkHot")
    /\ getOrCreateHotWallet
    /\ hot' = "set"
    /\ UNCHANGED <<inWallet, request, late, faults>>
    /\ AfterWallet

CheckHotWalletAddress ==
    /\ WalletGoes("checkHot", "initCold")
    /\ hotSetting # "foreign"
    /\ UNCHANGED <<database, hot, inWallet, request, late, faults>>
    /\ AfterWallet

ColdAddressAccepted == coldSetting # "mine"

InitColdWallet ==
    /\ WalletGoes("initCold", "boot")
    /\ ColdAddressAccepted
    /\ CountLate
    /\ UNCHANGED <<database, hot, inWallet, request, faults>>
    /\ AfterWallet

\* checkForWalletUpdates before the loop is done, updatePendingTxns follows.
WalletBoot ==
    /\ WalletGoes("boot", "bootPending")
    /\ CountLate
    /\ UNCHANGED <<database, hot, inWallet, request, faults>>
    /\ AfterWallet

\* It is done as well, and mainLoop is called.
WalletBootPending ==
    /\ WalletGoes("bootPending", "select")
    /\ UNCHANGED <<database, hot, inWallet, request, late, faults>>
    /\ AfterWallet

\* Either may send withdrawals, and panic when the result cannot be saved.
WalletBootPanics ==
    /\ wallet \in {"boot", "bootPending"}
    /\ Fault("panic")
    /\ EndProcess
    /\ UNCHANGED <<config, database, runs>>

\* The select of mainLoop takes a tick, a notification of the node or a signal
\* to update pending transactions.
WalletTick ==
    /\ WalletGoes("select", "work")
    /\ CountLate
    /\ UNCHANGED <<database, hot, inWallet, request, faults>>
    /\ AfterWallet

\* It takes a request.
WalletTakes(r) ==
    /\ WalletGoes("select", "work")
    /\ r \notin MuteRequests
    /\ RequestIs(r, "queued", "taken")
    /\ inWallet' = r
    /\ CountLate
    /\ UNCHANGED <<database, hot, faults>>
    /\ AfterWallet

WalletReturns ==
    /\ WalletGoes("select", "returned")
    /\ WalletStopped
    /\ UNCHANGED <<database, hot, inWallet, request, late, faults>>
    /\ AfterWallet

\* Mutant of UnlessStopped: the stop channel is only looked at in the select.
UnlessStoppedNever(next) == next

\* The stop channel is checked before and after checkForWalletUpdates.
UnlessStopped(next) == IF WalletStopped THEN "returned" ELSE next

\* The request is done, and its handler, which is waiting, has the result.
WalletWorks ==
    /\ WalletGoes("work", UnlessStopped("poll"))
    /\ request' = [r \in Requests |-> IF r = inWallet THEN "over" ELSE request[r]]
    /\ inWallet' = NoRequest
    /\ UNCHANGED <<database, hot, late, faults>>
    /\ AfterWallet

WalletPolls ==
    /\ WalletGoes("poll", UnlessStopped("select"))
    /\ UNCHANGED <<database, hot, inWallet, request, late, faults>>
    /\ AfterWallet

\* mainLoop recovers from a panic and returns it; the handler is not answered.
WalletPanics ==
    /\ wallet \in {"work", "poll"}
    /\ Fault("panic")
    /\ wallet' = "returned"
    /\ inWallet' = NoRequest
    /\ UNCHANGED <<database, hot, request, late>>
    /\ AfterWallet

-----------------------------------------------------------------------------
(* Run of the event broker.                                                *)

BrokerGoes(from, to) == broker = from /\ broker' = to

AfterBroker == UNCHANGED <<config, database, process, runs, api, wallet, stopper, signalled,
                           hot, inWallet, late, bootLeft>>

\* Events that were not sent yet are sent before the loop.
BrokerBoot ==
    /\ BrokerGoes("boot", "select")
    /\ UNCHANGED <<inBroker, request, faults>>
    /\ AfterBroker

\* A trigger of one of the two kinds of notifications.
BrokerNotifies ==
    /\ BrokerGoes("select", "work")
    /\ UNCHANGED <<inBroker, request, faults>>
    /\ AfterBroker

BrokerTakes(r) ==
    /\ BrokerGoes("select", "work")
    /\ r \in MuteRequests
    /\ RequestIs(r, "queued", "taken")
    /\ inBroker' = r
    /\ UNCHANGED faults
    /\ AfterBroker

BrokerReturns ==
    /\ BrokerGoes("select", "returned")
    /\ BrokerStopped
    /\ UNCHANGED <<inBroker, request, faults>>
    /\ AfterBroker

\* The stop channel is checked after each piece of work.
BrokerWorks ==
    /\ BrokerGoes("work", IF BrokerStopped THEN "returned" ELSE "select")
    /\ request' = [r \in Requests |-> IF r = inBroker THEN "over" ELSE request[r]]
    /\ inBroker' = NoRequest
    /\ UNCHANGED faults
    /\ AfterBroker

BrokerPanics ==
    /\ broker = "work"
    /\ Fault("panic")
    /\ broker' = "returned"
    /\ inBroker' = NoRequest
    /\ UNCHANGED request
    /\ AfterBroker

-----------------------------------------------------------------------------
WalletStep ==
    \/ InitMetric
    \/ InitHotWallet
    \/ CheckHotWalletAddress
    \/ InitColdWallet
    \/ WalletInitPanics
    \/ WalletBoot
    \/ WalletBootPending
    \/ WalletTick
    \/ WalletReturns
    \/ WalletWorks
    \/ WalletPolls

BrokerStep ==
    \/ BrokerBoot
    \/ BrokerNotifies
    \/ BrokerReturns
    \/ BrokerWorks

MainStep ==
    \/ StopperWakes
    \/ StopLoop
    \/ StopServer
    \/ Listen
    \/ Exit

Environment ==
    \/ Start
    \/ Signal
    \/ Killed
    \/ ListenFails
    \/ InitMetricFails
    \/ WalletBootPanics
    \/ WalletPanics
    \/ BrokerPanics
    \/ \E r \in Requests : AskWallet(r) \/ AskMute(r)

Next ==
    \/ WalletStep
    \/ BrokerStep
    \/ MainStep
    \/ Environment
    \/ \E r \in Requests : SendMute(r) \/ WalletTakes(r) \/ BrokerTakes(r)

\* Every goroutine runs on, the calls it makes return, the POSTs of the broker
\* too though they have no timeout, and a select that is offered requests again
\* and again takes one at last (Go picks at random).
Fairness ==
    /\ WF_vars(WalletStep)
    /\ WF_vars(BrokerStep)
    /\ WF_vars(MainStep)
    /\ WF_vars(\E r \in Requests : SendMute(r))
    /\ SF_vars(\E r \in Requests : WalletTakes(r))
    /\ SF_vars(\E r \in Requests : BrokerTakes(r))

Spec == Init /\ [][Next]_vars /\ Fairness

-----------------------------------------------------------------------------
(* Properties.                                                             *)

\* Everybody waits on nobody: a handler that waits for a result gets it, or
\* the process ends, also when the loop that should answer stopped or panicked
\* and when the channel was full.
HandlersNotStuck ==
    \A r \in Requests :
        request[r] \in {"sending", "queued", "taken"} ~> request[r] = "over"

\* After a signal, or after one component has ended, the process ends.
Terminates == (signalled \/ \E s \in {api, wallet, broker} : s = "returned") ~> ~Running

\* Once Stop was called, the updater begins at most one more piece of work: the
\* one that its select may prefer to the closed channel.  Stopped while it
\* starts, it first goes through what is left of its boot, the poll and the
\* update of pending transactions, which do not look at the channel.
WorkAfterStop == late <= 1 + bootLeft

\* The hot wallet address that clients send money to stays the same over
\* restarts, failed and lost statements and crashes.
HotAddressStable == [][storedHot # 0 => storedHot' = storedHot]_vars

\* "Withdrawal to hot wallet address are not allowed" (Withdraw).
NoWithdrawalToHotWallet == inWallet \notin HotRequests
=============================================================================
