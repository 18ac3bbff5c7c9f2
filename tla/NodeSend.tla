------------------------------ MODULE NodeSend ------------------------------
(***************************************************************************)
(* How the node API (bitcoin/nodeapi/rpc.go) turns a payment into calls of *)
(* the Bitcoin node, and how it reads the balance.                         *)
(*                                                                         *)
(* No payment is one call: a payment with a fee per kilobyte first sets    *)
(* the node's fee rate, one with a fixed fee is put together from a raw    *)
(* transaction the node funds with a fee of its own.  The balance takes    *)
(* two calls.  The mutex moneySendLock keeps these sequences apart; the    *)
(* world goes on between any two calls.                                    *)
(*                                                                         *)
(* Amounts are satoshi in machine words of the code: a sum may wrap, and   *)
(* the node is given the word as a signed number.                          *)
(***************************************************************************)
EXTENDS Integers, FiniteSets, Functions, Sequences

CONSTANTS
    Callers,      \* goroutines that use the node API
    Nobody,       \* the mutex is free
    Recipient,    \* the address a payment goes to
    Change,       \* an address the node makes for the change
    Payments,     \* the payments that may be asked for
    InitialCoins, \* values of the wallet's coins at the start
    DepositValue, \* value of a deposit that may arrive
    MaxDeposits,  \* bound: deposits in a behaviour
    MaxPayments,  \* bound: payments in a behaviour
    AutoFees,     \* fees fundrawtransaction may choose
    Dust,         \* smaller outputs are not relayed
    Word,         \* number of values of a uint64
    MaxFaults     \* bound: failed calls in a behaviour

PaymentType == [kind : {"fixed", "perKB"}, amount : 0 .. Word - 1,
                fee : 0 .. Word - 1, recipientPaysFee : BOOLEAN]

ASSUME SendAssumption ==
    /\ Nobody \notin Callers
    /\ Recipient # Change
    /\ Payments \subseteq PaymentType
    /\ InitialCoins \in Seq(Nat)
    /\ DepositValue \in Nat \ {0}
    /\ MaxDeposits \in Nat /\ MaxPayments \in Nat /\ MaxFaults \in Nat
    /\ AutoFees \subseteq Nat
    /\ Dust \in Nat
    /\ Word \in Nat \ {0}

VARIABLES
    coins,    \* the wallet's unspent coins
    made,     \* coins made so far
    deposits, \* deposits so far
    payTxFee, \* the fee rate settxfee has left on the node
    sent,     \* the last transaction the node has broadcast for this wallet
    payments, \* how many it has broadcast
    holder,   \* who holds moneySendLock
    pc,       \* where each caller is
    request,  \* the payment it was asked for
    draft,    \* the raw transaction it is putting together
    reading,  \* the balance it has read in the first of the two calls
    answer,   \* the last pair of balances returned, and what the wallet had then
    faults    \* failed calls so far

node == <<coins, made, deposits, payTxFee, sent, payments>>
vars == <<node, holder, pc, request, draft, reading, answer, faults>>

NoRequest == [kind |-> "none", amount |-> 0, fee |-> 0, recipientPaysFee |-> FALSE]
NothingSent == [request |-> NoRequest, pays |-> 0, change |-> 0, fee |-> 0, rate |-> 0]
NoDraft == [inputs |-> {}, vout |-> << >>, changePos |-> -1, fee |-> 0]
NoAnswer == [conf |-> 0, unconf |-> 0, worth |-> 0]

\* Points inside moneySendLock, each before a call of the node.
Locked == {"settxfee", "sendtoaddress", "create", "fund", "encode", "sign",
           "sendraw", "getbalance", "getunconfirmed"}
Points == Locked \cup {"idle", "lockSend", "lockBalance"}

CoinType == [id : Nat, value : Nat, trusted : BOOLEAN]
OutputType == [address : {Recipient, Change}, value : Int]
DraftType == [inputs : SUBSET CoinType, vout : Seq(OutputType),
              changePos : {-1, 0, 1}, fee : Int]

\* The types of the state; the mutex belongs to the one caller that is inside.
TypeOK ==
    /\ coins \subseteq CoinType
    /\ made \in Nat
    /\ deposits \in 0 .. MaxDeposits
    /\ payTxFee \in 0 .. Word - 1
    /\ sent \in [request : Payments \cup {NoRequest}, pays : Int, change : Int,
                 fee : Int, rate : Int]
    /\ payments \in 0 .. MaxPayments
    /\ holder \in Callers \cup {Nobody}
    /\ pc \in [Callers -> Points]
    /\ \A c \in Callers : pc[c] \in Locked <=> holder = c
    /\ request \in [Callers -> Payments \cup {NoRequest}]
    /\ draft \in [Callers -> DraftType]
    /\ reading \in [Callers -> Nat]
    /\ answer \in [conf : Nat, unconf : Nat, worth : Nat]
    /\ faults \in 0 .. MaxFaults

Init ==
    /\ coins = {[id |-> n, value |-> InitialCoins[n], trusted |-> TRUE] :
                  n \in 1 .. Len(InitialCoins)}
    /\ made = Len(InitialCoins)
    /\ deposits = 0
    /\ payTxFee = 0
    /\ sent = NothingSent
    /\ payments = 0
    /\ holder = Nobody
    /\ pc = [c \in Callers |-> "idle"]
    /\ request = [c \in Callers |-> NoRequest]
    /\ draft = [c \in Callers |-> NoDraft]
    /\ reading = [c \in Callers |-> 0]
    /\ answer = NoAnswer
    /\ faults = 0

-----------------------------------------------------------------------------
(* Money.                                                                  *)

Value(S) == SumFunction([coin \in S |-> coin.value])
Trusted == {coin \in coins : coin.trusted}

\* ToBTC of a word that is too large for an int64 is negative.
Signed(amount) == IF amount < Word \div 2 THEN amount ELSE amount - Word

\* The output a fixed fee payment starts from: what the wallet is to lose.
Debit(p) == IF p.recipientPaysFee THEN p.amount ELSE (p.amount + p.fee) % Word

\* What the recipient is to get.
Due(p) == IF p.recipientPaysFee THEN p.amount - p.fee ELSE p.amount

\* What the recipient gets of a payment with the fee rate of the node.
PaysPerKB(p) == IF p.recipientPaysFee THEN p.amount - payTxFee ELSE p.amount

\* The node can make the payment with sendtoaddress.
Sendable(p) ==
    /\ Signed(p.amount) > 0
    /\ PaysPerKB(p) >= Dust
    /\ Value(Trusted) >= PaysPerKB(p) + payTxFee

\* The node can fund the output of a fixed fee payment.
Fundable(p) ==
    /\ Value(Trusted) >= Signed(Debit(p))
    /\ \E auto \in AutoFees : auto <= Signed(Debit(p))

OutputsTo(vout, address) ==
    LET to == {n \in 1 .. Len(vout) : vout[n].address = address}
    IN SumFunction([n \in to |-> vout[n].value])

\* The node broadcasts: the coins are spent and the change is a new one.
Broadcast(p, inputs, vout) ==
    LET change == OutputsTo(vout, Change)
        pays == OutputsTo(vout, Recipient)
    IN
    /\ sent' = [request |-> p, pays |-> pays, change |-> change,
                fee |-> Value(inputs) - pays - change, rate |-> payTxFee]
    /\ payments' = payments + 1
    /\ coins' = (coins \ inputs) \cup
                  (IF change > 0
                   THEN {[id |-> made + 1, value |-> change, trusted |-> TRUE]}
                   ELSE {})
    /\ made' = made + 1
    /\ UNCHANGED <<deposits, payTxFee>>

-----------------------------------------------------------------------------
(* Callers and the mutex.                                                  *)

Fault == faults < MaxFaults /\ faults' = faults + 1

Goto(c, from, to) == pc[c] = from /\ pc' = [pc EXCEPT ![c] = to]

\* The deferred Unlock runs on every return.
Return(c) ==
    /\ pc' = [pc EXCEPT ![c] = "idle"]
    /\ holder' = Nobody
    /\ request' = [request EXCEPT ![c] = NoRequest]
    /\ draft' = [draft EXCEPT ![c] = NoDraft]
    /\ reading' = [reading EXCEPT ![c] = 0]

\* A payment is asked for.
AskPayment(c, p) ==
    /\ Goto(c, "idle", "lockSend")
    /\ payments + Cardinality({d \in Callers : request[d] # NoRequest}) < MaxPayments
    /\ request' = [request EXCEPT ![c] = p]
    /\ UNCHANGED <<node, holder, draft, reading, answer, faults>>

\* GetConfirmedAndUnconfirmedBalance is called.
AskBalance(c) ==
    /\ Goto(c, "idle", "lockBalance")
    /\ UNCHANGED <<node, holder, request, draft, reading, answer, faults>>

\* Mutant of Lock: it does not wait for the other caller.
LockAlways(c) == holder' = c

Lock(c) == holder = Nobody /\ holder' = c

\* The first call of the locked sequence.  A recipient who cannot pay the
\* fixed fee is refused at once.
StartPayment(c) ==
    /\ Lock(c)
    /\ \/ request[c].kind = "perKB" /\ Goto(c, "lockSend", "settxfee")
       \/ request[c].kind = "fixed" /\ Goto(c, "lockSend", "create")
    /\ ~(request[c].kind = "fixed" /\ request[c].recipientPaysFee
         /\ request[c].amount < request[c].fee)
    /\ UNCHANGED <<node, request, draft, reading, answer, faults>>

RefusePayment(c) ==
    /\ pc[c] = "lockSend"
    /\ holder = Nobody
    /\ request[c].kind = "fixed" /\ request[c].recipientPaysFee
    /\ request[c].amount < request[c].fee
    /\ Return(c)
    /\ UNCHANGED <<node, answer, faults>>

StartBalance(c) ==
    /\ Lock(c)
    /\ Goto(c, "lockBalance", "getbalance")
    /\ UNCHANGED <<node, request, draft, reading, answer, faults>>

\* The node refuses a call that makes no sense or that the coins do not cover.
Refused(c) ==
    LET p == request[c] IN
    \/ pc[c] = "sendtoaddress" /\ ~Sendable(p)
    \/ pc[c] = "create" /\ Signed(Debit(p)) <= 0
    \/ pc[c] = "fund" /\ ~Fundable(p)

\* Mutant of CallFails: the mutex stays locked after an error.
CallFailsLocked(c) ==
    /\ pc[c] \in Locked
    /\ (Fault \/ (Refused(c) /\ UNCHANGED faults))
    /\ pc' = [pc EXCEPT ![c] = "idle"]
    /\ request' = [request EXCEPT ![c] = NoRequest]
    /\ draft' = [draft EXCEPT ![c] = NoDraft]
    /\ reading' = [reading EXCEPT ![c] = 0]
    /\ UNCHANGED <<node, holder, answer>>

\* A call of the node fails or is refused: the error goes to the caller.
CallFails(c) ==
    /\ pc[c] \in Locked
    /\ (Fault \/ (Refused(c) /\ UNCHANGED faults))
    /\ Return(c)
    /\ UNCHANGED <<node, answer>>

-----------------------------------------------------------------------------
(* SendWithPerKBFee.                                                       *)

SetTxFee(c) ==
    /\ Goto(c, "settxfee", "sendtoaddress")
    /\ payTxFee' = request[c].fee
    /\ UNCHANGED <<coins, made, deposits, sent, payments, holder, request, draft, reading, answer, faults>>

\* The node chooses coins for the amount, and for the fee if the sender pays
\* it; the transaction's size is one kilobyte.
SendToAddress(c) ==
    LET p == request[c] IN
    /\ pc[c] = "sendtoaddress"
    /\ Sendable(p)
    /\ \E inputs \in SUBSET Trusted :
         /\ Value(inputs) >= PaysPerKB(p) + payTxFee
         /\ Broadcast(p, inputs,
              <<[address |-> Recipient, value |-> PaysPerKB(p)],
                [address |-> Change, value |-> Value(inputs) - PaysPerKB(p) - payTxFee]>>)
    /\ Return(c)
    /\ UNCHANGED <<answer, faults>>

-----------------------------------------------------------------------------
(* SendWithFixedFee.                                                       *)

CreateRawTransaction(c) ==
    /\ Goto(c, "create", "fund")
    /\ Signed(Debit(request[c])) > 0
    /\ UNCHANGED <<node, holder, request, draft, reading, answer, faults>>

\* The node adds coins, takes a fee of its own from the recipient's output and
\* gives the rest back as change, unless the rest is dust: that goes to the fee.
FundRawTransaction(c) ==
    LET amount == Signed(Debit(request[c])) IN
    /\ Goto(c, "fund", "encode")
    /\ \E inputs \in SUBSET Trusted, auto \in AutoFees, first \in BOOLEAN :
         LET rest == Value(inputs) - amount
             toRecipient == [address |-> Recipient, value |-> amount - auto]
             toChange == [address |-> Change, value |-> rest]
         IN
         /\ rest >= 0
         /\ auto <= amount
         /\ draft' = [draft EXCEPT ![c] =
              IF rest < Dust
              THEN [inputs |-> inputs, vout |-> <<toRecipient>>,
                    changePos |-> -1, fee |-> auto + rest]
              ELSE [inputs |-> inputs,
                    vout |-> IF first THEN <<toChange, toRecipient>>
                             ELSE <<toRecipient, toChange>>,
                    changePos |-> IF first THEN 0 ELSE 1,
                    fee |-> auto]]
    /\ UNCHANGED <<node, holder, request, reading, answer, faults>>

\* Mutant of transformTxToSetFixedFee: the automatic fee is not given back.
transformTxToSetFixedFeeKeepsAuto(d, fixedFee) ==
    LET pos == IF d.changePos = 0 THEN 2 ELSE 1
    IN [d EXCEPT !.vout[pos].value = @ - fixedFee]

\* The recipient's output gives the automatic fee back and pays the fixed one.
transformTxToSetFixedFee(d, fixedFee) ==
    LET pos == IF d.changePos = 0 THEN 2 ELSE 1
    IN [d EXCEPT !.vout[pos].value = @ - fixedFee + d.fee]

\* The checks of transformTxToSetFixedFee on what the node has returned.
Transformable(d) ==
    /\ Len(d.vout) = IF d.changePos = -1 THEN 1 ELSE 2
    /\ d.vout[IF d.changePos = 0 THEN 2 ELSE 1].address = Recipient

\* The transformed transaction is encoded anew: a call of createrawtransaction,
\* which takes no negative amount.
EncodeTransformedTransaction(c) ==
    LET d == transformTxToSetFixedFee(draft[c], request[c].fee) IN
    /\ pc[c] = "encode"
    /\ Transformable(draft[c])
    /\ IF \A n \in 1 .. Len(d.vout) : d.vout[n].value >= 0
       THEN /\ Goto(c, "encode", "sign")
            /\ draft' = [draft EXCEPT ![c] = d]
            /\ UNCHANGED <<holder, request, reading>>
       ELSE Return(c)
    /\ UNCHANGED <<node, answer, faults>>

SignRawTransactionWithWallet(c) ==
    /\ Goto(c, "sign", "sendraw")
    /\ UNCHANGED <<node, holder, request, draft, reading, answer, faults>>

\* The node relays the transaction if no output is dust and the coins are
\* still there.
SendRawTransaction(c) ==
    /\ pc[c] = "sendraw"
    /\ IF /\ draft[c].inputs \subseteq coins
          /\ \A n \in 1 .. Len(draft[c].vout) : draft[c].vout[n].value >= Dust
       THEN Broadcast(request[c], draft[c].inputs, draft[c].vout)
       ELSE UNCHANGED node
    /\ Return(c)
    /\ UNCHANGED <<answer, faults>>

-----------------------------------------------------------------------------
(* GetConfirmedAndUnconfirmedBalance.                                      *)

\* Mutant of BalanceCalls: the unconfirmed balance is asked for first.
BalanceCallsSwapped == <<"unconf", "conf">>

\* The order of the two calls.
BalanceCalls == <<"conf", "unconf">>

Balance(which) == IF which = "conf" THEN Value(Trusted) ELSE Value(coins \ Trusted)

GetBalance(c) ==
    /\ Goto(c, "getbalance", "getunconfirmed")
    /\ reading' = [reading EXCEPT ![c] = Balance(BalanceCalls[1])]
    /\ UNCHANGED <<node, holder, request, draft, answer, faults>>

GetUnconfirmedBalance(c) ==
    /\ pc[c] = "getunconfirmed"
    /\ answer' = [NoAnswer EXCEPT ![BalanceCalls[1]] = reading[c],
                                 ![BalanceCalls[2]] = Balance(BalanceCalls[2]),
                                 !.worth = Value(coins)]
    /\ Return(c)
    /\ UNCHANGED <<node, faults>>

-----------------------------------------------------------------------------
(* The world.                                                              *)

DepositArrives ==
    /\ deposits < MaxDeposits
    /\ coins' = coins \cup {[id |-> made + 1, value |-> DepositValue, trusted |-> FALSE]}
    /\ made' = made + 1
    /\ deposits' = deposits + 1
    /\ UNCHANGED <<payTxFee, sent, payments, holder, pc, request, draft, reading, answer, faults>>

DepositConfirms ==
    /\ \E coin \in coins \ Trusted :
         coins' = (coins \ {coin}) \cup {[coin EXCEPT !.trusted = TRUE]}
    /\ UNCHANGED <<made, deposits, payTxFee, sent, payments, holder, pc, request, draft,
                   reading, answer, faults>>

Ask(c) == AskBalance(c) \/ \E p \in Payments : AskPayment(c, p)

Proceed(c) ==
    \/ StartPayment(c)
    \/ RefusePayment(c)
    \/ StartBalance(c)
    \/ SetTxFee(c)
    \/ SendToAddress(c)
    \/ CreateRawTransaction(c)
    \/ FundRawTransaction(c)
    \/ EncodeTransformedTransaction(c)
    \/ SignRawTransactionWithWallet(c)
    \/ SendRawTransaction(c)
    \/ GetBalance(c)
    \/ GetUnconfirmedBalance(c)
    \/ CallFails(c)

Next ==
    \/ \E c \in Callers : Ask(c) \/ Proceed(c)
    \/ DepositArrives
    \/ DepositConfirms

\* The node answers every call or the connection breaks, and a goroutine that
\* waits for the mutex gets it in the end: Go hands it over in order once
\* somebody has waited for a millisecond.
Spec == Init /\ [][Next]_vars /\ \A c \in Callers : SF_vars(Proceed(c))

-----------------------------------------------------------------------------
(* Properties.                                                             *)

\* "recipient will get the exact amount specified" when the sender pays the fee
\* (comment of SendWithFixedFee).  It is not so: change that would be dust is
\* part of the fee the node reports, and that fee is given to the recipient.
ExactAmount ==
    sent.request.kind = "fixed" /\ ~sent.request.recipientPaysFee =>
        sent.pays = sent.request.amount

\* What SendWithFixedFee does guarantee.  Whatever fee the node chose while
\* funding, the miner gets exactly the fixed fee.  The recipient never gets
\* less than is due, and more only by a rest too small for a change output,
\* which the node's automatic fee had swallowed: there ExactAmount fails.  A
\* sum that wraps is never paid.
FixedFeeExact ==
    sent.request.kind = "fixed" =>
        /\ sent.fee = sent.request.fee
        /\ sent.pays >= Due(sent.request)
        /\ sent.pays > Due(sent.request) =>
             sent.change = 0 /\ sent.pays < Due(sent.request) + Dust

\* A payment with a fee per kilobyte is made with the rate it asked for, not
\* with the one another payment has set meanwhile.
OwnRate ==
    sent.request.kind = "perKB" => sent.rate = sent.request.fee

\* Nobody spends the coins of a raw transaction between its funding and its
\* broadcast, which would then be refused as a double spend.
CoinsStay ==
    \A c \in Callers :
        pc[c] \in {"encode", "sign", "sendraw"} => draft[c].inputs \subseteq coins

\* The two balances never add up to more than the wallet had at the second
\* call: neither a payment nor the confirmation of a deposit that falls
\* between the calls makes money appear twice.
BalanceNotOverstated == answer.conf + answer.unconf <= answer.worth

\* Every call of the node API returns: each path gives the mutex back.
CallsReturn == \A c \in Callers : pc[c] # "idle" ~> pc[c] = "idle"
=============================================================================
