--------------------------- MODULE NodeSendProofs ---------------------------
(***************************************************************************)
(* Proofs about the calls of the node, for every set of callers and        *)
(* payments, every word size and every way the node funds a transaction.   *)
(***************************************************************************)
EXTENDS NodeSend, FoldTheorems

-----------------------------------------------------------------------------
(* Sums of coins and outputs.                                              *)

\* The value of some of the coins, as a sum over all of them.
LEMMA ValueOfPart ==
    ASSUME NEW S \in SUBSET CoinType, IsFiniteSet(S), NEW T \in SUBSET S
    PROVE  Value(T) = SumFunctionOnSet([coin \in S |-> coin.value], T)
<1>1. IsFiniteSet(T)
  BY FS_Subset
<1>2. Value(T) = SumFunctionOnSet([coin \in T |-> coin.value], T)
  BY DEF Value, SumFunction
<1>. QED
  BY <1>1, <1>2, SumAgree

\* Coins are worth a natural number.
LEMMA ValueNat ==
    ASSUME NEW S \in SUBSET CoinType, IsFiniteSet(S)
    PROVE  Value(S) \in Nat
<1>. DEFINE f == [coin \in S |-> coin.value]
<1>1. \A coin \in S : f[coin] \in Nat
  BY DEF CoinType
<1>2. Value(S) = SumFunctionOnSet(f, S)
  BY DEF Value, SumFunction
<1>. HIDE DEF f
<1>. QED
  BY <1>1, <1>2, SumNat

\* Some of the coins and the others are worth as much as all of them.
LEMMA ValueSplits ==
    ASSUME NEW S \in SUBSET CoinType, IsFiniteSet(S), NEW T \in SUBSET S
    PROVE  /\ Value(T) \in Nat /\ Value(S \ T) \in Nat /\ Value(S) \in Nat
           /\ Value(S) = Value(T) + Value(S \ T)
<1>. DEFINE f == [coin \in S |-> coin.value]
<1>1. \A coin \in S : f[coin] \in Int
  BY DEF CoinType
<1>2. /\ Value(S) = SumFunctionOnSet(f, S)
      /\ Value(T) = SumFunctionOnSet(f, T)
      /\ Value(S \ T) = SumFunctionOnSet(f, S \ T)
  BY ValueOfPart
<1>3. IsFiniteSet(T) /\ IsFiniteSet(S \ T)
  BY FS_Subset
<1>4. Value(T) \in Nat /\ Value(S \ T) \in Nat /\ Value(S) \in Nat
  BY <1>3, ValueNat
<1>. HIDE DEF f
<1>. QED
  BY <1>1, <1>2, <1>4, SumUnion

\* More coins are not worth less.
LEMMA ValueGrows ==
    ASSUME NEW S \in SUBSET CoinType, IsFiniteSet(S), NEW T \in SUBSET S
    PROVE  Value(T) <= Value(S)
<1>1. /\ Value(T) \in Nat /\ Value(S \ T) \in Nat /\ Value(S) \in Nat
      /\ Value(S) = Value(T) + Value(S \ T)
  BY ValueSplits
<1>. QED
  BY <1>1

\* What a transaction pays to an address is a number.
LEMMA OutputsInt ==
    ASSUME NEW vout \in Seq(OutputType), NEW address
    PROVE  OutputsTo(vout, address) \in Int
<1>. DEFINE to == {n \in 1 .. Len(vout) : vout[n].address = address}
            f == [n \in to |-> vout[n].value]
<1>1. IsFiniteSet(to)
  BY FS_Interval, FS_Subset
<1>2. \A n \in to : f[n] \in Int
  <2>1. \A n \in 1 .. Len(vout) : vout[n] \in OutputType
    OBVIOUS
  <2>. QED BY <2>1 DEF OutputType
<1>3. OutputsTo(vout, address) = SumFunctionOnSet(f, to)
  BY DEF OutputsTo, SumFunction
<1>. HIDE DEF f, to
<1>. QED
  BY <1>1, <1>2, <1>3, SumType

\* An address with one output gets its value, one with none gets nothing.
LEMMA OutputsOfOne ==
    ASSUME NEW vout \in Seq(OutputType), NEW address, NEW k \in 1 .. Len(vout),
           \A n \in 1 .. Len(vout) : vout[n].address = address <=> n = k
    PROVE  OutputsTo(vout, address) = vout[k].value
<1>. DEFINE to == {n \in 1 .. Len(vout) : vout[n].address = address}
            f == [n \in to |-> vout[n].value]
<1>1. to = {k}
  OBVIOUS
<1>2. f[k] = vout[k].value /\ f[k] \in Int
  <2>1. vout[k] \in OutputType
    OBVIOUS
  <2>. QED BY <1>1, <2>1 DEF OutputType
<1>3. OutputsTo(vout, address) = SumFunctionOnSet(f, to)
  BY DEF OutputsTo, SumFunction
<1>. HIDE DEF f, to
<1>. QED
  BY <1>1, <1>2, <1>3, SumSingleton

\* No output to an address: nothing is paid to it.
LEMMA OutputsOfNone ==
    ASSUME NEW vout \in Seq(OutputType), NEW address,
           \A n \in 1 .. Len(vout) : vout[n].address # address
    PROVE  OutputsTo(vout, address) = 0
<1>. DEFINE to == {n \in 1 .. Len(vout) : vout[n].address = address}
            f == [n \in to |-> vout[n].value]
<1>1. to = {}
  OBVIOUS
<1>2. OutputsTo(vout, address) = SumFunctionOnSet(f, to)
  BY DEF OutputsTo, SumFunction
<1>. HIDE DEF f, to
<1>. QED
  BY <1>1, <1>2, SumEmpty

\* A transaction without change, and one with it in either place.
LEMMA OutputsOfPayment ==
    ASSUME NEW v \in Int, NEW w \in Int, NEW vout,
           LET toRecipient == [address |-> Recipient, value |-> v]
               toChange == [address |-> Change, value |-> w]
           IN \/ vout = <<toRecipient>> /\ w = 0
              \/ vout = <<toRecipient, toChange>>
              \/ vout = <<toChange, toRecipient>>
    PROVE  /\ vout \in Seq(OutputType)
           /\ OutputsTo(vout, Recipient) = v
           /\ OutputsTo(vout, Change) = w
<1>. DEFINE toRecipient == [address |-> Recipient, value |-> v]
            toChange == [address |-> Change, value |-> w]
<1>1. Recipient # Change
  BY SendAssumption
<1>2. toRecipient \in OutputType /\ toChange \in OutputType
  BY DEF OutputType
<1>3. toRecipient.address = Recipient /\ toChange.address = Change
      /\ toRecipient.value = v /\ toChange.value = w
  OBVIOUS
<1>. HIDE DEF toRecipient, toChange
<1>4. CASE vout = <<toRecipient>> /\ w = 0
  <2>1. vout \in Seq(OutputType) /\ Len(vout) = 1 /\ vout[1] = toRecipient
    BY <1>2, <1>4
  <2>2. OutputsTo(vout, Recipient) = v
    <3>1. 1 \in 1 .. Len(vout) /\ \A n \in 1 .. Len(vout) : vout[n].address = Recipient <=> n = 1
      BY <1>3, <2>1
    <3>. QED BY <1>3, <2>1, <3>1, OutputsOfOne
  <2>3. OutputsTo(vout, Change) = 0
    BY <1>1, <1>3, <2>1, OutputsOfNone
  <2>. QED BY <1>4, <2>1, <2>2, <2>3
<1>5. CASE vout = <<toRecipient, toChange>>
  <2>1. vout \in Seq(OutputType) /\ Len(vout) = 2 /\ vout[1] = toRecipient /\ vout[2] = toChange
    BY <1>2, <1>5
  <2>2. 1 .. Len(vout) = {1, 2}
    BY <2>1
  <2>3. OutputsTo(vout, Recipient) = v
    <3>1. 1 \in 1 .. Len(vout) /\ \A n \in 1 .. Len(vout) : vout[n].address = Recipient <=> n = 1
      BY <1>1, <1>3, <2>1, <2>2
    <3>. QED BY <1>3, <2>1, <3>1, OutputsOfOne
  <2>4. OutputsTo(vout, Change) = w
    <3>1. 2 \in 1 .. Len(vout) /\ \A n \in 1 .. Len(vout) : vout[n].address = Change <=> n = 2
      BY <1>1, <1>3, <2>1, <2>2
    <3>. QED BY <1>3, <2>1, <3>1, OutputsOfOne
  <2>. QED BY <2>1, <2>3, <2>4
<1>6. CASE vout = <<toChange, toRecipient>>
  <2>1. vout \in Seq(OutputType) /\ Len(vout) = 2 /\ vout[1] = toChange /\ vout[2] = toRecipient
    BY <1>2, <1>6
  <2>2. 1 .. Len(vout) = {1, 2}
    BY <2>1
  <2>3. OutputsTo(vout, Recipient) = v
    <3>1. 2 \in 1 .. Len(vout) /\ \A n \in 1 .. Len(vout) : vout[n].address = Recipient <=> n = 2
      BY <1>1, <1>3, <2>1, <2>2
    <3>. QED BY <1>3, <2>1, <3>1, OutputsOfOne
  <2>4. OutputsTo(vout, Change) = w
    <3>1. 1 \in 1 .. Len(vout) /\ \A n \in 1 .. Len(vout) : vout[n].address = Change <=> n = 1
      BY <1>1, <1>3, <2>1, <2>2
    <3>. QED BY <1>3, <2>1, <3>1, OutputsOfOne
  <2>. QED BY <2>1, <2>3, <2>4
<1>. QED
  BY <1>4, <1>5, <1>6 DEF toRecipient, toChange

\* An amount the node takes as positive is the word itself; a sum that wraps
\* is less than the fee in it.
LEMMA DebitOfPayment ==
    ASSUME NEW p \in PaymentType, Signed(Debit(p)) > 0
    PROVE  /\ Signed(Debit(p)) \in Nat /\ p.fee \in Nat /\ p.amount \in Nat
           /\ Due(p) \in Int
           /\ \/ Due(p) = Signed(Debit(p)) - p.fee
              \/ Signed(Debit(p)) < p.fee
<1>1. Word \in Nat \ {0} /\ p.amount \in 0 .. Word - 1 /\ p.fee \in 0 .. Word - 1
  BY SendAssumption DEF PaymentType
<1>2. Debit(p) \in 0 .. Word - 1
  BY <1>1 DEF Debit
<1>3. Signed(Debit(p)) = Debit(p)
  <2>. DEFINE half == Word \div 2
  <2>. HIDE DEF half
  <2>1. Signed(Debit(p)) = IF Debit(p) < half THEN Debit(p) ELSE Debit(p) - Word
    BY DEF Signed, half
  <2>. QED BY <1>1, <1>2, <2>1
<1>4. CASE p.recipientPaysFee
  BY <1>1, <1>3, <1>4 DEF Debit, Due
<1>5. CASE ~p.recipientPaysFee
  <2>1. Debit(p) = (p.amount + p.fee) % Word
    BY <1>5 DEF Debit
  <2>2. (p.amount + p.fee) % Word = IF p.amount + p.fee < Word THEN p.amount + p.fee
                                    ELSE p.amount + p.fee - Word
    BY <1>1
  <2>. QED BY <1>1, <1>3, <1>5, <2>1, <2>2 DEF Due
<1>. QED
  BY <1>4, <1>5, <1>1, <1>2, <1>3 DEF Due

-----------------------------------------------------------------------------
(* The inductive invariant.                                                *)

\* Payments that were asked for and have not returned.
Asking == {c \in Callers : request[c] # NoRequest}

\* Each of them may still be broadcast within the bound.
BoundInv ==
    /\ IsFiniteSet(Asking)
    /\ payments + Cardinality(Asking) <= MaxPayments

\* What a caller works on fits the place it has reached; its fee rate is on
\* the node from settxfee to sendtoaddress.
RequestInv ==
    \A c \in Callers :
        /\ pc[c] = "lockSend" => request[c] \in Payments
        /\ pc[c] \in {"settxfee", "sendtoaddress"} =>
             request[c] \in Payments /\ request[c].kind = "perKB"
        /\ pc[c] \in {"create", "fund", "encode", "sign", "sendraw"} =>
             request[c] \in Payments /\ request[c].kind = "fixed"
        /\ pc[c] = "sendtoaddress" => payTxFee = request[c].fee
        /\ pc[c] \in {"fund", "encode", "sign", "sendraw"} =>
             Signed(Debit(request[c])) > 0

\* A transaction with the output v to the recipient, and the rest of its coins
\* over the amount as change unless that is dust.
Outputs(vout, v, rest) ==
    LET toRecipient == [address |-> Recipient, value |-> v]
        toChange == [address |-> Change, value |-> rest]
    IN IF rest < Dust THEN vout = <<toRecipient>>
       ELSE vout \in {<<toRecipient, toChange>>, <<toChange, toRecipient>>}

\* What fundrawtransaction has returned: the recipient's output and the fee
\* are the amount, and the rest where it is dust.
Funded(d, p) ==
    LET rest == Value(d.inputs) - Signed(Debit(p))
        v == Signed(Debit(p)) - d.fee + (IF rest < Dust THEN rest ELSE 0)
    IN
    /\ rest >= 0
    /\ Outputs(d.vout, v, rest)
    /\ d.changePos = IF rest < Dust THEN -1
                     ELSE IF d.vout[1].address = Change THEN 0 ELSE 1

\* The transformed transaction: the fixed fee is what the outputs leave.
Transformed(d, p) ==
    LET rest == Value(d.inputs) - Signed(Debit(p))
        v == Signed(Debit(p)) - p.fee + (IF rest < Dust THEN rest ELSE 0)
    IN rest >= 0 /\ v >= 0 /\ Outputs(d.vout, v, rest)

\* The coins of a draft are among the trusted ones until it is broadcast.
DraftInv ==
    \A c \in Callers :
        /\ pc[c] \in {"encode", "sign", "sendraw"} => draft[c].inputs \subseteq Trusted
        /\ pc[c] = "encode" => Funded(draft[c], request[c])
        /\ pc[c] \in {"sign", "sendraw"} => Transformed(draft[c], request[c])

\* Between the two calls the trusted coins do not become fewer.
ReadingInv ==
    \A c \in Callers : pc[c] = "getunconfirmed" => reading[c] <= Value(Trusted)

SendInv ==
    /\ TypeOK
    /\ IsFiniteSet(coins)
    /\ BoundInv
    /\ RequestInv
    /\ DraftInv
    /\ ReadingInv

-----------------------------------------------------------------------------
(* Types.                                                                  *)

SentType == [request : Payments \cup {NoRequest}, pays : Int, change : Int,
             fee : Int, rate : Int]

\* The values for "nothing yet" have the types of what they stand in for.
LEMMA NoneTypes ==
    /\ NoDraft \in DraftType
    /\ NothingSent \in SentType
    /\ NoAnswer \in [conf : Nat, unconf : Nat, worth : Nat]
<1>1. << >> \in Seq(OutputType)
  OBVIOUS
<1>. QED
  BY <1>1 DEF NoDraft, DraftType, NothingSent, SentType, NoAnswer

\* The initial state satisfies the invariant.
LEMMA InitInv == ASSUME Init PROVE SendInv
<1>. USE SendAssumption
<1>1. coins \subseteq CoinType
  <2>1. \A n \in 1 .. Len(InitialCoins) : InitialCoins[n] \in Nat
    OBVIOUS
  <2>2. SUFFICES ASSUME NEW coin \in coins PROVE coin \in CoinType
    OBVIOUS
  <2>3. PICK n \in 1 .. Len(InitialCoins) :
          coin = [id |-> n, value |-> InitialCoins[n], trusted |-> TRUE]
    BY DEF Init
  <2>. QED BY <2>1, <2>3 DEF CoinType
<1>2. IsFiniteSet(coins)
  <2>1. IsFiniteSet(1 .. Len(InitialCoins))
    BY FS_Interval
  <2>. DEFINE Coin(n) == [id |-> n, value |-> InitialCoins[n], trusted |-> TRUE]
              f == [n \in 1 .. Len(InitialCoins) |-> Coin(n)]
  <2>2. coins = {f[n] : n \in 1 .. Len(InitialCoins)}
    BY DEF Init
  <2>3. f \in Surjection(1 .. Len(InitialCoins), coins)
    BY <2>2 DEF Surjection
  <2>. HIDE DEF f
  <2>. QED BY <2>1, <2>3, FS_Surjection
<1>3. Asking = {}
  BY DEF Init, Asking
<1>4. BoundInv
  BY <1>3, FS_EmptySet DEF BoundInv, Init
<1>5. TypeOK
  BY <1>1, NoneTypes DEF Init, TypeOK, Points, Locked, SentType
<1>. QED
  BY <1>2, <1>4, <1>5 DEF SendInv, Init, RequestInv, DraftInv, ReadingInv

\* A return leaves the caller's state in its types and the mutex free.
LEMMA ReturnType ==
    ASSUME TypeOK, NEW c \in Callers, Return(c), pc[c] \in Locked \/ holder = Nobody
    PROVE  /\ holder' \in Callers \cup {Nobody}
           /\ pc' \in [Callers -> Points]
           /\ \A d \in Callers : pc'[d] \in Locked <=> holder' = d
           /\ request' \in [Callers -> Payments \cup {NoRequest}]
           /\ draft' \in [Callers -> DraftType]
           /\ reading' \in [Callers -> Nat]
<1>1. /\ holder' \in Callers \cup {Nobody}
      /\ pc' \in [Callers -> Points]
      /\ request' \in [Callers -> Payments \cup {NoRequest}]
      /\ reading' \in [Callers -> Nat]
  BY DEF TypeOK, Return, Points
<1>2. draft' \in [Callers -> DraftType]
  BY NoneTypes DEF TypeOK, Return
<1>3. \A d \in Callers : pc'[d] \in Locked <=> holder' = d
  BY SendAssumption DEF TypeOK, Return, Locked
<1>. QED
  BY <1>1, <1>2, <1>3

\* A caller moves within the mutex, or outside it.
LEMMA GotoType ==
    ASSUME TypeOK, NEW c \in Callers, NEW from \in Points, NEW to \in Points,
           Goto(c, from, to), UNCHANGED holder, from \in Locked <=> to \in Locked
    PROVE  /\ pc' \in [Callers -> Points]
           /\ \A d \in Callers : pc'[d] \in Locked <=> holder' = d
<1>. USE DEF TypeOK, Goto
<1>1. \A d \in Callers : pc'[d] = IF d = c THEN to ELSE pc[d]
  OBVIOUS
<1>. QED
  BY <1>1

\* A caller takes the mutex.
LEMMA LockType ==
    ASSUME TypeOK, NEW c \in Callers, NEW from \in Points, NEW to \in Locked,
           Lock(c), Goto(c, from, to)
    PROVE  /\ holder' \in Callers \cup {Nobody}
           /\ pc' \in [Callers -> Points]
           /\ \A d \in Callers : pc'[d] \in Locked <=> holder' = d
<1>. USE DEF TypeOK, Goto, Lock
<1>1. \A d \in Callers : pc'[d] = IF d = c THEN to ELSE pc[d]
  OBVIOUS
<1>2. to \in Points
  BY DEF Points
<1>. QED
  BY <1>1, <1>2, SendAssumption

\* What a broadcast leaves of the wallet.
LEMMA BroadcastType ==
    ASSUME TypeOK, IsFiniteSet(coins), payments < MaxPayments,
           NEW p \in Payments \cup {NoRequest}, NEW inputs \in SUBSET coins,
           NEW vout \in Seq(OutputType), Broadcast(p, inputs, vout)
    PROVE  /\ coins' \subseteq CoinType /\ IsFiniteSet(coins')
           /\ made' \in Nat
           /\ deposits' \in 0 .. MaxDeposits
           /\ payTxFee' \in 0 .. Word - 1
           /\ sent' \in SentType
           /\ payments' \in 0 .. MaxPayments
<1>. DEFINE change == OutputsTo(vout, Change)
            pays == OutputsTo(vout, Recipient)
            new == [id |-> made + 1, value |-> change, trusted |-> TRUE]
<1>1. change \in Int /\ pays \in Int
  BY OutputsInt
<1>2. Value(inputs) \in Nat
  <2>1. inputs \in SUBSET CoinType /\ IsFiniteSet(inputs)
    BY FS_Subset DEF TypeOK
  <2>. QED BY <2>1, ValueNat
<1>3. payTxFee \in Int
  BY SendAssumption DEF TypeOK
<1>4. sent' \in SentType
  BY <1>1, <1>2, <1>3 DEF Broadcast, SentType
<1>5. coins' = (coins \ inputs) \cup (IF change > 0 THEN {new} ELSE {})
  BY DEF Broadcast
<1>6. change > 0 => new \in CoinType
  BY <1>1 DEF CoinType, TypeOK
<1>7. coins' \subseteq CoinType
  BY <1>5, <1>6 DEF TypeOK
<1>8. IsFiniteSet(coins')
  <2>1. IsFiniteSet(coins \ inputs)
    BY FS_Subset
  <2>2. IsFiniteSet((coins \ inputs) \cup {new})
    BY <2>1, FS_AddElement
  <2>. QED BY <1>5, <2>1, <2>2
<1>. QED
  BY <1>4, <1>7, <1>8, SendAssumption DEF Broadcast, TypeOK

\* A payment at its last call is one of those that may still be broadcast.
LEMMA MayBroadcast ==
    ASSUME TypeOK, BoundInv, NEW c \in Callers, request[c] \in Payments
    PROVE  payments < MaxPayments
<1>1. c \in Asking
  BY SendAssumption DEF Asking, PaymentType, NoRequest
<1>2. Cardinality(Asking) \in Nat /\ Cardinality(Asking) # 0
  BY <1>1, FS_CardinalityType, FS_EmptySet DEF BoundInv
<1>. QED
  BY <1>2, SendAssumption DEF BoundInv, TypeOK

\* The outputs of a payment are a sequence of outputs with these sums.
LEMMA OutputsSums ==
    ASSUME NEW vout, NEW v \in Int, NEW rest \in Int, Outputs(vout, v, rest)
    PROVE  /\ vout \in Seq(OutputType)
           /\ OutputsTo(vout, Recipient) = v
           /\ OutputsTo(vout, Change) = IF rest < Dust THEN 0 ELSE rest
<1>1. CASE rest < Dust
  <2>1. vout = <<[address |-> Recipient, value |-> v]>>
    BY <1>1 DEF Outputs
  <2>2. /\ vout \in Seq(OutputType)
        /\ OutputsTo(vout, Recipient) = v
        /\ OutputsTo(vout, Change) = 0
    BY <2>1, OutputsOfPayment
  <2>. QED BY <1>1, <2>2
<1>2. CASE ~(rest < Dust)
  <2>1. \/ vout = <<[address |-> Recipient, value |-> v], [address |-> Change, value |-> rest]>>
        \/ vout = <<[address |-> Change, value |-> rest], [address |-> Recipient, value |-> v]>>
    BY <1>2 DEF Outputs
  <2>2. /\ vout \in Seq(OutputType)
        /\ OutputsTo(vout, Recipient) = v
        /\ OutputsTo(vout, Change) = rest
    BY <2>1, OutputsOfPayment
  <2>. QED BY <1>2, <2>2
<1>. QED
  BY <1>1, <1>2

\* What transformTxToSetFixedFee makes of a funded transaction: whatever fee
\* the node chose, the recipient's output pays the fixed one.
LEMMA Transforms ==
    ASSUME NEW d \in DraftType, IsFiniteSet(d.inputs), NEW p \in PaymentType,
           Signed(Debit(p)) > 0, Funded(d, p)
    PROVE  LET e == transformTxToSetFixedFee(d, p.fee)
               rest == Value(d.inputs) - Signed(Debit(p))
               v == Signed(Debit(p)) - p.fee + (IF rest < Dust THEN rest ELSE 0)
           IN /\ e \in DraftType
              /\ e.inputs = d.inputs
              /\ rest \in Int /\ v \in Int
              /\ Outputs(e.vout, v, rest)
<1>. DEFINE amount == Signed(Debit(p))
            rest == Value(d.inputs) - amount
            extra == IF rest < Dust THEN rest ELSE 0
            v == amount - p.fee + extra
            w == amount - d.fee + extra
            e == transformTxToSetFixedFee(d, p.fee)
            pos == IF d.changePos = 0 THEN 2 ELSE 1
            toChange == [address |-> Change, value |-> rest]
<1>1. amount \in Nat /\ p.fee \in Nat
  BY DebitOfPayment
<1>2. Value(d.inputs) \in Nat /\ d.fee \in Int
  BY ValueNat DEF DraftType
<1>. HIDE DEF amount
<1>3. rest \in Int /\ extra \in Int /\ v \in Int /\ w \in Int
  BY <1>1, <1>2
<1>4. w - p.fee + d.fee = v
  BY <1>1, <1>2, <1>3
<1>5. /\ Outputs(d.vout, w, rest)
      /\ d.changePos = IF rest < Dust THEN -1
                       ELSE IF d.vout[1].address = Change THEN 0 ELSE 1
  BY DEF Funded, amount
<1>. HIDE DEF rest, w, v, toChange
<1>6. e = [d EXCEPT !.vout = [d.vout EXCEPT ![pos] =
             [d.vout[pos] EXCEPT !.value = d.vout[pos].value - p.fee + d.fee]]]
  BY DEF transformTxToSetFixedFee
<1>. DEFINE moved == [d.vout[pos] EXCEPT !.value = d.vout[pos].value - p.fee + d.fee]
<1>7. e.inputs = d.inputs /\ e.vout = [d.vout EXCEPT ![pos] = moved]
      /\ e = [d EXCEPT !.vout = e.vout]
  <2>. HIDE DEF moved, e, pos
  <2>. QED BY <1>6 DEF DraftType, moved
<1>. HIDE DEF e
<1>8. Outputs(e.vout, v, rest)
  <2>. DEFINE was == [address |-> Recipient, value |-> w]
              is == [address |-> Recipient, value |-> v]
  <2>0. d.vout[pos] = was => moved = is
    BY <1>4
  <2>. HIDE DEF moved
  <2>1. CASE rest < Dust
    <3>1. d.vout = <<was>> /\ pos = 1
      BY <1>5, <2>1 DEF Outputs
    <3>. HIDE DEF was, is
    <3>2. d.vout[pos] = was
      BY <3>1
    <3>3. e.vout = <<is>>
      BY <1>7, <2>0, <3>1, <3>2
    <3>. QED BY <2>1, <3>3 DEF Outputs, is
  <2>2. CASE ~(rest < Dust) /\ d.vout = <<was, toChange>>
    <3>1. pos = 1
      BY <1>5, <2>2, SendAssumption
    <3>. HIDE DEF was, is
    <3>2. d.vout[pos] = was
      BY <2>2, <3>1
    <3>3. e.vout = <<is, toChange>>
      BY <1>7, <2>0, <2>2, <3>1, <3>2
    <3>. QED BY <2>2, <3>3 DEF Outputs, toChange, is
  <2>3. CASE ~(rest < Dust) /\ d.vout = <<toChange, was>>
    <3>1. pos = 2
      BY <1>5, <2>3 DEF toChange
    <3>. HIDE DEF was, is
    <3>2. d.vout[pos] = was
      BY <2>3, <3>1
    <3>3. e.vout = <<toChange, is>>
      BY <1>7, <2>0, <2>3, <3>1, <3>2
    <3>. QED BY <2>3, <3>3 DEF Outputs, toChange, is
  <2>. QED BY <1>5, <2>1, <2>2, <2>3 DEF Outputs, toChange
<1>9. e.vout \in Seq(OutputType)
  BY <1>3, <1>8, OutputsSums
<1>10. e \in DraftType
  BY <1>7, <1>9 DEF DraftType
<1>. QED
  BY <1>3, <1>7, <1>8, <1>10 DEF rest, v, amount, e

\* Every step keeps every variable in its type, the mutex with the one caller
\* inside, and the wallet finite.
LEMMA TypeStep ==
    ASSUME SendInv, [Next]_vars
    PROVE  TypeOK' /\ IsFiniteSet(coins')
<1>0. TypeOK /\ IsFiniteSet(coins) /\ BoundInv /\ RequestInv /\ DraftInv
  BY DEF SendInv
<1>. USE <1>0
<1>1. ASSUME NEW c \in Callers, Ask(c)
      PROVE  TypeOK' /\ IsFiniteSet(coins')
  <2>1. CASE AskBalance(c)
    <3>1. UNCHANGED holder /\ Goto(c, "idle", "lockBalance")
      BY <2>1 DEF AskBalance
    <3>2. pc' \in [Callers -> Points] /\ \A d \in Callers : pc'[d] \in Locked <=> holder' = d
      BY <3>1, GotoType DEF Points, Locked
    <3>. QED BY <2>1, <3>2 DEF AskBalance, TypeOK, node
  <2>2. ASSUME NEW p \in Payments, AskPayment(c, p)
        PROVE  TypeOK' /\ IsFiniteSet(coins')
    <3>1. UNCHANGED holder /\ Goto(c, "idle", "lockSend")
      BY <2>2 DEF AskPayment
    <3>2. pc' \in [Callers -> Points] /\ \A d \in Callers : pc'[d] \in Locked <=> holder' = d
      BY <3>1, GotoType DEF Points, Locked
    <3>. QED BY <2>2, <3>2 DEF AskPayment, TypeOK, node
  <2>. QED BY <1>1, <2>1, <2>2 DEF Ask
<1>2. ASSUME NEW c \in Callers, NEW from \in Points, NEW to \in Locked,
             Lock(c), Goto(c, from, to),
             UNCHANGED <<node, request, draft, reading, answer, faults>>
      PROVE  TypeOK' /\ IsFiniteSet(coins')
  <2>1. /\ holder' \in Callers \cup {Nobody}
        /\ pc' \in [Callers -> Points]
        /\ \A d \in Callers : pc'[d] \in Locked <=> holder' = d
    BY <1>2, LockType
  <2>. QED BY <1>2, <2>1 DEF TypeOK, node
<1>3. ASSUME NEW c \in Callers, StartPayment(c)
      PROVE  TypeOK' /\ IsFiniteSet(coins')
  <2>1. CASE Goto(c, "lockSend", "settxfee")
    BY <1>2, <1>3, <2>1 DEF StartPayment, Points, Locked
  <2>2. CASE Goto(c, "lockSend", "create")
    BY <1>2, <1>3, <2>2 DEF StartPayment, Points, Locked
  <2>. QED BY <1>3, <2>1, <2>2 DEF StartPayment
<1>4. ASSUME NEW c \in Callers, StartBalance(c)
      PROVE  TypeOK' /\ IsFiniteSet(coins')
  BY <1>2, <1>4 DEF StartBalance, Points, Locked
<1>5. ASSUME NEW c \in Callers, Return(c), pc[c] \in Locked \/ holder = Nobody, UNCHANGED node,
             answer' \in [conf : Nat, unconf : Nat, worth : Nat], faults' \in 0 .. MaxFaults
      PROVE  TypeOK' /\ IsFiniteSet(coins')
  <2>. HIDE DEF Return
  <2>1. /\ holder' \in Callers \cup {Nobody}
        /\ pc' \in [Callers -> Points]
        /\ \A d \in Callers : pc'[d] \in Locked <=> holder' = d
        /\ request' \in [Callers -> Payments \cup {NoRequest}]
        /\ draft' \in [Callers -> DraftType]
        /\ reading' \in [Callers -> Nat]
    BY <1>5, ReturnType
  <2>. QED BY <1>5, <2>1 DEF TypeOK, node
<1>6. ASSUME NEW c \in Callers, RefusePayment(c)
      PROVE  TypeOK' /\ IsFiniteSet(coins')
  BY <1>5, <1>6 DEF RefusePayment, TypeOK
<1>7. ASSUME NEW c \in Callers, CallFails(c)
      PROVE  TypeOK' /\ IsFiniteSet(coins')
  <2>1. faults' \in 0 .. MaxFaults
    BY <1>7, SendAssumption DEF CallFails, Fault, TypeOK
  <2>2. answer' \in [conf : Nat, unconf : Nat, worth : Nat]
    BY <1>7 DEF CallFails, TypeOK
  <2>. QED BY <1>5, <1>7, <2>1, <2>2 DEF CallFails
<1>8. ASSUME NEW c \in Callers, NEW from \in Locked, NEW to \in Locked, Goto(c, from, to),
             UNCHANGED <<coins, made, deposits, sent, payments, holder, request, answer, faults>>,
             payTxFee' \in 0 .. Word - 1, draft' \in [Callers -> DraftType],
             reading' \in [Callers -> Nat]
      PROVE  TypeOK' /\ IsFiniteSet(coins')
  <2>1. pc' \in [Callers -> Points] /\ \A d \in Callers : pc'[d] \in Locked <=> holder' = d
    BY <1>8, GotoType DEF Points
  <2>. QED BY <1>8, <2>1 DEF TypeOK
<1>9. ASSUME NEW c \in Callers, SetTxFee(c)
      PROVE  TypeOK' /\ IsFiniteSet(coins')
  <2>1. request[c] \in PaymentType
    BY <1>9, SendAssumption DEF SetTxFee, Goto, RequestInv
  <2>2. payTxFee' \in 0 .. Word - 1
    BY <1>9, <2>1 DEF SetTxFee, PaymentType
  <2>. QED BY <1>8, <1>9, <2>2 DEF SetTxFee, Locked, TypeOK
<1>10. ASSUME NEW c \in Callers, CreateRawTransaction(c)
       PROVE  TypeOK' /\ IsFiniteSet(coins')
  BY <1>8, <1>10 DEF CreateRawTransaction, Locked, TypeOK, node
<1>11. ASSUME NEW c \in Callers, SignRawTransactionWithWallet(c)
       PROVE  TypeOK' /\ IsFiniteSet(coins')
  BY <1>8, <1>11 DEF SignRawTransactionWithWallet, Locked, TypeOK, node
<1>12. ASSUME NEW c \in Callers, GetBalance(c)
       PROVE  TypeOK' /\ IsFiniteSet(coins')
  <2>1. Value(Trusted) \in Nat
    BY ValueSplits DEF Trusted, TypeOK
  <2>2. reading' \in [Callers -> Nat]
    BY <1>12, <2>1 DEF GetBalance, Balance, BalanceCalls, TypeOK
  <2>. QED BY <1>8, <1>12, <2>2 DEF GetBalance, Locked, TypeOK, node
<1>13. ASSUME NEW c \in Callers, FundRawTransaction(c)
       PROVE  TypeOK' /\ IsFiniteSet(coins')
  <2>. DEFINE amount == Signed(Debit(request[c]))
  <2>1. amount \in Nat
    BY <1>13, SendAssumption, DebitOfPayment DEF FundRawTransaction, Goto, RequestInv
  <2>2. PICK inputs \in SUBSET Trusted, auto \in AutoFees, first \in BOOLEAN :
          LET rest == Value(inputs) - amount
              toRecipient == [address |-> Recipient, value |-> amount - auto]
              toChange == [address |-> Change, value |-> rest]
          IN draft' = [draft EXCEPT ![c] =
              IF rest < Dust
              THEN [inputs |-> inputs, vout |-> <<toRecipient>>,
                    changePos |-> -1, fee |-> auto + rest]
              ELSE [inputs |-> inputs,
                    vout |-> IF first THEN <<toChange, toRecipient>>
                             ELSE <<toRecipient, toChange>>,
                    changePos |-> IF first THEN 0 ELSE 1,
                    fee |-> auto]]
    BY <1>13 DEF FundRawTransaction
  <2>3. inputs \in SUBSET CoinType /\ IsFiniteSet(inputs)
    BY FS_Subset DEF Trusted, TypeOK
  <2>4. Value(inputs) \in Nat /\ auto \in Nat
    BY <2>3, ValueNat, SendAssumption
  <2>. DEFINE rest == Value(inputs) - amount
              toRecipient == [address |-> Recipient, value |-> amount - auto]
              toChange == [address |-> Change, value |-> rest]
  <2>5. toRecipient \in OutputType /\ toChange \in OutputType /\ rest \in Int /\ auto \in Int
    BY <2>1, <2>4 DEF OutputType
  <2>6. draft'[c] \in DraftType
    <3>. HIDE DEF toRecipient, toChange, rest
    <3>1. draft'[c] = IF rest < Dust
              THEN [inputs |-> inputs, vout |-> <<toRecipient>>,
                    changePos |-> -1, fee |-> auto + rest]
              ELSE [inputs |-> inputs,
                    vout |-> IF first THEN <<toChange, toRecipient>>
                             ELSE <<toRecipient, toChange>>,
                    changePos |-> IF first THEN 0 ELSE 1,
                    fee |-> auto]
      BY <2>2 DEF TypeOK, toRecipient, toChange, rest
    <3>2. /\ <<toRecipient>> \in Seq(OutputType)
          /\ <<toChange, toRecipient>> \in Seq(OutputType)
          /\ <<toRecipient, toChange>> \in Seq(OutputType)
      BY <2>5
    <3>. QED BY <2>3, <2>5, <3>1, <3>2 DEF DraftType
  <2>7. draft' \in [Callers -> DraftType]
    BY <2>2, <2>6 DEF TypeOK
  <2>. QED BY <1>8, <1>13, <2>7 DEF FundRawTransaction, Locked, TypeOK, node
<1>14. ASSUME NEW c \in Callers, EncodeTransformedTransaction(c)
       PROVE  TypeOK' /\ IsFiniteSet(coins')
  <2>. DEFINE d == transformTxToSetFixedFee(draft[c], request[c].fee)
  <2>1. /\ draft[c] \in DraftType /\ IsFiniteSet(draft[c].inputs)
        /\ request[c] \in PaymentType /\ Signed(Debit(request[c])) > 0
        /\ Funded(draft[c], request[c])
    BY <1>14, SendAssumption, FS_Subset
    DEF EncodeTransformedTransaction, RequestInv, DraftInv, TypeOK, Trusted
  <2>2. d \in DraftType
    BY <2>1, Transforms
  <2>. HIDE DEF d
  <2>3. CASE Goto(c, "encode", "sign") /\ draft' = [draft EXCEPT ![c] = d]
             /\ UNCHANGED <<holder, request, reading>>
    <3>1. draft' \in [Callers -> DraftType]
      BY <2>2, <2>3 DEF TypeOK
    <3>. QED BY <1>8, <1>14, <2>3, <3>1 DEF EncodeTransformedTransaction, Locked, TypeOK, node
  <2>4. CASE Return(c)
    BY <1>5, <1>14, <2>4 DEF EncodeTransformedTransaction, Locked, TypeOK
  <2>. QED BY <1>14, <2>3, <2>4 DEF EncodeTransformedTransaction, d
<1>15. ASSUME NEW c \in Callers, pc[c] \in Locked, Return(c), UNCHANGED <<answer, faults>>,
              request[c] \in Payments, NEW inputs \in SUBSET coins,
              NEW vout \in Seq(OutputType), Broadcast(request[c], inputs, vout)
       PROVE  TypeOK' /\ IsFiniteSet(coins')
  <2>1. payments < MaxPayments
    BY <1>15, MayBroadcast
  <2>2. /\ coins' \subseteq CoinType /\ IsFiniteSet(coins')
        /\ made' \in Nat
        /\ deposits' \in 0 .. MaxDeposits
        /\ payTxFee' \in 0 .. Word - 1
        /\ sent' \in SentType
        /\ payments' \in 0 .. MaxPayments
    BY <1>15, <2>1, BroadcastType
  <2>3. /\ holder' \in Callers \cup {Nobody}
        /\ pc' \in [Callers -> Points]
        /\ \A d \in Callers : pc'[d] \in Locked <=> holder' = d
        /\ request' \in [Callers -> Payments \cup {NoRequest}]
        /\ draft' \in [Callers -> DraftType]
        /\ reading' \in [Callers -> Nat]
    BY <1>15, ReturnType
  <2>. QED BY <1>15, <2>2, <2>3 DEF TypeOK, SentType
<1>16. ASSUME NEW c \in Callers, SendToAddress(c)
       PROVE  TypeOK' /\ IsFiniteSet(coins')
  <2>. DEFINE p == request[c]
  <2>1. p \in Payments /\ p \in PaymentType /\ payTxFee \in Nat
    BY <1>16, SendAssumption DEF SendToAddress, RequestInv, TypeOK
  <2>2. PICK inputs \in SUBSET Trusted :
          Broadcast(p, inputs,
            <<[address |-> Recipient, value |-> PaysPerKB(p)],
              [address |-> Change, value |-> Value(inputs) - PaysPerKB(p) - payTxFee]>>)
    BY <1>16 DEF SendToAddress
  <2>3. inputs \in SUBSET coins /\ Value(inputs) \in Nat
    BY FS_Subset, ValueNat DEF Trusted, TypeOK
  <2>4. PaysPerKB(p) \in Int /\ Value(inputs) - PaysPerKB(p) - payTxFee \in Int
    BY <2>1, <2>3 DEF PaysPerKB, PaymentType
  <2>5. <<[address |-> Recipient, value |-> PaysPerKB(p)],
          [address |-> Change, value |-> Value(inputs) - PaysPerKB(p) - payTxFee]>>
        \in Seq(OutputType)
    <3>1. /\ [address |-> Recipient, value |-> PaysPerKB(p)] \in OutputType
          /\ [address |-> Change, value |-> Value(inputs) - PaysPerKB(p) - payTxFee] \in OutputType
      BY <2>4 DEF OutputType
    <3>. QED BY <3>1
  <2>. QED BY <1>15, <1>16, <2>1, <2>2, <2>3, <2>5 DEF SendToAddress, Locked
<1>17. ASSUME NEW c \in Callers, SendRawTransaction(c)
       PROVE  TypeOK' /\ IsFiniteSet(coins')
  <2>1. CASE UNCHANGED node
    BY <1>5, <1>17, <2>1 DEF SendRawTransaction, Locked, TypeOK
  <2>2. CASE Broadcast(request[c], draft[c].inputs, draft[c].vout) /\ draft[c].inputs \subseteq coins
    <3>1. draft[c].vout \in Seq(OutputType)
      BY DEF TypeOK, DraftType
    <3>2. request[c] \in Payments
      BY <1>17 DEF SendRawTransaction, RequestInv
    <3>. QED BY <1>15, <1>17, <2>2, <3>1, <3>2 DEF SendRawTransaction, Locked
  <2>. QED BY <1>17, <2>1, <2>2 DEF SendRawTransaction
<1>18. ASSUME NEW c \in Callers, GetUnconfirmedBalance(c)
       PROVE  TypeOK' /\ IsFiniteSet(coins')
  <2>1. Value(coins \ Trusted) \in Nat /\ Value(coins) \in Nat
    BY ValueSplits DEF Trusted, TypeOK
  <2>2. answer' = [conf |-> reading[c], unconf |-> Value(coins \ Trusted), worth |-> Value(coins)]
    BY <1>18 DEF GetUnconfirmedBalance, Balance, BalanceCalls, NoAnswer
  <2>3. answer' \in [conf : Nat, unconf : Nat, worth : Nat]
    BY <2>1, <2>2 DEF TypeOK
  <2>. QED BY <1>5, <1>18, <2>3 DEF GetUnconfirmedBalance, Locked, TypeOK
<1>19. CASE DepositArrives
  <2>1. coins' \subseteq CoinType
    <3>1. [id |-> made + 1, value |-> DepositValue, trusted |-> FALSE] \in CoinType
      BY SendAssumption DEF TypeOK, CoinType
    <3>. QED BY <1>19, <3>1 DEF DepositArrives, TypeOK
  <2>2. IsFiniteSet(coins')
    BY <1>19, FS_AddElement DEF DepositArrives
  <2>3. deposits' \in 0 .. MaxDeposits
    BY <1>19, SendAssumption DEF DepositArrives, TypeOK
  <2>. QED BY <1>19, <2>1, <2>2, <2>3 DEF DepositArrives, TypeOK
<1>20. CASE DepositConfirms
  <2>1. PICK coin \in coins \ Trusted : coins' = (coins \ {coin}) \cup {[coin EXCEPT !.trusted = TRUE]}
    BY <1>20 DEF DepositConfirms
  <2>2. coins' \subseteq CoinType
    BY <2>1 DEF TypeOK, CoinType
  <2>3. IsFiniteSet(coins')
    BY <2>1, FS_AddElement, FS_Subset
  <2>. QED BY <1>20, <2>2, <2>3 DEF DepositConfirms, TypeOK
<1>21. CASE UNCHANGED vars
  BY <1>21 DEF vars, node, TypeOK
<1>. QED
  BY <1>1, <1>3, <1>4, <1>6, <1>7, <1>9, <1>10, <1>11, <1>12, <1>13, <1>14, <1>16, <1>17,
     <1>18, <1>19, <1>20, <1>21 DEF Next, Proceed

-----------------------------------------------------------------------------
(* The other parts of the invariant.                                       *)

\* Every payment asked for fits the bound until it returns.
LEMMA BoundStep == ASSUME SendInv, [Next]_vars PROVE BoundInv'
<1>0. TypeOK /\ BoundInv /\ RequestInv /\ MaxPayments \in Nat /\ payments \in Nat
  BY SendAssumption DEF SendInv, TypeOK
<1>. USE <1>0
<1>1. IsFiniteSet(Asking) /\ Cardinality(Asking) \in Nat
      /\ payments + Cardinality(Asking) <= MaxPayments
  BY FS_CardinalityType DEF BoundInv
<1>2. ASSUME Asking' \subseteq Asking, UNCHANGED payments
      PROVE  BoundInv'
  <2>1. IsFiniteSet(Asking') /\ Cardinality(Asking') <= Cardinality(Asking)
        /\ Cardinality(Asking') \in Nat
    BY <1>1, <1>2, FS_Subset, FS_CardinalityType
  <2>. QED BY <1>1, <1>2, <2>1 DEF BoundInv
<1>3. ASSUME NEW c \in Callers, NEW p \in Payments, AskPayment(c, p)
      PROVE  BoundInv'
  <2>1. Asking' \subseteq Asking \cup {c}
    BY <1>3 DEF AskPayment, Asking, TypeOK
  <2>2. IsFiniteSet(Asking \cup {c}) /\ Cardinality(Asking \cup {c}) \in Nat
        /\ Cardinality(Asking \cup {c}) <= Cardinality(Asking) + 1
    <3>1. IsFiniteSet(Asking \cup {c})
          /\ \/ Cardinality(Asking \cup {c}) = Cardinality(Asking)
             \/ Cardinality(Asking \cup {c}) = Cardinality(Asking) + 1
      BY <1>1, FS_AddElement
    <3>. QED BY <1>1, <3>1
  <2>3. IsFiniteSet(Asking') /\ Cardinality(Asking') <= Cardinality(Asking \cup {c})
        /\ Cardinality(Asking') \in Nat
    BY <2>1, <2>2, FS_Subset, FS_CardinalityType
  <2>4. payments + Cardinality(Asking) < MaxPayments /\ UNCHANGED payments
    BY <1>3 DEF AskPayment, Asking, node
  <2>. QED BY <1>1, <2>2, <2>3, <2>4 DEF BoundInv
<1>4. ASSUME NEW c \in Callers, request[c] \in Payments, Return(c), payments' = payments + 1
      PROVE  BoundInv'
  <2>1. c \in Asking
    BY <1>4, SendAssumption DEF Asking, PaymentType, NoRequest
  <2>2. Asking' = Asking \ {c}
    BY <1>4 DEF Return, Asking, TypeOK
  <2>3. IsFiniteSet(Asking \ {c}) /\ Cardinality(Asking \ {c}) = Cardinality(Asking) - 1
    BY <1>1, <2>1, FS_RemoveElement
  <2>. QED BY <1>1, <1>4, <2>2, <2>3 DEF BoundInv
<1>5. ASSUME NEW c \in Callers, Return(c), UNCHANGED payments
      PROVE  BoundInv'
  <2>1. Asking' \subseteq Asking
    BY <1>5 DEF Return, Asking, TypeOK
  <2>. QED BY <1>2, <1>5, <2>1
<1>6. ASSUME UNCHANGED <<request, payments>>
      PROVE  BoundInv'
  BY <1>6 DEF BoundInv, Asking
<1>7. ASSUME NEW c \in Callers, SendToAddress(c) \/ SendRawTransaction(c)
      PROVE  BoundInv'
  <2>1. request[c] \in Payments /\ Return(c)
    BY <1>7 DEF SendToAddress, SendRawTransaction, RequestInv
  <2>2. payments' = payments + 1 \/ UNCHANGED payments
    BY <1>7 DEF SendToAddress, SendRawTransaction, Broadcast, node
  <2>. QED BY <1>4, <1>5, <2>1, <2>2
<1>8. ASSUME NEW c \in Callers, RefusePayment(c) \/ CallFails(c) \/ GetUnconfirmedBalance(c)
      PROVE  BoundInv'
  BY <1>5, <1>8 DEF RefusePayment, CallFails, GetUnconfirmedBalance, node
<1>9. ASSUME NEW c \in Callers, EncodeTransformedTransaction(c)
      PROVE  BoundInv'
  BY <1>5, <1>6, <1>9 DEF EncodeTransformedTransaction, node
<1>10. ASSUME NEW c \in Callers,
              \/ StartPayment(c) \/ StartBalance(c) \/ SetTxFee(c) \/ CreateRawTransaction(c)
              \/ FundRawTransaction(c) \/ SignRawTransactionWithWallet(c) \/ GetBalance(c)
              \/ AskBalance(c)
       PROVE  BoundInv'
  BY <1>6, <1>10 DEF StartPayment, StartBalance, SetTxFee, CreateRawTransaction,
     FundRawTransaction, SignRawTransactionWithWallet, GetBalance, AskBalance, node
<1>11. CASE DepositArrives \/ DepositConfirms \/ UNCHANGED vars
  BY <1>6, <1>11 DEF DepositArrives, DepositConfirms, vars, node
<1>. QED
  BY <1>3, <1>7, <1>8, <1>9, <1>10, <1>11 DEF Next, Ask, Proceed

\* Nobody else is inside the mutex.
LEMMA Alone ==
    ASSUME TypeOK, NEW c \in Callers, pc[c] \in Locked, NEW d \in Callers, d # c
    PROVE  pc[d] \notin Locked
BY DEF TypeOK

\* A caller's request stays with it, and nobody sets another fee rate before
\* the payment is made.
LEMMA RequestStep == ASSUME SendInv, [Next]_vars PROVE RequestInv'
<1>0. TypeOK /\ RequestInv
  BY DEF SendInv
<1>. USE <1>0
<1>. DEFINE RequestOK(c) ==
        /\ pc[c] = "lockSend" => request[c] \in Payments
        /\ pc[c] \in {"settxfee", "sendtoaddress"} =>
             request[c] \in Payments /\ request[c].kind = "perKB"
        /\ pc[c] \in {"create", "fund", "encode", "sign", "sendraw"} =>
             request[c] \in Payments /\ request[c].kind = "fixed"
        /\ pc[c] = "sendtoaddress" => payTxFee = request[c].fee
        /\ pc[c] \in {"fund", "encode", "sign", "sendraw"} =>
             Signed(Debit(request[c])) > 0
<1>1. \A d \in Callers : RequestOK(d)
  BY DEF RequestInv
<1>2. SUFFICES \A d \in Callers : RequestOK(d)'
  BY DEF RequestInv
<1>3. ASSUME NEW d \in Callers, pc'[d] = pc[d], request'[d] = request[d], UNCHANGED payTxFee
      PROVE  RequestOK(d)'
  BY <1>1, <1>3 DEF Signed, Debit
<1>4. ASSUME NEW c \in Callers, Return(c), UNCHANGED payTxFee
      PROVE  \A d \in Callers : RequestOK(d)'
  <2>1. ASSUME NEW d \in Callers, d # c PROVE RequestOK(d)'
    BY <1>3, <1>4, <2>1 DEF Return, TypeOK
  <2>2. pc'[c] = "idle"
    BY <1>4 DEF Return, TypeOK
  <2>. QED BY <2>1, <2>2
<1>5. ASSUME NEW c \in Callers, NEW from, NEW to, Goto(c, from, to), UNCHANGED payTxFee,
             \A d \in Callers : d # c => request'[d] = request[d],
             RequestOK(c)'
      PROVE  \A d \in Callers : RequestOK(d)'
  <2>1. ASSUME NEW d \in Callers, d # c PROVE RequestOK(d)'
    BY <1>3, <1>5, <2>1 DEF Goto, TypeOK
  <2>. QED BY <1>5, <2>1
<1>6. ASSUME NEW c \in Callers, AskBalance(c)
      PROVE  \A d \in Callers : RequestOK(d)'
  <2>1. pc'[c] = "lockBalance"
    BY <1>6 DEF AskBalance, Goto, TypeOK
  <2>. QED BY <1>5, <1>6, <2>1 DEF AskBalance, node
<1>7. ASSUME NEW c \in Callers, NEW p \in Payments, AskPayment(c, p)
      PROVE  \A d \in Callers : RequestOK(d)'
  <2>1. pc'[c] = "lockSend" /\ request'[c] = p
        /\ \A d \in Callers : d # c => request'[d] = request[d]
    BY <1>7 DEF AskPayment, Goto, TypeOK
  <2>. QED BY <1>5, <1>7, <2>1 DEF AskPayment, node
<1>8. ASSUME NEW c \in Callers, StartPayment(c)
      PROVE  \A d \in Callers : RequestOK(d)'
  <2>1. pc[c] = "lockSend" /\ UNCHANGED <<payTxFee, request>>
        /\ \/ request[c].kind = "perKB" /\ pc'[c] = "settxfee" /\ Goto(c, "lockSend", "settxfee")
           \/ request[c].kind = "fixed" /\ pc'[c] = "create" /\ Goto(c, "lockSend", "create")
    BY <1>8 DEF StartPayment, Goto, TypeOK, node
  <2>. QED BY <1>1, <1>5, <2>1
<1>9. ASSUME NEW c \in Callers, StartBalance(c)
      PROVE  \A d \in Callers : RequestOK(d)'
  <2>1. pc'[c] = "getbalance"
    BY <1>9 DEF StartBalance, Goto, TypeOK
  <2>. QED BY <1>5, <1>9, <2>1 DEF StartBalance, node
<1>10. ASSUME NEW c \in Callers,
              RefusePayment(c) \/ CallFails(c) \/ GetUnconfirmedBalance(c)
                \/ SendToAddress(c) \/ SendRawTransaction(c)
       PROVE  \A d \in Callers : RequestOK(d)'
  <2>1. Return(c) /\ UNCHANGED payTxFee
    BY <1>10 DEF RefusePayment, CallFails, GetUnconfirmedBalance, SendToAddress,
       SendRawTransaction, Broadcast, node
  <2>. QED BY <1>4, <2>1
<1>11. ASSUME NEW c \in Callers, SetTxFee(c)
       PROVE  \A d \in Callers : RequestOK(d)'
  <2>1. /\ pc[c] = "settxfee" /\ pc'[c] = "sendtoaddress" /\ UNCHANGED request
        /\ payTxFee' = request[c].fee
        /\ \A d \in Callers : d # c => pc'[d] = pc[d]
    BY <1>11 DEF SetTxFee, Goto, TypeOK
  <2>2. RequestOK(c)'
    BY <1>1, <2>1
  <2>3. ASSUME NEW d \in Callers, d # c PROVE RequestOK(d)'
    <3>1. pc[d] \notin Locked
      BY <2>1, <2>3, Alone DEF Locked
    <3>. QED BY <1>1, <2>1, <2>3, <3>1 DEF Locked
  <2>. QED BY <2>2, <2>3
<1>12. ASSUME NEW c \in Callers, CreateRawTransaction(c)
       PROVE  \A d \in Callers : RequestOK(d)'
  <2>1. /\ pc[c] = "create" /\ pc'[c] = "fund" /\ UNCHANGED <<request, payTxFee>>
        /\ Signed(Debit(request[c])) > 0
    BY <1>12 DEF CreateRawTransaction, Goto, TypeOK, node
  <2>2. RequestOK(c)'
    BY <1>1, <2>1 DEF Signed, Debit
  <2>. QED BY <1>5, <1>12, <2>1, <2>2 DEF CreateRawTransaction
<1>13. ASSUME NEW c \in Callers, FundRawTransaction(c)
       PROVE  \A d \in Callers : RequestOK(d)'
  <2>1. pc[c] = "fund" /\ pc'[c] = "encode" /\ UNCHANGED <<request, payTxFee>>
    BY <1>13 DEF FundRawTransaction, Goto, TypeOK, node
  <2>2. RequestOK(c)'
    BY <1>1, <2>1 DEF Signed, Debit
  <2>. QED BY <1>5, <1>13, <2>1, <2>2 DEF FundRawTransaction
<1>14. ASSUME NEW c \in Callers, EncodeTransformedTransaction(c)
       PROVE  \A d \in Callers : RequestOK(d)'
  <2>1. CASE Return(c)
    BY <1>4, <1>14, <2>1 DEF EncodeTransformedTransaction, node
  <2>2. CASE Goto(c, "encode", "sign") /\ UNCHANGED request
    <3>1. pc[c] = "encode" /\ pc'[c] = "sign" /\ UNCHANGED payTxFee
      BY <1>14, <2>2 DEF EncodeTransformedTransaction, Goto, TypeOK, node
    <3>2. RequestOK(c)'
      BY <1>1, <2>2, <3>1 DEF Signed, Debit
    <3>. QED BY <1>5, <2>2, <3>1, <3>2
  <2>. QED BY <1>14, <2>1, <2>2 DEF EncodeTransformedTransaction
<1>15. ASSUME NEW c \in Callers, SignRawTransactionWithWallet(c)
       PROVE  \A d \in Callers : RequestOK(d)'
  <2>1. pc[c] = "sign" /\ pc'[c] = "sendraw" /\ UNCHANGED <<request, payTxFee>>
    BY <1>15 DEF SignRawTransactionWithWallet, Goto, TypeOK, node
  <2>2. RequestOK(c)'
    BY <1>1, <2>1 DEF Signed, Debit
  <2>. QED BY <1>5, <1>15, <2>1, <2>2 DEF SignRawTransactionWithWallet
<1>16. ASSUME NEW c \in Callers, GetBalance(c)
       PROVE  \A d \in Callers : RequestOK(d)'
  <2>1. pc'[c] = "getunconfirmed"
    BY <1>16 DEF GetBalance, Goto, TypeOK
  <2>. QED BY <1>5, <1>16, <2>1 DEF GetBalance, node
<1>17. CASE DepositArrives \/ DepositConfirms \/ UNCHANGED vars
  BY <1>3, <1>17 DEF DepositArrives, DepositConfirms, vars, node
<1>. QED
  BY <1>6, <1>7, <1>8, <1>9, <1>10, <1>11, <1>12, <1>13, <1>14, <1>15, <1>16, <1>17
  DEF Next, Ask, Proceed

\* Only the two calls that broadcast take a trusted coin away.
LEMMA TrustedStays ==
    ASSUME SendInv, [Next]_vars
    PROVE  \/ Trusted \subseteq Trusted'
           \/ \E c \in Callers : pc[c] \in {"sendtoaddress", "sendraw"} /\ Return(c)
<1>1. CASE DepositArrives
  BY <1>1 DEF DepositArrives, Trusted
<1>2. CASE DepositConfirms
  BY <1>2 DEF DepositConfirms, Trusted
<1>3. ASSUME UNCHANGED coins PROVE Trusted \subseteq Trusted'
  BY <1>3 DEF Trusted
<1>4. ASSUME NEW c \in Callers, SendToAddress(c) \/ SendRawTransaction(c)
      PROVE  pc[c] \in {"sendtoaddress", "sendraw"} /\ Return(c)
  BY <1>4 DEF SendToAddress, SendRawTransaction
<1>5. ASSUME NEW c \in Callers, Ask(c) \/ Proceed(c),
             ~SendToAddress(c), ~SendRawTransaction(c)
      PROVE  UNCHANGED coins
  BY <1>5 DEF Ask, Proceed, AskBalance, AskPayment, StartPayment, RefusePayment, StartBalance,
     SetTxFee, CreateRawTransaction, FundRawTransaction, EncodeTransformedTransaction,
     SignRawTransactionWithWallet, GetBalance, GetUnconfirmedBalance, CallFails, node
<1>6. CASE UNCHANGED vars
  BY <1>3, <1>6 DEF vars, node
<1>. QED
  BY <1>1, <1>2, <1>3, <1>4, <1>5, <1>6 DEF Next

\* The caller whose step it is; the others stay where they are.
LEMMA OneMoves ==
    ASSUME SendInv, [Next]_vars, NEW d \in Callers
    PROVE  \/ /\ pc'[d] = pc[d] /\ request'[d] = request[d]
              /\ draft'[d] = draft[d] /\ reading'[d] = reading[d]
           \/ Ask(d) \/ Proceed(d)
<1>0. TypeOK
  BY DEF SendInv
<1>1. ASSUME NEW c \in Callers, c # d, Ask(c) \/ Proceed(c)
      PROVE  /\ pc'[d] = pc[d] /\ request'[d] = request[d]
             /\ draft'[d] = draft[d] /\ reading'[d] = reading[d]
  BY <1>0, <1>1
  DEF TypeOK, Ask, Proceed, AskBalance, AskPayment, StartPayment, RefusePayment, StartBalance,
      SetTxFee, SendToAddress, CreateRawTransaction, FundRawTransaction,
      EncodeTransformedTransaction, SignRawTransactionWithWallet, SendRawTransaction,
      GetBalance, GetUnconfirmedBalance, CallFails, Return, Goto
<1>2. CASE DepositArrives \/ DepositConfirms \/ UNCHANGED vars
  BY <1>2 DEF DepositArrives, DepositConfirms, vars
<1>. QED
  BY <1>1, <1>2 DEF Next

\* A draft keeps its coins and its shape from funding to broadcast.
LEMMA DraftStep == ASSUME SendInv, [Next]_vars PROVE DraftInv'
<1>0. TypeOK /\ IsFiniteSet(coins) /\ RequestInv /\ DraftInv
  BY DEF SendInv
<1>. USE <1>0
<1>. DEFINE Drafting == {"encode", "sign", "sendraw"}
            CoinsOK(c) == pc[c] \in Drafting => draft[c].inputs \subseteq Trusted
            ShapeOK(c) ==
                /\ pc[c] = "encode" => Funded(draft[c], request[c])
                /\ pc[c] \in {"sign", "sendraw"} => Transformed(draft[c], request[c])
<1>1. \A c \in Callers : CoinsOK(c) /\ ShapeOK(c)
  BY DEF DraftInv
<1>2. SUFFICES ASSUME NEW d \in Callers PROVE CoinsOK(d)' /\ ShapeOK(d)'
  BY DEF DraftInv
<1>3. ASSUME pc[d] \in Locked \ {"sendtoaddress", "sendraw"} PROVE Trusted \subseteq Trusted'
  <2>1. ASSUME NEW c \in Callers, pc[c] \in {"sendtoaddress", "sendraw"} PROVE FALSE
    BY <1>3, <2>1, Alone DEF Locked
  <2>. QED BY <2>1, TrustedStays
<1>4. ASSUME pc[d] = "sendraw", pc'[d] = pc[d] PROVE Trusted \subseteq Trusted'
  <2>1. ASSUME NEW c \in Callers, pc[c] \in {"sendtoaddress", "sendraw"}, Return(c) PROVE FALSE
    <3>1. c = d
      BY <1>4, <2>1, Alone DEF Locked
    <3>. QED BY <1>4, <2>1, <3>1 DEF Return, TypeOK
  <2>. QED BY <2>1, TrustedStays
<1>5. CASE /\ pc'[d] = pc[d] /\ request'[d] = request[d]
           /\ draft'[d] = draft[d]
  <2>1. pc[d] \in Drafting => Trusted \subseteq Trusted'
    BY <1>3, <1>4, <1>5 DEF Locked
  <2>2. CoinsOK(d)'
    BY <1>1, <1>5, <2>1
  <2>3. ShapeOK(d)'
    BY <1>1, <1>5
  <2>. QED BY <2>2, <2>3
<1>6. CASE pc'[d] \notin Drafting
  BY <1>6
<1>7. CASE FundRawTransaction(d)
  <2>. DEFINE p == request[d]
              amount == Signed(Debit(p))
  <2>1. pc[d] = "fund" /\ pc'[d] = "encode" /\ UNCHANGED <<node, request>>
    BY <1>7 DEF FundRawTransaction, Goto, TypeOK
  <2>2. amount \in Nat
    BY <2>1, SendAssumption, DebitOfPayment DEF RequestInv
  <2>3. PICK inputs \in SUBSET Trusted, auto \in AutoFees, first \in BOOLEAN :
          LET rest == Value(inputs) - amount
              toRecipient == [address |-> Recipient, value |-> amount - auto]
              toChange == [address |-> Change, value |-> rest]
          IN
          /\ rest >= 0
          /\ draft' = [draft EXCEPT ![d] =
              IF rest < Dust
              THEN [inputs |-> inputs, vout |-> <<toRecipient>>,
                    changePos |-> -1, fee |-> auto + rest]
              ELSE [inputs |-> inputs,
                    vout |-> IF first THEN <<toChange, toRecipient>>
                             ELSE <<toRecipient, toChange>>,
                    changePos |-> IF first THEN 0 ELSE 1,
                    fee |-> auto]]
    BY <1>7 DEF FundRawTransaction
  <2>. DEFINE rest == Value(inputs) - amount
              toRecipient == [address |-> Recipient, value |-> amount - auto]
              toChange == [address |-> Change, value |-> rest]
              e == draft'[d]
  <2>4. rest >= 0 /\ e = IF rest < Dust
              THEN [inputs |-> inputs, vout |-> <<toRecipient>>,
                    changePos |-> -1, fee |-> auto + rest]
              ELSE [inputs |-> inputs,
                    vout |-> IF first THEN <<toChange, toRecipient>>
                             ELSE <<toRecipient, toChange>>,
                    changePos |-> IF first THEN 0 ELSE 1,
                    fee |-> auto]
    BY <2>3 DEF TypeOK
  <2>5. Value(inputs) \in Nat /\ auto \in Nat
    BY FS_Subset, ValueNat, SendAssumption DEF Trusted, TypeOK
  <2>6. toRecipient.address = Recipient /\ toChange.address = Change /\ Recipient # Change
    BY SendAssumption
  <2>. HIDE DEF e, amount
  <2>7. e.inputs = inputs
    BY <2>4
  <2>8. amount - e.fee + (IF rest < Dust THEN rest ELSE 0) = amount - auto
    BY <2>2, <2>4, <2>5
  <2>9. Outputs(e.vout, amount - auto, rest)
    <3>. HIDE DEF rest
    <3>. QED BY <2>4 DEF Outputs
  <2>10. e.changePos = IF rest < Dust THEN -1
                       ELSE IF e.vout[1].address = Change THEN 0 ELSE 1
    <3>. HIDE DEF rest, toRecipient, toChange
    <3>. QED BY <2>4, <2>6
  <2>11. Funded(e, p)
    BY <2>4, <2>7, <2>8, <2>9, <2>10 DEF Funded, amount
  <2>12. Trusted' = Trusted
    BY <2>1 DEF Trusted, node
  <2>. QED BY <2>1, <2>7, <2>11, <2>12 DEF e
<1>8. CASE EncodeTransformedTransaction(d) /\ pc'[d] # "idle"
  <2>. DEFINE p == request[d]
              e == transformTxToSetFixedFee(draft[d], p.fee)
              rest == Value(draft[d].inputs) - Signed(Debit(p))
              v == Signed(Debit(p)) - p.fee + (IF rest < Dust THEN rest ELSE 0)
  <2>1. pc[d] = "encode" /\ draft[d] \in DraftType
    BY <1>8 DEF EncodeTransformedTransaction, TypeOK
  <2>2. /\ pc'[d] = "sign" /\ draft' = [draft EXCEPT ![d] = e] /\ UNCHANGED <<node, request>>
        /\ \A n \in 1 .. Len(e.vout) : e.vout[n].value >= 0
    BY <1>8 DEF EncodeTransformedTransaction, Goto, Return, TypeOK
  <2>3. /\ IsFiniteSet(draft[d].inputs) /\ draft[d].inputs \subseteq Trusted
        /\ p \in PaymentType /\ Signed(Debit(p)) > 0 /\ Funded(draft[d], p)
    BY <2>1, SendAssumption, FS_Subset DEF RequestInv, DraftInv, Trusted
  <2>4. e.inputs = draft[d].inputs /\ rest \in Int /\ v \in Int /\ Outputs(e.vout, v, rest)
    BY <2>1, <2>3, Transforms
  <2>5. rest >= 0
    BY <2>3 DEF Funded
  <2>6. draft'[d] = e
    BY <2>2 DEF TypeOK
  <2>. HIDE DEF e, rest, v
  <2>7. v >= 0
    <3>. DEFINE toRecipient == [address |-> Recipient, value |-> v]
                toChange == [address |-> Change, value |-> rest]
    <3>1. \/ e.vout = <<toRecipient>> \/ e.vout = <<toRecipient, toChange>>
          \/ e.vout = <<toChange, toRecipient>>
      BY <2>4 DEF Outputs
    <3>2. toRecipient.value = v
      OBVIOUS
    <3>. HIDE DEF toRecipient, toChange
    <3>3. \E n \in 1 .. Len(e.vout) : e.vout[n] = toRecipient
      BY <3>1
    <3>. QED BY <2>2, <3>2, <3>3
  <2>8. Transformed(e, p)
    BY <2>4, <2>5, <2>7 DEF Transformed, rest, v
  <2>9. Trusted' = Trusted
    BY <2>2 DEF Trusted, node
  <2>. QED BY <2>2, <2>3, <2>4, <2>6, <2>8, <2>9
<1>9. CASE SignRawTransactionWithWallet(d)
  <2>1. pc[d] = "sign" /\ pc'[d] = "sendraw" /\ UNCHANGED <<coins, request, draft>>
    BY <1>9 DEF SignRawTransactionWithWallet, Goto, TypeOK, node
  <2>2. Trusted' = Trusted
    BY <2>1 DEF Trusted
  <2>. QED BY <1>1, <2>1, <2>2
<1>10. CASE /\ Ask(d) \/ Proceed(d)
            /\ ~FundRawTransaction(d) /\ ~EncodeTransformedTransaction(d)
            /\ ~SignRawTransactionWithWallet(d)
  <2>1. pc'[d] \notin Drafting
    BY <1>10
    DEF TypeOK, Ask, Proceed, AskBalance, AskPayment, StartPayment, RefusePayment, StartBalance,
        SetTxFee, SendToAddress, CreateRawTransaction, SendRawTransaction,
        GetBalance, GetUnconfirmedBalance, CallFails, Return, Goto
  <2>. QED BY <1>6, <2>1
<1>. QED
  BY <1>5, <1>6, <1>7, <1>8, <1>9, <1>10, OneMoves

\* Between the two calls of the balance the trusted coins stay.
LEMMA ReadingStep == ASSUME SendInv, [Next]_vars PROVE ReadingInv'
<1>0. TypeOK /\ IsFiniteSet(coins) /\ ReadingInv
  BY DEF SendInv
<1>. USE <1>0
<1>1. SUFFICES ASSUME NEW d \in Callers, pc'[d] = "getunconfirmed"
               PROVE  reading'[d] <= Value(Trusted')
  BY DEF ReadingInv
<1>2. CASE pc'[d] = pc[d] /\ reading'[d] = reading[d]
  <2>1. ASSUME NEW c \in Callers, pc[c] \in {"sendtoaddress", "sendraw"} PROVE FALSE
    BY <1>1, <1>2, <2>1, Alone DEF Locked
  <2>2. Trusted \subseteq Trusted'
    BY <2>1, TrustedStays
  <2>3. Trusted' \in SUBSET CoinType /\ IsFiniteSet(Trusted')
    <3>1. coins' \subseteq CoinType /\ IsFiniteSet(coins')
      BY TypeStep DEF TypeOK
    <3>. QED BY <3>1, FS_Subset DEF Trusted
  <2>4. Value(Trusted) <= Value(Trusted') /\ Value(Trusted') \in Nat /\ Value(Trusted) \in Nat
    BY <2>2, <2>3, ValueGrows, ValueSplits
  <2>5. reading[d] <= Value(Trusted) /\ reading[d] \in Nat
    BY <1>1, <1>2 DEF ReadingInv, TypeOK
  <2>. QED BY <1>2, <2>4, <2>5
<1>3. CASE GetBalance(d)
  <2>1. reading'[d] = Value(Trusted) /\ Trusted' = Trusted
    BY <1>3 DEF GetBalance, Balance, BalanceCalls, TypeOK, Trusted, node
  <2>2. Value(Trusted) \in Nat
    BY ValueSplits DEF Trusted, TypeOK
  <2>. QED BY <2>1, <2>2
<1>4. CASE (Ask(d) \/ Proceed(d)) /\ ~GetBalance(d)
  BY <1>1, <1>4
  DEF TypeOK, Ask, Proceed, AskBalance, AskPayment, StartPayment, RefusePayment, StartBalance,
      SetTxFee, SendToAddress, CreateRawTransaction, FundRawTransaction,
      EncodeTransformedTransaction, SignRawTransactionWithWallet, SendRawTransaction,
      GetUnconfirmedBalance, CallFails, Return, Goto
<1>. QED
  BY <1>2, <1>3, <1>4, OneMoves

-----------------------------------------------------------------------------
(* The theorems.                                                           *)

\* The invariant is inductive.
LEMMA SendInvStep == ASSUME SendInv, [Next]_vars PROVE SendInv'
BY TypeStep, BoundStep, RequestStep, DraftStep, ReadingStep DEF SendInv

\* Every state satisfies the invariant.
THEOREM SendInvHolds == Spec => []SendInv
<1>1. Init => SendInv
  BY InitInv
<1>2. SendInv /\ [Next]_vars => SendInv'
  BY SendInvStep
<1>. QED
  BY <1>1, <1>2, PTL DEF Spec

\* The node API's variables keep their types; moneySendLock is held by the one
\* caller that is inside SendWithPerKBFee, SendWithFixedFee or
\* GetConfirmedAndUnconfirmedBalance, and by nobody when no one is.
THEOREM TypeCorrect == Spec => []TypeOK
<1>1. SendInv => TypeOK
  BY DEF SendInv
<1>. QED
  BY <1>1, SendInvHolds, PTL

\* The coins fundrawtransaction chose are unspent until the transaction is
\* broadcast, whatever the other callers and the deposits do.
THEOREM CoinsStayHolds == Spec => []CoinsStay
<1>1. SendInv => CoinsStay
  BY DEF SendInv, DraftInv, CoinsStay, Trusted
<1>. QED
  BY <1>1, SendInvHolds, PTL

\* Every payment with a fee per kilobyte is made with the rate it asked for.
THEOREM OwnRateHolds == Spec => []OwnRate
<1>1. Init => OwnRate
  BY DEF Init, OwnRate, NothingSent, NoRequest
<1>2. ASSUME SendInv, OwnRate, [Next]_vars PROVE OwnRate'
  <2>1. CASE UNCHANGED sent
    BY <1>2, <2>1 DEF OwnRate
  <2>2. ASSUME NEW c \in Callers, SendToAddress(c) PROVE OwnRate'
    <3>1. sent'.request = request[c] /\ sent'.rate = payTxFee
      BY <2>2 DEF SendToAddress, Broadcast
    <3>2. payTxFee = request[c].fee
      BY <1>2, <2>2 DEF SendInv, RequestInv, SendToAddress
    <3>. QED BY <3>1, <3>2 DEF OwnRate
  <2>3. ASSUME NEW c \in Callers, SendRawTransaction(c), ~UNCHANGED sent PROVE OwnRate'
    <3>1. sent'.request = request[c]
      BY <2>3 DEF SendRawTransaction, Broadcast, node
    <3>2. request[c].kind = "fixed"
      BY <1>2, <2>3 DEF SendInv, RequestInv, SendRawTransaction
    <3>. QED BY <3>1, <3>2 DEF OwnRate
  <2>. QED
    BY <1>2, <2>1, <2>2, <2>3
    DEF Next, Ask, Proceed, AskBalance, AskPayment, StartPayment, RefusePayment, StartBalance,
        SetTxFee, CreateRawTransaction, FundRawTransaction, EncodeTransformedTransaction,
        SignRawTransactionWithWallet, GetBalance, GetUnconfirmedBalance, CallFails,
        DepositArrives, DepositConfirms, vars, node
<1>. QED
  BY <1>1, <1>2, SendInvHolds, PTL DEF Spec

\* Whatever coins and fee fundrawtransaction chose, a payment with a fixed fee
\* pays exactly that fee.  The recipient never gets less than is due, and more
\* (less than Dust) only where the rest of the coins is too small for a change
\* output; a payment whose amount and fee wrap is never broadcast.
THEOREM FixedFeeExactHolds == Spec => []FixedFeeExact
<1>1. Init => FixedFeeExact
  BY DEF Init, FixedFeeExact, NothingSent, NoRequest
<1>2. ASSUME SendInv, FixedFeeExact, [Next]_vars PROVE FixedFeeExact'
  <2>1. CASE UNCHANGED sent
    BY <1>2, <2>1 DEF FixedFeeExact, Due
  <2>2. ASSUME NEW c \in Callers, SendToAddress(c) PROVE FixedFeeExact'
    <3>1. sent'.request = request[c]
      BY <2>2 DEF SendToAddress, Broadcast
    <3>2. request[c].kind = "perKB"
      BY <1>2, <2>2 DEF SendInv, RequestInv, SendToAddress
    <3>. QED BY <3>1, <3>2 DEF FixedFeeExact
  <2>3. ASSUME NEW c \in Callers, SendRawTransaction(c), ~UNCHANGED sent PROVE FixedFeeExact'
    <3>. DEFINE p == request[c]
                d == draft[c]
                amount == Signed(Debit(p))
                rest == Value(d.inputs) - amount
                v == amount - p.fee + (IF rest < Dust THEN rest ELSE 0)
                change == IF rest < Dust THEN 0 ELSE rest
    <3>1. pc[c] = "sendraw" /\ Broadcast(p, d.inputs, d.vout)
          /\ \A n \in 1 .. Len(d.vout) : d.vout[n].value >= Dust
      BY <2>3 DEF SendRawTransaction, node
    <3>2. /\ p \in PaymentType /\ amount > 0 /\ Transformed(d, p)
          /\ d.inputs \in SUBSET CoinType /\ IsFiniteSet(d.inputs)
      BY <1>2, <3>1, SendAssumption, FS_Subset
      DEF SendInv, RequestInv, DraftInv, Trusted, TypeOK
    <3>3. /\ amount \in Nat /\ p.fee \in Nat /\ Due(p) \in Int
          /\ Due(p) = amount - p.fee \/ amount < p.fee
      BY <3>2, DebitOfPayment
    <3>4. Value(d.inputs) \in Nat /\ Dust \in Nat
      BY <3>2, ValueNat, SendAssumption
    <3>5. rest >= 0 /\ v >= 0 /\ Outputs(d.vout, v, rest)
      BY <3>2 DEF Transformed
    <3>. HIDE DEF amount
    <3>6. rest \in Int /\ v \in Int
      BY <3>3, <3>4
    <3>. HIDE DEF v, rest, d, p
    <3>7. OutputsTo(d.vout, Recipient) = v /\ OutputsTo(d.vout, Change) = change
      BY <3>5, <3>6, OutputsSums
    <3>8. sent'.request = p /\ sent'.pays = v /\ sent'.change = change
          /\ sent'.fee = Value(d.inputs) - v - change
      BY <3>1, <3>7 DEF Broadcast
    <3>9. sent'.fee = p.fee
      BY <3>3, <3>4, <3>6, <3>8 DEF v, rest
    <3>10. rest < Dust => v >= Dust
      <4>1. rest < Dust => d.vout = <<[address |-> Recipient, value |-> v]>>
        BY <3>5 DEF Outputs
      <4>2. rest < Dust => 1 \in 1 .. Len(d.vout) /\ d.vout[1].value = v
        BY <4>1
      <4>. QED BY <3>1, <4>2
    <3>11. Due(p) = amount - p.fee
      <4>1. ~(amount < p.fee)
        BY <3>3, <3>4, <3>5, <3>6, <3>10 DEF v
      <4>. QED BY <3>3, <4>1
    <3>12. /\ v >= Due(p)
           /\ v > Due(p) => change = 0 /\ v < Due(p) + Dust
      BY <3>3, <3>4, <3>5, <3>6, <3>11 DEF v
    <3>. QED BY <3>8, <3>9, <3>12 DEF FixedFeeExact, Due
  <2>. QED
    BY <1>2, <2>1, <2>2, <2>3
    DEF Next, Ask, Proceed, AskBalance, AskPayment, StartPayment, RefusePayment, StartBalance,
        SetTxFee, CreateRawTransaction, FundRawTransaction, EncodeTransformedTransaction,
        SignRawTransactionWithWallet, GetBalance, GetUnconfirmedBalance, CallFails,
        DepositArrives, DepositConfirms, vars, node
<1>. QED
  BY <1>1, <1>2, SendInvHolds, PTL DEF Spec

\* The two balances the API returns never add up to more than the wallet had
\* at the second of the two calls.
THEOREM BalanceNotOverstatedHolds == Spec => []BalanceNotOverstated
<1>1. Init => BalanceNotOverstated
  BY DEF Init, BalanceNotOverstated, NoAnswer
<1>2. ASSUME SendInv, BalanceNotOverstated, [Next]_vars PROVE BalanceNotOverstated'
  <2>1. CASE UNCHANGED answer
    BY <1>2, <2>1 DEF BalanceNotOverstated
  <2>2. ASSUME NEW c \in Callers, GetUnconfirmedBalance(c) PROVE BalanceNotOverstated'
    <3>1. answer' = [conf |-> reading[c], unconf |-> Value(coins \ Trusted), worth |-> Value(coins)]
      BY <2>2 DEF GetUnconfirmedBalance, Balance, BalanceCalls, NoAnswer
    <3>2. reading[c] <= Value(Trusted) /\ reading[c] \in Nat
      BY <1>2, <2>2 DEF SendInv, ReadingInv, TypeOK, GetUnconfirmedBalance
    <3>3. /\ Value(Trusted) \in Nat /\ Value(coins \ Trusted) \in Nat /\ Value(coins) \in Nat
          /\ Value(coins) = Value(Trusted) + Value(coins \ Trusted)
      BY <1>2, ValueSplits DEF SendInv, TypeOK, Trusted
    <3>. QED BY <3>1, <3>2, <3>3 DEF BalanceNotOverstated
  <2>. QED
    BY <1>2, <2>1, <2>2
    DEF Next, Ask, Proceed, AskBalance, AskPayment, StartPayment, RefusePayment, StartBalance,
        SetTxFee, SendToAddress, CreateRawTransaction, FundRawTransaction,
        EncodeTransformedTransaction, SignRawTransactionWithWallet, SendRawTransaction,
        GetBalance, CallFails, DepositArrives, DepositConfirms, vars
<1>. QED
  BY <1>1, <1>2, SendInvHolds, PTL DEF Spec
=============================================================================
