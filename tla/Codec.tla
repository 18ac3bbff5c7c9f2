------------------------------- MODULE Codec -------------------------------
(***************************************************************************)
(* How enumerations, amounts and notifications are written as text and     *)
(* read back: the columns of the transactions table, the data of an event  *)
(* and the filters of a query all hold the text.                           *)
(*                                                                         *)
(* An enumeration is a number, as iota gives it; its text is a string.  A  *)
(* conversion from text answers a record: the value, and whether there was *)
(* no error.                                                               *)
(***************************************************************************)
EXTENDS Integers

CONSTANT Width  \* bits of an amount (64 in the code)

ASSUME WidthAssumption ==
    /\ Width \in Nat \ {0, 1}
    /\ 2 ^ (Width - 1) \in Nat \ {0, 1}          \* follow from it; the proofs use
    /\ 2 ^ Width = 2 ^ (Width - 1) + 2 ^ (Width - 1)  \* nothing else about powers

IncomingDirection == 0
OutgoingDirection == 1
UnknownDirection == 2
InvalidDirection == 3

transactionDirectionToStringMap ==
    [d \in 0 .. 2 |-> <<"incoming", "outgoing", "unknown">>[d + 1]]

NewTransaction == 0
ConfirmedTransaction == 1
FullyConfirmedTransaction == 2
PendingTransaction == 3
PendingColdStorageTransaction == 4
PendingManualConfirmationTransaction == 5
CancelledTransaction == 6
InvalidTransaction == 7

transactionStatusToStringMap ==
    [s \in 0 .. 6 |-> <<"new", "confirmed", "fully-confirmed", "pending",
                        "pending-cold-storage", "pending-manual-confirmation",
                        "cancelled">>[s + 1]]

InvalidFee == 0
PerKBRateFee == 1
FixedFee == 2

\* The text "invalid" is in the map: it is how a deposit's fee type is stored.
feeTypeToStringMap == [f \in 0 .. 2 |-> <<"invalid", "per-kb-rate", "fixed">>[f + 1]]

NewAddressEvent == 0
NewIncomingTxEvent == 1
IncomingTxConfirmedEvent == 2
NewOutgoingTxEvent == 3
OutgoingTxConfirmedEvent == 4
PendingStatusUpdatedEvent == 5
PendingTxCancelledEvent == 6
InvalidEvent == 7

eventTypeToStringMap ==
    [e \in 0 .. 6 |-> <<"new-address", "new-incoming-tx", "incoming-tx-confirmed",
                        "new-outgoing-tx", "outgoing-tx-confirmed",
                        "tx-pending-status-updated", "pending-tx-cancelled">>[e + 1]]

-----------------------------------------------------------------------------
Text(names, value) == IF value \in DOMAIN names THEN names[value] ELSE "invalid"

\* The value whose text this is, or the enumeration's invalid value and an error.
Parsed(names, text, invalid) ==
    IF \E v \in DOMAIN names : names[v] = text
      THEN [value |-> CHOOSE v \in DOMAIN names : names[v] = text, ok |-> TRUE]
      ELSE [value |-> invalid, ok |-> FALSE]

DirectionString(d) == Text(transactionDirectionToStringMap, d)
StatusString(s) == Text(transactionStatusToStringMap, s)
FeeTypeString(f) == Text(feeTypeToStringMap, f)
EventTypeString(e) == Text(eventTypeToStringMap, e)

TransactionDirectionFromString(text) ==
    Parsed(transactionDirectionToStringMap, text, InvalidDirection)

TransactionStatusFromString(text) ==
    Parsed(transactionStatusToStringMap, text, InvalidTransaction)

FeeTypeFromStringStrict(text) ==  \* "invalid" is not the text of a fee type
    Parsed([f \in 1 .. 2 |-> FeeTypeString(f)], text, InvalidFee)

FeeTypeFromString(text) == Parsed(feeTypeToStringMap, text, InvalidFee)

EventTypeFromString(text) == Parsed(eventTypeToStringMap, text, InvalidEvent)

\* The text of an amount is that of the signed number with the same bits,
\* and reading it keeps the low bits.
ToStringedFloat(amount) ==
    [satoshi |-> IF amount >= 2 ^ (Width - 1) THEN amount - 2 ^ Width ELSE amount]

BTCAmountFromStringedFloat(text) == text.satoshi % 2 ^ Width

-----------------------------------------------------------------------------
ToCoinpaymentsLikeCode(status) ==
    IF status = FullyConfirmedTransaction THEN 100 ELSE status

ToCoinpaymentsLikeType(direction) ==
    CASE direction = IncomingDirection -> "deposit"
      [] direction = OutgoingDirection -> "withdrawal"
      [] OTHER -> "unknown"

\* The data of an event about a transaction.
TxNotification(tx) ==
    [tx |-> tx,
     code |-> ToCoinpaymentsLikeCode(tx.status),
     name |-> StatusString(tx.status),
     ipnType |-> ToCoinpaymentsLikeType(tx.direction)]

\* Its JSON.  The numeric status of the notification hides the status of the
\* transaction, which has the same key.
MarshalNotification(n) ==
    [id |-> n.tx.id, hash |-> n.tx.hash, confirmations |-> n.tx.confirmations,
     address |-> n.tx.address, direction |-> DirectionString(n.tx.direction),
     amount |-> ToStringedFloat(n.tx.amount), fee |-> ToStringedFloat(n.tx.fee),
     feeType |-> FeeTypeString(n.tx.feeType), cold |-> n.tx.cold,
     status |-> n.code, statusName |-> n.name, ipnType |-> n.ipnType]

\* The registered unmarshaler reads the JSON back into a TxNotification, or
\* fails.  What has no key keeps its zero value, the inner status too.
UnmarshalNotification(json) ==
    LET direction == TransactionDirectionFromString(json.direction)
        feeType == FeeTypeFromString(json.feeType)
    IN [ok |-> direction.ok /\ feeType.ok,
        data |-> [tx |-> [id |-> json.id, hash |-> json.hash,
                          confirmations |-> json.confirmations,
                          address |-> json.address, direction |-> direction.value,
                          status |-> NewTransaction,
                          amount |-> BTCAmountFromStringedFloat(json.amount),
                          fee |-> BTCAmountFromStringedFloat(json.fee),
                          feeType |-> feeType.value, cold |-> json.cold,
                          reported |-> 0],
                  code |-> json.status, name |-> json.statusName,
                  ipnType |-> json.ipnType]]

\* Reading an event: its type first, then its data by the unmarshaler
\* registered for the type: an account, told by its address, or a notification
\* about a transaction.
DecodeEvent(event) ==
    LET type == EventTypeFromString(event.type)
        read == IF type.value = NewAddressEvent THEN [ok |-> TRUE, data |-> event.data]
                ELSE UnmarshalNotification(event.data)
    IN [ok |-> type.ok /\ read.ok, seq |-> event.seq, type |-> type.value, data |-> read.data]
=============================================================================
