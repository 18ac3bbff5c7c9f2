-------------------------- MODULE WithdrawalLedger --------------------------
(***************************************************************************)
(* What the wallet promises about each withdrawal, without the database,   *)
(* the node or the updater that keep the promise: it is paid at most once, *)
(* a large one only after an operator approved it, and never once it is    *)
(* cancelled.  A withdrawal whose sending fails may be requested again, so *)
(* "none" stands for "nothing has happened to it yet".                     *)
(***************************************************************************)
EXTENDS Naturals

CONSTANTS
    Ids,      \* withdrawals
    Guarded   \* those that need an operator's approval

VARIABLES
    state,     \* of each withdrawal
    payments,  \* how many times each was paid
    approved   \* those an operator has approved

ledgerVars == <<state, payments, approved>>

LedgerStates == {"none", "held", "queued", "paid", "cancelled"}

LedgerInit ==
    /\ state = [id \in Ids |-> "none"]
    /\ payments = [id \in Ids |-> 0]
    /\ approved = {}

MayPay(id) == id \in Guarded => id \in approved

HoldForApproval(id) ==
    /\ id \in Guarded
    /\ state[id] = "none"
    /\ state' = [state EXCEPT ![id] = "held"]
    /\ UNCHANGED <<payments, approved>>

Approve(id) ==
    /\ state[id] = "held"
    /\ approved' = approved \cup {id}
    /\ UNCHANGED <<state, payments>>

\* There is not enough money: it will be paid later.
Queue(id) ==
    /\ state[id] \in {"none", "held"}
    /\ MayPay(id)
    /\ state' = [state EXCEPT ![id] = "queued"]
    /\ UNCHANGED <<payments, approved>>

Pay(id) ==
    /\ state[id] \in {"none", "held", "queued"}
    /\ MayPay(id)
    /\ state' = [state EXCEPT ![id] = "paid"]
    /\ payments' = [payments EXCEPT ![id] = @ + 1]
    /\ UNCHANGED approved

CancelQueued(id) ==
    /\ state[id] \in {"held", "queued"}
    /\ state' = [state EXCEPT ![id] = "cancelled"]
    /\ UNCHANGED <<payments, approved>>

LedgerNext ==
    \E id \in Ids :
        \/ HoldForApproval(id)
        \/ Approve(id)
        \/ Queue(id)
        \/ Pay(id)
        \/ CancelQueued(id)

LedgerSpec == LedgerInit /\ [][LedgerNext]_ledgerVars

=============================================================================
