-------------------------- MODULE ConfirmationFeed --------------------------
(***************************************************************************)
(* What a client of bitcoin-processing may rely on about the events of one *)
(* bitcoin transaction, whatever the chain, the database and the process   *)
(* go through: it hears of 0, 1, 2, ... confirmations in this order, each  *)
(* number once, never of more than MaxConfirmations, and of a number only  *)
(* after the transaction has really had that many.  A transaction whose    *)
(* first event was rolled back may be heard of from 1 on.                  *)
(***************************************************************************)
EXTENDS Integers, Sequences

CONSTANTS
    Txs,              \* transactions of the wallet
    MaxConfirmations  \* transaction.max_confirmations

VARIABLES
    feed,       \* for each transaction, the confirmations its events announced
    best,       \* the most confirmations it has had so far; -1 before it exists
    rolledBack  \* transactions whose first event was rolled back once

vars == <<feed, best, rolledBack>>

Init ==
    /\ feed = [t \in Txs |-> << >>]
    /\ best = [t \in Txs |-> -1]
    /\ rolledBack = {}

\* The events of t so far are those of consecutive numbers from first on.
CountedFrom(t, first) ==
    feed[t] = [n \in 1 .. Len(feed[t]) |-> first + n - 1]

Counted(t) ==
    \/ CountedFrom(t, 0)
    \/ CountedFrom(t, 1) /\ t \in rolledBack

\* One commit may carry several events, about several transactions.
Announce ==
    /\ \A t \in Txs :
         /\ Counted(t)'
         /\ Len(feed[t]) <= Len(feed'[t])
         /\ \A n \in 1 .. Len(feed[t]) : feed'[t][n] = feed[t][n]
         /\ \A n \in 1 .. Len(feed'[t]) : feed'[t][n] <= MaxConfirmations /\ feed'[t][n] <= best[t]
    /\ UNCHANGED <<best, rolledBack>>

\* A transaction appears or is buried deeper.
Advance ==
    /\ \A t \in Txs : best[t] <= best'[t]
    /\ UNCHANGED <<feed, rolledBack>>

\* The first event of t, which nobody has seen, is taken back.
RollBack(t) ==
    /\ feed[t] = << >>
    /\ rolledBack' = rolledBack \cup {t}
    /\ UNCHANGED <<feed, best>>

Next == Announce \/ Advance \/ \E t \in Txs : RollBack(t)

Spec == Init /\ [][Next]_vars
=============================================================================
