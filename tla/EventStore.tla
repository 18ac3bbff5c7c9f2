----------------------------- MODULE EventStore -----------------------------
(***************************************************************************)
(* The events and muted_events tables (events/postgresstorage.go) and the  *)
(* goroutines that write to them.                                          *)
(*                                                                         *)
(* An INSERT takes its sequence number from a SERIAL column at once, but   *)
(* the row becomes visible only when the database transaction around it    *)
(* commits, and a rollback leaves a gap.  Events about transactions are    *)
(* written by the wallet updater goroutine alone, several in one database  *)
(* transaction.  Events about new addresses are written by whichever API   *)
(* goroutine runs CreateAccount, each in a database transaction of its     *)
(* own.  So rows can become visible in another order than their sequence   *)
(* numbers.                                                                *)
(***************************************************************************)
EXTENDS Integers

CONSTANTS
    TxIds,      \* ids of transactions
    NewAddress, \* what a NewAddressEvent is about
    NoEvent,    \* a sequence number that no INSERT has taken
    MaxSeq      \* bound: how many sequence numbers are handed out

ASSUME StoreAssumption ==
    /\ NewAddress \notin TxIds
    /\ NoEvent \notin TxIds \cup {NewAddress}
    /\ MaxSeq \in Nat

VARIABLES
    up,        \* the process is running
    serial,    \* the last sequence number handed out
    about,     \* for each sequence number, the transaction its event is about
    stored,    \* sequence numbers of the committed rows of events
    walletTx,  \* rows inserted by the wallet updater's open transaction
    accountTx, \* rows inserted by open transactions of CreateAccount
    muted      \* rows of muted_events

writers == <<walletTx, accountTx>>
storeVars == <<up, serial, about, stored, writers, muted>>

Seqs == 1 .. MaxSeq

StoreTypeOK ==
    /\ up \in BOOLEAN
    /\ serial \in 0 .. MaxSeq
    /\ about \in [Seqs -> TxIds \cup {NewAddress, NoEvent}]
    /\ stored \subseteq Seqs
    /\ walletTx \subseteq Seqs
    /\ accountTx \subseteq Seqs
    /\ muted \subseteq TxIds

StoreInit ==
    /\ up = FALSE
    /\ serial = 0
    /\ about = [s \in Seqs |-> NoEvent]
    /\ stored = {}
    /\ walletTx = {}
    /\ accountTx = {}
    /\ muted = {}

-----------------------------------------------------------------------------
\* INSERT INTO events ... RETURNING seq, inside the caller's transaction.
StoreEvent(subject) ==
    /\ serial < MaxSeq
    /\ serial' = serial + 1
    /\ about' = [about EXCEPT ![serial + 1] = subject]

\* NotifyTransaction, in whatever database transaction the updater has open.
WalletNotifies ==
    /\ up
    /\ \E tx \in TxIds : StoreEvent(tx)
    /\ walletTx' = walletTx \cup {serial + 1}
    /\ UNCHANGED <<up, stored, accountTx, muted>>

WalletCommits ==
    /\ up
    /\ walletTx # {}
    /\ stored' = stored \cup walletTx
    /\ walletTx' = {}
    /\ UNCHANGED <<up, serial, about, accountTx, muted>>

WalletRollsBack ==
    /\ up
    /\ walletTx # {}
    /\ walletTx' = {}
    /\ UNCHANGED <<up, serial, about, stored, accountTx, muted>>

\* CreateAccount: the account row and its event are one transaction.
CreateAccount ==
    /\ up
    /\ StoreEvent(NewAddress)
    /\ accountTx' = accountTx \cup {serial + 1}
    /\ UNCHANGED <<up, stored, walletTx, muted>>

AccountCommits ==
    /\ up
    /\ \E s \in accountTx : /\ stored' = stored \cup {s}
                            /\ accountTx' = accountTx \ {s}
    /\ UNCHANGED <<up, serial, about, walletTx, muted>>

AccountRollsBack ==
    /\ up
    /\ \E s \in accountTx : accountTx' = accountTx \ {s}
    /\ UNCHANGED <<up, serial, about, stored, walletTx, muted>>

WriterStep ==
    \/ WalletNotifies
    \/ WalletCommits
    \/ WalletRollsBack
    \/ CreateAccount
    \/ AccountCommits
    \/ AccountRollsBack

\* The server rolls back what a dead process left open.
ProcessDies == up' = FALSE /\ walletTx' = {} /\ accountTx' = {}

-----------------------------------------------------------------------------
\* What GetEventsFromSeq returns: the visible events, muted ones left out.
GetEventsFromSeq(seq) == {s \in stored : s >= seq /\ about[s] \notin muted}

\* s is the first, or the last, event of the result (ORDER BY seq).
IsFirst(s, events) == s \in events /\ \A t \in events : s <= t
IsLast(s, events) == s \in events /\ \A t \in events : t <= s

IsTxEvent(s) == about[s] \in TxIds

-----------------------------------------------------------------------------
(* What the readers of the tables may rely on.                             *)

\* Sequence numbers in use have been handed out; the wallet updater's open
\* transaction holds events about transactions, all with higher numbers than
\* those it has committed; CreateAccount's hold none.
StoreInv ==
    /\ StoreTypeOK
    /\ \A s \in stored \cup walletTx \cup accountTx : s <= serial
    /\ \A s \in walletTx : IsTxEvent(s)
    /\ \A s \in walletTx, t \in stored : IsTxEvent(t) => t < s
    /\ \A s \in accountTx : ~IsTxEvent(s)

\* Among the events about transactions, new rows become visible above all
\* those that were visible before.
RowsOnlyAppended ==
    /\ stored \subseteq stored'
    /\ \A s \in stored : about'[s] = about[s]
    /\ \A s \in stored' \ stored, t \in stored :
          about'[s] \in TxIds /\ about[t] \in TxIds => t < s
=============================================================================
