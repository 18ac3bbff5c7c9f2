---------------------------- MODULE MCTxTracking ----------------------------
(***************************************************************************)
(* Small instances of TxTracking.                                          *)
(***************************************************************************)
EXTENDS TxTracking

CONSTANTS deposit, hot, withdrawal, cold

KindOf == [t \in Txs |-> CASE t = deposit    -> "deposit"
                           [] t = hot        -> "hot"
                           [] t = withdrawal -> "withdrawal"
                           [] t = cold       -> "cold"]
=============================================================================
