--------------------------- MODULE MCWithdrawals ---------------------------
(***************************************************************************)
(* Small instances of Withdrawals.  Amounts differ so that the ascending   *)
(* order of tryToUpdatePendingTxns matters: the balance pays for some of   *)
(* the withdrawals, a deposit for others, and the largest ones need money  *)
(* from cold storage or an operator's confirmation.                        *)
(***************************************************************************)
EXTENDS Withdrawals

CONSTANTS small, medium, large, cold, internal

\* The amount of every withdrawal an instance may have.
AllAmounts == [id \in {small, medium, large, cold, internal} |->
                 CASE id = small    -> 1
                   [] id = medium   -> 2
                   [] id = large    -> 3
                   [] id = cold     -> 1
                   [] id = internal -> 3]

MCAmount == [id \in Ids |-> AllAmounts[id]]

=============================================================================
