---------------------------- MODULE MCStorages ----------------------------
(* Instances of Storages for TLC.                                          *)
EXTENDS Storages

CONSTANTS w1, w2, d1, account, hotwallet, outside

\* w1 leaves the wallet, w2 is a transfer between accounts.
RequestsWithFee(feeType) == [id \in Ids |->
    [address |-> IF id = w1 THEN outside ELSE account,
     amount |-> IF id = w1 THEN 2 ELSE 3, fee |-> 1,
     feeType |-> IF id = w1 THEN PerKBRateFee ELSE feeType,
     cold |-> FALSE]]

Requests == RequestsWithFee(FixedFee)
RequestsPerKB == RequestsWithFee(PerKBRateFee)

Pays == [d \in Deposits |-> {account, hotwallet}]
=============================================================================
