----------------------------- MODULE MCNodeSend -----------------------------
(***************************************************************************)
(* A small instance of NodeSend: words of 32 values, so that amounts up to *)
(* 15 are positive for the node.  The payments are one of each kind, one   *)
(* whose recipient cannot pay the fee, and one whose sum wraps.            *)
(***************************************************************************)
EXTENDS NodeSend

Fixed(amount, fee, recipientPays) ==
    [kind |-> "fixed", amount |-> amount, fee |-> fee, recipientPaysFee |-> recipientPays]
PerKB(amount, fee, recipientPays) ==
    [kind |-> "perKB", amount |-> amount, fee |-> fee, recipientPaysFee |-> recipientPays]

MCPayments == {Fixed(5, 2, TRUE), Fixed(5, 2, FALSE), Fixed(1, 2, TRUE),
               Fixed(30, 4, FALSE), PerKB(4, 1, TRUE), PerKB(4, 2, FALSE)}
MCCoins == <<8>>
=============================================================================
