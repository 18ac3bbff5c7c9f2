---------------------------- MODULE WalletTable ----------------------------
(***************************************************************************)
(* What a wallet storage promises about the transactions it keeps: a       *)
(* transaction is never lost, keeps its identity, gets a bitcoin           *)
(* transaction at most once, and no two transactions stand for the same    *)
(* output of a bitcoin transaction.                                        *)
(***************************************************************************)
EXTENDS Integers

VARIABLE table  \* the transactions, as a reader gets them

\* The output of a bitcoin transaction that a broadcast transaction stands for.
Output(t) == <<t.hash, t.direction, t.address>>

Distinct(rows, Key(_)) == \A t, u \in rows : Key(t) = Key(u) => t = u

WellKept(rows) ==
    /\ Distinct(rows, LAMBDA t : t.id)
    /\ Distinct({t \in rows : t.hash # ""}, Output)

\* u is what t may have become.
Continues(t, u) ==
    /\ \A field \in {"id", "address", "direction", "amount", "fee", "feeType", "cold"} :
           t[field] = u[field]
    /\ t.hash # "" => u.hash = t.hash
    /\ t.reported <= u.reported

Init == table = {}

Next ==
    \E rows \in {table'} :
        /\ WellKept(rows)
        /\ \A t \in table : \E u \in rows : Continues(t, u)

Spec == Init /\ [][Next]_table
=============================================================================
