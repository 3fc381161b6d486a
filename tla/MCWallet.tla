------------------------------ MODULE MCWallet ------------------------------
(* Two orders of one master are worth one withdrawal each; three requests   *)
(* compete for the balance and two operators for the errors.                *)
EXTENDS Wallet, TLC

CONSTANTS m1, o1, o2, w1, w2, w3, p1, p2

MCOrders == {o1, o2}
MCMasterOf == o1 :> m1 @@ o2 :> m1
MCCalloutOf == o1 :> 2 @@ o2 :> 1
MCWithdrawals == {w1, w2, w3}
MCRequesterOf == [w \in MCWithdrawals |-> m1]
MCAmountOf == w1 :> 1 @@ w2 :> 1 @@ w3 :> 2
MCSymmetry == Permutations({p1, p2}) \cup Permutations({w1, w2})
=============================================================================
