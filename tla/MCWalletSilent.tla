--------------------------- MODULE MCWalletSilent ---------------------------
(* One earned callout and one request: is a withdrawal ever left in PENDING *)
(* with nobody who will answer it or show it to an operator?               *)
EXTENDS Wallet, TLC

CONSTANTS m1, o1, w1

MCMasterOf == o1 :> m1
MCCalloutOf == o1 :> 1
MCRequesterOf == w1 :> m1
MCAmountOf == w1 :> 1
=============================================================================
