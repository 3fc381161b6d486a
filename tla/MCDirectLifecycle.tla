------------------------- MODULE MCDirectLifecycle -------------------------
(* One order is passed between two masters over two search attempts, with  *)
(* two quote versions that may differ and masters of every standing.       *)
EXTENDS DirectOrders, TLC

CONSTANTS o1, m1, m2, c1

MCClientOf == o1 :> c1

\* Masters are interchangeable.
MasterSymmetry == Permutations({m1, m2})
=============================================================================
