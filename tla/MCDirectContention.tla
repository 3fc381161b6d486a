------------------------ MODULE MCDirectContention -------------------------
(* Two clients' orders compete for one master over two search attempts; no *)
(* quotes are exchanged, so an order goes as far as INSPECTION.            *)
EXTENDS DirectOrders, TLC

CONSTANTS o1, o2, m1, c1, c2

MCOrders == {o1, o2}
MCClientOf == (o1 :> c1) @@ (o2 :> c2)
=============================================================================
