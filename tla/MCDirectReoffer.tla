--------------------------- MODULE MCDirectReoffer ---------------------------
(* One order, one master, two search attempts, and a history of the         *)
(* masters who stepped back from the order.                                 *)
EXTENDS DirectOrders, TLC

CONSTANTS o1, m1, c1

VARIABLE withdrew   \* history: who cancelled each order after being assigned

MCClientOf == o1 :> c1

HInit == Init /\ withdrew = [o \in Orders |-> {}]

HNext ==
    /\ Next
    /\ withdrew' = [o \in Orders |->
            IF order[o].masterId # NoMaster /\ order'[o].masterId = NoMaster
            THEN withdrew[o] \cup {order[o].masterId}
            ELSE withdrew[o]]

HSpec == HInit /\ [][HNext]_<<vars, withdrew>>

(* "сохранять существующую фильтрацию отменившего этот заказ мастера": a    *)
(* master who cancelled an order is not offered that order again. The code  *)
(* recognises him by his ACCEPTED offer, which a manual assignment never    *)
(* makes.                                                                   *)
CancellerFiltered ==
    [][\A o \in Orders, a \in Attempts : \A m \in withdrew[o] :
        offer'[o][a][m] = "LIVE" => offer[o][a][m] = "LIVE"]_<<vars, withdrew>>
=============================================================================
