------------------------ MODULE MCWaveRestart ------------------------
(* One wave of one attempt, handlers one after the other, crashes. *)
EXTENDS WaveOrders, TLC

CONSTANTS m1, h1
============================================================
