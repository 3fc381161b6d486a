------------------------ MODULE MCWaveHold ------------------------
(* One handler at a time, no crash: a search that is retried. *)
EXTENDS WaveOrders, TLC

CONSTANTS m1, h1
============================================================
