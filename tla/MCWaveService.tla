------------------------ MODULE MCWaveService ------------------------
(* From the search to the end: prices, deadlines, disputes, retries. One wave *)
(* and one master, two handlers beside each other.                           *)
EXTENDS WaveOrders, TLC

CONSTANTS m1, h1, h2

\* Handlers are interchangeable.
MCSymmetry == Permutations({h1, h2})
============================================================
