------------------------ MODULE MCWaveOwner ------------------------
(* Two requests of a master, and another master in between. *)
EXTENDS WaveOrders, TLC

CONSTANTS m1, m2, h1, h2

\* Masters are interchangeable, and so are handlers.
MCSymmetry == Permutations({m1, m2}) \cup Permutations({h1, h2})
============================================================
