------------------------ MODULE MCMultiThreadServer ------------------------
(* MultiThreadServer with three connections. *)
EXTENDS MultiThreadServer

CONSTANTS w1, w2, w3

MCWorkers == {w1, w2, w3}
=============================================================================
