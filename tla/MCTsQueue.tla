----------------------------- MODULE MCTsQueue -----------------------------
(* TsQueue on three threads, two list nodes and two distinguishable data. *)
EXTENDS TsQueue

CONSTANTS t1, t2, t3, n1, n2, d1, d2

MCThreads == {t1, t2, t3}
MCNodes == {n1, n2}
MCData == {d1, d2}
=============================================================================
