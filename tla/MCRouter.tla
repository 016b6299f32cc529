------------------------------ MODULE MCRouter ------------------------------
(* Router on two literals, two variables and a wildcard: patterns of up to  *)
(* three segments, among them the ones that need backtracking.  Nothing     *)
(* tells the two methods apart.                                             *)
EXTENDS Router, TLC

CONSTANTS a, b, v, u, w, GET, POST

MCSegments == {a, b, v, u, w}
MCVarSegs == {v, u}
MCWildSegs == {w}
MCMethods == {GET, POST}
MCSymmetry == Permutations(MCMethods)
MCPatterns ==
  {<<a>>, <<v>>, <<w>>, <<a, b>>, <<v, b>>, <<v, u>>, <<a, w>>, <<a, Empty, b, v>>}
MCRequestPaths ==
  UNION {[1 .. n -> {a, b}] : n \in 0 .. 3} \cup {<<Empty, a>>, <<a, Empty, b>>, <<a, b, Empty>>}
=============================================================================
