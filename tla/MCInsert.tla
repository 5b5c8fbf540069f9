------------------------------ MODULE MCInsert ------------------------------
(* Insert for TLC: callers and key sets are interchangeable, and the value *)
(* a call returned, which nothing in the system reads, does not tell       *)
(* states apart.                                                           *)
EXTENDS Insert, TLC

Symmetry == Permutations(Callers) \cup Permutations(KeySets)

AllButResult == <<cacheVars, clientVars, pc, calls, snap, req, attempt, reply, net, rows>>
=============================================================================
