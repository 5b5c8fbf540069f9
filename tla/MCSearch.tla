------------------------------ MODULE MCSearch ------------------------------
(* Search for TLC: one flat cell of three rows, two cluster cells of one.  *)
EXTENDS Search, TLC

OneFlatCell == <<3>>
TwoClusters == <<1, 1>>
Symmetry == Permutations(Items)
=============================================================================
