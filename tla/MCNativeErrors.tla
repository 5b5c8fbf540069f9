--------------------------- MODULE MCNativeErrors ---------------------------
(* Goroutines and threads are interchangeable.                             *)
EXTENDS NativeErrors, TLC

Symmetry == Permutations(Goroutines) \cup Permutations(Threads)
=============================================================================
