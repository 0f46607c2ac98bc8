--------------------------- MODULE MCFiberDriver ---------------------------
(* FiberDriver for TLC.  Goroutines and configs are interchangeable. *)
EXTENDS FiberDriverInvariant, TLC

Symmetry == Permutations(Threads) \cup Permutations(Configs)
============================================================================
