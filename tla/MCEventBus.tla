----------------------------- MODULE MCEventBus -----------------------------
(* EventBus for TLC.  Goroutines are interchangeable. *)
EXTENDS EventBus, TLC

Symmetry == Permutations(Threads)
=============================================================================
