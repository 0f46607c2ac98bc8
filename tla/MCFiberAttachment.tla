-------------------------- MODULE MCFiberAttachment --------------------------
(* FiberAttachment for TLC.  Goroutines are interchangeable. *)
EXTENDS FiberAttachment, TLC

Symmetry == Permutations(Threads)
==============================================================================
