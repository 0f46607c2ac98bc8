---------------------------- MODULE MCEffectTree ----------------------------
(* EffectTree for TLC.  Goroutines are interchangeable. *)
EXTENDS EffectTree, TLC

Symmetry == Permutations(Threads)
=============================================================================
