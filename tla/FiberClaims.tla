---------------------------- MODULE FiberClaims ----------------------------
(***************************************************************************)
(* What the documentation says of a fiber and the driver does not keep: a  *)
(* run finds the interleaving in which the code does something else.       *)
(***************************************************************************)
EXTENDS FiberDriver

\* "Every side effect registered through a plugin context ... is unwound ...
\* when the plugin unloads" (doc.go): nothing registered on a fiber is left in
\* its tree once it is disposed.  unload skips the tree of a fiber that holds
\* no live generation.
EveryEffectUnwound == state = "disposed" => strayEffects = 0
============================================================================
