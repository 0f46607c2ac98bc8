--------------------------- MODULE MCServiceGraph ---------------------------
(* ServiceGraph for TLC: p provides db, d injects db and provides api, e   *)
(* injects api.  Each name has its own scope label in the fibers' contexts.  *)
EXTENDS ServiceGraph

CONSTANTS p, d, e, db, api, here, there

ChainInject == (p :> <<>>) @@ (d :> <<db>>) @@ (e :> <<api>>)
ChainOffers == (p :> <<db>>) @@ (d :> <<api>>) @@ (e :> <<>>)
Shared == [f \in Fibers |-> [n \in Names |-> IF n = db THEN here ELSE there]]
Symmetry == Permutations(Threads)

\* The body of p provides db through a context that isolates the name (there),
\* and d was loaded from a context with the same label.
IsolatedInject == (p :> <<>>) @@ (d :> <<db>>)
IsolatedOffers == (p :> <<db>>) @@ (d :> <<>>)
IsolatedScope == (p :> [n \in Names |-> here]) @@ (d :> [n \in Names |-> there])
IsolatedPlace == [f \in Fibers |-> [n \in Names |-> there]]
=============================================================================
