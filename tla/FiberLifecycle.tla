--------------------------- MODULE FiberLifecycle ---------------------------
(***************************************************************************)
(* What a fiber promises to whoever watches it: the lifecycle of README's  *)
(* "Fiber" section and of the state constants in fiber.go, without         *)
(* goroutines, epochs, requests or critical sections.                      *)
(*                                                                         *)
(* held says that effects of a plugin body are registered or still being   *)
(* released.  They are acquired only while loading and released only while *)
(* unloading, one generation after the other, and never past disposed.     *)
(***************************************************************************)
VARIABLES state, disposed, held

vars == <<state, disposed, held>>

Init == state = "pending" /\ disposed = FALSE /\ held = FALSE

\* Disposal is requested at any time and never revoked.
RequestDisposal ==
    /\ ~disposed /\ disposed' = TRUE
    /\ UNCHANGED <<state, held>>

BeginLoad ==
    /\ ~disposed /\ ~held
    /\ state \in {"pending", "failed"} /\ state' = "loading"
    /\ UNCHANGED <<disposed, held>>

Acquire ==
    /\ ~disposed /\ state = "loading"
    /\ ~held /\ held' = TRUE
    /\ UNCHANGED <<state, disposed>>

\* The provider went away between the decision to load and the body.
GiveBack ==
    /\ ~disposed /\ ~held
    /\ state = "loading" /\ state' = "pending"
    /\ UNCHANGED <<disposed, held>>

Activate ==
    /\ ~disposed
    /\ state = "loading" /\ state' = "active"
    /\ UNCHANGED <<disposed, held>>

\* A load that disposal interrupts is unwound from the state it had reached.
BeginUnload ==
    /\ \/ state \in {"loading", "active"}
       \/ disposed /\ state \in {"pending", "failed"}
    /\ state' = "unloading"
    /\ UNCHANGED <<disposed, held>>

Release ==
    /\ state = "unloading"
    /\ held /\ held' = FALSE
    /\ UNCHANGED <<state, disposed>>

Rest ==
    /\ ~disposed /\ ~held
    /\ state = "unloading" /\ state' = "pending"
    /\ UNCHANGED <<disposed, held>>

Fail ==
    /\ ~disposed /\ ~held
    /\ state = "pending" /\ state' = "failed"
    /\ UNCHANGED <<disposed, held>>

Finalize ==
    /\ disposed /\ ~held
    /\ state \notin {"active", "disposed"} /\ state' = "disposed"
    /\ UNCHANGED <<disposed, held>>

Next ==
    \/ RequestDisposal \/ BeginLoad \/ Acquire \/ GiveBack \/ Activate
    \/ BeginUnload \/ Release \/ Rest \/ Fail \/ Finalize

Spec == Init /\ [][Next]_vars
=============================================================================
