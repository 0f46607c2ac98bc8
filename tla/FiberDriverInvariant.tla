------------------------ MODULE FiberDriverInvariant ------------------------
(***************************************************************************)
(* The inductive invariant of the driver: what the place the owner of a    *)
(* transition has reached says about the generation the fiber records and  *)
(* about the effects of its body.                                          *)
(***************************************************************************)
EXTENDS FiberDriver

\* Goroutine t owns the transition.
Owning(t) == pc[t] \in OwnerPCs

\* SingleOwner without the set of owners.
Ownership ==
    /\ \A t, u \in Threads : Owning(t) /\ Owning(u) => t = u
    /\ busy <=> \E t \in Threads : Owning(t)

\* What an interrupted load leaves: disposal keeps setState from reporting it.
Loaded ==
    \/ state = "loading"
    \/ disposed /\ state \in {"pending", "failed"}

Unloadable == Loaded \/ state = "active"

\* Between transitions a live generation is active, or the disposal cut its
\* load short; without one the fiber waits, has failed or is being disposed.
Resting ==
    IF live THEN state = "active" \/ (disposed /\ Loaded)
            ELSE state # "active" /\ (disposed \/ state \in {"pending", "failed"})

DecidingPCs == {"pass", "sync", "resolve", "compare", "applyUnload", "end"}
StartingPCs == {"applyLoad", "reload", "reresolve", "load"}
BodyPCs == {"recheck", "giveBack", "commit", "configure", "run", "ran",
            "activate", "active", "fail"}
ReleasingPCs == {"clear", "unwind", "unloaded", "repending"}
FailedPCs == {"failed", "setFailed"}

\* The pcs of a load that has registered nothing yet.
EmptyPCs == {"loading", "recheck", "giveBack", "commit", "configure", "run"}

\* What the place an owner has reached says of the generation.
Phase(t) ==
    /\ pc[t] \in DecidingPCs => Resting
    /\ pc[t] \in StartingPCs => Resting /\ ~live
    /\ pc[t] = "applyUnload" => cont[t] # "failed"
    /\ pc[t] = "loading" => live /\ state \in {"pending", "failed"}
    /\ pc[t] \in BodyPCs => live /\ Loaded
    /\ pc[t] = "gaveBack" => ~live /\ Loaded
    /\ pc[t] = "unload" =>
         IF live THEN Unloadable ELSE Resting /\ cont[t] # "failed"
    /\ pc[t] = "unloading" => ~live /\ Unloadable
    /\ pc[t] \in ReleasingPCs => ~live /\ state = "unloading"
    /\ pc[t] = "finalize" => ~live /\ disposed /\ state # "active"
    /\ pc[t] \in FailedPCs =>
         ~live /\ state # "active" /\ (disposed \/ state = "pending")

Phases ==
    /\ \A t \in Threads : Phase(t)
    /\ Resting \/ \E t \in Threads : Owning(t)
    /\ state = "disposed" => disposed

\* Where the effects of the one generation can be.
Held ==
    /\ \/ bodyEffects = 0
       \/ bodyEffects = 1 /\ unwinding = 0
    /\ bodyEffects = 1 =>
         \/ live /\ \A t \in Threads : pc[t] \notin EmptyPCs
         \/ \E t \in Threads : pc[t] \in {"unloading", "clear"}
    /\ unwinding = 0 \/ unwinding = 1
    /\ unwinding = 1 => \E t \in Threads : pc[t] = "unwind"

\* The place of the owner, the recorded generation and the effects of the body
\* agree in every reachable state (drive, sync, load, fail, unload).  This is
\* the inductive invariant behind the safety properties of FiberDriver.
DriverInv == TypeOK /\ Ownership /\ Phases /\ Held
----------------------------------------------------------------------------
(***************************************************************************)
(* Why no wake-up is lost: whatever the owner has not looked at yet, it or *)
(* a caller on its way to refresh is still going to look at.               *)
(***************************************************************************)

\* Goroutine t will call refresh.  Disposal makes the first refresh of a load
\* and a notification stop short, and then the disposer is on its way.
Coming(t) ==
    \/ pc[t] \in {"starting", "force", "update", "cancel", "remove", "announce",
                  "begin"}
    \/ ~disposed /\ pc[t] \in {"attached", "notify"}

\* Another pass is certain to decide on what it finds.
Awaited ==
    \/ busy /\ dirty
    \/ \E t \in Threads : Coming(t) \/ pc[t] \in {"pass", "sync"}

\* A request that is still marked will be looked at.
Marked == dirty \/ forceReload => Awaited

\* How far the disposer has come, and what it has done by then.
Disposal ==
    /\ ~registered => disposed
    /\ \A t \in Threads : pc[t] \in {"cancel", "remove"} => disposed
    /\ disposed =>
         \/ \E t \in Threads : pc[t] = "cancel"
         \/ cancelled /\ \E t \in Threads : pc[t] = "remove"
         \/ cancelled /\ ~registered /\ \E t \in Threads : pc[t] = "announce"
         \/ cancelled /\ ~registered /\ announced

\* The pcs of an unload that a disposal ends in finalizeDispose.
FinishingPCs == {"unload", "unloading", "clear", "unwind", "unloaded", "finalize"}

Finishing ==
    disposed =>
        \/ Awaited \/ state = "disposed"
        \/ \E t \in Threads : pc[t] \in FinishingPCs

\* The owner goes by the epoch it has resolved ...
TargetPCs == {"compare", "applyUnload", "applyLoad", "load", "loading", "recheck",
              "commit"}

\* ... or is going to resolve the epoch, in this pass or in another.
Looking(t) ==
    \/ pc[t] \in {"resolve", "reload", "reresolve", "giveBack", "gaveBack"}
    \/ pc[t] \in UnloadPCs /\ cont[t] = "reload"

\* Unless another pass is coming, the epoch recorded or about to be recorded
\* is that of the binding in place.
Current ==
    disposed \/ Awaited \/
        /\ \A t \in Threads : pc[t] \in TargetPCs => target[t] = world
        /\ \/ epoch = world
           \/ \E t \in Threads : pc[t] \in TargetPCs \/ Looking(t)

Unresolved == resolved = Inactive /\ config = NoConfig
Down == state \in {"pending", "failed"} /\ ~live /\ Unresolved
Resolved == resolved = epoch /\ epoch # Inactive
Configured(c) == c = rawConfig \/ forceReload

\* Consistent, but for a config that Update has just replaced.
Settling ==
    \/ state = "active" /\ live /\ ~err /\ Resolved /\ Configured(config)
    \/ Down /\ (state = "failed" \/ epoch = Inactive)

\* What the place an owner has reached says of the config and the epochs.
Progress(t) ==
    /\ pc[t] \in DecidingPCs => Settling
    /\ pc[t] = "applyUnload" => target[t] = Inactive /\ cont[t] = "end"
    /\ pc[t] \in StartingPCs \cup FailedPCs => Down
    /\ pc[t] \in {"applyLoad", "load", "loading", "recheck", "commit"} =>
         target[t] # Inactive
    /\ pc[t] \in {"loading", "recheck", "giveBack", "gaveBack"} => Unresolved
    /\ pc[t] \in {"reresolve", "gaveBack"} => epoch = Inactive
    /\ pc[t] \in {"configure", "run", "ran", "activate", "active"} => Resolved
    /\ pc[t] = "configure" => Configured(raw[t])
    /\ pc[t] \in {"run", "ran", "activate", "active"} => Configured(config)
    /\ pc[t] = "active" => ~err
    /\ pc[t] \in UnloadPCs /\ cont[t] = "end" => epoch = Inactive
    /\ pc[t] = "unload" => live \/ Down
    /\ pc[t] = "repending" => Unresolved

Progressing ==
    disposed \/
        /\ \A t \in Threads : Progress(t)
        /\ Settling \/ \E t \in Threads : Owning(t)

\* Everything asked of the driver is done or will be looked at: the inductive
\* invariant behind Settled (refresh, drive, sync, load).
SettlingInv ==
    DriverInv /\ Marked /\ Disposal /\ Finishing /\ Current /\ Progressing
=============================================================================
