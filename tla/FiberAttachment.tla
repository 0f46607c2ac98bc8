--------------------------- MODULE FiberAttachment ---------------------------
(***************************************************************************)
(* Loading a plugin under a parent fiber (registry.go, start, Dispose and  *)
(* disposeFromParent of fiber.go): several loads of one plugin definition, *)
(* disposals of the fibers they start, and the teardown of the parent.     *)
(*                                                                         *)
(* All fibers of a definition share one runtime record.  A load claims the *)
(* record before it attaches a fiber, so the record leaves the registry    *)
(* only without fibers and without claims.  The fiber occupies an entry in *)
(* the parent's effect tree; the entry's disposer disposes the fiber, and  *)
(* the fiber's own end releases the entry.                                 *)
(*                                                                         *)
(* A goroutine is its stack of calls, a step one critical section, one     *)
(* entry to or exit from a sync.Once.  The entry is that of EffectTree and *)
(* the transition driver that of FiberDriver, both cut down to what        *)
(* attachment needs: a pass either finalizes a disposed fiber or leaves it *)
(* loaded.                                                                 *)
(***************************************************************************)
EXTENDS Integers, Sequences, FiniteSets

CONSTANTS
    Threads,   \* goroutines
    MaxFibers  \* bound: how many loads of the definition are started

ASSUME FibersAssumption == MaxFibers \in Nat

\* A fiber is its position in the order of loads; entries of the parent's
\* tree are released in the opposite order.
Fibers == 1..MaxFibers
Parent == 0

\* A runtime record is the load that created it.
NoRuntime == 0
Runtimes == Fibers

VARIABLES
    loads,        \* number of loads started
    runtime,      \* the record a load claimed
    runtimes,     \* the record the registry holds for the definition
    claims,       \* claims of each record
    attached,     \* the fibers listed by their runtime record
    disposed, busy, dirty,   \* the driver of a fiber
    state,        \* whether a fiber is pending, active or disposed
    slot,         \* parentEffectDisposer: none, a handle or a no-op
    handle,       \* the Disposer tryEffect returned to start
    tree,         \* entries listed by the parent
    installed, deferred, once, handleOnce,   \* the entry and its handle
    parent,       \* the parent is open, closing, unloading or torn
    outcome,      \* what a load returned
    stack         \* the calls each goroutine is in

registry == <<loads, runtime, runtimes, claims, attached, outcome>>
driver == <<disposed, busy, dirty, state>>
links == <<slot, handle>>
entry == <<tree, installed, deferred, once, handleOnce>>
vars == <<registry, driver, links, entry, parent, stack>>

OnceStates == {"new", "running", "done"}
Links == {"none", "handle", "noop"}
Calls == {"load", "runtimeFor", "tryEffect", "discard", "attach", "install",
          "store", "loaded",
          "dispose", "remove", "refresh", "pass", "sync", "finalize", "end",
          "handle", "unlist", "request", "once", "fromParent", "onceDone",
          "teardown", "clear", "sweep"}
Frames == [at : Calls, f : Fibers \cup {Parent}, todo : SUBSET Fibers]

TypeOK ==
    /\ loads \in 0..MaxFibers
    /\ runtime \in [Fibers -> Runtimes \cup {NoRuntime}]
    /\ runtimes \in Runtimes \cup {NoRuntime}
    /\ claims \in [Runtimes -> Nat]
    /\ attached \subseteq Fibers /\ tree \subseteq Fibers
    /\ disposed \in [Fibers -> BOOLEAN] /\ busy \in [Fibers -> BOOLEAN]
    /\ dirty \in [Fibers -> BOOLEAN]
    /\ state \in [Fibers -> {"pending", "active", "disposed"}]
    /\ slot \in [Fibers -> Links] /\ handle \in [Fibers -> Links]
    /\ installed \in [Fibers -> BOOLEAN] /\ deferred \in [Fibers -> BOOLEAN]
    /\ once \in [Fibers -> OnceStates] /\ handleOnce \in [Fibers -> OnceStates]
    /\ parent \in {"open", "closing", "unloading", "torn"}
    /\ outcome \in [Fibers -> {"none", "fiber", "error"}]
    /\ stack \in [Threads -> Seq(Frames)]

Init ==
    /\ loads = 0 /\ runtime = [f \in Fibers |-> NoRuntime]
    /\ runtimes = NoRuntime /\ claims = [r \in Runtimes |-> 0]
    /\ attached = {} /\ tree = {}
    /\ disposed = [f \in Fibers |-> FALSE]
    /\ busy = [f \in Fibers |-> FALSE] /\ dirty = [f \in Fibers |-> FALSE]
    /\ state = [f \in Fibers |-> "pending"]
    /\ slot = [f \in Fibers |-> "none"] /\ handle = [f \in Fibers |-> "none"]
    /\ installed = [f \in Fibers |-> FALSE]
    /\ deferred = [f \in Fibers |-> FALSE]
    /\ once = [f \in Fibers |-> "new"] /\ handleOnce = [f \in Fibers |-> "new"]
    /\ parent = "open"
    /\ outcome = [f \in Fibers |-> "none"]
    /\ stack = [t \in Threads |-> <<>>]

----------------------------------------------------------------------------
Frame(at, f) == [at |-> at, f |-> f, todo |-> {}]
Top(t) == stack[t][Len(stack[t])]
Below(t) == SubSeq(stack[t], 1, Len(stack[t]) - 1)
In(t, at) == stack[t] # <<>> /\ Top(t).at = at

\* Replace the top call by a sequence of calls, the last of which runs first.
Continue(t, calls) == stack' = [stack EXCEPT ![t] = Below(t) \o calls]
Goto(t, at) == Continue(t, <<[Top(t) EXCEPT !.at = at]>>)
Return(t) == Continue(t, <<>>)
Start(t, at, f) == stack' = [stack EXCEPT ![t] = Append(@, Frame(at, f))]

----------------------------------------------------------------------------
(* load. *)

Load(t) ==
    /\ stack[t] = <<>> /\ loads < MaxFibers
    /\ loads' = loads + 1
    /\ Start(t, "load", loads + 1)
    /\ UNCHANGED <<runtime, runtimes, claims, attached, outcome, driver, links,
                   entry, parent>>

Outcome(f, o) == outcome' = [outcome EXCEPT ![f] = o]

\* assertActive refuses a parent that is marked for disposal.
AssertActive(t) ==
    /\ In(t, "load")
    /\ IF parent = "open"
       THEN outcome' = outcome /\ Goto(t, "runtimeFor")
       ELSE Outcome(Top(t).f, "error") /\ Return(t)
    /\ UNCHANGED <<loads, runtime, runtimes, claims, attached, driver, links,
                   entry, parent>>

\* Find or create the record, and claim it.
RuntimeFor(t) ==
    /\ In(t, "runtimeFor")
    /\ LET f == Top(t).f
           r == IF runtimes = NoRuntime THEN f ELSE runtimes
       IN  /\ runtimes' = r
           /\ runtime' = [runtime EXCEPT ![f] = r]
           /\ claims' = [claims EXCEPT ![r] = @ + 1]
    /\ Goto(t, "tryEffect")
    /\ UNCHANGED <<loads, attached, outcome, driver, links, entry, parent>>

\* start: the child entry is published in the parent's tree, or refused by a
\* parent that is disposed or unloading.
TryEffect(t) ==
    /\ In(t, "tryEffect")
    /\ IF parent = "open"
       THEN tree' = tree \cup {Top(t).f} /\ Goto(t, "attach")
       ELSE tree' = tree /\ Goto(t, "discard")
    /\ UNCHANGED <<registry, driver, links, installed, deferred, once,
                   handleOnce, parent>>

\* A record without claims and without fibers leaves the registry.
Unused(r, cs, as) == cs[r] = 0 /\ \A f \in as : runtime[f] # r

\* Mutant: a failed load unregisters a record another load has claimed.
DiscardRuntimeClaimed(t) ==
    /\ In(t, "discard")
    /\ LET f == Top(t).f
           r == runtime[f]
       IN  /\ claims' = [claims EXCEPT ![r] = @ - 1]
           /\ runtimes' = IF \A g \in attached : runtime[g] # r
                          THEN NoRuntime ELSE runtimes
           /\ Outcome(f, "error")
    /\ Return(t)
    /\ UNCHANGED <<loads, runtime, attached, driver, links, entry, parent>>


DiscardRuntime(t) ==
    /\ In(t, "discard")
    /\ LET f == Top(t).f
           r == runtime[f]
       IN  /\ claims' = [claims EXCEPT ![r] = @ - 1]
           /\ runtimes' = IF Unused(r, claims', attached)
                          THEN NoRuntime ELSE runtimes
           /\ Outcome(f, "error")
    /\ Return(t)
    /\ UNCHANGED <<loads, runtime, attached, driver, links, entry, parent>>

\* attachFiber; from here on the fiber is known to others: the plugin event
\* and the registry show it.
AttachFiber(t) ==
    /\ In(t, "attach")
    /\ LET f == Top(t).f IN
       /\ attached' = attached \cup {f}
       /\ claims' = [claims EXCEPT ![runtime[f]] = @ - 1]
    /\ Goto(t, "install")
    /\ UNCHANGED <<loads, runtime, runtimes, outcome, driver, links, entry,
                   parent>>

\* Mutant: a disposal requested while the fiber was attaching is dropped.
SetDisposeDroppingRequest(t) ==
    /\ In(t, "install")
    /\ LET f == Top(t).f IN
       /\ installed' = [installed EXCEPT ![f] = TRUE]
       /\ handle' = [handle EXCEPT ![f] = "handle"]
    /\ Goto(t, "store")
    /\ UNCHANGED <<registry, driver, slot, tree, deferred, once, handleOnce,
                   parent>>

\* setDispose: the entry was requested meanwhile, and is released here, or
\* tryEffect returns its handle.
SetDispose(t) ==
    /\ In(t, "install")
    /\ LET f == Top(t).f IN
       /\ installed' = [installed EXCEPT ![f] = TRUE]
       /\ IF deferred[f]
          THEN /\ handle' = [handle EXCEPT ![f] = "noop"]
               /\ Continue(t, <<Frame("store", f), Frame("request", f)>>)
          ELSE /\ handle' = [handle EXCEPT ![f] = "handle"]
               /\ Goto(t, "store")
    /\ UNCHANGED <<registry, driver, slot, tree, deferred, once, handleOnce,
                   parent>>

\* Mutant: the handle is stored whether or not the fiber was disposed.
StoreHandleAlways(t) ==
    /\ In(t, "store")
    /\ LET f == Top(t).f IN
       /\ slot' = [slot EXCEPT ![f] = handle[f]]
       /\ Continue(t, <<Frame("loaded", f), Frame("refresh", f)>>)
    /\ UNCHANGED <<registry, driver, handle, entry, parent>>

\* Keep the handle, unless the fiber was disposed while it was attaching.
StoreHandle(t) ==
    /\ In(t, "store")
    /\ LET f == Top(t).f IN
       IF disposed[f]
       THEN /\ slot' = slot
            /\ Continue(t, <<Frame("loaded", f), Frame("handle", f)>>)
       ELSE /\ slot' = [slot EXCEPT ![f] = handle[f]]
            /\ Continue(t, <<Frame("loaded", f), Frame("refresh", f)>>)
    /\ UNCHANGED <<registry, driver, handle, entry, parent>>

LoadReturns(t) ==
    /\ In(t, "loaded")
    /\ Outcome(Top(t).f, "fiber")
    /\ Return(t)
    /\ UNCHANGED <<loads, runtime, runtimes, claims, attached, driver, links,
                   entry, parent>>

----------------------------------------------------------------------------
(* Dispose and the transition driver of the fiber. *)

\* A goroutine that knows the fiber disposes it.
DisposeFiber(t, f) ==
    /\ stack[t] = <<>>
    /\ f \in attached /\ ~disposed[f]
    /\ Start(t, "dispose", f)
    /\ UNCHANGED <<registry, driver, links, entry, parent>>

MarkDisposed(t) ==
    /\ In(t, "dispose")
    /\ LET f == Top(t).f IN
       IF disposed[f]
       THEN UNCHANGED <<disposed, dirty>> /\ Return(t)
       ELSE /\ disposed' = [disposed EXCEPT ![f] = TRUE]
            /\ dirty' = [dirty EXCEPT ![f] = TRUE]
            /\ Goto(t, "remove")
    /\ UNCHANGED <<registry, busy, state, links, entry, parent>>

RemoveFiber(t) ==
    /\ In(t, "remove")
    /\ LET f == Top(t).f IN
       /\ attached' = attached \ {f}
       /\ runtimes' = IF Unused(runtime[f], claims, attached')
                      THEN NoRuntime ELSE runtimes
    /\ Goto(t, "refresh")
    /\ UNCHANGED <<loads, runtime, claims, outcome, driver, links, entry,
                   parent>>

BeginTransition(t) ==
    /\ In(t, "refresh")
    /\ LET f == Top(t).f IN
       IF busy[f]
       THEN dirty' = [dirty EXCEPT ![f] = TRUE] /\ busy' = busy /\ Return(t)
       ELSE busy' = [busy EXCEPT ![f] = TRUE] /\ dirty' = dirty
            /\ Goto(t, "pass")
    /\ UNCHANGED <<registry, disposed, state, links, entry, parent>>

BeginPass(t) ==
    /\ In(t, "pass")
    /\ dirty' = [dirty EXCEPT ![Top(t).f] = FALSE]
    /\ Goto(t, "sync")
    /\ UNCHANGED <<registry, disposed, busy, state, links, entry, parent>>

Sync(t) ==
    /\ In(t, "sync")
    /\ LET f == Top(t).f IN
       IF disposed[f]
       THEN state' = state /\ Goto(t, "finalize")
       ELSE state' = [state EXCEPT ![f] = "active"] /\ Goto(t, "end")
    /\ UNCHANGED <<registry, disposed, busy, dirty, links, entry, parent>>

\* finalizeDispose: the first time, release the slot in the parent's tree.
FinalizeDispose(t) ==
    /\ In(t, "finalize")
    /\ LET f == Top(t).f IN
       IF state[f] = "disposed"
       THEN UNCHANGED <<state, slot>> /\ Goto(t, "end")
       ELSE /\ state' = [state EXCEPT ![f] = "disposed"]
            /\ slot' = [slot EXCEPT ![f] = "none"]
            /\ IF slot[f] = "none"
               THEN Goto(t, "end")
               ELSE Continue(t, <<Frame("end", f), Frame("handle", f)>>)
    /\ UNCHANGED <<registry, disposed, busy, dirty, handle, entry, parent>>

EndPass(t) ==
    /\ In(t, "end")
    /\ LET f == Top(t).f IN
       IF dirty[f]
       THEN busy' = busy /\ Goto(t, "pass")
       ELSE busy' = [busy EXCEPT ![f] = FALSE] /\ Return(t)
    /\ UNCHANGED <<registry, disposed, dirty, state, links, entry, parent>>

----------------------------------------------------------------------------
(* The child entry in the parent's tree. *)

\* The handle of the entry, or the no-op of an entry that was released before.
EnterHandle(t) ==
    /\ In(t, "handle")
    /\ LET f == Top(t).f IN
       IF handle[f] = "noop" \/ handleOnce[f] = "done"
       THEN handleOnce' = handleOnce /\ Return(t)
       ELSE /\ handleOnce[f] = "new"
            /\ handleOnce' = [handleOnce EXCEPT ![f] = "running"]
            /\ Continue(t, <<Frame("unlist", f), Frame("request", f)>>)
    /\ UNCHANGED <<registry, driver, links, tree, installed, deferred, once,
                   parent>>

Unlist(t) ==
    /\ In(t, "unlist")
    /\ tree' = tree \ {Top(t).f}
    /\ handleOnce' = [handleOnce EXCEPT ![Top(t).f] = "done"]
    /\ Return(t)
    /\ UNCHANGED <<registry, driver, links, installed, deferred, once, parent>>

RequestDispose(t) ==
    /\ In(t, "request")
    /\ LET f == Top(t).f IN
       IF installed[f]
       THEN deferred' = deferred /\ Goto(t, "once")
       ELSE deferred' = [deferred EXCEPT ![f] = TRUE] /\ Return(t)
    /\ UNCHANGED <<registry, driver, links, tree, installed, once, handleOnce,
                   parent>>

\* releaseOnce.Do: one goroutine runs the disposer, the others wait for it,
\* and a goroutine that already runs it waits for itself.
EnterOnce(t) ==
    /\ In(t, "once")
    /\ LET f == Top(t).f IN
       \/ /\ once[f] = "new"
          /\ once' = [once EXCEPT ![f] = "running"]
          /\ Continue(t, <<Frame("onceDone", f), Frame("fromParent", f)>>)
       \/ once[f] = "done" /\ once' = once /\ Return(t)
    /\ UNCHANGED <<registry, driver, links, tree, installed, deferred,
                   handleOnce, parent>>

\* disposeFromParent forgets the handle of the entry, then disposes the fiber.
DisposeFromParent(t) ==
    /\ In(t, "fromParent")
    /\ slot' = [slot EXCEPT ![Top(t).f] = "none"]
    /\ Goto(t, "dispose")
    /\ UNCHANGED <<registry, driver, handle, entry, parent>>

LeaveOnce(t) ==
    /\ In(t, "onceDone")
    /\ once' = [once EXCEPT ![Top(t).f] = "done"]
    /\ Return(t)
    /\ UNCHANGED <<registry, driver, links, tree, installed, deferred,
                   handleOnce, parent>>

----------------------------------------------------------------------------
(* The teardown of the parent. *)

DisposeParent(t) ==
    /\ stack[t] = <<>>
    /\ parent = "open" /\ parent' = "closing"
    /\ Start(t, "teardown", Parent)
    /\ UNCHANGED <<registry, driver, links, entry>>

SetUnloading(t) ==
    /\ In(t, "teardown")
    /\ parent' = "unloading"
    /\ Goto(t, "clear")
    /\ UNCHANGED <<registry, driver, links, entry>>

Clear(t) ==
    /\ In(t, "clear")
    /\ tree' = {}
    /\ Continue(t, <<[at |-> "sweep", f |-> Parent, todo |-> tree]>>)
    /\ UNCHANGED <<registry, driver, links, installed, deferred, once,
                   handleOnce, parent>>

Newest(S) == CHOOSE f \in S : \A g \in S : g <= f

Sweep(t) ==
    /\ In(t, "sweep")
    /\ LET todo == Top(t).todo IN
       IF todo = {}
       THEN parent' = "torn" /\ Return(t)
       ELSE /\ parent' = parent
            /\ Continue(t, <<[Top(t) EXCEPT !.todo = @ \ {Newest(todo)}],
                             Frame("request", Newest(todo))>>)
    /\ UNCHANGED <<registry, driver, links, entry>>

----------------------------------------------------------------------------
Request(t) ==
    Load(t) \/ DisposeParent(t) \/ \E f \in Fibers : DisposeFiber(t, f)

Proceed(t) ==
    \/ AssertActive(t) \/ RuntimeFor(t) \/ TryEffect(t) \/ DiscardRuntime(t)
    \/ AttachFiber(t) \/ SetDispose(t) \/ StoreHandle(t) \/ LoadReturns(t)
    \/ MarkDisposed(t) \/ RemoveFiber(t) \/ BeginTransition(t) \/ BeginPass(t)
    \/ Sync(t) \/ FinalizeDispose(t) \/ EndPass(t)
    \/ EnterHandle(t) \/ Unlist(t) \/ RequestDispose(t) \/ EnterOnce(t)
    \/ DisposeFromParent(t) \/ LeaveOnce(t)
    \/ SetUnloading(t) \/ Clear(t) \/ Sweep(t)

Next == \E t \in Threads : Request(t) \/ Proceed(t)

Spec == Init /\ [][Next]_vars

----------------------------------------------------------------------------
(* What attachment promises. *)

Quiet == \A t \in Threads : stack[t] = <<>>

\* A load claims the record it found until it attaches a fiber or gives up.
Claimants == {f \in Fibers : \E t \in Threads : \E i \in 1..Len(stack[t]) :
                 /\ stack[t][i].f = f
                 /\ stack[t][i].at \in {"tryEffect", "discard", "attach"}}

\* All fibers and all loads under way of one definition share the record the
\* registry holds, which goes with the last of them: a load that fails cannot
\* unregister the runtime another load is about to use, and leaves no trace of
\* its own (runtimeFor, discardRuntime, removeFiber).
OneRuntime ==
    /\ \A f \in attached \cup Claimants : runtime[f] = runtimes
    /\ \A r \in Runtimes : claims[r] = Cardinality({f \in Claimants : runtime[f] = r})
    /\ runtimes # NoRuntime => attached \cup Claimants # {}

\* No fiber is left behind by its parent: once the parent is torn down and the
\* load has returned, a fiber it handed out is disposed, however the load and
\* the teardown met (start, setDispose).
NoOrphanFiber ==
    parent = "torn" =>
        \A f \in Fibers : outcome[f] = "fiber" =>
            disposed[f] /\ (Quiet => f \notin attached)

\* A fiber that came to its end has left the parent's tree and dropped its
\* handle, whether it, its parent or its own load did the last step
\* (finalizeDispose, start, disposeFromParent).
SlotReleased ==
    Quiet => \A f \in Fibers :
        state[f] = "disposed" => f \notin tree /\ slot[f] = "none"

\* "a parent that is already running the entry must not re-enter the same
\* waitable release" (disposeFromParent): no goroutine enters the releaseOnce
\* of an entry it is already inside of.
NoReentrantRelease ==
    \A t \in Threads :
        In(t, "once") =>
            \A i \in 1..(Len(stack[t]) - 1) :
                ~(stack[t][i].at = "onceDone" /\ stack[t][i].f = Top(t).f)
==============================================================================
