---------------------------- MODULE FiberDriver ----------------------------
(***************************************************************************)
(* The transition driver of one plugin fiber (fiber.go).                   *)
(*                                                                         *)
(* Goroutines call Load, Restart, Update, Dispose and the service registry *)
(* of the application notifies the fiber when the service it injects is    *)
(* provided or withdrawn.  Every one of these calls ends in refresh, and   *)
(* one of the callers becomes the owner of the transition: it drains       *)
(* passes (drive/sync) that load, unload and reload the plugin body, while *)
(* the others leave a rerun marker behind and return.                      *)
(*                                                                         *)
(* A step is one critical section of Fiber.mu, or one call made between    *)
(* two of them.  Calls made by the owner itself from inside the body, a    *)
(* disposer or a status listener find busy set, so they behave as the same *)
(* call made by another goroutine: refresh never blocks.                   *)
(***************************************************************************)
EXTENDS Integers, FiniteSets

CONSTANTS
    Threads,      \* goroutines that may call into the fiber
    Configs,      \* raw configurations handed to Load and Update
    NoConfig,     \* the nil config of a fiber that holds no generation
    MaxBindings,  \* bound: how many service bindings are ever registered
    MaxStray      \* bound: effects registered from outside the body

ASSUME ConstantsAssumption ==
    /\ NoConfig \notin Configs
    /\ MaxBindings \in Nat
    /\ MaxStray \in Nat

(***************************************************************************)
(* A dependency epoch is the sequence number of the binding that the       *)
(* injected name resolves to.  Sequence numbers start at 1, so 0 stands    *)
(* for epochInactive.  A fiber that injects nothing is the one whose world *)
(* never changes.                                                          *)
(***************************************************************************)
Inactive == 0
Epochs == Nat

FiberStates ==
    {"pending", "loading", "active", "failed", "unloading", "disposed"}

VARIABLES
    state, epoch, live, err,      \* the generation the fiber records ...
    config, rawConfig, resolved,  \* ... its config and its resolved binding
    busy, dirty,                  \* a pass is owned; a rerun is requested
    forceReload, disposed,        \* requests consumed by sync
    bodyEffects,                  \* generations whose effects are in the tree
    strayEffects,                 \* effects registered by other goroutines
    unwinding,                    \* generations cleared and not yet released
    cancelled, registered,        \* context cancelled; listed in the registry
    announced,                    \* disposal reported as internal/plugin
    world, bindings,              \* binding in place; bindings ever created
    pc, target, raw, cont         \* goroutines and the locals of an owner

generation == <<state, epoch, live, err, config, rawConfig, resolved>>
driver == <<busy, dirty, forceReload, disposed>>
effects == <<bodyEffects, strayEffects, unwinding>>
plumbing == <<cancelled, registered, announced>>
services == <<world, bindings>>
locals == <<target, raw, cont>>
vars == <<generation, driver, effects, plumbing, services, pc, locals>>

CallPCs == {"attached", "starting", "notify", "begin", "force", "update",
            "cancel", "remove", "announce"}
UnloadPCs == {"unload", "unloading", "clear", "unwind", "unloaded",
              "repending", "finalize"}
LoadPCs == {"load", "loading", "recheck", "giveBack", "gaveBack", "commit",
            "configure", "run", "ran", "activate", "active"}
OwnerPCs == UnloadPCs \cup LoadPCs \cup
            {"pass", "sync", "resolve", "compare", "applyUnload", "applyLoad",
             "reload", "reresolve", "fail", "failed", "setFailed", "end"}
Continuations == {"end", "reload", "failed"}

FlagsOK ==
    /\ live \in BOOLEAN /\ err \in BOOLEAN
    /\ busy \in BOOLEAN /\ dirty \in BOOLEAN
    /\ forceReload \in BOOLEAN /\ disposed \in BOOLEAN
    /\ cancelled \in BOOLEAN /\ registered \in BOOLEAN /\ announced \in BOOLEAN

DataOK ==
    /\ state \in FiberStates
    /\ epoch \in Epochs /\ resolved \in Epochs
    /\ rawConfig \in Configs /\ config \in Configs \cup {NoConfig}
    /\ bodyEffects \in Nat /\ strayEffects \in Nat /\ unwinding \in Nat
    /\ world \in Epochs /\ bindings \in Nat
    /\ pc \in [Threads -> CallPCs \cup OwnerPCs \cup {"idle"}]
    /\ target \in [Threads -> Epochs]
    /\ raw \in [Threads -> Configs \cup {NoConfig}]
    /\ cont \in [Threads -> Continuations]

TypeOK == FlagsOK /\ DataOK

(***************************************************************************)
(* One goroutine has just attached a new fiber (start); nobody else has    *)
(* called into it yet.  The dependency may or may not be there already.    *)
(***************************************************************************)
Init ==
    /\ state = "pending" /\ epoch = Inactive /\ live = FALSE /\ err = FALSE
    /\ config = NoConfig /\ rawConfig \in Configs /\ resolved = Inactive
    /\ busy = FALSE /\ dirty = FALSE /\ forceReload = FALSE /\ disposed = FALSE
    /\ bodyEffects = 0 /\ strayEffects = 0 /\ unwinding = 0
    /\ cancelled = FALSE /\ registered = TRUE /\ announced = FALSE
    /\ world \in {Inactive, 1} /\ bindings = world
    /\ \E loader \in Threads :
         pc = [t \in Threads |-> IF t = loader THEN "attached" ELSE "idle"]
    /\ target = [t \in Threads |-> Inactive]
    /\ raw = [t \in Threads |-> NoConfig]
    /\ cont = [t \in Threads |-> "end"]

Goto(t, to) == pc' = [pc EXCEPT ![t] = to]

\* Mutant: setState without the guard that protects the terminal state.
SetStateUnguarded(s) == state' = s

\* setState: a disposed fiber only moves on to unloading or disposed.
SetState(s) ==
    state' = IF disposed /\ s \notin {"unloading", "disposed"}
             THEN state ELSE s

----------------------------------------------------------------------------
(* The calls that request a transition. *)

\* start, after the child entry is registered with the parent.  A fiber
\* disposed meanwhile is not refreshed: its child entry is released instead.
Attach(t) ==
    /\ pc[t] = "attached"
    /\ Goto(t, IF disposed THEN "idle" ELSE "starting")
    /\ UNCHANGED <<generation, driver, effects, plumbing, services, locals>>

\* registerService: the injected name now resolves to a fresh binding.
Provide(t) ==
    /\ pc[t] = "idle"
    /\ world = Inactive /\ bindings < MaxBindings
    /\ bindings' = bindings + 1 /\ world' = bindings + 1
    /\ Goto(t, "notify")
    /\ UNCHANGED <<generation, driver, effects, plumbing, locals>>

\* unregisterService, or the provider leaving the active state.
Withdraw(t) ==
    /\ pc[t] = "idle"
    /\ world # Inactive
    /\ world' = Inactive
    /\ Goto(t, "notify")
    /\ UNCHANGED <<generation, driver, effects, plumbing, bindings, locals>>

\* notify refreshes the fibers that the registry lists.
Notify(t) ==
    /\ pc[t] = "notify"
    /\ Goto(t, IF registered THEN "begin" ELSE "idle")
    /\ UNCHANGED <<generation, driver, effects, plumbing, services, locals>>

\* Restart: assertActive, then the request in a critical section of its own.
Restart(t) ==
    /\ pc[t] = "idle" /\ ~disposed
    /\ Goto(t, "force")
    /\ UNCHANGED <<generation, driver, effects, plumbing, services, locals>>

ForceReload(t) ==
    /\ pc[t] = "force"
    /\ forceReload' = TRUE
    /\ Goto(t, "begin")
    /\ UNCHANGED <<generation, busy, dirty, disposed, effects, plumbing,
                   services, locals>>

\* Update: the same with a new raw config, which also clears the error.
Update(t) ==
    /\ pc[t] = "idle" /\ ~disposed
    /\ Goto(t, "update")
    /\ UNCHANGED <<generation, driver, effects, plumbing, services, locals>>

ReplaceConfig(t) ==
    /\ pc[t] = "update"
    /\ rawConfig' \in Configs /\ err' = FALSE
    /\ forceReload' = TRUE
    /\ Goto(t, "begin")
    /\ UNCHANGED <<state, epoch, live, config, resolved, busy, dirty, disposed,
                   effects, plumbing, services, locals>>

\* Dispose: mark first, so that a running owner need not wait for the rest.
Dispose(t) ==
    /\ pc[t] = "idle" /\ ~disposed
    /\ disposed' = TRUE /\ dirty' = TRUE
    /\ Goto(t, "cancel")
    /\ UNCHANGED <<generation, busy, forceReload, effects, plumbing, services,
                   locals>>

Cancel(t) ==
    /\ pc[t] = "cancel"
    /\ cancelled' = TRUE
    /\ Goto(t, "remove")
    /\ UNCHANGED <<generation, driver, effects, registered, announced, services,
                   locals>>

RemoveFiber(t) ==
    /\ pc[t] = "remove"
    /\ registered' = FALSE
    /\ Goto(t, "announce")
    /\ UNCHANGED <<generation, driver, effects, cancelled, announced, services,
                   locals>>


Announce(t) ==
    /\ pc[t] = "announce"
    /\ announced' = TRUE
    /\ Goto(t, "begin")
    /\ UNCHANGED <<generation, driver, effects, cancelled, registered, services,
                   locals>>

\* tryEffect on the fiber's own context, by a goroutine that is not the body:
\* the guard is the fiber's only, whatever generation it holds.
RegisterStray(t) ==
    /\ pc[t] = "idle"
    /\ ~disposed /\ state # "unloading"
    /\ strayEffects < MaxStray
    /\ strayEffects' = strayEffects + 1
    /\ UNCHANGED <<generation, driver, bodyEffects, unwinding, plumbing,
                   services, pc, locals>>

\* The handle of such an effect releases it ahead of its fiber.
ReleaseStray(t) ==
    /\ pc[t] = "idle"
    /\ strayEffects > 0
    /\ strayEffects' = strayEffects - 1
    /\ UNCHANGED <<generation, driver, bodyEffects, unwinding, plumbing,
                   services, pc, locals>>

----------------------------------------------------------------------------
(* Ownership of a pass: refresh, beginTransition and the loop of drive. *)

\* Mutant: every caller starts a pass of its own.
BeginTransitionUnowned(t) ==
    /\ pc[t] \in {"begin", "starting"}
    /\ busy' = TRUE /\ Goto(t, "pass")
    /\ UNCHANGED <<generation, dirty, forceReload, disposed, effects, plumbing,
                   services, locals>>

\* Mutant: a caller that finds an owner leaves no marker.
BeginTransitionUnmarked(t) ==
    /\ pc[t] \in {"begin", "starting"}
    /\ busy' = TRUE /\ Goto(t, IF busy THEN "idle" ELSE "pass")
    /\ UNCHANGED <<generation, dirty, forceReload, disposed, effects, plumbing,
                   services, locals>>

\* A caller that finds an owner leaves the rerun marker and returns.
BeginTransition(t) ==
    /\ pc[t] \in {"begin", "starting"}
    /\ IF busy THEN dirty' = TRUE /\ busy' = busy /\ Goto(t, "idle")
               ELSE busy' = TRUE /\ dirty' = dirty /\ Goto(t, "pass")
    /\ UNCHANGED <<generation, forceReload, disposed, effects, plumbing,
                   services, locals>>

\* Mutant: the marker of the previous request is not cleared.
BeginPassKeepingDirty(t) ==
    /\ pc[t] = "pass"
    /\ Goto(t, "sync")
    /\ UNCHANGED <<generation, driver, effects, plumbing, services, locals>>


BeginPass(t) ==
    /\ pc[t] = "pass"
    /\ dirty' = FALSE
    /\ Goto(t, "sync")
    /\ UNCHANGED <<generation, busy, forceReload, disposed, effects, plumbing,
                   services, locals>>

\* Mutant: ownership is released without looking at the marker.
EndPassDroppingDirty(t) ==
    /\ pc[t] = "end"
    /\ busy' = FALSE /\ Goto(t, "idle")
    /\ UNCHANGED <<generation, dirty, forceReload, disposed, effects, plumbing,
                   services, locals>>

\* The end of a pass keeps ownership when a rerun was requested meanwhile;
\* the locals of the pass are gone either way.
EndPass(t) ==
    /\ pc[t] = "end"
    /\ IF dirty THEN busy' = busy /\ Goto(t, "pass")
                ELSE busy' = FALSE /\ Goto(t, "idle")
    /\ target' = [target EXCEPT ![t] = Inactive]
    /\ raw' = [raw EXCEPT ![t] = NoConfig]
    /\ cont' = [cont EXCEPT ![t] = "end"]
    /\ UNCHANGED <<generation, dirty, forceReload, disposed, effects, plumbing,
                   services>>

----------------------------------------------------------------------------
(* sync: decide what this pass has to do. *)

Call(t, to, back) == Goto(t, to) /\ cont' = [cont EXCEPT ![t] = back]

\* Consume the requests: disposal first, then a forced reload.
Sync(t) ==
    /\ pc[t] = "sync"
    /\ forceReload' = FALSE
    /\ IF disposed THEN Call(t, "unload", "end")
       ELSE IF forceReload THEN Call(t, "unload", "reload")
       ELSE Call(t, "resolve", "end")
    /\ UNCHANGED <<generation, busy, dirty, disposed, effects, plumbing,
                   services, target, raw>>

Resolve(t) ==
    /\ pc[t] = "resolve"
    /\ target' = [target EXCEPT ![t] = world]
    /\ Goto(t, "compare")
    /\ UNCHANGED <<generation, driver, effects, plumbing, services, raw, cont>>

\* Mutant: a new epoch is loaded on top of the live generation.
CompareWithoutReload(t) ==
    /\ pc[t] = "compare"
    /\ IF target[t] = epoch THEN Call(t, "end", "end")
       ELSE IF target[t] = Inactive THEN Call(t, "applyUnload", "end")
       ELSE Call(t, "applyLoad", "end")
    /\ UNCHANGED <<generation, driver, effects, plumbing, services, target, raw>>


Compare(t) ==
    /\ pc[t] = "compare"
    /\ IF target[t] = epoch THEN Call(t, "end", "end")
       ELSE IF target[t] = Inactive THEN Call(t, "applyUnload", "end")
       ELSE IF live THEN Call(t, "unload", "reload")
       ELSE Call(t, "applyLoad", "end")
    /\ UNCHANGED <<generation, driver, effects, plumbing, services, target, raw>>

ApplyUnload(t) ==
    /\ pc[t] = "applyUnload"
    /\ epoch' = IF disposed THEN epoch ELSE Inactive
    /\ Goto(t, IF disposed THEN "end" ELSE "unload")
    /\ UNCHANGED <<state, live, err, config, rawConfig, resolved, driver,
                   effects, plumbing, services, locals>>

ApplyLoad(t) ==
    /\ pc[t] = "applyLoad"
    /\ Goto(t, IF disposed THEN "end" ELSE "load")
    /\ UNCHANGED <<generation, driver, effects, plumbing, services, locals>>

\* reload, once the old generation is unloaded: forget it and its error.
Reload(t) ==
    /\ pc[t] = "reload"
    /\ IF disposed
       THEN UNCHANGED <<epoch, err>> /\ Goto(t, "end")
       ELSE epoch' = Inactive /\ err' = FALSE /\ Goto(t, "reresolve")
    /\ UNCHANGED <<state, live, config, rawConfig, resolved, driver, effects,
                   plumbing, services, locals>>

Reresolve(t) ==
    /\ pc[t] = "reresolve"
    /\ target' = [target EXCEPT ![t] = world]
    /\ Goto(t, IF world = Inactive THEN "end" ELSE "load")
    /\ UNCHANGED <<generation, driver, effects, plumbing, services, raw, cont>>

----------------------------------------------------------------------------
(* load: one generation of the plugin body. *)

Load(t) ==
    /\ pc[t] = "load"
    /\ live' = IF disposed THEN live ELSE TRUE
    /\ Goto(t, IF disposed THEN "end" ELSE "loading")
    /\ UNCHANGED <<state, epoch, err, config, rawConfig, resolved, driver,
                   effects, plumbing, services, locals>>

SetLoading(t) ==
    /\ pc[t] = "loading"
    /\ SetState("loading")
    /\ Goto(t, IF disposed THEN "end" ELSE "recheck")
    /\ UNCHANGED <<epoch, live, err, config, rawConfig, resolved, driver,
                   effects, plumbing, services, locals>>

\* binding.live() asks the provider only: a binding that is no longer the one
\* in place passes while its provider is active.
Recheck(t) ==
    /\ pc[t] = "recheck"
    /\ \/ Goto(t, "commit")
       \/ world # target[t] /\ Goto(t, "giveBack")
    /\ UNCHANGED <<generation, driver, effects, plumbing, services, locals>>

GiveBack(t) ==
    /\ pc[t] = "giveBack"
    /\ live' = FALSE /\ epoch' = Inactive
    /\ Goto(t, "gaveBack")
    /\ UNCHANGED <<state, err, config, rawConfig, resolved, driver, effects,
                   plumbing, services, locals>>

\* setState(StatePending), then refresh, which can only mark the rerun: the
\* caller owns the transition.
GaveBack(t) ==
    /\ pc[t] = "gaveBack"
    /\ SetState("pending")
    /\ dirty' = TRUE
    /\ Goto(t, "end")
    /\ UNCHANGED <<epoch, live, err, config, rawConfig, resolved, busy,
                   forceReload, disposed, effects, plumbing, services, locals>>

Commit(t) ==
    /\ pc[t] = "commit"
    /\ epoch' = target[t] /\ resolved' = target[t]
    /\ raw' = [raw EXCEPT ![t] = rawConfig]
    /\ Goto(t, "configure")
    /\ UNCHANGED <<state, live, err, config, rawConfig, driver, effects,
                   plumbing, services, target, cont>>

\* ResolveConfig accepts the raw config or rejects it.
Configure(t) ==
    /\ pc[t] = "configure"
    /\ \/ config' = raw[t] /\ Goto(t, "run")
       \/ config' = config /\ Goto(t, "fail")
    /\ UNCHANGED <<state, epoch, live, err, rawConfig, resolved, driver,
                   effects, plumbing, services, locals>>

\* The body registers its effects; tryEffect refuses a disposed fiber.
RunBody(t) ==
    /\ pc[t] = "run"
    /\ bodyEffects' = IF disposed \/ state = "unloading"
                      THEN bodyEffects ELSE bodyEffects + 1
    /\ Goto(t, "ran")
    /\ UNCHANGED <<generation, driver, strayEffects, unwinding, plumbing,
                   services, locals>>

\* The body returns nil, or an error or a panic.
BodyReturns(t) ==
    /\ pc[t] = "ran"
    /\ Goto(t, "activate") \/ Goto(t, "fail")
    /\ UNCHANGED <<generation, driver, effects, plumbing, services, locals>>

Activate(t) ==
    /\ pc[t] = "activate"
    /\ IF disposed THEN err' = err /\ Call(t, "unload", "end")
                   ELSE err' = FALSE /\ Call(t, "active", "end")
    /\ UNCHANGED <<state, epoch, live, config, rawConfig, resolved, driver,
                   effects, plumbing, services, target, raw>>

SetActive(t) ==
    /\ pc[t] = "active"
    /\ SetState("active")
    /\ Goto(t, "end")
    /\ UNCHANGED <<epoch, live, err, config, rawConfig, resolved, driver,
                   effects, plumbing, services, locals>>

\* Mutant: the error is recorded without unloading the failed generation.
FailWithoutUnload(t) ==
    /\ pc[t] = "fail"
    /\ Call(t, "failed", "end")
    /\ UNCHANGED <<generation, driver, effects, plumbing, services, target, raw>>

\* fail unloads what the body registered, then records the error.
Fail(t) ==
    /\ pc[t] = "fail"
    /\ Call(t, "unload", "failed")
    /\ UNCHANGED <<generation, driver, effects, plumbing, services, target, raw>>

Failed(t) ==
    /\ pc[t] = "failed"
    /\ err' = TRUE
    /\ Goto(t, IF disposed THEN "end" ELSE "setFailed")
    /\ UNCHANGED <<state, epoch, live, config, rawConfig, resolved, driver,
                   effects, plumbing, services, locals>>

SetFailed(t) ==
    /\ pc[t] = "setFailed"
    /\ SetState("failed")
    /\ Goto(t, "end")
    /\ UNCHANGED <<epoch, live, err, config, rawConfig, resolved, driver,
                   effects, plumbing, services, locals>>

----------------------------------------------------------------------------
(* unload: release the current generation, then return to cont. *)

\* A fiber without a live generation skips the unwinding.
Unload(t) ==
    /\ pc[t] = "unload"
    /\ live' = FALSE
    /\ Goto(t, IF live THEN "unloading"
               ELSE IF disposed THEN "finalize" ELSE cont[t])
    /\ UNCHANGED <<state, epoch, err, config, rawConfig, resolved, driver,
                   effects, plumbing, services, locals>>

SetUnloading(t) ==
    /\ pc[t] = "unloading"
    /\ SetState("unloading")
    /\ Goto(t, "clear")
    /\ UNCHANGED <<epoch, live, err, config, rawConfig, resolved, driver,
                   effects, plumbing, services, locals>>

\* Mutant: the tree is released from a snapshot and keeps its entries.
ClearBySnapshot(t) ==
    /\ pc[t] = "clear"
    /\ unwinding' = unwinding + bodyEffects
    /\ Goto(t, "unwind")
    /\ UNCHANGED <<generation, driver, bodyEffects, strayEffects, plumbing,
                   services, locals>>

\* disposables.clear empties the tree; the entries are then released one by
\* one (EffectTree has the detail of that release).
Clear(t) ==
    /\ pc[t] = "clear"
    /\ unwinding' = unwinding + bodyEffects
    /\ bodyEffects' = 0 /\ strayEffects' = 0
    /\ Goto(t, "unwind")
    /\ UNCHANGED <<generation, driver, plumbing, services, locals>>

Unwind(t) ==
    /\ pc[t] = "unwind"
    /\ unwinding' = 0
    /\ Goto(t, "unloaded")
    /\ UNCHANGED <<generation, driver, bodyEffects, strayEffects, plumbing,
                   services, locals>>

Unloaded(t) ==
    /\ pc[t] = "unloaded"
    /\ resolved' = Inactive /\ config' = NoConfig
    /\ Goto(t, IF disposed THEN "finalize" ELSE "repending")
    /\ UNCHANGED <<state, epoch, live, err, rawConfig, driver, effects,
                   plumbing, services, locals>>

Repending(t) ==
    /\ pc[t] = "repending"
    /\ SetState("pending")
    /\ Goto(t, cont[t])
    /\ UNCHANGED <<epoch, live, err, config, rawConfig, resolved, driver,
                   effects, plumbing, services, locals>>

\* disposeOnce makes a second finalizeDispose return at once.  The release of
\* the slot in the parent's tree belongs to the attachment of fibers.
FinalizeDispose(t) ==
    /\ pc[t] = "finalize"
    /\ SetState("disposed")
    /\ Goto(t, cont[t])
    /\ UNCHANGED <<epoch, live, err, config, rawConfig, resolved, driver,
                   effects, plumbing, services, locals>>

----------------------------------------------------------------------------
Request(t) ==
    \/ Provide(t) \/ Withdraw(t) \/ Restart(t) \/ Update(t) \/ Dispose(t)
    \/ RegisterStray(t) \/ ReleaseStray(t)

Calling(t) ==
    \/ Attach(t) \/ Notify(t) \/ ForceReload(t) \/ ReplaceConfig(t)
    \/ Cancel(t) \/ RemoveFiber(t) \/ Announce(t) \/ BeginTransition(t)

Driving(t) ==
    \/ BeginPass(t) \/ EndPass(t) \/ Sync(t) \/ Resolve(t) \/ Compare(t)
    \/ ApplyUnload(t) \/ ApplyLoad(t) \/ Reload(t) \/ Reresolve(t)

Loading(t) ==
    \/ Load(t) \/ SetLoading(t) \/ Recheck(t) \/ GiveBack(t) \/ GaveBack(t)
    \/ Commit(t) \/ Configure(t) \/ RunBody(t) \/ BodyReturns(t)
    \/ Activate(t) \/ SetActive(t) \/ Fail(t) \/ Failed(t) \/ SetFailed(t)

Unloading(t) ==
    \/ Unload(t) \/ SetUnloading(t) \/ Clear(t) \/ Unwind(t) \/ Unloaded(t)
    \/ Repending(t) \/ FinalizeDispose(t)

\* What a goroutine does once it is inside a call.
Proceed(t) == Calling(t) \/ Driving(t) \/ Loading(t) \/ Unloading(t)

Next == \E t \in Threads : Request(t) \/ Proceed(t)

Spec == Init /\ [][Next]_vars

\* Goroutines inside a call are scheduled; nobody is obliged to make a call.
FairSpec == Spec /\ \A t \in Threads : WF_vars(Proceed(t))

----------------------------------------------------------------------------
(* What the driver promises. *)

Owners == {t \in Threads : pc[t] \in OwnerPCs}

\* One goroutine at most runs a transition, and busy says exactly whether one
\* does: "the same Fiber never loads and unloads concurrently" (refresh).
SingleOwner ==
    /\ \A t, u \in Owners : t = u
    /\ busy <=> Owners # {}

\* A body is started only after the effects of the previous generation are
\* released, so effects of two generations never coexist (load, unload).
OneGeneration == bodyEffects + unwinding <= 1

\* Body effects exist only under a live generation or while the owner is on
\* its way to clear them: neither a failed load nor a generation given back
\* leaves effects behind (load, fail, unload).
EffectsUnderGeneration ==
    bodyEffects > 0 =>
        live \/ \E t \in Owners : pc[t] \in {"unloading", "clear"}

\* The terminal state is reached after everything the plugin body registered
\* was released, and it outlives every request still in flight
\* (finalizeDispose, setState).
DisposedIsClean ==
    state = "disposed" =>
        disposed /\ ~live /\ bodyEffects = 0 /\ unwinding = 0

\* Dispose wins: once marked, the fiber only ever moves on to unloading and
\* disposed, whatever an in-flight load, failure or reload goes on to do
\* (setState).
DisposeWins ==
    [][disposed => /\ disposed'
                   /\ state' \in {state, "unloading", "disposed"}
                   /\ state = "disposed" => state' = "disposed"]_vars

Quiet == \A t \in Threads : pc[t] = "idle"

\* The generation a fiber at rest shows for the epoch it recorded.
Consistent ==
    \/ /\ state = "active" /\ live /\ ~err
       /\ resolved = epoch /\ epoch # Inactive /\ config = rawConfig
    \/ /\ state = "pending" /\ epoch = Inactive
       /\ ~live /\ bodyEffects = 0 /\ resolved = Inactive /\ config = NoConfig
    \/ /\ state = "failed"
       /\ ~live /\ bodyEffects = 0 /\ resolved = Inactive /\ config = NoConfig

\* No wake-up is lost: when every call has returned, the fiber has caught up
\* with the service registry and with every request made of it, in whatever
\* order the notifications, restarts, updates and the disposal met the owner
\* (refresh, drive, sync, load).
Settled ==
    Quiet =>
        /\ ~busy /\ ~dirty /\ ~forceReload
        /\ IF disposed
           THEN state = "disposed" /\ cancelled /\ ~registered /\ announced
           ELSE epoch = world /\ Consistent

----------------------------------------------------------------------------
(* Liveness. *)

\* A disposed fiber reaches its terminal state, whichever goroutine ends up
\* driving it and however many requests keep arriving (Dispose, drive).
DisposeCompletes == disposed ~> (state = "disposed")

\* If requests stop arriving, every call returns: the owner does not keep
\* running passes on its own (drive, load).
CallsReturn == (<>[][\A t \in Threads : ~Request(t)]_vars) => <>[]Quiet

----------------------------------------------------------------------------
(* The lifecycle the driver implements. *)

Lifecycle == INSTANCE FiberLifecycle WITH held <- bodyEffects + unwinding > 0

\* Every step of every interleaving is a step of the documented lifecycle or
\* leaves it unchanged (setState, load, unload, finalizeDispose).
RefinesLifecycle == Lifecycle!Spec
============================================================================
