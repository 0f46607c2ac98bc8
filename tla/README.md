# cordis-go in TLA+

cordis-go is a plugin runtime: plugins are loaded under a tree of contexts, declare the
services they need, register side effects, and are loaded, unloaded and reloaded as services
come and go. Every call is synchronous and any goroutine may make it, so almost everything
that can go wrong is an interleaving of critical sections. This directory models those
critical sections, checks them with TLC on small instances, and proves the central results
with TLAPS for every instance.

## Inventory

| Component (source) | State it keeps | Operations | Hard behaviour | Modelled in |
|---|---|---|---|---|
| Transition driver of a fiber (`fiber.go`) | `state`, `epoch`, `live`, `err`, configs, `busy`, `dirty`, `forceReload`, `disposed`, pinned services | `refresh`, `drive`, `sync`, `load`, `reload`, `fail`, `unload`, `Dispose`, `Restart`, `Update` | one owner drains requests that other goroutines leave as markers; the world changes between a decision and its execution; disposal races with loads and failures | `FiberDriver`, `FiberLifecycle`, `FiberDriverInvariant`, `FiberDriverProofs`, `FiberClaims` |
| Effect tree (`disposable.go`, `tryEffect` in `fiber.go`) | the fiber's list, the list of every entry, `running`, `dispose`, `deferred`, two `sync.Once` per effect | register, nest, handle, deferred release, panic, teardown | four parties may release one effect; a release may arrive before there is a disposer; waiting on a `sync.Once` | `EffectTree`, `EffectTreeProofs` |
| Registry and attachment (`registry.go`, `start`, `disposeFromParent`) | runtimes, claims, fibers of a runtime, the handle of the slot in the parent | `load`, `runtimeFor`, `attachFiber`, `discardRuntime`, `removeFiber` | loads of one definition race with each other's failure and with the teardown of the parent | `FiberAttachment`, `FiberAttachmentProofs` |
| Services (`service.go`, `context.go`) | binding per scope label, its value and predicate, dependency snapshots | `provide`, its disposer, `Set`, `ProvideChecked`, `Lookup`, `notify` | a change of a provider travels through any number of fibers on the stack of one goroutine, while other goroutines change the same fibers; a predicate changes its answer in silence; a value is set while its service is withdrawn | `ServiceGraph`, `ServiceGraphInvariant`, `ServiceGraphStepProofs`, `ServiceGraphCoreProofs`, `ServiceGraphProofs`; environment of `FiberDriver` |
| Event bus (`events.go`) | listeners per event, `fired`, `released`, `cleanup`; one step record per waterfall position | `On`, `Emit`, `Bail`, `Parallel`, `Waterfall` | a dispatch runs on a snapshot; a once-listener is retired while it is still being registered; `next` is called again, later or by somebody else; `Parallel` waits for goroutines that register, dispose and dispatch | `EventBus`, `EventBusProofs`, `Waterfall`, `WaterfallProofs` |
| Loader (`loader/loader.go`) | composed tree with an id index; registered plugins; loaded fibers | `Compose`, `Register`, `Tree.Load` | patches address by id nodes that other patches insert, move in front or turn into groups; a failing entry rolls the others back while other goroutines drive and dispose them, and `Dispose` does not wait | `LoaderCompose`, `LoaderTree` |
| Context, `New`, `Serve` (`context.go`) | the context chain, the host context | `New`, `Fork`, `Isolate`, `Serve` | the host cancels while `New` still builds the root; a lifetime ends while `Start` runs | scope labels are constants of `ServiceGraph`; the watcher of `New` and the two effects of `Serve` are effects of `EffectTree` |
| Benchmark gate (`cmd/benchcheck`) | the results of two files | parse, aggregate, compare, report, exit status | repeats, noise, tolerance, missing and renamed benchmarks meet in one verdict | `BenchCheck` |
| Function forms, errors, logger, `loader/dump.go`, `cmd/cordis`, `examples/` | none that matters | adapters, formatting, file I/O | none | not modelled |

How they meet: `Load` attaches a fiber to a runtime record and to the parent's effect tree and
then calls `refresh`. The driver runs the plugin body; the body registers effects, services and
listeners, each of them an entry of the fiber's effect tree. Providing or losing a service makes
`notify` call `refresh` on the fibers that inject it. `unload` releases the tree, which
unregisters services (and notifies), removes listeners and disposes child fibers. No component
has a goroutine of its own, except the watcher of the host context: all of this runs on the
stack of whoever called.

What makes each part correct:

- driver: one owner at a time; effects of two generations never coexist; failure and disposal
  leave nothing behind; disposal wins over everything in flight; no request is lost;
- effect tree: a cleanup runs once; whoever asks for a release returns only when it is complete;
  nothing is out of reach of the next unload; youngest first, owners before what they own;
- attachment: one runtime record per definition while anyone uses it and not longer; no fiber
  outlives its parent; no goroutine waits for itself;
- services: every dependent follows; nobody runs on a released service; dependents go first; what a
  generation was loaded with stays readable while it runs; a `Set` never reaches a service that is gone;
- loader: patches reach the node that `Find` finds; no node is out of reach of patches or of the load without a
  report; a load is all or nothing, in the end if not at once;
- events: once means once, and leaves nothing behind; a waterfall step runs once and has one
  answer; a failing listener is as if it were not there; `Parallel` returns after all it started;
- benchmark gate: status 0 hides no regression, status 1 is no noise, and nothing incomparable is compared.

## Modules

A step of every model is one critical section of the mutex that guards the state it touches
(`Fiber.mu`, `core.mu`, `effectEntry.mu`, `eventBus.mu`, `waterfallStep.mu`), one atomic
operation, or the entry to or exit from a `sync.Once`. Where the code unlocks and locks again,
the model has two actions and any other goroutine may come between. Two steps are merged where what lies between them is
seen by nobody else, or where the second repeats the check of the first with the same outcome.

| Module | What it models | How its state corresponds |
|---|---|---|
| `FiberDriver` | `refresh`, `drive`, `sync`, `load`, `fail`, `reload`, `unload`, `setState`, `Dispose`, `Restart`, `Update` of one fiber that injects one name | the fields of `Fiber`, with the epoch as the sequence number of the binding; `pc`, `target`, `raw`, `cont` are the locals and the return address of a goroutine; `world` is the binding in place, which other fibers change; `bodyEffects`, `unwinding` and `strayEffects` count the effects a body, an unload and other goroutines hold |
| `FiberLifecycle` | the abstract specification: the lifecycle a watcher sees | `state`, `disposed`, and whether effects are held |
| `FiberDriverInvariant` | the inductive invariants of the driver | |
| `FiberDriverProofs` | the theorems about the driver: its safety, the lifecycle it implements, and that no wake-up is lost | |
| `FiberClaims` | a statement of the documentation that the driver does not keep | |
| `EffectTree` | `tryEffect`, `adopt`, `finishBody`, `setDispose`, `abandon`, `detach`, `requestDispose`, `claimDispose`, `releaseOnce`, handles, `clear` | the fields of `effectEntry` as functions of the effect; the lists as sets, since an effect is its position in registration order; a goroutine is its stack of calls |
| `FiberAttachment` | `load`, `runtimeFor`, claims, `start`, `attachFiber`, `discardRuntime`, `removeFiber`, `disposeFromParent` under a parent that is torn down | runtime records, claims, slot and handle of each fiber; the driver is cut down to what attachment needs |
| `ServiceGraph` | several fibers: `provide`, its disposer, `setService`, `updateService`, `available`, `notify`, `notifyProvided`, lookups, `resolveService`, and the driver of every fiber | binding per label (`slot`), all bindings ever made, which of them hold the value of a `Set` (`changed`) and whose predicate fails (`silent`), effect list, epoch and snapshot of each fiber (both are sets of bindings); a goroutine is its stack of calls, so that a notification runs the driver of another fiber on top of the one that caused it |
| `EventBus` | `On`, once-listeners, `Emit`, `Bail`, `Parallel` and their scoped forms, disposers, the fiber's unload | `hooks`, the atomic flags of a listener, its effect entry; `spawned` and `serving` are the wait group of each `Parallel` |
| `Waterfall` | one dispatch: `waterfallStep.call`, `run`, `runFinal`, the listener adapters | `phase`, `result` of each step; what listeners do is a choice: call `next`, call it again, keep it, panic, return |
| `LoaderCompose` | `Compose`: `validateLayer`, `applyBase`, `createNode`, `indexNode`, `applyPatch`, `mergePatch`, `rebuildIndex`, `checkNonGroupChildren` | the nodes in the order of their creation, each with its parent; the index; the warnings as a set; `todo` is what the recursion over nested entries has still to do |
| `LoaderTree` | `Tree.Load`, `loadNodes` and its rollback, `Register`, and the runtime under them: `start`, `refresh`, `Dispose`; extends `LoaderCompose`, so that every tree it loads is a composed one | `created` has every fiber that any entry got from the runtime, each a `FiberLifecycle` with the owner of its transition (`busy`, and by whom) and those who are about to refresh it; `fibers` is the list Load returns or the rollback walks |
| `BenchCheck` | `parseBenchmarkFile`, `normalizeName`, `median`, `compare`, `classify`, the counts of `report`, the exit status of `run` | the lines of each file and what the collectors made of them; percentages and halves are multiplied out, so that the floating-point infinity over a baseline of 0ns is an inequality of naturals |
| `ServiceGraphInvariant` | the parts of the inductive invariant of `ServiceGraph` | |
| `ServiceGraphStepProofs`, `ServiceGraphCoreProofs`, `ServiceGraphProofs` | the theorems about the graph, in three steps that each extend the one before: what an action does to the calls under way; the invariant of calls, bindings and generations; the changes that are on their way | |
| `EffectTreeProofs`, `FiberAttachmentProofs`, `EventBusProofs`, `WaterfallProofs` | the inductive invariant of the module they extend, and the theorems about it; each begins with the lemmas it needs about sequences used as stacks and about the least and the greatest of a set | |

`Serve` registers an effect, provides the service under it, and its cleanup calls `Stop`; a failed `Start`
calls the handle at once. `New` registers an effect that stops the watcher of the host context, and the watcher is a
goroutine that calls `Dispose` whenever the host likes. Both are instances of what `EffectTree` does in every
order: that `Stop` runs before the service is unregistered is `OwnersOrder`, also when the release had to wait for `Start`;
that the watcher is stopped, or never registered, is `TeardownIsComplete`.

The `MC...` modules hold the values TLC needs: symmetry sets, the shape of the graph of `ServiceGraph`, and
the entries and lines that `LoaderTree` and `BenchCheck` read. `ServiceGraph` composes the driver, the effect list of a fiber (without nesting) and the
registry; `FiberAttachment` composes the attachment protocol with the entry of `EffectTree` and a
driver of one pass. They restate what they compose at the grain they need, because the programs
interleave below the level of whole operations. `LoaderTree` needs no
more of a fiber than its lifecycle, and takes the steps of each from an instance of `FiberLifecycle`.

## What the runs check

| Run | Instance | Shows |
|---|---|---|
| `driver_safety` | 3 goroutines, 2 configs, 3 bindings, 1 effect from outside the body | `SingleOwner`, `OneGeneration`, `EffectsUnderGeneration`, `DisposeWins`; `Settled`: when all calls have returned, the fiber is at rest in the state that the registry and the requests call for, with the newest config; `RefinesLifecycle`: every step is a step of `FiberLifecycle`; `SettlingInv`, the inductive invariant behind them, of which `DriverInv` and `TypeOK` are parts |
| `driver_liveness` | 2 goroutines, 1 config, 2 bindings | `DisposeCompletes`; `CallsReturn` once requests stop |
| `tree_safety` | 3 goroutines, 3 effects | `AtMostOnce`, `ReleaseIsComplete`, `TeardownIsComplete`, `NoOrphan`, `OwnersOrder`, `WaitsEnd` |
| `attach_safety` | 3 goroutines, 2 loads | `OneRuntime`, `NoOrphanFiber`, `SlotReleased` |
| `graph` | 2 goroutines, chain of 3 fibers whose first service has a predicate and whose first body may fail, 3 bindings, 2 requests | `Followed`, `NoOrphanService`, `NoStaleGeneration`, `DependentsFirst`; `PinnedReadable`: a running generation reads the one binding it was loaded with; `SetInPlace`: a `Set` changes no service that is gone or left behind; and no deadlock |
| `bus_safety` | 3 goroutines, a once-listener in scope and a plain one out of it, 2 dispatches | `OnceRunsOnce`, `RetiredLeavesNothing`, `BusMatchesTree`, `ParallelJoins`, `WaitsEnd`, and no deadlock |
| `waterfall` | 3 goroutines, 2 listeners, `next` called at most twice by each | `RunsOnce`, `SameAnswer`, `FailureIsTransparent`, `CallsReturn` |
| `loader` | 3 layers over 11 entries, 4 ids, strict or not; any number of other goroutines that refresh, drive and dispose the fibers of a tree of one layer | `IndexIsFind`: patches address what `Find` finds; `NothingSilent`: a node no patch can reach and a child nobody will load is reported; `LoadsTheEnabled`, against a reference definition on paths; `AllOrNothing`: once an entry fails, Load returns and every fiber it created is released in the end, by whoever has it in hand |
| `benchcheck` | files of at most 3 and 2 lines over 9 lines, 16 settings of the flags | `NothingSlips`, `NoFalseAlarm`, `OnlyComparable`: statuses 0, 1 and 2 stated in terms of the lines of the files |

Three more runs each find a behaviour that disagrees with what the repository says (next section).

Every module but `FiberLifecycle` states its type invariant. Those of `FiberDriver`, `EffectTree`, `FiberAttachment`,
`ServiceGraph`, `EventBus` and `Waterfall` are proved as parts of the inductive invariants below.

Bounds, and why they are enough:

- *Goroutines.* A race in these protocols is between an owner, somebody who leaves a marker for it,
  and somebody who undoes the reason: three. Calls that the owner makes from inside a body, a
  disposer or a listener are covered by the other goroutines in `FiberDriver`, since `refresh` never
  blocks; the stack models have them as such. `ServiceGraph` has two, whose stacks grow through
  three fibers; a third multiplies the states beyond use and adds only another marker.
- *`MaxBindings`, `MaxStray`.* Three bindings let a dependency be there, go and come back while a load
  is under way. In `ServiceGraph` a provide beyond the bound fails like the body's own error, so
  e sees a service replaced and loaded again, while a replacement at the head of the chain fails
  at d: the fixed point is checked in both cases.
- *`Checked`.* The service at the head of the chain has a predicate, so its changes travel as far as a change of the
  provider; the other one has none, so both paths of every lookup are taken.
- *`Faulty`.* The body at the head of the chain may return an error of its own; the others fail when a provide is
  refused or is beyond the bound, which takes them along the same path.
- *`InScope`.* One listener is reached by a scoped dispatch, the other by a plain one only.
- *`MaxEffects`.* Three effects give every shape of a tree that matters: nested twice, two siblings
  under an owner, two beside a nested one.
- *`MaxFibers`.* Two loads of one definition are a load and the one it races with.
- *`MaxDispatches`, `MaxNext`.* Two dispatches hold one listener in two snapshots, nested or side by
  side; a second call of `next` is a repeated one.
- *`MaxRequests`* (`ServiceGraph`). The loads are free. Two more calls follow once the last load has been made, while
  any of the loads may still be under way; they are, for instance, a withdrawal and
  a late provide, a `Set` and the withdrawal that overtakes it, a predicate that fails and recovers, or a restart and a disposal. A handle is used only while its service is in place.
- *`MaxLayers`.* Three layers: a group, an entry beside it, and a patch that inserts the same id into the
  group, in front of that entry. The eleven entries are one of each kind the code distinguishes: plain, with
  an injection, without an id, without anything, a group, one that is switched off or regrouped, nested,
  inserting at the top and inside a patch, and one that is refused. The order of two entries in a layer is
  that of two layers of one kind.
- *`MaxDisturbed`, `MaxFibers`.* Others touch the fibers of the trees of one layer; those of the larger trees, which differ for
  `LoadsTheEnabled`, are left to the goroutine of Load. All that counts of the others is that they are not Load, so there are any number of
  them. A tree of one layer has up to two fibers, in a group and outside: one that loaded and one that fails, or
  one that loaded before an entry without a fiber; the rollback is inside one call of `Dispose` while others drive the fiber that is next, or the one before.
- *`MaxBase`, `MaxCurrent`.* Three lines of a baseline are a header between two repeats, or repeats of which the median,
  the fastest and the slowest differ; two of the current run make a median of two. The times are 0, inside and outside of the
  tolerance of each other; one name is printed with and without GOMAXPROCS.

Deadlock is checked in `tree_safety`, `bus_safety`, `waterfall`, `graph`, `graph_scope`, `loader` and `benchcheck`, where a
stuttering `Stop` (`Exited`) is enabled only when every call has returned. It is switched off for the driver,
which has no step that waits (at the bounds nobody is obliged to call again), and for the attachment
runs, where the re-entrant release described below really stops a goroutine.

Fairness. `FairSpec` gives every goroutine that is inside a call weak fairness: Go schedules runnable
goroutines, and plugin bodies, listeners and cleanups are taken to return, as the documentation
demands of them. Nobody is obliged to make a call. In `LoaderTree` these are the goroutine of Load, and of the others whoever is about to
refresh a fiber or owns its transition. Elsewhere whether every
call returns is a matter of safety: `WaitsEnd` of `EffectTree` and of `EventBus` says that among any set of waiting
goroutines one waits for a goroutine that can move, and the other models rely on the deadlock check.

## Where code and documentation differ

- `effects_leak` (`fiber.go:690`): `unload` skips the effect tree of a fiber without a live generation.
  An effect that another goroutine registers on such a fiber, pending or failed, stays in the tree for ever once the fiber is
  disposed, although `doc.go` promises that every side effect is unwound.
- `reentrant_release` (`fiber.go:767`): `disposeFromParent` clears the handle so that the child does not
  re-enter the parent's release, but the load of the child may store the handle afterwards. The
  goroutine that then finalizes the child inside the parent's release enters the same `sync.Once` again
  and waits for itself.
- `graph_scope` (`fiber.go:760`): `notifyProvided` announces services under the label of the fiber's own
  context. A service provided through an isolated context is not announced when its provider becomes
  active, and a dependent in that scope stays pending. The passing graph run therefore has
  bodies that provide in their fiber's own scope.

More differences were met and have no run:

- Load returns its error when the calls of `Dispose` in the rollback have returned, and these do not wait for a goroutine that owns the
  transition of the fiber or has marked it disposed first (`fiber.go:445`, `fiber.go:787`; `fiber.go:780` says so of `Dispose`). The caller,
  who is to see "all-or-nothing instead of a half-loaded tree" (`loader/loader.go:767`), may still find a fiber active or its
  body running. That all of the tree is gone in the end is `AllOrNothing`;
- a goroutine that notifies the fiber between its attachment and the `refresh` of `start` becomes the owner; `Load`
  returns while the fiber is still loading (`fiber.go:207`, against `registry.go:117`);
- a reload clears the error before it knows of another generation (`fiber.go:542`, against `README.md:103`);
- `Dispose` sets the mark before it emits `internal/plugin`, so effects may be unwound by another goroutine before the
  announcement (`fiber.go:795`, `fiber.go:121`);
- a pending or failed fiber is disposed without passing through unloading (`fiber.go:694`, against
  `docs/fiber-recovery-flow.md:149`);
- snapshots are keyed by name (`service.go:85`, `service.go:97`), so a fiber that injects a name and provides it in
  another scope replaces its own pin, and loses it on withdrawal (against `context.go:247`); the graph runs have no such
  fiber, and `PinnedReadable` fails as soon as there is one;
- a pinned service whose predicate fails is looked up in the registry (`context.go:280`), where a replacement may be in
  place, so one generation may read two services of a name; `PinnedReadable` speaks of services whose predicate passes;
- a listener that calls a `next` kept by an earlier listener of the chain, from inside the step it runs, waits for
  itself (`events.go:397`); the models let a kept `next` be called by goroutines outside the chain only;
- `normalizeName` takes any number at the end for GOMAXPROCS (`cmd/benchcheck/main.go:361`), which go test leaves out when it is 1:
  sub-benchmarks such as `size-64` and `size-128` are then merged into one result, which
  `cmd/benchcheck/main.go:298` refuses for packages; `BenchCheck` counts repeats after normalisation.

## What is proved

Every safety invariant the passing runs check about the driver, the effect tree, attachment, the event bus and
waterfalls is proved for any set of goroutines and any bounds, and so are four of the six about the graph of fibers and
services, for any fibers, injections, offers and scopes. Each proof rests on the one
assumption of its module about the constants: `ConstantsAssumption` (`NoConfig` is not a config; the bounds are
naturals), `EffectsAssumption` and `FibersAssumption` (the bound is a natural), `WaterfallAssumption` (the bounds are
naturals; `Nil` is not a value), `BusAssumption` (the bound is a natural; the scope and the once listeners are sets
of listeners; `None` is neither a goroutine nor a listener) and `GraphAssumption` (the fibers and names are finite sets, and
there are names and scopes; what a fiber injects and offers are lists of names, the former without repetition, being the sorted
keys of a map; the bounds are naturals).

Two theorems about the graph assume more of its shape, and say so in their statement, since the code does not keep what
they say otherwise (see the section before). `Apart`: no fiber injects a name that it provides. A fiber that does has its snapshot
entry, which is keyed by the name, replaced by the pin of its own service and lost when that is withdrawn. `Aligned`: a body
provides a service in the scope of its fiber. An announcement of `setState` looks for dependents in that scope only.

The inductive invariants were checked by TLC on the instances of the runs before they were proved. They are not
instance by instance guesses: each says what the code's own comments argue from, namely where every
goroutine is and what it may rely on there.

### The driver (`FiberDriverProofs`)

| Theorem | Statement |
|---|---|
| `TypeCorrect` | `Spec => []TypeOK` |
| `DriverInvariant` | `Spec => []DriverInv` |
| `OneOwner` | `Spec => []SingleOwner` |
| `GenerationsApart` | `Spec => []OneGeneration` |
| `NoEffectsLeft` | `Spec => []EffectsUnderGeneration` |
| `DisposedHoldsNothing` | `Spec => []DisposedIsClean` |
| `DisposeAlwaysWins` | `Spec => DisposeWins` |
| `ImplementsLifecycle` | `Spec => RefinesLifecycle` |
| `SettlingInvariant` | `Spec => []SettlingInv` |
| `NoWakeUpIsLost` | `Spec => []Settled` |

None of the safety properties is inductive: that a body starts on a fiber without effects,
say, follows from where the owner has been, not from the flags. `DriverInv` adds that knowledge, in four
parts. `TypeOK`. `Ownership`: two owners are the same goroutine, and `busy` is set exactly while there is
one; `beginTransition` and the end of `drive` are the only places that touch it. `Phases`: the place
of the owner in the code says what `state`, `live` and `disposed` can be: while it decides, the fiber is
at `Resting`; before `load`, at rest and not live; in the body, live and loading, unless a
disposal keeps `setState` from saying so; while it releases, unloading and not live. Other goroutines disturb this only
by setting `disposed`, which every clause allows for. `Held`: where the effects of the one generation
are: nowhere, under a live generation past the start of its body, or on the way through `clear` and `unwind`.

The actions fall into five groups (requests, calls, driving, loading, unloading); for each part of the
invariant there is a lemma per group with a step per action, and `DriverNext` combines them.
`SingleOwner`, `OneGeneration`, `EffectsUnderGeneration` and `DisposedIsClean` follow from `DriverInv`;
`DisposeWins` and the step simulation of `FiberLifecycle` are proved action by action with `DriverInv`
before and after the step.

`Settled` says what holds when nobody is inside a call, so its invariant has to say what is still on the way
while somebody is. The driver is `Awaited` when a marker is left with an owner, when a goroutine is at the start of a pass, or
when one is on its way to `refresh`. Only `sync` ends that, and it decides on whatever it finds; every other step
keeps the driver awaited, and a call that changes what the owner goes by makes it so. `SettlingInv` adds to `DriverInv`:
a request that is marked is awaited (`Marked`); the disposer has cancelled, removed and announced the fiber by the time it
refreshes (`Disposal`); a disposed fiber is awaited, is being unloaded, or is at its end (`Finishing`); unless the
driver is awaited, the epoch recorded, or the one the owner has resolved, is that of the binding in place, or the owner
is still to resolve it (`Current`); and what the place of the owner says of config, error and epoch
(`Progressing`). With no call under way nothing is awaited, and `Settled` is what remains.

### The models of stacks of calls

In `EffectTree`, `FiberAttachment`, `ServiceGraph`, `EventBus` and `Waterfall` a goroutine is its stack of calls, and a step ends the
top call, lets it go on at another place, or puts calls on top. So their proofs are built alike. A
first group of lemmas says what such a step does to all calls under way: a call on a stack after the step was
there before or has just begun; a call goes on or is the one that ends. The inductive invariant speaks
about calls through a few predicates ("some goroutine is in a call at one of these places for this
effect"), and a lemma per kind of step says how those change; what an action does to the fields of the
effect, fiber or listener it is for then suffices to show that the invariant is kept, since everything about the
others stays as it is. There is a lemma per action, and one that combines them.

`EffectTreeProofs`:

| Theorem | Statement |
|---|---|
| `TreeInvariant` | `Spec => []TreeInv` |
| `EffectsCleanAtMostOnce` | `Spec => []AtMostOnce` |
| `ReleasesAreComplete` | `Spec => []ReleaseIsComplete` |
| `TeardownsAreComplete` | `Spec => []TeardownIsComplete` |
| `NoEffectIsLost` | `Spec => []NoOrphan` |
| `OwnersReleaseInOrder` | `Spec => []OwnersOrder` |
| `EveryWaitEnds` | `Spec => []WaitsEnd` |

`TreeInv` says what each place of a call knows of its effect; that the registration, the disposer, the handle
and the teardown of an effect are in one call at a time; that calls nest, and releases nest with ever younger
effects; that whatever is under way (a running `sync.Once`, a deferred release, a panic) has a call that
finishes it; that an effect that is not released is in the list of its owner, in the hands of a teardown,
or has such a call; and the order of cleanups under an owner. `TeardownIsComplete` takes the least effect that is left: its
owner is older, so it has been released, and nothing is left under a released owner. `WaitsEnd` takes the greatest
effect that a goroutine of the set waits for: whoever holds it up waits, if at all, for a younger one.

`FiberAttachmentProofs`:

| Theorem | Statement |
|---|---|
| `AttachmentInvariant` | `Spec => []AttachInv` |
| `FibersShareRuntime` | `Spec => []OneRuntime` |
| `ParentLeavesNoFiber` | `Spec => []NoOrphanFiber` |
| `EndReleasesSlot` | `Spec => []SlotReleased` |

`AttachInv` says how the fields of a fiber and of its entry go together (`EntriesFit`) and what each place of a call knows of them
and of the parent (`CallsFit`); that a fiber is loaded by one call, removed from its runtime by one call, and the
parent torn down by one (`OneInRole`); that an entry is released for the parent, out of whose list it is by then, or for the
handle, which takes it out afterwards (`Asked`); that a disposer disposes before it returns (`Disposing`). The core is
`AllDriven`: a disposed fiber that is still attached has somebody on the way to `removeFiber`; an entry in the tree has its
load, its handle in the slot, or somebody inside the handle; a fiber handed out is in the tree, in the hands of the teardown,
or its disposal has been asked for; a request that came before the disposer was installed is answered by the load.
`RecordFits` counts the claims of a record as the loads at the places between `runtimeFor` and `attachFiber`.
`NoOrphanFiber` is `AllDriven` read for a parent whose tree is empty and whose teardown has ended.

`EventBusProofs`:

| Theorem | Statement |
|---|---|
| `BusInvariant` | `Spec => []BusInv` |
| `ListenersRunAtMostOnce` | `Spec => []OnceRunsOnce` |
| `RetirementIsComplete` | `Spec => []RetiredLeavesNothing` |
| `BusFollowsTree` | `Spec => []BusMatchesTree` |
| `ParallelWaitsForAll` | `Spec => []ParallelJoins` |
| `EveryWaitOnTheBusEnds` | `Spec => []WaitsEnd` |

`BusInv` is built like `TreeInv`, with listeners for effects: who claims, retires, registers and releases
a listener, and what each knows of `fired`, `released`, `cleanup` and the entry. Three facts make the waits
end: whoever is inside the `sync.Once` of a listener makes no further call, above a call of a handle there is at most the
release, and the groups of `Parallel` wait for goroutines that were started later.

`WaterfallProofs`:

| Theorem | Statement |
|---|---|
| `WaterfallInvariant` | `Spec => []WaterfallInv` |
| `EveryStepRunsOnce` | `Spec => []RunsOnce` |
| `CallersAgree` | `Spec => []SameAnswer` |
| `FailuresAreTransparent` | `Spec => []FailureIsTransparent` |

`WaterfallInv` says that a step that has been started is run by one call of one goroutine, and that the calls on a stack
walk down the chain: a frame runs a later step than the one below it.

### The graph of fibers and services

`ServiceGraphCoreProofs`:

| Theorem | Statement |
|---|---|
| `TypeCorrect` | `Spec => []TypeOK` |
| `SetsInPlace` | `Spec => SetInPlace` |
| `PinnedStaysReadable` | `Apart => (Spec => []PinnedReadable)` |

`ServiceGraphProofs`:

| Theorem | Statement |
|---|---|
| `ReleasedServicesUnused` | `Spec => []NoStaleGeneration` |
| `DependentsUnloadFirst` | `Aligned => (Spec => []DependentsFirst)` |

An action of this model may put any number of calls on a stack (a notification goes to every fiber that injects the
name), so `ServiceGraphStepProofs` first says of each action which calls take the place of the top one, and everything
about the calls under way follows from that. The invariant has four layers, each proved with those before it.

`CoreInv` is `TypeOK` with `CallInv` and `BindInv`. A fiber is driven by one call, which `busy` stands for, and a service is
provided on top of the body of its fiber. A binding is registered by one call and released by one; what each place knows of it
(`CallFacts`); and, the fact nearly everything else rests on, whatever a call has found in a slot, or a fiber holds as its epoch
or snapshot, is in its slot still or has been taken out by its release (`Seen`). `SetInPlace` follows: a value is
written to the binding in the slot, so whoever holds another one of that label holds one that is being released.

`GenerationInv`: a look at the names has found one binding for each name that is not in its queue any more, in the scope of its
fiber (`LookFacts`); a load begins when every name has one (`Resolves`); and the snapshot of a generation has the
binding that each name was resolved to, and no other of that name (`Pinned`, which is where `Apart` is needed). `PinnedReadable`
is then what `Lookup` finds in that snapshot.

`PhaseInv` relates `state` and `live` of a fiber to the place of its driver: an active fiber has a generation until its
driver unloads it, also when another goroutine has disposed it meanwhile.

`CurrentInv` says where the news of a change is. A binding is `Down` when it has left its slot or, if `Aligned`, when its provider is
not active. For every fiber whose epoch has such a binding, and every driver that has found one in its look, the fiber is marked, or
disposed, or going to be looked at again (`Replaces`), or some goroutine is going to tell it (`Told`): above the call that
waits (the release before `unpin`, the unload before `clear`) there is the announcement, the notification for that scope, or the `refresh` of the
very fiber. A step that makes a binding `Down` puts that call on its stack at once; an announcement hands
on to a notification and that to one `refresh` per fiber; a `refresh` starts a pass or leaves a mark. When the waiting call is
the top of its stack again, nothing above it can be telling anybody, so each dependent at rest has let go:
that is `NoStaleGeneration` for a release, and `DependentsFirst` for an unload.

### Only model-checked

- `DisposeCompletes`, both `CallsReturn`, and whatever else depends on fairness: liveness is beyond the prover.
- `Followed` and `NoOrphanService` of `ServiceGraph`. The first is the counterpart of `CurrentInv` for services that come up:
  it needs to know of every name that a pending fiber lacks who will announce it, across predicates that change in silence. The second
  needs where every entry is while a body fails, an unload takes the list and others release what is on it.
- `NoReentrantRelease`, the claim of the run `graph_scope` and that of `effects_leak` are false, so there is nothing to prove.
- `LoaderCompose`, `BenchCheck` and `LoadsTheEnabled`: what they say is about recursion over the nodes of a tree and about folds
  over the lines of a file, which is induction over data, and none of it depends on interleavings.
- `AllOrNothing` of `LoaderTree`, which is liveness. What it takes from the driver is proved: a fiber goes
  through `FiberLifecycle`, and an owner does not lose the marker of a disposal (`NoWakeUpIsLost`).

## What is not modelled

The walk of `resolveService` from a fiber to its parents (the graph's fibers are children of the root, whose snapshot
has none of their names); values of services beyond whether a `Set` changed them; the payload types of events; config
schemas and typed definitions (data); the built-in services that `New` provides; labels, configs, provenance and the
JSON of layers; flags, file errors and the printed report of `benchcheck`. Cleanups that dispose their own owner are
excluded, as the comment on `Disposer` excludes them. The function forms, errors, logger, dumps, the `cordis` command
and the examples keep no state a property could be about.

## Plan

In this order:

1. Proofs: `NoOrphanService` and `Followed` of `ServiceGraph`; `OnlyComparable` of `BenchCheck`.
2. Fibers loaded from the body of another fiber in `ServiceGraph`, with the walk of `resolveService` up to the parent.
