---------------------------- MODULE ServiceGraph ----------------------------
(***************************************************************************)
(* Fibers that provide services to each other (service.go, fiber.go).      *)
(*                                                                         *)
(* A service is registered under the scope label that the registering      *)
(* context gives its name; a fiber resolves what it injects under the      *)
(* labels of its own context.  A fiber that becomes active, stops being    *)
(* active, provides late or withdraws refreshes the fibers that inject the *)
(* name in that scope, on the stack of the goroutine that made the change: *)
(* an unload of a provider unloads its dependents, and theirs.             *)
(*                                                                         *)
(* A step is one critical section of core.mu or of a Fiber.mu.  The        *)
(* transition driver of every fiber is the one of FiberDriver, without the *)
(* config and the error, which no other fiber sees.                        *)
(*                                                                         *)
(* A service may be provided with a predicate, which hides it while it     *)
(* fails.  The predicate changes its answer without telling anybody; one   *)
(* that panics counts as failing.                                          *)
(***************************************************************************)
EXTENDS Integers, FiniteSets, SequencesExt

CONSTANTS
    Threads, Fibers, Names, Labels,
    Inject,       \* the names each fiber injects, in order
    Offers,       \* the names the body of each fiber provides, in order
    Scope,        \* isolateLabel of each name in the fiber's own context
    Place,        \* ... and in the context through which its body provides it
    Checked,      \* names that are provided with a predicate
    Faulty,       \* fibers whose body may return an error of its own
    MaxBindings,  \* bound: how many bindings are ever created
    MaxRequests   \* bound: calls made from outside, besides the loads

\* A plugin's injected names are a set; the order is that of the sorted keys.
ASSUME GraphAssumption ==
    /\ IsFiniteSet(Fibers) /\ IsFiniteSet(Names) /\ Names # {} /\ Labels # {}
    /\ Inject \in [Fibers -> Seq(Names)] /\ Offers \in [Fibers -> Seq(Names)]
    /\ \A f \in Fibers : IsInjective(Inject[f])
    /\ Scope \in [Fibers -> [Names -> Labels]]
    /\ Place \in [Fibers -> [Names -> Labels]]
    /\ Checked \subseteq Names /\ Faulty \subseteq Fibers
    /\ MaxBindings \in Nat /\ MaxRequests \in Nat

VARIABLES
    slot, made,                    \* binding per label; bindings ever created
    silent, wavered,               \* bindings whose predicate fails, or once did
    changed,                       \* bindings that hold the value of a Set
    entries,                       \* effect list of each fiber
    installed, deferred, once,     \* effect entry of each binding
    stray,                         \* bindings no generation will release
    attached, state, epoch, live, pinned,       \* fields of each fiber
    busy, dirty, forceReload, disposed,
    loaded, requests,              \* calls made from outside
    stack                          \* the calls each goroutine is in

services == <<silent, wavered, changed>>
registry == <<slot, made, services>>
effects == <<entries, installed, deferred, once, stray>>
generation == <<state, epoch, live, pinned>>
driver == <<busy, dirty, forceReload, disposed>>
calls == <<loaded, requests>>
vars == <<registry, effects, attached, generation, driver, calls, stack>>

\* Bindings are numbered in the order of their creation.  An epoch, like the
\* snapshot of a generation, is a set of bindings; epochInactive and the nil
\* snapshot are a set that no resolution returns.
Bindings == 1..MaxBindings
Vacant == 0
Inactive == {Vacant}
Epochs == (SUBSET Bindings) \cup {Inactive}

FiberStates ==
    {"pending", "loading", "active", "failed", "unloading", "disposed"}
Places ==
    {"force", "remove", "begin", "pass", "sync", "fetch", "check",
     "applyUnload", "reload", "load", "loading", "recheck",
     "giveBack", "gaveBack", "run", "activate", "active", "fail",
     "failed", "unload", "unloading", "clear", "unwind",
     "repending", "finalize", "end", "names", "notify",
     "probe", "reprobe", "update",
     "provide", "register", "refused", "pin", "tell", "install",
     "unlist", "request", "once", "unregister", "unpin"}
Frames ==
    [at : Places, f : Fibers, b : Bindings \cup {Vacant},
     name : Names, label : Labels,
     todo : SUBSET Bindings,
     queue : Seq(Names), got : SUBSET Bindings,
     cont : Places]

Provided(f) == {made[slot[l]].name : l \in {k \in Labels :
                    slot[k] # Vacant /\ made[slot[k]].provider = f}}

TypeOK ==
    /\ slot \in [Labels -> Bindings \cup {Vacant}]
    /\ made \in Seq([provider : Fibers, name : Names, label : Labels])
    /\ entries \in [Fibers -> Seq(Bindings)]
    /\ \A f \in Fibers : IsInjective(entries[f])
    /\ \A S \in {installed, deferred, stray, silent, wavered, changed} :
         S \subseteq Bindings
    /\ once \in [Bindings -> {"new", "running", "done"}]
    /\ attached \subseteq Fibers /\ loaded \subseteq Fibers
    /\ state \in [Fibers -> FiberStates]
    /\ epoch \in [Fibers -> Epochs] /\ pinned \in [Fibers -> Epochs]
    /\ \A g \in {live, busy, dirty, forceReload, disposed} :
         g \in [Fibers -> BOOLEAN]
    /\ requests \in 0..MaxRequests
    /\ stack \in [Threads -> Seq(Frames)]

None == [f \in Fibers |-> FALSE]

Init ==
    /\ slot = [l \in Labels |-> Vacant] /\ made = <<>>
    /\ silent = {} /\ wavered = {} /\ changed = {}
    /\ entries = [f \in Fibers |-> <<>>]
    /\ installed = {} /\ deferred = {} /\ stray = {}
    /\ once = [b \in Bindings |-> "new"]
    /\ attached = {} /\ state = [f \in Fibers |-> "pending"]
    /\ epoch = [f \in Fibers |-> Inactive]
    /\ pinned = [f \in Fibers |-> Inactive]
    /\ live = None /\ busy = None /\ dirty = None
    /\ forceReload = None /\ disposed = None
    /\ loaded = {} /\ requests = 0
    /\ stack = [t \in Threads |-> <<>>]

----------------------------------------------------------------------------
(* Stacks. *)

Frame(at, f) ==
    [at |-> at, f |-> f, b |-> Vacant,
     name |-> CHOOSE n \in Names : TRUE, label |-> CHOOSE l \in Labels : TRUE,
     todo |-> {}, queue |-> <<>>, got |-> {}, cont |-> "end"]

Notification(f, n, l) == [Frame("notify", f) EXCEPT !.name = n, !.label = l]

Top(t) == stack[t][Len(stack[t])]
Self(t) == Top(t).f
In(t, at) == stack[t] # <<>> /\ Top(t).at = at

\* Replace the top call by a sequence of calls, the last of which runs first.
Continue(t, frames) == stack' = [stack EXCEPT ![t] = Front(@) \o frames]
Become(t, frame) == Continue(t, <<frame>>)
At(t, at) == [Top(t) EXCEPT !.at = at]
Goto(t, at) == Become(t, At(t, at))
\* ... without the locals of what it has done so far.
Afresh(t, at) == Become(t, Frame(at, Self(t)))
Return(t) == Continue(t, <<>>)
Enter(t, frame) == stack' = [stack EXCEPT ![t] = <<frame>>]

----------------------------------------------------------------------------
(* Calls from outside. *)

Idle(t) == stack[t] = <<>>

\* Bound: the other calls are made once the last load has been, while the loads
\* may still be under way.
Asked ==
    /\ loaded = Fibers /\ requests < MaxRequests
    /\ requests' = requests + 1

\* Load, once the fiber is attached to its runtime and its parent.
Load(t, f) ==
    /\ Idle(t) /\ f \notin loaded
    /\ loaded' = loaded \cup {f} /\ attached' = attached \cup {f}
    /\ Enter(t, Frame("begin", f))
    /\ UNCHANGED <<registry, effects, generation, driver, requests>>

Restart(t, f) ==
    /\ Idle(t) /\ Asked /\ f \in loaded /\ ~disposed[f]
    /\ Enter(t, Frame("force", f))
    /\ UNCHANGED <<registry, effects, attached, generation, driver, loaded>>

ForceReload(t) ==
    /\ In(t, "force")
    /\ forceReload' = [forceReload EXCEPT ![Self(t)] = TRUE]
    /\ Goto(t, "begin")
    /\ UNCHANGED <<registry, effects, attached, generation, busy, dirty,
                   disposed, calls>>

Dispose(t, f) ==
    /\ Idle(t) /\ Asked /\ f \in loaded /\ ~disposed[f]
    /\ disposed' = [disposed EXCEPT ![f] = TRUE]
    /\ dirty' = [dirty EXCEPT ![f] = TRUE]
    /\ Enter(t, Frame("remove", f))
    /\ UNCHANGED <<registry, effects, attached, generation, busy, forceReload,
                   loaded>>

RemoveFiber(t) ==
    /\ In(t, "remove")
    /\ attached' = attached \ {Self(t)}
    /\ Goto(t, "begin")
    /\ UNCHANGED <<registry, effects, generation, driver, calls>>

\* A goroutine of the body provides again what was withdrawn.
ProvideAgain(t, f, n) ==
    /\ Idle(t) /\ Asked /\ state[f] = "active" /\ n \in ToSet(Offers[f])
    /\ Enter(t, [Frame("provide", f) EXCEPT !.name = n])
    /\ UNCHANGED <<registry, effects, attached, generation, driver, loaded>>

\* The handle that provide returned.
Withdraw(t, b) ==
    /\ Idle(t) /\ Asked /\ b \in installed \ deferred /\ once[b] = "new"
    /\ LET f == made[b].provider IN
       stack' = [stack EXCEPT ![t] =
           <<[Frame("unlist", f) EXCEPT !.b = b],
             [Frame("request", f) EXCEPT !.b = b]>>]
    /\ UNCHANGED <<registry, effects, attached, generation, driver, loaded>>

\* setService: the binding under the label, if it is the fiber's own.
Set(t, f, n) ==
    /\ Idle(t) /\ Asked /\ n \in ToSet(Offers[f])
    /\ LET b == slot[Place[f][n]] IN
       /\ b # Vacant /\ made[b].name = n /\ made[b].provider = f
       /\ Enter(t, [Frame("update", f) EXCEPT !.b = b])
    /\ UNCHANGED <<registry, effects, attached, generation, driver, loaded>>

\* Mutant: the value is written without another look at the registry.
UpdateLookedUp(t) ==
    /\ In(t, "update")
    /\ LET b == Top(t).b IN
       /\ changed' = changed \cup {b}
       /\ Become(t, Notification(Self(t), made[b].name, made[b].label))
    /\ UNCHANGED <<slot, made, silent, wavered, effects, attached, generation,
                   driver, calls>>

\* updateService: only a binding that is still in place takes the value, and
\* its dependents are told; otherwise Set returns an error.
Update(t) ==
    /\ In(t, "update")
    /\ LET b == Top(t).b IN
       IF slot[made[b].label] = b
       THEN /\ changed' = changed \cup {b}
            /\ Become(t, Notification(Self(t), made[b].name, made[b].label))
       ELSE changed' = changed /\ Return(t)
    /\ UNCHANGED <<slot, made, silent, wavered, effects, attached, generation,
                   driver, calls>>

\* The answer of a predicate changes: an event of the world, on no stack.
Waver(b) ==
    /\ Asked /\ b \in DOMAIN made /\ made[b].name \in Checked
    /\ silent' = SymDiff(silent, {b}) /\ wavered' = wavered \cup {b}
    /\ UNCHANGED <<slot, made, changed, effects, attached, generation, driver,
                   loaded, stack>>

----------------------------------------------------------------------------
(* notify: refresh the fibers that inject a name in a scope. *)

\* Make one call for each member of S, in any order, in place of the top call.
ForEach(t, S, Call(_)) ==
    \E order \in SetToSeqs(S) : Continue(t, [i \in DOMAIN order |-> Call(order[i])])

Notify(t) ==
    /\ In(t, "notify")
    /\ LET n == Top(t).name
           Begin(f) == Frame("begin", f)
       IN  ForEach(t, {f \in attached : n \in ToSet(Inject[f])
                                        /\ Scope[f][n] = Top(t).label}, Begin)
    /\ UNCHANGED <<registry, effects, attached, generation, driver, calls>>

\* notifyProvided: the names a fiber provides, in whatever scope, are announced
\* in the scope of its own context.
NotifyProvided(t) ==
    /\ In(t, "names")
    /\ LET f == Self(t)
           Announce(n) == Notification(f, n, Scope[f][n])
       IN  ForEach(t, Provided(f), Announce)
    /\ UNCHANGED <<registry, effects, attached, generation, driver, calls>>

\* Mutant: setState does not tell when availability changes.
SetStateQuietly(t, s, next) ==
    /\ state' = [state EXCEPT ![Self(t)] =
           IF disposed[Self(t)] /\ s \notin {"unloading", "disposed"}
           THEN @ ELSE s]
    /\ Goto(t, next)

\* setState: a disposed fiber only moves on to unloading or disposed; entering
\* or leaving active is announced before the caller goes on.
SetState(t, s, next) ==
    LET f == Self(t)
        refused == disposed[f] /\ s \notin {"unloading", "disposed"}
    IN  /\ state' = IF refused THEN state ELSE [state EXCEPT ![f] = s]
        /\ IF ~refused /\ (state[f] = "active") # (s = "active")
           THEN Continue(t, <<At(t, next), Frame("names", f)>>)
           ELSE Goto(t, next)

----------------------------------------------------------------------------
(* refresh, drive and sync. *)

BeginTransition(t) ==
    /\ In(t, "begin")
    /\ IF busy[Self(t)]
       THEN /\ dirty' = [dirty EXCEPT ![Self(t)] = TRUE] /\ busy' = busy
            /\ Return(t)
       ELSE /\ busy' = [busy EXCEPT ![Self(t)] = TRUE] /\ dirty' = dirty
            /\ Goto(t, "pass")
    /\ UNCHANGED <<registry, effects, attached, generation, forceReload,
                   disposed, calls>>

BeginPass(t) ==
    /\ In(t, "pass")
    /\ dirty' = [dirty EXCEPT ![Self(t)] = FALSE]
    /\ Goto(t, "sync")
    /\ UNCHANGED <<registry, effects, attached, generation, busy, forceReload,
                   disposed, calls>>

EndPass(t) ==
    /\ In(t, "end")
    /\ IF dirty[Self(t)]
       THEN busy' = busy /\ Afresh(t, "pass")
       ELSE busy' = [busy EXCEPT ![Self(t)] = FALSE] /\ Return(t)
    /\ UNCHANGED <<registry, effects, attached, generation, dirty, forceReload,
                   disposed, calls>>

Unloading(t, back) == Become(t, [Frame("unload", Self(t)) EXCEPT !.cont = back])
Resolving(t, back) ==
    Become(t, [Frame("fetch", Self(t)) EXCEPT !.queue = Inject[Self(t)],
                                              !.cont = back])

Sync(t) ==
    /\ In(t, "sync")
    /\ forceReload' = [forceReload EXCEPT ![Self(t)] = FALSE]
    /\ IF disposed[Self(t)] THEN Unloading(t, "end")
       ELSE IF forceReload[Self(t)] THEN Unloading(t, "reload")
       ELSE Resolving(t, "end")
    /\ UNCHANGED <<registry, effects, attached, generation, busy, dirty,
                   disposed, calls>>

\* The fiber has resolved its names.  A forced reload goes on with what there
\* is; otherwise the epoch of the fiber decides, which only the owner writes.
Resolved(t, new) ==
    LET f == Self(t)
        Loading == Become(t, [Frame("load", f) EXCEPT !.got = new])
    IN  IF Top(t).cont = "reload"
        THEN IF new = Inactive THEN Afresh(t, "end") ELSE Loading
        ELSE IF new = epoch[f] THEN Afresh(t, "end")
        ELSE IF new = Inactive THEN Afresh(t, "applyUnload")
        ELSE IF live[f] THEN Unloading(t, "reload")
        ELSE Loading

\* lookupService of the next injected name: the binding under its label ...
Fetch(t) ==
    /\ In(t, "fetch")
    /\ IF Top(t).queue = <<>> THEN Resolved(t, Top(t).got)
       ELSE LET n == Head(Top(t).queue)
                b == slot[Scope[Self(t)][n]]
            IN  IF b # Vacant /\ made[b].name = n
                THEN Become(t, [At(t, "check") EXCEPT !.b = b])
                ELSE Resolved(t, Inactive)
    /\ UNCHANGED <<registry, effects, attached, generation, driver, calls>>

\* The next injected name has resolved.
Took(t, b) ==
    LET got == Top(t).got \cup {b}
        rest == Tail(Top(t).queue)
    IN  IF rest = <<>> THEN Resolved(t, got)
        ELSE Become(t, [At(t, "fetch") EXCEPT !.b = Vacant, !.got = got, !.queue = rest])

\* ... counts while its provider is active ...
Check(t) ==
    /\ In(t, "check")
    /\ LET b == Top(t).b IN
       IF state[made[b].provider] # "active" THEN Resolved(t, Inactive)
       ELSE IF made[b].name \in Checked THEN Goto(t, "probe")
       ELSE Took(t, b)
    /\ UNCHANGED <<registry, effects, attached, generation, driver, calls>>

\* ... and its predicate, asked without any lock, passes.
Probe(t) ==
    /\ In(t, "probe")
    /\ IF Top(t).b \in silent THEN Resolved(t, Inactive) ELSE Took(t, Top(t).b)
    /\ UNCHANGED <<registry, effects, attached, generation, driver, calls>>

Forget(t, next) ==
    IF disposed[Self(t)] THEN epoch' = epoch /\ Afresh(t, "end")
    ELSE epoch' = [epoch EXCEPT ![Self(t)] = Inactive] /\ next

ApplyUnload(t) ==
    /\ In(t, "applyUnload")
    /\ Forget(t, Unloading(t, "end"))
    /\ UNCHANGED <<registry, effects, attached, state, live, pinned, driver,
                   calls>>

Reload(t) ==
    /\ In(t, "reload")
    /\ Forget(t, Resolving(t, "reload"))
    /\ UNCHANGED <<registry, effects, attached, state, live, pinned, driver,
                   calls>>

----------------------------------------------------------------------------
(* load. *)

LoadGeneration(t) ==
    /\ In(t, "load")
    /\ IF disposed[Self(t)] THEN live' = live /\ Afresh(t, "end")
       ELSE live' = [live EXCEPT ![Self(t)] = TRUE] /\ Goto(t, "loading")
    /\ UNCHANGED <<registry, effects, attached, state, epoch, pinned, driver,
                   calls>>

SetLoading(t) ==
    /\ In(t, "loading")
    /\ IF disposed[Self(t)] THEN state' = state /\ Afresh(t, "end")
       ELSE /\ state' = [state EXCEPT ![Self(t)] = "loading"]
            /\ Become(t, [At(t, "recheck") EXCEPT !.todo = Top(t).got])
    /\ UNCHANGED <<registry, effects, attached, epoch, live, pinned, driver,
                   calls>>

\* live() of each resolved binding asks its provider ...
Recheck(t) ==
    /\ In(t, "recheck")
    /\ \E b \in Top(t).todo :
         IF state[made[b].provider] # "active" THEN Afresh(t, "giveBack")
         ELSE IF made[b].name \in Checked THEN Become(t, [At(t, "reprobe") EXCEPT !.b = b])
         ELSE Become(t, [Top(t) EXCEPT !.todo = @ \ {b}])
    /\ UNCHANGED <<registry, effects, attached, generation, driver, calls>>

\* ... and its predicate.
Reprobe(t) ==
    /\ In(t, "reprobe")
    /\ LET b == Top(t).b IN
       IF b \in silent THEN Afresh(t, "giveBack")
       ELSE Become(t, [At(t, "recheck") EXCEPT !.b = Vacant, !.todo = @ \ {b}])
    /\ UNCHANGED <<registry, effects, attached, generation, driver, calls>>

\* The generation ends without an unload: what another goroutine has listed on
\* it meanwhile stays.
GiveBack(t) ==
    /\ In(t, "giveBack")
    /\ live' = [live EXCEPT ![Self(t)] = FALSE]
    /\ epoch' = [epoch EXCEPT ![Self(t)] = Inactive]
    /\ stray' = stray \cup ToSet(entries[Self(t)])
    /\ Goto(t, "gaveBack")
    /\ UNCHANGED <<registry, entries, installed, deferred, once, attached, state,
                   pinned, driver, calls>>

\* setState(StatePending), and a refresh that can only mark the rerun.
GaveBack(t) ==
    /\ In(t, "gaveBack")
    /\ SetState(t, "pending", "end")
    /\ dirty' = [dirty EXCEPT ![Self(t)] = TRUE]
    /\ UNCHANGED <<registry, effects, attached, epoch, live, pinned, busy,
                   forceReload, disposed, calls>>

\* Mutant: the generation has no snapshot and reads the registry.
CommitUnpinned(t) ==
    /\ In(t, "recheck") /\ Top(t).todo = {}
    /\ epoch' = [epoch EXCEPT ![Self(t)] = Top(t).got]
    /\ Become(t, [Frame("run", Self(t)) EXCEPT !.queue = Offers[Self(t)]])
    /\ UNCHANGED <<registry, effects, attached, state, live, pinned, driver, calls>>

Commit(t) ==
    /\ In(t, "recheck") /\ Top(t).todo = {}
    /\ epoch' = [epoch EXCEPT ![Self(t)] = Top(t).got]
    /\ pinned' = [pinned EXCEPT ![Self(t)] = Top(t).got]
    /\ Become(t, [Frame("run", Self(t)) EXCEPT !.queue = Offers[Self(t)]])
    /\ UNCHANGED <<registry, effects, attached, state, live, driver, calls>>

\* The body provides its services, then returns nil, or an error of its own.
RunBody(t) ==
    /\ In(t, "run")
    /\ IF Top(t).queue # <<>>
       THEN Continue(t, <<[Top(t) EXCEPT !.queue = Tail(@)],
                          [Frame("provide", Self(t)) EXCEPT
                             !.name = Head(Top(t).queue)]>>)
       ELSE \/ Goto(t, "activate")
            \/ Self(t) \in Faulty /\ Goto(t, "fail")
    /\ UNCHANGED <<registry, effects, attached, generation, driver, calls>>

Activate(t) ==
    /\ In(t, "activate")
    /\ IF disposed[Self(t)] THEN Unloading(t, "end") ELSE Goto(t, "active")
    /\ UNCHANGED <<registry, effects, attached, generation, driver, calls>>

SetActive(t) ==
    /\ In(t, "active")
    /\ SetState(t, "active", "end")
    /\ UNCHANGED <<registry, effects, attached, epoch, live, pinned, driver,
                   calls>>

Fail(t) ==
    /\ In(t, "fail")
    /\ Unloading(t, "failed")
    /\ UNCHANGED <<registry, effects, attached, generation, driver, calls>>

SetFailed(t) ==
    /\ In(t, "failed")
    /\ SetState(t, "failed", "end")
    /\ UNCHANGED <<registry, effects, attached, epoch, live, pinned, driver,
                   calls>>

----------------------------------------------------------------------------
(* unload. *)

Unload(t) ==
    /\ In(t, "unload")
    /\ live' = [live EXCEPT ![Self(t)] = FALSE]
    /\ Goto(t, IF live[Self(t)] THEN "unloading"
               ELSE IF disposed[Self(t)] THEN "finalize" ELSE Top(t).cont)
    /\ UNCHANGED <<registry, effects, attached, state, epoch, pinned, driver,
                   calls>>

\* Mutant: dependents are told when the effects are gone.
SetUnloadingQuietly(t) ==
    /\ In(t, "unloading")
    /\ SetStateQuietly(t, "unloading", "clear")
    /\ UNCHANGED <<registry, effects, attached, epoch, live, pinned, driver,
                   calls>>

\* A fiber that was active announces its services before it releases them.
SetUnloading(t) ==
    /\ In(t, "unloading")
    /\ SetState(t, "unloading", "clear")
    /\ UNCHANGED <<registry, effects, attached, epoch, live, pinned, driver,
                   calls>>

\* disposables.clear, and a release of each entry, the youngest first.
Clear(t) ==
    /\ In(t, "clear")
    /\ LET f == Self(t) IN
       /\ entries' = [entries EXCEPT ![f] = <<>>]
       /\ Continue(t, <<At(t, "unwind")>> \o
              [i \in DOMAIN entries[f] |-> [Frame("request", f) EXCEPT !.b = entries[f][i]]])
    /\ UNCHANGED <<registry, installed, deferred, once, stray, attached, generation,
                   driver, calls>>

Unloaded(t) ==
    /\ In(t, "unwind")
    /\ pinned' = [pinned EXCEPT ![Self(t)] = Inactive]
    /\ Goto(t, IF disposed[Self(t)] THEN "finalize" ELSE "repending")
    /\ UNCHANGED <<registry, effects, attached, state, epoch, live, driver,
                   calls>>

SetPending(t) ==
    /\ In(t, "repending")
    /\ SetState(t, "pending", Top(t).cont)
    /\ UNCHANGED <<registry, effects, attached, epoch, live, pinned, driver,
                   calls>>

FinalizeDispose(t) ==
    /\ In(t, "finalize")
    /\ SetState(t, "disposed", Top(t).cont)
    /\ UNCHANGED <<registry, effects, attached, epoch, live, pinned, driver,
                   calls>>

----------------------------------------------------------------------------
(* provide. *)

\* provide returns an error, which a body passes on.
ReturnError(t) ==
    LET callers == Front(stack[t]) IN
    stack' = [stack EXCEPT ![t] =
        IF callers = <<>> THEN <<>>
        ELSE Append(Front(callers), [Last(callers) EXCEPT !.at = "fail"])]

Closed(f) == disposed[f] \/ state[f] = "unloading"

\* tryEffect: the entry of a new binding is listed before its body runs.  The
\* first look at the fiber in provide is merged with the one here, which has
\* the same outcome.  Another goroutine may list an entry on a fiber that has
\* no generation, which no unload will release.  A provide beyond the bound on
\* bindings fails, like a body of its own accord.
Provide(t) ==
    /\ In(t, "provide")
    /\ LET f == Self(t)
           b == Len(made) + 1
       IN  IF Closed(f) \/ b > MaxBindings
           THEN UNCHANGED <<made, entries, stray>> /\ ReturnError(t)
           ELSE /\ made' = Append(made, [provider |-> f, name |-> Top(t).name,
                                         label |-> Place[f][Top(t).name]])
                /\ entries' = [entries EXCEPT ![f] = Append(@, b)]
                /\ stray' = IF live[f] THEN stray ELSE stray \cup {b}
                /\ Become(t, [At(t, "register") EXCEPT !.b = b])
    /\ UNCHANGED <<slot, services, installed, deferred, once, attached, generation,
                   driver, calls>>

\* registerService: a label has one binding.
Register(t) ==
    /\ In(t, "register")
    /\ LET l == made[Top(t).b].label IN
       IF slot[l] # Vacant THEN slot' = slot /\ Goto(t, "refused")
       ELSE slot' = [slot EXCEPT ![l] = Top(t).b] /\ Goto(t, "pin")
    /\ UNCHANGED <<made, services, effects, attached, generation, driver, calls>>

\* The entry of a refused service has nothing to release and is removed.
Refused(t) ==
    /\ In(t, "refused")
    /\ entries' = [entries EXCEPT ![Self(t)] = RemoveFirst(@, Top(t).b)]
    /\ ReturnError(t)
    /\ UNCHANGED <<registry, installed, deferred, once, stray, attached, generation,
                   driver, calls>>

\* The snapshot of a generation has one binding per name.
Named(f, n) == {b \in pinned[f] \ Inactive : made[b].name = n}

Pin(t) ==
    /\ In(t, "pin")
    /\ LET f == Self(t) IN
       pinned' = IF pinned[f] = Inactive THEN pinned
                 ELSE [pinned EXCEPT ![f] =
                         (@ \ Named(f, Top(t).name)) \cup {Top(t).b}]
    /\ Goto(t, "tell")
    /\ UNCHANGED <<registry, effects, attached, state, epoch, live, driver,
                   calls>>

\* Mutant: only a change of the provider's state is announced.
TellNobody(t) ==
    /\ In(t, "tell")
    /\ Goto(t, "install")
    /\ UNCHANGED <<registry, effects, attached, generation, driver, calls>>

\* A service of an active fiber is announced now, another one by setState.
Tell(t) ==
    /\ In(t, "tell")
    /\ IF state[Self(t)] = "active"
       THEN Continue(t, <<At(t, "install"),
                Notification(Self(t), made[Top(t).b].name, made[Top(t).b].label)>>)
       ELSE Goto(t, "install")
    /\ UNCHANGED <<registry, effects, attached, generation, driver, calls>>

\* Mutant: a release that came before the disposer is forgotten.
InstallForgetting(t) ==
    /\ In(t, "install")
    /\ installed' = installed \cup {Top(t).b}
    /\ Return(t)
    /\ UNCHANGED <<registry, entries, deferred, once, stray, attached, generation,
                   driver, calls>>

\* setDispose: the fiber may have been unloaded since the entry was listed.
Install(t) ==
    /\ In(t, "install")
    /\ installed' = installed \cup {Top(t).b}
    /\ IF Top(t).b \in deferred THEN Goto(t, "once") ELSE Return(t)
    /\ UNCHANGED <<registry, entries, deferred, once, stray, attached, generation,
                   driver, calls>>

----------------------------------------------------------------------------
(* The disposer of a service. *)

RequestDispose(t) ==
    /\ In(t, "request")
    /\ IF Top(t).b \in installed
       THEN deferred' = deferred /\ Goto(t, "once")
       ELSE deferred' = deferred \cup {Top(t).b} /\ Return(t)
    /\ UNCHANGED <<registry, entries, installed, once, stray, attached, generation,
                   driver, calls>>

EnterOnce(t) ==
    /\ In(t, "once")
    /\ LET b == Top(t).b IN
       \/ /\ once[b] = "new" /\ once' = [once EXCEPT ![b] = "running"]
          /\ Goto(t, "unregister")
       \/ /\ once[b] = "done" /\ once' = once
          /\ Return(t)
    /\ UNCHANGED <<registry, entries, installed, deferred, stray, attached, generation,
                   driver, calls>>

\* Mutant: the service disappears without a word.
UnregisterQuietly(t) ==
    /\ In(t, "unregister")
    /\ LET l == made[Top(t).b].label IN
       slot' = IF slot[l] = Top(t).b THEN [slot EXCEPT ![l] = Vacant] ELSE slot
    /\ Goto(t, "unpin")
    /\ UNCHANGED <<made, services, effects, attached, generation, driver, calls>>

\* unregisterService, then notify in the scope the service was registered in.
Unregister(t) ==
    /\ In(t, "unregister")
    /\ LET b == Top(t).b
           l == made[b].label
       IN  /\ slot' = IF slot[l] = b THEN [slot EXCEPT ![l] = Vacant] ELSE slot
           /\ Continue(t, <<At(t, "unpin"),
                            Notification(Self(t), made[b].name, l)>>)
    /\ UNCHANGED <<made, services, effects, attached, generation, driver, calls>>

LeaveOnce(t) == once' = [once EXCEPT ![Top(t).b] = "done"] /\ Return(t)

\* The provider forgets the name, whatever binding it stands for.
Unpin(t) ==
    /\ In(t, "unpin")
    /\ LET f == Self(t) IN
       pinned' = [pinned EXCEPT ![f] = @ \ Named(f, made[Top(t).b].name)]
    /\ LeaveOnce(t)
    /\ UNCHANGED <<registry, entries, installed, deferred, stray, attached, state,
                   epoch, live, driver, calls>>

Unlist(t) ==
    /\ In(t, "unlist")
    /\ entries' = [entries EXCEPT ![Self(t)] = RemoveFirst(@, Top(t).b)]
    /\ Return(t)
    /\ UNCHANGED <<registry, installed, deferred, once, stray, attached, generation,
                   driver, calls>>

----------------------------------------------------------------------------
Request(t) ==
    \/ \E f \in Fibers : Load(t, f) \/ Restart(t, f) \/ Dispose(t, f)
                         \/ \E n \in Names : ProvideAgain(t, f, n) \/ Set(t, f, n)
    \/ \E b \in Bindings : Withdraw(t, b)

Driving(t) ==
    \/ ForceReload(t) \/ RemoveFiber(t)
    \/ BeginTransition(t) \/ BeginPass(t) \/ EndPass(t) \/ Sync(t)
    \/ Fetch(t) \/ Check(t) \/ Probe(t) \/ ApplyUnload(t) \/ Reload(t)

Generating(t) ==
    \/ LoadGeneration(t) \/ SetLoading(t) \/ Recheck(t) \/ Reprobe(t) \/ GiveBack(t)
    \/ GaveBack(t) \/ Commit(t) \/ RunBody(t) \/ Activate(t) \/ SetActive(t)
    \/ Fail(t) \/ SetFailed(t)
    \/ Unload(t) \/ SetUnloading(t) \/ Clear(t) \/ Unloaded(t)
    \/ SetPending(t) \/ FinalizeDispose(t)

Serving(t) ==
    \/ Notify(t) \/ NotifyProvided(t) \/ Update(t)
    \/ Provide(t) \/ Register(t) \/ Refused(t) \/ Pin(t)
    \/ Tell(t) \/ Install(t)
    \/ RequestDispose(t) \/ EnterOnce(t) \/ Unregister(t) \/ Unpin(t)
    \/ Unlist(t)

Proceed(t) == ~Idle(t) /\ (Driving(t) \/ Generating(t) \/ Serving(t))

Quiet == \A t \in Threads : Idle(t)

\* The program may stop when every call has returned, and only then.
Stop == Quiet /\ UNCHANGED vars

Next ==
    \/ \E t \in Threads : Request(t) \/ Proceed(t)
    \/ \E b \in Bindings : Waver(b)
    \/ Stop

Spec == Init /\ [][Next]_vars

----------------------------------------------------------------------------
(* What the graph of services promises. *)

\* What a fiber would resolve now, if no predicate failed.
InPlace(f, n) == {b \in {slot[Scope[f][n]]} \ Inactive :
                    made[b].name = n /\ state[made[b].provider] = "active"}
Now(f) == LET all == {InPlace(f, n) : n \in ToSet(Inject[f])} IN
          IF {} \in all THEN Inactive ELSE UNION all

\* Changes of the registry reach every fiber they concern, through any number
\* of providers in between: when all calls have returned, every fiber has
\* taken up what its names resolve to in its scope, or was kept from it by a
\* predicate that failed when it was asked (notify, setState, sync).
Followed ==
    Quiet => \A f \in loaded :
        IF disposed[f] THEN state[f] = "disposed"
        ELSE /\ \/ epoch[f] = Now(f)
                \/ epoch[f] = Inactive /\ Now(f) \cap wavered # {}
             /\ state[f] \in {"failed",
                   IF epoch[f] = Inactive THEN "pending" ELSE "active"}

\* Services and the effects that own them go together: a label is taken by an
\* active fiber that still lists the service, and no fiber lists a service
\* that is not registered (provide, fail, unload).
NoOrphanService ==
    Quiet => /\ \A l \in Labels : slot[l] \notin stray \cup Inactive =>
                  LET f == made[slot[l]].provider IN
                  state[f] = "active" /\ slot[l] \in ToSet(entries[f])
             /\ \A f \in Fibers : \A b \in ToSet(entries[f]) :
                  slot[made[b].label] = b

\* The generation of f was loaded against b, and nobody is replacing it.
RestsOn(f, b) == live[f] /\ b \in epoch[f] /\ ~busy[f] /\ ~disposed[f]

\* Once a service has been released, nobody is left running on it: its
\* dependents were unloaded, or some goroutine is about to (notify, refresh).
NoStaleGeneration ==
    \A b \in Bindings : once[b] = "done" => \A f \in Fibers : ~RestsOn(f, b)

\* The goroutine is about to release the effects of f, or is doing so.
Unwinding(t, f) == \E i \in DOMAIN stack[t] :
    /\ stack[t][i].f = f
    /\ stack[t][i].at = "unwind" \/ (stack[t][i].at = "clear" /\ i = Len(stack[t]))

\* A provider that unloads releases its effects only after its dependents have
\* been unloaded, or found in a transition that will (setState, notifyProvided).
DependentsFirst ==
    \A l \in Labels, f \in Fibers :
        slot[l] # Vacant /\ RestsOn(f, slot[l]) =>
            \A t \in Threads : ~Unwinding(t, made[slot[l]].provider)

\* resolveService, in the fiber's own context: the snapshot of its generation,
\* then the registry.  The snapshot of the root above it has none of the names.
Lookup(f, n) ==
    LET held == {b \in pinned[f] \ Inactive : made[b].name = n
                    /\ made[b].label = Scope[f][n] /\ b \notin silent}
    IN  IF held # {} THEN held ELSE InPlace(f, n) \ silent

\* A generation of f is in its body, active, or releasing its effects.
InGeneration(f) ==
    \/ pinned[f] # Inactive
    \/ state[f] = "active" /\ live[f]
    \/ \E t \in Threads : \E i \in DOMAIN stack[t] :
          stack[t][i].f = f /\ stack[t][i].at \in {"run", "activate"}

\* "A service this fiber injected stays readable while that fiber's generation
\* runs, even when its provider is already unloading": its body and its
\* cleanups read the one binding it was loaded with, whoever withdraws or
\* replaces it meanwhile, unless its predicate fails (resolveService, Lookup).
PinnedReadable ==
    \A f \in Fibers : InGeneration(f) =>
        \A n \in ToSet(Inject[f]) :
            \E b \in Bindings : /\ b \in DOMAIN made /\ made[b].name = n
                                /\ epoch[f] # Inactive => b \in epoch[f]
                                /\ b \in silent \/ Lookup(f, n) = {b}

\* A Set that lost a race with a withdrawal or a new provider changes nothing:
\* a released service keeps its last value for those who still hold it, and
\* nobody has moved on to another service of the label by the time one takes a
\* value, except to one that is itself being released (setService,
\* updateService).
SetInPlace ==
    [][\A b \in changed' \ changed :
          /\ once[b] # "done"
          /\ \A f \in Fibers : \A c \in (epoch[f] \cup pinned[f]) \ Inactive :
               made[c].label = made[b].label => c = b \/ once[c] # "new"]_vars
=============================================================================
