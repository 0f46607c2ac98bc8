----------------------------- MODULE LoaderTree -----------------------------
(***************************************************************************)
(* Tree.Load (loader/loader.go) of a tree that LoaderCompose has built:    *)
(* the enabled plugins are loaded in the order of the tree, and a load     *)
(* that fails takes back the ones before it.                               *)
(*                                                                         *)
(* Each fiber goes through FiberLifecycle, which the driver implements     *)
(* (RefinesLifecycle of FiberDriver), a step at a time, and only while     *)
(* somebody owns its transition: the goroutine of Load or another one.     *)
(* Dispose marks the fiber and, when the transition has an owner, returns  *)
(* with the teardown left to that owner.                                   *)
(***************************************************************************)
EXTENDS LoaderCompose

CONSTANTS
    Plugins,      \* the names under which plugins will be registered
    MaxDisturbed, \* bound: of how many layers is a tree whose fibers others touch
    MaxFibers     \* bound: how many fibers such a tree has

ASSUME LoadAssumption ==
    Plugins \subseteq Names /\ MaxDisturbed \in Nat /\ MaxFibers \in Nat

VARIABLES
    registered, \* the plugins of the registry
    queue,      \* the nodes loadNodes has still to visit, with inherited inject
    fibers,     \* the fibers Load will return, or has still to take back
    created     \* every fiber that an entry has created

\* What Load reads; only Compose and Register change it.
input == <<todo, strict, layers, registered>>
load == <<queue, fibers, created>>
vars == <<tree, todo, strict, layers, phase, registered, load>>

\* Load's own goroutine, any of the others, and none.
Loader == "loader"
Other == "other"
Nobody == "nobody"

\* A fiber: who owns its transition, whether a load was tried in it, and who is
\* about to refresh the fiber.
New(n, deps) ==
    [node |-> n, deps |-> deps, state |-> "pending", disposed |-> FALSE,
     held |-> FALSE, owner |-> Nobody, tried |-> FALSE, callers |-> {Loader}]

Life(f) == INSTANCE FiberLifecycle WITH
    state <- created[f].state, disposed <- created[f].disposed,
    held <- created[f].held

LoadInit ==
    /\ Init /\ registered = {}
    /\ queue = <<>> /\ fibers = <<>> /\ created = <<>>

\* Plugins are registered by any goroutine, once under each name.
Register(name) ==
    /\ phase \notin {"rejected", "loaded", "failed"} /\ name \notin registered
    /\ registered' = registered \cup {name}
    /\ UNCHANGED <<tree, todo, strict, layers, phase, load>>

----------------------------------------------------------------------------
(* The transition of one fiber (fiber.go). *)

Change(f, as) == created' = [created EXCEPT ![f] = as @@ @]
Elsewhere == UNCHANGED <<tree, input, phase, queue, fibers>>

\* beginTransition: an owner is left with the marker of one more pass.
Refresh(who, f) ==
    /\ who \in created[f].callers
    /\ Change(f, [callers |-> created[f].callers \ {who},
                  owner |-> IF created[f].owner = Nobody THEN who
                            ELSE created[f].owner])
    /\ Elsewhere

\* start of a fiber that was disposed while it attached: there is no refresh.
SkipRefresh(f) ==
    /\ phase = "loading" /\ created[f].disposed
    /\ Loader \in created[f].callers
    /\ Change(f, [callers |-> created[f].callers \ {Loader}])
    /\ Elsewhere

States == {"pending", "loading", "active", "failed", "unloading", "disposed"}

\* sync, load, unload and finalizeDispose, as far as a watcher sees them.
Drive(f) ==
    /\ created[f].owner # Nobody
    /\ \E s \in States, h \in BOOLEAN :
         /\ s = "failed" => created[f].tried
         /\ Change(f, [state |-> s, held |-> h,
                       tried |-> created[f].tried \/ s = "loading"])
    /\ Life(f)!Next
    /\ Elsewhere

Resting(f) == created[f].state \notin {"loading", "unloading"}

\* Mutant: the owner lets go without looking at the marker.
EndTransitionUnmarked(f) ==
    /\ created[f].owner # Nobody /\ Resting(f)
    /\ Change(f, [owner |-> Nobody, tried |-> FALSE])
    /\ Elsewhere

\* The marker that Dispose leaves keeps the owner until the fiber is disposed.
\* Other markers ask for passes of which an owner makes as many as it likes.
EndTransition(f) ==
    /\ created[f].owner # Nobody /\ Resting(f)
    /\ created[f].disposed => created[f].state = "disposed"
    /\ Change(f, [owner |-> Nobody, tried |-> FALSE])
    /\ Elsewhere

\* Dispose marks the fiber; whoever comes second returns at once.  The refresh
\* comes later, and leaves the teardown to an owner that is there by then.
Dispose(who, f) ==
    IF created[f].disposed THEN UNCHANGED created
    ELSE Change(f, [disposed |-> TRUE,
                    callers |-> created[f].callers \cup {who}])

\* notify, Restart, Update and Dispose, called by other goroutines; the parent's
\* teardown is one of them, also where it is deferred to the end of attachment.
Under == layers <= MaxDisturbed /\ phase \in {"loading", "rollback", "failed"}

RefreshElsewhere(f) ==
    /\ Under /\ Other \notin created[f].callers
    /\ Change(f, [callers |-> created[f].callers \cup {Other}])
    /\ Elsewhere

DisposeElsewhere(f) ==
    /\ Under /\ ~created[f].disposed
    /\ Dispose(Other, f)
    /\ Elsewhere

----------------------------------------------------------------------------
(* Load. *)

\* Load is not inside a call of Dispose or of the plugin's load.
Idle == \A f \in DOMAIN created :
    created[f].owner # Loader /\ Loader \notin created[f].callers

Visits(ns, deps) == [i \in DOMAIN ns |-> [node |-> ns[i], deps |-> deps]]

Begin ==
    /\ phase = "composed" /\ phase' = "loading"
    /\ queue' = Visits(Kids(Root), {})
    /\ UNCHANGED <<tree, input, fibers, created>>

\* Load comes to node n; its load, if it has begun, has returned.
At(n) == phase = "loading" /\ queue # <<>> /\ Head(queue).node = n /\ Idle
Loading == Len(created) > Len(fibers)
Of(n) == nodes[n].fields
Deps == Head(queue).deps \cup Of(Head(queue).node).inject
Rest(next) == queue' = next \o Tail(queue)

SkipDisabled(n) ==
    /\ At(n) /\ Of(n).disabled
    /\ Rest(<<>>)
    /\ UNCHANGED <<tree, input, phase, fibers, created>>

\* Mutant: the inject of a group is its own affair.
EnterGroupUngated(n) ==
    /\ At(n) /\ ~Of(n).disabled /\ Of(n).group
    /\ Rest(Visits(Kids(n), Head(queue).deps))
    /\ UNCHANGED <<tree, input, phase, fibers, created>>

\* A group is a scope; its inject gates the whole subtree.
EnterGroup(n) ==
    /\ At(n) /\ ~Of(n).disabled /\ Of(n).group
    /\ Rest(Visits(Kids(n), Deps))
    /\ UNCHANGED <<tree, input, phase, fibers, created>>

Loadable(n) == Of(n).name \in registered /\ Kids(n) = <<>>
Plugin(n) == At(n) /\ ~Loading /\ ~Of(n).disabled /\ ~Of(n).group

\* An unknown plugin, or an entry whose children would be dropped.
Refuse(n) ==
    /\ Plugin(n) /\ ~Loadable(n)
    /\ phase' = "rollback"
    /\ UNCHANGED <<tree, input, load>>

\* There is no fiber when the config does not fit the plugin's type, or when
\* the context has been torn down by then.
DecodeFails(n) ==
    /\ Plugin(n) /\ Loadable(n)
    /\ phase' = "rollback"
    /\ UNCHANGED <<tree, input, load>>

\* The fiber is attached, for everybody to see, and about to be refreshed.
LoadPlugin(n) ==
    /\ Plugin(n) /\ Loadable(n)
    /\ created' = Append(created, New(n, Deps))
    /\ UNCHANGED <<tree, input, phase, queue, fibers>>

Answers(n) == At(n) /\ Loading

\* A failed fiber is no failed load when somebody has cleared its error since.
LoadSucceeds(n) ==
    /\ Answers(n)
    /\ Last(created).state = "failed" =>
         Other \in Last(created).callers \cup {Last(created).owner}
    /\ fibers' = Append(fibers, Len(created))
    /\ Rest(<<>>)
    /\ UNCHANGED <<tree, input, phase, created>>

\* Mutant: only the fibers of the entries that loaded are taken back.
LoadFailsKeeping(n) ==
    /\ Answers(n) /\ Last(created).state = "failed"
    /\ phase' = "rollback"
    /\ UNCHANGED <<tree, input, load>>

\* A failed load has to take back the fiber that reported it, too, and first.
LoadFails(n) ==
    /\ Answers(n) /\ Last(created).state = "failed"
    /\ phase' = "rollback"
    /\ fibers' = Append(fibers, Len(created))
    /\ UNCHANGED <<tree, input, queue, created>>

LoadReturns ==
    /\ phase = "loading" /\ queue = <<>> /\ phase' = "loaded"
    /\ UNCHANGED <<tree, input, load>>

\* The fibers are disposed in reverse, each when the call before has returned.
RollBack ==
    /\ phase = "rollback" /\ Idle
    /\ IF fibers = <<>> THEN phase' = "failed" /\ UNCHANGED <<fibers, created>>
       ELSE /\ Dispose(Loader, Last(fibers))
            /\ fibers' = Front(fibers) /\ phase' = phase
    /\ UNCHANGED <<tree, input, queue>>

\* Compose or Load has returned.
Stop == phase \in {"rejected", "loaded", "failed"} /\ UNCHANGED vars

Load ==
    \/ Begin \/ LoadReturns \/ RollBack
    \/ \E n \in NodeIds :
         \/ SkipDisabled(n) \/ EnterGroup(n) \/ Refuse(n) \/ DecodeFails(n)
         \/ LoadPlugin(n) \/ LoadSucceeds(n) \/ LoadFails(n)

Runtime(f) ==
    \/ \E who \in {Loader, Other} : Refresh(who, f)
    \/ SkipRefresh(f) \/ Drive(f) \/ EndTransition(f)
    \/ RefreshElsewhere(f) \/ DisposeElsewhere(f)

Next ==
    \/ Compose /\ UNCHANGED <<registered, load>>
    \/ Load
    \/ \E f \in DOMAIN created : Runtime(f)
    \/ \E name \in Plugins : Register(name)
    \/ Stop

Spec == LoadInit /\ [][Next]_vars

\* A goroutine inside a call goes on, and bodies and disposers return.
Goes(who, f) ==
    /\ f \in DOMAIN created /\ created[f].owner = who
    /\ Drive(f) \/ EndTransition(f)
Calls(who, f) == f \in DOMAIN created /\ Refresh(who, f)
LoadGoes == Load \/ \E f \in DOMAIN created : Calls(Loader, f) \/ Goes(Loader, f)

FairSpec ==
    /\ Spec /\ WF_vars(LoadGoes)
    /\ \A f \in 1..MaxFibers : WF_vars(Calls(Other, f)) /\ WF_vars(Goes(Other, f))

----------------------------------------------------------------------------
(* What Load promises. *)

Path[n \in {Root} \cup NodeIds] == IF n = Root THEN {} ELSE {n} \cup Path[nodes[n].parent]

Enabled == SelectSeq(Preorder, LAMBDA n :
    ~Of(n).group /\ \A m \in Path[n] : ~Of(m).disabled)

\* "Load instantiates every enabled entry of the tree", once, in order, with
\* the inject of every group above it: nothing is dropped without an error.
LoadsTheEnabled ==
    phase = "loaded" =>
        /\ [i \in DOMAIN fibers |-> created[fibers[i]].node] = Enabled
        /\ \A i \in DOMAIN created :
             created[i].deps = UNION {Of(m).inject : m \in Path[created[i].node]}

Released(f) == created[f].state = "disposed" /\ ~created[f].held

\* "Configuration loading is all-or-nothing": once an entry has failed, Load
\* returns its error, and every fiber that any of its entries created, the failed
\* one included, is released in the end and holds no effect.  When Load returns,
\* Dispose may have left it to another goroutine, whatever that was about to do
\* with the fiber, and whoever else refreshes or disposes it meanwhile.
AllOrNothing ==
    phase = "rollback" ~>
        phase = "failed" /\ \A f \in DOMAIN created : Released(f)
=============================================================================
