----------------------- MODULE ServiceGraphInvariant -----------------------
(***************************************************************************)
(* What holds of the services, the fibers and the calls under way between  *)
(* any two steps of ServiceGraph: the parts of its inductive invariant, on *)
(* which the proofs rest.  A part says what each place of a call knows, or *)
(* what a fact that is out of date has under way that will mend it.        *)
(***************************************************************************)
EXTENDS ServiceGraph

\* The places of the goroutine that drives a fiber.
Looking == {"fetch", "check", "probe"}
Loads == {"load", "loading", "recheck", "reprobe"}
Unloads == {"unload", "unloading", "clear", "unwind", "repending", "finalize"}
Started == {"run", "activate", "active", "fail"}
Owning == Looking \cup Loads \cup Unloads \cup Started \cup
          {"pass", "sync", "applyUnload", "reload", "giveBack", "gaveBack",
           "failed", "end"}

\* The places of the calls that make and release a binding.
Providing == {"provide", "register", "refused"}
Claiming == {"pin", "tell", "install"}
Registering == {"register", "refused"} \cup Claiming
Releasing == {"unregister", "unpin"}
EntryCalls == Registering \cup Releasing \cup {"unlist", "request", "once"}
LookedUp == {"check", "probe", "reprobe"}

\* The calls under way.
Calls == UNION {{stack[t][i] : i \in 1..Len(stack[t])} : t \in Threads}

\* Some goroutine is in a call at C for the fiber f.
Has(C, f) == \E g \in Calls : g.at \in C /\ g.f = f

----------------------------------------------------------------------------
(* Calls. *)

\* A fiber is driven by one call at a time, which its flag stands for.
OneOwner ==
    \A t, u \in Threads : \A i \in 1..Len(stack[t]), j \in 1..Len(stack[u]) :
        /\ stack[t][i].at \in Owning /\ stack[u][j].at \in Owning
        /\ stack[t][i].f = stack[u][j].f
        => t = u /\ i = j
BusyOwned == \A f \in Fibers : busy[f] <=> Has(Owning, f)

\* The body of a fiber waits for the services it provides.
Nested ==
    \A t \in Threads : \A i, j \in 1..Len(stack[t]) :
        j = i + 1 /\ stack[t][j].at \in Providing =>
            stack[t][i].at = "run" /\ stack[t][i].f = stack[t][j].f

CallInv == OneOwner /\ BusyOwned /\ Nested

----------------------------------------------------------------------------
(* Bindings. *)

Known == 1..Len(made)
InSlot(b) == slot[made[b].label] = b

\* A binding somebody has found in its slot has not left it but by its
\* release.
Seen(b) == b \in Known /\ (InSlot(b) \/ once[b] # "new")

SlotsFit ==
    \A l \in Labels : slot[l] # Vacant =>
        slot[l] \in Known /\ made[slot[l]].label = l

MadeFit ==
    /\ Len(made) <= MaxBindings
    /\ \A b \in Known :
         /\ made[b].name \in ToSet(Offers[made[b].provider])
         /\ made[b].label = Place[made[b].provider][made[b].name]

EntryFacts(b) ==
    /\ b \in installed \cup deferred => b \in Known
    /\ once[b] # "new" => b \in installed
    /\ b \in installed /\ once[b] = "new" => InSlot(b)
    /\ once[b] = "done" => ~InSlot(b)

FiberFacts(f) ==
    /\ \A b \in ToSet(entries[f]) : b \in Known /\ made[b].provider = f
    /\ \A b \in (epoch[f] \cup pinned[f]) \ Inactive : Seen(b)
    /\ f \in attached \/ epoch[f] # Inactive => f \in loaded

\* Where a look at the names and an unload may go on.
ComesBack(g) ==
    /\ g.at \in Looking => g.cont \in {"reload", "end"}
    /\ g.at \in Unloads => g.cont \in {"reload", "failed", "end"}

CallFacts(g) ==
    /\ ComesBack(g)
    /\ g.f \in loaded
    /\ g.b # Vacant => g.b \in Known
    /\ g.at \in EntryCalls \cup LookedUp \cup {"update"} => g.b # Vacant
    /\ g.at \in EntryCalls => made[g.b].provider = g.f
    /\ g.at = "provide" => g.name \in ToSet(Offers[g.f])
    /\ g.at = "run" => ToSet(g.queue) \subseteq ToSet(Offers[g.f])
    /\ g.at \in Registering => g.b \notin installed /\ made[g.b].name = g.name
    /\ g.at \in {"register", "refused"} => ~InSlot(g.b)
    /\ g.at \in Claiming => InSlot(g.b)
    /\ g.at \in Releasing \cup {"once"} => g.b \in installed
    /\ g.at \in Releasing => once[g.b] = "running"
    /\ g.at = "unpin" => ~InSlot(g.b)
    /\ g.at \in LookedUp => Seen(g.b)
    /\ g.at \in {"check", "probe"} => g.queue # <<>>
    /\ \A b \in g.got \cup g.todo : Seen(b)

\* A binding is registered by one call, and released by one.
OneCall(C) ==
    \A t, u \in Threads : \A i \in 1..Len(stack[t]), j \in 1..Len(stack[u]) :
        /\ stack[t][i].at \in C /\ stack[u][j].at \in C
        /\ stack[t][i].b = stack[u][j].b
        => t = u /\ i = j

BindInv ==
    /\ SlotsFit /\ MadeFit
    /\ \A b \in Bindings : EntryFacts(b)
    /\ \A f \in Fibers : FiberFacts(f)
    /\ \A g \in Calls : CallFacts(g)
    /\ OneCall(Registering) /\ OneCall(Releasing)

----------------------------------------------------------------------------
(* Generations. *)

NamesOf(S) == {made[b].name : b \in S}

\* One binding per name, for names that f injects, in its own scope.
Fits(f, S) ==
    /\ \A b \in S : /\ made[b].name \in ToSet(Inject[f])
                    /\ made[b].label = Scope[f][made[b].name]
    /\ \A b, c \in S : made[b].name = made[c].name => b = c
Resolves(f, S) == Fits(f, S) /\ ToSet(Inject[f]) \subseteq NamesOf(S)

\* A look has the names of its queue still to find, and no other.
LookFacts(g) ==
    /\ g.at \in Looking =>
         /\ Fits(g.f, g.got) /\ IsInjective(g.queue)
         /\ ToSet(g.queue) \cap NamesOf(g.got) = {}
         /\ ToSet(g.queue) \subseteq ToSet(Inject[g.f])
         /\ ToSet(Inject[g.f]) \subseteq ToSet(g.queue) \cup NamesOf(g.got)
    /\ g.at \in {"check", "probe"} =>
         /\ made[g.b].name = Head(g.queue)
         /\ made[g.b].label = Scope[g.f][Head(g.queue)]
    /\ g.at \in Loads => Resolves(g.f, g.got)

\* The body runs, and a generation becomes active, with a snapshot; its effects
\* are released when its fiber has stopped being active.
Holding == {"run", "activate", "active"}
Winding == {"clear", "unwind"}
Watched == Holding \cup Winding \cup Looking \cup Loads
GenerationFacts(g) ==
    /\ g.at \in Winding => state[g.f] = "unloading"
    /\ g.at \in Holding => pinned[g.f] # Inactive
    /\ LookFacts(g)

\* The snapshot has the binding each name was resolved to, and no other one of
\* that name.
Pinned(f) ==
    \A n \in ToSet(Inject[f]) : \E b \in pinned[f] :
        /\ made[b].name = n /\ made[b].label = Scope[f][n]
        /\ epoch[f] # Inactive => b \in epoch[f]
        /\ \A c \in pinned[f] : made[c].name = n => c = b

\* No fiber injects what it provides itself.
Apart == \A f \in Fibers : ToSet(Inject[f]) \cap ToSet(Offers[f]) = {}

SnapshotFacts(f) ==
    /\ state[f] = "active" => pinned[f] # Inactive
    /\ epoch[f] # Inactive => Fits(f, epoch[f])
    /\ Apart /\ pinned[f] # Inactive => Pinned(f)

GenerationInv ==
    /\ \A g \in Calls : GenerationFacts(g)
    /\ \A f \in Fibers : SnapshotFacts(f)

----------------------------------------------------------------------------
(* The fields of a fiber and the place of its driver. *)

\* An active fiber has a generation, until its driver unloads it.
PhaseFacts(g) ==
    /\ g.at \in Owning \ {"unloading"} /\ state[g.f] = "active" => live[g.f]
    /\ g.at \in Started \cup (Loads \ {"load"}) \cup {"giveBack"} =>
         live[g.f] /\ state[g.f] # "active"
    /\ g.at \in (Unloads \ {"unload"}) \cup {"failed", "reload", "load", "gaveBack"} =>
         ~live[g.f]
    /\ g.at \in Looking /\ g.cont = "reload" => ~live[g.f] /\ epoch[g.f] = Inactive
    /\ g.at = "remove" => disposed[g.f]

FiberPhase(f) ==
    /\ ~busy[f] /\ state[f] = "active" => live[f]
    /\ dirty[f] => busy[f] \/ disposed[f]
    /\ f \in loaded /\ ~disposed[f] => f \in attached

PhaseInv ==
    /\ \A g \in Calls : PhaseFacts(g)
    /\ \A f \in Fibers : FiberPhase(f)

----------------------------------------------------------------------------
(* Changes on their way. *)

\* A fiber is told of its services in the scope they are registered in.
Aligned == Place = Scope

\* The binding has been released, or its provider stops being active.
Down(b) == ~InSlot(b) \/ (Aligned /\ state[made[b].provider] # "active")

\* The call that waits while those who inject the binding are told.
Waits(g, b) ==
    IF InSlot(b) THEN g.at = "clear" /\ g.f = made[b].provider
                 ELSE g.at = "unpin" /\ g.b = b

\* A call that will tell f, or tells those who tell f.
Tells(g, f, b) ==
    \/ g.at = "names" /\ InSlot(b) /\ g.f = made[b].provider
    \/ g.at = "notify" /\ g.name = made[b].name /\ g.label = made[b].label
    \/ g.at = "begin" /\ g.f = f

Told(f, b) ==
    \E t \in Threads : \E i, j \in 1..Len(stack[t]) :
        i < j /\ Waits(stack[t][i], b) /\ Tells(stack[t][j], f, b)
Reached(f, b) == dirty[f] \/ disposed[f] \/ Told(f, b)

\* The driver of the fiber is going to look, or to replace its epoch.
Replaces(g) ==
    \/ g.at \in Looking \cup Loads
    \/ g.at \in {"pass", "sync", "applyUnload", "reload", "giveBack"}
    \/ g.at \in Unloads /\ g.cont = "reload"
Replacing(f) == \E g \in Calls : g.f = f /\ Replaces(g)

CurrentFacts(g) ==
    /\ g.at \in Looking \cup Loads =>
         \A b \in g.got : Down(b) => Reached(g.f, b)
    /\ g.at = "check" /\ ~InSlot(g.b) => Reached(g.f, g.b)
    /\ g.at = "probe" /\ Down(g.b) => Reached(g.f, g.b)

CurrentInv ==
    /\ \A g \in Calls : CurrentFacts(g)
    /\ \A f \in Fibers : \A b \in epoch[f] \ Inactive :
         Down(b) => Reached(f, b) \/ Replacing(f)
=============================================================================
