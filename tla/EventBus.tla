------------------------------ MODULE EventBus ------------------------------
(***************************************************************************)
(* The event bus and the lifetime of its listeners (events.go).            *)
(*                                                                         *)
(* A dispatch runs the listeners of one event from a snapshot.  A          *)
(* once-listener is claimed by one dispatch, and retired by it: it leaves  *)
(* the bus and its effect entry is disposed, although the registration may *)
(* not have stored the entry's disposer yet.  Meanwhile its owner may call *)
(* that disposer, and the fiber may unload.                                *)
(*                                                                         *)
(* A goroutine is its stack of calls; a listener may register, dispose and *)
(* dispatch in turn.  A step is one critical section of eventBus.mu or of  *)
(* the effect tree, one atomic operation on a listener, or one entry to or *)
(* exit from a sync.Once.  The effect entry is that of EffectTree, without *)
(* nesting.  A goroutine that Parallel starts is one of Threads that is    *)
(* in no other call.  The payload is data.                                 *)
(***************************************************************************)
EXTENDS Integers, SequencesExt

CONSTANTS
    Threads,        \* goroutines
    Listeners,      \* listeners of the event that are ever registered
    OnceListeners,  \* those registered with WithOnce
    InScope,        \* those a scoped dispatch reaches: global, or of its scope
    MaxDispatches   \* bound: how many dispatches are started

\* No listener, no disposer, no goroutine.
None == "none"

ASSUME BusAssumption ==
    /\ OnceListeners \subseteq Listeners /\ InScope \subseteq Listeners
    /\ None \notin Threads \cup Listeners
    /\ MaxDispatches \in Nat

VARIABLES
    hooks,                \* the listeners on the bus, in dispatch order
    fired, released,      \* atomic flags of a listener
    cleanup,              \* atomic pointer to the disposer of its entry
    listed,               \* entries in the fiber's tree, oldest first
    installed, deferred,  \* fields of the entry
    disposer,             \* what tryEffect returned: a handle or a no-op
    releaseOnce, handleOnce,   \* the Once of the entry and of its handle
    fiber,                \* the fiber is open, closing, unloading or torn
    dispatches,           \* dispatches started
    runs,                 \* how often a listener ran
    spawned,              \* listeners whose goroutine is still to be scheduled,
                          \* each with the goroutine that waits for it
    serving,              \* the goroutine that waits for this one
    stack                 \* the calls each goroutine is in

flags == <<fired, released, cleanup>>
entry == <<listed, installed, deferred, disposer, releaseOnce, handleOnce>>
counts == <<dispatches, runs>>
group == <<spawned, serving>>
vars == <<hooks, flags, entry, fiber, counts, group, stack>>

OnceStates == {"new", "running", "done"}
Disposers == {None, "handle", "noop"}
Calls == {"add", "install", "store", "check",
          "deliver", "join", "work", "returned", "fn", "retire", "unhook", "cleanup",
          "handle", "unlist", "request", "once", "remove", "onceDone",
          "teardown", "clear", "sweep"}
Frames == [at : Calls, l : Listeners \cup {None}, todo : Seq(Listeners)]

TypeOK ==
    /\ hooks \in Seq(Listeners) /\ listed \in Seq(Listeners)
    /\ fired \in [Listeners -> BOOLEAN] /\ released \in [Listeners -> BOOLEAN]
    /\ cleanup \in [Listeners -> Disposers]
    /\ installed \in [Listeners -> BOOLEAN]
    /\ deferred \in [Listeners -> BOOLEAN]
    /\ disposer \in [Listeners -> Disposers]
    /\ releaseOnce \in [Listeners -> OnceStates]
    /\ handleOnce \in [Listeners -> OnceStates]
    /\ fiber \in {"open", "closing", "unloading", "torn"}
    /\ dispatches \in 0..MaxDispatches /\ runs \in [Listeners -> Nat]
    /\ spawned \subseteq Threads \X Listeners
    /\ serving \in [Threads -> Threads \cup {None}]
    /\ stack \in [Threads -> Seq(Frames)]
    /\ IsInjective(hooks) /\ IsInjective(listed)

Init ==
    /\ hooks = <<>> /\ listed = <<>>
    /\ fired = [l \in Listeners |-> FALSE]
    /\ released = [l \in Listeners |-> FALSE]
    /\ cleanup = [l \in Listeners |-> None]
    /\ installed = [l \in Listeners |-> FALSE]
    /\ deferred = [l \in Listeners |-> FALSE]
    /\ disposer = [l \in Listeners |-> None]
    /\ releaseOnce = [l \in Listeners |-> "new"]
    /\ handleOnce = [l \in Listeners |-> "new"]
    /\ fiber = "open"
    /\ dispatches = 0 /\ runs = [l \in Listeners |-> 0]
    /\ spawned = {} /\ serving = [t \in Threads |-> None]
    /\ stack = [t \in Threads |-> <<>>]

----------------------------------------------------------------------------
(* Stacks. *)

Frame(at, l) == [at |-> at, l |-> l, todo |-> <<>>]
Top(t) == Last(stack[t])
Subject(t) == Top(t).l
In(t, at) == stack[t] # <<>> /\ Top(t).at = at

\* Replace the top call by a sequence of calls, the last of which runs first.
Continue(t, calls) == stack' = [stack EXCEPT ![t] = Front(@) \o calls]
Goto(t, at) == Continue(t, <<[Top(t) EXCEPT !.at = at]>>)
Return(t) == Continue(t, <<>>)
Call(t, calls) == stack' = [stack EXCEPT ![t] = @ \o calls]

\* A goroutine calls in from outside, or from the listener it runs.
CanCall(t) == stack[t] = <<>> \/ In(t, "fn")

Set(flag, l) == [flag EXCEPT ![l] = TRUE]

----------------------------------------------------------------------------
(* on: register a listener as an effect of the fiber. *)

\* tryEffect publishes the entry; a closed fiber refuses it.
Register(t, l) ==
    /\ CanCall(t) /\ fiber = "open"
    /\ \A u \in Threads : \A i \in DOMAIN stack[u] : stack[u][i].l # l
    /\ disposer[l] = None /\ l \notin ToSet(listed)
    /\ listed' = Append(listed, l)
    /\ Call(t, <<Frame("check", l), Frame("store", l), Frame("install", l),
                 Frame("add", l)>>)
    /\ UNCHANGED <<hooks, flags, installed, deferred, disposer, releaseOnce,
                   handleOnce, fiber, counts, group>>

\* The effect body puts the listener on the bus, at the front with Prepend.
Add(t) ==
    /\ In(t, "add")
    /\ hooks' \in {<<Subject(t)>> \o hooks, Append(hooks, Subject(t))}
    /\ Return(t)
    /\ UNCHANGED <<flags, entry, fiber, counts, group>>

\* setDispose: the entry was released meanwhile, and is unwound here, or
\* tryEffect returns a handle.
SetDispose(t) ==
    /\ In(t, "install")
    /\ LET l == Subject(t) IN
       /\ installed' = Set(installed, l)
       /\ IF deferred[l]
          THEN disposer' = [disposer EXCEPT ![l] = "noop"] /\ Goto(t, "once")
          ELSE disposer' = [disposer EXCEPT ![l] = "handle"] /\ Return(t)
    /\ UNCHANGED <<hooks, flags, listed, deferred, releaseOnce, handleOnce,
                   fiber, counts, group>>

StoreCleanup(t) ==
    /\ In(t, "store")
    /\ cleanup' = [cleanup EXCEPT ![Subject(t)] = disposer[Subject(t)]]
    /\ Return(t)
    /\ UNCHANGED <<hooks, fired, released, entry, fiber, counts, group>>

\* Mutant: the registration does not look whether the listener was retired.
RegisteredUnchecked(t) ==
    /\ In(t, "check")
    /\ Return(t)
    /\ UNCHANGED <<hooks, flags, entry, fiber, counts, group>>

\* A dispatch that retired the listener before its disposer was stored has
\* left the entry to the registration.
CheckReleased(t) ==
    /\ In(t, "check")
    /\ IF released[Subject(t)] THEN Goto(t, "handle") ELSE Return(t)
    /\ UNCHANGED <<hooks, flags, entry, fiber, counts, group>>

----------------------------------------------------------------------------
(* Emit, Bail and Parallel. *)

\* selectListeners: the bus as it is now, or, for the Scoped variants, what the
\* scope filter leaves of it.
Scoped(source) ==
    LET out[i \in 0..Len(source)] ==
          IF i = 0 THEN <<>>
          ELSE IF source[i] \in InScope THEN Append(out[i - 1], source[i])
          ELSE out[i - 1]
    IN  out[Len(source)]

Selected == {hooks, Scoped(hooks)}

Deliveries(listeners) == [at |-> "deliver", l |-> None, todo |-> listeners]

Dispatch(t) ==
    /\ CanCall(t) /\ dispatches < MaxDispatches
    /\ dispatches' = dispatches + 1
    /\ \E listeners \in Selected : Call(t, <<Deliveries(listeners)>>)
    /\ UNCHANGED <<hooks, flags, entry, fiber, runs, group>>

\* Parallel starts a goroutine for each listener and waits for all of them.
Parallel(t) ==
    /\ CanCall(t) /\ dispatches < MaxDispatches
    /\ dispatches' = dispatches + 1
    /\ \E listeners \in Selected :
         spawned' = spawned \cup {<<t, l>> : l \in ToSet(listeners)}
    /\ Call(t, <<Frame("join", None)>>)
    /\ UNCHANGED <<hooks, flags, entry, fiber, runs, serving>>

Start(u) ==
    /\ stack[u] = <<>>
    /\ \E job \in spawned :
         /\ spawned' = spawned \ {job}
         /\ serving' = [serving EXCEPT ![u] = job[1]]
         /\ Call(u, <<Frame("work", None), Deliveries(<<job[2]>>)>>)
    /\ UNCHANGED <<hooks, flags, entry, fiber, counts>>

\* wg.Done.
Done(u) ==
    /\ In(u, "work")
    /\ serving' = [serving EXCEPT ![u] = None]
    /\ Return(u)
    /\ UNCHANGED <<hooks, flags, entry, fiber, counts, spawned>>

Unfinished(t) == (\E job \in spawned : job[1] = t) \/ (\E u \in Threads : serving[u] = t)

\* Mutant: the goroutines count themselves in when they start.
JoinStarted(t) ==
    /\ In(t, "join") /\ \A u \in Threads : serving[u] # t
    /\ Return(t)
    /\ UNCHANGED <<hooks, flags, entry, fiber, counts, group>>

Join(t) ==
    /\ In(t, "join") /\ ~Unfinished(t)
    /\ Return(t)
    /\ UNCHANGED <<hooks, flags, entry, fiber, counts, group>>

\* Mutant: the claim reads the flag but does not take it.
ClaimedUntaken(l) == (l \in OnceListeners => ~fired[l]) /\ fired' = fired

\* claim: one dispatch may run a once-listener.
Claimed(l) ==
    /\ l \in OnceListeners => ~fired[l]
    /\ fired' = IF l \in OnceListeners THEN Set(fired, l) ELSE fired

\* invoke the next listener of the snapshot, unless another dispatch has it.
Deliver(t) ==
    /\ In(t, "deliver") /\ Top(t).todo # <<>>
    /\ LET l == Head(Top(t).todo)
           rest == [Top(t) EXCEPT !.todo = Tail(@)]
       IN  \/ /\ Claimed(l)
              /\ runs' = [runs EXCEPT ![l] = @ + 1]
              /\ Continue(t, <<[rest EXCEPT !.at = "returned"], Frame("fn", l)>>)
           \/ /\ l \in OnceListeners /\ fired[l]
              /\ UNCHANGED <<fired, runs>>
              /\ Continue(t, <<rest>>)
    /\ UNCHANGED <<hooks, released, cleanup, entry, fiber, dispatches, group>>

\* The listener returns or panics; either way a once-listener is retired.
ListenerReturns(t) ==
    /\ In(t, "fn")
    /\ IF Subject(t) \in OnceListeners THEN Goto(t, "retire") ELSE Return(t)
    /\ UNCHANGED <<hooks, flags, entry, fiber, counts, group>>

\* Emit goes on; Bail stops at the first value.
Returned(t) ==
    /\ In(t, "returned")
    /\ Goto(t, "deliver") \/ Return(t)
    /\ UNCHANGED <<hooks, flags, entry, fiber, counts, group>>

DispatchReturns(t) ==
    /\ In(t, "deliver") /\ Top(t).todo = <<>>
    /\ Return(t)
    /\ UNCHANGED <<hooks, flags, entry, fiber, counts, group>>

----------------------------------------------------------------------------
(* releaseOnce of the bus: retire a once-listener that has fired. *)

Retire(t) ==
    /\ In(t, "retire")
    /\ IF released[Subject(t)] THEN released' = released /\ Return(t)
       ELSE released' = Set(released, Subject(t)) /\ Goto(t, "unhook")
    /\ UNCHANGED <<hooks, fired, cleanup, entry, fiber, counts, group>>

Unhook(t) ==
    /\ In(t, "unhook")
    /\ hooks' = RemoveFirst(hooks, Subject(t))
    /\ Goto(t, "cleanup")
    /\ UNCHANGED <<flags, entry, fiber, counts, group>>

LoadCleanup(t) ==
    /\ In(t, "cleanup")
    /\ IF cleanup[Subject(t)] = None THEN Return(t) ELSE Goto(t, "handle")
    /\ UNCHANGED <<hooks, flags, entry, fiber, counts, group>>

----------------------------------------------------------------------------
(* The disposer of the effect entry. *)

\* on has returned the disposer to its caller.
Available(l) ==
    /\ cleanup[l] # None
    /\ \A t \in Threads : \A i \in DOMAIN stack[t] :
         ~(stack[t][i].at = "check" /\ stack[t][i].l = l)

\* A call that would do nothing any more is left out.
CallDisposer(t, l) ==
    /\ CanCall(t) /\ Available(l)
    /\ disposer[l] = "handle" /\ handleOnce[l] # "done"
    /\ Call(t, <<Frame("handle", l)>>)
    /\ UNCHANGED <<hooks, flags, entry, fiber, counts, group>>

\* Once: the first caller releases and unlists, the others wait for it; the
\* disposer of an entry that was released while it registered does nothing.
EnterHandle(t) ==
    /\ In(t, "handle")
    /\ LET l == Subject(t) IN
       \/ /\ disposer[l] = "noop" \/ handleOnce[l] = "done"
          /\ handleOnce' = handleOnce /\ Return(t)
       \/ /\ disposer[l] = "handle" /\ handleOnce[l] = "new"
          /\ handleOnce' = [handleOnce EXCEPT ![l] = "running"]
          /\ Continue(t, <<Frame("unlist", l), Frame("request", l)>>)
    /\ UNCHANGED <<hooks, flags, listed, installed, deferred, disposer,
                   releaseOnce, fiber, counts, group>>

\* Mutant: the handle leaves its entry in the tree.
UnlistNothing(t) ==
    /\ In(t, "unlist")
    /\ handleOnce' = [handleOnce EXCEPT ![Subject(t)] = "done"]
    /\ Return(t)
    /\ UNCHANGED <<hooks, flags, listed, installed, deferred, disposer,
                   releaseOnce, fiber, counts, group>>


Unlist(t) ==
    /\ In(t, "unlist")
    /\ listed' = RemoveFirst(listed, Subject(t))
    /\ handleOnce' = [handleOnce EXCEPT ![Subject(t)] = "done"]
    /\ Return(t)
    /\ UNCHANGED <<hooks, flags, installed, deferred, disposer, releaseOnce,
                   fiber, counts, group>>

\* requestDispose: without a disposer the request is left to the registration.
RequestDispose(t) ==
    /\ In(t, "request")
    /\ LET l == Subject(t) IN
       IF installed[l]
       THEN deferred' = deferred /\ Goto(t, "once")
       ELSE deferred' = Set(deferred, l) /\ Return(t)
    /\ UNCHANGED <<hooks, flags, listed, installed, disposer, releaseOnce,
                   handleOnce, fiber, counts, group>>

EnterOnce(t) ==
    /\ In(t, "once")
    /\ LET l == Subject(t) IN
       \/ /\ releaseOnce[l] = "new"
          /\ releaseOnce' = [releaseOnce EXCEPT ![l] = "running"]
          /\ Goto(t, "remove")
       \/ /\ releaseOnce[l] = "done"
          /\ releaseOnce' = releaseOnce /\ Return(t)
    /\ UNCHANGED <<hooks, flags, listed, installed, deferred, disposer,
                   handleOnce, fiber, counts, group>>

RemoveListener(t) ==
    /\ In(t, "remove")
    /\ hooks' = RemoveFirst(hooks, Subject(t))
    /\ Goto(t, "onceDone")
    /\ UNCHANGED <<flags, entry, fiber, counts, group>>

\* Mutant: the end of a release is not published.
LeaveOnceUnpublished(t) ==
    /\ In(t, "onceDone")
    /\ Return(t)
    /\ UNCHANGED <<hooks, flags, entry, fiber, counts, group>>

LeaveOnce(t) ==
    /\ In(t, "onceDone")
    /\ releaseOnce' = [releaseOnce EXCEPT ![Subject(t)] = "done"]
    /\ Return(t)
    /\ UNCHANGED <<hooks, flags, listed, installed, deferred, disposer,
                   handleOnce, fiber, counts, group>>

----------------------------------------------------------------------------
(* The fiber unloads. *)

Dispose(t) ==
    /\ CanCall(t) /\ fiber = "open"
    /\ fiber' = "closing"
    /\ Call(t, <<Frame("teardown", None)>>)
    /\ UNCHANGED <<hooks, flags, entry, counts, group>>

SetUnloading(t) ==
    /\ In(t, "teardown")
    /\ fiber' = "unloading"
    /\ Goto(t, "clear")
    /\ UNCHANGED <<hooks, flags, entry, counts, group>>

Clear(t) ==
    /\ In(t, "clear")
    /\ listed' = <<>>
    /\ Continue(t, <<[at |-> "sweep", l |-> None, todo |-> Reverse(listed)]>>)
    /\ UNCHANGED <<hooks, flags, installed, deferred, disposer, releaseOnce,
                   handleOnce, fiber, counts, group>>

Sweep(t) ==
    /\ In(t, "sweep")
    /\ IF Top(t).todo = <<>>
       THEN fiber' = "torn" /\ Return(t)
       ELSE /\ fiber' = fiber
            /\ Continue(t, <<[Top(t) EXCEPT !.todo = Tail(@)],
                             Frame("request", Head(Top(t).todo))>>)
    /\ UNCHANGED <<hooks, flags, entry, counts, group>>

----------------------------------------------------------------------------
Request(t) ==
    \/ Dispatch(t) \/ Parallel(t) \/ Dispose(t)
    \/ \E l \in Listeners : Register(t, l) \/ CallDisposer(t, l)

Proceed(t) ==
    \/ Add(t) \/ SetDispose(t) \/ StoreCleanup(t) \/ CheckReleased(t)
    \/ Start(t) \/ Done(t) \/ Join(t)
    \/ Deliver(t) \/ ListenerReturns(t) \/ Returned(t) \/ DispatchReturns(t)
    \/ Retire(t) \/ Unhook(t) \/ LoadCleanup(t)
    \/ EnterHandle(t) \/ Unlist(t) \/ RequestDispose(t) \/ EnterOnce(t)
    \/ RemoveListener(t) \/ LeaveOnce(t)
    \/ SetUnloading(t) \/ Clear(t) \/ Sweep(t)

Quiet == \A t \in Threads : stack[t] = <<>>

\* The program may stop when every call has returned, and only then.
Stop == Quiet /\ UNCHANGED vars

Next == (\E t \in Threads : Request(t) \/ Proceed(t)) \/ Stop

Spec == Init /\ [][Next]_vars

----------------------------------------------------------------------------
(* What the bus promises. *)

\* "OnOnce registers a typed listener that runs at most once", however many
\* dispatches hold it in their snapshot, nested ones included (claim).
OnceRunsOnce == \A l \in OnceListeners : runs[l] <= 1

\* A once-listener that has run leaves nothing behind: neither the bus nor
\* Effects() reports "a handler that can never run again", whichever of the
\* dispatch and the registration came last (releaseOnce, on).
RetiredLeavesNothing ==
    Quiet => \A l \in OnceListeners :
        fired[l] => l \notin ToSet(hooks) \cup ToSet(listed)

\* The bus holds exactly the listeners whose effect is live; a fiber that is
\* torn down has none on the bus (on, remove).
BusMatchesTree == Quiet => ToSet(hooks) = ToSet(listed)

\* A listener that Parallel started has returned, and has been retired if it
\* runs once, before Parallel does (wg.Wait).
ParallelJoins ==
    \A t, u \in Threads :
        /\ serving[u] = t => In(t, "join")
        /\ \A l \in Listeners : <<t, l>> \in spawned => In(t, "join")

\* A goroutine waits for another one inside a Once, or for those it started.
Waiting(t) ==
    \/ In(t, "once") /\ releaseOnce[Subject(t)] = "running"
    \/ In(t, "handle") /\ disposer[Subject(t)] = "handle"
                      /\ handleOnce[Subject(t)] = "running"
    \/ In(t, "join") /\ Unfinished(t)

Blocks(u, t) ==
    \/ serving[u] = t /\ In(t, "join")
    \/ \E i \in DOMAIN stack[u] :
         /\ stack[u][i].l = Subject(t)
         /\ \/ In(t, "handle") /\ stack[u][i].at = "unlist"
            \/ In(t, "once") /\ stack[u][i].at \in {"remove", "onceDone"}

\* Among any goroutines that wait, one waits for a goroutine that can move: a
\* dispatch that retires its listener, the registration it overtook, the
\* handle, a teardown and the goroutines of Parallel never wait in a circle
\* (releaseOnce, Once, parallelWith).
WaitsEnd ==
    \A S \in SUBSET Threads :
        (\A t \in S : Waiting(t)) =>
            \/ S = {}
            \/ \E t \in S : \/ \E u \in Threads \ S : Blocks(u, t)
                            \/ \E job \in spawned : In(t, "join") /\ job[1] = t
=============================================================================
