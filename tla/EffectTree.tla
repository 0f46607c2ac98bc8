----------------------------- MODULE EffectTree -----------------------------
(***************************************************************************)
(* The effect tree of one fiber lifetime (disposable.go and the effect     *)
(* functions of fiber.go).                                                 *)
(*                                                                         *)
(* Effects are registered on the fiber or under an effect whose body is    *)
(* still running; an entry is published before its body runs.  An effect   *)
(* is released by its own handle, by the release of its owner, by the      *)
(* teardown of the fiber, or, when one of these arrives while the body     *)
(* runs, by the goroutine that runs the body.  All of them meet at the     *)
(* entry's releaseOnce.                                                    *)
(*                                                                         *)
(* A goroutine is its stack of calls.  A step is one critical section of   *)
(* Fiber.mu, effectEntry.mu or disposableList.mu, or the entry to or exit  *)
(* from a sync.Once, or the cleanup function itself.  Cleanup functions    *)
(* call no Disposer of the tree: the cycles documented on Disposer do not  *)
(* occur.                                                                  *)
(***************************************************************************)
EXTENDS Integers, Sequences

CONSTANTS
    Threads,       \* goroutines
    MaxEffects     \* bound: how many effects are ever registered

ASSUME EffectsAssumption == MaxEffects \in Nat

(***************************************************************************)
(* An effect is its position in registration order, which is the order of  *)
(* the list of its owner: tryEffect holds Fiber.mu while it adds or adopts.*)
(* 0 is the fiber itself as an owner.                                      *)
(***************************************************************************)
Effects == 1..MaxEffects
Fiber == 0

VARIABLES
    registered,   \* number of effects registered so far
    owner,        \* the effect whose scope an effect was registered through
    tree,         \* disposables: the effects listed by the fiber
    children,     \* the effects listed by an effect
    running, installed, deferred, done,   \* fields of an effectEntry
    once,         \* releaseOnce of an entry
    handle,       \* the Once of the Disposer returned to the caller
    fiber,        \* whether the fiber is open, being torn down or torn down
    cleaned,      \* how often the cleanup function of an effect ran
    stack         \* the calls each goroutine is in

entries == <<registered, owner, running, installed, deferred, done>>
lists == <<tree, children>>
onces == <<once, handle>>
vars == <<entries, lists, onces, fiber, cleaned, stack>>

OnceStates == {"new", "running", "done"}
Calls == {"body", "finish", "finishPanic", "install", "panicDetach", "abandon",
          "orphans", "handle", "detach", "request", "once", "claim",
          "cleanup", "children", "onceDone", "teardown", "clear", "sweep"}
Frames == [at : Calls, e : Effects \cup {Fiber}, todo : SUBSET Effects]

TypeOK ==
    /\ registered \in 0..MaxEffects
    /\ owner \in [Effects -> Effects \cup {Fiber}]
    /\ tree \subseteq Effects /\ children \in [Effects -> SUBSET Effects]
    /\ running \in [Effects -> BOOLEAN] /\ installed \in [Effects -> BOOLEAN]
    /\ deferred \in [Effects -> BOOLEAN] /\ done \in [Effects -> BOOLEAN]
    /\ once \in [Effects -> OnceStates]
    /\ handle \in [Effects -> OnceStates \cup {"none"}]
    /\ fiber \in {"open", "closing", "unloading", "torn"}
    /\ cleaned \in [Effects -> Nat]
    /\ stack \in [Threads -> Seq(Frames)]
    /\ \A e \in Effects : ~(running[e] /\ installed[e])

Init ==
    /\ registered = 0 /\ owner = [e \in Effects |-> Fiber]
    /\ tree = {} /\ children = [e \in Effects |-> {}]
    /\ running = [e \in Effects |-> FALSE]
    /\ installed = [e \in Effects |-> FALSE]
    /\ deferred = [e \in Effects |-> FALSE]
    /\ done = [e \in Effects |-> FALSE]
    /\ once = [e \in Effects |-> "new"]
    /\ handle = [e \in Effects |-> "none"]
    /\ fiber = "open"
    /\ cleaned = [e \in Effects |-> 0]
    /\ stack = [t \in Threads |-> <<>>]

----------------------------------------------------------------------------
(* Stacks. *)

Frame(at, e) == [at |-> at, e |-> e, todo |-> {}]
Top(t) == stack[t][Len(stack[t])]
Below(t) == SubSeq(stack[t], 1, Len(stack[t]) - 1)
In(t, at) == stack[t] # <<>> /\ Top(t).at = at

Call(t, frame) == stack' = [stack EXCEPT ![t] = Append(@, frame)]
Become(t, frame) == stack' = [stack EXCEPT ![t] = Append(Below(t), frame)]
Goto(t, at) == Become(t, [Top(t) EXCEPT !.at = at])
Return(t) == stack' = [stack EXCEPT ![t] = Below(t)]

\* A goroutine calls in from outside, or from the body it runs.
CanCall(t) == stack[t] = <<>> \/ In(t, "body")

\* Mutant: oldest first.
Oldest(S) == CHOOSE e \in S : \A f \in S : e <= f


Newest(S) == CHOOSE e \in S : \A f \in S : f <= e

\* Release a set of effects newest first, then continue at the given call.
ReleaseNext(t) ==
    LET e == Newest(Top(t).todo)
        rest == [Top(t) EXCEPT !.todo = @ \ {e}]
    IN  stack' = [stack EXCEPT ![t] =
                    Append(Append(Below(t), rest), Frame("request", e))]

\* Drop an effect from the list of its owner: the removal handle of the
\* fiber's list, or detach.
Unlist(e) ==
    IF owner[e] = Fiber
    THEN tree' = tree \ {e} /\ children' = children
    ELSE tree' = tree /\ children' = [children EXCEPT ![owner[e]] = @ \ {e}]

----------------------------------------------------------------------------
(* tryEffect. *)

\* adopt: only an entry whose body is running takes nested ones.
Adopts(o) == running[o] /\ ~done[o]

\* Publish an entry under the fiber, or have the owner adopt it; a fiber that
\* is unloading and an owner whose scope is inactive refuse (no step).
Register(t, o) ==
    /\ CanCall(t) /\ registered < MaxEffects
    /\ fiber = "open"
    /\ LET e == registered + 1 IN
       /\ IF o = Fiber
          THEN tree' = tree \cup {e} /\ children' = children
          ELSE /\ Adopts(o)
               /\ children' = [children EXCEPT ![o] = @ \cup {e}]
               /\ tree' = tree
       /\ registered' = e
       /\ owner' = [owner EXCEPT ![e] = o]
       /\ running' = [running EXCEPT ![e] = TRUE]
       /\ Call(t, Frame("body", e))
    /\ UNCHANGED <<installed, deferred, done, onces, fiber, cleaned>>

\* The body returns a disposer or panics.
BodyEnds(t) ==
    /\ In(t, "body")
    /\ Goto(t, "finish") \/ Goto(t, "finishPanic")
    /\ UNCHANGED <<entries, lists, onces, fiber, cleaned>>


FinishBody(t) ==
    /\ In(t, "finish") \/ In(t, "finishPanic")
    /\ running' = [running EXCEPT ![Top(t).e] = FALSE]
    /\ Goto(t, IF In(t, "finish") THEN "install" ELSE "panicDetach")
    /\ UNCHANGED <<registered, owner, installed, deferred, done, lists, onces,
                   fiber, cleaned>>

\* setDispose: release at once what somebody asked to release meanwhile,
\* otherwise return the handle.
SetDispose(t) ==
    /\ In(t, "install")
    /\ LET e == Top(t).e IN
       /\ installed' = [installed EXCEPT ![e] = TRUE]
       /\ IF deferred[e] /\ ~done[e]
          THEN handle' = handle /\ Goto(t, "request")
          ELSE handle' = [handle EXCEPT ![e] = "new"] /\ Return(t)
    /\ UNCHANGED <<registered, owner, running, deferred, done, lists, once,
                   fiber, cleaned>>

\* A body that panicked: leave the owner's list, give up the entry, and
\* release what the body had registered under it.
PanicDetach(t) ==
    /\ In(t, "panicDetach")
    /\ Unlist(Top(t).e)
    /\ Goto(t, "abandon")
    /\ UNCHANGED <<entries, onces, fiber, cleaned>>

\* Mutant: giving up an entry forgets what was nested under it.
AbandonWithChildren(t) ==
    /\ In(t, "abandon")
    /\ done' = [done EXCEPT ![Top(t).e] = TRUE]
    /\ running' = [running EXCEPT ![Top(t).e] = FALSE]
    /\ Return(t)
    /\ UNCHANGED <<registered, owner, installed, deferred, lists, onces, fiber,
                   cleaned>>


Abandon(t) ==
    /\ In(t, "abandon")
    /\ LET e == Top(t).e IN
       /\ done' = [done EXCEPT ![e] = TRUE]
       /\ running' = [running EXCEPT ![e] = FALSE]
       /\ children' = [children EXCEPT ![e] = {}]
       /\ Become(t, [at |-> "orphans", e |-> e, todo |-> children[e]])
    /\ UNCHANGED <<registered, owner, installed, deferred, tree, onces, fiber,
                   cleaned>>

Orphans(t) ==
    /\ In(t, "orphans")
    /\ IF Top(t).todo # {} THEN ReleaseNext(t) ELSE Return(t)
    /\ UNCHANGED <<entries, lists, onces, fiber, cleaned>>

----------------------------------------------------------------------------
(* The Disposer returned by tryEffect. *)

CallHandle(t, e) ==
    /\ CanCall(t)
    /\ handle[e] = "new"
    /\ Call(t, Frame("handle", e))
    /\ UNCHANGED <<entries, lists, onces, fiber, cleaned>>

\* Once: the first caller releases and unlists, the others wait for it.
EnterHandle(t) ==
    /\ In(t, "handle")
    /\ LET e == Top(t).e IN
       \/ /\ handle[e] = "new"
          /\ handle' = [handle EXCEPT ![e] = "running"]
          /\ stack' = [stack EXCEPT ![t] =
                         Append(Append(Below(t), Frame("detach", e)),
                                Frame("request", e))]
       \/ /\ handle[e] = "done"
          /\ handle' = handle
          /\ Return(t)
    /\ UNCHANGED <<entries, lists, once, fiber, cleaned>>

Detach(t) ==
    /\ In(t, "detach")
    /\ Unlist(Top(t).e)
    /\ handle' = [handle EXCEPT ![Top(t).e] = "done"]
    /\ Return(t)
    /\ UNCHANGED <<entries, once, fiber, cleaned>>

----------------------------------------------------------------------------
(* runDisposer. *)

\* Mutant: the disposer runs without the once that all releases share.
RequestDisposeDirectly(t) ==
    /\ In(t, "request")
    /\ LET e == Top(t).e IN
       IF installed[e]
       THEN deferred' = deferred /\ Goto(t, "cleanup")
       ELSE /\ deferred' = [deferred EXCEPT ![e] = @ \/ ~done[e]]
            /\ Return(t)
    /\ UNCHANGED <<registered, owner, running, installed, done, lists, onces,
                   fiber, cleaned>>

\* Mutant: a request that finds no disposer yet is dropped.
RequestDisposeDropped(t) ==
    /\ In(t, "request")
    /\ IF installed[Top(t).e] THEN Goto(t, "once") ELSE Return(t)
    /\ UNCHANGED <<entries, lists, onces, fiber, cleaned>>

\* requestDispose: without a disposer the request is left to the body's end.
RequestDispose(t) ==
    /\ In(t, "request")
    /\ LET e == Top(t).e IN
       IF installed[e]
       THEN deferred' = deferred /\ Goto(t, "once")
       ELSE /\ deferred' = [deferred EXCEPT ![e] = @ \/ ~done[e]]
            /\ Return(t)
    /\ UNCHANGED <<registered, owner, running, installed, done, lists, onces,
                   fiber, cleaned>>

\* Mutant: a flag instead of a once: the second caller does not wait.
EnterOnceWithoutWaiting(t) ==
    /\ In(t, "once")
    /\ LET e == Top(t).e IN
       \/ /\ once[e] = "new"
          /\ once' = [once EXCEPT ![e] = "running"]
          /\ Goto(t, "claim")
       \/ once[e] # "new" /\ once' = once /\ Return(t)
    /\ UNCHANGED <<entries, lists, handle, fiber, cleaned>>

\* releaseOnce.Do: the first one runs the release, the others wait for it.
EnterOnce(t) ==
    /\ In(t, "once")
    /\ LET e == Top(t).e IN
       \/ /\ once[e] = "new"
          /\ once' = [once EXCEPT ![e] = "running"]
          /\ Goto(t, "claim")
       \/ /\ once[e] = "done"
          /\ once' = once
          /\ Return(t)
    /\ UNCHANGED <<entries, lists, handle, fiber, cleaned>>

ClaimDispose(t) ==
    /\ In(t, "claim")
    /\ LET e == Top(t).e IN
       IF done[e]
       THEN UNCHANGED <<done, children>> /\ Goto(t, "onceDone")
       ELSE /\ done' = [done EXCEPT ![e] = TRUE]
            /\ children' = [children EXCEPT ![e] = {}]
            /\ Become(t, [at |-> "cleanup", e |-> e, todo |-> children[e]])
    /\ UNCHANGED <<registered, owner, running, installed, deferred, tree,
                   onces, fiber, cleaned>>

\* callDisposer: the cleanup function; a panic in it is logged and swallowed.
CallDisposer(t) ==
    /\ In(t, "cleanup")
    /\ cleaned' = [cleaned EXCEPT ![Top(t).e] = @ + 1]
    /\ Goto(t, "children")
    /\ UNCHANGED <<entries, lists, onces, fiber>>

UnwindChildren(t) ==
    /\ In(t, "children")
    /\ IF Top(t).todo # {} THEN ReleaseNext(t) ELSE Goto(t, "onceDone")
    /\ UNCHANGED <<entries, lists, onces, fiber, cleaned>>

\* Mutant: the end of a release is not published.
LeaveOnceUnpublished(t) ==
    /\ In(t, "onceDone")
    /\ Return(t)
    /\ UNCHANGED <<entries, lists, onces, fiber, cleaned>>


LeaveOnce(t) ==
    /\ In(t, "onceDone")
    /\ once' = [once EXCEPT ![Top(t).e] = "done"]
    /\ Return(t)
    /\ UNCHANGED <<entries, lists, handle, fiber, cleaned>>

----------------------------------------------------------------------------
(* unload, as far as the tree is concerned. *)

\* Some goroutine disposes the fiber and drives its unloading.
Dispose(t) ==
    /\ CanCall(t)
    /\ fiber = "open" /\ fiber' = "closing"
    /\ Call(t, Frame("teardown", Fiber))
    /\ UNCHANGED <<entries, lists, onces, cleaned>>

SetUnloading(t) ==
    /\ In(t, "teardown")
    /\ fiber' = "unloading"
    /\ Goto(t, "clear")
    /\ UNCHANGED <<entries, lists, onces, cleaned>>

Clear(t) ==
    /\ In(t, "clear")
    /\ tree' = {}
    /\ Become(t, [at |-> "sweep", e |-> Fiber, todo |-> tree])
    /\ UNCHANGED <<entries, children, onces, fiber, cleaned>>

Sweep(t) ==
    /\ In(t, "sweep")
    /\ IF Top(t).todo # {}
       THEN ReleaseNext(t) /\ fiber' = fiber
       ELSE Return(t) /\ fiber' = "torn"
    /\ UNCHANGED <<entries, lists, onces, cleaned>>

----------------------------------------------------------------------------
Request(t) ==
    \/ \E o \in Effects \cup {Fiber} : Register(t, o)
    \/ \E e \in Effects : CallHandle(t, e)
    \/ Dispose(t)

Proceed(t) ==
    \/ BodyEnds(t) \/ FinishBody(t) \/ SetDispose(t)
    \/ PanicDetach(t) \/ Abandon(t) \/ Orphans(t)
    \/ EnterHandle(t) \/ Detach(t)
    \/ RequestDispose(t) \/ EnterOnce(t) \/ ClaimDispose(t) \/ CallDisposer(t)
    \/ UnwindChildren(t) \/ LeaveOnce(t)
    \/ SetUnloading(t) \/ Clear(t) \/ Sweep(t)

Quiet == \A t \in Threads : stack[t] = <<>>

\* The program may stop when every call has returned, and only then.
Stop == Quiet /\ UNCHANGED vars

Next == (\E t \in Threads : Request(t) \/ Proceed(t)) \/ Stop

Spec == Init /\ [][Next]_vars

----------------------------------------------------------------------------
(* What the tree promises. *)

Registered == 1..registered

\* Released together with everything that was nested under it.
Released(e) == once[e] = "done" \/ (done[e] /\ ~installed[e])

\* "Disposers are idempotent and safe to call from multiple goroutines": no
\* meeting of handle, owner, fiber and deferred release runs a cleanup twice
\* (claimDispose, releaseOnce).
AtMostOnce == \A e \in Effects : cleaned[e] <= 1

\* A panicked body that has left its owner's list and is about to release
\* what it had registered, on its own account.
Panicking(e) == \E t \in Threads : \E i \in 1..Len(stack[t]) :
                   stack[t][i].e = e /\ stack[t][i].at = "abandon"

\* Neither the handle nor an owner's release returns while a cleanup it covers
\* is still running: a finished release has cleaned the effect, and has
\* released its nested effects or left them to the goroutine that is still in
\* their body (runDisposer).
ReleaseIsComplete ==
    \A e \in Registered :
        /\ handle[e] = "done" => once[e] = "done"
        /\ once[e] = "done" =>
             /\ cleaned[e] = 1
             /\ \A c \in Registered :
                  owner[c] = e =>
                    Released(c) \/ deferred[c] \/ Panicking(c)

\* Some goroutine is past the point where it decides to release e.
InProgress(e) ==
    \E t \in Threads : \E i \in 1..Len(stack[t]) :
        LET f == stack[t][i] IN
        e \in f.todo \/ (f.e = e /\ f.at # "body" /\ f.at # "handle")

\* A torn-down fiber has released every effect it listed, but for those whose
\* body was still running; and when the last call has returned, every effect
\* that was ever accepted (unload, tryEffect).
TeardownIsComplete ==
    fiber = "torn" =>
        /\ \A e \in Registered :
             owner[e] = Fiber => Released(e) \/ deferred[e] \/ InProgress(e)
        /\ Quiet => \A e \in Registered : Released(e)

\* A live entry stays where some release will find it: listed by the fiber or
\* by a live owner, taken over by a release under way, or deferred to the
\* goroutine that runs its body (tryEffect, abandon, claimDispose).
NoOrphan ==
    \A e \in Registered :
        \/ done[e] \/ deferred[e] \/ InProgress(e)
        \/ owner[e] = Fiber /\ e \in tree
        \/ owner[e] # Fiber /\ e \in children[owner[e]] /\ ~done[owner[e]]

\* Left to its owner, an effect is cleaned after the owner and after every
\* younger effect of the same owner; a panicked body is not waited for
\* (unwindChildren, disposableList.clear).
LeftToOwner(e) == handle[e] = "new" /\ ~deferred[e]

OwnersOrder ==
    \A e \in Registered :
        cleaned[e] = 1 /\ LeftToOwner(e) =>
            /\ owner[e] # Fiber =>
                 cleaned[owner[e]] = 1 \/ ~installed[owner[e]]
            /\ \A y \in Registered :
                 y > e /\ owner[y] = owner[e] =>
                    Released(y) \/ deferred[y] \/ Panicking(y)

\* A goroutine waits for another one inside a Once, or for itself.
Waiting(t) ==
    \/ In(t, "once") /\ once[Top(t).e] = "running"
    \/ In(t, "handle") /\ handle[Top(t).e] = "running"

Blocks(u, t) == \E i \in 1..Len(stack[u]) :
    /\ stack[u][i].e = Top(t).e
    /\ stack[u][i].at \in IF In(t, "handle") THEN {"detach"}
                          ELSE {"claim", "cleanup", "children", "onceDone"}

\* Every chain of waits ends at a goroutine that can move, so every call
\* returns: releases of effects that nest in each other, handles and teardowns
\* never wait in a circle (releaseOnce, Once).
WaitsEnd ==
    \A S \in SUBSET Threads :
        (\A t \in S : Waiting(t)) =>
            S = {} \/ \E t \in S : \E u \in Threads \ S : Blocks(u, t)
=============================================================================
