----------------------- MODULE ServiceGraphCoreProofs -----------------------
(***************************************************************************)
(* Proofs about ServiceGraph, continued: the actions that make and release *)
(* a binding keep CoreInv, which is thus an invariant; hence type          *)
(* correctness and SetInPlace. Then GenerationInv: what a generation runs  *)
(* with is what its fiber injects, one binding per name, and stays what it *)
(* is; hence PinnedReadable.                                               *)
(***************************************************************************)
EXTENDS ServiceGraphStepProofs

----------------------------------------------------------------------------
(* The calls and the bindings, action by action, continued: the calls that  *)
(* make and release a binding.                                              *)

\* A call about a binding goes on, at a place that nothing is said of.
LEMMA EntryPlaces ==
    /\ {"register", "refused", "pin", "tell", "install", "unregister", "unpin",
        "unlist", "request", "once"} \cap (Looking \cup Unloads \cup LookedUp
             \cup {"update", "provide", "run", "check", "probe"}) = {}
    /\ Registering = {"register", "refused", "pin", "tell", "install"}
    /\ Claiming = {"pin", "tell", "install"}
    /\ Releasing = {"unregister", "unpin"}
    /\ EntryCalls = {"register", "refused", "pin", "tell", "install", "unregister",
                     "unpin", "unlist", "request", "once"}
    /\ Providing = {"provide", "register", "refused"}
  BY DEF Registering, Releasing, EntryCalls, Claiming, LookedUp, Looking, Unloads,
         Providing

\* The body of a fiber, or nobody, is told of an error.
LEMMA FailStep1 ==
    ASSUME TypeOK, CallInv, BindInv, NEW t \in Threads, stack[t] # <<>>,
           NEW c, Fails(t, c), Top(t).at \notin Owning, busy' = busy,
           UNCHANGED <<slot, made, installed, once, loaded>>,
           \A b \in Bindings : EntryFacts(b)', \A f \in Fibers : FiberFacts(f)'
    PROVE  CallInv' /\ BindInv'
<1>1. CallInv'
  BY OwnerFails
<1>2. CASE Step(t, c) /\ IsNone(c)
  <2>1. Fit(t, c)
    BY <1>2, NothingFits
  <2>2. QED
    BY <1>1, <1>2, <2>1, BindStep
<1>3. CASE /\ Changes(t, Len(stack[t]) - 2, c)
           /\ Calls = Below(t) \cup {Caller(t), Top(t)}
           /\ Calls' = Below(t) \cup New(c)
           /\ Caller(t).at = "run"
           /\ Goes(c, Caller(t), "fail")
  <2>1. PICK g \in Frames : IsOne(c, g) /\ Moved(g, Caller(t), "fail")
    BY <1>3 DEF Goes
  <2>2. /\ "fail" \notin Delicate /\ "fail" \notin Registering \cup Releasing
        /\ "fail" \notin Looking \cup Unloads
    BY PlainPlaces DEF Looking, Unloads
  <2>3. CallFacts(g)
    <3>1. ComesBack(g)
      BY <2>1, <2>2 DEF ComesBack, Moved
    <3>2. CallFacts(Caller(t))
      BY <1>3 DEF BindInv
    <3>3. QED
      BY <2>1, <2>2, <3>1, <3>2, PlainMove DEF Moved
  <2>4. New(c) = {g} /\ g.at = "fail" /\ \A i \in 1..Len(c) : c[i] = g
    BY <2>1, NewCalls DEF Moved, IsOne
  <2>5. \A h \in Calls' : CallFacts(h)'
    BY <1>3, <2>3, <2>4, BindSame DEF BindInv
  <2>6. SlotsFit' /\ MadeFit'
    BY BindSame DEF BindInv
  <2> HIDE DEF Registering, Releasing
  <2>7. OneCallNext(Registering) /\ OneCallNext(Releasing)
    <3>1. /\ Distinct(Registering, c) /\ Unmet(Registering, Rest(t, Len(stack[t]) - 2), c)
          /\ Distinct(Releasing, c) /\ Unmet(Releasing, Rest(t, Len(stack[t]) - 2), c)
      BY <2>2, <2>4 DEF Distinct, Unmet
    <3>2. OneCall(Registering) /\ OneCall(Releasing)
      BY DEF BindInv
    <3>3. QED
      BY <1>3, <3>1, <3>2, OneCallStep
  <2>8. OneCall(Registering)' /\ OneCall(Releasing)'
    BY <2>7, KindsOfCalls DEF OneCall, OneCallNext
  <2>9. QED
    BY <1>1, <2>5, <2>6, <2>8 DEF BindInv
<1>4. QED
  BY <1>2, <1>3, FailCalls

\* A call goes on about a binding, and the facts of the others are kept.
LEMMA EntryStep ==
    ASSUME TypeOK, CallInv, BindInv, NEW t \in Threads, stack[t] # <<>>,
           NEW c, Step(t, c), Top(t).at \notin Owning, busy' = busy,
           \A i \in 1..Len(c) :
              /\ c[i].at \notin Owning
              /\ c[i].at \in Providing => i = 1 /\ Top(t).at \in Providing /\ c[i].f = Top(t).f,
           SlotsFit', MadeFit',
           \A b \in Bindings : EntryFacts(b)', \A f \in Fibers : FiberFacts(f)',
           \A g \in Others(t) : CallFacts(g)', \A i \in 1..Len(c) : CallFacts(c[i])',
           OneCalls'
    PROVE  CallInv' /\ BindInv'
<1>1. CallInv'
  BY NoOwnerGoesOn
<1>2. Calls' = Others(t) \cup New(c)
  BY StepCalls
<1>3. \A g \in Calls' : CallFacts(g)'
  BY <1>2 DEF New
<1>4. QED
  BY <1>1, <1>3 DEF BindInv, OneCalls

\* The entry of a binding goes from a list.
LEMMA ListShrinks ==
    ASSUME TypeOK, NEW f \in Fibers, NEW b, entries' = [entries EXCEPT ![f] = RemoveFirst(@, b)]
    PROVE  /\ entries' \in [Fibers -> Seq(Bindings)]
           /\ \A g \in Fibers : IsInjective(entries'[g])
           /\ \A g \in Fibers : ToSet(entries'[g]) \subseteq ToSet(entries[g])
           /\ ToSet(entries'[f]) = ToSet(entries[f]) \ {b}
           /\ \A g \in Fibers \ {f} : entries'[g] = entries[g]
<1>1. /\ entries \in [Fibers -> Seq(Bindings)]
      /\ entries[f] \in Seq(Bindings) /\ IsInjective(entries[f])
      /\ \A g \in Fibers : IsInjective(entries[g])
  BY DEF TypeOK
<1>2. /\ RemoveFirst(entries[f], b) \in Seq(Bindings)
      /\ IsInjective(RemoveFirst(entries[f], b))
      /\ ToSet(RemoveFirst(entries[f], b)) = ToSet(entries[f]) \ {b}
  BY <1>1, RemovingFirst
<1>3. /\ entries'[f] = RemoveFirst(entries[f], b)
      /\ \A g \in Fibers \ {f} : entries'[g] = entries[g]
      /\ entries' \in [Fibers -> Seq(Bindings)]
  BY <1>1, <1>2
<1>4. QED
  BY <1>1, <1>2, <1>3

LEMMA RefusedCore ==
    ASSUME CoreInv, NEW t \in Threads, Refused(t)
    PROVE  CoreInv'
<1>1. TypeOK /\ CallInv /\ BindInv /\ Nested
  BY DEF CoreInv, CallInv
<1>2. stack[t] # <<>> /\ Top(t) \in Frames /\ Top(t).at = "refused" /\ Top(t).f \in Fibers
  BY <1>1, InCall DEF Refused, IsAt, Frames
<1>3. PICK c : Fails(t, c)
  BY <1>1, RefusedStep
<1>4. entries' = [entries EXCEPT ![Top(t).f] = RemoveFirst(@, Top(t).b)]
  BY DEF Refused, Self
<1>5. TypeOK'
  <2>1. stack' \in [Threads -> Seq(Frames)]
    BY <1>3 DEF Fails, Step, Changes
  <2>2. entries' \in [Fibers -> Seq(Bindings)] /\ \A g \in Fibers : IsInjective(entries'[g])
    BY <1>1, <1>2, <1>4, ListShrinks
  <2>3. QED
    BY <1>1, <2>1, <2>2 DEF TypeOK, Refused, registry, services, generation, driver, calls
<1>6. /\ UNCHANGED <<slot, made, installed, deferred, once, loaded, epoch, pinned, attached>>
      /\ busy' = busy
  BY DEF Refused, registry, services, generation, driver, calls
<1>7. \A b \in Bindings : EntryFacts(b)'
  BY <1>1, <1>6, EntriesSame
<1>8. \A f \in Fibers : FiberFacts(f)'
  <2>1. \A f \in Fibers : ToSet(entries'[f]) \subseteq ToSet(entries[f])
    BY <1>1, <1>2, <1>4, ListShrinks
  <2>2. \A f \in Fibers : \A b \in (epoch'[f] \cup pinned'[f]) \ Inactive : Seen(b)
    BY <1>1, <1>6, FibersNow
  <2>3. \A f \in Fibers : f \in attached' \/ epoch'[f] # Inactive => f \in loaded'
    BY <1>1, <1>6, FibersNow
  <2>4. QED
    BY <1>1, <1>6, <2>1, <2>2, <2>3, FibersStep
<1>9. QED
  BY <1>1, <1>2, <1>3, <1>5, <1>6, <1>7, <1>8, OwningPlaces, FailStep1 DEF CoreInv

LEMMA UnlistCore ==
    ASSUME CoreInv, NEW t \in Threads, Unlist(t)
    PROVE  CoreInv'
<1>1. TypeOK /\ CallInv /\ BindInv
  BY DEF CoreInv
<1>2. stack[t] # <<>> /\ Top(t) \in Frames /\ Top(t).at = "unlist" /\ Top(t).f \in Fibers
  BY <1>1, InCall DEF Unlist, IsAt, Frames
<1>3. PICK c : Step(t, c) /\ IsNone(c)
  BY <1>1, UnlistStep
<1>4. entries' = [entries EXCEPT ![Top(t).f] = RemoveFirst(@, Top(t).b)]
  BY DEF Unlist, Self
<1>5. TypeOK'
  <2>1. stack' \in [Threads -> Seq(Frames)]
    BY <1>3 DEF Step, Changes
  <2>2. entries' \in [Fibers -> Seq(Bindings)] /\ \A g \in Fibers : IsInjective(entries'[g])
    BY <1>1, <1>2, <1>4, ListShrinks
  <2>3. QED
    BY <1>1, <2>1, <2>2 DEF TypeOK, Unlist, registry, services, generation, driver, calls
<1>6. /\ UNCHANGED <<slot, made, installed, deferred, once, loaded, epoch, pinned, attached>>
      /\ busy' = busy
  BY DEF Unlist, registry, services, generation, driver, calls
<1>7. \A b \in Bindings : EntryFacts(b)'
  BY <1>1, <1>6, EntriesSame
<1>8. \A f \in Fibers : FiberFacts(f)'
  <2>1. \A f \in Fibers : ToSet(entries'[f]) \subseteq ToSet(entries[f])
    BY <1>1, <1>2, <1>4, ListShrinks
  <2>2. \A f \in Fibers : \A b \in (epoch'[f] \cup pinned'[f]) \ Inactive : Seen(b)
    BY <1>1, <1>6, FibersNow
  <2>3. \A f \in Fibers : f \in attached' \/ epoch'[f] # Inactive => f \in loaded'
    BY <1>1, <1>6, FibersNow
  <2>4. QED
    BY <1>1, <1>6, <2>1, <2>2, <2>3, FibersStep
<1>9. QED
  BY <1>1, <1>2, <1>3, <1>5, <1>6, <1>7, <1>8, OwningPlaces, NothingFits, CallerStep
     DEF CoreInv

\* A call about a binding moves on to another place, where it knows no less.
LEMMA MovesOn ==
    ASSUME TypeOK, BindInv, NEW t \in Threads, stack[t] # <<>>, NEW g, NEW at \in EntryCalls,
           Moved(g, Top(t), at), Top(t).at \in EntryCalls,
           at \in Registering => Top(t).at \in Registering,
           at \in {"register", "refused", "unpin"} => ~InSlot(Top(t).b),
           at \in Claiming => InSlot(Top(t).b),
           at \in Releasing \cup {"once"} => Top(t).b \in installed,
           at \in Releasing => once[Top(t).b] = "running"
    PROVE  CallFacts(g)
<1>1. CallFacts(Top(t))
  BY TopFits
<1>2. /\ g.at = at /\ g.f = Top(t).f /\ g.b = Top(t).b /\ g.name = Top(t).name
      /\ g.got = Top(t).got /\ g.todo = Top(t).todo
  BY DEF Moved
<1>3. /\ at \notin Looking /\ at \notin Unloads /\ at \notin LookedUp
      /\ at \notin {"update", "provide", "run", "check", "probe"}
  BY EntryPlaces
<1>4. Top(t).b # Vacant /\ made[g.b].provider = g.f /\ g.b \in Known /\ g.f \in loaded
  BY <1>1, <1>2 DEF CallFacts
<1>5. ComesBack(g)
  BY <1>2, <1>3 DEF ComesBack
<1>6. at \in Registering => g.b \notin installed /\ made[g.b].name = g.name
  BY <1>1, <1>2 DEF CallFacts
<1>7. \A b \in g.got \cup g.todo : Seen(b)
  BY <1>1, <1>2 DEF CallFacts
<1>8. QED
  BY <1>2, <1>3, <1>4, <1>5, <1>6, <1>7 DEF CallFacts

LEMMA GoesFits ==
    ASSUME TypeOK, BindInv, NEW t \in Threads, stack[t] # <<>>, NEW c, NEW at \in EntryCalls,
           Goes(c, Top(t), at), Top(t).at \in EntryCalls, at \notin Providing,
           at \in Registering => Top(t).at \in Registering,
           at \in Releasing => Top(t).at \in Releasing,
           at = "unpin" => ~InSlot(Top(t).b),
           at \in Claiming => InSlot(Top(t).b),
           at \in Releasing \cup {"once"} => Top(t).b \in installed,
           at \in Releasing => once[Top(t).b] = "running"
    PROVE  /\ Fit(t, c)
           /\ \A i \in 1..Len(c) : c[i].at \notin Owning \cup Providing
<1>1. PICK g \in Frames : IsOne(c, g) /\ Moved(g, Top(t), at)
  BY DEF Goes
<1>2. at \notin {"register", "refused"} /\ at \notin Owning
  BY OwningPlaces, EntryPlaces
<1>3. CallFacts(g)
  BY <1>1, <1>2, MovesOn
<1>4. g.at = at /\ g.b = Top(t).b /\ \A i \in 1..Len(c) : i = 1 /\ c[i] = g
  BY <1>1 DEF IsOne, Moved
<1>5. Fit(t, c)
  BY <1>3, <1>4 DEF Fit
<1>6. QED
  BY <1>2, <1>4, <1>5

LEMMA EntryCallFits ==
    ASSUME TypeOK, BindInv, NEW t \in Threads, stack[t] # <<>>, Top(t).at \in EntryCalls
    PROVE  /\ CallFacts(Top(t)) /\ Top(t).b \in Known /\ Top(t).b \in Bindings
           /\ Top(t).b # Vacant
           /\ Top(t) \in Frames /\ Top(t).f \in Fibers /\ Top(t).f \in loaded
           /\ made[Top(t).b].provider = Top(t).f
<1>1. CallFacts(Top(t)) /\ Top(t) \in Frames
  BY TopFits
<1>2. QED
  BY <1>1 DEF CallFacts, Frames, Vacant

LEMMA RequestDisposeCore ==
    ASSUME CoreInv, NEW t \in Threads, RequestDispose(t)
    PROVE  CoreInv'
<1>1. TypeOK /\ CallInv /\ BindInv
  BY DEF CoreInv
<1>2. stack[t] # <<>> /\ Top(t) \in Frames /\ Top(t).at = "request"
  BY <1>1, InCall DEF RequestDispose, IsAt
<1>3. PICK c : /\ Step(t, c)
               /\ \/ Top(t).b \in installed /\ Goes(c, Top(t), "once")
                  \/ IsNone(c)
  BY <1>1, RequestDisposeStep
<1>4. Top(t).at \in EntryCalls /\ Top(t).b \in Known /\ Top(t).b \in Bindings
  BY <1>1, <1>2, EntryPlaces, EntryCallFits
<1>5. deferred' \subseteq deferred \cup {Top(t).b}
  BY DEF RequestDispose
<1>6. TypeOK'
  <2>1. stack' \in [Threads -> Seq(Frames)]
    BY <1>3 DEF Step, Changes
  <2>2. deferred' \subseteq Bindings
    BY <1>1, <1>4, <1>5 DEF TypeOK
  <2>3. QED
    BY <1>1, <2>1, <2>2 DEF TypeOK, RequestDispose, registry, services, generation, driver,
                            calls
<1>7. /\ UNCHANGED <<slot, made, installed, once, loaded, entries, epoch, pinned, attached>>
      /\ busy' = busy
  BY DEF RequestDispose, registry, services, generation, driver, calls
<1>8. \A b \in Bindings : EntryFacts(b)'
  BY <1>1, <1>4, <1>5, <1>7, BindSame DEF BindInv, EntryFacts
<1>9. \A f \in Fibers : FiberFacts(f)'
  BY <1>1, <1>7, FibersNow, FibersStep
<1>10. Fit(t, c) /\ \A i \in 1..Len(c) : c[i].at \notin Owning \cup Providing
  <2>1. /\ "once" \in EntryCalls /\ "once" \notin Providing
        /\ "once" \notin Registering /\ "once" \notin Releasing /\ "once" \notin Claiming
    BY EntryPlaces
  <2>2. CASE Top(t).b \in installed /\ Goes(c, Top(t), "once")
    BY <1>1, <1>2, <1>4, <2>1, <2>2, GoesFits
  <2>3. QED
    BY <1>3, <2>2, NothingFits
<1>11. QED
  BY <1>1, <1>2, <1>3, <1>6, <1>7, <1>8, <1>9, <1>10, OwningPlaces, FitStep DEF CoreInv

LEMMA PinCore ==
    ASSUME CoreInv, NEW t \in Threads, Pin(t)
    PROVE  CoreInv'
<1> DEFINE f == Top(t).f
           b == Top(t).b
<1>1. TypeOK /\ CallInv /\ BindInv
  BY DEF CoreInv
<1>2. stack[t] # <<>> /\ Top(t) \in Frames /\ Top(t).at = "pin"
  BY <1>1, InCall DEF Pin, IsAt
<1>3. PICK c : Step(t, c) /\ Goes(c, Top(t), "tell")
  BY <1>1, PinStep
<1>4. Top(t).at \in EntryCalls /\ b \in Known /\ b \in Bindings /\ f \in Fibers
  BY <1>1, <1>2, EntryPlaces, EntryCallFits
<1>5. InSlot(b) /\ Seen(b)
  <2>1. CallFacts(Top(t)) /\ Top(t).at \in Claiming
    BY <1>1, <1>2, TopFits, EntryPlaces
  <2>2. QED
    BY <1>4, <2>1 DEF CallFacts, Seen
<1>6. /\ pinned' = [pinned EXCEPT ![f] = pinned'[f]]
      /\ \/ pinned'[f] = pinned[f]
         \/ pinned[f] # Inactive /\ pinned'[f] \subseteq pinned[f] \cup {b}
      /\ \A g \in Fibers \ {f} : pinned'[g] = pinned[g]
      /\ pinned' \in [Fibers -> Epochs]
  <2>1. pinned \in [Fibers -> Epochs] /\ pinned[f] \in Epochs
    BY <1>1, <1>4 DEF TypeOK
  <2>2. CASE pinned[f] = Inactive
    <3>1. pinned' = pinned
      BY <2>2 DEF Pin, Self
    <3>2. QED
      BY <2>1, <3>1
  <2>3. CASE pinned[f] # Inactive
    <3>1. pinned' = [pinned EXCEPT ![f] = (@ \ Named(f, Top(t).name)) \cup {b}]
      BY <2>3 DEF Pin, Self
    <3>2. pinned[f] \subseteq Bindings
      BY <2>1, <2>3 DEF Epochs
    <3>3. (pinned[f] \ Named(f, Top(t).name)) \cup {b} \in Epochs
      BY <1>4, <3>2 DEF Epochs
    <3>4. QED
      BY <1>4, <2>1, <2>3, <3>1, <3>3
  <2>4. QED
    BY <2>2, <2>3
<1>7. TypeOK'
  <2>1. stack' \in [Threads -> Seq(Frames)]
    BY <1>3 DEF Step, Changes
  <2>2. QED
    BY <1>1, <1>6, <2>1 DEF TypeOK, Pin, registry, services, effects, driver, calls
<1>8. /\ UNCHANGED <<slot, made, installed, deferred, once, loaded, entries, epoch, attached>>
      /\ busy' = busy
  BY DEF Pin, registry, services, effects, driver, calls
<1>9. \A x \in Bindings : EntryFacts(x)'
  BY <1>1, <1>8, EntriesSame
<1>10. \A g \in Fibers : FiberFacts(g)'
  <2>1. \A g \in Fibers : pinned'[g] \subseteq pinned[g] \cup {b}
    BY <1>6
  <2>2. \A g \in Fibers : \A x \in (epoch'[g] \cup pinned'[g]) \ Inactive : Seen(x)
    BY <1>1, <1>5, <1>8, <2>1, FibersNow
  <2>3. \A g \in Fibers : g \in attached' \/ epoch'[g] # Inactive => g \in loaded'
    BY <1>1, <1>8, FibersNow
  <2>4. QED
    BY <1>1, <1>8, <2>2, <2>3, FibersStep
<1>11. Fit(t, c) /\ \A i \in 1..Len(c) : c[i].at \notin Owning \cup Providing
  <2>1. /\ "tell" \in EntryCalls /\ "tell" \notin Providing /\ Top(t).at \in Registering
        /\ "tell" \notin Releasing /\ "tell" # "unpin" /\ "tell" # "once"
    BY <1>2, EntryPlaces
  <2>2. QED
    BY <1>1, <1>2, <1>3, <1>4, <1>5, <2>1, GoesFits
<1>12. QED
  BY <1>1, <1>2, <1>3, <1>7, <1>8, <1>9, <1>10, <1>11, OwningPlaces, FitStep DEF CoreInv

\* A call goes on about a binding, and tells of it.
LEMMA GoesAndTells ==
    ASSUME NEW t, NEW c, NEW g, NEW k, IsTwo(c, g, k), NEW n, NEW l,
           IsNotification(k, Top(t).f, n, l), Top(t).f \in loaded, CallFacts(g),
           g.b = Top(t).b, g.at \notin Owning \cup Providing,
           g.at \in Registering => Top(t).at \in Registering,
           g.at \in Releasing => Top(t).at \in Releasing
    PROVE  /\ Fit(t, c)
           /\ \A i \in 1..Len(c) : c[i].at \notin Owning \cup Providing
<1>1. /\ CallFacts(k) /\ k.at \notin Registering \cup Releasing
      /\ k.at \notin Owning \cup Providing
  BY PlainCallFits DEF IsNotification, PlainCalls
<1>2. \A i \in 1..Len(c) : (i = 1 /\ c[i] = g) \/ c[i] = k
  BY DEF IsTwo
<1>3. Fit(t, c)
  BY <1>1, <1>2 DEF Fit
<1>4. QED
  BY <1>1, <1>2, <1>3

LEMMA TellCore ==
    ASSUME CoreInv, NEW t \in Threads, Tell(t)
    PROVE  CoreInv'
<1>1. TypeOK /\ CallInv /\ BindInv
  BY DEF CoreInv
<1>2. stack[t] # <<>> /\ Top(t) \in Frames /\ Top(t).at = "tell"
  BY <1>1, InCall DEF Tell, IsAt
<1>3. /\ Top(t).at \in EntryCalls /\ Top(t).b \in Known /\ CallFacts(Top(t))
      /\ Top(t).f \in loaded /\ Top(t).at \in Registering /\ Top(t).at \in Claiming
  BY <1>1, <1>2, EntryPlaces, EntryCallFits
<1>4. PICK c :
        /\ Step(t, c)
        /\ \/ \E g, k \in Frames :
                /\ IsTwo(c, g, k) /\ Moved(g, Top(t), "install")
                /\ IsNotification(k, Top(t).f, made[Top(t).b].name, made[Top(t).b].label)
           \/ Goes(c, Top(t), "install")
  BY <1>1, <1>3, TellStep
<1>5. TypeOK'
  <2>1. stack' \in [Threads -> Seq(Frames)]
    BY <1>4 DEF Step, Changes
  <2>2. QED
    BY <1>1, <2>1 DEF TypeOK, Tell, registry, services, effects, generation, driver, calls
<1>6. UNCHANGED BindVars /\ busy' = busy
  BY DEF Tell, BindVars, registry, services, effects, generation, driver, calls
<1>7. Fit(t, c) /\ \A i \in 1..Len(c) : c[i].at \notin Owning \cup Providing
  <2>1. /\ "install" \in EntryCalls /\ "install" \notin Providing /\ "install" \notin Owning
        /\ "install" \notin Releasing /\ "install" \notin {"register", "refused", "unpin", "once"}
        /\ InSlot(Top(t).b)
    BY <1>3, EntryPlaces, OwningPlaces DEF CallFacts
  <2>2. CASE Goes(c, Top(t), "install")
    BY <1>1, <1>2, <1>3, <2>1, <2>2, GoesFits
  <2>3. CASE \E g, k \in Frames :
                /\ IsTwo(c, g, k) /\ Moved(g, Top(t), "install")
                /\ IsNotification(k, Top(t).f, made[Top(t).b].name, made[Top(t).b].label)
    <3>1. PICK g \in Frames, k \in Frames :
                /\ IsTwo(c, g, k) /\ Moved(g, Top(t), "install")
                /\ IsNotification(k, Top(t).f, made[Top(t).b].name, made[Top(t).b].label)
      BY <2>3
    <3>2. CallFacts(g)
      BY <1>1, <1>2, <1>3, <2>1, <3>1, MovesOn
    <3>3. g.at = "install" /\ g.b = Top(t).b
      BY <3>1 DEF Moved
    <3>4. QED
      BY <1>3, <2>1, <3>1, <3>2, <3>3, GoesAndTells
  <2>4. QED
    BY <1>4, <2>2, <2>3
<1>8. QED
  BY <1>1, <1>2, <1>4, <1>5, <1>6, <1>7, OwningPlaces, FactsSame, FitStep DEF CoreInv

\* ... where what it knows holds after the step.
LEMMA MovesOnNext ==
    ASSUME TypeOK, BindInv, NEW t \in Threads, stack[t] # <<>>, NEW g, NEW at \in EntryCalls,
           Moved(g, Top(t), at), Top(t).at \in EntryCalls, NEW b, b = Top(t).b,
           made' = made, loaded' = loaded, \A x \in Known : Seen(x) => Seen(x)',
           at \in Registering => Top(t).at \in Registering /\ b \notin installed',
           at \in {"register", "refused", "unpin"} => ~InSlot(b)',
           at \in Claiming => InSlot(b)',
           at \in Releasing \cup {"once"} => b \in installed',
           at \in Releasing => once'[b] = "running"
    PROVE  CallFacts(g)'
<1>1. CallFacts(Top(t))
  BY TopFits
<1>2. /\ g.at = at /\ g.f = Top(t).f /\ g.b = Top(t).b /\ g.name = Top(t).name
      /\ g.got = Top(t).got /\ g.todo = Top(t).todo
  BY DEF Moved
<1>3. /\ at \notin Looking /\ at \notin Unloads /\ at \notin LookedUp
      /\ at \notin {"update", "provide", "run", "check", "probe"}
  BY EntryPlaces
<1>4. Top(t).b # Vacant /\ made[g.b].provider = g.f /\ g.b \in Known /\ g.f \in loaded
  BY <1>1, <1>2 DEF CallFacts
<1>5. ComesBack(g)'
  BY <1>2, <1>3 DEF ComesBack, Looking, Unloads
<1>6. at \in Registering => g.b \notin installed' /\ made'[g.b].name = g.name
  BY <1>1, <1>2 DEF CallFacts
<1>7. Known' = Known
  BY DEF Known
<1>8. \A x \in g.got \cup g.todo : Seen(x)'
  <2>1. \A x \in g.got \cup g.todo : Seen(x)
    BY <1>1, <1>2 DEF CallFacts
  <2>2. \A x : Seen(x) => x \in Known
    BY DEF Seen
  <2>3. QED
    BY <2>1, <2>2
<1> HIDE DEF EntryCalls, Registering, Releasing, LookedUp, Claiming
<1>9. /\ g.at \in {"register", "refused", "unpin"} => ~InSlot(g.b)'
      /\ g.at \in Claiming => InSlot(g.b)'
  BY <1>2
<1>10. QED
  BY <1>2, <1>3, <1>4, <1>5, <1>6, <1>7, <1>8, <1>9, KindsOfCalls DEF CallFacts

\* The fibers rest on bindings that have been seen, as before.
LEMMA FibersKept ==
    ASSUME BindInv, UNCHANGED <<made, entries, epoch, attached, loaded>>,
           \A f \in Fibers : pinned'[f] \subseteq pinned[f],
           \A x \in Known : Seen(x) => Seen(x)'
    PROVE  \A f \in Fibers : FiberFacts(f)'
<1>1. Known' = Known /\ Inactive' = Inactive
  BY DEF Known, Inactive, Vacant
<1>2. ASSUME NEW f \in Fibers
      PROVE  FiberFacts(f)'
  <2>1. FiberFacts(f)
    BY DEF BindInv
  <2>2. \A b \in (epoch'[f] \cup pinned'[f]) \ Inactive : Seen(b) /\ b \in Known
    BY <2>1 DEF FiberFacts, Seen
  <2>3. \A b \in (epoch'[f] \cup pinned'[f]) \ Inactive : Seen(b)'
    BY <2>2
  <2>4. QED
    BY <1>1, <2>1, <2>3 DEF FiberFacts
<1>3. QED
  BY <1>2

\* A call about a binding goes on alone, or returns.
LEMMA EntryGoes ==
    ASSUME TypeOK, CallInv, BindInv, NEW t \in Threads, stack[t] # <<>>,
           NEW c, Step(t, c), busy' = busy, NEW at \in EntryCalls, Goes(c, Top(t), at),
           NEW b, b = Top(t).b, Top(t).at \in EntryCalls,
           at \in Providing => Top(t).at \in Providing,
           UNCHANGED <<made, loaded, entries, epoch, pinned, attached>>,
           SlotsFit', \A x \in Bindings : EntryFacts(x)',
           \A x \in Known : Seen(x) => Seen(x)',
           \A g \in Others(t) : CallFacts(g)', OneCalls',
           at \in Registering => Top(t).at \in Registering /\ b \notin installed',
           at \in {"register", "refused", "unpin"} => ~InSlot(b)',
           at \in Claiming => InSlot(b)',
           at \in Releasing \cup {"once"} => b \in installed',
           at \in Releasing => once'[b] = "running"
    PROVE  CallInv' /\ BindInv'
<1>1. PICK g \in Frames : IsOne(c, g) /\ Moved(g, Top(t), at)
  BY DEF Goes
<1>2. CallFacts(g)'
  BY <1>1, MovesOnNext
<1>3. g.at = at /\ g.f = Top(t).f /\ \A i \in 1..Len(c) : i = 1 /\ c[i] = g
  BY <1>1 DEF IsOne, Moved
<1>4. at \notin Owning /\ Top(t).at \notin Owning
  BY OwningPlaces, EntryPlaces
<1>5. \A i \in 1..Len(c) :
         /\ c[i].at \notin Owning
         /\ c[i].at \in Providing => i = 1 /\ Top(t).at \in Providing /\ c[i].f = Top(t).f
  BY <1>3, <1>4
<1>6. \A i \in 1..Len(c) : CallFacts(c[i])'
  BY <1>2, <1>3
<1>7. MadeFit'
  BY DEF BindInv, MadeFit, Known
<1>8. \A f \in Fibers : FiberFacts(f)'
  BY FibersKept
<1>9. QED
  BY <1>4, <1>5, <1>6, <1>7, <1>8, EntryStep

LEMMA EntryReturns ==
    ASSUME TypeOK, CallInv, BindInv, NEW t \in Threads, stack[t] # <<>>,
           NEW c, Step(t, c), busy' = busy, IsNone(c), Top(t).at \in EntryCalls,
           UNCHANGED <<made, loaded, entries, epoch, attached>>,
           \A f \in Fibers : pinned'[f] \subseteq pinned[f],
           SlotsFit', \A x \in Bindings : EntryFacts(x)',
           \A x \in Known : Seen(x) => Seen(x)',
           \A g \in Others(t) : CallFacts(g)'
    PROVE  CallInv' /\ BindInv'
<1>1. \A i \in 1..Len(c) : FALSE
  BY DEF IsNone
<1>2. Top(t).at \notin Owning
  BY OwningPlaces, EntryPlaces
<1>3. OneCalls'
  BY <1>1, OneCallsKept
<1>4. MadeFit'
  BY DEF BindInv, MadeFit, Known
<1>5. \A f \in Fibers : FiberFacts(f)'
  BY FibersKept
<1>6. QED
  BY <1>1, <1>2, <1>3, <1>4, <1>5, EntryStep

LEMMA RegisterCore ==
    ASSUME CoreInv, NEW t \in Threads, Register(t)
    PROVE  CoreInv'
<1> PICK b : b = Top(t).b
  OBVIOUS
<1> PICK l : l = made[b].label
  OBVIOUS
<1>1. TypeOK /\ CallInv /\ BindInv
  BY DEF CoreInv
<1>2. stack[t] # <<>> /\ Top(t) \in Frames /\ Top(t).at = "register"
  BY <1>1, InCall DEF Register, IsAt
<1>3. /\ Top(t).at \in EntryCalls /\ b \in Known /\ b \in Bindings /\ b # Vacant
      /\ CallFacts(Top(t)) /\ Top(t).at \in Registering /\ Top(t).at \in Providing
      /\ l \in Labels
  <2>1. Top(t).at \in EntryCalls /\ Top(t).at \in Registering /\ Top(t).at \in Providing
    BY <1>2, EntryPlaces
  <2>2. QED
    BY <1>1, <1>2, <2>1, EntryCallFits, MadeTyping
<1>4. PICK c : /\ Step(t, c)
               /\ \/ slot[l] # Vacant /\ Goes(c, Top(t), "refused")
                  \/ slot[l] = Vacant /\ Goes(c, Top(t), "pin")
  BY <1>1, RegisterStep
<1>5. slot' = IF slot[l] # Vacant THEN slot ELSE [slot EXCEPT ![l] = b]
  BY DEF Register
<1>6. TypeOK'
  <2>1. stack' \in [Threads -> Seq(Frames)]
    BY <1>4 DEF Step, Changes
  <2>2. slot' \in [Labels -> Bindings \cup {Vacant}]
    BY <1>1, <1>3, <1>5 DEF TypeOK
  <2>3. QED
    BY <1>1, <2>1, <2>2 DEF TypeOK, Register, services, effects, generation, driver, calls
<1>7. /\ UNCHANGED <<made, installed, deferred, once, loaded, entries, epoch, pinned,
                     attached>>
      /\ busy' = busy /\ Known' = Known
  BY DEF Register, effects, generation, driver, calls, Known
<1>8. b \notin installed /\ once[b] = "new" /\ ~InSlot(b)
  <2>1. b \notin installed /\ ~InSlot(b) /\ EntryFacts(b)
    BY <1>1, <1>2, <1>3 DEF CallFacts, BindInv
  <2>2. QED
    BY <2>1 DEF EntryFacts
<1>9. OneCalls'
  <2>1. PICK g \in Frames : IsOne(c, g) /\ (Moved(g, Top(t), "refused") \/ Moved(g, Top(t), "pin"))
    BY <1>4 DEF Goes
  <2>2. \A i \in 1..Len(c) : i = 1 /\ c[i].b = b /\ c[i].at \in {"refused", "pin"}
    BY <2>1 DEF IsOne, Moved
  <2>3. \A at \in {"refused", "pin"} : at \notin Releasing
    BY EntryPlaces
  <2>4. \A i \in 1..Len(c) : c[i].at \notin Releasing
    BY <2>2, <2>3
  <2>5. QED
    BY <1>1, <1>2, <1>3, <1>4, <2>2, <2>4, OneCallsKept
<1>10. /\ {"refused", "pin"} \subseteq EntryCalls
       /\ "pin" \notin Providing /\ "pin" \notin Releasing
       /\ "refused" \notin Claiming /\ "refused" \notin Releasing
  BY EntryPlaces
<1>11. CASE slot[l] # Vacant
  <2>1. slot' = slot /\ Goes(c, Top(t), "refused")
    BY <1>4, <1>5, <1>11
  <2>2. /\ \A x : InSlot(x)' <=> InSlot(x)
        /\ \A x : Seen(x) => Seen(x)'
        /\ \A g : CallFacts(g)' <=> CallFacts(g)
        /\ SlotsFit'
    BY <1>1, <1>7, <2>1, BindSame DEF BindInv
  <2>3. \A x \in Bindings : EntryFacts(x)'
    BY <1>1, <1>7, <2>1, EntriesSame
  <2>4. \A g \in Others(t) : CallFacts(g)'
    BY <1>1, <1>2, <1>4, <2>2, StepCalls DEF BindInv
  <2>5. QED
    BY <1>1, <1>2, <1>3, <1>4, <1>6, <1>7, <1>8, <1>9, <1>10, <2>1, <2>2, <2>3, <2>4, EntryGoes
       DEF CoreInv
<1>12. CASE slot[l] = Vacant
  <2>1. slot' = [slot EXCEPT ![l] = b] /\ Goes(c, Top(t), "pin")
    BY <1>4, <1>5, <1>12
  <2>2. \A x \in Known : made[x].label \in Labels /\ x # Vacant
    <3>1. \A x \in Known : made[x].label \in Labels
      BY <1>1, MadeTyping
    <3>2. \A x \in Known : x # Vacant
      BY DEF Known, Vacant
    <3>3. QED
      BY <3>1, <3>2
  <2>3. /\ slot'[l] = b /\ \A k \in Labels \ {l} : slot'[k] = slot[k]
    BY <1>1, <1>3, <2>1 DEF TypeOK
  <2>4. /\ InSlot(b)'
        /\ \A x \in Known \ {b} : InSlot(x)' <=> InSlot(x)
    BY <1>3, <1>7, <1>12, <2>2, <2>3 DEF InSlot
  <2>5. \A x \in Known : Seen(x) => Seen(x)'
    BY <1>7, <2>4 DEF Seen
  <2>6. SlotsFit'
    BY <1>1, <1>3, <1>7, <2>3 DEF BindInv, SlotsFit
  <2>7. \A x \in Bindings : EntryFacts(x)'
    BY <1>1, <1>3, <1>7, <1>8, <2>4 DEF BindInv, EntryFacts
  <2>8. ASSUME NEW g \in Others(t)
        PROVE  CallFacts(g)'
    <3>1. CallFacts(g)
      BY <1>1, <1>2, <1>4, StepCalls DEF BindInv
    <3>2. ~(g.at \in Registering /\ g.b = b)
      BY <1>1, <1>2, <1>3, CallAlone DEF BindInv
    <3>3. g.at \in EntryCalls => g.b \in Known
      BY <3>1 DEF CallFacts
    <3>4. /\ Registering \subseteq EntryCalls /\ Releasing \subseteq EntryCalls
          /\ Claiming \subseteq Registering /\ {"register", "refused"} \subseteq Registering
          /\ "unpin" \in Releasing
      BY EntryPlaces
    <3> HIDE DEF Registering, Releasing, EntryCalls, Claiming
    <3>5. g.at \in {"register", "refused", "unpin"} => g.b \in Known \ {b}
      BY <1>8, <3>1, <3>2, <3>3, <3>4 DEF CallFacts
    <3>6. g.at \in Claiming => g.b \in Known \ {b}
      BY <3>2, <3>3, <3>4
    <3>7. QED
      BY <1>7, <2>4, <2>5, <3>1, <3>5, <3>6, CallFactsKept
  <2>9. QED
    BY <1>1, <1>2, <1>3, <1>4, <1>6, <1>7, <1>8, <1>9, <1>10, <2>1, <2>4, <2>5, <2>6, <2>7, <2>8,
       EntryGoes DEF CoreInv
<1>13. QED
  BY <1>11, <1>12

LEMMA InstallCore ==
    ASSUME CoreInv, NEW t \in Threads, Install(t)
    PROVE  CoreInv'
<1> PICK b : b = Top(t).b
  OBVIOUS
<1>1. TypeOK /\ CallInv /\ BindInv
  BY DEF CoreInv
<1>2. stack[t] # <<>> /\ Top(t) \in Frames /\ Top(t).at = "install"
  BY <1>1, InCall DEF Install, IsAt
<1>3. /\ Top(t).at \in EntryCalls /\ b \in Known /\ b \in Bindings
      /\ CallFacts(Top(t)) /\ Top(t).at \in Registering /\ Top(t).at \in Claiming
  <2>1. Top(t).at \in EntryCalls /\ Top(t).at \in Registering /\ Top(t).at \in Claiming
    BY <1>2, EntryPlaces
  <2>2. QED
    BY <1>1, <1>2, <2>1, EntryCallFits
<1>4. PICK c : Step(t, c) /\ (Goes(c, Top(t), "once") \/ IsNone(c))
  BY <1>1, InstallStep
<1>5. installed' = installed \cup {b}
  BY DEF Install
<1>6. TypeOK'
  <2>1. stack' \in [Threads -> Seq(Frames)]
    BY <1>4 DEF Step, Changes
  <2>2. QED
    BY <1>1, <1>3, <1>5, <2>1 DEF TypeOK, Install, registry, services, generation, driver,
                                  calls
<1>7. /\ UNCHANGED <<slot, made, deferred, once, loaded, entries, epoch, pinned, attached>>
      /\ busy' = busy /\ Known' = Known
      /\ \A x : InSlot(x)' <=> InSlot(x)
  BY DEF Install, registry, services, generation, driver, calls, Known, InSlot
<1>8. \A x \in Known : Seen(x) => Seen(x)'
  BY <1>7 DEF Seen
<1>9. SlotsFit'
  BY <1>1, <1>7 DEF BindInv, SlotsFit
<1>10. \A x \in Bindings : EntryFacts(x)'
  <2>1. InSlot(b)
    BY <1>2, <1>3 DEF CallFacts
  <2>2. QED
    BY <1>1, <1>3, <1>5, <1>7, <2>1 DEF BindInv, EntryFacts
<1>11. ASSUME NEW g \in Others(t)
       PROVE  CallFacts(g)'
  <2>1. CallFacts(g)
    BY <1>1, <1>2, <1>4, StepCalls DEF BindInv
  <2>2. ~(g.at \in Registering /\ g.b = b)
    BY <1>1, <1>2, <1>3, CallAlone DEF BindInv
  <2> HIDE DEF Registering, Releasing, EntryCalls, Claiming
  <2>3. QED
    BY <1>5, <1>7, <1>8, <2>1, <2>2, CallFactsKept
<1>12. CASE IsNone(c)
  BY <1>1, <1>2, <1>3, <1>4, <1>6, <1>7, <1>8, <1>9, <1>10, <1>11, <1>12, EntryReturns
     DEF CoreInv
<1>13. CASE Goes(c, Top(t), "once")
  <2>1. /\ "once" \in EntryCalls /\ "once" \notin Providing /\ "once" \notin Registering
        /\ "once" \notin Releasing /\ "once" \notin Claiming
        /\ "once" \notin {"register", "refused", "unpin"}
    BY EntryPlaces
  <2>2. OneCalls'
    <3>1. PICK g \in Frames : IsOne(c, g) /\ Moved(g, Top(t), "once")
      BY <1>13 DEF Goes
    <3>2. \A i \in 1..Len(c) : c[i].at = "once"
      BY <3>1 DEF IsOne, Moved
    <3>3. QED
      BY <1>1, <1>2, <1>4, <2>1, <3>2, OneCallsKept
  <2>3. QED
    BY <1>1, <1>2, <1>3, <1>4, <1>5, <1>6, <1>7, <1>8, <1>9, <1>10, <1>11, <1>13, <2>1, <2>2,
       EntryGoes DEF CoreInv
<1>14. QED
  BY <1>4, <1>12, <1>13

LEMMA EnterOnceCore ==
    ASSUME CoreInv, NEW t \in Threads, EnterOnce(t)
    PROVE  CoreInv'
<1> PICK b : b = Top(t).b
  OBVIOUS
<1>1. TypeOK /\ CallInv /\ BindInv
  BY DEF CoreInv
<1>2. stack[t] # <<>> /\ Top(t) \in Frames /\ Top(t).at = "once"
  BY <1>1, InCall DEF EnterOnce, IsAt
<1>3. /\ Top(t).at \in EntryCalls /\ b \in Known /\ b \in Bindings
      /\ CallFacts(Top(t)) /\ b \in installed
  <2>1. Top(t).at \in EntryCalls
    BY <1>2, EntryPlaces
  <2>2. b \in Known /\ b \in Bindings /\ CallFacts(Top(t))
    BY <1>1, <1>2, <2>1, EntryCallFits
  <2>3. QED
    BY <1>2, <2>1, <2>2 DEF CallFacts
<1>4. PICK c : /\ Step(t, c)
               /\ \/ once[b] = "new" /\ Goes(c, Top(t), "unregister")
                  \/ once[b] = "done" /\ IsNone(c)
  BY <1>1, EnterOnceStep
<1>5. once' = IF once[b] = "new" THEN [once EXCEPT ![b] = "running"] ELSE once
  BY DEF EnterOnce
<1>6. TypeOK'
  <2>1. stack' \in [Threads -> Seq(Frames)]
    BY <1>4 DEF Step, Changes
  <2>2. once' \in [Bindings -> {"new", "running", "done"}]
    BY <1>1, <1>3, <1>5 DEF TypeOK
  <2>3. QED
    BY <1>1, <2>1, <2>2 DEF TypeOK, EnterOnce, registry, services, generation, driver, calls
<1>7. /\ UNCHANGED <<slot, made, installed, deferred, loaded, entries, epoch, pinned,
                     attached>>
      /\ busy' = busy /\ Known' = Known
      /\ \A x : InSlot(x)' <=> InSlot(x)
  BY DEF EnterOnce, registry, services, generation, driver, calls, Known, InSlot
<1>8. SlotsFit'
  BY <1>1, <1>7 DEF BindInv, SlotsFit
<1>9. CASE once[b] = "done"
  <2>1. once' = once /\ IsNone(c)
    BY <1>4, <1>5, <1>9
  <2>2. \A x \in Bindings : EntryFacts(x)'
    BY <1>1, <1>7, <2>1, EntriesSame
  <2>3. (\A x : Seen(x) => Seen(x)') /\ \A g : CallFacts(g)' <=> CallFacts(g)
    BY <1>7, <2>1, BindSame
  <2>4. \A g \in Others(t) : CallFacts(g)'
    BY <1>1, <1>2, <1>4, <2>3, StepCalls DEF BindInv
  <2>5. QED
    BY <1>1, <1>2, <1>3, <1>4, <1>6, <1>7, <1>8, <2>1, <2>2, <2>3, <2>4, EntryReturns
       DEF CoreInv
<1>10. CASE once[b] = "new"
  <2>1. /\ Goes(c, Top(t), "unregister") /\ once'[b] = "running"
        /\ \A x \in Bindings \ {b} : once'[x] = once[x]
    BY <1>1, <1>3, <1>4, <1>5, <1>10 DEF TypeOK
  <2>2. \A x \in Known : x \in Bindings
    BY <1>1, GraphAssumption DEF BindInv, MadeFit, Known, Bindings, TypeOK
  <2>3. \A x \in Known : Seen(x) => Seen(x)'
    BY <1>7, <2>1, <2>2 DEF Seen
  <2>4. \A x \in Bindings : EntryFacts(x)'
    BY <1>1, <1>3, <1>7, <1>10, <2>1 DEF BindInv, EntryFacts
  <2>5. ASSUME NEW g \in Others(t)
        PROVE  CallFacts(g)' /\ ~(g.at \in Releasing /\ g.b = b)
    <3>1. CallFacts(g)
      BY <1>1, <1>2, <1>4, StepCalls DEF BindInv
    <3>2. g.at \in Releasing => once[g.b] = "running" /\ g.b \in Bindings
      <4>1. Releasing \subseteq EntryCalls
        BY EntryPlaces
      <4>2. QED
        BY <2>2, <3>1, <4>1 DEF CallFacts
    <3> HIDE DEF Registering, Releasing, EntryCalls, Claiming
    <3>3. g.at \in Releasing => g.b \in Bindings \ {b}
      BY <1>10, <3>2
    <3>4. QED
      BY <1>7, <2>1, <2>3, <3>1, <3>2, <3>3, CallFactsKept
  <2>6. PICK g \in Frames : IsOne(c, g) /\ Moved(g, Top(t), "unregister")
    BY <2>1 DEF Goes
  <2>7. /\ g.at = "unregister" /\ g.b = b /\ 1 \in 1..Len(c)
        /\ \A i \in 1..Len(c) : i = 1 /\ c[i] = g
    BY <2>6 DEF IsOne, Moved
  <2>8. /\ "unregister" \in EntryCalls /\ "unregister" \notin Providing
        /\ "unregister" \notin Registering /\ "unregister" \notin Claiming
        /\ "unregister" \notin {"register", "refused", "unpin"}
    BY EntryPlaces
  <2>9. OneCalls'
    <3> HIDE DEF Registering, Releasing
    <3>1. /\ Distinct(Registering, c) /\ Unmet(Registering, Others(t), c)
          /\ Distinct(Releasing, c) /\ Unmet(Releasing, Others(t), c)
      BY <2>5, <2>7, <2>8 DEF Distinct, Unmet
    <3>2. OneCall(Registering) /\ OneCall(Releasing)
      BY <1>1 DEF BindInv
    <3>3. OneCallNext(Registering) /\ OneCallNext(Releasing)
      BY <1>1, <1>4, <3>1, <3>2, OneCallStep DEF Step, Others
    <3>4. QED
      BY <3>3, KindsOfCalls DEF OneCalls, OneCall, OneCallNext
  <2>10. QED
    BY <1>1, <1>2, <1>3, <1>4, <1>6, <1>7, <1>8, <2>1, <2>3, <2>4, <2>5, <2>8, <2>9, EntryGoes
       DEF CoreInv
<1>11. QED
  BY <1>4, <1>9, <1>10

LEMMA UnregisterCore ==
    ASSUME CoreInv, NEW t \in Threads, Unregister(t)
    PROVE  CoreInv'
<1> PICK b : b = Top(t).b
  OBVIOUS
<1> PICK l : l = made[b].label
  OBVIOUS
<1>1. TypeOK /\ CallInv /\ BindInv
  BY DEF CoreInv
<1>2. stack[t] # <<>> /\ Top(t) \in Frames /\ Top(t).at = "unregister"
  BY <1>1, InCall DEF Unregister, IsAt
<1>3. /\ Top(t).at \in EntryCalls /\ b \in Known /\ b \in Bindings /\ b # Vacant
      /\ CallFacts(Top(t)) /\ Top(t).f \in loaded /\ Top(t).at \in Releasing
      /\ l \in Labels
  <2>1. Top(t).at \in EntryCalls /\ Top(t).at \in Releasing
    BY <1>2, EntryPlaces
  <2>2. QED
    BY <1>1, <1>2, <2>1, EntryCallFits, MadeTyping
<1>4. b \in installed /\ once[b] = "running"
  BY <1>3 DEF CallFacts
<1>5. PICK c :
        /\ Step(t, c)
        /\ \E g, k \in Frames :
              /\ IsTwo(c, g, k) /\ Moved(g, Top(t), "unpin")
              /\ IsNotification(k, Top(t).f, made[b].name, l)
  BY <1>1, <1>3, UnregisterStep
<1>6. PICK g \in Frames, k \in Frames :
              /\ IsTwo(c, g, k) /\ Moved(g, Top(t), "unpin")
              /\ IsNotification(k, Top(t).f, made[b].name, l)
  BY <1>5
<1>7. slot' = IF slot[l] = b THEN [slot EXCEPT ![l] = Vacant] ELSE slot
  BY DEF Unregister
<1>8. TypeOK'
  <2>1. stack' \in [Threads -> Seq(Frames)]
    BY <1>5 DEF Step, Changes
  <2>2. slot' \in [Labels -> Bindings \cup {Vacant}]
    BY <1>1, <1>3, <1>7 DEF TypeOK
  <2>3. QED
    BY <1>1, <2>1, <2>2 DEF TypeOK, Unregister, services, effects, generation, driver, calls
<1>9. /\ UNCHANGED <<made, installed, deferred, once, loaded, entries, epoch, pinned,
                     attached>>
      /\ busy' = busy /\ Known' = Known
  BY DEF Unregister, effects, generation, driver, calls, Known
<1>10. \A m \in Labels : slot'[m] = IF m = l /\ slot[l] = b THEN Vacant ELSE slot[m]
  BY <1>1, <1>3, <1>7 DEF TypeOK
<1>11. /\ ~InSlot(b)'
       /\ \A x \in Known \ {b} : InSlot(x)' <=> InSlot(x)
  <2>1. \A x \in Known : made[x].label \in Labels
    BY <1>1, MadeTyping
  <2>2. \A x \in Known : x # Vacant
    BY DEF Known, Vacant
  <2>3. QED
    BY <1>3, <1>9, <1>10, <2>1, <2>2 DEF InSlot
<1>12. \A x \in Known : Seen(x) => Seen(x)'
  BY <1>4, <1>9, <1>11 DEF Seen
<1>13. SlotsFit' /\ MadeFit'
  BY <1>1, <1>9, <1>10 DEF BindInv, SlotsFit, MadeFit
<1>14. \A x \in Bindings : EntryFacts(x)'
  BY <1>1, <1>4, <1>9, <1>11 DEF BindInv, EntryFacts
<1>15. \A f \in Fibers : FiberFacts(f)'
  BY <1>1, <1>9, <1>12, FibersKept
<1>16. ASSUME NEW h \in Others(t)
       PROVE  CallFacts(h)'
  <2>1. CallFacts(h)
    BY <1>1, <1>2, <1>5, StepCalls DEF BindInv
  <2>2. /\ Registering \subseteq EntryCalls /\ Releasing \subseteq EntryCalls
        /\ Claiming \subseteq Registering /\ {"register", "refused"} \subseteq Registering
        /\ "unpin" \in Releasing
    BY EntryPlaces
  <2>3. h.at \in EntryCalls => h.b \in Known
    BY <2>1 DEF CallFacts
  <2> HIDE DEF Registering, Releasing, EntryCalls, Claiming
  <2>4. h.at \in Claiming => h.b \in Known \ {b}
    BY <1>4, <2>1, <2>2, <2>3 DEF CallFacts
  <2>5. h.at \in {"register", "refused", "unpin"} /\ ~InSlot(h.b) => ~InSlot(h.b)'
    BY <1>11, <2>2, <2>3
  <2>6. QED
    BY <1>9, <1>11, <1>12, <2>1, <2>4, <2>5, CallFactsKept
<1>17. /\ "unpin" \in EntryCalls /\ "unpin" \in Releasing /\ "unpin" \notin Owning
       /\ "unpin" \notin Providing /\ "unpin" \notin Registering /\ "unpin" \notin Claiming
       /\ "unpin" \notin {"register", "refused"}
  BY EntryPlaces, OwningPlaces
<1>18. CallFacts(g)'
  BY <1>1, <1>2, <1>3, <1>4, <1>6, <1>9, <1>11, <1>12, <1>17, MovesOnNext
<1>19. /\ CallFacts(k)' /\ k.at \notin Registering \cup Releasing
       /\ k.at \notin Owning \cup Providing
  <2>1. /\ CallFacts(k) /\ k.at \notin Registering \cup Releasing
        /\ k.at \notin Owning \cup Providing /\ k.at = "notify"
    BY <1>3, <1>6, PlainCallFits DEF IsNotification, PlainCalls, IsCall
  <2>2. /\ k.at \notin Claiming /\ k.at \notin {"register", "refused", "unpin"}
    BY <2>1, EntryPlaces
  <2>3. QED
    BY <1>9, <1>12, <2>1, <2>2, CallFactsKept
<1>20. g.at = "unpin" /\ g.b = b /\ \A i \in 1..Len(c) : (i = 1 /\ c[i] = g) \/ c[i] = k
  BY <1>6 DEF Moved, IsTwo
<1>21. OneCalls'
  BY <1>1, <1>2, <1>3, <1>5, <1>17, <1>19, <1>20, OneCallsKept
<1>22. \A i \in 1..Len(c) : /\ c[i].at \notin Owning \cup Providing
                            /\ CallFacts(c[i])'
  BY <1>17, <1>18, <1>19, <1>20
<1>23. QED
  BY <1>1, <1>2, <1>5, <1>8, <1>9, <1>13, <1>14, <1>15, <1>16, <1>21, <1>22, OwningPlaces,
     EntryStep DEF CoreInv

LEMMA UnpinCore ==
    ASSUME CoreInv, NEW t \in Threads, Unpin(t)
    PROVE  CoreInv'
<1> PICK b : b = Top(t).b
  OBVIOUS
<1> PICK f : f = Top(t).f
  OBVIOUS
<1>1. TypeOK /\ CallInv /\ BindInv
  BY DEF CoreInv
<1>2. stack[t] # <<>> /\ Top(t) \in Frames /\ Top(t).at = "unpin"
  BY <1>1, InCall DEF Unpin, IsAt
<1>3. /\ Top(t).at \in EntryCalls /\ b \in Known /\ b \in Bindings /\ f \in Fibers
      /\ CallFacts(Top(t)) /\ Top(t).at \in Releasing
  <2>1. Top(t).at \in EntryCalls /\ Top(t).at \in Releasing
    BY <1>2, EntryPlaces
  <2>2. QED
    BY <1>1, <1>2, <2>1, EntryCallFits
<1>4. b \in installed /\ ~InSlot(b)
  BY <1>2, <1>3 DEF CallFacts
<1>5. PICK c : Step(t, c) /\ IsNone(c)
  BY <1>1, UnpinStep
<1>6. /\ once' = [once EXCEPT ![b] = "done"]
      /\ pinned' = [pinned EXCEPT ![f] = @ \ Named(f, made[b].name)]
  BY DEF Unpin, LeaveOnce, Self
<1>7. /\ once' \in [Bindings -> {"new", "running", "done"}]
      /\ once'[b] = "done" /\ \A x \in Bindings \ {b} : once'[x] = once[x]
  BY <1>1, <1>3, <1>6 DEF TypeOK
<1>8. /\ pinned' \in [Fibers -> Epochs]
      /\ \A g \in Fibers : pinned'[g] \subseteq pinned[g]
  <2>1. pinned \in [Fibers -> Epochs] /\ pinned[f] \in Epochs
    BY <1>1, <1>3 DEF TypeOK
  <2>2. Named(f, made[b].name) \cap Inactive = {}
    BY DEF Named
  <2>3. pinned[f] \ Named(f, made[b].name) \in Epochs
    BY <2>1, <2>2 DEF Epochs
  <2> HIDE DEF Named
  <2>4. QED
    BY <1>3, <1>6, <2>1, <2>3
<1>9. TypeOK'
  <2>1. stack' \in [Threads -> Seq(Frames)]
    BY <1>5 DEF Step, Changes
  <2>2. QED
    BY <1>1, <1>7, <1>8, <2>1 DEF TypeOK, Unpin, registry, services, driver, calls
<1>10. /\ UNCHANGED <<slot, made, installed, deferred, loaded, entries, epoch, attached>>
       /\ busy' = busy /\ Known' = Known
       /\ \A x : InSlot(x)' <=> InSlot(x)
  BY DEF Unpin, registry, services, driver, calls, Known, InSlot
<1>11. \A x \in Known : x \in Bindings
  BY <1>1, GraphAssumption DEF BindInv, MadeFit, Known, Bindings, TypeOK
<1>12. \A x \in Known : Seen(x) => Seen(x)'
  BY <1>7, <1>10, <1>11 DEF Seen
<1>13. SlotsFit'
  BY <1>1, <1>10 DEF BindInv, SlotsFit
<1>14. \A x \in Bindings : EntryFacts(x)'
  BY <1>1, <1>4, <1>7, <1>10 DEF BindInv, EntryFacts
<1>15. ASSUME NEW h \in Others(t)
       PROVE  CallFacts(h)'
  <2>1. CallFacts(h)
    BY <1>1, <1>2, <1>5, StepCalls DEF BindInv
  <2>2. ~(h.at \in Releasing /\ h.b = b)
    BY <1>1, <1>2, <1>3, CallAlone DEF BindInv
  <2>3. Releasing \subseteq EntryCalls
    BY EntryPlaces
  <2>4. h.at \in Releasing => h.b \in Bindings \ {b}
    BY <1>11, <2>1, <2>2, <2>3 DEF CallFacts
  <2> HIDE DEF Registering, Releasing, EntryCalls, Claiming
  <2>5. QED
    BY <1>7, <1>10, <1>12, <2>1, <2>4, CallFactsKept
<1>16. QED
  BY <1>1, <1>2, <1>3, <1>5, <1>8, <1>9, <1>10, <1>12, <1>13, <1>14, <1>15, EntryReturns
     DEF CoreInv

LEMMA ProvideCore ==
    ASSUME CoreInv, NEW t \in Threads, Provide(t)
    PROVE  CoreInv'
<1> PICK f : f = Top(t).f
  OBVIOUS
<1> PICK b : b = Len(made) + 1
  OBVIOUS
<1>1. TypeOK /\ CallInv /\ BindInv /\ Nested
  BY DEF CoreInv, CallInv
<1>2. stack[t] # <<>> /\ Top(t) \in Frames /\ Top(t).at = "provide" /\ f \in Fibers
      /\ CallFacts(Top(t)) /\ Top(t).name \in Names
  <2>1. stack[t] # <<>> /\ Top(t).at = "provide"
    BY <1>1, InCall DEF Provide, IsAt
  <2>2. QED
    BY <1>1, <2>1, TopFits DEF Frames
<1>3. PICK c :
        \/ /\ Closed(f) \/ b > MaxBindings
           /\ UNCHANGED <<made, entries, stray>>
           /\ Fails(t, c)
        \/ /\ ~Closed(f) /\ b <= MaxBindings
           /\ Step(t, c)
           /\ \E g \in Frames : /\ IsOne(c, g) /\ g.name = Top(t).name
                                /\ IsAbout(g, Top(t), "register", b)
  BY <1>1, ProvideStep
<1>4. /\ UNCHANGED <<slot, installed, deferred, once, loaded, epoch, pinned, attached>>
      /\ busy' = busy
      /\ UNCHANGED <<services, slot, installed, deferred, once, attached, generation,
                     driver, calls>>
  BY DEF Provide, generation, driver, calls
<1>5. Len(made) \in Nat /\ b \in Nat \ {0} /\ MaxBindings \in Nat
  BY <1>1, LenProperties, GraphAssumption DEF TypeOK
<1>6. CASE /\ UNCHANGED <<made, entries, stray>>
           /\ Fails(t, c)
  <2>1. TypeOK'
    <3>1. stack' \in [Threads -> Seq(Frames)]
      BY <1>6 DEF Fails, Step, Changes
    <3>2. QED
      BY <1>1, <1>4, <1>6, <3>1 DEF TypeOK, services, generation, driver, calls
  <2>2. UNCHANGED BindVars
    BY <1>4, <1>6 DEF BindVars
  <2>3. QED
    BY <1>1, <1>2, <1>4, <1>6, <2>1, <2>2, OwningPlaces, FactsSame, FailStep1 DEF CoreInv
<1>7. CASE /\ ~Closed(f) /\ b <= MaxBindings
           /\ Step(t, c)
           /\ \E g \in Frames : /\ IsOne(c, g) /\ g.name = Top(t).name
                                /\ IsAbout(g, Top(t), "register", b)
  <2> PICK r : r = [provider |-> f, name |-> Top(t).name, label |-> Place[f][Top(t).name]]
    OBVIOUS
  <2>1. /\ made' = Append(made, r)
        /\ entries' = [entries EXCEPT ![f] = Append(@, b)]
        /\ stray' \subseteq stray \cup {b}
    BY <1>5, <1>7 DEF Provide, Self
  <2>2. r \in [provider : Fibers, name : Names, label : Labels]
    BY <1>2, GraphAssumption
  <2>3. /\ made' \in Seq([provider : Fibers, name : Names, label : Labels])
        /\ Len(made') = b /\ made'[b] = r
        /\ \A x \in 1..Len(made) : made'[x] = made[x]
    BY <1>1, <2>1, <2>2, AppendProperties DEF TypeOK
  <2>4. /\ Known' = Known \cup {b} /\ b \notin Known /\ b # Vacant /\ b \in Bindings
        /\ \A x \in Known : made'[x] = made[x]
    BY <1>5, <1>7, <2>3 DEF Known, Vacant, Bindings
  <2>5. /\ b \notin installed /\ b \notin deferred /\ once[b] = "new"
    <3>1. once[b] \in {"new", "running", "done"} /\ EntryFacts(b)
      BY <1>1, <2>4 DEF TypeOK, BindInv
    <3>2. QED
      BY <2>4, <3>1 DEF EntryFacts
  <2>6. /\ Append(entries[f], b) \in Seq(Bindings) /\ IsInjective(Append(entries[f], b))
        /\ ToSet(Append(entries[f], b)) = ToSet(entries[f]) \cup {b}
    <3>1. b \notin ToSet(entries[f])
      BY <1>1, <1>2, <2>4 DEF BindInv, FiberFacts
    <3>2. entries[f] \in Seq(Bindings) /\ IsInjective(entries[f])
      BY <1>1, <1>2 DEF TypeOK
    <3>3. QED
      BY <2>4, <3>1, <3>2, Appending
  <2>7. /\ entries' \in [Fibers -> Seq(Bindings)]
        /\ \A h \in Fibers : IsInjective(entries'[h])
        /\ ToSet(entries'[f]) = ToSet(entries[f]) \cup {b}
        /\ \A h \in Fibers \ {f} : entries'[h] = entries[h]
    <3>1. entries \in [Fibers -> Seq(Bindings)] /\ \A h \in Fibers : IsInjective(entries[h])
      BY <1>1 DEF TypeOK
    <3>2. /\ entries'[f] = Append(entries[f], b)
          /\ \A h \in Fibers \ {f} : entries'[h] = entries[h]
          /\ entries' \in [Fibers -> Seq(Bindings)]
      BY <1>2, <2>1, <2>6, <3>1
    <3>3. QED
      BY <2>6, <3>1, <3>2
  <2>8. TypeOK'
    <3>1. stack' \in [Threads -> Seq(Frames)]
      BY <1>7 DEF Step, Changes
    <3>2. stray' \subseteq Bindings
      BY <1>1, <2>1, <2>4 DEF TypeOK
    <3>3. UNCHANGED <<slot, silent, wavered, changed, installed, deferred, once, attached,
                      state, epoch, live, pinned, busy, dirty, forceReload, disposed, loaded,
                      requests>>
      BY <1>4 DEF services, generation, driver, calls
    <3>4. entries' \in [Fibers -> Seq(Bindings)] /\ \A h \in Fibers : IsInjective(entries'[h])
      BY <2>7
    <3>5. QED
      BY <1>1, <2>3, <3>1, <3>2, <3>3, <3>4 DEF TypeOK
  <2>9. SlotsFit'
    BY <1>1, <1>4, <2>4 DEF BindInv, SlotsFit
  <2>10. MadeFit'
    <3>1. r.name \in ToSet(Offers[r.provider]) /\ r.label = Place[r.provider][r.name]
      BY <1>2 DEF CallFacts
    <3>2. QED
      BY <1>1, <1>7, <2>3, <2>4, <3>1 DEF BindInv, MadeFit
  <2>11. /\ ~InSlot(b)'
         /\ \A x \in Known : InSlot(x)' <=> InSlot(x)
    <3>1. r.label \in Labels
      BY <2>2
    <3>2. slot[r.label] # b
      BY <1>1, <2>4, <3>1 DEF BindInv, SlotsFit
    <3>3. QED
      BY <1>4, <2>3, <2>4, <3>2 DEF InSlot
  <2>12. \A x \in Known : Seen(x) => Seen(x)'
    BY <1>4, <2>4, <2>11 DEF Seen
  <2>13. \A x \in Bindings : EntryFacts(x)'
    <3>1. ASSUME NEW x \in Bindings PROVE EntryFacts(x)'
      <4>1. EntryFacts(x) /\ once[x] \in {"new", "running", "done"}
        BY <1>1 DEF BindInv, TypeOK
      <4>2. CASE x = b
        BY <1>4, <2>4, <2>5, <4>2 DEF EntryFacts
      <4>3. CASE x \in Known
        BY <1>4, <2>4, <2>11, <4>1, <4>3 DEF EntryFacts
      <4>4. CASE x \notin Known
        <5>1. x \notin installed /\ x \notin deferred /\ once[x] = "new"
          BY <4>1, <4>4 DEF EntryFacts
        <5>2. QED
          BY <1>4, <5>1 DEF EntryFacts
      <4>5. QED
        BY <4>2, <4>3, <4>4
    <3>2. QED
      BY <3>1
  <2>14. \A h \in Fibers : FiberFacts(h)'
    <3>1. ASSUME NEW h \in Fibers PROVE FiberFacts(h)'
      <4>1. FiberFacts(h)
        BY <1>1 DEF BindInv
      <4>2. \A x \in ToSet(entries'[h]) : x \in Known' /\ made'[x].provider = h
        <5>1. \A x \in ToSet(entries[h]) : x \in Known' /\ made'[x].provider = h
          BY <2>4, <4>1 DEF FiberFacts
        <5>2. b \in Known' /\ made'[b].provider = f
          BY <2>3, <2>4
        <5>3. ToSet(entries'[h]) = IF h = f THEN ToSet(entries[h]) \cup {b} ELSE ToSet(entries[h])
          BY <2>7
        <5>4. QED
          BY <5>1, <5>2, <5>3
      <4>3. \A x \in (epoch[h] \cup pinned[h]) \ Inactive : Seen(x)'
        <5>1. \A x \in (epoch[h] \cup pinned[h]) \ Inactive : Seen(x) /\ x \in Known
          BY <4>1 DEF FiberFacts, Seen
        <5>2. QED
          BY <2>12, <5>1
      <4>4. Inactive' = Inactive
        BY DEF Inactive, Vacant
      <4>5. QED
        BY <1>4, <4>1, <4>2, <4>3, <4>4 DEF FiberFacts
    <3>2. QED
      BY <3>1
  <2>15. PICK g \in Frames : /\ IsOne(c, g) /\ g.name = Top(t).name
                             /\ IsAbout(g, Top(t), "register", b)
    BY <1>7
  <2>16. /\ g.at = "register" /\ g.f = f /\ g.b = b /\ g.todo = Top(t).todo
         /\ g.got = Top(t).got
         /\ \A i \in 1..Len(c) : i = 1 /\ c[i] = g
    BY <2>15 DEF IsOne, IsAbout
  <2>17. \A x \in g.got \cup g.todo : Seen(x)'
    <3>1. \A x \in g.got \cup g.todo : Seen(x) /\ x \in Known
      BY <1>2, <2>16 DEF CallFacts, Seen
    <3>2. QED
      BY <2>12, <3>1
  <2>18. /\ "register" \in EntryCalls /\ "register" \in Registering
         /\ "register" \in Providing /\ "provide" \in Providing
         /\ "register" \notin Owning /\ "register" \notin Claiming
         /\ "register" \notin Releasing
         /\ "register" \notin Looking \cup Unloads \cup LookedUp
    BY EntryPlaces, OwningPlaces
  <2>19. CallFacts(g)'
    <3>1. ComesBack(g)'
      BY <2>16, <2>18 DEF ComesBack, Looking, Unloads
    <3>2. made'[b].name = g.name /\ made'[b].provider = f /\ f \in loaded
      BY <1>2, <2>3, <2>15 DEF CallFacts
    <3> HIDE DEF EntryCalls, Registering, Releasing, LookedUp, Claiming
    <3>3. /\ Registering' = Registering /\ Releasing' = Releasing
          /\ EntryCalls' = EntryCalls /\ LookedUp' = LookedUp /\ Claiming' = Claiming
      BY KindsOfCalls
    <3>4. /\ g.f \in loaded' /\ g.b \in Known' /\ g.b # Vacant
          /\ made'[g.b].provider = g.f /\ made'[g.b].name = g.name
          /\ g.b \notin installed' /\ ~InSlot(g.b)'
      BY <1>4, <2>4, <2>5, <2>11, <2>16, <3>2
    <3>5. QED
      BY <2>16, <2>17, <2>18, <3>1, <3>3, <3>4 DEF CallFacts
  <2>20. ASSUME NEW h \in Others(t)
         PROVE  CallFacts(h)' /\ ~(h.at \in Registering /\ h.b = b)
    <3>1. CallFacts(h)
      BY <1>1, <1>2, <1>7, StepCalls DEF BindInv
    <3>2. /\ Registering \subseteq EntryCalls /\ Releasing \subseteq EntryCalls
          /\ Claiming \subseteq Registering /\ {"register", "refused"} \subseteq Registering
          /\ "unpin" \in Releasing
      BY EntryPlaces
    <3>3. h.at \in EntryCalls => h.b \in Known
      BY <3>1 DEF CallFacts
    <3> HIDE DEF Registering, Releasing, EntryCalls, Claiming
    <3>4. /\ h.at \in {"register", "refused", "unpin"} => h.b \in Known
          /\ h.at \in Claiming => h.b \in Known
          /\ h.at \in Registering => h.b \in Known
      BY <3>2, <3>3
    <3>5. CallFacts(h)'
      BY <1>4, <2>4, <2>11, <2>12, <3>1, <3>4, CallFactsKept
    <3>6. QED
      BY <2>4, <3>4, <3>5
  <2>21. OneCalls'
    <3> HIDE DEF Registering, Releasing
    <3>1. /\ Distinct(Registering, c) /\ Unmet(Registering, Others(t), c)
          /\ Distinct(Releasing, c) /\ Unmet(Releasing, Others(t), c)
      BY <2>16, <2>18, <2>20 DEF Distinct, Unmet
    <3>2. OneCall(Registering) /\ OneCall(Releasing)
      BY <1>1 DEF BindInv
    <3>3. OneCallNext(Registering) /\ OneCallNext(Releasing)
      BY <1>1, <1>7, <3>1, <3>2, OneCallStep DEF Step, Others
    <3>4. QED
      BY <3>3, KindsOfCalls DEF OneCalls, OneCall, OneCallNext
  <2>22. \A i \in 1..Len(c) :
            /\ c[i].at \notin Owning
            /\ c[i].at \in Providing => i = 1 /\ Top(t).at \in Providing /\ c[i].f = Top(t).f
            /\ CallFacts(c[i])'
    BY <1>2, <2>16, <2>18, <2>19
  <2>23. QED
    BY <1>1, <1>2, <1>4, <1>7, <2>8, <2>9, <2>10, <2>13, <2>14, <2>20, <2>21, <2>22,
       OwningPlaces, EntryStep DEF CoreInv
<1>8. QED
  BY <1>3, <1>6, <1>7

----------------------------------------------------------------------------
(* The calls and the bindings, in every behaviour.                          *)

LEMMA CoreInit == Init => CoreInv
<1> SUFFICES ASSUME Init PROVE CoreInv
  OBVIOUS
<1>1. TypeOK
  <2>1. /\ <<>> \in Seq(Bindings) /\ <<>> \in Seq(Frames)
        /\ <<>> \in Seq([provider : Fibers, name : Names, label : Labels])
        /\ IsInjective(<<>>)
    BY DEF IsInjective
  <2>2. Inactive \in Epochs /\ Vacant \in Bindings \cup {Vacant} /\ 0 \in 0..MaxRequests
    BY GraphAssumption DEF Epochs
  <2>3. QED
    BY <2>1, <2>2 DEF Init, TypeOK, None, FiberStates
<1>2. Calls = {} /\ \A t \in Threads : Len(stack[t]) = 0
  BY DEF Init, Calls
<1>3. CallInv
  BY <1>2 DEF CallInv, OneOwner, BusyOwned, Nested, Has, Init, None
<1>4. BindInv
  <2>1. Known = {} /\ Len(made) = 0
    BY DEF Init, Known
  <2>2. SlotsFit /\ MadeFit
    BY <2>1, GraphAssumption DEF Init, SlotsFit, MadeFit
  <2>3. \A b \in Bindings : EntryFacts(b)
    <3>1. \A b \in Bindings : ~InSlot(b) \/ once[b] = "new"
      BY DEF Init
    <3>2. QED
      BY <3>1 DEF Init, EntryFacts
  <2>4. \A f \in Fibers : FiberFacts(f)
    <3>1. ToSet(<<>>) = {}
      BY DEF ToSet
    <3>2. QED
      BY <3>1 DEF Init, FiberFacts
  <2>5. OneCall(Registering) /\ OneCall(Releasing)
    BY <1>2 DEF OneCall
  <2>6. QED
    BY <1>2, <2>2, <2>3, <2>4, <2>5 DEF BindInv
<1>5. QED
  BY <1>1, <1>3, <1>4 DEF CoreInv

LEMMA CoreNext ==
    ASSUME CoreInv, [Next]_vars
    PROVE  CoreInv'
<1>1. ASSUME NEW t \in Threads, Request(t) PROVE CoreInv'
  BY <1>1, LoadCore, RestartCore, DisposeCore, ProvideAgainCore, SetCore, WithdrawCore
     DEF Request
<1>2. ASSUME NEW t \in Threads, Driving(t) PROVE CoreInv'
  BY <1>2, ForceReloadCore, RemoveFiberCore, BeginTransitionCore, BeginPassCore, EndPassCore,
     SyncCore, FetchCore, CheckCore, ProbeCore, ApplyUnloadCore, ReloadCore DEF Driving
<1>3. ASSUME NEW t \in Threads, Generating(t) PROVE CoreInv'
  BY <1>3, LoadGenerationCore, SetLoadingCore, RecheckCore, ReprobeCore, GiveBackCore,
     GaveBackCore, CommitCore, RunBodyCore, ActivateCore, SetActiveCore, FailCore,
     SetFailedCore, UnloadCore, SetUnloadingCore, ClearCore, UnloadedCore, SetPendingCore,
     FinalizeDisposeCore DEF Generating
<1>4. ASSUME NEW t \in Threads, Serving(t) PROVE CoreInv'
  BY <1>4, NotifyCore, NotifyProvidedCore, UpdateCore, ProvideCore, RegisterCore, RefusedCore,
     PinCore, TellCore, InstallCore, RequestDisposeCore, EnterOnceCore, UnregisterCore,
     UnpinCore, UnlistCore DEF Serving
<1>5. ASSUME NEW b \in Bindings, Waver(b) PROVE CoreInv'
  BY <1>5, WaverCore
<1>6. CASE UNCHANGED vars
  BY <1>6, SameCore
<1>7. QED
  BY <1>1, <1>2, <1>3, <1>4, <1>5, <1>6 DEF Next, Proceed, Stop

LEMMA CoreAlways == Spec => []CoreInv
  BY CoreInit, CoreNext, PTL DEF Spec

\* The state of the graph is what it is declared to be, whatever the fibers,
\* their services and the calls made.
THEOREM TypeCorrect == Spec => []TypeOK
  BY CoreAlways, PTL DEF CoreInv

\* Only the update of a service gives it a value.
LEMMA ChangesValue ==
    ASSUME [Next]_vars
    PROVE  changed' = changed \/ \E t \in Threads : Update(t)
<1> USE DEF registry, services
<1>1. ASSUME NEW t \in Threads, Request(t) PROVE changed' = changed
  BY <1>1 DEF Request, Load, Restart, Dispose, ProvideAgain, Set, Withdraw
<1>2. ASSUME NEW t \in Threads, Driving(t) PROVE changed' = changed
  BY <1>2 DEF Driving, ForceReload, RemoveFiber, BeginTransition, BeginPass, EndPass, Sync,
              Fetch, Check, Probe, ApplyUnload, Reload
<1>3. ASSUME NEW t \in Threads, Generating(t) PROVE changed' = changed
  BY <1>3 DEF Generating, LoadGeneration, SetLoading, Recheck, Reprobe, GiveBack, GaveBack,
              Commit, RunBody, Activate, SetActive, Fail, SetFailed, Unload, SetUnloading,
              Clear, Unloaded, SetPending, FinalizeDispose
<1>4. ASSUME NEW t \in Threads, Serving(t) PROVE changed' = changed \/ Update(t)
  BY <1>4 DEF Serving, Notify, NotifyProvided, Provide, Register, Refused, Pin, Tell, Install,
              RequestDispose, EnterOnce, Unregister, Unpin, Unlist
<1>5. ASSUME NEW b \in Bindings, Waver(b) PROVE changed' = changed
  BY <1>5 DEF Waver
<1>6. CASE UNCHANGED vars
  BY <1>6 DEF vars
<1>7. QED
  BY <1>1, <1>2, <1>3, <1>4, <1>5, <1>6 DEF Next, Proceed, Stop

\* A Set that lost a race with a withdrawal or a new provider changes nothing:
\* a value is only ever written to a service in its place, which nobody has
\* moved on from, except to one that is itself being released (setService,
\* updateService).
THEOREM SetsInPlace == Spec => SetInPlace
<1> DEFINE A == \A b \in changed' \ changed :
                  /\ once[b] # "done"
                  /\ \A f \in Fibers : \A c \in (epoch[f] \cup pinned[f]) \ Inactive :
                       made[c].label = made[b].label => c = b \/ once[c] # "new"
<1>1. ASSUME CoreInv, [Next]_vars PROVE [A]_vars
  <2>1. TypeOK /\ BindInv
    BY <1>1 DEF CoreInv
  <2>2. CASE changed' = changed
    BY <2>2
  <2>3. ASSUME NEW t \in Threads, Update(t) PROVE A
    <3>1. stack[t] # <<>> /\ Top(t).at = "update"
      BY <2>1, <2>3, InCall DEF Update, IsAt
    <3>2. CallFacts(Top(t)) /\ Top(t).b \in Known /\ Top(t).b \in Bindings
      <4>1. CallFacts(Top(t)) /\ Top(t) \in Frames
        BY <2>1, <3>1, TopFits
      <4>2. QED
        BY <3>1, <4>1 DEF CallFacts, Frames
    <3>3. ASSUME NEW b \in changed', b \notin changed
          PROVE  b = Top(t).b /\ InSlot(b)
      BY <2>3, <3>3 DEF Update, InSlot
    <3>4. ASSUME NEW b \in changed', b \notin changed
          PROVE  once[b] # "done"
      BY <2>1, <3>2, <3>3, <3>4 DEF BindInv, EntryFacts
    <3>5. ASSUME NEW b \in changed', b \notin changed, NEW f \in Fibers,
                 NEW c \in (epoch[f] \cup pinned[f]) \ Inactive,
                 made[c].label = made[b].label
          PROVE  c = b \/ once[c] # "new"
      <4>1. Seen(c)
        BY <2>1, <3>5, FibersNow
      <4>2. InSlot(b)
        BY <3>3, <3>5
      <4>3. QED
        BY <3>5, <4>1, <4>2 DEF Seen, InSlot
    <3>6. QED
      BY <3>4, <3>5
  <2>4. QED
    BY <1>1, <2>2, <2>3, ChangesValue
<1>2. QED
  BY <1>1, CoreAlways, PTL DEF Spec, SetInPlace

----------------------------------------------------------------------------
(* What a generation runs with.                                             *)

\* The bindings that exist stay what they are.
MadeStays == \A b \in Known : b \in Known' /\ made'[b] = made[b]

LEMMA Describes ==
    ASSUME CoreInv, MadeStays
    PROVE  /\ \A S \in SUBSET Known : NamesOf(S)' = NamesOf(S)
           /\ \A S \in SUBSET Known : \A f : Fits(f, S)' <=> Fits(f, S)
           /\ \A S \in SUBSET Known : \A f : Resolves(f, S)' <=> Resolves(f, S)
<1> SUFFICES ASSUME NEW S \in SUBSET Known
             PROVE  /\ NamesOf(S)' = NamesOf(S)
                    /\ \A f : Fits(f, S)' <=> Fits(f, S)
                    /\ \A f : Resolves(f, S)' <=> Resolves(f, S)
  OBVIOUS
<1>1. \A b \in S : made'[b].name = made[b].name /\ made'[b].label = made[b].label
  BY DEF MadeStays
<1>2. NamesOf(S)' = NamesOf(S)
  BY <1>1 DEF NamesOf
<1>3. ASSUME NEW f PROVE Fits(f, S)' <=> Fits(f, S)
  BY <1>1 DEF Fits
<1>4. ASSUME NEW f PROVE Resolves(f, S)' <=> Resolves(f, S)
  BY <1>2, <1>3 DEF Resolves
<1>5. QED
  BY <1>2, <1>3, <1>4

\* What a call has found is known.
LEMMA FoundIsKnown ==
    ASSUME CoreInv, NEW g \in Calls
    PROVE  /\ g \in Frames /\ g.f \in Fibers /\ g.got \subseteq Known
           /\ g.at \in LookedUp => g.b \in Known /\ g.b # Vacant
           /\ g.at \in {"check", "probe"} => g.queue # <<>>
<1>1. TypeOK /\ CallFacts(g)
  BY DEF CoreInv, BindInv
<1>2. g \in Frames
  BY <1>1, CallsTyping
<1>3. QED
  BY <1>1, <1>2 DEF CallFacts, Seen, EntryCalls, LookedUp, Frames

\* A look that goes on under other goroutines is not disturbed.
LEMMA LookKept ==
    ASSUME CoreInv, NEW g \in Calls, LookFacts(g), MadeStays
    PROVE  LookFacts(g)'
<1>1. /\ g.got \in SUBSET Known
      /\ g.at \in {"check", "probe"} => made'[g.b] = made[g.b]
  BY FoundIsKnown DEF MadeStays, LookedUp
<1>2. /\ NamesOf(g.got)' = NamesOf(g.got)
      /\ Fits(g.f, g.got)' <=> Fits(g.f, g.got)
      /\ Resolves(g.f, g.got)' <=> Resolves(g.f, g.got)
  BY <1>1, Describes
<1>3. QED
  BY <1>1, <1>2 DEF LookFacts, Looking, Loads

\* A call at another place has nothing to keep.
LEMMA Unwatched ==
    ASSUME NEW g, g.at \notin Watched
    PROVE  GenerationFacts(g)'
  BY DEF GenerationFacts, LookFacts, Watched, Looking, Loads

CallsKept == \A g \in Calls' : GenerationFacts(g)'

\* A step of a goroutine that changes no state, and makes no call that is
\* watched.
PlainCallsNext == \A g \in Calls' : g \in Calls \/ g.at \notin Watched

LEMMA PlainCallsKept ==
    ASSUME CoreInv, \A g \in Calls : GenerationFacts(g), MadeStays, PlainCallsNext,
           state' = state,
           \A f \in Fibers : pinned[f] # Inactive => pinned'[f] # Inactive
    PROVE  CallsKept
<1>1. SUFFICES ASSUME NEW g \in Calls' PROVE GenerationFacts(g)'
  BY DEF CallsKept
<1>2. CASE g \notin Calls
  BY <1>2, Unwatched DEF PlainCallsNext
<1>3. CASE g \in Calls
  <2>1. LookFacts(g)' /\ GenerationFacts(g) /\ g.f \in Fibers
    BY <1>3, LookKept, FoundIsKnown DEF GenerationFacts
  <2>2. QED
    BY <2>1 DEF GenerationFacts
<1>4. QED
  BY <1>2, <1>3

\* A step of the driver of a fiber, which is the only call that is watched there.
LEMMA DriverCallsKept ==
    ASSUME CoreInv, \A g \in Calls : GenerationFacts(g), NEW t \in Threads,
           stack[t] # <<>>, NEW c, Step(t, c), Top(t).at \in Owning, made' = made,
           \A f \in Fibers \ {Top(t).f} : state'[f] = state[f] /\ pinned'[f] = pinned[f],
           \A i \in 1..Len(c) : c[i].at \in Watched => GenerationFacts(c[i])'
    PROVE  CallsKept
<1>1. TypeOK /\ OneOwner
  BY DEF CoreInv, CallInv
<1>2. /\ Calls = Others(t) \cup {Top(t)} /\ Calls' = Others(t) \cup New(c)
  BY <1>1, StepCalls
<1>3. ASSUME NEW g \in New(c) PROVE GenerationFacts(g)'
  <2>1. PICK i \in 1..Len(c) : g = c[i]
    BY DEF New
  <2>2. QED
    BY <2>1, Unwatched
<1>4. ASSUME NEW g \in Others(t) PROVE GenerationFacts(g)'
  <2>1. g \in Calls /\ GenerationFacts(g) /\ g.f \in Fibers
    BY <1>2, FoundIsKnown
  <2>2. MadeStays
    BY DEF MadeStays, Known
  <2>3. LookFacts(g)'
    BY <2>1, <2>2, LookKept DEF GenerationFacts
  <2>4. g.at \in Holding \cup Winding => g.at \in Owning
    BY DEF Holding, Winding, Owning, Started, Unloads
  <2>5. g.at \in Holding \cup Winding => g.f # Top(t).f
    BY <1>1, <2>4, OwnerAlone
  <2>6. g.at \in Holding \cup Winding => state'[g.f] = state[g.f] /\ pinned'[g.f] = pinned[g.f]
    BY <2>1, <2>5
  <2>7. QED
    BY <2>1, <2>3, <2>6 DEF GenerationFacts
<1>5. QED
  BY <1>2, <1>3, <1>4 DEF CallsKept

\* A snapshot stays what the epoch of its generation says, while the epoch does
\* or is given up.
LEMMA SnapshotKept ==
    ASSUME CoreInv, NEW f \in Fibers, SnapshotFacts(f), MadeStays,
           pinned'[f] = pinned[f], epoch'[f] = epoch[f] \/ epoch'[f] = Inactive,
           state'[f] = "active" => state[f] = "active" \/ pinned[f] # Inactive
    PROVE  SnapshotFacts(f)'
<1>1. pinned[f] # Inactive => \A b \in pinned[f] : made'[b] = made[b]
  <2>1. pinned[f] \in Epochs /\ FiberFacts(f)
    BY DEF CoreInv, TypeOK, BindInv
  <2>2. pinned[f] # Inactive => \A b \in pinned[f] : b \notin Inactive
    BY <2>1 DEF Epochs, Inactive, Bindings, Vacant
  <2>3. QED
    BY <2>1, <2>2 DEF FiberFacts, Seen, MadeStays
<1>2. ASSUME pinned[f] # Inactive, Pinned(f) PROVE Pinned(f)'
  <2>1. SUFFICES ASSUME NEW n \in ToSet(Inject[f])
                 PROVE  \E b \in pinned'[f] :
                           /\ made'[b].name = n /\ made'[b].label = Scope[f][n]
                           /\ epoch'[f] # Inactive => b \in epoch'[f]
                           /\ \A c \in pinned'[f] : made'[c].name = n => c = b
    BY DEF Pinned
  <2>2. PICK b \in pinned[f] :
           /\ made[b].name = n /\ made[b].label = Scope[f][n]
           /\ epoch[f] # Inactive => b \in epoch[f]
           /\ \A c \in pinned[f] : made[c].name = n => c = b
    BY <1>2 DEF Pinned
  <2>3. \A c \in pinned[f] : made'[c] = made[c]
    BY <1>1, <1>2
  <2>4. QED
    BY <2>2, <2>3
<1>3. ASSUME epoch[f] # Inactive, Fits(f, epoch[f]), epoch'[f] = epoch[f]
      PROVE  Fits(f, epoch[f])'
  <2>1. \A b \in epoch[f] : made'[b] = made[b]
    <3>1. epoch[f] \in Epochs /\ FiberFacts(f)
      BY DEF CoreInv, TypeOK, BindInv
    <3>2. \A b \in epoch[f] : b \notin Inactive
      BY <1>3, <3>1 DEF Epochs, Inactive, Bindings, Vacant
    <3>3. QED
      BY <3>1, <3>2 DEF FiberFacts, Seen, MadeStays
  <2>2. QED
    BY <1>3, <2>1 DEF Fits
<1>4. QED
  BY <1>2, <1>3 DEF SnapshotFacts

LEMMA QuietGeneration ==
    ASSUME CoreInv, GenerationInv, MadeStays, CallsKept, state' = state,
           pinned' = pinned, \A f \in Fibers : epoch'[f] = epoch[f] \/ epoch'[f] = Inactive
    PROVE  GenerationInv'
<1>1. ASSUME NEW f \in Fibers PROVE SnapshotFacts(f)'
  BY <1>1, SnapshotKept DEF GenerationInv
<1>2. QED
  BY <1>1 DEF GenerationInv, CallsKept

\* The calls a step makes are not watched.
Unnoted(c) == \A i \in 1..Len(c) : c[i].at \notin Watched

LEMMA UnnotedShapes ==
    /\ \A c : IsNone(c) => Unnoted(c)
    /\ \A c, g : IsOne(c, g) /\ g.at \notin Watched => Unnoted(c)
    /\ \A c, g, h : IsTwo(c, g, h) /\ g.at \notin Watched /\ h.at \notin Watched => Unnoted(c)
    /\ \A c, h, at : Goes(c, h, at) /\ at \notin Watched => Unnoted(c)
    /\ \A c, at, f : Opens(c, at, f) /\ at \notin Watched => Unnoted(c)
    /\ \A c, f, back : Unloads1(c, f, back) => Unnoted(c)
    /\ \A c, at, f, b : StartsAt(c, at, f, b) /\ at \notin Watched => Unnoted(c)
<1>1. ASSUME NEW c, IsNone(c) PROVE Unnoted(c)
  BY <1>1 DEF IsNone, Unnoted
<1>2. ASSUME NEW c, NEW g, IsOne(c, g), g.at \notin Watched PROVE Unnoted(c)
  <2>1. \A i \in 1..Len(c) : c[i] = g
    BY <1>2 DEF IsOne
  <2>2. QED
    BY <1>2, <2>1 DEF Unnoted
<1>3. ASSUME NEW c, NEW g, NEW h, IsTwo(c, g, h), g.at \notin Watched, h.at \notin Watched
      PROVE  Unnoted(c)
  <2>1. \A i \in 1..Len(c) : c[i] = g \/ c[i] = h
    BY <1>3 DEF IsTwo
  <2>2. QED
    BY <1>3, <2>1 DEF Unnoted
<1>4. "unload" \notin Watched
  BY DEF Watched, Holding, Winding, Looking, Loads
<1>5. QED
  BY <1>1, <1>2, <1>3, <1>4 DEF Goes, Opens, Unloads1, StartsAt, Moved, IsCall

LEMMA UnwatchedPlaces ==
    \A at \in {"force", "remove", "begin", "pass", "sync", "applyUnload", "reload",
               "giveBack", "gaveBack", "fail", "failed", "unload", "unloading",
               "repending", "finalize", "end", "names", "notify", "update", "provide",
               "register", "refused", "pin", "tell", "install", "unlist", "request",
               "once", "unregister", "unpin"} : at \notin Watched
  BY DEF Watched, Holding, Winding, Looking, Loads

LEMMA StepUnnoted ==
    ASSUME TypeOK, NEW t \in Threads, stack[t] # <<>>, NEW c, Step(t, c), Unnoted(c)
    PROVE  PlainCallsNext
  BY StepCalls DEF PlainCallsNext, Unnoted, New

LEMMA StartUnnoted ==
    ASSUME TypeOK, NEW t \in Threads, NEW c, Starts(t, c), Unnoted(c)
    PROVE  PlainCallsNext
  BY StartCalls DEF PlainCallsNext, Unnoted, New

LEMMA FailUnnoted ==
    ASSUME TypeOK, NEW t \in Threads, stack[t] # <<>>, NEW c, Fails(t, c)
    PROVE  PlainCallsNext
<1>1. CASE Step(t, c) /\ IsNone(c)
  BY <1>1, StepUnnoted, UnnotedShapes
<1>2. CASE /\ Calls = Below(t) \cup {Caller(t), Top(t)}
           /\ Calls' = Below(t) \cup New(c)
           /\ Goes(c, Caller(t), "fail")
  <2>1. Unnoted(c)
    BY <1>2, UnwatchedPlaces, UnnotedShapes
  <2>2. QED
    BY <1>2, <2>1 DEF PlainCallsNext, Unnoted, New
<1>3. QED
  BY <1>1, <1>2, FailCalls

\* A step that makes no watched call, and leaves the generations alone but for
\* an epoch that it gives up.
LEMMA PlainGeneration ==
    ASSUME CoreInv, GenerationInv, MadeStays, PlainCallsNext, state' = state,
           pinned' = pinned, \A f \in Fibers : epoch'[f] = epoch[f] \/ epoch'[f] = Inactive
    PROVE  GenerationInv'
<1>1. CallsKept
  BY PlainCallsKept DEF GenerationInv
<1>2. QED
  BY <1>1, QuietGeneration

LEMMA SameGeneration ==
    ASSUME CoreInv, GenerationInv, PlainCallsNext, UNCHANGED <<made, generation>>
    PROVE  GenerationInv'
<1>1. MadeStays /\ state' = state /\ pinned' = pinned /\ epoch' = epoch
  BY DEF MadeStays, Known, generation
<1>2. QED
  BY <1>1, PlainGeneration

\* The calls from outside.
LEMMA RequestGeneration ==
    ASSUME CoreInv, GenerationInv, NEW t \in Threads, Request(t)
    PROVE  GenerationInv'
<1>1. TypeOK
  BY DEF CoreInv
<1>2. ASSUME NEW f \in Fibers, Load(t, f) PROVE PlainCallsNext
  BY <1>1, <1>2, LoadStep, UnwatchedPlaces, UnnotedShapes, StartUnnoted
<1>3. ASSUME NEW f \in Fibers, Restart(t, f) PROVE PlainCallsNext
  BY <1>1, <1>3, RestartStep, UnwatchedPlaces, UnnotedShapes, StartUnnoted
<1>4. ASSUME NEW f \in Fibers, Dispose(t, f) PROVE PlainCallsNext
  BY <1>1, <1>4, DisposeStep, UnwatchedPlaces, UnnotedShapes, StartUnnoted
<1>5. ASSUME NEW f \in Fibers, NEW n \in Names, ProvideAgain(t, f, n) PROVE PlainCallsNext
  <2>1. PICK c : Starts(t, c) /\ \E g \in Frames : IsOne(c, g) /\ IsProvide(g, f, n)
    BY <1>1, <1>5, ProvideAgainStep
  <2>2. Unnoted(c)
    BY <2>1, UnwatchedPlaces, UnnotedShapes DEF IsProvide, IsCall
  <2>3. QED
    BY <1>1, <2>1, <2>2, StartUnnoted
<1>6. ASSUME NEW f \in Fibers, NEW n \in Names, Set(t, f, n) PROVE PlainCallsNext
  BY <1>1, <1>6, SetStep, UnwatchedPlaces, UnnotedShapes, StartUnnoted
<1>7. ASSUME NEW b \in Bindings, Withdraw(t, b) PROVE PlainCallsNext
  <2>1. b \in Known
    BY <1>7 DEF CoreInv, BindInv, EntryFacts, Withdraw
  <2>2. PICK c : Starts(t, c) /\ \E g, h \in Frames :
                   /\ IsTwo(c, g, h)
                   /\ IsCall(g, "unlist", made[b].provider, b)
                   /\ IsCall(h, "request", made[b].provider, b)
    BY <1>1, <1>7, <2>1, WithdrawStep
  <2>3. Unnoted(c)
    BY <2>2, UnwatchedPlaces, UnnotedShapes DEF IsCall
  <2>4. QED
    BY <1>1, <2>2, <2>3, StartUnnoted
<1>8. PlainCallsNext
  BY <1>2, <1>3, <1>4, <1>5, <1>6, <1>7 DEF Request
<1>9. UNCHANGED <<made, generation>>
  BY DEF Request, Load, Restart, Dispose, ProvideAgain, Set, Withdraw, registry
<1>10. QED
  BY <1>8, <1>9, SameGeneration

\* The steps of the other calls that leave the generations alone.
Aside(t) ==
    \/ ForceReload(t) \/ RemoveFiber(t) \/ BeginTransition(t) \/ BeginPass(t)
    \/ EndPass(t) \/ Fail(t)
    \/ Notify(t) \/ NotifyProvided(t) \/ Update(t) \/ Register(t) \/ Refused(t)
    \/ Tell(t) \/ Install(t) \/ RequestDispose(t) \/ EnterOnce(t)
    \/ Unregister(t) \/ Unlist(t)

----------------------------------------------------------------------------
(* What a generation runs with, action by action.                           *)

\* The steps that touch neither a generation nor a look at the names.
LEMMA AsideGeneration ==
    ASSUME CoreInv, GenerationInv, NEW t \in Threads, Aside(t)
    PROVE  GenerationInv'
<1> USE UnwatchedPlaces, UnnotedShapes
<1> SUFFICES PlainCallsNext
  <2>1. UNCHANGED <<made, generation>>
    BY DEF Aside, ForceReload, RemoveFiber, BeginTransition, BeginPass, EndPass, Fail,
           Notify, NotifyProvided, Update, Register, Refused, Tell, Install,
           RequestDispose, EnterOnce, Unregister, Unlist, registry
  <2>2. QED
    BY <2>1, SameGeneration
<1>1. /\ TypeOK /\ Nested /\ SlotsFit
      /\ stack[t] # <<>> =>
           (Top(t).at \in EntryCalls \cup {"update"} => Top(t).b \in Known)
  <2>1. TypeOK /\ CallInv /\ BindInv
    BY DEF CoreInv
  <2>2. stack[t] # <<>> => CallFacts(Top(t))
    BY <2>1, TopFits
  <2>3. QED
    BY <2>1, <2>2 DEF CallInv, BindInv, CallFacts
<1>2. CASE ForceReload(t)
  <2>1. PICK c : Step(t, c) /\ Unnoted(c)
    BY <1>1, <1>2, ForceReloadStep
  <2>2. stack[t] # <<>>
    BY <1>2 DEF ForceReload, In
  <2>3. QED
    BY <1>1, <2>1, <2>2, StepUnnoted
<1>3. CASE RemoveFiber(t)
  <2>1. PICK c : Step(t, c) /\ Unnoted(c)
    BY <1>1, <1>3, RemoveFiberStep
  <2>2. stack[t] # <<>>
    BY <1>3 DEF RemoveFiber, In
  <2>3. QED
    BY <1>1, <2>1, <2>2, StepUnnoted
<1>4. CASE BeginTransition(t)
  <2>1. PICK c : Step(t, c) /\ Unnoted(c)
    BY <1>1, <1>4, BeginTransitionStep
  <2>2. stack[t] # <<>>
    BY <1>4 DEF BeginTransition, In
  <2>3. QED
    BY <1>1, <2>1, <2>2, StepUnnoted
<1>5. CASE BeginPass(t)
  <2>1. PICK c : Step(t, c) /\ Unnoted(c)
    BY <1>1, <1>5, BeginPassStep
  <2>2. stack[t] # <<>>
    BY <1>5 DEF BeginPass, In
  <2>3. QED
    BY <1>1, <2>1, <2>2, StepUnnoted
<1>6. CASE EndPass(t)
  <2>1. PICK c : Step(t, c) /\ Unnoted(c)
    BY <1>1, <1>6, EndPassStep
  <2>2. stack[t] # <<>>
    BY <1>6 DEF EndPass, In
  <2>3. QED
    BY <1>1, <2>1, <2>2, StepUnnoted
<1>7. CASE Fail(t)
  <2>1. PICK c : Step(t, c) /\ Unnoted(c)
    BY <1>1, <1>7, FailStep
  <2>2. stack[t] # <<>>
    BY <1>7 DEF Fail, In
  <2>3. QED
    BY <1>1, <2>1, <2>2, StepUnnoted
<1>8. CASE Install(t)
  <2>1. PICK c : Step(t, c) /\ Unnoted(c)
    BY <1>1, <1>8, InstallStep
  <2>2. stack[t] # <<>>
    BY <1>8 DEF Install, In
  <2>3. QED
    BY <1>1, <2>1, <2>2, StepUnnoted
<1>9. CASE RequestDispose(t)
  <2>1. PICK c : Step(t, c) /\ Unnoted(c)
    BY <1>1, <1>9, RequestDisposeStep
  <2>2. stack[t] # <<>>
    BY <1>9 DEF RequestDispose, In
  <2>3. QED
    BY <1>1, <2>1, <2>2, StepUnnoted
<1>10. CASE EnterOnce(t)
  <2>1. PICK c : Step(t, c) /\ Unnoted(c)
    BY <1>1, <1>10, EnterOnceStep
  <2>2. stack[t] # <<>>
    BY <1>10 DEF EnterOnce, In
  <2>3. QED
    BY <1>1, <2>1, <2>2, StepUnnoted
<1>11. CASE Register(t)
  <2>1. PICK c : Step(t, c) /\ Unnoted(c)
    BY <1>1, <1>11, RegisterStep
  <2>2. stack[t] # <<>>
    BY <1>11 DEF Register, In
  <2>3. QED
    BY <1>1, <2>1, <2>2, StepUnnoted
<1>12. CASE Notify(t)
  <2>1. PICK c : Step(t, c) /\ \A i \in 1..Len(c) : c[i].at = "begin"
    BY <1>1, <1>12, NotifyBegins
  <2>2. stack[t] # <<>> /\ Unnoted(c)
    BY <1>12, <2>1 DEF Notify, In, Unnoted
  <2>3. QED
    BY <1>1, <2>1, <2>2, StepUnnoted
<1>13. CASE NotifyProvided(t)
  <2>1. PICK c : Step(t, c) /\ \A i \in 1..Len(c) : c[i].at = "notify"
    BY <1>1, <1>13, NotifyProvidedStep DEF IsCall, IsNotification
  <2>2. stack[t] # <<>> /\ Unnoted(c)
    BY <1>13, <2>1 DEF NotifyProvided, In, Unnoted
  <2>3. QED
    BY <1>1, <2>1, <2>2, StepUnnoted
<1>14. CASE Update(t)
  <2>1. stack[t] # <<>> /\ Top(t).b \in Known
    BY <1>1, <1>14 DEF Update, In, EntryCalls, Registering, Releasing, Claiming
  <2>2. PICK c : Step(t, c) /\ Unnoted(c)
    BY <1>1, <1>14, <2>1, UpdateStep DEF Notifies, IsNotification, IsCall
  <2>3. QED
    BY <1>1, <2>1, <2>2, StepUnnoted
<1>15. CASE Tell(t)
  <2>1. stack[t] # <<>> /\ Top(t).b \in Known
    BY <1>1, <1>15 DEF Tell, In, EntryCalls, Registering, Releasing, Claiming
  <2>2. PICK c : Step(t, c) /\ Unnoted(c)
    BY <1>1, <1>15, <2>1, TellStep DEF Moved, IsNotification, IsCall
  <2>3. QED
    BY <1>1, <2>1, <2>2, StepUnnoted
<1>16. CASE Unregister(t)
  <2>1. stack[t] # <<>> /\ Top(t).b \in Known
    BY <1>1, <1>16 DEF Unregister, In, EntryCalls, Registering, Releasing, Claiming
  <2>2. PICK c : Step(t, c) /\ Unnoted(c)
    BY <1>1, <1>16, <2>1, UnregisterStep DEF Moved, IsNotification, IsCall
  <2>3. QED
    BY <1>1, <2>1, <2>2, StepUnnoted
<1>17. CASE Unlist(t)
  <2>1. PICK c : Step(t, c) /\ Unnoted(c)
    BY <1>1, <1>17, UnlistStep
  <2>2. stack[t] # <<>>
    BY <1>17 DEF Unlist, In
  <2>3. QED
    BY <1>1, <2>1, <2>2, StepUnnoted
<1>18. CASE Refused(t)
  <2>1. PICK c : Fails(t, c)
    BY <1>1, <1>18, RefusedStep
  <2>2. stack[t] # <<>>
    BY <1>18 DEF Refused, In
  <2>3. QED
    BY <1>1, <2>1, <2>2, FailUnnoted
<1>19. QED
  BY <1>2, <1>3, <1>4, <1>5, <1>6, <1>7, <1>8, <1>9, <1>10, <1>11, <1>12, <1>13, <1>14,
     <1>15, <1>16, <1>17, <1>18
     DEF Aside

\* A driver that gives up its generation.
LEMMA ApplyUnloadGeneration ==
    ASSUME CoreInv, GenerationInv, NEW t \in Threads, ApplyUnload(t)
    PROVE  GenerationInv'
<1>1. TypeOK /\ stack[t] # <<>> /\ epoch \in [Fibers -> Epochs]
  BY DEF CoreInv, TypeOK, ApplyUnload, In
<1>2. PICK c : Step(t, c) /\ Unnoted(c)
  BY <1>1, ApplyUnloadStep, UnwatchedPlaces, UnnotedShapes
<1>3. PlainCallsNext
  BY <1>1, <1>2, StepUnnoted
<1>4. /\ made' = made /\ state' = state /\ pinned' = pinned
      /\ \A f \in Fibers : epoch'[f] = epoch[f] \/ epoch'[f] = Inactive
  BY <1>1 DEF ApplyUnload, Forget, registry
<1>5. MadeStays
  BY <1>4 DEF MadeStays, Known
<1>6. QED
  BY <1>3, <1>4, <1>5, PlainGeneration

LEMMA GiveBackGeneration ==
    ASSUME CoreInv, GenerationInv, NEW t \in Threads, GiveBack(t)
    PROVE  GenerationInv'
<1>1. TypeOK /\ stack[t] # <<>> /\ epoch \in [Fibers -> Epochs]
  BY DEF CoreInv, TypeOK, GiveBack, In
<1>2. PICK c : Step(t, c) /\ Unnoted(c)
  BY <1>1, GiveBackStep, UnwatchedPlaces, UnnotedShapes
<1>3. PlainCallsNext
  BY <1>1, <1>2, StepUnnoted
<1>4. /\ made' = made /\ state' = state /\ pinned' = pinned
      /\ \A f \in Fibers : epoch'[f] = epoch[f] \/ epoch'[f] = Inactive
  BY DEF GiveBack, registry
<1>5. MadeStays
  BY <1>4 DEF MadeStays, Known
<1>6. QED
  BY <1>3, <1>4, <1>5, PlainGeneration

LEMMA UnloadGeneration ==
    ASSUME CoreInv, GenerationInv, NEW t \in Threads, Unload(t)
    PROVE  GenerationInv'
<1>1. TypeOK /\ stack[t] # <<>> /\ Top(t).at = "unload"
  BY DEF CoreInv, Unload, In
<1>2. Top(t).cont \in {"reload", "failed", "end"}
  BY <1>1, TopFits DEF CoreInv, ComesBack, Unloads
<1>3. Top(t).cont \notin Watched
  BY <1>2, UnwatchedPlaces
<1>4. PICK c : Step(t, c) /\ Unnoted(c)
  BY <1>1, <1>3, UnloadStep, UnwatchedPlaces, UnnotedShapes
<1>5. PlainCallsNext
  BY <1>1, <1>4, StepUnnoted
<1>6. /\ made' = made /\ state' = state /\ pinned' = pinned /\ epoch' = epoch
  BY DEF Unload, registry
<1>7. MadeStays
  BY <1>6 DEF MadeStays, Known
<1>8. QED
  BY <1>5, <1>6, <1>7, PlainGeneration

\* A new binding changes none of those there are.
LEMMA ProvideGeneration ==
    ASSUME CoreInv, GenerationInv, NEW t \in Threads, Provide(t)
    PROVE  GenerationInv'
<1>1. TypeOK /\ Nested /\ stack[t] # <<>>
  BY DEF CoreInv, CallInv, Provide, In
<1>2. PlainCallsNext
  <2>1. PICK c : \/ Fails(t, c)
                 \/ /\ Step(t, c)
                    /\ \E g \in Frames : IsOne(c, g) /\ g.at = "register"
    BY <1>1, ProvideStep DEF IsAbout
  <2>2. CASE Fails(t, c)
    BY <1>1, <2>2, FailUnnoted
  <2>3. CASE Step(t, c) /\ \E g \in Frames : IsOne(c, g) /\ g.at = "register"
    BY <1>1, <2>3, StepUnnoted, UnwatchedPlaces, UnnotedShapes
  <2>4. QED
    BY <2>1, <2>2, <2>3
<1>3. MadeStays
  <2>1. PICK h : made' = made \/ made' = Append(made, h)
    BY DEF Provide
  <2>2. made \in Seq([provider : Fibers, name : Names, label : Labels])
    BY <1>1 DEF TypeOK
  <2>3. CASE made' = made
    BY <2>3 DEF MadeStays, Known
  <2>4. CASE made' = Append(made, h)
    <3>1. /\ Len(made) \in Nat /\ Len(Append(made, h)) = Len(made) + 1
          /\ \A b \in 1..Len(made) : Append(made, h)[b] = made[b]
      BY <2>2
    <3>2. QED
      BY <2>4 DEF MadeStays, Known
  <2>5. QED
    BY <2>1, <2>3, <2>4
<1>4. state' = state /\ pinned' = pinned /\ epoch' = epoch
  BY DEF Provide, generation
<1>5. QED
  BY <1>2, <1>3, <1>4, PlainGeneration

\* A driver that sets the state of its fiber, and goes on at a place that says
\* nothing of the generation.
LEMMA SetStateGeneration ==
    ASSUME CoreInv, GenerationInv, NEW t \in Threads, stack[t] # <<>>, NEW c, Step(t, c),
           NEW s \in FiberStates, NEW next, Announces(c, Top(t), s, next),
           next \in Watched => next = "clear" /\ s = "unloading",
           Top(t).at \in Owning, s = "active" => pinned[Top(t).f] # Inactive,
           state' = IF Refuses(Top(t).f, s) THEN state
                    ELSE [state EXCEPT ![Top(t).f] = s],
           UNCHANGED <<made, epoch, pinned>>
    PROVE  GenerationInv'
<1> DEFINE f == Top(t).f
<1>1. TypeOK /\ state \in [Fibers -> FiberStates] /\ f \in Fibers
  BY TopTyping DEF CoreInv, TypeOK, Frames
<1>2. PICK g, k \in Frames :
         /\ Moved(g, Top(t), next)
         /\ \/ IsTwo(c, g, k) /\ IsCall(k, "names", Top(t).f, Vacant)
            \/ IsOne(c, g)
  BY DEF Announces
<1>3. \A i \in 1..Len(c) : c[i] = g \/ c[i].at = "names"
  BY <1>2 DEF IsOne, IsTwo, IsCall
<1>4. g.at \in Watched => GenerationFacts(g)'
  <2>1. SUFFICES ASSUME g.at = "clear", s = "unloading" PROVE GenerationFacts(g)'
    BY <1>2 DEF Moved
  <2>2. state'[g.f] = "unloading"
    BY <1>1, <1>2, <2>1 DEF Moved, Refuses
  <2>3. QED
    BY <2>1, <2>2 DEF GenerationFacts, LookFacts, Holding, Looking, Loads
<1>5. \A i \in 1..Len(c) : c[i].at \in Watched => GenerationFacts(c[i])'
  BY <1>3, <1>4, UnwatchedPlaces
<1>6. \A x \in Fibers \ {f} : state'[x] = state[x] /\ pinned'[x] = pinned[x]
  BY <1>1
<1>7. CallsKept
  BY <1>5, <1>6, DriverCallsKept DEF GenerationInv
<1>8. ASSUME NEW x \in Fibers PROVE SnapshotFacts(x)'
  <2>1. state'[x] = "active" => state[x] = "active" \/ pinned[x] # Inactive
    BY <1>1
  <2>2. MadeStays
    BY DEF MadeStays, Known
  <2>3. QED
    BY <2>1, <2>2, SnapshotKept DEF GenerationInv
<1>9. QED
  BY <1>7, <1>8 DEF GenerationInv, CallsKept

LEMMA GaveBackGeneration ==
    ASSUME CoreInv, GenerationInv, NEW t \in Threads, GaveBack(t)
    PROVE  GenerationInv'
<1>1. /\ TypeOK /\ stack[t] # <<>> /\ Top(t).at = "gaveBack"
      /\ Top(t).at \in Owning /\ "pending" \in FiberStates
  BY DEF CoreInv, GaveBack, In, Owning, Unloads, Started, FiberStates
<1>2. UNCHANGED <<made, epoch, pinned>>
  BY DEF GaveBack, registry
<1>3. "end" \notin Watched
  BY UnwatchedPlaces
<1>4. PICK c : Step(t, c) /\ Announces(c, Top(t), "pending", "end")
  BY <1>1, GaveBackStep
<1>5. state' = IF Refuses(Top(t).f, "pending") THEN state
                ELSE [state EXCEPT ![Top(t).f] = "pending"]
  BY <1>1, GaveBackStep
<1>6. QED
  BY <1>1, <1>2, <1>3, <1>4, <1>5, SetStateGeneration

LEMMA SetActiveGeneration ==
    ASSUME CoreInv, GenerationInv, NEW t \in Threads, SetActive(t)
    PROVE  GenerationInv'
<1>1. /\ TypeOK /\ stack[t] # <<>> /\ Top(t).at = "active"
      /\ Top(t).at \in Owning /\ "active" \in FiberStates
  BY DEF CoreInv, SetActive, In, Owning, Unloads, Started, FiberStates
<1>2. UNCHANGED <<made, epoch, pinned>>
  BY DEF SetActive, registry
<1>3. pinned[Top(t).f] # Inactive
  <2>1. Top(t) \in Calls
    BY <1>1, TopFits DEF CoreInv
  <2>2. QED
    BY <1>1, <2>1 DEF GenerationInv, GenerationFacts, Holding
<1>4. PICK c : Step(t, c) /\ Announces(c, Top(t), "active", "end")
  BY <1>1, SetActiveStep
<1>5. state' = IF Refuses(Top(t).f, "active") THEN state
                ELSE [state EXCEPT ![Top(t).f] = "active"]
  BY <1>1, SetActiveStep
<1>6. QED
  BY <1>1, <1>2, <1>3, <1>4, <1>5, UnwatchedPlaces, SetStateGeneration

LEMMA SetFailedGeneration ==
    ASSUME CoreInv, GenerationInv, NEW t \in Threads, SetFailed(t)
    PROVE  GenerationInv'
<1>1. /\ TypeOK /\ stack[t] # <<>> /\ Top(t).at = "failed"
      /\ Top(t).at \in Owning /\ "failed" \in FiberStates
  BY DEF CoreInv, SetFailed, In, Owning, Unloads, Started, FiberStates
<1>2. UNCHANGED <<made, epoch, pinned>>
  BY DEF SetFailed, registry
<1>3. "end" \notin Watched
  BY UnwatchedPlaces
<1>4. PICK c : Step(t, c) /\ Announces(c, Top(t), "failed", "end")
  BY <1>1, SetFailedStep
<1>5. state' = IF Refuses(Top(t).f, "failed") THEN state
                ELSE [state EXCEPT ![Top(t).f] = "failed"]
  BY <1>1, SetFailedStep
<1>6. QED
  BY <1>1, <1>2, <1>3, <1>4, <1>5, SetStateGeneration

LEMMA SetUnloadingGeneration ==
    ASSUME CoreInv, GenerationInv, NEW t \in Threads, SetUnloading(t)
    PROVE  GenerationInv'
<1>1. /\ TypeOK /\ stack[t] # <<>> /\ Top(t).at = "unloading"
      /\ Top(t).at \in Owning /\ "unloading" \in FiberStates
  BY DEF CoreInv, SetUnloading, In, Owning, Unloads, Started, FiberStates
<1>2. UNCHANGED <<made, epoch, pinned>>
  BY DEF SetUnloading, registry
<1>3. "unloading" # "active"
  OBVIOUS
<1>4. PICK c : Step(t, c) /\ Announces(c, Top(t), "unloading", "clear")
  BY <1>1, SetUnloadingStep
<1>5. state' = IF Refuses(Top(t).f, "unloading") THEN state
                ELSE [state EXCEPT ![Top(t).f] = "unloading"]
  BY <1>1, SetUnloadingStep
<1>6. QED
  BY <1>1, <1>2, <1>3, <1>4, <1>5, SetStateGeneration

LEMMA SetPendingGeneration ==
    ASSUME CoreInv, GenerationInv, NEW t \in Threads, SetPending(t)
    PROVE  GenerationInv'
<1>1. /\ TypeOK /\ stack[t] # <<>> /\ Top(t).at = "repending"
      /\ Top(t).at \in Owning /\ "pending" \in FiberStates
  BY DEF CoreInv, SetPending, In, Owning, Unloads, Started, FiberStates
<1>2. UNCHANGED <<made, epoch, pinned>>
  BY DEF SetPending, registry
<1>3. Top(t).cont \notin Watched
  BY <1>1, TopFits, UnwatchedPlaces DEF CoreInv, ComesBack, Unloads
<1>4. PICK c : Step(t, c) /\ Announces(c, Top(t), "pending", Top(t).cont)
  BY <1>1, SetPendingStep
<1>5. state' = IF Refuses(Top(t).f, "pending") THEN state
                ELSE [state EXCEPT ![Top(t).f] = "pending"]
  BY <1>1, SetPendingStep
<1>6. QED
  BY <1>1, <1>2, <1>3, <1>4, <1>5, SetStateGeneration

LEMMA FinalizeDisposeGeneration ==
    ASSUME CoreInv, GenerationInv, NEW t \in Threads, FinalizeDispose(t)
    PROVE  GenerationInv'
<1>1. /\ TypeOK /\ stack[t] # <<>> /\ Top(t).at = "finalize"
      /\ Top(t).at \in Owning /\ "disposed" \in FiberStates
  BY DEF CoreInv, FinalizeDispose, In, Owning, Unloads, Started, FiberStates
<1>2. UNCHANGED <<made, epoch, pinned>>
  BY DEF FinalizeDispose, registry
<1>3. Top(t).cont \notin Watched
  BY <1>1, TopFits, UnwatchedPlaces DEF CoreInv, ComesBack, Unloads
<1>4. PICK c : Step(t, c) /\ Announces(c, Top(t), "disposed", Top(t).cont)
  BY <1>1, FinalizeDisposeStep
<1>5. state' = IF Refuses(Top(t).f, "disposed") THEN state
                ELSE [state EXCEPT ![Top(t).f] = "disposed"]
  BY <1>1, FinalizeDisposeStep
<1>6. QED
  BY <1>1, <1>2, <1>3, <1>4, <1>5, SetStateGeneration

\* A driver that goes on within its generation.
LEMMA WatchedGeneration ==
    ASSUME CoreInv, GenerationInv, NEW t \in Threads, stack[t] # <<>>, NEW c, Step(t, c),
           Top(t).at \in Owning, UNCHANGED <<made, state, pinned>>,
           \A f \in Fibers : epoch'[f] = epoch[f] \/ epoch'[f] = Inactive,
           \A i \in 1..Len(c) : c[i].at \in Watched => GenerationFacts(c[i])
    PROVE  GenerationInv'
<1>1. \A g : GenerationFacts(g)' <=> GenerationFacts(g)
  BY DEF GenerationFacts, LookFacts, Fits, Resolves, NamesOf
<1>2. MadeStays
  BY DEF MadeStays, Known
<1>3. CallsKept
  BY <1>1, DriverCallsKept DEF GenerationInv
<1>4. QED
  BY <1>2, <1>3, QuietGeneration

LEMMA WatchedOneGeneration ==
    ASSUME CoreInv, GenerationInv, NEW t \in Threads, stack[t] # <<>>, NEW c, Step(t, c),
           Top(t).at \in Owning, UNCHANGED <<made, state, pinned>>,
           \A f \in Fibers : epoch'[f] = epoch[f] \/ epoch'[f] = Inactive,
           NEW g, IsOne(c, g), g.at \in Watched => GenerationFacts(g)
    PROVE  GenerationInv'
<1>1. \A i \in 1..Len(c) : c[i] = g
  BY DEF IsOne
<1>2. QED
  BY <1>1, WatchedGeneration

LEMMA ActivateGeneration ==
    ASSUME CoreInv, GenerationInv, NEW t \in Threads, Activate(t)
    PROVE  GenerationInv'
<1>1. TypeOK /\ stack[t] # <<>> /\ Top(t).at = "activate" /\ Top(t).at \in Owning
  BY DEF CoreInv, Activate, In, Owning, Started
<1>2. UNCHANGED <<made, state, pinned, epoch>>
  BY DEF Activate, registry, generation
<1>3. pinned[Top(t).f] # Inactive
  <2>1. Top(t) \in Calls
    BY <1>1, TopFits DEF CoreInv
  <2>2. QED
    BY <1>1, <2>1 DEF GenerationInv, GenerationFacts, Holding
<1>4. PICK c : /\ Step(t, c)
               /\ Unloads1(c, Top(t).f, "end") \/ Goes(c, Top(t), "active")
  BY <1>1, ActivateStep
<1>5. PICK g \in Frames : /\ IsOne(c, g)
                          /\ g.at \in {"unload", "active"} /\ g.f = Top(t).f
  BY <1>4 DEF Unloads1, Goes, Moved, IsCall
<1>6. g.at \in Watched => GenerationFacts(g)
  BY <1>3, <1>5
     DEF GenerationFacts, LookFacts, Winding, Looking, Loads
<1>7. QED
  BY <1>1, <1>2, <1>4, <1>5, <1>6, WatchedOneGeneration

LEMMA RunBodyGeneration ==
    ASSUME CoreInv, GenerationInv, NEW t \in Threads, RunBody(t)
    PROVE  GenerationInv'
<1>1. TypeOK /\ stack[t] # <<>> /\ Top(t).at = "run" /\ Top(t).at \in Owning
  BY DEF CoreInv, RunBody, In, Owning, Started
<1>2. UNCHANGED <<made, state, pinned, epoch>>
  BY DEF RunBody, registry, generation
<1>3. pinned[Top(t).f] # Inactive
  <2>1. Top(t) \in Calls
    BY <1>1, TopFits DEF CoreInv
  <2>2. QED
    BY <1>1, <2>1 DEF GenerationInv, GenerationFacts, Holding
<1>4. PICK c : /\ Step(t, c)
               /\ \/ \E g, k \in Frames : /\ IsTwo(c, g, k) /\ g.at = "run" /\ g.f = Top(t).f
                                          /\ k.at = "provide"
                  \/ \E g \in Frames : /\ IsOne(c, g) /\ g.at \in {"activate", "fail"}
                                       /\ g.f = Top(t).f
  BY <1>1, RunBodyStep DEF Goes, Moved, IsProvide, IsCall
<1>5. ASSUME NEW i \in 1..Len(c)
      PROVE  c[i].at = "provide" \/
             (c[i].at \in {"run", "activate", "fail"} /\ c[i].f = Top(t).f)
  <2>1. CASE \E g, k \in Frames : /\ IsTwo(c, g, k) /\ g.at = "run" /\ g.f = Top(t).f
                                  /\ k.at = "provide"
    <3>1. i = 1 \/ i = 2
      BY <2>1 DEF IsTwo
    <3>2. QED
      BY <2>1 DEF IsTwo
  <2>2. CASE \E g \in Frames : /\ IsOne(c, g) /\ g.at \in {"activate", "fail"}
                               /\ g.f = Top(t).f
    BY <2>2 DEF IsOne
  <2>3. QED
    BY <1>4, <2>1, <2>2
<1>6. \A i \in 1..Len(c) : c[i].at \in Watched => GenerationFacts(c[i])
  BY <1>3, <1>5, UnwatchedPlaces
     DEF GenerationFacts, LookFacts, Winding, Looking, Loads
<1>7. QED
  BY <1>1, <1>2, <1>4, <1>6, WatchedGeneration

LEMMA ClearGeneration ==
    ASSUME CoreInv, GenerationInv, NEW t \in Threads, Clear(t)
    PROVE  GenerationInv'
<1>1. TypeOK /\ stack[t] # <<>> /\ Top(t).at = "clear" /\ Top(t).at \in Owning
  BY DEF CoreInv, Clear, In, Owning, Unloads
<1>2. UNCHANGED <<made, state, pinned, epoch>>
  BY DEF Clear, registry, generation
<1>3. state[Top(t).f] = "unloading"
  <2>1. Top(t) \in Calls
    BY <1>1, TopFits DEF CoreInv
  <2>2. QED
    BY <1>1, <2>1 DEF GenerationInv, GenerationFacts, Winding
<1> DEFINE m == Len(entries[Top(t).f])
<1>4. PICK c : /\ Step(t, c) /\ Len(c) = m + 1 /\ m \in Nat
               /\ Moved(c[1], Top(t), "unwind")
               /\ \A i \in 1..m : IsCall(c[i + 1], "request", Top(t).f, entries[Top(t).f][i])
  BY <1>1, ClearStep
<1>5. /\ Step(t, c) /\ Len(c) = m + 1 /\ m \in Nat
      /\ c[1].at = "unwind" /\ c[1].f = Top(t).f
      /\ \A i \in 1..m : c[i + 1].at = "request"
  BY <1>4 DEF Moved, IsCall
<1> HIDE DEF m
<1>6. \A i \in 1..Len(c) : i = 1 \/ c[i].at = "request"
  <2>1. ASSUME NEW i \in 1..Len(c), i # 1 PROVE c[i].at = "request"
    <3>1. i - 1 \in 1..m /\ (i - 1) + 1 = i
      BY <1>5, <2>1
    <3>2. QED
      BY <1>5, <3>1
  <2>2. QED
    BY <2>1
<1>7. \A i \in 1..Len(c) : c[i].at \in Watched => GenerationFacts(c[i])
  BY <1>3, <1>5, <1>6, UnwatchedPlaces
     DEF GenerationFacts, LookFacts, Holding, Looking, Loads
<1>8. QED
  BY <1>1, <1>2, <1>5, <1>7, WatchedGeneration

\* What is left of a queue of different names once the first is taken.
LEMMA QueueShrinks ==
    ASSUME NEW q \in Seq(Names), q # <<>>, IsInjective(q)
    PROVE  /\ Tail(q) \in Seq(Names) /\ IsInjective(Tail(q))
           /\ ToSet(q) = {Head(q)} \cup ToSet(Tail(q))
           /\ Head(q) \in ToSet(q) /\ Head(q) \notin ToSet(Tail(q))
           /\ Tail(q) = <<>> => ToSet(Tail(q)) = {}
<1>1. /\ Len(q) \in Nat \ {0} /\ DOMAIN q = 1..Len(q) /\ Head(q) = q[1]
      /\ Tail(q) \in Seq(Names) /\ Len(Tail(q)) = Len(q) - 1
      /\ DOMAIN Tail(q) = 1..(Len(q) - 1)
  BY HeadTailProperties, LenProperties
<1>2. \A i \in 1..(Len(q) - 1) : Tail(q)[i] = q[i + 1]
  BY HeadTailProperties
<1>3. ASSUME NEW i \in 1..Len(q)
      PROVE  i = 1 \/ (i - 1 \in 1..(Len(q) - 1) /\ q[i] = Tail(q)[i - 1])
  <2>1. CASE i # 1
    <3>1. i - 1 \in 1..(Len(q) - 1) /\ (i - 1) + 1 = i
      BY <1>1, <2>1
    <3>2. QED
      BY <1>2
  <2>2. QED
    BY <2>1
<1>4. ASSUME NEW i \in 1..(Len(q) - 1)
      PROVE  i + 1 \in 1..Len(q) /\ 1 \in 1..Len(q) /\ i + 1 # 1
  BY <1>1
<1>5. ToSet(q) = {Head(q)} \cup ToSet(Tail(q))
  <2>1. ASSUME NEW x \in ToSet(q) PROVE x = Head(q) \/ x \in ToSet(Tail(q))
    <3>1. PICK i \in 1..Len(q) : x = q[i]
      BY DEF ToSet
    <3>2. CASE i = 1
      BY <1>1, <3>1, <3>2
    <3>3. CASE i - 1 \in 1..(Len(q) - 1) /\ q[i] = Tail(q)[i - 1]
      <4> DEFINE j == i - 1
      <4>1. j \in DOMAIN Tail(q) /\ x = Tail(q)[j]
        BY <1>1, <3>1, <3>3
      <4> HIDE DEF j
      <4>2. QED
        BY <4>1 DEF ToSet
    <3>4. QED
      BY <1>3, <3>2, <3>3
  <2>2. Head(q) \in ToSet(q)
    BY DEF ToSet
  <2>3. \A x \in ToSet(Tail(q)) : x \in ToSet(q)
    BY <1>1, <1>2 DEF ToSet
  <2>4. QED
    BY <2>1, <2>2, <2>3
<1>6. \A i, j \in 1..Len(q) : q[i] = q[j] => i = j
  BY DEF IsInjective
<1>7. IsInjective(Tail(q))
  <2>1. ASSUME NEW i \in 1..(Len(q) - 1), NEW j \in 1..(Len(q) - 1), Tail(q)[i] = Tail(q)[j]
        PROVE  i = j
    <3>1. i + 1 = j + 1
      BY <1>2, <1>4, <1>6, <2>1
    <3>2. QED
      BY <3>1
  <2>2. QED
    BY <1>1 DEF IsInjective
<1>8. Head(q) \notin ToSet(Tail(q))
  <2>1. ASSUME NEW i \in 1..(Len(q) - 1) PROVE Tail(q)[i] # q[1]
    BY <1>2, <1>4, <1>6
  <2>2. QED
    BY <1>1, <2>1 DEF ToSet
<1>9. Tail(q) = <<>> => ToSet(Tail(q)) = {}
  BY DEF ToSet
<1>10. QED
  BY <1>1, <1>5, <1>7, <1>8, <1>9

\* A look begins with every name to find.
LEMMA LookBegins ==
    ASSUME NEW g, NEW f \in Fibers, NEW back, IsLook(g, f, Inject[f], {}, back)
    PROVE  GenerationFacts(g)
<1>1. Fits(f, {}) /\ NamesOf({}) = {} /\ IsInjective(Inject[f])
  BY GraphAssumption DEF Fits, NamesOf
<1>2. QED
  BY <1>1 DEF IsLook, GenerationFacts, LookFacts, Holding, Winding, Loads

\* What a look ends with is what a load begins with.
LEMMA OutcomeFacts ==
    ASSUME NEW g, NEW h, NEW new, Outcome(g, h, new),
           new # Inactive => Resolves(h.f, new)
    PROVE  g.at \in Watched => GenerationFacts(g)
<1>1. \/ g.at \in {"end", "applyUnload", "unload"}
      \/ g.at = "load" /\ g.f = h.f /\ g.got = new /\ new # Inactive
  BY DEF Outcome, IsLoading, IsCall
<1>2. QED
  BY <1>1, UnwatchedPlaces
     DEF GenerationFacts, LookFacts, Holding, Winding, Looking

Fresh(f, S, b) ==
    /\ made[b].name \in ToSet(Inject[f]) /\ made[b].label = Scope[f][made[b].name]
    /\ made[b].name \notin NamesOf(S)

LEMMA TakenFits ==
    ASSUME NEW f, NEW S, NEW b, Fits(f, S), Fresh(f, S, b)
    PROVE  Fits(f, S \cup {b})
<1>1. ASSUME NEW c \in S \cup {b}
      PROVE  /\ made[c].name \in ToSet(Inject[f])
             /\ made[c].label = Scope[f][made[c].name]
  BY DEF Fits, Fresh
<1>2. ASSUME NEW c \in S \cup {b}, NEW d \in S \cup {b}, made[c].name = made[d].name
      PROVE  c = d
  BY <1>2 DEF Fits, Fresh, NamesOf
<1>3. QED
  BY <1>1, <1>2 DEF Fits, NamesOf

\* A name that is found is one less to find.
LEMMA TakenFacts ==
    ASSUME NEW h \in Frames, h.at \in {"check", "probe"}, LookFacts(h), h.queue # <<>>,
           NEW g, Taken(g, h, h.b)
    PROVE  g.at \in Watched => GenerationFacts(g)
<1> PICK q : q = h.queue
  OBVIOUS
<1> PICK f : f = h.f
  OBVIOUS
<1> PICK b : b = h.b
  OBVIOUS
<1> PICK got : got = h.got
  OBVIOUS
<1>1. /\ q \in Seq(Names) /\ Fits(f, got) /\ IsInjective(q)
      /\ ToSet(q) \cap NamesOf(got) = {} /\ ToSet(q) \subseteq ToSet(Inject[f])
      /\ ToSet(Inject[f]) \subseteq ToSet(q) \cup NamesOf(got)
      /\ made[b].name = Head(q) /\ made[b].label = Scope[f][Head(q)]
  BY DEF LookFacts, Looking, Frames
<1>2. /\ IsInjective(Tail(q)) /\ ToSet(q) = {Head(q)} \cup ToSet(Tail(q))
      /\ Head(q) \in ToSet(q) /\ Head(q) \notin ToSet(Tail(q))
      /\ Tail(q) = <<>> => ToSet(Tail(q)) = {}
  BY <1>1, QueueShrinks
<1>3. /\ Fits(f, got \cup {b})
      /\ NamesOf(got \cup {b}) = NamesOf(got) \cup {Head(q)}
  <2>1. Head(q) \in ToSet(Inject[f]) /\ Head(q) \notin NamesOf(got)
    BY <1>1, <1>2
  <2>2. Fresh(f, got, b)
    BY <1>1, <2>1 DEF Fresh
  <2>3. Fits(f, got)
    BY <1>1
  <2>4. Fits(f, got \cup {b})
    BY <2>2, <2>3, TakenFits
  <2>5. NamesOf(got \cup {b}) = NamesOf(got) \cup {made[b].name}
    BY DEF NamesOf
  <2>6. QED
    BY <1>1, <2>4, <2>5
<1>4. CASE Tail(q) = <<>> /\ Outcome(g, h, got \cup {b})
  <2>1. Resolves(f, got \cup {b})
    BY <1>1, <1>2, <1>3, <1>4 DEF Resolves
  <2>2. QED
    BY <1>4, <2>1, OutcomeFacts
<1>5. CASE /\ g.at = "fetch" /\ g.f = f
           /\ g.queue = Tail(q) /\ g.got = got \cup {b}
  <2> PICK r : r = ToSet(Tail(q))
    OBVIOUS
  <2> PICK N : N = NamesOf(got \cup {b})
    OBVIOUS
  <2> PICK M : M = NamesOf(got)
    OBVIOUS
  <2>1. N = M \cup {Head(q)}
    BY <1>3
  <2>2. /\ r \cap N = {} /\ r \subseteq ToSet(Inject[f])
        /\ ToSet(Inject[f]) \subseteq r \cup N
    <3> PICK x : x = Head(q)
      OBVIOUS
    <3> PICK Q : Q = ToSet(q)
      OBVIOUS
    <3> PICK I : I = ToSet(Inject[f])
      OBVIOUS
    <3>1. Q \cap M = {} /\ Q \subseteq I
      BY <1>1
    <3>2. I \subseteq Q \cup M
      BY <1>1
    <3>3. x \notin r /\ x \in Q
      BY <1>2
    <3>4. Q = {x} \cup r
      BY <1>2
    <3>5. N = M \cup {x}
      BY <2>1
    <3>6. r \cap N = {} /\ r \subseteq I /\ I \subseteq r \cup N
      BY ONLY <3>1, <3>2, <3>3, <3>5, <3>4
    <3>7. QED
      BY <3>6
  <2>3. /\ ToSet(g.queue) \cap NamesOf(g.got) = {}
        /\ ToSet(g.queue) \subseteq ToSet(Inject[f])
        /\ ToSet(Inject[f]) \subseteq ToSet(g.queue) \cup NamesOf(g.got)
    BY <1>5, <2>2
  <2>4. Fits(g.f, g.got) /\ IsInjective(g.queue)
    BY <1>2, <1>3, <1>5
  <2>5. QED
    BY <1>5, <2>3, <2>4
       DEF GenerationFacts, LookFacts, Holding, Winding, Loads, Looking
<1>6. QED
  BY <1>4, <1>5 DEF Taken

\* One call that goes on, with no change to the generation of any fiber.
LEMMA TurnsGeneration ==
    ASSUME CoreInv, GenerationInv, NEW t \in Threads, stack[t] # <<>>, NEW c, Step(t, c),
           Top(t).at \in Owning, UNCHANGED <<made, generation>>, NEW new,
           Turns(c, Top(t), new), new # Inactive => Resolves(Top(t).f, new)
    PROVE  GenerationInv'
<1>1. PICK g \in Frames : IsOne(c, g) /\ Outcome(g, Top(t), new)
  BY DEF Turns
<1>2. g.at \in Watched => GenerationFacts(g)
  BY <1>1, OutcomeFacts
<1>3. UNCHANGED <<made, state, pinned, epoch>>
  BY DEF generation
<1>4. QED
  BY <1>1, <1>2, <1>3, WatchedOneGeneration

LEMMA LooksGeneration ==
    ASSUME CoreInv, GenerationInv, NEW t \in Threads, stack[t] # <<>>, NEW c, Step(t, c),
           Top(t).at \in Owning, UNCHANGED <<made, state, pinned>>,
           \A f \in Fibers : epoch'[f] = epoch[f] \/ epoch'[f] = Inactive,
           NEW back, Looks(c, Top(t).f, back)
    PROVE  GenerationInv'
<1>1. Top(t).f \in Fibers
  BY TopTyping DEF CoreInv, Frames
<1>2. PICK g \in Frames : IsOne(c, g) /\ IsLook(g, Top(t).f, Inject[Top(t).f], {}, back)
  BY DEF Looks
<1>3. GenerationFacts(g)
  BY <1>1, <1>2, LookBegins
<1>4. QED
  BY <1>2, <1>3, WatchedOneGeneration

LEMMA UnnotedGeneration ==
    ASSUME CoreInv, GenerationInv, NEW t \in Threads, stack[t] # <<>>, NEW c, Step(t, c),
           Unnoted(c), UNCHANGED <<made, state, pinned>>,
           \A f \in Fibers : epoch'[f] = epoch[f] \/ epoch'[f] = Inactive
    PROVE  GenerationInv'
<1>1. PlainCallsNext
  BY StepUnnoted DEF CoreInv
<1>2. MadeStays
  BY DEF MadeStays, Known
<1>3. QED
  BY <1>1, <1>2, PlainGeneration

LEMMA SyncGeneration ==
    ASSUME CoreInv, GenerationInv, NEW t \in Threads, Sync(t)
    PROVE  GenerationInv'
<1>1. TypeOK /\ stack[t] # <<>> /\ Top(t).at = "sync" /\ Top(t).at \in Owning
  BY DEF CoreInv, Sync, In, Owning
<1>2. UNCHANGED <<made, state, pinned, epoch>>
  BY DEF Sync, registry, generation
<1>3. PICK c : /\ Step(t, c)
               /\ \/ \E back : Unloads1(c, Top(t).f, back)
                  \/ Looks(c, Top(t).f, "end")
  BY <1>1, SyncStep
<1>4. CASE \E back : Unloads1(c, Top(t).f, back)
  BY <1>1, <1>2, <1>3, <1>4, UnnotedShapes, UnnotedGeneration
<1>5. CASE Looks(c, Top(t).f, "end")
  BY <1>1, <1>2, <1>3, <1>5, LooksGeneration
<1>6. QED
  BY <1>3, <1>4, <1>5

LEMMA ReloadGeneration ==
    ASSUME CoreInv, GenerationInv, NEW t \in Threads, Reload(t)
    PROVE  GenerationInv'
<1>1. TypeOK /\ stack[t] # <<>> /\ Top(t).at = "reload" /\ Top(t).at \in Owning
  BY DEF CoreInv, Reload, In, Owning
<1>2. UNCHANGED <<made, state, pinned>>
  BY DEF Reload, registry
<1>3. \A f \in Fibers : epoch'[f] = epoch[f] \/ epoch'[f] = Inactive
  BY <1>1 DEF Reload, Forget, TypeOK
<1>4. PICK c : /\ Step(t, c)
               /\ Opens(c, "end", Top(t).f) \/ Looks(c, Top(t).f, "reload")
  BY <1>1, ReloadStep
<1>5. CASE Opens(c, "end", Top(t).f)
  <2>1. Unnoted(c)
    BY <1>5, UnnotedShapes, UnwatchedPlaces
  <2>2. QED
    BY <1>1, <1>2, <1>3, <1>4, <2>1, UnnotedGeneration
<1>6. CASE Looks(c, Top(t).f, "reload")
  BY <1>1, <1>2, <1>3, <1>4, <1>6, LooksGeneration
<1>7. QED
  BY <1>4, <1>5, <1>6

LEMMA FetchGeneration ==
    ASSUME CoreInv, GenerationInv, NEW t \in Threads, Fetch(t)
    PROVE  GenerationInv'
<1>1. TypeOK /\ stack[t] # <<>> /\ Top(t).at = "fetch" /\ Top(t).at \in Owning
  BY DEF CoreInv, Fetch, In, Owning, Looking
<1>2. UNCHANGED <<made, generation>> /\ UNCHANGED <<state, pinned, epoch>>
  BY DEF Fetch, registry, generation
<1>3. Top(t) \in Calls /\ Top(t) \in Frames
  BY <1>1, TopFits DEF CoreInv
<1> PICK h : h = Top(t)
  OBVIOUS
<1>4. /\ h.f \in Fibers /\ h.queue \in Seq(Names) /\ Fits(h.f, h.got) /\ IsInjective(h.queue)
      /\ ToSet(h.queue) \cap NamesOf(h.got) = {} /\ ToSet(h.queue) \subseteq ToSet(Inject[h.f])
      /\ ToSet(Inject[h.f]) \subseteq ToSet(h.queue) \cup NamesOf(h.got)
  BY <1>1, <1>3 DEF GenerationInv, GenerationFacts, LookFacts, Looking, Frames
<1> DEFINE b == Under(h.f, Head(h.queue))
<1>5. PICK c : /\ Step(t, c)
               /\ \/ h.queue = <<>> /\ Turns(c, Top(t), h.got)
                  \/ /\ h.queue # <<>> /\ b # Vacant /\ made[b].name = Head(h.queue)
                     /\ Finds(c, h, "check", b)
                  \/ Turns(c, Top(t), Inactive)
  BY <1>1, FetchStep
<1>6. CASE h.queue = <<>> /\ Turns(c, Top(t), h.got)
  <2>1. ToSet(h.queue) = {}
    BY <1>6 DEF ToSet
  <2>2. Resolves(h.f, h.got)
    BY <1>4, <2>1 DEF Resolves
  <2>3. QED
    BY <1>1, <1>2, <1>5, <1>6, <2>2, TurnsGeneration
<1>7. CASE /\ h.queue # <<>> /\ b # Vacant /\ made[b].name = Head(h.queue)
           /\ Finds(c, h, "check", b)
  <2>1. Head(h.queue) \in Names
    BY <1>4, <1>7
  <2>2. made[b].label = Scope[h.f][Head(h.queue)]
    <3>1. Scope[h.f][Head(h.queue)] \in Labels
      BY <1>4, <2>1, GraphAssumption
    <3>2. QED
      BY <1>7, <3>1 DEF CoreInv, BindInv, SlotsFit, Under
  <2>3. PICK g \in Frames : IsOne(c, g) /\ IsAbout(g, h, "check", b)
    BY <1>7 DEF Finds
  <2>4. GenerationFacts(g)
    BY <1>4, <1>7, <2>2, <2>3
       DEF IsAbout, GenerationFacts, LookFacts, Looking, Holding, Winding, Loads
  <2>5. QED
    BY <1>1, <1>2, <1>5, <2>3, <2>4, WatchedOneGeneration
<1>8. CASE Turns(c, Top(t), Inactive)
  BY <1>1, <1>2, <1>5, <1>8, TurnsGeneration
<1>9. QED
  BY <1>5, <1>6, <1>7, <1>8

LEMMA TakesGeneration ==
    ASSUME CoreInv, GenerationInv, NEW t \in Threads, stack[t] # <<>>, NEW c, Step(t, c),
           Top(t).at \in {"check", "probe"}, UNCHANGED <<made, generation>>,
           Takes(c, Top(t), Top(t).b)
    PROVE  GenerationInv'
<1>1. Top(t) \in Calls /\ Top(t) \in Frames /\ Top(t).at \in Owning
  BY TopFits DEF CoreInv, Owning, Looking
<1>2. LookFacts(Top(t)) /\ Top(t).queue # <<>>
  BY <1>1, FoundIsKnown DEF GenerationInv, GenerationFacts
<1>3. PICK g \in Frames : IsOne(c, g) /\ Taken(g, Top(t), Top(t).b)
  BY DEF Takes
<1>4. g.at \in Watched => GenerationFacts(g)
  BY <1>1, <1>2, <1>3, TakenFacts
<1>5. UNCHANGED <<made, state, pinned, epoch>>
  BY DEF generation
<1>6. QED
  BY <1>1, <1>3, <1>4, <1>5, WatchedOneGeneration

LEMMA CheckGeneration ==
    ASSUME CoreInv, GenerationInv, NEW t \in Threads, Check(t)
    PROVE  GenerationInv'
<1>1. TypeOK /\ stack[t] # <<>> /\ Top(t).at = "check" /\ Top(t).at \in Owning
  BY DEF CoreInv, Check, In, Owning, Looking
<1>2. UNCHANGED <<made, generation>> /\ UNCHANGED <<state, pinned, epoch>>
  BY DEF Check, registry, generation
<1>3. /\ Top(t) \in Calls /\ Top(t) \in Frames /\ Top(t).b # Vacant /\ Top(t).queue # <<>>
      /\ LookFacts(Top(t))
  <2>1. Top(t) \in Calls /\ Top(t) \in Frames
    BY <1>1, TopFits DEF CoreInv
  <2>2. QED
    BY <1>1, <2>1, FoundIsKnown DEF LookedUp, GenerationInv, GenerationFacts
<1>4. PICK c : /\ Step(t, c)
               /\ \/ Turns(c, Top(t), Inactive)
                  \/ Goes(c, Top(t), "probe")
                  \/ Takes(c, Top(t), Top(t).b)
  BY <1>1, <1>3, CheckStep
<1>5. CASE Turns(c, Top(t), Inactive)
  BY <1>1, <1>2, <1>4, <1>5, TurnsGeneration
<1>6. CASE Goes(c, Top(t), "probe")
  <2>1. PICK g \in Frames : IsOne(c, g) /\ Moved(g, Top(t), "probe")
    BY <1>6 DEF Goes
  <2>2. GenerationFacts(g)
    BY <1>1, <1>3, <2>1
       DEF Moved, GenerationFacts, LookFacts, Looking, Holding, Winding, Loads
  <2>3. QED
    BY <1>1, <1>2, <1>4, <2>1, <2>2, WatchedOneGeneration
<1>7. CASE Takes(c, Top(t), Top(t).b)
  BY <1>1, <1>2, <1>4, <1>7, TakesGeneration
<1>8. QED
  BY <1>4, <1>5, <1>6, <1>7

LEMMA ProbeGeneration ==
    ASSUME CoreInv, GenerationInv, NEW t \in Threads, Probe(t)
    PROVE  GenerationInv'
<1>1. TypeOK /\ stack[t] # <<>> /\ Top(t).at = "probe" /\ Top(t).at \in Owning
  BY DEF CoreInv, Probe, In, Owning, Looking
<1>2. UNCHANGED <<made, generation>>
  BY DEF Probe, registry
<1>3. Top(t).b # Vacant /\ Top(t).queue # <<>>
  <2>1. Top(t) \in Calls
    BY <1>1, TopFits DEF CoreInv
  <2>2. QED
    BY <1>1, <2>1, FoundIsKnown DEF LookedUp
<1>4. PICK c : /\ Step(t, c)
               /\ Turns(c, Top(t), Inactive) \/ Takes(c, Top(t), Top(t).b)
  BY <1>1, <1>3, ProbeStep
<1>5. CASE Turns(c, Top(t), Inactive)
  BY <1>1, <1>2, <1>4, <1>5, TurnsGeneration
<1>6. CASE Takes(c, Top(t), Top(t).b)
  BY <1>1, <1>2, <1>4, <1>6, TakesGeneration
<1>7. QED
  BY <1>4, <1>5, <1>6

\* The driver goes on with the load that it has resolved its names for.
LoadsOn(c, h) ==
    \E g \in Frames : IsOne(c, g) /\ g.at \in Loads /\ g.f = h.f /\ g.got = h.got

LEMMA LoadPlaces ==
    /\ Loads \subseteq Watched /\ Loads \subseteq Owning
    /\ Loads \cap (Winding \cup Holding \cup Looking \cup {"check", "probe"}) = {}
    /\ {"load", "loading", "recheck", "reprobe"} \subseteq Loads
  BY DEF Loads, Watched, Owning, Winding, Holding, Looking

LEMMA LoadsOnFacts ==
    ASSUME NEW h, h.at \in Loads, LookFacts(h), NEW g, g.at \in Loads, g.f = h.f, g.got = h.got
    PROVE  GenerationFacts(g)
  BY LoadPlaces DEF GenerationFacts, LookFacts

LEMMA LoadsOnGeneration ==
    ASSUME CoreInv, GenerationInv, NEW t \in Threads, stack[t] # <<>>, NEW c, Step(t, c),
           Top(t).at \in Loads, UNCHANGED <<made, state, pinned, epoch>>,
           LoadsOn(c, Top(t)) \/ Unnoted(c)
    PROVE  GenerationInv'
<1>1. CASE Unnoted(c)
  BY <1>1, UnnotedGeneration
<1>2. CASE LoadsOn(c, Top(t))
  <2>1. Top(t) \in Calls
    BY TopFits DEF CoreInv
  <2>2. LookFacts(Top(t)) /\ Top(t).at \in Owning
    BY <2>1, LoadPlaces DEF GenerationInv, GenerationFacts
  <2>3. PICK g \in Frames : IsOne(c, g) /\ g.at \in Loads /\ g.f = Top(t).f /\ g.got = Top(t).got
    BY <1>2 DEF LoadsOn
  <2>4. GenerationFacts(g)
    BY <2>2, <2>3, LoadsOnFacts
  <2>5. QED
    BY <2>2, <2>3, <2>4, WatchedOneGeneration
<1>3. QED
  BY <1>1, <1>2

LEMMA LoadGenerationGoesOn ==
    ASSUME CoreInv, GenerationInv, NEW t \in Threads, LoadGeneration(t)
    PROVE  GenerationInv'
<1>1. TypeOK /\ stack[t] # <<>> /\ Top(t).at = "load" /\ Top(t).at \in Loads
  BY DEF CoreInv, LoadGeneration, In, Loads
<1>2. UNCHANGED <<made, state, pinned, epoch>>
  BY DEF LoadGeneration, registry
<1>3. PICK c : /\ Step(t, c)
               /\ Opens(c, "end", Top(t).f) \/ Goes(c, Top(t), "loading")
  BY <1>1, LoadGenerationStep
<1>4. CASE Opens(c, "end", Top(t).f)
  <2>1. Unnoted(c)
    BY <1>4, UnnotedShapes, UnwatchedPlaces
  <2>2. QED
    BY <1>1, <1>2, <1>3, <2>1, LoadsOnGeneration
<1>5. CASE Goes(c, Top(t), "loading")
  <2>1. LoadsOn(c, Top(t))
    BY <1>5, LoadPlaces DEF Goes, Moved, LoadsOn
  <2>2. QED
    BY <1>1, <1>2, <1>3, <2>1, LoadsOnGeneration
<1>6. QED
  BY <1>3, <1>4, <1>5

LEMMA RecheckGeneration ==
    ASSUME CoreInv, GenerationInv, NEW t \in Threads, Recheck(t)
    PROVE  GenerationInv'
<1>1. TypeOK /\ stack[t] # <<>> /\ Top(t).at = "recheck" /\ Top(t).at \in Loads
  BY DEF CoreInv, Recheck, In, Loads
<1>2. UNCHANGED <<made, state, pinned, epoch>>
  BY DEF Recheck, registry, generation
<1>3. PICK c : /\ Step(t, c)
               /\ \/ Opens(c, "giveBack", Top(t).f)
                  \/ \E b : Finds(c, Top(t), "reprobe", b)
                  \/ \E todo : Leaves(c, Top(t), "recheck", todo)
  BY <1>1, RecheckStep
<1>4. CASE Opens(c, "giveBack", Top(t).f)
  <2>1. Unnoted(c)
    BY <1>4, UnnotedShapes, UnwatchedPlaces
  <2>2. QED
    BY <1>1, <1>2, <1>3, <2>1, LoadsOnGeneration
<1>5. CASE \E b : Finds(c, Top(t), "reprobe", b)
  <2>1. LoadsOn(c, Top(t))
    BY <1>5, LoadPlaces DEF Finds, IsAbout, LoadsOn
  <2>2. QED
    BY <1>1, <1>2, <1>3, <2>1, LoadsOnGeneration
<1>6. CASE \E todo : Leaves(c, Top(t), "recheck", todo)
  <2>1. LoadsOn(c, Top(t))
    BY <1>6, LoadPlaces DEF Leaves, IsLeft, LoadsOn
  <2>2. QED
    BY <1>1, <1>2, <1>3, <2>1, LoadsOnGeneration
<1>7. QED
  BY <1>3, <1>4, <1>5, <1>6

LEMMA ReprobeGeneration ==
    ASSUME CoreInv, GenerationInv, NEW t \in Threads, Reprobe(t)
    PROVE  GenerationInv'
<1>1. TypeOK /\ stack[t] # <<>> /\ Top(t).at = "reprobe" /\ Top(t).at \in Loads
  BY DEF CoreInv, Reprobe, In, Loads
<1>2. UNCHANGED <<made, state, pinned, epoch>>
  BY DEF Reprobe, registry, generation
<1>3. PICK c : /\ Step(t, c)
               /\ \/ Opens(c, "giveBack", Top(t).f)
                  \/ \E todo : Leaves(c, Top(t), "recheck", todo)
  BY <1>1, ReprobeStep
<1>4. CASE Opens(c, "giveBack", Top(t).f)
  <2>1. Unnoted(c)
    BY <1>4, UnnotedShapes, UnwatchedPlaces
  <2>2. QED
    BY <1>1, <1>2, <1>3, <2>1, LoadsOnGeneration
<1>5. CASE \E todo : Leaves(c, Top(t), "recheck", todo)
  <2>1. LoadsOn(c, Top(t))
    BY <1>5, LoadPlaces DEF Leaves, IsLeft, LoadsOn
  <2>2. QED
    BY <1>1, <1>2, <1>3, <2>1, LoadsOnGeneration
<1>6. QED
  BY <1>3, <1>4, <1>5

LEMMA SetLoadingGeneration ==
    ASSUME CoreInv, GenerationInv, NEW t \in Threads, SetLoading(t)
    PROVE  GenerationInv'
<1>1. /\ TypeOK /\ stack[t] # <<>> /\ Top(t).at = "loading" /\ Top(t).at \in Loads
      /\ Top(t).at \in Owning /\ state \in [Fibers -> FiberStates]
  BY LoadPlaces DEF CoreInv, SetLoading, In, Loads, TypeOK
<1>2. UNCHANGED <<made, pinned, epoch>>
  BY DEF SetLoading, registry
<1>3. Top(t) \in Calls /\ Top(t).f \in Fibers
  BY <1>1, TopFits DEF CoreInv, Frames
<1>4. PICK c : /\ Step(t, c)
               /\ \/ state' = state /\ Opens(c, "end", Top(t).f)
                  \/ /\ state' = [state EXCEPT ![Top(t).f] = "loading"]
                     /\ Leaves(c, Top(t), "recheck", Top(t).got)
  BY <1>1, SetLoadingStep
<1>5. CASE state' = state /\ Opens(c, "end", Top(t).f)
  <2>1. Unnoted(c)
    BY <1>5, UnnotedShapes, UnwatchedPlaces
  <2>2. QED
    BY <1>1, <1>2, <1>4, <1>5, <2>1, LoadsOnGeneration
<1>6. CASE /\ state' = [state EXCEPT ![Top(t).f] = "loading"]
           /\ Leaves(c, Top(t), "recheck", Top(t).got)
  <2>1. PICK g \in Frames : IsOne(c, g) /\ g.at = "recheck" /\ g.f = Top(t).f /\ g.got = Top(t).got
    BY <1>6 DEF Leaves, IsLeft
  <2>2. MadeStays /\ \A i \in 1..Len(c) : c[i] = g
    BY <1>2, <2>1 DEF MadeStays, Known, IsOne
  <2>3. GenerationFacts(g)'
    <3> PICK h : h = Top(t)
      OBVIOUS
    <3>1. h \in Calls /\ h.at \in Loads /\ LookFacts(h)
      BY <1>1, <1>3 DEF GenerationInv, GenerationFacts
    <3>2. LookFacts(h)'
      BY <2>2, <3>1, LookKept
    <3>3. Resolves(g.f, g.got)'
      BY <2>1, <3>1, <3>2 DEF LookFacts
    <3>4. QED
      BY <2>1, <3>3 DEF GenerationFacts, LookFacts, Looking, Holding, Winding, Loads
  <2>4. \A x \in Fibers \ {Top(t).f} : state'[x] = state[x] /\ pinned'[x] = pinned[x]
    BY <1>1, <1>2, <1>6
  <2>5. CallsKept
    BY <1>1, <1>2, <1>4, <2>2, <2>3, <2>4, DriverCallsKept DEF GenerationInv
  <2>6. ASSUME NEW x \in Fibers PROVE SnapshotFacts(x)'
    <3>1. state'[x] = "active" => state[x] = "active"
      BY <1>1, <1>3, <1>6
    <3>2. SnapshotFacts(x) /\ pinned'[x] = pinned[x] /\ epoch'[x] = epoch[x]
      BY <1>2 DEF GenerationInv
    <3>3. QED
      BY <2>2, <3>1, <3>2, SnapshotKept
  <2>7. QED
    BY <2>5, <2>6 DEF GenerationInv, CallsKept
<1>7. QED
  BY <1>4, <1>5, <1>6

LEMMA CommitGeneration ==
    ASSUME CoreInv, GenerationInv, NEW t \in Threads, Commit(t)
    PROVE  GenerationInv'
<1>1. /\ TypeOK /\ stack[t] # <<>> /\ Top(t).at = "recheck" /\ Top(t).at \in Owning
      /\ pinned \in [Fibers -> Epochs] /\ epoch \in [Fibers -> Epochs]
  BY DEF CoreInv, Commit, In, Loads, Owning, TypeOK
<1> PICK h : h = Top(t)
  OBVIOUS
<1>2. /\ UNCHANGED <<made, state>> /\ pinned' = [pinned EXCEPT ![h.f] = h.got]
      /\ epoch' = [epoch EXCEPT ![h.f] = h.got]
  BY DEF Commit, registry, Self
<1>3. h \in Calls /\ h.f \in Fibers /\ h.got \subseteq Known /\ Resolves(h.f, h.got)
  <2>1. h \in Calls /\ h.at \in Loads
    BY <1>1, TopFits DEF CoreInv, Loads
  <2>2. GenerationFacts(h)
    BY <2>1 DEF GenerationInv
  <2>3. QED
    BY <2>1, <2>2, FoundIsKnown DEF GenerationFacts, LookFacts
<1>4. h.got # Inactive
  <2>1. Vacant \notin Known
    BY DEF Known, Vacant
  <2>2. QED
    BY <1>3, <2>1 DEF Inactive
<1>5. PICK c : /\ Step(t, c)
               /\ \E g \in Frames : IsOne(c, g) /\ IsBody(g, h.f, Offers[h.f])
  BY <1>1, CommitStep
<1>6. \A i \in 1..Len(c) : c[i].at = "run" /\ c[i].f = h.f
  BY <1>5 DEF IsOne, IsBody
<1>7. pinned'[h.f] = h.got /\ epoch'[h.f] = h.got
  BY <1>1, <1>2, <1>3
<1>8. \A x \in Fibers \ {h.f} : /\ state'[x] = state[x] /\ pinned'[x] = pinned[x]
                               /\ epoch'[x] = epoch[x]
  BY <1>1, <1>2
<1>9. MadeStays
  BY <1>2 DEF MadeStays, Known
<1>10. CallsKept
  <2>1. \A i \in 1..Len(c) : GenerationFacts(c[i])'
    BY <1>4, <1>6, <1>7 DEF GenerationFacts, LookFacts, Looking, Holding, Winding, Loads
  <2>2. \A x \in Fibers \ {Top(t).f} : state'[x] = state[x] /\ pinned'[x] = pinned[x]
    BY <1>8
  <2>3. QED
    BY <1>1, <1>2, <1>5, <2>1, <2>2, DriverCallsKept DEF GenerationInv
<1>11. SnapshotFacts(h.f)'
  <2>1. ASSUME NEW n \in ToSet(Inject[h.f])
        PROVE  \E b \in h.got : /\ made[b].name = n /\ made[b].label = Scope[h.f][n]
                                /\ \A d \in h.got : made[d].name = n => d = b
    <3>1. PICK b \in h.got : made[b].name = n
      BY <1>3 DEF Resolves, NamesOf
    <3>2. QED
      BY <1>3, <3>1 DEF Resolves, Fits
  <2>2. Pinned(h.f)'
    BY <1>2, <1>7, <2>1 DEF Pinned
  <2>3. Fits(h.f, h.got)
    BY <1>3 DEF Resolves
  <2>4. Fits(h.f, epoch[h.f])'
    BY <1>2, <1>7, <2>3 DEF Fits
  <2>5. QED
    BY <1>4, <1>7, <2>2, <2>4 DEF SnapshotFacts
<1>12. ASSUME NEW x \in Fibers \ {h.f} PROVE SnapshotFacts(x)'
  <2>1. SnapshotFacts(x) /\ x \in Fibers
    BY DEF GenerationInv
  <2>2. QED
    BY <1>8, <1>9, <2>1, SnapshotKept
<1>13. QED
  BY <1>10, <1>11, <1>12 DEF GenerationInv, CallsKept

LEMMA UnloadedGeneration ==
    ASSUME CoreInv, GenerationInv, NEW t \in Threads, Unloaded(t)
    PROVE  GenerationInv'
<1>1. /\ TypeOK /\ stack[t] # <<>> /\ Top(t).at = "unwind" /\ Top(t).at \in Owning
      /\ pinned \in [Fibers -> Epochs]
  BY DEF CoreInv, Unloaded, In, Unloads, Owning, TypeOK
<1> PICK h : h = Top(t)
  OBVIOUS
<1>2. UNCHANGED <<made, state, epoch>> /\ pinned' = [pinned EXCEPT ![h.f] = Inactive]
  BY DEF Unloaded, registry, Self
<1>3. h.f \in Fibers /\ state[h.f] = "unloading"
  <2>1. h \in Calls /\ h.f \in Fibers /\ h.at \in Winding
    BY <1>1, TopFits DEF CoreInv, Frames, Winding
  <2>2. QED
    BY <2>1 DEF GenerationInv, GenerationFacts
<1>4. PICK c : Step(t, c) /\ (Goes(c, Top(t), "finalize") \/ Goes(c, Top(t), "repending"))
  BY <1>1, UnloadedStep
<1>5. \A i \in 1..Len(c) : c[i].at \notin Watched
  BY <1>4, UnwatchedPlaces DEF Goes, Moved, IsOne
<1>6. MadeStays
  BY <1>2 DEF MadeStays, Known
<1>7. \A x \in Fibers \ {h.f} : pinned'[x] = pinned[x]
  BY <1>1, <1>2
<1>8. CallsKept
  BY <1>1, <1>2, <1>4, <1>5, <1>7, DriverCallsKept DEF GenerationInv
<1>9. ASSUME NEW x \in Fibers PROVE SnapshotFacts(x)'
  <2>1. CASE x = h.f
    <3>1. pinned'[x] = Inactive /\ state'[x] # "active"
      BY <1>1, <1>2, <1>3, <2>1
    <3>2. epoch'[x] # Inactive => Fits(x, epoch[x])'
      BY <1>2 DEF GenerationInv, SnapshotFacts, Fits
    <3>3. QED
      BY <3>1, <3>2 DEF SnapshotFacts
  <2>2. CASE x # h.f
    BY <1>2, <1>6, <1>7, <2>2, SnapshotKept DEF GenerationInv
  <2>3. QED
    BY <2>1, <2>2
<1>10. QED
  BY <1>8, <1>9 DEF GenerationInv, CallsKept

\* A name that the provider itself does not inject changes in its snapshot.
Replaced(f, n) ==
    /\ \A b \in pinned[f] : made[b].name # n => b \in pinned'[f]
    /\ \A b \in pinned'[f] : made[b].name # n => b \in pinned[f]

LEMMA PinnedKept ==
    ASSUME GenerationInv, Apart, NEW f \in Fibers, NEW n, n \notin ToSet(Inject[f]),
           Replaced(f, n), pinned[f] # Inactive, UNCHANGED <<made, epoch>>
    PROVE  Pinned(f)'
<1>1. Pinned(f)
  BY DEF GenerationInv, SnapshotFacts
<1>2. ASSUME NEW m \in ToSet(Inject[f])
      PROVE  \E b \in pinned'[f] : /\ made[b].name = m /\ made[b].label = Scope[f][m]
                                   /\ epoch[f] # Inactive => b \in epoch[f]
                                   /\ \A c \in pinned'[f] : made[c].name = m => c = b
  <2>1. PICK b \in pinned[f] : /\ made[b].name = m /\ made[b].label = Scope[f][m]
                               /\ epoch[f] # Inactive => b \in epoch[f]
                               /\ \A c \in pinned[f] : made[c].name = m => c = b
    BY <1>1 DEF Pinned
  <2>2. m # n
    OBVIOUS
  <2>3. b \in pinned'[f] /\ \A c \in pinned'[f] : made[c].name = m => c = b
    BY <2>1 DEF Replaced
  <2>4. QED
    BY <2>1, <2>3
<1>3. QED
  BY <1>2 DEF Pinned

\* The bindings a call of a provider is about have names that it offers.
LEMMA OffersNames ==
    ASSUME CoreInv, NEW g \in Calls, g.at \in EntryCalls
    PROVE  /\ g.f \in Fibers /\ g.b \in Known /\ g.b # Vacant
           /\ made[g.b].name \in ToSet(Offers[g.f])
           /\ g.at \in Registering => made[g.b].name = g.name
<1>1. g \in Frames /\ CallFacts(g)
  BY CallsTyping DEF CoreInv, BindInv
<1>2. g.f \in Fibers /\ g.b # Vacant /\ g.b \in Known /\ made[g.b].provider = g.f
  BY <1>1 DEF CallFacts, Frames
<1>3. QED
  BY <1>1, <1>2 DEF CallFacts, CoreInv, BindInv, MadeFit

LEMMA PinGeneration ==
    ASSUME CoreInv, GenerationInv, NEW t \in Threads, Pin(t)
    PROVE  GenerationInv'
<1>1. /\ TypeOK /\ stack[t] # <<>> /\ Top(t).at = "pin" /\ pinned \in [Fibers -> Epochs]
      /\ "pin" \in EntryCalls /\ "pin" \in Registering
  BY DEF CoreInv, Pin, In, EntryCalls, Registering, Claiming, TypeOK
<1> PICK h : h = Top(t)
  OBVIOUS
<1> PICK f : f = h.f
  OBVIOUS
<1>2. h \in Calls /\ h.at = "pin"
  BY <1>1, TopFits DEF CoreInv
<1>3. /\ f \in Fibers /\ h.b \in Known /\ h.b # Vacant /\ made[h.b].name = h.name
      /\ h.name \in ToSet(Offers[f])
  BY <1>1, <1>2, OffersNames
<1>4. UNCHANGED <<made, state, epoch>>
  BY DEF Pin, registry
<1>5. pinned' = IF pinned[f] = Inactive THEN pinned
                ELSE [pinned EXCEPT ![f] = (@ \ Named(f, h.name)) \cup {h.b}]
  BY DEF Pin, Self
<1>6. \A x \in Fibers \ {f} : pinned'[x] = pinned[x]
  BY <1>1, <1>5
<1>7. pinned[f] = Inactive => pinned' = pinned
  BY <1>5
<1>8. pinned[f] # Inactive => pinned'[f] = (pinned[f] \ Named(f, h.name)) \cup {h.b}
  BY <1>1, <1>3, <1>5
<1>9. ASSUME pinned[f] # Inactive PROVE pinned'[f] # Inactive /\ Replaced(f, h.name)
  <2>1. h.b \in pinned'[f]
    BY <1>8, <1>9
  <2>2. pinned'[f] # Inactive
    BY <1>3, <2>1 DEF Inactive
  <2>3. Replaced(f, h.name)
    BY <1>3, <1>8, <1>9 DEF Replaced, Named
  <2>4. QED
    BY <2>2, <2>3
<1>10. MadeStays
  BY <1>4 DEF MadeStays, Known
<1>11. PICK c : Step(t, c) /\ Goes(c, Top(t), "tell")
  BY <1>1, PinStep
<1>12. PlainCallsNext
  <2>1. Unnoted(c)
    BY <1>11, UnnotedShapes, UnwatchedPlaces
  <2>2. QED
    BY <1>1, <1>11, <2>1, StepUnnoted
<1>13. \A x \in Fibers : pinned[x] # Inactive => pinned'[x] # Inactive
  BY <1>6, <1>9
<1>14. CallsKept
  BY <1>4, <1>10, <1>12, <1>13, PlainCallsKept DEF GenerationInv
<1>15. ASSUME NEW x \in Fibers PROVE SnapshotFacts(x)'
  <2>1. CASE x # f \/ pinned[f] = Inactive
    BY <1>4, <1>6, <1>7, <1>10, <2>1, SnapshotKept DEF GenerationInv
  <2>2. CASE x = f /\ pinned[f] # Inactive
    <3>1. ASSUME Apart PROVE Pinned(f)'
      <4>1. h.name \notin ToSet(Inject[f])
        BY <1>3, <3>1 DEF Apart
      <4>2. QED
        BY <1>3, <1>4, <1>9, <2>2, <3>1, <4>1, PinnedKept
    <3>2. epoch'[f] # Inactive => Fits(f, epoch[f])'
      BY <1>3, <1>4 DEF GenerationInv, SnapshotFacts, Fits
    <3>3. QED
      BY <1>9, <2>2, <3>1, <3>2 DEF SnapshotFacts
  <2>3. QED
    BY <2>1, <2>2
<1>16. QED
  BY <1>14, <1>15 DEF GenerationInv, CallsKept

LEMMA UnpinGeneration ==
    ASSUME CoreInv, GenerationInv, NEW t \in Threads, Unpin(t)
    PROVE  GenerationInv'
<1>1. /\ TypeOK /\ stack[t] # <<>> /\ Top(t).at = "unpin" /\ pinned \in [Fibers -> Epochs]
      /\ "unpin" \in EntryCalls
  BY DEF CoreInv, Unpin, In, EntryCalls, Releasing, TypeOK
<1> PICK h : h = Top(t)
  OBVIOUS
<1> PICK f : f = h.f
  OBVIOUS
<1> PICK n : n = made[h.b].name
  OBVIOUS
<1>2. h \in Calls /\ h.at = "unpin"
  BY <1>1, TopFits DEF CoreInv
<1>3. f \in Fibers /\ n \in ToSet(Offers[f])
  BY <1>1, <1>2, OffersNames
<1>4. UNCHANGED <<made, state, epoch>>
  BY DEF Unpin, registry
<1>5. pinned' = [pinned EXCEPT ![f] = @ \ Named(f, n)]
  BY DEF Unpin, Self
<1>6. \A x \in Fibers \ {f} : pinned'[x] = pinned[x]
  BY <1>1, <1>5
<1>7. pinned'[f] = pinned[f] \ Named(f, n)
  BY <1>1, <1>3, <1>5
<1>8. pinned[f] = Inactive => pinned'[f] = pinned[f]
  BY <1>7 DEF Named
<1>9. ASSUME pinned[f] # Inactive PROVE pinned'[f] # Inactive /\ Replaced(f, n)
  <2>1. Vacant \notin pinned[f]
    BY <1>1, <1>3, <1>9 DEF Epochs, Bindings, Vacant
  <2>2. pinned'[f] # Inactive
    BY <1>7, <2>1 DEF Inactive
  <2>3. Replaced(f, n)
    BY <1>7 DEF Replaced, Named
  <2>4. QED
    BY <2>2, <2>3
<1>10. MadeStays
  BY <1>4 DEF MadeStays, Known
<1>11. PICK c : Step(t, c) /\ IsNone(c)
  BY <1>1, UnpinStep
<1>12. PlainCallsNext
  BY <1>1, <1>11, UnnotedShapes, StepUnnoted
<1>13. \A x \in Fibers : pinned[x] # Inactive => pinned'[x] # Inactive
  BY <1>6, <1>9
<1>14. CallsKept
  BY <1>4, <1>10, <1>12, <1>13, PlainCallsKept DEF GenerationInv
<1>15. ASSUME NEW x \in Fibers PROVE SnapshotFacts(x)'
  <2>1. CASE x # f \/ pinned[f] = Inactive
    BY <1>4, <1>6, <1>8, <1>10, <2>1, SnapshotKept DEF GenerationInv
  <2>2. CASE x = f /\ pinned[f] # Inactive
    <3>1. ASSUME Apart PROVE Pinned(f)'
      <4>1. n \notin ToSet(Inject[f])
        BY <1>3, <3>1 DEF Apart
      <4>2. QED
        BY <1>3, <1>4, <1>9, <2>2, <3>1, <4>1, PinnedKept
    <3>2. epoch'[f] # Inactive => Fits(f, epoch[f])'
      BY <1>3, <1>4 DEF GenerationInv, SnapshotFacts, Fits
    <3>3. QED
      BY <1>9, <2>2, <3>1, <3>2 DEF SnapshotFacts
  <2>3. QED
    BY <2>1, <2>2
<1>16. QED
  BY <1>14, <1>15 DEF GenerationInv, CallsKept

LEMMA GenerationSame ==
    ASSUME CoreInv, GenerationInv, UNCHANGED <<made, generation, stack>>
    PROVE  GenerationInv'
<1>1. Calls' = Calls
  BY DEF Calls
<1>2. PlainCallsNext
  BY <1>1 DEF PlainCallsNext
<1>3. QED
  BY <1>2, SameGeneration

LEMMA GenerationInit == Init => GenerationInv
<1> SUFFICES ASSUME Init PROVE GenerationInv
  OBVIOUS
<1>1. Calls = {}
  BY DEF Init, Calls
<1>2. \A f \in Fibers : SnapshotFacts(f)
  BY DEF Init, SnapshotFacts
<1>3. QED
  BY <1>1, <1>2 DEF GenerationInv

LEMMA GenerationNext ==
    ASSUME CoreInv, GenerationInv, [Next]_vars
    PROVE  GenerationInv'
<1>1. ASSUME NEW t \in Threads, Request(t) PROVE GenerationInv'
  BY <1>1, RequestGeneration
<1>2. ASSUME NEW t \in Threads, Driving(t) PROVE GenerationInv'
  BY <1>2, AsideGeneration, SyncGeneration, FetchGeneration, CheckGeneration,
     ProbeGeneration, ApplyUnloadGeneration, ReloadGeneration DEF Driving, Aside
<1>3. ASSUME NEW t \in Threads, Generating(t) PROVE GenerationInv'
  BY <1>3, AsideGeneration, LoadGenerationGoesOn, SetLoadingGeneration, RecheckGeneration,
     ReprobeGeneration, GiveBackGeneration, GaveBackGeneration, CommitGeneration,
     RunBodyGeneration, ActivateGeneration, SetActiveGeneration, SetFailedGeneration,
     UnloadGeneration, SetUnloadingGeneration, ClearGeneration, UnloadedGeneration,
     SetPendingGeneration, FinalizeDisposeGeneration DEF Generating, Aside
<1>4. ASSUME NEW t \in Threads, Serving(t) PROVE GenerationInv'
  BY <1>4, AsideGeneration, ProvideGeneration, PinGeneration, UnpinGeneration
     DEF Serving, Aside
<1>5. ASSUME NEW b \in Bindings, Waver(b) PROVE GenerationInv'
  BY <1>5, GenerationSame DEF Waver
<1>6. CASE UNCHANGED vars
  BY <1>6, GenerationSame DEF vars, registry
<1>7. QED
  BY <1>1, <1>2, <1>3, <1>4, <1>5, <1>6 DEF Next, Proceed, Stop

\* A generation reads what it was loaded with.
LEMMA GenerationReads ==
    ASSUME CoreInv, GenerationInv, Apart
    PROVE  PinnedReadable
<1>1. TypeOK /\ BindInv /\ pinned \in [Fibers -> Epochs]
  BY DEF CoreInv, TypeOK
<1>2. ASSUME NEW f \in Fibers, InGeneration(f) PROVE pinned[f] # Inactive
  <2>1. CASE state[f] = "active"
    BY <2>1 DEF GenerationInv, SnapshotFacts
  <2>2. CASE \E t \in Threads : \E i \in DOMAIN stack[t] :
                stack[t][i].f = f /\ stack[t][i].at \in {"run", "activate"}
    <3>1. PICK t \in Threads : \E i \in DOMAIN stack[t] :
                stack[t][i].f = f /\ stack[t][i].at \in {"run", "activate"}
      BY <2>2
    <3>2. PICK i \in DOMAIN stack[t] :
                stack[t][i].f = f /\ stack[t][i].at \in {"run", "activate"}
      BY <3>1
    <3>3. stack[t] \in Seq(Frames)
      BY <1>1 DEF TypeOK
    <3>4. i \in 1..Len(stack[t])
      BY <3>3
    <3>5. stack[t][i] \in Calls
      BY <3>4, CallsOf
    <3>6. QED
      BY <3>2, <3>5 DEF GenerationInv, GenerationFacts, Holding
  <2>3. QED
    BY <1>2, <2>1, <2>2 DEF InGeneration
<1>3. ASSUME NEW f \in Fibers, InGeneration(f), NEW n \in ToSet(Inject[f])
      PROVE  \E b \in Bindings : /\ b \in DOMAIN made /\ made[b].name = n
                                 /\ epoch[f] # Inactive => b \in epoch[f]
                                 /\ b \in silent \/ Lookup(f, n) = {b}
  <2>1. pinned[f] # Inactive /\ Pinned(f)
    BY <1>2, <1>3 DEF GenerationInv, SnapshotFacts
  <2>2. PICK b \in pinned[f] : /\ made[b].name = n /\ made[b].label = Scope[f][n]
                               /\ epoch[f] # Inactive => b \in epoch[f]
                               /\ \A c \in pinned[f] : made[c].name = n => c = b
    BY <2>1 DEF Pinned
  <2>3. b \in Bindings /\ b \notin Inactive
    <3>1. pinned[f] \subseteq Bindings
      BY <1>1, <2>1 DEF Epochs
    <3>2. Vacant \notin Bindings
      BY DEF Bindings, Vacant
    <3>3. QED
      BY <3>1, <3>2 DEF Inactive
  <2>4. b \in Known
    BY <1>1, <2>3 DEF BindInv, FiberFacts, Seen
  <2>5. b \in DOMAIN made
    <3>1. made \in Seq([provider : Fibers, name : Names, label : Labels])
      BY <1>1 DEF TypeOK
    <3>2. QED
      BY <2>4 DEF Known
  <2>6. ASSUME b \notin silent PROVE Lookup(f, n) = {b}
    <3> DEFINE held == {c \in pinned[f] \ Inactive : made[c].name = n
                          /\ made[c].label = Scope[f][n] /\ c \notin silent}
    <3>1. held = {b}
      BY <2>2, <2>3, <2>6
    <3>2. QED
      BY <3>1 DEF Lookup
  <2>7. QED
    BY <2>2, <2>3, <2>5, <2>6
<1>4. QED
  BY <1>3 DEF PinnedReadable

LEMMA GenerationAlways == Spec => []GenerationInv
<1>1. Init => GenerationInv
  BY GenerationInit
<1>2. CoreInv /\ GenerationInv /\ [Next]_vars => GenerationInv'
  BY GenerationNext
<1>3. QED
  BY <1>1, <1>2, CoreAlways, PTL DEF Spec

\* "A service this fiber injected stays readable while that fiber's generation
\* runs, even when its provider is already unloading": whatever the fibers and
\* their services, as long as no fiber provides what it injects, a body and its
\* cleanups read the one binding the generation was loaded with (resolveService,
\* Lookup, load).
THEOREM PinnedStaysReadable ==
    ASSUME Apart
    PROVE  Spec => []PinnedReadable
<1>1. CoreInv /\ GenerationInv => PinnedReadable
  BY GenerationReads
<1>2. Spec => []GenerationInv
  BY GenerationAlways
<1>3. QED
  BY <1>1, <1>2, CoreAlways, PTL
=============================================================================
