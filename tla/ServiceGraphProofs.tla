------------------------- MODULE ServiceGraphProofs -------------------------
(***************************************************************************)
(* Proofs about ServiceGraph, continued: the fields of a fiber fit the     *)
(* place of its driver (PhaseInv), and every change of a service has       *)
(* somebody on the way who tells its dependents (CurrentInv); hence        *)
(* NoStaleGeneration and DependentsFirst.                                  *)
(***************************************************************************)
EXTENDS ServiceGraphCoreProofs

----------------------------------------------------------------------------
(* The fields of a fiber and the place of its driver.                       *)

\* A call that says nothing of the fields of its fiber.
Phaseless(g) == g.at \notin Owning \cup {"remove"}

LEMMA PhaselessFacts ==
    ASSUME NEW g, Phaseless(g)
    PROVE  PhaseFacts(g)'
  BY DEF Phaseless, PhaseFacts, Owning, Started, Looking, Loads, Unloads

\* The facts of a call and of a fiber whose fields do not change.
LEMMA PhaseKept ==
    ASSUME NEW g, PhaseFacts(g), state'[g.f] = state[g.f], live'[g.f] = live[g.f],
           epoch'[g.f] = epoch[g.f], disposed[g.f] => disposed'[g.f]
    PROVE  PhaseFacts(g)'
  BY DEF PhaseFacts, Owning, Started, Looking, Loads, Unloads

\* A step of the driver of f, which leaves the other fibers alone.
LEMMA OwnerPhase ==
    ASSUME CoreInv, PhaseInv, NEW t \in Threads, stack[t] # <<>>, NEW c, Step(t, c),
           Top(t).at \in Owning, NEW f, f = Top(t).f,
           \A x \in Fibers \ {f} :
              /\ state'[x] = state[x] /\ live'[x] = live[x] /\ epoch'[x] = epoch[x]
              /\ busy'[x] = busy[x] /\ dirty'[x] = dirty[x],
           UNCHANGED <<disposed, attached, loaded>>,
           \A i \in 1..Len(c) : Phaseless(c[i]) \/ PhaseFacts(c[i])',
           FiberPhase(f)'
    PROVE  PhaseInv'
<1>1. TypeOK /\ OneOwner
  BY DEF CoreInv, CallInv
<1>2. /\ Calls = Others(t) \cup {Top(t)} /\ Calls' = Others(t) \cup New(c)
  BY <1>1, StepCalls
<1>3. ASSUME NEW g \in New(c) PROVE PhaseFacts(g)'
  BY <1>3, PhaselessFacts DEF New
<1>4. ASSUME NEW g \in Others(t) PROVE PhaseFacts(g)'
  <2>1. g \in Calls /\ PhaseFacts(g) /\ g.f \in Fibers
    BY <1>2, FoundIsKnown DEF PhaseInv
  <2>2. CASE g.f = f
    <3>1. g.at \notin Owning
      BY <1>1, <2>2, OwnerAlone
    <3>2. g.at = "remove" => disposed[f]
      BY <2>1, <2>2 DEF PhaseFacts
    <3>3. QED
      BY <2>2, <3>1, <3>2 DEF PhaseFacts, Owning, Started, Looking, Loads, Unloads
  <2>3. CASE g.f # f
    BY <2>1, <2>3, PhaseKept
  <2>4. QED
    BY <2>2, <2>3
<1>5. ASSUME NEW x \in Fibers PROVE FiberPhase(x)'
  <2>1. CASE x = f
    BY <2>1
  <2>2. CASE x # f
    BY DEF PhaseInv, FiberPhase
  <2>3. QED
    BY <2>1, <2>2
<1>6. QED
  BY <1>2, <1>3, <1>4, <1>5 DEF PhaseInv

\* A step that no driver takes.
LEMMA CallerPhase ==
    ASSUME CoreInv, PhaseInv, UNCHANGED <<state, live, epoch>>,
           \A x \in Fibers : disposed[x] => disposed'[x],
           \A g \in Calls' : g \in Calls \/ Phaseless(g) \/ PhaseFacts(g)',
           \A x \in Fibers : FiberPhase(x)'
    PROVE  PhaseInv'
<1>1. ASSUME NEW g \in Calls' PROVE PhaseFacts(g)'
  <2>1. CASE g \in Calls
    <3>1. PhaseFacts(g) /\ g.f \in Fibers
      BY <2>1, FoundIsKnown DEF PhaseInv
    <3>2. QED
      BY <3>1, PhaseKept
  <2>2. QED
    BY <1>1, <2>1, PhaselessFacts
<1>2. QED
  BY <1>1 DEF PhaseInv

\* A step of the driver that leaves the fields of its fiber alone.
LEMMA QuietPhase ==
    ASSUME CoreInv, PhaseInv, NEW t \in Threads, stack[t] # <<>>, NEW c, Step(t, c),
           Top(t).at \in Owning,
           UNCHANGED <<state, live, epoch, busy, disposed, attached, loaded>>,
           dirty' = dirty,
           \A i \in 1..Len(c) : Phaseless(c[i]) \/ PhaseFacts(c[i])
    PROVE  PhaseInv'
<1> PICK f : f = Top(t).f
  OBVIOUS
<1>1. f \in Fibers
  BY TopTyping DEF CoreInv, Frames
<1>2. FiberPhase(f)'
  BY <1>1 DEF PhaseInv, FiberPhase
<1>3. \A i \in 1..Len(c) : Phaseless(c[i]) \/ PhaseFacts(c[i])'
  BY DEF PhaseFacts
<1>4. QED
  BY <1>2, <1>3, OwnerPhase

LEMMA QuietPhaseOne ==
    ASSUME CoreInv, PhaseInv, NEW t \in Threads, stack[t] # <<>>, NEW c, Step(t, c),
           Top(t).at \in Owning,
           UNCHANGED <<state, live, epoch, busy, disposed, attached, loaded>>,
           dirty' = dirty, NEW g, IsOne(c, g), PhaseFacts(g)
    PROVE  PhaseInv'
<1>1. \A i \in 1..Len(c) : c[i] = g
  BY DEF IsOne
<1>2. QED
  BY <1>1, QuietPhase

\* What the call on top says.
LEMMA TopPhase ==
    ASSUME CoreInv, PhaseInv, NEW t \in Threads, stack[t] # <<>>
    PROVE  /\ TypeOK /\ BindInv /\ Top(t) \in Calls /\ Top(t).f \in Fibers
           /\ PhaseFacts(Top(t)) /\ FiberPhase(Top(t).f) /\ CallFacts(Top(t))
<1>1. TypeOK /\ BindInv
  BY DEF CoreInv
<1>2. QED
  BY <1>1, TopFits DEF PhaseInv, Frames

LEMMA SyncPhase ==
    ASSUME CoreInv, PhaseInv, NEW t \in Threads, Sync(t)
    PROVE  PhaseInv'
<1>1. TypeOK /\ stack[t] # <<>> /\ Top(t).at = "sync" /\ Top(t).at \in Owning
  BY DEF CoreInv, Sync, In, Owning
<1>2. UNCHANGED <<state, live, epoch, busy, dirty, disposed, attached, loaded>>
  BY DEF Sync, generation, calls
<1>3. PICK c : /\ Step(t, c)
               /\ \/ Unloads1(c, Top(t).f, "end") \/ Unloads1(c, Top(t).f, "reload")
                  \/ Looks(c, Top(t).f, "end")
  BY <1>1, SyncStep
<1>4. PICK g : /\ IsOne(c, g) /\ g.f = Top(t).f
               /\ \/ g.at = "unload"
                  \/ g.at = "fetch" /\ g.cont = "end"
  BY <1>3 DEF Unloads1, Looks, IsCall, IsLook
<1>5. PhaseFacts(g)
  BY <1>1, <1>4, TopPhase
     DEF PhaseFacts, Owning, Started, Looking, Loads, Unloads
<1>6. QED
  BY <1>1, <1>2, <1>3, <1>4, <1>5, QuietPhaseOne

\* Where a look takes the driver.
LEMMA OutcomePhase ==
    ASSUME NEW h, NEW new, NEW g, Outcome(g, h, new), PhaseFacts(h), h.at \in Looking
    PROVE  PhaseFacts(g)
<1>1. /\ state[h.f] = "active" => live[h.f]
      /\ h.cont = "reload" => ~live[h.f]
  BY DEF PhaseFacts, Owning, Looking
<1>2. /\ g.f = h.f /\ g.at \in {"load", "end", "applyUnload", "unload"}
      /\ g.at = "load" => ~live[g.f]
  BY <1>1 DEF Outcome, IsLoading, IsCall
<1>3. QED
  BY <1>1, <1>2 DEF PhaseFacts, Owning, Started, Looking, Loads, Unloads

LEMMA TurnsPhase ==
    ASSUME CoreInv, PhaseInv, NEW t \in Threads, stack[t] # <<>>, NEW c, Step(t, c),
           Top(t).at \in Looking, NEW new, Turns(c, Top(t), new),
           UNCHANGED <<state, live, epoch, busy, dirty, disposed, attached, loaded>>
    PROVE  PhaseInv'
<1>1. PICK g : IsOne(c, g) /\ Outcome(g, Top(t), new)
  BY DEF Turns
<1>2. PhaseFacts(g) /\ Top(t).at \in Owning
  BY <1>1, OutcomePhase, TopPhase DEF Owning
<1>3. QED
  BY <1>1, <1>2, QuietPhaseOne

LEMMA LooksOnPhase ==
    ASSUME CoreInv, PhaseInv, NEW t \in Threads, stack[t] # <<>>, NEW c, Step(t, c),
           Top(t).at \in Looking, NEW g, IsOne(c, g), g.at \in Looking,
           g.f = Top(t).f, g.cont = Top(t).cont,
           UNCHANGED <<state, live, epoch, busy, dirty, disposed, attached, loaded>>
    PROVE  PhaseInv'
<1>1. PhaseFacts(g) /\ Top(t).at \in Owning
  BY TopPhase DEF PhaseFacts, Owning, Started, Looking, Loads, Unloads
<1>2. QED
  BY <1>1, QuietPhaseOne

LEMMA FetchPhase ==
    ASSUME CoreInv, PhaseInv, NEW t \in Threads, Fetch(t)
    PROVE  PhaseInv'
<1>1. TypeOK /\ stack[t] # <<>> /\ Top(t).at = "fetch" /\ Top(t).at \in Looking
  BY DEF CoreInv, Fetch, In, Looking
<1>2. UNCHANGED <<state, live, epoch, busy, dirty, disposed, attached, loaded>>
  BY DEF Fetch, generation, driver, calls
<1>3. PICK c : /\ Step(t, c)
               /\ \/ \E new : Turns(c, Top(t), new)
                  \/ \E b : Finds(c, Top(t), "check", b)
  BY <1>1, FetchStep
<1>4. CASE \E new : Turns(c, Top(t), new)
  BY <1>1, <1>2, <1>3, <1>4, TurnsPhase
<1>5. CASE \E b : Finds(c, Top(t), "check", b)
  <2>1. PICK g : /\ IsOne(c, g) /\ g.at = "check" /\ g.f = Top(t).f
                 /\ g.cont = Top(t).cont
    BY <1>5 DEF Finds, IsAbout
  <2>2. g.at \in Looking
    BY <2>1 DEF Looking
  <2>3. QED
    BY <1>1, <1>2, <1>3, <2>1, <2>2, LooksOnPhase
<1>6. QED
  BY <1>3, <1>4, <1>5

LEMMA TakesPhase ==
    ASSUME CoreInv, PhaseInv, NEW t \in Threads, stack[t] # <<>>, NEW c, Step(t, c),
           Top(t).at \in Looking, NEW b, Takes(c, Top(t), b),
           UNCHANGED <<state, live, epoch, busy, dirty, disposed, attached, loaded>>
    PROVE  PhaseInv'
<1>1. PICK g \in Frames : IsOne(c, g) /\ Taken(g, Top(t), b)
  BY DEF Takes
<1>2. CASE Outcome(g, Top(t), Top(t).got \cup {b})
  BY <1>1, <1>2, TurnsPhase DEF Turns, Takes
<1>3. CASE g.at = "fetch" /\ g.f = Top(t).f /\ g.cont = Top(t).cont
  BY <1>1, <1>3, LooksOnPhase DEF Looking
<1>4. QED
  BY <1>1, <1>2, <1>3 DEF Taken

LEMMA CheckPhase ==
    ASSUME CoreInv, PhaseInv, NEW t \in Threads, Check(t)
    PROVE  PhaseInv'
<1>1. TypeOK /\ stack[t] # <<>> /\ Top(t).at = "check" /\ Top(t).at \in Looking
  BY DEF CoreInv, Check, In, Looking
<1>2. UNCHANGED <<state, live, epoch, busy, dirty, disposed, attached, loaded>>
  BY DEF Check, generation, driver, calls
<1>3. Top(t).b # Vacant /\ Top(t).queue # <<>>
  BY <1>1, TopPhase, FoundIsKnown DEF LookedUp
<1>4. PICK c : /\ Step(t, c)
               /\ \/ Turns(c, Top(t), Inactive) \/ Goes(c, Top(t), "probe")
                  \/ Takes(c, Top(t), Top(t).b)
  BY <1>1, <1>3, CheckStep
<1>5. CASE Turns(c, Top(t), Inactive)
  BY <1>1, <1>2, <1>4, <1>5, TurnsPhase
<1>6. CASE Goes(c, Top(t), "probe")
  <2>1. PICK g : /\ IsOne(c, g) /\ g.at = "probe" /\ g.f = Top(t).f
                 /\ g.cont = Top(t).cont
    BY <1>6 DEF Goes, Moved
  <2>2. g.at \in Looking
    BY <2>1 DEF Looking
  <2>3. QED
    BY <1>1, <1>2, <1>4, <2>1, <2>2, LooksOnPhase
<1>7. CASE Takes(c, Top(t), Top(t).b)
  BY <1>1, <1>2, <1>4, <1>7, TakesPhase
<1>8. QED
  BY <1>4, <1>5, <1>6, <1>7

LEMMA ProbePhase ==
    ASSUME CoreInv, PhaseInv, NEW t \in Threads, Probe(t)
    PROVE  PhaseInv'
<1>1. TypeOK /\ stack[t] # <<>> /\ Top(t).at = "probe" /\ Top(t).at \in Looking
  BY DEF CoreInv, Probe, In, Looking
<1>2. UNCHANGED <<state, live, epoch, busy, dirty, disposed, attached, loaded>>
  BY DEF Probe, generation, driver, calls
<1>3. Top(t).b # Vacant /\ Top(t).queue # <<>>
  BY <1>1, TopPhase, FoundIsKnown DEF LookedUp
<1>4. PICK c : /\ Step(t, c)
               /\ \/ Turns(c, Top(t), Inactive) \/ Takes(c, Top(t), Top(t).b)
  BY <1>1, <1>3, ProbeStep
<1>5. CASE Turns(c, Top(t), Inactive)
  BY <1>1, <1>2, <1>4, <1>5, TurnsPhase
<1>6. CASE Takes(c, Top(t), Top(t).b)
  BY <1>1, <1>2, <1>4, <1>6, TakesPhase
<1>7. QED
  BY <1>4, <1>5, <1>6

\* The steps of a driver that leave the fields of its fiber alone.
LEMMA RecheckPhase ==
    ASSUME CoreInv, PhaseInv, NEW t \in Threads, Recheck(t)
    PROVE  PhaseInv'
<1>1. TypeOK /\ stack[t] # <<>> /\ Top(t).at = "recheck" /\ Top(t).at \in Owning
  BY DEF CoreInv, Recheck, In, Owning, Started, Looking, Loads, Unloads
<1>2. UNCHANGED <<state, live, epoch, busy, dirty, disposed, attached, loaded>>
  BY DEF Recheck, generation, driver, calls
<1>3. PICK c : /\ Step(t, c)
               /\ \/ Opens(c, "giveBack", Top(t).f)
                  \/ (\E b : Finds(c, Top(t), "reprobe", b))
                  \/ (\E b : Leaves(c, Top(t), "recheck", b))
  BY <1>1, RecheckStep
<1>4. PICK g : IsOne(c, g) /\ g.f = Top(t).f /\ g.at \in {"giveBack", "reprobe", "recheck"}
  BY <1>3 DEF Unloads1, Goes, Opens, Finds, Leaves, IsCall, Moved, IsAbout, IsLeft
<1>5. PhaseFacts(g)
  BY <1>1, <1>4, TopPhase
     DEF PhaseFacts, Owning, Started, Looking, Loads, Unloads
<1>6. QED
  BY <1>1, <1>2, <1>3, <1>4, <1>5, QuietPhaseOne

LEMMA ReprobePhase ==
    ASSUME CoreInv, PhaseInv, NEW t \in Threads, Reprobe(t)
    PROVE  PhaseInv'
<1>1. TypeOK /\ stack[t] # <<>> /\ Top(t).at = "reprobe" /\ Top(t).at \in Owning
  BY DEF CoreInv, Reprobe, In, Owning, Started, Looking, Loads, Unloads
<1>2. UNCHANGED <<state, live, epoch, busy, dirty, disposed, attached, loaded>>
  BY DEF Reprobe, generation, driver, calls
<1>3. PICK c : /\ Step(t, c)
               /\ \/ Opens(c, "giveBack", Top(t).f)
                  \/ (\E b : Leaves(c, Top(t), "recheck", b))
  BY <1>1, ReprobeStep
<1>4. PICK g : IsOne(c, g) /\ g.f = Top(t).f /\ g.at \in {"giveBack", "recheck"}
  BY <1>3 DEF Unloads1, Goes, Opens, Finds, Leaves, IsCall, Moved, IsAbout, IsLeft
<1>5. PhaseFacts(g)
  BY <1>1, <1>4, TopPhase
     DEF PhaseFacts, Owning, Started, Looking, Loads, Unloads
<1>6. QED
  BY <1>1, <1>2, <1>3, <1>4, <1>5, QuietPhaseOne

LEMMA ActivatePhase ==
    ASSUME CoreInv, PhaseInv, NEW t \in Threads, Activate(t)
    PROVE  PhaseInv'
<1>1. TypeOK /\ stack[t] # <<>> /\ Top(t).at = "activate" /\ Top(t).at \in Owning
  BY DEF CoreInv, Activate, In, Owning, Started, Looking, Loads, Unloads
<1>2. UNCHANGED <<state, live, epoch, busy, dirty, disposed, attached, loaded>>
  BY DEF Activate, generation, driver, calls
<1>3. PICK c : Step(t, c) /\ (Unloads1(c, Top(t).f, "end") \/ Goes(c, Top(t), "active"))
  BY <1>1, ActivateStep
<1>4. PICK g : IsOne(c, g) /\ g.f = Top(t).f /\ g.at \in {"unload", "active"}
  BY <1>3 DEF Unloads1, Goes, Opens, Finds, Leaves, IsCall, Moved, IsAbout, IsLeft
<1>5. PhaseFacts(g)
  BY <1>1, <1>4, TopPhase
     DEF PhaseFacts, Owning, Started, Looking, Loads, Unloads
<1>6. QED
  BY <1>1, <1>2, <1>3, <1>4, <1>5, QuietPhaseOne

LEMMA FailPhase ==
    ASSUME CoreInv, PhaseInv, NEW t \in Threads, Fail(t)
    PROVE  PhaseInv'
<1>1. TypeOK /\ stack[t] # <<>> /\ Top(t).at = "fail" /\ Top(t).at \in Owning
  BY DEF CoreInv, Fail, In, Owning, Started, Looking, Loads, Unloads
<1>2. UNCHANGED <<state, live, epoch, busy, dirty, disposed, attached, loaded>>
  BY DEF Fail, generation, driver, calls
<1>3. PICK c : Step(t, c) /\ (Unloads1(c, Top(t).f, "failed"))
  BY <1>1, FailStep
<1>4. PICK g : IsOne(c, g) /\ g.f = Top(t).f /\ g.at \in {"unload"}
  BY <1>3 DEF Unloads1, Goes, Opens, Finds, Leaves, IsCall, Moved, IsAbout, IsLeft
<1>5. PhaseFacts(g)
  BY <1>1, <1>4, TopPhase
     DEF PhaseFacts, Owning, Started, Looking, Loads, Unloads
<1>6. QED
  BY <1>1, <1>2, <1>3, <1>4, <1>5, QuietPhaseOne

LEMMA UnloadedPhase ==
    ASSUME CoreInv, PhaseInv, NEW t \in Threads, Unloaded(t)
    PROVE  PhaseInv'
<1>1. TypeOK /\ stack[t] # <<>> /\ Top(t).at = "unwind" /\ Top(t).at \in Owning
  BY DEF CoreInv, Unloaded, In, Owning, Started, Looking, Loads, Unloads
<1>2. UNCHANGED <<state, live, epoch, busy, dirty, disposed, attached, loaded>>
  BY DEF Unloaded, driver, calls
<1>3. PICK c : Step(t, c) /\ (Goes(c, Top(t), "finalize") \/ Goes(c, Top(t), "repending"))
  BY <1>1, UnloadedStep
<1>4. PICK g : IsOne(c, g) /\ g.f = Top(t).f /\ g.at \in {"finalize", "repending"}
  BY <1>3 DEF Unloads1, Goes, Opens, Finds, Leaves, IsCall, Moved, IsAbout, IsLeft
<1>5. PhaseFacts(g)
  BY <1>1, <1>4, TopPhase
     DEF PhaseFacts, Owning, Started, Looking, Loads, Unloads
<1>6. QED
  BY <1>1, <1>2, <1>3, <1>4, <1>5, QuietPhaseOne

LEMMA RunBodyPhase ==
    ASSUME CoreInv, PhaseInv, NEW t \in Threads, RunBody(t)
    PROVE  PhaseInv'
<1>1. TypeOK /\ stack[t] # <<>> /\ Top(t).at = "run" /\ Top(t).at \in Owning
  BY DEF CoreInv, RunBody, In, Owning, Started
<1>2. UNCHANGED <<state, live, epoch, busy, dirty, disposed, attached, loaded>>
  BY DEF RunBody, generation, driver, calls
<1>3. PICK c : /\ Step(t, c)
               /\ \/ \E g, k : /\ IsTwo(c, g, k) /\ g.at = "run" /\ g.f = Top(t).f
                                /\ k.at = "provide"
                  \/ \E g : IsOne(c, g) /\ g.f = Top(t).f /\ g.at \in {"activate", "fail"}
  BY <1>1, RunBodyStep DEF Goes, Moved, IsProvide, IsCall
<1>4. \A i \in 1..Len(c) :
         \/ c[i].at = "provide"
         \/ c[i].f = Top(t).f /\ c[i].at \in {"run", "activate", "fail"}
  <2>1. ASSUME NEW g, NEW k, IsTwo(c, g, k) PROVE \A i \in 1..Len(c) : c[i] = g \/ c[i] = k
    BY <2>1 DEF IsTwo
  <2>2. ASSUME NEW g, IsOne(c, g) PROVE \A i \in 1..Len(c) : c[i] = g
    BY <2>2 DEF IsOne
  <2>3. CASE \E g, k : /\ IsTwo(c, g, k) /\ g.at = "run" /\ g.f = Top(t).f
                       /\ k.at = "provide"
    <3>1. PICK g, k : /\ IsTwo(c, g, k) /\ g.at = "run" /\ g.f = Top(t).f
                      /\ k.at = "provide"
      BY <2>3
    <3>2. \A i \in 1..Len(c) : c[i] = g \/ c[i] = k
      BY <2>1, <3>1
    <3>3. QED
      BY <3>1, <3>2
  <2>4. CASE \E g : IsOne(c, g) /\ g.f = Top(t).f /\ g.at \in {"activate", "fail"}
    BY <2>2, <2>4
  <2>5. QED
    BY <1>3, <2>3, <2>4
<1>5. \A i \in 1..Len(c) : c[i].at = "provide" => Phaseless(c[i])
  BY DEF Phaseless, Owning, Started, Looking, Loads, Unloads
<1>6. ASSUME NEW g, g.f = Top(t).f, g.at \in {"run", "activate", "fail"}
      PROVE  PhaseFacts(g)
  BY <1>1, <1>6, TopPhase
     DEF PhaseFacts, Owning, Started, Looking, Loads, Unloads
<1>7. QED
  BY <1>1, <1>2, <1>3, <1>4, <1>5, <1>6, QuietPhase

LEMMA ClearPhase ==
    ASSUME CoreInv, PhaseInv, NEW t \in Threads, Clear(t)
    PROVE  PhaseInv'
<1>1. TypeOK /\ stack[t] # <<>> /\ Top(t).at = "clear" /\ Top(t).at \in Owning
  BY DEF CoreInv, Clear, In, Owning, Unloads
<1>2. UNCHANGED <<state, live, epoch, busy, dirty, disposed, attached, loaded>>
  BY DEF Clear, generation, driver, calls
<1> PICK n : n = Len(entries[Top(t).f])
  OBVIOUS
<1>3. PICK c : /\ Step(t, c) /\ n \in Nat /\ Len(c) = n + 1
               /\ Moved(c[1], Top(t), "unwind")
               /\ \A i \in 1..n : c[i + 1].at = "request"
  BY <1>1, ClearStep DEF IsCall
<1>4. \A i \in 1..Len(c) : i = 1 \/ c[i].at = "request"
  <2>1. SUFFICES ASSUME NEW i \in 1..Len(c), i # 1 PROVE c[i].at = "request"
    OBVIOUS
  <2>2. i - 1 \in 1..n /\ (i - 1) + 1 = i
    BY <1>3, <2>1
  <2>3. QED
    BY <1>3, <2>2
<1>5. \A i \in 1..Len(c) : c[i].at = "request" => Phaseless(c[i])
  BY DEF Phaseless, Owning, Started, Looking, Loads, Unloads
<1>6. PhaseFacts(c[1])
  BY <1>1, <1>3, TopPhase
     DEF Moved, PhaseFacts, Owning, Started, Looking, Loads, Unloads
<1>7. QED
  BY <1>1, <1>2, <1>3, <1>4, <1>5, <1>6, QuietPhase

\* The beginning and the end of a drive.
LEMMA BeginPassPhase ==
    ASSUME CoreInv, PhaseInv, NEW t \in Threads, BeginPass(t)
    PROVE  PhaseInv'
<1>1. /\ TypeOK /\ stack[t] # <<>> /\ Top(t).at = "pass" /\ Top(t).at \in Owning
      /\ dirty \in [Fibers -> BOOLEAN]
  BY DEF CoreInv, TypeOK, BeginPass, In, Owning
<1> PICK f : f = Top(t).f
  OBVIOUS
<1>2. UNCHANGED <<state, live, epoch, busy, disposed, attached, loaded>>
  BY DEF BeginPass, generation, calls
<1>3. dirty' = [dirty EXCEPT ![f] = FALSE] /\ f \in Fibers
  BY <1>1, TopPhase DEF BeginPass, Self
<1>4. PICK c : Step(t, c) /\ Goes(c, Top(t), "sync")
  BY <1>1, BeginPassStep
<1>5. PICK g : IsOne(c, g) /\ g.f = f /\ g.at = "sync"
  BY <1>4 DEF Goes, Moved
<1>6. PhaseFacts(g)
  BY <1>1, <1>5, TopPhase
     DEF PhaseFacts, Owning, Started, Looking, Loads, Unloads
<1>7. \A i \in 1..Len(c) : PhaseFacts(c[i])'
  BY <1>2, <1>5, <1>6 DEF IsOne, PhaseFacts
<1>8. FiberPhase(f)'
  BY <1>1, <1>2, <1>3 DEF PhaseInv, FiberPhase
<1>9. \A x \in Fibers \ {f} : dirty'[x] = dirty[x]
  BY <1>1, <1>3
<1>10. QED
  BY <1>1, <1>2, <1>4, <1>7, <1>8, <1>9, OwnerPhase

LEMMA EndPassPhase ==
    ASSUME CoreInv, PhaseInv, NEW t \in Threads, EndPass(t)
    PROVE  PhaseInv'
<1>1. /\ TypeOK /\ stack[t] # <<>> /\ Top(t).at = "end" /\ Top(t).at \in Owning
      /\ busy \in [Fibers -> BOOLEAN]
  BY DEF CoreInv, TypeOK, EndPass, In, Owning
<1> PICK f : f = Top(t).f
  OBVIOUS
<1>2. UNCHANGED <<state, live, epoch, dirty, disposed, attached, loaded>>
  BY DEF EndPass, generation, calls
<1>3. f \in Fibers /\ (state[f] = "active" => live[f]) /\ FiberPhase(f)
  BY <1>1, TopPhase DEF PhaseFacts, Unloads
<1>4. IF dirty[f] THEN busy' = busy ELSE busy' = [busy EXCEPT ![f] = FALSE]
  BY DEF EndPass, Self
<1>5. PICK c : /\ Step(t, c)
               /\ \/ Opens(c, "pass", f)
                  \/ IsNone(c)
  BY <1>1, EndPassStep
<1>6. \A i \in 1..Len(c) : PhaseFacts(c[i])'
  <2>1. ASSUME NEW g, g.at = "pass", g.f = f PROVE PhaseFacts(g)'
    BY <1>2, <1>3, <2>1
       DEF PhaseFacts, Owning, Started, Looking, Loads, Unloads
  <2>2. QED
    BY <1>5, <2>1 DEF Opens, IsNone, IsOne, IsCall
<1>7. FiberPhase(f)'
  BY <1>1, <1>2, <1>3, <1>4 DEF FiberPhase
<1>8. \A x \in Fibers \ {f} : busy'[x] = busy[x]
  BY <1>1, <1>4
<1>9. QED
  BY <1>1, <1>2, <1>5, <1>6, <1>7, <1>8, OwnerPhase

LEMMA BeginTransitionPhase ==
    ASSUME CoreInv, PhaseInv, NEW t \in Threads, BeginTransition(t)
    PROVE  PhaseInv'
<1>1. /\ TypeOK /\ stack[t] # <<>> /\ Top(t).at = "begin"
      /\ busy \in [Fibers -> BOOLEAN] /\ dirty \in [Fibers -> BOOLEAN]
  BY DEF CoreInv, TypeOK, BeginTransition, In
<1> PICK f : f = Top(t).f
  OBVIOUS
<1>2. UNCHANGED <<state, live, epoch, disposed, attached, loaded>>
  BY DEF BeginTransition, generation, calls
<1>3. f \in Fibers /\ FiberPhase(f)
  BY <1>1, TopPhase
<1>4. IF busy[f] THEN dirty' = [dirty EXCEPT ![f] = TRUE] /\ busy' = busy
                 ELSE busy' = [busy EXCEPT ![f] = TRUE] /\ dirty' = dirty
  BY DEF BeginTransition, Self
<1>5. PICK c : /\ Step(t, c)
               /\ \/ IsNone(c)
                  \/ ~busy[f] /\ Goes(c, Top(t), "pass")
  BY <1>1, BeginTransitionStep
<1>6. \A g \in New(c) : PhaseFacts(g)'
  <2>1. ASSUME ~busy[f], NEW g, g.at = "pass", g.f = f PROVE PhaseFacts(g)'
    BY <1>2, <1>3, <2>1
       DEF FiberPhase, PhaseFacts, Owning, Started, Looking, Loads, Unloads
  <2>2. QED
    BY <1>5, <2>1, NewCalls DEF Goes, Moved
<1>7. \A g \in Calls' : g \in Calls \/ PhaseFacts(g)'
  BY <1>1, <1>5, <1>6, StepCalls
<1>8. \A x \in Fibers : FiberPhase(x)'
  BY <1>1, <1>2, <1>3, <1>4 DEF PhaseInv, FiberPhase
<1>9. QED
  BY <1>2, <1>7, <1>8, CallerPhase

\* The steps of a driver that change the generation of its fiber.
LEMMA LoadGenerationPhase ==
    ASSUME CoreInv, PhaseInv, NEW t \in Threads, LoadGeneration(t)
    PROVE  PhaseInv'
<1>1. /\ TypeOK /\ stack[t] # <<>> /\ Top(t).at = "load" /\ Top(t).at \in Owning
      /\ live \in [Fibers -> BOOLEAN] /\ epoch \in [Fibers -> Epochs]
  BY DEF CoreInv, TypeOK, LoadGeneration, In, Owning, Started, Looking, Loads, Unloads
<1> PICK f : f = Top(t).f
  OBVIOUS
<1>2. UNCHANGED <<state, epoch, busy, dirty, disposed, attached, loaded>>
  BY DEF LoadGeneration, driver, calls
<1>3. f \in Fibers /\ FiberPhase(f) /\ busy[f] /\ PhaseFacts(Top(t)) /\ CallFacts(Top(t))
  <2>1. Has(Owning, f)
    BY <1>1, TopPhase DEF Has
  <2>2. QED
    BY <1>1, <2>1, TopPhase DEF CoreInv, CallInv, BusyOwned
<1>4. /\ disposed[f] => live' = live
      /\ ~disposed[f] => live' = [live EXCEPT ![f] = TRUE]
      /\ \A x \in Fibers \ {f} : live'[x] = live[x]
  BY <1>1 DEF LoadGeneration, Forget, Self
<1>5. PICK c : /\ Step(t, c)
               /\ \/ disposed[f] /\ Opens(c, "end", f)
                  \/ ~disposed[f] /\ Goes(c, Top(t), "loading")
  BY <1>1, LoadGenerationStep
<1>6. PICK g : /\ IsOne(c, g) /\ g.f = f
               /\ \/ g.at = "end" /\ disposed[f]
                  \/ g.at = "loading" /\ ~disposed[f]
  BY <1>5 DEF Opens, Goes, IsCall, Moved
<1>7. PhaseFacts(g)'
  BY <1>1, <1>2, <1>3, <1>4, <1>6
     DEF PhaseFacts, Owning, Started, Looking, Loads, Unloads
<1>8. \A i \in 1..Len(c) : PhaseFacts(c[i])'
  BY <1>6, <1>7 DEF IsOne
<1>9. FiberPhase(f)'
  BY <1>2, <1>3 DEF FiberPhase
<1>10. QED
  BY <1>1, <1>2, <1>4, <1>5, <1>8, <1>9, OwnerPhase

LEMMA GiveBackPhase ==
    ASSUME CoreInv, PhaseInv, NEW t \in Threads, GiveBack(t)
    PROVE  PhaseInv'
<1>1. /\ TypeOK /\ stack[t] # <<>> /\ Top(t).at = "giveBack" /\ Top(t).at \in Owning
      /\ live \in [Fibers -> BOOLEAN] /\ epoch \in [Fibers -> Epochs]
  BY DEF CoreInv, TypeOK, GiveBack, In, Owning, Started, Looking, Loads, Unloads
<1> PICK f : f = Top(t).f
  OBVIOUS
<1>2. UNCHANGED <<state, busy, dirty, disposed, attached, loaded>>
  BY DEF GiveBack, driver, calls
<1>3. f \in Fibers /\ FiberPhase(f) /\ busy[f] /\ PhaseFacts(Top(t)) /\ CallFacts(Top(t))
  <2>1. Has(Owning, f)
    BY <1>1, TopPhase DEF Has
  <2>2. QED
    BY <1>1, <2>1, TopPhase DEF CoreInv, CallInv, BusyOwned
<1>4. /\ live' = [live EXCEPT ![f] = FALSE] /\ epoch' = [epoch EXCEPT ![f] = Inactive]
      /\ \A x \in Fibers \ {f} : live'[x] = live[x] /\ epoch'[x] = epoch[x]
  BY <1>1 DEF GiveBack, Forget, Self
<1>5. PICK c : Step(t, c) /\ (Goes(c, Top(t), "gaveBack"))
  BY <1>1, GiveBackStep
<1>6. PICK g : IsOne(c, g) /\ g.f = f /\ g.at = "gaveBack"
  BY <1>5 DEF Goes, Moved
<1>7. PhaseFacts(g)'
  BY <1>1, <1>2, <1>3, <1>4, <1>6
     DEF PhaseFacts, Owning, Started, Looking, Loads, Unloads
<1>8. \A i \in 1..Len(c) : PhaseFacts(c[i])'
  BY <1>6, <1>7 DEF IsOne
<1>9. FiberPhase(f)'
  BY <1>2, <1>3 DEF FiberPhase
<1>10. QED
  BY <1>1, <1>2, <1>4, <1>5, <1>8, <1>9, OwnerPhase

LEMMA CommitPhase ==
    ASSUME CoreInv, PhaseInv, NEW t \in Threads, Commit(t)
    PROVE  PhaseInv'
<1>1. /\ TypeOK /\ stack[t] # <<>> /\ Top(t).at = "recheck" /\ Top(t).at \in Owning
      /\ live \in [Fibers -> BOOLEAN] /\ epoch \in [Fibers -> Epochs]
  BY DEF CoreInv, TypeOK, Commit, In, Owning, Started, Looking, Loads, Unloads
<1> PICK f : f = Top(t).f
  OBVIOUS
<1>2. UNCHANGED <<state, live, busy, dirty, disposed, attached, loaded>>
  BY DEF Commit, driver, calls
<1>3. f \in Fibers /\ FiberPhase(f) /\ busy[f] /\ PhaseFacts(Top(t)) /\ CallFacts(Top(t))
  <2>1. Has(Owning, f)
    BY <1>1, TopPhase DEF Has
  <2>2. QED
    BY <1>1, <2>1, TopPhase DEF CoreInv, CallInv, BusyOwned
<1>4. \A x \in Fibers \ {f} : epoch'[x] = epoch[x]
  BY <1>1 DEF Commit, Forget, Self
<1>5. PICK c : /\ Step(t, c)
               /\ (\E g \in Frames : IsOne(c, g) /\ IsBody(g, Top(t).f, Offers[Top(t).f]))
  BY <1>1, CommitStep
<1>6. PICK g : IsOne(c, g) /\ g.f = f /\ g.at = "run"
  BY <1>5 DEF IsBody
<1>7. PhaseFacts(g)'
  BY <1>1, <1>2, <1>3, <1>6
     DEF PhaseFacts, Owning, Started, Looking, Loads, Unloads
<1>8. \A i \in 1..Len(c) : PhaseFacts(c[i])'
  BY <1>6, <1>7 DEF IsOne
<1>9. FiberPhase(f)'
  BY <1>2, <1>3 DEF FiberPhase
<1>10. QED
  BY <1>1, <1>2, <1>4, <1>5, <1>8, <1>9, OwnerPhase

LEMMA ApplyUnloadPhase ==
    ASSUME CoreInv, PhaseInv, NEW t \in Threads, ApplyUnload(t)
    PROVE  PhaseInv'
<1>1. /\ TypeOK /\ stack[t] # <<>> /\ Top(t).at = "applyUnload" /\ Top(t).at \in Owning
      /\ live \in [Fibers -> BOOLEAN] /\ epoch \in [Fibers -> Epochs]
  BY DEF CoreInv, TypeOK, ApplyUnload, In, Owning, Started, Looking, Loads, Unloads
<1> PICK f : f = Top(t).f
  OBVIOUS
<1>2. UNCHANGED <<state, live, busy, dirty, disposed, attached, loaded>>
  BY DEF ApplyUnload, driver, calls
<1>3. f \in Fibers /\ FiberPhase(f) /\ busy[f] /\ PhaseFacts(Top(t)) /\ CallFacts(Top(t))
  <2>1. Has(Owning, f)
    BY <1>1, TopPhase DEF Has
  <2>2. QED
    BY <1>1, <2>1, TopPhase DEF CoreInv, CallInv, BusyOwned
<1>4. \A x \in Fibers \ {f} : epoch'[x] = epoch[x]
  BY <1>1 DEF ApplyUnload, Forget, Self
<1>5. PICK c : Step(t, c) /\ (Opens(c, "end", f) \/ Unloads1(c, f, "end"))
  BY <1>1, ApplyUnloadStep
<1>6. PICK g : IsOne(c, g) /\ g.f = f /\ g.at \in {"end", "unload"}
  BY <1>5 DEF Opens, Unloads1, IsCall
<1>7. PhaseFacts(g)'
  BY <1>1, <1>2, <1>3, <1>6
     DEF PhaseFacts, Owning, Started, Looking, Loads, Unloads
<1>8. \A i \in 1..Len(c) : PhaseFacts(c[i])'
  BY <1>6, <1>7 DEF IsOne
<1>9. FiberPhase(f)'
  BY <1>2, <1>3 DEF FiberPhase
<1>10. QED
  BY <1>1, <1>2, <1>4, <1>5, <1>8, <1>9, OwnerPhase

LEMMA ReloadPhase ==
    ASSUME CoreInv, PhaseInv, NEW t \in Threads, Reload(t)
    PROVE  PhaseInv'
<1>1. /\ TypeOK /\ stack[t] # <<>> /\ Top(t).at = "reload" /\ Top(t).at \in Owning
      /\ live \in [Fibers -> BOOLEAN] /\ epoch \in [Fibers -> Epochs]
  BY DEF CoreInv, TypeOK, Reload, In, Owning, Started, Looking, Loads, Unloads
<1> PICK f : f = Top(t).f
  OBVIOUS
<1>2. UNCHANGED <<state, live, busy, dirty, disposed, attached, loaded>>
  BY DEF Reload, driver, calls
<1>3. f \in Fibers /\ FiberPhase(f) /\ busy[f] /\ PhaseFacts(Top(t)) /\ CallFacts(Top(t))
  <2>1. Has(Owning, f)
    BY <1>1, TopPhase DEF Has
  <2>2. QED
    BY <1>1, <2>1, TopPhase DEF CoreInv, CallInv, BusyOwned
<1>4. /\ \A x \in Fibers \ {f} : epoch'[x] = epoch[x]
      /\ ~disposed[f] => epoch'[f] = Inactive
  BY <1>1, <1>3 DEF Reload, Forget, Self
<1>5. PICK c : /\ Step(t, c)
               /\ \/ Opens(c, "end", f)
                  \/ ~disposed[f] /\ Looks(c, f, "reload")
  BY <1>1, ReloadStep
<1>6. PICK g : /\ IsOne(c, g) /\ g.f = f
               /\ \/ g.at = "end"
                  \/ g.at = "fetch" /\ ~disposed[f]
  BY <1>5 DEF Opens, Looks, IsCall, IsLook
<1>7. PhaseFacts(g)'
  BY <1>1, <1>2, <1>3, <1>4, <1>6
     DEF PhaseFacts, Owning, Started, Looking, Loads, Unloads
<1>8. \A i \in 1..Len(c) : PhaseFacts(c[i])'
  BY <1>6, <1>7 DEF IsOne
<1>9. FiberPhase(f)'
  BY <1>2, <1>3 DEF FiberPhase
<1>10. QED
  BY <1>1, <1>2, <1>4, <1>5, <1>8, <1>9, OwnerPhase

LEMMA UnloadPhase ==
    ASSUME CoreInv, PhaseInv, NEW t \in Threads, Unload(t)
    PROVE  PhaseInv'
<1>1. /\ TypeOK /\ stack[t] # <<>> /\ Top(t).at = "unload" /\ Top(t).at \in Owning
      /\ live \in [Fibers -> BOOLEAN] /\ epoch \in [Fibers -> Epochs]
  BY DEF CoreInv, TypeOK, Unload, In, Owning, Started, Looking, Loads, Unloads
<1> PICK f : f = Top(t).f
  OBVIOUS
<1>2. UNCHANGED <<state, epoch, busy, dirty, disposed, attached, loaded>>
  BY DEF Unload, driver, calls
<1>3. f \in Fibers /\ FiberPhase(f) /\ busy[f] /\ PhaseFacts(Top(t)) /\ CallFacts(Top(t))
  <2>1. Has(Owning, f)
    BY <1>1, TopPhase DEF Has
  <2>2. QED
    BY <1>1, <2>1, TopPhase DEF CoreInv, CallInv, BusyOwned
<1>4. /\ ~live'[f] /\ \A x \in Fibers \ {f} : live'[x] = live[x]
  BY <1>1, <1>3 DEF Unload, Forget, Self
<1>5. PICK c : /\ Step(t, c)
               /\ \/ live[f] /\ Goes(c, Top(t), "unloading")
                  \/ ~live[f] /\ Goes(c, Top(t), "finalize")
                  \/ ~live[f] /\ Goes(c, Top(t), Top(t).cont)
  BY <1>1, UnloadStep
<1>6. PICK g : /\ IsOne(c, g) /\ g.f = f
               /\ \/ g.at = "unloading"
                  \/ ~live[f] /\ g.at \in {"finalize", "reload", "failed", "end"}
  <2>1. Top(t).cont \in {"reload", "failed", "end"}
    BY <1>1, <1>3 DEF CallFacts, ComesBack, Unloads
  <2>2. QED
    BY <1>5, <2>1 DEF Goes, Moved
<1>7. PhaseFacts(g)'
  BY <1>1, <1>2, <1>3, <1>4, <1>6
     DEF PhaseFacts, Owning, Started, Looking, Loads, Unloads
<1>8. \A i \in 1..Len(c) : PhaseFacts(c[i])'
  BY <1>6, <1>7 DEF IsOne
<1>9. FiberPhase(f)'
  BY <1>2, <1>3 DEF FiberPhase
<1>10. QED
  BY <1>1, <1>2, <1>4, <1>5, <1>8, <1>9, OwnerPhase

\* Where a driver goes on when it has set the state.
SetsOn == {"end", "clear", "reload", "failed"}

\* A driver that sets the state of its fiber.
LEMMA SetStatePhase ==
    ASSUME CoreInv, PhaseInv, NEW t \in Threads, stack[t] # <<>>, NEW c, Step(t, c),
           NEW s \in FiberStates, NEW next \in SetsOn,
           Announces(c, Top(t), s, next), Top(t).at \in Owning, NEW f, f = Top(t).f,
           Top(t).at = "unloading" => s = "unloading",
           s = "active" => live[f], next # "end" => ~live[f],
           state' = IF Refuses(f, s) THEN state ELSE [state EXCEPT ![f] = s],
           \A x \in Fibers \ {f} : dirty'[x] = dirty[x],
           UNCHANGED <<live, epoch, busy, disposed, attached, loaded>>
    PROVE  PhaseInv'
<1>1. TypeOK /\ state \in [Fibers -> FiberStates]
  BY DEF CoreInv, TypeOK
<1>2. f \in Fibers /\ FiberPhase(f) /\ busy[f] /\ PhaseFacts(Top(t))
  <2>1. Has(Owning, f)
    BY TopPhase DEF Has
  <2>2. QED
    BY <2>1, TopPhase DEF CoreInv, CallInv, BusyOwned
<1>3. PICK g, k :
         /\ Moved(g, Top(t), next)
         /\ \/ IsTwo(c, g, k) /\ IsCall(k, "names", f, Vacant)
            \/ IsOne(c, g)
  BY DEF Announces
<1>4. \A i \in 1..Len(c) : c[i] = g \/ c[i].at = "names"
  BY <1>3 DEF IsOne, IsTwo, IsCall
<1>5. \A i \in 1..Len(c) : c[i].at = "names" => Phaseless(c[i])
  BY DEF Phaseless, Owning, Started, Looking, Loads, Unloads
<1>6. /\ state'[f] = "active" => live[f]
      /\ \A x \in Fibers \ {f} : state'[x] = state[x]
  <2>1. Top(t).at # "unloading" /\ state[f] = "active" => live[f]
    BY <1>2 DEF PhaseFacts
  <2>2. QED
    BY <1>1, <1>2, <2>1 DEF Refuses
<1>7. PhaseFacts(g)'
  BY <1>3, <1>6 DEF SetsOn, Moved, PhaseFacts, Owning, Started, Looking, Loads, Unloads
<1>8. FiberPhase(f)'
  BY <1>2 DEF FiberPhase
<1>9. \A i \in 1..Len(c) : Phaseless(c[i]) \/ PhaseFacts(c[i])'
  BY <1>4, <1>5, <1>7
<1>10. QED
  BY <1>6, <1>8, <1>9, OwnerPhase

LEMMA SetActivePhase ==
    ASSUME CoreInv, PhaseInv, NEW t \in Threads, SetActive(t)
    PROVE  PhaseInv'
<1>1. /\ TypeOK /\ stack[t] # <<>> /\ Top(t).at = "active" /\ Top(t).at \in Owning
      /\ "active" \in FiberStates /\ "end" \in SetsOn
  BY DEF SetsOn, CoreInv, SetActive, In, Owning, Started, Looking, Loads, Unloads, FiberStates
<1> PICK f : f = Top(t).f
  OBVIOUS
<1>2. UNCHANGED <<live, epoch, busy, disposed, attached, loaded>>
  BY DEF SetActive, driver, calls
<1>3. f \in Fibers /\ PhaseFacts(Top(t)) /\ ComesBack(Top(t))
  BY <1>1, TopPhase DEF CallFacts
<1>4. PICK c : Step(t, c) /\ Announces(c, Top(t), "active", "end")
  BY <1>1, SetActiveStep
<1>5. state' = IF Refuses(f, "active") THEN state ELSE [state EXCEPT ![f] = "active"]
  BY <1>1, SetActiveStep
<1>6. \A x \in Fibers \ {f} : dirty'[x] = dirty[x]
  BY DEF SetActive, driver, Self
<1>7. live[f]
  BY <1>1, <1>3 DEF PhaseFacts, Started, Unloads
<1>8. QED
  BY <1>1, <1>2, <1>3, <1>4, <1>5, <1>6, <1>7, SetStatePhase

LEMMA SetFailedPhase ==
    ASSUME CoreInv, PhaseInv, NEW t \in Threads, SetFailed(t)
    PROVE  PhaseInv'
<1>1. /\ TypeOK /\ stack[t] # <<>> /\ Top(t).at = "failed" /\ Top(t).at \in Owning
      /\ "failed" \in FiberStates /\ "end" \in SetsOn
  BY DEF SetsOn, CoreInv, SetFailed, In, Owning, Started, Looking, Loads, Unloads, FiberStates
<1> PICK f : f = Top(t).f
  OBVIOUS
<1>2. UNCHANGED <<live, epoch, busy, disposed, attached, loaded>>
  BY DEF SetFailed, driver, calls
<1>3. f \in Fibers /\ PhaseFacts(Top(t)) /\ ComesBack(Top(t))
  BY <1>1, TopPhase DEF CallFacts
<1>4. PICK c : Step(t, c) /\ Announces(c, Top(t), "failed", "end")
  BY <1>1, SetFailedStep
<1>5. state' = IF Refuses(f, "failed") THEN state ELSE [state EXCEPT ![f] = "failed"]
  BY <1>1, SetFailedStep
<1>6. \A x \in Fibers \ {f} : dirty'[x] = dirty[x]
  BY DEF SetFailed, driver, Self
<1>7. QED
  BY <1>1, <1>2, <1>3, <1>4, <1>5, <1>6, SetStatePhase

LEMMA SetUnloadingPhase ==
    ASSUME CoreInv, PhaseInv, NEW t \in Threads, SetUnloading(t)
    PROVE  PhaseInv'
<1>1. /\ TypeOK /\ stack[t] # <<>> /\ Top(t).at = "unloading" /\ Top(t).at \in Owning
      /\ "unloading" \in FiberStates /\ "clear" \in SetsOn
  BY DEF SetsOn, CoreInv, SetUnloading, In, Owning, Started, Looking, Loads, Unloads, FiberStates
<1> PICK f : f = Top(t).f
  OBVIOUS
<1>2. UNCHANGED <<live, epoch, busy, disposed, attached, loaded>>
  BY DEF SetUnloading, driver, calls
<1>3. f \in Fibers /\ PhaseFacts(Top(t)) /\ ComesBack(Top(t))
  BY <1>1, TopPhase DEF CallFacts
<1>4. PICK c : Step(t, c) /\ Announces(c, Top(t), "unloading", "clear")
  BY <1>1, SetUnloadingStep
<1>5. state' = IF Refuses(f, "unloading") THEN state ELSE [state EXCEPT ![f] = "unloading"]
  BY <1>1, SetUnloadingStep
<1>6. \A x \in Fibers \ {f} : dirty'[x] = dirty[x]
  BY DEF SetUnloading, driver, Self
<1>7. ~live[f]
  BY <1>1, <1>3 DEF PhaseFacts, Started, Unloads
<1>8. QED
  BY <1>1, <1>2, <1>3, <1>4, <1>5, <1>6, <1>7, SetStatePhase

LEMMA SetPendingPhase ==
    ASSUME CoreInv, PhaseInv, NEW t \in Threads, SetPending(t)
    PROVE  PhaseInv'
<1>1. /\ TypeOK /\ stack[t] # <<>> /\ Top(t).at = "repending" /\ Top(t).at \in Owning
      /\ "pending" \in FiberStates /\ "end" \in SetsOn
  BY DEF SetsOn, CoreInv, SetPending, In, Owning, Started, Looking, Loads, Unloads, FiberStates
<1> PICK f : f = Top(t).f
  OBVIOUS
<1>2. UNCHANGED <<live, epoch, busy, disposed, attached, loaded>>
  BY DEF SetPending, driver, calls
<1>3. f \in Fibers /\ PhaseFacts(Top(t)) /\ ComesBack(Top(t))
  BY <1>1, TopPhase DEF CallFacts
<1>4. PICK c : Step(t, c) /\ Announces(c, Top(t), "pending", Top(t).cont)
  BY <1>1, SetPendingStep
<1>5. state' = IF Refuses(f, "pending") THEN state ELSE [state EXCEPT ![f] = "pending"]
  BY <1>1, SetPendingStep
<1>6. \A x \in Fibers \ {f} : dirty'[x] = dirty[x]
  BY DEF SetPending, driver, Self
<1>7. Top(t).cont \in SetsOn /\ ~live[f]
  BY <1>1, <1>3 DEF SetsOn, ComesBack, PhaseFacts, Unloads
<1>8. QED
  BY <1>1, <1>2, <1>3, <1>4, <1>5, <1>6, <1>7, SetStatePhase

LEMMA FinalizeDisposePhase ==
    ASSUME CoreInv, PhaseInv, NEW t \in Threads, FinalizeDispose(t)
    PROVE  PhaseInv'
<1>1. /\ TypeOK /\ stack[t] # <<>> /\ Top(t).at = "finalize" /\ Top(t).at \in Owning
      /\ "disposed" \in FiberStates
  BY DEF CoreInv, FinalizeDispose, In, Owning, Started, Looking, Loads, Unloads, FiberStates
<1> PICK f : f = Top(t).f
  OBVIOUS
<1>2. UNCHANGED <<live, epoch, busy, disposed, attached, loaded>>
  BY DEF FinalizeDispose, driver, calls
<1>3. f \in Fibers /\ PhaseFacts(Top(t)) /\ ComesBack(Top(t))
  BY <1>1, TopPhase DEF CallFacts
<1>4. PICK c : Step(t, c) /\ Announces(c, Top(t), "disposed", Top(t).cont)
  BY <1>1, FinalizeDisposeStep
<1>5. state' = IF Refuses(f, "disposed") THEN state ELSE [state EXCEPT ![f] = "disposed"]
  BY <1>1, FinalizeDisposeStep
<1>6. \A x \in Fibers \ {f} : dirty'[x] = dirty[x]
  BY DEF FinalizeDispose, driver, Self
<1>7. Top(t).cont \in SetsOn /\ ~live[f]
  BY <1>1, <1>3 DEF SetsOn, ComesBack, PhaseFacts, Unloads
<1>8. QED
  BY <1>1, <1>2, <1>3, <1>4, <1>5, <1>6, <1>7, SetStatePhase

LEMMA GaveBackPhase ==
    ASSUME CoreInv, PhaseInv, NEW t \in Threads, GaveBack(t)
    PROVE  PhaseInv'
<1>1. /\ TypeOK /\ stack[t] # <<>> /\ Top(t).at = "gaveBack" /\ Top(t).at \in Owning
      /\ "pending" \in FiberStates
      /\ dirty \in [Fibers -> BOOLEAN] /\ "end" \in SetsOn
  BY DEF SetsOn, CoreInv, TypeOK, GaveBack, In, Owning, Started, Looking, Loads, Unloads,
         FiberStates
<1> PICK f : f = Top(t).f
  OBVIOUS
<1>2. UNCHANGED <<live, epoch, busy, disposed, attached, loaded>>
  BY DEF GaveBack, driver, calls
<1>3. f \in Fibers /\ PhaseFacts(Top(t)) /\ ComesBack(Top(t))
  BY <1>1, TopPhase DEF CallFacts
<1>4. PICK c : Step(t, c) /\ Announces(c, Top(t), "pending", "end")
  BY <1>1, GaveBackStep
<1>5. state' = IF Refuses(f, "pending") THEN state ELSE [state EXCEPT ![f] = "pending"]
  BY <1>1, GaveBackStep
<1>6. \A x \in Fibers \ {f} : dirty'[x] = dirty[x]
  BY <1>1 DEF GaveBack, driver, Self
<1>7. QED
  BY <1>1, <1>2, <1>3, <1>4, <1>5, <1>6, SetStatePhase

\* The places of the calls that tell others.
Tellers == {"names", "notify", "begin"}

\* The steps of the calls that neither drive a fiber nor tell others.
Serves(t) ==
    \/ ForceReload(t) \/ RemoveFiber(t) \/ Update(t) \/ Provide(t) \/ Register(t)
    \/ Refused(t) \/ Pin(t) \/ Tell(t) \/ Install(t) \/ RequestDispose(t)
    \/ EnterOnce(t) \/ Unregister(t) \/ Unpin(t) \/ Unlist(t)

\* Such a step drops no other call than a body, and makes no other call than
\* its failure.
Served(t, k, c) ==
    /\ Changes(t, k, c)
    /\ \A i \in 1..Len(stack[t]) :
          i > k => stack[t][i].at \notin (Owning \ {"run"}) \cup Tellers
    /\ \A g \in New(c) :
          Phaseless(g) \/ (g.at = "fail" /\ \E h \in Calls : h.at = "run" /\ h.f = g.f)

Plainly(c) == \A i \in 1..Len(c) : Phaseless(c[i])

LEMMA PlainlyShapes ==
    /\ \A c : IsNone(c) => Plainly(c)
    /\ \A c, g : IsOne(c, g) /\ Phaseless(g) => Plainly(c)
    /\ \A c, g, h : IsTwo(c, g, h) /\ Phaseless(g) /\ Phaseless(h) => Plainly(c)
    /\ \A c, h, at : Goes(c, h, at) /\ at \notin Owning \cup {"remove"} => Plainly(c)
    /\ \A c, at, f, b : StartsAt(c, at, f, b) /\ at \notin Owning \cup {"remove"} => Plainly(c)
    /\ \A c, f, n, l : Notifies(c, f, n, l) => Plainly(c)
<1>1. ASSUME NEW c, IsNone(c) PROVE Plainly(c)
  BY <1>1 DEF IsNone, Plainly
<1>2. ASSUME NEW c, NEW g, IsOne(c, g), Phaseless(g) PROVE Plainly(c)
  <2>1. \A i \in 1..Len(c) : c[i] = g
    BY <1>2 DEF IsOne
  <2>2. QED
    BY <1>2, <2>1 DEF Plainly
<1>3. ASSUME NEW c, NEW g, NEW h, IsTwo(c, g, h), Phaseless(g), Phaseless(h)
      PROVE  Plainly(c)
  <2>1. \A i \in 1..Len(c) : c[i] = g \/ c[i] = h
    BY <1>3 DEF IsTwo
  <2>2. QED
    BY <1>3, <2>1 DEF Plainly
<1>4. "notify" \notin Owning \cup {"remove"}
  BY OwningPlaces
<1>5. QED
  BY <1>1, <1>2, <1>3, <1>4 DEF Goes, StartsAt, Notifies, IsNotification, Moved, IsCall, Phaseless

LEMMA PhaselessPlaces ==
    \A at \in {"force", "begin", "names", "notify", "update", "provide", "register",
               "refused", "pin", "tell", "install", "unlist", "request", "once",
               "unregister", "unpin"} : at \notin Owning \cup {"remove"}
  BY OwningPlaces

LEMMA ServedPlainly ==
    ASSUME TypeOK, NEW t \in Threads, stack[t] # <<>>,
           Top(t).at \notin Owning \cup Tellers, NEW c, Step(t, c), Plainly(c)
    PROVE  \E k, d : Served(t, k, d)
<1>1. Len(stack[t]) \in Nat \ {0}
  BY TopTyping
<1>2. \A i \in 1..Len(stack[t]) : i > Len(stack[t]) - 1 => i = Len(stack[t])
  BY <1>1
<1>3. \A i \in 1..Len(stack[t]) :
         i > Len(stack[t]) - 1 => stack[t][i].at \notin (Owning \ {"run"}) \cup Tellers
  BY DEF Top
<1>4. Served(t, Len(stack[t]) - 1, c)
  BY <1>3 DEF Served, Step, Plainly, New
<1>5. QED
  BY <1>4

LEMMA ServedFails ==
    ASSUME TypeOK, NEW t \in Threads, stack[t] # <<>>,
           Top(t).at \notin Owning \cup Tellers, NEW c, Fails(t, c)
    PROVE  \E k, d : Served(t, k, d)
<1>1. CASE Step(t, c) /\ IsNone(c)
  BY <1>1, ServedPlainly, PlainlyShapes
<1>2. CASE ~(Step(t, c) /\ IsNone(c))
  <2> DEFINE n == Len(stack[t])
  <2>1. /\ n - 1 \in 1..n /\ Changes(t, n - 2, c) /\ stack[t][n - 1].at = "run"
        /\ stack[t][n - 1].f = Top(t).f /\ Goes(c, stack[t][n - 1], "fail")
    BY <1>2 DEF Fails
  <2>2. n \in Nat
    BY Typing
  <2>3. \A i \in 1..n : i > n - 2 => i = n - 1 \/ i = n
    BY <2>2
  <2>4. "run" \notin Tellers
    BY DEF Tellers
  <2>5. \A i \in 1..n : i > n - 2 => stack[t][i].at \notin (Owning \ {"run"}) \cup Tellers
    BY <2>1, <2>3, <2>4 DEF Top
  <2>6. stack[t][n - 1] \in Calls
    BY <2>1, CallsOf
  <2>7. \A g \in New(c) : g.at = "fail" /\ g.f = stack[t][n - 1].f
    BY <2>1, NewCalls DEF Goes, Moved
  <2>8. Served(t, n - 2, c)
    BY <2>1, <2>5, <2>6, <2>7 DEF Served
  <2>9. QED
    BY <2>8
<1>3. QED
  BY <1>1, <1>2

LEMMA ServedStep ==
    ASSUME CoreInv, NEW t \in Threads, Serves(t)
    PROVE  \E k, c : Served(t, k, c)
<1> USE PlainlyShapes, PhaselessPlaces
<1>1. /\ TypeOK /\ Nested /\ SlotsFit
      /\ stack[t] # <<>> =>
           (Top(t).at \in EntryCalls \cup {"update"} => Top(t).b \in Known)
      /\ \A at \in {"force", "remove", "update", "provide", "register", "refused", "pin",
                    "tell", "install", "unlist", "request", "once", "unregister", "unpin"} :
            at \notin Owning \cup Tellers
  <2>1. TypeOK /\ CallInv /\ BindInv
    BY DEF CoreInv
  <2>2. stack[t] # <<>> => CallFacts(Top(t))
    BY <2>1, TopFits
  <2>3. QED
    BY <2>1, <2>2, OwningPlaces DEF CallInv, BindInv, CallFacts, Tellers
<1>2. CASE ForceReload(t)
  <2>1. /\ stack[t] # <<>> /\ Top(t).at = "force"
        /\ \E c : Step(t, c) /\ Plainly(c)
    BY <1>1, <1>2, ForceReloadStep DEF IsAt
  <2>2. QED
    BY <1>1, <2>1, ServedPlainly
<1>3. CASE RemoveFiber(t)
  <2>1. /\ stack[t] # <<>> /\ Top(t).at = "remove"
        /\ \E c : Step(t, c) /\ Plainly(c)
    BY <1>1, <1>3, RemoveFiberStep DEF IsAt
  <2>2. QED
    BY <1>1, <2>1, ServedPlainly
<1>4. CASE Register(t)
  <2>1. /\ stack[t] # <<>> /\ Top(t).at = "register"
        /\ \E c : Step(t, c) /\ Plainly(c)
    BY <1>1, <1>4, RegisterStep DEF IsAt
  <2>2. QED
    BY <1>1, <2>1, ServedPlainly
<1>5. CASE Pin(t)
  <2>1. /\ stack[t] # <<>> /\ Top(t).at = "pin"
        /\ \E c : Step(t, c) /\ Plainly(c)
    BY <1>1, <1>5, PinStep DEF IsAt
  <2>2. QED
    BY <1>1, <2>1, ServedPlainly
<1>6. CASE Install(t)
  <2>1. /\ stack[t] # <<>> /\ Top(t).at = "install"
        /\ \E c : Step(t, c) /\ Plainly(c)
    BY <1>1, <1>6, InstallStep DEF IsAt
  <2>2. QED
    BY <1>1, <2>1, ServedPlainly
<1>7. CASE RequestDispose(t)
  <2>1. /\ stack[t] # <<>> /\ Top(t).at = "request"
        /\ \E c : Step(t, c) /\ Plainly(c)
    BY <1>1, <1>7, RequestDisposeStep DEF IsAt
  <2>2. QED
    BY <1>1, <2>1, ServedPlainly
<1>8. CASE EnterOnce(t)
  <2>1. /\ stack[t] # <<>> /\ Top(t).at = "once"
        /\ \E c : Step(t, c) /\ Plainly(c)
    BY <1>1, <1>8, EnterOnceStep DEF IsAt
  <2>2. QED
    BY <1>1, <2>1, ServedPlainly
<1>9. CASE Unpin(t)
  <2>1. /\ stack[t] # <<>> /\ Top(t).at = "unpin"
        /\ \E c : Step(t, c) /\ Plainly(c)
    BY <1>1, <1>9, UnpinStep DEF IsAt
  <2>2. QED
    BY <1>1, <2>1, ServedPlainly
<1>10. CASE Unlist(t)
  <2>1. /\ stack[t] # <<>> /\ Top(t).at = "unlist"
        /\ \E c : Step(t, c) /\ Plainly(c)
    BY <1>1, <1>10, UnlistStep DEF IsAt
  <2>2. QED
    BY <1>1, <2>1, ServedPlainly
<1>11. CASE Update(t)
  <2>1. stack[t] # <<>> /\ Top(t).at = "update"
    BY <1>11 DEF Update, In
  <2>2. Top(t).b \in Known
    BY <1>1, <2>1 DEF EntryCalls, Registering, Releasing, Claiming
  <2>3. \E c : Step(t, c) /\ Plainly(c)
    BY <1>1, <1>11, <2>2, UpdateStep DEF IsAt
  <2>4. QED
    BY <1>1, <2>1, <2>3, ServedPlainly
<1>12. CASE Tell(t)
  <2>1. stack[t] # <<>> /\ Top(t).at = "tell"
    BY <1>12 DEF Tell, In
  <2>2. Top(t).b \in Known
    BY <1>1, <2>1 DEF EntryCalls, Registering, Releasing, Claiming
  <2>3. \E c : Step(t, c) /\ Plainly(c)
    BY <1>1, <1>12, <2>2, TellStep DEF IsAt, Moved, IsNotification, IsCall, Phaseless
  <2>4. QED
    BY <1>1, <2>1, <2>3, ServedPlainly
<1>13. CASE Unregister(t)
  <2>1. stack[t] # <<>> /\ Top(t).at = "unregister"
    BY <1>13 DEF Unregister, In
  <2>2. Top(t).b \in Known
    BY <1>1, <2>1 DEF EntryCalls, Registering, Releasing, Claiming
  <2>3. \E c : Step(t, c) /\ Plainly(c)
    BY <1>1, <1>13, <2>2, UnregisterStep DEF IsAt, Moved, IsNotification, IsCall, Phaseless
  <2>4. QED
    BY <1>1, <2>1, <2>3, ServedPlainly
<1>14. CASE Refused(t)
  <2>1. stack[t] # <<>> /\ Top(t).at = "refused" /\ \E c : Fails(t, c)
    BY <1>1, <1>14, RefusedStep DEF IsAt
  <2>2. QED
    BY <1>1, <2>1, ServedFails
<1>15. CASE Provide(t)
  <2>1. /\ stack[t] # <<>> /\ Top(t).at = "provide"
        /\ \E c : \/ Fails(t, c)
                  \/ Step(t, c) /\ Plainly(c)
    BY <1>1, <1>15, ProvideStep DEF IsAt, IsAbout, Phaseless
  <2>2. QED
    BY <1>1, <2>1, ServedFails, ServedPlainly
<1>16. QED
  BY <1>2, <1>3, <1>4, <1>5, <1>6, <1>7, <1>8, <1>9, <1>10, <1>11, <1>12, <1>13, <1>14,
     <1>15
     DEF Serves

LEMMA SetLoadingPhase ==
    ASSUME CoreInv, PhaseInv, NEW t \in Threads, SetLoading(t)
    PROVE  PhaseInv'
<1>1. /\ TypeOK /\ stack[t] # <<>> /\ Top(t).at = "loading" /\ Top(t).at \in Owning
      /\ state \in [Fibers -> FiberStates]
  BY DEF CoreInv, TypeOK, SetLoading, In, Owning, Loads
<1> PICK f : f = Top(t).f
  OBVIOUS
<1>2. UNCHANGED <<live, epoch, busy, dirty, disposed, attached, loaded>>
  BY DEF SetLoading, driver, calls
<1>3. f \in Fibers /\ FiberPhase(f) /\ PhaseFacts(Top(t)) /\ live[f] /\ state[f] # "active"
  BY <1>1, TopPhase DEF PhaseFacts, Loads
<1>4. PICK c : /\ Step(t, c)
               /\ \/ state' = state /\ Opens(c, "end", f)
                  \/ state' = [state EXCEPT ![f] = "loading"]
                     /\ Leaves(c, Top(t), "recheck", Top(t).got)
  BY <1>1, SetLoadingStep
<1>5. state'[f] # "active" /\ \A x \in Fibers \ {f} : state'[x] = state[x]
  BY <1>1, <1>3, <1>4
<1>6. PICK g : IsOne(c, g) /\ g.f = f /\ g.at \in {"end", "recheck"}
  BY <1>4 DEF Opens, Leaves, IsCall, IsLeft
<1>7. PhaseFacts(g)'
  BY <1>2, <1>3, <1>5, <1>6
     DEF PhaseFacts, Owning, Started, Looking, Loads, Unloads
<1>8. \A i \in 1..Len(c) : PhaseFacts(c[i])'
  BY <1>6, <1>7 DEF IsOne
<1>9. FiberPhase(f)'
  BY <1>2, <1>3 DEF FiberPhase
<1>10. QED
  BY <1>1, <1>2, <1>4, <1>5, <1>8, <1>9, OwnerPhase

\* The calls from outside.
LEMMA RequestCalls ==
    ASSUME CoreInv, NEW t \in Threads, Request(t)
    PROVE  \E c : /\ Starts(t, c)
                  /\ \A g \in New(c) : Phaseless(g) \/ (g.at = "remove" /\ disposed'[g.f])
<1> USE PlainlyShapes, PhaselessPlaces
<1>1. TypeOK /\ disposed \in [Fibers -> BOOLEAN]
  BY DEF CoreInv, TypeOK
<1>2. ASSUME \E c : Starts(t, c) /\ Plainly(c)
      PROVE  \E c : /\ Starts(t, c)
                    /\ \A g \in New(c) : Phaseless(g) \/ (g.at = "remove" /\ disposed'[g.f])
  <2>1. PICK c : Starts(t, c) /\ Plainly(c)
    BY <1>2
  <2>2. ASSUME NEW g \in New(c) PROVE Phaseless(g)
    <3>1. PICK i \in 1..Len(c) : g = c[i]
      BY DEF New
    <3>2. QED
      BY <2>1, <3>1 DEF Plainly
  <2>3. QED
    BY <2>1, <2>2
<1>3. ASSUME NEW f \in Fibers, Load(t, f) PROVE \E c : Starts(t, c) /\ Plainly(c)
  BY <1>1, <1>3, LoadStep
<1>4. ASSUME NEW f \in Fibers, Restart(t, f) PROVE \E c : Starts(t, c) /\ Plainly(c)
  BY <1>1, <1>4, RestartStep
<1>5. ASSUME NEW f \in Fibers, Dispose(t, f)
      PROVE  \E c : Starts(t, c) /\ \A g \in New(c) : g.at = "remove" /\ disposed'[g.f]
  <2>1. disposed'[f]
    BY <1>1, <1>5 DEF Dispose
  <2>2. QED
    BY <1>1, <1>5, <2>1, DisposeStep, NewCalls DEF StartsAt, IsCall
<1>6. ASSUME NEW f \in Fibers, NEW n \in Names, ProvideAgain(t, f, n)
      PROVE  \E c : Starts(t, c) /\ Plainly(c)
  <2>1. PICK c : Starts(t, c) /\ \E g \in Frames : IsOne(c, g) /\ IsProvide(g, f, n)
    BY <1>1, <1>6, ProvideAgainStep
  <2>2. Plainly(c)
    BY <2>1 DEF IsProvide, IsCall, Phaseless
  <2>3. QED
    BY <2>1, <2>2
<1>7. ASSUME NEW f \in Fibers, NEW n \in Names, Set(t, f, n)
      PROVE  \E c : Starts(t, c) /\ Plainly(c)
  BY <1>1, <1>7, SetStep
<1>8. ASSUME NEW b \in Bindings, Withdraw(t, b) PROVE \E c : Starts(t, c) /\ Plainly(c)
  <2>1. b \in Known
    BY <1>8 DEF CoreInv, BindInv, EntryFacts, Withdraw
  <2>2. PICK c : Starts(t, c) /\ \E g, h \in Frames :
                   /\ IsTwo(c, g, h)
                   /\ IsCall(g, "unlist", made[b].provider, b)
                   /\ IsCall(h, "request", made[b].provider, b)
    BY <1>1, <1>8, <2>1, WithdrawStep
  <2>3. Plainly(c)
    BY <2>2 DEF IsCall, Phaseless
  <2>4. QED
    BY <2>2, <2>3
<1>9. QED
  BY <1>2, <1>3, <1>4, <1>5, <1>6, <1>7, <1>8 DEF Request

LEMMA RequestPhase ==
    ASSUME CoreInv, PhaseInv, NEW t \in Threads, Request(t)
    PROVE  PhaseInv'
<1>1. /\ TypeOK /\ disposed \in [Fibers -> BOOLEAN] /\ dirty \in [Fibers -> BOOLEAN]
  BY DEF CoreInv, TypeOK
<1>2. PICK c : /\ Starts(t, c)
               /\ \A g \in New(c) : Phaseless(g) \/ (g.at = "remove" /\ disposed'[g.f])
  BY RequestCalls
<1>3. UNCHANGED <<state, live, epoch, busy>>
  BY DEF Request, Load, Restart, Dispose, ProvideAgain, Set, Withdraw, generation, driver
<1>4. \A g : g.at = "remove" /\ disposed'[g.f] => PhaseFacts(g)'
  BY DEF PhaseFacts, Owning, Started, Looking, Loads, Unloads
<1>5. \A g \in Calls' : g \in Calls \/ Phaseless(g) \/ PhaseFacts(g)'
  BY <1>1, <1>2, <1>4, StartCalls
<1>6. \A x \in Fibers :
        /\ disposed[x] => disposed'[x]
        /\ dirty'[x] => dirty[x] \/ disposed'[x]
        /\ x \in attached => x \in attached'
        /\ x \in loaded' => x \in loaded \/ x \in attached'
  BY <1>1 DEF Request, Load, Restart, Dispose, ProvideAgain, Set, Withdraw, driver
<1>7. ASSUME NEW x \in Fibers PROVE FiberPhase(x)'
  <2>1. FiberPhase(x)
    BY DEF PhaseInv
  <2>2. QED
    BY <1>3, <1>6, <2>1 DEF FiberPhase
<1>8. QED
  BY <1>3, <1>5, <1>6, <1>7, CallerPhase

\* The other calls.
LEMMA ServedCalls ==
    ASSUME CoreInv, NEW t \in Threads, NEW k, NEW c, Served(t, k, c)
    PROVE  /\ \A g \in Calls' : \/ g \in Calls \/ Phaseless(g)
                                \/ g.at = "fail" /\ \E h \in Calls : h.at = "run" /\ h.f = g.f
           /\ \A g \in Calls : g.at \in Owning \ {"run"} => g \in Calls'
<1>1. TypeOK /\ Changes(t, k, c)
  BY DEF CoreInv, Served
<1>2. /\ Calls = Rest(t, k) \cup {stack[t][i] : i \in (k + 1)..Len(stack[t])}
      /\ Calls' = Rest(t, k) \cup New(c)
  BY <1>1, CallsStep
<1>3. \A i \in (k + 1)..Len(stack[t]) : i \in 1..Len(stack[t]) /\ i > k
  BY <1>1 DEF Changes
<1>4. QED
  BY <1>2, <1>3 DEF Served

LEMMA ServedPhase ==
    ASSUME CoreInv, PhaseInv, NEW t \in Threads, Serves(t)
    PROVE  PhaseInv'
<1>1. PICK k, c : Served(t, k, c)
  BY ServedStep
<1>2. UNCHANGED <<state, live, epoch, busy, dirty, disposed, loaded>>
  BY DEF Serves, ForceReload, RemoveFiber, Update, Provide, Register, Refused, Pin, Tell,
         Install, RequestDispose, EnterOnce, Unregister, Unpin, Unlist, generation,
         driver, calls
<1>3. \A g, h : g.at = "fail" /\ h.at = "run" /\ h.f = g.f /\ PhaseFacts(h) => PhaseFacts(g)'
  BY <1>2 DEF PhaseFacts, Owning, Started, Looking, Loads, Unloads
<1>4. \A g \in Calls' : g \in Calls \/ Phaseless(g) \/ PhaseFacts(g)'
  BY <1>1, <1>3, ServedCalls DEF PhaseInv
<1>5. \A x \in Fibers : x \in attached => x \in attached' \/ disposed[x]
  <2>1. ASSUME RemoveFiber(t) PROVE attached' = attached \ {Top(t).f} /\ disposed[Top(t).f]
    <3>1. stack[t] # <<>> /\ Top(t).at = "remove"
      BY <2>1 DEF RemoveFiber, In
    <3>2. QED
      BY <2>1, <3>1, TopPhase DEF RemoveFiber, Self, PhaseFacts
  <2>2. ~RemoveFiber(t) => attached' = attached
    BY DEF Serves, ForceReload, Update, Provide, Register, Refused, Pin, Tell,
         Install, RequestDispose, EnterOnce, Unregister, Unpin, Unlist
  <2>3. QED
    BY <2>1, <2>2
<1>6. ASSUME NEW x \in Fibers PROVE FiberPhase(x)'
  <2>1. FiberPhase(x)
    BY DEF PhaseInv
  <2>2. QED
    BY <1>2, <1>5, <2>1 DEF FiberPhase
<1>7. QED
  BY <1>2, <1>4, <1>6, CallerPhase

LEMMA NotifiedPhase ==
    ASSUME CoreInv, PhaseInv, NEW t \in Threads, Notify(t) \/ NotifyProvided(t)
    PROVE  PhaseInv'
<1>1. TypeOK /\ SlotsFit /\ stack[t] # <<>>
  BY DEF CoreInv, BindInv, Notify, NotifyProvided, In
<1>2. \E c : Step(t, c) /\ \A i \in 1..Len(c) : c[i].at \in {"begin", "notify"}
  <2>1. CASE Notify(t)
    BY <1>1, <2>1, NotifyBegins
  <2>2. CASE NotifyProvided(t)
    <3>1. PICK c : Step(t, c) /\ \A i \in 1..Len(c) : \E n \in Provided(Top(t).f) :
                      IsNotification(c[i], Top(t).f, n, Scope[Top(t).f][n])
      BY <1>1, <2>2, NotifyProvidedStep
    <3>2. \A i \in 1..Len(c) : c[i].at = "notify"
      BY <3>1 DEF IsNotification, IsCall
    <3>3. QED
      BY <3>1, <3>2
  <2>3. QED
    BY <2>1, <2>2
<1>3. UNCHANGED <<state, live, epoch, busy, dirty, disposed, attached, loaded>>
  BY DEF Notify, NotifyProvided, generation, driver, calls
<1> PICK c : Step(t, c) /\ \A i \in 1..Len(c) : c[i].at \in {"begin", "notify"}
  BY <1>2
<1>4. \A g \in New(c) : Phaseless(g)
  BY PhaselessPlaces DEF New, Phaseless
<1>5. \A g \in Calls' : g \in Calls \/ Phaseless(g)
  BY <1>1, <1>4, StepCalls
<1>6. ASSUME NEW x \in Fibers PROVE FiberPhase(x)'
  BY <1>3 DEF PhaseInv, FiberPhase
<1>7. QED
  BY <1>3, <1>5, <1>6, CallerPhase

LEMMA PhaseSame ==
    ASSUME CoreInv, PhaseInv, UNCHANGED <<generation, driver, attached, loaded, stack>>
    PROVE  PhaseInv'
<1>1. UNCHANGED <<state, live, epoch, busy, dirty, disposed>> /\ Calls' = Calls
  BY DEF Calls, generation, driver
<1>2. ASSUME NEW x \in Fibers PROVE FiberPhase(x)'
  BY <1>1 DEF PhaseInv, FiberPhase
<1>3. QED
  BY <1>1, <1>2, CallerPhase

LEMMA PhaseInit == Init => PhaseInv
<1> SUFFICES ASSUME Init PROVE PhaseInv
  OBVIOUS
<1>1. Calls = {}
  BY DEF Init, Calls
<1>2. \A f \in Fibers : FiberPhase(f)
  BY DEF Init, None, FiberPhase
<1>3. QED
  BY <1>1, <1>2 DEF PhaseInv

LEMMA PhaseNext ==
    ASSUME CoreInv, PhaseInv, [Next]_vars
    PROVE  PhaseInv'
<1>1. ASSUME NEW t \in Threads, Request(t) PROVE PhaseInv'
  BY <1>1, RequestPhase
<1>2. ASSUME NEW t \in Threads, Driving(t) PROVE PhaseInv'
  BY <1>2, ServedPhase, BeginTransitionPhase, BeginPassPhase, EndPassPhase, SyncPhase,
     FetchPhase, CheckPhase, ProbePhase, ApplyUnloadPhase, ReloadPhase DEF Driving, Serves
<1>3. ASSUME NEW t \in Threads, Generating(t) PROVE PhaseInv'
  BY <1>3, LoadGenerationPhase, SetLoadingPhase, RecheckPhase, ReprobePhase, GiveBackPhase,
     GaveBackPhase, CommitPhase, RunBodyPhase, ActivatePhase, SetActivePhase, FailPhase,
     SetFailedPhase, UnloadPhase, SetUnloadingPhase, ClearPhase, UnloadedPhase,
     SetPendingPhase, FinalizeDisposePhase DEF Generating
<1>4. ASSUME NEW t \in Threads, Serving(t) PROVE PhaseInv'
  BY <1>4, ServedPhase, NotifiedPhase DEF Serving, Serves
<1>5. ASSUME NEW b \in Bindings, Waver(b) PROVE PhaseInv'
  BY <1>5, PhaseSame DEF Waver
<1>6. CASE UNCHANGED vars
  BY <1>6, PhaseSame DEF vars, calls
<1>7. QED
  BY <1>1, <1>2, <1>3, <1>4, <1>5, <1>6 DEF Next, Proceed, Stop

LEMMA PhaseAlways == Spec => []PhaseInv
<1>1. Init => PhaseInv
  BY PhaseInit
<1>2. CoreInv /\ PhaseInv /\ [Next]_vars => PhaseInv'
  BY PhaseNext
<1>3. QED
  BY <1>1, <1>2, CoreAlways, PTL DEF Spec

----------------------------------------------------------------------------
(* Changes on their way.                                                    *)

\* What f may rest on: a binding it can have found for a name it injects.
Wants(f, b) ==
    /\ f \in loaded /\ b \in Known /\ Seen(b)
    /\ made[b].name \in ToSet(Inject[f])
    /\ made[b].label = Scope[f][made[b].name]

\* A step leaves nobody behind who may rest on a binding it changes.
Warned(f) ==
    \A b \in Known : Wants(f, b) =>
        /\ (Down(b) => Reached(f, b)) /\ Down(b)' => Reached(f, b)'
        /\ (~InSlot(b) => Reached(f, b)) /\ ~InSlot(b)' => Reached(f, b)'

\* The epoch of f is in place, or somebody will mend it.
FiberCurrent(f) ==
    \A b \in epoch[f] \ Inactive : Down(b) => Reached(f, b) \/ Replacing(f)

\* The calls that tell f go on when the step drops none of them.
LEMMA ToldKept ==
    ASSUME TypeOK, NEW t \in Threads, NEW k, NEW c, Changes(t, k, c), NEW f, NEW b,
           made'[b] = made[b], InSlot(b)' <=> InSlot(b),
           \A i \in 1..Len(stack[t]) : i > k => ~Tells(stack[t][i], f, b),
           Told(f, b)
    PROVE  Told(f, b)'
<1>1. PICK u \in Threads : \E i, j \in 1..Len(stack[u]) :
         i < j /\ Waits(stack[u][i], b) /\ Tells(stack[u][j], f, b)
  BY DEF Told
<1>2. PICK i \in 1..Len(stack[u]), j \in 1..Len(stack[u]) :
         i < j /\ Waits(stack[u][i], b) /\ Tells(stack[u][j], f, b)
  BY <1>1
<1> PICK g, h : g = stack[u][i] /\ h = stack[u][j]
  OBVIOUS
<1>3. Len(stack[u]) \in Nat
  BY Typing
<1>4. u = t => j <= k
  BY <1>2 DEF Changes
<1>5. /\ i \in 1..Len(stack'[u]) /\ j \in 1..Len(stack'[u])
      /\ stack'[u][i] = g /\ stack'[u][j] = h
  <2>1. CASE u = t
    <3>1. i \in 1..k /\ j \in 1..k /\ Len(stack'[t]) = k + Len(c) /\ Len(c) \in Nat /\ k \in Nat
      BY <1>2, <1>3, <1>4, <2>1 DEF Changes
    <3>2. QED
      BY <2>1, <3>1 DEF Changes
  <2>2. CASE u # t
    BY <2>2 DEF Changes
  <2>3. QED
    BY <2>1, <2>2
<1>6. Waits(g, b)' /\ Tells(h, f, b)'
  BY <1>2 DEF Waits, Tells
<1>7. QED
  BY <1>2, <1>5, <1>6 DEF Told

\* ... or hands its part on.
LEMMA ToldHandedOn ==
    ASSUME TypeOK, NEW t \in Threads, stack[t] # <<>>, NEW c, Step(t, c), NEW f, NEW b,
           made'[b] = made[b], InSlot(b)' <=> InSlot(b),
           NEW m \in 1..Len(c), Tells(c[m], f, b)',
           Told(f, b)
    PROVE  Told(f, b)'
<1> PICK k : k = Len(stack[t]) - 1
  OBVIOUS
<1>1. PICK u \in Threads : \E i, j \in 1..Len(stack[u]) :
         i < j /\ Waits(stack[u][i], b) /\ Tells(stack[u][j], f, b)
  BY DEF Told
<1>2. PICK i \in 1..Len(stack[u]), j \in 1..Len(stack[u]) :
         i < j /\ Waits(stack[u][i], b) /\ Tells(stack[u][j], f, b)
  BY <1>1
<1>3. Len(stack[u]) \in Nat /\ Len(stack[t]) \in Nat \ {0} /\ Changes(t, k, c)
  BY Typing DEF Step
<1>4. CASE u = t /\ j = Len(stack[t])
  <2> PICK g, h : g = stack[t][i] /\ h = c[m]
    OBVIOUS
  <2>1. /\ i \in 1..k /\ Len(stack'[t]) = k + Len(c) /\ Len(c) \in Nat /\ k \in Nat
        /\ i \in 1..Len(stack'[t]) /\ k + m \in 1..Len(stack'[t]) /\ i < k + m
    BY <1>2, <1>3, <1>4 DEF Changes
  <2>2. stack'[t][i] = g /\ stack'[t][k + m] = h
    BY <1>3, <2>1 DEF Changes
  <2>3. Waits(g, b)'
    BY <1>2, <1>4 DEF Waits
  <2>4. Tells(h, f, b)'
    BY DEF Tells
  <2>5. QED
    BY <2>1, <2>2, <2>3 DEF Told
<1>5. CASE u # t \/ j # Len(stack[t])
  <2> PICK g, h : g = stack[u][i] /\ h = stack[u][j]
    OBVIOUS
  <2>1. /\ i \in 1..Len(stack'[u]) /\ j \in 1..Len(stack'[u])
        /\ stack'[u][i] = g /\ stack'[u][j] = h
    <3>1. CASE u = t
      <4>1. i \in 1..k /\ j \in 1..k /\ Len(stack'[t]) = k + Len(c) /\ Len(c) \in Nat /\ k \in Nat
        BY <1>2, <1>3, <1>5, <3>1 DEF Changes
      <4>2. QED
        BY <1>3, <3>1, <4>1 DEF Changes
    <3>2. CASE u # t
      BY <1>3, <3>2 DEF Changes
    <3>3. QED
      BY <3>1, <3>2
  <2>2. Waits(g, b)' /\ Tells(h, f, b)'
    BY <1>2 DEF Waits, Tells
  <2>3. QED
    BY <1>2, <2>1, <2>2 DEF Told
<1>6. QED
  BY <1>4, <1>5

LEMMA TellersTell ==
    ASSUME NEW g, g.at \notin Tellers, NEW f, NEW b
    PROVE  ~Tells(g, f, b)
  BY DEF Tells, Tellers

\* What the calls under way and the epochs hold.
LEMMA CallWants ==
    ASSUME CoreInv, GenerationInv, NEW g \in Calls
    PROVE  /\ g.at \in Looking \cup Loads => \A b \in g.got : Wants(g.f, b)
           /\ g.at \in {"check", "probe"} => Wants(g.f, g.b)
<1>1. CallFacts(g) /\ LookFacts(g)
  BY DEF CoreInv, BindInv, GenerationInv, GenerationFacts
<1>2. /\ g \in Frames /\ g.f \in loaded /\ g.got \subseteq Known /\ \A b \in g.got : Seen(b)
      /\ g.at \in {"check", "probe"} => g.b \in Known /\ Seen(g.b) /\ g.queue # <<>>
  BY <1>1, FoundIsKnown DEF CallFacts, LookedUp
<1>3. ASSUME g.at \in Looking \cup Loads PROVE \A b \in g.got : Wants(g.f, b)
  <2>1. Fits(g.f, g.got)
    BY <1>1, <1>3 DEF LookFacts, Resolves
  <2>2. QED
    BY <1>2, <2>1 DEF Fits, Wants
<1>4. ASSUME g.at \in {"check", "probe"} PROVE Wants(g.f, g.b)
  <2>1. /\ made[g.b].name = Head(g.queue) /\ made[g.b].label = Scope[g.f][Head(g.queue)]
        /\ ToSet(g.queue) \subseteq ToSet(Inject[g.f])
    BY <1>1, <1>4 DEF LookFacts, Looking
  <2>2. Head(g.queue) \in ToSet(g.queue)
    BY <1>2, <1>4, QueueParts DEF Frames
  <2>3. QED
    BY <1>2, <1>4, <2>1, <2>2 DEF Wants
<1>5. QED
  BY <1>3, <1>4

LEMMA EpochWants ==
    ASSUME CoreInv, GenerationInv, NEW f \in Fibers, NEW b \in epoch[f] \ Inactive
    PROVE  Wants(f, b)
<1>1. FiberFacts(f) /\ SnapshotFacts(f)
  BY DEF CoreInv, BindInv, GenerationInv
<1>2. epoch[f] # Inactive
  OBVIOUS
<1>3. f \in loaded /\ Seen(b) /\ Fits(f, epoch[f])
  BY <1>1 DEF FiberFacts, SnapshotFacts
<1>4. QED
  BY <1>3 DEF Wants, Seen, Fits

LEMMA CurrentKept ==
    ASSUME CoreInv, GenerationInv, NEW g \in Calls, CurrentFacts(g), Warned(g.f)
    PROVE  CurrentFacts(g)'
<1>1. ASSUME g.at \in Looking \cup Loads, NEW b \in g.got, Down(b)' PROVE Reached(g.f, b)'
  <2>1. Wants(g.f, b)
    BY <1>1, CallWants
  <2>2. b \in Known
    BY <2>1 DEF Wants
  <2>3. QED
    BY <1>1, <2>1, <2>2 DEF Warned, CurrentFacts
<1>2. ASSUME g.at \in {"check", "probe"}
      PROVE  /\ g.at = "check" /\ ~InSlot(g.b)' => Reached(g.f, g.b)'
             /\ g.at = "probe" /\ Down(g.b)' => Reached(g.f, g.b)'
  <2>1. Wants(g.f, g.b)
    BY <1>2, CallWants
  <2>2. g.b \in Known
    BY <2>1 DEF Wants
  <2>3. QED
    BY <1>2, <2>1, <2>2 DEF Warned, CurrentFacts
<1>3. QED
  BY <1>1, <1>2 DEF CurrentFacts

\* A step changes the calls of one goroutine; the fibers of E are looked after.
LEMMA CurrentStep ==
    ASSUME CoreInv, GenerationInv, CurrentInv,
           NEW t \in Threads, NEW k, NEW c, Changes(t, k, c), NEW E,
           \A x \in Fibers \ E : Warned(x) /\ epoch'[x] = epoch[x],
           \A g \in Rest(t, k) : g.f \in E => g.at \notin Looking \cup Loads,
           \A i \in 1..Len(stack[t]) : i > k /\ Replaces(stack[t][i]) => stack[t][i].f \in E,
           \A g \in New(c) : CurrentFacts(g)',
           \A x \in E : FiberCurrent(x)'
    PROVE  CurrentInv'
<1>1. TypeOK
  BY DEF CoreInv
<1>2. /\ Calls = Rest(t, k) \cup {stack[t][i] : i \in (k + 1)..Len(stack[t])}
      /\ Calls' = Rest(t, k) \cup New(c)
  BY <1>1, CallsStep
<1>3. ASSUME NEW g \in Rest(t, k) PROVE CurrentFacts(g)'
  <2>1. g \in Calls /\ CurrentFacts(g) /\ g.f \in Fibers
    BY <1>2, FoundIsKnown DEF CurrentInv
  <2>2. CASE g.f \in E
    BY <2>2 DEF CurrentFacts, Looking
  <2>3. CASE g.f \notin E
    BY <2>1, <2>3, CurrentKept
  <2>4. QED
    BY <2>2, <2>3
<1>4. ASSUME NEW x \in Fibers \ E PROVE FiberCurrent(x)'
  <2>1. ASSUME NEW b \in epoch[x] \ Inactive, Down(b)'
        PROVE  Reached(x, b)' \/ Replacing(x)'
    <3>1. Wants(x, b) /\ b \in Known
      BY EpochWants DEF Wants
    <3>2. CASE Replacing(x)
      <4>1. PICK g \in Calls : g.f = x /\ Replaces(g)
        BY <3>2 DEF Replacing
      <4>2. g \in Rest(t, k)
        <5>1. SUFFICES ASSUME NEW i \in (k + 1)..Len(stack[t]), g = stack[t][i] PROVE FALSE
          BY <1>2
        <5>2. i \in 1..Len(stack[t]) /\ i > k
          BY Typing DEF Changes
        <5>3. QED
          BY <4>1, <5>1, <5>2
      <4>3. g \in Calls'
        BY <1>2, <4>2
      <4>4. QED
        BY <4>1, <4>3 DEF Replacing, Replaces
    <3>3. CASE ~Replacing(x)
      <4>1. Down(b) => Reached(x, b)
        BY <3>3 DEF CurrentInv
      <4>2. QED
        BY <2>1, <3>1, <4>1 DEF Warned
    <3>4. QED
      BY <3>2, <3>3
  <2>2. QED
    BY <2>1 DEF FiberCurrent
<1>5. \A g \in Calls' : CurrentFacts(g)'
  BY <1>2, <1>3
<1>6. \A x \in Fibers : FiberCurrent(x)'
  BY <1>4
<1>7. QED
  BY <1>5, <1>6 DEF CurrentInv, FiberCurrent

\* The flags of x stay up, and so does what tells it.
LEMMA WarnedBy ==
    ASSUME NEW x \in Fibers,
           dirty[x] => dirty'[x] \/ disposed'[x], disposed[x] => disposed'[x],
           \A b \in Known : Wants(x, b) =>
              \/ Reached(x, b)'
              \/ /\ InSlot(b)' <=> InSlot(b)
                 /\ Down(b)' => Down(b)
                 /\ Told(x, b) => Reached(x, b)'
    PROVE  Warned(x)
<1>1. ASSUME NEW b \in Known, Wants(x, b), Reached(x, b), ~Reached(x, b)'
      PROVE  Told(x, b) /\ ~(Told(x, b) => Reached(x, b)')
  BY <1>1 DEF Reached
<1>2. ASSUME NEW b \in Known, Wants(x, b), ~Reached(x, b)'
      PROVE  (InSlot(b)' <=> InSlot(b)) /\ (Down(b)' => Down(b)) /\ ~Reached(x, b)
  BY <1>1, <1>2
<1>3. QED
  BY <1>2 DEF Warned

\* No teller returns, and no fiber changes.
LEMMA QuietlyTold ==
    ASSUME TypeOK, NEW t \in Threads, NEW k, NEW c, Changes(t, k, c),
           \A i \in 1..Len(stack[t]) : i > k => stack[t][i].at \notin Tellers,
           UNCHANGED <<slot, made, state, dirty, disposed>>, NEW x, NEW b
    PROVE  /\ InSlot(b)' <=> InSlot(b)
           /\ Down(b)' <=> Down(b)
           /\ Reached(x, b) => Reached(x, b)'
<1>1. (InSlot(b)' <=> InSlot(b)) /\ (Down(b)' <=> Down(b))
  BY DEF InSlot, Down
<1>2. Told(x, b) => Told(x, b)'
  BY <1>1, TellersTell, ToldKept
<1>3. QED
  BY <1>1, <1>2 DEF Reached

LEMMA QuietlyWarned ==
    ASSUME TypeOK, NEW t \in Threads, NEW k, NEW c, Changes(t, k, c),
           \A i \in 1..Len(stack[t]) : i > k => stack[t][i].at \notin Tellers,
           UNCHANGED <<slot, made, state, dirty, disposed>>, NEW x
    PROVE  Warned(x)
  BY QuietlyTold DEF Warned

\* What the driver of a fiber knows when it is not going to look.
LEMMA OwnerEpoch ==
    ASSUME CoreInv, CurrentInv, NEW t \in Threads, stack[t] # <<>>, Top(t).at \in Owning,
           ~Replaces(Top(t)), NEW f, f = Top(t).f
    PROVE  \A b \in epoch[f] \ Inactive : Down(b) => Reached(f, b)
<1>1. TypeOK /\ OneOwner /\ f \in Fibers
  BY TopTyping DEF CoreInv, CallInv, Frames
<1>2. Calls = Others(t) \cup {Top(t)}
  <2>1. Top(t) \in Calls /\ Others(t) \subseteq Calls
    BY <1>1, TopTyping, CallsOf DEF Others, Rest
  <2>2. ASSUME NEW g \in Calls PROVE g \in Others(t) \cup {Top(t)}
    <3>1. PICK u \in Threads : \E i \in 1..Len(stack[u]) : g = stack[u][i]
      BY CallsOf
    <3>2. PICK i \in 1..Len(stack[u]) : g = stack[u][i]
      BY <3>1
    <3>3. Len(stack[u]) \in Nat
      BY <1>1
    <3>4. u = t /\ i > Len(stack[t]) - 1 => i = Len(stack[t])
      BY <3>3
    <3>5. QED
      BY <3>2, <3>3 DEF Others, Rest, Top
  <2>3. QED
    BY <2>1, <2>2
<1>3. \A g \in Calls : Replaces(g) => g.at \in Owning
  BY DEF Replaces, Owning
<1>4. ~Replacing(f)
  BY <1>1, <1>2, <1>3, OwnerAlone DEF Replacing
<1>5. QED
  BY <1>1, <1>4 DEF CurrentInv

LEMMA OwnerTells == Owning \cap Tellers = {}
  BY OwningPlaces DEF Tellers

\* A step of the driver of f, which looks after f.
LEMMA OwnerCurrent ==
    ASSUME CoreInv, GenerationInv, CurrentInv, NEW t \in Threads, stack[t] # <<>>,
           NEW c, Step(t, c), Top(t).at \in Owning, NEW f, f = Top(t).f,
           \A x \in Fibers \ {f} : Warned(x) /\ epoch'[x] = epoch[x],
           \A g \in New(c) : CurrentFacts(g)', FiberCurrent(f)'
    PROVE  CurrentInv'
<1>1. TypeOK /\ OneOwner
  BY DEF CoreInv, CallInv
<1>2. \A g \in Others(t) : g.f = f => g.at \notin Owning
  BY <1>1, OwnerAlone
<1> PICK E : E = {f}
  OBVIOUS
<1>3. \A g \in Rest(t, Len(stack[t]) - 1) : g.f \in E => g.at \notin Looking \cup Loads
  BY <1>2 DEF Others, Owning
<1>4. \A i \in 1..Len(stack[t]) : i > Len(stack[t]) - 1 => stack[t][i] = Top(t)
  BY <1>1 DEF Top
<1>5. \A i \in 1..Len(stack[t]) :
         i > Len(stack[t]) - 1 /\ Replaces(stack[t][i]) => stack[t][i].f \in E
  BY <1>4
<1>6. /\ \A x \in E : FiberCurrent(x)'
      /\ \A x \in Fibers \ E : Warned(x) /\ epoch'[x] = epoch[x]
  OBVIOUS
<1>7. Changes(t, Len(stack[t]) - 1, c)
  BY DEF Step
<1>8. QED
  BY <1>1, <1>3, <1>5, <1>6, <1>7, CurrentStep

\* ... and leaves the services and the flags alone.
LEMMA QuietCurrent ==
    ASSUME CoreInv, GenerationInv, CurrentInv, NEW t \in Threads, stack[t] # <<>>,
           NEW c, Step(t, c), Top(t).at \in Owning, NEW f, f = Top(t).f,
           UNCHANGED <<slot, made, state, dirty, disposed>>,
           \A x \in Fibers \ {f} : epoch'[x] = epoch[x],
           \A g \in New(c) : CurrentFacts(g),
           \/ \E g \in New(c) : g.f = f /\ Replaces(g)
           \/ \A b \in epoch'[f] \ Inactive : Down(b) => Reached(f, b)
    PROVE  CurrentInv'
<1>1. TypeOK /\ Changes(t, Len(stack[t]) - 1, c)
  BY DEF CoreInv, Step
<1>2. \A i \in 1..Len(stack[t]) : i > Len(stack[t]) - 1 => stack[t][i].at \notin Tellers
  <2>1. \A i \in 1..Len(stack[t]) : i > Len(stack[t]) - 1 => stack[t][i] = Top(t)
    BY <1>1 DEF Top
  <2>2. QED
    BY <2>1, OwnerTells
<1>3. \A x \in Fibers : Warned(x)
  BY <1>1, <1>2, QuietlyWarned
<1>4. \A x, b : /\ InSlot(b)' <=> InSlot(b)
                /\ Down(b)' <=> Down(b)
                /\ Reached(x, b) => Reached(x, b)'
  BY <1>1, <1>2, QuietlyTold
<1>5. \A g \in New(c) : CurrentFacts(g)'
  BY <1>4 DEF CurrentFacts
<1>6. FiberCurrent(f)'
  <2>1. CASE \E g \in New(c) : g.f = f /\ Replaces(g)
    <3>1. PICK g \in New(c) : g.f = f /\ Replaces(g)
      BY <2>1
    <3>2. g \in Calls'
      BY <1>1, CallsStep
    <3>3. Replacing(f)'
      BY <3>1, <3>2 DEF Replacing, Replaces
    <3>4. QED
      BY <3>3 DEF FiberCurrent
  <2>2. CASE \A b \in epoch'[f] \ Inactive : Down(b) => Reached(f, b)
    BY <1>4, <2>2 DEF FiberCurrent
  <2>3. QED
    BY <2>1, <2>2
<1>7. QED
  BY <1>3, <1>5, <1>6, OwnerCurrent

\* The driver goes on to a place that is not a look.
LEMMA GoesOnCurrent ==
    ASSUME CoreInv, GenerationInv, CurrentInv, NEW t \in Threads, stack[t] # <<>>,
           NEW c, Step(t, c), Top(t).at \in Owning,
           UNCHANGED <<slot, made, state, epoch, dirty, disposed>>,
           \A g \in New(c) : g.at \notin Looking \cup Loads,
           Replaces(Top(t)) =>
              disposed[Top(t).f] \/ \E g \in New(c) : g.f = Top(t).f /\ Replaces(g)
    PROVE  CurrentInv'
<1> PICK f : f = Top(t).f
  OBVIOUS
<1>1. \A g \in New(c) : CurrentFacts(g)
  BY DEF CurrentFacts, Looking
<1>2. CASE \E g \in New(c) : g.f = f /\ Replaces(g)
  BY <1>1, <1>2, QuietCurrent
<1>3. CASE disposed[f]
  BY <1>1, <1>3, QuietCurrent DEF Reached
<1>4. CASE ~Replaces(Top(t))
  BY <1>1, <1>4, OwnerEpoch, QuietCurrent
<1>5. QED
  BY <1>2, <1>3, <1>4

LEMMA GoesOnOne ==
    ASSUME CoreInv, GenerationInv, CurrentInv, NEW t \in Threads, stack[t] # <<>>,
           NEW c, Step(t, c), Top(t).at \in Owning,
           UNCHANGED <<slot, made, state, epoch, dirty, disposed>>,
           NEW g, IsOne(c, g), g.at \notin Looking \cup Loads,
           Replaces(Top(t)) => disposed[Top(t).f] \/ (g.f = Top(t).f /\ Replaces(g))
    PROVE  CurrentInv'
  BY NewCalls, GoesOnCurrent

\* ... or to a look, or a load, that knows no more than the one before.
LEMMA LooksOnCurrent ==
    ASSUME CoreInv, GenerationInv, CurrentInv, NEW t \in Threads, stack[t] # <<>>,
           NEW c, Step(t, c), Top(t).at \in Owning,
           UNCHANGED <<slot, made, state, dirty, disposed>>,
           \A x \in Fibers \ {Top(t).f} : epoch'[x] = epoch[x],
           NEW g, IsOne(c, g), g.f = Top(t).f, Replaces(g), CurrentFacts(g)
    PROVE  CurrentInv'
<1> PICK f : f = Top(t).f
  OBVIOUS
<1>1. New(c) = {g}
  BY NewCalls
<1>2. QED
  BY <1>1, QuietCurrent

LEMMA TopCurrent ==
    ASSUME CoreInv, PhaseInv, CurrentInv, NEW t \in Threads, stack[t] # <<>>
    PROVE  /\ TypeOK /\ BindInv /\ Top(t) \in Calls /\ Top(t).f \in Fibers
           /\ PhaseFacts(Top(t)) /\ CallFacts(Top(t)) /\ CurrentFacts(Top(t))
  BY TopPhase DEF CurrentInv

LEMMA SyncCurrent ==
    ASSUME CoreInv, GenerationInv, PhaseInv, CurrentInv, NEW t \in Threads, Sync(t)
    PROVE  CurrentInv'
<1>1. TypeOK /\ stack[t] # <<>> /\ Top(t).at = "sync" /\ Top(t).at \in Owning
  BY DEF CoreInv, Sync, In, Owning
<1>2. UNCHANGED <<slot, made, state, epoch, dirty, disposed>>
  BY DEF Sync, registry, generation
<1>3. PICK c : /\ Step(t, c)
               /\ \/ disposed[Top(t).f] /\ Unloads1(c, Top(t).f, "end")
                  \/ Unloads1(c, Top(t).f, "reload")
                  \/ Looks(c, Top(t).f, "end")
  BY <1>1, SyncStep
<1>4. CASE Looks(c, Top(t).f, "end")
  <2>1. PICK g : IsOne(c, g) /\ g.f = Top(t).f /\ g.at = "fetch" /\ g.got = {}
    BY <1>4 DEF Looks, IsLook
  <2>2. Replaces(g) /\ CurrentFacts(g)
    BY <2>1 DEF Replaces, CurrentFacts, Looking
  <2>3. QED
    BY <1>1, <1>2, <1>3, <2>1, <2>2, LooksOnCurrent
<1>5. CASE ~Looks(c, Top(t).f, "end")
  <2>1. PICK g : /\ IsOne(c, g) /\ g.f = Top(t).f /\ g.at = "unload"
                 /\ disposed[Top(t).f] \/ g.cont = "reload"
    BY <1>3, <1>5 DEF Unloads1, IsCall
  <2>2. g.at \notin Looking \cup Loads /\ (g.cont = "reload" => Replaces(g))
    BY <2>1 DEF Replaces, Looking, Loads, Unloads
  <2>3. QED
    BY <1>1, <1>2, <1>3, <2>1, <2>2, GoesOnOne
<1>6. QED
  BY <1>4, <1>5

LEMMA EndPassCurrent ==
    ASSUME CoreInv, GenerationInv, PhaseInv, CurrentInv, NEW t \in Threads, EndPass(t)
    PROVE  CurrentInv'
<1>1. TypeOK /\ stack[t] # <<>> /\ Top(t).at = "end" /\ Top(t).at \in Owning
  BY DEF CoreInv, EndPass, In, Owning
<1>2. UNCHANGED <<slot, made, state, epoch, dirty, disposed>>
  BY DEF EndPass, registry, generation
<1>3. PICK c : Step(t, c) /\ (Opens(c, "pass", Top(t).f) \/ IsNone(c))
  BY <1>1, EndPassStep
<1>4. \A g \in New(c) : g.at \notin Looking \cup Loads
  <2>1. CASE IsNone(c)
    BY <2>1, NewCalls
  <2>2. CASE Opens(c, "pass", Top(t).f)
    BY <2>2, NewCalls DEF Opens, IsCall, Looking, Loads
  <2>3. QED
    BY <1>3, <2>1, <2>2
<1>5. ~Replaces(Top(t))
  BY <1>1 DEF Replaces, Looking, Loads, Unloads
<1>6. QED
  BY <1>1, <1>2, <1>3, <1>4, <1>5, GoesOnCurrent

LEMMA RunBodyCurrent ==
    ASSUME CoreInv, GenerationInv, PhaseInv, CurrentInv, NEW t \in Threads, RunBody(t)
    PROVE  CurrentInv'
<1>1. TypeOK /\ stack[t] # <<>> /\ Top(t).at = "run" /\ Top(t).at \in Owning
  BY DEF CoreInv, RunBody, In, Owning, Started
<1>2. UNCHANGED <<slot, made, state, epoch, dirty, disposed>>
  BY DEF RunBody, registry, generation, driver
<1>3. PICK c : /\ Step(t, c)
               /\ \/ \E g, k \in Frames : /\ IsTwo(c, g, k) /\ g.at = "run"
                                          /\ IsProvide(k, Top(t).f, Head(Top(t).queue))
                  \/ Goes(c, Top(t), "activate") \/ Goes(c, Top(t), "fail")
  BY <1>1, RunBodyStep
<1>4. \A g \in New(c) : g.at \in {"run", "provide", "activate", "fail"}
  <2>1. CASE \E g, k \in Frames : /\ IsTwo(c, g, k) /\ g.at = "run"
                                  /\ IsProvide(k, Top(t).f, Head(Top(t).queue))
    BY <2>1, NewCalls DEF IsProvide, IsCall
  <2>2. CASE Goes(c, Top(t), "activate") \/ Goes(c, Top(t), "fail")
    BY <2>2, NewCalls DEF Goes, Moved
  <2>3. QED
    BY <1>3, <2>1, <2>2
<1>5. \A g \in New(c) : g.at \notin Looking \cup Loads
  BY <1>4 DEF Looking, Loads
<1>6. ~Replaces(Top(t))
  BY <1>1 DEF Replaces, Looking, Loads, Unloads
<1>7. QED
  BY <1>1, <1>2, <1>3, <1>5, <1>6, GoesOnCurrent

LEMMA ClearCurrent ==
    ASSUME CoreInv, GenerationInv, PhaseInv, CurrentInv, NEW t \in Threads, Clear(t)
    PROVE  CurrentInv'
<1>1. TypeOK /\ stack[t] # <<>> /\ Top(t).at = "clear" /\ Top(t).at \in Owning
  BY DEF CoreInv, Clear, In, Owning, Unloads
<1>2. UNCHANGED <<slot, made, state, epoch, dirty, disposed>>
  BY DEF Clear, registry, generation, driver
<1> PICK n : n = Len(entries[Top(t).f])
  OBVIOUS
<1>3. PICK c : /\ Step(t, c) /\ Len(c) = n + 1 /\ n \in Nat
               /\ Moved(c[1], Top(t), "unwind")
               /\ \A i \in 1..n : IsCall(c[i + 1], "request", Top(t).f, entries[Top(t).f][i])
  BY <1>1, ClearStep
<1>4. ASSUME NEW g \in New(c) PROVE g.at \in {"unwind", "request"}
  <2>1. PICK i \in 1..Len(c) : g = c[i]
    BY DEF New
  <2>2. i = 1 \/ (i - 1 \in 1..n /\ i = (i - 1) + 1)
    BY <1>3
  <2>3. c[1].at = "unwind" /\ \A j \in 1..n : c[j + 1].at = "request"
    BY <1>3 DEF Moved, IsCall
  <2>4. QED
    BY <2>1, <2>2, <2>3
<1>5. \A g \in New(c) : g.at \notin Looking \cup Loads
  BY <1>4 DEF Looking, Loads
<1>6. 1 \in 1..Len(c) /\ c[1] \in New(c) /\ c[1].f = Top(t).f
  BY <1>3 DEF New, Moved
<1>7. Replaces(Top(t)) => Replaces(c[1])
  BY <1>1, <1>3 DEF Replaces, Looking, Loads, Unloads, Moved
<1>8. QED
  BY <1>1, <1>2, <1>3, <1>5, <1>6, <1>7, GoesOnCurrent

LEMMA ActivateCurrent ==
    ASSUME CoreInv, GenerationInv, PhaseInv, CurrentInv, NEW t \in Threads, Activate(t)
    PROVE  CurrentInv'
<1>1. TypeOK /\ stack[t] # <<>> /\ Top(t).at = "activate" /\ Top(t).at \in Owning
  BY DEF CoreInv, Activate, In, Owning, Started
<1>2. UNCHANGED <<slot, made, state, epoch, dirty, disposed>>
  BY DEF Activate, registry, generation, driver
<1>3. PICK c : Step(t, c) /\ (Unloads1(c, Top(t).f, "end") \/ Goes(c, Top(t), "active"))
  BY <1>1, ActivateStep
<1>4. PICK g : IsOne(c, g) /\ g.at \in {"unload", "active"}
  BY <1>3 DEF Unloads1, Goes, IsCall, Moved
<1>5. /\ g.at \notin Looking \cup Loads
      /\ Replaces(Top(t)) => disposed[Top(t).f] \/ (g.f = Top(t).f /\ Replaces(g))
  BY <1>1, <1>4 DEF Replaces, Looking, Loads, Unloads
<1>6. QED
  BY <1>1, <1>2, <1>3, <1>4, <1>5, GoesOnOne

LEMMA FailCurrent ==
    ASSUME CoreInv, GenerationInv, PhaseInv, CurrentInv, NEW t \in Threads, Fail(t)
    PROVE  CurrentInv'
<1>1. TypeOK /\ stack[t] # <<>> /\ Top(t).at = "fail" /\ Top(t).at \in Owning
  BY DEF CoreInv, Fail, In, Owning, Started
<1>2. UNCHANGED <<slot, made, state, epoch, dirty, disposed>>
  BY DEF Fail, registry, generation, driver
<1>3. PICK c : Step(t, c) /\ (Unloads1(c, Top(t).f, "failed"))
  BY <1>1, FailStep
<1>4. PICK g : IsOne(c, g) /\ g.at = "unload"
  BY <1>3 DEF Unloads1, IsCall
<1>5. /\ g.at \notin Looking \cup Loads
      /\ Replaces(Top(t)) => disposed[Top(t).f] \/ (g.f = Top(t).f /\ Replaces(g))
  BY <1>1, <1>4 DEF Replaces, Looking, Loads, Unloads
<1>6. QED
  BY <1>1, <1>2, <1>3, <1>4, <1>5, GoesOnOne

LEMMA UnloadedCurrent ==
    ASSUME CoreInv, GenerationInv, PhaseInv, CurrentInv, NEW t \in Threads, Unloaded(t)
    PROVE  CurrentInv'
<1>1. TypeOK /\ stack[t] # <<>> /\ Top(t).at = "unwind" /\ Top(t).at \in Owning
  BY DEF CoreInv, Unloaded, In, Owning, Unloads
<1>2. UNCHANGED <<slot, made, state, epoch, dirty, disposed>>
  BY DEF Unloaded, registry, generation, driver
<1>3. PICK c : Step(t, c) /\ (Goes(c, Top(t), "finalize") \/ Goes(c, Top(t), "repending"))
  BY <1>1, UnloadedStep
<1>4. PICK g : /\ IsOne(c, g) /\ g.f = Top(t).f
               /\ g.cont = Top(t).cont /\ g.at \in {"finalize", "repending"}
  BY <1>3 DEF Goes, Moved
<1>5. /\ g.at \notin Looking \cup Loads
      /\ Replaces(Top(t)) => disposed[Top(t).f] \/ (g.f = Top(t).f /\ Replaces(g))
  BY <1>1, <1>4 DEF Replaces, Looking, Loads, Unloads
<1>6. QED
  BY <1>1, <1>2, <1>3, <1>4, <1>5, GoesOnOne

LEMMA UnloadCurrent ==
    ASSUME CoreInv, GenerationInv, PhaseInv, CurrentInv, NEW t \in Threads, Unload(t)
    PROVE  CurrentInv'
<1>1. TypeOK /\ stack[t] # <<>> /\ Top(t).at = "unload" /\ Top(t).at \in Owning
  BY DEF CoreInv, Unload, In, Owning, Unloads
<1>2. UNCHANGED <<slot, made, state, epoch, dirty, disposed>>
  BY DEF Unload, registry, generation, driver
<1>3. PICK c : /\ Step(t, c)
               /\ \/ Goes(c, Top(t), "unloading")
                  \/ Goes(c, Top(t), "finalize")
                  \/ Goes(c, Top(t), Top(t).cont)
  BY <1>1, UnloadStep
<1>4. PICK g : /\ IsOne(c, g) /\ g.f = Top(t).f /\ g.cont = Top(t).cont
               /\ g.at \in {"unloading", "finalize", Top(t).cont}
  BY <1>3 DEF Goes, Moved
<1>5. /\ g.at \notin Looking \cup Loads
      /\ Replaces(Top(t)) => disposed[Top(t).f] \/ (g.f = Top(t).f /\ Replaces(g))
  <2>1. CallFacts(Top(t))
    BY <1>1, TopCurrent
  <2>2. Top(t).cont \in {"reload", "failed", "end"}
    BY <1>1, <2>1 DEF CallFacts, ComesBack, Unloads
  <2>3. QED
    BY <1>1, <1>4, <2>2 DEF Replaces, Looking, Loads, Unloads
<1>6. QED
  BY <1>1, <1>2, <1>3, <1>4, <1>5, GoesOnOne

LEMMA LoadGenerationCurrent ==
    ASSUME CoreInv, GenerationInv, PhaseInv, CurrentInv, NEW t \in Threads, LoadGeneration(t)
    PROVE  CurrentInv'
<1>1. /\ TypeOK /\ stack[t] # <<>> /\ Top(t).at = "load" /\ Top(t).at \in Owning
      /\ Top(t).at \in Loads
  BY DEF CoreInv, LoadGeneration, In, Owning, Loads
<1>2. UNCHANGED <<slot, made, state, epoch, dirty, disposed>>
  BY DEF LoadGeneration, registry, driver
<1>3. PICK c : /\ Step(t, c)
               /\ \/ disposed[Top(t).f] /\ Opens(c, "end", Top(t).f)
                  \/ Goes(c, Top(t), "loading")
  BY <1>1, LoadGenerationStep
<1>4. CASE Goes(c, Top(t), "loading")
  <2>1. PICK g : IsOne(c, g) /\ g.f = Top(t).f /\ g.at = "loading" /\ g.got = Top(t).got
    BY <1>4 DEF Goes, Moved
  <2>2. Replaces(g) /\ CurrentFacts(g)
    BY <1>1, <2>1, TopCurrent DEF Replaces, CurrentFacts, Loads
  <2>3. QED
    BY <1>1, <1>2, <1>3, <2>1, <2>2, LooksOnCurrent
<1>5. CASE ~Goes(c, Top(t), "loading")
  <2>1. PICK g : IsOne(c, g) /\ g.at = "end" /\ disposed[Top(t).f]
    BY <1>3, <1>5 DEF Opens, IsCall
  <2>2. g.at \notin Looking \cup Loads
    BY <2>1 DEF Looking, Loads
  <2>3. QED
    BY <1>1, <1>2, <1>3, <2>1, <2>2, GoesOnOne
<1>6. QED
  BY <1>4, <1>5

LEMMA RecheckCurrent ==
    ASSUME CoreInv, GenerationInv, PhaseInv, CurrentInv, NEW t \in Threads,
           Recheck(t) \/ Reprobe(t)
    PROVE  CurrentInv'
<1>1. /\ TypeOK /\ stack[t] # <<>> /\ Top(t).at \in Loads /\ Top(t).at \in Owning
  BY DEF CoreInv, Recheck, Reprobe, In, Owning, Loads
<1>2. UNCHANGED <<slot, made, state, epoch, dirty, disposed>>
  BY DEF Recheck, Reprobe, registry, driver, generation
<1>3. PICK c : /\ Step(t, c)
               /\ \/ Opens(c, "giveBack", Top(t).f)
                  \/ \E b : Finds(c, Top(t), "reprobe", b)
                  \/ \E S : Leaves(c, Top(t), "recheck", S)
  <2>1. CASE Recheck(t)
    BY <1>1, <2>1, RecheckStep
  <2>2. CASE Reprobe(t)
    BY <1>1, <2>2, ReprobeStep
  <2>3. QED
    BY <2>1, <2>2
<1>4. PICK g : /\ IsOne(c, g) /\ g.f = Top(t).f
               /\ \/ g.at = "giveBack"
                  \/ g.at \in {"reprobe", "recheck"} /\ g.got = Top(t).got
  BY <1>3 DEF Opens, Finds, Leaves, IsCall, IsAbout, IsLeft
<1>5. Replaces(g) /\ CurrentFacts(g)
  BY <1>1, <1>4, TopCurrent DEF Replaces, CurrentFacts, Looking, Loads
<1>6. QED
  BY <1>1, <1>2, <1>3, <1>4, <1>5, LooksOnCurrent

\* The driver forgets the epoch of its fiber, or leaves it to the disposal.
LEMMA ForgetsCurrent ==
    ASSUME CoreInv, GenerationInv, CurrentInv, NEW t \in Threads, stack[t] # <<>>,
           NEW c, Step(t, c), Top(t).at \in Owning,
           UNCHANGED <<slot, made, state, dirty, disposed>>,
           \A x \in Fibers \ {Top(t).f} : epoch'[x] = epoch[x],
           disposed[Top(t).f] \/ epoch'[Top(t).f] = Inactive,
           NEW g, IsOne(c, g), g.at \in Looking \cup Loads => g.at = "fetch" /\ g.got = {}
    PROVE  CurrentInv'
<1> PICK f : f = Top(t).f
  OBVIOUS
<1>1. New(c) = {g} /\ CurrentFacts(g)
  BY NewCalls DEF CurrentFacts, Looking
<1>2. \A b \in epoch'[f] \ Inactive : Down(b) => Reached(f, b)
  BY DEF Reached
<1>3. QED
  BY <1>1, <1>2, QuietCurrent

LEMMA ApplyUnloadCurrent ==
    ASSUME CoreInv, GenerationInv, PhaseInv, CurrentInv, NEW t \in Threads, ApplyUnload(t)
    PROVE  CurrentInv'
<1>1. /\ TypeOK /\ stack[t] # <<>> /\ Top(t).at = "applyUnload" /\ Top(t).at \in Owning
      /\ epoch \in [Fibers -> Epochs]
  BY DEF CoreInv, TypeOK, ApplyUnload, In, Owning
<1> PICK f : f = Top(t).f
  OBVIOUS
<1>2. /\ UNCHANGED <<slot, made, state, dirty, disposed>>
      /\ \A x \in Fibers \ {f} : epoch'[x] = epoch[x]
      /\ disposed[f] \/ epoch'[f] = Inactive
  BY <1>1, TopCurrent DEF ApplyUnload, Forget, Self, registry, driver
<1>3. PICK c : /\ Step(t, c)
               /\ Opens(c, "end", Top(t).f) \/ Unloads1(c, Top(t).f, "end")
  BY <1>1, ApplyUnloadStep
<1>4. PICK g : IsOne(c, g) /\ g.at \in {"end", "unload"}
  BY <1>3 DEF Opens, Unloads1, IsCall
<1>5. g.at \notin Looking \cup Loads
  BY <1>4 DEF Looking, Loads
<1>6. QED
  BY <1>1, <1>2, <1>3, <1>4, <1>5, ForgetsCurrent

LEMMA ReloadCurrent ==
    ASSUME CoreInv, GenerationInv, PhaseInv, CurrentInv, NEW t \in Threads, Reload(t)
    PROVE  CurrentInv'
<1>1. /\ TypeOK /\ stack[t] # <<>> /\ Top(t).at = "reload" /\ Top(t).at \in Owning
      /\ epoch \in [Fibers -> Epochs]
  BY DEF CoreInv, TypeOK, Reload, In, Owning
<1> PICK f : f = Top(t).f
  OBVIOUS
<1>2. /\ UNCHANGED <<slot, made, state, dirty, disposed>>
      /\ \A x \in Fibers \ {f} : epoch'[x] = epoch[x]
      /\ disposed[f] \/ epoch'[f] = Inactive
  BY <1>1, TopCurrent DEF Reload, Forget, Self, registry, driver
<1>3. PICK c : /\ Step(t, c)
               /\ Opens(c, "end", Top(t).f) \/ Looks(c, Top(t).f, "reload")
  BY <1>1, ReloadStep
<1>4. PICK g : IsOne(c, g) /\ (g.at = "end" \/ (g.at = "fetch" /\ g.got = {}))
  BY <1>3 DEF Opens, Looks, IsCall, IsLook
<1>5. g.at \in Looking \cup Loads => g.at = "fetch" /\ g.got = {}
  BY <1>4 DEF Looking, Loads
<1>6. QED
  BY <1>1, <1>2, <1>3, <1>4, <1>5, ForgetsCurrent

LEMMA GiveBackCurrent ==
    ASSUME CoreInv, GenerationInv, PhaseInv, CurrentInv, NEW t \in Threads, GiveBack(t)
    PROVE  CurrentInv'
<1>1. /\ TypeOK /\ stack[t] # <<>> /\ Top(t).at = "giveBack" /\ Top(t).at \in Owning
      /\ epoch \in [Fibers -> Epochs]
  BY DEF CoreInv, TypeOK, GiveBack, In, Owning
<1> PICK f : f = Top(t).f
  OBVIOUS
<1>2. /\ UNCHANGED <<slot, made, state, dirty, disposed>>
      /\ \A x \in Fibers \ {f} : epoch'[x] = epoch[x]
      /\ epoch'[f] = Inactive
  BY <1>1, TopCurrent DEF GiveBack, Self, registry, driver
<1>3. PICK c : Step(t, c) /\ Goes(c, Top(t), "gaveBack")
  BY <1>1, GiveBackStep
<1>4. PICK g : IsOne(c, g) /\ g.at = "gaveBack"
  BY <1>3 DEF Goes, Moved
<1>5. g.at \notin Looking \cup Loads
  BY <1>4 DEF Looking, Loads
<1>6. QED
  BY <1>1, <1>2, <1>3, <1>4, <1>5, ForgetsCurrent

LEMMA CommitCurrent ==
    ASSUME CoreInv, GenerationInv, PhaseInv, CurrentInv, NEW t \in Threads, Commit(t)
    PROVE  CurrentInv'
<1>1. /\ TypeOK /\ stack[t] # <<>> /\ Top(t).at = "recheck" /\ Top(t).at \in Owning
      /\ Top(t).at \in Loads /\ epoch \in [Fibers -> Epochs]
  BY DEF CoreInv, TypeOK, Commit, In, Owning, Loads
<1> PICK f : f = Top(t).f
  OBVIOUS
<1>2. /\ UNCHANGED <<slot, made, state, dirty, disposed>>
      /\ \A x \in Fibers \ {f} : epoch'[x] = epoch[x]
      /\ epoch'[f] = Top(t).got
  BY <1>1, TopCurrent DEF Commit, Self, registry, driver
<1>3. PICK c : Step(t, c) /\ \E g \in Frames : IsOne(c, g) /\ g.at = "run"
  BY <1>1, CommitStep DEF IsBody
<1>4. \A g \in New(c) : CurrentFacts(g)
  BY <1>3, NewCalls DEF CurrentFacts, Looking, Loads
<1>5. \A b \in epoch'[f] \ Inactive : Down(b) => Reached(f, b)
  BY <1>1, <1>2, TopCurrent DEF CurrentFacts
<1>6. QED
  BY <1>1, <1>2, <1>3, <1>4, <1>5, QuietCurrent

\* Where a look takes the driver.
LEMMA OutcomeCurrent ==
    ASSUME NEW h, PhaseFacts(h), h.at \in Looking, NEW new, NEW g, Outcome(g, h, new),
           new # Inactive => \A b \in new : Down(b) => Reached(h.f, b)
    PROVE  /\ g.f = h.f /\ CurrentFacts(g)
           /\ Replaces(g) \/ \A b \in epoch[h.f] \ Inactive : Down(b) => Reached(h.f, b)
<1>1. CASE IsLoading(g, h.f, new) /\ new # Inactive
  BY <1>1 DEF IsLoading, CurrentFacts, Replaces, Loads, Looking
<1>2. CASE IsCall(g, "end", h.f, Vacant) /\ (epoch[h.f] = Inactive \/ new = epoch[h.f])
  <2>1. g.at \notin Looking \cup Loads /\ g.f = h.f
    BY <1>2 DEF IsCall, Looking, Loads
  <2>2. CurrentFacts(g)
    BY <2>1 DEF CurrentFacts, Looking
  <2>3. QED
    BY <1>2, <2>1, <2>2
<1>3. CASE IsCall(g, "applyUnload", h.f, Vacant)
  BY <1>3 DEF IsCall, CurrentFacts, Replaces, Loads, Looking
<1>4. CASE IsCall(g, "unload", h.f, Vacant) /\ g.cont = "reload"
  BY <1>4 DEF IsCall, CurrentFacts, Replaces, Loads, Looking, Unloads
<1>5. h.cont = "reload" => epoch[h.f] = Inactive
  BY DEF PhaseFacts
<1>6. QED
  BY <1>1, <1>2, <1>3, <1>4, <1>5 DEF Outcome

LEMMA TurnsCurrent ==
    ASSUME CoreInv, GenerationInv, PhaseInv, CurrentInv, NEW t \in Threads, stack[t] # <<>>,
           NEW c, Step(t, c), Top(t).at \in Looking, NEW new, Turns(c, Top(t), new),
           UNCHANGED <<slot, made, state, epoch, dirty, disposed>>,
           new # Inactive => \A b \in new : Down(b) => Reached(Top(t).f, b)
    PROVE  CurrentInv'
<1> PICK f : f = Top(t).f
  OBVIOUS
<1>1. PICK g : IsOne(c, g) /\ Outcome(g, Top(t), new)
  BY DEF Turns
<1>2. /\ g.f = f /\ CurrentFacts(g)
      /\ Replaces(g) \/ \A b \in epoch[f] \ Inactive : Down(b) => Reached(f, b)
  BY <1>1, TopCurrent, OutcomeCurrent
<1>3. New(c) = {g} /\ Top(t).at \in Owning
  BY <1>1, NewCalls DEF Owning
<1>4. QED
  BY <1>2, <1>3, QuietCurrent

LEMMA TakesCurrent ==
    ASSUME CoreInv, GenerationInv, PhaseInv, CurrentInv, NEW t \in Threads, stack[t] # <<>>,
           NEW c, Step(t, c), Top(t).at \in {"check", "probe"}, Takes(c, Top(t), Top(t).b),
           UNCHANGED <<slot, made, state, epoch, dirty, disposed>>,
           Down(Top(t).b) => Reached(Top(t).f, Top(t).b)
    PROVE  CurrentInv'
<1> PICK h : h = Top(t)
  OBVIOUS
<1>1. h.at \in Looking /\ h.at \in Owning /\ CurrentFacts(h)
  BY TopCurrent DEF Looking, Owning
<1>2. \A b \in h.got \cup {h.b} : Down(b) => Reached(h.f, b)
  BY <1>1 DEF CurrentFacts
<1>3. PICK g \in Frames : IsOne(c, g) /\ Taken(g, h, h.b)
  BY DEF Takes
<1>4. CASE Outcome(g, h, h.got \cup {h.b})
  BY <1>1, <1>2, <1>3, <1>4, TurnsCurrent DEF Turns
<1>5. CASE g.at = "fetch" /\ g.f = h.f /\ g.got = h.got \cup {h.b}
  <2>1. Replaces(g) /\ CurrentFacts(g)
    BY <1>2, <1>5 DEF Replaces, CurrentFacts, Looking
  <2>2. QED
    BY <1>1, <1>3, <1>5, <2>1, LooksOnCurrent
<1>6. QED
  BY <1>3, <1>4, <1>5 DEF Taken

LEMMA FetchCurrent ==
    ASSUME CoreInv, GenerationInv, PhaseInv, CurrentInv, NEW t \in Threads, Fetch(t)
    PROVE  CurrentInv'
<1> PICK h : h = Top(t)
  OBVIOUS
<1>1. /\ TypeOK /\ SlotsFit /\ stack[t] # <<>> /\ h.at = "fetch" /\ h.at \in Owning
      /\ h.at \in Looking
  BY DEF CoreInv, BindInv, Fetch, In, Owning, Looking
<1>2. UNCHANGED <<slot, made, state, epoch, dirty, disposed>>
  BY DEF Fetch, registry, driver, generation
<1>3. h \in Frames /\ CurrentFacts(h)
  BY <1>1, TopTyping, TopCurrent
<1>4. PICK c : /\ Step(t, c)
               /\ \/ Turns(c, h, h.got)
                  \/ Turns(c, h, Inactive)
                  \/ /\ h.queue # <<>> /\ Under(h.f, Head(h.queue)) # Vacant
                     /\ Finds(c, h, "check", Under(h.f, Head(h.queue)))
  BY <1>1, FetchStep
<1>5. CASE Turns(c, h, h.got)
  <2>1. \A b \in h.got : Down(b) => Reached(h.f, b)
    BY <1>1, <1>3 DEF CurrentFacts
  <2>2. QED
    BY <1>1, <1>2, <1>4, <1>5, <2>1, TurnsCurrent
<1>6. CASE Turns(c, h, Inactive)
  BY <1>1, <1>2, <1>4, <1>6, TurnsCurrent
<1>7. CASE /\ h.queue # <<>> /\ Under(h.f, Head(h.queue)) # Vacant
           /\ Finds(c, h, "check", Under(h.f, Head(h.queue)))
  <2> PICK b : b = Under(h.f, Head(h.queue))
    OBVIOUS
  <2>1. Scope[h.f][Head(h.queue)] \in Labels
    BY <1>3, <1>7, QueueParts, GraphAssumption DEF Frames
  <2>2. InSlot(b)
    BY <1>1, <1>7, <2>1, InSlotSeen DEF Under
  <2>3. PICK g : IsOne(c, g) /\ g.at = "check" /\ g.f = h.f /\ g.got = h.got /\ g.b = b
    BY <1>7 DEF Finds, IsAbout
  <2>4. Replaces(g) /\ CurrentFacts(g)
    BY <1>1, <1>3, <2>2, <2>3 DEF Replaces, CurrentFacts, Looking
  <2>5. QED
    BY <1>1, <1>2, <1>4, <2>3, <2>4, LooksOnCurrent
<1>8. QED
  BY <1>4, <1>5, <1>6, <1>7

LEMMA CheckCurrent ==
    ASSUME CoreInv, GenerationInv, PhaseInv, CurrentInv, NEW t \in Threads, Check(t)
    PROVE  CurrentInv'
<1> PICK h : h = Top(t)
  OBVIOUS
<1>1. TypeOK /\ stack[t] # <<>> /\ h.at = "check" /\ h.at \in Owning /\ h.at \in Looking
  BY DEF CoreInv, Check, In, Owning, Looking
<1>2. UNCHANGED <<slot, made, state, epoch, dirty, disposed>>
  BY DEF Check, registry, driver, generation
<1>3. CurrentFacts(h) /\ h.b # Vacant /\ h.queue # <<>>
  BY <1>1, TopCurrent, FoundIsKnown DEF LookedUp
<1>4. PICK c : /\ Step(t, c)
               /\ \/ Turns(c, h, Inactive)
                  \/ state[made[h.b].provider] = "active" /\ Goes(c, h, "probe")
                  \/ state[made[h.b].provider] = "active" /\ Takes(c, h, h.b)
  BY <1>1, <1>3, CheckStep
<1>5. state[made[h.b].provider] = "active" => (Down(h.b) => Reached(h.f, h.b))
  BY <1>1, <1>3 DEF CurrentFacts, Down
<1>6. CASE Turns(c, h, Inactive)
  BY <1>1, <1>2, <1>4, <1>6, TurnsCurrent
<1>7. CASE state[made[h.b].provider] = "active" /\ Goes(c, h, "probe")
  <2>1. PICK g : IsOne(c, g) /\ g.at = "probe" /\ g.f = h.f /\ g.got = h.got /\ g.b = h.b
    BY <1>7 DEF Goes, Moved
  <2>2. Replaces(g) /\ CurrentFacts(g)
    BY <1>1, <1>3, <1>5, <1>7, <2>1 DEF Replaces, CurrentFacts, Looking
  <2>3. QED
    BY <1>1, <1>2, <1>4, <2>1, <2>2, LooksOnCurrent
<1>8. CASE state[made[h.b].provider] = "active" /\ Takes(c, h, h.b)
  BY <1>1, <1>2, <1>4, <1>5, <1>8, TakesCurrent
<1>9. QED
  BY <1>4, <1>6, <1>7, <1>8

LEMMA ProbeCurrent ==
    ASSUME CoreInv, GenerationInv, PhaseInv, CurrentInv, NEW t \in Threads, Probe(t)
    PROVE  CurrentInv'
<1> PICK h : h = Top(t)
  OBVIOUS
<1>1. TypeOK /\ stack[t] # <<>> /\ h.at = "probe" /\ h.at \in Owning /\ h.at \in Looking
  BY DEF CoreInv, Probe, In, Owning, Looking
<1>2. UNCHANGED <<slot, made, state, epoch, dirty, disposed>>
  BY DEF Probe, registry, driver, generation
<1>3. CurrentFacts(h) /\ h.b # Vacant /\ h.queue # <<>>
  BY <1>1, TopCurrent, FoundIsKnown DEF LookedUp
<1>4. PICK c : Step(t, c) /\ (Turns(c, h, Inactive) \/ Takes(c, h, h.b))
  BY <1>1, <1>3, ProbeStep
<1>5. Down(h.b) => Reached(h.f, h.b)
  BY <1>1, <1>3 DEF CurrentFacts
<1>6. CASE Turns(c, h, Inactive)
  BY <1>1, <1>2, <1>4, <1>6, TurnsCurrent
<1>7. CASE Takes(c, h, h.b)
  BY <1>1, <1>2, <1>4, <1>5, <1>7, TakesCurrent
<1>8. QED
  BY <1>4, <1>6, <1>7

\* The calls that tell x do not end with a step of a driver.
LEMMA OwnerTold ==
    ASSUME TypeOK, NEW t \in Threads, stack[t] # <<>>, NEW c, Step(t, c),
           Top(t).at \in Owning, UNCHANGED <<slot, made>>, NEW x, NEW b
    PROVE  /\ InSlot(b)' <=> InSlot(b)
           /\ Told(x, b) => Told(x, b)'
<1>1. InSlot(b)' <=> InSlot(b)
  BY DEF InSlot
<1>2. \A i \in 1..Len(stack[t]) : i > Len(stack[t]) - 1 => stack[t][i] = Top(t)
  BY DEF Top
<1>3. \A i \in 1..Len(stack[t]) : i > Len(stack[t]) - 1 => ~Tells(stack[t][i], x, b)
  BY <1>2, OwnerTells, TellersTell
<1>4. QED
  BY <1>1, <1>3, ToldKept DEF Step

LEMMA OwnerWarned ==
    ASSUME TypeOK, NEW t \in Threads, stack[t] # <<>>, NEW c, Step(t, c),
           Top(t).at \in Owning, UNCHANGED <<slot, made, disposed>>, NEW x \in Fibers,
           dirty[x] => dirty'[x],
           \A b \in Known : Wants(x, b) /\ Down(b)' => Down(b) \/ Reached(x, b)'
    PROVE  Warned(x)
<1>1. \A b : /\ InSlot(b)' <=> InSlot(b)
             /\ Told(x, b) => Told(x, b)'
  BY OwnerTold
<1>2. \A b : Reached(x, b) => Reached(x, b)'
  BY <1>1 DEF Reached
<1>3. QED
  BY <1>1, <1>2 DEF Warned

LEMMA BeginPassCurrent ==
    ASSUME CoreInv, GenerationInv, PhaseInv, CurrentInv, NEW t \in Threads, BeginPass(t)
    PROVE  CurrentInv'
<1>1. TypeOK /\ stack[t] # <<>> /\ Top(t).at = "pass" /\ Top(t).at \in Owning
  BY DEF CoreInv, BeginPass, In, Owning
<1> PICK f : f = Top(t).f
  OBVIOUS
<1>2. /\ UNCHANGED <<slot, made, state, epoch, disposed>>
      /\ \A x \in Fibers \ {f} : dirty'[x] = dirty[x]
  BY <1>1 DEF BeginPass, Self, registry, generation, TypeOK
<1>3. PICK c : Step(t, c) /\ Goes(c, Top(t), "sync")
  BY <1>1, BeginPassStep
<1>4. PICK g : IsOne(c, g) /\ g.f = f /\ g.at = "sync"
  BY <1>3 DEF Goes, Moved
<1>5. ASSUME NEW x \in Fibers \ {f} PROVE Warned(x)
  <2>1. \A b : Down(b)' => Down(b)
    BY <1>2 DEF Down, InSlot
  <2>2. QED
    BY <1>1, <1>2, <1>3, <2>1, OwnerWarned
<1>6. New(c) = {g} /\ g \in Calls'
  BY <1>1, <1>3, <1>4, NewCalls, StepCalls
<1>7. CurrentFacts(g)'
  BY <1>4 DEF CurrentFacts, Looking, Loads
<1>8. FiberCurrent(f)'
  BY <1>4, <1>6 DEF FiberCurrent, Replacing, Replaces
<1>9. QED
  BY <1>1, <1>2, <1>3, <1>5, <1>6, <1>7, <1>8, OwnerCurrent

\* A change of state: a fiber that stops being active tells those who rest on it.
LEMMA SetStateTells ==
    ASSUME TypeOK, NEW t \in Threads, stack[t] # <<>>, NEW c, Step(t, c),
           Top(t).f \in Fibers, state \in [Fibers -> FiberStates],
           NEW s, NEW next, Announces(c, Top(t), s, next),
           state' = IF Refuses(Top(t).f, s) THEN state
                    ELSE [state EXCEPT ![Top(t).f] = s],
           UNCHANGED <<slot, made>>,
           state[Top(t).f] = "active" /\ s # "active" => next = "clear",
           NEW x, NEW b, Down(b)', ~Down(b)
    PROVE  Told(x, b)'
<1> PICK f : f = Top(t).f
  OBVIOUS
<1>1. PICK g, k \in Frames :
         /\ Moved(g, Top(t), next)
         /\ IF ~Refuses(f, s) /\ (state[f] = "active") # (s = "active")
            THEN IsTwo(c, g, k) /\ IsCall(k, "names", f, Vacant)
            ELSE IsOne(c, g)
  BY DEF Announces
<1>2. /\ InSlot(b) /\ InSlot(b)' /\ Aligned
      /\ state[made[b].provider] = "active" /\ state'[made[b].provider] # "active"
  BY DEF Down, InSlot
<1>3. ~Refuses(f, s) /\ f = made[b].provider /\ s # "active" /\ state[f] = "active"
  BY <1>2
<1>4. /\ IsTwo(c, g, k) /\ k.at = "names" /\ k.f = f /\ g.at = "clear" /\ g.f = f
  BY <1>1, <1>3 DEF IsCall, Moved
<1>5. Waits(g, b)' /\ Tells(k, x, b)'
  BY <1>2, <1>3, <1>4 DEF Waits, Tells
<1> PICK n : n = Len(stack[t])
  OBVIOUS
<1>6. /\ n \in Nat \ {0} /\ Changes(t, n - 1, c) /\ Len(c) = 2 /\ c[1] = g /\ c[2] = k
  BY <1>4 DEF Step, IsTwo
<1>7. Len(stack'[t]) = n + 1 /\ stack'[t][n] = g /\ stack'[t][n + 1] = k
  <2>1. /\ Len(stack'[t]) = (n - 1) + Len(c)
        /\ \A i \in 1..Len(c) : stack'[t][(n - 1) + i] = c[i]
    BY <1>6 DEF Changes
  <2>2. 1 \in 1..Len(c) /\ 2 \in 1..Len(c) /\ (n - 1) + 1 = n /\ (n - 1) + 2 = n + 1
    BY <1>6
  <2>3. QED
    BY <1>6, <2>1
<1>8. n \in 1..Len(stack'[t]) /\ n + 1 \in 1..Len(stack'[t]) /\ n < n + 1
  BY <1>6, <1>7
<1>9. QED
  BY <1>5, <1>7 DEF Told

LEMMA SetStateCurrent ==
    ASSUME CoreInv, GenerationInv, PhaseInv, CurrentInv, NEW t \in Threads, stack[t] # <<>>,
           NEW c, Step(t, c), Top(t).at \in Owning,
           NEW s, NEW next, Announces(c, Top(t), s, next), next \notin Looking \cup Loads,
           state' = IF Refuses(Top(t).f, s) THEN state
                    ELSE [state EXCEPT ![Top(t).f] = s],
           UNCHANGED <<slot, made, epoch, disposed>>,
           \A x \in Fibers : dirty[x] => dirty'[x],
           state[Top(t).f] = "active" /\ s # "active" => next = "clear",
           Replaces(Top(t)) => \A g : Moved(g, Top(t), next) => Replaces(g)
    PROVE  CurrentInv'
<1> PICK f : f = Top(t).f
  OBVIOUS
<1>1. TypeOK /\ f \in Fibers /\ state \in [Fibers -> FiberStates]
  BY TopCurrent DEF TypeOK
<1>2. PICK g, k \in Frames :
         /\ Moved(g, Top(t), next)
         /\ (IsTwo(c, g, k) /\ k.at = "names") \/ IsOne(c, g)
  BY DEF Announces, IsCall
<1>3. g \in New(c) /\ \A h \in New(c) : h.at \notin Looking \cup Loads
  BY <1>2, NewCalls DEF Moved, Looking, Loads
<1>4. \A h \in New(c) : CurrentFacts(h)'
  BY <1>3 DEF CurrentFacts, Looking
<1>5. \A x \in Fibers : Warned(x)
  <2>1. \A x, b : Down(b)' /\ ~Down(b) => Told(x, b)'
    BY <1>1, SetStateTells
  <2>2. \A x, b : Down(b)' => Down(b) \/ Reached(x, b)'
    BY <2>1 DEF Reached
  <2>3. QED
    BY <1>1, <2>2, OwnerWarned
<1>6. FiberCurrent(f)'
  <2>1. CASE Replaces(Top(t))
    <3>1. Replaces(g) /\ g.f = f
      BY <1>2, <2>1 DEF Moved
    <3>2. g \in Calls'
      BY <1>1, <1>3, StepCalls
    <3>3. QED
      BY <3>1, <3>2 DEF FiberCurrent, Replacing, Replaces
  <2>2. CASE ~Replaces(Top(t))
    <3>1. \A b \in epoch[f] \ Inactive : Down(b) => Reached(f, b)
      BY <2>2, OwnerEpoch
    <3>2. \A b \in epoch[f] \ Inactive : Wants(f, b) /\ b \in Known
      BY <1>1, EpochWants DEF Wants
    <3>3. QED
      BY <1>1, <1>5, <3>1, <3>2 DEF FiberCurrent, Warned
  <2>3. QED
    BY <2>1, <2>2
<1>7. QED
  BY <1>4, <1>5, <1>6, OwnerCurrent

LEMMA SetActiveCurrent ==
    ASSUME CoreInv, GenerationInv, PhaseInv, CurrentInv, NEW t \in Threads, SetActive(t)
    PROVE  CurrentInv'
<1>1. TypeOK /\ stack[t] # <<>> /\ Top(t).at = "active" /\ Top(t).at \in Owning
  BY DEF CoreInv, SetActive, In, Owning, Started
<1>2. /\ UNCHANGED <<slot, made, epoch, disposed>>
      /\ \A x \in Fibers : dirty[x] => dirty'[x]
  BY DEF SetActive, registry, driver
<1>3. PICK c : Step(t, c) /\ Announces(c, Top(t), "active", "end")
  BY <1>1, SetActiveStep
<1>4. state' = IF Refuses(Top(t).f, "active") THEN state ELSE [state EXCEPT ![Top(t).f] = "active"]
  BY <1>1, SetActiveStep
<1>5. state[Top(t).f] = "active" /\ "active" # "active" => "end" = "clear"
  OBVIOUS
<1>6. /\ "end" \notin Looking \cup Loads
      /\ Replaces(Top(t)) => \A g : Moved(g, Top(t), "end") => Replaces(g)
  BY <1>1 DEF Replaces, Moved, Looking, Loads, Unloads
<1>7. QED
  BY <1>1, <1>2, <1>3, <1>4, <1>5, <1>6, SetStateCurrent

LEMMA SetFailedCurrent ==
    ASSUME CoreInv, GenerationInv, PhaseInv, CurrentInv, NEW t \in Threads, SetFailed(t)
    PROVE  CurrentInv'
<1>1. TypeOK /\ stack[t] # <<>> /\ Top(t).at = "failed" /\ Top(t).at \in Owning
  BY DEF CoreInv, SetFailed, In, Owning
<1>2. /\ UNCHANGED <<slot, made, epoch, disposed>>
      /\ \A x \in Fibers : dirty[x] => dirty'[x]
  BY DEF SetFailed, registry, driver
<1>3. PICK c : Step(t, c) /\ Announces(c, Top(t), "failed", "end")
  BY <1>1, SetFailedStep
<1>4. state' = IF Refuses(Top(t).f, "failed") THEN state ELSE [state EXCEPT ![Top(t).f] = "failed"]
  BY <1>1, SetFailedStep
<1>5. state[Top(t).f] # "active"
  BY <1>1, TopCurrent DEF PhaseFacts, Unloads
<1>6. /\ "end" \notin Looking \cup Loads
      /\ Replaces(Top(t)) => \A g : Moved(g, Top(t), "end") => Replaces(g)
  BY <1>1 DEF Replaces, Moved, Looking, Loads, Unloads
<1>7. QED
  BY <1>1, <1>2, <1>3, <1>4, <1>5, <1>6, SetStateCurrent

LEMMA SetUnloadingCurrent ==
    ASSUME CoreInv, GenerationInv, PhaseInv, CurrentInv, NEW t \in Threads, SetUnloading(t)
    PROVE  CurrentInv'
<1>1. TypeOK /\ stack[t] # <<>> /\ Top(t).at = "unloading" /\ Top(t).at \in Owning
  BY DEF CoreInv, SetUnloading, In, Owning, Unloads
<1>2. /\ UNCHANGED <<slot, made, epoch, disposed>>
      /\ \A x \in Fibers : dirty[x] => dirty'[x]
  BY DEF SetUnloading, registry, driver
<1>3. PICK c : Step(t, c) /\ Announces(c, Top(t), "unloading", "clear")
  BY <1>1, SetUnloadingStep
<1>4. state' = IF Refuses(Top(t).f, "unloading") THEN state
               ELSE [state EXCEPT ![Top(t).f] = "unloading"]
  BY <1>1, SetUnloadingStep
<1>5. state[Top(t).f] = "active" /\ "unloading" # "active" => "clear" = "clear"
  OBVIOUS
<1>6. /\ "clear" \notin Looking \cup Loads
      /\ Replaces(Top(t)) => \A g : Moved(g, Top(t), "clear") => Replaces(g)
  BY <1>1 DEF Replaces, Moved, Looking, Loads, Unloads
<1>7. QED
  BY <1>1, <1>2, <1>3, <1>4, <1>5, <1>6, SetStateCurrent

LEMMA SetPendingCurrent ==
    ASSUME CoreInv, GenerationInv, PhaseInv, CurrentInv, NEW t \in Threads, SetPending(t)
    PROVE  CurrentInv'
<1>1. TypeOK /\ stack[t] # <<>> /\ Top(t).at = "repending" /\ Top(t).at \in Owning
  BY DEF CoreInv, SetPending, In, Owning, Unloads
<1>2. /\ UNCHANGED <<slot, made, epoch, disposed>>
      /\ \A x \in Fibers : dirty[x] => dirty'[x]
  BY DEF SetPending, registry, driver
<1>3. PICK c : Step(t, c) /\ Announces(c, Top(t), "pending", Top(t).cont)
  BY <1>1, SetPendingStep
<1>4. state' = IF Refuses(Top(t).f, "pending") THEN state
               ELSE [state EXCEPT ![Top(t).f] = "pending"]
  BY <1>1, SetPendingStep
<1>5. state[Top(t).f] # "active"
  BY <1>1, TopCurrent DEF PhaseFacts, Unloads
<1>6. Top(t).cont \in {"reload", "failed", "end"}
  BY <1>1, TopCurrent DEF CallFacts, ComesBack, Unloads
<1>7. /\ Top(t).cont \notin Looking \cup Loads
      /\ Replaces(Top(t)) => \A g : Moved(g, Top(t), Top(t).cont) => Replaces(g)
  BY <1>1, <1>6 DEF Replaces, Moved, Looking, Loads, Unloads
<1>8. QED
  BY <1>1, <1>2, <1>3, <1>4, <1>5, <1>7, SetStateCurrent

LEMMA FinalizeDisposeCurrent ==
    ASSUME CoreInv, GenerationInv, PhaseInv, CurrentInv, NEW t \in Threads, FinalizeDispose(t)
    PROVE  CurrentInv'
<1>1. TypeOK /\ stack[t] # <<>> /\ Top(t).at = "finalize" /\ Top(t).at \in Owning
  BY DEF CoreInv, FinalizeDispose, In, Owning, Unloads
<1>2. /\ UNCHANGED <<slot, made, epoch, disposed>>
      /\ \A x \in Fibers : dirty[x] => dirty'[x]
  BY DEF FinalizeDispose, registry, driver
<1>3. PICK c : Step(t, c) /\ Announces(c, Top(t), "disposed", Top(t).cont)
  BY <1>1, FinalizeDisposeStep
<1>4. state' = IF Refuses(Top(t).f, "disposed") THEN state
               ELSE [state EXCEPT ![Top(t).f] = "disposed"]
  BY <1>1, FinalizeDisposeStep
<1>5. state[Top(t).f] # "active"
  BY <1>1, TopCurrent DEF PhaseFacts, Unloads
<1>6. Top(t).cont \in {"reload", "failed", "end"}
  BY <1>1, TopCurrent DEF CallFacts, ComesBack, Unloads
<1>7. /\ Top(t).cont \notin Looking \cup Loads
      /\ Replaces(Top(t)) => \A g : Moved(g, Top(t), Top(t).cont) => Replaces(g)
  BY <1>1, <1>6 DEF Replaces, Moved, Looking, Loads, Unloads
<1>8. QED
  BY <1>1, <1>2, <1>3, <1>4, <1>5, <1>7, SetStateCurrent

LEMMA GaveBackCurrent ==
    ASSUME CoreInv, GenerationInv, PhaseInv, CurrentInv, NEW t \in Threads, GaveBack(t)
    PROVE  CurrentInv'
<1>1. TypeOK /\ stack[t] # <<>> /\ Top(t).at = "gaveBack" /\ Top(t).at \in Owning
  BY DEF CoreInv, GaveBack, In, Owning
<1>2. /\ UNCHANGED <<slot, made, epoch, disposed>>
      /\ \A x \in Fibers : dirty[x] => dirty'[x]
  BY DEF GaveBack, TypeOK, registry
<1>3. PICK c : Step(t, c) /\ Announces(c, Top(t), "pending", "end")
  BY <1>1, GaveBackStep
<1>4. state' = IF Refuses(Top(t).f, "pending") THEN state
               ELSE [state EXCEPT ![Top(t).f] = "pending"]
  BY <1>1, GaveBackStep
<1>5. state[Top(t).f] # "active"
  BY <1>1, TopCurrent DEF PhaseFacts, Unloads
<1>6. /\ "end" \notin Looking \cup Loads
      /\ Replaces(Top(t)) => \A g : Moved(g, Top(t), "end") => Replaces(g)
  BY <1>1 DEF Replaces, Moved, Looking, Loads, Unloads
<1>7. QED
  BY <1>1, <1>2, <1>3, <1>4, <1>5, <1>6, SetStateCurrent

LEMMA SetLoadingCurrent ==
    ASSUME CoreInv, GenerationInv, PhaseInv, CurrentInv, NEW t \in Threads, SetLoading(t)
    PROVE  CurrentInv'
<1> PICK h : h = Top(t)
  OBVIOUS
<1>1. /\ TypeOK /\ stack[t] # <<>> /\ h.at = "loading" /\ h.at \in Owning /\ h.at \in Loads
      /\ state \in [Fibers -> FiberStates]
  BY DEF CoreInv, TypeOK, SetLoading, In, Owning, Loads
<1>2. UNCHANGED <<slot, made, epoch, dirty, disposed>>
  BY DEF SetLoading, registry, driver
<1>3. h \in Calls /\ CurrentFacts(h) /\ h.f \in Fibers /\ state[h.f] # "active"
  BY <1>1, TopCurrent DEF PhaseFacts, Loads
<1>4. PICK c : /\ Step(t, c)
               /\ \/ disposed[h.f] /\ state' = state /\ Opens(c, "end", h.f)
                  \/ state' = [state EXCEPT ![h.f] = "loading"] /\ Leaves(c, h, "recheck", h.got)
  BY <1>1, SetLoadingStep
<1>5. CASE disposed[h.f] /\ state' = state /\ Opens(c, "end", h.f)
  <2>1. PICK g : IsOne(c, g) /\ g.at = "end"
    BY <1>5 DEF Opens, IsCall
  <2>2. g.at \notin Looking \cup Loads
    BY <2>1 DEF Looking, Loads
  <2>3. QED
    BY <1>1, <1>2, <1>4, <1>5, <2>1, <2>2, GoesOnOne
<1>6. CASE state' = [state EXCEPT ![h.f] = "loading"] /\ Leaves(c, h, "recheck", h.got)
  <2>1. PICK g : IsOne(c, g) /\ g.at = "recheck" /\ g.f = h.f /\ g.got = h.got
    BY <1>6 DEF Leaves, IsLeft
  <2>2. \A b : Down(b)' => Down(b)
    BY <1>1, <1>2, <1>3, <1>6 DEF Down, InSlot
  <2>3. \A x \in Fibers : Warned(x)
    BY <1>1, <1>2, <1>4, <2>2, OwnerWarned
  <2>4. New(c) = {g} /\ g \in Calls'
    BY <1>1, <1>4, <2>1, NewCalls, StepCalls
  <2>5. CurrentFacts(h)'
    BY <1>3, <2>3, CurrentKept
  <2>6. CurrentFacts(g)'
    BY <1>1, <2>1, <2>5 DEF CurrentFacts, Loads
  <2>7. FiberCurrent(h.f)'
    BY <2>1, <2>4 DEF FiberCurrent, Replacing, Replaces, Loads
  <2>8. QED
    BY <1>1, <1>2, <1>4, <2>3, <2>4, <2>6, <2>7, OwnerCurrent
<1>7. QED
  BY <1>4, <1>5, <1>6

LEMMA BeginTransitionCurrent ==
    ASSUME CoreInv, GenerationInv, PhaseInv, CurrentInv, NEW t \in Threads, BeginTransition(t)
    PROVE  CurrentInv'
<1> PICK f : f = Top(t).f
  OBVIOUS
<1>1. /\ TypeOK /\ BusyOwned /\ stack[t] # <<>> /\ Top(t).at = "begin" /\ f \in Fibers
      /\ dirty \in [Fibers -> BOOLEAN]
  BY TopCurrent DEF CoreInv, CallInv, TypeOK, BeginTransition, In
<1>2. /\ UNCHANGED <<slot, made, state, epoch, disposed>>
      /\ dirty' = IF busy[f] THEN [dirty EXCEPT ![f] = TRUE] ELSE dirty
  BY DEF BeginTransition, Self, registry, generation
<1>3. PICK c : /\ Step(t, c)
               /\ \/ busy[f] /\ IsNone(c)
                  \/ ~busy[f] /\ Goes(c, Top(t), "pass")
  BY <1>1, BeginTransitionStep
<1>4. Changes(t, Len(stack[t]) - 1, c)
  BY <1>3 DEF Step
<1>5. \A i \in 1..Len(stack[t]) : i > Len(stack[t]) - 1 => stack[t][i] = Top(t)
  BY <1>1 DEF Top
<1>6. ASSUME NEW x \in Fibers \ {f} PROVE Warned(x)
  <2>1. \A b : (InSlot(b)' <=> InSlot(b)) /\ (Down(b)' => Down(b))
    BY <1>2 DEF Down, InSlot
  <2>2. \A b : ~Tells(Top(t), x, b)
    BY <1>1 DEF Tells
  <2>3. \A b : Told(x, b) => Told(x, b)'
    BY <1>1, <1>2, <1>4, <1>5, <2>1, <2>2, ToldKept
  <2>4. dirty[x] => dirty'[x]
    BY <1>1, <1>2
  <2>5. QED
    BY <1>2, <2>1, <2>3, <2>4, WarnedBy DEF Reached
<1>7. \A i \in 1..Len(stack[t]) : i > Len(stack[t]) - 1 => ~Replaces(stack[t][i])
  BY <1>1, <1>5 DEF Replaces, Looking, Loads, Unloads
<1>8. CASE busy[f]
  <2>1. Warned(f)
    BY <1>1, <1>2, <1>8 DEF Warned, Reached
  <2>2. New(c) = {}
    BY <1>3, <1>8, NewCalls
  <2>3. \A x \in Fibers \ {} : Warned(x) /\ epoch'[x] = epoch[x]
    BY <1>2, <1>6, <2>1
  <2>4. QED
    BY <1>4, <1>7, <2>2, <2>3, CurrentStep
<1>9. CASE ~busy[f]
  <2> PICK E : E = {f}
    OBVIOUS
  <2>1. PICK g : IsOne(c, g) /\ g.at = "pass" /\ g.f = f
    BY <1>3, <1>9 DEF Goes, Moved
  <2>2. New(c) = {g} /\ g \in Calls' /\ Rest(t, Len(stack[t]) - 1) \subseteq Calls
    BY <1>1, <1>3, <2>1, NewCalls, StepCalls DEF Others
  <2>3. \A h \in Rest(t, Len(stack[t]) - 1) : h.f \in E => h.at \notin Looking \cup Loads
    BY <1>1, <1>9, <2>2 DEF BusyOwned, Has, Owning
  <2>4. CurrentFacts(g)'
    BY <2>1 DEF CurrentFacts, Looking, Loads
  <2>5. \A x \in E : FiberCurrent(x)'
    BY <2>1, <2>2 DEF FiberCurrent, Replacing, Replaces
  <2>6. \A h \in New(c) : CurrentFacts(h)'
    BY <2>2, <2>4
  <2>7. \A x \in Fibers \ E : Warned(x) /\ epoch'[x] = epoch[x]
    BY <1>2, <1>6
  <2>8. \A i \in 1..Len(stack[t]) :
           i > Len(stack[t]) - 1 /\ Replaces(stack[t][i]) => stack[t][i].f \in E
    BY <1>7
  <2>9. QED
    BY <1>4, <2>3, <2>5, <2>6, <2>7, <2>8, CurrentStep
<1>10. QED
  BY <1>8, <1>9

\* The steps of the calls that neither drive a fiber nor tell others.
LEMMA ServedCurrent ==
    ASSUME CoreInv, GenerationInv, CurrentInv, MadeStays, NEW t \in Threads,
           NEW k, NEW c, Served(t, k, c),
           UNCHANGED <<state, epoch, dirty, disposed>>,
           \A x \in Fibers : \A b \in Known :
              Wants(x, b) => (InSlot(b)' <=> InSlot(b)) \/ Told(x, b)'
    PROVE  CurrentInv'
<1>1. TypeOK /\ Changes(t, k, c)
  BY DEF CoreInv, Served
<1>2. \A i \in 1..Len(stack[t]) :
         i > k => stack[t][i].at \notin Tellers /\ ~Replaces(stack[t][i])
  BY DEF Served, Replaces, Owning, Started, Looking, Loads, Unloads
<1>3. ASSUME NEW x \in Fibers PROVE Warned(x)
  <2>1. ASSUME NEW b \in Known, InSlot(b)' <=> InSlot(b)
        PROVE  (Down(b)' => Down(b)) /\ (Told(x, b) => Told(x, b)')
    <3>1. made'[b] = made[b]
      BY DEF MadeStays
    <3>2. QED
      BY <1>1, <1>2, <2>1, <3>1, TellersTell, ToldKept DEF Down
  <2>2. ASSUME NEW b \in Known, Wants(x, b)
        PROVE  \/ Reached(x, b)'
               \/ /\ InSlot(b)' <=> InSlot(b)
                  /\ Down(b)' => Down(b)
                  /\ Told(x, b) => Reached(x, b)'
    <3>1. CASE Told(x, b)'
      BY <3>1 DEF Reached
    <3>2. CASE InSlot(b)' <=> InSlot(b)
      BY <2>1, <3>2 DEF Reached
    <3>3. QED
      BY <2>2, <3>1, <3>2
  <2>3. QED
    BY <2>2, WarnedBy
<1>4. ASSUME NEW g \in New(c) PROVE CurrentFacts(g)'
  <2>1. g.at \notin Looking \cup Loads
    BY DEF Served, Phaseless, Owning, Looking, Loads
  <2>2. QED
    BY <2>1 DEF CurrentFacts, Looking
<1>5. \A x \in Fibers \ {} : Warned(x) /\ epoch'[x] = epoch[x]
  BY <1>3
<1>6. \A i \in 1..Len(stack[t]) : i > k /\ Replaces(stack[t][i]) => stack[t][i].f \in {}
  BY <1>2
<1>7. QED
  BY <1>1, <1>4, <1>5, <1>6, CurrentStep

\* A label that is free becomes that of a binding nobody has seen.
LEMMA RegisterTakes ==
    ASSUME CoreInv, NEW t \in Threads, Register(t), NEW x \in Fibers, NEW b \in Known,
           Wants(x, b)
    PROVE  InSlot(b)' <=> InSlot(b)
<1>1. stack[t] # <<>> /\ Top(t).at = "register" /\ made' = made
  BY DEF Register, In
<1> PICK a : a = Top(t).b
  OBVIOUS
<1>2. /\ TypeOK /\ a \in Known /\ a \in Bindings /\ a \notin installed /\ ~InSlot(a)
  <2>1. TypeOK /\ BindInv /\ Top(t).at \in EntryCalls /\ Top(t).at \in Registering
    BY <1>1 DEF CoreInv, EntryCalls, Registering
  <2>2. CallFacts(Top(t)) /\ a \in Known /\ a \in Bindings
    BY <1>1, <2>1, EntryCallFits
  <2>3. QED
    BY <1>1, <2>1, <2>2 DEF CallFacts
<1>3. ~Seen(a)
  BY <1>2 DEF CoreInv, BindInv, EntryFacts, Seen
<1>4. b # a /\ b # Vacant
  BY <1>2, <1>3 DEF Wants, Vacant, Known
<1>5. /\ made[b].label \in Labels /\ made[a].label \in Labels
      /\ slot \in [Labels -> Bindings \cup {Vacant}]
  BY <1>2, MadeTyping DEF TypeOK
<1>6. \/ slot' = slot
      \/ slot[made[a].label] = Vacant /\ slot' = [slot EXCEPT ![made[a].label] = a]
  BY DEF Register
<1>7. QED
  BY <1>1, <1>4, <1>5, <1>6 DEF InSlot

\* A service is withdrawn, and its dependents are told before its release ends.
LEMMA UnregisterTells ==
    ASSUME CoreInv, NEW t \in Threads, Unregister(t), NEW x \in Fibers, NEW b \in Known,
           Wants(x, b)
    PROVE  (InSlot(b)' <=> InSlot(b)) \/ Told(x, b)'
<1>1. stack[t] # <<>> /\ Top(t).at = "unregister" /\ made' = made
  BY DEF Unregister, In
<1> PICK a : a = Top(t).b
  OBVIOUS
<1>2. /\ TypeOK /\ a \in Known /\ a \in Bindings
  <2>1. TypeOK /\ BindInv /\ Top(t).at \in EntryCalls
    BY <1>1 DEF CoreInv, EntryCalls, Releasing
  <2>2. QED
    BY <1>1, <2>1, EntryCallFits
<1>3. /\ made[b].label \in Labels /\ made[a].label \in Labels
      /\ slot \in [Labels -> Bindings \cup {Vacant}] /\ b # Vacant
  <2>1. b # Vacant
    BY <1>2 DEF Known, Vacant
  <2>2. slot \in [Labels -> Bindings \cup {Vacant}]
    BY <1>2 DEF TypeOK
  <2>3. QED
    BY <1>2, <2>1, <2>2, MadeTyping
<1>4. \/ slot' = slot
      \/ slot[made[a].label] = a /\ slot' = [slot EXCEPT ![made[a].label] = Vacant]
  BY DEF Unregister
<1>5. CASE b # a
  BY <1>1, <1>3, <1>4, <1>5 DEF InSlot
<1>6. CASE b = a
  <2>1. PICK c, g, k : /\ Step(t, c) /\ IsTwo(c, g, k)
                       /\ Moved(g, Top(t), "unpin")
                       /\ IsNotification(k, Top(t).f, made[a].name, made[a].label)
    BY <1>1, <1>2, UnregisterStep
  <2>2. /\ g.at = "unpin" /\ g.b = b
        /\ k.at = "notify" /\ k.name = made[b].name /\ k.label = made[b].label
    BY <1>6, <2>1 DEF Moved, IsNotification, IsCall
  <2>3. ASSUME InSlot(b), ~InSlot(b)' PROVE Waits(g, b)' /\ Tells(k, x, b)'
    BY <1>1, <2>2, <2>3 DEF Waits, Tells
  <2> PICK n : n = Len(stack[t])
    OBVIOUS
  <2>4. /\ n \in Nat \ {0} /\ Changes(t, n - 1, c) /\ Len(c) = 2 /\ c[1] = g /\ c[2] = k
    BY <1>1, <1>2, <2>1 DEF Step, IsTwo
  <2>5. /\ Len(stack'[t]) = (n - 1) + Len(c)
        /\ \A i \in 1..Len(c) : stack'[t][(n - 1) + i] = c[i]
    BY <2>4 DEF Changes
  <2>6. 1 \in 1..Len(c) /\ 2 \in 1..Len(c) /\ (n - 1) + 1 = n /\ (n - 1) + 2 = n + 1
    BY <2>4
  <2>7. Len(stack'[t]) = n + 1 /\ stack'[t][n] = g /\ stack'[t][n + 1] = k
    BY <2>4, <2>5
  <2>8. n \in 1..Len(stack'[t]) /\ n + 1 \in 1..Len(stack'[t]) /\ n < n + 1
    BY <2>4, <2>7
  <2>9. ~InSlot(b) => ~InSlot(b)'
    BY <1>1, <1>3, <1>4 DEF InSlot
  <2>10. QED
    BY <2>3, <2>7, <2>8, <2>9 DEF Told
<1>7. QED
  BY <1>5, <1>6

LEMMA ServesCurrent ==
    ASSUME CoreInv, GenerationInv, PhaseInv, CurrentInv, NEW t \in Threads, Serves(t)
    PROVE  CurrentInv'
<1>1. PICK k, c : Served(t, k, c)
  BY ServedStep
<1>2. UNCHANGED <<state, epoch, dirty, disposed>>
  BY DEF Serves, ForceReload, RemoveFiber, Update, Provide, Register, Refused, Pin, Tell,
         Install, RequestDispose, EnterOnce, Unregister, Unpin, Unlist, generation, driver
<1>3. TypeOK /\ made \in Seq([provider : Fibers, name : Names, label : Labels])
  BY DEF CoreInv, TypeOK
<1>4. MadeStays
  <2>1. CASE made' = made
    BY <2>1 DEF MadeStays, Known
  <2>2. ASSUME NEW r, made' = Append(made, r) PROVE MadeStays
    <3>1. Len(made) \in Nat
      BY <1>3
    <3>2. \A b \in 1..Len(made) : b \in 1..Len(made') /\ made'[b] = made[b]
      BY <1>3, <2>2
    <3>3. QED
      BY <3>2 DEF MadeStays, Known
  <2>3. made' = made \/ \E r : made' = Append(made, r)
    BY DEF Serves, ForceReload, RemoveFiber, Update, Provide, Register, Refused, Pin, Tell,
           Install, RequestDispose, EnterOnce, Unregister, Unpin, Unlist, registry
  <2>4. QED
    BY <2>1, <2>2, <2>3
<1>5. ASSUME NEW x \in Fibers, NEW b \in Known, Wants(x, b)
      PROVE  (InSlot(b)' <=> InSlot(b)) \/ Told(x, b)'
  <2>1. CASE Register(t)
    BY <1>5, <2>1, RegisterTakes
  <2>2. CASE Unregister(t)
    BY <1>5, <2>2, UnregisterTells
  <2>3. CASE slot' = slot
    BY <1>4, <2>3 DEF InSlot, MadeStays
  <2>4. Register(t) \/ Unregister(t) \/ slot' = slot
    BY DEF Serves, ForceReload, RemoveFiber, Update, Provide, Refused, Pin, Tell,
           Install, RequestDispose, EnterOnce, Unpin, Unlist, registry
  <2>5. QED
    BY <2>1, <2>2, <2>3, <2>4
<1>6. QED
  BY <1>1, <1>2, <1>4, <1>5, ServedCurrent

\* A notification calls those it concerns, or they are being disposed.
LEMMA NotifyHandsOn ==
    ASSUME CoreInv, PhaseInv, NEW t \in Threads, Notify(t), NEW x \in Fibers,
           NEW b \in Known, Wants(x, b), Told(x, b)
    PROVE  Reached(x, b)'
<1> PICK h : h = Top(t)
  OBVIOUS
<1>1. TypeOK /\ stack[t] # <<>> /\ h.at = "notify"
  BY DEF CoreInv, Notify, In
<1>2. UNCHANGED <<slot, made, attached, loaded, disposed>>
  BY DEF Notify, registry, driver, calls
<1>3. PICK c : /\ Step(t, c)
               /\ \A f \in Injecting(h.name, h.label) : \E i \in 1..Len(c) :
                     IsCall(c[i], "begin", f, Vacant)
  BY <1>1, NotifyStep
<1>4. made'[b] = made[b] /\ (InSlot(b)' <=> InSlot(b))
  BY <1>2 DEF InSlot
<1>5. CASE ~Tells(h, x, b)
  <2>1. \A i \in 1..Len(stack[t]) : i > Len(stack[t]) - 1 => stack[t][i] = h
    BY <1>1 DEF Top
  <2>2. Told(x, b)'
    BY <1>1, <1>3, <1>4, <1>5, <2>1, ToldKept DEF Step
  <2>3. QED
    BY <2>2 DEF Reached
<1>6. CASE Tells(h, x, b)
  <2>1. h.name = made[b].name /\ h.label = made[b].label
    BY <1>1, <1>6 DEF Tells
  <2>2. CASE x \in attached
    <3>1. x \in Injecting(h.name, h.label)
      BY <2>1, <2>2 DEF Injecting, Wants
    <3>2. PICK i \in 1..Len(c) : IsCall(c[i], "begin", x, Vacant)
      BY <1>3, <3>1
    <3> PICK g : g = c[i]
      OBVIOUS
    <3>3. Tells(g, x, b)'
      BY <3>2 DEF IsCall, Tells
    <3>4. Told(x, b)'
      BY <1>1, <1>3, <1>4, <3>3, ToldHandedOn
    <3>5. QED
      BY <3>4 DEF Reached
  <2>3. CASE x \notin attached
    <3>1. disposed[x]
      BY <2>3 DEF PhaseInv, FiberPhase, Wants
    <3>2. QED
      BY <1>2, <3>1 DEF Reached
  <2>4. QED
    BY <2>2, <2>3
<1>7. QED
  BY <1>5, <1>6

\* The names of a provider are announced where its services are registered.
LEMMA NotifyProvidedHandsOn ==
    ASSUME CoreInv, NEW t \in Threads, NotifyProvided(t), NEW x \in Fibers,
           NEW b \in Known, Wants(x, b), Down(b), Told(x, b)
    PROVE  Told(x, b)'
<1> PICK h : h = Top(t)
  OBVIOUS
<1>1. /\ TypeOK /\ SlotsFit /\ MadeFit /\ stack[t] # <<>> /\ h.at = "names"
  BY DEF CoreInv, BindInv, NotifyProvided, In
<1>2. UNCHANGED <<slot, made>>
  BY DEF NotifyProvided, registry
<1>3. PICK c : /\ Step(t, c)
               /\ \A n \in Provided(h.f) : \E i \in 1..Len(c) :
                     IsNotification(c[i], h.f, n, Scope[h.f][n])
  BY <1>1, NotifyProvidedStep
<1>4. made'[b] = made[b] /\ (InSlot(b)' <=> InSlot(b))
  BY <1>2 DEF InSlot
<1>5. CASE ~Tells(h, x, b)
  <2>1. \A i \in 1..Len(stack[t]) : i > Len(stack[t]) - 1 => stack[t][i] = h
    BY <1>1 DEF Top
  <2>2. QED
    BY <1>1, <1>3, <1>4, <1>5, <2>1, ToldKept DEF Step
<1>6. CASE Tells(h, x, b)
  <2>1. InSlot(b) /\ h.f = made[b].provider
    BY <1>1, <1>6 DEF Tells
  <2>2. Aligned
    BY <2>1 DEF Down
  <2> PICK n, l : n = made[b].name /\ l = made[b].label
    OBVIOUS
  <2>3. l = Scope[h.f][n] /\ l \in Labels
    BY <1>1, <2>1, <2>2, MadeTyping DEF MadeFit, Aligned
  <2>4. slot[l] = b /\ slot[l] # Vacant /\ made[slot[l]].provider = h.f
    BY <1>1, <2>1 DEF InSlot, Known, Vacant
  <2>5. n \in Provided(h.f)
    BY <2>3, <2>4 DEF Provided
  <2>6. PICK i \in 1..Len(c) : IsNotification(c[i], h.f, n, Scope[h.f][n])
    BY <1>3, <2>5
  <2> PICK g : g = c[i]
    OBVIOUS
  <2>7. g.at = "notify" /\ g.name = n /\ g.label = l
    BY <2>3, <2>6 DEF IsNotification, IsCall
  <2>8. Tells(g, x, b)'
    BY <1>2, <2>7 DEF Tells
  <2>9. QED
    BY <1>1, <1>3, <1>4, <2>8, ToldHandedOn
<1>7. QED
  BY <1>5, <1>6

LEMMA NotifiedCurrent ==
    ASSUME CoreInv, GenerationInv, PhaseInv, CurrentInv, NEW t \in Threads,
           Notify(t) \/ NotifyProvided(t)
    PROVE  CurrentInv'
<1>1. TypeOK /\ SlotsFit /\ stack[t] # <<>> /\ Top(t).at \in {"notify", "names"}
  BY DEF CoreInv, BindInv, Notify, NotifyProvided, In
<1>2. UNCHANGED <<slot, made, state, epoch, dirty, disposed>>
  BY DEF Notify, NotifyProvided, registry, generation, driver
<1>3. \E c : Step(t, c) /\ \A i \in 1..Len(c) : c[i].at \in {"begin", "notify"}
  <2>1. CASE Notify(t)
    BY <1>1, <2>1, NotifyBegins
  <2>2. CASE NotifyProvided(t)
    <3>1. PICK c : Step(t, c) /\ \A i \in 1..Len(c) : \E n \in Provided(Top(t).f) :
                      IsNotification(c[i], Top(t).f, n, Scope[Top(t).f][n])
      BY <1>1, <2>2, NotifyProvidedStep
    <3>2. \A i \in 1..Len(c) : c[i].at = "notify"
      BY <3>1 DEF IsNotification, IsCall
    <3>3. QED
      BY <3>1, <3>2
  <2>3. QED
    BY <2>1, <2>2
<1> PICK c : Step(t, c) /\ \A i \in 1..Len(c) : c[i].at \in {"begin", "notify"}
  BY <1>3
<1>4. ASSUME NEW g \in New(c) PROVE CurrentFacts(g)'
  BY DEF New, CurrentFacts, Looking, Loads
<1>5. ASSUME NEW x \in Fibers PROVE Warned(x)
  <2>1. \A b : (InSlot(b)' <=> InSlot(b)) /\ (Down(b)' <=> Down(b))
    BY <1>2 DEF Down, InSlot
  <2>2. \A b \in Known : ~InSlot(b) => Down(b)
    BY DEF Down
  <2>3. ASSUME NEW b \in Known, Wants(x, b), Down(b), Told(x, b) PROVE Reached(x, b)'
    <3>1. CASE Notify(t)
      BY <2>3, <3>1, NotifyHandsOn
    <3>2. CASE NotifyProvided(t)
      BY <2>3, <3>2, NotifyProvidedHandsOn DEF Reached
    <3>3. QED
      BY <3>1, <3>2
  <2>4. ASSUME NEW b \in Known, Wants(x, b), Down(b), Reached(x, b) PROVE Reached(x, b)'
    <3>1. CASE Told(x, b)
      BY <2>3, <2>4, <3>1
    <3>2. CASE ~Told(x, b)
      BY <1>2, <2>4, <3>2 DEF Reached
    <3>3. QED
      BY <3>1, <3>2
  <2>5. QED
    BY <2>1, <2>2, <2>4 DEF Warned
<1> PICK none : none = {}
  OBVIOUS
<1>6. /\ \A i \in 1..Len(stack[t]) :
           i > Len(stack[t]) - 1 /\ Replaces(stack[t][i]) => stack[t][i].f \in none
      /\ \A g \in Rest(t, Len(stack[t]) - 1) : g.f \in none => g.at \notin Looking \cup Loads
      /\ \A x \in none : FiberCurrent(x)'
  <2>1. \A i \in 1..Len(stack[t]) : i > Len(stack[t]) - 1 => stack[t][i] = Top(t)
    BY <1>1 DEF Top
  <2>2. ~Replaces(Top(t))
    BY <1>1 DEF Replaces, Looking, Loads, Unloads
  <2>3. QED
    BY <2>1, <2>2
<1>7. \A x \in Fibers \ none : Warned(x) /\ epoch'[x] = epoch[x]
  BY <1>2, <1>5
<1>8. Changes(t, Len(stack[t]) - 1, c)
  BY DEF Step
<1>9. QED
  BY <1>4, <1>6, <1>7, <1>8, CurrentStep

LEMMA RequestCurrent ==
    ASSUME CoreInv, GenerationInv, PhaseInv, CurrentInv, NEW t \in Threads, Request(t)
    PROVE  CurrentInv'
<1>1. PICK c : /\ Starts(t, c)
               /\ \A g \in New(c) : Phaseless(g) \/ (g.at = "remove" /\ disposed'[g.f])
  BY RequestCalls
<1>2. TypeOK /\ Changes(t, 0, c) /\ Len(stack[t]) = 0
  BY <1>1 DEF CoreInv, Starts
<1>3. /\ UNCHANGED <<slot, made, state, epoch>>
      /\ \A x \in Fibers : /\ dirty[x] => dirty'[x]
                           /\ disposed[x] => disposed'[x]
  <2>1. dirty \in [Fibers -> BOOLEAN] /\ disposed \in [Fibers -> BOOLEAN]
    BY <1>2 DEF TypeOK
  <2>2. CASE \E f \in Fibers : Dispose(t, f)
    BY <2>1, <2>2 DEF Dispose, registry, generation
  <2>3. CASE ~\E f \in Fibers : Dispose(t, f)
    BY <2>3 DEF Request, Load, Restart, ProvideAgain, Set, Withdraw, registry, generation,
                driver
  <2>4. QED
    BY <2>2, <2>3
<1>4. \A b : (InSlot(b)' <=> InSlot(b)) /\ (Down(b)' <=> Down(b)) /\ made'[b] = made[b]
  BY <1>3 DEF Down, InSlot
<1>5. \A i \in 1..Len(stack[t]) : FALSE
  BY <1>2
<1>6. ASSUME NEW x \in Fibers PROVE Warned(x)
  <2>1. \A b : Told(x, b) => Told(x, b)'
    BY <1>2, <1>4, <1>5, ToldKept
  <2>2. \A b : Reached(x, b) => Reached(x, b)'
    BY <1>3, <2>1 DEF Reached
  <2>3. QED
    BY <1>4, <2>2 DEF Warned
<1>7. ASSUME NEW g \in New(c) PROVE CurrentFacts(g)'
  <2>1. g.at \notin Looking \cup Loads
    BY <1>1 DEF Phaseless, Owning, Looking, Loads
  <2>2. QED
    BY <2>1 DEF CurrentFacts, Looking
<1> PICK none : none = {}
  OBVIOUS
<1>8. \A x \in Fibers \ none : Warned(x) /\ epoch'[x] = epoch[x]
  BY <1>3, <1>6
<1>9. /\ \A g \in Rest(t, 0) : g.f \in none => g.at \notin Looking \cup Loads
      /\ \A i \in 1..Len(stack[t]) : i > 0 /\ Replaces(stack[t][i]) => stack[t][i].f \in none
      /\ \A x \in none : FiberCurrent(x)'
  BY <1>5
<1>10. QED
  BY <1>2, <1>7, <1>8, <1>9, CurrentStep

LEMMA CurrentSame ==
    ASSUME CurrentInv, UNCHANGED <<slot, made, state, epoch, dirty, disposed, stack>>
    PROVE  CurrentInv'
<1>1. Calls' = Calls
  BY DEF Calls
<1>2. \A x, b : Told(x, b)' <=> Told(x, b)
  BY DEF Told, Waits, Tells, InSlot
<1>3. \A x, b : /\ Reached(x, b)' <=> Reached(x, b)
                /\ Down(b)' <=> Down(b)
                /\ InSlot(b)' <=> InSlot(b)
  BY <1>2 DEF Reached, Down, InSlot
<1>4. \A x : Replacing(x)' <=> Replacing(x)
  BY <1>1 DEF Replacing
<1>5. \A g : CurrentFacts(g)' <=> CurrentFacts(g)
  BY <1>3 DEF CurrentFacts
<1>6. QED
  BY <1>1, <1>3, <1>4, <1>5 DEF CurrentInv

LEMMA CurrentInit == Init => CurrentInv
<1> SUFFICES ASSUME Init PROVE CurrentInv
  OBVIOUS
<1>1. Calls = {}
  BY DEF Init, Calls
<1>2. \A f \in Fibers : epoch[f] \ Inactive = {}
  BY DEF Init
<1>3. QED
  BY <1>1, <1>2 DEF CurrentInv

LEMMA CurrentNext ==
    ASSUME CoreInv, GenerationInv, PhaseInv, CurrentInv, [Next]_vars
    PROVE  CurrentInv'
<1>1. ASSUME NEW t \in Threads, Request(t) PROVE CurrentInv'
  BY <1>1, RequestCurrent
<1>2. ASSUME NEW t \in Threads, Driving(t) PROVE CurrentInv'
  BY <1>2, ServesCurrent, BeginTransitionCurrent, BeginPassCurrent, EndPassCurrent,
     SyncCurrent, FetchCurrent, CheckCurrent, ProbeCurrent, ApplyUnloadCurrent,
     ReloadCurrent DEF Driving, Serves
<1>3. ASSUME NEW t \in Threads, Generating(t) PROVE CurrentInv'
  BY <1>3, LoadGenerationCurrent, SetLoadingCurrent, RecheckCurrent, GiveBackCurrent,
     GaveBackCurrent, CommitCurrent, RunBodyCurrent, ActivateCurrent, SetActiveCurrent,
     FailCurrent, SetFailedCurrent, UnloadCurrent, SetUnloadingCurrent, ClearCurrent,
     UnloadedCurrent, SetPendingCurrent, FinalizeDisposeCurrent DEF Generating
<1>4. ASSUME NEW t \in Threads, Serving(t) PROVE CurrentInv'
  BY <1>4, ServesCurrent, NotifiedCurrent DEF Serving, Serves
<1>5. ASSUME NEW b \in Bindings, Waver(b) PROVE CurrentInv'
  BY <1>5, CurrentSame DEF Waver, generation, driver
<1>6. CASE UNCHANGED vars
  BY <1>6, CurrentSame DEF vars, registry, generation, driver
<1>7. QED
  BY <1>1, <1>2, <1>3, <1>4, <1>5, <1>6 DEF Next, Proceed, Stop

LEMMA CurrentAlways == Spec => []CurrentInv
<1>1. Init => CurrentInv
  BY CurrentInit
<1>2. CoreInv /\ GenerationInv /\ PhaseInv /\ CurrentInv /\ [Next]_vars => CurrentInv'
  BY CurrentNext
<1>3. QED
  BY <1>1, <1>2, CoreAlways, GenerationAlways, PhaseAlways, PTL DEF Spec

\* A fiber at rest on a binding that goes away has been told of it.
LEMMA AtRestTold ==
    ASSUME CoreInv, PhaseInv, CurrentInv, NEW f \in Fibers, NEW b \in epoch[f] \ Inactive,
           ~busy[f], ~disposed[f], Down(b)
    PROVE  Told(f, b)
<1>1. Reached(f, b) \/ Replacing(f)
  BY DEF CurrentInv
<1>2. ~dirty[f]
  BY DEF PhaseInv, FiberPhase
<1>3. ~Replacing(f)
  <2>1. ASSUME NEW g \in Calls, g.f = f, Replaces(g) PROVE FALSE
    <3>1. g.at \in Owning
      BY <2>1 DEF Replaces, Owning
    <3>2. QED
      BY <2>1, <3>1 DEF CoreInv, CallInv, BusyOwned, Has
  <2>2. QED
    BY <2>1 DEF Replacing
<1>4. QED
  BY <1>1, <1>2, <1>3 DEF Reached

LEMMA ReleasedLeavesNobody ==
    ASSUME CoreInv, PhaseInv, CurrentInv
    PROVE  NoStaleGeneration
<1>1. SUFFICES ASSUME NEW b \in Bindings, once[b] = "done", NEW f \in Fibers, RestsOn(f, b)
               PROVE  FALSE
  BY DEF NoStaleGeneration
<1>2. ~InSlot(b) /\ Down(b)
  BY <1>1 DEF CoreInv, BindInv, EntryFacts, Down
<1>3. b \in epoch[f] \ Inactive /\ ~busy[f] /\ ~disposed[f]
  BY <1>1 DEF RestsOn, Bindings, Inactive, Vacant
<1>4. Told(f, b)
  BY <1>2, <1>3, AtRestTold
<1>5. PICK t \in Threads : \E i, j \in 1..Len(stack[t]) :
              i < j /\ Waits(stack[t][i], b) /\ Tells(stack[t][j], f, b)
  BY <1>4 DEF Told
<1>6. PICK i \in 1..Len(stack[t]) : Waits(stack[t][i], b)
  BY <1>5
<1> PICK g : g = stack[t][i]
  OBVIOUS
<1>7. g.at = "unpin" /\ g.b = b
  BY <1>2, <1>6 DEF Waits
<1>8. g \in Calls
  BY CallsOf
<1>9. once[b] = "running"
  BY <1>7, <1>8 DEF CoreInv, BindInv, CallFacts, Releasing
<1>10. QED
  BY <1>1, <1>9

LEMMA DependentsUnloaded ==
    ASSUME CoreInv, GenerationInv, PhaseInv, CurrentInv, Aligned
    PROVE  DependentsFirst
<1>1. SUFFICES ASSUME NEW l \in Labels, NEW f \in Fibers, slot[l] # Vacant,
                      RestsOn(f, slot[l]), NEW t \in Threads, 
                      Unwinding(t, made[slot[l]].provider)
               PROVE  FALSE
  BY DEF DependentsFirst
<1> PICK b, p : b = slot[l] /\ p = made[b].provider
  OBVIOUS
<1>2. TypeOK /\ OneOwner
  BY DEF CoreInv, CallInv
<1>3. InSlot(b) /\ b # Vacant
  BY <1>1 DEF CoreInv, BindInv, SlotsFit, InSlot
<1>4. PICK k \in DOMAIN stack[t] :
          /\ stack[t][k].f = p
          /\ stack[t][k].at = "unwind" \/ (stack[t][k].at = "clear" /\ k = Len(stack[t]))
  BY <1>1 DEF Unwinding
<1>5. k \in 1..Len(stack[t]) /\ Len(stack[t]) \in Nat
  BY <1>2, <1>4, Typing
<1> PICK g : g = stack[t][k]
  OBVIOUS
<1>6. g \in Calls
  BY <1>5, CallsOf
<1>7. state[p] = "unloading"
  BY <1>4, <1>6 DEF GenerationInv, GenerationFacts, Winding
<1>8. Down(b)
  BY <1>7 DEF Down
<1>9. Told(f, b)
  <2>1. b \in epoch[f] \ Inactive /\ ~busy[f] /\ ~disposed[f]
    BY <1>1 DEF RestsOn, Inactive
  <2>2. QED
    BY <1>8, <2>1, AtRestTold
<1>10. PICK u \in Threads : \E i, j \in 1..Len(stack[u]) :
              i < j /\ Waits(stack[u][i], b) /\ Tells(stack[u][j], f, b)
  BY <1>9 DEF Told
<1>11. PICK i, j \in 1..Len(stack[u]) : i < j /\ Waits(stack[u][i], b)
  BY <1>10
<1> PICK h : h = stack[u][i]
  OBVIOUS
<1>12. h.at = "clear" /\ h.f = p
  BY <1>3, <1>11 DEF Waits
<1>13. u = t /\ i = k
  BY <1>2, <1>4, <1>5, <1>12 DEF OneOwner, Owning, Unloads
<1>14. QED
  BY <1>4, <1>5, <1>11, <1>12, <1>13

\* Once the release of a service is over, no fiber is left at rest on it with
\* its generation running: the release takes the binding out, notifies its name
\* and scope, and only then unpins it, and notify returns after every fiber that
\* injects the name has looked again or has been marked for its driver
\* (Unregister, notify, refresh). How the fibers are arranged does not matter.
THEOREM ReleasedServicesUnused == Spec => []NoStaleGeneration
<1>1. CoreInv /\ PhaseInv /\ CurrentInv => NoStaleGeneration
  BY ReleasedLeavesNobody
<1>2. QED
  BY <1>1, CoreAlways, PhaseAlways, CurrentAlways, PTL

\* A provider that unloads does not take its services away under a fiber at
\* rest that still runs on them: setState to unloading announces its services
\* before clear reaches the effects, and an announcement returns only after the
\* fibers it is for have been refreshed, or are being driven by another
\* goroutine (setState, notifyProvided, unload).
THEOREM DependentsUnloadFirst ==
    ASSUME Aligned
    PROVE  Spec => []DependentsFirst
<1>1. CoreInv /\ GenerationInv /\ PhaseInv /\ CurrentInv => DependentsFirst
  BY DependentsUnloaded
<1>2. QED
  BY <1>1, CoreAlways, GenerationAlways, PhaseAlways, CurrentAlways, PTL
=============================================================================
