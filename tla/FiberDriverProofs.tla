------------------------- MODULE FiberDriverProofs -------------------------
(***************************************************************************)
(* Proofs about FiberDriver, for every set of goroutines, every set of     *)
(* configs and every bound: the driver keeps DriverInv                     *)
(* (FiberDriverInvariant), hence its safety properties, and implements the *)
(* lifecycle of FiberLifecycle.                                            *)
(*                                                                         *)
(* The lemmas follow the groups of Next, one step per action.              *)
(***************************************************************************)
EXTENDS FiberDriverInvariant, TLAPS

USE ConstantsAssumption DEF Inactive, Epochs, Goto

----------------------------------------------------------------------------
(* Type correctness. *)

\* The steps of Request keep every flag Boolean.
LEMMA FlagsRequest ==
    ASSUME NEW t \in Threads, FlagsOK, Request(t)
    PROVE  FlagsOK'
<1> USE DEF FlagsOK, generation, driver, effects, plumbing, services, locals
<1>1. CASE Provide(t)
  BY <1>1, Zenon DEF Provide
<1>2. CASE Withdraw(t)
  BY <1>2, Zenon DEF Withdraw
<1>3. CASE Restart(t)
  BY <1>3, Zenon DEF Restart
<1>4. CASE Update(t)
  BY <1>4, Zenon DEF Update
<1>5. CASE Dispose(t)
  BY <1>5, Zenon DEF Dispose
<1>6. CASE RegisterStray(t)
  BY <1>6, Zenon DEF RegisterStray
<1>7. CASE ReleaseStray(t)
  BY <1>7, Zenon DEF ReleaseStray
<1>8. QED
  BY <1>1, <1>2, <1>3, <1>4, <1>5, <1>6, <1>7 DEF Request

\* The steps of Request keep every other variable in its type.
LEMMA DataRequest ==
    ASSUME NEW t \in Threads, DataOK, Request(t)
    PROVE  DataOK'
<1> USE DEF DataOK, FiberStates, CallPCs, UnloadPCs, LoadPCs, OwnerPCs,
        Continuations, generation, driver, effects, plumbing, services, locals
<1>1. CASE Provide(t)
  BY <1>1 DEF Provide
<1>2. CASE Withdraw(t)
  BY <1>2 DEF Withdraw
<1>3. CASE Restart(t)
  BY <1>3 DEF Restart
<1>4. CASE Update(t)
  BY <1>4 DEF Update
<1>5. CASE Dispose(t)
  BY <1>5 DEF Dispose
<1>6. CASE RegisterStray(t)
  BY <1>6 DEF RegisterStray
<1>7. CASE ReleaseStray(t)
  BY <1>7 DEF ReleaseStray
<1>8. QED
  BY <1>1, <1>2, <1>3, <1>4, <1>5, <1>6, <1>7 DEF Request

\* The steps of Calling keep every flag Boolean.
LEMMA FlagsCalling ==
    ASSUME NEW t \in Threads, FlagsOK, Calling(t)
    PROVE  FlagsOK'
<1> USE DEF FlagsOK, generation, driver, effects, plumbing, services, locals
<1>1. CASE Attach(t)
  BY <1>1, Zenon DEF Attach
<1>2. CASE Notify(t)
  BY <1>2, Zenon DEF Notify
<1>3. CASE ForceReload(t)
  BY <1>3, Zenon DEF ForceReload
<1>4. CASE ReplaceConfig(t)
  BY <1>4, Zenon DEF ReplaceConfig
<1>5. CASE Cancel(t)
  BY <1>5, Zenon DEF Cancel
<1>6. CASE RemoveFiber(t)
  BY <1>6, Zenon DEF RemoveFiber
<1>7. CASE Announce(t)
  BY <1>7, Zenon DEF Announce
<1>8. CASE BeginTransition(t)
  BY <1>8, Zenon DEF BeginTransition
<1>9. QED
  BY <1>1, <1>2, <1>3, <1>4, <1>5, <1>6, <1>7, <1>8 DEF Calling

\* The steps of Calling keep every other variable in its type.
LEMMA DataCalling ==
    ASSUME NEW t \in Threads, DataOK, Calling(t)
    PROVE  DataOK'
<1> USE DEF DataOK, FiberStates, CallPCs, UnloadPCs, LoadPCs, OwnerPCs,
        Continuations, generation, driver, effects, plumbing, services, locals
<1>1. CASE Attach(t)
  BY <1>1 DEF Attach
<1>2. CASE Notify(t)
  BY <1>2 DEF Notify
<1>3. CASE ForceReload(t)
  BY <1>3 DEF ForceReload
<1>4. CASE ReplaceConfig(t)
  BY <1>4 DEF ReplaceConfig
<1>5. CASE Cancel(t)
  BY <1>5 DEF Cancel
<1>6. CASE RemoveFiber(t)
  BY <1>6 DEF RemoveFiber
<1>7. CASE Announce(t)
  BY <1>7 DEF Announce
<1>8. CASE BeginTransition(t)
  BY <1>8 DEF BeginTransition
<1>9. QED
  BY <1>1, <1>2, <1>3, <1>4, <1>5, <1>6, <1>7, <1>8 DEF Calling

\* The steps of Driving keep every flag Boolean.
LEMMA FlagsDriving ==
    ASSUME NEW t \in Threads, FlagsOK, Driving(t)
    PROVE  FlagsOK'
<1> USE DEF FlagsOK, generation, driver, effects, plumbing, services, locals
<1>1. CASE BeginPass(t)
  BY <1>1, Zenon DEF BeginPass
<1>2. CASE EndPass(t)
  BY <1>2, Zenon DEF EndPass
<1>3. CASE Sync(t)
  BY <1>3, Zenon DEF Sync, Call
<1>4. CASE Resolve(t)
  BY <1>4, Zenon DEF Resolve
<1>5. CASE Compare(t)
  BY <1>5, Zenon DEF Compare, Call
<1>6. CASE ApplyUnload(t)
  BY <1>6, Zenon DEF ApplyUnload
<1>7. CASE ApplyLoad(t)
  BY <1>7, Zenon DEF ApplyLoad
<1>8. CASE Reload(t)
  BY <1>8, Zenon DEF Reload
<1>9. CASE Reresolve(t)
  BY <1>9, Zenon DEF Reresolve
<1>10. QED
  BY <1>1, <1>2, <1>3, <1>4, <1>5, <1>6, <1>7, <1>8, <1>9 DEF Driving

\* The steps of Driving keep every other variable in its type.
LEMMA DataDriving ==
    ASSUME NEW t \in Threads, DataOK, Driving(t)
    PROVE  DataOK'
<1> USE DEF DataOK, FiberStates, CallPCs, UnloadPCs, LoadPCs, OwnerPCs,
        Continuations, generation, driver, effects, plumbing, services, locals
<1>1. CASE BeginPass(t)
  BY <1>1 DEF BeginPass
<1>2. CASE EndPass(t)
  BY <1>2 DEF EndPass
<1>3. CASE Sync(t)
  BY <1>3 DEF Sync, Call
<1>4. CASE Resolve(t)
  BY <1>4 DEF Resolve
<1>5. CASE Compare(t)
  BY <1>5 DEF Compare, Call
<1>6. CASE ApplyUnload(t)
  BY <1>6 DEF ApplyUnload
<1>7. CASE ApplyLoad(t)
  BY <1>7 DEF ApplyLoad
<1>8. CASE Reload(t)
  BY <1>8 DEF Reload
<1>9. CASE Reresolve(t)
  BY <1>9 DEF Reresolve
<1>10. QED
  BY <1>1, <1>2, <1>3, <1>4, <1>5, <1>6, <1>7, <1>8, <1>9 DEF Driving

\* The steps of Loading keep every flag Boolean.
LEMMA FlagsLoading ==
    ASSUME NEW t \in Threads, FlagsOK, Loading(t)
    PROVE  FlagsOK'
<1> USE DEF FlagsOK, generation, driver, effects, plumbing, services, locals
<1>1. CASE Load(t)
  BY <1>1, Zenon DEF Load
<1>2. CASE SetLoading(t)
  BY <1>2, Zenon DEF SetLoading, SetState
<1>3. CASE Recheck(t)
  BY <1>3, Zenon DEF Recheck
<1>4. CASE GiveBack(t)
  BY <1>4, Zenon DEF GiveBack
<1>5. CASE GaveBack(t)
  BY <1>5, Zenon DEF GaveBack, SetState
<1>6. CASE Commit(t)
  BY <1>6, Zenon DEF Commit
<1>7. CASE Configure(t)
  BY <1>7, Zenon DEF Configure
<1>8. CASE RunBody(t)
  BY <1>8, Zenon DEF RunBody
<1>9. CASE BodyReturns(t)
  BY <1>9, Zenon DEF BodyReturns
<1>10. CASE Activate(t)
  BY <1>10, Zenon DEF Activate, Call
<1>11. CASE SetActive(t)
  BY <1>11, Zenon DEF SetActive, SetState
<1>12. CASE Fail(t)
  BY <1>12, Zenon DEF Fail, Call
<1>13. CASE Failed(t)
  BY <1>13, Zenon DEF Failed
<1>14. CASE SetFailed(t)
  BY <1>14, Zenon DEF SetFailed, SetState
<1>15. QED
  BY <1>1, <1>2, <1>3, <1>4, <1>5, <1>6, <1>7, <1>8, <1>9, <1>10, <1>11,
     <1>12, <1>13, <1>14 DEF Loading

\* The steps of Loading keep every other variable in its type.
LEMMA DataLoading ==
    ASSUME NEW t \in Threads, DataOK, Loading(t)
    PROVE  DataOK'
<1> USE DEF DataOK, FiberStates, CallPCs, UnloadPCs, LoadPCs, OwnerPCs,
        Continuations, generation, driver, effects, plumbing, services, locals
<1>1. CASE Load(t)
  BY <1>1 DEF Load
<1>2. CASE SetLoading(t)
  BY <1>2 DEF SetLoading, SetState
<1>3. CASE Recheck(t)
  BY <1>3 DEF Recheck
<1>4. CASE GiveBack(t)
  BY <1>4 DEF GiveBack
<1>5. CASE GaveBack(t)
  BY <1>5 DEF GaveBack, SetState
<1>6. CASE Commit(t)
  BY <1>6 DEF Commit
<1>7. CASE Configure(t)
  BY <1>7 DEF Configure
<1>8. CASE RunBody(t)
  BY <1>8 DEF RunBody
<1>9. CASE BodyReturns(t)
  BY <1>9 DEF BodyReturns
<1>10. CASE Activate(t)
  BY <1>10 DEF Activate, Call
<1>11. CASE SetActive(t)
  BY <1>11 DEF SetActive, SetState
<1>12. CASE Fail(t)
  BY <1>12 DEF Fail, Call
<1>13. CASE Failed(t)
  BY <1>13 DEF Failed
<1>14. CASE SetFailed(t)
  BY <1>14 DEF SetFailed, SetState
<1>15. QED
  BY <1>1, <1>2, <1>3, <1>4, <1>5, <1>6, <1>7, <1>8, <1>9, <1>10, <1>11,
     <1>12, <1>13, <1>14 DEF Loading

\* The steps of Unloading keep every flag Boolean.
LEMMA FlagsUnloading ==
    ASSUME NEW t \in Threads, FlagsOK, Unloading(t)
    PROVE  FlagsOK'
<1> USE DEF FlagsOK, generation, driver, effects, plumbing, services, locals
<1>1. CASE Unload(t)
  BY <1>1, Zenon DEF Unload
<1>2. CASE SetUnloading(t)
  BY <1>2, Zenon DEF SetUnloading, SetState
<1>3. CASE Clear(t)
  BY <1>3, Zenon DEF Clear
<1>4. CASE Unwind(t)
  BY <1>4, Zenon DEF Unwind
<1>5. CASE Unloaded(t)
  BY <1>5, Zenon DEF Unloaded
<1>6. CASE Repending(t)
  BY <1>6, Zenon DEF Repending, SetState
<1>7. CASE FinalizeDispose(t)
  BY <1>7, Zenon DEF FinalizeDispose, SetState
<1>8. QED
  BY <1>1, <1>2, <1>3, <1>4, <1>5, <1>6, <1>7 DEF Unloading

\* The steps of Unloading keep every other variable in its type.
LEMMA DataUnloading ==
    ASSUME NEW t \in Threads, DataOK, Unloading(t)
    PROVE  DataOK'
<1> USE DEF DataOK, FiberStates, CallPCs, UnloadPCs, LoadPCs, OwnerPCs,
        Continuations, generation, driver, effects, plumbing, services, locals
<1>1. CASE Unload(t)
  BY <1>1 DEF Unload
<1>2. CASE SetUnloading(t)
  BY <1>2 DEF SetUnloading, SetState
<1>3. CASE Clear(t)
  BY <1>3 DEF Clear
<1>4. CASE Unwind(t)
  BY <1>4 DEF Unwind
<1>5. CASE Unloaded(t)
  BY <1>5 DEF Unloaded
<1>6. CASE Repending(t)
  BY <1>6 DEF Repending, SetState
<1>7. CASE FinalizeDispose(t)
  BY <1>7 DEF FinalizeDispose, SetState
<1>8. QED
  BY <1>1, <1>2, <1>3, <1>4, <1>5, <1>6, <1>7 DEF Unloading

\* A step of any goroutine, or none, keeps every variable in its type.
LEMMA TypeNext == TypeOK /\ [Next]_vars => TypeOK'
<1> SUFFICES ASSUME TypeOK, [Next]_vars PROVE TypeOK'
  OBVIOUS
<1>1. CASE UNCHANGED vars
  <2> USE <1>1 DEF vars, generation, driver, effects, plumbing, services,
               locals
  <2>1. FlagsOK'
    BY DEF TypeOK, FlagsOK
  <2>2. DataOK'
    BY DEF TypeOK, DataOK
  <2>3. QED
    BY <2>1, <2>2 DEF TypeOK
<1>2. ASSUME NEW t \in Threads, Request(t) \/ Proceed(t) PROVE TypeOK'
  <2>1. FlagsOK'
    BY <1>2, FlagsRequest, FlagsCalling, FlagsDriving, FlagsLoading,
       FlagsUnloading DEF TypeOK, Proceed
  <2>2. DataOK'
    BY <1>2, DataRequest, DataCalling, DataDriving, DataLoading,
       DataUnloading DEF TypeOK, Proceed
  <2>3. QED
    BY <2>1, <2>2 DEF TypeOK
<1>3. QED
  BY <1>1, <1>2 DEF Next

\* A freshly attached fiber has its types.
LEMMA TypeInit == Init => TypeOK
<1> SUFFICES ASSUME Init PROVE TypeOK
  OBVIOUS
<1>1. FlagsOK
  BY Zenon DEF Init, FlagsOK
<1>2. DataOK
  BY DEF Init, DataOK, FiberStates, CallPCs, Continuations
<1>3. QED
  BY <1>1, <1>2 DEF TypeOK

\* Every field of the fiber (fiber.go, type Fiber) keeps its type, whoever
\* calls into it and however its calls interleave.
THEOREM TypeCorrect == Spec => []TypeOK
<1>1. QED
  BY TypeInit, TypeNext, PTL DEF Spec

----------------------------------------------------------------------------
(* Ownership of the transition. *)

\* A step of a goroutine that owns no transition: it leaves the generation
\* and the effects of the body alone, and may become the owner.
CallStep(t) ==
    /\ ~Owning(t)
    /\ \A u \in Threads : u # t => pc'[u] = pc[u]
    /\ \/ pc'[t] \in CallPCs \cup {"idle"} /\ busy' = busy
       \/ pc'[t] = "pass" /\ ~busy /\ busy'
    /\ disposed => disposed'
    /\ UNCHANGED <<state, live, bodyEffects, unwinding, cont>>

\* A step of the owner: it stays the owner or gives the transition up.
OwnerStep(t) ==
    /\ Owning(t)
    /\ \A u \in Threads : u # t => pc'[u] = pc[u]
    /\ \/ pc'[t] \in OwnerPCs /\ busy' = busy
       \/ pc[t] = "end" /\ pc'[t] = "idle" /\ ~busy'
    /\ UNCHANGED disposed

\* The steps of Request are made by goroutines that own no transition.
LEMMA CallsRequest ==
    ASSUME NEW t \in Threads, TypeOK, Request(t)
    PROVE  CallStep(t)
<1> USE DEF CallStep, Owning, TypeOK, DataOK, CallPCs, UnloadPCs, LoadPCs,
        OwnerPCs, Continuations, generation, driver, effects, plumbing,
        services, locals
<1>1. CASE Provide(t)
  BY <1>1 DEF Provide
<1>2. CASE Withdraw(t)
  BY <1>2 DEF Withdraw
<1>3. CASE Restart(t)
  BY <1>3 DEF Restart
<1>4. CASE Update(t)
  BY <1>4 DEF Update
<1>5. CASE Dispose(t)
  BY <1>5 DEF Dispose
<1>6. CASE RegisterStray(t)
  BY <1>6 DEF RegisterStray
<1>7. CASE ReleaseStray(t)
  BY <1>7 DEF ReleaseStray
<1>8. QED
  BY <1>1, <1>2, <1>3, <1>4, <1>5, <1>6, <1>7 DEF Request

\* The steps of Calling are made by goroutines that own no transition.
LEMMA CallsCalling ==
    ASSUME NEW t \in Threads, TypeOK, Calling(t)
    PROVE  CallStep(t)
<1> USE DEF CallStep, Owning, TypeOK, DataOK, CallPCs, UnloadPCs, LoadPCs,
        OwnerPCs, Continuations, generation, driver, effects, plumbing,
        services, locals
<1>1. CASE Attach(t)
  BY <1>1 DEF Attach
<1>2. CASE Notify(t)
  BY <1>2 DEF Notify
<1>3. CASE ForceReload(t)
  BY <1>3 DEF ForceReload
<1>4. CASE ReplaceConfig(t)
  BY <1>4 DEF ReplaceConfig
<1>5. CASE Cancel(t)
  BY <1>5 DEF Cancel
<1>6. CASE RemoveFiber(t)
  BY <1>6 DEF RemoveFiber
<1>7. CASE Announce(t)
  BY <1>7 DEF Announce
<1>8. CASE BeginTransition(t)
  BY <1>8 DEF BeginTransition
<1>9. QED
  BY <1>1, <1>2, <1>3, <1>4, <1>5, <1>6, <1>7, <1>8 DEF Calling

\* The steps of Driving are made by the owner of the transition.
LEMMA OwnsDriving ==
    ASSUME NEW t \in Threads, TypeOK, Ownership, Driving(t)
    PROVE  OwnerStep(t)
<1> USE DEF OwnerStep, Ownership, Owning, TypeOK, DataOK, CallPCs, UnloadPCs,
        LoadPCs, OwnerPCs, Continuations, generation, driver, effects,
        plumbing, services, locals
<1>1. CASE BeginPass(t)
  BY <1>1 DEF BeginPass
<1>2. CASE EndPass(t)
  BY <1>2 DEF EndPass
<1>3. CASE Sync(t)
  BY <1>3 DEF Sync, Call
<1>4. CASE Resolve(t)
  BY <1>4 DEF Resolve
<1>5. CASE Compare(t)
  BY <1>5 DEF Compare, Call
<1>6. CASE ApplyUnload(t)
  BY <1>6 DEF ApplyUnload
<1>7. CASE ApplyLoad(t)
  BY <1>7 DEF ApplyLoad
<1>8. CASE Reload(t)
  BY <1>8 DEF Reload
<1>9. CASE Reresolve(t)
  BY <1>9 DEF Reresolve
<1>10. QED
  BY <1>1, <1>2, <1>3, <1>4, <1>5, <1>6, <1>7, <1>8, <1>9 DEF Driving

\* The steps of Loading are made by the owner of the transition.
LEMMA OwnsLoading ==
    ASSUME NEW t \in Threads, TypeOK, Ownership, Loading(t)
    PROVE  OwnerStep(t)
<1> USE DEF OwnerStep, Ownership, Owning, TypeOK, DataOK, CallPCs, UnloadPCs,
        LoadPCs, OwnerPCs, Continuations, generation, driver, effects,
        plumbing, services, locals
<1>1. CASE Load(t)
  BY <1>1 DEF Load
<1>2. CASE SetLoading(t)
  BY <1>2 DEF SetLoading, SetState
<1>3. CASE Recheck(t)
  BY <1>3 DEF Recheck
<1>4. CASE GiveBack(t)
  BY <1>4 DEF GiveBack
<1>5. CASE GaveBack(t)
  BY <1>5 DEF GaveBack, SetState
<1>6. CASE Commit(t)
  BY <1>6 DEF Commit
<1>7. CASE Configure(t)
  BY <1>7 DEF Configure
<1>8. CASE RunBody(t)
  BY <1>8 DEF RunBody
<1>9. CASE BodyReturns(t)
  BY <1>9 DEF BodyReturns
<1>10. CASE Activate(t)
  BY <1>10 DEF Activate, Call
<1>11. CASE SetActive(t)
  BY <1>11 DEF SetActive, SetState
<1>12. CASE Fail(t)
  BY <1>12 DEF Fail, Call
<1>13. CASE Failed(t)
  BY <1>13 DEF Failed
<1>14. CASE SetFailed(t)
  BY <1>14 DEF SetFailed, SetState
<1>15. QED
  BY <1>1, <1>2, <1>3, <1>4, <1>5, <1>6, <1>7, <1>8, <1>9, <1>10, <1>11,
     <1>12, <1>13, <1>14 DEF Loading

\* The steps of Unloading are made by the owner of the transition.
LEMMA OwnsUnloading ==
    ASSUME NEW t \in Threads, TypeOK, Ownership, Unloading(t)
    PROVE  OwnerStep(t)
<1> USE DEF OwnerStep, Ownership, Owning, TypeOK, DataOK, CallPCs, UnloadPCs,
        LoadPCs, OwnerPCs, Continuations, generation, driver, effects,
        plumbing, services, locals
<1>1. CASE Unload(t)
  BY <1>1 DEF Unload
<1>2. CASE SetUnloading(t)
  BY <1>2 DEF SetUnloading, SetState
<1>3. CASE Clear(t)
  BY <1>3 DEF Clear
<1>4. CASE Unwind(t)
  BY <1>4 DEF Unwind
<1>5. CASE Unloaded(t)
  BY <1>5 DEF Unloaded
<1>6. CASE Repending(t)
  BY <1>6 DEF Repending, SetState
<1>7. CASE FinalizeDispose(t)
  BY <1>7 DEF FinalizeDispose, SetState
<1>8. QED
  BY <1>1, <1>2, <1>3, <1>4, <1>5, <1>6, <1>7 DEF Unloading

\* Every step is a step of the owner or of somebody else.
LEMMA StepKinds ==
    ASSUME TypeOK, Ownership, NEW t \in Threads, Request(t) \/ Proceed(t)
    PROVE  CallStep(t) \/ OwnerStep(t)
BY CallsRequest, CallsCalling, OwnsDriving, OwnsLoading, OwnsUnloading
   DEF Proceed

\* A step hands the transition to a goroutine only when nobody has it.
LEMMA OwnershipStep ==
    ASSUME Ownership, NEW t \in Threads, CallStep(t) \/ OwnerStep(t)
    PROVE  Ownership'
<1>1. CASE CallStep(t)
  <2>1. CASE pc'[t] \in CallPCs \cup {"idle"} /\ busy' = busy
    BY <1>1, <2>1 DEF CallStep, Ownership, Owning, CallPCs, UnloadPCs, LoadPCs,
                      OwnerPCs
  <2>2. CASE pc'[t] = "pass" /\ ~busy /\ busy'
    BY <1>1, <2>2 DEF CallStep, Ownership, Owning, OwnerPCs
  <2>3. QED
    BY <1>1, <2>1, <2>2 DEF CallStep
<1>2. CASE OwnerStep(t)
  <2>1. CASE pc'[t] \in OwnerPCs /\ busy' = busy
    BY <1>2, <2>1 DEF OwnerStep, Ownership, Owning
  <2>2. CASE pc'[t] = "idle" /\ ~busy'
    BY <1>2, <2>2 DEF OwnerStep, Ownership, Owning, OwnerPCs, UnloadPCs,
                      LoadPCs
  <2>3. QED
    BY <1>2, <2>1, <2>2 DEF OwnerStep
<1>3. QED
  BY <1>1, <1>2

----------------------------------------------------------------------------
(* What the place the owner has reached says of the generation. *)

\* The owner lets go of a fiber at rest only, and finalizes a disposed one.
Reached(t) ==
    /\ pc'[t] = "idle" => Resting'
    /\ state' = "disposed" => disposed'

\* The steps of Driving take the owner to a place whose claim about the
\* generation holds.
LEMMA PhaseDriving ==
    ASSUME NEW t \in Threads, TypeOK, Phases, Held, Ownership, Driving(t)
    PROVE  Phase(t)' /\ Reached(t)
<1> USE DEF Phases, Phase, Reached, Resting, Loaded, Unloadable, DecidingPCs,
        StartingPCs, BodyPCs, ReleasingPCs, FailedPCs, TypeOK, FlagsOK,
        DataOK, CallPCs, UnloadPCs, LoadPCs, OwnerPCs, Continuations,
        generation, driver, effects, plumbing, services, locals
<1>1. CASE BeginPass(t)
  BY <1>1 DEF BeginPass
<1>2. CASE EndPass(t)
  BY <1>2 DEF EndPass
<1>3. CASE Sync(t)
  BY <1>3 DEF Sync, Call
<1>4. CASE Resolve(t)
  BY <1>4 DEF Resolve
<1>5. CASE Compare(t)
  BY <1>5 DEF Compare, Call
<1>6. CASE ApplyUnload(t)
  BY <1>6 DEF ApplyUnload
<1>7. CASE ApplyLoad(t)
  BY <1>7 DEF ApplyLoad
<1>8. CASE Reload(t)
  BY <1>8 DEF Reload
<1>9. CASE Reresolve(t)
  BY <1>9 DEF Reresolve
<1>10. QED
  BY <1>1, <1>2, <1>3, <1>4, <1>5, <1>6, <1>7, <1>8, <1>9 DEF Driving

\* The steps of Loading take the owner to a place whose claim about the
\* generation holds.
LEMMA PhaseLoading ==
    ASSUME NEW t \in Threads, TypeOK, Phases, Held, Ownership, Loading(t)
    PROVE  Phase(t)' /\ Reached(t)
<1> USE DEF Phases, Phase, Reached, Resting, Loaded, Unloadable, DecidingPCs,
        StartingPCs, BodyPCs, ReleasingPCs, FailedPCs, TypeOK, FlagsOK,
        DataOK, CallPCs, UnloadPCs, LoadPCs, OwnerPCs, Continuations,
        generation, driver, effects, plumbing, services, locals
<1>1. CASE Load(t)
  BY <1>1 DEF Load
<1>2. CASE SetLoading(t)
  BY <1>2 DEF SetLoading, SetState
<1>3. CASE Recheck(t)
  BY <1>3 DEF Recheck
<1>4. CASE GiveBack(t)
  BY <1>4 DEF GiveBack
<1>5. CASE GaveBack(t)
  BY <1>5 DEF GaveBack, SetState
<1>6. CASE Commit(t)
  BY <1>6 DEF Commit
<1>7. CASE Configure(t)
  BY <1>7 DEF Configure
<1>8. CASE RunBody(t)
  BY <1>8 DEF RunBody
<1>9. CASE BodyReturns(t)
  BY <1>9 DEF BodyReturns
<1>10. CASE Activate(t)
  BY <1>10 DEF Activate, Call
<1>11. CASE SetActive(t)
  BY <1>11 DEF SetActive, SetState
<1>12. CASE Fail(t)
  BY <1>12 DEF Fail, Call
<1>13. CASE Failed(t)
  BY <1>13 DEF Failed
<1>14. CASE SetFailed(t)
  BY <1>14 DEF SetFailed, SetState
<1>15. QED
  BY <1>1, <1>2, <1>3, <1>4, <1>5, <1>6, <1>7, <1>8, <1>9, <1>10, <1>11,
     <1>12, <1>13, <1>14 DEF Loading

\* The steps of Unloading take the owner to a place whose claim about the
\* generation holds.
LEMMA PhaseUnloading ==
    ASSUME NEW t \in Threads, TypeOK, Phases, Held, Ownership, Unloading(t)
    PROVE  Phase(t)' /\ Reached(t)
<1> USE DEF Phases, Phase, Reached, Resting, Loaded, Unloadable, DecidingPCs,
        StartingPCs, BodyPCs, ReleasingPCs, FailedPCs, TypeOK, FlagsOK,
        DataOK, CallPCs, UnloadPCs, LoadPCs, OwnerPCs, Continuations,
        generation, driver, effects, plumbing, services, locals
<1>1. CASE Unload(t)
  BY <1>1 DEF Unload
<1>2. CASE SetUnloading(t)
  BY <1>2 DEF SetUnloading, SetState
<1>3. CASE Clear(t)
  BY <1>3 DEF Clear
<1>4. CASE Unwind(t)
  BY <1>4 DEF Unwind
<1>5. CASE Unloaded(t)
  BY <1>5 DEF Unloaded
<1>6. CASE Repending(t)
  BY <1>6 DEF Repending, SetState
<1>7. CASE FinalizeDispose(t)
  BY <1>7 DEF FinalizeDispose, SetState
<1>8. QED
  BY <1>1, <1>2, <1>3, <1>4, <1>5, <1>6, <1>7 DEF Unloading

\* The claim about a place outlives the calls of other goroutines.
LEMMA PhaseStable ==
    ASSUME NEW t \in Threads, Phase(t), pc'[t] = pc[t], disposed => disposed',
           UNCHANGED <<state, live, cont>>
    PROVE  Phase(t)'
BY DEF Phase, Resting, Loaded, Unloadable

\* ... and says nothing of a goroutine that owns no transition.
LEMMA PhaseOutside ==
    ASSUME NEW t \in Threads, ~Owning(t)
    PROVE  Phase(t)
BY DEF Owning, Phase, DecidingPCs, StartingPCs, BodyPCs, ReleasingPCs,
       FailedPCs, OwnerPCs, UnloadPCs, LoadPCs

\* A goroutine that becomes the owner finds the fiber at rest.
LEMMA PhasesCall ==
    ASSUME Ownership, Phases, NEW t \in Threads, CallStep(t)
    PROVE  Phases'
<1>1. Resting => Resting'
  BY DEF CallStep, Resting, Loaded
<1>2. ASSUME NEW u \in Threads PROVE Phase(u)'
  <2>1. CASE u # t
    BY <2>1, PhaseStable DEF CallStep, Phases
  <2>2. CASE u = t /\ pc'[t] = "pass"
    <3>1. Resting'
      BY <1>1, <2>2 DEF CallStep, Ownership, Phases, CallPCs
    <3>2. QED
      BY <2>2, <3>1 DEF Phase, StartingPCs, BodyPCs, ReleasingPCs, FailedPCs
  <2>3. CASE u = t /\ pc'[t] \in CallPCs \cup {"idle"}
    BY <2>3 DEF Phase, DecidingPCs, StartingPCs, BodyPCs, ReleasingPCs,
                FailedPCs, CallPCs
  <2>4. QED
    BY <2>1, <2>2, <2>3 DEF CallStep
<1>3. (Resting \/ \E u \in Threads : Owning(u))'
  BY <1>1 DEF Phases, CallStep, Owning
<1>4. (state = "disposed" => disposed)'
  BY DEF Phases, CallStep
<1>5. QED
  BY <1>2, <1>3, <1>4 DEF Phases

\* A step of the owner takes it from one place to another.
LEMMA PhasesOwner ==
    ASSUME Ownership, Phases, NEW t \in Threads, OwnerStep(t),
           Phase(t)', Reached(t)
    PROVE  Phases'
<1>1. ASSUME NEW u \in Threads PROVE Phase(u)'
  <2>1. CASE u # t
    <3>1. ~Owning(u)'
      BY <2>1 DEF OwnerStep, Ownership, Owning
    <3>2. QED
      BY <3>1 DEF Owning, Phase, DecidingPCs, StartingPCs, BodyPCs,
                  ReleasingPCs, FailedPCs, OwnerPCs, UnloadPCs, LoadPCs
  <2>2. QED
    BY <2>1
<1>2. (Resting \/ \E u \in Threads : Owning(u))'
  BY DEF OwnerStep, Owning, Reached
<1>3. QED
  BY <1>1, <1>2 DEF Phases, Reached

----------------------------------------------------------------------------
(* Where the effects of the one generation are. *)

\* Nobody but t owns a transition.
Alone(t) == \A u \in Threads : u # t => ~Owning(u)

\* The steps of Driving keep track of the effects of the one generation.
LEMMA HeldDriving ==
    ASSUME NEW t \in Threads, TypeOK, Phases, Held, Alone(t), Driving(t)
    PROVE  Held'
<1> USE DEF Phases, Phase, Alone, Owning, Held, EmptyPCs, BodyPCs,
        StartingPCs, ReleasingPCs, FailedPCs, TypeOK, FlagsOK, DataOK,
        CallPCs, UnloadPCs, LoadPCs, OwnerPCs, Continuations, generation,
        driver, effects, plumbing, services, locals
<1>1. CASE BeginPass(t)
  BY <1>1 DEF BeginPass
<1>2. CASE EndPass(t)
  BY <1>2 DEF EndPass
<1>3. CASE Sync(t)
  BY <1>3 DEF Sync, Call
<1>4. CASE Resolve(t)
  BY <1>4 DEF Resolve
<1>5. CASE Compare(t)
  BY <1>5 DEF Compare, Call
<1>6. CASE ApplyUnload(t)
  BY <1>6 DEF ApplyUnload
<1>7. CASE ApplyLoad(t)
  BY <1>7 DEF ApplyLoad
<1>8. CASE Reload(t)
  BY <1>8 DEF Reload
<1>9. CASE Reresolve(t)
  BY <1>9 DEF Reresolve
<1>10. QED
  BY <1>1, <1>2, <1>3, <1>4, <1>5, <1>6, <1>7, <1>8, <1>9 DEF Driving

\* The steps of Loading keep track of the effects of the one generation.
LEMMA HeldLoading ==
    ASSUME NEW t \in Threads, TypeOK, Phases, Held, Alone(t), Loading(t)
    PROVE  Held'
<1> USE DEF Phases, Phase, Alone, Owning, Held, EmptyPCs, BodyPCs,
        StartingPCs, ReleasingPCs, FailedPCs, TypeOK, FlagsOK, DataOK,
        CallPCs, UnloadPCs, LoadPCs, OwnerPCs, Continuations, generation,
        driver, effects, plumbing, services, locals
<1>1. CASE Load(t)
  BY <1>1 DEF Load
<1>2. CASE SetLoading(t)
  BY <1>2 DEF SetLoading, SetState
<1>3. CASE Recheck(t)
  BY <1>3 DEF Recheck
<1>4. CASE GiveBack(t)
  BY <1>4 DEF GiveBack
<1>5. CASE GaveBack(t)
  BY <1>5 DEF GaveBack, SetState
<1>6. CASE Commit(t)
  BY <1>6 DEF Commit
<1>7. CASE Configure(t)
  BY <1>7 DEF Configure
<1>8. CASE RunBody(t)
  BY <1>8 DEF RunBody
<1>9. CASE BodyReturns(t)
  BY <1>9 DEF BodyReturns
<1>10. CASE Activate(t)
  BY <1>10 DEF Activate, Call
<1>11. CASE SetActive(t)
  BY <1>11 DEF SetActive, SetState
<1>12. CASE Fail(t)
  BY <1>12 DEF Fail, Call
<1>13. CASE Failed(t)
  BY <1>13 DEF Failed
<1>14. CASE SetFailed(t)
  BY <1>14 DEF SetFailed, SetState
<1>15. QED
  BY <1>1, <1>2, <1>3, <1>4, <1>5, <1>6, <1>7, <1>8, <1>9, <1>10, <1>11,
     <1>12, <1>13, <1>14 DEF Loading

\* The steps of Unloading keep track of the effects of the one generation.
LEMMA HeldUnloading ==
    ASSUME NEW t \in Threads, TypeOK, Phases, Held, Alone(t), Unloading(t)
    PROVE  Held'
<1> USE DEF Phases, Phase, Alone, Owning, Held, EmptyPCs, BodyPCs,
        StartingPCs, ReleasingPCs, FailedPCs, TypeOK, FlagsOK, DataOK,
        CallPCs, UnloadPCs, LoadPCs, OwnerPCs, Continuations, generation,
        driver, effects, plumbing, services, locals
<1>1. CASE Unload(t)
  BY <1>1 DEF Unload
<1>2. CASE SetUnloading(t)
  BY <1>2 DEF SetUnloading, SetState
<1>3. CASE Clear(t)
  BY <1>3 DEF Clear
<1>4. CASE Unwind(t)
  BY <1>4 DEF Unwind
<1>5. CASE Unloaded(t)
  BY <1>5 DEF Unloaded
<1>6. CASE Repending(t)
  BY <1>6 DEF Repending, SetState
<1>7. CASE FinalizeDispose(t)
  BY <1>7 DEF FinalizeDispose, SetState
<1>8. QED
  BY <1>1, <1>2, <1>3, <1>4, <1>5, <1>6, <1>7 DEF Unloading

\* Calls leave the effects where they are; whoever makes one was not
\* unwinding.
LEMMA HeldCall ==
    ASSUME Held, NEW t \in Threads, CallStep(t)
    PROVE  Held'
BY DEF Held, CallStep, Owning, EmptyPCs, CallPCs, OwnerPCs, UnloadPCs, LoadPCs

----------------------------------------------------------------------------
(* The invariant and what it implies. *)

\* A freshly attached fiber satisfies the invariant.
LEMMA DriverInit == Init => DriverInv
<1> SUFFICES ASSUME Init PROVE DriverInv
  OBVIOUS
<1>1. \A t \in Threads : ~Owning(t)
  BY DEF Init, Owning, OwnerPCs, UnloadPCs, LoadPCs
<1>2. Ownership
  BY <1>1 DEF Init, Ownership
<1>3. Phases
  <2>1. \A t \in Threads : Phase(t)
    BY <1>1, PhaseOutside
  <2>2. QED
    BY <2>1 DEF Init, Phases, Resting
<1>4. Held
  BY DEF Init, Held
<1>5. QED
  BY TypeInit, <1>2, <1>3, <1>4 DEF DriverInv

\* Every step keeps it.
LEMMA DriverNext == DriverInv /\ [Next]_vars => DriverInv'
<1> SUFFICES ASSUME DriverInv, [Next]_vars PROVE DriverInv'
  OBVIOUS
<1> USE DEF DriverInv
<1>1. TypeOK'
  BY TypeNext
<1>2. CASE UNCHANGED vars
  <2> USE <1>2 DEF vars, generation, driver, effects, locals
  <2>1. Ownership'
    BY DEF Ownership, Owning
  <2>2. Phases'
    BY DEF Phases, Phase, Resting, Loaded, Unloadable, Owning
  <2>3. Held'
    BY DEF Held
  <2>4. QED
    BY <1>1, <2>1, <2>2, <2>3
<1>3. ASSUME NEW t \in Threads, Request(t) \/ Proceed(t) PROVE DriverInv'
  <2>1. Ownership'
    BY <1>3, StepKinds, OwnershipStep
  <2>2. CASE Request(t) \/ Calling(t)
    <3>1. CallStep(t)
      BY <2>2, CallsRequest, CallsCalling
    <3>2. QED
      BY <1>1, <2>1, <3>1, PhasesCall, HeldCall
  <2>3. CASE Driving(t) \/ Loading(t) \/ Unloading(t)
    <3>1. OwnerStep(t)
      BY <2>3, OwnsDriving, OwnsLoading, OwnsUnloading
    <3>2. Alone(t)
      BY <3>1 DEF OwnerStep, Ownership, Alone
    <3>3. Phases'
      BY <2>3, <3>1, PhaseDriving, PhaseLoading, PhaseUnloading, PhasesOwner
    <3>4. Held'
      BY <2>3, <3>2, HeldDriving, HeldLoading, HeldUnloading
    <3>5. QED
      BY <1>1, <2>1, <3>3, <3>4
  <2>4. QED
    BY <1>3, <2>2, <2>3 DEF Proceed
<1>4. QED
  BY <1>2, <1>3 DEF Next

\* The place of the owner, the recorded generation and the effects agree in
\* every reachable state (fiber.go: drive, sync, load, unload).
THEOREM DriverInvariant == Spec => []DriverInv
<1>1. QED
  BY DriverInit, DriverNext, PTL DEF Spec

\* The same Fiber never loads and unloads concurrently (refresh).
THEOREM OneOwner == Spec => []SingleOwner
<1>1. DriverInv => SingleOwner
  BY DEF DriverInv, Ownership, Owning, SingleOwner, Owners
<1>2. QED
  BY <1>1, DriverInvariant, PTL

\* Effects of two generations never coexist (load, unload).
THEOREM GenerationsApart == Spec => []OneGeneration
<1>1. DriverInv => OneGeneration
  BY DEF DriverInv, TypeOK, DataOK, Held, OneGeneration
<1>2. QED
  BY <1>1, DriverInvariant, PTL

\* No effect of the body survives its generation (load, fail, unload).
THEOREM NoEffectsLeft == Spec => []EffectsUnderGeneration
<1>1. DriverInv => EffectsUnderGeneration
  BY DEF DriverInv, Held, EffectsUnderGeneration, Owners, OwnerPCs, UnloadPCs
<1>2. QED
  BY <1>1, DriverInvariant, PTL

\* A disposed fiber holds no generation and none of its effects
\* (finalizeDispose).
THEOREM DisposedHoldsNothing == Spec => []DisposedIsClean
<1>1. ASSUME DriverInv, state = "disposed" PROVE ~live
  <2>1. CASE \E t \in Threads : Owning(t)
    <3>1. PICK t \in Threads : Owning(t)
      BY <2>1
    <3>2. Phase(t)
      BY <1>1 DEF DriverInv, Phases
    <3>3. QED
      BY <1>1, <3>1, <3>2 DEF Owning, Phase, Resting, Loaded, Unloadable,
         DecidingPCs, StartingPCs, BodyPCs, ReleasingPCs, FailedPCs, OwnerPCs,
         UnloadPCs, LoadPCs
  <2>2. CASE ~\E t \in Threads : Owning(t)
    BY <1>1, <2>2 DEF DriverInv, Phases, Resting, Loaded
  <2>3. QED
    BY <2>1, <2>2
<1>2. ASSUME DriverInv, state = "disposed", NEW t \in Threads
      PROVE  pc[t] \notin {"unloading", "clear", "unwind"}
  BY <1>2 DEF DriverInv, Phases, Phase, Loaded, Unloadable, ReleasingPCs
<1>3. DriverInv => DisposedIsClean
  BY <1>1, <1>2 DEF DriverInv, Phases, Held, DisposedIsClean
<1>4. QED
  BY <1>3, DriverInvariant, PTL

----------------------------------------------------------------------------
(* What a step may not do. *)

\* What a step does to the state of a fiber that is marked for disposal.
Won ==
    /\ disposed'
    /\ state' \in {state, "unloading", "disposed"}
    /\ state = "disposed" => state' = "disposed"

\* The steps of Request move a disposed fiber on to unloading or disposed
\* only.
LEMMA WinsRequest ==
    ASSUME NEW t \in Threads, Phase(t), disposed, Request(t)
    PROVE  Won
<1> USE DEF Won, Phase, Loaded, Unloadable, BodyPCs, ReleasingPCs, FailedPCs,
        generation, driver
<1>1. CASE Provide(t)
  BY <1>1 DEF Provide
<1>2. CASE Withdraw(t)
  BY <1>2 DEF Withdraw
<1>3. CASE Restart(t)
  BY <1>3 DEF Restart
<1>4. CASE Update(t)
  BY <1>4 DEF Update
<1>5. CASE Dispose(t)
  BY <1>5 DEF Dispose
<1>6. CASE RegisterStray(t)
  BY <1>6 DEF RegisterStray
<1>7. CASE ReleaseStray(t)
  BY <1>7 DEF ReleaseStray
<1>8. QED
  BY <1>1, <1>2, <1>3, <1>4, <1>5, <1>6, <1>7 DEF Request

\* The steps of Calling move a disposed fiber on to unloading or disposed
\* only.
LEMMA WinsCalling ==
    ASSUME NEW t \in Threads, Phase(t), disposed, Calling(t)
    PROVE  Won
<1> USE DEF Won, Phase, Loaded, Unloadable, BodyPCs, ReleasingPCs, FailedPCs,
        generation, driver
<1>1. CASE Attach(t)
  BY <1>1 DEF Attach
<1>2. CASE Notify(t)
  BY <1>2 DEF Notify
<1>3. CASE ForceReload(t)
  BY <1>3 DEF ForceReload
<1>4. CASE ReplaceConfig(t)
  BY <1>4 DEF ReplaceConfig
<1>5. CASE Cancel(t)
  BY <1>5 DEF Cancel
<1>6. CASE RemoveFiber(t)
  BY <1>6 DEF RemoveFiber
<1>7. CASE Announce(t)
  BY <1>7 DEF Announce
<1>8. CASE BeginTransition(t)
  BY <1>8 DEF BeginTransition
<1>9. QED
  BY <1>1, <1>2, <1>3, <1>4, <1>5, <1>6, <1>7, <1>8 DEF Calling

\* The steps of Driving move a disposed fiber on to unloading or disposed
\* only.
LEMMA WinsDriving ==
    ASSUME NEW t \in Threads, Phase(t), disposed, Driving(t)
    PROVE  Won
<1> USE DEF Won, Phase, Loaded, Unloadable, BodyPCs, ReleasingPCs, FailedPCs,
        generation, driver
<1>1. CASE BeginPass(t)
  BY <1>1 DEF BeginPass
<1>2. CASE EndPass(t)
  BY <1>2 DEF EndPass
<1>3. CASE Sync(t)
  BY <1>3 DEF Sync, Call
<1>4. CASE Resolve(t)
  BY <1>4 DEF Resolve
<1>5. CASE Compare(t)
  BY <1>5 DEF Compare, Call
<1>6. CASE ApplyUnload(t)
  BY <1>6 DEF ApplyUnload
<1>7. CASE ApplyLoad(t)
  BY <1>7 DEF ApplyLoad
<1>8. CASE Reload(t)
  BY <1>8 DEF Reload
<1>9. CASE Reresolve(t)
  BY <1>9 DEF Reresolve
<1>10. QED
  BY <1>1, <1>2, <1>3, <1>4, <1>5, <1>6, <1>7, <1>8, <1>9 DEF Driving

\* The steps of Loading move a disposed fiber on to unloading or disposed
\* only.
LEMMA WinsLoading ==
    ASSUME NEW t \in Threads, Phase(t), disposed, Loading(t)
    PROVE  Won
<1> USE DEF Won, Phase, Loaded, Unloadable, BodyPCs, ReleasingPCs, FailedPCs,
        generation, driver
<1>1. CASE Load(t)
  BY <1>1 DEF Load
<1>2. CASE SetLoading(t)
  BY <1>2 DEF SetLoading, SetState
<1>3. CASE Recheck(t)
  BY <1>3 DEF Recheck
<1>4. CASE GiveBack(t)
  BY <1>4 DEF GiveBack
<1>5. CASE GaveBack(t)
  BY <1>5 DEF GaveBack, SetState
<1>6. CASE Commit(t)
  BY <1>6 DEF Commit
<1>7. CASE Configure(t)
  BY <1>7 DEF Configure
<1>8. CASE RunBody(t)
  BY <1>8 DEF RunBody
<1>9. CASE BodyReturns(t)
  BY <1>9 DEF BodyReturns
<1>10. CASE Activate(t)
  BY <1>10 DEF Activate, Call
<1>11. CASE SetActive(t)
  BY <1>11 DEF SetActive, SetState
<1>12. CASE Fail(t)
  BY <1>12 DEF Fail, Call
<1>13. CASE Failed(t)
  BY <1>13 DEF Failed
<1>14. CASE SetFailed(t)
  BY <1>14 DEF SetFailed, SetState
<1>15. QED
  BY <1>1, <1>2, <1>3, <1>4, <1>5, <1>6, <1>7, <1>8, <1>9, <1>10, <1>11,
     <1>12, <1>13, <1>14 DEF Loading

\* The steps of Unloading move a disposed fiber on to unloading or disposed
\* only.
LEMMA WinsUnloading ==
    ASSUME NEW t \in Threads, Phase(t), disposed, Unloading(t)
    PROVE  Won
<1> USE DEF Won, Phase, Loaded, Unloadable, BodyPCs, ReleasingPCs, FailedPCs,
        generation, driver
<1>1. CASE Unload(t)
  BY <1>1 DEF Unload
<1>2. CASE SetUnloading(t)
  BY <1>2 DEF SetUnloading, SetState
<1>3. CASE Clear(t)
  BY <1>3 DEF Clear
<1>4. CASE Unwind(t)
  BY <1>4 DEF Unwind
<1>5. CASE Unloaded(t)
  BY <1>5 DEF Unloaded
<1>6. CASE Repending(t)
  BY <1>6 DEF Repending, SetState
<1>7. CASE FinalizeDispose(t)
  BY <1>7 DEF FinalizeDispose, SetState
<1>8. QED
  BY <1>1, <1>2, <1>3, <1>4, <1>5, <1>6, <1>7 DEF Unloading

\* Dispose wins over whatever else is in flight (setState).
THEOREM DisposeAlwaysWins == Spec => DisposeWins
<1>1. ASSUME DriverInv, [Next]_vars, disposed PROVE Won
  <2>1. CASE UNCHANGED vars
    BY <1>1, <2>1 DEF Won, vars, generation, driver
  <2>2. ASSUME NEW t \in Threads, Request(t) \/ Proceed(t) PROVE Won
    <3>1. Phase(t)
      BY <1>1 DEF DriverInv, Phases
    <3>2. QED
      BY <1>1, <2>2, <3>1, WinsRequest, WinsCalling, WinsDriving, WinsLoading,
         WinsUnloading DEF Proceed
  <2>3. QED
    BY <1>1, <2>1, <2>2 DEF Next
<1>2. QED
  BY <1>1, DriverInvariant, PTL DEF Spec, DisposeWins, Won

----------------------------------------------------------------------------
(* The driver implements the lifecycle. *)


\* The steps of Request are steps of the lifecycle.
LEMMA LifecycleRequest ==
    ASSUME NEW t \in Threads, DriverInv, Request(t)
    PROVE  [Lifecycle!Next]_(Lifecycle!vars)
<1> USE DEF DriverInv, TypeOK, FlagsOK, DataOK, Phases, Phase, Held, Alone,
        Owning, Resting, Loaded, Unloadable, EmptyPCs, DecidingPCs,
        StartingPCs, BodyPCs, ReleasingPCs, FailedPCs, OwnerPCs, UnloadPCs,
        LoadPCs, Lifecycle!Next, Lifecycle!vars, Lifecycle!RequestDisposal,
        Lifecycle!BeginLoad, Lifecycle!Acquire, Lifecycle!GiveBack,
        Lifecycle!Activate, Lifecycle!BeginUnload, Lifecycle!Release,
        Lifecycle!Rest, Lifecycle!Fail, Lifecycle!Finalize, generation,
        driver, effects
<1>1. CASE Provide(t)
  BY <1>1 DEF Provide
<1>2. CASE Withdraw(t)
  BY <1>2 DEF Withdraw
<1>3. CASE Restart(t)
  BY <1>3 DEF Restart
<1>4. CASE Update(t)
  BY <1>4 DEF Update
<1>5. CASE Dispose(t)
  BY <1>5 DEF Dispose
<1>6. CASE RegisterStray(t)
  BY <1>6 DEF RegisterStray
<1>7. CASE ReleaseStray(t)
  BY <1>7 DEF ReleaseStray
<1>8. QED
  BY <1>1, <1>2, <1>3, <1>4, <1>5, <1>6, <1>7 DEF Request

\* The steps of Calling are steps of the lifecycle.
LEMMA LifecycleCalling ==
    ASSUME NEW t \in Threads, DriverInv, Calling(t)
    PROVE  [Lifecycle!Next]_(Lifecycle!vars)
<1> USE DEF DriverInv, TypeOK, FlagsOK, DataOK, Phases, Phase, Held, Alone,
        Owning, Resting, Loaded, Unloadable, EmptyPCs, DecidingPCs,
        StartingPCs, BodyPCs, ReleasingPCs, FailedPCs, OwnerPCs, UnloadPCs,
        LoadPCs, Lifecycle!Next, Lifecycle!vars, Lifecycle!RequestDisposal,
        Lifecycle!BeginLoad, Lifecycle!Acquire, Lifecycle!GiveBack,
        Lifecycle!Activate, Lifecycle!BeginUnload, Lifecycle!Release,
        Lifecycle!Rest, Lifecycle!Fail, Lifecycle!Finalize, generation,
        driver, effects
<1>1. CASE Attach(t)
  BY <1>1 DEF Attach
<1>2. CASE Notify(t)
  BY <1>2 DEF Notify
<1>3. CASE ForceReload(t)
  BY <1>3 DEF ForceReload
<1>4. CASE ReplaceConfig(t)
  BY <1>4 DEF ReplaceConfig
<1>5. CASE Cancel(t)
  BY <1>5 DEF Cancel
<1>6. CASE RemoveFiber(t)
  BY <1>6 DEF RemoveFiber
<1>7. CASE Announce(t)
  BY <1>7 DEF Announce
<1>8. CASE BeginTransition(t)
  BY <1>8 DEF BeginTransition
<1>9. QED
  BY <1>1, <1>2, <1>3, <1>4, <1>5, <1>6, <1>7, <1>8 DEF Calling

\* The steps of Driving are steps of the lifecycle.
LEMMA LifecycleDriving ==
    ASSUME NEW t \in Threads, DriverInv, Alone(t), Driving(t)
    PROVE  [Lifecycle!Next]_(Lifecycle!vars)
<1> USE DEF DriverInv, TypeOK, FlagsOK, DataOK, Phases, Phase, Held, Alone,
        Owning, Resting, Loaded, Unloadable, EmptyPCs, DecidingPCs,
        StartingPCs, BodyPCs, ReleasingPCs, FailedPCs, OwnerPCs, UnloadPCs,
        LoadPCs, Lifecycle!Next, Lifecycle!vars, Lifecycle!RequestDisposal,
        Lifecycle!BeginLoad, Lifecycle!Acquire, Lifecycle!GiveBack,
        Lifecycle!Activate, Lifecycle!BeginUnload, Lifecycle!Release,
        Lifecycle!Rest, Lifecycle!Fail, Lifecycle!Finalize, generation,
        driver, effects
<1>1. CASE BeginPass(t)
  BY <1>1 DEF BeginPass
<1>2. CASE EndPass(t)
  BY <1>2 DEF EndPass
<1>3. CASE Sync(t)
  BY <1>3 DEF Sync, Call
<1>4. CASE Resolve(t)
  BY <1>4 DEF Resolve
<1>5. CASE Compare(t)
  BY <1>5 DEF Compare, Call
<1>6. CASE ApplyUnload(t)
  BY <1>6 DEF ApplyUnload
<1>7. CASE ApplyLoad(t)
  BY <1>7 DEF ApplyLoad
<1>8. CASE Reload(t)
  BY <1>8 DEF Reload
<1>9. CASE Reresolve(t)
  BY <1>9 DEF Reresolve
<1>10. QED
  BY <1>1, <1>2, <1>3, <1>4, <1>5, <1>6, <1>7, <1>8, <1>9 DEF Driving

\* The steps of Loading are steps of the lifecycle.
LEMMA LifecycleLoading ==
    ASSUME NEW t \in Threads, DriverInv, Alone(t), Loading(t)
    PROVE  [Lifecycle!Next]_(Lifecycle!vars)
<1> USE DEF DriverInv, TypeOK, FlagsOK, DataOK, Phases, Phase, Held, Alone,
        Owning, Resting, Loaded, Unloadable, EmptyPCs, DecidingPCs,
        StartingPCs, BodyPCs, ReleasingPCs, FailedPCs, OwnerPCs, UnloadPCs,
        LoadPCs, Lifecycle!Next, Lifecycle!vars, Lifecycle!RequestDisposal,
        Lifecycle!BeginLoad, Lifecycle!Acquire, Lifecycle!GiveBack,
        Lifecycle!Activate, Lifecycle!BeginUnload, Lifecycle!Release,
        Lifecycle!Rest, Lifecycle!Fail, Lifecycle!Finalize, generation,
        driver, effects
<1>1. CASE Load(t)
  BY <1>1 DEF Load
<1>2. CASE SetLoading(t)
  BY <1>2 DEF SetLoading, SetState
<1>3. CASE Recheck(t)
  BY <1>3 DEF Recheck
<1>4. CASE GiveBack(t)
  BY <1>4 DEF GiveBack
<1>5. CASE GaveBack(t)
  BY <1>5 DEF GaveBack, SetState
<1>6. CASE Commit(t)
  BY <1>6 DEF Commit
<1>7. CASE Configure(t)
  BY <1>7 DEF Configure
<1>8. CASE RunBody(t)
  BY <1>8 DEF RunBody
<1>9. CASE BodyReturns(t)
  BY <1>9 DEF BodyReturns
<1>10. CASE Activate(t)
  BY <1>10 DEF Activate, Call
<1>11. CASE SetActive(t)
  BY <1>11 DEF SetActive, SetState
<1>12. CASE Fail(t)
  BY <1>12 DEF Fail, Call
<1>13. CASE Failed(t)
  BY <1>13 DEF Failed
<1>14. CASE SetFailed(t)
  BY <1>14 DEF SetFailed, SetState
<1>15. QED
  BY <1>1, <1>2, <1>3, <1>4, <1>5, <1>6, <1>7, <1>8, <1>9, <1>10, <1>11,
     <1>12, <1>13, <1>14 DEF Loading

\* The steps of Unloading are steps of the lifecycle.
LEMMA LifecycleUnloading ==
    ASSUME NEW t \in Threads, DriverInv, Alone(t), Unloading(t)
    PROVE  [Lifecycle!Next]_(Lifecycle!vars)
<1> USE DEF DriverInv, TypeOK, FlagsOK, DataOK, Phases, Phase, Held, Alone,
        Owning, Resting, Loaded, Unloadable, EmptyPCs, DecidingPCs,
        StartingPCs, BodyPCs, ReleasingPCs, FailedPCs, OwnerPCs, UnloadPCs,
        LoadPCs, Lifecycle!Next, Lifecycle!vars, Lifecycle!RequestDisposal,
        Lifecycle!BeginLoad, Lifecycle!Acquire, Lifecycle!GiveBack,
        Lifecycle!Activate, Lifecycle!BeginUnload, Lifecycle!Release,
        Lifecycle!Rest, Lifecycle!Fail, Lifecycle!Finalize, generation,
        driver, effects
<1>1. CASE Unload(t)
  BY <1>1 DEF Unload
<1>2. CASE SetUnloading(t)
  BY <1>2 DEF SetUnloading, SetState
<1>3. CASE Clear(t)
  BY <1>3 DEF Clear
<1>4. CASE Unwind(t)
  BY <1>4 DEF Unwind
<1>5. CASE Unloaded(t)
  BY <1>5 DEF Unloaded
<1>6. CASE Repending(t)
  BY <1>6 DEF Repending, SetState
<1>7. CASE FinalizeDispose(t)
  BY <1>7 DEF FinalizeDispose, SetState
<1>8. QED
  BY <1>1, <1>2, <1>3, <1>4, <1>5, <1>6, <1>7 DEF Unloading

\* Every step of every interleaving is a step of FiberLifecycle or leaves it
\* unchanged.
THEOREM ImplementsLifecycle == Spec => RefinesLifecycle
<1>1. Init => Lifecycle!Init
  BY DEF Init, Lifecycle!Init
<1>2. ASSUME DriverInv, [Next]_vars
      PROVE  [Lifecycle!Next]_(Lifecycle!vars)
  <2>1. CASE UNCHANGED vars
    BY <2>1 DEF vars, generation, driver, effects, Lifecycle!vars
  <2>2. ASSUME NEW t \in Threads, Request(t) \/ Proceed(t)
        PROVE  [Lifecycle!Next]_(Lifecycle!vars)
    <3>1. CASE Request(t) \/ Calling(t)
      BY <1>2, <3>1, LifecycleRequest, LifecycleCalling
    <3>2. CASE Driving(t) \/ Loading(t) \/ Unloading(t)
      <4>1. OwnerStep(t)
        BY <1>2, <3>2, OwnsDriving, OwnsLoading, OwnsUnloading DEF DriverInv
      <4>2. Alone(t)
        BY <1>2, <4>1 DEF OwnerStep, DriverInv, Ownership, Alone
      <4>3. QED
        BY <1>2, <3>2, <4>2, LifecycleDriving, LifecycleLoading,
           LifecycleUnloading
    <3>3. QED
      BY <2>2, <3>1, <3>2 DEF Proceed
  <2>3. QED
    BY <1>2, <2>1, <2>2 DEF Next
<1>3. QED
  BY <1>1, <1>2, DriverInvariant, PTL DEF Spec, RefinesLifecycle, Lifecycle!Spec
----------------------------------------------------------------------------
(***************************************************************************)
(* No wake-up is lost: the driver keeps SettlingInv, hence Settled.        *)
(*                                                                         *)
(* Only the start of a pass decides on requests (Sync), so a step of       *)
(* anybody else, or of the owner at any other place, leaves the driver     *)
(* awaited if it was.  When it is not awaited, the place the owner has     *)
(* reached says what it makes of the world.                                *)
(***************************************************************************)

(* What the calls of other goroutines do to the driver. *)

\* A call changes no more of the generation than the raw config and the error,
\* and a new config is a request; after a call that changed anything else that
\* the owner goes by, the driver is awaited.
Asks(t) ==
    /\ UNCHANGED <<state, epoch, live, config, resolved, locals>>
    /\ err' => err
    /\ rawConfig' = rawConfig \/ forceReload'
    /\ forceReload => forceReload'
    /\ \/ Awaited'
       \/ /\ UNCHANGED <<dirty, forceReload, disposed>>
          /\ disposed \/ world' = world
          /\ ~Coming(t) /\ ~Owning(t) /\ ~Owning(t)'

\* What the steps of Request ask for makes them, or keeps them, coming.
LEMMA AsksRequest ==
    ASSUME NEW t \in Threads, TypeOK, Disposal,
           Request(t)
    PROVE  Asks(t)
<1> USE DEF Asks, Awaited, Coming, TypeOK, FlagsOK, DataOK, generation, driver,
        effects, plumbing, services, locals, Owning, CallPCs, UnloadPCs,
        LoadPCs, OwnerPCs, Continuations
<1>1. CASE Provide(t)
  BY <1>1 DEF Provide
<1>2. CASE Withdraw(t)
  BY <1>2 DEF Withdraw
<1>3. CASE Restart(t)
  BY <1>3 DEF Restart
<1>4. CASE Update(t)
  BY <1>4 DEF Update
<1>5. CASE Dispose(t)
  BY <1>5 DEF Dispose
<1>6. CASE RegisterStray(t)
  BY <1>6 DEF RegisterStray
<1>7. CASE ReleaseStray(t)
  BY <1>7 DEF ReleaseStray
<1>8. QED
  BY <1>1, <1>2, <1>3, <1>4, <1>5, <1>6, <1>7 DEF Request

\* What the steps of Calling ask for makes them, or keeps them, coming.
LEMMA AsksCalling ==
    ASSUME NEW t \in Threads, TypeOK, Disposal,
           Calling(t)
    PROVE  Asks(t)
<1> USE DEF Asks, Awaited, Coming, Disposal, TypeOK, FlagsOK, DataOK,
        generation, driver, effects, plumbing, services, locals, Owning,
        CallPCs, UnloadPCs, LoadPCs, OwnerPCs, Continuations
<1>1. CASE Attach(t)
  BY <1>1 DEF Attach
<1>2. CASE Notify(t)
  BY <1>2 DEF Notify
<1>3. CASE ForceReload(t)
  BY <1>3 DEF ForceReload
<1>4. CASE ReplaceConfig(t)
  BY <1>4 DEF ReplaceConfig
<1>5. CASE Cancel(t)
  BY <1>5 DEF Cancel
<1>6. CASE RemoveFiber(t)
  BY <1>6 DEF RemoveFiber
<1>7. CASE Announce(t)
  BY <1>7 DEF Announce
<1>8. CASE BeginTransition(t)
  BY <1>8 DEF BeginTransition
<1>9. QED
  BY <1>1, <1>2, <1>3, <1>4, <1>5, <1>6, <1>7, <1>8 DEF Calling

\* A call never makes the driver less awaited.
LEMMA AskedStaysAwaited ==
    ASSUME NEW t \in Threads, CallStep(t), Asks(t), Awaited
    PROVE  Awaited'
<1>1. CASE busy /\ dirty
  BY <1>1 DEF Asks, CallStep, Awaited
<1>2. ASSUME NEW u \in Threads, Coming(u) \/ pc[u] \in {"pass", "sync"},
             ~Awaited'
      PROVE  FALSE
  <2>1. u # t
    BY <1>2 DEF Asks, Owning, OwnerPCs
  <2>2. pc'[u] = pc[u] /\ disposed' = disposed
    BY <1>2, <2>1 DEF CallStep, Asks
  <2>3. QED
    BY <1>2, <2>2 DEF Awaited, Coming
<1>3. QED
  BY <1>1, <1>2 DEF Awaited

----------------------------------------------------------------------------
(* What the owner does to the requests. *)

\* Outside Sync the owner consumes no request, but for the marker that the
\* pass it starts answers; it may mark a rerun itself.
Works(t) ==
    /\ UNCHANGED <<forceReload, disposed, world, plumbing>>
    /\ dirty' # dirty => (busy' /\ dirty') \/ pc'[t] = "sync"
    /\ busy /\ dirty => (busy' /\ dirty') \/ pc'[t] \in {"pass", "sync"}
    /\ pc[t] \in {"pass", "sync"} => pc'[t] \in {"pass", "sync"}

\* The steps of Request keep track of the disposer.
LEMMA DisposalRequest ==
    ASSUME NEW t \in Threads, TypeOK, Disposal,
           Request(t)
    PROVE  Disposal'
<1> USE DEF Disposal, TypeOK, FlagsOK, DataOK, generation, driver, effects,
        plumbing, services, locals, CallPCs, UnloadPCs, LoadPCs, OwnerPCs,
        Continuations
<1>1. CASE Provide(t)
  BY <1>1 DEF Provide
<1>2. CASE Withdraw(t)
  BY <1>2 DEF Withdraw
<1>3. CASE Restart(t)
  BY <1>3 DEF Restart
<1>4. CASE Update(t)
  BY <1>4 DEF Update
<1>5. CASE Dispose(t)
  BY <1>5 DEF Dispose
<1>6. CASE RegisterStray(t)
  BY <1>6 DEF RegisterStray
<1>7. CASE ReleaseStray(t)
  BY <1>7 DEF ReleaseStray
<1>8. QED
  BY <1>1, <1>2, <1>3, <1>4, <1>5, <1>6, <1>7 DEF Request

\* The steps of Calling keep track of the disposer.
LEMMA DisposalCalling ==
    ASSUME NEW t \in Threads, TypeOK, Disposal,
           Calling(t)
    PROVE  Disposal'
<1> USE DEF Disposal, TypeOK, FlagsOK, DataOK, generation, driver, effects,
        plumbing, services, locals, CallPCs, UnloadPCs, LoadPCs, OwnerPCs,
        Continuations
<1>1. CASE Attach(t)
  BY <1>1 DEF Attach
<1>2. CASE Notify(t)
  BY <1>2 DEF Notify
<1>3. CASE ForceReload(t)
  BY <1>3 DEF ForceReload
<1>4. CASE ReplaceConfig(t)
  BY <1>4 DEF ReplaceConfig
<1>5. CASE Cancel(t)
  BY <1>5 DEF Cancel
<1>6. CASE RemoveFiber(t)
  BY <1>6 DEF RemoveFiber
<1>7. CASE Announce(t)
  BY <1>7 DEF Announce
<1>8. CASE BeginTransition(t)
  BY <1>8 DEF BeginTransition
<1>9. QED
  BY <1>1, <1>2, <1>3, <1>4, <1>5, <1>6, <1>7, <1>8 DEF Calling

\* The steps of Driving leave the requests to the passes to come.
LEMMA WorksDriving ==
    ASSUME NEW t \in Threads, TypeOK, Owning(t), busy,
           Driving(t)
    PROVE  Sync(t) \/ Works(t)
<1> USE DEF Works, TypeOK, FlagsOK, DataOK, generation, driver, effects,
        plumbing, services, locals, Owning, CallPCs, UnloadPCs, LoadPCs,
        OwnerPCs, Continuations
<1>1. CASE BeginPass(t)
  BY <1>1 DEF BeginPass
<1>2. CASE EndPass(t)
  BY <1>2 DEF EndPass
<1>3. CASE Sync(t)
  BY <1>3 DEF Sync, Call
<1>4. CASE Resolve(t)
  BY <1>4 DEF Resolve
<1>5. CASE Compare(t)
  BY <1>5 DEF Compare, Call
<1>6. CASE ApplyUnload(t)
  BY <1>6 DEF ApplyUnload
<1>7. CASE ApplyLoad(t)
  BY <1>7 DEF ApplyLoad
<1>8. CASE Reload(t)
  BY <1>8 DEF Reload
<1>9. CASE Reresolve(t)
  BY <1>9 DEF Reresolve
<1>10. QED
  BY <1>1, <1>2, <1>3, <1>4, <1>5, <1>6, <1>7, <1>8, <1>9 DEF Driving

\* The steps of Loading leave the requests to the passes to come.
LEMMA WorksLoading ==
    ASSUME NEW t \in Threads, TypeOK, Owning(t), busy,
           Loading(t)
    PROVE  Sync(t) \/ Works(t)
<1> USE DEF Works, TypeOK, FlagsOK, DataOK, generation, driver, effects,
        plumbing, services, locals, Owning, CallPCs, UnloadPCs, LoadPCs,
        OwnerPCs, Continuations
<1>1. CASE Load(t)
  BY <1>1 DEF Load
<1>2. CASE SetLoading(t)
  BY <1>2 DEF SetLoading, SetState
<1>3. CASE Recheck(t)
  BY <1>3 DEF Recheck
<1>4. CASE GiveBack(t)
  BY <1>4 DEF GiveBack
<1>5. CASE GaveBack(t)
  BY <1>5 DEF GaveBack, SetState
<1>6. CASE Commit(t)
  BY <1>6 DEF Commit
<1>7. CASE Configure(t)
  BY <1>7 DEF Configure
<1>8. CASE RunBody(t)
  BY <1>8 DEF RunBody
<1>9. CASE BodyReturns(t)
  BY <1>9 DEF BodyReturns
<1>10. CASE Activate(t)
  BY <1>10 DEF Activate, Call
<1>11. CASE SetActive(t)
  BY <1>11 DEF SetActive, SetState
<1>12. CASE Fail(t)
  BY <1>12 DEF Fail, Call
<1>13. CASE Failed(t)
  BY <1>13 DEF Failed
<1>14. CASE SetFailed(t)
  BY <1>14 DEF SetFailed, SetState
<1>15. QED
  BY <1>1, <1>2, <1>3, <1>4, <1>5, <1>6, <1>7, <1>8, <1>9, <1>10, <1>11, <1>12,
     <1>13, <1>14 DEF Loading

\* The steps of Unloading leave the requests to the passes to come.
LEMMA WorksUnloading ==
    ASSUME NEW t \in Threads, TypeOK, Owning(t), busy,
           Unloading(t)
    PROVE  Sync(t) \/ Works(t)
<1> USE DEF Works, TypeOK, FlagsOK, DataOK, generation, driver, effects,
        plumbing, services, locals, Owning, CallPCs, UnloadPCs, LoadPCs,
        OwnerPCs, Continuations
<1>1. CASE Unload(t)
  BY <1>1 DEF Unload
<1>2. CASE SetUnloading(t)
  BY <1>2 DEF SetUnloading, SetState
<1>3. CASE Clear(t)
  BY <1>3 DEF Clear
<1>4. CASE Unwind(t)
  BY <1>4 DEF Unwind
<1>5. CASE Unloaded(t)
  BY <1>5 DEF Unloaded
<1>6. CASE Repending(t)
  BY <1>6 DEF Repending, SetState
<1>7. CASE FinalizeDispose(t)
  BY <1>7 DEF FinalizeDispose, SetState
<1>8. QED
  BY <1>1, <1>2, <1>3, <1>4, <1>5, <1>6, <1>7 DEF Unloading

\* Between two decisions the driver stays awaited.
LEMMA WorkStaysAwaited ==
    ASSUME NEW t \in Threads, OwnerStep(t), Works(t), Awaited
    PROVE  Awaited'
<1>1. CASE busy /\ dirty
  BY <1>1 DEF Works, Awaited
<1>2. ASSUME NEW u \in Threads, u # t, Coming(u) \/ pc[u] \in {"pass", "sync"}
      PROVE  Awaited'
  BY <1>2 DEF OwnerStep, Awaited, Coming
<1>3. ASSUME Coming(t) \/ pc[t] \in {"pass", "sync"}
      PROVE  Awaited'
  <2>1. pc'[t] \in {"pass", "sync"}
    BY <1>3 DEF OwnerStep, Owning, Coming, Works, OwnerPCs, UnloadPCs, LoadPCs
  <2>2. QED
    BY <2>1 DEF Awaited
<1>4. QED
  BY <1>1, <1>2, <1>3 DEF Awaited

----------------------------------------------------------------------------
(* What the owner has made of the world. *)

\* Current for the owner of the transition.
CurrentAt(t) ==
    /\ pc[t] \in TargetPCs => target[t] = world
    /\ epoch = world \/ pc[t] \in TargetPCs \/ Looking(t)

\* Finishing for the owner of the transition.
FinishingAt(t) == state = "disposed" \/ pc[t] \in FinishingPCs


\* The steps of Driving take the owner to a place whose claim holds.
LEMMA ProgressDriving ==
    ASSUME NEW t \in Threads, TypeOK, ~disposed, Phase(t), Progress(t),
           Driving(t)
    PROVE  Progress(t)' /\ (pc'[t] = "idle" => Settling')
<1> USE DEF Progress, Phase, Settling, Down, Unresolved, Resolved, Configured,
        Resting, Loaded, Unloadable, DecidingPCs, StartingPCs, BodyPCs,
        ReleasingPCs, FailedPCs, TypeOK, FlagsOK, DataOK, generation, driver,
        effects, plumbing, services, locals, CallPCs, UnloadPCs, LoadPCs,
        OwnerPCs, Continuations
<1>1. CASE BeginPass(t)
  BY <1>1 DEF BeginPass
<1>2. CASE EndPass(t)
  BY <1>2 DEF EndPass
<1>3. CASE Sync(t)
  BY <1>3 DEF Sync, Call
<1>4. CASE Resolve(t)
  BY <1>4 DEF Resolve
<1>5. CASE Compare(t)
  BY <1>5 DEF Compare, Call
<1>6. CASE ApplyUnload(t)
  BY <1>6 DEF ApplyUnload
<1>7. CASE ApplyLoad(t)
  BY <1>7 DEF ApplyLoad
<1>8. CASE Reload(t)
  BY <1>8 DEF Reload
<1>9. CASE Reresolve(t)
  BY <1>9 DEF Reresolve
<1>10. QED
  BY <1>1, <1>2, <1>3, <1>4, <1>5, <1>6, <1>7, <1>8, <1>9 DEF Driving

\* The steps of Loading take the owner to a place whose claim holds.
LEMMA ProgressLoading ==
    ASSUME NEW t \in Threads, TypeOK, ~disposed, Phase(t), Progress(t),
           Loading(t)
    PROVE  Progress(t)' /\ (pc'[t] = "idle" => Settling')
<1> USE DEF Progress, Phase, Settling, Down, Unresolved, Resolved, Configured,
        Resting, Loaded, Unloadable, DecidingPCs, StartingPCs, BodyPCs,
        ReleasingPCs, FailedPCs, TypeOK, FlagsOK, DataOK, generation, driver,
        effects, plumbing, services, locals, CallPCs, UnloadPCs, LoadPCs,
        OwnerPCs, Continuations
<1>1. CASE Load(t)
  BY <1>1 DEF Load
<1>2. CASE SetLoading(t)
  BY <1>2 DEF SetLoading, SetState
<1>3. CASE Recheck(t)
  BY <1>3 DEF Recheck
<1>4. CASE GiveBack(t)
  BY <1>4 DEF GiveBack
<1>5. CASE GaveBack(t)
  BY <1>5 DEF GaveBack, SetState
<1>6. CASE Commit(t)
  BY <1>6 DEF Commit
<1>7. CASE Configure(t)
  BY <1>7 DEF Configure
<1>8. CASE RunBody(t)
  BY <1>8 DEF RunBody
<1>9. CASE BodyReturns(t)
  BY <1>9 DEF BodyReturns
<1>10. CASE Activate(t)
  BY <1>10 DEF Activate, Call
<1>11. CASE SetActive(t)
  BY <1>11 DEF SetActive, SetState
<1>12. CASE Fail(t)
  BY <1>12 DEF Fail, Call
<1>13. CASE Failed(t)
  BY <1>13 DEF Failed
<1>14. CASE SetFailed(t)
  BY <1>14 DEF SetFailed, SetState
<1>15. QED
  BY <1>1, <1>2, <1>3, <1>4, <1>5, <1>6, <1>7, <1>8, <1>9, <1>10, <1>11, <1>12,
     <1>13, <1>14 DEF Loading

\* The steps of Unloading take the owner to a place whose claim holds.
LEMMA ProgressUnloading ==
    ASSUME NEW t \in Threads, TypeOK, ~disposed, Phase(t), Progress(t),
           Unloading(t)
    PROVE  Progress(t)' /\ (pc'[t] = "idle" => Settling')
<1> USE DEF Progress, Phase, Settling, Down, Unresolved, Resolved, Configured,
        Resting, Loaded, Unloadable, DecidingPCs, StartingPCs, BodyPCs,
        ReleasingPCs, FailedPCs, TypeOK, FlagsOK, DataOK, generation, driver,
        effects, plumbing, services, locals, CallPCs, UnloadPCs, LoadPCs,
        OwnerPCs, Continuations
<1>1. CASE Unload(t)
  BY <1>1 DEF Unload
<1>2. CASE SetUnloading(t)
  BY <1>2 DEF SetUnloading, SetState
<1>3. CASE Clear(t)
  BY <1>3 DEF Clear
<1>4. CASE Unwind(t)
  BY <1>4 DEF Unwind
<1>5. CASE Unloaded(t)
  BY <1>5 DEF Unloaded
<1>6. CASE Repending(t)
  BY <1>6 DEF Repending, SetState
<1>7. CASE FinalizeDispose(t)
  BY <1>7 DEF FinalizeDispose, SetState
<1>8. QED
  BY <1>1, <1>2, <1>3, <1>4, <1>5, <1>6, <1>7 DEF Unloading

\* The steps of Driving go by the binding in place, or leave it to another pass.
LEMMA CurrentDriving ==
    ASSUME NEW t \in Threads, TypeOK, ~disposed, busy, Progress(t), CurrentAt(t),
           Driving(t)
    PROVE  Awaited' \/ CurrentAt(t)'
<1> USE DEF CurrentAt, Looking, TargetPCs, Awaited, Progress, TypeOK, FlagsOK,
        DataOK, generation, driver, effects, plumbing, services, locals,
        CallPCs, UnloadPCs, LoadPCs, OwnerPCs, Continuations
<1>1. CASE BeginPass(t)
  BY <1>1 DEF BeginPass
<1>2. CASE EndPass(t)
  BY <1>2 DEF EndPass
<1>3. CASE Sync(t)
  BY <1>3 DEF Sync, Call
<1>4. CASE Resolve(t)
  BY <1>4 DEF Resolve
<1>5. CASE Compare(t)
  BY <1>5 DEF Compare, Call
<1>6. CASE ApplyUnload(t)
  BY <1>6 DEF ApplyUnload
<1>7. CASE ApplyLoad(t)
  BY <1>7 DEF ApplyLoad
<1>8. CASE Reload(t)
  BY <1>8 DEF Reload
<1>9. CASE Reresolve(t)
  BY <1>9 DEF Reresolve
<1>10. QED
  BY <1>1, <1>2, <1>3, <1>4, <1>5, <1>6, <1>7, <1>8, <1>9 DEF Driving

\* The steps of Loading go by the binding in place, or leave it to another pass.
LEMMA CurrentLoading ==
    ASSUME NEW t \in Threads, TypeOK, ~disposed, busy, Progress(t), CurrentAt(t),
           Loading(t)
    PROVE  Awaited' \/ CurrentAt(t)'
<1> USE DEF CurrentAt, Looking, TargetPCs, Awaited, Progress, TypeOK, FlagsOK,
        DataOK, generation, driver, effects, plumbing, services, locals,
        CallPCs, UnloadPCs, LoadPCs, OwnerPCs, Continuations
<1>1. CASE Load(t)
  BY <1>1 DEF Load
<1>2. CASE SetLoading(t)
  BY <1>2 DEF SetLoading, SetState
<1>3. CASE Recheck(t)
  BY <1>3 DEF Recheck
<1>4. CASE GiveBack(t)
  BY <1>4 DEF GiveBack
<1>5. CASE GaveBack(t)
  BY <1>5 DEF GaveBack, SetState
<1>6. CASE Commit(t)
  BY <1>6 DEF Commit
<1>7. CASE Configure(t)
  BY <1>7 DEF Configure
<1>8. CASE RunBody(t)
  BY <1>8 DEF RunBody
<1>9. CASE BodyReturns(t)
  BY <1>9 DEF BodyReturns
<1>10. CASE Activate(t)
  BY <1>10 DEF Activate, Call
<1>11. CASE SetActive(t)
  BY <1>11 DEF SetActive, SetState
<1>12. CASE Fail(t)
  BY <1>12 DEF Fail, Call
<1>13. CASE Failed(t)
  BY <1>13 DEF Failed
<1>14. CASE SetFailed(t)
  BY <1>14 DEF SetFailed, SetState
<1>15. QED
  BY <1>1, <1>2, <1>3, <1>4, <1>5, <1>6, <1>7, <1>8, <1>9, <1>10, <1>11, <1>12,
     <1>13, <1>14 DEF Loading

\* The steps of Unloading go by the binding in place, or leave it to another pass.
LEMMA CurrentUnloading ==
    ASSUME NEW t \in Threads, TypeOK, ~disposed, busy, Progress(t), CurrentAt(t),
           Unloading(t)
    PROVE  Awaited' \/ CurrentAt(t)'
<1> USE DEF CurrentAt, Looking, TargetPCs, Awaited, Progress, TypeOK, FlagsOK,
        DataOK, generation, driver, effects, plumbing, services, locals,
        CallPCs, UnloadPCs, LoadPCs, OwnerPCs, Continuations
<1>1. CASE Unload(t)
  BY <1>1 DEF Unload
<1>2. CASE SetUnloading(t)
  BY <1>2 DEF SetUnloading, SetState
<1>3. CASE Clear(t)
  BY <1>3 DEF Clear
<1>4. CASE Unwind(t)
  BY <1>4 DEF Unwind
<1>5. CASE Unloaded(t)
  BY <1>5 DEF Unloaded
<1>6. CASE Repending(t)
  BY <1>6 DEF Repending, SetState
<1>7. CASE FinalizeDispose(t)
  BY <1>7 DEF FinalizeDispose, SetState
<1>8. QED
  BY <1>1, <1>2, <1>3, <1>4, <1>5, <1>6, <1>7 DEF Unloading

\* The steps of Driving bring the disposal to its end.
LEMMA FinishingDriving ==
    ASSUME NEW t \in Threads, TypeOK, disposed, Phase(t), FinishingAt(t),
           Driving(t)
    PROVE  FinishingAt(t)'
<1> USE DEF FinishingAt, FinishingPCs, Phase, Resting, Loaded, Unloadable,
        DecidingPCs, StartingPCs, BodyPCs, ReleasingPCs, FailedPCs, TypeOK,
        FlagsOK, DataOK, generation, driver, effects, plumbing, services,
        locals, CallPCs, UnloadPCs, LoadPCs, OwnerPCs, Continuations
<1>1. CASE BeginPass(t)
  BY <1>1 DEF BeginPass
<1>2. CASE EndPass(t)
  BY <1>2 DEF EndPass
<1>3. CASE Sync(t)
  BY <1>3 DEF Sync, Call
<1>4. CASE Resolve(t)
  BY <1>4 DEF Resolve
<1>5. CASE Compare(t)
  BY <1>5 DEF Compare, Call
<1>6. CASE ApplyUnload(t)
  BY <1>6 DEF ApplyUnload
<1>7. CASE ApplyLoad(t)
  BY <1>7 DEF ApplyLoad
<1>8. CASE Reload(t)
  BY <1>8 DEF Reload
<1>9. CASE Reresolve(t)
  BY <1>9 DEF Reresolve
<1>10. QED
  BY <1>1, <1>2, <1>3, <1>4, <1>5, <1>6, <1>7, <1>8, <1>9 DEF Driving

\* The steps of Loading bring the disposal to its end.
LEMMA FinishingLoading ==
    ASSUME NEW t \in Threads, TypeOK, disposed, Phase(t), FinishingAt(t),
           Loading(t)
    PROVE  FinishingAt(t)'
<1> USE DEF FinishingAt, FinishingPCs, Phase, Resting, Loaded, Unloadable,
        DecidingPCs, StartingPCs, BodyPCs, ReleasingPCs, FailedPCs, TypeOK,
        FlagsOK, DataOK, generation, driver, effects, plumbing, services,
        locals, CallPCs, UnloadPCs, LoadPCs, OwnerPCs, Continuations
<1>1. CASE Load(t)
  BY <1>1 DEF Load
<1>2. CASE SetLoading(t)
  BY <1>2 DEF SetLoading, SetState
<1>3. CASE Recheck(t)
  BY <1>3 DEF Recheck
<1>4. CASE GiveBack(t)
  BY <1>4 DEF GiveBack
<1>5. CASE GaveBack(t)
  BY <1>5 DEF GaveBack, SetState
<1>6. CASE Commit(t)
  BY <1>6 DEF Commit
<1>7. CASE Configure(t)
  BY <1>7 DEF Configure
<1>8. CASE RunBody(t)
  BY <1>8 DEF RunBody
<1>9. CASE BodyReturns(t)
  BY <1>9 DEF BodyReturns
<1>10. CASE Activate(t)
  BY <1>10 DEF Activate, Call
<1>11. CASE SetActive(t)
  BY <1>11 DEF SetActive, SetState
<1>12. CASE Fail(t)
  BY <1>12 DEF Fail, Call
<1>13. CASE Failed(t)
  BY <1>13 DEF Failed
<1>14. CASE SetFailed(t)
  BY <1>14 DEF SetFailed, SetState
<1>15. QED
  BY <1>1, <1>2, <1>3, <1>4, <1>5, <1>6, <1>7, <1>8, <1>9, <1>10, <1>11, <1>12,
     <1>13, <1>14 DEF Loading

\* The steps of Unloading bring the disposal to its end.
LEMMA FinishingUnloading ==
    ASSUME NEW t \in Threads, TypeOK, disposed, Phase(t), FinishingAt(t),
           Unloading(t)
    PROVE  FinishingAt(t)'
<1> USE DEF FinishingAt, FinishingPCs, Phase, Resting, Loaded, Unloadable,
        DecidingPCs, StartingPCs, BodyPCs, ReleasingPCs, FailedPCs, TypeOK,
        FlagsOK, DataOK, generation, driver, effects, plumbing, services,
        locals, CallPCs, UnloadPCs, LoadPCs, OwnerPCs, Continuations
<1>1. CASE Unload(t)
  BY <1>1 DEF Unload
<1>2. CASE SetUnloading(t)
  BY <1>2 DEF SetUnloading, SetState
<1>3. CASE Clear(t)
  BY <1>3 DEF Clear
<1>4. CASE Unwind(t)
  BY <1>4 DEF Unwind
<1>5. CASE Unloaded(t)
  BY <1>5 DEF Unloaded
<1>6. CASE Repending(t)
  BY <1>6 DEF Repending, SetState
<1>7. CASE FinalizeDispose(t)
  BY <1>7 DEF FinalizeDispose, SetState
<1>8. QED
  BY <1>1, <1>2, <1>3, <1>4, <1>5, <1>6, <1>7 DEF Unloading

----------------------------------------------------------------------------
(* The parts of the invariant, step by step. *)

\* A pass decides on every request it finds: a disposal, then a forced reload,
\* then the binding in place.
LEMMA SyncDecides ==
    ASSUME NEW t \in Threads, TypeOK, Sync(t), busy
    PROVE  /\ ~forceReload' /\ (Awaited' \/ ~dirty')
           /\ ~disposed => CurrentAt(t)'
           /\ disposed => FinishingAt(t)'
<1> USE DEF Sync, Call, TypeOK, FlagsOK, DataOK, UnloadPCs, generation, driver,
        effects, plumbing, services, locals
<1>1. ~forceReload' /\ (Awaited' \/ ~dirty')
  BY DEF Awaited
<1>2. ~disposed => CurrentAt(t)'
  BY DEF CurrentAt, TargetPCs, Looking
<1>3. disposed => FinishingAt(t)'
  BY DEF FinishingAt, FinishingPCs
<1>4. QED
  BY <1>1, <1>2, <1>3

\* A request that is still marked will be looked at, after a call ...
LEMMA MarkedCall ==
    ASSUME NEW t \in Threads, CallStep(t), Asks(t), Marked
    PROVE  Marked'
BY AskedStaysAwaited DEF Marked, Asks

\* ... and after a step of the owner.
LEMMA MarkedOwner ==
    ASSUME NEW t \in Threads, TypeOK, busy, OwnerStep(t), Sync(t) \/ Works(t),
           Marked
    PROVE  Marked'
<1>1. CASE Sync(t)
  BY <1>1, SyncDecides DEF Marked
<1>2. CASE Works(t)
  <2>1. CASE dirty' = dirty
    BY <1>2, <2>1, WorkStaysAwaited DEF Marked, Works
  <2>2. CASE dirty' # dirty
    <3>1. (busy' /\ dirty') \/ pc'[t] = "sync"
      BY <1>2, <2>2 DEF Works
    <3>2. Awaited'
      BY <3>1 DEF Awaited
    <3>3. QED
      BY <3>2 DEF Marked
  <2>3. QED
    BY <2>1, <2>2
<1>3. QED
  BY <1>1, <1>2

\* The owner of a transition is none of the goroutines that Disposal is about.
LEMMA DisposalOwner ==
    ASSUME NEW t \in Threads, OwnerStep(t), Disposal,
           UNCHANGED <<disposed, plumbing>>
    PROVE  Disposal'
<1>1. pc[t] \notin {"cancel", "remove", "announce"}
  BY DEF OwnerStep, Owning, OwnerPCs, UnloadPCs, LoadPCs
<1>2. pc'[t] \notin {"cancel", "remove", "announce"}
  BY DEF OwnerStep, Owning, OwnerPCs, UnloadPCs, LoadPCs
<1>3. \A u \in Threads : u # t => pc'[u] = pc[u]
  BY DEF OwnerStep
<1>4. cancelled' = cancelled /\ registered' = registered
      /\ announced' = announced /\ disposed' = disposed
  BY DEF plumbing
<1>5. QED
  BY <1>1, <1>2, <1>3, <1>4 DEF Disposal

\* A call leaves the unload that ends a disposal alone.
LEMMA FinishingCall ==
    ASSUME NEW t \in Threads, CallStep(t), Asks(t), Finishing
    PROVE  Finishing'
<1>1. CASE Awaited'
  BY <1>1 DEF Finishing
<1>2. CASE ~Awaited'
  <2>1. ~Awaited /\ disposed' = disposed /\ state' = state
    BY <1>2, AskedStaysAwaited DEF Asks
  <2>2. \A u \in Threads : pc[u] \in FinishingPCs => pc'[u] = pc[u]
    BY DEF CallStep, Owning, FinishingPCs, OwnerPCs, UnloadPCs
  <2>3. QED
    BY <2>1, <2>2 DEF Finishing
<1>3. QED
  BY <1>1, <1>2

\* The owner decides to finish, or goes on finishing.
LEMMA FinishingOwner ==
    ASSUME NEW t \in Threads, TypeOK, Ownership, Phases, Finishing,
           Driving(t) \/ Loading(t) \/ Unloading(t)
    PROVE  Finishing'
<1>1. OwnerStep(t)
  BY OwnsDriving, OwnsLoading, OwnsUnloading
<1>2. Owning(t) /\ busy /\ Phase(t) /\ disposed' = disposed
  BY <1>1 DEF OwnerStep, Ownership, Phases
<1>3. FinishingAt(t)' => Finishing'
  BY DEF FinishingAt, Finishing
<1>4. SUFFICES ASSUME disposed, ~Sync(t), ~Awaited'
               PROVE  FinishingAt(t)'
  BY <1>2, <1>3, SyncDecides DEF Finishing
<1>5. ~Awaited
  BY <1>1, <1>2, <1>4, WorksDriving, WorksLoading, WorksUnloading,
     WorkStaysAwaited
<1>6. FinishingAt(t)
  <2>1. \A u \in Threads : pc[u] \in FinishingPCs => u = t
    BY <1>2 DEF Ownership, Owning, FinishingPCs, OwnerPCs, UnloadPCs
  <2>2. QED
    BY <1>4, <1>5, <2>1 DEF Finishing, FinishingAt
<1>7. QED
  BY <1>2, <1>4, <1>6, FinishingDriving, FinishingLoading, FinishingUnloading

\* A call that moves the world makes the driver awaited.
LEMMA CurrentCall ==
    ASSUME NEW t \in Threads, CallStep(t), Asks(t), Current
    PROVE  Current'
<1>1. CASE Awaited' \/ disposed'
  BY <1>1 DEF Current
<1>2. CASE ~Awaited' /\ ~disposed'
  <2>1. ~Awaited /\ ~disposed /\ world' = world
    BY <1>2, AskedStaysAwaited DEF Asks
  <2>2. epoch' = epoch /\ target' = target /\ cont' = cont
    BY DEF Asks, locals
  <2>3. pc[t] \notin TargetPCs /\ ~Looking(t) /\ pc'[t] \notin TargetPCs
    BY <1>2 DEF Asks, Owning, Looking, TargetPCs, OwnerPCs, UnloadPCs, LoadPCs
  <2>4. \A u \in Threads : u # t => pc'[u] = pc[u]
    BY DEF CallStep
  <2>5. QED
    BY <2>1, <2>2, <2>3, <2>4 DEF Current, Looking
<1>3. QED
  BY <1>1, <1>2

\* What Current says of the only owner.
LEMMA CurrentOfOwner ==
    ASSUME NEW t \in Threads, Alone(t)
    PROVE  Current <=> disposed \/ Awaited \/ CurrentAt(t)
<1>1. \A u \in Threads : u # t => pc[u] \notin TargetPCs /\ ~Looking(u)
  BY DEF Alone, Owning, Looking, TargetPCs, OwnerPCs, UnloadPCs, LoadPCs
<1>2. QED
  BY <1>1 DEF Current, CurrentAt

\* The owner goes by the binding it finds.
LEMMA CurrentOwner ==
    ASSUME NEW t \in Threads, TypeOK, Ownership, Current, Progressing,
           Driving(t) \/ Loading(t) \/ Unloading(t)
    PROVE  Current'
<1>1. OwnerStep(t)
  BY OwnsDriving, OwnsLoading, OwnsUnloading
<1>2. Owning(t) /\ busy /\ disposed' = disposed
  BY <1>1 DEF OwnerStep, Ownership
<1>3. Alone(t) /\ Alone(t)'
  BY <1>1 DEF OwnerStep, Ownership, Alone, Owning
<1>4. CurrentAt(t)' => Current'
  <2>1. \A u \in Threads : u # t => (pc[u] \notin TargetPCs /\ ~Looking(u))'
    BY <1>3 DEF Alone, Owning, Looking, TargetPCs, OwnerPCs, UnloadPCs, LoadPCs
  <2>2. QED
    BY <2>1 DEF Current, CurrentAt
<1>5. SUFFICES ASSUME ~disposed, ~Sync(t), ~Awaited'
               PROVE  CurrentAt(t)'
  BY <1>2, <1>4, SyncDecides DEF Current
<1>6. ~Awaited
  BY <1>1, <1>2, <1>5, WorksDriving, WorksLoading, WorksUnloading,
     WorkStaysAwaited
<1>7. CurrentAt(t) /\ Progress(t)
  BY <1>3, <1>5, <1>6, CurrentOfOwner DEF Progressing
<1>8. QED
  BY <1>2, <1>5, <1>7, CurrentDriving, CurrentLoading, CurrentUnloading

\* The claim about a place outlives the calls of other goroutines ...
LEMMA ProgressStable ==
    ASSUME NEW t \in Threads, NEW u \in Threads, Progress(t), Asks(u),
           pc'[t] = pc[t]
    PROVE  Progress(t)'
BY DEF Progress, Asks, locals, Settling, Down, Unresolved, Resolved, Configured

\* ... and says nothing of a goroutine that owns no transition.
LEMMA ProgressOutside ==
    ASSUME NEW t \in Threads, ~Owning(t)
    PROVE  Progress(t)
BY DEF Owning, Progress, DecidingPCs, StartingPCs, FailedPCs, OwnerPCs,
       UnloadPCs, LoadPCs

\* A goroutine that becomes the owner finds a fiber that is consistent.
LEMMA ProgressCall ==
    ASSUME NEW t \in Threads, Ownership, CallStep(t), Asks(t), Progressing
    PROVE  Progressing'
<1> SUFFICES ASSUME ~disposed, ~disposed'
             PROVE  Progressing'
  BY DEF CallStep, Progressing
<1>1. Settling => Settling'
  BY DEF Asks, Settling, Down, Unresolved, Resolved, Configured
<1>2. ASSUME NEW u \in Threads PROVE Progress(u)'
  <2>1. CASE u # t
    BY <2>1, ProgressStable DEF CallStep, Progressing
  <2>2. CASE u = t /\ pc'[t] = "pass"
    <3>1. Settling'
      BY <1>1, <2>2 DEF CallStep, Ownership, Progressing, CallPCs
    <3>2. QED
      BY <2>2, <3>1 DEF Progress, StartingPCs, FailedPCs, UnloadPCs
  <2>3. CASE u = t /\ pc'[t] \in CallPCs \cup {"idle"}
    BY <2>3 DEF Progress, DecidingPCs, StartingPCs, FailedPCs, UnloadPCs,
                CallPCs
  <2>4. QED
    BY <2>1, <2>2, <2>3 DEF CallStep
<1>3. (Settling \/ \E u \in Threads : Owning(u))'
  BY <1>1 DEF Progressing, CallStep, Owning
<1>4. QED
  BY <1>2, <1>3 DEF Progressing

\* A step of the owner takes it from one place to another.
LEMMA ProgressOwner ==
    ASSUME NEW t \in Threads, TypeOK, Ownership, Phases, Progressing,
           Driving(t) \/ Loading(t) \/ Unloading(t)
    PROVE  Progressing'
<1>1. OwnerStep(t)
  BY OwnsDriving, OwnsLoading, OwnsUnloading
<1> SUFFICES ASSUME ~disposed
             PROVE  Progressing'
  BY <1>1 DEF OwnerStep, Progressing
<1>2. Phase(t) /\ Progress(t)
  BY DEF Phases, Progressing
<1>3. Progress(t)' /\ (pc'[t] = "idle" => Settling')
  BY <1>2, ProgressDriving, ProgressLoading, ProgressUnloading
<1>4. ASSUME NEW u \in Threads PROVE Progress(u)'
  <2>1. CASE u # t
    <3>1. ~Owning(u)'
      BY <1>1, <2>1 DEF OwnerStep, Ownership, Owning
    <3>2. QED
      BY <3>1 DEF Owning, Progress, DecidingPCs, StartingPCs, FailedPCs,
                  OwnerPCs, UnloadPCs, LoadPCs
  <2>2. QED
    BY <1>3, <2>1
<1>5. (Settling \/ \E u \in Threads : Owning(u))'
  BY <1>1, <1>3 DEF OwnerStep, Owning
<1>6. QED
  BY <1>4, <1>5 DEF Progressing

----------------------------------------------------------------------------
(* The invariant and what it implies. *)

\* A freshly attached fiber is awaited by the goroutine that loads it.
LEMMA SettlingInit == Init => SettlingInv
<1> SUFFICES ASSUME Init PROVE SettlingInv
  OBVIOUS
<1>1. DriverInv
  BY DriverInit
<1>2. \A t \in Threads : ~Owning(t)
  BY DEF Init, Owning, OwnerPCs, UnloadPCs, LoadPCs
<1>3. Awaited
  BY DEF Init, Awaited, Coming
<1>4. Marked /\ Finishing /\ Current
  BY <1>3 DEF Marked, Finishing, Current
<1>5. Disposal
  BY DEF Init, Disposal
<1>6. Progressing
  <2>1. \A t \in Threads : Progress(t)
    BY <1>2, ProgressOutside
  <2>2. Settling
    BY DEF Init, Settling, Down, Unresolved
  <2>3. QED
    BY <2>1, <2>2 DEF Progressing
<1>7. QED
  BY <1>1, <1>4, <1>5, <1>6 DEF SettlingInv

\* Every step keeps it.
LEMMA SettlingNext == SettlingInv /\ [Next]_vars => SettlingInv'
<1> SUFFICES ASSUME SettlingInv, [Next]_vars PROVE SettlingInv'
  OBVIOUS
<1> USE DEF SettlingInv, DriverInv
<1>1. DriverInv'
  BY DriverNext
<1>2. CASE UNCHANGED vars
  <2> USE <1>2 DEF vars, generation, driver, effects, plumbing, services, locals
  <2>1. Awaited' <=> Awaited
    BY DEF Awaited, Coming
  <2>2. Marked' /\ Finishing'
    BY <2>1 DEF Marked, Finishing
  <2>3. Disposal'
    BY DEF Disposal
  <2>4. Current'
    BY <2>1 DEF Current, Looking
  <2>5. Progressing'
    BY DEF Progressing, Progress, Settling, Down, Unresolved, Resolved,
           Configured, Owning
  <2>6. QED
    BY <1>1, <2>2, <2>3, <2>4, <2>5
<1>3. ASSUME NEW t \in Threads, Request(t) \/ Calling(t) PROVE SettlingInv'
  <2>1. CallStep(t)
    BY <1>3, CallsRequest, CallsCalling
  <2>2. Asks(t)
    BY <1>3, AsksRequest, AsksCalling
  <2>3. Disposal'
    BY <1>3, DisposalRequest, DisposalCalling
  <2>4. Marked' /\ Finishing' /\ Current' /\ Progressing'
    BY <2>1, <2>2, MarkedCall, FinishingCall, CurrentCall, ProgressCall
  <2>5. QED
    BY <1>1, <2>3, <2>4
<1>4. ASSUME NEW t \in Threads, Driving(t) \/ Loading(t) \/ Unloading(t)
      PROVE  SettlingInv'
  <2>1. OwnerStep(t)
    BY <1>4, OwnsDriving, OwnsLoading, OwnsUnloading
  <2>2. Owning(t) /\ busy
    BY <2>1 DEF OwnerStep, Ownership
  <2>3. Sync(t) \/ Works(t)
    BY <1>4, <2>2, WorksDriving, WorksLoading, WorksUnloading
  <2>4. UNCHANGED <<disposed, plumbing>>
    BY <2>3 DEF Sync, Works
  <2>5. Marked' /\ Disposal'
    BY <2>1, <2>2, <2>3, <2>4, MarkedOwner, DisposalOwner
  <2>6. Finishing' /\ Current' /\ Progressing'
    BY <1>4, FinishingOwner, CurrentOwner, ProgressOwner
  <2>7. QED
    BY <1>1, <2>5, <2>6
<1>5. QED
  BY <1>2, <1>3, <1>4 DEF Next, Proceed

\* Everything asked of the driver is done or will be looked at, in every
\* reachable state (fiber.go: refresh, drive, sync, load).
THEOREM SettlingInvariant == Spec => []SettlingInv
<1>1. QED
  BY SettlingInit, SettlingNext, PTL DEF Spec

\* When every call has returned, the fiber has caught up with the service
\* registry and with every request made of it (refresh, drive, sync, load).
THEOREM NoWakeUpIsLost == Spec => []Settled
<1>1. ASSUME SettlingInv, Quiet PROVE Settled
  <2> USE DEF SettlingInv, DriverInv
  <2>1. ~busy /\ \A t \in Threads : ~Owning(t)
    BY <1>1 DEF Quiet, Ownership, Owning, OwnerPCs, UnloadPCs, LoadPCs
  <2>2. ~Awaited
    BY <1>1, <2>1 DEF Quiet, Awaited, Coming
  <2>3. ~dirty /\ ~forceReload
    BY <1>1, <2>2 DEF Marked
  <2>4. CASE disposed
    <3>1. state = "disposed"
      BY <1>1, <2>2, <2>4 DEF Finishing, Quiet, FinishingPCs
    <3>2. cancelled /\ ~registered /\ announced
      BY <1>1, <2>4 DEF Disposal, Quiet
    <3>3. QED
      BY <2>1, <2>3, <2>4, <3>1, <3>2 DEF Settled
  <2>5. CASE ~disposed
    <3>1. epoch = world
      BY <1>1, <2>2, <2>5 DEF Current, Quiet, TargetPCs, Looking, UnloadPCs
    <3>2. Settling
      BY <1>1, <2>1, <2>5 DEF Progressing
    <3>3. ~live => bodyEffects = 0
      BY <1>1 DEF Held, Quiet
    <3>4. Consistent
      BY <2>3, <3>2, <3>3 DEF Settling, Down, Unresolved, Resolved, Configured,
                              Consistent
    <3>5. QED
      BY <2>1, <2>3, <2>5, <3>1, <3>4 DEF Settled
  <2>6. QED
    BY <2>4, <2>5
<1>2. SettlingInv => Settled
  BY <1>1 DEF Settled
<1>3. QED
  BY <1>2, SettlingInvariant, PTL
=============================================================================
