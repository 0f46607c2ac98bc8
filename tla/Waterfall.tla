----------------------------- MODULE Waterfall -----------------------------
(***************************************************************************)
(* One waterfall dispatch (waterfallStep in events.go).                    *)
(*                                                                         *)
(* The chain has a step per listener and a last one for final.  A listener *)
(* receives the call method of the next step; it may call it, call it      *)
(* again, never call it, panic before or after it, or keep it, and then    *)
(* any goroutine calls it, even after the dispatch has returned.  Whoever  *)
(* calls a step first runs it; the others wait for its result.             *)
(*                                                                         *)
(* A goroutine is its stack of steps.  A step of the model is one critical *)
(* section of waterfallStep.mu or what the user's code does between two.   *)
(***************************************************************************)
EXTENDS Integers, FiniteSets, SequencesExt

CONSTANTS
    Threads,     \* goroutines
    Size,        \* number of listeners in the snapshot of the dispatch
    Values,      \* what listeners and final return
    Nil,         \* the nil result
    MaxNext      \* bound: how often one listener calls next

ASSUME WaterfallAssumption ==
    Size \in Nat /\ MaxNext \in Nat /\ Nil \notin Values

Steps == 1..(Size + 1)
Final == Size + 1
Results == Values \cup {Nil}

VARIABLES
    phase,     \* started and finished of each step
    result,    \* the result a finished step holds
    kept,      \* steps whose call method a listener has handed out
    runs,      \* how often the listener or final of a step ran
    failed,    \* steps whose listener was skipped or panicked
    answers,   \* what the callers of a step were given
    begun,     \* the dispatch has been started
    stack      \* the steps each goroutine is in

vars == <<phase, result, kept, runs, failed, answers, begun, stack>>

Places == {"call", "wait", "run", "fn", "next", "settle"}
Frames == [at : Places, s : Steps, asked : 0..MaxNext, value : Results]

TypeOK ==
    /\ phase \in [Steps -> {"new", "started", "finished"}]
    /\ result \in [Steps -> Results]
    /\ kept \subseteq Steps /\ failed \subseteq 1..Size
    /\ runs \in [Steps -> Nat]
    /\ answers \in [Steps -> SUBSET Results]
    /\ begun \in BOOLEAN
    /\ stack \in [Threads -> Seq(Frames)]

Init ==
    /\ phase = [s \in Steps |-> "new"] /\ result = [s \in Steps |-> Nil]
    /\ kept = {} /\ failed = {}
    /\ runs = [s \in Steps |-> 0] /\ answers = [s \in Steps |-> {}]
    /\ begun = FALSE
    /\ stack = [t \in Threads |-> <<>>]

----------------------------------------------------------------------------
Frame(s) == [at |-> "call", s |-> s, asked |-> 0, value |-> Nil]
Top(t) == Last(stack[t])
In(t, at) == stack[t] # <<>> /\ Top(t).at = at

Become(t, frame) == stack' = [stack EXCEPT ![t] = Append(Front(@), frame)]
Goto(t, at) == Become(t, [Top(t) EXCEPT !.at = at])
Settling(t, v) == Become(t, [Top(t) EXCEPT !.at = "settle", !.value = v])

\* The call returns v to its caller, a listener or the outside.
Answer(t, v) ==
    LET callers == Front(stack[t]) IN
    /\ answers' = [answers EXCEPT ![Top(t).s] = @ \cup {v}]
    /\ stack' = [stack EXCEPT ![t] =
           IF callers = <<>> THEN <<>>
           ELSE Append(Front(callers), [Last(callers) EXCEPT !.value = v])]

\* Waterfall calls the first step.
Begin(t) ==
    /\ stack[t] = <<>> /\ ~begun
    /\ begun' = TRUE
    /\ stack' = [stack EXCEPT ![t] = <<Frame(1)>>]
    /\ UNCHANGED <<phase, result, kept, runs, failed, answers>>

\* A goroutine calls a next that some listener has kept.
Resume(t, s) ==
    /\ stack[t] = <<>> /\ s \in kept
    /\ stack' = [stack EXCEPT ![t] = <<Frame(s)>>]
    /\ UNCHANGED <<phase, result, kept, runs, failed, answers, begun>>

----------------------------------------------------------------------------
(* call. *)

\* Mutant: a step that has started is run again.
CallStarted(t) ==
    /\ In(t, "call")
    /\ phase' = [phase EXCEPT ![Top(t).s] = "started"]
    /\ Goto(t, "run")
    /\ UNCHANGED <<result, kept, runs, failed, answers, begun>>

\* The first caller runs the step, the others take its result or wait for it.
CallStep(t) ==
    /\ In(t, "call")
    /\ LET s == Top(t).s IN
       \/ /\ phase[s] = "finished"
          /\ phase' = phase /\ Answer(t, result[s])
       \/ /\ phase[s] = "started"
          /\ phase' = phase /\ Goto(t, "wait") /\ UNCHANGED answers
       \/ /\ phase[s] = "new"
          /\ phase' = [phase EXCEPT ![s] = "started"]
          /\ Goto(t, "run") /\ UNCHANGED answers
    /\ UNCHANGED <<result, kept, runs, failed, begun>>

\* Mutant: the caller does not wait for the runner.
AwaitNothing(t) ==
    /\ In(t, "wait")
    /\ Answer(t, result[Top(t).s])
    /\ UNCHANGED <<phase, result, kept, runs, failed, begun>>

Await(t) ==
    /\ In(t, "wait") /\ phase[Top(t).s] = "finished"
    /\ Answer(t, result[Top(t).s])
    /\ UNCHANGED <<phase, result, kept, runs, failed, begun>>

\* Mutant: the result is stored and the waiters are not woken.
SettleUnpublished(t) ==
    /\ In(t, "settle")
    /\ result' = [result EXCEPT ![Top(t).s] = Top(t).value]
    /\ Answer(t, Top(t).value)
    /\ UNCHANGED <<phase, kept, runs, failed, begun>>

\* Publish the result and wake the waiters.
Settle(t) ==
    /\ In(t, "settle")
    /\ LET s == Top(t).s IN
       /\ result' = [result EXCEPT ![s] = Top(t).value]
       /\ phase' = [phase EXCEPT ![s] = "finished"]
    /\ Answer(t, Top(t).value)
    /\ UNCHANGED <<kept, runs, failed, begun>>

----------------------------------------------------------------------------
(* run, invokeListener and runFinal. *)

Ran(s) == runs' = [runs EXCEPT ![s] = @ + 1]

\* A once-listener that another dispatch has claimed is skipped.
RunListener(t) ==
    /\ In(t, "run") /\ Top(t).s # Final
    /\ \/ Ran(Top(t).s) /\ Goto(t, "fn") /\ failed' = failed
       \/ /\ runs' = runs /\ Goto(t, "next")
          /\ failed' = failed \cup {Top(t).s}
    /\ UNCHANGED <<phase, result, kept, answers, begun>>

\* final returns a value; without a final, or when it panics, the result is nil.
RunFinal(t) ==
    /\ In(t, "run") /\ Top(t).s = Final
    /\ Ran(Final)
    /\ \E v \in Results : Settling(t, v)
    /\ UNCHANGED <<phase, result, kept, failed, answers, begun>>

\* The listener calls next and uses what it returns as it likes.
CallNext(t) ==
    /\ In(t, "fn") /\ Top(t).asked < MaxNext
    /\ stack' = [stack EXCEPT ![t] =
           Append(Append(Front(@), [Top(t) EXCEPT !.asked = @ + 1]),
                  Frame(Top(t).s + 1))]
    /\ UNCHANGED <<phase, result, kept, runs, failed, answers, begun>>

\* The listener hands next to somebody else, or stores it.
KeepNext(t) ==
    /\ In(t, "fn") /\ Top(t).s + 1 \notin kept
    /\ kept' = kept \cup {Top(t).s + 1}
    /\ UNCHANGED <<phase, result, runs, failed, answers, begun, stack>>

ListenerReturns(t) ==
    /\ In(t, "fn")
    /\ \E v \in Results : Settling(t, v)
    /\ UNCHANGED <<phase, result, kept, runs, failed, answers, begun>>

\* Mutant: the chain ends with the listener that panicked.
PanicSettles(t) ==
    /\ In(t, "fn")
    /\ failed' = failed \cup {Top(t).s}
    /\ Settling(t, Nil)
    /\ UNCHANGED <<phase, result, kept, runs, answers, begun>>

\* A listener that panics is logged, and the rest of the chain decides.
ListenerPanics(t) ==
    /\ In(t, "fn")
    /\ failed' = failed \cup {Top(t).s}
    /\ Goto(t, "next")
    /\ UNCHANGED <<phase, result, kept, runs, answers, begun>>

\* Call the next step on the listener's behalf; its answer is the result.
Continue(t) ==
    /\ In(t, "next")
    /\ stack' = [stack EXCEPT ![t] =
           Append(Append(Front(@), [Top(t) EXCEPT !.at = "settle"]),
                  Frame(Top(t).s + 1))]
    /\ UNCHANGED <<phase, result, kept, runs, failed, answers, begun>>
----------------------------------------------------------------------------
Proceed(t) ==
    \/ CallStep(t) \/ Await(t) \/ Settle(t)
    \/ RunListener(t) \/ RunFinal(t) \/ CallNext(t) \/ KeepNext(t)
    \/ ListenerReturns(t) \/ ListenerPanics(t) \/ Continue(t)

Quiet == \A t \in Threads : stack[t] = <<>>

\* The program may stop when every call has returned, and only then.
Stop == Quiet /\ UNCHANGED vars

Next ==
    \/ \E t \in Threads : Begin(t) \/ Proceed(t) \/ \E s \in Steps : Resume(t, s)
    \/ Stop

Spec == Init /\ [][Next]_vars

\* Goroutines inside a call are scheduled, and listeners return.
FairSpec == Spec /\ \A t \in Threads : WF_vars(Proceed(t))

----------------------------------------------------------------------------
(* What a waterfall promises. *)

\* "no listener or final can run twice", whoever calls next, again, later or
\* at the same time, and however listeners fail (waterfallStep).
RunsOnce == \A s \in Steps : runs[s] <= 1

\* Every caller of the same next is given the same result, the one that the
\* step holds: "this makes concurrent or saved next calls deterministic".
SameAnswer ==
    \A s \in Steps : answers[s] \subseteq
        (IF phase[s] = "finished" THEN {result[s]} ELSE {})

\* A listener that was skipped or panicked neither ends the chain nor disturbs
\* what the rest of it decided, even when it panics after next has returned
\* (run, OnWaterfall).
FailureIsTransparent ==
    \A s \in failed : phase[s] = "finished" =>
        phase[s + 1] = "finished" /\ result[s] = result[s + 1]

\* Every call returns: waiting callers are woken and no two goroutines wait
\* for each other's step (call).
CallsReturn == \A t \in Threads : (stack[t] # <<>>) ~> (stack[t] = <<>>)
=============================================================================
