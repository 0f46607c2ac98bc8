------------------------ MODULE FiberAttachmentProofs ------------------------
(***************************************************************************)
(* Proofs about FiberAttachment, for every set of goroutines and any       *)
(* number of loads: all the invariants its passing run checks.             *)
(*                                                                         *)
(* The inductive invariant says what each place of a call knows of its     *)
(* fiber and of the parent; that a fiber is loaded, and removed from its   *)
(* runtime, by one call at a time; and that whatever is under way has a    *)
(* call that will finish it.                                               *)
(***************************************************************************)
EXTENDS FiberAttachment, SequencesExt, SequenceTheorems, FiniteSetTheorems, TLAPS

----------------------------------------------------------------------------
(* Sequences that are used as stacks. *)

\* A stack in a call has a top, of the type of its frames.
LEMMA TopFrame ==
    ASSUME NEW S, NEW s \in Seq(S), s # <<>>
    PROVE  /\ Len(s) \in Nat \ {0}
           /\ Last(s) \in S
           /\ Last(s) = s[Len(s)]
<1>1. Len(s) \in Nat \ {0}
  BY EmptySeq
<1>2. Len(s) \in 1..Len(s)
  BY <1>1
<1>3. QED
  BY <1>1, <1>2, ElementOfSeq DEF Last

\* Popping leaves everything below the top as it was.
LEMMA PopFrame ==
    ASSUME NEW S, NEW s \in Seq(S), s # <<>>
    PROVE  /\ Front(s) \in Seq(S)
           /\ Len(Front(s)) = Len(s) - 1
           /\ \A i \in 1..(Len(s) - 1) : Front(s)[i] = s[i]
<1> DEFINE n == Len(s) - 1
<1>1. n \in Nat
  BY EmptySeq
<1>2. \A i \in 1..n : s[i] \in S
  BY <1>1, ElementOfSeq
<1> HIDE DEF n
<1>3. /\ SubSeq(s, 1, n) \in Seq(S)
      /\ Len(SubSeq(s, 1, n)) = IF 1 <= n THEN n - 1 + 1 ELSE 0
      /\ \A i \in 1..(n - 1 + 1) : SubSeq(s, 1, n)[i] = s[1 + i - 1]
  BY <1>1, <1>2, SubSeqProperties
<1>4. /\ Len(SubSeq(s, 1, n)) = n
      /\ \A i \in 1..n : SubSeq(s, 1, n)[i] = s[i]
  BY <1>1, <1>3
<1>5. Front(s) = SubSeq(s, 1, n)
  BY DEF Front, n
<1>6. QED
  BY <1>3, <1>4, <1>5, Zenon DEF n

\* A call goes on top.
LEMMA PushFrame ==
    ASSUME NEW S, NEW s \in Seq(S), NEW a \in S
    PROVE  /\ Append(s, a) \in Seq(S)
           /\ Len(Append(s, a)) = Len(s) + 1
           /\ \A i \in 1..Len(s) : Append(s, a)[i] = s[i]
           /\ Append(s, a)[Len(s) + 1] = a
  BY AppendProperties

\* A sequence of calls takes the place of the top.
LEMMA ReplaceFrames ==
    ASSUME NEW S, NEW s \in Seq(S), s # <<>>, NEW c \in Seq(S)
    PROVE  /\ Front(s) \o c \in Seq(S)
           /\ Len(Front(s) \o c) = Len(s) - 1 + Len(c)
           /\ \A i \in 1..(Len(s) - 1) : (Front(s) \o c)[i] = s[i]
           /\ \A i \in 1..Len(c) : (Front(s) \o c)[Len(s) - 1 + i] = c[i]
<1>1. /\ Len(s) \in Nat \ {0} /\ Len(c) \in Nat
      /\ Front(s) \in Seq(S) /\ Len(Front(s)) = Len(s) - 1
      /\ \A i \in 1..(Len(s) - 1) : Front(s)[i] = s[i]
  BY TopFrame, PopFrame, LenProperties
<1>2. /\ Front(s) \o c \in Seq(S)
      /\ Len(Front(s) \o c) = Len(Front(s)) + Len(c)
      /\ \A i \in 1..(Len(Front(s)) + Len(c)) : (Front(s) \o c)[i] =
           IF i <= Len(Front(s)) THEN Front(s)[i] ELSE c[i - Len(Front(s))]
  BY <1>1, ConcatProperties
<1>3. \A i \in 1..Len(c) :
        /\ Len(s) - 1 + i \in 1..(Len(Front(s)) + Len(c))
        /\ (Front(s) \o c)[Len(s) - 1 + i] = c[i]
  BY <1>1, <1>2
<1>4. \A i \in 1..(Len(s) - 1) : (Front(s) \o c)[i] = s[i]
  BY <1>1, <1>2
<1>5. QED
  BY <1>1, <1>2, <1>3, <1>4, Zenon

----------------------------------------------------------------------------
(* Numbers. *)

\* No bounded set holds zero and the successor of each of its numbers: the
\* successor would be an injection of a finite set into itself that misses
\* zero.
LEMMA NoFiniteChain ==
    ASSUME NEW n \in Nat, NEW N, N \subseteq 0..n, 0 \in N,
           \A k \in N : k + 1 \in N
    PROVE  FALSE
<1> DEFINE f == [k \in N |-> k + 1]
<1>1. f \in Injection(N, N)
  BY DEF Injection, IsInjective
<1>2. IsFiniteSet(N)
  <2>1. IsFiniteSet(0..n)
    BY FS_Interval
  <2>2. QED
    BY <2>1, FS_Subset
<1>3. f \in Surjection(N, N)
  BY <1>1, <1>2, FS_Injection
<1>4. \E k \in N : f[k] = 0
  BY <1>3 DEF Surjection
<1>5. QED
  BY <1>4

LEMMA Greatest ==
    ASSUME NEW n \in Nat, NEW N, N \subseteq 0..n, N # {}
    PROVE  \E m \in N : \A k \in N : k <= m
<1> SUFFICES ASSUME \A m \in N : \E k \in N : m < k
             PROVE  FALSE
  OBVIOUS
<1> DEFINE D == {x \in 0..n : \E y \in N : x <= y}
<1>1. \A x \in D : x + 1 \in D
  <2> TAKE x \in D
  <2>1. PICK y \in N : x <= y
    OBVIOUS
  <2>2. PICK z \in N : y < z
    OBVIOUS
  <2>3. x + 1 <= z /\ z \in 0..n
    BY <2>1, <2>2
  <2>4. QED
    BY <2>3
<1>2. D \subseteq 0..n
  OBVIOUS
<1>3. 0 \in D
  <2>1. PICK y \in N : y \in 0..n
    OBVIOUS
  <2>2. QED
    BY <2>1
<1> HIDE DEF D
<1>4. QED
  BY <1>1, <1>2, <1>3, NoFiniteChain

USE FibersAssumption

----------------------------------------------------------------------------
(* The inductive invariant. *)

PreCalls == {"load", "runtimeFor", "tryEffect", "discard", "attach"}
ClaimCalls == {"tryEffect", "discard", "attach"}
ChildCalls == {"attach", "install", "store", "loaded"}
LoadCalls == PreCalls \cup ChildCalls
ParentCalls == {"teardown", "clear", "sweep"}
ReleaseCalls == {"request", "once", "fromParent"}

\* The places of a release while its caller waits for it.
Releasing == {"request", "once", "onceDone"}

\* Calls for a fiber that has not been attached.
UnknownCalls == PreCalls \cup ParentCalls \cup {"request"}

\* Calls of which a fiber, or the parent, is in one at a time.
Roles == {LoadCalls, {"remove"}, ParentCalls}

\* Some goroutine is in a call at C for f.
Has(C, f) == \E t \in Threads : \E i \in 1..Len(stack[t]) :
                stack[t][i].at \in C /\ stack[t][i].f = f

\* A teardown is about to release the entry of f.
Swept(f) == \E t \in Threads : \E i \in 1..Len(stack[t]) :
               stack[t][i].at = "sweep" /\ f \in stack[t][i].todo

\* A call at this place waits for a release of f.
Asks(at, f) == \E t \in Threads : \E i \in 1..Len(stack[t]) :
                  \E j \in 1..Len(stack[t]) :
                     /\ j = i + 1
                     /\ stack[t][i].at = at /\ stack[t][i].f \in {f, Parent}
                     /\ stack[t][j].at \in Releasing /\ stack[t][j].f = f

\* The fiber has been attached to its runtime.
Known(f) == f \in attached \/ disposed[f]

\* How the fields of a fiber and of its entry go together.
EntryFacts(f) ==
    /\ f > loads =>
         /\ f \notin attached \cup tree /\ ~disposed[f] /\ ~installed[f]
         /\ ~deferred[f] /\ outcome[f] = "none"
    /\ installed[f] => Known(f) /\ handle[f] # "none"
    /\ handle[f] = "noop" \/ slot[f] = "noop" => deferred[f]
    /\ slot[f] # "none" \/ handleOnce[f] # "new" => installed[f]
    /\ deferred[f] => parent # "open" /\ f \notin tree
    /\ handleOnce[f] = "done" => f \notin tree
    /\ once[f] = "done" => disposed[f]
    /\ state[f] = "disposed" => disposed[f] /\ slot[f] = "none"

EntriesFit == \A f \in Fibers : EntryFacts(f)

\* What the place of a call says about its fiber and about the parent.
FrameFacts(g) ==
    /\ g.at \in ParentCalls <=> g.f = Parent
    /\ g.f <= loads
    /\ g.at \in PreCalls =>
         g.f \notin attached /\ ~disposed[g.f] /\ ~installed[g.f]
    /\ g.at \in LoadCalls => outcome[g.f] = "none"
    /\ g.at \notin UnknownCalls => Known(g.f)
    /\ g.at \in {"store", "handle", "unlist", "once", "fromParent", "onceDone"} =>
         installed[g.f]
    /\ g.at \in {"remove", "finalize", "handle", "unlist"} => disposed[g.f]
    /\ g.at = "remove" => g.f \in attached
    /\ g.at = "teardown" => parent = "closing"
    /\ g.at \in {"clear", "sweep"} => parent = "unloading"
    /\ g.at = "sweep" => tree = {}
    /\ g.todo # {} => g.at = "sweep"
    /\ \A f \in g.todo : f <= loads

CallsFit ==
    \A t \in Threads : \A i \in 1..Len(stack[t]) : FrameFacts(stack[t][i])

OneInRole ==
    \A C \in Roles : \A t, u \in Threads :
    \A i \in 1..Len(stack[t]), j \in 1..Len(stack[u]) :
        /\ stack[t][i].at \in C /\ stack[u][j].at \in C
        /\ stack[t][i].f = stack[u][j].f
        => t = u /\ i = j

\* An entry is released for the parent, out of whose tree it is by then, or
\* for its handle, which takes it out later.
Asked ==
    \A t \in Threads : \A i \in 1..Len(stack[t]) :
        stack[t][i].at \in ReleaseCalls =>
            \/ parent # "open" /\ stack[t][i].f \notin tree
            \/ \E j \in 1..Len(stack[t]) :
                  /\ j < i /\ stack[t][j].at = "unlist"
                  /\ stack[t][j].f = stack[t][i].f

\* The disposer of an entry disposes the fiber before it returns.
Disposing ==
    \A t \in Threads : \A i \in 1..Len(stack[t]) :
        stack[t][i].at = "onceDone" =>
            \/ disposed[stack[t][i].f]
            \/ \E j \in 1..Len(stack[t]) :
                  /\ j = i + 1 /\ stack[t][j].at \in {"fromParent", "dispose"}
                  /\ stack[t][j].f = stack[t][i].f

\* What is under way has a call that will finish it.
Driven(f) ==
    /\ disposed[f] /\ f \in attached => Has({"remove"}, f)
    /\ f \in tree =>
         \/ Has({"attach", "install", "store"}, f) \/ slot[f] = "handle"
         \/ Has({"handle", "unlist"}, f)
    /\ outcome[f] = "fiber" \/ Has(ChildCalls, f) =>
         \/ f \in tree \/ Swept(f) \/ Asks("sweep", f)
         \/ deferred[f] \/ disposed[f]
    /\ deferred[f] =>
         disposed[f] \/ Has({"attach", "install"}, f) \/ Asks("store", f)
    /\ f \in tree \/ Swept(f) \/ Has({"request"}, f) =>
         installed[f] \/ Has({"attach", "install"}, f)

AllDriven == \A f \in Fibers : Driven(f)

\* The registry has the record as long as somebody needs it.
RecordFits ==
    OneRuntime /\ (attached \cup Claimants # {} => runtimes # NoRuntime)

AttachInv ==
    /\ TypeOK /\ EntriesFit /\ CallsFit /\ OneInRole /\ Asked /\ Disposing
    /\ AllDriven
    /\ RecordFits /\ (parent = "torn" => tree = {})

----------------------------------------------------------------------------
(* Stacks. *)

LEMMA Typing ==
    ASSUME TypeOK, NEW t \in Threads
    PROVE  /\ stack[t] \in Seq(Frames)
           /\ Len(stack[t]) \in Nat
           /\ stack[t] = <<>> <=> Len(stack[t]) = 0
           /\ \A i \in 1..Len(stack[t]) : stack[t][i] \in Frames
<1>1. stack[t] \in Seq(Frames)
  BY DEF TypeOK
<1>2. QED
  BY <1>1, ElementOfSeq, LenProperties, EmptySeq

LEMMA TopTyping ==
    ASSUME TypeOK, NEW t \in Threads, stack[t] # <<>>
    PROVE  /\ Len(stack[t]) \in Nat \ {0}
           /\ Len(stack[t]) \in 1..Len(stack[t])
           /\ Top(t) = stack[t][Len(stack[t])]
           /\ Top(t) \in Frames
<1>1. stack[t] \in Seq(Frames)
  BY DEF TypeOK
<1>2. QED
  BY <1>1, TopFrame DEF Top

\* The goroutine t keeps the lowest k of its calls, all but the top one at
\* least, and goes on with the calls c above them.
Changes(t, k, c) ==
    /\ stack' \in [Threads -> Seq(Frames)]
    /\ \A u \in Threads \ {t} : stack'[u] = stack[u]
    /\ k \in Nat /\ k \in {Len(stack[t]) - 1, Len(stack[t])}
    /\ Len(c) \in Nat /\ \A i \in 1..Len(c) : c[i] \in Frames
    /\ Len(stack'[t]) = k + Len(c)
    /\ \A i \in 1..k : stack'[t][i] = stack[t][i]
    /\ \A i \in 1..Len(c) : stack'[t][k + i] = c[i]

\* The call that ends is one at C for f, and so is one that begins.
Drops(t, k, C, f) == k < Len(stack[t]) /\ Top(t).at \in C /\ Top(t).f = f
Brings(c, C, f) == \E i \in 1..Len(c) : c[i].at \in C /\ c[i].f = f

LEMMA Continuing ==
    ASSUME TypeOK, NEW t \in Threads, stack[t] # <<>>, NEW c \in Seq(Frames),
           Continue(t, c)
    PROVE  Changes(t, Len(stack[t]) - 1, c)
<1> DEFINE n == Len(stack[t])
           new == Front(stack[t]) \o c
<1>1. /\ stack \in [Threads -> Seq(Frames)] /\ stack[t] \in Seq(Frames)
      /\ n \in Nat \ {0}
  BY TopTyping DEF TypeOK
<1>2. stack' = [stack EXCEPT ![t] = new]
  BY DEF Continue, Below, Front
<1>3. /\ new \in Seq(Frames)
      /\ Len(new) = n - 1 + Len(c)
      /\ \A i \in 1..(n - 1) : new[i] = stack[t][i]
      /\ \A i \in 1..Len(c) : new[n - 1 + i] = c[i]
  <2>1. PICK s \in Seq(Frames) : s = stack[t]
    BY <1>1
  <2>2. s # <<>>
    BY <2>1
  <2>3. /\ Front(s) \o c \in Seq(Frames)
        /\ Len(Front(s) \o c) = Len(s) - 1 + Len(c)
        /\ \A i \in 1..(Len(s) - 1) : (Front(s) \o c)[i] = s[i]
        /\ \A i \in 1..Len(c) : (Front(s) \o c)[Len(s) - 1 + i] = c[i]
    BY <2>2, ReplaceFrames, SMTT(30)
  <2>4. QED
    BY <2>1, <2>3
<1>4. Len(c) \in Nat /\ \A i \in 1..Len(c) : c[i] \in Frames
  BY LenProperties, ElementOfSeq
<1> HIDE DEF new, n
<1>5. /\ stack' \in [Threads -> Seq(Frames)] /\ stack'[t] = new
      /\ \A u \in Threads \ {t} : stack'[u] = stack[u]
  BY <1>1, <1>2, <1>3
<1>6. n - 1 \in Nat /\ n = Len(stack[t])
  BY <1>1 DEF n
<1>7. QED
  BY <1>3, <1>4, <1>5, <1>6 DEF Changes

LEMMA FrameTyping ==
    ASSUME NEW at \in Calls, NEW f \in Fibers \cup {Parent}
    PROVE  /\ Frame(at, f) \in Frames
           /\ Frame(at, f).at = at /\ Frame(at, f).f = f
           /\ Frame(at, f).todo = {}
  BY DEF Frame, Frames

\* The frame g is the beginning of a call at this place for f.
IsCall(g, at, f) == g.at = at /\ g.f = f /\ g.todo = {}

\* A call from outside.
LEMMA Starting ==
    ASSUME TypeOK, NEW t \in Threads, stack[t] = <<>>, NEW at \in Calls,
           NEW f \in Fibers \cup {Parent}, Start(t, at, f)
    PROVE  \E g \in Frames :
             Changes(t, Len(stack[t]), <<g>>) /\ IsCall(g, at, f)
<1> DEFINE g == Frame(at, f)
           new == Append(stack[t], g)
<1>1. g \in Frames /\ g.at = at /\ g.f = f /\ g.todo = {}
  BY FrameTyping
<1>2. /\ stack \in [Threads -> Seq(Frames)] /\ stack[t] \in Seq(Frames)
      /\ Len(stack[t]) = 0
  BY Typing DEF TypeOK
<1>3. stack' = [stack EXCEPT ![t] = new]
  BY DEF Start
<1> HIDE DEF g
<1>4. new \in Seq(Frames) /\ Len(new) = 0 + 1 /\ new[0 + 1] = g
  BY <1>1, <1>2, PushFrame
<1> HIDE DEF new
<1>5. /\ stack' \in [Threads -> Seq(Frames)] /\ stack'[t] = new
      /\ \A u \in Threads \ {t} : stack'[u] = stack[u]
  BY <1>2, <1>3, <1>4
<1>6. PICK c : c = <<g>> /\ Len(c) = 1 /\ c[1] = g
  <2>1. Len(<<g>>) = 1 /\ <<g>>[1] = g
    OBVIOUS
  <2>2. QED
    BY <2>1, Zenon
<1>7. Changes(t, Len(stack[t]), c)
  BY <1>1, <1>2, <1>4, <1>5, <1>6 DEF Changes
<1>8. IsCall(g, at, f)
  BY <1>1 DEF IsCall
<1>9. QED
  BY <1>1, <1>6, <1>7, <1>8

LEMMA Single == \A g : \E c : c = <<g>> /\ Len(c) = 1 /\ c[1] = g
<1> TAKE g
<1>1. Len(<<g>>) = 1 /\ <<g>>[1] = g
  OBVIOUS
<1>2. QED
  BY <1>1, Zenon

\* A call at g that makes another one, at h.
Both(at, call, f) == <<Frame(at, f), Frame(call, f)>>
IsPair(c, g, h) == Len(c) = 2 /\ c[1] = g /\ c[2] = h

\* The top call goes on at another place.
LEMMA Going ==
    ASSUME TypeOK, NEW t \in Threads, stack[t] # <<>>, NEW at \in Calls,
           Goto(t, at)
    PROVE  \E g \in Frames :
             /\ Changes(t, Len(stack[t]) - 1, <<g>>)
             /\ g.at = at /\ g.f = Top(t).f /\ g.todo = Top(t).todo
<1> DEFINE g == [Top(t) EXCEPT !.at = at]
<1>1. \A h \in Frames :
        /\ [h EXCEPT !.at = at] \in Frames
        /\ [h EXCEPT !.at = at].at = at
        /\ [h EXCEPT !.at = at].f = h.f
        /\ [h EXCEPT !.at = at].todo = h.todo
  BY DEF Frames
<1>2. g \in Frames /\ g.at = at /\ g.f = Top(t).f /\ g.todo = Top(t).todo
  BY <1>1, TopTyping
<1>3. Continue(t, <<g>>)
  BY DEF Goto
<1> HIDE DEF g
<1>4. <<g>> \in Seq(Frames)
  BY <1>2
<1>5. QED
  BY <1>2, <1>3, <1>4, Continuing

\* The top call goes on at another place and makes a call.
LEMMA GoingAndCalling ==
    ASSUME TypeOK, NEW t \in Threads, stack[t] # <<>>,
           NEW at \in Calls, NEW call \in Calls, NEW f \in Fibers,
           Continue(t, Both(at, call, f))
    PROVE  \E c : \E g, h \in Frames :
             /\ Changes(t, Len(stack[t]) - 1, c) /\ IsPair(c, g, h)
             /\ IsCall(g, at, f) /\ IsCall(h, call, f)
<1> DEFINE g == Frame(at, f)
           h == Frame(call, f)
           c == <<g, h>>
<1>1. /\ g \in Frames /\ g.at = at /\ g.f = f /\ g.todo = {}
      /\ h \in Frames /\ h.at = call /\ h.f = f /\ h.todo = {}
  BY FrameTyping
<1>2. Continue(t, c)
  BY DEF Both
<1> HIDE DEF g, h
<1>3. c \in Seq(Frames) /\ IsPair(c, g, h)
  BY <1>1 DEF IsPair
<1> HIDE DEF c
<1>4. Changes(t, Len(stack[t]) - 1, c)
  BY <1>2, <1>3, Continuing
<1>5. IsCall(g, at, f) /\ IsCall(h, call, f)
  BY <1>1 DEF IsCall
<1>6. QED
  BY <1>1, <1>3, <1>4, <1>5

LEMMA Returning ==
    ASSUME TypeOK, NEW t \in Threads, stack[t] # <<>>, Return(t)
    PROVE  Changes(t, Len(stack[t]) - 1, <<>>)
<1>1. <<>> \in Seq(Frames)
  BY EmptySeq
<1>2. QED
  BY <1>1, Continuing DEF Return

----------------------------------------------------------------------------
(* What a step does to the calls under way. *)

\* A call on a stack after the step was there before, or has just begun.
LEMMA OldOrNew ==
    ASSUME TypeOK, NEW t \in Threads, NEW k, NEW c, Changes(t, k, c),
           NEW u \in Threads, NEW i \in 1..Len(stack'[u])
    PROVE  \/ /\ i \in 1..Len(stack[u]) /\ stack'[u][i] = stack[u][i]
              /\ u = t => i \in 1..k
           \/ /\ u = t /\ i - k \in 1..Len(c)
              /\ stack'[u][i] = c[i - k] /\ i = k + (i - k)
<1>1. CASE u # t
  BY <1>1 DEF Changes
<1>2. CASE u = t
  <2>1. /\ Len(stack[t]) \in Nat /\ k \in Nat /\ k <= Len(stack[t])
        /\ Len(c) \in Nat /\ Len(stack'[t]) = k + Len(c)
    BY Typing DEF Changes
  <2>2. CASE i <= k
    <3>1. i \in 1..k /\ i \in 1..Len(stack[t])
      BY <1>2, <2>1, <2>2
    <3>2. QED
      BY <1>2, <3>1 DEF Changes
  <2>3. CASE i > k
    <3>1. i - k \in 1..Len(c) /\ i = k + (i - k)
      BY <1>2, <2>1, <2>3
    <3>2. QED
      BY <1>2, <3>1 DEF Changes
  <2>4. QED
    BY <1>2, <2>1, <2>2, <2>3
<1>3. QED
  BY <1>1, <1>2

\* A call goes on, or it is the one on top that ends.
LEMMA KeptOrDropped ==
    ASSUME TypeOK, NEW t \in Threads, NEW k, NEW c, Changes(t, k, c),
           NEW u \in Threads, NEW i \in 1..Len(stack[u])
    PROVE  \/ i \in 1..Len(stack'[u]) /\ stack'[u][i] = stack[u][i]
           \/ /\ u = t /\ k < Len(stack[t]) /\ i = Len(stack[t])
              /\ stack[t] # <<>> /\ stack[u][i] = Top(t)
<1>1. CASE u # t
  BY <1>1 DEF Changes
<1>2. CASE u = t /\ i \in 1..k
  <2>1. i \in 1..Len(stack'[t]) /\ stack'[t][i] = stack[t][i]
    BY <1>2 DEF Changes
  <2>2. QED
    BY <1>2, <2>1
<1>3. CASE u = t /\ i \notin 1..k
  <2>1. /\ Len(stack[t]) \in Nat /\ k \in Nat
        /\ k \in {Len(stack[t]) - 1, Len(stack[t])}
    BY Typing DEF Changes
  <2>2. i = Len(stack[t]) /\ k < Len(stack[t]) /\ Len(stack[t]) # 0
    BY <1>3, <2>1
  <2>3. stack[t] # <<>>
    BY <2>2, Typing
  <2>4. QED
    BY <1>3, <2>2, <2>3, TopTyping
<1>4. QED
  BY <1>1, <1>2, <1>3

LEMMA HasSteps ==
    ASSUME TypeOK, NEW t \in Threads, NEW k, NEW c, Changes(t, k, c)
    PROVE  \A C, f :
             /\ Has(C, f) => Has(C, f)' \/ Drops(t, k, C, f)
             /\ Has(C, f)' => Has(C, f) \/ Brings(c, C, f)
             /\ Brings(c, C, f) => Has(C, f)'
<1> TAKE C, f
<1>1. ASSUME Has(C, f)
      PROVE  Has(C, f)' \/ Drops(t, k, C, f)
  <2>1. PICK u \in Threads : \E i \in 1..Len(stack[u]) :
               stack[u][i].at \in C /\ stack[u][i].f = f
    BY <1>1 DEF Has
  <2>2. PICK i \in 1..Len(stack[u]) : stack[u][i].at \in C /\ stack[u][i].f = f
    BY <2>1
  <2>3. CASE i \in 1..Len(stack'[u]) /\ stack'[u][i] = stack[u][i]
    BY <2>2, <2>3 DEF Has
  <2>4. CASE k < Len(stack[t]) /\ stack[u][i] = Top(t)
    BY <2>2, <2>4 DEF Drops
  <2>5. QED
    BY <2>3, <2>4, KeptOrDropped
<1>2. ASSUME Has(C, f)'
      PROVE  Has(C, f) \/ Brings(c, C, f)
  <2>1. PICK u \in Threads : \E i \in 1..Len(stack'[u]) :
               stack'[u][i].at \in C /\ stack'[u][i].f = f
    BY <1>2 DEF Has
  <2>2. PICK i \in 1..Len(stack'[u]) :
               stack'[u][i].at \in C /\ stack'[u][i].f = f
    BY <2>1
  <2>3. CASE i \in 1..Len(stack[u]) /\ stack'[u][i] = stack[u][i]
    BY <2>2, <2>3 DEF Has
  <2>4. CASE i - k \in 1..Len(c) /\ stack'[u][i] = c[i - k]
    BY <2>2, <2>4 DEF Brings
  <2>5. QED
    BY <2>3, <2>4, OldOrNew
<1>3. ASSUME Brings(c, C, f)
      PROVE  Has(C, f)'
  <2>1. PICK i \in 1..Len(c) : c[i].at \in C /\ c[i].f = f
    BY <1>3 DEF Brings
  <2>2. k + i \in 1..Len(stack'[t]) /\ stack'[t][k + i] = c[i]
    BY DEF Changes
  <2>3. QED
    BY <2>1, <2>2 DEF Has
<1>4. QED
  BY <1>1, <1>2, <1>3

\* Who waits for a release goes on waiting, or the release ends.
LEMMA AsksSteps ==
    ASSUME TypeOK, NEW t \in Threads, NEW k, NEW c, Changes(t, k, c)
    PROVE  \A at, f :
             /\ Asks(at, f) =>
                  \/ Asks(at, f)'
                  \/ /\ Drops(t, k, Releasing, f)
                     /\ ~(1 \in 1..Len(c) /\ c[1].at \in Releasing /\ c[1].f = f)
             /\ (\E i, j \in 1..Len(c) :
                   /\ j = i + 1 /\ c[i].at = at /\ c[i].f \in {f, Parent}
                   /\ c[j].at \in Releasing /\ c[j].f = f)
                  => Asks(at, f)'
<1> TAKE at, f
<1>1. Releasing' = Releasing
  BY DEF Releasing
<1> HIDE DEF Releasing
<1>2. ASSUME Asks(at, f),
             ~Drops(t, k, Releasing, f) \/
               (1 \in 1..Len(c) /\ c[1].at \in Releasing /\ c[1].f = f)
      PROVE  Asks(at, f)'
  <2>1. PICK u \in Threads : \E i \in 1..Len(stack[u]) : \E j \in 1..Len(stack[u]) :
               /\ j = i + 1
               /\ stack[u][i].at = at /\ stack[u][i].f \in {f, Parent}
               /\ stack[u][j].at \in Releasing /\ stack[u][j].f = f
    BY <1>2 DEF Asks
  <2>2. PICK i \in 1..Len(stack[u]), j \in 1..Len(stack[u]) :
               /\ j = i + 1
               /\ stack[u][i].at = at /\ stack[u][i].f \in {f, Parent}
               /\ stack[u][j].at \in Releasing /\ stack[u][j].f = f
    BY <2>1
  <2>3. /\ Len(stack[u]) \in Nat /\ Len(stack[t]) \in Nat /\ k \in Nat
        /\ k \in {Len(stack[t]) - 1, Len(stack[t])} /\ Len(c) \in Nat
        /\ Len(stack'[t]) = k + Len(c)
    BY Typing DEF Changes
  <2>4. CASE u # t
    BY <1>1, <2>2, <2>4 DEF Changes, Asks
  <2>5. CASE u = t /\ j \in 1..k
    <3>1. i \in 1..k /\ i \in 1..Len(stack'[t]) /\ j \in 1..Len(stack'[t])
      BY <2>2, <2>3, <2>5
    <3>2. stack'[t][i] = stack[t][i] /\ stack'[t][j] = stack[t][j]
      BY <2>5, <3>1 DEF Changes
    <3>3. QED
      BY <1>1, <2>2, <2>5, <3>1, <3>2 DEF Asks
  <2>6. CASE u = t /\ j \notin 1..k
    <3>1. j = Len(stack[t]) /\ k < Len(stack[t]) /\ i \in 1..k /\ j = k + 1
      BY <2>2, <2>3, <2>6
    <3>2. stack[t] # <<>>
      BY <2>3, <2>6, Typing
    <3>3. Drops(t, k, Releasing, f)
      BY <2>2, <2>6, <3>1, <3>2, TopTyping DEF Drops
    <3>4. 1 \in 1..Len(c) /\ c[1].at \in Releasing /\ c[1].f = f
      BY <1>2, <3>3
    <3>5. stack'[t][i] = stack[t][i] /\ stack'[t][k + 1] = c[1]
      BY <3>1, <3>4 DEF Changes
    <3>6. i \in 1..Len(stack'[t]) /\ j \in 1..Len(stack'[t])
      BY <2>3, <3>1, <3>4
    <3>7. QED
      BY <1>1, <2>2, <2>6, <3>1, <3>4, <3>5, <3>6 DEF Asks
  <2>7. QED
    BY <2>4, <2>5, <2>6
<1>3. ASSUME NEW i \in 1..Len(c), NEW j \in 1..Len(c),
             /\ j = i + 1 /\ c[i].at = at /\ c[i].f \in {f, Parent}
             /\ c[j].at \in Releasing /\ c[j].f = f
      PROVE  Asks(at, f)'
  <2>1. /\ k + i \in 1..Len(stack'[t]) /\ stack'[t][k + i] = c[i]
        /\ k + j \in 1..Len(stack'[t]) /\ stack'[t][k + j] = c[j]
        /\ k + j = (k + i) + 1
    BY <1>3 DEF Changes
  <2>2. QED
    BY <1>1, <1>3, <2>1 DEF Asks
<1>4. QED
  BY <1>2, <1>3

\* What a teardown is about to release stays with it, or is released.
LEMMA SweptSteps ==
    ASSUME TypeOK, NEW t \in Threads, NEW k, NEW c, Changes(t, k, c)
    PROVE  \A f :
             /\ Swept(f) => \/ Swept(f)'
                            \/ /\ k < Len(stack[t]) /\ Top(t).at = "sweep"
                               /\ f \in Top(t).todo
             /\ (\E i \in 1..Len(c) : c[i].at = "sweep" /\ f \in c[i].todo)
                  => Swept(f)'
             /\ Swept(f)' => \/ Swept(f)
                             \/ \E i \in 1..Len(c) :
                                  c[i].at = "sweep" /\ f \in c[i].todo
<1> TAKE f
<1>1. ASSUME Swept(f)
      PROVE  \/ Swept(f)'
             \/ k < Len(stack[t]) /\ Top(t).at = "sweep" /\ f \in Top(t).todo
  <2>1. PICK u \in Threads : \E i \in 1..Len(stack[u]) :
               stack[u][i].at = "sweep" /\ f \in stack[u][i].todo
    BY <1>1 DEF Swept
  <2>2. PICK i \in 1..Len(stack[u]) :
               stack[u][i].at = "sweep" /\ f \in stack[u][i].todo
    BY <2>1
  <2>3. CASE i \in 1..Len(stack'[u]) /\ stack'[u][i] = stack[u][i]
    BY <2>2, <2>3 DEF Swept
  <2>4. CASE k < Len(stack[t]) /\ stack[u][i] = Top(t)
    BY <2>2, <2>4
  <2>5. QED
    BY <2>3, <2>4, KeptOrDropped
<1>2. ASSUME NEW i \in 1..Len(c), c[i].at = "sweep", f \in c[i].todo
      PROVE  Swept(f)'
  <2>1. k + i \in 1..Len(stack'[t]) /\ stack'[t][k + i] = c[i]
    BY DEF Changes
  <2>2. QED
    BY <1>2, <2>1 DEF Swept
<1>3. ASSUME Swept(f)'
      PROVE  Swept(f) \/ \E i \in 1..Len(c) : c[i].at = "sweep" /\ f \in c[i].todo
  <2>1. PICK u \in Threads : \E i \in 1..Len(stack'[u]) :
               stack'[u][i].at = "sweep" /\ f \in stack'[u][i].todo
    BY <1>3 DEF Swept
  <2>2. PICK i \in 1..Len(stack'[u]) :
               stack'[u][i].at = "sweep" /\ f \in stack'[u][i].todo
    BY <2>1
  <2>3. CASE i \in 1..Len(stack[u]) /\ stack'[u][i] = stack[u][i]
    BY <2>2, <2>3 DEF Swept
  <2>4. CASE i - k \in 1..Len(c) /\ stack'[u][i] = c[i - k]
    BY <2>2, <2>4
  <2>5. QED
    BY <2>3, <2>4, OldOrNew
<1>4. QED
  BY <1>1, <1>2, <1>3

----------------------------------------------------------------------------
(* What a step keeps.  A step is for one fiber e, or for the parent.       *)

LEMMA FiberNumbers ==
    Parent \notin Fibers /\ \A f \in Fibers \cup {Parent} : f \in Nat
  BY DEF Fibers, Parent

\* The fields of a fiber and of its entry stay as they are, but a teardown may
\* take the entry out of the tree.
SameFiber(f) ==
    /\ f \in attached' <=> f \in attached
    /\ f \in tree' => f \in tree
    /\ disposed'[f] = disposed[f] /\ state'[f] = state[f]
    /\ slot'[f] = slot[f] /\ handle'[f] = handle[f]
    /\ installed'[f] = installed[f] /\ deferred'[f] = deferred[f]
    /\ once'[f] = once[f] /\ handleOnce'[f] = handleOnce[f]
    /\ outcome'[f] = outcome[f]

Others(e) ==
    /\ \A f \in Fibers : f # e => SameFiber(f)
    /\ \A f \in Fibers : disposed[f] => disposed'[f]
    /\ parent # "open" =>
          parent' # "open" /\ \A f \in Fibers : f \in tree' => f \in tree
    /\ e # Parent => parent' = parent
    /\ loads' >= loads

\* The calls that end or begin are for e, or for the parent.
IsFor(t, k, c, e) ==
    /\ k < Len(stack[t]) => Top(t).f \in {e, Parent}
    /\ \A i \in 1..Len(c) : c[i].f \in {e, Parent}

LEMMA HasOthers ==
    ASSUME TypeOK, NEW t \in Threads, NEW k, NEW c, Changes(t, k, c),
           NEW e, IsFor(t, k, c, e)
    PROVE  \A f \in Fibers : f # e => \A C : Has(C, f)' <=> Has(C, f)
<1> SUFFICES ASSUME NEW f \in Fibers, f # e, NEW C
             PROVE  Has(C, f)' <=> Has(C, f)
  OBVIOUS
<1>1. f # Parent
  BY FiberNumbers
<1>2. ~Drops(t, k, C, f)
  BY <1>1 DEF Drops, IsFor
<1>3. ~Brings(c, C, f)
  BY <1>1 DEF Brings, IsFor
<1>4. QED
  BY <1>2, <1>3, HasSteps

LEMMA EntryStays ==
    ASSUME TypeOK, TypeOK', NEW f \in Fibers, EntryFacts(f), SameFiber(f),
           NEW e, Others(e)
    PROVE  EntryFacts(f)'
<1>1. /\ loads \in Nat /\ loads' \in Nat /\ loads' >= loads /\ f \in Nat
      /\ parent # "open" => parent' # "open"
  BY FiberNumbers DEF TypeOK, Others
<1>2. QED
  BY <1>1 DEF EntryFacts, SameFiber, Known

\* What a call knows of another fiber, or of the parent, it goes on knowing.
LEMMA FrameStays ==
    ASSUME TypeOK, TypeOK', NEW e, Others(e),
           NEW g \in Frames, FrameFacts(g), g.f # e
    PROVE  FrameFacts(g)'
<1>1. /\ loads \in Nat /\ loads' \in Nat /\ loads' >= loads
      /\ \A f \in Fibers \cup {Parent} : f \in Nat
      /\ g.f \in Nat /\ \A f \in g.todo : f \in Nat
  BY FiberNumbers DEF TypeOK, Others, Frames
<1>2. g.f <= loads' /\ \A f \in g.todo : f <= loads'
  BY <1>1 DEF FrameFacts
<1>3. PreCalls' = PreCalls /\ LoadCalls' = LoadCalls
      /\ ParentCalls' = ParentCalls /\ UnknownCalls' = UnknownCalls
  BY DEF PreCalls, LoadCalls, ChildCalls, ParentCalls, UnknownCalls
<1>4. CASE g.f = Parent
  <2>1. g.at \in ParentCalls
    BY <1>4 DEF FrameFacts
  <2>2. /\ g.at \in UnknownCalls /\ g.at \notin PreCalls \cup LoadCalls
        /\ g.at \notin {"store", "handle", "unlist", "once", "fromParent",
                        "onceDone", "remove", "finalize"}
    BY <2>1 DEF UnknownCalls, ParentCalls, PreCalls, LoadCalls, ChildCalls
  <2>3. g.at = "sweep" => tree' = {}
    BY DEF FrameFacts, Others, TypeOK
  <2>4. /\ g.at = "teardown" => parent = "closing"
        /\ g.at \in {"clear", "sweep"} => parent = "unloading"
    BY DEF FrameFacts
  <2>5. parent' = parent
    BY <1>4 DEF Others
  <2> HIDE DEF PreCalls, LoadCalls, ParentCalls, UnknownCalls
  <2>6. QED
    BY <1>2, <1>3, <1>4, <2>1, <2>2, <2>3, <2>4, <2>5 DEF FrameFacts
<1>5. CASE g.f # Parent
  <2>1. g.f \in Fibers /\ SameFiber(g.f)
    BY <1>5 DEF Frames, Others
  <2>2. g.at \notin ParentCalls /\ g.at \notin {"teardown", "clear", "sweep"}
    BY <1>5 DEF FrameFacts, ParentCalls
  <2> HIDE DEF PreCalls, LoadCalls, ParentCalls, UnknownCalls
  <2>3. QED
    BY <1>2, <1>3, <1>5, <2>1, <2>2 DEF FrameFacts, SameFiber, Known
<1>6. QED
  BY <1>4, <1>5

LEMMA DrivenStays ==
    ASSUME NEW f, Driven(f), SameFiber(f),
           \A C : Has(C, f)' <=> Has(C, f),
           f \in tree \/ Swept(f) => f \in tree' \/ Swept(f)',
           Swept(f)' => Swept(f) \/ f \in tree,
           \A at : Asks(at, f) => Asks(at, f)'
    PROVE  Driven(f)'
<1>1. /\ Has({"remove"}, f)' <=> Has({"remove"}, f)
      /\ Has({"attach", "install", "store"}, f)' <=>
           Has({"attach", "install", "store"}, f)
      /\ Has({"handle", "unlist"}, f)' <=> Has({"handle", "unlist"}, f)
      /\ Has(ChildCalls, f)' <=> Has(ChildCalls, f)
      /\ Has({"attach", "install"}, f)' <=> Has({"attach", "install"}, f)
      /\ Has({"request"}, f)' <=> Has({"request"}, f)
      /\ Asks("sweep", f) => Asks("sweep", f)'
      /\ Asks("store", f) => Asks("store", f)'
  OBVIOUS
<1>2. ChildCalls' = ChildCalls
  BY DEF ChildCalls
<1> HIDE DEF ChildCalls
<1>3. QED
  BY <1>1, <1>2 DEF Driven, SameFiber

\* The call on top, if it ends, has no role that g has.
Apart(t, k, g) ==
    k < Len(stack[t]) =>
        \A C \in Roles : ~(g.at \in C /\ Top(t).at \in C /\ g.f = Top(t).f)

LEMMA CallsStay ==
    ASSUME TypeOK, CallsFit, OneInRole,
           NEW t \in Threads, NEW k, NEW c, Changes(t, k, c),
           \A i \in 1..Len(c) : FrameFacts(c[i])',
           \A g \in Frames : Has({g.at}, g.f) /\ FrameFacts(g) /\ Apart(t, k, g)
                               => FrameFacts(g)'
    PROVE  CallsFit'
<1>1. ASSUME NEW u \in Threads, NEW i \in 1..Len(stack'[u])
      PROVE  FrameFacts(stack[u][i])'
  <2>1. CASE u = t /\ i - k \in 1..Len(c) /\ stack'[u][i] = c[i - k]
    <3>1. PICK j \in 1..Len(c) : stack'[u][i] = c[j]
      BY <2>1
    <3>2. PICK g : g = c[j] /\ FrameFacts(g)'
      <4>1. FrameFacts(c[j])'
        OBVIOUS
      <4>2. QED
        BY <4>1
    <3>3. stack'[u][i] = g
      BY <3>1, <3>2
    <3>4. QED
      BY <3>2, <3>3
  <2>2. CASE i \in 1..Len(stack[u]) /\ stack'[u][i] = stack[u][i]
             /\ (u = t => i \in 1..k)
    <3>1. PICK g \in Frames : g = stack[u][i]
      BY <2>2, Typing
    <3>2. FrameFacts(g) /\ Has({g.at}, g.f)
      BY <2>2, <3>1 DEF CallsFit, Has
    <3>3. Apart(t, k, g)
      <4> SUFFICES ASSUME k < Len(stack[t]), NEW C \in Roles,
                          g.at \in C, Top(t).at \in C, g.f = Top(t).f
                   PROVE  FALSE
        BY DEF Apart
      <4>1. Len(stack[t]) \in Nat /\ k \in Nat /\ Len(stack[t]) # 0
        BY Typing DEF Changes
      <4>2. stack[t] # <<>>
        BY <4>1, Typing
      <4>3. Len(stack[t]) \in 1..Len(stack[t]) /\ Top(t) = stack[t][Len(stack[t])]
        BY <4>2, TopTyping
      <4>4. u = t /\ i = Len(stack[t])
        BY <2>2, <3>1, <4>3 DEF OneInRole
      <4>5. QED
        BY <2>2, <4>1, <4>4
    <3>4. FrameFacts(g)'
      BY <3>2, <3>3
    <3>5. stack'[u][i] = g
      BY <2>2, <3>1
    <3>6. QED
      BY <3>4, <3>5
  <2>3. QED
    BY <2>1, <2>2, OldOrNew
<1>2. QED
  BY <1>1 DEF CallsFit

\* The calls that begin have a role the call that ends had, or nobody has.
TakesRoles(t, k, c) ==
    \A C \in Roles :
        /\ \A i \in 1..Len(c) : c[i].at \in C =>
              Drops(t, k, C, c[i].f) \/ ~Has(C, c[i].f)
        /\ \A i, j \in 1..Len(c) :
              c[i].at \in C /\ c[j].at \in C /\ c[i].f = c[j].f => i = j

LEMMA NewRole ==
    ASSUME TypeOK, OneInRole, NEW t \in Threads, NEW k, NEW c, Changes(t, k, c),
           TakesRoles(t, k, c), NEW C \in Roles, NEW n \in 1..Len(c),
           NEW v \in Threads, NEW j \in 1..Len(stack[v]), v = t => j \in 1..k,
           c[n].at \in C, stack[v][j].at \in C, c[n].f = stack[v][j].f
    PROVE  FALSE
<1>1. Has(C, c[n].f)
  BY DEF Has
<1>2. Drops(t, k, C, c[n].f)
  BY <1>1 DEF TakesRoles
<1>3. /\ Len(stack[t]) \in Nat /\ k \in Nat /\ k < Len(stack[t])
      /\ Len(stack[t]) # 0
  BY <1>2, Typing DEF Changes, Drops
<1>4. stack[t] # <<>>
  BY <1>3, Typing
<1>5. Len(stack[t]) \in 1..Len(stack[t]) /\ Top(t) = stack[t][Len(stack[t])]
  BY <1>4, TopTyping
<1>6. v = t /\ j = Len(stack[t])
  BY <1>2, <1>5 DEF OneInRole, Drops
<1>7. QED
  BY <1>3, <1>6

LEMMA RolesStay ==
    ASSUME TypeOK, OneInRole, NEW t \in Threads, NEW k, NEW c, Changes(t, k, c),
           TakesRoles(t, k, c)
    PROVE  OneInRole'
<1> SUFFICES ASSUME NEW C \in Roles, NEW u \in Threads, NEW v \in Threads,
                    NEW i \in 1..Len(stack'[u]), NEW j \in 1..Len(stack'[v]),
                    stack'[u][i].at \in C, stack'[v][j].at \in C,
                    stack'[u][i].f = stack'[v][j].f
             PROVE  u = v /\ i = j
  BY DEF OneInRole, Roles, LoadCalls, PreCalls, ChildCalls, ParentCalls
<1> DEFINE Old(w, m) == /\ m \in 1..Len(stack[w]) /\ stack'[w][m] = stack[w][m]
                        /\ w = t => m \in 1..k
           New(w, m) == /\ w = t /\ m - k \in 1..Len(c)
                        /\ stack'[w][m] = c[m - k] /\ m = k + (m - k)
<1>1. (Old(u, i) \/ New(u, i)) /\ (Old(v, j) \/ New(v, j))
  BY OldOrNew
<1>2. CASE Old(u, i) /\ Old(v, j)
  BY <1>2 DEF OneInRole
<1>3. CASE New(u, i) /\ New(v, j)
  <2>1. i - k = j - k
    BY <1>3 DEF TakesRoles
  <2>2. QED
    BY <1>3, <2>1
<1>4. CASE New(u, i) /\ Old(v, j)
  BY <1>4, NewRole
<1>5. CASE Old(u, i) /\ New(v, j)
  BY <1>5, NewRole
<1>6. QED
  BY <1>1, <1>2, <1>3, <1>4, <1>5

\* An entry whose release begins is out of the tree, or has its handle wait.
AsksFor(t, k, c) ==
    \A i \in 1..Len(c) : c[i].at \in ReleaseCalls =>
        \/ parent' # "open" /\ c[i].f \notin tree'
        \/ \E j \in 1..Len(c) : j < i /\ c[j].at = "unlist" /\ c[j].f = c[i].f
        \/ Drops(t, k, ReleaseCalls, c[i].f)

LEMMA AskedStays ==
    ASSUME TypeOK, TypeOK', CallsFit, CallsFit', Asked,
           NEW t \in Threads, NEW k, NEW c, Changes(t, k, c),
           NEW e, Others(e), AsksFor(t, k, c)
    PROVE  Asked'
<1> SUFFICES ASSUME NEW u \in Threads, NEW i \in 1..Len(stack'[u]),
                    stack'[u][i].at \in ReleaseCalls
             PROVE  \/ parent' # "open" /\ stack'[u][i].f \notin tree'
                    \/ \E j \in 1..Len(stack'[u]) :
                          /\ j < i /\ stack'[u][j].at = "unlist"
                          /\ stack'[u][j].f = stack'[u][i].f
  BY DEF Asked, ReleaseCalls
<1>1. \A f : parent # "open" /\ f \notin tree => parent' # "open" /\ f \notin tree'
  BY DEF Others, TypeOK
<1>2. /\ Len(stack[t]) \in Nat /\ k \in Nat /\ Len(stack[u]) \in Nat
      /\ k \in {Len(stack[t]) - 1, Len(stack[t])} /\ Len(c) \in Nat
      /\ Len(stack'[t]) = k + Len(c)
  BY Typing DEF Changes
<1>3. CASE i \in 1..Len(stack[u]) /\ stack'[u][i] = stack[u][i]
           /\ (u = t => i \in 1..k)
  <2>1. CASE parent # "open" /\ stack[u][i].f \notin tree
    BY <1>1, <1>3, <2>1
  <2>2. CASE ~(parent # "open" /\ stack[u][i].f \notin tree)
    <3>1. PICK j \in 1..Len(stack[u]) :
                  /\ j < i /\ stack[u][j].at = "unlist"
                  /\ stack[u][j].f = stack[u][i].f
      BY <1>3, <2>2 DEF Asked
    <3>2. j \in 1..Len(stack'[u]) /\ stack'[u][j] = stack[u][j]
      <4>1. CASE u = t
        <5>1. j \in 1..k /\ j \in 1..Len(stack'[u])
          BY <1>2, <1>3, <3>1, <4>1
        <5>2. QED
          BY <4>1, <5>1 DEF Changes
      <4>2. CASE u # t
        BY <4>2 DEF Changes
      <4>3. QED
        BY <4>1, <4>2
    <3>3. QED
      BY <1>3, <3>1, <3>2
  <2>3. QED
    BY <2>1, <2>2
<1>4. CASE u = t /\ i - k \in 1..Len(c) /\ stack'[u][i] = c[i - k]
  <2>1. PICK n \in 1..Len(c) : n = i - k
    BY <1>4
  <2>2. c[n].at \in ReleaseCalls /\ stack'[u][i] = c[n] /\ i = k + n
    BY <1>2, <1>4, <2>1
  <2>3. CASE parent' # "open" /\ c[n].f \notin tree'
    BY <2>2, <2>3
  <2>4. CASE \E j \in 1..Len(c) : j < n /\ c[j].at = "unlist" /\ c[j].f = c[n].f
    <3>1. PICK j \in 1..Len(c) : j < n /\ c[j].at = "unlist" /\ c[j].f = c[n].f
      BY <2>4
    <3>2. k + j \in 1..Len(stack'[t]) /\ k + j < i
      <4>1. j \in Nat /\ j >= 1 /\ j <= Len(c) /\ j < n /\ n \in Nat
        BY <1>2, <3>1
      <4>2. QED
        BY <1>2, <2>2, <4>1
    <3>3. stack'[t][k + j] = c[j]
      BY <3>1 DEF Changes
    <3>4. QED
      BY <1>4, <2>2, <3>1, <3>2, <3>3
  <2>5. CASE Drops(t, k, ReleaseCalls, c[n].f)
    <3>1. k + 1 = Len(stack[t]) /\ Len(stack[t]) \in 1..Len(stack[t])
      BY <1>2, <2>5 DEF Drops
    <3>2. stack[t] # <<>>
      BY <3>1, Typing
    <3>3. PICK m \in 1..Len(stack[t]) : m = Len(stack[t]) /\ stack[t][m] = Top(t)
      BY <3>1, <3>2, TopTyping
    <3>4. \/ parent # "open" /\ stack[t][m].f \notin tree
          \/ \E j \in 1..Len(stack[t]) :
                /\ j < m /\ stack[t][j].at = "unlist"
                /\ stack[t][j].f = stack[t][m].f
      BY <2>5, <3>3 DEF Asked, Drops
    <3>5. stack[t][m].f = c[n].f
      BY <2>5, <3>3 DEF Drops
    <3>6. CASE parent # "open" /\ stack[t][m].f \notin tree
      BY <1>1, <2>2, <3>5, <3>6
    <3>7. CASE \E j \in 1..Len(stack[t]) :
                /\ j < m /\ stack[t][j].at = "unlist"
                /\ stack[t][j].f = stack[t][m].f
      <4>1. PICK j \in 1..Len(stack[t]) :
                /\ j < m /\ stack[t][j].at = "unlist"
                /\ stack[t][j].f = stack[t][m].f
        BY <3>7
      <4>2. j \in 1..k /\ j \in 1..Len(stack'[t]) /\ j < i
        <5>1. j \in Nat /\ j >= 1 /\ j < k + 1
          BY <1>2, <3>1, <3>3, <4>1
        <5>2. QED
          BY <1>2, <2>2, <5>1
      <4>3. stack'[t][j] = stack[t][j]
        BY <4>2 DEF Changes
      <4>4. QED
        BY <1>4, <2>2, <3>5, <4>1, <4>2, <4>3
    <3>8. QED
      BY <3>4, <3>6, <3>7
  <2>6. QED
    BY <2>2, <2>3, <2>4, <2>5 DEF AsksFor
<1>5. QED
  BY <1>3, <1>4, OldOrNew

\* The disposer of an entry goes on disposing the fiber, or it has.
Disposer == {"fromParent", "dispose"}

DisposesOn(t, k, c) ==
    /\ k < Len(stack[t]) /\ Top(t).at \in Disposer =>
         \/ disposed'[Top(t).f]
         \/ 1 \in 1..Len(c) /\ c[1].at \in Disposer /\ c[1].f = Top(t).f
    /\ \A i \in 1..Len(c) : c[i].at = "onceDone" =>
         \/ disposed'[c[i].f]
         \/ \E j \in 1..Len(c) :
               j = i + 1 /\ c[j].at \in Disposer /\ c[j].f = c[i].f

LEMMA DisposingStays ==
    ASSUME TypeOK, CallsFit, Disposing,
           NEW t \in Threads, NEW k, NEW c, Changes(t, k, c),
           NEW e, Others(e), DisposesOn(t, k, c)
    PROVE  Disposing'
<1> SUFFICES ASSUME NEW u \in Threads, NEW i \in 1..Len(stack'[u]),
                    stack'[u][i].at = "onceDone"
             PROVE  \/ disposed'[stack'[u][i].f]
                    \/ \E j \in 1..Len(stack'[u]) :
                          /\ j = i + 1 /\ stack'[u][j].at \in Disposer
                          /\ stack'[u][j].f = stack'[u][i].f
  BY DEF Disposing, Disposer
<1>1. /\ Len(stack[t]) \in Nat /\ k \in Nat /\ Len(stack[u]) \in Nat
      /\ k \in {Len(stack[t]) - 1, Len(stack[t])} /\ Len(c) \in Nat
      /\ Len(stack'[t]) = k + Len(c)
  BY Typing DEF Changes
<1>2. CASE i \in 1..Len(stack[u]) /\ stack'[u][i] = stack[u][i]
           /\ (u = t => i \in 1..k)
  <2>1. PICK x \in Fibers : x = stack[u][i].f
    <3>1. stack[u][i] \in Frames /\ FrameFacts(stack[u][i])
      BY <1>2, Typing DEF CallsFit
    <3>2. QED
      BY <1>2, <3>1 DEF Frames, FrameFacts, ParentCalls
  <2>2. CASE disposed[x]
    BY <1>2, <2>1, <2>2 DEF Others
  <2>3. CASE ~disposed[x]
    <3>1. PICK j \in 1..Len(stack[u]) :
                  /\ j = i + 1 /\ stack[u][j].at \in Disposer
                  /\ stack[u][j].f = x
      BY <1>2, <2>1, <2>3 DEF Disposing, Disposer
    <3>2. CASE u # t
      BY <1>2, <2>1, <3>1, <3>2 DEF Changes
    <3>3. CASE u = t /\ j \in 1..k
      <4>1. j \in 1..Len(stack'[t]) /\ stack'[t][j] = stack[t][j]
        BY <1>1, <3>3 DEF Changes
      <4>2. QED
        BY <1>2, <2>1, <3>1, <3>3, <4>1
    <3>4. CASE u = t /\ j \notin 1..k
      <4>1. k < Len(stack[t]) /\ j = Len(stack[t]) /\ j = k + 1
            /\ Len(stack[t]) # 0
        BY <1>1, <1>2, <3>1, <3>4
      <4>2. stack[t] # <<>>
        BY <4>1, Typing
      <4>3. Top(t).at \in Disposer /\ Top(t).f = x
        BY <3>1, <3>4, <4>1, <4>2, TopTyping
      <4>4. CASE disposed'[x]
        BY <1>2, <2>1, <4>4
      <4>5. CASE 1 \in 1..Len(c) /\ c[1].at \in Disposer /\ c[1].f = x
        <5>1. j \in 1..Len(stack'[t]) /\ stack'[t][j] = c[1]
          BY <1>1, <4>1, <4>5 DEF Changes
        <5>2. QED
          BY <1>2, <2>1, <3>1, <3>4, <4>5, <5>1
      <4>6. QED
        BY <4>1, <4>3, <4>4, <4>5 DEF DisposesOn
    <3>5. QED
      BY <3>2, <3>3, <3>4
  <2>4. QED
    BY <2>2, <2>3
<1>3. CASE u = t /\ i - k \in 1..Len(c) /\ stack'[u][i] = c[i - k]
  <2>1. PICK n \in 1..Len(c) : n = i - k
    BY <1>3
  <2>2. stack'[u][i] = c[n] /\ i = k + n
    BY <1>1, <1>3, <2>1
  <2>3. CASE disposed'[c[n].f]
    BY <2>2, <2>3
  <2>4. CASE \E j \in 1..Len(c) :
               j = n + 1 /\ c[j].at \in Disposer /\ c[j].f = c[n].f
    <3>1. PICK j \in 1..Len(c) :
               j = n + 1 /\ c[j].at \in Disposer /\ c[j].f = c[n].f
      BY <2>4
    <3>2. k + j \in 1..Len(stack'[t]) /\ k + j = i + 1 /\ stack'[t][k + j] = c[j]
      BY <1>1, <2>2, <3>1 DEF Changes
    <3>3. QED
      BY <1>3, <2>2, <3>1, <3>2
  <2>5. QED
    BY <2>2, <2>3, <2>4 DEF DisposesOn
<1>4. QED
  BY <1>2, <1>3, OldOrNew

\* The entries in the tree stay there, or go to the teardown, which keeps what
\* it has.
StaysListed(e) ==
    \A f \in Fibers : f # e =>
        /\ f \in tree \/ Swept(f) => f \in tree' \/ Swept(f)'
        /\ Swept(f)' => Swept(f) \/ f \in tree

\* What a step has to show.
LEMMA StepInvariant ==
    ASSUME AttachInv, NEW t \in Threads, NEW k, NEW c, Changes(t, k, c),
           NEW e, IsFor(t, k, c, e), Others(e),
           TypeOK',
           e \in Fibers => EntryFacts(e)' /\ Driven(e)',
           \A i \in 1..Len(c) : FrameFacts(c[i])',
           \A g \in Frames :
               Has({g.at}, e) /\ FrameFacts(g) /\ g.f = e /\ Apart(t, k, g)
                 => FrameFacts(g)',
           TakesRoles(t, k, c), AsksFor(t, k, c), DisposesOn(t, k, c),
           StaysListed(e),
           RecordFits',
           parent' = "torn" => tree' = {}
    PROVE  AttachInv'
<1>1. /\ TypeOK /\ EntriesFit /\ CallsFit /\ OneInRole /\ Asked /\ Disposing
      /\ AllDriven
  BY DEF AttachInv
<1>2. EntriesFit'
  <2> SUFFICES ASSUME NEW f \in Fibers, f # e
               PROVE  EntryFacts(f)'
    BY DEF EntriesFit
  <2>1. SameFiber(f) /\ EntryFacts(f)
    BY <1>1 DEF Others, EntriesFit
  <2>2. QED
    BY <1>1, <2>1, EntryStays
<1>3. CallsFit'
  <2>1. ASSUME NEW g \in Frames, Has({g.at}, g.f), FrameFacts(g), Apart(t, k, g)
        PROVE  FrameFacts(g)'
    <3>1. CASE g.f = e
      BY <2>1, <3>1
    <3>2. CASE g.f # e
      BY <1>1, <2>1, <3>2, FrameStays
    <3>3. QED
      BY <3>1, <3>2
  <2>2. QED
    BY <1>1, <2>1, CallsStay
<1>4. OneInRole'
  BY <1>1, RolesStay
<1>5. Asked'
  BY <1>1, <1>3, AskedStays
<1>6. Disposing'
  BY <1>1, DisposingStays
<1>7. AllDriven'
  <2> SUFFICES ASSUME NEW f \in Fibers, f # e
               PROVE  Driven(f)'
    BY DEF AllDriven
  <2>1. SameFiber(f) /\ Driven(f)
    BY <1>1 DEF Others, AllDriven
  <2>2. \A C : Has(C, f)' <=> Has(C, f)
    BY <1>1, HasOthers
  <2>3. \A at : Asks(at, f) => Asks(at, f)'
    <3>1. ~Drops(t, k, Releasing, f)
      BY FiberNumbers DEF IsFor, Drops
    <3>2. QED
      BY <1>1, <3>1, AsksSteps
  <2>4. QED
    BY <2>1, <2>2, <2>3, DrivenStays DEF StaysListed
<1>8. QED
  BY <1>2, <1>3, <1>4, <1>5, <1>6, <1>7 DEF AttachInv

----------------------------------------------------------------------------
(* What a call knows. *)

LEMMA TopFacts ==
    ASSUME AttachInv, NEW t \in Threads, stack[t] # <<>>
    PROVE  /\ Top(t) \in Frames /\ FrameFacts(Top(t))
           /\ Top(t).at \notin ParentCalls =>
                 /\ Top(t).f \in Fibers
                 /\ EntryFacts(Top(t).f) /\ Driven(Top(t).f)
           /\ Top(t).at \in ParentCalls => Top(t).f = Parent
           /\ \A C : Top(t).at \in C => Has(C, Top(t).f)
           /\ Top(t).at \in ReleaseCalls =>
                 \/ parent # "open" /\ Top(t).f \notin tree
                 \/ Has({"unlist"}, Top(t).f)
           /\ Top(t).at = "onceDone" => disposed[Top(t).f]
<1>1. /\ TypeOK /\ EntriesFit /\ CallsFit /\ Asked /\ Disposing /\ AllDriven
  BY DEF AttachInv
<1>2. PICK n \in 1..Len(stack[t]) :
        /\ Top(t) \in Frames /\ Top(t) = stack[t][n] /\ n = Len(stack[t])
        /\ n \in Nat
  BY <1>1, TopTyping
<1>3. FrameFacts(Top(t))
  BY <1>1, <1>2 DEF CallsFit
<1>4. \A C : Top(t).at \in C => Has(C, Top(t).f)
  BY <1>2 DEF Has
<1>5. Top(t).at \notin ParentCalls => Top(t).f \in Fibers
  BY <1>2, <1>3 DEF FrameFacts, Frames
<1>6. Top(t).at \in ParentCalls => Top(t).f = Parent
  BY <1>3 DEF FrameFacts
<1>7. ASSUME Top(t).at \in ReleaseCalls
      PROVE  \/ parent # "open" /\ Top(t).f \notin tree
             \/ Has({"unlist"}, Top(t).f)
  BY <1>1, <1>2, <1>7 DEF Asked, Has
<1>8. ASSUME Top(t).at = "onceDone"
      PROVE  disposed[Top(t).f]
  <2>1. \A j \in 1..Len(stack[t]) : j # n + 1
    BY <1>2
  <2>2. QED
    BY <1>1, <1>2, <1>8, <2>1 DEF Disposing
<1>9. QED
  BY <1>1, <1>2, <1>3, <1>4, <1>5, <1>6, <1>7, <1>8 DEF EntriesFit, AllDriven

LEMMA HasFacts ==
    ASSUME AttachInv, NEW C, NEW f, Has(C, f)
    PROVE  \E g \in Frames : g.at \in C /\ g.f = f /\ FrameFacts(g)
<1>1. TypeOK /\ CallsFit
  BY DEF AttachInv
<1>2. PICK u \in Threads : \E i \in 1..Len(stack[u]) :
             stack[u][i].at \in C /\ stack[u][i].f = f
  BY DEF Has
<1>3. PICK i \in 1..Len(stack[u]) : stack[u][i].at \in C /\ stack[u][i].f = f
  BY <1>2
<1>4. stack[u][i] \in Frames /\ FrameFacts(stack[u][i])
  BY <1>1, Typing DEF CallsFit
<1>5. QED
  BY <1>3, <1>4

\* What the fields of a fiber say about the calls it can be in.
LEMMA NoSuchCall ==
    ASSUME AttachInv, NEW f \in Fibers
    PROVE  /\ f > loads => \A C : ~Has(C, f)
           /\ Known(f) \/ installed[f] => ~Has(PreCalls, f)
           /\ f \notin attached \/ ~disposed[f] => ~Has({"remove"}, f)
           /\ ~installed[f] => ~Has({"unlist"}, f)
           /\ outcome[f] # "none" => ~Has(LoadCalls, f)
<1>1. ASSUME f > loads, NEW C, Has(C, f)
      PROVE  FALSE
  <2>1. PICK g \in Frames : g.f = f /\ FrameFacts(g)
    BY <1>1, HasFacts
  <2>2. loads \in Nat /\ f \in Nat
    BY FiberNumbers DEF AttachInv, TypeOK
  <2>3. QED
    BY <1>1, <2>1, <2>2 DEF FrameFacts
<1>2. Known(f) \/ installed[f] => ~Has(PreCalls, f)
  <2> SUFFICES ASSUME Known(f) \/ installed[f], Has(PreCalls, f)
               PROVE  FALSE
    OBVIOUS
  <2>1. PICK g \in Frames : g.at \in PreCalls /\ g.f = f /\ FrameFacts(g)
    BY HasFacts
  <2>2. QED
    BY <2>1 DEF FrameFacts, Known
<1>3. f \notin attached \/ ~disposed[f] => ~Has({"remove"}, f)
  BY HasFacts DEF FrameFacts
<1>4. ~installed[f] => ~Has({"unlist"}, f)
  BY HasFacts DEF FrameFacts
<1>5. outcome[f] # "none" => ~Has(LoadCalls, f)
  <2> SUFFICES ASSUME outcome[f] # "none", Has(LoadCalls, f)
               PROVE  FALSE
    OBVIOUS
  <2>1. PICK g \in Frames : g.at \in LoadCalls /\ g.f = f /\ FrameFacts(g)
    BY HasFacts
  <2>2. QED
    BY <2>1 DEF FrameFacts
<1>6. QED
  BY <1>1, <1>2, <1>3, <1>4, <1>5

\* A load that is about to store the handle waits for no release.
LEMMA StoreWaitsForNothing ==
    ASSUME AttachInv, NEW t \in Threads, stack[t] # <<>>, Top(t).at = "store"
    PROVE  ~Asks("store", Top(t).f)
<1>1. TypeOK /\ CallsFit /\ OneInRole /\ Top(t).f # Parent
  BY TopFacts, FiberNumbers DEF AttachInv, ParentCalls
<1>2. PICK n \in 1..Len(stack[t]) : /\ Top(t) = stack[t][n] /\ n = Len(stack[t])
                                    /\ n \in Nat
  BY <1>1, TopTyping
<1> SUFFICES ASSUME Asks("store", Top(t).f)
             PROVE  FALSE
  OBVIOUS
<1>3. PICK u \in Threads : \E i \in 1..Len(stack[u]) : \E j \in 1..Len(stack[u]) :
             /\ j = i + 1
             /\ stack[u][i].at = "store" /\ stack[u][i].f \in {Top(t).f, Parent}
  BY DEF Asks
<1>4. PICK i \in 1..Len(stack[u]), j \in 1..Len(stack[u]) :
             /\ j = i + 1
             /\ stack[u][i].at = "store" /\ stack[u][i].f \in {Top(t).f, Parent}
  BY <1>3
<1>5. stack[u][i].f # Parent
  BY <1>1, <1>4 DEF CallsFit, FrameFacts, ParentCalls
<1>6. LoadCalls \in Roles /\ "store" \in LoadCalls
  BY DEF Roles, LoadCalls, ChildCalls
<1>7. u = t /\ i = n
  BY <1>1, <1>2, <1>4, <1>5, <1>6 DEF OneInRole
<1>8. QED
  BY <1>2, <1>4, <1>7

----------------------------------------------------------------------------
(* The record of the definition. *)

LEMMA ClaimantsHave == Claimants = {f \in Fibers : Has(ClaimCalls, f)}
  BY DEF Claimants, Has, ClaimCalls

LEMMA ClaimantsHaveNext == Claimants' = {f \in Fibers : Has(ClaimCalls, f)'}
  BY DEF Claimants, Has, ClaimCalls

LEMMA RuntimeStays ==
    ASSUME RecordFits, \A f \in Fibers : Has(ClaimCalls, f)' <=> Has(ClaimCalls, f),
           UNCHANGED <<runtime, runtimes, claims, attached>>
    PROVE  RecordFits'
<1>1. Claimants' = Claimants
  BY ClaimantsHave, ClaimantsHaveNext
<1>2. QED
  BY <1>1 DEF RecordFits, OneRuntime

----------------------------------------------------------------------------
(* Kinds of step: the top call moves, returns, or makes a call.            *)

LEMMA GoHas ==
    ASSUME TypeOK, NEW t \in Threads, stack[t] # <<>>, NEW g,
           Changes(t, Len(stack[t]) - 1, <<g>>), NEW e, g.f = e, Top(t).f = e
    PROVE  /\ \A C :
                /\ Has(C, e) => Has(C, e)' \/ (Top(t).at \in C /\ g.at \notin C)
                /\ Has(C, e)' => Has(C, e) \/ g.at \in C
                /\ g.at \in C => Has(C, e)'
           /\ \A at : Asks(at, e) =>
                \/ Asks(at, e)'
                \/ Top(t).at \in Releasing /\ g.at \notin Releasing
           /\ Top(t).at # "sweep" /\ g.at # "sweep" =>
                \A f : Swept(f)' <=> Swept(f)
<1>1. PICK c : c = <<g>> /\ Len(c) = 1 /\ c[1] = g
  BY Single
<1>2. Changes(t, Len(stack[t]) - 1, c)
  BY <1>1
<1> DEFINE k == Len(stack[t]) - 1
<1>3. \A C :
        /\ Has(C, e) => Has(C, e)' \/ Drops(t, k, C, e)
        /\ Has(C, e)' => Has(C, e) \/ Brings(c, C, e)
        /\ Brings(c, C, e) => Has(C, e)'
  BY <1>2, HasSteps
<1>4. \A C : Brings(c, C, e) <=> g.at \in C
  BY <1>1 DEF Brings
<1>5. \A C : Drops(t, k, C, e) => Top(t).at \in C
  BY DEF Drops
<1>6. \A at : Asks(at, e) =>
        \/ Asks(at, e)'
        \/ /\ Drops(t, k, Releasing, e)
           /\ ~(1 \in 1..Len(c) /\ c[1].at \in Releasing /\ c[1].f = e)
  BY <1>2, AsksSteps
<1>7. 1 \in 1..Len(c) /\ \A i \in 1..Len(c) : c[i] = g
  BY <1>1
<1>8. \A f : /\ Swept(f) => Swept(f)' \/ Top(t).at = "sweep"
             /\ Swept(f)' => Swept(f) \/ g.at = "sweep"
  BY <1>2, <1>7, SweptSteps
<1> HIDE DEF k
<1>9. QED
  BY <1>3, <1>4, <1>5, <1>6, <1>7, <1>8

LEMMA ReturnHas ==
    ASSUME TypeOK, NEW t \in Threads, stack[t] # <<>>,
           Changes(t, Len(stack[t]) - 1, <<>>), NEW e
    PROVE  /\ \A C :
                /\ Has(C, e) => Has(C, e)' \/ Top(t).at \in C
                /\ Has(C, e)' => Has(C, e)
           /\ \A at : Asks(at, e) => Asks(at, e)' \/ Top(t).at \in Releasing
           /\ \A f : Swept(f)' => Swept(f)
           /\ Top(t).at # "sweep" => \A f : Swept(f) => Swept(f)'
<1>1. PICK c : c = <<>> /\ Len(c) = 0
  BY EmptySeq
<1>2. Changes(t, Len(stack[t]) - 1, c)
  BY <1>1
<1> DEFINE k == Len(stack[t]) - 1
<1>3. \A C : /\ Has(C, e) => Has(C, e)' \/ Drops(t, k, C, e)
             /\ Has(C, e)' => Has(C, e) \/ Brings(c, C, e)
  BY <1>2, HasSteps
<1>4. \A C : ~Brings(c, C, e)
  BY <1>1 DEF Brings
<1>5. \A C : Drops(t, k, C, e) => Top(t).at \in C
  BY DEF Drops
<1>6. \A at : Asks(at, e) => Asks(at, e)' \/ Drops(t, k, Releasing, e)
  BY <1>2, AsksSteps
<1>7. \A i \in 1..Len(c) : FALSE
  BY <1>1
<1>8. \A f : /\ Swept(f) => Swept(f)' \/ Top(t).at = "sweep"
             /\ Swept(f)' => Swept(f)
  BY <1>2, <1>7, SweptSteps
<1> HIDE DEF k
<1>9. QED
  BY <1>3, <1>4, <1>5, <1>6, <1>8

LEMMA CallHas ==
    ASSUME TypeOK, NEW t \in Threads, stack[t] # <<>>, NEW g, NEW h, NEW c,
           Changes(t, Len(stack[t]) - 1, c), IsPair(c, g, h),
           NEW e, g.f = e, h.f = e, Top(t).f = e
    PROVE  /\ \A C :
                /\ Has(C, e) => \/ Has(C, e)'
                                \/ Top(t).at \in C /\ {g.at, h.at} \cap C = {}
                /\ Has(C, e)' => Has(C, e) \/ g.at \in C \/ h.at \in C
                /\ g.at \in C \/ h.at \in C => Has(C, e)'
           /\ \A at : Asks(at, e) =>
                \/ Asks(at, e)'
                \/ Top(t).at \in Releasing /\ g.at \notin Releasing
           /\ h.at \in Releasing => Asks(g.at, e)'
           /\ "sweep" \notin {Top(t).at, g.at, h.at} =>
                \A f : Swept(f)' <=> Swept(f)
<1>1. Len(c) = 2 /\ c[1] = g /\ c[2] = h
  BY DEF IsPair
<1>2. Changes(t, Len(stack[t]) - 1, c)
  BY <1>1
<1> DEFINE k == Len(stack[t]) - 1
<1>3. \A C :
        /\ Has(C, e) => Has(C, e)' \/ Drops(t, k, C, e)
        /\ Has(C, e)' => Has(C, e) \/ Brings(c, C, e)
        /\ Brings(c, C, e) => Has(C, e)'
  BY <1>2, HasSteps
<1>4. 1 \in 1..Len(c) /\ 2 \in 1..Len(c) /\ \A i \in 1..Len(c) : i = 1 \/ i = 2
  BY <1>1
<1>5. \A C : Brings(c, C, e) <=> g.at \in C \/ h.at \in C
  BY <1>1, <1>4 DEF Brings
<1>6. \A C : Drops(t, k, C, e) => Top(t).at \in C
  BY DEF Drops
<1>7. \A at : Asks(at, e) =>
        \/ Asks(at, e)'
        \/ /\ Drops(t, k, Releasing, e)
           /\ ~(1 \in 1..Len(c) /\ c[1].at \in Releasing /\ c[1].f = e)
  BY <1>2, AsksSteps
<1>8. h.at \in Releasing => Asks(g.at, e)'
  <2>1. \E i, j \in 1..Len(c) : j = i + 1 /\ i = 1 /\ j = 2
    BY <1>4
  <2>2. (\E i, j \in 1..Len(c) :
           /\ j = i + 1 /\ c[i].at = g.at /\ c[i].f \in {e, Parent}
           /\ c[j].at \in Releasing /\ c[j].f = e)
        => Asks(g.at, e)'
    BY <1>2, AsksSteps
  <2>3. QED
    BY <1>1, <2>1, <2>2
<1>9. \A f : /\ Swept(f) => Swept(f)' \/ Top(t).at = "sweep"
             /\ Swept(f)' => Swept(f) \/ "sweep" \in {g.at, h.at}
  BY <1>1, <1>2, <1>4, SweptSteps
<1> HIDE DEF k
<1>10. QED
  BY <1>1, <1>3, <1>4, <1>5, <1>6, <1>7, <1>8, <1>9

\* The calls for e go on knowing what they know.
KeepsFrames(t, e) ==
    /\ Known(e) => Known(e)'
    /\ installed[e] => installed'[e]
    /\ \/ Top(t).at \in LoadCalls
       \/ /\ outcome'[e] = outcome[e]
          /\ Known(e) \/ (~Known(e)' /\ ~installed'[e])
    /\ Top(t).at = "remove" \/ (e \in attached => e \in attached')

LEMMA FrameKeeps ==
    ASSUME TypeOK, TypeOK', NEW t \in Threads, NEW e \in Fibers, Others(e),
           KeepsFrames(t, e), NEW g \in Frames, FrameFacts(g), g.f = e,
           \A C \in Roles : ~(g.at \in C /\ Top(t).at \in C)
    PROVE  FrameFacts(g)'
<1>1. /\ loads \in Nat /\ loads' \in Nat /\ loads' >= loads /\ e \in Nat
      /\ e # Parent
  BY FiberNumbers DEF TypeOK, Others
<1>2. PreCalls' = PreCalls /\ LoadCalls' = LoadCalls
      /\ ParentCalls' = ParentCalls /\ UnknownCalls' = UnknownCalls
  BY DEF PreCalls, LoadCalls, ChildCalls, ParentCalls, UnknownCalls
<1>3. /\ g.at \in LoadCalls => Top(t).at \notin LoadCalls
      /\ g.at = "remove" => Top(t).at # "remove"
      /\ g.at \in PreCalls => g.at \in LoadCalls
  BY DEF Roles, LoadCalls
<1>4. /\ g.at \notin ParentCalls /\ g.at \notin {"teardown", "clear", "sweep"}
      /\ g.todo = {}
  BY <1>1 DEF FrameFacts, ParentCalls
<1>5. disposed[e] => disposed'[e]
  BY DEF Others
<1> HIDE DEF PreCalls, LoadCalls, ParentCalls, UnknownCalls
<1>6. g.at \in PreCalls =>
        e \notin attached' /\ ~disposed'[e] /\ ~installed'[e]
  BY <1>3 DEF FrameFacts, KeepsFrames, Known
<1>7. g.at \in LoadCalls => outcome'[e] = "none"
  BY <1>3 DEF FrameFacts, KeepsFrames
<1>8. QED
  BY <1>1, <1>2, <1>3, <1>4, <1>5, <1>6, <1>7 DEF FrameFacts, KeepsFrames

\* The record stays as it is, and so do the claims on it.
KeepsRecord(t, at) ==
    /\ Top(t).at \in ClaimCalls <=> at \in ClaimCalls
    /\ UNCHANGED <<runtime, runtimes, claims, attached>>

\* The entries of other fibers stay in the tree.
KeepsTree(e) == \A f \in Fibers : f # e => (f \in tree' <=> f \in tree)

LEMMA GoInvariant ==
    ASSUME AttachInv, NEW t \in Threads, stack[t] # <<>>, NEW g \in Frames,
           Changes(t, Len(stack[t]) - 1, <<g>>),
           NEW e \in Fibers, g.f = e, Top(t).f = e,
           Others(e), TypeOK', EntryFacts(e)', Driven(e)',
           FrameFacts(g)', KeepsFrames(t, e), KeepsTree(e),
           \A C \in Roles : g.at \in C => Top(t).at \in C \/ ~Has(C, e),
           g.at \in ReleaseCalls => Top(t).at \in ReleaseCalls,
           g.at # "onceDone",
           Top(t).at \in Disposer => disposed'[e] \/ g.at \in Disposer,
           KeepsRecord(t, g.at) \/ RecordFits'
    PROVE  AttachInv'
<1> DEFINE k == Len(stack[t]) - 1
<1>1. PICK c : c = <<g>> /\ Len(c) = 1 /\ c[1] = g
  BY Single
<1>2. Changes(t, k, c)
  BY <1>1
<1>3. Len(stack[t]) \in Nat \ {0} /\ TypeOK /\ RecordFits
  BY TopTyping DEF AttachInv
<1>4. k < Len(stack[t])
  BY <1>3
<1>5. 1 \in 1..Len(c) /\ \A i \in 1..Len(c) : i = 1 /\ c[i] = g
  BY <1>1
<1>6. /\ Top(t).at # "sweep" /\ g.at # "sweep" /\ e # Parent
      /\ parent' = parent
  <2>1. FrameFacts(Top(t)) /\ e # Parent
    BY TopFacts, FiberNumbers
  <2>2. QED
    BY <2>1 DEF FrameFacts, ParentCalls, Others
<1>7. \A C : (Top(t).at \in C <=> g.at \in C) => (Has(C, e)' <=> Has(C, e))
  <2>1. \A C : /\ Has(C, e) => Has(C, e)' \/ (Top(t).at \in C /\ g.at \notin C)
               /\ Has(C, e)' => Has(C, e) \/ g.at \in C
    BY <1>3, GoHas
  <2>2. \A C : Top(t).at \in C => Has(C, e)
    BY TopFacts
  <2>3. QED
    BY <2>1, <2>2
<1>8. \A f : Swept(f)' <=> Swept(f)
  BY <1>3, <1>6, GoHas
<1> HIDE DEF k
<1>9. IsFor(t, k, c, e)
  BY <1>5 DEF IsFor
<1>10. \A i \in 1..Len(c) : FrameFacts(c[i])'
  <2> TAKE i \in 1..Len(c)
  <2>1. c[i] = g
    BY <1>5
  <2>2. QED
    BY <2>1
<1>11. \A h \in Frames :
          Has({h.at}, e) /\ FrameFacts(h) /\ h.f = e /\ Apart(t, k, h)
            => FrameFacts(h)'
  <2> SUFFICES ASSUME NEW h \in Frames, FrameFacts(h), h.f = e, Apart(t, k, h)
               PROVE  FrameFacts(h)'
    OBVIOUS
  <2>1. \A C \in Roles : ~(h.at \in C /\ Top(t).at \in C)
    BY <1>4 DEF Apart
  <2>2. QED
    BY <1>3, <2>1, FrameKeeps
<1>12. TakesRoles(t, k, c)
  BY <1>4, <1>5 DEF TakesRoles, Drops
<1>13. AsksFor(t, k, c)
  BY <1>4, <1>5 DEF AsksFor, Drops
<1>14. DisposesOn(t, k, c)
  BY <1>4, <1>5 DEF DisposesOn
<1>15. StaysListed(e)
  BY <1>8 DEF StaysListed, KeepsTree
<1>16. RecordFits'
  <2>1. CASE KeepsRecord(t, g.at)
    <3>1. Has(ClaimCalls, e)' <=> Has(ClaimCalls, e)
      BY <1>7, <2>1 DEF KeepsRecord
    <3>2. \A f \in Fibers : f # e => (Has(ClaimCalls, f)' <=> Has(ClaimCalls, f))
      BY <1>2, <1>3, <1>9, HasOthers
    <3>3. \A f \in Fibers : Has(ClaimCalls, f)' <=> Has(ClaimCalls, f)
      BY <3>1, <3>2
    <3>4. QED
      BY <1>3, <2>1, <3>3, RuntimeStays DEF KeepsRecord
  <2>2. QED
    BY <2>1
<1>17. parent' = "torn" => tree' = {}
  BY <1>6 DEF AttachInv, TypeOK, Others
<1>18. QED
  BY <1>2, <1>9, <1>10, <1>11, <1>12, <1>13, <1>14, <1>15, <1>16, <1>17,
     StepInvariant

LEMMA ReturnInvariant ==
    ASSUME AttachInv, NEW t \in Threads, stack[t] # <<>>,
           Changes(t, Len(stack[t]) - 1, <<>>),
           NEW e \in Fibers, Top(t).f = e,
           Others(e), TypeOK', EntryFacts(e)', Driven(e)',
           KeepsFrames(t, e), KeepsTree(e),
           Top(t).at \in Disposer => disposed'[e],
           (Top(t).at \notin ClaimCalls /\
              UNCHANGED <<runtime, runtimes, claims, attached>>) \/ RecordFits'
    PROVE  AttachInv'
<1> DEFINE k == Len(stack[t]) - 1
<1>1. PICK c : c = <<>> /\ Len(c) = 0
  BY EmptySeq
<1>2. Changes(t, k, c)
  BY <1>1
<1>3. Len(stack[t]) \in Nat \ {0} /\ TypeOK /\ RecordFits
  BY TopTyping DEF AttachInv
<1>4. k < Len(stack[t])
  BY <1>3
<1>5. 1..Len(c) = {} /\ \A i \in 1..Len(c) : FALSE
  BY <1>1
<1>6. Top(t).at # "sweep" /\ e # Parent /\ parent' = parent
  <2>1. FrameFacts(Top(t)) /\ e # Parent
    BY TopFacts, FiberNumbers
  <2>2. QED
    BY <2>1 DEF FrameFacts, ParentCalls, Others
<1>7. \A f : Swept(f)' <=> Swept(f)
  BY <1>3, <1>6, ReturnHas
<1>8. \A C : Top(t).at \notin C => (Has(C, e)' <=> Has(C, e))
  BY <1>3, ReturnHas
<1> HIDE DEF k
<1>9. IsFor(t, k, c, e)
  BY <1>5 DEF IsFor
<1>10. \A i \in 1..Len(c) : FrameFacts(c[i])'
  BY <1>5
<1>11. \A h \in Frames :
          Has({h.at}, e) /\ FrameFacts(h) /\ h.f = e /\ Apart(t, k, h)
            => FrameFacts(h)'
  <2> SUFFICES ASSUME NEW h \in Frames, FrameFacts(h), h.f = e, Apart(t, k, h)
               PROVE  FrameFacts(h)'
    OBVIOUS
  <2>1. \A C \in Roles : ~(h.at \in C /\ Top(t).at \in C)
    BY <1>4 DEF Apart
  <2>2. QED
    BY <1>3, <2>1, FrameKeeps
<1>12. TakesRoles(t, k, c) /\ AsksFor(t, k, c)
  BY <1>5 DEF TakesRoles, AsksFor
<1>13. DisposesOn(t, k, c)
  BY <1>5 DEF DisposesOn
<1>14. StaysListed(e)
  BY <1>7 DEF StaysListed, KeepsTree
<1>15. RecordFits'
  <2>1. CASE Top(t).at \notin ClaimCalls /\
              UNCHANGED <<runtime, runtimes, claims, attached>>
    <3>1. Has(ClaimCalls, e)' <=> Has(ClaimCalls, e)
      BY <1>8, <2>1
    <3>2. \A f \in Fibers : f # e => (Has(ClaimCalls, f)' <=> Has(ClaimCalls, f))
      BY <1>2, <1>3, <1>9, HasOthers
    <3>3. \A f \in Fibers : Has(ClaimCalls, f)' <=> Has(ClaimCalls, f)
      BY <3>1, <3>2
    <3>4. QED
      BY <1>3, <2>1, <3>3, RuntimeStays
  <2>2. QED
    BY <2>1
<1>16. parent' = "torn" => tree' = {}
  BY <1>6 DEF AttachInv, TypeOK, Others
<1>17. QED
  BY <1>2, <1>9, <1>10, <1>11, <1>12, <1>13, <1>14, <1>15, <1>16,
     StepInvariant

LEMMA CallInvariant ==
    ASSUME AttachInv, NEW t \in Threads, stack[t] # <<>>,
           NEW g \in Frames, NEW h \in Frames, NEW c,
           Changes(t, Len(stack[t]) - 1, c), IsPair(c, g, h),
           NEW e \in Fibers, g.f = e, h.f = e, Top(t).f = e,
           Others(e), TypeOK', EntryFacts(e)', Driven(e)',
           FrameFacts(g)', FrameFacts(h)', KeepsFrames(t, e), KeepsTree(e),
           \A C \in Roles : h.at \notin C /\ (g.at \in C => Top(t).at \in C),
           g.at \notin ReleaseCalls,
           h.at \in ReleaseCalls =>
              \/ parent' # "open" /\ e \notin tree'
              \/ g.at = "unlist" \/ Top(t).at \in ReleaseCalls,
           g.at = "onceDone" => h.at \in Disposer, h.at # "onceDone",
           Top(t).at \notin Disposer \cup ClaimCalls,
           {g.at, h.at} \cap ClaimCalls = {},
           UNCHANGED <<runtime, runtimes, claims, attached>>
    PROVE  AttachInv'
<1> DEFINE k == Len(stack[t]) - 1
<1>1. Len(c) = 2 /\ c[1] = g /\ c[2] = h
  BY DEF IsPair
<1>2. Changes(t, k, c)
  BY <1>1
<1>3. Len(stack[t]) \in Nat \ {0} /\ TypeOK /\ RecordFits
  BY TopTyping DEF AttachInv
<1>4. k < Len(stack[t])
  BY <1>3
<1>5. /\ 1 \in 1..Len(c) /\ 2 \in 1..Len(c)
      /\ \A i \in 1..Len(c) : (i = 1 /\ c[i] = g) \/ (i = 2 /\ c[i] = h)
  BY <1>1
<1>6. /\ "sweep" \notin {Top(t).at, g.at, h.at} /\ e # Parent
      /\ parent' = parent
  <2>1. FrameFacts(Top(t)) /\ e # Parent
    BY TopFacts, FiberNumbers
  <2>2. QED
    BY <2>1 DEF FrameFacts, ParentCalls, Others
<1>7. \A f : Swept(f)' <=> Swept(f)
  BY <1>3, <1>6, CallHas
<1>8. Has(ClaimCalls, e)' <=> Has(ClaimCalls, e)
  BY <1>3, CallHas
<1> HIDE DEF k
<1>9. IsFor(t, k, c, e)
  BY <1>5 DEF IsFor
<1>10. \A i \in 1..Len(c) : FrameFacts(c[i])'
  <2> TAKE i \in 1..Len(c)
  <2>1. c[i] = g \/ c[i] = h
    BY <1>5
  <2>2. CASE c[i] = g
    BY <2>2
  <2>3. CASE c[i] = h
    BY <2>3
  <2>4. QED
    BY <2>1, <2>2, <2>3
<1>11. \A w \in Frames :
          Has({w.at}, e) /\ FrameFacts(w) /\ w.f = e /\ Apart(t, k, w)
            => FrameFacts(w)'
  <2> SUFFICES ASSUME NEW w \in Frames, FrameFacts(w), w.f = e, Apart(t, k, w)
               PROVE  FrameFacts(w)'
    OBVIOUS
  <2>1. \A C \in Roles : ~(w.at \in C /\ Top(t).at \in C)
    BY <1>4 DEF Apart
  <2>2. QED
    BY <1>3, <2>1, FrameKeeps
<1>12. TakesRoles(t, k, c)
  BY <1>4, <1>5 DEF TakesRoles, Drops
<1>13. AsksFor(t, k, c)
  <2> SUFFICES ASSUME NEW i \in 1..Len(c), c[i].at \in ReleaseCalls
               PROVE  \/ parent' # "open" /\ c[i].f \notin tree'
                      \/ \E j \in 1..Len(c) :
                           j < i /\ c[j].at = "unlist" /\ c[j].f = c[i].f
                      \/ Drops(t, k, ReleaseCalls, c[i].f)
    BY DEF AsksFor
  <2>1. i = 2 /\ c[i] = h
    BY <1>5
  <2>2. 1 < i /\ c[1] = g
    BY <1>1, <2>1
  <2>3. QED
    BY <1>4, <1>5, <2>1, <2>2 DEF Drops
<1>14. DisposesOn(t, k, c)
  <2> SUFFICES ASSUME NEW i \in 1..Len(c), c[i].at = "onceDone"
               PROVE  \E j \in 1..Len(c) :
                        j = i + 1 /\ c[j].at \in Disposer /\ c[j].f = c[i].f
    BY DEF DisposesOn
  <2>1. i = 1 /\ c[i] = g
    BY <1>5
  <2>2. i + 1 = 2 /\ c[2] = h
    BY <1>1, <2>1
  <2>3. QED
    BY <1>5, <2>1, <2>2
<1>15. StaysListed(e)
  BY <1>7 DEF StaysListed, KeepsTree
<1>16. RecordFits'
  <2>1. \A f \in Fibers : f # e => (Has(ClaimCalls, f)' <=> Has(ClaimCalls, f))
    BY <1>2, <1>3, <1>9, HasOthers
  <2>2. \A f \in Fibers : Has(ClaimCalls, f)' <=> Has(ClaimCalls, f)
    BY <1>8, <2>1
  <2>3. QED
    BY <1>3, <2>2, RuntimeStays
<1>17. parent' = "torn" => tree' = {}
  BY <1>6 DEF AttachInv, TypeOK, Others
<1>18. QED
  BY <1>2, <1>9, <1>10, <1>11, <1>12, <1>13, <1>14, <1>15, <1>16, <1>17,
     StepInvariant

----------------------------------------------------------------------------
(* The transition driver. *)

\* A step of the driver that changes no field but busy, dirty and state.
DriverFields(e) ==
    /\ UNCHANGED <<registry, disposed, links, entry, parent>>
    /\ \A f \in Fibers : f # e => state'[f] = state[f]
    /\ state'[e] = "disposed" => state[e] = "disposed"

LEMMA DriverKeeps ==
    ASSUME TypeOK, NEW e \in Fibers, EntryFacts(e), DriverFields(e),
           NEW t \in Threads
    PROVE  /\ Others(e) /\ EntryFacts(e)' /\ KeepsFrames(t, e) /\ KeepsTree(e)
           /\ UNCHANGED <<runtime, runtimes, claims, attached>>
<1>1. /\ loads' = loads /\ attached' = attached /\ tree' = tree
      /\ disposed' = disposed /\ slot' = slot /\ handle' = handle
      /\ installed' = installed /\ deferred' = deferred /\ once' = once
      /\ handleOnce' = handleOnce /\ outcome' = outcome /\ parent' = parent
      /\ UNCHANGED <<runtime, runtimes, claims, attached>>
  BY DEF DriverFields, registry, links, entry
<1>2. loads' >= loads
  BY <1>1 DEF TypeOK
<1>3. Others(e)
  BY <1>1, <1>2 DEF Others, SameFiber, DriverFields
<1>4. EntryFacts(e)'
  BY <1>1 DEF EntryFacts, Known, DriverFields
<1>5. KeepsFrames(t, e) /\ KeepsTree(e)
  BY <1>1 DEF KeepsFrames, Known, KeepsTree, EntryFacts
<1>6. QED
  BY <1>1, <1>3, <1>4, <1>5

Plain == {"refresh", "pass", "sync", "finalize", "end"}

LEMMA PlainCalls ==
    /\ \A C \in Roles : C \cap Plain = {}
    /\ Plain \cap (PreCalls \cup LoadCalls \cup ParentCalls \cup ReleaseCalls
                   \cup Releasing \cup Disposer \cup ClaimCalls \cup ChildCalls
                   \cup UnknownCalls) = {}
    /\ Plain \subseteq Calls
  BY DEF Roles, Plain, PreCalls, LoadCalls, ParentCalls, ReleaseCalls, Releasing,
         Disposer, ClaimCalls, ChildCalls, UnknownCalls, Calls

\* What the calls under way are to finish.
LEMMA DrivenKeeps ==
    ASSUME NEW e, Driven(e),
           e \in attached' => e \in attached, disposed'[e] = disposed[e],
           e \in tree' <=> e \in tree, slot'[e] = slot[e],
           installed'[e] = installed[e], deferred'[e] = deferred[e],
           outcome'[e] = outcome[e],
           Has({"remove"}, e) => Has({"remove"}, e)',
           Has({"attach", "install", "store"}, e) =>
              Has({"attach", "install", "store"}, e)',
           Has({"handle", "unlist"}, e) => Has({"handle", "unlist"}, e)',
           Has({"attach", "install"}, e) => Has({"attach", "install"}, e)',
           Has(ChildCalls, e)' => Has(ChildCalls, e),
           Has({"request"}, e)' => Has({"request"}, e) \/ installed[e],
           Asks("sweep", e) => Asks("sweep", e)' \/ disposed[e],
           Asks("store", e) => Asks("store", e)' \/ disposed[e],
           Swept(e)' <=> Swept(e)
    PROVE  Driven(e)'
<1>1. ChildCalls' = ChildCalls
  BY DEF ChildCalls
<1> HIDE DEF ChildCalls
<1>2. QED
  BY <1>1 DEF Driven

LEMMA PlainGo ==
    ASSUME AttachInv, NEW t \in Threads, stack[t] # <<>>, Top(t).at \in Plain,
           NEW at \in Plain, Goto(t, at), DriverFields(Top(t).f), TypeOK',
           at = "finalize" => disposed[Top(t).f]
    PROVE  AttachInv'
<1>1. TypeOK
  BY DEF AttachInv
<1>2. PICK g \in Frames :
        /\ Changes(t, Len(stack[t]) - 1, <<g>>)
        /\ g.at = at /\ g.f = Top(t).f /\ g.todo = Top(t).todo
  BY <1>1, PlainCalls, Going
<1>3. PICK e \in Fibers : e = Top(t).f
  BY TopFacts, PlainCalls
<1>4. FrameFacts(Top(t)) /\ EntryFacts(e) /\ Driven(e)
  BY <1>3, TopFacts, PlainCalls
<1>5. /\ Others(e) /\ EntryFacts(e)' /\ KeepsFrames(t, e) /\ KeepsTree(e)
      /\ UNCHANGED <<runtime, runtimes, claims, attached>>
  BY <1>1, <1>3, <1>4, DriverKeeps
<1>6. /\ loads' = loads /\ attached' = attached /\ tree' = tree
      /\ disposed' = disposed /\ slot' = slot /\ installed' = installed
      /\ deferred' = deferred /\ outcome' = outcome /\ parent' = parent
  BY DEF DriverFields, registry, links, entry
<1>7. Driven(e)'
  <2>1. /\ \A C :
             /\ Has(C, e) => Has(C, e)' \/ (Top(t).at \in C /\ g.at \notin C)
             /\ Has(C, e)' => Has(C, e) \/ g.at \in C
        /\ \A a : Asks(a, e) => \/ Asks(a, e)'
                                \/ Top(t).at \in Releasing /\ g.at \notin Releasing
        /\ Top(t).at # "sweep" /\ g.at # "sweep" => \A f : Swept(f)' <=> Swept(f)
    BY <1>1, <1>2, <1>3, GoHas
  <2>2. /\ Has({"remove"}, e) => Has({"remove"}, e)'
        /\ Has({"attach", "install", "store"}, e) =>
              Has({"attach", "install", "store"}, e)'
        /\ Has({"handle", "unlist"}, e) => Has({"handle", "unlist"}, e)'
        /\ Has({"attach", "install"}, e) => Has({"attach", "install"}, e)'
        /\ Has(ChildCalls, e)' => Has(ChildCalls, e)
        /\ Has({"request"}, e)' => Has({"request"}, e)
    BY <1>2, <2>1 DEF Plain, ChildCalls
  <2>3. /\ \A a : Asks(a, e) => Asks(a, e)'
        /\ Swept(e)' <=> Swept(e)
    BY <1>2, <2>1 DEF Plain, Releasing
  <2>4. QED
    BY <1>4, <1>6, <2>2, <2>3, DrivenKeeps
<1>8. FrameFacts(g)'
  <2>1. Known(e) /\ e # Parent /\ Top(t).f <= loads
    BY <1>3, <1>4, PlainCalls, FiberNumbers DEF FrameFacts
  <2>2. g.todo = {}
    BY <1>2, <1>4 DEF FrameFacts, Plain
  <2>3. /\ g.at \notin {"store", "handle", "unlist", "once", "fromParent",
                        "onceDone", "remove", "teardown", "clear", "sweep"}
        /\ g.at \notin PreCalls /\ g.at \notin LoadCalls /\ g.at \notin ParentCalls
    BY <1>2, PlainCalls DEF Plain
  <2>4. PreCalls' = PreCalls /\ LoadCalls' = LoadCalls
        /\ ParentCalls' = ParentCalls /\ UnknownCalls' = UnknownCalls
    BY DEF PreCalls, LoadCalls, ChildCalls, ParentCalls, UnknownCalls
  <2> HIDE DEF PreCalls, LoadCalls, ParentCalls, UnknownCalls
  <2>5. QED
    BY <1>2, <1>3, <1>6, <2>1, <2>2, <2>3, <2>4 DEF FrameFacts, Known
<1>9. /\ \A C \in Roles : g.at \notin C
      /\ g.at \notin ReleaseCalls /\ Top(t).at \notin Disposer /\ g.at # "onceDone"
      /\ Top(t).at \notin ClaimCalls /\ g.at \notin ClaimCalls
  <2>1. g.at # "onceDone"
    BY <1>2 DEF Plain
  <2>2. QED
    BY <1>2, <2>1, PlainCalls
<1>10. KeepsRecord(t, g.at)
  BY <1>5, <1>9 DEF KeepsRecord
<1>11. QED
  BY <1>2, <1>3, <1>5, <1>7, <1>8, <1>9, <1>10, GoInvariant

LEMMA PlainReturn ==
    ASSUME AttachInv, NEW t \in Threads, stack[t] # <<>>, Top(t).at \in Plain,
           Return(t), DriverFields(Top(t).f), TypeOK'
    PROVE  AttachInv'
<1>1. TypeOK
  BY DEF AttachInv
<1>2. Changes(t, Len(stack[t]) - 1, <<>>)
  BY <1>1, Returning
<1>3. PICK e \in Fibers : e = Top(t).f
  BY TopFacts, PlainCalls
<1>4. EntryFacts(e) /\ Driven(e)
  BY <1>3, TopFacts, PlainCalls
<1>5. /\ Others(e) /\ EntryFacts(e)' /\ KeepsFrames(t, e) /\ KeepsTree(e)
      /\ UNCHANGED <<runtime, runtimes, claims, attached>>
  BY <1>1, <1>3, <1>4, DriverKeeps
<1>6. /\ attached' = attached /\ tree' = tree
      /\ disposed' = disposed /\ slot' = slot /\ installed' = installed
      /\ deferred' = deferred /\ outcome' = outcome
  BY DEF DriverFields, registry, links, entry
<1>7. Driven(e)'
  <2>1. /\ \A C : /\ Has(C, e) => Has(C, e)' \/ Top(t).at \in C
                  /\ Has(C, e)' => Has(C, e)
        /\ \A a : Asks(a, e) => Asks(a, e)' \/ Top(t).at \in Releasing
        /\ \A f : Swept(f)' => Swept(f)
        /\ Top(t).at # "sweep" => \A f : Swept(f) => Swept(f)'
    BY <1>1, <1>2, ReturnHas
  <2>2. /\ Has({"remove"}, e) => Has({"remove"}, e)'
        /\ Has({"attach", "install", "store"}, e) =>
              Has({"attach", "install", "store"}, e)'
        /\ Has({"handle", "unlist"}, e) => Has({"handle", "unlist"}, e)'
        /\ Has({"attach", "install"}, e) => Has({"attach", "install"}, e)'
        /\ Has(ChildCalls, e)' => Has(ChildCalls, e)
        /\ Has({"request"}, e)' => Has({"request"}, e)
    BY <2>1 DEF Plain
  <2>3. /\ \A a : Asks(a, e) => Asks(a, e)'
        /\ Swept(e)' <=> Swept(e)
    BY <2>1 DEF Plain, Releasing
  <2>4. QED
    BY <1>4, <1>6, <2>2, <2>3, DrivenKeeps
<1>8. Top(t).at \notin Disposer /\ Top(t).at \notin ClaimCalls
  BY PlainCalls
<1>9. QED
  BY <1>2, <1>3, <1>5, <1>7, <1>8, ReturnInvariant

LEMMA GoTypes ==
    ASSUME TypeOK, NEW t \in Threads, stack[t] # <<>>, NEW at \in Calls, Goto(t, at)
    PROVE  stack' \in [Threads -> Seq(Frames)]
  BY Going DEF Changes

LEMMA ReturnTypes ==
    ASSUME TypeOK, NEW t \in Threads, stack[t] # <<>>, Return(t)
    PROVE  stack' \in [Threads -> Seq(Frames)]
  BY Returning DEF Changes

LEMMA PlainTypes ==
    ASSUME TypeOK, NEW e \in Fibers, DriverFields(e),
           stack' \in [Threads -> Seq(Frames)],
           busy' \in [Fibers -> BOOLEAN], dirty' \in [Fibers -> BOOLEAN],
           state' \in [Fibers -> {"pending", "active", "disposed"}]
    PROVE  TypeOK'
<1>1. /\ loads' = loads /\ runtime' = runtime /\ runtimes' = runtimes
      /\ claims' = claims /\ attached' = attached /\ outcome' = outcome
      /\ disposed' = disposed /\ slot' = slot /\ handle' = handle
      /\ tree' = tree /\ installed' = installed /\ deferred' = deferred
      /\ once' = once /\ handleOnce' = handleOnce /\ parent' = parent
  BY DEF DriverFields, registry, links, entry
<1>2. Fibers' = Fibers /\ Runtimes' = Runtimes /\ Frames' = Frames
      /\ Links' = Links /\ OnceStates' = OnceStates /\ NoRuntime' = NoRuntime
  BY DEF Frames, Calls, Links, OnceStates, Runtimes, NoRuntime, Fibers, Parent
<1> HIDE DEF Frames, Links, OnceStates, Runtimes, Fibers, NoRuntime
<1>3. QED
  BY <1>1, <1>2 DEF TypeOK

LEMMA BeginTransitionStep ==
    ASSUME AttachInv, NEW t \in Threads, BeginTransition(t)
    PROVE  AttachInv'
<1>1. TypeOK /\ stack[t] # <<>> /\ Top(t).at = "refresh" /\ "refresh" \in Plain
  BY DEF AttachInv, BeginTransition, In, Plain
<1>2. PICK e \in Fibers : e = Top(t).f
  BY <1>1, TopFacts, PlainCalls
<1>3. DriverFields(Top(t).f)
  BY DEF BeginTransition, DriverFields
<1>4. CASE busy[e]
  <2>1. /\ dirty' = [dirty EXCEPT ![e] = TRUE] /\ busy' = busy /\ Return(t)
        /\ state' = state
    BY <1>2, <1>4 DEF BeginTransition
  <2>2. TypeOK'
    <3>1. dirty' \in [Fibers -> BOOLEAN] /\ busy' \in [Fibers -> BOOLEAN]
          /\ state' \in [Fibers -> {"pending", "active", "disposed"}]
      BY <1>1, <2>1 DEF TypeOK
    <3>2. QED
      BY <1>1, <1>2, <1>3, <2>1, <3>1, ReturnTypes, PlainTypes
  <2>3. QED
    BY <1>1, <1>3, <2>1, <2>2, PlainReturn
<1>5. CASE ~busy[e]
  <2>1. /\ busy' = [busy EXCEPT ![e] = TRUE] /\ dirty' = dirty /\ Goto(t, "pass")
        /\ state' = state
    BY <1>2, <1>5 DEF BeginTransition
  <2>2. "pass" \in Plain /\ "pass" \in Calls
    BY DEF Plain, Calls
  <2>3. TypeOK'
    <3>1. dirty' \in [Fibers -> BOOLEAN] /\ busy' \in [Fibers -> BOOLEAN]
          /\ state' \in [Fibers -> {"pending", "active", "disposed"}]
      BY <1>1, <2>1 DEF TypeOK
    <3>2. QED
      BY <1>1, <1>2, <1>3, <2>1, <2>2, <3>1, GoTypes, PlainTypes
  <2>4. QED
    BY <1>1, <1>3, <2>1, <2>2, <2>3, PlainGo
<1>6. QED
  BY <1>4, <1>5

LEMMA BeginPassStep ==
    ASSUME AttachInv, NEW t \in Threads, BeginPass(t)
    PROVE  AttachInv'
<1>1. TypeOK /\ stack[t] # <<>> /\ Top(t).at = "pass" /\ "pass" \in Plain
  BY DEF AttachInv, BeginPass, In, Plain
<1>2. PICK e \in Fibers : e = Top(t).f
  BY <1>1, TopFacts, PlainCalls
<1>3. DriverFields(Top(t).f)
  BY DEF BeginPass, DriverFields
<1>4. /\ dirty' = [dirty EXCEPT ![e] = FALSE] /\ busy' = busy /\ Goto(t, "sync")
      /\ state' = state
  BY <1>2 DEF BeginPass
<1>5. "sync" \in Plain /\ "sync" \in Calls
  BY DEF Plain, Calls
<1>6. dirty' \in [Fibers -> BOOLEAN] /\ busy' \in [Fibers -> BOOLEAN]
      /\ state' \in [Fibers -> {"pending", "active", "disposed"}]
  BY <1>1, <1>4 DEF TypeOK
<1>7. TypeOK'
  BY <1>1, <1>2, <1>3, <1>4, <1>5, <1>6, GoTypes, PlainTypes
<1>8. QED
  BY <1>1, <1>3, <1>4, <1>5, <1>7, PlainGo

LEMMA SyncStep ==
    ASSUME AttachInv, NEW t \in Threads, Sync(t)
    PROVE  AttachInv'
<1>1. TypeOK /\ stack[t] # <<>> /\ Top(t).at = "sync" /\ "sync" \in Plain
  BY DEF AttachInv, Sync, In, Plain
<1>2. PICK e \in Fibers : e = Top(t).f
  BY <1>1, TopFacts, PlainCalls
<1>3. CASE disposed[e]
  <2>1. /\ state' = state /\ Goto(t, "finalize") /\ busy' = busy /\ dirty' = dirty
    BY <1>2, <1>3 DEF Sync
  <2>2. "finalize" \in Plain /\ "finalize" \in Calls
    BY DEF Plain, Calls
  <2>3. DriverFields(Top(t).f)
    BY <2>1 DEF Sync, DriverFields
  <2>4. dirty' \in [Fibers -> BOOLEAN] /\ busy' \in [Fibers -> BOOLEAN]
        /\ state' \in [Fibers -> {"pending", "active", "disposed"}]
    BY <1>1, <2>1 DEF TypeOK
  <2>5. TypeOK'
    BY <1>1, <1>2, <2>1, <2>2, <2>3, <2>4, GoTypes, PlainTypes
  <2>6. QED
    BY <1>1, <1>2, <1>3, <2>1, <2>2, <2>3, <2>5, PlainGo
<1>4. CASE ~disposed[e]
  <2>1. /\ state' = [state EXCEPT ![e] = "active"] /\ Goto(t, "end")
        /\ busy' = busy /\ dirty' = dirty
    BY <1>2, <1>4 DEF Sync
  <2>2. "end" \in Plain /\ "end" \in Calls
    BY DEF Plain, Calls
  <2>3. DriverFields(Top(t).f)
    <3>1. /\ \A f \in Fibers : f # e => state'[f] = state[f]
          /\ state'[e] = "active"
      BY <1>1, <2>1 DEF TypeOK
    <3>2. QED
      BY <1>2, <3>1 DEF Sync, DriverFields
  <2>4. dirty' \in [Fibers -> BOOLEAN] /\ busy' \in [Fibers -> BOOLEAN]
        /\ state' \in [Fibers -> {"pending", "active", "disposed"}]
    BY <1>1, <2>1 DEF TypeOK
  <2>5. TypeOK'
    BY <1>1, <1>2, <2>1, <2>2, <2>3, <2>4, GoTypes, PlainTypes
  <2>6. QED
    BY <1>1, <2>1, <2>2, <2>3, <2>5, PlainGo
<1>5. QED
  BY <1>3, <1>4

LEMMA EndPassStep ==
    ASSUME AttachInv, NEW t \in Threads, EndPass(t)
    PROVE  AttachInv'
<1>1. TypeOK /\ stack[t] # <<>> /\ Top(t).at = "end" /\ "end" \in Plain
  BY DEF AttachInv, EndPass, In, Plain
<1>2. PICK e \in Fibers : e = Top(t).f
  BY <1>1, TopFacts, PlainCalls
<1>3. DriverFields(Top(t).f)
  BY DEF EndPass, DriverFields
<1>4. CASE dirty[e]
  <2>1. busy' = busy /\ dirty' = dirty /\ Goto(t, "pass") /\ state' = state
    BY <1>2, <1>4 DEF EndPass
  <2>2. "pass" \in Plain /\ "pass" \in Calls
    BY DEF Plain, Calls
  <2>3. dirty' \in [Fibers -> BOOLEAN] /\ busy' \in [Fibers -> BOOLEAN]
        /\ state' \in [Fibers -> {"pending", "active", "disposed"}]
    BY <1>1, <2>1 DEF TypeOK
  <2>4. TypeOK'
    BY <1>1, <1>2, <1>3, <2>1, <2>2, <2>3, GoTypes, PlainTypes
  <2>5. QED
    BY <1>1, <1>3, <2>1, <2>2, <2>4, PlainGo
<1>5. CASE ~dirty[e]
  <2>1. /\ busy' = [busy EXCEPT ![e] = FALSE] /\ dirty' = dirty /\ Return(t)
        /\ state' = state
    BY <1>2, <1>5 DEF EndPass
  <2>2. dirty' \in [Fibers -> BOOLEAN] /\ busy' \in [Fibers -> BOOLEAN]
        /\ state' \in [Fibers -> {"pending", "active", "disposed"}]
    BY <1>1, <2>1 DEF TypeOK
  <2>3. TypeOK'
    BY <1>1, <1>2, <1>3, <2>1, <2>2, ReturnTypes, PlainTypes
  <2>4. QED
    BY <1>1, <1>3, <2>1, <2>3, PlainReturn
<1>6. QED
  BY <1>4, <1>5

\* What a call for a fiber that begins has to know.
LEMMA NewFacts ==
    ASSUME NEW g \in Frames, g.f \in Fibers, g.f <= loads', g.todo = {},
           g.at \notin ParentCalls,
           g.at \in PreCalls => ~Known(g.f)' /\ ~installed'[g.f],
           g.at \in LoadCalls => outcome'[g.f] = "none",
           g.at \in PreCalls \cup {"request"} \/ Known(g.f)',
           g.at \in {"store", "handle", "unlist", "once", "fromParent",
                     "onceDone"} => installed'[g.f],
           g.at \in {"remove", "finalize", "handle", "unlist"} => disposed'[g.f],
           g.at = "remove" => g.f \in attached'
    PROVE  FrameFacts(g)'
<1>1. PreCalls' = PreCalls /\ LoadCalls' = LoadCalls
      /\ ParentCalls' = ParentCalls /\ UnknownCalls' = UnknownCalls
  BY DEF PreCalls, LoadCalls, ChildCalls, ParentCalls, UnknownCalls
<1>2. /\ g.at \notin {"teardown", "clear", "sweep"} /\ g.f # Parent
      /\ g.at \in PreCalls \cup {"request"} => g.at \in UnknownCalls
  BY FiberNumbers DEF ParentCalls, UnknownCalls
<1> HIDE DEF PreCalls, LoadCalls, ParentCalls, UnknownCalls
<1>3. QED
  BY <1>1, <1>2 DEF FrameFacts, Known

\* The first pass over a disposed fiber ends it.
LEMMA EndsFiber ==
    ASSUME TypeOK, NEW e \in Fibers, EntryFacts(e), disposed[e],
           NEW t \in Threads,
           state' = [state EXCEPT ![e] = "disposed"],
           slot' = [slot EXCEPT ![e] = "none"],
           UNCHANGED <<registry, disposed, busy, dirty, handle, entry, parent>>
    PROVE  /\ Others(e) /\ EntryFacts(e)' /\ KeepsFrames(t, e) /\ KeepsTree(e)
           /\ UNCHANGED <<loads, attached, tree, disposed, handle, installed,
                          deferred, outcome>>
           /\ UNCHANGED <<runtime, runtimes, claims, attached>>
           /\ slot'[e] = "none"
           /\ stack' \in [Threads -> Seq(Frames)] => TypeOK'
<1>1. /\ UNCHANGED <<loads, attached, tree, disposed, handle, installed,
                     deferred, outcome>>
      /\ UNCHANGED <<runtime, runtimes, claims, busy, dirty, once, handleOnce,
                     parent>>
  BY DEF registry, entry
<1>2. /\ \A f \in Fibers : f # e => state'[f] = state[f] /\ slot'[f] = slot[f]
      /\ state'[e] = "disposed" /\ slot'[e] = "none"
      /\ state' \in [Fibers -> {"pending", "active", "disposed"}]
      /\ slot' \in [Fibers -> Links]
      /\ loads' >= loads
  BY <1>1 DEF TypeOK, Links
<1>3. Others(e)
  BY <1>1, <1>2 DEF Others, SameFiber
<1>4. EntryFacts(e)'
  BY <1>1, <1>2 DEF EntryFacts, Known
<1>5. KeepsFrames(t, e) /\ KeepsTree(e)
  BY <1>1 DEF KeepsFrames, Known, KeepsTree, EntryFacts
<1>6. ASSUME stack' \in [Threads -> Seq(Frames)]
      PROVE  TypeOK'
  <2>1. Fibers' = Fibers /\ Runtimes' = Runtimes /\ Frames' = Frames
        /\ Links' = Links /\ OnceStates' = OnceStates /\ NoRuntime' = NoRuntime
    BY DEF Frames, Calls, Links, OnceStates, Runtimes, NoRuntime, Fibers, Parent
  <2> HIDE DEF Frames, Links, OnceStates, Runtimes, Fibers, NoRuntime
  <2>2. QED
    BY <1>1, <1>2, <1>6, <2>1 DEF TypeOK
<1>7. QED
  BY <1>1, <1>2, <1>3, <1>4, <1>5, <1>6

LEMMA FinalizeDisposeStep ==
    ASSUME AttachInv, NEW t \in Threads, FinalizeDispose(t)
    PROVE  AttachInv'
<1>1. TypeOK /\ stack[t] # <<>> /\ Top(t).at = "finalize" /\ "finalize" \in Plain
  BY DEF AttachInv, FinalizeDispose, In, Plain
<1>2. PICK e \in Fibers : e = Top(t).f
  BY <1>1, TopFacts, PlainCalls
<1>3. FrameFacts(Top(t)) /\ EntryFacts(e) /\ Driven(e)
  BY <1>1, <1>2, TopFacts, PlainCalls
<1>4. Known(e) /\ e <= loads /\ disposed[e] /\ Top(t).todo = {}
  BY <1>1, <1>2, <1>3, PlainCalls DEF FrameFacts
<1>5. "end" \in Plain /\ "end" \in Calls /\ "handle" \in Calls
  BY DEF Plain, Calls
<1>6. CASE state[e] = "disposed"
  <2>1. /\ state' = state /\ slot' = slot /\ Goto(t, "end")
        /\ busy' = busy /\ dirty' = dirty
    BY <1>2, <1>6 DEF FinalizeDispose
  <2>2. DriverFields(Top(t).f)
    BY <2>1 DEF FinalizeDispose, DriverFields, links
  <2>3. dirty' \in [Fibers -> BOOLEAN] /\ busy' \in [Fibers -> BOOLEAN]
        /\ state' \in [Fibers -> {"pending", "active", "disposed"}]
    BY <1>1, <2>1 DEF TypeOK
  <2>4. TypeOK'
    BY <1>1, <1>2, <1>5, <2>1, <2>2, <2>3, GoTypes, PlainTypes
  <2>5. QED
    BY <1>1, <1>5, <2>1, <2>2, <2>4, PlainGo
<1>7. CASE state[e] # "disposed"
  <2>1. /\ state' = [state EXCEPT ![e] = "disposed"]
        /\ slot' = [slot EXCEPT ![e] = "none"]
        /\ UNCHANGED <<registry, disposed, busy, dirty, handle, entry, parent>>
        /\ slot[e] = "none" => Goto(t, "end")
        /\ slot[e] # "none" => Continue(t, <<Frame("end", e), Frame("handle", e)>>)
    BY <1>2, <1>7 DEF FinalizeDispose
  <2>2. /\ Others(e) /\ EntryFacts(e)' /\ KeepsFrames(t, e) /\ KeepsTree(e)
        /\ UNCHANGED <<loads, attached, tree, disposed, handle, installed,
                       deferred, outcome>>
        /\ UNCHANGED <<runtime, runtimes, claims, attached>>
        /\ slot'[e] = "none"
        /\ stack' \in [Threads -> Seq(Frames)] => TypeOK'
    BY <1>1, <1>3, <1>4, <2>1, EndsFiber
  <2>3. /\ e # Parent /\ Known(e)'
    BY <1>4, <2>2, FiberNumbers DEF Known
  <2>4. CASE slot[e] = "none"
    <3>1. PICK g \in Frames :
            /\ Changes(t, Len(stack[t]) - 1, <<g>>)
            /\ g.at = "end" /\ g.f = e /\ g.todo = {}
      <4>1. Goto(t, "end")
        BY <2>1, <2>4
      <4>2. PICK g \in Frames :
              /\ Changes(t, Len(stack[t]) - 1, <<g>>)
              /\ g.at = "end" /\ g.f = Top(t).f /\ g.todo = Top(t).todo
        BY <1>1, <1>5, <4>1, Going
      <4>3. QED
        BY <1>2, <1>4, <4>2
    <3>2. TypeOK'
      BY <2>2, <3>1 DEF Changes
    <3>3. /\ g.at \notin ParentCalls \cup PreCalls \cup LoadCalls
          /\ \A C \in Roles : g.at \notin C
          /\ g.at \notin ReleaseCalls /\ Top(t).at \notin Disposer
          /\ Top(t).at \notin ClaimCalls /\ g.at \notin ClaimCalls
      BY <1>1, <1>5, <3>1, PlainCalls
    <3>4. FrameFacts(g)'
      BY <1>4, <2>2, <2>3, <3>1, <3>3, NewFacts
    <3>5. Driven(e)'
      <4>1. /\ \A C :
                 /\ Has(C, e) => Has(C, e)' \/ (Top(t).at \in C /\ g.at \notin C)
                 /\ Has(C, e)' => Has(C, e) \/ g.at \in C
            /\ \A a : Asks(a, e) =>
                 \/ Asks(a, e)'
                 \/ Top(t).at \in Releasing /\ g.at \notin Releasing
            /\ Top(t).at # "sweep" /\ g.at # "sweep" =>
                 \A f : Swept(f)' <=> Swept(f)
        BY <1>1, <1>2, <3>1, GoHas
      <4>2. /\ Has({"remove"}, e) => Has({"remove"}, e)'
            /\ Has({"attach", "install", "store"}, e) =>
                  Has({"attach", "install", "store"}, e)'
            /\ Has({"handle", "unlist"}, e) => Has({"handle", "unlist"}, e)'
            /\ Has({"attach", "install"}, e) => Has({"attach", "install"}, e)'
            /\ Has(ChildCalls, e)' => Has(ChildCalls, e)
            /\ Has({"request"}, e)' => Has({"request"}, e)
        BY <1>1, <3>1, <4>1 DEF ChildCalls
      <4>3. Swept(e)' <=> Swept(e)
        BY <1>1, <3>1, <4>1
      <4>4. QED
        BY <1>3, <1>4, <2>2, <2>4, <4>2, <4>3, DrivenKeeps
    <3>6. KeepsRecord(t, g.at)
      BY <2>2, <3>3 DEF KeepsRecord
    <3>7. QED
      BY <1>1, <1>2, <2>2, <3>1, <3>2, <3>3, <3>4, <3>5, <3>6, GoInvariant
  <2>5. CASE slot[e] # "none"
    <3>1. /\ TypeOK /\ stack[t] # <<>> /\ "end" \in Calls /\ "handle" \in Calls
          /\ Continue(t, Both("end", "handle", e))
      BY <1>1, <1>5, <2>1, <2>5 DEF Both
    <3>2. PICK c : \E g, h \in Frames :
            /\ Changes(t, Len(stack[t]) - 1, c) /\ IsPair(c, g, h)
            /\ IsCall(g, "end", e) /\ IsCall(h, "handle", e)
      BY <3>1, GoingAndCalling
    <3>3. PICK g \in Frames, h \in Frames :
            /\ Changes(t, Len(stack[t]) - 1, c) /\ IsPair(c, g, h)
            /\ g.at = "end" /\ g.f = e /\ g.todo = {}
            /\ h.at = "handle" /\ h.f = e /\ h.todo = {}
      BY <3>2 DEF IsCall
    <3>4. TypeOK'
      BY <2>2, <3>3 DEF Changes
    <3>5. /\ g.at \notin ParentCalls \cup PreCalls \cup LoadCalls
          /\ \A C \in Roles : g.at \notin C
          /\ g.at \notin ReleaseCalls
          /\ Top(t).at \notin Disposer \cup ClaimCalls /\ g.at \notin ClaimCalls
      BY <1>1, <1>5, <3>3, PlainCalls
    <3>6. /\ h.at \notin ParentCalls \cup PreCalls \cup LoadCalls \cup ClaimCalls
          /\ \A C \in Roles : h.at \notin C
          /\ h.at \notin ReleaseCalls
      BY <3>3 DEF ParentCalls, PreCalls, ChildCalls, LoadCalls, ClaimCalls, Roles,
                  ReleaseCalls
    <3>7. installed'[e] /\ disposed'[e]
      BY <1>3, <1>4, <2>2, <2>5 DEF EntryFacts
    <3>8. FrameFacts(g)' /\ FrameFacts(h)'
      <4>1. FrameFacts(g)'
        BY <1>4, <2>2, <2>3, <3>3, <3>5, NewFacts
      <4>2. FrameFacts(h)'
        BY <1>4, <2>2, <2>3, <3>3, <3>6, <3>7, NewFacts
      <4>3. QED
        BY <4>1, <4>2
    <3>9. Driven(e)'
      <4>1. /\ \A C :
                 /\ Has(C, e) => \/ Has(C, e)'
                                 \/ Top(t).at \in C /\ {g.at, h.at} \cap C = {}
                 /\ Has(C, e)' => Has(C, e) \/ g.at \in C \/ h.at \in C
                 /\ g.at \in C \/ h.at \in C => Has(C, e)'
            /\ "sweep" \notin {Top(t).at, g.at, h.at} =>
                 \A f : Swept(f)' <=> Swept(f)
        BY <1>1, <1>2, <3>3, CallHas
      <4>2. /\ Has({"remove"}, e) => Has({"remove"}, e)'
            /\ Has({"handle", "unlist"}, e)'
            /\ Has({"attach", "install"}, e) => Has({"attach", "install"}, e)'
            /\ Has({"request"}, e)' => Has({"request"}, e)
        BY <1>1, <3>3, <4>1
      <4>3. Swept(e)' <=> Swept(e)
        BY <1>1, <3>3, <4>1
      <4>4. QED
        BY <1>3, <1>4, <2>2, <4>2, <4>3 DEF Driven
    <3>10. QED
      BY <1>1, <1>2, <2>2, <3>3, <3>4, <3>5, <3>6, <3>8, <3>9, CallInvariant
  <2>6. QED
    BY <2>4, <2>5
<1>8. QED
  BY <1>6, <1>7


----------------------------------------------------------------------------
(* Kinds of step, by the place the call goes to. *)

\* A call at this place for f can begin.
CanBe(at, f) ==
    /\ at \in PreCalls => ~Known(f)' /\ ~installed'[f]
    /\ at \in LoadCalls => outcome'[f] = "none"
    /\ at \in PreCalls \cup {"request"} \/ Known(f)'
    /\ at \in {"store", "handle", "unlist", "once", "fromParent", "onceDone"} =>
         installed'[f]
    /\ at \in {"remove", "finalize", "handle", "unlist"} => disposed'[f]
    /\ at = "remove" => f \in attached'

LEMMA CallKnows ==
    ASSUME NEW g \in Frames, NEW at, NEW e \in Fibers,
           g.at = at, g.f = e, g.todo = {}, at \notin ParentCalls,
           e <= loads', CanBe(at, e)
    PROVE  FrameFacts(g)'
<1> HIDE DEF PreCalls, LoadCalls, ParentCalls
<1>1. /\ g.f \in Fibers /\ g.f <= loads' /\ g.at \notin ParentCalls
      /\ g.at \in PreCalls => ~Known(g.f)' /\ ~installed'[g.f]
      /\ g.at \in PreCalls \cup {"request"} \/ Known(g.f)'
  BY DEF CanBe, Known
<1>2. /\ g.at \in LoadCalls => outcome'[g.f] = "none"
      /\ g.at \in {"store", "handle", "unlist", "once", "fromParent",
                   "onceDone"} => installed'[g.f]
      /\ g.at \in {"remove", "finalize", "handle", "unlist"} => disposed'[g.f]
      /\ g.at = "remove" => g.f \in attached'
  BY DEF CanBe
<1>3. QED
  BY <1>1, <1>2, NewFacts

LEMMA GoneTo ==
    ASSUME TypeOK, NEW t \in Threads, stack[t] # <<>>, NEW at \in Calls,
           Goto(t, at), NEW e, Top(t).f = e
    PROVE  /\ \A C :
                /\ Has(C, e) => Has(C, e)' \/ (Top(t).at \in C /\ at \notin C)
                /\ Has(C, e)' => Has(C, e) \/ at \in C
                /\ at \in C => Has(C, e)'
           /\ \A a : Asks(a, e) =>
                \/ Asks(a, e)'
                \/ Top(t).at \in Releasing /\ at \notin Releasing
           /\ Top(t).at # "sweep" /\ at # "sweep" => \A f : Swept(f)' <=> Swept(f)
           /\ stack' \in [Threads -> Seq(Frames)]
<1>1. PICK g \in Frames :
        /\ Changes(t, Len(stack[t]) - 1, <<g>>)
        /\ g.at = at /\ g.f = Top(t).f /\ g.todo = Top(t).todo
  BY Going
<1>2. stack' \in [Threads -> Seq(Frames)]
  BY <1>1 DEF Changes
<1>3. QED
  BY <1>1, <1>2, GoHas

LEMMA Calling ==
    ASSUME TypeOK, NEW t \in Threads, stack[t] # <<>>,
           NEW at \in Calls, NEW call \in Calls, NEW e \in Fibers,
           Continue(t, Both(at, call, e)), Top(t).f = e
    PROVE  /\ \A C :
                /\ Has(C, e) => \/ Has(C, e)'
                                \/ Top(t).at \in C /\ {at, call} \cap C = {}
                /\ Has(C, e)' => Has(C, e) \/ at \in C \/ call \in C
                /\ at \in C \/ call \in C => Has(C, e)'
           /\ \A a : Asks(a, e) =>
                \/ Asks(a, e)'
                \/ Top(t).at \in Releasing /\ at \notin Releasing
           /\ call \in Releasing => Asks(at, e)'
           /\ "sweep" \notin {Top(t).at, at, call} =>
                \A f : Swept(f)' <=> Swept(f)
           /\ stack' \in [Threads -> Seq(Frames)]
<1>1. PICK c : \E g, h \in Frames :
         /\ Changes(t, Len(stack[t]) - 1, c) /\ IsPair(c, g, h)
         /\ IsCall(g, at, e) /\ IsCall(h, call, e)
  BY GoingAndCalling
<1>2. PICK g \in Frames, h \in Frames :
         /\ Changes(t, Len(stack[t]) - 1, c) /\ IsPair(c, g, h)
         /\ g.at = at /\ g.f = e /\ h.at = call /\ h.f = e
  BY <1>1 DEF IsCall
<1>3. stack' \in [Threads -> Seq(Frames)]
  BY <1>2 DEF Changes
<1>4. /\ \A C :
           /\ Has(C, e) => \/ Has(C, e)'
                           \/ Top(t).at \in C /\ {g.at, h.at} \cap C = {}
           /\ Has(C, e)' => Has(C, e) \/ g.at \in C \/ h.at \in C
           /\ g.at \in C \/ h.at \in C => Has(C, e)'
      /\ \A a : Asks(a, e) =>
           \/ Asks(a, e)'
           \/ Top(t).at \in Releasing /\ g.at \notin Releasing
      /\ h.at \in Releasing => Asks(g.at, e)'
      /\ "sweep" \notin {Top(t).at, g.at, h.at} => \A f : Swept(f)' <=> Swept(f)
  BY <1>2, CallHas
<1>5. QED
  BY <1>2, <1>3, <1>4

\* Who waits for a release of the fiber goes on waiting.
StillAsks(f) == \A a : Asks(a, f) => Asks(a, f)'

LEMMA CallingKeepsAsks ==
    ASSUME TypeOK, NEW t \in Threads, stack[t] # <<>>,
           NEW at \in Calls, NEW call \in Calls, NEW e \in Fibers,
           Continue(t, Both(at, call, e)), Top(t).f = e,
           Top(t).at \in Releasing => at \in Releasing
    PROVE  StillAsks(e)
<1>1. PICK c : \E g, h \in Frames :
         /\ Changes(t, Len(stack[t]) - 1, c) /\ IsPair(c, g, h)
         /\ IsCall(g, at, e) /\ IsCall(h, call, e)
  BY GoingAndCalling
<1>2. PICK g \in Frames, h \in Frames :
         /\ Changes(t, Len(stack[t]) - 1, c) /\ IsPair(c, g, h)
         /\ g.at = at /\ g.f = e /\ h.at = call /\ h.f = e
  BY <1>1 DEF IsCall
<1>3. \A a : Asks(a, e) =>
           \/ Asks(a, e)'
           \/ Top(t).at \in Releasing /\ g.at \notin Releasing
  BY <1>2, CallHas
<1>4. QED
  BY <1>2, <1>3 DEF StillAsks

LEMMA Returned ==
    ASSUME TypeOK, NEW t \in Threads, stack[t] # <<>>, Return(t),
           NEW e, Top(t).f = e
    PROVE  /\ \A C : /\ Has(C, e) => Has(C, e)' \/ Top(t).at \in C
                     /\ Has(C, e)' => Has(C, e)
           /\ \A a : Asks(a, e) => Asks(a, e)' \/ Top(t).at \in Releasing
           /\ Top(t).at # "sweep" => \A f : Swept(f)' <=> Swept(f)
           /\ stack' \in [Threads -> Seq(Frames)]
<1>1. Changes(t, Len(stack[t]) - 1, <<>>)
  BY Returning
<1>2. stack' \in [Threads -> Seq(Frames)]
  BY <1>1 DEF Changes
<1>3. QED
  BY <1>1, <1>2, ReturnHas

\* What a step for the fiber e leaves as it should be.
Keeps(t, e) == /\ Others(e) /\ EntryFacts(e)' /\ Driven(e)'
               /\ KeepsFrames(t, e) /\ KeepsTree(e)

LEMMA GoStep ==
    ASSUME AttachInv, NEW t \in Threads, stack[t] # <<>>, NEW at \in Calls,
           Goto(t, at), NEW e \in Fibers, Top(t).f = e, e <= loads,
           TypeOK', Keeps(t, e), CanBe(at, e),
           at \notin ParentCalls, at # "onceDone",
           \A C \in Roles : at \in C => Top(t).at \in C \/ ~Has(C, e),
           at \in ReleaseCalls => Top(t).at \in ReleaseCalls,
           Top(t).at \in Disposer => disposed'[e] \/ at \in Disposer,
           KeepsRecord(t, at) \/ RecordFits'
    PROVE  AttachInv'
<1>1. TypeOK /\ FrameFacts(Top(t)) /\ e # Parent
  BY TopFacts, FiberNumbers DEF AttachInv
<1>2. Top(t).todo = {}
  BY <1>1 DEF FrameFacts, ParentCalls
<1>3. PICK g \in Frames :
        /\ Changes(t, Len(stack[t]) - 1, <<g>>)
        /\ g.at = at /\ g.f = e /\ g.todo = {}
  BY <1>1, <1>2, Going
<1>4. loads \in Nat /\ loads' \in Nat /\ loads' >= loads /\ e \in Nat
  BY <1>1, FiberNumbers DEF TypeOK, Keeps, Others
<1>5. e <= loads'
  BY <1>4
<1>6. FrameFacts(g)'
  BY <1>3, <1>5, CallKnows
<1>7. QED
  BY <1>3, <1>6, GoInvariant DEF Keeps

LEMMA CallStep ==
    ASSUME AttachInv, NEW t \in Threads, stack[t] # <<>>,
           NEW at \in Calls, NEW call \in Calls, NEW e \in Fibers,
           Continue(t, Both(at, call, e)), Top(t).f = e, e <= loads,
           TypeOK', Keeps(t, e), CanBe(at, e), CanBe(call, e),
           at \notin ParentCalls, call \notin ParentCalls, call # "onceDone",
           \A C \in Roles : call \notin C /\ (at \in C => Top(t).at \in C),
           at \notin ReleaseCalls,
           call \in ReleaseCalls =>
              \/ parent' # "open" /\ e \notin tree'
              \/ at = "unlist" \/ Top(t).at \in ReleaseCalls,
           at = "onceDone" => call \in Disposer,
           Top(t).at \notin Disposer \cup ClaimCalls,
           {at, call} \cap ClaimCalls = {},
           UNCHANGED <<runtime, runtimes, claims, attached>>
    PROVE  AttachInv'
<1>1. TypeOK
  BY DEF AttachInv
<1>2. PICK c : \E g, h \in Frames :
         /\ Changes(t, Len(stack[t]) - 1, c) /\ IsPair(c, g, h)
         /\ IsCall(g, at, e) /\ IsCall(h, call, e)
  BY <1>1, GoingAndCalling
<1>3. PICK g \in Frames, h \in Frames :
         /\ Changes(t, Len(stack[t]) - 1, c) /\ IsPair(c, g, h)
         /\ g.at = at /\ g.f = e /\ g.todo = {}
         /\ h.at = call /\ h.f = e /\ h.todo = {}
  BY <1>2 DEF IsCall
<1>4. loads \in Nat /\ loads' \in Nat /\ loads' >= loads /\ e \in Nat
  BY <1>1, FiberNumbers DEF TypeOK, Keeps, Others
<1>5. e <= loads'
  BY <1>4
<1>6. FrameFacts(g)' /\ FrameFacts(h)'
  <2>1. FrameFacts(g)'
    BY <1>3, <1>5, CallKnows
  <2>2. FrameFacts(h)'
    BY <1>3, <1>5, CallKnows
  <2>3. QED
    BY <2>1, <2>2
<1>7. QED
  BY <1>3, <1>6, CallInvariant DEF Keeps

LEMMA ReturnStep ==
    ASSUME AttachInv, NEW t \in Threads, stack[t] # <<>>, Return(t),
           NEW e \in Fibers, Top(t).f = e, TypeOK', Keeps(t, e),
           Top(t).at \in Disposer => disposed'[e],
           (Top(t).at \notin ClaimCalls /\
              UNCHANGED <<runtime, runtimes, claims, attached>>) \/ RecordFits'
    PROVE  AttachInv'
<1>1. Changes(t, Len(stack[t]) - 1, <<>>)
  BY Returning DEF AttachInv
<1>2. QED
  BY <1>1, ReturnInvariant DEF Keeps

\* Of the calls of a role, the fiber has the one on top only.
LEMMA OnlyCall ==
    ASSUME AttachInv, NEW t \in Threads, stack[t] # <<>>, NEW C \in Roles,
           Top(t).at \in C, NEW D, D \subseteq C, Top(t).at \notin D
    PROVE  ~Has(D, Top(t).f)
<1>1. TypeOK /\ OneInRole
  BY DEF AttachInv
<1>2. Len(stack[t]) \in 1..Len(stack[t]) /\ Top(t) = stack[t][Len(stack[t])]
  BY <1>1, TopTyping
<1> SUFFICES ASSUME NEW u \in Threads, NEW i \in 1..Len(stack[u]),
                    stack[u][i].at \in D, stack[u][i].f = Top(t).f
             PROVE  FALSE
  BY DEF Has
<1>3. u = t /\ i = Len(stack[t])
  BY <1>1, <1>2 DEF OneInRole
<1>4. QED
  BY <1>2, <1>3

LEMMA HasGone ==
    ASSUME AttachInv, NEW t \in Threads, stack[t] # <<>>, NEW C \in Roles,
           Top(t).at \in C, NEW D, D \subseteq C,
           NEW c, Changes(t, Len(stack[t]) - 1, c),
           NEW f, Top(t).f = f, ~Brings(c, D, f)
    PROVE  ~Has(D, f)'
<1> DEFINE k == Len(stack[t]) - 1
<1>1. TypeOK /\ OneInRole
  BY DEF AttachInv
<1>2. /\ Len(stack[t]) \in 1..Len(stack[t]) /\ Top(t) = stack[t][Len(stack[t])]
      /\ Len(stack[t]) \in Nat \ {0} /\ Len(stack[t]) \notin 1..k
  BY <1>1, TopTyping
<1> HIDE DEF k
<1>3. Changes(t, k, c)
  BY DEF k
<1>4. ASSUME NEW u \in Threads, NEW i \in 1..Len(stack'[u]),
             stack'[u][i].at \in D, stack'[u][i].f = f
      PROVE  FALSE
  <2>1. CASE /\ i \in 1..Len(stack[u]) /\ stack'[u][i] = stack[u][i]
             /\ u = t => i \in 1..k
    <3>1. u = t /\ i = Len(stack[t])
      BY <1>1, <1>2, <1>4, <2>1 DEF OneInRole
    <3>2. QED
      BY <1>2, <2>1, <3>1
  <2>2. CASE i - k \in 1..Len(c) /\ stack'[u][i] = c[i - k]
    BY <1>4, <2>2 DEF Brings
  <2>3. QED
    BY <1>1, <1>3, <2>1, <2>2, OldOrNew
<1>5. ~Has(D, f)'
  BY <1>4 DEF Has
<1>6. QED
  BY <1>5

LEMMA TypeConstants ==
    /\ Fibers' = Fibers /\ Runtimes' = Runtimes /\ Frames' = Frames
    /\ Links' = Links /\ OnceStates' = OnceStates /\ NoRuntime' = NoRuntime
  BY DEF Frames, Calls, Links, OnceStates, Runtimes, NoRuntime, Fibers, Parent

----------------------------------------------------------------------------
(* Disposal of a fiber. *)

LEMMA MarkDisposedStep ==
    ASSUME AttachInv, NEW t \in Threads, MarkDisposed(t)
    PROVE  AttachInv'
<1>1. TypeOK /\ stack[t] # <<>> /\ Top(t).at = "dispose"
  BY DEF AttachInv, MarkDisposed, In
<1>2. PICK e \in Fibers : e = Top(t).f
  BY <1>1, TopFacts DEF ParentCalls
<1>3. FrameFacts(Top(t)) /\ EntryFacts(e) /\ Driven(e)
  BY <1>1, <1>2, TopFacts DEF ParentCalls
<1>4. e <= loads /\ Known(e)
  BY <1>1, <1>2, <1>3
     DEF FrameFacts, UnknownCalls, PreCalls, ParentCalls
<1>5. Top(t).at \notin ClaimCalls \cup Releasing \cup ChildCalls
  BY <1>1 DEF ClaimCalls, Releasing, ChildCalls
<1>6. CASE disposed[e]
  <2>1. UNCHANGED <<disposed, dirty>> /\ Return(t)
        /\ UNCHANGED <<registry, busy, state, links, entry, parent>>
    BY <1>2, <1>6 DEF MarkDisposed
  <2>2. DriverFields(e)
    BY <2>1 DEF DriverFields
  <2>3. /\ Others(e) /\ EntryFacts(e)' /\ KeepsFrames(t, e) /\ KeepsTree(e)
        /\ UNCHANGED <<runtime, runtimes, claims, attached>>
    BY <1>1, <1>3, <2>2, DriverKeeps
  <2>4. /\ \A C : /\ Has(C, e) => Has(C, e)' \/ Top(t).at \in C
                  /\ Has(C, e)' => Has(C, e)
        /\ \A a : Asks(a, e) => Asks(a, e)' \/ Top(t).at \in Releasing
        /\ Top(t).at # "sweep" => \A f : Swept(f)' <=> Swept(f)
        /\ stack' \in [Threads -> Seq(Frames)]
    BY <1>1, <1>2, <2>1, Returned
  <2>5. TypeOK'
    <3>1. busy' \in [Fibers -> BOOLEAN] /\ dirty' \in [Fibers -> BOOLEAN]
          /\ state' \in [Fibers -> {"pending", "active", "disposed"}]
      BY <1>1, <2>1 DEF TypeOK
    <3>2. QED
      BY <1>1, <2>2, <2>4, <3>1, PlainTypes
  <2>6. Driven(e)'
    <3>1. /\ Has({"remove"}, e) => Has({"remove"}, e)'
          /\ Has({"attach", "install", "store"}, e) =>
                Has({"attach", "install", "store"}, e)'
          /\ Has({"handle", "unlist"}, e) => Has({"handle", "unlist"}, e)'
          /\ Has({"attach", "install"}, e) => Has({"attach", "install"}, e)'
          /\ Has(ChildCalls, e)' => Has(ChildCalls, e)
          /\ Has({"request"}, e)' => Has({"request"}, e)
          /\ Swept(e)' <=> Swept(e)
      BY <1>1, <2>4
    <3>2. UNCHANGED <<attached, disposed, tree, slot, installed, deferred, outcome>>
      BY <2>1 DEF registry, links, entry
    <3>3. QED
      BY <1>3, <1>6, <3>1, <3>2, DrivenKeeps
  <2>7. Keeps(t, e)
    BY <2>3, <2>6 DEF Keeps
  <2>8. QED
    BY <1>1, <1>2, <1>5, <1>6, <2>1, <2>3, <2>5, <2>7, ReturnStep
<1>7. CASE ~disposed[e]
  <2>1. /\ disposed' = [disposed EXCEPT ![e] = TRUE]
        /\ dirty' = [dirty EXCEPT ![e] = TRUE]
        /\ Goto(t, "remove")
        /\ UNCHANGED <<registry, busy, state, links, entry, parent>>
    BY <1>2, <1>7 DEF MarkDisposed
  <2>2. /\ UNCHANGED <<loads, runtime, runtimes, claims, attached, outcome>>
        /\ UNCHANGED <<slot, handle, busy, state, parent>>
        /\ UNCHANGED <<tree, installed, deferred, once, handleOnce>>
    BY <2>1 DEF registry, links, entry
  <2>3. /\ disposed' \in [Fibers -> BOOLEAN] /\ dirty' \in [Fibers -> BOOLEAN]
        /\ disposed'[e] = TRUE
        /\ \A f \in Fibers : f # e => disposed'[f] = disposed[f]
        /\ loads' >= loads
    BY <1>1, <2>1, <2>2 DEF TypeOK
  <2>4. "remove" \in Calls
    BY DEF Calls
  <2>5. /\ \A C :
             /\ Has(C, e) => Has(C, e)' \/ (Top(t).at \in C /\ "remove" \notin C)
             /\ Has(C, e)' => Has(C, e) \/ "remove" \in C
             /\ "remove" \in C => Has(C, e)'
        /\ Top(t).at # "sweep" /\ "remove" # "sweep" =>
             \A f : Swept(f)' <=> Swept(f)
        /\ stack' \in [Threads -> Seq(Frames)]
    BY <1>1, <1>2, <2>1, <2>4, GoneTo
  <2>6. TypeOK'
    <3> HIDE DEF Frames, Links, OnceStates, Runtimes, Fibers, NoRuntime
    <3>1. QED
      BY <1>1, <2>2, <2>3, <2>5, TypeConstants DEF TypeOK
  <2>7. Others(e)
    BY <2>2, <2>3 DEF Others, SameFiber
  <2>8. EntryFacts(e)'
    BY <1>3, <2>2, <2>3, <1>4 DEF EntryFacts, Known
  <2>9. KeepsFrames(t, e) /\ KeepsTree(e)
    BY <1>4, <2>2, <2>3 DEF KeepsFrames, Known, KeepsTree
  <2>10. Driven(e)'
    <3>1. /\ Has({"remove"}, e)'
          /\ Has({"attach", "install", "store"}, e) =>
                Has({"attach", "install", "store"}, e)'
          /\ Has({"handle", "unlist"}, e) => Has({"handle", "unlist"}, e)'
          /\ Has({"attach", "install"}, e) => Has({"attach", "install"}, e)'
          /\ Has({"request"}, e)' => Has({"request"}, e)
          /\ Swept(e)' <=> Swept(e)
      BY <1>1, <2>5
    <3>2. QED
      BY <1>3, <2>2, <2>3, <3>1 DEF Driven
  <2>11. Keeps(t, e)
    BY <2>7, <2>8, <2>9, <2>10 DEF Keeps
  <2>12. CanBe("remove", e)
    BY <1>4, <1>7, <2>2, <2>3 DEF CanBe, Known, PreCalls, LoadCalls, ChildCalls
  <2>13. /\ "remove" \notin ParentCalls \cup ReleaseCalls \cup ClaimCalls
         /\ \A C \in Roles : "remove" \in C => ~Has(C, e)
    <3>1. ~Has({"remove"}, e)
      BY <1>7, NoSuchCall
    <3>2. QED
      BY <3>1 DEF ParentCalls, ReleaseCalls, ClaimCalls, Roles, LoadCalls, PreCalls,
                  ChildCalls
  <2>14. KeepsRecord(t, "remove")
    BY <1>5, <2>2, <2>13 DEF KeepsRecord
  <2>15. QED
    BY <1>1, <1>2, <1>4, <2>1, <2>3, <2>4, <2>6, <2>11, <2>12, <2>13, <2>14, GoStep
<1>8. QED
  BY <1>6, <1>7

\* A record that nobody needs leaves the registry.
LEMMA RecordReleased ==
    ASSUME NEW r \in Runtimes, r = runtimes,
           runtime' = runtime, IsFiniteSet(Claimants'),
           \A f \in attached' \cup Claimants' : runtime[f] = r,
           \A s \in Runtimes :
               claims'[s] = Cardinality({f \in Claimants' : runtime[f] = s}),
           runtimes' = IF Unused(r, claims', attached') THEN NoRuntime ELSE runtimes
    PROVE  RecordFits'
<1>1. {f \in Claimants' : runtime[f] = r} = Claimants'
  OBVIOUS
<1>2. claims'[r] = Cardinality(Claimants') /\ r # NoRuntime /\ Runtimes' = Runtimes
  BY <1>1 DEF Runtimes, NoRuntime, Fibers
<1>3. Cardinality(Claimants') = 0 <=> Claimants' = {}
  BY FS_EmptySet
<1>4. CASE Unused(r, claims', attached')
  <2>1. attached' = {} /\ Claimants' = {} /\ runtimes' = NoRuntime
    BY <1>2, <1>3, <1>4 DEF Unused
  <2>2. \A s \in Runtimes' :
          claims'[s] = Cardinality({f \in Claimants' : runtime'[f] = s})
    BY <1>2
  <2>3. QED
    BY <2>1, <2>2 DEF RecordFits, OneRuntime
<1>5. CASE ~Unused(r, claims', attached')
  <2>1. attached' \cup Claimants' # {} /\ runtimes' = r
    BY <1>2, <1>3, <1>5 DEF Unused
  <2>2. \A s \in Runtimes' :
          claims'[s] = Cardinality({f \in Claimants' : runtime'[f] = s})
    BY <1>2
  <2>3. NoRuntime' = NoRuntime
    BY DEF NoRuntime
  <2> HIDE DEF NoRuntime
  <2>4. QED
    BY <1>2, <2>1, <2>2, <2>3 DEF RecordFits, OneRuntime
<1>6. QED
  BY <1>4, <1>5

LEMMA ClaimantsFinite == IsFiniteSet(Claimants) /\ IsFiniteSet(Claimants')
<1>1. IsFiniteSet(Fibers)
  BY FS_Interval DEF Fibers
<1>2. Claimants \subseteq Fibers /\ Claimants' \subseteq Fibers
  BY ClaimantsHave, ClaimantsHaveNext
<1>3. QED
  BY <1>1, <1>2, FS_Subset

LEMMA RemoveFiberStep ==
    ASSUME AttachInv, NEW t \in Threads, RemoveFiber(t)
    PROVE  AttachInv'
<1>1. TypeOK /\ stack[t] # <<>> /\ Top(t).at = "remove"
  BY DEF AttachInv, RemoveFiber, In
<1>2. PICK e \in Fibers : e = Top(t).f
  BY <1>1, TopFacts DEF ParentCalls
<1>3. FrameFacts(Top(t)) /\ EntryFacts(e) /\ Driven(e)
  BY <1>1, <1>2, TopFacts DEF ParentCalls
<1>4. e <= loads /\ Known(e) /\ disposed[e] /\ e \in attached
  BY <1>1, <1>2, <1>3 DEF FrameFacts, Known
<1>5. /\ attached' = attached \ {e}
      /\ runtimes' = IF Unused(runtime[e], claims, attached')
                     THEN NoRuntime ELSE runtimes
      /\ Goto(t, "refresh")
      /\ UNCHANGED <<loads, runtime, claims, outcome, driver, links, entry, parent>>
  BY <1>2 DEF RemoveFiber
<1>6. /\ UNCHANGED <<loads, runtime, claims, outcome, parent>>
      /\ UNCHANGED <<disposed, busy, dirty, state, slot, handle>>
      /\ UNCHANGED <<tree, installed, deferred, once, handleOnce>>
  BY <1>5 DEF driver, links, entry
<1>7. loads' >= loads
  BY <1>1, <1>6 DEF TypeOK
<1>8. "refresh" \in Calls
  BY DEF Calls
<1>9. /\ \A C :
           /\ Has(C, e) => Has(C, e)' \/ (Top(t).at \in C /\ "refresh" \notin C)
           /\ Has(C, e)' => Has(C, e) \/ "refresh" \in C
      /\ Top(t).at # "sweep" /\ "refresh" # "sweep" =>
           \A f : Swept(f)' <=> Swept(f)
      /\ stack' \in [Threads -> Seq(Frames)]
  BY <1>1, <1>2, <1>5, <1>8, GoneTo
<1>10. runtimes' \in {runtimes, NoRuntime}
  BY <1>5
<1>11. TypeOK'
  <2> HIDE DEF Frames, Links, OnceStates, Runtimes, Fibers, NoRuntime
  <2>1. QED
    BY <1>1, <1>5, <1>6, <1>9, <1>10, TypeConstants DEF TypeOK
<1>12. Others(e)
  BY <1>5, <1>6, <1>7 DEF Others, SameFiber
<1>13. EntryFacts(e)'
  BY <1>3, <1>4, <1>5, <1>6 DEF EntryFacts, Known
<1>14. KeepsFrames(t, e) /\ KeepsTree(e)
  BY <1>1, <1>4, <1>6 DEF KeepsFrames, Known, KeepsTree
<1>15. Driven(e)'
  <2>1. /\ Has({"attach", "install", "store"}, e) =>
              Has({"attach", "install", "store"}, e)'
        /\ Has({"handle", "unlist"}, e) => Has({"handle", "unlist"}, e)'
        /\ Has({"attach", "install"}, e) => Has({"attach", "install"}, e)'
        /\ Has({"request"}, e)' => Has({"request"}, e)
        /\ Swept(e)' <=> Swept(e)
    BY <1>1, <1>9
  <2>2. QED
    BY <1>3, <1>4, <1>5, <1>6, <2>1 DEF Driven
<1>16. Keeps(t, e)
  BY <1>12, <1>13, <1>14, <1>15 DEF Keeps
<1>17. CanBe("refresh", e)
  BY <1>4, <1>6 DEF CanBe, Known, PreCalls, LoadCalls, ChildCalls
<1>18. /\ "refresh" \notin ParentCalls \cup ReleaseCalls \cup ClaimCalls
       /\ \A C \in Roles : "refresh" \notin C
       /\ Top(t).at \notin Disposer \cup ClaimCalls
  BY <1>1 DEF ParentCalls, ReleaseCalls, ClaimCalls, Roles, LoadCalls, PreCalls,
              ChildCalls, Disposer
<1>19. RecordFits'
  <2>1. Claimants' = Claimants
    <3>1. PICK c : \E g \in Frames :
            c = <<g>> /\ Len(c) = 1 /\ c[1] = g /\ g.f = e /\ g.at = "refresh"
            /\ Changes(t, Len(stack[t]) - 1, c)
      <4>1. PICK g \in Frames :
              /\ Changes(t, Len(stack[t]) - 1, <<g>>)
              /\ g.at = "refresh" /\ g.f = Top(t).f
        BY <1>1, <1>5, <1>8, Going
      <4>2. PICK c : c = <<g>> /\ Len(c) = 1 /\ c[1] = g
        BY Single
      <4>3. QED
        BY <1>2, <4>1, <4>2
    <3>2. IsFor(t, Len(stack[t]) - 1, c, e)
      BY <1>2, <3>1 DEF IsFor
    <3>3. \A f \in Fibers : f # e => (Has(ClaimCalls, f)' <=> Has(ClaimCalls, f))
      BY <1>1, <3>1, <3>2, HasOthers
    <3>4. Has(ClaimCalls, e)' <=> Has(ClaimCalls, e)
      BY <1>9, <1>18
    <3>5. QED
      BY <3>3, <3>4, ClaimantsHave, ClaimantsHaveNext
  <2>2. RecordFits
    BY DEF AttachInv
  <2>3. PICK r \in Runtimes : r = runtime[e] /\ r = runtimes
    <3>1. runtime[e] = runtimes /\ runtimes # NoRuntime
      BY <1>4, <2>2 DEF RecordFits, OneRuntime
    <3>2. QED
      BY <1>1, <3>1 DEF TypeOK
  <2>4. /\ \A f \in attached' \cup Claimants' : runtime[f] = r
        /\ \A s \in Runtimes :
             claims'[s] = Cardinality({f \in Claimants' : runtime[f] = s})
    BY <1>5, <1>6, <2>1, <2>2, <2>3 DEF RecordFits, OneRuntime
  <2>5. runtimes' = IF Unused(r, claims', attached') THEN NoRuntime ELSE runtimes
    BY <1>5, <1>6, <2>3
  <2>6. QED
    BY <1>6, <2>3, <2>4, <2>5, ClaimantsFinite, RecordReleased
<1>20. QED
  BY <1>1, <1>2, <1>4, <1>5, <1>8, <1>11, <1>16, <1>17, <1>18, <1>19, GoStep

----------------------------------------------------------------------------
(* Calls from outside. *)

LEMMA StartStep ==
    ASSUME AttachInv, NEW t \in Threads, stack[t] = <<>>, NEW at \in Calls,
           NEW e \in Fibers, Start(t, at, e), e <= loads',
           Others(e), TypeOK', EntryFacts(e)', Driven(e)', KeepsTree(e),
           CanBe(at, e),
           (\A C : ~Has(C, e)) \/ UNCHANGED <<registry, driver, links, entry, parent>>,
           at \notin ParentCalls \cup ReleaseCalls \cup ClaimCalls,
           at # "onceDone",
           \A C \in Roles : at \in C => ~Has(C, e),
           UNCHANGED <<runtime, runtimes, claims, attached>>
    PROVE  AttachInv'
<1>1. TypeOK /\ RecordFits /\ e \in Fibers \cup {Parent} /\ e # Parent
  BY FiberNumbers DEF AttachInv
<1>2. PICK g \in Frames :
        Changes(t, Len(stack[t]), <<g>>) /\ IsCall(g, at, e)
  BY <1>1, Starting
<1>3. /\ Changes(t, Len(stack[t]), <<g>>)
      /\ g.at = at /\ g.f = e /\ g.todo = {}
  BY <1>2 DEF IsCall
<1>4. PICK c : c = <<g>> /\ Len(c) = 1 /\ c[1] = g
  BY Single
<1> DEFINE k == Len(stack[t])
<1>5. Changes(t, k, c)
  BY <1>3, <1>4
<1>6. 1 \in 1..Len(c) /\ \A i \in 1..Len(c) : i = 1 /\ c[i] = g
  BY <1>4
<1>7. ~(k < Len(stack[t]))
  BY <1>1, Typing
<1> HIDE DEF k
<1>8. FrameFacts(g)'
  BY <1>3, CallKnows
<1>9. IsFor(t, k, c, e)
  BY <1>3, <1>6, <1>7 DEF IsFor
<1>10. \A i \in 1..Len(c) : FrameFacts(c[i])'
  <2> TAKE i \in 1..Len(c)
  <2>1. c[i] = g
    BY <1>6
  <2>2. QED
    BY <1>8, <2>1
<1>11. \A h \in Frames :
          Has({h.at}, e) /\ FrameFacts(h) /\ h.f = e /\ Apart(t, k, h)
            => FrameFacts(h)'
  <2> SUFFICES ASSUME NEW h \in Frames, Has({h.at}, e), FrameFacts(h)
               PROVE  FrameFacts(h)'
    OBVIOUS
  <2>1. UNCHANGED <<registry, driver, links, entry, parent>>
    OBVIOUS
  <2>2. UNCHANGED <<loads, attached, disposed, installed, outcome, parent, tree>>
    BY <2>1 DEF registry, driver, entry
  <2>3. PreCalls' = PreCalls /\ LoadCalls' = LoadCalls
        /\ ParentCalls' = ParentCalls /\ UnknownCalls' = UnknownCalls
    BY DEF PreCalls, LoadCalls, ChildCalls, ParentCalls, UnknownCalls
  <2> HIDE DEF PreCalls, LoadCalls, ParentCalls, UnknownCalls
  <2>4. QED
    BY <2>2, <2>3 DEF FrameFacts, Known
<1>12. TakesRoles(t, k, c)
  BY <1>3, <1>6 DEF TakesRoles
<1>13. AsksFor(t, k, c) /\ DisposesOn(t, k, c)
  BY <1>3, <1>6, <1>7 DEF AsksFor, DisposesOn
<1>14. \A f : Swept(f)' <=> Swept(f)
  <2>1. g.at # "sweep"
    BY <1>3 DEF ParentCalls
  <2>2. QED
    BY <1>1, <1>5, <1>6, <1>7, <2>1, SweptSteps
<1>15. StaysListed(e)
  BY <1>14 DEF StaysListed, KeepsTree
<1>16. RecordFits'
  <2>1. ~Brings(c, ClaimCalls, e)
    BY <1>3, <1>6 DEF Brings
  <2>2. ~Drops(t, k, ClaimCalls, e)
    BY <1>7 DEF Drops
  <2>3. Has(ClaimCalls, e)' <=> Has(ClaimCalls, e)
    BY <1>1, <1>5, <2>1, <2>2, HasSteps
  <2>4. \A f \in Fibers : f # e => (Has(ClaimCalls, f)' <=> Has(ClaimCalls, f))
    BY <1>1, <1>5, <1>9, HasOthers
  <2>5. QED
    BY <1>1, <2>3, <2>4, RuntimeStays
<1>17. parent' = "torn" => tree' = {}
  BY <1>1 DEF AttachInv, TypeOK, Others
<1>18. QED
  BY <1>5, <1>9, <1>10, <1>11, <1>12, <1>13, <1>15, <1>16, <1>17, StepInvariant

\* A call from outside adds to the calls under way.
LEMMA Started ==
    ASSUME TypeOK, NEW t \in Threads, stack[t] = <<>>, NEW at \in Calls,
           NEW e \in Fibers, Start(t, at, e)
    PROVE  /\ \A C : /\ Has(C, e) => Has(C, e)'
                     /\ Has(C, e)' => Has(C, e) \/ at \in C
           /\ \A a : Asks(a, e) => Asks(a, e)'
           /\ at # "sweep" => \A f : Swept(f)' <=> Swept(f)
           /\ stack' \in [Threads -> Seq(Frames)]
<1>1. PICK g \in Frames :
        Changes(t, Len(stack[t]), <<g>>) /\ IsCall(g, at, e)
  BY Starting
<1>2. /\ Changes(t, Len(stack[t]), <<g>>)
      /\ g.at = at /\ g.f = e /\ g.todo = {}
  BY <1>1 DEF IsCall
<1>3. PICK c : c = <<g>> /\ Len(c) = 1 /\ c[1] = g
  BY Single
<1> DEFINE k == Len(stack[t])
<1>4. Changes(t, k, c) /\ stack' \in [Threads -> Seq(Frames)]
  BY <1>2, <1>3 DEF Changes
<1>5. 1 \in 1..Len(c) /\ \A i \in 1..Len(c) : i = 1 /\ c[i] = g
  BY <1>3
<1>6. ~(k < Len(stack[t]))
  BY Typing
<1> HIDE DEF k
<1>7. \A C : (Brings(c, C, e) => at \in C) /\ ~Drops(t, k, C, e)
  BY <1>2, <1>5, <1>6 DEF Brings, Drops
<1>8. /\ \A C : /\ Has(C, e) => Has(C, e)'
                /\ Has(C, e)' => Has(C, e) \/ at \in C
  BY <1>4, <1>7, HasSteps
<1>9. \A a : Asks(a, e) => Asks(a, e)'
  BY <1>4, <1>7, AsksSteps
<1>10. at # "sweep" => \A f : Swept(f)' <=> Swept(f)
  BY <1>2, <1>4, <1>5, <1>6, SweptSteps
<1>11. QED
  BY <1>4, <1>8, <1>9, <1>10

LEMMA DisposeFiberStep ==
    ASSUME AttachInv, NEW t \in Threads, NEW e \in Fibers, DisposeFiber(t, e)
    PROVE  AttachInv'
<1>1. /\ TypeOK /\ EntryFacts(e) /\ Driven(e) /\ stack[t] = <<>>
      /\ e \in attached /\ Start(t, "dispose", e)
      /\ UNCHANGED <<registry, driver, links, entry, parent>>
  BY DEF AttachInv, EntriesFit, AllDriven, DisposeFiber
<1>2. /\ UNCHANGED <<loads, runtime, runtimes, claims, attached, outcome>>
      /\ UNCHANGED <<disposed, slot, tree, installed, deferred>>
      /\ UNCHANGED <<busy, dirty, state>>
  BY <1>1 DEF registry, driver, links, entry
<1>3. "dispose" \in Calls
  BY DEF Calls
<1>4. /\ \A C : /\ Has(C, e) => Has(C, e)'
                /\ Has(C, e)' => Has(C, e) \/ "dispose" \in C
      /\ \A a : Asks(a, e) => Asks(a, e)'
      /\ "dispose" # "sweep" => \A f : Swept(f)' <=> Swept(f)
      /\ stack' \in [Threads -> Seq(Frames)]
  BY <1>1, <1>3, Started
<1>5. DriverFields(e)
  BY <1>1, <1>2 DEF DriverFields, driver
<1>6. Others(e) /\ EntryFacts(e)' /\ KeepsTree(e)
  BY <1>1, <1>5, DriverKeeps
<1>7. TypeOK'
  <2>1. /\ busy' \in [Fibers -> BOOLEAN] /\ dirty' \in [Fibers -> BOOLEAN]
        /\ state' \in [Fibers -> {"pending", "active", "disposed"}]
    BY <1>1, <1>2 DEF TypeOK
  <2>2. QED
    BY <1>1, <1>4, <1>5, <2>1, PlainTypes
<1>8. Driven(e)'
  <2>1. /\ Has({"remove"}, e) => Has({"remove"}, e)'
        /\ Has({"attach", "install", "store"}, e) =>
              Has({"attach", "install", "store"}, e)'
        /\ Has({"handle", "unlist"}, e) => Has({"handle", "unlist"}, e)'
        /\ Has({"attach", "install"}, e) => Has({"attach", "install"}, e)'
        /\ Has(ChildCalls, e)' => Has(ChildCalls, e)
        /\ Has({"request"}, e)' => Has({"request"}, e)
        /\ Swept(e)' <=> Swept(e)
    BY <1>4 DEF ChildCalls
  <2>2. QED
    BY <1>1, <1>2, <1>4, <2>1, DrivenKeeps
<1>9. e <= loads' /\ CanBe("dispose", e)
  <2>1. loads \in Nat /\ e \in Nat
    BY <1>1, FiberNumbers DEF TypeOK
  <2>2. QED
    BY <1>1, <1>2, <2>1 DEF EntryFacts, CanBe, Known, PreCalls, LoadCalls, ChildCalls
<1>10. /\ "dispose" \notin ParentCalls \cup ReleaseCalls \cup ClaimCalls
       /\ \A C \in Roles : "dispose" \notin C
  BY DEF ParentCalls, ReleaseCalls, ClaimCalls, Roles, LoadCalls, PreCalls, ChildCalls
<1>11. QED
  BY <1>1, <1>2, <1>3, <1>6, <1>7, <1>8, <1>9, <1>10, StartStep

LEMMA LoadStep ==
    ASSUME AttachInv, NEW t \in Threads, Load(t)
    PROVE  AttachInv'
<1>1. /\ TypeOK /\ stack[t] = <<>> /\ loads < MaxFibers /\ loads' = loads + 1
      /\ Start(t, "load", loads + 1)
      /\ UNCHANGED <<runtime, runtimes, claims, attached, outcome, driver, links,
                     entry, parent>>
  BY DEF AttachInv, Load
<1>2. PICK e \in Fibers : e = loads + 1 /\ e > loads /\ e <= loads' /\ loads' >= loads
                          /\ loads' \in 0..MaxFibers /\ loads \in Nat
  BY <1>1 DEF TypeOK, Fibers
<1>3. /\ UNCHANGED <<runtime, runtimes, claims, attached, outcome, parent>>
      /\ UNCHANGED <<disposed, busy, dirty, state, slot, handle>>
      /\ UNCHANGED <<tree, installed, deferred, once, handleOnce>>
  BY <1>1 DEF driver, links, entry
<1>4. EntryFacts(e) /\ CallsFit
  BY DEF AttachInv, EntriesFit
<1>5. \A C : ~Has(C, e)
  BY <1>2, NoSuchCall
<1>6. "load" \in Calls
  BY DEF Calls
<1>7. /\ \A C : Has(C, e)' => Has(C, e) \/ "load" \in C
      /\ "load" # "sweep" => \A f : Swept(f)' <=> Swept(f)
      /\ stack' \in [Threads -> Seq(Frames)]
  BY <1>1, <1>2, <1>6, Started
<1>8. ~Swept(e)
  <2> SUFFICES ASSUME NEW u \in Threads, NEW i \in 1..Len(stack[u]),
                      e \in stack[u][i].todo
               PROVE  FALSE
    BY DEF Swept
  <2>1. e <= loads /\ e \in Nat
    BY <1>4, FiberNumbers DEF CallsFit, FrameFacts
  <2>2. QED
    BY <1>2, <2>1
<1>9. TypeOK'
  <2> HIDE DEF Frames, Links, OnceStates, Runtimes, Fibers, NoRuntime
  <2>1. QED
    BY <1>1, <1>2, <1>3, <1>7, TypeConstants DEF TypeOK
<1>10. Others(e) /\ KeepsTree(e)
  BY <1>2, <1>3 DEF Others, SameFiber, KeepsTree
<1>11. EntryFacts(e)'
  BY <1>2, <1>3, <1>4 DEF EntryFacts, Known
<1>12. Driven(e)'
  <2>1. ~Has(ChildCalls, e)' /\ ~Has({"request"}, e)' /\ ~Swept(e)'
    BY <1>5, <1>7, <1>8 DEF ChildCalls
  <2>2. ChildCalls' = ChildCalls
    BY DEF ChildCalls
  <2> HIDE DEF ChildCalls
  <2>3. QED
    BY <1>2, <1>3, <1>4, <2>1, <2>2 DEF Driven, EntryFacts
<1>13. CanBe("load", e)
  BY <1>2, <1>3, <1>4 DEF EntryFacts, CanBe, Known, PreCalls
<1>14. "load" \notin ParentCalls \cup ReleaseCalls \cup ClaimCalls
  BY DEF ParentCalls, ReleaseCalls, ClaimCalls
<1>15. QED
  BY <1>1, <1>2, <1>3, <1>5, <1>6, <1>9, <1>10, <1>11, <1>12, <1>13, <1>14, StartStep

----------------------------------------------------------------------------
(* load. *)

LEMMA LoadFacts ==
    ASSUME AttachInv, NEW t \in Threads, stack[t] # <<>>, Top(t).at \in LoadCalls
    PROVE  /\ Top(t).f \in Fibers
           /\ FrameFacts(Top(t)) /\ EntryFacts(Top(t).f) /\ Driven(Top(t).f)
           /\ Top(t).f <= loads /\ outcome[Top(t).f] = "none"
           /\ Top(t).at \in PreCalls => ~Known(Top(t).f) /\ ~installed[Top(t).f]
           /\ Top(t).at \notin PreCalls => Known(Top(t).f)
           /\ Top(t).at \notin ParentCalls \cup ReleaseCalls \cup Releasing \cup Disposer
<1>1. Top(t).at \notin ParentCalls \cup ReleaseCalls \cup Releasing \cup Disposer
  BY DEF LoadCalls, PreCalls, ChildCalls, ParentCalls, ReleaseCalls, Releasing, Disposer
<1>2. Top(t).at \in UnknownCalls <=> Top(t).at \in PreCalls
  BY <1>1 DEF UnknownCalls, ReleaseCalls
<1>3. /\ Top(t).f \in Fibers
      /\ FrameFacts(Top(t)) /\ EntryFacts(Top(t).f) /\ Driven(Top(t).f)
  BY <1>1, TopFacts
<1> HIDE DEF PreCalls, LoadCalls, ParentCalls, UnknownCalls
<1>4. QED
  BY <1>1, <1>2, <1>3 DEF FrameFacts, Known

\* The load of e fails and returns.
LEMMA FailStep ==
    ASSUME AttachInv, NEW t \in Threads, stack[t] # <<>>,
           Top(t).at \in {"load", "discard"}, Return(t),
           NEW e \in Fibers, Top(t).f = e,
           outcome' = [outcome EXCEPT ![e] = "error"],
           UNCHANGED <<loads, runtime, attached, driver, links, entry, parent>>,
           runtimes' \in Runtimes \cup {NoRuntime},
           claims' \in [Runtimes -> Nat],
           RecordFits' \/ (Top(t).at = "load" /\ UNCHANGED <<runtimes, claims>>)
    PROVE  AttachInv'
<1>1. TypeOK /\ Top(t).at \in LoadCalls /\ Top(t).at \in PreCalls
  BY DEF AttachInv, LoadCalls, PreCalls
<1>2. /\ FrameFacts(Top(t)) /\ EntryFacts(e) /\ Driven(e)
      /\ ~Known(e) /\ ~installed[e] /\ Top(t).at \notin Disposer \cup Releasing
  BY <1>1, LoadFacts
<1>3. /\ UNCHANGED <<loads, runtime, attached, parent>>
      /\ UNCHANGED <<disposed, busy, dirty, state, slot, handle>>
      /\ UNCHANGED <<tree, installed, deferred, once, handleOnce>>
  BY DEF driver, links, entry
<1>4. /\ outcome' \in [Fibers -> {"none", "fiber", "error"}]
      /\ outcome'[e] = "error"
      /\ \A f \in Fibers : f # e => outcome'[f] = outcome[f]
      /\ loads' >= loads
  BY <1>1, <1>3 DEF TypeOK
<1>5. /\ \A C : /\ Has(C, e) => Has(C, e)' \/ Top(t).at \in C
                /\ Has(C, e)' => Has(C, e)
      /\ \A a : Asks(a, e) => Asks(a, e)' \/ Top(t).at \in Releasing
      /\ Top(t).at # "sweep" => \A f : Swept(f)' <=> Swept(f)
      /\ stack' \in [Threads -> Seq(Frames)]
  BY <1>1, Returned
<1>6. TypeOK'
  <2> HIDE DEF Frames, Links, OnceStates, Runtimes, Fibers, NoRuntime
  <2>1. QED
    BY <1>1, <1>3, <1>4, <1>5, TypeConstants DEF TypeOK
<1>7. Others(e) /\ KeepsTree(e) /\ KeepsFrames(t, e)
  BY <1>1, <1>3, <1>4 DEF Others, SameFiber, KeepsTree, KeepsFrames, Known
<1>8. EntryFacts(e)'
  <2>1. e <= loads /\ loads \in Nat /\ e \in Nat
    BY <1>1, LoadFacts, FiberNumbers DEF TypeOK
  <2>2. QED
    BY <1>2, <1>3, <2>1 DEF EntryFacts, Known
<1>9. Driven(e)'
  <2>1. /\ Has({"attach", "install", "store"}, e) =>
              Has({"attach", "install", "store"}, e)'
        /\ Has({"handle", "unlist"}, e) => Has({"handle", "unlist"}, e)'
        /\ Has({"attach", "install"}, e) => Has({"attach", "install"}, e)'
        /\ Has(ChildCalls, e)' => Has(ChildCalls, e)
        /\ Has({"request"}, e)' => Has({"request"}, e)
        /\ Swept(e)' <=> Swept(e)
        /\ \A a : Asks(a, e) => Asks(a, e)'
    BY <1>2, <1>5
  <2>2. ChildCalls' = ChildCalls
    BY DEF ChildCalls
  <2> HIDE DEF ChildCalls
  <2>3. QED
    BY <1>2, <1>3, <1>4, <2>1, <2>2 DEF Driven, Known
<1>10. Keeps(t, e)
  BY <1>7, <1>8, <1>9 DEF Keeps
<1>11. "load" \notin ClaimCalls
  BY DEF ClaimCalls
<1>12. QED
  BY <1>2, <1>3, <1>6, <1>10, <1>11, ReturnStep

\* A load goes on from one of its places to another and changes nothing.
LEMMA LoadGoes ==
    ASSUME AttachInv, NEW t \in Threads, stack[t] # <<>>,
           Top(t).at \in {"load", "tryEffect"},
           NEW at \in {"runtimeFor", "discard"}, Goto(t, at),
           Top(t).at = "tryEffect" <=> at = "discard",
           UNCHANGED <<registry, driver, links, entry, parent>>
    PROVE  AttachInv'
<1>1. /\ TypeOK /\ Top(t).at \in LoadCalls /\ Top(t).at \in PreCalls
      /\ at \in Calls /\ at \in LoadCalls /\ at \in PreCalls
  BY DEF AttachInv, LoadCalls, PreCalls, Calls
<1>2. PICK e \in Fibers : e = Top(t).f
  BY <1>1, LoadFacts
<1>3. /\ FrameFacts(Top(t)) /\ EntryFacts(e) /\ Driven(e)
      /\ ~Known(e) /\ ~installed[e] /\ Top(t).at \notin Disposer \cup Releasing
      /\ e <= loads /\ outcome[e] = "none"
  BY <1>1, <1>2, LoadFacts
<1>4. /\ UNCHANGED <<loads, runtime, runtimes, claims, attached, outcome>>
      /\ UNCHANGED <<disposed, busy, dirty, state, slot>>
      /\ UNCHANGED <<tree, installed, deferred>>
  BY DEF registry, driver, links, entry
<1>5. DriverFields(e)
  BY <1>4 DEF DriverFields, driver
<1>6. /\ Others(e) /\ EntryFacts(e)' /\ KeepsFrames(t, e) /\ KeepsTree(e)
  BY <1>1, <1>3, <1>5, DriverKeeps
<1>7. /\ \A C :
           /\ Has(C, e) => Has(C, e)' \/ (Top(t).at \in C /\ at \notin C)
           /\ Has(C, e)' => Has(C, e) \/ at \in C
      /\ \A a : Asks(a, e) => \/ Asks(a, e)'
                              \/ Top(t).at \in Releasing /\ at \notin Releasing
      /\ Top(t).at # "sweep" /\ at # "sweep" => \A f : Swept(f)' <=> Swept(f)
      /\ stack' \in [Threads -> Seq(Frames)]
  BY <1>1, <1>2, GoneTo
<1>8. TypeOK'
  <2>1. /\ busy' \in [Fibers -> BOOLEAN] /\ dirty' \in [Fibers -> BOOLEAN]
        /\ state' \in [Fibers -> {"pending", "active", "disposed"}]
    BY <1>1, <1>4 DEF TypeOK
  <2>2. QED
    BY <1>1, <1>5, <1>7, <2>1, PlainTypes
<1>9. Driven(e)'
  <2>1. /\ Has({"remove"}, e) => Has({"remove"}, e)'
        /\ Has({"attach", "install", "store"}, e) =>
              Has({"attach", "install", "store"}, e)'
        /\ Has({"handle", "unlist"}, e) => Has({"handle", "unlist"}, e)'
        /\ Has({"attach", "install"}, e) => Has({"attach", "install"}, e)'
        /\ Has(ChildCalls, e)' => Has(ChildCalls, e)
        /\ Has({"request"}, e)' => Has({"request"}, e)
        /\ Swept(e)' <=> Swept(e)
    <3>1. /\ Has({"remove"}, e) => Has({"remove"}, e)'
          /\ Has({"attach", "install", "store"}, e) =>
                Has({"attach", "install", "store"}, e)'
          /\ Has({"handle", "unlist"}, e) => Has({"handle", "unlist"}, e)'
          /\ Has({"attach", "install"}, e) => Has({"attach", "install"}, e)'
      BY <1>7
    <3>2. Has(ChildCalls, e)' => Has(ChildCalls, e)
      <4>1. at \notin ChildCalls /\ ChildCalls' = ChildCalls
        BY DEF ChildCalls
      <4> HIDE DEF ChildCalls
      <4>2. QED
        BY <1>7, <4>1
    <3>3. Has({"request"}, e)' => Has({"request"}, e)
      BY <1>7
    <3>4. Swept(e)' <=> Swept(e)
      BY <1>7
    <3>5. QED
      BY <3>1, <3>2, <3>3, <3>4
  <2>2. \A a : Asks(a, e) => Asks(a, e)'
    BY <1>3, <1>7
  <2>3. QED
    BY <1>3, <1>4, <2>1, <2>2, DrivenKeeps
<1>10. Keeps(t, e)
  BY <1>6, <1>9 DEF Keeps
<1>11. CanBe(at, e)
  BY <1>1, <1>3, <1>4 DEF CanBe, Known
<1>12. /\ at \notin ParentCalls \cup ReleaseCalls
       /\ \A C \in Roles : at \in C => Top(t).at \in C
       /\ Top(t).at \in ClaimCalls <=> at \in ClaimCalls
  BY DEF ParentCalls, ReleaseCalls, Roles, LoadCalls, PreCalls, ChildCalls, ClaimCalls
<1>13. KeepsRecord(t, at)
  BY <1>4, <1>12 DEF KeepsRecord
<1>14. QED
  BY <1>1, <1>2, <1>3, <1>8, <1>10, <1>11, <1>12, <1>13, GoStep

LEMMA AssertActiveStep ==
    ASSUME AttachInv, NEW t \in Threads, AssertActive(t)
    PROVE  AttachInv'
<1>1. TypeOK /\ stack[t] # <<>> /\ Top(t).at = "load" /\ Top(t).at \in LoadCalls
  BY DEF AttachInv, AssertActive, In, LoadCalls, PreCalls
<1>2. PICK e \in Fibers : e = Top(t).f
  BY <1>1, LoadFacts
<1>3. CASE parent = "open"
  <2>1. Goto(t, "runtimeFor") /\ UNCHANGED <<registry, driver, links, entry, parent>>
    BY <1>3 DEF AssertActive, registry
  <2>2. QED
    BY <1>1, <2>1, LoadGoes
<1>4. CASE parent # "open"
  <2>1. /\ outcome' = [outcome EXCEPT ![e] = "error"] /\ Return(t)
        /\ UNCHANGED <<loads, runtime, runtimes, claims, attached, driver, links,
                       entry, parent>>
    BY <1>2, <1>4 DEF AssertActive, Outcome
  <2>2. runtimes' \in Runtimes \cup {NoRuntime} /\ claims' \in [Runtimes -> Nat]
    BY <1>1, <2>1 DEF TypeOK
  <2>3. QED
    BY <1>1, <1>2, <2>1, <2>2, FailStep
<1>5. QED
  BY <1>3, <1>4

\* The fibers of S whose record, by F, is s.
Holders(S, F, s) == {f \in S : F[f] = s}

LEMMA ClaimGone ==
    ASSUME NEW S, IsFiniteSet(S), NEW e \in S, NEW F, NEW s
    PROVE  /\ Cardinality(Holders(S \ {e}, F, s)) \in Nat
           /\ Cardinality(Holders(S, F, s)) =
                Cardinality(Holders(S \ {e}, F, s)) + (IF F[e] = s THEN 1 ELSE 0)
<1> DEFINE A == Holders(S, F, s)
           B == Holders(S \ {e}, F, s)
<1>1. A \subseteq S /\ B \subseteq S
  BY DEF Holders
<1>2. e \notin B /\ (IF F[e] = s THEN A = B \cup {e} ELSE A = B)
  BY DEF Holders
<1> HIDE DEF A, B
<1>3. IsFiniteSet(A) /\ IsFiniteSet(B)
  BY <1>1, FS_Subset
<1>4. Cardinality(B) \in Nat
  BY <1>3, FS_CardinalityType
<1>5. Cardinality(A) = Cardinality(B) + (IF F[e] = s THEN 1 ELSE 0)
  BY <1>2, <1>3, <1>4, FS_AddElement
<1>6. QED
  BY <1>4, <1>5 DEF A, B

\* The claim of e is gone when its load goes on to c, which claims nothing.
LEMMA ClaimantsLess ==
    ASSUME AttachInv, NEW t \in Threads, stack[t] # <<>>, Top(t).at \in ClaimCalls,
           NEW e \in Fibers, Top(t).f = e,
           NEW c, Changes(t, Len(stack[t]) - 1, c),
           \A i \in 1..Len(c) : c[i].f = e /\ c[i].at \notin ClaimCalls
    PROVE  e \in Claimants /\ Claimants' = Claimants \ {e}
<1>1. TypeOK /\ LoadCalls \in Roles /\ ClaimCalls \subseteq LoadCalls
  BY DEF AttachInv, Roles, LoadCalls, PreCalls, ClaimCalls
<1>2. Has(ClaimCalls, e)
  BY TopFacts
<1>3. ~Brings(c, ClaimCalls, e)
  BY DEF Brings
<1>4. ~Has(ClaimCalls, e)'
  BY <1>1, <1>3, HasGone
<1>5. IsFor(t, Len(stack[t]) - 1, c, e)
  BY DEF IsFor
<1>6. \A f \in Fibers : f # e => (Has(ClaimCalls, f)' <=> Has(ClaimCalls, f))
  BY <1>1, <1>5, HasOthers
<1>7. QED
  BY <1>2, <1>4, <1>6, ClaimantsHave, ClaimantsHaveNext

LEMMA ClaimantGone ==
    ASSUME NEW e \in Claimants, NEW s
    PROVE  /\ Cardinality({f \in Claimants \ {e} : runtime[f] = s}) \in Nat
           /\ Cardinality({f \in Claimants : runtime[f] = s}) =
                Cardinality({f \in Claimants \ {e} : runtime[f] = s})
                  + (IF runtime[e] = s THEN 1 ELSE 0)
<1>1. PICK F : F = runtime
  OBVIOUS
<1>2. PICK S : S = Claimants /\ IsFiniteSet(S) /\ e \in S
  BY ClaimantsFinite
<1>3. /\ Cardinality(Holders(S \ {e}, F, s)) \in Nat
      /\ Cardinality(Holders(S, F, s)) =
           Cardinality(Holders(S \ {e}, F, s)) + (IF F[e] = s THEN 1 ELSE 0)
  BY <1>2, ClaimGone
<1>4. /\ Holders(S, F, s) = {f \in Claimants : runtime[f] = s}
      /\ Holders(S \ {e}, F, s) = {f \in Claimants \ {e} : runtime[f] = s}
  BY <1>1, <1>2 DEF Holders
<1>5. QED
  BY <1>1, <1>3, <1>4

LEMMA ClaimsReleased ==
    ASSUME AttachInv, NEW e \in Claimants, Claimants' = Claimants \ {e},
           runtime' = runtime, claims' = [claims EXCEPT ![runtime[e]] = @ - 1]
    PROVE  /\ claims' \in [Runtimes -> Nat]
           /\ runtime[e] = runtimes /\ runtimes \in Runtimes
           /\ \A s \in Runtimes :
                claims'[s] = Cardinality({f \in Claimants' : runtime[f] = s})
<1>1. TypeOK /\ RecordFits
  BY DEF AttachInv
<1>2. /\ runtime[e] = runtimes /\ runtimes \in Runtimes
      /\ claims \in [Runtimes -> Nat]
  BY <1>1 DEF RecordFits, OneRuntime, TypeOK
<1>3. \A s \in Runtimes :
        /\ Cardinality({f \in Claimants' : runtime[f] = s}) \in Nat
        /\ claims[s] = Cardinality({f \in Claimants' : runtime[f] = s})
                         + (IF runtime[e] = s THEN 1 ELSE 0)
  <2> TAKE s \in Runtimes
  <2>1. claims[s] = Cardinality({f \in Claimants : runtime[f] = s})
    BY <1>1 DEF RecordFits, OneRuntime
  <2>2. QED
    BY <2>1, ClaimantGone
<1>4. \A s \in Runtimes :
        claims'[s] = IF runtime[e] = s THEN claims[s] - 1 ELSE claims[s]
  BY <1>2
<1>5. \A s \in Runtimes :
        claims'[s] = Cardinality({f \in Claimants' : runtime[f] = s})
  BY <1>3, <1>4
<1>6. claims' \in [Runtimes -> Nat]
  <2>1. claims' = [s \in Runtimes |-> claims'[s]]
    BY <1>2
  <2>2. \A s \in Runtimes : claims'[s] \in Nat
    BY <1>3, <1>5
  <2>3. QED
    BY <2>1, <2>2
<1>7. QED
  BY <1>2, <1>5, <1>6

LEMMA DiscardRuntimeStep ==
    ASSUME AttachInv, NEW t \in Threads, DiscardRuntime(t)
    PROVE  AttachInv'
<1>1. /\ TypeOK /\ RecordFits /\ stack[t] # <<>> /\ Top(t).at = "discard"
      /\ Top(t).at \in LoadCalls /\ Top(t).at \in ClaimCalls /\ Return(t)
  BY DEF AttachInv, DiscardRuntime, In, LoadCalls, PreCalls, ClaimCalls
<1>2. PICK e \in Fibers : e = Top(t).f
  BY <1>1, LoadFacts
<1>3. /\ claims' = [claims EXCEPT ![runtime[e]] = @ - 1]
      /\ runtimes' = IF Unused(runtime[e], claims', attached)
                     THEN NoRuntime ELSE runtimes
      /\ outcome' = [outcome EXCEPT ![e] = "error"]
      /\ UNCHANGED <<loads, runtime, attached, driver, links, entry, parent>>
  BY <1>2 DEF DiscardRuntime, Outcome
<1>4. e \in Claimants /\ Claimants' = Claimants \ {e}
  <2>1. PICK c : c = <<>> /\ Len(c) = 0
    BY EmptySeq
  <2>2. Changes(t, Len(stack[t]) - 1, c) /\ 1..Len(c) = {}
    BY <1>1, <2>1, Returning
  <2>3. QED
    BY <1>1, <1>2, <2>2, ClaimantsLess
<1>5. /\ claims' \in [Runtimes -> Nat]
      /\ runtime[e] = runtimes /\ runtimes \in Runtimes
      /\ \A s \in Runtimes :
           claims'[s] = Cardinality({f \in Claimants' : runtime[f] = s})
  BY <1>3, <1>4, ClaimsReleased
<1>6. \A f \in attached' \cup Claimants' : runtime[f] = runtimes
  BY <1>1, <1>3, <1>4 DEF RecordFits, OneRuntime
<1>7. PICK r \in Runtimes : r = runtimes
  BY <1>5
<1>8. runtimes' = IF Unused(r, claims', attached') THEN NoRuntime ELSE runtimes
  BY <1>3, <1>5, <1>7
<1>9. RecordFits'
  BY <1>3, <1>5, <1>6, <1>7, <1>8, ClaimantsFinite, RecordReleased
<1>10. runtimes' \in Runtimes \cup {NoRuntime}
  BY <1>3, <1>5
<1>11. QED
  BY <1>1, <1>2, <1>3, <1>5, <1>9, <1>10, FailStep

LEMMA AttachFiberStep ==
    ASSUME AttachInv, NEW t \in Threads, AttachFiber(t)
    PROVE  AttachInv'
<1>1. /\ TypeOK /\ RecordFits /\ stack[t] # <<>> /\ Top(t).at = "attach"
      /\ Top(t).at \in LoadCalls /\ Top(t).at \in ClaimCalls
      /\ Top(t).at \in PreCalls
  BY DEF AttachInv, AttachFiber, In, LoadCalls, PreCalls, ClaimCalls
<1>2. PICK e \in Fibers : e = Top(t).f
  BY <1>1, LoadFacts
<1>3. /\ FrameFacts(Top(t)) /\ EntryFacts(e) /\ Driven(e) /\ e <= loads
      /\ ~Known(e) /\ ~installed[e] /\ Top(t).at \notin Disposer \cup Releasing
      /\ outcome[e] = "none"
  BY <1>1, <1>2, LoadFacts
<1>4. /\ attached' = attached \cup {e}
      /\ claims' = [claims EXCEPT ![runtime[e]] = @ - 1]
      /\ Goto(t, "install")
      /\ UNCHANGED <<loads, runtime, runtimes, outcome, driver, links, entry, parent>>
  BY <1>2 DEF AttachFiber
<1>5. /\ UNCHANGED <<loads, runtime, runtimes, outcome, parent>>
      /\ UNCHANGED <<disposed, busy, dirty, state, slot, handle>>
      /\ UNCHANGED <<tree, installed, deferred, once, handleOnce>>
  BY <1>4 DEF driver, links, entry
<1>6. loads' >= loads /\ loads \in Nat /\ e \in Nat
  BY <1>1, <1>5, FiberNumbers DEF TypeOK
<1>7. "install" \in Calls
  BY DEF Calls
<1>8. e \in Claimants /\ Claimants' = Claimants \ {e}
  <2>1. PICK g \in Frames :
          /\ Changes(t, Len(stack[t]) - 1, <<g>>)
          /\ g.at = "install" /\ g.f = Top(t).f
    BY <1>1, <1>4, <1>7, Going
  <2>2. PICK c : c = <<g>> /\ Len(c) = 1 /\ c[1] = g
    BY Single
  <2>3. Changes(t, Len(stack[t]) - 1, c) /\ \A i \in 1..Len(c) : c[i] = g
    BY <2>1, <2>2
  <2>4. "install" \notin ClaimCalls
    BY DEF ClaimCalls
  <2>5. QED
    BY <1>1, <1>2, <2>1, <2>3, <2>4, ClaimantsLess
<1>9. /\ claims' \in [Runtimes -> Nat]
      /\ runtime[e] = runtimes /\ runtimes \in Runtimes
      /\ \A s \in Runtimes :
           claims'[s] = Cardinality({f \in Claimants' : runtime[f] = s})
  BY <1>4, <1>8, ClaimsReleased
<1>10. RecordFits'
  <2>1. attached' \cup Claimants' = attached \cup Claimants
    BY <1>4, <1>8
  <2>2. NoRuntime \notin Runtimes /\ Runtimes' = Runtimes /\ NoRuntime' = NoRuntime
    BY DEF Runtimes, NoRuntime, Fibers
  <2> HIDE DEF Runtimes, NoRuntime
  <2>3. QED
    BY <1>1, <1>5, <1>8, <1>9, <2>1, <2>2 DEF RecordFits, OneRuntime
<1>11. /\ \A C :
            /\ Has(C, e) => Has(C, e)' \/ (Top(t).at \in C /\ "install" \notin C)
            /\ Has(C, e)' => Has(C, e) \/ "install" \in C
            /\ "install" \in C => Has(C, e)'
       /\ \A a : Asks(a, e) => \/ Asks(a, e)'
                               \/ Top(t).at \in Releasing /\ "install" \notin Releasing
       /\ Top(t).at # "sweep" /\ "install" # "sweep" =>
            \A f : Swept(f)' <=> Swept(f)
       /\ stack' \in [Threads -> Seq(Frames)]
  BY <1>1, <1>2, <1>4, <1>7, GoneTo
<1>12. TypeOK'
  <2> HIDE DEF Frames, Links, OnceStates, Runtimes, Fibers, NoRuntime
  <2>1. QED
    BY <1>1, <1>4, <1>5, <1>9, <1>11, TypeConstants DEF TypeOK
<1>13. Others(e) /\ KeepsTree(e) /\ KeepsFrames(t, e)
  BY <1>1, <1>4, <1>5, <1>6 DEF Others, SameFiber, KeepsTree, KeepsFrames, Known
<1>14. EntryFacts(e)'
  BY <1>3, <1>5, <1>6 DEF EntryFacts, Known
<1>15. Driven(e)'
  <2>1. /\ Has({"attach", "install", "store"}, e)'
        /\ Has({"attach", "install"}, e)'
        /\ Has(ChildCalls, e)
        /\ Swept(e)' <=> Swept(e)
        /\ \A a : Asks(a, e) => Asks(a, e)'
    BY <1>1, <1>2, <1>3, <1>11, TopFacts DEF ChildCalls
  <2>2. QED
    BY <1>3, <1>5, <2>1 DEF Driven, Known
<1>16. Keeps(t, e)
  BY <1>13, <1>14, <1>15 DEF Keeps
<1>17. CanBe("install", e)
  BY <1>3, <1>4, <1>5 DEF CanBe, Known, PreCalls
<1>18. /\ "install" \notin ParentCalls \cup ReleaseCalls
       /\ \A C \in Roles : "install" \in C => Top(t).at \in C
  BY <1>1 DEF ParentCalls, ReleaseCalls, Roles, LoadCalls, PreCalls, ChildCalls
<1>19. QED
  BY <1>1, <1>2, <1>3, <1>4, <1>7, <1>10, <1>12, <1>16, <1>17, <1>18, GoStep

LEMMA RuntimeForStep ==
    ASSUME AttachInv, NEW t \in Threads, RuntimeFor(t)
    PROVE  AttachInv'
<1>1. /\ TypeOK /\ RecordFits /\ stack[t] # <<>> /\ Top(t).at = "runtimeFor"
      /\ Top(t).at \in LoadCalls /\ Top(t).at \notin ClaimCalls
      /\ Top(t).at \in PreCalls
  BY DEF AttachInv, RuntimeFor, In, LoadCalls, PreCalls, ClaimCalls
<1>2. PICK e \in Fibers : e = Top(t).f
  BY <1>1, LoadFacts
<1>3. /\ FrameFacts(Top(t)) /\ EntryFacts(e) /\ Driven(e) /\ e <= loads
      /\ ~Known(e) /\ ~installed[e] /\ Top(t).at \notin Disposer \cup Releasing
      /\ outcome[e] = "none"
  BY <1>1, <1>2, LoadFacts
<1>4. PICK r : r = IF runtimes = NoRuntime THEN e ELSE runtimes
  OBVIOUS
<1>5. /\ runtimes' = r /\ runtime' = [runtime EXCEPT ![e] = r]
      /\ claims' = [claims EXCEPT ![r] = @ + 1]
      /\ Goto(t, "tryEffect")
      /\ UNCHANGED <<loads, attached, outcome, driver, links, entry, parent>>
  BY <1>2, <1>4 DEF RuntimeFor
<1>6. /\ UNCHANGED <<loads, attached, outcome, parent>>
      /\ UNCHANGED <<disposed, busy, dirty, state, slot, handle>>
      /\ UNCHANGED <<tree, installed, deferred, once, handleOnce>>
  BY <1>5 DEF driver, links, entry
<1>7. loads' >= loads /\ loads \in Nat /\ e \in Nat
  BY <1>1, <1>6, FiberNumbers DEF TypeOK
<1>8. r \in Runtimes /\ NoRuntime \notin Runtimes
  BY <1>1, <1>4 DEF TypeOK, Runtimes, NoRuntime, Fibers
<1>9. /\ runtime' \in [Fibers -> Runtimes \cup {NoRuntime}]
      /\ claims \in [Runtimes -> Nat] /\ claims' \in [Runtimes -> Nat]
      /\ runtime'[e] = r /\ \A f \in Fibers : f # e => runtime'[f] = runtime[f]
      /\ \A s \in Runtimes : claims'[s] = IF s = r THEN claims[s] + 1 ELSE claims[s]
  BY <1>1, <1>5, <1>8 DEF TypeOK
<1>10. "tryEffect" \in Calls
  BY DEF Calls
<1>11. /\ \A C :
            /\ Has(C, e) => Has(C, e)' \/ (Top(t).at \in C /\ "tryEffect" \notin C)
            /\ Has(C, e)' => Has(C, e) \/ "tryEffect" \in C
            /\ "tryEffect" \in C => Has(C, e)'
       /\ \A a : Asks(a, e) =>
            Asks(a, e)' \/ (Top(t).at \in Releasing /\ "tryEffect" \notin Releasing)
       /\ Top(t).at # "sweep" /\ "tryEffect" # "sweep" =>
            \A f : Swept(f)' <=> Swept(f)
       /\ stack' \in [Threads -> Seq(Frames)]
  BY <1>1, <1>2, <1>5, <1>10, GoneTo
<1>12. e \notin Claimants /\ e \notin attached /\ Claimants' = Claimants \cup {e}
  <2>1. PICK g \in Frames :
          /\ Changes(t, Len(stack[t]) - 1, <<g>>)
          /\ g.at = "tryEffect" /\ g.f = Top(t).f
    BY <1>1, <1>5, <1>10, Going
  <2>2. PICK c : c = <<g>> /\ Len(c) = 1 /\ c[1] = g
    BY Single
  <2>3. Changes(t, Len(stack[t]) - 1, c) /\ \A i \in 1..Len(c) : c[i] = g
    BY <2>1, <2>2
  <2>4. LoadCalls \in Roles /\ ClaimCalls \subseteq LoadCalls /\ "tryEffect" \in ClaimCalls
    BY DEF Roles, LoadCalls, PreCalls, ClaimCalls
  <2>5. ~Has(ClaimCalls, e) /\ Has(ClaimCalls, e)'
    BY <1>1, <1>2, <1>11, <2>4, OnlyCall
  <2>6. IsFor(t, Len(stack[t]) - 1, c, e)
    BY <1>2, <2>1, <2>3 DEF IsFor
  <2>7. \A f \in Fibers : f # e => (Has(ClaimCalls, f)' <=> Has(ClaimCalls, f))
    BY <1>1, <2>3, <2>6, HasOthers
  <2>8. QED
    BY <1>3, <2>5, <2>7, ClaimantsHave, ClaimantsHaveNext DEF Known
<1>13. RecordFits'
  <2>1. \A f \in attached' \cup Claimants' : runtime'[f] = r
    <3>1. attached \subseteq Fibers /\ Claimants \subseteq Fibers
      BY <1>1, ClaimantsHave DEF TypeOK
    <3>2. \A f \in attached \cup Claimants : f \in Fibers /\ f # e /\ runtime[f] = r
      BY <1>1, <1>4, <1>12, <3>1 DEF RecordFits, OneRuntime
    <3>3. QED
      BY <1>6, <1>9, <1>12, <3>2
  <2>2. \A s \in Runtimes :
          claims'[s] = Cardinality({f \in Claimants' : runtime'[f] = s})
    <3> TAKE s \in Runtimes
    <3>1. PICK F : F = runtime'
      OBVIOUS
    <3>2. PICK S : S = Claimants' /\ IsFiniteSet(S) /\ e \in S /\ S \ {e} = Claimants
      BY <1>12, ClaimantsFinite
    <3>3. /\ Cardinality(Holders(S \ {e}, F, s)) \in Nat
          /\ Cardinality(Holders(S, F, s)) =
               Cardinality(Holders(S \ {e}, F, s)) + (IF F[e] = s THEN 1 ELSE 0)
      BY <3>2, ClaimGone
    <3>4. Holders(S \ {e}, F, s) = {f \in Claimants : runtime[f] = s}
      BY <1>9, <1>12, <3>1, <3>2, ClaimantsHave DEF Holders
    <3>5. claims[s] = Cardinality({f \in Claimants : runtime[f] = s})
      BY <1>1 DEF RecordFits, OneRuntime
    <3>6. Holders(S, F, s) = {f \in Claimants' : runtime'[f] = s}
      BY <3>1, <3>2 DEF Holders
    <3>7. claims[s] \in Nat /\ F[e] = r
      BY <1>9, <3>1
    <3>8. claims'[s] = Cardinality(Holders(S, F, s))
      <4>1. claims[s] = Cardinality(Holders(S \ {e}, F, s))
        BY <3>4, <3>5
      <4>2. claims'[s] = claims[s] + (IF F[e] = s THEN 1 ELSE 0)
        BY <1>9, <3>7
      <4>3. QED
        BY <3>3, <4>1, <4>2
    <3>9. QED
      BY <3>6, <3>8
  <2>3. Runtimes' = Runtimes /\ NoRuntime' = NoRuntime
    BY DEF Runtimes, NoRuntime, Fibers
  <2> HIDE DEF Runtimes, NoRuntime
  <2>4. QED
    BY <1>5, <1>8, <1>12, <2>1, <2>2, <2>3 DEF RecordFits, OneRuntime
<1>14. TypeOK'
  <2> HIDE DEF Frames, Links, OnceStates, Runtimes, Fibers, NoRuntime
  <2>1. QED
    BY <1>1, <1>5, <1>6, <1>8, <1>9, <1>11, TypeConstants DEF TypeOK
<1>15. Others(e) /\ KeepsTree(e) /\ KeepsFrames(t, e)
  BY <1>1, <1>6, <1>7 DEF Others, SameFiber, KeepsTree, KeepsFrames, Known
<1>16. EntryFacts(e)'
  BY <1>3, <1>6 DEF EntryFacts, Known
<1>17. Driven(e)'
  <2>1. /\ Has({"remove"}, e) => Has({"remove"}, e)'
        /\ Has({"attach", "install", "store"}, e) =>
              Has({"attach", "install", "store"}, e)'
        /\ Has({"handle", "unlist"}, e) => Has({"handle", "unlist"}, e)'
        /\ Has({"attach", "install"}, e) => Has({"attach", "install"}, e)'
        /\ Has(ChildCalls, e)' => Has(ChildCalls, e)
        /\ Has({"request"}, e)' => Has({"request"}, e)
        /\ Swept(e)' <=> Swept(e)
        /\ \A a : Asks(a, e) => Asks(a, e)'
    BY <1>1, <1>3, <1>11 DEF ChildCalls
  <2>2. QED
    BY <1>3, <1>6, <2>1, DrivenKeeps
<1>18. Keeps(t, e)
  BY <1>15, <1>16, <1>17 DEF Keeps
<1>19. CanBe("tryEffect", e)
  BY <1>3, <1>6 DEF CanBe, Known, PreCalls
<1>20. /\ "tryEffect" \notin ParentCalls \cup ReleaseCalls
       /\ \A C \in Roles : "tryEffect" \in C => Top(t).at \in C
  BY <1>1 DEF ParentCalls, ReleaseCalls, Roles, LoadCalls, PreCalls, ChildCalls
<1>21. QED
  BY <1>1, <1>2, <1>3, <1>5, <1>10, <1>13, <1>14, <1>18, <1>19, <1>20, GoStep

LEMMA TryEffectStep ==
    ASSUME AttachInv, NEW t \in Threads, TryEffect(t)
    PROVE  AttachInv'
<1>1. /\ TypeOK /\ stack[t] # <<>> /\ Top(t).at = "tryEffect"
      /\ Top(t).at \in LoadCalls /\ Top(t).at \in PreCalls
  BY DEF AttachInv, TryEffect, In, LoadCalls, PreCalls
<1>2. PICK e \in Fibers : e = Top(t).f
  BY <1>1, LoadFacts
<1>3. /\ FrameFacts(Top(t)) /\ EntryFacts(e) /\ Driven(e) /\ e <= loads
      /\ ~Known(e) /\ ~installed[e] /\ Top(t).at \notin Disposer \cup Releasing
      /\ outcome[e] = "none"
  BY <1>1, <1>2, LoadFacts
<1>4. CASE parent # "open"
  <2>1. Goto(t, "discard") /\ UNCHANGED <<registry, driver, links, entry, parent>>
    BY <1>4 DEF TryEffect, entry
  <2>2. QED
    BY <1>1, <2>1, LoadGoes
<1>5. CASE parent = "open"
  <2>1. /\ tree' = tree \cup {e} /\ Goto(t, "attach")
        /\ UNCHANGED <<registry, driver, links, installed, deferred, once,
                       handleOnce, parent>>
    BY <1>2, <1>5 DEF TryEffect
  <2>2. /\ UNCHANGED <<loads, runtime, runtimes, claims, attached, outcome, parent>>
        /\ UNCHANGED <<disposed, busy, dirty, state, slot, handle>>
        /\ UNCHANGED <<installed, deferred, once, handleOnce>>
    BY <2>1 DEF registry, driver, links
  <2>3. loads' >= loads /\ loads \in Nat /\ e \in Nat
    BY <1>1, <2>2, FiberNumbers DEF TypeOK
  <2>4. "attach" \in Calls
    BY DEF Calls
  <2>5. /\ \A C : "attach" \in C => Has(C, e)'
        /\ stack' \in [Threads -> Seq(Frames)]
    BY <1>1, <1>2, <2>1, <2>4, GoneTo
  <2>6. TypeOK'
    <3> HIDE DEF Frames, Links, OnceStates, Runtimes, Fibers, NoRuntime
    <3>1. QED
      BY <1>1, <2>1, <2>2, <2>5, TypeConstants DEF TypeOK
  <2>7. Others(e)
    BY <1>5, <2>1, <2>2, <2>3 DEF Others, SameFiber
  <2>8. KeepsTree(e) /\ KeepsFrames(t, e)
    BY <1>1, <2>1, <2>2 DEF KeepsTree, KeepsFrames, Known
  <2>9. EntryFacts(e)'
    BY <1>3, <1>5, <2>1, <2>2, <2>3 DEF EntryFacts, Known
  <2>10. Driven(e)'
    <3>1. Has({"attach", "install", "store"}, e)' /\ Has({"attach", "install"}, e)'
      BY <2>5
    <3>2. ~deferred[e]
      BY <1>3, <1>5 DEF EntryFacts
    <3>3. QED
      BY <1>3, <2>1, <2>2, <3>1, <3>2 DEF Driven, Known
  <2>11. Keeps(t, e)
    BY <2>7, <2>8, <2>9, <2>10 DEF Keeps
  <2>12. CanBe("attach", e)
    BY <1>3, <2>2 DEF CanBe, Known, PreCalls
  <2>13. /\ "attach" \notin ParentCalls \cup ReleaseCalls
         /\ \A C \in Roles : "attach" \in C => Top(t).at \in C
         /\ Top(t).at \in ClaimCalls <=> "attach" \in ClaimCalls
    BY <1>1 DEF ParentCalls, ReleaseCalls, Roles, LoadCalls, PreCalls, ChildCalls,
                ClaimCalls
  <2>14. KeepsRecord(t, "attach")
    BY <2>2, <2>13 DEF KeepsRecord
  <2>15. QED
    BY <1>1, <1>2, <1>3, <2>1, <2>4, <2>6, <2>11, <2>12, <2>13, <2>14, GoStep
<1>6. QED
  BY <1>4, <1>5

LEMMA SetDisposeStep ==
    ASSUME AttachInv, NEW t \in Threads, SetDispose(t)
    PROVE  AttachInv'
<1>1. /\ TypeOK /\ stack[t] # <<>> /\ Top(t).at = "install"
      /\ Top(t).at \in LoadCalls /\ Top(t).at \notin PreCalls \cup ClaimCalls
      /\ Top(t).at \in ChildCalls
  BY DEF AttachInv, SetDispose, In, LoadCalls, PreCalls, ChildCalls, ClaimCalls
<1>2. PICK e \in Fibers : e = Top(t).f
  BY <1>1, LoadFacts
<1>3. /\ EntryFacts(e) /\ Driven(e) /\ e <= loads /\ Known(e)
      /\ Top(t).at \notin Disposer \cup Releasing /\ outcome[e] = "none"
      /\ Has(ChildCalls, e)
  BY <1>1, <1>2, LoadFacts, TopFacts
<1>4. /\ installed' = [installed EXCEPT ![e] = TRUE]
      /\ handle' = [handle EXCEPT ![e] = IF deferred[e] THEN "noop" ELSE "handle"]
      /\ deferred[e] => Continue(t, Both("store", "request", e))
      /\ ~deferred[e] => Goto(t, "store")
      /\ UNCHANGED <<registry, driver, slot, tree, deferred, once, handleOnce, parent>>
  BY <1>2 DEF SetDispose, Both
<1>5. /\ UNCHANGED <<loads, runtime, runtimes, claims, attached, outcome, parent>>
      /\ UNCHANGED <<disposed, busy, dirty, state, slot>>
      /\ UNCHANGED <<tree, deferred, once, handleOnce>>
  BY <1>4 DEF registry, driver
<1>6. /\ installed' \in [Fibers -> BOOLEAN] /\ handle' \in [Fibers -> Links]
      /\ installed'[e] = TRUE
      /\ handle'[e] = IF deferred[e] THEN "noop" ELSE "handle"
      /\ \A f \in Fibers : f # e => installed'[f] = installed[f] /\ handle'[f] = handle[f]
      /\ loads' >= loads /\ loads \in Nat /\ e \in Nat
  BY <1>1, <1>4, <1>5, FiberNumbers DEF TypeOK, Links
<1>7. ASSUME stack' \in [Threads -> Seq(Frames)]
      PROVE  TypeOK'
  <2> HIDE DEF Frames, Links, OnceStates, Runtimes, Fibers, NoRuntime
  <2>1. QED
    BY <1>1, <1>5, <1>6, <1>7, TypeConstants DEF TypeOK
<1>8. Others(e) /\ KeepsTree(e) /\ KeepsFrames(t, e)
  BY <1>1, <1>5, <1>6 DEF Others, SameFiber, KeepsTree, KeepsFrames, Known
<1>9. EntryFacts(e)'
  BY <1>3, <1>5, <1>6 DEF EntryFacts, Known
<1>10. "store" \in Calls /\ "request" \in Calls
  BY DEF Calls
<1>11. CanBe("store", e) /\ CanBe("request", e)
  BY <1>3, <1>5, <1>6 DEF CanBe, Known, PreCalls, LoadCalls, ChildCalls
<1>12. /\ "store" \notin ParentCalls \cup ReleaseCalls \cup ClaimCalls
       /\ "request" \notin ParentCalls \cup ClaimCalls
       /\ \A C \in Roles : /\ "request" \notin C
                           /\ "store" \in C => Top(t).at \in C
  BY <1>1 DEF ParentCalls, ReleaseCalls, ClaimCalls, Roles, LoadCalls, PreCalls,
              ChildCalls
<1>13. ChildCalls' = ChildCalls
  BY DEF ChildCalls
<1>14. CASE deferred[e]
  <2>1. /\ \A C :
             Has(C, e) => \/ Has(C, e)'
                          \/ Top(t).at \in C /\ {"store", "request"} \cap C = {}
        /\ "request" \in Releasing => Asks("store", e)'
        /\ stack' \in [Threads -> Seq(Frames)]
    BY <1>1, <1>2, <1>4, <1>10, <1>14, Calling
  <2>2. Driven(e)'
    <3>1. /\ Has({"remove"}, e) => Has({"remove"}, e)'
          /\ Asks("store", e)'
      BY <1>1, <2>1 DEF Releasing
    <3>2. e \notin tree
      BY <1>3, <1>14 DEF EntryFacts
    <3> HIDE DEF ChildCalls
    <3>3. QED
      BY <1>3, <1>5, <1>6, <1>14, <3>1, <3>2 DEF Driven
  <2>3. Keeps(t, e)
    BY <1>8, <1>9, <2>2 DEF Keeps
  <2>4. parent' # "open" /\ e \notin tree'
    BY <1>3, <1>5, <1>14 DEF EntryFacts
  <2>5. TypeOK'
    BY <1>7, <2>1
  <2>6. QED
    BY <1>1, <1>2, <1>3, <1>4, <1>5, <1>10, <1>11, <1>12, <1>14, <2>3, <2>4, <2>5,
       CallStep
<1>15. CASE ~deferred[e]
  <2>1. /\ \A C :
             /\ Has(C, e) => Has(C, e)' \/ (Top(t).at \in C /\ "store" \notin C)
             /\ Has(C, e)' => Has(C, e) \/ "store" \in C
             /\ "store" \in C => Has(C, e)'
        /\ \A a : Asks(a, e) =>
             Asks(a, e)' \/ (Top(t).at \in Releasing /\ "store" \notin Releasing)
        /\ Top(t).at # "sweep" /\ "store" # "sweep" => \A f : Swept(f)' <=> Swept(f)
        /\ stack' \in [Threads -> Seq(Frames)]
    BY <1>1, <1>2, <1>4, <1>10, <1>15, GoneTo
  <2>2. Driven(e)'
    <3>1. /\ Has({"remove"}, e) => Has({"remove"}, e)'
          /\ Has({"attach", "install", "store"}, e)'
          /\ Swept(e)' <=> Swept(e)
          /\ \A a : Asks(a, e) => Asks(a, e)'
      BY <1>1, <1>3, <2>1
    <3> HIDE DEF ChildCalls
    <3>2. QED
      BY <1>3, <1>5, <1>6, <1>15, <3>1 DEF Driven
  <2>3. Keeps(t, e)
    BY <1>8, <1>9, <2>2 DEF Keeps
  <2>4. TypeOK' /\ KeepsRecord(t, "store")
    BY <1>1, <1>5, <1>7, <1>12, <2>1 DEF KeepsRecord
  <2>5. QED
    BY <1>1, <1>2, <1>3, <1>4, <1>10, <1>11, <1>12, <1>15, <2>3, <2>4, GoStep
<1>16. QED
  BY <1>14, <1>15

LEMMA StoreHandleStep ==
    ASSUME AttachInv, NEW t \in Threads, StoreHandle(t)
    PROVE  AttachInv'
<1>1. /\ TypeOK /\ stack[t] # <<>> /\ Top(t).at = "store"
      /\ Top(t).at \in LoadCalls /\ Top(t).at \notin PreCalls \cup ClaimCalls
      /\ Top(t).at \in ChildCalls
  BY DEF AttachInv, StoreHandle, In, LoadCalls, PreCalls, ChildCalls, ClaimCalls
<1>2. PICK e \in Fibers : e = Top(t).f
  BY <1>1, LoadFacts
<1>3. /\ EntryFacts(e) /\ Driven(e) /\ e <= loads /\ Known(e)
      /\ Top(t).at \notin Disposer \cup Releasing /\ outcome[e] = "none"
      /\ Has(ChildCalls, e) /\ FrameFacts(Top(t))
  BY <1>1, <1>2, LoadFacts, TopFacts
<1>4. installed[e]
  BY <1>1, <1>2, <1>3 DEF FrameFacts
<1>5. /\ slot' = IF disposed[e] THEN slot ELSE [slot EXCEPT ![e] = handle[e]]
      /\ disposed[e] => Continue(t, Both("loaded", "handle", e))
      /\ ~disposed[e] => Continue(t, Both("loaded", "refresh", e))
      /\ UNCHANGED <<registry, driver, handle, entry, parent>>
  BY <1>2 DEF StoreHandle, Both
<1>6. /\ UNCHANGED <<loads, runtime, runtimes, claims, attached, outcome, parent>>
      /\ UNCHANGED <<disposed, busy, dirty, state, handle>>
      /\ UNCHANGED <<tree, installed, deferred, once, handleOnce>>
  BY <1>5 DEF registry, driver, entry
<1>7. /\ slot' \in [Fibers -> Links] /\ \A f \in Fibers : f # e => slot'[f] = slot[f]
      /\ slot'[e] = IF disposed[e] THEN slot[e] ELSE handle[e]
      /\ loads' >= loads /\ loads \in Nat /\ e \in Nat
  BY <1>1, <1>5, <1>6, FiberNumbers DEF TypeOK
<1>8. ASSUME stack' \in [Threads -> Seq(Frames)]
      PROVE  TypeOK'
  <2> HIDE DEF Frames, Links, OnceStates, Runtimes, Fibers, NoRuntime
  <2>1. QED
    BY <1>1, <1>6, <1>7, <1>8, TypeConstants DEF TypeOK
<1>9. Others(e) /\ KeepsTree(e) /\ KeepsFrames(t, e)
  BY <1>1, <1>6, <1>7 DEF Others, SameFiber, KeepsTree, KeepsFrames, Known
<1>10. "loaded" \in Calls /\ "handle" \in Calls /\ "refresh" \in Calls
  BY DEF Calls
<1>11. /\ CanBe("loaded", e) /\ CanBe("refresh", e)
       /\ disposed[e] => CanBe("handle", e)
  BY <1>3, <1>4, <1>6 DEF CanBe, Known, PreCalls, LoadCalls, ChildCalls
<1>12. /\ {"loaded", "handle", "refresh"} \cap ParentCalls = {}
       /\ {"loaded", "handle", "refresh"} \cap ReleaseCalls = {}
       /\ {"loaded", "handle", "refresh"} \cap ClaimCalls = {}
       /\ \A C \in Roles : /\ "handle" \notin C /\ "refresh" \notin C
                           /\ "loaded" \in C => Top(t).at \in C
  BY <1>1 DEF ParentCalls, ReleaseCalls, ClaimCalls, Roles, LoadCalls, PreCalls,
              ChildCalls
<1>13. ChildCalls' = ChildCalls
  BY DEF ChildCalls
<1>14. CASE disposed[e]
  <2>1. /\ \A C :
             /\ Has(C, e) => \/ Has(C, e)'
                             \/ Top(t).at \in C /\ {"loaded", "handle"} \cap C = {}
             /\ "loaded" \in C \/ "handle" \in C => Has(C, e)'
        /\ stack' \in [Threads -> Seq(Frames)]
    BY <1>1, <1>2, <1>5, <1>10, <1>14, Calling
  <2>2. Driven(e)'
    <3>1. /\ Has({"remove"}, e) => Has({"remove"}, e)'
          /\ Has({"handle", "unlist"}, e)'
      BY <1>1, <2>1
    <3>2. QED
      BY <1>3, <1>4, <1>6, <1>14, <3>1 DEF Driven
  <2>3. EntryFacts(e)'
    BY <1>3, <1>6, <1>7, <1>14 DEF EntryFacts, Known
  <2>4. Keeps(t, e) /\ TypeOK'
    BY <1>8, <1>9, <2>1, <2>2, <2>3 DEF Keeps
  <2>5. QED
    BY <1>1, <1>2, <1>3, <1>5, <1>6, <1>10, <1>11, <1>12, <1>14, <2>4, CallStep
<1>15. CASE ~disposed[e]
  <2>1. /\ \A a : Asks(a, e) => Asks(a, e)'
        /\ Swept(e)' <=> Swept(e)
        /\ stack' \in [Threads -> Seq(Frames)]
    <3>1. Continue(t, Both("loaded", "refresh", e))
      BY <1>5, <1>15
    <3>2. \A a : Asks(a, e) => Asks(a, e)'
      <4>1. StillAsks(e)
        BY <1>1, <1>2, <1>3, <1>10, <3>1, CallingKeepsAsks
      <4>2. QED
        BY <4>1 DEF StillAsks
    <3>3. "sweep" \notin {Top(t).at, "loaded", "refresh"} =>
             \A f : Swept(f)' <=> Swept(f)
      BY <1>1, <1>2, <1>10, <3>1, Calling
    <3>4. stack' \in [Threads -> Seq(Frames)]
      BY <1>1, <1>2, <1>10, <3>1, Calling
    <3>5. QED
      BY <1>1, <1>3, <3>2, <3>3, <3>4
  <2>2. ~deferred[e] /\ handle[e] = "handle" /\ slot'[e] = "handle"
    <3>1. ~Asks("store", e)
      BY <1>1, <1>2, StoreWaitsForNothing
    <3>2. ~Has({"attach", "install"}, e)
      <4>1. LoadCalls \in Roles /\ {"attach", "install"} \subseteq LoadCalls
        BY DEF Roles, LoadCalls, PreCalls, ChildCalls
      <4>2. QED
        BY <1>1, <1>2, <4>1, OnlyCall
    <3>3. ~deferred[e]
      BY <1>3, <1>15, <3>1, <3>2 DEF Driven
    <3>4. handle[e] \in {"none", "handle", "noop"}
      BY <1>1 DEF TypeOK, Links
    <3>5. QED
      BY <1>3, <1>4, <1>7, <1>15, <3>3, <3>4 DEF EntryFacts
  <2>3. Driven(e)'
    <3>1. /\ Swept(e)' <=> Swept(e)
          /\ \A a : Asks(a, e) => Asks(a, e)'
      BY <1>1, <1>3, <2>1
    <3> HIDE DEF ChildCalls
    <3>2. QED
      BY <1>3, <1>4, <1>6, <1>15, <2>2, <3>1 DEF Driven
  <2>4. EntryFacts(e)'
    BY <1>3, <1>4, <1>6, <1>15, <2>2 DEF EntryFacts, Known
  <2>5. Keeps(t, e) /\ TypeOK'
    BY <1>8, <1>9, <2>1, <2>3, <2>4 DEF Keeps
  <2>6. QED
    BY <1>1, <1>2, <1>3, <1>5, <1>6, <1>10, <1>11, <1>12, <1>15, <2>5, CallStep
<1>16. QED
  BY <1>14, <1>15

LEMMA LoadReturnsStep ==
    ASSUME AttachInv, NEW t \in Threads, LoadReturns(t)
    PROVE  AttachInv'
<1>1. /\ TypeOK /\ stack[t] # <<>> /\ Top(t).at = "loaded"
      /\ Top(t).at \in LoadCalls /\ Top(t).at \notin PreCalls \cup ClaimCalls
      /\ Top(t).at \in ChildCalls /\ Return(t)
  BY DEF AttachInv, LoadReturns, In, LoadCalls, PreCalls, ChildCalls, ClaimCalls
<1>2. PICK e \in Fibers : e = Top(t).f
  BY <1>1, LoadFacts
<1>3. /\ EntryFacts(e) /\ Driven(e) /\ e <= loads /\ Known(e)
      /\ Top(t).at \notin Disposer \cup Releasing
      /\ Has(ChildCalls, e)
  BY <1>1, <1>2, LoadFacts, TopFacts
<1>4. /\ outcome' = [outcome EXCEPT ![e] = "fiber"]
      /\ UNCHANGED <<loads, runtime, runtimes, claims, attached, driver, links,
                     entry, parent>>
  BY <1>2 DEF LoadReturns, Outcome
<1>5. /\ UNCHANGED <<loads, runtime, runtimes, claims, attached, parent>>
      /\ UNCHANGED <<disposed, busy, dirty, state, slot, handle>>
      /\ UNCHANGED <<tree, installed, deferred, once, handleOnce>>
  BY <1>4 DEF driver, links, entry
<1>6. /\ outcome' \in [Fibers -> {"none", "fiber", "error"}]
      /\ \A f \in Fibers : f # e => outcome'[f] = outcome[f]
      /\ loads' >= loads /\ loads \in Nat /\ e \in Nat
  BY <1>1, <1>4, <1>5, FiberNumbers DEF TypeOK
<1>7. /\ \A C : /\ Has(C, e) => Has(C, e)' \/ Top(t).at \in C
                /\ Has(C, e)' => Has(C, e)
      /\ \A a : Asks(a, e) => Asks(a, e)' \/ Top(t).at \in Releasing
      /\ Top(t).at # "sweep" => \A f : Swept(f)' <=> Swept(f)
      /\ stack' \in [Threads -> Seq(Frames)]
  BY <1>1, <1>2, Returned
<1>8. TypeOK'
  <2> HIDE DEF Frames, Links, OnceStates, Runtimes, Fibers, NoRuntime
  <2>1. QED
    BY <1>1, <1>5, <1>6, <1>7, TypeConstants DEF TypeOK
<1>9. Others(e) /\ KeepsTree(e) /\ KeepsFrames(t, e)
  BY <1>1, <1>5, <1>6 DEF Others, SameFiber, KeepsTree, KeepsFrames, Known
<1>10. EntryFacts(e)'
  BY <1>3, <1>5, <1>6 DEF EntryFacts, Known
<1>11. Driven(e)'
  <2>1. /\ Has({"remove"}, e) => Has({"remove"}, e)'
        /\ Has({"attach", "install", "store"}, e) =>
              Has({"attach", "install", "store"}, e)'
        /\ Has({"handle", "unlist"}, e) => Has({"handle", "unlist"}, e)'
        /\ Has({"attach", "install"}, e) => Has({"attach", "install"}, e)'
        /\ Has({"request"}, e)' => Has({"request"}, e)
        /\ Swept(e)' <=> Swept(e)
        /\ \A a : Asks(a, e) => Asks(a, e)'
    BY <1>1, <1>3, <1>7
  <2> HIDE DEF ChildCalls
  <2>2. QED
    BY <1>3, <1>5, <2>1 DEF Driven
<1>12. Keeps(t, e)
  BY <1>9, <1>10, <1>11 DEF Keeps
<1>13. QED
  BY <1>1, <1>2, <1>3, <1>5, <1>8, <1>12, ReturnStep

----------------------------------------------------------------------------
(* The entry and its handle. *)

\* A call that the entry e is in, whose fields are as they were but for those
\* of the entry and its handle.
LEMMA EntryCall ==
    ASSUME AttachInv, NEW t \in Threads, stack[t] # <<>>,
           Top(t).at \in {"handle", "unlist", "request", "once", "fromParent",
                          "onceDone"}
    PROVE  /\ TypeOK /\ Top(t).f \in Fibers
           /\ FrameFacts(Top(t)) /\ EntryFacts(Top(t).f) /\ Driven(Top(t).f)
           /\ Top(t).f <= loads
           /\ Top(t).at # "request" => installed[Top(t).f] /\ Known(Top(t).f)
           /\ Top(t).at \in {"handle", "unlist"} => disposed[Top(t).f]
           /\ Top(t).at \notin PreCalls \cup LoadCalls \cup ParentCalls \cup ClaimCalls
           /\ \A C \in Roles : Top(t).at \notin C
<1>1. /\ Top(t).at \notin PreCalls \cup LoadCalls \cup ParentCalls \cup ClaimCalls
      /\ \A C \in Roles : Top(t).at \notin C
      /\ Top(t).at # "request" => Top(t).at \notin UnknownCalls
  BY DEF Roles, LoadCalls, PreCalls, ChildCalls, ParentCalls, ClaimCalls, UnknownCalls
<1>2. /\ TypeOK /\ Top(t).f \in Fibers
      /\ FrameFacts(Top(t)) /\ EntryFacts(Top(t).f) /\ Driven(Top(t).f)
  BY <1>1, TopFacts DEF AttachInv
<1> HIDE DEF PreCalls, LoadCalls, ParentCalls, ClaimCalls, UnknownCalls
<1>3. QED
  BY <1>1, <1>2 DEF FrameFacts

\* A step that changes no field of the registry or of the driver.
LEMMA EntryKeeps ==
    ASSUME TypeOK, NEW e \in Fibers, NEW t \in Threads,
           EntryFacts(e),
           UNCHANGED <<registry, driver, handle, installed, parent>>,
           slot' \in [Fibers -> Links], deferred' \in [Fibers -> BOOLEAN],
           once' \in [Fibers -> OnceStates], handleOnce' \in [Fibers -> OnceStates],
           tree' \subseteq tree,
           \A f \in Fibers : f # e =>
              /\ slot'[f] = slot[f] /\ deferred'[f] = deferred[f]
              /\ once'[f] = once[f] /\ handleOnce'[f] = handleOnce[f]
              /\ f \in tree' <=> f \in tree
    PROVE  /\ Others(e) /\ KeepsTree(e) /\ KeepsFrames(t, e)
           /\ stack' \in [Threads -> Seq(Frames)] => TypeOK'
<1>1. /\ UNCHANGED <<loads, runtime, runtimes, claims, attached, outcome, parent>>
      /\ UNCHANGED <<disposed, busy, dirty, state, handle, installed>>
  BY DEF registry, driver
<1>2. loads' >= loads
  BY <1>1 DEF TypeOK
<1>3. Others(e) /\ KeepsTree(e)
  BY <1>1, <1>2 DEF Others, SameFiber, KeepsTree
<1>4. KeepsFrames(t, e)
  BY <1>1 DEF KeepsFrames, Known, EntryFacts
<1>5. ASSUME stack' \in [Threads -> Seq(Frames)]
      PROVE  TypeOK'
  <2>1. tree' \subseteq Fibers
    BY DEF TypeOK
  <2> HIDE DEF Frames, Links, OnceStates, Runtimes, Fibers, NoRuntime
  <2>2. QED
    BY <1>1, <1>5, <2>1, TypeConstants DEF TypeOK
<1>6. QED
  BY <1>3, <1>4, <1>5

LEMMA EnterHandleStep ==
    ASSUME AttachInv, NEW t \in Threads, EnterHandle(t)
    PROVE  AttachInv'
<1>1. stack[t] # <<>> /\ Top(t).at = "handle"
  BY DEF EnterHandle, In
<1>2. PICK e \in Fibers : e = Top(t).f
  BY <1>1, EntryCall
<1>3. /\ TypeOK /\ FrameFacts(Top(t)) /\ EntryFacts(e) /\ Driven(e)
      /\ e <= loads /\ Top(t).at \notin ClaimCalls
      /\ installed[e] /\ Known(e) /\ disposed[e]
  BY <1>1, <1>2, EntryCall
<1>4. Top(t).at \notin Disposer \cup ClaimCalls \cup Releasing \cup {"sweep"}
  BY <1>1, <1>3 DEF Disposer, Releasing
<1>5. /\ UNCHANGED <<registry, driver, links, tree, installed, deferred, once, parent>>
      /\ UNCHANGED <<registry, driver, handle, installed, parent>>
      /\ UNCHANGED <<loads, runtime, runtimes, claims, attached, outcome>>
      /\ UNCHANGED <<disposed, state, slot, tree, deferred, once>>
  BY DEF EnterHandle, registry, driver, links
<1>6. /\ slot' \in [Fibers -> Links] /\ deferred' \in [Fibers -> BOOLEAN]
      /\ once' \in [Fibers -> OnceStates] /\ tree' \subseteq tree
  BY <1>3, <1>5 DEF TypeOK
<1>7. CASE handle[e] = "noop" \/ handleOnce[e] = "done"
  <2>1. handleOnce' = handleOnce /\ Return(t)
    BY <1>2, <1>7 DEF EnterHandle
  <2>2. /\ \A C : /\ Has(C, e) => Has(C, e)' \/ Top(t).at \in C
                  /\ Has(C, e)' => Has(C, e)
        /\ Top(t).at # "sweep" => \A f : Swept(f)' <=> Swept(f)
        /\ stack' \in [Threads -> Seq(Frames)]
    BY <1>1, <1>2, <1>3, <2>1, Returned
  <2>3. handleOnce' \in [Fibers -> OnceStates]
    BY <1>3, <2>1 DEF TypeOK
  <2>4. /\ Others(e) /\ KeepsTree(e) /\ KeepsFrames(t, e)
        /\ stack' \in [Threads -> Seq(Frames)] => TypeOK'
    BY <1>3, <1>5, <1>6, <2>1, <2>3, EntryKeeps
  <2>5. EntryFacts(e)'
    BY <1>3, <1>5, <2>1 DEF EntryFacts, Known
  <2>6. Driven(e)'
    <3>1. /\ Has({"remove"}, e) => Has({"remove"}, e)'
          /\ e \notin tree
      BY <1>1, <1>3, <1>7, <2>2 DEF EntryFacts
    <3>2. QED
      BY <1>3, <1>5, <3>1 DEF Driven
  <2>7. Keeps(t, e)
    BY <2>4, <2>5, <2>6 DEF Keeps
  <2>8. QED
    BY <1>1, <1>2, <1>4, <1>5, <2>1, <2>2, <2>4, <2>7, ReturnStep
<1>8. CASE ~(handle[e] = "noop" \/ handleOnce[e] = "done")
  <2>1. /\ handleOnce' = [handleOnce EXCEPT ![e] = "running"]
        /\ Continue(t, Both("unlist", "request", e))
    BY <1>2, <1>8 DEF EnterHandle, Both
  <2>2. "unlist" \in Calls /\ "request" \in Calls
    BY DEF Calls
  <2>3. Continue(t, Both("unlist", "request", e))
    BY <2>1
  <2>4. /\ \A C :
             /\ Has(C, e) => \/ Has(C, e)'
                             \/ Top(t).at \in C /\ {"unlist", "request"} \cap C = {}
             /\ "unlist" \in C \/ "request" \in C => Has(C, e)'
        /\ stack' \in [Threads -> Seq(Frames)]
    BY <1>1, <1>2, <1>3, <2>2, <2>3, Calling
  <2>5. /\ handleOnce' \in [Fibers -> OnceStates]
        /\ handleOnce'[e] = "running"
        /\ \A f \in Fibers : f # e => handleOnce'[f] = handleOnce[f]
    BY <1>3, <2>1 DEF TypeOK, OnceStates
  <2>6. /\ Others(e) /\ KeepsTree(e) /\ KeepsFrames(t, e)
        /\ stack' \in [Threads -> Seq(Frames)] => TypeOK'
    BY <1>3, <1>5, <1>6, <2>5, EntryKeeps
  <2>7. EntryFacts(e)'
    BY <1>3, <1>5, <2>5 DEF EntryFacts, Known
  <2>8. Driven(e)'
    <3>1. /\ Has({"remove"}, e) => Has({"remove"}, e)'
          /\ Has({"handle", "unlist"}, e)'
      BY <1>1, <2>4
    <3>2. QED
      BY <1>3, <1>5, <3>1 DEF Driven
  <2>9. Keeps(t, e)
    BY <2>6, <2>7, <2>8 DEF Keeps
  <2>10. CanBe("unlist", e) /\ CanBe("request", e)
    BY <1>3, <1>5 DEF CanBe, Known, PreCalls, LoadCalls, ChildCalls
  <2>11. /\ "unlist" \notin ParentCalls \cup ReleaseCalls \cup ClaimCalls
         /\ "request" \notin ParentCalls \cup ClaimCalls
         /\ \A C \in Roles : "request" \notin C /\ "unlist" \notin C
    BY DEF ParentCalls, ReleaseCalls, ClaimCalls, Roles, LoadCalls, PreCalls, ChildCalls
  <2>12. QED
    BY <1>1, <1>2, <1>3, <1>4, <1>5, <2>2, <2>3, <2>4, <2>6, <2>9, <2>10, <2>11,
       CallStep
<1>9. QED
  BY <1>7, <1>8

LEMMA UnlistStep ==
    ASSUME AttachInv, NEW t \in Threads, Unlist(t)
    PROVE  AttachInv'
<1>1. stack[t] # <<>> /\ Top(t).at = "unlist" /\ Return(t)
  BY DEF Unlist, In
<1>2. PICK e \in Fibers : e = Top(t).f
  BY <1>1, EntryCall
<1>3. /\ TypeOK /\ EntryFacts(e) /\ Driven(e) /\ e <= loads
      /\ Top(t).at \notin ClaimCalls /\ installed[e] /\ Known(e) /\ disposed[e]
  BY <1>1, <1>2, EntryCall
<1>4. Top(t).at \notin Disposer \cup ClaimCalls \cup Releasing \cup {"sweep"}
  BY <1>1, <1>3 DEF Disposer, Releasing
<1>5. /\ tree' = tree \ {e} /\ handleOnce' = [handleOnce EXCEPT ![e] = "done"]
      /\ UNCHANGED <<registry, driver, handle, installed, parent>>
      /\ UNCHANGED <<loads, runtime, runtimes, claims, attached, outcome>>
      /\ UNCHANGED <<disposed, state, slot, deferred, once>>
  BY <1>2 DEF Unlist, registry, driver, links
<1>6. /\ slot' \in [Fibers -> Links] /\ deferred' \in [Fibers -> BOOLEAN]
      /\ once' \in [Fibers -> OnceStates] /\ tree' \subseteq tree
      /\ handleOnce' \in [Fibers -> OnceStates]
      /\ \A f \in Fibers : f # e => handleOnce'[f] = handleOnce[f]
  BY <1>3, <1>5 DEF TypeOK, OnceStates
<1>7. /\ Others(e) /\ KeepsTree(e) /\ KeepsFrames(t, e)
      /\ stack' \in [Threads -> Seq(Frames)] => TypeOK'
  BY <1>3, <1>5, <1>6, EntryKeeps
<1>8. /\ \A C : /\ Has(C, e) => Has(C, e)' \/ Top(t).at \in C
                /\ Has(C, e)' => Has(C, e)
      /\ Top(t).at # "sweep" => \A f : Swept(f)' <=> Swept(f)
      /\ stack' \in [Threads -> Seq(Frames)]
  BY <1>1, <1>2, <1>3, Returned
<1>9. EntryFacts(e)'
  BY <1>3, <1>5 DEF EntryFacts, Known
<1>10. Driven(e)'
  <2>1. Has({"remove"}, e) => Has({"remove"}, e)'
    BY <1>1, <1>8
  <2>2. QED
    BY <1>3, <1>5, <2>1 DEF Driven
<1>11. Keeps(t, e)
  BY <1>7, <1>9, <1>10 DEF Keeps
<1>12. QED
  BY <1>1, <1>2, <1>4, <1>5, <1>7, <1>8, <1>11, ReturnStep

LEMMA RequestDisposeStep ==
    ASSUME AttachInv, NEW t \in Threads, RequestDispose(t)
    PROVE  AttachInv'
<1>1. stack[t] # <<>> /\ Top(t).at = "request"
  BY DEF RequestDispose, In
<1>2. PICK e \in Fibers : e = Top(t).f
  BY <1>1, EntryCall
<1>3. /\ TypeOK /\ EntryFacts(e) /\ Driven(e) /\ e <= loads
      /\ Top(t).at \notin ClaimCalls
  BY <1>1, <1>2, EntryCall
<1>4. Top(t).at \notin Disposer \cup ClaimCalls \cup {"sweep"}
      /\ Top(t).at \in ReleaseCalls /\ Top(t).at \in Releasing
  BY <1>1, <1>3 DEF Disposer, ReleaseCalls, Releasing
<1>5. /\ UNCHANGED <<registry, driver, handle, installed, parent>>
      /\ UNCHANGED <<loads, runtime, runtimes, claims, attached, outcome>>
      /\ UNCHANGED <<disposed, state, slot, tree, once, handleOnce>>
  BY DEF RequestDispose, registry, driver, links
<1>6. /\ slot' \in [Fibers -> Links] /\ handleOnce' \in [Fibers -> OnceStates]
      /\ once' \in [Fibers -> OnceStates] /\ tree' \subseteq tree
  BY <1>3, <1>5 DEF TypeOK
<1>7. CASE installed[e]
  <2>1. deferred' = deferred /\ Goto(t, "once")
    BY <1>2, <1>7 DEF RequestDispose
  <2>2. "once" \in Calls
    BY DEF Calls
  <2>3. /\ \A C :
             /\ Has(C, e) => Has(C, e)' \/ (Top(t).at \in C /\ "once" \notin C)
             /\ Has(C, e)' => Has(C, e) \/ "once" \in C
             /\ "once" \in C => Has(C, e)'
        /\ \A a : Asks(a, e) => \/ Asks(a, e)'
                                \/ Top(t).at \in Releasing /\ "once" \notin Releasing
        /\ Top(t).at # "sweep" /\ "once" # "sweep" => \A f : Swept(f)' <=> Swept(f)
        /\ stack' \in [Threads -> Seq(Frames)]
    BY <1>1, <1>2, <1>3, <2>1, <2>2, GoneTo
  <2>4. deferred' \in [Fibers -> BOOLEAN]
    BY <1>3, <2>1 DEF TypeOK
  <2>5. /\ Others(e) /\ KeepsTree(e) /\ KeepsFrames(t, e)
        /\ stack' \in [Threads -> Seq(Frames)] => TypeOK'
    BY <1>3, <1>5, <1>6, <2>1, <2>4, EntryKeeps
  <2>6. EntryFacts(e)' /\ Known(e)
    BY <1>3, <1>5, <1>7, <2>1 DEF EntryFacts, Known
  <2>7. Driven(e)'
    <3>1. /\ Has({"remove"}, e) => Has({"remove"}, e)'
          /\ Has({"attach", "install", "store"}, e) =>
                Has({"attach", "install", "store"}, e)'
          /\ Has({"handle", "unlist"}, e) => Has({"handle", "unlist"}, e)'
          /\ Has({"attach", "install"}, e) => Has({"attach", "install"}, e)'
          /\ Has(ChildCalls, e)' => Has(ChildCalls, e)
          /\ Has({"request"}, e)' => Has({"request"}, e)
          /\ Swept(e)' <=> Swept(e)
      BY <1>1, <2>3 DEF ChildCalls
    <3>2. \A a : Asks(a, e) => Asks(a, e)'
      BY <2>3 DEF Releasing
    <3>3. QED
      BY <1>3, <1>5, <2>1, <3>1, <3>2, DrivenKeeps
  <2>8. Keeps(t, e)
    BY <2>5, <2>6, <2>7 DEF Keeps
  <2>9. CanBe("once", e)
    BY <1>5, <1>7, <2>6 DEF CanBe, Known, PreCalls, LoadCalls, ChildCalls
  <2>10. /\ "once" \notin ParentCalls \cup ClaimCalls
         /\ \A C \in Roles : "once" \notin C
    BY DEF ParentCalls, ClaimCalls, Roles, LoadCalls, PreCalls, ChildCalls
  <2>11. KeepsRecord(t, "once")
    BY <1>4, <1>5, <2>10 DEF KeepsRecord
  <2>12. QED
    BY <1>1, <1>2, <1>3, <1>4, <2>1, <2>2, <2>3, <2>5, <2>8, <2>9, <2>10, <2>11, GoStep
<1>8. CASE ~installed[e]
  <2>1. deferred' = [deferred EXCEPT ![e] = TRUE] /\ Return(t)
    BY <1>2, <1>8 DEF RequestDispose
  <2>2. /\ \A C : /\ Has(C, e) => Has(C, e)' \/ Top(t).at \in C
                  /\ Has(C, e)' => Has(C, e)
        /\ Top(t).at # "sweep" => \A f : Swept(f)' <=> Swept(f)
        /\ stack' \in [Threads -> Seq(Frames)]
    BY <1>1, <1>2, <1>3, <2>1, Returned
  <2>3. /\ deferred' \in [Fibers -> BOOLEAN] /\ deferred'[e] = TRUE
        /\ \A f \in Fibers : f # e => deferred'[f] = deferred[f]
    BY <1>3, <2>1 DEF TypeOK
  <2>4. /\ Others(e) /\ KeepsTree(e) /\ KeepsFrames(t, e)
        /\ stack' \in [Threads -> Seq(Frames)] => TypeOK'
    BY <1>3, <1>5, <1>6, <2>3, EntryKeeps
  <2>5. parent # "open" /\ e \notin tree
    <3>1. ~Has({"unlist"}, e)
      BY <1>8, NoSuchCall
    <3>2. QED
      BY <1>1, <1>2, <1>4, <3>1, TopFacts
  <2>6. EntryFacts(e)'
    <3>1. e <= loads /\ loads \in Nat /\ e \in Nat
      BY <1>3, FiberNumbers DEF TypeOK
    <3>2. QED
      BY <1>3, <1>5, <2>3, <2>5, <3>1 DEF EntryFacts, Known
  <2>7. Driven(e)'
    <3>1. Has({"request"}, e)
      BY <1>1, <1>2, TopFacts
    <3>2. Has({"attach", "install"}, e)
      BY <1>3, <1>8, <3>1 DEF Driven
    <3>3. /\ Has({"remove"}, e) => Has({"remove"}, e)'
          /\ Has({"attach", "install"}, e)'
      BY <1>1, <2>2, <3>2
    <3>4. QED
      BY <1>3, <1>5, <2>3, <2>5, <3>3 DEF Driven
  <2>8. Keeps(t, e)
    BY <2>4, <2>6, <2>7 DEF Keeps
  <2>9. QED
    BY <1>1, <1>2, <1>4, <1>5, <2>1, <2>2, <2>4, <2>8, ReturnStep
<1>9. QED
  BY <1>7, <1>8

LEMMA EnterOnceStep ==
    ASSUME AttachInv, NEW t \in Threads, EnterOnce(t)
    PROVE  AttachInv'
<1>1. stack[t] # <<>> /\ Top(t).at = "once"
  BY DEF EnterOnce, In
<1>2. PICK e \in Fibers : e = Top(t).f
  BY <1>1, EntryCall
<1>3. /\ TypeOK /\ EntryFacts(e) /\ Driven(e) /\ e <= loads
      /\ Top(t).at \notin ClaimCalls /\ installed[e] /\ Known(e)
  BY <1>1, <1>2, EntryCall
<1>4. Top(t).at \notin Disposer \cup ClaimCalls \cup {"sweep"}
      /\ Top(t).at \in ReleaseCalls /\ Top(t).at \in Releasing
  BY <1>1, <1>3 DEF Disposer, ReleaseCalls, Releasing
<1>5. /\ UNCHANGED <<registry, driver, handle, installed, parent>>
      /\ UNCHANGED <<loads, runtime, runtimes, claims, attached, outcome>>
      /\ UNCHANGED <<disposed, state, slot, tree, deferred, handleOnce>>
  BY DEF EnterOnce, registry, driver, links
<1>6. /\ slot' \in [Fibers -> Links] /\ handleOnce' \in [Fibers -> OnceStates]
      /\ deferred' \in [Fibers -> BOOLEAN] /\ tree' \subseteq tree
  BY <1>3, <1>5 DEF TypeOK
<1>7. CASE once[e] = "done" /\ once' = once /\ Return(t)
  <2>1. once' \in [Fibers -> OnceStates] /\ disposed[e]
    BY <1>3, <1>7 DEF TypeOK, EntryFacts
  <2>2. /\ \A C : /\ Has(C, e) => Has(C, e)' \/ Top(t).at \in C
                  /\ Has(C, e)' => Has(C, e)
        /\ Top(t).at # "sweep" => \A f : Swept(f)' <=> Swept(f)
        /\ stack' \in [Threads -> Seq(Frames)]
    BY <1>1, <1>2, <1>3, <1>7, Returned
  <2>3. /\ Others(e) /\ KeepsTree(e) /\ KeepsFrames(t, e)
        /\ stack' \in [Threads -> Seq(Frames)] => TypeOK'
    BY <1>3, <1>5, <1>6, <1>7, <2>1, EntryKeeps
  <2>4. EntryFacts(e)'
    BY <1>3, <1>5, <1>7 DEF EntryFacts, Known
  <2>5. Driven(e)'
    <3>1. /\ Has({"remove"}, e) => Has({"remove"}, e)'
          /\ Has({"attach", "install", "store"}, e) =>
                Has({"attach", "install", "store"}, e)'
          /\ Has({"handle", "unlist"}, e) => Has({"handle", "unlist"}, e)'
          /\ Has({"attach", "install"}, e) => Has({"attach", "install"}, e)'
          /\ Has(ChildCalls, e)' => Has(ChildCalls, e)
          /\ Has({"request"}, e)' => Has({"request"}, e)
          /\ Swept(e)' <=> Swept(e)
      BY <1>1, <2>2
    <3>2. QED
      BY <1>3, <1>5, <2>1, <3>1, DrivenKeeps
  <2>6. Keeps(t, e)
    BY <2>3, <2>4, <2>5 DEF Keeps
  <2>7. QED
    BY <1>1, <1>2, <1>4, <1>5, <1>7, <2>2, <2>3, <2>6, ReturnStep
<1>8. CASE /\ once[e] = "new" /\ once' = [once EXCEPT ![e] = "running"]
           /\ Continue(t, Both("onceDone", "fromParent", e))
  <2>1. "onceDone" \in Calls /\ "fromParent" \in Calls
    BY DEF Calls
  <2>2. Continue(t, Both("onceDone", "fromParent", e))
    BY <1>8
  <2>3. /\ \A C :
             /\ Has(C, e) => \/ Has(C, e)'
                             \/ Top(t).at \in C /\ {"onceDone", "fromParent"} \cap C = {}
             /\ Has(C, e)' => Has(C, e) \/ "onceDone" \in C \/ "fromParent" \in C
        /\ "sweep" \notin {Top(t).at, "onceDone", "fromParent"} =>
             \A f : Swept(f)' <=> Swept(f)
        /\ stack' \in [Threads -> Seq(Frames)]
    BY <1>1, <1>2, <1>3, <2>1, <2>2, Calling
  <2>4. StillAsks(e)
    <3>1. "onceDone" \in Releasing
      BY DEF Releasing
    <3>2. QED
      BY <1>1, <1>2, <1>3, <2>1, <2>2, <3>1, CallingKeepsAsks
  <2>5. /\ once' \in [Fibers -> OnceStates] /\ once'[e] = "running"
        /\ \A f \in Fibers : f # e => once'[f] = once[f]
    BY <1>3, <1>8 DEF TypeOK, OnceStates
  <2>6. /\ Others(e) /\ KeepsTree(e) /\ KeepsFrames(t, e)
        /\ stack' \in [Threads -> Seq(Frames)] => TypeOK'
    BY <1>3, <1>5, <1>6, <2>5, EntryKeeps
  <2>7. EntryFacts(e)'
    BY <1>3, <1>5, <2>5 DEF EntryFacts, Known
  <2>8. Driven(e)'
    <3>1. /\ Has({"remove"}, e) => Has({"remove"}, e)'
          /\ Has({"attach", "install", "store"}, e) =>
                Has({"attach", "install", "store"}, e)'
          /\ Has({"handle", "unlist"}, e) => Has({"handle", "unlist"}, e)'
          /\ Has({"attach", "install"}, e) => Has({"attach", "install"}, e)'
          /\ Has({"request"}, e)' => Has({"request"}, e)
          /\ Swept(e)' <=> Swept(e)
      BY <1>1, <2>3
    <3>2. Has(ChildCalls, e)' => Has(ChildCalls, e)
      <4>1. "onceDone" \notin ChildCalls /\ "fromParent" \notin ChildCalls
            /\ ChildCalls' = ChildCalls
        BY DEF ChildCalls
      <4> HIDE DEF ChildCalls
      <4>2. QED
        BY <2>3, <4>1
    <3>3. /\ Asks("sweep", e) => Asks("sweep", e)'
          /\ Asks("store", e) => Asks("store", e)'
      BY <2>4 DEF StillAsks
    <3>4. QED
      BY <1>3, <1>5, <3>1, <3>2, <3>3, DrivenKeeps
  <2>9. Keeps(t, e)
    BY <2>6, <2>7, <2>8 DEF Keeps
  <2>10. CanBe("onceDone", e) /\ CanBe("fromParent", e)
    BY <1>3, <1>5 DEF CanBe, Known, PreCalls, LoadCalls, ChildCalls
  <2>11. /\ "onceDone" \notin ParentCalls \cup ReleaseCalls \cup ClaimCalls
         /\ "fromParent" \notin ParentCalls \cup ClaimCalls
         /\ "fromParent" \in Disposer
         /\ \A C \in Roles : "onceDone" \notin C /\ "fromParent" \notin C
    BY DEF ParentCalls, ReleaseCalls, ClaimCalls, Roles, LoadCalls, PreCalls,
           ChildCalls, Disposer
  <2>12. QED
    BY <1>1, <1>2, <1>3, <1>4, <1>5, <2>1, <2>2, <2>3, <2>6, <2>9, <2>10, <2>11,
       CallStep
<1>9. QED
  BY <1>2, <1>7, <1>8 DEF EnterOnce, Both

LEMMA DisposeFromParentStep ==
    ASSUME AttachInv, NEW t \in Threads, DisposeFromParent(t)
    PROVE  AttachInv'
<1>1. stack[t] # <<>> /\ Top(t).at = "fromParent" /\ Goto(t, "dispose")
  BY DEF DisposeFromParent, In
<1>2. PICK e \in Fibers : e = Top(t).f
  BY <1>1, EntryCall
<1>3. /\ TypeOK /\ EntryFacts(e) /\ Driven(e) /\ e <= loads
      /\ Top(t).at \notin ClaimCalls /\ installed[e] /\ Known(e)
  BY <1>1, <1>2, EntryCall
<1>4. Top(t).at \notin ClaimCalls \cup Releasing \cup {"sweep"}
      /\ Top(t).at \in ReleaseCalls
  BY <1>1, <1>3 DEF ReleaseCalls, Releasing
<1>5. /\ slot' = [slot EXCEPT ![e] = "none"]
      /\ UNCHANGED <<registry, driver, handle, installed, parent>>
      /\ UNCHANGED <<loads, runtime, runtimes, claims, attached, outcome>>
      /\ UNCHANGED <<disposed, state, tree, deferred, once, handleOnce>>
  BY <1>2 DEF DisposeFromParent, registry, driver, entry
<1>6. /\ slot' \in [Fibers -> Links] /\ handleOnce' \in [Fibers -> OnceStates]
      /\ deferred' \in [Fibers -> BOOLEAN] /\ tree' \subseteq tree
      /\ once' \in [Fibers -> OnceStates] /\ slot'[e] = "none"
      /\ \A f \in Fibers : f # e => slot'[f] = slot[f]
  BY <1>3, <1>5 DEF TypeOK, Links
<1>7. /\ Others(e) /\ KeepsTree(e) /\ KeepsFrames(t, e)
      /\ stack' \in [Threads -> Seq(Frames)] => TypeOK'
  BY <1>3, <1>5, <1>6, EntryKeeps
<1>8. "dispose" \in Calls
  BY DEF Calls
<1>9. /\ \A C :
           /\ Has(C, e) => Has(C, e)' \/ (Top(t).at \in C /\ "dispose" \notin C)
           /\ Has(C, e)' => Has(C, e) \/ "dispose" \in C
           /\ "dispose" \in C => Has(C, e)'
      /\ \A a : Asks(a, e) => \/ Asks(a, e)'
                              \/ Top(t).at \in Releasing /\ "dispose" \notin Releasing
      /\ Top(t).at # "sweep" /\ "dispose" # "sweep" => \A f : Swept(f)' <=> Swept(f)
      /\ stack' \in [Threads -> Seq(Frames)]
  BY <1>1, <1>2, <1>3, <1>8, GoneTo
<1>10. EntryFacts(e)'
  BY <1>3, <1>5, <1>6 DEF EntryFacts, Known
<1>11. Driven(e)'
  <2>1. /\ Has({"remove"}, e) => Has({"remove"}, e)'
        /\ Has({"attach", "install", "store"}, e) =>
              Has({"attach", "install", "store"}, e)'
        /\ Has({"handle", "unlist"}, e) => Has({"handle", "unlist"}, e)'
        /\ Has({"attach", "install"}, e) => Has({"attach", "install"}, e)'
        /\ Has({"unlist"}, e) => Has({"handle", "unlist"}, e)'
        /\ Has({"request"}, e)' => Has({"request"}, e)
        /\ Swept(e)' <=> Swept(e)
    <3>1. Has({"unlist"}, e) => Has({"handle", "unlist"}, e)
      BY DEF Has
    <3>2. QED
      BY <1>1, <1>9, <3>1
  <2>2. Has(ChildCalls, e)' => Has(ChildCalls, e)
    <3>1. "dispose" \notin ChildCalls /\ ChildCalls' = ChildCalls
      BY DEF ChildCalls
    <3> HIDE DEF ChildCalls
    <3>2. QED
      BY <1>9, <3>1
  <2>3. \A a : Asks(a, e) => Asks(a, e)'
    BY <1>4, <1>9
  <2>4. e \in tree => Has({"unlist"}, e)
    BY <1>1, <1>2, <1>4, TopFacts
  <2>5. ChildCalls' = ChildCalls
    BY DEF ChildCalls
  <2> HIDE DEF ChildCalls
  <2>6. QED
    BY <1>3, <1>5, <2>1, <2>2, <2>3, <2>4, <2>5 DEF Driven
<1>12. Keeps(t, e)
  BY <1>7, <1>10, <1>11 DEF Keeps
<1>13. CanBe("dispose", e)
  BY <1>3, <1>5 DEF CanBe, Known, PreCalls, LoadCalls, ChildCalls
<1>14. /\ "dispose" \notin ParentCalls \cup ClaimCalls \cup ReleaseCalls
       /\ "dispose" \in Disposer
       /\ \A C \in Roles : "dispose" \notin C
  BY DEF ParentCalls, ClaimCalls, ReleaseCalls, Roles, LoadCalls, PreCalls,
         ChildCalls, Disposer
<1>15. KeepsRecord(t, "dispose")
  BY <1>4, <1>5, <1>14 DEF KeepsRecord
<1>16. QED
  BY <1>1, <1>2, <1>3, <1>7, <1>8, <1>9, <1>12, <1>13, <1>14, <1>15, GoStep

LEMMA LeaveOnceStep ==
    ASSUME AttachInv, NEW t \in Threads, LeaveOnce(t)
    PROVE  AttachInv'
<1>1. stack[t] # <<>> /\ Top(t).at = "onceDone" /\ Return(t)
  BY DEF LeaveOnce, In
<1>2. PICK e \in Fibers : e = Top(t).f
  BY <1>1, EntryCall
<1>3. /\ TypeOK /\ EntryFacts(e) /\ Driven(e) /\ e <= loads
      /\ Top(t).at \notin ClaimCalls /\ installed[e] /\ Known(e)
  BY <1>1, <1>2, EntryCall
<1>4. /\ Top(t).at \notin Disposer \cup ClaimCalls \cup {"sweep"}
      /\ disposed[e]
  BY <1>1, <1>2, <1>3, TopFacts DEF Disposer
<1>5. /\ once' = [once EXCEPT ![e] = "done"]
      /\ UNCHANGED <<registry, driver, handle, installed, parent>>
      /\ UNCHANGED <<loads, runtime, runtimes, claims, attached, outcome>>
      /\ UNCHANGED <<disposed, state, slot, tree, deferred, handleOnce>>
  BY <1>2 DEF LeaveOnce, registry, driver, links
<1>6. /\ slot' \in [Fibers -> Links] /\ handleOnce' \in [Fibers -> OnceStates]
      /\ deferred' \in [Fibers -> BOOLEAN] /\ tree' \subseteq tree
      /\ once' \in [Fibers -> OnceStates] /\ once'[e] = "done"
      /\ \A f \in Fibers : f # e => once'[f] = once[f]
  BY <1>3, <1>5 DEF TypeOK, OnceStates
<1>7. /\ Others(e) /\ KeepsTree(e) /\ KeepsFrames(t, e)
      /\ stack' \in [Threads -> Seq(Frames)] => TypeOK'
  BY <1>3, <1>5, <1>6, EntryKeeps
<1>8. /\ \A C : /\ Has(C, e) => Has(C, e)' \/ Top(t).at \in C
                /\ Has(C, e)' => Has(C, e)
      /\ Top(t).at # "sweep" => \A f : Swept(f)' <=> Swept(f)
      /\ stack' \in [Threads -> Seq(Frames)]
  BY <1>1, <1>2, <1>3, Returned
<1>9. EntryFacts(e)'
  BY <1>3, <1>4, <1>5, <1>6 DEF EntryFacts, Known
<1>10. Driven(e)'
  <2>1. /\ Has({"remove"}, e) => Has({"remove"}, e)'
        /\ Has({"attach", "install", "store"}, e) =>
              Has({"attach", "install", "store"}, e)'
        /\ Has({"handle", "unlist"}, e) => Has({"handle", "unlist"}, e)'
        /\ Has({"attach", "install"}, e) => Has({"attach", "install"}, e)'
        /\ Has(ChildCalls, e)' => Has(ChildCalls, e)
        /\ Has({"request"}, e)' => Has({"request"}, e)
        /\ Swept(e)' <=> Swept(e)
    BY <1>1, <1>8
  <2>2. QED
    BY <1>3, <1>4, <1>5, <2>1, DrivenKeeps
<1>11. Keeps(t, e)
  BY <1>7, <1>9, <1>10 DEF Keeps
<1>12. QED
  BY <1>1, <1>2, <1>4, <1>5, <1>7, <1>8, <1>11, ReturnStep

----------------------------------------------------------------------------
(* The teardown of the parent. *)

\* A step of the teardown that changes no field of a fiber.
LEMMA ParentStep ==
    ASSUME AttachInv, NEW t \in Threads, NEW k, NEW c, Changes(t, k, c),
           \A i \in 1..Len(c) :
              /\ i = 1 /\ c[i].f = Parent /\ c[i].at \in ParentCalls
              /\ FrameFacts(c[i])',
           k < Len(stack[t]) => Top(t).at \in ParentCalls /\ Top(t).f = Parent,
           k < Len(stack[t]) \/ ~Has(ParentCalls, Parent),
           UNCHANGED <<registry, driver, links, installed, deferred, once, handleOnce>>,
           tree' \subseteq tree, parent' \in {"closing", "unloading", "torn"},
           StaysListed(Parent), parent' = "torn" => tree' = {}
    PROVE  AttachInv'
<1>1. TypeOK /\ RecordFits
  BY DEF AttachInv
<1>2. /\ UNCHANGED <<loads, runtime, runtimes, claims, attached, outcome>>
      /\ UNCHANGED <<disposed, busy, dirty, state, slot, handle>>
      /\ UNCHANGED <<installed, deferred, once, handleOnce>>
  BY DEF registry, driver, links
<1>3. IsFor(t, k, c, Parent)
  BY DEF IsFor
<1>4. Others(Parent)
  <2>1. loads' >= loads
    BY <1>1, <1>2 DEF TypeOK
  <2>2. QED
    BY <1>2, <2>1 DEF Others, SameFiber
<1>5. TypeOK'
  <2>1. stack' \in [Threads -> Seq(Frames)]
    BY DEF Changes
  <2>2. tree' \subseteq Fibers
    BY <1>1 DEF TypeOK
  <2> HIDE DEF Frames, Links, OnceStates, Runtimes, Fibers, NoRuntime
  <2>3. QED
    BY <1>1, <1>2, <2>1, <2>2, TypeConstants DEF TypeOK
<1>6. \A g \in Frames :
        Has({g.at}, Parent) /\ FrameFacts(g) /\ g.f = Parent /\ Apart(t, k, g)
          => FrameFacts(g)'
  <2> SUFFICES ASSUME NEW g \in Frames, Has({g.at}, Parent), FrameFacts(g),
                      g.f = Parent, Apart(t, k, g)
               PROVE  FALSE
    OBVIOUS
  <2>1. g.at \in ParentCalls /\ ParentCalls \in Roles
    BY DEF FrameFacts, Roles
  <2>2. Has(ParentCalls, Parent)
    BY <2>1 DEF Has
  <2>3. QED
    BY <2>1, <2>2 DEF Apart
<1>7. TakesRoles(t, k, c)
  <2>1. ASSUME NEW C \in Roles, NEW i \in 1..Len(c), c[i].at \in C
        PROVE  C = ParentCalls
    BY <2>1 DEF Roles, LoadCalls, PreCalls, ChildCalls, ParentCalls
  <2>2. QED
    BY <2>1 DEF TakesRoles, Drops
<1>8. AsksFor(t, k, c) /\ DisposesOn(t, k, c)
  <2>1. /\ \A i \in 1..Len(c) : c[i].at \notin ReleaseCalls /\ c[i].at # "onceDone"
        /\ k < Len(stack[t]) => Top(t).at \notin Disposer
    BY DEF ParentCalls, ReleaseCalls, Disposer
  <2>2. QED
    BY <2>1 DEF AsksFor, DisposesOn
<1>9. RecordFits'
  <2>1. \A f \in Fibers : f # Parent
    BY FiberNumbers
  <2>2. \A f \in Fibers : Has(ClaimCalls, f)' <=> Has(ClaimCalls, f)
    BY <1>1, <1>3, <2>1, HasOthers
  <2>3. QED
    BY <1>1, <1>2, <2>2, RuntimeStays
<1>10. \A i \in 1..Len(c) : FrameFacts(c[i])'
  OBVIOUS
<1>11. Parent \notin Fibers
  BY FiberNumbers
<1>12. QED
  BY <1>3, <1>4, <1>5, <1>6, <1>7, <1>8, <1>9, <1>10, <1>11, StepInvariant

\* The frame g is that of the teardown.
LEMMA ParentFacts ==
    ASSUME NEW g, g.f = Parent, g.at \in ParentCalls, TypeOK',
           g.at = "teardown" => parent' = "closing",
           g.at \in {"clear", "sweep"} => parent' = "unloading",
           g.at = "sweep" => tree' = {},
           g.todo # {} => g.at = "sweep",
           \A f \in g.todo : f <= loads'
    PROVE  FrameFacts(g)'
<1>1. /\ g.at \notin LoadCalls \cup PreCalls /\ g.at \in UnknownCalls
      /\ g.at \notin {"store", "handle", "unlist", "once", "fromParent",
                      "onceDone", "remove", "finalize"}
  BY DEF LoadCalls, PreCalls, ChildCalls, ParentCalls, UnknownCalls
<1>2. /\ PreCalls' = PreCalls /\ LoadCalls' = LoadCalls
      /\ ParentCalls' = ParentCalls /\ UnknownCalls' = UnknownCalls
  BY DEF PreCalls, LoadCalls, ChildCalls, ParentCalls, UnknownCalls
<1>3. Parent' = Parent /\ Parent <= loads'
  BY DEF Parent, TypeOK
<1> HIDE DEF PreCalls, LoadCalls, ParentCalls, UnknownCalls, Parent
<1>4. QED
  BY <1>1, <1>2, <1>3 DEF FrameFacts

\* One teardown goes on until the parent is torn down.
LEMMA NoTeardown ==
    ASSUME AttachInv, parent \in {"open", "torn"}
    PROVE  ~Has(ParentCalls, Parent)
<1> SUFFICES ASSUME NEW u \in Threads, NEW i \in 1..Len(stack[u]),
                    stack[u][i].at \in ParentCalls
             PROVE  FALSE
  BY DEF Has
<1>1. FrameFacts(stack[u][i])
  BY DEF AttachInv, CallsFit
<1>2. QED
  BY <1>1 DEF FrameFacts, ParentCalls

LEMMA DisposeParentStep ==
    ASSUME AttachInv, NEW t \in Threads, DisposeParent(t)
    PROVE  AttachInv'
<1>1. /\ TypeOK /\ stack[t] = <<>> /\ parent = "open" /\ parent' = "closing"
      /\ Start(t, "teardown", Parent)
      /\ UNCHANGED <<registry, driver, links, entry>>
  BY DEF AttachInv, DisposeParent
<1>2. "teardown" \in Calls /\ Parent \in Fibers \cup {Parent}
  BY DEF Calls
<1>3. PICK g \in Frames :
        Changes(t, Len(stack[t]), <<g>>) /\ IsCall(g, "teardown", Parent)
  BY <1>1, <1>2, Starting
<1>4. g.at = "teardown" /\ g.f = Parent /\ g.todo = {}
  BY <1>3 DEF IsCall
<1>5. PICK c : c = <<g>> /\ Len(c) = 1 /\ c[1] = g
  BY Single
<1> DEFINE k == Len(stack[t])
<1>6. Changes(t, k, c)
  BY <1>3, <1>5
<1>7. ~(k < Len(stack[t]))
  BY <1>1, Typing
<1> HIDE DEF k
<1>8. UNCHANGED <<tree, installed, deferred, once, handleOnce, loads>>
  BY <1>1 DEF entry, registry
<1>9. /\ stack' \in [Threads -> Seq(Frames)]
      /\ UNCHANGED <<loads, runtime, runtimes, claims, attached, outcome>>
      /\ UNCHANGED <<disposed, busy, dirty, state, slot, handle>>
  BY <1>1, <1>6 DEF Changes, registry, driver, links
<1>10. TypeOK'
  <2> HIDE DEF Frames, Links, OnceStates, Runtimes, Fibers, NoRuntime
  <2>1. QED
    BY <1>1, <1>8, <1>9, TypeConstants DEF TypeOK
<1>11. g.at \in ParentCalls
  BY <1>4 DEF ParentCalls
<1>12. FrameFacts(g)'
  BY <1>1, <1>4, <1>10, <1>11, ParentFacts
<1>13. \A i \in 1..Len(c) : i = 1 /\ c[i] = g
  BY <1>5
<1>14. \A f : Swept(f)' <=> Swept(f)
  BY <1>1, <1>4, <1>6, <1>7, <1>13, SweptSteps
<1>15. StaysListed(Parent)
  BY <1>8, <1>14 DEF StaysListed
<1>16. \A i \in 1..Len(c) :
         /\ i = 1 /\ c[i].f = Parent /\ c[i].at \in ParentCalls
         /\ FrameFacts(c[i])'
  <2> TAKE i \in 1..Len(c)
  <2>1. i = 1 /\ c[i] = g
    BY <1>13
  <2>2. QED
    BY <1>4, <1>11, <1>12, <2>1
<1>17. ~Has(ParentCalls, Parent)
  BY <1>1, NoTeardown
<1>18. QED
  BY <1>1, <1>6, <1>7, <1>8, <1>15, <1>16, <1>17, ParentStep

LEMMA SetUnloadingStep ==
    ASSUME AttachInv, NEW t \in Threads, SetUnloading(t)
    PROVE  AttachInv'
<1>1. /\ TypeOK /\ stack[t] # <<>> /\ Top(t).at = "teardown"
      /\ parent' = "unloading" /\ Goto(t, "clear")
      /\ UNCHANGED <<registry, driver, links, entry>>
  BY DEF AttachInv, SetUnloading, In
<1>2. /\ Top(t).at \in ParentCalls /\ Top(t).f = Parent /\ Top(t).todo = {}
  <2>1. Top(t).at \in ParentCalls
    BY <1>1 DEF ParentCalls
  <2>2. FrameFacts(Top(t)) /\ Top(t).f = Parent
    BY <1>1, <2>1, TopFacts
  <2>3. QED
    BY <1>1, <2>1, <2>2 DEF FrameFacts
<1>3. "clear" \in Calls
  BY DEF Calls
<1>4. PICK g \in Frames :
        /\ Changes(t, Len(stack[t]) - 1, <<g>>)
        /\ g.at = "clear" /\ g.f = Top(t).f /\ g.todo = Top(t).todo
  BY <1>1, <1>3, Going
<1>5. PICK c : c = <<g>> /\ Len(c) = 1 /\ c[1] = g
  BY Single
<1> DEFINE k == Len(stack[t]) - 1
<1>6. Changes(t, k, c)
  BY <1>4, <1>5
<1>7. k < Len(stack[t])
  BY <1>1, TopTyping
<1> HIDE DEF k
<1>8. UNCHANGED <<tree, installed, deferred, once, handleOnce, loads>>
  BY <1>1 DEF entry, registry
<1>9. /\ stack' \in [Threads -> Seq(Frames)]
      /\ UNCHANGED <<loads, runtime, runtimes, claims, attached, outcome>>
      /\ UNCHANGED <<disposed, busy, dirty, state, slot, handle>>
  BY <1>1, <1>6 DEF Changes, registry, driver, links
<1>10. TypeOK'
  <2> HIDE DEF Frames, Links, OnceStates, Runtimes, Fibers, NoRuntime
  <2>1. QED
    BY <1>1, <1>8, <1>9, TypeConstants DEF TypeOK
<1>11. g.at \in ParentCalls
  BY <1>4 DEF ParentCalls
<1>12. FrameFacts(g)'
  BY <1>1, <1>2, <1>4, <1>10, <1>11, ParentFacts
<1>13. \A i \in 1..Len(c) : i = 1 /\ c[i] = g
  BY <1>5
<1>14. \A f : Swept(f)' <=> Swept(f)
  BY <1>1, <1>4, <1>6, <1>13, SweptSteps
<1>15. StaysListed(Parent)
  BY <1>8, <1>14 DEF StaysListed
<1>16. \A i \in 1..Len(c) :
         /\ i = 1 /\ c[i].f = Parent /\ c[i].at \in ParentCalls
         /\ FrameFacts(c[i])'
  <2> TAKE i \in 1..Len(c)
  <2>1. i = 1 /\ c[i] = g
    BY <1>13
  <2>2. QED
    BY <1>2, <1>4, <1>11, <1>12, <2>1
<1>17. QED
  BY <1>1, <1>2, <1>6, <1>7, <1>8, <1>15, <1>16, ParentStep

LEMMA ClearStep ==
    ASSUME AttachInv, NEW t \in Threads, Clear(t)
    PROVE  AttachInv'
<1> DEFINE k == Len(stack[t]) - 1
           new == [at |-> "sweep", f |-> Parent, todo |-> tree]
<1>1. /\ TypeOK /\ stack[t] # <<>> /\ Top(t).at = "clear"
      /\ tree' = {} /\ Continue(t, <<new>>)
      /\ UNCHANGED <<registry, driver, links, installed, deferred, once,
                     handleOnce, parent>>
  BY DEF AttachInv, Clear, In
<1>2. /\ Top(t).at \in ParentCalls /\ Top(t).f = Parent /\ parent = "unloading"
  <2>1. Top(t).at \in ParentCalls
    BY <1>1 DEF ParentCalls
  <2>2. FrameFacts(Top(t)) /\ Top(t).f = Parent
    BY <1>1, <2>1, TopFacts
  <2>3. QED
    BY <1>1, <2>1, <2>2 DEF FrameFacts
<1>3. PICK g \in Frames :
        g = new /\ g.at = "sweep" /\ g.f = Parent /\ g.todo = tree
  <2>1. "sweep" \in Calls
    BY DEF Calls
  <2>2. tree \in SUBSET Fibers
    BY <1>1 DEF TypeOK
  <2>3. /\ new \in Frames
        /\ new.at = "sweep" /\ new.f = Parent /\ new.todo = tree
    BY <2>1, <2>2 DEF Frames
  <2> HIDE DEF new
  <2>4. QED
    BY <2>3
<1> HIDE DEF new
<1>4. <<g>> \in Seq(Frames) /\ Continue(t, <<g>>)
  BY <1>1, <1>3
<1>5. PICK c : c = <<g>> /\ Len(c) = 1 /\ c[1] = g
  BY Single
<1>6. Changes(t, k, c)
  BY <1>1, <1>4, <1>5, Continuing
<1>7. k < Len(stack[t])
  BY <1>1, TopTyping
<1> HIDE DEF k
<1>8. /\ UNCHANGED <<loads, runtime, runtimes, claims, attached, outcome>>
      /\ UNCHANGED <<disposed, busy, dirty, state, slot, handle>>
      /\ UNCHANGED <<installed, deferred, once, handleOnce, parent>>
      /\ stack' \in [Threads -> Seq(Frames)]
  BY <1>1, <1>6 DEF Changes, registry, driver, links
<1>9. TypeOK'
  <2> HIDE DEF Frames, Links, OnceStates, Runtimes, Fibers, NoRuntime
  <2>1. QED
    BY <1>1, <1>8, TypeConstants DEF TypeOK
<1>10. \A f \in tree : f <= loads
  <2> TAKE f \in tree
  <2>1. f \in Fibers /\ f \in Nat /\ loads \in Nat
    BY <1>1, FiberNumbers DEF TypeOK
  <2>2. EntryFacts(f)
    BY <2>1 DEF AttachInv, EntriesFit
  <2>3. QED
    BY <2>1, <2>2 DEF EntryFacts
<1>11. g.at \in ParentCalls
  BY <1>3 DEF ParentCalls
<1>12. FrameFacts(g)'
  BY <1>1, <1>2, <1>3, <1>8, <1>9, <1>10, <1>11, ParentFacts
<1>13. 1 \in 1..Len(c) /\ \A i \in 1..Len(c) : i = 1 /\ c[i] = g
  BY <1>5
<1>14. \A f : /\ Swept(f) => Swept(f)'
              /\ f \in tree => Swept(f)'
              /\ Swept(f)' => Swept(f) \/ f \in tree
  <2> TAKE f
  <2>1. /\ Swept(f) => \/ Swept(f)'
                       \/ k < Len(stack[t]) /\ Top(t).at = "sweep" /\ f \in Top(t).todo
        /\ (\E i \in 1..Len(c) : c[i].at = "sweep" /\ f \in c[i].todo) => Swept(f)'
        /\ Swept(f)' => \/ Swept(f)
                        \/ \E i \in 1..Len(c) : c[i].at = "sweep" /\ f \in c[i].todo
    BY <1>1, <1>6, SweptSteps
  <2>2. QED
    BY <1>1, <1>3, <1>13, <2>1
<1>15. StaysListed(Parent)
  BY <1>14 DEF StaysListed
<1>16. \A i \in 1..Len(c) :
         /\ i = 1 /\ c[i].f = Parent /\ c[i].at \in ParentCalls
         /\ FrameFacts(c[i])'
  <2> TAKE i \in 1..Len(c)
  <2>1. i = 1 /\ c[i] = g
    BY <1>13
  <2>2. QED
    BY <1>3, <1>11, <1>12, <2>1
<1>17. QED
  BY <1>1, <1>2, <1>6, <1>7, <1>15, <1>16, ParentStep

LEMMA NewestOf ==
    ASSUME NEW S, S \subseteq Fibers, S # {}
    PROVE  Newest(S) \in S
<1>1. MaxFibers \in Nat /\ S \subseteq 0..MaxFibers
  BY DEF Fibers
<1>2. \E f \in S : \A g \in S : g <= f
  BY <1>1, Greatest
<1>3. QED
  BY <1>2 DEF Newest

\* The teardown is over.
LEMMA SweepEndStep ==
    ASSUME AttachInv, NEW t \in Threads, Sweep(t), Top(t).todo = {}
    PROVE  AttachInv'
<1> DEFINE k == Len(stack[t]) - 1
<1>1. /\ TypeOK /\ stack[t] # <<>> /\ Top(t).at = "sweep"
      /\ parent' = "torn" /\ Return(t)
      /\ UNCHANGED <<registry, driver, links, entry>>
  BY DEF AttachInv, Sweep, In
<1>2. /\ Top(t).at \in ParentCalls /\ Top(t).f = Parent /\ tree = {}
  <2>1. Top(t).at \in ParentCalls
    BY <1>1 DEF ParentCalls
  <2>2. FrameFacts(Top(t)) /\ Top(t).f = Parent
    BY <1>1, <2>1, TopFacts
  <2>3. QED
    BY <1>1, <2>1, <2>2 DEF FrameFacts
<1>3. PICK c : c = <<>> /\ Len(c) = 0
  BY EmptySeq
<1>4. Changes(t, k, c)
  BY <1>1, <1>3, Returning
<1>5. k < Len(stack[t])
  BY <1>1, TopTyping
<1> HIDE DEF k
<1>6. UNCHANGED <<tree, installed, deferred, once, handleOnce>>
  BY <1>1 DEF entry
<1>7. \A i \in 1..Len(c) : FALSE
  BY <1>3
<1>8. \A f : Swept(f)' <=> Swept(f)
  BY <1>1, <1>4, <1>7, SweptSteps
<1>9. StaysListed(Parent)
  BY <1>6, <1>8 DEF StaysListed
<1>10. QED
  BY <1>1, <1>2, <1>4, <1>5, <1>6, <1>7, <1>9, ParentStep

\* The teardown releases the newest of the entries it has.
LEMMA SweepNextStep ==
    ASSUME AttachInv, NEW t \in Threads, Sweep(t), Top(t).todo # {}
    PROVE  AttachInv'
<1> DEFINE k == Len(stack[t]) - 1
<1>1. /\ TypeOK /\ stack[t] # <<>> /\ Top(t).at = "sweep"
  BY DEF AttachInv, Sweep, In
<1>2. /\ Top(t).at \in ParentCalls /\ Top(t).f = Parent /\ Top(t) \in Frames
      /\ tree = {} /\ parent = "unloading" /\ \A f \in Top(t).todo : f <= loads
  <2>1. Top(t).at \in ParentCalls
    BY <1>1 DEF ParentCalls
  <2>2. FrameFacts(Top(t)) /\ Top(t).f = Parent /\ Top(t) \in Frames
    BY <1>1, <2>1, TopFacts
  <2>3. QED
    BY <1>1, <2>1, <2>2 DEF FrameFacts
<1>3. PICK todo : todo = Top(t).todo /\ todo \subseteq Fibers /\ todo # {}
  BY <1>2 DEF Frames
<1>4. PICK e \in Fibers : e = Newest(todo) /\ e \in todo
  BY <1>3, NewestOf
<1> DEFINE sweep == [Top(t) EXCEPT !.todo = @ \ {e}]
           request == Frame("request", e)
<1>5. /\ Continue(t, <<sweep, request>>)
      /\ parent' = parent /\ UNCHANGED <<registry, driver, links, entry>>
  BY <1>3, <1>4 DEF Sweep
<1>6. /\ sweep \in Frames /\ sweep.at = "sweep" /\ sweep.f = Parent
      /\ sweep.todo = todo \ {e}
  <2>1. \A x \in Frames :
          /\ [x EXCEPT !.todo = @ \ {e}] \in Frames
          /\ [x EXCEPT !.todo = @ \ {e}].at = x.at
          /\ [x EXCEPT !.todo = @ \ {e}].f = x.f
          /\ [x EXCEPT !.todo = @ \ {e}].todo = x.todo \ {e}
    BY DEF Frames
  <2>2. QED
    BY <1>1, <1>2, <1>3, <2>1
<1>7. /\ request \in Frames /\ request.at = "request" /\ request.f = e
      /\ request.todo = {}
  <2>1. "request" \in Calls
    BY DEF Calls
  <2>2. QED
    BY <2>1, FrameTyping
<1> HIDE DEF sweep, request
<1>8. PICK g \in Frames : g = sweep
  BY <1>6
<1>9. PICK h \in Frames : h = request
  BY <1>7
<1>10. /\ g.at = "sweep" /\ g.f = Parent /\ g.todo = todo \ {e}
       /\ h.at = "request" /\ h.f = e /\ h.todo = {}
  BY <1>6, <1>7, <1>8, <1>9
<1>11. Continue(t, <<g, h>>) /\ <<g, h>> \in Seq(Frames)
  BY <1>5, <1>8, <1>9
<1>12. PICK c : c = <<g, h>> /\ Len(c) = 2 /\ c[1] = g /\ c[2] = h
  <2>1. Len(<<g, h>>) = 2 /\ <<g, h>>[1] = g /\ <<g, h>>[2] = h
    OBVIOUS
  <2>2. QED
    BY <2>1, Zenon
<1>13. Changes(t, k, c)
  BY <1>1, <1>11, <1>12, Continuing
<1>14. k < Len(stack[t])
  BY <1>1, TopTyping
<1> HIDE DEF k
<1>15. 1 \in 1..Len(c) /\ 2 \in 1..Len(c) /\ \A i \in 1..Len(c) : i = 1 \/ i = 2
  BY <1>12
<1>16. /\ UNCHANGED <<loads, runtime, runtimes, claims, attached, outcome>>
       /\ UNCHANGED <<disposed, busy, dirty, state, slot, handle>>
       /\ UNCHANGED <<tree, installed, deferred, once, handleOnce, parent>>
       /\ stack' \in [Threads -> Seq(Frames)]
  BY <1>5, <1>13 DEF Changes, registry, driver, links, entry
<1>17. TypeOK'
  <2> HIDE DEF Frames, Links, OnceStates, Runtimes, Fibers, NoRuntime
  <2>1. QED
    BY <1>1, <1>16, TypeConstants DEF TypeOK
<1>18. EntryFacts(e) /\ Driven(e) /\ e # Parent
  BY FiberNumbers DEF AttachInv, EntriesFit, AllDriven
<1>19. loads' >= loads /\ e <= loads
  BY <1>1, <1>2, <1>3, <1>4, <1>16 DEF TypeOK
<1>20. IsFor(t, k, c, e)
  BY <1>2, <1>10, <1>12, <1>15 DEF IsFor
<1>21. Others(e)
  BY <1>16, <1>19 DEF Others, SameFiber
<1>22. EntryFacts(e)'
  BY <1>16, <1>18 DEF EntryFacts, Known
<1>23. /\ \A f : Swept(f) => Swept(f)' \/ f = e
       /\ \A f : Swept(f)' => Swept(f)
       /\ Swept(e) /\ Asks("sweep", e)'
  <2>1. ASSUME NEW f
        PROVE  /\ Swept(f) => \/ Swept(f)'
                              \/ k < Len(stack[t]) /\ Top(t).at = "sweep" /\ f \in Top(t).todo
               /\ (\E i \in 1..Len(c) : c[i].at = "sweep" /\ f \in c[i].todo) => Swept(f)'
               /\ Swept(f)' => \/ Swept(f)
                               \/ \E i \in 1..Len(c) : c[i].at = "sweep" /\ f \in c[i].todo
    BY <1>1, <1>13, SweptSteps
  <2>2. \A f \in todo : Swept(f)
    <3>1. PICK n \in 1..Len(stack[t]) : stack[t][n] = Top(t)
      BY <1>1, TopTyping
    <3>2. QED
      BY <1>1, <1>3, <3>1 DEF Swept
  <2>3. Asks("sweep", e)'
    <3>1. "request" \in Releasing
      BY DEF Releasing
    <3>2. \E i, j \in 1..Len(c) :
            /\ j = i + 1 /\ c[i].at = "sweep" /\ c[i].f \in {e, Parent}
            /\ c[j].at \in Releasing /\ c[j].f = e
      BY <1>10, <1>12, <1>15, <3>1
    <3>3. QED
      BY <1>1, <1>13, <3>2, AsksSteps
  <2>4. ASSUME NEW f, Swept(f)
        PROVE  Swept(f)' \/ f = e
    BY <1>3, <1>10, <1>12, <1>15, <2>1, <2>4
  <2>5. ASSUME NEW f, Swept(f)'
        PROVE  Swept(f)
    BY <1>10, <1>12, <1>15, <2>1, <2>2, <2>5
  <2>6. QED
    BY <1>4, <2>2, <2>3, <2>4, <2>5
<1>24. Driven(e)'
  <2>1. \A C : /\ Has(C, e) => Has(C, e)'
               /\ Has(C, e)' => Has(C, e) \/ "request" \in C
    <3> TAKE C
    <3>1. ~Drops(t, k, C, e)
      BY <1>2, <1>18 DEF Drops
    <3>2. Brings(c, C, e) => "request" \in C
      BY <1>10, <1>12, <1>15, <1>18 DEF Brings
    <3>3. QED
      BY <1>1, <1>13, <3>1, <3>2, HasSteps
  <2>2. Asks("store", e) => Asks("store", e)'
    <3>1. ~Drops(t, k, Releasing, e)
      BY <1>2, <1>18 DEF Drops
    <3>2. QED
      BY <1>1, <1>13, <3>1, AsksSteps
  <2>3. Has(ChildCalls, e)' => Has(ChildCalls, e)
    <3>1. "request" \notin ChildCalls /\ ChildCalls' = ChildCalls
      BY DEF ChildCalls
    <3> HIDE DEF ChildCalls
    <3>2. QED
      BY <2>1, <3>1
  <2>4. /\ Has({"remove"}, e) => Has({"remove"}, e)'
        /\ Has({"attach", "install"}, e) => Has({"attach", "install"}, e)'
    BY <2>1
  <2>5. ChildCalls' = ChildCalls
    BY DEF ChildCalls
  <2> HIDE DEF ChildCalls
  <2>6. QED
    BY <1>2, <1>16, <1>18, <1>23, <2>2, <2>3, <2>4, <2>5 DEF Driven
<1>25. FrameFacts(g)' /\ FrameFacts(h)'
  <2>1. g.at \in ParentCalls
    BY <1>10 DEF ParentCalls
  <2>2. \A f \in g.todo : f <= loads'
    BY <1>2, <1>3, <1>10, <1>16
  <2>3. FrameFacts(g)'
    BY <1>2, <1>10, <1>16, <1>17, <2>1, <2>2, ParentFacts
  <2>4. "request" \notin ParentCalls /\ e <= loads'
    BY <1>16, <1>19 DEF ParentCalls
  <2>5. CanBe("request", e)
    BY DEF CanBe, PreCalls, LoadCalls, ChildCalls
  <2>6. FrameFacts(h)'
    BY <1>10, <2>4, <2>5, CallKnows
  <2>7. QED
    BY <2>3, <2>6
<1>26. \A i \in 1..Len(c) : FrameFacts(c[i])'
  <2> TAKE i \in 1..Len(c)
  <2>1. c[i] = g \/ c[i] = h
    BY <1>12, <1>15
  <2>2. QED
    BY <1>25, <2>1
<1>27. \A x \in Frames : FrameFacts(x) => FrameFacts(x)'
  <2>1. PreCalls' = PreCalls /\ LoadCalls' = LoadCalls
        /\ ParentCalls' = ParentCalls /\ UnknownCalls' = UnknownCalls
    BY DEF PreCalls, LoadCalls, ChildCalls, ParentCalls, UnknownCalls
  <2> HIDE DEF PreCalls, LoadCalls, ParentCalls, UnknownCalls
  <2>2. QED
    BY <1>16, <2>1 DEF FrameFacts, Known
<1>28. TakesRoles(t, k, c)
  <2>1. ASSUME NEW C \in Roles
        PROVE  "request" \notin C /\ ("sweep" \in C => C = ParentCalls)
    BY DEF Roles, LoadCalls, PreCalls, ChildCalls, ParentCalls
  <2>2. Drops(t, k, ParentCalls, Parent)
    BY <1>2, <1>14 DEF Drops
  <2>3. QED
    BY <1>10, <1>12, <1>15, <2>1, <2>2 DEF TakesRoles
<1>29. AsksFor(t, k, c) /\ DisposesOn(t, k, c)
  <2>1. "sweep" \notin ReleaseCalls /\ "sweep" \notin Disposer
    BY DEF ReleaseCalls, Disposer
  <2>2. parent' # "open" /\ h.f \notin tree'
    BY <1>2, <1>16
  <2>3. AsksFor(t, k, c)
    BY <1>10, <1>12, <1>15, <2>1, <2>2 DEF AsksFor
  <2>4. DisposesOn(t, k, c)
    BY <1>1, <1>10, <1>12, <1>15, <2>1 DEF DisposesOn
  <2>5. QED
    BY <2>3, <2>4
<1>30. StaysListed(e)
  BY <1>16, <1>23 DEF StaysListed
<1>31. RecordFits'
  <2>1. \A f \in Fibers : Has(ClaimCalls, f)' <=> Has(ClaimCalls, f)
    <3> TAKE f \in Fibers
    <3>1. CASE f # e
      BY <1>1, <1>13, <1>20, <3>1, HasOthers
    <3>2. CASE f = e
      <4>1. ~Drops(t, k, ClaimCalls, e)
        BY <1>2, <1>18 DEF Drops
      <4>2. "request" \notin ClaimCalls
        BY DEF ClaimCalls
      <4>3. ~Brings(c, ClaimCalls, e)
        BY <1>10, <1>12, <1>15, <1>18, <4>2 DEF Brings
      <4>4. QED
        BY <1>1, <1>13, <3>2, <4>1, <4>3, HasSteps
    <3>3. QED
      BY <3>1, <3>2
  <2>2. RecordFits
    BY DEF AttachInv
  <2>3. QED
    BY <1>16, <2>1, <2>2, RuntimeStays
<1>32. parent' = "torn" => tree' = {}
  BY <1>2, <1>16
<1>33. QED
  BY <1>13, <1>17, <1>20, <1>21, <1>22, <1>24, <1>26, <1>27, <1>28, <1>29, <1>30,
     <1>31, <1>32, StepInvariant

LEMMA SweepStep ==
    ASSUME AttachInv, NEW t \in Threads, Sweep(t)
    PROVE  AttachInv'
<1>1. CASE Top(t).todo = {}
  BY <1>1, SweepEndStep
<1>2. CASE Top(t).todo # {}
  BY <1>2, SweepNextStep
<1>3. QED
  BY <1>1, <1>2

----------------------------------------------------------------------------
(* The theorems. *)

LEMMA InitInvariant == Init => AttachInv
<1> SUFFICES ASSUME Init
             PROVE  AttachInv
  OBVIOUS
<1>1. \A t \in Threads : stack[t] = <<>> /\ Len(stack[t]) = 0
  <2>1. Len(<<>>) = 0
    OBVIOUS
  <2>2. QED
    BY <2>1 DEF Init
<1>2. \A t \in Threads : \A i \in 1..Len(stack[t]) : FALSE
  BY <1>1
<1>3. TypeOK
  <2>1. stack \in [Threads -> Seq(Frames)]
    <3>1. <<>> \in Seq(Frames)
      BY EmptySeq
    <3>2. QED
      BY <3>1 DEF Init
  <2>2. 0 \in 0..MaxFibers
    OBVIOUS
  <2> HIDE DEF Frames, Fibers
  <2>3. QED
    BY <2>1, <2>2 DEF Init, TypeOK, Links, OnceStates, Runtimes
<1>4. \A f \in Fibers : /\ \A C : ~Has(C, f)
                        /\ \A a : ~Asks(a, f)
                        /\ ~Swept(f)
  <2> TAKE f \in Fibers
  <2>1. \A C : ~Has(C, f)
    BY <1>2 DEF Has
  <2>2. \A a : ~Asks(a, f)
    BY <1>2 DEF Asks
  <2>3. ~Swept(f)
    BY <1>2 DEF Swept
  <2>4. QED
    BY <2>1, <2>2, <2>3
<1>5. EntriesFit
  BY DEF Init, EntriesFit, EntryFacts
<1>6. CallsFit
  BY <1>2 DEF CallsFit
<1>7. OneInRole
  BY <1>2 DEF OneInRole
<1>8. Asked /\ Disposing
  BY <1>2 DEF Asked, Disposing
<1>9. AllDriven
  BY <1>4 DEF Init, AllDriven, Driven
<1>10. RecordFits
  <2>1. Claimants = {}
    BY <1>2 DEF Claimants
  <2>2. \A r \in Runtimes : {f \in Claimants : runtime[f] = r} = {}
    BY <2>1
  <2>3. \A r \in Runtimes : claims[r] = 0
    BY DEF Init
  <2>4. QED
    BY <2>1, <2>2, <2>3, FS_EmptySet DEF Init, RecordFits, OneRuntime
<1>11. parent = "torn" => tree = {}
  BY DEF Init
<1>12. QED
  BY <1>3, <1>5, <1>6, <1>7, <1>8, <1>9, <1>10, <1>11 DEF AttachInv

LEMMA StutterKeeps ==
    ASSUME AttachInv, UNCHANGED vars
    PROVE  AttachInv'
<1>1. /\ UNCHANGED <<loads, runtime, runtimes, claims, attached, outcome>>
      /\ UNCHANGED <<disposed, busy, dirty, state, slot, handle>>
      /\ UNCHANGED <<tree, installed, deferred, once, handleOnce, parent, stack>>
  BY DEF vars, registry, driver, links, entry
<1>2. TypeOK'
  <2> HIDE DEF Frames, Links, OnceStates, Runtimes, Fibers, NoRuntime
  <2>1. QED
    BY <1>1, TypeConstants DEF AttachInv, TypeOK
<1>3. EntriesFit'
  BY <1>1 DEF AttachInv, EntriesFit, EntryFacts, Known
<1>4. CallsFit'
  <2>1. CallsFit
    BY DEF AttachInv
  <2>2. QED
    BY <1>1, <2>1 DEF CallsFit, FrameFacts, Known, PreCalls, LoadCalls,
       ChildCalls, ParentCalls, UnknownCalls
<1>5. OneInRole'
  BY <1>1 DEF AttachInv, OneInRole, Roles, LoadCalls, PreCalls, ChildCalls, ParentCalls
<1>6. Asked' /\ Disposing'
  BY <1>1 DEF AttachInv, Asked, Disposing, ReleaseCalls
<1>7. AllDriven'
  BY <1>1 DEF AttachInv, AllDriven, Driven, Has, Asks, Swept, ChildCalls, Releasing
<1>8. RecordFits'
  BY <1>1 DEF AttachInv, RecordFits, OneRuntime, Claimants
<1>9. QED
  BY <1>1, <1>2, <1>3, <1>4, <1>5, <1>6, <1>7, <1>8 DEF AttachInv

LEMMA NextInvariant == AttachInv /\ [Next]_vars => AttachInv'
<1> SUFFICES ASSUME AttachInv, [Next]_vars
             PROVE  AttachInv'
  OBVIOUS
<1>1. CASE UNCHANGED vars
  BY <1>1, StutterKeeps
<1>2. ASSUME NEW t \in Threads, Request(t)
      PROVE  AttachInv'
  <2>1. ASSUME NEW f \in Fibers, DisposeFiber(t, f)
        PROVE  AttachInv'
    BY <2>1, DisposeFiberStep
  <2>2. QED
    BY <1>2, <2>1, LoadStep, DisposeParentStep DEF Request
<1>3. ASSUME NEW t \in Threads, Proceed(t)
      PROVE  AttachInv'
  <2>1. CASE AssertActive(t) \/ RuntimeFor(t) \/ TryEffect(t) \/ DiscardRuntime(t)
             \/ AttachFiber(t) \/ SetDispose(t) \/ StoreHandle(t) \/ LoadReturns(t)
    BY <2>1, AssertActiveStep, RuntimeForStep, TryEffectStep, DiscardRuntimeStep,
       AttachFiberStep, SetDisposeStep, StoreHandleStep, LoadReturnsStep
  <2>2. CASE MarkDisposed(t) \/ RemoveFiber(t) \/ BeginTransition(t) \/ BeginPass(t)
             \/ Sync(t) \/ FinalizeDispose(t) \/ EndPass(t)
    BY <2>2, MarkDisposedStep, RemoveFiberStep, BeginTransitionStep, BeginPassStep,
       SyncStep, FinalizeDisposeStep, EndPassStep
  <2>3. CASE EnterHandle(t) \/ Unlist(t) \/ RequestDispose(t) \/ EnterOnce(t)
             \/ DisposeFromParent(t) \/ LeaveOnce(t)
    BY <2>3, EnterHandleStep, UnlistStep, RequestDisposeStep, EnterOnceStep,
       DisposeFromParentStep, LeaveOnceStep
  <2>4. CASE SetUnloading(t) \/ Clear(t) \/ Sweep(t)
    BY <2>4, SetUnloadingStep, ClearStep, SweepStep
  <2>5. QED
    BY <1>3, <2>1, <2>2, <2>3, <2>4 DEF Proceed
<1>4. QED
  BY <1>1, <1>2, <1>3 DEF Next

\* What a fiber, its entry, its runtime record and every call under way know
\* of each other holds however loads, disposals and the teardown of the parent
\* meet (registry.go, start, setDispose, Dispose, disposeFromParent).
THEOREM AttachmentInvariant == Spec => []AttachInv
BY InitInvariant, NextInvariant, PTL DEF Spec

\* Fibers and loads of a definition share the record the registry holds, and
\* its claims count the loads that need it: a load that fails cannot take it
\* away from another, nor leave it behind (runtimeFor, discardRuntime,
\* attachFiber, removeFiber).
THEOREM FibersShareRuntime == Spec => []OneRuntime
<1>1. AttachInv => OneRuntime
  BY DEF AttachInv, RecordFits
<1>2. QED
  BY <1>1, AttachmentInvariant, PTL

\* After the teardown of the parent, a fiber a load handed out is disposed,
\* whichever of the load and the teardown came to its entry first (start,
\* setDispose, requestDispose).
THEOREM ParentLeavesNoFiber == Spec => []NoOrphanFiber
<1>1. AttachInv => NoOrphanFiber
  <2> SUFFICES ASSUME AttachInv, parent = "torn", NEW f \in Fibers,
                      outcome[f] = "fiber"
               PROVE  disposed[f] /\ (Quiet => f \notin attached)
    BY DEF NoOrphanFiber
  <2>1. /\ CallsFit /\ tree = {} /\ Driven(f) /\ f # Parent
    BY FiberNumbers DEF AttachInv, AllDriven
  <2>2. ~Swept(f) /\ ~Asks("sweep", f)
    BY <2>1 DEF CallsFit, FrameFacts, Swept, Asks
  <2>3. ~Has({"attach", "install"}, f)
    <3>1. ~Has(LoadCalls, f)
      BY NoSuchCall
    <3>2. QED
      BY <3>1 DEF Has, LoadCalls, PreCalls, ChildCalls
  <2>4. ~Asks("store", f)
    <3> SUFFICES ASSUME NEW t \in Threads, NEW i \in 1..Len(stack[t]),
                        stack[t][i].at = "store", stack[t][i].f \in {f, Parent}
                 PROVE  FALSE
      BY DEF Asks
    <3>1. FrameFacts(stack[t][i])
      BY <2>1 DEF CallsFit
    <3>2. QED
      BY <3>1 DEF FrameFacts, LoadCalls, ChildCalls, ParentCalls
  <2>5. disposed[f]
    BY <2>1, <2>2, <2>3, <2>4 DEF Driven
  <2>6. ASSUME Quiet
        PROVE  f \notin attached
    <3>1. \A t \in Threads : stack[t] = <<>> /\ Len(stack[t]) = 0
      BY <2>6, Typing DEF AttachInv, Quiet
    <3>2. ~Has({"remove"}, f)
      BY <3>1 DEF Has
    <3>3. QED
      BY <2>1, <2>5, <3>2 DEF Driven
  <2>7. QED
    BY <2>5, <2>6
<1>2. QED
  BY <1>1, AttachmentInvariant, PTL

\* A fiber that came to its end is out of the tree of its parent and holds no
\* handle once all calls have returned (finalizeDispose, disposeFromParent,
\* the Disposer of tryEffect).
THEOREM EndReleasesSlot == Spec => []SlotReleased
<1>1. AttachInv => SlotReleased
  <2> SUFFICES ASSUME AttachInv, Quiet, NEW f \in Fibers, state[f] = "disposed"
               PROVE  f \notin tree /\ slot[f] = "none"
    BY DEF SlotReleased
  <2>1. EntryFacts(f) /\ Driven(f)
    BY DEF AttachInv, EntriesFit, AllDriven
  <2>2. \A t \in Threads : stack[t] = <<>> /\ Len(stack[t]) = 0
    BY Typing DEF AttachInv, Quiet
  <2>3. \A C : ~Has(C, f)
    BY <2>2 DEF Has
  <2>4. QED
    BY <2>1, <2>3 DEF EntryFacts, Driven
<1>2. QED
  BY <1>1, AttachmentInvariant, PTL
=============================================================================
