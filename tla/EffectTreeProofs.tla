-------------------------- MODULE EffectTreeProofs --------------------------
(***************************************************************************)
(* Proofs about EffectTree, for every set of goroutines and every number   *)
(* of effects: all its invariants.                                         *)
(*                                                                         *)
(* The inductive invariant says, for each place a call can have reached,   *)
(* what is known of the entry the call is for; that a body, a release, a   *)
(* handle and a teardown are each run by one call at a time; how calls     *)
(* nest on the stack of a goroutine; and that what is not finished has     *)
(* somebody who will finish it.                                            *)
(***************************************************************************)
EXTENDS EffectTree, SequencesExt, SequenceTheorems, FiniteSetTheorems, TLAPS

----------------------------------------------------------------------------
(* Sequences that are used as stacks. *)

\* A stack in a call has a top, of the type of its frames.
LEMMA TopFrame ==
    ASSUME NEW S, NEW s \in Seq(S), s # <<>>
    PROVE  /\ Len(s) \in Nat \ {0}
           /\ Last(s) \in S
           /\ Last(s) = s[Len(s)]
<1>1. Len(s) \in Nat \ {0}
  BY EmptySeq
<1>2. Len(s) \in 1..Len(s)
  BY <1>1
<1>3. QED
  BY <1>1, <1>2, ElementOfSeq DEF Last

\* Popping leaves everything below the top as it was.
LEMMA PopFrame ==
    ASSUME NEW S, NEW s \in Seq(S), s # <<>>
    PROVE  /\ Front(s) \in Seq(S)
           /\ Len(Front(s)) = Len(s) - 1
           /\ \A i \in 1..(Len(s) - 1) : Front(s)[i] = s[i]
<1> DEFINE n == Len(s) - 1
<1>1. n \in Nat
  BY EmptySeq
<1>2. \A i \in 1..n : s[i] \in S
  BY <1>1, ElementOfSeq
<1> HIDE DEF n
<1>3. /\ SubSeq(s, 1, n) \in Seq(S)
      /\ Len(SubSeq(s, 1, n)) = IF 1 <= n THEN n - 1 + 1 ELSE 0
      /\ \A i \in 1..(n - 1 + 1) : SubSeq(s, 1, n)[i] = s[1 + i - 1]
  BY <1>1, <1>2, SubSeqProperties
<1>4. /\ Len(SubSeq(s, 1, n)) = n
      /\ \A i \in 1..n : SubSeq(s, 1, n)[i] = s[i]
  BY <1>1, <1>3
<1>5. Front(s) = SubSeq(s, 1, n)
  BY DEF Front, n
<1>6. QED
  BY <1>3, <1>4, <1>5, Zenon DEF n

\* A frame takes the place of the top.
LEMMA ReplaceFrame ==
    ASSUME NEW S, NEW s \in Seq(S), s # <<>>, NEW a \in S
    PROVE  /\ Append(Front(s), a) \in Seq(S)
           /\ Len(Append(Front(s), a)) = Len(s)
           /\ \A i \in 1..(Len(s) - 1) : Append(Front(s), a)[i] = s[i]
           /\ Append(Front(s), a)[Len(s)] = a
  BY PopFrame, TopFrame, AppendProperties

\* A call goes on top.
LEMMA PushFrame ==
    ASSUME NEW S, NEW s \in Seq(S), NEW a \in S
    PROVE  /\ Append(s, a) \in Seq(S)
           /\ Len(Append(s, a)) = Len(s) + 1
           /\ \A i \in 1..Len(s) : Append(s, a)[i] = s[i]
           /\ Append(s, a)[Len(s) + 1] = a
  BY AppendProperties

\* A frame takes the place of the top and makes a call.
LEMMA ReplaceAndPush ==
    ASSUME NEW S, NEW s \in Seq(S), s # <<>>, NEW a \in S, NEW b \in S
    PROVE  /\ Append(Append(Front(s), a), b) \in Seq(S)
           /\ Len(Append(Append(Front(s), a), b)) = Len(s) + 1
           /\ \A i \in 1..(Len(s) - 1) :
                Append(Append(Front(s), a), b)[i] = s[i]
           /\ Append(Append(Front(s), a), b)[Len(s)] = a
           /\ Append(Append(Front(s), a), b)[Len(s) + 1] = b
<1>1. Len(s) \in Nat \ {0}
  BY TopFrame
<1>2. QED
  BY <1>1, ReplaceFrame, PushFrame

----------------------------------------------------------------------------
(* The stacks of a set T of goroutines, s before and z after a step of t,   *)
(* with frames in S.                                                        *)

\* The top frame of t has become a.
ReplacesTop(T, S, s, z, t, a) ==
    /\ z \in [T -> Seq(S)]
    /\ \A u \in T : Len(z[u]) = Len(s[u])
    /\ \A u \in T : \A i \in 1..Len(s[u]) :
         z[u][i] = IF u = t /\ i = Len(s[t]) THEN a ELSE s[u][i]

\* The top frame of t, if there is one, has become a, with a call b above it.
CallsFrom(T, S, s, z, t, a, b) ==
    /\ z \in [T -> Seq(S)]
    /\ \A u \in T : Len(z[u]) = IF u = t THEN Len(s[t]) + 1 ELSE Len(s[u])
    /\ z[t][Len(s[t]) + 1] = b
    /\ \A u \in T : \A i \in 1..Len(s[u]) :
         z[u][i] = IF u = t /\ i = Len(s[t]) THEN a ELSE s[u][i]

\* The top frame of t is gone.
PopsTop(T, S, s, z, t) ==
    /\ z \in [T -> Seq(S)]
    /\ \A u \in T : Len(z[u]) = IF u = t THEN Len(s[t]) - 1 ELSE Len(s[u])
    /\ \A u \in T : \A i \in 1..Len(z[u]) : z[u][i] = s[u][i]

LEMMA ReplaceTop ==
    ASSUME NEW T, NEW S, NEW s \in [T -> Seq(S)], NEW t \in T, s[t] # <<>>,
           NEW a \in S, NEW z, z = [s EXCEPT ![t] = Append(Front(s[t]), a)]
    PROVE  ReplacesTop(T, S, s, z, t, a)
<1> DEFINE new == Append(Front(s[t]), a)
           n == Len(s[t])
<1>1. /\ new \in Seq(S) /\ Len(new) = n /\ n \in Nat \ {0}
      /\ \A i \in 1..(n - 1) : new[i] = s[t][i]
      /\ new[n] = a
  BY ReplaceFrame, TopFrame
<1> HIDE DEF new, n
<1>2. /\ z \in [T -> Seq(S)] /\ z[t] = new
      /\ \A u \in T \ {t} : z[u] = s[u]
  BY <1>1 DEF new
<1>3. \A i \in 1..n : z[t][i] = IF i = n THEN a ELSE s[t][i]
  BY <1>1, <1>2
<1>4. n = Len(s[t])
  BY DEF n
<1>5. QED
  BY <1>1, <1>2, <1>3, <1>4 DEF ReplacesTop

LEMMA ReplaceTopAndCall ==
    ASSUME NEW T, NEW S, NEW s \in [T -> Seq(S)], NEW t \in T, s[t] # <<>>,
           NEW a \in S, NEW b \in S,
           NEW z, z = [s EXCEPT ![t] = Append(Append(Front(s[t]), a), b)]
    PROVE  CallsFrom(T, S, s, z, t, a, b)
<1> DEFINE new == Append(Append(Front(s[t]), a), b)
           n == Len(s[t])
<1>1. /\ new \in Seq(S) /\ Len(new) = n + 1 /\ n \in Nat \ {0}
      /\ \A i \in 1..(n - 1) : new[i] = s[t][i]
      /\ new[n] = a /\ new[n + 1] = b
  BY ReplaceAndPush, TopFrame
<1> HIDE DEF new, n
<1>2. /\ z \in [T -> Seq(S)] /\ z[t] = new
      /\ \A u \in T \ {t} : z[u] = s[u]
  BY <1>1 DEF new
<1>3. QED
  BY <1>1, <1>2 DEF CallsFrom, n

\* A call from the top frame, or from outside: a is the top frame, if any.
LEMMA CallOnTop ==
    ASSUME NEW T, NEW S, NEW s \in [T -> Seq(S)], NEW t \in T, NEW a,
           s[t] # <<>> => a = s[t][Len(s[t])],
           NEW b \in S, NEW z, z = [s EXCEPT ![t] = Append(s[t], b)]
    PROVE  CallsFrom(T, S, s, z, t, a, b)
<1> DEFINE new == Append(s[t], b)
           n == Len(s[t])
<1>1. /\ new \in Seq(S) /\ Len(new) = n + 1 /\ n \in Nat
      /\ \A i \in 1..n : new[i] = s[t][i]
      /\ new[n + 1] = b
  BY PushFrame, LenProperties
<1>2. n \in 1..n => s[t] # <<>>
  BY EmptySeq
<1> HIDE DEF new
<1>3. /\ z \in [T -> Seq(S)] /\ z[t] = new
      /\ \A u \in T \ {t} : z[u] = s[u]
  BY <1>1 DEF new
<1>4. \A i \in 1..n : z[t][i] = IF t = t /\ i = n THEN a ELSE s[t][i]
  BY <1>1, <1>2, <1>3
<1> HIDE DEF n
<1>5. QED
  BY <1>1, <1>3, <1>4 DEF CallsFrom, n

LEMMA PopTop ==
    ASSUME NEW T, NEW S, NEW s \in [T -> Seq(S)], NEW t \in T, s[t] # <<>>,
           NEW z, z = [s EXCEPT ![t] = Front(s[t])]
    PROVE  PopsTop(T, S, s, z, t)
<1> DEFINE new == Front(s[t])
           n == Len(s[t])
<1>1. /\ new \in Seq(S) /\ Len(new) = n - 1 /\ n \in Nat \ {0}
      /\ \A i \in 1..(n - 1) : new[i] = s[t][i]
  BY PopFrame, TopFrame
<1> HIDE DEF new, n
<1>2. /\ z \in [T -> Seq(S)] /\ z[t] = new
      /\ \A u \in T \ {t} : z[u] = s[u]
  BY <1>1 DEF new
<1>3. QED
  BY <1>1, <1>2 DEF PopsTop, n

----------------------------------------------------------------------------
(* Numbers. *)

\* No bounded set holds zero and the successor of each of its numbers: the
\* successor would be an injection of a finite set into itself that misses
\* zero.
LEMMA NoFiniteChain ==
    ASSUME NEW n \in Nat, NEW N, N \subseteq 0..n, 0 \in N,
           \A k \in N : k + 1 \in N
    PROVE  FALSE
<1> DEFINE f == [k \in N |-> k + 1]
<1>1. f \in Injection(N, N)
  BY DEF Injection, IsInjective
<1>2. IsFiniteSet(N)
  <2>1. IsFiniteSet(0..n)
    BY FS_Interval
  <2>2. QED
    BY <2>1, FS_Subset
<1>3. f \in Surjection(N, N)
  BY <1>1, <1>2, FS_Injection
<1>4. \E k \in N : f[k] = 0
  BY <1>3 DEF Surjection
<1>5. QED
  BY <1>4

LEMMA Greatest ==
    ASSUME NEW n \in Nat, NEW N, N \subseteq 0..n, N # {}
    PROVE  \E m \in N : \A k \in N : k <= m
<1> SUFFICES ASSUME \A m \in N : \E k \in N : m < k
             PROVE  FALSE
  OBVIOUS
<1> DEFINE D == {x \in 0..n : \E y \in N : x <= y}
<1>1. \A x \in D : x + 1 \in D
  <2> TAKE x \in D
  <2>1. PICK y \in N : x <= y
    OBVIOUS
  <2>2. PICK z \in N : y < z
    OBVIOUS
  <2>3. x + 1 <= z /\ z \in 0..n
    BY <2>1, <2>2
  <2>4. QED
    BY <2>3
<1>2. D \subseteq 0..n
  OBVIOUS
<1>3. 0 \in D
  <2>1. PICK y \in N : y \in 0..n
    OBVIOUS
  <2>2. QED
    BY <2>1
<1> HIDE DEF D
<1>4. QED
  BY <1>1, <1>2, <1>3, NoFiniteChain

LEMMA Least ==
    ASSUME NEW N, N \subseteq Nat, N # {}
    PROVE  \E m \in N : \A k \in N : m <= k
<1>1. PICK n \in N : TRUE
  OBVIOUS
<1> DEFINE D == {x \in 0..n : n - x \in N}
<1>2. n \in Nat /\ D \subseteq 0..n /\ 0 \in D
  OBVIOUS
<1> HIDE DEF D
<1>3. PICK d \in D : \A k \in D : k <= d
  BY <1>2, Greatest
<1>4. n - d \in N /\ d \in 0..n
  BY <1>3 DEF D
<1>5. \A k \in N : k <= n => n - k \in D
  BY <1>2 DEF D
<1>6. \A k \in N : k <= n => n - k <= d
  BY <1>3, <1>5
<1>7. QED
  BY <1>2, <1>4, <1>6

USE EffectsAssumption DEF Effects, Fiber

----------------------------------------------------------------------------
(* The inductive invariant. *)

BodyCalls == {"body", "finish", "finishPanic", "install", "panicDetach",
              "abandon"}
ReleaseCalls == {"request", "once", "claim", "cleanup", "children", "onceDone"}
Holding == {"claim", "cleanup", "children", "onceDone"}
FiberCalls == {"teardown", "clear", "sweep"}

\* Calls that release a set of effects one by one, and those that will.
Releasers == {"orphans", "children", "sweep"}
Owners == Releasers \cup {"cleanup"}

\* Calls of which an effect, or the fiber, is in one at a time.
Roles == {BodyCalls \cup {"orphans"}, Holding, {"detach"}, FiberCalls}

\* Some goroutine is in a call at C for e.
Has(C, e) == \E t \in Threads : \E i \in 1..Len(stack[t]) :
                stack[t][i].at \in C /\ stack[t][i].e = e

\* An entry nobody has registered yet.
Blank(e) ==
    /\ ~running[e] /\ ~installed[e] /\ ~deferred[e] /\ ~done[e]
    /\ once[e] = "new" /\ handle[e] = "none"
    /\ cleaned[e] = 0 /\ children[e] = {}

\* Somebody has called the handle.
Used(e) == handle[e] \in {"running", "done"}

\* How the fields of an entry go together.
EntryFacts(e) ==
    /\ e > registered => Blank(e)
    /\ owner[e] < e
    /\ once[e] # "new" => installed[e]
    /\ once[e] = "new" => cleaned[e] = 0 /\ (done[e] => ~installed[e])
    /\ once[e] = "done" => done[e] /\ cleaned[e] = 1
    /\ cleaned[e] \in 0..1 /\ (cleaned[e] = 1 => done[e])
    /\ handle[e] # "none" => installed[e]
    /\ handle[e] = "done" => once[e] = "done"
    /\ done[e] => children[e] = {}
    /\ \A c \in children[e] : c <= registered /\ owner[c] = e

EntriesFit ==
    /\ \A e \in Effects : EntryFacts(e)
    /\ \A c \in tree : c <= registered /\ owner[c] = Fiber
    /\ fiber = "torn" => tree = {}

\* What the place of a call says about the entry it is for.
FrameFacts(f) ==
    /\ f.at \in FiberCalls <=> f.e = Fiber
    /\ f.e <= registered
    /\ f.at \in BodyCalls => ~installed[f.e] /\ ~done[f.e]
    /\ f.at \in {"install", "panicDetach", "abandon"} => ~running[f.e]
    /\ f.at = "orphans" => done[f.e] /\ ~installed[f.e]
    /\ f.at \in Holding \cup {"once", "handle", "detach"} => installed[f.e]
    /\ f.at \in Holding => once[f.e] = "running"
    /\ f.at = "claim" => ~done[f.e]
    /\ f.at = "cleanup" => done[f.e] /\ cleaned[f.e] = 0
    /\ f.at \in {"children", "onceDone"} => done[f.e] /\ cleaned[f.e] = 1
    /\ f.at = "detach" => handle[f.e] = "running"
    /\ f.at \in FiberCalls => fiber # "open"
    /\ f.at = "sweep" => tree = {}
    /\ f.todo # {} => f.at \in Owners
    /\ \A c \in f.todo : c <= registered /\ owner[c] = f.e

CallsFit ==
    \A t \in Threads : \A i \in 1..Len(stack[t]) : FrameFacts(stack[t][i])

OneInRole ==
    \A C \in Roles : \A t, u \in Threads :
    \A i \in 1..Len(stack[t]), j \in 1..Len(stack[u]) :
        /\ stack[t][i].at \in C /\ stack[u][j].at \in C
        /\ stack[t][i].e = stack[u][j].e
        => t = u /\ i = j

\* Calls nest: a body calls anything; a handle releases its own effect, and a
\* release or a teardown ever younger ones.
Nesting ==
    \A t \in Threads : \A i, j \in 1..Len(stack[t]) :
        i < j =>
          LET f == stack[t][i]
              g == stack[t][j]
          IN  /\ f.at \in Releasers \cup {"body", "detach"}
              /\ f.at # "body" => g.at \in ReleaseCalls /\ f.e <= g.e
              /\ f.at \in Releasers => f.e < g.e
              /\ j = i + 1 /\ f.at = "detach" => g.e = f.e
              /\ j = i + 1 /\ f.at \in Releasers =>
                   owner[g.e] = f.e /\ \A c \in f.todo : c < g.e

\* A handle goes on when the release it asked for is finished.
DetachLast ==
    \A t \in Threads : \A i \in 1..Len(stack[t]) :
        i = Len(stack[t]) /\ stack[t][i].at = "detach" =>
            once[stack[t][i].e] = "done"

\* A release has been asked for by the handle, while the body ran, or by the
\* call below it.
Asked ==
    \A t \in Threads : \A i \in 1..Len(stack[t]) :
        LET f == stack[t][i] IN
        f.at \in ReleaseCalls =>
            \/ Used(f.e) \/ deferred[f.e]
            \/ i > 1 /\ stack[t][i - 1].at \in Releasers

\* What is under way has a goroutine that will finish it.
Driven(e) ==
    /\ ~done[e] /\ ~installed[e] => Has(BodyCalls, e)
    /\ once[e] = "running" => Has(Holding, e)
    /\ handle[e] = "running" => Has({"detach"}, e)
    /\ deferred[e] => \/ Released(e) \/ Has(BodyCalls, e)
                      \/ installed[e] /\ Has(ReleaseCalls, e)

AllDriven == \A e \in Registered : Driven(e)

Listed(c) == IF owner[c] = Fiber THEN c \in tree ELSE c \in children[owner[c]]

\* A call of the owner is going to release c, or is releasing it.
TakenOver(c) ==
    \E t \in Threads : \E i \in 1..Len(stack[t]) :
        LET f == stack[t][i] IN
        /\ f.at \in Owners /\ f.e = owner[c]
        /\ \/ c \in f.todo
           \/ i < Len(stack[t]) /\ stack[t][i + 1].e = c

\* No release of the owner has to wait for c any more.
Settled(c) == Released(c) \/ deferred[c] \/ Panicking(c)

Covered == \A c \in Registered : Settled(c) \/ Listed(c) \/ TakenOver(c)

\* OwnersOrder, with what keeps it true: an owner that has begun to release
\* takes no more effects.
OrderKept ==
    \A e \in Registered :
        cleaned[e] = 1 /\ ~Used(e) /\ ~deferred[e] =>
            /\ IF owner[e] = Fiber THEN fiber # "open"
               ELSE /\ done[owner[e]]
                    /\ cleaned[owner[e]] = 1 \/ ~installed[owner[e]]
            /\ \A y \in Registered :
                 y > e /\ owner[y] = owner[e] => Settled(y)

TreeInv ==
    /\ TypeOK /\ EntriesFit /\ CallsFit /\ OneInRole /\ Nesting
    /\ DetachLast /\ Asked /\ AllDriven /\ Covered /\ OrderKept

----------------------------------------------------------------------------
(* Stacks. *)

LEMMA Typing ==
    ASSUME TypeOK, NEW t \in Threads
    PROVE  /\ stack[t] \in Seq(Frames)
           /\ Len(stack[t]) \in Nat
           /\ stack[t] = <<>> => Len(stack[t]) = 0
           /\ \A i \in 1..Len(stack[t]) : stack[t][i] \in Frames
<1>1. stack[t] \in Seq(Frames)
  BY DEF TypeOK
<1>2. QED
  BY <1>1, ElementOfSeq, LenProperties, EmptySeq

\* A release is one of an effect.
LEMMA ReleaseOfEffect ==
    ASSUME TypeOK, CallsFit, NEW u \in Threads, NEW i \in 1..Len(stack[u]),
           stack[u][i].at \in ReleaseCalls
    PROVE  stack[u][i].e \in Effects
<1>1. PICK g \in Frames : g = stack[u][i]
  BY Typing
<1>2. g.at \notin FiberCalls /\ FrameFacts(g)
  BY <1>1 DEF CallsFit, FiberCalls, ReleaseCalls
<1>3. g.e # Fiber
  BY <1>2 DEF FrameFacts
<1>4. QED
  BY <1>1, <1>3 DEF Frames

LEMMA TopTyping ==
    ASSUME TypeOK, NEW t \in Threads, stack[t] # <<>>
    PROVE  /\ Len(stack[t]) \in Nat \ {0}
           /\ Len(stack[t]) \in 1..Len(stack[t])
           /\ Top(t) = stack[t][Len(stack[t])]
           /\ Top(t) \in Frames
<1>1. stack[t] \in Seq(Frames)
  BY DEF TypeOK
<1>2. QED
  BY <1>1, TopFrame DEF Top

Replaced(t, f) == ReplacesTop(Threads, Frames, stack, stack', t, f)
Called(t, f, g) == CallsFrom(Threads, Frames, stack, stack', t, f, g)
Popped(t) == PopsTop(Threads, Frames, stack, stack', t)

LEMMA Becoming ==
    ASSUME TypeOK, NEW t \in Threads, stack[t] # <<>>, NEW f \in Frames,
           Become(t, f)
    PROVE  Replaced(t, f)
<1>1. stack \in [Threads -> Seq(Frames)]
  BY DEF TypeOK
<1>2. stack' = [stack EXCEPT ![t] = Append(Front(stack[t]), f)]
  BY DEF Become, Below, Front
<1>3. QED
  BY <1>1, <1>2, ReplaceTop DEF Replaced

LEMMA Going ==
    ASSUME TypeOK, NEW t \in Threads, stack[t] # <<>>, NEW at \in Calls,
           Goto(t, at)
    PROVE  /\ Replaced(t, [Top(t) EXCEPT !.at = at])
           /\ [Top(t) EXCEPT !.at = at] \in Frames
           /\ [Top(t) EXCEPT !.at = at].at = at
           /\ [Top(t) EXCEPT !.at = at].e = Top(t).e
           /\ [Top(t) EXCEPT !.at = at].todo = Top(t).todo
<1>1. \A g \in Frames :
        /\ [g EXCEPT !.at = at] \in Frames
        /\ [g EXCEPT !.at = at].at = at
        /\ [g EXCEPT !.at = at].e = g.e
        /\ [g EXCEPT !.at = at].todo = g.todo
  BY DEF Frames
<1>2. Top(t) \in Frames
  BY TopTyping
<1>3. QED
  BY <1>1, <1>2, Becoming DEF Goto

LEMMA FrameTyping ==
    ASSUME NEW at \in Calls, NEW e \in Effects \cup {Fiber}
    PROVE  /\ Frame(at, e) \in Frames
           /\ Frame(at, e).at = at /\ Frame(at, e).e = e
           /\ Frame(at, e).todo = {}
  BY DEF Frame, Frames

\* A call from outside or from a body.
LEMMA CallingIn ==
    ASSUME TypeOK, NEW t \in Threads, NEW f \in Frames, Call(t, f)
    PROVE  Called(t, Top(t), f)
<1>1. stack \in [Threads -> Seq(Frames)]
  BY DEF TypeOK
<1>2. stack' = [stack EXCEPT ![t] = Append(stack[t], f)]
  BY DEF Call
<1>3. QED
  BY <1>1, <1>2, CallOnTop DEF Called, Top

LEMMA Returning ==
    ASSUME TypeOK, NEW t \in Threads, stack[t] # <<>>, Return(t)
    PROVE  Popped(t)
<1>1. stack \in [Threads -> Seq(Frames)]
  BY DEF TypeOK
<1>2. stack' = [stack EXCEPT ![t] = Front(stack[t])]
  BY DEF Return, Below, Front
<1>3. QED
  BY <1>1, <1>2, PopTop DEF Popped

LEMMA NewestIsLast ==
    ASSUME NEW S, S \subseteq Effects, S # {}
    PROVE  Newest(S) \in S /\ \A c \in S : c <= Newest(S)
<1>1. \E e \in S : \A c \in S : c <= e
  <2>1. MaxEffects \in Nat /\ S \subseteq 0..MaxEffects
    OBVIOUS
  <2>2. QED
    BY <2>1, Greatest
<1>2. QED
  BY <1>1 DEF Newest

\* The top frame after it has begun to release its newest effect.
Rest(t) == [Top(t) EXCEPT !.todo = @ \ {Newest(Top(t).todo)}]

LEMMA ReleasingNext ==
    ASSUME TypeOK, NEW t \in Threads, stack[t] # <<>>, Top(t).todo # {},
           ReleaseNext(t)
    PROVE  LET c == Newest(Top(t).todo) IN
           /\ c \in Effects /\ c \in Top(t).todo
           /\ \A d \in Top(t).todo : d <= c
           /\ Called(t, Rest(t), Frame("request", c))
           /\ Rest(t) \in Frames
           /\ Rest(t).at = Top(t).at /\ Rest(t).e = Top(t).e
           /\ Rest(t).todo = Top(t).todo \ {c}
<1> DEFINE c == Newest(Top(t).todo)
<1>1. stack \in [Threads -> Seq(Frames)]
  BY DEF TypeOK
<1>2. Top(t) \in Frames
  BY TopTyping
<1>3. Top(t).todo \subseteq Effects
  BY <1>2 DEF Frames
<1>4. c \in Top(t).todo /\ \A d \in Top(t).todo : d <= c
  BY <1>3, NewestIsLast
<1>5. stack' = [stack EXCEPT ![t] =
                  Append(Append(Front(stack[t]), Rest(t)), Frame("request", c))]
  BY DEF ReleaseNext, Below, Front, Rest
<1>6. c \in Effects
  BY <1>3, <1>4
<1> HIDE DEF c
<1>7. \A g \in Frames :
        /\ [g EXCEPT !.todo = @ \ {c}] \in Frames
        /\ [g EXCEPT !.todo = @ \ {c}].at = g.at
        /\ [g EXCEPT !.todo = @ \ {c}].e = g.e
        /\ [g EXCEPT !.todo = @ \ {c}].todo = g.todo \ {c}
  BY DEF Frames
<1>8. Rest(t) = [Top(t) EXCEPT !.todo = @ \ {c}]
  BY DEF Rest, c
<1>9. /\ Rest(t) \in Frames
      /\ Rest(t).at = Top(t).at /\ Rest(t).e = Top(t).e
      /\ Rest(t).todo = Top(t).todo \ {c}
  BY <1>2, <1>7, <1>8
<1>10. Frame("request", c) \in Frames
  BY <1>6, FrameTyping DEF Calls
<1>11. Called(t, Rest(t), Frame("request", c))
  BY <1>1, <1>5, <1>9, <1>10, ReplaceTopAndCall DEF Called
<1>12. QED
  BY <1>4, <1>6, <1>9, <1>11 DEF c

----------------------------------------------------------------------------
(* What a step on one stack keeps. *)

\* What no step takes back.
Grows ==
    /\ registered <= registered'
    /\ \A e \in Registered : owner'[e] = owner[e]
    /\ fiber # "open" => fiber' # "open"
    /\ \A e \in Effects :
         /\ done[e] => done'[e]
         /\ done[e] /\ ~installed[e] => ~installed'[e]
         /\ Released(e) => Released(e)'
         /\ deferred[e] => deferred'[e]
         /\ Used(e) => Used(e)'
         /\ once[e] = "done" => once'[e] = "done"

\* No other call has the role that g comes to have.
TakesRole(t, g) == \A C \in Roles : g.at \in C =>
    (stack[t] # <<>> /\ Top(t).at \in C /\ Top(t).e = g.e) \/ ~Has(C, g.e)

\* The top frame moves to another place of the same call.
LEMMA MoveHas ==
    ASSUME TypeOK, NEW t \in Threads, stack[t] # <<>>, NEW f \in Frames,
           Replaced(t, f), f.e = Top(t).e,
           NEW C, NEW e, Has(C, e), Top(t).at \in C /\ Top(t).e = e => f.at \in C
    PROVE  Has(C, e)'
<1>1. PICK u \in Threads : \E i \in 1..Len(stack[u]) :
             stack[u][i].at \in C /\ stack[u][i].e = e
  BY DEF Has
<1>2. PICK i \in 1..Len(stack[u]) :
             stack[u][i].at \in C /\ stack[u][i].e = e
  BY <1>1
<1>3. i \in 1..Len(stack'[u])
  BY DEF Replaced, ReplacesTop
<1>4. stack'[u][i].at \in C /\ stack'[u][i].e = e
  <2>1. CASE u = t /\ i = Len(stack[t])
    <3>1. stack'[u][i] = f
      BY <2>1 DEF Replaced, ReplacesTop
    <3>2. QED
      BY <1>2, <2>1, <3>1, TopTyping
  <2>2. CASE ~(u = t /\ i = Len(stack[t]))
    <3>1. stack'[u][i] = stack[u][i]
      BY <2>2 DEF Replaced, ReplacesTop
    <3>2. QED
      BY <1>2, <3>1
  <2>3. QED
    BY <2>1, <2>2
<1>5. QED
  BY <1>3, <1>4 DEF Has

LEMMA MoveRoles ==
    ASSUME TypeOK, OneInRole, NEW t \in Threads, stack[t] # <<>>,
           NEW f \in Frames, Replaced(t, f), TakesRole(t, f)
    PROVE  OneInRole'
<1> SUFFICES ASSUME NEW C \in Roles, NEW u \in Threads, NEW v \in Threads,
                    NEW i \in 1..Len(stack'[u]), NEW j \in 1..Len(stack'[v]),
                    stack'[u][i].at \in C, stack'[v][j].at \in C,
                    stack'[u][i].e = stack'[v][j].e
             PROVE  u = v /\ i = j
  BY DEF OneInRole, Roles
<1>1. i \in 1..Len(stack[u]) /\ j \in 1..Len(stack[v])
  BY DEF Replaced, ReplacesTop
<1>2. /\ stack'[u][i] = IF u = t /\ i = Len(stack[t]) THEN f ELSE stack[u][i]
      /\ stack'[v][j] = IF v = t /\ j = Len(stack[t]) THEN f ELSE stack[v][j]
  BY <1>1 DEF Replaced, ReplacesTop
<1>3. Len(stack[t]) \in 1..Len(stack[t]) /\ Top(t) = stack[t][Len(stack[t])]
  BY TopTyping
<1>4. CASE u = t /\ i = Len(stack[t])
  <2>1. f.at \in C /\ stack'[u][i] = f
    BY <1>2, <1>4
  <2>2. CASE Top(t).at \in C /\ Top(t).e = f.e
    BY <1>1, <1>2, <1>3, <1>4, <2>1, <2>2 DEF OneInRole
  <2>3. CASE ~Has(C, f.e)
    BY <1>1, <1>2, <1>4, <2>1, <2>3 DEF Has
  <2>4. QED
    BY <2>1, <2>2, <2>3 DEF TakesRole
<1>5. CASE v = t /\ j = Len(stack[t])
  <2>1. f.at \in C /\ stack'[v][j] = f
    BY <1>2, <1>5
  <2>2. CASE Top(t).at \in C /\ Top(t).e = f.e
    BY <1>1, <1>2, <1>3, <1>5, <2>1, <2>2 DEF OneInRole
  <2>3. CASE ~Has(C, f.e)
    BY <1>1, <1>2, <1>5, <2>1, <2>3 DEF Has
  <2>4. QED
    BY <2>1, <2>2, <2>3 DEF TakesRole
<1>6. CASE ~(u = t /\ i = Len(stack[t])) /\ ~(v = t /\ j = Len(stack[t]))
  BY <1>1, <1>2, <1>6 DEF OneInRole
<1>7. QED
  BY <1>4, <1>5, <1>6

\* The facts about a call hold for the other calls if its step keeps them.
LEMMA MoveFits ==
    ASSUME TypeOK, CallsFit, OneInRole, NEW t \in Threads, stack[t] # <<>>,
           NEW f \in Frames, Replaced(t, f), FrameFacts(f)',
           \A g \in Frames :
               /\ FrameFacts(g)
               /\ \A C \in Roles :
                    ~(g.at \in C /\ Top(t).at \in C /\ g.e = Top(t).e)
               => FrameFacts(g)'
    PROVE  CallsFit'
<1>1. ASSUME NEW u \in Threads, NEW i \in 1..Len(stack'[u])
      PROVE  FrameFacts(stack[u][i])'
  <2>1. i \in 1..Len(stack[u])
    BY DEF Replaced, ReplacesTop
  <2>2. stack'[u][i] = IF u = t /\ i = Len(stack[t]) THEN f ELSE stack[u][i]
    BY <2>1 DEF Replaced, ReplacesTop
  <2>3. CASE u = t /\ i = Len(stack[t])
    <3>1. stack'[u][i] = f
      BY <2>2, <2>3
    <3>2. QED
      BY <3>1
  <2>4. CASE ~(u = t /\ i = Len(stack[t]))
    <3>1. PICK g \in Frames : g = stack[u][i]
      BY <2>1, Typing
    <3>2. FrameFacts(g)
      BY <2>1, <3>1 DEF CallsFit
    <3>3. \A C \in Roles : ~(g.at \in C /\ Top(t).at \in C /\ g.e = Top(t).e)
      BY <2>1, <2>4, <3>1, TopTyping DEF OneInRole
    <3>4. FrameFacts(g)'
      BY <3>2, <3>3
    <3>5. stack'[u][i] = g
      BY <2>2, <2>4, <3>1
    <3>6. QED
      BY <3>4, <3>5
  <2>5. QED
    BY <2>3, <2>4
<1>2. QED
  BY <1>1 DEF CallsFit

\* The top frame goes on with its own call.
Moves(t, f) ==
    /\ stack[t] # <<>> /\ f \in Frames /\ Replaced(t, f) /\ f.e = Top(t).e
    /\ Top(t).at \in ReleaseCalls => f.at \in ReleaseCalls
    /\ f.at \in ReleaseCalls => Top(t).at \in ReleaseCalls \/ deferred'[f.e]
    /\ f.at # "detach"
    /\ Top(t).at = "abandon" => Released(f.e)'
    /\ Top(t).todo # {} => f.at \in Owners /\ Top(t).todo \subseteq f.todo

LEMMA MoveNests ==
    ASSUME TypeOK, Nesting, NEW t \in Threads, NEW f, Moves(t, f),
           UNCHANGED owner
    PROVE  Nesting'
<1> SUFFICES ASSUME NEW u \in Threads, NEW i \in 1..Len(stack'[u]),
                    NEW j \in 1..Len(stack'[u]), i < j
             PROVE  LET a == stack'[u][i]
                        b == stack'[u][j]
                    IN  /\ a.at \in Releasers \cup {"body", "detach"}
                        /\ a.at # "body" => b.at \in ReleaseCalls /\ a.e <= b.e
                        /\ a.at \in Releasers => a.e < b.e
                        /\ j = i + 1 /\ a.at = "detach" => b.e = a.e
                        /\ j = i + 1 /\ a.at \in Releasers =>
                             owner[b.e] = a.e /\ \A c \in a.todo : c < b.e
  BY DEF Nesting, Moves
<1>1. /\ i \in 1..Len(stack[u]) /\ j \in 1..Len(stack[u])
      /\ Len(stack[u]) \in Nat
  BY Typing DEF Moves, Replaced, ReplacesTop
<1>2. /\ stack'[u][i] = stack[u][i]
      /\ stack'[u][j] = IF u = t /\ j = Len(stack[t]) THEN f ELSE stack[u][j]
  BY <1>1 DEF Moves, Replaced, ReplacesTop
<1>3. /\ stack'[u][j].e = stack[u][j].e
      /\ stack[u][j].at \in ReleaseCalls => stack'[u][j].at \in ReleaseCalls
  BY <1>2, TopTyping DEF Moves
<1> HIDE DEF ReleaseCalls, Releasers
<1>4. QED
  BY <1>1, <1>2, <1>3 DEF Nesting

LEMMA MoveDetaches ==
    ASSUME TypeOK, CallsFit, DetachLast, NEW t \in Threads, NEW f,
           Moves(t, f), Grows
    PROVE  DetachLast'
<1> SUFFICES ASSUME NEW u \in Threads, NEW i \in 1..Len(stack'[u]),
                    i = Len(stack'[u]), stack'[u][i].at = "detach"
             PROVE  once'[stack'[u][i].e] = "done"
  BY DEF DetachLast
<1>1. /\ i \in 1..Len(stack[u]) /\ i = Len(stack[u])
      /\ stack'[u][i] = IF u = t /\ i = Len(stack[t]) THEN f ELSE stack[u][i]
  BY DEF Moves, Replaced, ReplacesTop
<1>2. stack'[u][i] = stack[u][i]
  BY <1>1 DEF Moves
<1>3. once[stack[u][i].e] = "done"
  BY <1>1, <1>2 DEF DetachLast
<1>4. stack[u][i].e \in Effects
  BY <1>1, <1>2, Typing DEF CallsFit, FrameFacts, FiberCalls, Frames
<1>5. QED
  BY <1>2, <1>3, <1>4 DEF Grows

LEMMA MoveAsked ==
    ASSUME TypeOK, Asked, NEW t \in Threads, NEW f, Moves(t, f), Grows,
           CallsFit
    PROVE  Asked'
<1> SUFFICES ASSUME NEW u \in Threads, NEW i \in 1..Len(stack'[u]),
                    stack'[u][i].at \in ReleaseCalls
             PROVE  \/ Used(stack[u][i].e)' \/ deferred'[stack'[u][i].e]
                    \/ i > 1 /\ stack'[u][i - 1].at \in Releasers
  BY DEF Asked, Moves
<1>1. /\ i \in 1..Len(stack[u]) /\ Len(stack[u]) \in Nat
      /\ i > 1 => i - 1 \in 1..Len(stack[u]) /\ i - 1 # Len(stack[u])
  BY Typing DEF Moves, Replaced, ReplacesTop
<1>2. /\ stack'[u][i] = IF u = t /\ i = Len(stack[t]) THEN f ELSE stack[u][i]
      /\ i > 1 => stack'[u][i - 1] = stack[u][i - 1]
  BY <1>1 DEF Moves, Replaced, ReplacesTop
<1>3. stack'[u][i].e = stack[u][i].e
  BY <1>2, TopTyping DEF Moves
<1>4. stack[u][i].at \in ReleaseCalls \/ deferred'[stack'[u][i].e]
  BY <1>2, TopTyping DEF Moves
<1>5. CASE stack[u][i].at \in ReleaseCalls
  <2>1. \/ Used(stack[u][i].e) \/ deferred[stack[u][i].e]
        \/ i > 1 /\ stack[u][i - 1].at \in Releasers
    BY <1>1, <1>5 DEF Asked
  <2>2. PICK e \in Effects : e = stack[u][i].e
    BY <1>1, <1>5, ReleaseOfEffect
  <2>3. (Used(e) => Used(e)') /\ (deferred[e] => deferred'[e])
    BY DEF Grows
  <2>4. Used(e)' => Used(stack[u][i].e)'
    BY <2>2, <1>3 DEF Used
  <2>5. QED
    BY <1>2, <1>3, <2>1, <2>2, <2>3, <2>4
<1>6. QED
  BY <1>4, <1>5

LEMMA MoveSettled ==
    ASSUME TypeOK, NEW t \in Threads, NEW f, Moves(t, f), Grows,
           NEW c \in Effects, Settled(c)
    PROVE  Settled(c)'
<1>1. CASE Released(c) \/ deferred[c]
  BY <1>1 DEF Grows, Settled
<1>2. CASE Panicking(c)
  <2>1. Has({"abandon"}, c)
    BY <1>2 DEF Panicking, Has
  <2>2. CASE Top(t).at = "abandon" /\ Top(t).e = c
    BY <2>2 DEF Moves, Settled
  <2>3. CASE ~(Top(t).at = "abandon" /\ Top(t).e = c)
    <3>1. Has({"abandon"}, c)'
      BY <2>1, <2>3, MoveHas DEF Moves
    <3>2. QED
      BY <3>1 DEF Has, Panicking, Settled
  <2>4. QED
    BY <2>2, <2>3
<1>3. QED
  BY <1>1, <1>2 DEF Settled

LEMMA MoveTakenOver ==
    ASSUME TypeOK, NEW t \in Threads, NEW f, Moves(t, f),
           NEW c \in Effects, owner'[c] = owner[c], TakenOver(c)
    PROVE  TakenOver(c)'
<1>1. PICK u \in Threads : \E i \in 1..Len(stack[u]) :
        /\ stack[u][i].at \in Owners /\ stack[u][i].e = owner[c]
        /\ \/ c \in stack[u][i].todo
           \/ i < Len(stack[u]) /\ stack[u][i + 1].e = c
  BY DEF TakenOver
<1>2. PICK i \in 1..Len(stack[u]) :
        /\ stack[u][i].at \in Owners /\ stack[u][i].e = owner[c]
        /\ \/ c \in stack[u][i].todo
           \/ i < Len(stack[u]) /\ stack[u][i + 1].e = c
  BY <1>1
<1>3. /\ Len(stack[u]) \in Nat /\ Len(stack'[u]) = Len(stack[u])
      /\ i < Len(stack[u]) => i + 1 \in 1..Len(stack[u])
  BY Typing DEF Moves, Replaced, ReplacesTop
<1>4. /\ stack'[u][i] = IF u = t /\ i = Len(stack[t]) THEN f ELSE stack[u][i]
      /\ i < Len(stack[u]) => stack'[u][i + 1] =
           IF u = t /\ i + 1 = Len(stack[t]) THEN f ELSE stack[u][i + 1]
  BY <1>3 DEF Moves, Replaced, ReplacesTop
<1>5. i < Len(stack[u]) => stack'[u][i + 1].e = stack[u][i + 1].e
  BY <1>4, TopTyping DEF Moves
<1>6. CASE u = t /\ i = Len(stack[t])
  <2>1. c \in Top(t).todo /\ Top(t).e = owner[c]
    BY <1>2, <1>6, TopTyping DEF Moves
  <2>2. f.at \in Owners /\ c \in f.todo /\ f.e = owner[c]
    BY <2>1 DEF Moves
  <2>3. QED
    BY <1>3, <1>4, <1>6, <2>2 DEF TakenOver
<1>7. CASE ~(u = t /\ i = Len(stack[t]))
  <2>1. stack'[u][i] = stack[u][i]
    BY <1>4, <1>7
  <2>2. QED
    BY <1>2, <1>3, <1>5, <2>1 DEF TakenOver
<1>8. QED
  BY <1>6, <1>7

LEMMA MoveCovers ==
    ASSUME TypeOK, Covered, NEW t \in Threads, NEW f, Moves(t, f), Grows,
           UNCHANGED <<registered, owner>>,
           \A c \in Registered : Listed(c) =>
               \/ Settled(c)' \/ Listed(c)'
               \/ f.at \in Owners /\ f.e = owner[c] /\ c \in f.todo
    PROVE  Covered'
<1> SUFFICES ASSUME NEW c \in Registered
             PROVE  Settled(c)' \/ Listed(c)' \/ TakenOver(c)'
  BY DEF Covered, Registered
<1>1. c \in Effects
  BY DEF Registered, TypeOK
<1>2. CASE Settled(c)
  BY <1>1, <1>2, MoveSettled
<1>3. CASE Listed(c)
  <2>1. CASE f.at \in Owners /\ f.e = owner[c] /\ c \in f.todo
    <3>1. /\ Len(stack[t]) \in 1..Len(stack'[t])
          /\ stack'[t][Len(stack[t])] = f
      BY TopTyping DEF Moves, Replaced, ReplacesTop
    <3>2. QED
      BY <2>1, <3>1 DEF TakenOver
  <2>2. QED
    BY <1>3, <2>1
<1>4. CASE TakenOver(c)
  BY <1>1, <1>4, MoveTakenOver
<1>5. QED
  BY <1>2, <1>3, <1>4 DEF Covered

LEMMA OrderStays ==
    ASSUME TypeOK, EntriesFit, OrderKept, Grows,
           UNCHANGED <<registered, owner, cleaned>>,
           \A c \in Registered : Settled(c) => Settled(c)'
    PROVE  OrderKept'
<1> SUFFICES ASSUME NEW e \in Registered, cleaned[e] = 1,
                    ~Used(e)', ~deferred'[e]
             PROVE  /\ IF owner[e] = Fiber THEN fiber' # "open"
                       ELSE /\ done'[owner[e]]
                            /\ cleaned[owner[e]] = 1 \/ ~installed'[owner[e]]
                    /\ \A y \in Registered :
                         y > e /\ owner[y] = owner[e] => Settled(y)'
  BY DEF OrderKept, Registered
<1>1. e \in Effects /\ owner[e] \in Effects \cup {Fiber}
  BY DEF Registered, TypeOK
<1>2. ~Used(e) /\ ~deferred[e]
  BY <1>1 DEF Grows
<1>3. /\ IF owner[e] = Fiber THEN fiber # "open"
         ELSE /\ done[owner[e]]
              /\ cleaned[owner[e]] = 1 \/ ~installed[owner[e]]
      /\ \A y \in Registered : y > e /\ owner[y] = owner[e] => Settled(y)
  BY <1>2 DEF OrderKept
<1>4. QED
  BY <1>1, <1>3 DEF Grows

----------------------------------------------------------------------------
(* What a return keeps. *)

\* The call on top returns: a release of an effect that is finished, or that
\* is left to the goroutine in its body.
Pops(t) ==
    /\ stack[t] # <<>> /\ Popped(t)
    /\ Top(t).todo = {} /\ Top(t).at # "abandon"
    /\ Top(t).at \in ReleaseCalls =>
         \A e \in Effects : e = Top(t).e =>
            once'[e] = "done" \/ (~installed[e] /\ Settled(e)')

LEMMA PopKeeps ==
    ASSUME TypeOK, NEW t \in Threads, Pops(t), NEW u \in Threads,
           NEW i \in 1..Len(stack'[u])
    PROVE  /\ i \in 1..Len(stack[u]) /\ stack'[u][i] = stack[u][i]
           /\ ~(u = t /\ i = Len(stack[t]))
           /\ stack[u][i] \in Frames
           /\ Len(stack[u]) \in Nat
<1>1. /\ Len(stack'[u]) = IF u = t THEN Len(stack[t]) - 1 ELSE Len(stack[u])
      /\ stack'[u][i] = stack[u][i]
  BY DEF Pops, Popped, PopsTop
<1>2. Len(stack[t]) \in Nat \ {0} /\ Len(stack[u]) \in Nat
  BY TopTyping, Typing DEF Pops
<1>3. i \in 1..Len(stack[u]) /\ ~(u = t /\ i = Len(stack[t]))
  BY <1>1, <1>2
<1>4. QED
  BY <1>1, <1>2, <1>3, Typing

LEMMA PopHas ==
    ASSUME TypeOK, NEW t \in Threads, Pops(t),
           NEW C, NEW e, Has(C, e), ~(Top(t).at \in C /\ Top(t).e = e)
    PROVE  Has(C, e)'
<1>1. PICK u \in Threads : \E i \in 1..Len(stack[u]) :
             stack[u][i].at \in C /\ stack[u][i].e = e
  BY DEF Has
<1>2. PICK i \in 1..Len(stack[u]) :
             stack[u][i].at \in C /\ stack[u][i].e = e
  BY <1>1
<1>3. Top(t) = stack[t][Len(stack[t])]
  BY DEF Top
<1>4. ~(u = t /\ i = Len(stack[t]))
  BY <1>2, <1>3
<1>5. /\ Len(stack'[u]) = IF u = t THEN Len(stack[t]) - 1 ELSE Len(stack[u])
      /\ Len(stack[u]) \in Nat
  BY Typing DEF Pops, Popped, PopsTop
<1>6. i \in 1..Len(stack'[u])
  BY <1>4, <1>5
<1>7. stack'[u][i] = stack[u][i]
  BY <1>6 DEF Pops, Popped, PopsTop
<1>8. QED
  BY <1>2, <1>6, <1>7 DEF Has

LEMMA PopRoles ==
    ASSUME TypeOK, OneInRole, NEW t \in Threads, Pops(t)
    PROVE  OneInRole'
<1> SUFFICES ASSUME NEW C \in Roles, NEW u \in Threads, NEW v \in Threads,
                    NEW i \in 1..Len(stack'[u]), NEW j \in 1..Len(stack'[v]),
                    stack'[u][i].at \in C, stack'[v][j].at \in C,
                    stack'[u][i].e = stack'[v][j].e
             PROVE  u = v /\ i = j
  BY DEF OneInRole, Roles
<1>1. /\ i \in 1..Len(stack[u]) /\ j \in 1..Len(stack[v])
      /\ stack'[u][i] = stack[u][i] /\ stack'[v][j] = stack[v][j]
  BY PopKeeps
<1>2. QED
  BY <1>1 DEF OneInRole

LEMMA PopFits ==
    ASSUME TypeOK, CallsFit, OneInRole, NEW t \in Threads, Pops(t),
           \A g \in Frames :
               /\ FrameFacts(g)
               /\ \A C \in Roles :
                    ~(g.at \in C /\ Top(t).at \in C /\ g.e = Top(t).e)
               => FrameFacts(g)'
    PROVE  CallsFit'
<1>1. ASSUME NEW u \in Threads, NEW i \in 1..Len(stack'[u])
      PROVE  FrameFacts(stack[u][i])'
  <2>1. /\ i \in 1..Len(stack[u]) /\ stack'[u][i] = stack[u][i]
        /\ ~(u = t /\ i = Len(stack[t]))
    BY PopKeeps
  <2>2. PICK g \in Frames : g = stack[u][i]
    BY <2>1, Typing
  <2>3. FrameFacts(g)
    BY <2>1, <2>2 DEF CallsFit
  <2>4. \A C \in Roles : ~(g.at \in C /\ Top(t).at \in C /\ g.e = Top(t).e)
    BY <2>1, <2>2, TopTyping DEF OneInRole, Pops
  <2>5. FrameFacts(g)' /\ stack'[u][i] = g
    BY <2>1, <2>2, <2>3, <2>4
  <2>6. QED
    BY <2>5
<1>2. QED
  BY <1>1 DEF CallsFit

LEMMA PopNests ==
    ASSUME TypeOK, Nesting, NEW t \in Threads, Pops(t), UNCHANGED owner
    PROVE  Nesting'
<1> SUFFICES ASSUME NEW u \in Threads, NEW i \in 1..Len(stack'[u]),
                    NEW j \in 1..Len(stack'[u]), i < j
             PROVE  LET a == stack'[u][i]
                        b == stack'[u][j]
                    IN  /\ a.at \in Releasers \cup {"body", "detach"}
                        /\ a.at # "body" => b.at \in ReleaseCalls /\ a.e <= b.e
                        /\ a.at \in Releasers => a.e < b.e
                        /\ j = i + 1 /\ a.at = "detach" => b.e = a.e
                        /\ j = i + 1 /\ a.at \in Releasers =>
                             owner[b.e] = a.e /\ \A c \in a.todo : c < b.e
  BY DEF Nesting
<1>1. /\ i \in 1..Len(stack[u]) /\ j \in 1..Len(stack[u])
      /\ stack'[u][i] = stack[u][i] /\ stack'[u][j] = stack[u][j]
  BY PopKeeps
<1> HIDE DEF ReleaseCalls, Releasers
<1>2. QED
  BY <1>1 DEF Nesting

LEMMA PopDetaches ==
    ASSUME TypeOK, CallsFit, Nesting, DetachLast, NEW t \in Threads, Pops(t),
           Grows
    PROVE  DetachLast'
<1> SUFFICES ASSUME NEW u \in Threads, NEW i \in 1..Len(stack'[u]),
                    i = Len(stack'[u]), stack'[u][i].at = "detach"
             PROVE  once'[stack'[u][i].e] = "done"
  BY DEF DetachLast
<1>1. /\ i \in 1..Len(stack[u]) /\ stack'[u][i] = stack[u][i]
      /\ stack[u][i] \in Frames /\ Len(stack[u]) \in Nat
      /\ Len(stack'[u]) = IF u = t THEN Len(stack[t]) - 1 ELSE Len(stack[u])
  BY PopKeeps DEF Pops, Popped, PopsTop
<1>2. /\ stack[u][i].at = "detach"
      /\ stack[u][i].e \in Effects /\ installed[stack[u][i].e]
  BY <1>1 DEF CallsFit, FrameFacts, FiberCalls, Frames
<1>3. CASE u = t
  <2>1. /\ Len(stack[t]) = i + 1 /\ i + 1 \in 1..Len(stack[t])
        /\ Top(t) = stack[t][i + 1]
    BY <1>1, <1>3 DEF Top
  <2>2. PICK j \in 1..Len(stack[t]) : j = i + 1 /\ i < j
    BY <1>1, <2>1
  <2>3. /\ stack[t][i].at = "detach" /\ i \in 1..Len(stack[t])
        /\ Top(t) = stack[t][j]
    BY <1>1, <1>2, <1>3, <2>1, <2>2
  <2>4. Top(t).at \in ReleaseCalls /\ Top(t).e = stack[u][i].e
    BY <1>3, <2>2, <2>3 DEF Nesting
  <2>5. QED
    BY <1>1, <1>2, <2>4 DEF Pops
<1>4. CASE u # t
  <2>1. once[stack[u][i].e] = "done"
    BY <1>1, <1>2, <1>4 DEF DetachLast
  <2>2. QED
    BY <1>1, <1>2, <2>1 DEF Grows
<1>5. QED
  BY <1>3, <1>4

LEMMA PopAsked ==
    ASSUME TypeOK, CallsFit, Asked, NEW t \in Threads, Pops(t), Grows
    PROVE  Asked'
<1> SUFFICES ASSUME NEW u \in Threads, NEW i \in 1..Len(stack'[u]),
                    stack'[u][i].at \in ReleaseCalls
             PROVE  \/ Used(stack[u][i].e)' \/ deferred'[stack'[u][i].e]
                    \/ i > 1 /\ stack'[u][i - 1].at \in Releasers
  BY DEF Asked
<1>1. /\ i \in 1..Len(stack[u]) /\ stack'[u][i] = stack[u][i]
      /\ i > 1 => i - 1 \in 1..Len(stack'[u])
      /\ Len(stack[u]) \in Nat
  BY PopKeeps
<1>2. i > 1 => stack'[u][i - 1] = stack[u][i - 1]
  BY <1>1, PopKeeps
<1>3. \/ Used(stack[u][i].e) \/ deferred[stack[u][i].e]
      \/ i > 1 /\ stack[u][i - 1].at \in Releasers
  BY <1>1 DEF Asked
<1>4. PICK e \in Effects : e = stack[u][i].e
  BY <1>1, ReleaseOfEffect
<1>5. (Used(e) => Used(e)') /\ (deferred[e] => deferred'[e])
  BY DEF Grows
<1>6. Used(e)' => Used(stack[u][i].e)'
  BY <1>1, <1>4 DEF Used
<1>7. QED
  BY <1>1, <1>2, <1>3, <1>4, <1>5, <1>6

LEMMA PopSettled ==
    ASSUME TypeOK, NEW t \in Threads, Pops(t), Grows, NEW c \in Effects,
           Settled(c)
    PROVE  Settled(c)'
<1>1. CASE Released(c) \/ deferred[c]
  BY <1>1 DEF Grows, Settled
<1>2. CASE Panicking(c)
  <2>1. Has({"abandon"}, c)
    BY <1>2 DEF Panicking, Has
  <2>2. Has({"abandon"}, c)'
    BY <2>1, PopHas DEF Pops
  <2>3. QED
    BY <2>2 DEF Has, Panicking, Settled
<1>3. QED
  BY <1>1, <1>2 DEF Settled

LEMMA PopTakenOver ==
    ASSUME TypeOK, Nesting, NEW t \in Threads, Pops(t), NEW c \in Effects,
           owner'[c] = owner[c], TakenOver(c)
    PROVE  TakenOver(c)' \/ Settled(c)'
<1>1. PICK u \in Threads : \E i \in 1..Len(stack[u]) :
        /\ stack[u][i].at \in Owners /\ stack[u][i].e = owner[c]
        /\ \/ c \in stack[u][i].todo
           \/ i < Len(stack[u]) /\ stack[u][i + 1].e = c
  BY DEF TakenOver
<1>2. PICK i \in 1..Len(stack[u]) :
        /\ stack[u][i].at \in Owners /\ stack[u][i].e = owner[c]
        /\ \/ c \in stack[u][i].todo
           \/ i < Len(stack[u]) /\ stack[u][i + 1].e = c
  BY <1>1
<1>3. /\ Len(stack[u]) \in Nat
      /\ Len(stack'[u]) = IF u = t THEN Len(stack[t]) - 1 ELSE Len(stack[u])
      /\ Top(t) = stack[t][Len(stack[t])]
  BY Typing DEF Pops, Popped, PopsTop, Top
<1>4. \A k \in 1..Len(stack'[u]) : stack'[u][k] = stack[u][k]
  BY DEF Pops, Popped, PopsTop
<1>5. CASE u = t /\ i = Len(stack[t])
  BY <1>2, <1>3, <1>5 DEF Pops
<1>6. CASE u = t /\ i + 1 = Len(stack[t]) /\ stack[u][i + 1].e = c
  <2>1. Top(t).e = c /\ i + 1 \in 1..Len(stack[u]) /\ i < i + 1
    BY <1>3, <1>6
  <2>2. stack[u][i].at \in Releasers \cup {"body", "detach"}
    BY <2>1 DEF Nesting
  <2>3. Top(t).at \in ReleaseCalls
    BY <1>2, <1>3, <1>6, <2>1, <2>2 DEF Nesting, Owners, Releasers
  <2>4. QED
    BY <2>1, <2>3 DEF Pops, Settled, Released
<1>7. CASE u = t /\ i < Len(stack[t])
           /\ ~(i + 1 = Len(stack[t]) /\ stack[u][i + 1].e = c)
  <2>1. /\ i \in 1..Len(stack'[u])
        /\ c \notin stack[u][i].todo =>
             i < Len(stack'[u]) /\ i + 1 \in 1..Len(stack'[u])
    BY <1>2, <1>3, <1>7
  <2>2. QED
    BY <1>2, <1>4, <2>1 DEF TakenOver
<1>8. CASE u # t
  <2>1. /\ i \in 1..Len(stack'[u])
        /\ i < Len(stack[u]) =>
             i < Len(stack'[u]) /\ i + 1 \in 1..Len(stack'[u])
    BY <1>3, <1>8
  <2>2. QED
    BY <1>2, <1>4, <2>1 DEF TakenOver
<1>9. QED
  BY <1>3, <1>5, <1>6, <1>7, <1>8

LEMMA PopCovers ==
    ASSUME TypeOK, Nesting, Covered, NEW t \in Threads, Pops(t), Grows,
           UNCHANGED <<registered, owner>>,
           \A c \in Registered : Listed(c) => Settled(c)' \/ Listed(c)'
    PROVE  Covered'
<1> SUFFICES ASSUME NEW c \in Registered
             PROVE  Settled(c)' \/ Listed(c)' \/ TakenOver(c)'
  BY DEF Covered, Registered
<1>1. c \in Effects
  BY DEF Registered, TypeOK
<1>2. CASE Settled(c)
  BY <1>1, <1>2, PopSettled
<1>3. CASE Listed(c)
  BY <1>3
<1>4. CASE TakenOver(c)
  BY <1>1, <1>4, PopTakenOver
<1>5. QED
  BY <1>2, <1>3, <1>4 DEF Covered

----------------------------------------------------------------------------
(* What a call keeps. *)

\* The call g has been made: from outside or from a body, by a handle for its
\* own effect, or by a release for the newest effect it had left.
Makes(t, f, g) ==
    /\ Called(t, f, g) /\ g \in Frames /\ g.todo = {} /\ g.at # "detach"
    /\ g.at \in ReleaseCalls =>
         stack[t] # <<>> /\ (Used(g.e)' \/ f.at \in Releasers)
    /\ stack[t] # <<>> =>
         /\ f \in Frames /\ f.e = Top(t).e
         /\ f.at = Top(t).at \/ (Top(t).at = "handle" /\ f.at = "detach")
         /\ Top(t).todo \subseteq f.todo \cup {g.e}
         /\ \/ f.at = "body" /\ g.at \notin ReleaseCalls
            \/ f.at = "detach" /\ g.at \in ReleaseCalls /\ g.e = f.e
            \/ /\ f.at \in Releasers /\ g.at \in ReleaseCalls
               /\ f.e < g.e /\ owner'[g.e] = f.e
               /\ \A c \in f.todo : c < g.e

\* The frames after a call: those before it, and the call.
LEMMA MakeKeeps ==
    ASSUME TypeOK, NEW t \in Threads, NEW f, NEW g, Makes(t, f, g)
    PROVE  /\ Len(stack[t]) \in Nat
           /\ Len(stack[t]) + 1 \in 1..Len(stack'[t])
           /\ stack'[t][Len(stack[t]) + 1] = g
           /\ Len(stack[t]) \in 1..Len(stack[t]) => stack[t] # <<>>
           /\ \A u \in Threads : \A i \in 1..Len(stack'[u]) :
                /\ \/ i \in 1..Len(stack[u])
                   \/ u = t /\ i = Len(stack[t]) + 1 /\ stack'[u][i] = g
           /\ \A u \in Threads : \A i \in 1..Len(stack[u]) :
                /\ i \in 1..Len(stack'[u])
                /\ stack'[u][i] = IF u = t /\ i = Len(stack[t]) THEN f
                                  ELSE stack[u][i]
                /\ stack'[u][i].e = stack[u][i].e
<1>1. Len(stack[t]) \in Nat /\ \A u \in Threads : Len(stack[u]) \in Nat
  BY Typing
<1>2. Len(stack[t]) \in 1..Len(stack[t]) => stack[t] # <<>>
  BY Typing
<1>3. /\ \A u \in Threads :
           Len(stack'[u]) = IF u = t THEN Len(stack[t]) + 1 ELSE Len(stack[u])
      /\ stack'[t][Len(stack[t]) + 1] = g
      /\ \A u \in Threads : \A i \in 1..Len(stack[u]) :
           stack'[u][i] = IF u = t /\ i = Len(stack[t]) THEN f ELSE stack[u][i]
  BY DEF Makes, Called, CallsFrom
<1>4. \A u \in Threads : \A i \in 1..Len(stack[u]) :
        stack'[u][i].e = stack[u][i].e
  BY <1>2, <1>3 DEF Makes, Top
<1>5. \A u \in Threads : \A i \in 1..Len(stack[u]) : i \in 1..Len(stack'[u])
  BY <1>1, <1>3
<1>6. \A u \in Threads : \A i \in 1..Len(stack'[u]) :
        \/ i \in 1..Len(stack[u])
        \/ u = t /\ i = Len(stack[t]) + 1 /\ stack'[u][i] = g
  BY <1>1, <1>3
<1>7. Len(stack[t]) + 1 \in 1..Len(stack'[t])
  BY <1>1, <1>3
<1>8. QED
  BY <1>1, <1>2, <1>3, <1>4, <1>5, <1>6, <1>7

LEMMA MakeHas ==
    ASSUME TypeOK, NEW t \in Threads, NEW f, NEW g, Makes(t, f, g),
           NEW C, NEW e, Has(C, e), "handle" \notin C
    PROVE  Has(C, e)'
<1>1. PICK u \in Threads : \E i \in 1..Len(stack[u]) :
             stack[u][i].at \in C /\ stack[u][i].e = e
  BY DEF Has
<1>2. PICK i \in 1..Len(stack[u]) :
             stack[u][i].at \in C /\ stack[u][i].e = e
  BY <1>1
<1>3. /\ i \in 1..Len(stack'[u])
      /\ stack'[u][i] = IF u = t /\ i = Len(stack[t]) THEN f ELSE stack[u][i]
      /\ stack'[u][i].e = stack[u][i].e
  BY MakeKeeps
<1>4. stack'[u][i].at \in C
  <2>1. CASE u = t /\ i = Len(stack[t])
    <3>1. stack[t] # <<>> /\ Top(t) = stack[u][i]
      BY <2>1, MakeKeeps DEF Top
    <3>2. QED
      BY <1>2, <1>3, <2>1, <3>1 DEF Makes
  <2>2. CASE ~(u = t /\ i = Len(stack[t]))
    BY <1>2, <1>3, <2>2
  <2>3. QED
    BY <2>1, <2>2
<1>5. QED
  BY <1>2, <1>3, <1>4 DEF Has

LEMMA MakeHasNew ==
    ASSUME TypeOK, NEW t \in Threads, NEW f, NEW g, Makes(t, f, g),
           NEW C, g.at \in C
    PROVE  Has(C, g.e)'
  BY MakeKeeps DEF Has

LEMMA MakeRoles ==
    ASSUME TypeOK, OneInRole, NEW t \in Threads, NEW f, NEW g, Makes(t, f, g),
           stack[t] # <<>> => TakesRole(t, f),
           \A C \in Roles : g.at \in C =>
               /\ ~Has(C, g.e)
               /\ stack[t] # <<>> /\ f.at \in C => f.e # g.e
    PROVE  OneInRole'
<1> DEFINE Was(u, i) ==
        /\ i \in 1..Len(stack[u])
        /\ \/ ~(u = t /\ i = Len(stack[t])) /\ stack'[u][i] = stack[u][i]
           \/ /\ u = t /\ i = Len(stack[t]) /\ stack'[u][i] = f
              /\ stack[t] # <<>> /\ f.e = Top(t).e /\ Top(t) = stack[u][i]
<1>1. ASSUME NEW u \in Threads, NEW i \in 1..Len(stack'[u])
      PROVE  \/ Was(u, i)
             \/ u = t /\ i = Len(stack[t]) + 1 /\ stack'[u][i] = g
  <2>1. CASE i \in 1..Len(stack[u]) /\ u = t /\ i = Len(stack[t])
    <3>1. stack[t] # <<>> /\ stack'[u][i] = f
      BY <2>1, MakeKeeps
    <3>2. QED
      BY <2>1, <3>1 DEF Makes, Top
  <2>2. CASE i \in 1..Len(stack[u]) /\ ~(u = t /\ i = Len(stack[t]))
    <3>1. stack'[u][i] = stack[u][i]
      BY <2>2, MakeKeeps
    <3>2. QED
      BY <2>2, <3>1
  <2>3. QED
    BY <2>1, <2>2, MakeKeeps
<1> SUFFICES ASSUME NEW C \in Roles, NEW u \in Threads, NEW v \in Threads,
                    NEW i \in 1..Len(stack'[u]), NEW j \in 1..Len(stack'[v]),
                    stack'[u][i].at \in C, stack'[v][j].at \in C,
                    stack'[u][i].e = stack'[v][j].e
             PROVE  u = v /\ i = j
  BY DEF OneInRole, Roles
<1>2. CASE Was(u, i) /\ Was(v, j)
  <2>1. CASE u = t /\ i = Len(stack[t])
    <3>1. CASE v = t /\ j = Len(stack[t])
      BY <2>1, <3>1
    <3>2. CASE ~(v = t /\ j = Len(stack[t]))
      <4>1. stack[t] # <<>> /\ f.at \in C /\ stack[v][j].at \in C
            /\ f.e = stack[v][j].e /\ f.e = stack[u][i].e
        BY <1>2, <2>1, <3>2
      <4>2. Has(C, f.e)
        BY <1>2, <4>1 DEF Has
      <4>3. Top(t).at \in C
        BY <4>1, <4>2 DEF TakesRole
      <4>4. QED
        BY <1>2, <2>1, <4>1, <4>3 DEF OneInRole, Top
    <3>3. QED
      BY <3>1, <3>2
  <2>2. CASE v = t /\ j = Len(stack[t]) /\ ~(u = t /\ i = Len(stack[t]))
    <3>1. stack[t] # <<>> /\ f.at \in C /\ stack[u][i].at \in C
          /\ f.e = stack[u][i].e /\ f.e = stack[v][j].e
      BY <1>2, <2>2
    <3>2. Has(C, f.e)
      BY <1>2, <3>1 DEF Has
    <3>3. Top(t).at \in C
      BY <3>1, <3>2 DEF TakesRole
    <3>4. QED
      BY <1>2, <2>2, <3>1, <3>3 DEF OneInRole, Top
  <2>3. CASE ~(v = t /\ j = Len(stack[t])) /\ ~(u = t /\ i = Len(stack[t]))
    <3>1. /\ stack'[u][i] = stack[u][i] /\ i \in 1..Len(stack[u])
          /\ stack'[v][j] = stack[v][j] /\ j \in 1..Len(stack[v])
      BY <1>2, <2>3
    <3>2. QED
      BY <3>1 DEF OneInRole
  <2>4. QED
    BY <2>1, <2>2, <2>3
<1>3. ASSUME NEW w \in Threads, NEW k \in 1..Len(stack'[w]), Was(w, k),
             stack'[w][k].at \in C, stack'[w][k].e = g.e, g.at \in C
      PROVE  FALSE
  <2>1. CASE w = t /\ k = Len(stack[t])
    BY <1>3, <2>1
  <2>2. CASE ~(w = t /\ k = Len(stack[t]))
    BY <1>3, <2>2 DEF Has
  <2>3. QED
    BY <2>1, <2>2
<1> HIDE DEF Was
<1>4. QED
  BY <1>1, <1>2, <1>3

LEMMA MakeFits ==
    ASSUME TypeOK, CallsFit, OneInRole, NEW t \in Threads, NEW f, NEW g,
           Makes(t, f, g), stack[t] # <<>> => FrameFacts(f)', FrameFacts(g)',
           \A h \in Frames : FrameFacts(h) => FrameFacts(h)'
    PROVE  CallsFit'
<1>1. ASSUME NEW u \in Threads, NEW i \in 1..Len(stack'[u])
      PROVE  FrameFacts(stack[u][i])'
  <2>1. CASE i \in 1..Len(stack[u]) /\ ~(u = t /\ i = Len(stack[t]))
    <3>1. PICK h \in Frames : h = stack[u][i]
      BY <2>1, Typing
    <3>2. FrameFacts(h)
      BY <2>1, <3>1 DEF CallsFit
    <3>3. FrameFacts(h)' /\ stack'[u][i] = h
      BY <2>1, <3>1, <3>2, MakeKeeps
    <3>4. QED
      BY <3>3
  <2>2. CASE i \in 1..Len(stack[u]) /\ u = t /\ i = Len(stack[t])
    <3>1. stack'[u][i] = f /\ FrameFacts(f)'
      BY <2>2, MakeKeeps
    <3>2. QED
      BY <3>1
  <2>3. CASE u = t /\ i = Len(stack[t]) + 1
    <3>1. stack'[u][i] = g
      BY <2>3, MakeKeeps
    <3>2. QED
      BY <3>1
  <2>4. QED
    BY <2>1, <2>2, <2>3, MakeKeeps
<1>2. QED
  BY <1>1 DEF CallsFit

LEMMA MakeNests ==
    ASSUME TypeOK, CallsFit, Nesting, NEW t \in Threads, NEW f, NEW g,
           Makes(t, f, g), Grows
    PROVE  Nesting'
<1> SUFFICES ASSUME NEW u \in Threads, NEW i \in 1..Len(stack'[u]),
                    NEW j \in 1..Len(stack'[u]), i < j
             PROVE  LET a == stack'[u][i]
                        b == stack'[u][j]
                    IN  /\ a.at \in Releasers \cup {"body", "detach"}
                        /\ a.at # "body" => b.at \in ReleaseCalls /\ a.e <= b.e
                        /\ a.at \in Releasers => a.e < b.e
                        /\ j = i + 1 /\ a.at = "detach" => b.e = a.e
                        /\ j = i + 1 /\ a.at \in Releasers =>
                             owner'[b.e] = a.e /\ \A c \in a.todo : c < b.e
  BY DEF Nesting
<1> DEFINE n == Len(stack[t])
<1>1. /\ n \in Nat /\ Len(stack[u]) \in Nat
      /\ i \in 1..Len(stack[u]) \/ (u = t /\ i = n + 1)
      /\ j \in 1..Len(stack[u]) \/ (u = t /\ j = n + 1 /\ stack'[u][j] = g)
  BY MakeKeeps, Typing
<1>2. i \in 1..Len(stack[u])
  BY <1>1
<1>3. /\ stack'[u][i] = IF u = t /\ i = n THEN f ELSE stack[u][i]
      /\ stack'[u][i].e = stack[u][i].e
      /\ u = t /\ i = n => stack[t] # <<>> /\ Top(t) = stack[u][i]
  BY <1>1, <1>2, MakeKeeps DEF Top
<1>4. \A d \in Registered : owner'[d] = owner[d]
  BY DEF Grows
<1>5. CASE j \in 1..Len(stack[u])
  <2>1. /\ stack'[u][j] = IF u = t /\ j = n THEN f ELSE stack[u][j]
        /\ stack'[u][j].e = stack[u][j].e
        /\ u = t /\ j = n => stack[t] # <<>> /\ Top(t) = stack[u][j]
    BY <1>1, <1>5, MakeKeeps DEF Top
  <2>2. ~(u = t /\ i = n) /\ stack'[u][i] = stack[u][i]
    BY <1>3, <1>5
  <2>3. /\ stack[u][j].at \in ReleaseCalls => stack'[u][j].at \in ReleaseCalls
        /\ stack[u][j].at \in ReleaseCalls => stack[u][j].e \in Registered
    <3>1. FrameFacts(stack[u][j]) /\ stack[u][j] \in Frames
      BY <1>5, Typing DEF CallsFit
    <3>2. stack[u][j].at \in ReleaseCalls => stack[u][j].e \in Registered
      BY <3>1 DEF FrameFacts, ReleaseCalls, FiberCalls, Registered, Frames, TypeOK
    <3>3. "handle" \notin ReleaseCalls
      BY DEF ReleaseCalls
    <3>4. stack[u][j].at \in ReleaseCalls => stack'[u][j].at \in ReleaseCalls
      BY <2>1, <3>3 DEF Makes
    <3>5. QED
      BY <3>2, <3>4
  <2>4. "body" \notin Releasers
    BY DEF Releasers
  <2> HIDE DEF ReleaseCalls, Releasers, n
  <2>5. QED
    BY <1>2, <1>4, <1>5, <2>1, <2>2, <2>3, <2>4 DEF Nesting
<1>6. CASE u = t /\ j = n + 1 /\ stack'[u][j] = g
  <2>1. CASE i = n
    <3>1. /\ stack[t] # <<>> /\ stack'[u][i] = f /\ stack'[u][j] = g
      BY <1>3, <1>6, <2>1
    <3>2. Top(t) \in Frames /\ f \in Frames /\ g \in Frames
      BY <3>1, TopTyping DEF Makes
    <3>3. f.at \in Releasers => owner'[g.e] = f.e
      BY <3>1, <3>2 DEF Makes, Releasers
    <3>4. /\ f.at \in Releasers \cup {"body", "detach"}
          /\ f.at # "body" => g.at \in ReleaseCalls /\ f.e <= g.e
          /\ f.at \in Releasers => f.e < g.e
          /\ f.at = "detach" => g.e = f.e
          /\ f.at \in Releasers => \A c \in f.todo : c < g.e
      BY <3>1, <3>2 DEF Makes, Releasers, Frames
    <3>5. QED
      BY <3>1, <3>3, <3>4
  <2>2. CASE i # n
    <3>1. /\ stack'[u][i] = stack[u][i] /\ stack'[u][j] = g
          /\ i < n /\ n \in 1..Len(stack[u]) /\ j # i + 1
      BY <1>1, <1>2, <1>3, <1>6, <2>2
    <3>2. stack[t] # <<>> /\ Top(t) = stack[u][n]
      BY <1>6, <3>1, MakeKeeps DEF Top
    <3>3. /\ stack[u][i].at \in Releasers \cup {"body", "detach"}
          /\ stack[u][i].at # "body" =>
               Top(t).at \in ReleaseCalls /\ stack[u][i].e <= Top(t).e
          /\ stack[u][i].at \in Releasers => stack[u][i].e < Top(t).e
      <4> HIDE DEF ReleaseCalls, Releasers, n
      <4>1. QED
        BY <1>2, <3>1, <3>2 DEF Nesting
    <3>4. CASE stack[u][i].at = "body"
      BY <3>1, <3>4 DEF Releasers
    <3>5. CASE stack[u][i].at # "body"
      <4>1. f.at \in Releasers /\ g.at \in ReleaseCalls /\ f.e < g.e
            /\ f.e = Top(t).e
        BY <3>2, <3>3, <3>5 DEF Makes, ReleaseCalls, Releasers
      <4>2. stack[u][i] \in Frames /\ f \in Frames /\ g \in Frames
        BY <1>2, <3>2, Typing DEF Makes
      <4>3. /\ stack[u][i].e \in Int /\ f.e \in Int /\ g.e \in Int
        BY <4>2 DEF Frames
      <4>4. stack[u][i].e < g.e
        <5>1. stack[u][i].e <= f.e
          BY <3>3, <3>5, <4>1
        <5>2. QED
          BY <4>1, <4>3, <5>1
      <4>5. QED
        BY <3>1, <3>3, <3>5, <4>1, <4>3, <4>4
    <3>6. QED
      BY <3>4, <3>5
  <2>3. QED
    BY <2>1, <2>2
<1>7. QED
  BY <1>1, <1>5, <1>6

LEMMA MakeDetaches ==
    ASSUME TypeOK, CallsFit, DetachLast, NEW t \in Threads, NEW f, NEW g,
           Makes(t, f, g), Grows
    PROVE  DetachLast'
<1> SUFFICES ASSUME NEW u \in Threads, NEW i \in 1..Len(stack'[u]),
                    i = Len(stack'[u]), stack'[u][i].at = "detach"
             PROVE  once'[stack'[u][i].e] = "done"
  BY DEF DetachLast
<1>1. g.at # "detach" /\ stack'[t][Len(stack[t]) + 1] = g
  BY MakeKeeps DEF Makes
<1>2. /\ Len(stack[u]) \in Nat
      /\ Len(stack'[u]) = IF u = t THEN Len(stack[t]) + 1 ELSE Len(stack[u])
  BY Typing DEF Makes, Called, CallsFrom
<1>3. u # t /\ i \in 1..Len(stack[u]) /\ i = Len(stack[u])
  BY <1>1, <1>2
<1>4. stack'[u][i] = stack[u][i]
  BY <1>3, MakeKeeps
<1>5. once[stack[u][i].e] = "done"
  BY <1>3, <1>4 DEF DetachLast
<1>6. stack[u][i].e \in Effects
  BY <1>3, <1>4, Typing DEF CallsFit, FrameFacts, FiberCalls, Frames
<1>7. QED
  BY <1>4, <1>5, <1>6 DEF Grows

LEMMA MakeAsked ==
    ASSUME TypeOK, CallsFit, Asked, NEW t \in Threads, NEW f, NEW g,
           Makes(t, f, g), Grows
    PROVE  Asked'
<1> SUFFICES ASSUME NEW u \in Threads, NEW i \in 1..Len(stack'[u]),
                    stack'[u][i].at \in ReleaseCalls
             PROVE  \/ Used(stack[u][i].e)' \/ deferred'[stack'[u][i].e]
                    \/ i > 1 /\ stack'[u][i - 1].at \in Releasers
  BY DEF Asked
<1>1. /\ Len(stack[t]) \in Nat /\ Len(stack[u]) \in Nat
      /\ Len(stack[t]) \in 1..Len(stack[t]) => stack[t] # <<>>
      /\ stack[t] # <<>> => Len(stack[t]) # 0
  BY MakeKeeps, Typing, TopTyping
<1>2. CASE i \in 1..Len(stack[u])
  <2>1. /\ stack'[u][i] = IF u = t /\ i = Len(stack[t]) THEN f ELSE stack[u][i]
        /\ stack'[u][i].e = stack[u][i].e
        /\ i > 1 => i - 1 \in 1..Len(stack[u]) /\ i - 1 # Len(stack[u])
    BY <1>1, <1>2, MakeKeeps
  <2>2. i > 1 => stack'[u][i - 1] = stack[u][i - 1]
    BY <2>1, MakeKeeps
  <2>3. stack[u][i].at \in ReleaseCalls
    BY <1>1, <1>2, <2>1 DEF Makes, Top, ReleaseCalls
  <2>4. \/ Used(stack[u][i].e) \/ deferred[stack[u][i].e]
        \/ i > 1 /\ stack[u][i - 1].at \in Releasers
    BY <1>2, <2>3 DEF Asked
  <2>5. PICK e \in Effects : e = stack[u][i].e
    BY <1>2, <2>3, ReleaseOfEffect
  <2>6. (Used(e) => Used(e)') /\ (deferred[e] => deferred'[e])
    BY DEF Grows
  <2>7. Used(e)' => Used(stack[u][i].e)'
    BY <2>1, <2>5 DEF Used
  <2>8. QED
    BY <2>1, <2>2, <2>4, <2>5, <2>6, <2>7
<1>3. CASE u = t /\ i = Len(stack[t]) + 1 /\ stack'[u][i] = g
  <2>1. stack[t] # <<>> /\ (Used(g.e)' \/ f.at \in Releasers)
    BY <1>3 DEF Makes
  <2>2. /\ i > 1 /\ i - 1 = Len(stack[t]) /\ i - 1 \in 1..Len(stack[u])
    BY <1>1, <1>3, <2>1
  <2>3. stack'[u][i - 1] = f
    BY <1>3, <2>2, MakeKeeps
  <2>4. Used(g.e)' => Used(stack[u][i].e)'
    BY <1>3 DEF Used
  <2>5. QED
    BY <2>1, <2>2, <2>3, <2>4
<1>4. QED
  BY <1>2, <1>3, MakeKeeps

LEMMA MakeSettled ==
    ASSUME TypeOK, NEW t \in Threads, NEW f, NEW g, Makes(t, f, g), Grows,
           NEW c \in Effects, Settled(c)
    PROVE  Settled(c)'
<1>1. CASE Released(c) \/ deferred[c]
  BY <1>1 DEF Grows, Settled
<1>2. CASE Panicking(c)
  <2>1. Has({"abandon"}, c)
    BY <1>2 DEF Panicking, Has
  <2>2. Has({"abandon"}, c)'
    BY <2>1, MakeHas
  <2>3. QED
    BY <2>2 DEF Has, Panicking, Settled
<1>3. QED
  BY <1>1, <1>2 DEF Settled

LEMMA MakeTakenOver ==
    ASSUME TypeOK, NEW t \in Threads, NEW f, NEW g, Makes(t, f, g),
           NEW c \in Effects, owner'[c] = owner[c], TakenOver(c)
    PROVE  TakenOver(c)'
<1>1. PICK u \in Threads : \E i \in 1..Len(stack[u]) :
        /\ stack[u][i].at \in Owners /\ stack[u][i].e = owner[c]
        /\ \/ c \in stack[u][i].todo
           \/ i < Len(stack[u]) /\ stack[u][i + 1].e = c
  BY DEF TakenOver
<1>2. PICK i \in 1..Len(stack[u]) :
        /\ stack[u][i].at \in Owners /\ stack[u][i].e = owner[c]
        /\ \/ c \in stack[u][i].todo
           \/ i < Len(stack[u]) /\ stack[u][i + 1].e = c
  BY <1>1
<1>3. /\ Len(stack[u]) \in Nat
      /\ i < Len(stack[u]) => i + 1 \in 1..Len(stack[u])
      /\ Len(stack'[u]) = IF u = t THEN Len(stack[t]) + 1 ELSE Len(stack[u])
  BY Typing DEF Makes, Called, CallsFrom
<1>4. /\ stack'[u][i] = IF u = t /\ i = Len(stack[t]) THEN f ELSE stack[u][i]
      /\ stack'[u][i].e = stack[u][i].e
      /\ i < Len(stack[u]) => stack'[u][i + 1].e = stack[u][i + 1].e
      /\ i \in 1..Len(stack'[u])
  <2>1. \A k \in 1..Len(stack[u]) :
          /\ stack'[u][k] = IF u = t /\ k = Len(stack[t]) THEN f ELSE stack[u][k]
          /\ stack'[u][k].e = stack[u][k].e
    BY MakeKeeps
  <2>2. i \in 1..Len(stack'[u])
    BY <1>3
  <2>3. QED
    BY <1>3, <2>1, <2>2
<1>5. CASE u = t /\ i = Len(stack[t])
  <2>1. stack[t] # <<>> /\ Top(t) = stack[u][i] /\ c \in Top(t).todo
    BY <1>2, <1>3, <1>5, MakeKeeps DEF Top
  <2>2. f.at \in Owners /\ f.e = owner[c] /\ (c \in f.todo \/ g.e = c)
    BY <1>2, <2>1 DEF Makes, Owners, Releasers
  <2>3. i < Len(stack'[u]) /\ stack'[u][i + 1] = g /\ stack'[u][i] = f
    BY <1>3, <1>4, <1>5, MakeKeeps
  <2>4. QED
    BY <1>4, <2>2, <2>3 DEF TakenOver
<1>6. CASE ~(u = t /\ i = Len(stack[t]))
  <2>1. stack'[u][i] = stack[u][i]
    BY <1>4, <1>6
  <2>2. i < Len(stack[u]) => i < Len(stack'[u])
    BY <1>3
  <2>3. QED
    BY <1>2, <1>4, <2>1, <2>2 DEF TakenOver
<1>7. QED
  BY <1>5, <1>6

LEMMA MakeCovers ==
    ASSUME TypeOK, Covered, NEW t \in Threads, NEW f, NEW g, Makes(t, f, g),
           Grows, registered' \in 0..MaxEffects,
           \A c \in Registered : Listed(c) => Listed(c)',
           \A c \in Registered' : c \notin Registered => Listed(c)'
    PROVE  Covered'
<1> SUFFICES ASSUME NEW c \in Registered'
             PROVE  Settled(c)' \/ Listed(c)' \/ TakenOver(c)'
  BY DEF Covered
<1>1. c \in Effects
  BY DEF Registered
<1>2. CASE c \notin Registered
  BY <1>2
<1>3. CASE c \in Registered
  <2>1. owner'[c] = owner[c]
    BY <1>3 DEF Grows
  <2>2. CASE Settled(c)
    BY <1>1, <2>2, MakeSettled
  <2>3. CASE Listed(c)
    BY <1>3, <2>3
  <2>4. CASE TakenOver(c)
    BY <1>1, <2>1, <2>4, MakeTakenOver
  <2>5. QED
    BY <1>3, <2>2, <2>3, <2>4 DEF Covered
<1>4. QED
  BY <1>2, <1>3

----------------------------------------------------------------------------
(* What is left to show of a step. *)

SameEntry(d) ==
    /\ running'[d] = running[d] /\ installed'[d] = installed[d]
    /\ deferred'[d] = deferred[d] /\ done'[d] = done[d]
    /\ once'[d] = once[d] /\ handle'[d] = handle[d]
    /\ cleaned'[d] = cleaned[d]

\* The fields of all entries but e, and what calls know of the fiber, stay.
Others(e) ==
    /\ \A d \in Effects \ {e} : SameEntry(d)
    /\ registered <= registered' /\ registered' \in 0..MaxEffects
    /\ \A d \in Registered : owner'[d] = owner[d]
    /\ fiber' = "open" => fiber = "open"
    /\ tree = {} /\ fiber # "open" => tree' = {}

LEMMA FrameStays ==
    ASSUME TypeOK, NEW e, Others(e), NEW g \in Frames, FrameFacts(g), g.e # e
    PROVE  FrameFacts(g)'
<1>1. CASE g.e = Fiber
  <2>1. g.at \in FiberCalls
    BY <1>1 DEF FrameFacts
  <2>2. g.at \notin BodyCalls \cup Holding \cup {"orphans", "once", "handle", "detach"}
    BY <2>1 DEF FiberCalls, BodyCalls, Holding
  <2>3. g.at \notin {"install", "panicDetach", "abandon", "claim", "cleanup", "children",
                     "onceDone"}
    BY <2>1 DEF FiberCalls
  <2>4. \A c \in g.todo : c \in Registered
    BY DEF FrameFacts, Frames, Registered, TypeOK
  <2>5. /\ fiber # "open" /\ fiber' # "open"
        /\ g.at = "sweep" => tree' = {}
    BY <2>1 DEF FrameFacts, Others
  <2> HIDE DEF BodyCalls, Holding, FiberCalls
  <2>6. QED
    BY <1>1, <2>1, <2>2, <2>3, <2>4, <2>5 DEF FrameFacts, Others, Frames, Registered, TypeOK
<1>2. CASE g.e # Fiber
  <2>1. g.e \in Effects /\ SameEntry(g.e) /\ g.at \notin FiberCalls
    BY <1>2 DEF FrameFacts, Others, Frames
  <2>2. \A c \in g.todo : c \in Registered
    BY DEF FrameFacts, Frames, Registered, TypeOK
  <2>3. g.at # "sweep"
    BY <2>1 DEF FiberCalls
  <2> HIDE DEF BodyCalls, Holding, FiberCalls
  <2>4. QED
    BY <1>2, <2>1, <2>2, <2>3 DEF FrameFacts, Others, SameEntry, Frames, Registered, TypeOK
<1>3. QED
  BY <1>1, <1>2

LEMMA DrivenStays ==
    ASSUME NEW d, Driven(d), SameEntry(d),
           \A C \in {BodyCalls, Holding, {"detach"}, ReleaseCalls} :
               Has(C, d) => Has(C, d)'
    PROVE  Driven(d)'
<1>1. /\ Has(BodyCalls, d) => Has(BodyCalls, d)'
      /\ Has(Holding, d) => Has(Holding, d)'
      /\ Has({"detach"}, d) => Has({"detach"}, d)'
      /\ Has(ReleaseCalls, d) => Has(ReleaseCalls, d)'
  OBVIOUS
<1>2. BodyCalls' = BodyCalls /\ Holding' = Holding /\ ReleaseCalls' = ReleaseCalls
  BY DEF BodyCalls, Holding, ReleaseCalls
<1> HIDE DEF BodyCalls, Holding, ReleaseCalls
<1>3. QED
  BY <1>1, <1>2 DEF Driven, SameEntry, Released

LEMMA MoveDriven ==
    ASSUME TypeOK, AllDriven, NEW t \in Threads, NEW f, Moves(t, f),
           UNCHANGED registered, NEW e, e = Top(t).e, Others(e),
           e \in Registered => Driven(e)'
    PROVE  AllDriven'
<1> SUFFICES ASSUME NEW d \in Registered, d # e
             PROVE  Driven(d)'
  BY DEF AllDriven, Registered
<1>1. Driven(d) /\ SameEntry(d)
  BY DEF AllDriven, Others, Registered, TypeOK
<1>2. \A C \in {BodyCalls, Holding, {"detach"}, ReleaseCalls} :
               Has(C, d) => Has(C, d)'
  BY MoveHas DEF Moves
<1>3. QED
  BY <1>1, <1>2, DrivenStays

LEMMA MoveInvariant ==
    ASSUME TreeInv, NEW t \in Threads, NEW f, Moves(t, f), Grows,
           TakesRole(t, f), NEW e, e = Top(t).e, Others(e),
           UNCHANGED <<registered, owner>>,
           TypeOK', EntriesFit', FrameFacts(f)',
           \A g \in Frames :
               /\ FrameFacts(g) /\ g.e = e
               /\ \A C \in Roles : ~(g.at \in C /\ Top(t).at \in C)
               => FrameFacts(g)',
           e \in Registered => Driven(e)',
           \A c \in Registered : Listed(c) =>
               \/ Settled(c)' \/ Listed(c)'
               \/ f.at \in Owners /\ f.e = owner[c] /\ c \in f.todo,
           UNCHANGED cleaned \/ OrderKept'
    PROVE  TreeInv'
<1>1. CallsFit'
  <2>1. \A g \in Frames :
          /\ FrameFacts(g)
          /\ \A C \in Roles :
               ~(g.at \in C /\ Top(t).at \in C /\ g.e = Top(t).e)
          => FrameFacts(g)'
    BY FrameStays DEF TreeInv
  <2>2. QED
    BY <2>1, MoveFits DEF TreeInv, Moves
<1>2. OneInRole'
  BY MoveRoles DEF TreeInv, Moves
<1>3. Nesting' /\ DetachLast' /\ Asked'
  BY MoveNests, MoveDetaches, MoveAsked DEF TreeInv
<1>4. AllDriven'
  BY MoveDriven DEF TreeInv
<1>5. Covered'
  BY MoveCovers DEF TreeInv
<1>6. OrderKept'
  <2>1. \A c \in Registered : Settled(c) => Settled(c)'
    BY MoveSettled DEF TreeInv, Registered, TypeOK
  <2>2. QED
    BY <2>1, OrderStays DEF TreeInv
<1>7. QED
  BY <1>1, <1>2, <1>3, <1>4, <1>5, <1>6 DEF TreeInv

LEMMA PopDriven ==
    ASSUME TypeOK, AllDriven, NEW t \in Threads, Pops(t),
           UNCHANGED registered, NEW e, e = Top(t).e, Others(e),
           e \in Registered => Driven(e)'
    PROVE  AllDriven'
<1> SUFFICES ASSUME NEW d \in Registered, d # e
             PROVE  Driven(d)'
  BY DEF AllDriven, Registered
<1>1. Driven(d) /\ SameEntry(d)
  BY DEF AllDriven, Others, Registered, TypeOK
<1>2. \A C \in {BodyCalls, Holding, {"detach"}, ReleaseCalls} :
               Has(C, d) => Has(C, d)'
  BY PopHas
<1>3. QED
  BY <1>1, <1>2, DrivenStays

LEMMA PopInvariant ==
    ASSUME TreeInv, NEW t \in Threads, Pops(t), Grows,
           NEW e, e = Top(t).e, Others(e),
           UNCHANGED <<registered, owner, cleaned>>,
           TypeOK', EntriesFit',
           \A g \in Frames :
               /\ FrameFacts(g) /\ g.e = e
               /\ \A C \in Roles : ~(g.at \in C /\ Top(t).at \in C)
               => FrameFacts(g)',
           e \in Registered => Driven(e)',
           \A c \in Registered : Listed(c) => Settled(c)' \/ Listed(c)'
    PROVE  TreeInv'
<1>1. CallsFit'
  <2>1. \A g \in Frames :
          /\ FrameFacts(g)
          /\ \A C \in Roles :
               ~(g.at \in C /\ Top(t).at \in C /\ g.e = Top(t).e)
          => FrameFacts(g)'
    BY FrameStays DEF TreeInv
  <2>2. QED
    BY <2>1, PopFits DEF TreeInv
<1>2. OneInRole'
  BY PopRoles DEF TreeInv
<1>3. Nesting' /\ DetachLast' /\ Asked'
  BY PopNests, PopDetaches, PopAsked DEF TreeInv
<1>4. AllDriven'
  BY PopDriven DEF TreeInv
<1>5. Covered'
  BY PopCovers DEF TreeInv
<1>6. OrderKept'
  <2>1. \A c \in Registered : Settled(c) => Settled(c)'
    BY PopSettled DEF TreeInv, Registered, TypeOK
  <2>2. QED
    BY <2>1, OrderStays DEF TreeInv
<1>7. QED
  BY <1>1, <1>2, <1>3, <1>4, <1>5, <1>6 DEF TreeInv

LEMMA MakeDriven ==
    ASSUME TypeOK, AllDriven, NEW t \in Threads, NEW f, NEW g, Makes(t, f, g),
           NEW e, Others(e), \A d \in Registered' : d \in Registered \/ d = e,
           e \in Registered' => Driven(e)'
    PROVE  AllDriven'
<1> SUFFICES ASSUME NEW d \in Registered, d # e
             PROVE  Driven(d)'
  BY DEF AllDriven
<1>1. Driven(d) /\ SameEntry(d)
  BY DEF AllDriven, Others, Registered, TypeOK
<1>2. "handle" \notin BodyCalls \cup Holding \cup {"detach"} \cup ReleaseCalls
  BY DEF BodyCalls, Holding, ReleaseCalls
<1>3. \A C \in {BodyCalls, Holding, {"detach"}, ReleaseCalls} :
               Has(C, d) => Has(C, d)'
  <2>1. \A C \in {BodyCalls, Holding, {"detach"}, ReleaseCalls} : "handle" \notin C
    BY <1>2
  <2>2. QED
    BY <2>1, MakeHas
<1>4. QED
  BY <1>1, <1>3, DrivenStays

LEMMA RegisteredTyping ==
    ASSUME TypeOK
    PROVE  registered \in Nat /\ Registered \subseteq Effects
  BY DEF Registered, TypeOK

LEMMA MakeInvariant ==
    ASSUME TreeInv, NEW t \in Threads, NEW f, NEW g, Makes(t, f, g), Grows,
           stack[t] # <<>> => TakesRole(t, f),
           \A C \in Roles : g.at \in C =>
               /\ ~Has(C, g.e)
               /\ stack[t] # <<>> /\ f.at \in C => f.e # g.e,
           NEW e, Others(e),
           TypeOK', EntriesFit', stack[t] # <<>> => FrameFacts(f)',
           FrameFacts(g)',
           \A h \in Frames : FrameFacts(h) /\ h.e = e => FrameFacts(h)',
           \A d \in Registered' : d \in Registered \/ (d = e /\ Listed(d)'),
           e \in Registered' => Driven(e)',
           \A c \in Registered : Listed(c) => Listed(c)',
           UNCHANGED <<registered, owner, cleaned>> \/ OrderKept'
    PROVE  TreeInv'
<1>1. CallsFit'
  <2>1. \A h \in Frames : FrameFacts(h) => FrameFacts(h)'
    BY FrameStays DEF TreeInv
  <2>2. QED
    BY <2>1, MakeFits DEF TreeInv
<1>2. OneInRole'
  BY MakeRoles DEF TreeInv
<1>3. Nesting' /\ DetachLast' /\ Asked'
  BY MakeNests, MakeDetaches, MakeAsked DEF TreeInv
<1>4. AllDriven'
  BY MakeDriven DEF TreeInv
<1>5. Covered'
  BY MakeCovers DEF TreeInv, Others
<1>6. OrderKept'
  <2>1. TypeOK /\ Registered \subseteq Effects
    BY RegisteredTyping DEF TreeInv
  <2>2. \A c \in Registered : Settled(c) => Settled(c)'
    BY <2>1, MakeSettled
  <2>3. QED
    BY <2>2, OrderStays DEF TreeInv
<1>7. QED
  BY <1>1, <1>2, <1>3, <1>4, <1>5, <1>6 DEF TreeInv

----------------------------------------------------------------------------
(* The steps. *)

\* What the call on top knows, about an effect or about the fiber.
LEMMA TopFacts ==
    ASSUME TreeInv, NEW t \in Threads, stack[t] # <<>>
    PROVE  /\ Top(t) \in Frames /\ FrameFacts(Top(t))
           /\ Top(t).at \notin FiberCalls => Top(t).e \in Effects
           /\ Top(t).at \in FiberCalls => Top(t).e = Fiber
           /\ Top(t).e \in Effects => Top(t).e \in Registered
<1>1. Top(t) \in Frames /\ FrameFacts(Top(t))
  BY TopTyping DEF TreeInv, CallsFit
<1>2. QED
  BY <1>1 DEF FrameFacts, Frames, Registered, TreeInv, TypeOK

\* The call that has moved is one at its place.
LEMMA MovedHas ==
    ASSUME TypeOK, NEW t \in Threads, NEW f, Moves(t, f), NEW C, f.at \in C
    PROVE  Has(C, f.e)'
<1>1. /\ Len(stack[t]) \in 1..Len(stack'[t])
      /\ stack'[t][Len(stack[t])] = f
  BY TopTyping DEF Moves, Replaced, ReplacesTop
<1>2. QED
  BY <1>1 DEF Has

\* The entry has not changed, and the call has not left what drives it.
LEMMA MovedDriven ==
    ASSUME TypeOK, NEW t \in Threads, NEW f, Moves(t, f), NEW e, Driven(e),
           SameEntry(e),
           \A C \in {BodyCalls, Holding, {"detach"}, ReleaseCalls} :
               Top(t).at \in C => f.at \in C
    PROVE  Driven(e)'
  BY MoveHas, DrivenStays DEF Moves

LEMMA BodyEndsKeeps ==
    ASSUME TreeInv, NEW t \in Threads, BodyEnds(t)
    PROVE  TreeInv'
<1>1. stack[t] # <<>> /\ Top(t).at = "body"
  BY DEF BodyEnds, In
<1>2. PICK f \in Frames : /\ Replaced(t, f) /\ f.at \in {"finish", "finishPanic"}
                          /\ f.e = Top(t).e /\ f.todo = Top(t).todo
  <2>1. {"finish", "finishPanic"} \subseteq Calls
    BY DEF Calls
  <2>2. QED
    BY <1>1, <2>1, Going DEF BodyEnds, TreeInv
<1>3. PICK e \in Effects : e = Top(t).e
  BY <1>1, TopFacts DEF FiberCalls
<1>4. /\ UNCHANGED <<registered, owner, tree, children, running, installed,
                     deferred, done, once, handle, fiber, cleaned>>
  BY DEF BodyEnds, entries, lists, onces
<1>5. FrameFacts(Top(t)) /\ Top(t).todo = {}
  BY <1>1, TopFacts DEF FrameFacts, Owners, Releasers
<1>6. Moves(t, f)
  BY <1>1, <1>2, <1>5 DEF Moves, ReleaseCalls
<1>7. Grows /\ Others(e)
  BY <1>4 DEF Grows, Others, SameEntry, Released, Used, TreeInv, TypeOK
<1>8. TakesRole(t, f)
  BY <1>1, <1>2 DEF TakesRole, Roles, BodyCalls, Holding, FiberCalls
<1>9. TypeOK' /\ EntriesFit'
  BY <1>2, <1>4 DEF TreeInv, TypeOK, EntriesFit, EntryFacts, Blank, Replaced,
                    ReplacesTop
<1>10. FrameFacts(f)'
  BY <1>1, <1>2, <1>4, <1>5 DEF FrameFacts, BodyCalls, Holding, FiberCalls,
                                Owners, Releasers
<1>11. \A g \in Frames : FrameFacts(g) => FrameFacts(g)'
  BY <1>4 DEF FrameFacts
<1>12. Driven(e)'
  <2>1. \A C \in {BodyCalls, Holding, {"detach"}, ReleaseCalls} :
          Top(t).at \in C => f.at \in C
    BY <1>1, <1>2 DEF BodyCalls, Holding, ReleaseCalls
  <2>2. Driven(e) /\ SameEntry(e)
    BY <1>1, <1>3, <1>4, TopFacts DEF TreeInv, AllDriven, SameEntry
  <2>3. QED
    BY <1>6, <2>1, <2>2, MovedDriven DEF TreeInv
<1>13. \A c \in Registered : Listed(c) => Listed(c)'
  BY <1>4 DEF Listed
<1>14. QED
  BY <1>3, <1>4, <1>6, <1>7, <1>8, <1>9, <1>10, <1>11, <1>12, <1>13,
     MoveInvariant

LEMMA FinishBodyKeeps ==
    ASSUME TreeInv, NEW t \in Threads, FinishBody(t)
    PROVE  TreeInv'
<1>1. stack[t] # <<>> /\ Top(t).at \in {"finish", "finishPanic"}
  BY DEF FinishBody, In
<1>2. PICK f \in Frames : /\ Replaced(t, f) /\ f.at \in {"install", "panicDetach"}
                          /\ f.e = Top(t).e /\ f.todo = Top(t).todo
  <2>1. {"install", "panicDetach"} \subseteq Calls
    BY DEF Calls
  <2>2. QED
    BY <1>1, <2>1, Going DEF FinishBody, TreeInv
<1>3. PICK e \in Effects : e = Top(t).e
  BY <1>1, TopFacts DEF FiberCalls
<1>4. /\ UNCHANGED <<registered, owner, tree, children, installed, deferred,
                     done, once, handle, fiber, cleaned>>
      /\ running' = [running EXCEPT ![e] = FALSE]
  BY <1>3 DEF FinishBody, lists, onces
<1>5. FrameFacts(Top(t)) /\ Top(t).todo = {}
  BY <1>1, TopFacts DEF FrameFacts, Owners, Releasers
<1>6. Moves(t, f)
  BY <1>1, <1>2, <1>5 DEF Moves, ReleaseCalls
<1>7. Grows /\ Others(e)
  BY <1>4 DEF Grows, Others, SameEntry, Released, Used, TreeInv, TypeOK
<1>8. TakesRole(t, f)
  BY <1>1, <1>2 DEF TakesRole, Roles, BodyCalls, Holding, FiberCalls
<1>9. TypeOK' /\ EntriesFit'
  BY <1>2, <1>4 DEF TreeInv, TypeOK, EntriesFit, EntryFacts, Blank, Replaced,
                    ReplacesTop
<1>10. FrameFacts(f)'
  BY <1>1, <1>2, <1>3, <1>4, <1>5
  DEF FrameFacts, BodyCalls, Holding, FiberCalls, Owners, Releasers, TreeInv,
      TypeOK
<1>11. \A g \in Frames : FrameFacts(g) => FrameFacts(g)'
  BY <1>4 DEF FrameFacts, TreeInv, TypeOK
<1>12. Driven(e)'
  <2>1. \A C \in {BodyCalls, Holding, {"detach"}, ReleaseCalls} :
          Top(t).at \in C => f.at \in C
    BY <1>1, <1>2 DEF BodyCalls, Holding, ReleaseCalls
  <2>2. Driven(e)
    BY <1>1, <1>3, TopFacts DEF TreeInv, AllDriven
  <2>3. /\ Has(BodyCalls, e) => Has(BodyCalls, e)'
        /\ Has(Holding, e) => Has(Holding, e)'
        /\ Has({"detach"}, e) => Has({"detach"}, e)'
        /\ Has(ReleaseCalls, e) => Has(ReleaseCalls, e)'
    BY <1>6, <2>1, MoveHas DEF Moves, TreeInv
  <2> HIDE DEF BodyCalls, Holding, ReleaseCalls
  <2>4. BodyCalls' = BodyCalls /\ Holding' = Holding /\ ReleaseCalls' = ReleaseCalls
    BY DEF BodyCalls, Holding, ReleaseCalls
  <2>5. QED
    BY <1>4, <2>2, <2>3, <2>4 DEF Driven, Released
<1>13. \A c \in Registered : Listed(c) => Listed(c)'
  BY <1>4 DEF Listed
<1>14. QED
  BY <1>3, <1>4, <1>6, <1>7, <1>8, <1>9, <1>10, <1>11, <1>12, <1>13,
     MoveInvariant

LEMMA Unlisting ==
    ASSUME TreeInv, NEW e \in Registered, Unlist(e), UNCHANGED owner
    PROVE  /\ tree' \subseteq tree /\ children' \in [Effects -> SUBSET Effects]
           /\ \A d \in Effects : children'[d] \subseteq children[d]
           /\ \A c \in Registered \ {e} : Listed(c) => Listed(c)'
<1>1. owner[e] \in Effects \cup {Fiber}
  BY RegisteredTyping DEF TreeInv, TypeOK
<1>2. \A c \in Registered : owner[c] \in Effects \cup {Fiber}
  BY RegisteredTyping DEF TreeInv, TypeOK
<1>3. children \in [Effects -> SUBSET Effects]
  BY DEF TreeInv, TypeOK
<1>4. CASE owner[e] = Fiber
  BY <1>2, <1>3, <1>4 DEF Unlist, Listed
<1>5. CASE owner[e] # Fiber
  BY <1>1, <1>2, <1>3, <1>5 DEF Unlist, Listed
<1>6. QED
  BY <1>4, <1>5

LEMMA PanicDetachKeeps ==
    ASSUME TreeInv, NEW t \in Threads, PanicDetach(t)
    PROVE  TreeInv'
<1>1. stack[t] # <<>> /\ Top(t).at = "panicDetach"
  BY DEF PanicDetach, In
<1>2. PICK f \in Frames : /\ Replaced(t, f) /\ f.at = "abandon"
                          /\ f.e = Top(t).e /\ f.todo = Top(t).todo
  <2>1. "abandon" \in Calls
    BY DEF Calls
  <2>2. QED
    BY <1>1, <2>1, Going DEF PanicDetach, TreeInv
<1>3. PICK e \in Registered : e = Top(t).e
  BY <1>1, TopFacts DEF FiberCalls
<1>4. /\ UNCHANGED <<registered, owner, running, installed, deferred, done,
                     once, handle, fiber, cleaned>>
      /\ Unlist(e)
  BY <1>3 DEF PanicDetach, entries, onces
<1>5. FrameFacts(Top(t)) /\ Top(t).todo = {}
  BY <1>1, TopFacts DEF FrameFacts, Owners, Releasers
<1>6. Moves(t, f)
  BY <1>1, <1>2, <1>5 DEF Moves, ReleaseCalls
<1>7. e \in Effects
  BY RegisteredTyping DEF TreeInv
<1>8. /\ tree' \subseteq tree /\ children' \in [Effects -> SUBSET Effects]
      /\ \A d \in Effects : children'[d] \subseteq children[d]
      /\ \A c \in Registered \ {e} : Listed(c) => Listed(c)'
  BY <1>4, Unlisting
<1>9. Grows /\ Others(e)
  BY <1>4, <1>8 DEF Grows, Others, SameEntry, Released, Used, TreeInv, TypeOK
<1>10. TakesRole(t, f)
  BY <1>1, <1>2 DEF TakesRole, Roles, BodyCalls, Holding, FiberCalls
<1>11. TypeOK'
  BY <1>2, <1>4, <1>8 DEF TreeInv, TypeOK, Replaced, ReplacesTop
<1>12. EntriesFit'
  BY <1>4, <1>8 DEF TreeInv, EntriesFit, EntryFacts, Blank
<1>13. FrameFacts(f)'
  BY <1>1, <1>2, <1>4, <1>5 DEF FrameFacts, BodyCalls, Holding, FiberCalls,
                                Owners, Releasers
<1>14. \A g \in Frames : FrameFacts(g) => FrameFacts(g)'
  BY <1>4, <1>8 DEF FrameFacts
<1>15. Driven(e)'
  <2>1. \A C \in {BodyCalls, Holding, {"detach"}, ReleaseCalls} :
          Top(t).at \in C => f.at \in C
    BY <1>1, <1>2 DEF BodyCalls, Holding, ReleaseCalls
  <2>2. Driven(e) /\ SameEntry(e)
    BY <1>4 DEF TreeInv, AllDriven, SameEntry
  <2>3. QED
    BY <1>6, <2>1, <2>2, MovedDriven DEF TreeInv
<1>16. Settled(e)'
  <2>1. Has({"abandon"}, e)'
    BY <1>2, <1>3, <1>6, MovedHas DEF TreeInv
  <2>2. QED
    BY <2>1 DEF Has, Panicking, Settled
<1>17. \A c \in Registered : Listed(c) => Settled(c)' \/ Listed(c)'
  BY <1>8, <1>16
<1>18. QED
  BY <1>3, <1>4, <1>6, <1>9, <1>10, <1>11, <1>12, <1>13, <1>14, <1>15, <1>17,
     MoveInvariant

LEMMA SetDisposeKeeps ==
    ASSUME TreeInv, NEW t \in Threads, SetDispose(t)
    PROVE  TreeInv'
<1>1. stack[t] # <<>> /\ Top(t).at = "install"
  BY DEF SetDispose, In
<1>2. PICK e \in Registered : e = Top(t).e
  BY <1>1, TopFacts DEF FiberCalls
<1>3. e \in Effects
  BY RegisteredTyping DEF TreeInv
<1>4. /\ UNCHANGED <<registered, owner, tree, children, running, deferred,
                     done, once, fiber, cleaned>>
      /\ installed' = [installed EXCEPT ![e] = TRUE]
      /\ \/ deferred[e] /\ ~done[e] /\ handle' = handle /\ Goto(t, "request")
         \/ /\ ~(deferred[e] /\ ~done[e])
            /\ handle' = [handle EXCEPT ![e] = "new"] /\ Return(t)
  BY <1>2 DEF SetDispose, lists
<1>5. /\ FrameFacts(Top(t)) /\ Top(t).todo = {} /\ Top(t) \in Frames
      /\ ~installed[e] /\ ~done[e] /\ ~running[e]
  BY <1>1, <1>2, TopFacts DEF FrameFacts, Owners, Releasers, BodyCalls
<1>6. once[e] = "new" /\ handle[e] = "none" /\ EntryFacts(e) /\ cleaned[e] = 0
  BY <1>3, <1>5 DEF TreeInv, EntriesFit, EntryFacts, TypeOK, OnceStates
<1>7. Grows /\ Others(e)
  BY <1>3, <1>4, <1>5, <1>6
  DEF Grows, Others, SameEntry, Released, Used, TreeInv, TypeOK
<1>8. EntriesFit'
  BY <1>3, <1>4, <1>5, <1>6
  DEF TreeInv, EntriesFit, EntryFacts, Blank, TypeOK, Registered
<1>9. \A g \in Frames :
        /\ FrameFacts(g) /\ g.e = e
        /\ \A C \in Roles : ~(g.at \in C /\ Top(t).at \in C)
        => FrameFacts(g)'
  <2>1. BodyCalls \cup {"orphans"} \in Roles /\ "install" \in BodyCalls
    BY DEF Roles, BodyCalls
  <2>2. \A g \in Frames :
          /\ FrameFacts(g) /\ g.e = e /\ g.at \notin BodyCalls \cup {"orphans"}
          => FrameFacts(g)'
    BY <1>3, <1>4, <1>6 DEF FrameFacts, TreeInv, TypeOK, BodyCalls
  <2>3. QED
    BY <1>1, <2>1, <2>2
<1>10. \A c \in Registered : Listed(c) => Listed(c)'
  BY <1>4 DEF Listed
<1>11. CASE deferred[e] /\ handle' = handle /\ Goto(t, "request")
  <2>1. PICK f \in Frames : /\ Replaced(t, f) /\ f.at = "request"
                            /\ f.e = Top(t).e /\ f.todo = Top(t).todo
    <3>1. "request" \in Calls
      BY DEF Calls
    <3>2. QED
      BY <1>1, <1>11, <3>1, Going DEF TreeInv
  <2>2. Moves(t, f)
    BY <1>1, <1>2, <1>4, <1>5, <1>11, <2>1 DEF Moves, ReleaseCalls
  <2>3. TakesRole(t, f)
    BY <2>1 DEF TakesRole, Roles, BodyCalls, Holding, FiberCalls
  <2>4. TypeOK'
    BY <1>3, <1>4, <1>5, <1>11, <2>1 DEF TreeInv, TypeOK, Replaced, ReplacesTop
  <2>5. FrameFacts(f)'
    BY <1>2, <1>3, <1>4, <1>5, <2>1
    DEF FrameFacts, BodyCalls, Holding, FiberCalls, Owners, Releasers
  <2>6. Driven(e)'
    <3>1. Has(ReleaseCalls, e)'
      BY <1>2, <2>1, <2>2, MovedHas DEF TreeInv, ReleaseCalls
    <3>2. installed'[e] /\ once'[e] = "new" /\ handle'[e] = "none"
      BY <1>3, <1>4, <1>6, <1>11 DEF TreeInv, TypeOK
    <3>3. ReleaseCalls' = ReleaseCalls
      BY DEF ReleaseCalls
    <3> HIDE DEF ReleaseCalls
    <3>4. QED
      BY <3>1, <3>2, <3>3 DEF Driven
  <2>7. QED
    BY <1>2, <1>4, <1>7, <1>8, <1>9, <1>10, <2>2, <2>3, <2>4, <2>5, <2>6,
       MoveInvariant
<1>12. CASE ~deferred[e] /\ handle' = [handle EXCEPT ![e] = "new"] /\ Return(t)
  <2>1. Pops(t)
    BY <1>1, <1>5, <1>12, Returning DEF Pops, ReleaseCalls, TreeInv
  <2>2. TypeOK'
    BY <1>3, <1>4, <1>5, <1>12, <2>1
    DEF TreeInv, TypeOK, Pops, Popped, PopsTop, OnceStates
  <2>3. Driven(e)'
    BY <1>3, <1>4, <1>6, <1>12 DEF Driven, TreeInv, TypeOK
  <2>4. QED
    BY <1>2, <1>4, <1>7, <1>8, <1>9, <1>10, <2>1, <2>2, <2>3, PopInvariant
<1>13. QED
  BY <1>4, <1>5, <1>11, <1>12

LEMMA AbandonKeeps ==
    ASSUME TreeInv, NEW t \in Threads, Abandon(t)
    PROVE  TreeInv'
<1>1. stack[t] # <<>> /\ Top(t).at = "abandon"
  BY DEF Abandon, In
<1>2. PICK e \in Registered : e = Top(t).e
  BY <1>1, TopFacts DEF FiberCalls
<1>3. e \in Effects
  BY RegisteredTyping DEF TreeInv
<1>4. PICK f \in Frames : /\ Replaced(t, f) /\ f.at = "orphans"
                          /\ f.e = Top(t).e /\ f.todo = children[e]
  <2> DEFINE g == [at |-> "orphans", e |-> e, todo |-> children[e]]
  <2>1. g \in Frames /\ g.at = "orphans" /\ g.e = e /\ g.todo = children[e]
    BY <1>3 DEF Frames, Calls, TreeInv, TypeOK
  <2>2. Become(t, g)
    BY <1>2 DEF Abandon
  <2> HIDE DEF g
  <2>3. QED
    BY <1>1, <1>2, <2>1, <2>2, Becoming DEF TreeInv
<1>5. /\ UNCHANGED <<registered, owner, tree, installed, deferred, once,
                     handle, fiber, cleaned>>
      /\ running' = [running EXCEPT ![e] = FALSE]
      /\ done' = [done EXCEPT ![e] = TRUE]
      /\ children' = [children EXCEPT ![e] = {}]
  BY <1>2 DEF Abandon, onces
<1>6. /\ FrameFacts(Top(t)) /\ Top(t).todo = {} /\ Top(t) \in Frames
      /\ ~installed[e] /\ ~done[e] /\ ~running[e]
  BY <1>1, <1>2, TopFacts DEF FrameFacts, Owners, Releasers, BodyCalls
<1>7. once[e] = "new" /\ handle[e] = "none" /\ EntryFacts(e) /\ cleaned[e] = 0
  BY <1>3, <1>6 DEF TreeInv, EntriesFit, EntryFacts, TypeOK, OnceStates
<1>8. Released(e)'
  BY <1>3, <1>5, <1>6 DEF Released, TreeInv, TypeOK
<1>9. Moves(t, f)
  BY <1>1, <1>2, <1>4, <1>6, <1>8 DEF Moves, ReleaseCalls
<1>10. Grows /\ Others(e)
  BY <1>3, <1>5, <1>6, <1>7
  DEF Grows, Others, SameEntry, Released, Used, TreeInv, TypeOK
<1>11. TakesRole(t, f)
  BY <1>1, <1>4 DEF TakesRole, Roles, BodyCalls, Holding, FiberCalls
<1>12. TypeOK'
  BY <1>3, <1>4, <1>5 DEF TreeInv, TypeOK, Replaced, ReplacesTop
<1>13. EntriesFit'
  BY <1>3, <1>5, <1>6, <1>7
  DEF TreeInv, EntriesFit, EntryFacts, Blank, TypeOK, Registered
<1>14. FrameFacts(f)'
  BY <1>2, <1>3, <1>4, <1>5, <1>6, <1>7
  DEF FrameFacts, EntryFacts, BodyCalls, Holding, FiberCalls, Owners,
      Releasers, TreeInv, TypeOK
<1>15. \A g \in Frames :
        /\ FrameFacts(g) /\ g.e = e
        /\ \A C \in Roles : ~(g.at \in C /\ Top(t).at \in C)
        => FrameFacts(g)'
  <2>1. BodyCalls \cup {"orphans"} \in Roles /\ "abandon" \in BodyCalls
    BY DEF Roles, BodyCalls
  <2>2. \A g \in Frames :
          /\ FrameFacts(g) /\ g.e = e /\ g.at \notin BodyCalls \cup {"orphans"}
          => FrameFacts(g)'
    BY <1>3, <1>5, <1>6, <1>7
    DEF FrameFacts, TreeInv, TypeOK, BodyCalls, Holding
  <2>3. QED
    BY <1>1, <2>1, <2>2
<1>16. Driven(e)'
  BY <1>3, <1>5, <1>7, <1>8 DEF Driven, TreeInv, TypeOK
<1>17. \A c \in Registered : Listed(c) =>
          Listed(c)' \/ (f.at \in Owners /\ f.e = owner[c] /\ c \in f.todo)
  <2>1. \A c \in Registered : owner[c] \in Effects \cup {Fiber}
    BY RegisteredTyping DEF TreeInv, TypeOK
  <2>2. QED
    BY <1>2, <1>3, <1>4, <1>5, <2>1 DEF Listed, TreeInv, TypeOK, Owners, Releasers
<1>18. QED
  BY <1>2, <1>5, <1>9, <1>10, <1>11, <1>12, <1>13, <1>14, <1>15, <1>16, <1>17,
     MoveInvariant

\* A step that only moves calls.
LEMMA NothingChanges ==
    ASSUME TreeInv, stack' \in [Threads -> Seq(Frames)],
           UNCHANGED <<entries, lists, onces, fiber, cleaned>>
    PROVE  /\ TypeOK' /\ EntriesFit' /\ Grows /\ \A e : Others(e)
           /\ \A d \in Effects : SameEntry(d)
           /\ \A g \in Frames : FrameFacts(g) => FrameFacts(g)'
           /\ \A c \in Registered : Listed(c) => Listed(c)'
           /\ UNCHANGED <<registered, owner, cleaned>>
<1>1. UNCHANGED <<registered, owner, tree, children, running, installed,
                  deferred, done, once, handle, fiber, cleaned>>
  BY DEF entries, lists, onces
<1>2. TypeOK' /\ EntriesFit'
  BY <1>1 DEF TreeInv, TypeOK, EntriesFit, EntryFacts, Blank
<1>3. Grows /\ \A e : Others(e)
  BY <1>1 DEF Grows, Others, SameEntry, Released, Used, TreeInv, TypeOK
<1>4. \A d \in Effects : SameEntry(d)
  BY <1>1 DEF SameEntry
<1>5. \A g \in Frames : FrameFacts(g) => FrameFacts(g)'
  BY <1>1 DEF FrameFacts
<1>6. \A c \in Registered : Listed(c) => Listed(c)'
  BY <1>1 DEF Listed
<1>7. QED
  BY <1>1, <1>2, <1>3, <1>4, <1>5, <1>6

LEMMA ReleaseNextKeeps ==
    ASSUME TreeInv, NEW t \in Threads, stack[t] # <<>>,
           Top(t).at \in Releasers, Top(t).todo # {}, ReleaseNext(t),
           UNCHANGED <<entries, lists, onces, fiber, cleaned>>
    PROVE  TreeInv'
<1>1. PICK c \in Effects : /\ c \in Top(t).todo
                           /\ \A d \in Top(t).todo : d <= c
                           /\ Called(t, Rest(t), Frame("request", c))
                           /\ Rest(t) \in Frames
                           /\ Rest(t).at = Top(t).at /\ Rest(t).e = Top(t).e
                           /\ Rest(t).todo = Top(t).todo \ {c}
  BY ReleasingNext DEF TreeInv
<1>2. PICK f \in Frames : f = Rest(t)
  BY <1>1
<1>3. "request" \in Calls /\ "request" \in ReleaseCalls
  BY DEF Calls, ReleaseCalls
<1>4. PICK g \in Frames : /\ g = Frame("request", c)
                          /\ g.at = "request" /\ g.e = c /\ g.todo = {}
  BY <1>3, FrameTyping
<1>5. Called(t, f, g)
  BY <1>1, <1>2, <1>4
<1>6. Top(t) \in Frames /\ FrameFacts(Top(t))
  BY TopFacts
<1>7. c \in Registered /\ owner[c] = Top(t).e /\ Top(t).e < c
  <2>1. c <= registered /\ owner[c] = Top(t).e
    BY <1>1, <1>6 DEF FrameFacts
  <2>2. owner[c] < c
    BY DEF TreeInv, EntriesFit, EntryFacts
  <2>3. c \in Registered
    BY <2>1, RegisteredTyping DEF Registered, TreeInv
  <2>4. QED
    BY <2>1, <2>2, <2>3
<1>8. stack' \in [Threads -> Seq(Frames)]
  BY <1>5 DEF Called, CallsFrom
<1>9. /\ TypeOK' /\ EntriesFit' /\ Grows /\ Others(Fiber)
      /\ \A h \in Frames : FrameFacts(h) => FrameFacts(h)'
      /\ \A d \in Registered : Listed(d) => Listed(d)'
      /\ UNCHANGED <<registered, owner, cleaned>>
  BY <1>8, NothingChanges
<1>10. \A d \in f.todo : d < c /\ d \in Effects
  BY <1>1, <1>2, <1>6 DEF Frames
<1>11. Makes(t, f, g)
  <2>1. f.e < g.e /\ owner'[g.e] = f.e /\ \A d \in f.todo : d < g.e
    BY <1>1, <1>2, <1>4, <1>7, <1>9, <1>10
  <2>2. QED
    BY <1>1, <1>2, <1>3, <1>4, <1>5, <2>1 DEF Makes
<1>12. TakesRole(t, f)
  BY <1>1, <1>2 DEF TakesRole
<1>13. \A C \in Roles : g.at \notin C
  BY <1>4 DEF Roles, BodyCalls, Holding, FiberCalls
<1>14. FrameFacts(g)
  BY <1>4, <1>7 DEF FrameFacts, BodyCalls, Holding, FiberCalls, Registered
<1>15. FrameFacts(f)
  BY <1>1, <1>2, <1>6 DEF FrameFacts
<1>16. Fiber \notin Registered /\ Registered' = Registered
  BY <1>9 DEF Registered
<1>17. QED
  BY <1>9, <1>11, <1>12, <1>13, <1>14, <1>15, <1>16, MakeInvariant

\* A call that has released everything it had to, and is not waited for by a
\* handle or an owner, returns.
LEMMA ReturnKeeps ==
    ASSUME TreeInv, NEW t \in Threads, stack[t] # <<>>, Top(t).todo = {},
           Top(t).at \in {"orphans", "handle"}, Return(t),
           UNCHANGED <<entries, lists, onces, fiber, cleaned>>
    PROVE  TreeInv'
<1>1. Pops(t)
  BY Returning DEF Pops, ReleaseCalls, TreeInv
<1>2. PICK e \in Registered : e = Top(t).e
  BY TopFacts DEF FiberCalls
<1>3. e \in Effects
  BY RegisteredTyping DEF TreeInv
<1>4. stack' \in [Threads -> Seq(Frames)]
  BY <1>1 DEF Pops, Popped, PopsTop
<1>5. /\ TypeOK' /\ EntriesFit' /\ Grows /\ Others(e) /\ SameEntry(e)
      /\ \A h \in Frames : FrameFacts(h) => FrameFacts(h)'
      /\ \A d \in Registered : Listed(d) => Listed(d)'
      /\ UNCHANGED <<registered, owner, cleaned>>
  BY <1>3, <1>4, NothingChanges
<1>6. Driven(e)'
  <2>1. \A C \in {BodyCalls, Holding, {"detach"}, ReleaseCalls} :
          Top(t).at \notin C
    BY DEF BodyCalls, Holding, ReleaseCalls
  <2>2. \A C \in {BodyCalls, Holding, {"detach"}, ReleaseCalls} :
          Has(C, e) => Has(C, e)'
    BY <1>1, <2>1, PopHas DEF TreeInv
  <2>3. Driven(e)
    BY DEF TreeInv, AllDriven
  <2>4. QED
    BY <1>5, <2>2, <2>3, DrivenStays
<1>7. QED
  BY <1>1, <1>2, <1>5, <1>6, PopInvariant

LEMMA OrphansKeeps ==
    ASSUME TreeInv, NEW t \in Threads, Orphans(t)
    PROVE  TreeInv'
<1>1. stack[t] # <<>> /\ Top(t).at = "orphans"
  BY DEF Orphans, In
<1>2. CASE Top(t).todo # {}
  BY <1>1, <1>2, ReleaseNextKeeps DEF Orphans, Releasers
<1>3. CASE Top(t).todo = {}
  BY <1>1, <1>3, ReturnKeeps DEF Orphans
<1>4. QED
  BY <1>2, <1>3

\* A call from outside or from a body: the goroutine keeps the frame it is in.
LEMMA CallIn ==
    ASSUME TreeInv, NEW t \in Threads, CanCall(t), NEW g \in Frames, Call(t, g),
           g.todo = {}, g.at \notin ReleaseCalls \cup {"detach"}
    PROVE  \E f : /\ Makes(t, f, g) /\ f = Top(t)
                  /\ stack[t] # <<>> => f.at = "body" /\ f \in Frames /\ FrameFacts(f)
                  /\ stack[t] # <<>> => TakesRole(t, f)
<1>1. PICK f : f = Top(t)
  OBVIOUS
<1>2. Called(t, f, g)
  BY <1>1, CallingIn DEF TreeInv
<1>3. stack[t] # <<>> => f.at = "body" /\ f \in Frames /\ FrameFacts(f)
  BY <1>1, TopFacts DEF CanCall, In
<1>4. Makes(t, f, g)
  BY <1>1, <1>2, <1>3 DEF Makes
<1>5. stack[t] # <<>> => TakesRole(t, f)
  BY <1>1 DEF TakesRole
<1>6. QED
  BY <1>1, <1>3, <1>4, <1>5

LEMMA CallHandleKeeps ==
    ASSUME TreeInv, NEW t \in Threads, NEW e \in Effects, CallHandle(t, e)
    PROVE  TreeInv'
<1>1. "handle" \in Calls
  BY DEF Calls
<1>2. PICK g \in Frames : /\ g = Frame("handle", e)
                          /\ g.at = "handle" /\ g.e = e /\ g.todo = {}
  BY <1>1, FrameTyping
<1>3. PICK f : /\ Makes(t, f, g)
               /\ stack[t] # <<>> => f.at = "body" /\ f \in Frames /\ FrameFacts(f)
               /\ stack[t] # <<>> => TakesRole(t, f)
  BY <1>2, CallIn DEF CallHandle, ReleaseCalls
<1>4. stack' \in [Threads -> Seq(Frames)]
  BY <1>3 DEF Makes, Called, CallsFrom
<1>5. /\ TypeOK' /\ EntriesFit' /\ Grows /\ Others(Fiber)
      /\ \A h \in Frames : FrameFacts(h) => FrameFacts(h)'
      /\ \A d \in Registered : Listed(d) => Listed(d)'
      /\ UNCHANGED <<registered, owner, cleaned>>
  BY <1>4, NothingChanges DEF CallHandle
<1>6. \A C \in Roles : g.at \notin C
  BY <1>2 DEF Roles, BodyCalls, Holding, FiberCalls
<1>7. FrameFacts(g)
  <2>1. handle[e] = "new" /\ EntryFacts(e)
    BY DEF CallHandle, TreeInv, EntriesFit
  <2>2. e <= registered /\ installed[e]
    BY <2>1 DEF EntryFacts, Blank, TreeInv, TypeOK
  <2>3. QED
    BY <1>2, <2>2 DEF FrameFacts, BodyCalls, Holding, FiberCalls
<1>8. FrameFacts(g)' /\ (stack[t] # <<>> => FrameFacts(f)')
  BY <1>3, <1>5, <1>7
<1>9. Fiber \notin Registered /\ Registered' = Registered
  BY <1>5 DEF Registered
<1>10. QED
  BY <1>3, <1>5, <1>6, <1>8, <1>9, MakeInvariant

LEMMA DisposeKeeps ==
    ASSUME TreeInv, NEW t \in Threads, Dispose(t)
    PROVE  TreeInv'
<1>1. "teardown" \in Calls
  BY DEF Calls
<1>2. PICK g \in Frames : /\ g = Frame("teardown", Fiber)
                          /\ g.at = "teardown" /\ g.e = Fiber /\ g.todo = {}
  BY <1>1, FrameTyping
<1>3. PICK f : /\ Makes(t, f, g)
               /\ stack[t] # <<>> => f.at = "body" /\ f \in Frames /\ FrameFacts(f)
               /\ stack[t] # <<>> => TakesRole(t, f)
  BY <1>2, CallIn DEF Dispose, ReleaseCalls
<1>4. UNCHANGED <<registered, owner, tree, children, running, installed,
                  deferred, done, once, handle, cleaned>>
      /\ fiber = "open" /\ fiber' = "closing"
  BY DEF Dispose, entries, lists, onces
<1>5. TypeOK'
  BY <1>3, <1>4 DEF TreeInv, TypeOK, Makes, Called, CallsFrom
<1>6. EntriesFit'
  BY <1>4 DEF TreeInv, EntriesFit, EntryFacts, Blank
<1>7. Grows /\ Others(Fiber)
  BY <1>4 DEF Grows, Others, SameEntry, Released, Used, TreeInv, TypeOK
<1>8. \A h \in Frames : FrameFacts(h) => FrameFacts(h)'
  BY <1>4 DEF FrameFacts
<1>9. ~Has(FiberCalls, Fiber)
  <2>1. ASSUME NEW u \in Threads, NEW i \in 1..Len(stack[u]),
               stack[u][i].at \in FiberCalls
        PROVE  FALSE
    BY <1>4, <2>1 DEF TreeInv, CallsFit, FrameFacts
  <2>2. QED
    BY <2>1 DEF Has
<1>10. \A C \in Roles : g.at \in C =>
         /\ ~Has(C, g.e)
         /\ stack[t] # <<>> /\ f.at \in C => f.e # g.e
  BY <1>2, <1>3, <1>9 DEF Roles, BodyCalls, Holding, FiberCalls
<1>11. FrameFacts(g)'
  BY <1>2, <1>4, RegisteredTyping
  DEF FrameFacts, BodyCalls, Holding, FiberCalls, Owners, TreeInv
<1>12. \A d \in Registered : Listed(d) => Listed(d)'
  BY <1>4 DEF Listed
<1>13. Fiber \notin Registered /\ Registered' = Registered
  BY <1>4 DEF Registered
<1>14. QED
  BY <1>3, <1>4, <1>5, <1>6, <1>7, <1>8, <1>10, <1>11, <1>12, <1>13,
     MakeInvariant

LEMMA RegisterKeeps ==
    ASSUME TreeInv, NEW t \in Threads, NEW o \in Effects \cup {Fiber},
           Register(t, o)
    PROVE  TreeInv'
<1>1. PICK e \in Effects : e = registered + 1
  BY DEF Register, TreeInv, TypeOK
<1>2. EntryFacts(e) /\ Blank(e)
  BY <1>1 DEF TreeInv, EntriesFit, EntryFacts, TypeOK
<1>3. o # Fiber => Adopts(o) /\ o <= registered
  <2>1. o # Fiber => Adopts(o) /\ EntryFacts(o)
    BY DEF Register, TreeInv, EntriesFit
  <2>2. QED
    BY <2>1 DEF Adopts, EntryFacts, Blank, TreeInv, TypeOK
<1>4. "body" \in Calls
  BY DEF Calls
<1>5. PICK g \in Frames : /\ g = Frame("body", e)
                          /\ g.at = "body" /\ g.e = e /\ g.todo = {}
  BY <1>4, FrameTyping
<1>6. PICK f : /\ Makes(t, f, g)
               /\ stack[t] # <<>> => f.at = "body" /\ f \in Frames /\ FrameFacts(f)
               /\ stack[t] # <<>> => TakesRole(t, f)
  BY <1>1, <1>5, CallIn DEF Register, ReleaseCalls
<1>7. /\ UNCHANGED <<installed, deferred, done, once, handle, fiber, cleaned>>
      /\ fiber = "open"
      /\ registered' = e
      /\ owner' = [owner EXCEPT ![e] = o]
      /\ running' = [running EXCEPT ![e] = TRUE]
      /\ IF o = Fiber
         THEN tree' = tree \cup {e} /\ children' = children
         ELSE children' = [children EXCEPT ![o] = @ \cup {e}] /\ tree' = tree
  BY <1>1 DEF Register, onces
<1>8. TypeOK'
  <2>1. stack' \in [Threads -> Seq(Frames)]
    BY <1>6 DEF Makes, Called, CallsFrom
  <2>2. tree' \subseteq Effects /\ children' \in [Effects -> SUBSET Effects]
    <3>1. tree \subseteq Effects /\ children \in [Effects -> SUBSET Effects]
      BY DEF TreeInv, TypeOK
    <3>2. tree' \subseteq tree \cup {e}
      BY <1>7
    <3>3. children' \in [Effects -> SUBSET Effects]
      BY <1>7, <3>1
    <3>4. QED
      BY <3>1, <3>2, <3>3
  <2>3. \A d \in Effects : ~(running'[d] /\ installed'[d])
    BY <1>2, <1>7 DEF TreeInv, TypeOK, Blank
  <2>4. QED
    BY <1>1, <1>7, <2>1, <2>2, <2>3 DEF TreeInv, TypeOK
<1>9. \A d \in Effects : d <= registered => d # e /\ d <= e
  BY <1>1, RegisteredTyping DEF TreeInv
<1>10. EntriesFit'
  <2>1. \A d \in tree' : d <= registered' /\ owner'[d] = Fiber
    <3>1. \A d \in tree : d <= registered /\ owner[d] = Fiber /\ d \in Effects
      BY DEF TreeInv, EntriesFit, TypeOK
    <3>2. tree' = tree \/ (o = Fiber /\ tree' = tree \cup {e})
      BY <1>7
    <3>3. \A d \in tree : d # e /\ d <= e /\ owner'[d] = owner[d]
      BY <1>7, <1>9, <3>1 DEF TreeInv, TypeOK
    <3>4. owner'[e] = o /\ registered' = e /\ e <= e
      BY <1>1, <1>7, RegisteredTyping DEF TreeInv, TypeOK
    <3>5. CASE tree' = tree
      BY <3>1, <3>3, <3>4, <3>5
    <3>6. CASE o = Fiber /\ tree' = tree \cup {e}
      BY <3>1, <3>3, <3>4, <3>6
    <3>7. QED
      BY <3>2, <3>5, <3>6
  <2>2. fiber' # "torn"
    BY <1>7
  <2>3. ASSUME NEW d \in Effects
        PROVE  EntryFacts(d)'
    <3>1. EntryFacts(d) /\ registered \in Nat
      BY DEF TreeInv, EntriesFit, TypeOK
    <3>2. \A c \in children'[d] : c <= registered' /\ owner'[c] = d
      <4>1. \A c \in children[d] : c <= registered /\ owner[c] = d /\ c \in Effects
        BY <3>1 DEF EntryFacts, TreeInv, TypeOK
      <4>2. children'[d] \subseteq IF o = d THEN children[d] \cup {e} ELSE children[d]
        BY <1>7 DEF TreeInv, TypeOK
      <4>3. QED
        BY <1>1, <1>7, <1>9, <4>1, <4>2 DEF TreeInv, TypeOK
    <3>3. owner'[d] < d
      BY <1>1, <1>3, <1>7, <3>1 DEF EntryFacts, TreeInv, TypeOK
    <3>4. done[d] => children'[d] = {}
      BY <1>3, <1>7, <3>1 DEF EntryFacts, Adopts, TreeInv, TypeOK
    <3>5. d > registered' => Blank(d)'
      <4>1. SUFFICES ASSUME d > registered' PROVE Blank(d)'
        OBVIOUS
      <4>2. d > registered /\ d # e /\ d # o
        BY <1>1, <1>3, <1>7, <3>1, <4>1
      <4>3. QED
        BY <1>7, <3>1, <4>2 DEF EntryFacts, Blank, TreeInv, TypeOK
    <3>6. QED
      BY <1>7, <3>1, <3>2, <3>3, <3>4, <3>5 DEF EntryFacts
  <2>4. QED
    BY <2>1, <2>2, <2>3 DEF EntriesFit
<1>11. Grows /\ Others(e)
  BY <1>1, <1>7, <1>9
  DEF Grows, Others, SameEntry, Released, Used, TreeInv, TypeOK, Registered
<1>12. \A h \in Frames : FrameFacts(h) => h.e # e
  BY <1>1, RegisteredTyping DEF FrameFacts, Frames, TreeInv
<1>13. \A C \in Roles : g.at \in C =>
         /\ ~Has(C, g.e)
         /\ stack[t] # <<>> /\ f.at \in C => f.e # g.e
  <2>1. ASSUME NEW u \in Threads, NEW i \in 1..Len(stack[u])
        PROVE  stack[u][i].e # e
    BY <1>12, Typing DEF TreeInv, CallsFit
  <2>2. \A C : ~Has(C, e)
    BY <2>1 DEF Has
  <2>3. QED
    BY <1>5, <1>6, <1>12, <2>2
<1>14. FrameFacts(g)'
  BY <1>2, <1>5, <1>7
  DEF FrameFacts, BodyCalls, Holding, FiberCalls, Owners, Blank
<1>15. stack[t] # <<>> => FrameFacts(f)'
  BY <1>6, <1>11, <1>12, FrameStays DEF TreeInv
<1>16. \A d \in Registered :
         d \in Effects /\ owner[d] \in Effects \cup {Fiber} /\ d # e
  <2>1. \A d \in Registered : d <= registered
    BY RegisteredTyping DEF Registered, TreeInv
  <2>2. QED
    BY <1>9, <2>1, RegisteredTyping DEF TreeInv, TypeOK
<1>17. \A d \in Registered : Listed(d) => Listed(d)'
  BY <1>7, <1>9, <1>16 DEF Listed, TreeInv, TypeOK, Registered
<1>18. Listed(e)'
  BY <1>7 DEF Listed, TreeInv, TypeOK
<1>19. \A d \in Registered' : d \in Registered \/ d = e
  BY <1>1, <1>7, RegisteredTyping DEF Registered, TreeInv
<1>20. Driven(e)'
  <2>1. Has(BodyCalls, e)'
    BY <1>5, <1>6, MakeHasNew DEF BodyCalls, TreeInv
  <2>2. BodyCalls' = BodyCalls
    BY DEF BodyCalls
  <2> HIDE DEF BodyCalls
  <2>3. QED
    BY <1>2, <1>7, <2>1, <2>2 DEF Driven, Blank
<1>21. OrderKept'
  <2>1. SUFFICES ASSUME NEW d \in Registered', cleaned[d] = 1, ~Used(d)', ~deferred[d]
        PROVE  /\ IF owner'[d] = Fiber THEN fiber' # "open"
                  ELSE /\ done'[owner'[d]]
                       /\ cleaned'[owner'[d]] = 1 \/ ~installed'[owner'[d]]
               /\ \A y \in Registered' :
                    y > d /\ owner'[y] = owner'[d] => Settled(y)'
    BY <1>7 DEF OrderKept
  <2>2. d \in Registered
    BY <1>2, <1>19, <2>1 DEF Blank
  <2>3. d # e /\ owner'[d] = owner[d]
    BY <1>7, <1>16, <2>2 DEF TreeInv, TypeOK
  <2>4. ~Used(d)
    BY <1>7, <2>1 DEF Used
  <2>5. /\ owner[d] # Fiber /\ done[owner[d]]
        /\ cleaned[owner[d]] = 1 \/ ~installed[owner[d]]
        /\ \A y \in Registered : y > d /\ owner[y] = owner[d] => Settled(y)
    BY <1>7, <2>1, <2>2, <2>4 DEF TreeInv, OrderKept
  <2>6. \A y \in Registered : Settled(y) => Settled(y)'
    BY <1>6, <1>11, <1>16, MakeSettled DEF TreeInv
  <2>7. \A y \in Registered : owner'[y] = owner[y]
    BY <1>11 DEF Grows
  <2>8. owner[d] # o
    BY <1>3, <2>5 DEF Adopts
  <2>9. owner'[e] = o
    BY <1>7 DEF TreeInv, TypeOK
  <2>10. QED
    BY <1>7, <1>19, <2>3, <2>5, <2>6, <2>7, <2>8, <2>9
<1>22. QED
  BY <1>6, <1>8, <1>10, <1>11, <1>12, <1>13, <1>14, <1>15, <1>17, <1>18, <1>19,
     <1>20, <1>21, MakeInvariant

LEMMA EnterHandleKeeps ==
    ASSUME TreeInv, NEW t \in Threads, EnterHandle(t)
    PROVE  TreeInv'
<1>1. stack[t] # <<>> /\ Top(t).at = "handle"
  BY DEF EnterHandle, In
<1>2. PICK e \in Registered : e = Top(t).e
  BY <1>1, TopFacts DEF FiberCalls
<1>3. e \in Effects
  BY RegisteredTyping DEF TreeInv
<1>4. FrameFacts(Top(t)) /\ Top(t).todo = {} /\ Top(t) \in Frames /\ installed[e]
  BY <1>1, <1>2, TopFacts DEF FrameFacts, Owners, Releasers
<1>5. CASE handle[e] = "done" /\ handle' = handle /\ Return(t)
  BY <1>1, <1>4, <1>5, ReturnKeeps DEF EnterHandle, onces
<1>6. CASE /\ handle[e] = "new"
           /\ handle' = [handle EXCEPT ![e] = "running"]
           /\ stack' = [stack EXCEPT ![t] =
                          Append(Append(Below(t), Frame("detach", e)),
                                 Frame("request", e))]
  <2>1. {"detach", "request"} \subseteq Calls
    BY DEF Calls
  <2>2. PICK f \in Frames : /\ f = Frame("detach", e)
                            /\ f.at = "detach" /\ f.e = e /\ f.todo = {}
    BY <1>3, <2>1, FrameTyping
  <2>3. PICK g \in Frames : /\ g = Frame("request", e)
                            /\ g.at = "request" /\ g.e = e /\ g.todo = {}
    BY <1>3, <2>1, FrameTyping
  <2>4. Called(t, f, g)
    <3>1. stack \in [Threads -> Seq(Frames)]
      BY DEF TreeInv, TypeOK
    <3>2. stack' = [stack EXCEPT ![t] = Append(Append(Front(stack[t]), f), g)]
      BY <1>6, <2>2, <2>3 DEF Below, Front
    <3>3. QED
      BY <1>1, <3>1, <3>2, ReplaceTopAndCall DEF Called
  <2>5. UNCHANGED <<registered, owner, tree, children, running, installed,
                    deferred, done, once, fiber, cleaned>>
    BY DEF EnterHandle, entries, lists
  <2>6. Used(e)' /\ ~Used(e) /\ handle'[e] = "running"
    BY <1>3, <1>6 DEF Used, TreeInv, TypeOK
  <2>7. Makes(t, f, g)
    <3>1. Used(g.e)'
      BY <2>3, <2>6
    <3>2. QED
      BY <1>1, <1>2, <1>4, <2>2, <2>3, <2>4, <3>1 DEF Makes, ReleaseCalls
  <2>8. Grows /\ Others(e)
    BY <1>3, <1>6, <2>5
    DEF Grows, Others, SameEntry, Released, Used, TreeInv, TypeOK
  <2>9. ~Has({"detach"}, e)
    <3>1. ASSUME NEW u \in Threads, NEW i \in 1..Len(stack[u]),
                 stack[u][i].at = "detach", stack[u][i].e = e
          PROVE  FALSE
      BY <1>6, <3>1 DEF TreeInv, CallsFit, FrameFacts
    <3>2. QED
      BY <3>1 DEF Has
  <2>10. TakesRole(t, f)
    BY <2>2, <2>9 DEF TakesRole, Roles, BodyCalls, Holding, FiberCalls
  <2>11. \A C \in Roles : g.at \notin C
    BY <2>3 DEF Roles, BodyCalls, Holding, FiberCalls
  <2>12. TypeOK'
    BY <1>3, <1>6, <2>4, <2>5
    DEF TreeInv, TypeOK, Called, CallsFrom, OnceStates
  <2>13. EntriesFit'
    BY <1>2, <1>3, <1>4, <1>6, <2>5, RegisteredTyping
    DEF TreeInv, EntriesFit, EntryFacts, Blank, TypeOK
  <2>14. FrameFacts(f)' /\ FrameFacts(g)'
    BY <1>2, <1>3, <1>4, <2>2, <2>3, <2>5, <2>6
    DEF FrameFacts, BodyCalls, Holding, FiberCalls, Owners
  <2>15. \A h \in Frames : FrameFacts(h) /\ h.e = e => FrameFacts(h)'
    BY <2>5, <2>6 DEF FrameFacts
  <2>16. Driven(e)'
    <3>1. /\ Has(BodyCalls, e) => Has(BodyCalls, e)'
          /\ Has(Holding, e) => Has(Holding, e)'
          /\ Has(ReleaseCalls, e) => Has(ReleaseCalls, e)'
      <4>1. "handle" \notin BodyCalls /\ "handle" \notin Holding /\ "handle" \notin ReleaseCalls
        BY DEF BodyCalls, Holding, ReleaseCalls
      <4>2. QED
        BY <2>7, <4>1, MakeHas DEF TreeInv
    <3>2. Has({"detach"}, e)'
      <4>1. Len(stack[t]) \in 1..Len(stack[t]) /\ Len(stack[t]) \in Nat
        BY <1>1, TopTyping DEF TreeInv
      <4>2. Len(stack[t]) \in 1..Len(stack'[t]) /\ stack'[t][Len(stack[t])] = f
        BY <2>4, <4>1 DEF Called, CallsFrom
      <4>3. QED
        BY <2>2, <4>2 DEF Has
    <3>3. Driven(e)
      BY DEF TreeInv, AllDriven
    <3>4. BodyCalls' = BodyCalls /\ Holding' = Holding /\ ReleaseCalls' = ReleaseCalls
      BY DEF BodyCalls, Holding, ReleaseCalls
    <3> HIDE DEF BodyCalls, Holding, ReleaseCalls
    <3>5. QED
      BY <2>5, <3>1, <3>2, <3>3, <3>4 DEF Driven, Released
  <2>17. \A c \in Registered : Listed(c) => Listed(c)'
    BY <2>5 DEF Listed
  <2>18. Registered' = Registered
    BY <2>5 DEF Registered
  <2>19. \A C \in Roles : g.at \in C =>
           /\ ~Has(C, g.e)
           /\ stack[t] # <<>> /\ f.at \in C => f.e # g.e
    BY <2>11
  <2>20. QED
    BY <2>5, <2>7, <2>8, <2>10, <2>12, <2>13, <2>14, <2>15, <2>16, <2>17,
       <2>18, <2>19, MakeInvariant
<1>7. QED
  BY <1>2, <1>5, <1>6 DEF EnterHandle

LEMMA DetachKeeps ==
    ASSUME TreeInv, NEW t \in Threads, Detach(t)
    PROVE  TreeInv'
<1>1. stack[t] # <<>> /\ Top(t).at = "detach"
  BY DEF Detach, In
<1>2. PICK e \in Registered : e = Top(t).e
  BY <1>1, TopFacts DEF FiberCalls
<1>3. e \in Effects
  BY RegisteredTyping DEF TreeInv
<1>4. FrameFacts(Top(t)) /\ Top(t).todo = {} /\ Top(t) \in Frames /\ installed[e]
  BY <1>1, <1>2, TopFacts DEF FrameFacts, Owners, Releasers
<1>5. once[e] = "done"
  BY <1>1, <1>2, TopTyping DEF TreeInv, DetachLast
<1>6. /\ UNCHANGED <<registered, owner, running, installed, deferred, done,
                     once, fiber, cleaned>>
      /\ Unlist(e) /\ handle' = [handle EXCEPT ![e] = "done"] /\ Return(t)
  BY <1>2 DEF Detach, entries
<1>7. Pops(t)
  BY <1>1, <1>4, <1>6, Returning DEF Pops, ReleaseCalls, TreeInv
<1>8. /\ tree' \subseteq tree /\ children' \in [Effects -> SUBSET Effects]
      /\ \A d \in Effects : children'[d] \subseteq children[d]
      /\ \A c \in Registered \ {e} : Listed(c) => Listed(c)'
  BY <1>6, Unlisting
<1>9. Grows /\ Others(e)
  BY <1>3, <1>6, <1>8
  DEF Grows, Others, SameEntry, Released, Used, TreeInv, TypeOK
<1>10. TypeOK'
  BY <1>3, <1>6, <1>7, <1>8
  DEF TreeInv, TypeOK, Pops, Popped, PopsTop, OnceStates
<1>11. EntriesFit'
  <2>1. registered \in Nat /\ e <= registered
    BY RegisteredTyping DEF Registered, TreeInv
  <2>2. QED
    BY <1>3, <1>4, <1>5, <1>6, <1>8, <2>1
    DEF TreeInv, EntriesFit, EntryFacts, Blank, TypeOK
<1>12. \A g \in Frames :
        /\ FrameFacts(g) /\ g.e = e
        /\ \A C \in Roles : ~(g.at \in C /\ Top(t).at \in C)
        => FrameFacts(g)'
  <2>1. {"detach"} \in Roles
    BY DEF Roles
  <2>2. \A g \in Frames : FrameFacts(g) /\ g.e = e /\ g.at # "detach" => FrameFacts(g)'
    BY <1>6, <1>8 DEF FrameFacts
  <2>3. QED
    BY <1>1, <2>1, <2>2
<1>13. Released(e)'
  BY <1>5, <1>6 DEF Released
<1>14. Driven(e)'
  BY <1>3, <1>4, <1>5, <1>6, <1>13 DEF Driven, TreeInv, TypeOK
<1>15. \A c \in Registered : Listed(c) => Settled(c)' \/ Listed(c)'
  BY <1>8, <1>13 DEF Settled
<1>16. QED
  BY <1>2, <1>6, <1>7, <1>9, <1>10, <1>11, <1>12, <1>14, <1>15, PopInvariant

\* A call that goes on and has changed nothing else.
LEMMA GotoKeeps ==
    ASSUME TreeInv, NEW t \in Threads, stack[t] # <<>>,
           NEW f \in Frames, Moves(t, f), TakesRole(t, f), FrameFacts(f),
           UNCHANGED <<entries, lists, onces, fiber, cleaned>>,
           \A C \in {BodyCalls, Holding, {"detach"}, ReleaseCalls} :
               Top(t).at \in C => f.at \in C
    PROVE  TreeInv'
<1>1. PICK e \in Effects \cup {Fiber} : e = Top(t).e
  BY TopFacts DEF Frames
<1>2. stack' \in [Threads -> Seq(Frames)]
  BY DEF Moves, Replaced, ReplacesTop
<1>3. /\ TypeOK' /\ EntriesFit' /\ Grows /\ Others(e)
      /\ \A d \in Effects : SameEntry(d)
      /\ \A h \in Frames : FrameFacts(h) => FrameFacts(h)'
      /\ \A d \in Registered : Listed(d) => Listed(d)'
      /\ UNCHANGED <<registered, owner, cleaned>>
  BY <1>2, NothingChanges
<1>4. e \in Registered => Driven(e)'
  <2>1. SUFFICES ASSUME e \in Registered PROVE Driven(e)'
    OBVIOUS
  <2>2. Driven(e) /\ SameEntry(e)
    BY <1>3, <2>1, RegisteredTyping DEF TreeInv, AllDriven
  <2>3. QED
    BY <2>2, MovedDriven DEF TreeInv
<1>5. QED
  BY <1>1, <1>3, <1>4, MoveInvariant

LEMMA RequestDisposeKeeps ==
    ASSUME TreeInv, NEW t \in Threads, RequestDispose(t)
    PROVE  TreeInv'
<1>1. stack[t] # <<>> /\ Top(t).at = "request"
  BY DEF RequestDispose, In
<1>2. PICK e \in Registered : e = Top(t).e
  BY <1>1, TopFacts DEF FiberCalls
<1>3. e \in Effects
  BY RegisteredTyping DEF TreeInv
<1>4. FrameFacts(Top(t)) /\ Top(t).todo = {} /\ Top(t) \in Frames
  BY <1>1, <1>2, TopFacts DEF FrameFacts, Owners, Releasers
<1>5. /\ UNCHANGED <<registered, owner, tree, children, running, installed,
                     done, once, handle, fiber, cleaned>>
      /\ IF installed[e] THEN deferred' = deferred /\ Goto(t, "once")
         ELSE deferred' = [deferred EXCEPT ![e] = @ \/ ~done[e]] /\ Return(t)
  BY <1>2 DEF RequestDispose, lists, onces
<1>6. CASE installed[e]
  <2>1. PICK f \in Frames : /\ Replaced(t, f) /\ f.at = "once"
                            /\ f.e = Top(t).e /\ f.todo = Top(t).todo
    <3>1. "once" \in Calls
      BY DEF Calls
    <3>2. QED
      BY <1>1, <1>5, <1>6, <3>1, Going DEF TreeInv
  <2>2. Moves(t, f)
    BY <1>1, <1>4, <2>1 DEF Moves, ReleaseCalls
  <2>3. TakesRole(t, f)
    BY <2>1 DEF TakesRole, Roles, BodyCalls, Holding, FiberCalls
  <2>4. FrameFacts(f)
    BY <1>1, <1>2, <1>4, <1>6, <2>1
    DEF FrameFacts, BodyCalls, Holding, FiberCalls
  <2>5. \A C \in {BodyCalls, Holding, {"detach"}, ReleaseCalls} :
          Top(t).at \in C => f.at \in C
    BY <1>1, <2>1 DEF BodyCalls, Holding, ReleaseCalls
  <2>6. QED
    BY <1>1, <1>5, <1>6, <2>2, <2>3, <2>4, <2>5, GotoKeeps
    DEF entries, lists, onces
<1>7. CASE ~installed[e]
  <2>1. deferred' = [deferred EXCEPT ![e] = @ \/ ~done[e]] /\ Return(t)
    BY <1>5, <1>7
  <2>2. Settled(e)' /\ (deferred'[e] \/ done[e])
    BY <1>3, <1>5, <1>7, <2>1 DEF Settled, Released, TreeInv, TypeOK
  <2>3. Pops(t)
    BY <1>1, <1>2, <1>4, <1>7, <2>1, <2>2, Returning DEF Pops, TreeInv
  <2>4. Grows /\ Others(e)
    BY <1>3, <1>5, <2>1
    DEF Grows, Others, SameEntry, Released, Used, TreeInv, TypeOK
  <2>5. TypeOK'
    BY <1>3, <1>5, <2>1, <2>3 DEF TreeInv, TypeOK, Pops, Popped, PopsTop
  <2>6. EntriesFit'
    <3>1. registered \in Nat /\ e <= registered
      BY RegisteredTyping DEF Registered, TreeInv
    <3>2. QED
      BY <1>3, <1>5, <2>1, <3>1 DEF TreeInv, EntriesFit, EntryFacts, Blank, TypeOK
  <2>7. \A g \in Frames : FrameFacts(g) => FrameFacts(g)'
    BY <1>5 DEF FrameFacts
  <2>8. Driven(e)'
    <3>1. Has(BodyCalls, e) => Has(BodyCalls, e)'
      <4>1. "request" \notin BodyCalls
        BY DEF BodyCalls
      <4>2. QED
        BY <1>1, <2>3, <4>1, PopHas DEF TreeInv
    <3>2. Driven(e)
      BY DEF TreeInv, AllDriven
    <3>3. once[e] = "new" /\ handle[e] = "none"
      BY <1>3, <1>7 DEF TreeInv, EntriesFit, EntryFacts
    <3>4. BodyCalls' = BodyCalls
      BY DEF BodyCalls
    <3> HIDE DEF BodyCalls
    <3>5. QED
      BY <1>5, <1>7, <3>1, <3>2, <3>3, <3>4 DEF Driven, Released
  <2>9. \A c \in Registered : Listed(c) => Listed(c)'
    BY <1>5 DEF Listed
  <2>10. QED
    BY <1>2, <1>5, <2>3, <2>4, <2>5, <2>6, <2>7, <2>8, <2>9, PopInvariant
<1>8. QED
  BY <1>6, <1>7

LEMMA EnterOnceKeeps ==
    ASSUME TreeInv, NEW t \in Threads, EnterOnce(t)
    PROVE  TreeInv'
<1>1. stack[t] # <<>> /\ Top(t).at = "once"
  BY DEF EnterOnce, In
<1>2. PICK e \in Registered : e = Top(t).e
  BY <1>1, TopFacts DEF FiberCalls
<1>3. e \in Effects
  BY RegisteredTyping DEF TreeInv
<1>4. /\ FrameFacts(Top(t)) /\ Top(t).todo = {} /\ Top(t) \in Frames
      /\ installed[e] /\ EntryFacts(e)
  BY <1>1, <1>2, <1>3, TopFacts
  DEF FrameFacts, Owners, Releasers, TreeInv, EntriesFit
<1>5. UNCHANGED <<registered, owner, tree, children, running, installed,
                  deferred, done, handle, fiber, cleaned>>
  BY DEF EnterOnce, lists, entries
<1>6. CASE once[e] = "new" /\ once' = [once EXCEPT ![e] = "running"]
           /\ Goto(t, "claim")
  <2>1. PICK f \in Frames : /\ Replaced(t, f) /\ f.at = "claim"
                            /\ f.e = Top(t).e /\ f.todo = Top(t).todo
    <3>1. "claim" \in Calls
      BY DEF Calls
    <3>2. QED
      BY <1>1, <1>6, <3>1, Going DEF TreeInv
  <2>2. Moves(t, f)
    BY <1>1, <1>4, <2>1 DEF Moves, ReleaseCalls
  <2>3. ~Has(Holding, e)
    <3>1. ASSUME NEW u \in Threads, NEW i \in 1..Len(stack[u]),
                 stack[u][i].at \in Holding, stack[u][i].e = e
          PROVE  FALSE
      BY <1>6, <3>1 DEF TreeInv, CallsFit, FrameFacts
    <3>2. QED
      BY <3>1 DEF Has
  <2>4. TakesRole(t, f)
    BY <1>2, <2>1, <2>3 DEF TakesRole, Roles, BodyCalls, FiberCalls, Holding
  <2>5. Grows /\ Others(e)
    BY <1>3, <1>5, <1>6
    DEF Grows, Others, SameEntry, Released, Used, TreeInv, TypeOK
  <2>6. TypeOK'
    BY <1>3, <1>5, <1>6, <2>1
    DEF TreeInv, TypeOK, Replaced, ReplacesTop, OnceStates
  <2>7. ~done[e] /\ cleaned[e] = 0 /\ once'[e] = "running"
    BY <1>3, <1>4, <1>6 DEF EntryFacts, TreeInv, TypeOK
  <2>8. EntriesFit'
    <3>1. registered \in Nat /\ e <= registered
      BY RegisteredTyping DEF Registered, TreeInv
    <3>2. QED
      BY <1>3, <1>4, <1>5, <1>6, <2>7, <3>1
      DEF TreeInv, EntriesFit, EntryFacts, Blank, TypeOK
  <2>9. FrameFacts(f)'
    BY <1>1, <1>2, <1>4, <1>5, <2>1, <2>7
    DEF FrameFacts, BodyCalls, Holding, FiberCalls, Owners, Releasers
  <2>10. \A g \in Frames : FrameFacts(g) /\ g.e = e => FrameFacts(g)'
    BY <1>5, <2>7 DEF FrameFacts
  <2>11. Driven(e)'
    <3>1. Has(Holding, e)' /\ Has(ReleaseCalls, e)'
      BY <1>2, <2>1, <2>2, MovedHas DEF TreeInv, Holding, ReleaseCalls
    <3>2. Has({"detach"}, e) => Has({"detach"}, e)'
      BY <1>1, <2>2, MoveHas DEF Moves, TreeInv
    <3>3. Driven(e)
      BY DEF TreeInv, AllDriven
    <3>4. ReleaseCalls' = ReleaseCalls /\ Holding' = Holding
      BY DEF ReleaseCalls, Holding
    <3> HIDE DEF ReleaseCalls, Holding
    <3>5. QED
      BY <1>4, <1>5, <3>1, <3>2, <3>3, <3>4 DEF Driven
  <2>12. \A c \in Registered : Listed(c) => Listed(c)'
    BY <1>5 DEF Listed
  <2>13. QED
    BY <1>2, <1>5, <2>2, <2>4, <2>5, <2>6, <2>8, <2>9, <2>10, <2>11, <2>12,
       MoveInvariant
<1>7. CASE once[e] = "done" /\ once' = once /\ Return(t)
  <2>1. Pops(t)
    BY <1>1, <1>2, <1>4, <1>7, Returning DEF Pops, TreeInv
  <2>2. stack' \in [Threads -> Seq(Frames)]
    BY <2>1 DEF Pops, Popped, PopsTop
  <2>3. /\ TypeOK' /\ EntriesFit' /\ Grows /\ Others(e)
        /\ \A h \in Frames : FrameFacts(h) => FrameFacts(h)'
        /\ \A d \in Registered : Listed(d) => Listed(d)'
    BY <1>5, <1>7, <2>2, NothingChanges DEF entries, lists, onces
  <2>4. Driven(e)'
    <3>1. Has({"detach"}, e) => Has({"detach"}, e)'
      BY <1>1, <2>1, PopHas DEF TreeInv
    <3>2. Driven(e) /\ done[e]
      BY <1>4, <1>7 DEF TreeInv, AllDriven, EntryFacts
    <3>3. QED
      BY <1>5, <1>7, <3>1, <3>2 DEF Driven, Released
  <2>5. QED
    BY <1>2, <1>5, <2>1, <2>3, <2>4, PopInvariant
<1>8. QED
  BY <1>2, <1>6, <1>7 DEF EnterOnce

LEMMA ClaimDisposeKeeps ==
    ASSUME TreeInv, NEW t \in Threads, ClaimDispose(t)
    PROVE  TreeInv'
<1>1. stack[t] # <<>> /\ Top(t).at = "claim"
  BY DEF ClaimDispose, In
<1>2. PICK e \in Registered : e = Top(t).e
  BY <1>1, TopFacts DEF FiberCalls
<1>3. e \in Effects
  BY RegisteredTyping DEF TreeInv
<1>4. /\ FrameFacts(Top(t)) /\ Top(t).todo = {} /\ Top(t) \in Frames
      /\ installed[e] /\ ~done[e] /\ once[e] = "running" /\ EntryFacts(e)
      /\ cleaned[e] = 0
  BY <1>1, <1>2, <1>3, TopFacts
  DEF FrameFacts, EntryFacts, Owners, Releasers, Holding, TreeInv, EntriesFit
<1>5. PICK f \in Frames : /\ Replaced(t, f) /\ f.at = "cleanup"
                          /\ f.e = Top(t).e /\ f.todo = children[e]
  <2> DEFINE g == [at |-> "cleanup", e |-> e, todo |-> children[e]]
  <2>1. g \in Frames /\ g.at = "cleanup" /\ g.e = e /\ g.todo = children[e]
    BY <1>3 DEF Frames, Calls, TreeInv, TypeOK
  <2>2. Become(t, g)
    BY <1>2, <1>4 DEF ClaimDispose
  <2> HIDE DEF g
  <2>3. QED
    BY <1>1, <1>2, <2>1, <2>2, Becoming DEF TreeInv
<1>6. /\ UNCHANGED <<registered, owner, running, tree, installed, deferred,
                     once, handle, fiber, cleaned>>
      /\ done' = [done EXCEPT ![e] = TRUE]
      /\ children' = [children EXCEPT ![e] = {}]
  BY <1>2, <1>4 DEF ClaimDispose, onces
<1>7. Moves(t, f)
  BY <1>1, <1>2, <1>4, <1>5 DEF Moves, ReleaseCalls
<1>8. Grows /\ Others(e)
  BY <1>3, <1>4, <1>6
  DEF Grows, Others, SameEntry, Released, Used, TreeInv, TypeOK
<1>9. TakesRole(t, f)
  BY <1>1, <1>5 DEF TakesRole, Roles, BodyCalls, Holding, FiberCalls
<1>10. TypeOK'
  BY <1>3, <1>5, <1>6 DEF TreeInv, TypeOK, Replaced, ReplacesTop
<1>11. EntriesFit'
  <2>1. registered \in Nat /\ e <= registered
    BY RegisteredTyping DEF Registered, TreeInv
  <2>2. QED
    BY <1>3, <1>4, <1>6, <2>1
    DEF TreeInv, EntriesFit, EntryFacts, Blank, TypeOK
<1>12. FrameFacts(f)'
  BY <1>2, <1>3, <1>4, <1>5, <1>6
  DEF FrameFacts, EntryFacts, BodyCalls, Holding, FiberCalls, Owners,
      Releasers, TreeInv, TypeOK
<1>13. \A g \in Frames :
        /\ FrameFacts(g) /\ g.e = e
        /\ \A C \in Roles : ~(g.at \in C /\ Top(t).at \in C)
        => FrameFacts(g)'
  <2>1. Holding \in Roles /\ "claim" \in Holding
    BY DEF Roles, Holding
  <2>2. \A g \in Frames :
          FrameFacts(g) /\ g.e = e /\ g.at \notin Holding => FrameFacts(g)'
    BY <1>3, <1>4, <1>6 DEF FrameFacts, TreeInv, TypeOK, BodyCalls, Holding
  <2>3. QED
    BY <1>1, <2>1, <2>2
<1>14. Driven(e)'
  <2>1. Has(Holding, e)' /\ Has(ReleaseCalls, e)'
    BY <1>2, <1>5, <1>7, MovedHas DEF TreeInv, Holding, ReleaseCalls
  <2>2. Has({"detach"}, e) => Has({"detach"}, e)'
    BY <1>1, <1>7, MoveHas DEF Moves, TreeInv
  <2>3. Driven(e)
    BY DEF TreeInv, AllDriven
  <2>4. ReleaseCalls' = ReleaseCalls /\ Holding' = Holding
    BY DEF ReleaseCalls, Holding
  <2> HIDE DEF ReleaseCalls, Holding
  <2>5. QED
    BY <1>4, <1>6, <2>1, <2>2, <2>3, <2>4 DEF Driven
<1>15. \A c \in Registered : Listed(c) =>
          Listed(c)' \/ (f.at \in Owners /\ f.e = owner[c] /\ c \in f.todo)
  <2>1. \A c \in Registered : owner[c] \in Effects \cup {Fiber}
    BY RegisteredTyping DEF TreeInv, TypeOK
  <2>2. QED
    BY <1>2, <1>3, <1>5, <1>6, <2>1 DEF Listed, TreeInv, TypeOK, Owners, Releasers
<1>16. QED
  BY <1>2, <1>6, <1>7, <1>8, <1>9, <1>10, <1>11, <1>12, <1>13, <1>14, <1>15,
     MoveInvariant

\* The effect whose cleanup is about to run, if it was left to its owner, is
\* the last of the owner's that is not settled.
LEMMA OwnerFirst ==
    ASSUME TreeInv, NEW t \in Threads, stack[t] # <<>>,
           Top(t).at = "cleanup", NEW e \in Registered, e = Top(t).e,
           ~Used(e), ~deferred[e]
    PROVE  /\ IF owner[e] = Fiber THEN fiber # "open"
              ELSE /\ done[owner[e]]
                   /\ cleaned[owner[e]] = 1 \/ ~installed[owner[e]]
           /\ \A y \in Registered :
                y > e /\ owner[y] = owner[e] => Settled(y)
<1> DEFINE n == Len(stack[t])
<1>1. n \in Nat \ {0} /\ n \in 1..n /\ Top(t) = stack[t][n]
  BY TopTyping DEF TreeInv
<1>2. n > 1 /\ stack[t][n - 1].at \in Releasers
  BY <1>1 DEF TreeInv, Asked, ReleaseCalls
<1>3. PICK m \in 1..n : m = n - 1 /\ m < n /\ n = m + 1
  BY <1>1, <1>2
<1>4. PICK f \in Frames : f = stack[t][m]
  BY Typing DEF TreeInv
<1>5. FrameFacts(f) /\ f.at \in Releasers
  BY <1>2, <1>3, <1>4 DEF TreeInv, CallsFit
<1>6. owner[e] = f.e /\ \A c \in f.todo : c < e
  <2> HIDE DEF n
  <2>1. n \in 1..Len(stack[t]) /\ m \in 1..Len(stack[t])
    BY <1>1 DEF n
  <2>2. stack[t][m].at \in Releasers /\ stack[t][n] = Top(t)
    BY <1>1, <1>2, <1>3
  <2> HIDE DEF Releasers
  <2>3. owner[stack[t][n].e] = stack[t][m].e /\ \A c \in stack[t][m].todo : c < stack[t][n].e
    BY <1>3, <2>1, <2>2 DEF TreeInv, Nesting
  <2>4. QED
    BY <1>4, <2>2, <2>3
<1>7. /\ f.e = Fiber => f.at = "sweep" /\ fiber # "open" /\ tree = {}
      /\ f.e # Fiber => /\ f.e \in Effects /\ done[f.e]
                        /\ cleaned[f.e] = 1 \/ ~installed[f.e]
                        /\ children[f.e] = {}
  <2>1. f.e = Fiber => f.at = "sweep" /\ fiber # "open" /\ tree = {}
    BY <1>5 DEF FrameFacts, FiberCalls, Releasers
  <2>2. f.e # Fiber => f.e \in Effects /\ f.at \in {"orphans", "children"}
    BY <1>5 DEF FrameFacts, FiberCalls, Releasers, Frames
  <2>3. f.e # Fiber => done[f.e] /\ (cleaned[f.e] = 1 \/ ~installed[f.e])
    BY <1>5, <2>2 DEF FrameFacts
  <2>4. f.e # Fiber => children[f.e] = {}
    BY <2>2, <2>3 DEF TreeInv, EntriesFit, EntryFacts
  <2>5. QED
    BY <2>1, <2>2, <2>3, <2>4
<1>8. ASSUME NEW y \in Registered, y > e, owner[y] = owner[e]
      PROVE  Settled(y)
  <2>1. ~Listed(y)
    BY <1>6, <1>7, <1>8 DEF Listed
  <2>2. ASSUME NEW u \in Threads, NEW i \in 1..Len(stack[u]),
               stack[u][i].at \in Owners, stack[u][i].e = owner[y],
               \/ y \in stack[u][i].todo
               \/ i < Len(stack[u]) /\ stack[u][i + 1].e = y
        PROVE  FALSE
    <3>1. PICK g \in Frames : g = stack[u][i]
      BY Typing DEF TreeInv
    <3>2. FrameFacts(g) /\ g.at \in Owners /\ g.e = f.e
      BY <1>6, <1>8, <2>2, <3>1 DEF TreeInv, CallsFit
    <3>3. \E C \in Roles : g.at \in C /\ f.at \in C
      <4>1. CASE f.e = Fiber
        <5>1. g.at \in FiberCalls /\ f.at \in FiberCalls
          BY <1>5, <3>2, <4>1 DEF FrameFacts
        <5>2. QED
          BY <5>1 DEF Roles
      <4>2. CASE f.e # Fiber
        <5>1. g.at \in {"orphans", "children", "cleanup"} /\ f.at \in {"orphans", "children"}
          BY <1>5, <3>2, <4>2 DEF FrameFacts, FiberCalls, Owners, Releasers
        <5>2. /\ g.at = "orphans" <=> ~installed[f.e]
              /\ f.at = "orphans" <=> ~installed[f.e]
          BY <1>5, <3>2, <5>1 DEF FrameFacts, Holding
        <5>3. \/ g.at \in BodyCalls \cup {"orphans"} /\ f.at \in BodyCalls \cup {"orphans"}
              \/ g.at \in Holding /\ f.at \in Holding
          BY <5>1, <5>2 DEF Holding
        <5>4. QED
          BY <5>3 DEF Roles
      <4>3. QED
        BY <4>1, <4>2
    <3>4. u = t /\ i = m
      BY <1>3, <1>4, <3>1, <3>2, <3>3 DEF TreeInv, OneInRole
    <3>5. g = f /\ Top(t).e = e /\ stack[u][i + 1] = Top(t)
      BY <1>1, <1>3, <1>4, <3>1, <3>4
    <3>6. CASE y \in f.todo
      BY <1>6, <1>8, <3>6, RegisteredTyping DEF TreeInv
    <3>7. CASE stack[u][i + 1].e = y
      BY <1>8, <3>5, <3>7, RegisteredTyping DEF TreeInv
    <3>8. QED
      BY <2>2, <3>1, <3>5, <3>6, <3>7
  <2>3. ~TakenOver(y)
    BY <2>2 DEF TakenOver
  <2>4. QED
    BY <2>1, <2>3 DEF TreeInv, Covered
<1>9. QED
  BY <1>6, <1>7, <1>8

LEMMA CallDisposerKeeps ==
    ASSUME TreeInv, NEW t \in Threads, CallDisposer(t)
    PROVE  TreeInv'
<1>1. stack[t] # <<>> /\ Top(t).at = "cleanup"
  BY DEF CallDisposer, In
<1>2. PICK e \in Registered : e = Top(t).e
  BY <1>1, TopFacts DEF FiberCalls
<1>3. e \in Effects
  BY RegisteredTyping DEF TreeInv
<1>4. /\ FrameFacts(Top(t)) /\ Top(t) \in Frames
      /\ installed[e] /\ done[e] /\ once[e] = "running" /\ EntryFacts(e)
      /\ cleaned[e] = 0
  BY <1>1, <1>2, <1>3, TopFacts
  DEF FrameFacts, EntryFacts, Holding, TreeInv, EntriesFit
<1>5. PICK f \in Frames : /\ Replaced(t, f) /\ f.at = "children"
                          /\ f.e = Top(t).e /\ f.todo = Top(t).todo
  <2>1. "children" \in Calls
    BY DEF Calls
  <2>2. QED
    BY <1>1, <2>1, Going DEF CallDisposer, TreeInv
<1>6. /\ UNCHANGED <<registered, owner, running, tree, children, installed,
                     deferred, done, once, handle, fiber>>
      /\ cleaned' = [cleaned EXCEPT ![e] = 1]
  BY <1>2, <1>4 DEF CallDisposer, entries, lists, onces
<1>7. Moves(t, f)
  BY <1>1, <1>5 DEF Moves, ReleaseCalls, Owners, Releasers
<1>8. Grows /\ Others(e)
  BY <1>3, <1>6
  DEF Grows, Others, SameEntry, Released, Used, TreeInv, TypeOK
<1>9. TakesRole(t, f)
  BY <1>1, <1>5 DEF TakesRole, Roles, BodyCalls, Holding, FiberCalls
<1>10. TypeOK'
  BY <1>3, <1>5, <1>6 DEF TreeInv, TypeOK, Replaced, ReplacesTop
<1>11. EntriesFit'
  <2>1. registered \in Nat /\ e <= registered
    BY RegisteredTyping DEF Registered, TreeInv
  <2>2. QED
    BY <1>3, <1>4, <1>6, <2>1
    DEF TreeInv, EntriesFit, EntryFacts, Blank, TypeOK
<1>12. FrameFacts(f)'
  BY <1>1, <1>2, <1>3, <1>4, <1>5, <1>6
  DEF FrameFacts, BodyCalls, Holding, FiberCalls, Owners, Releasers, TreeInv,
      TypeOK
<1>13. \A g \in Frames :
        /\ FrameFacts(g) /\ g.e = e
        /\ \A C \in Roles : ~(g.at \in C /\ Top(t).at \in C)
        => FrameFacts(g)'
  <2>1. Holding \in Roles /\ "cleanup" \in Holding
    BY DEF Roles, Holding
  <2>2. \A g \in Frames :
          FrameFacts(g) /\ g.e = e /\ g.at \notin Holding => FrameFacts(g)'
    BY <1>6 DEF FrameFacts, Holding
  <2>3. QED
    BY <1>1, <2>1, <2>2
<1>14. Driven(e)'
  <2>1. Has(Holding, e)' /\ Has(ReleaseCalls, e)'
    BY <1>2, <1>5, <1>7, MovedHas DEF TreeInv, Holding, ReleaseCalls
  <2>2. Has({"detach"}, e) => Has({"detach"}, e)'
    BY <1>1, <1>7, MoveHas DEF Moves, TreeInv
  <2>3. Driven(e)
    BY DEF TreeInv, AllDriven
  <2>4. ReleaseCalls' = ReleaseCalls /\ Holding' = Holding
    BY DEF ReleaseCalls, Holding
  <2> HIDE DEF ReleaseCalls, Holding
  <2>5. QED
    BY <1>4, <1>6, <2>1, <2>2, <2>3, <2>4 DEF Driven
<1>15. \A c \in Registered : Listed(c) => Listed(c)'
  BY <1>6 DEF Listed
<1>16. OrderKept'
  <2>1. SUFFICES ASSUME NEW d \in Registered, cleaned'[d] = 1, ~Used(d)',
                        ~deferred[d]
        PROVE  /\ IF owner[d] = Fiber THEN fiber # "open"
                  ELSE /\ done[owner[d]]
                       /\ cleaned'[owner[d]] = 1 \/ ~installed[owner[d]]
               /\ \A y \in Registered :
                    y > d /\ owner[y] = owner[d] => Settled(y)'
    BY <1>6 DEF OrderKept, Registered
  <2>2. ~Used(d)
    BY <1>6, <2>1 DEF Used
  <2>3. d = e \/ cleaned[d] = 1
    BY <1>6, <2>1, RegisteredTyping DEF TreeInv, TypeOK
  <2>4. /\ IF owner[d] = Fiber THEN fiber # "open"
           ELSE /\ done[owner[d]]
                /\ cleaned[owner[d]] = 1 \/ ~installed[owner[d]]
        /\ \A y \in Registered : y > d /\ owner[y] = owner[d] => Settled(y)
    <3>1. CASE d = e
      BY <1>1, <1>2, <2>1, <2>2, <3>1, OwnerFirst
    <3>2. CASE cleaned[d] = 1
      BY <2>1, <2>2, <3>2 DEF TreeInv, OrderKept
    <3>3. QED
      BY <2>3, <3>1, <3>2
  <2>5. \A y \in Registered : Settled(y) => Settled(y)'
    <3>1. TypeOK /\ Registered \subseteq Effects
      BY RegisteredTyping DEF TreeInv
    <3>2. QED
      BY <1>7, <1>8, <3>1, MoveSettled
  <2>6. cleaned[owner[d]] = 1 => cleaned'[owner[d]] = 1
    BY <1>3, <1>6 DEF TreeInv, TypeOK
  <2>7. QED
    BY <2>4, <2>5, <2>6
<1>17. QED
  BY <1>2, <1>6, <1>7, <1>8, <1>9, <1>10, <1>11, <1>12, <1>13, <1>14, <1>15,
     <1>16, MoveInvariant

LEMMA UnwindChildrenKeeps ==
    ASSUME TreeInv, NEW t \in Threads, UnwindChildren(t)
    PROVE  TreeInv'
<1>1. stack[t] # <<>> /\ Top(t).at = "children"
  BY DEF UnwindChildren, In
<1>2. CASE Top(t).todo # {}
  BY <1>1, <1>2, ReleaseNextKeeps DEF UnwindChildren, Releasers
<1>3. CASE Top(t).todo = {}
  <2>1. PICK f \in Frames : /\ Replaced(t, f) /\ f.at = "onceDone"
                            /\ f.e = Top(t).e /\ f.todo = Top(t).todo
    <3>1. "onceDone" \in Calls
      BY DEF Calls
    <3>2. QED
      BY <1>1, <1>3, <3>1, Going DEF UnwindChildren, TreeInv
  <2>2. FrameFacts(Top(t))
    BY <1>1, TopFacts
  <2>3. Moves(t, f)
    BY <1>1, <1>3, <2>1 DEF Moves, ReleaseCalls
  <2>4. TakesRole(t, f)
    BY <1>1, <2>1 DEF TakesRole, Roles, BodyCalls, Holding, FiberCalls
  <2>5. FrameFacts(f)
    BY <1>1, <1>3, <2>1, <2>2 DEF FrameFacts, BodyCalls, Holding, FiberCalls
  <2>6. \A C \in {BodyCalls, Holding, {"detach"}, ReleaseCalls} :
          Top(t).at \in C => f.at \in C
    BY <1>1, <2>1 DEF BodyCalls, Holding, ReleaseCalls
  <2>7. QED
    BY <1>1, <2>1, <2>3, <2>4, <2>5, <2>6, GotoKeeps DEF UnwindChildren
<1>4. QED
  BY <1>2, <1>3

LEMMA LeaveOnceKeeps ==
    ASSUME TreeInv, NEW t \in Threads, LeaveOnce(t)
    PROVE  TreeInv'
<1>1. stack[t] # <<>> /\ Top(t).at = "onceDone"
  BY DEF LeaveOnce, In
<1>2. PICK e \in Registered : e = Top(t).e
  BY <1>1, TopFacts DEF FiberCalls
<1>3. e \in Effects
  BY RegisteredTyping DEF TreeInv
<1>4. /\ FrameFacts(Top(t)) /\ Top(t).todo = {}
      /\ installed[e] /\ done[e] /\ once[e] = "running" /\ EntryFacts(e)
      /\ cleaned[e] = 1
  BY <1>1, <1>2, <1>3, TopFacts
  DEF FrameFacts, Holding, Owners, Releasers, TreeInv, EntriesFit
<1>5. /\ UNCHANGED <<registered, owner, tree, children, running, installed,
                     deferred, done, handle, fiber, cleaned>>
      /\ once' = [once EXCEPT ![e] = "done"] /\ Return(t)
  BY <1>2 DEF LeaveOnce, entries, lists
<1>6. Released(e)' /\ once'[e] = "done"
  BY <1>3, <1>5 DEF Released, TreeInv, TypeOK
<1>7. Pops(t)
  BY <1>1, <1>2, <1>4, <1>5, <1>6, Returning DEF Pops, TreeInv
<1>8. Grows /\ Others(e)
  BY <1>3, <1>5
  DEF Grows, Others, SameEntry, Released, Used, TreeInv, TypeOK
<1>9. TypeOK'
  BY <1>3, <1>5, <1>7
  DEF TreeInv, TypeOK, Pops, Popped, PopsTop, OnceStates
<1>10. EntriesFit'
  <2>1. registered \in Nat /\ e <= registered
    BY RegisteredTyping DEF Registered, TreeInv
  <2>2. QED
    BY <1>3, <1>4, <1>5, <2>1
    DEF TreeInv, EntriesFit, EntryFacts, Blank, TypeOK
<1>11. \A g \in Frames :
        /\ FrameFacts(g) /\ g.e = e
        /\ \A C \in Roles : ~(g.at \in C /\ Top(t).at \in C)
        => FrameFacts(g)'
  <2>1. Holding \in Roles /\ "onceDone" \in Holding
    BY DEF Roles, Holding
  <2>2. \A g \in Frames :
          FrameFacts(g) /\ g.e = e /\ g.at \notin Holding => FrameFacts(g)'
    BY <1>5 DEF FrameFacts
  <2>3. QED
    BY <1>1, <2>1, <2>2
<1>12. Driven(e)'
  <2>1. Has({"detach"}, e) => Has({"detach"}, e)'
    BY <1>1, <1>7, PopHas DEF TreeInv
  <2>2. Driven(e)
    BY DEF TreeInv, AllDriven
  <2>3. QED
    BY <1>4, <1>5, <1>6, <2>1, <2>2 DEF Driven
<1>13. \A c \in Registered : Listed(c) => Listed(c)'
  BY <1>5 DEF Listed
<1>14. QED
  BY <1>2, <1>5, <1>7, <1>8, <1>9, <1>10, <1>11, <1>12, <1>13, PopInvariant

\* What a step of the teardown leaves to show: the entries stay as they are.
LEMMA FiberStep ==
    ASSUME TreeInv, stack' \in [Threads -> Seq(Frames)],
           UNCHANGED <<entries, children, onces, cleaned>>,
           fiber # "open", fiber' \in {"closing", "unloading", "torn"},
           tree' \in {tree, {}}, fiber' = "torn" => tree' = {}
    PROVE  /\ TypeOK' /\ EntriesFit' /\ Grows /\ Others(Fiber)
           /\ \A g \in Frames : FrameFacts(g) => FrameFacts(g)'
           /\ UNCHANGED <<registered, owner, cleaned>>
           /\ Fiber \notin Registered
<1>1. UNCHANGED <<registered, owner, children, running, installed, deferred,
                  done, once, handle, cleaned>>
  BY DEF entries, onces
<1>2. TypeOK' /\ EntriesFit'
  BY <1>1 DEF TreeInv, TypeOK, EntriesFit, EntryFacts, Blank
<1>3. Grows /\ Others(Fiber)
  BY <1>1 DEF Grows, Others, SameEntry, Released, Used, TreeInv, TypeOK
<1>4. \A g \in Frames : FrameFacts(g) => FrameFacts(g)'
  BY <1>1 DEF FrameFacts
<1>5. QED
  BY <1>1, <1>2, <1>3, <1>4 DEF Registered

LEMMA SetUnloadingKeeps ==
    ASSUME TreeInv, NEW t \in Threads, SetUnloading(t)
    PROVE  TreeInv'
<1>1. stack[t] # <<>> /\ Top(t).at = "teardown"
  BY DEF SetUnloading, In
<1>2. PICK f \in Frames : /\ Replaced(t, f) /\ f.at = "clear"
                          /\ f.e = Top(t).e /\ f.todo = Top(t).todo
  <2>1. "clear" \in Calls
    BY DEF Calls
  <2>2. QED
    BY <1>1, <2>1, Going DEF SetUnloading, TreeInv
<1>3. /\ FrameFacts(Top(t)) /\ Top(t).todo = {} /\ Top(t).e = Fiber
      /\ fiber # "open"
  BY <1>1, TopFacts DEF FrameFacts, Owners, Releasers, FiberCalls
<1>4. stack' \in [Threads -> Seq(Frames)]
  BY <1>2 DEF Replaced, ReplacesTop
<1>5. UNCHANGED <<entries, children, onces, cleaned, tree>> /\ fiber' = "unloading"
  BY DEF SetUnloading, lists
<1>6. /\ TypeOK' /\ EntriesFit' /\ Grows /\ Others(Fiber)
      /\ \A g \in Frames : FrameFacts(g) => FrameFacts(g)'
      /\ UNCHANGED <<registered, owner, cleaned>>
      /\ Fiber \notin Registered
  BY <1>3, <1>4, <1>5, FiberStep
<1>7. Moves(t, f)
  BY <1>1, <1>2, <1>3 DEF Moves, ReleaseCalls
<1>8. TakesRole(t, f)
  BY <1>1, <1>2 DEF TakesRole, Roles, BodyCalls, Holding, FiberCalls
<1>9. FrameFacts(f)
  BY <1>1, <1>2, <1>3 DEF FrameFacts, BodyCalls, Holding, FiberCalls
<1>10. \A c \in Registered : Listed(c) => Listed(c)'
  BY <1>5, <1>6 DEF Listed
<1>11. QED
  BY <1>2, <1>3, <1>6, <1>7, <1>8, <1>9, <1>10, MoveInvariant

LEMMA ClearKeeps ==
    ASSUME TreeInv, NEW t \in Threads, Clear(t)
    PROVE  TreeInv'
<1>1. stack[t] # <<>> /\ Top(t).at = "clear"
  BY DEF Clear, In
<1>2. PICK f \in Frames : /\ Replaced(t, f) /\ f.at = "sweep"
                          /\ f.e = Fiber /\ f.todo = tree
  <2> DEFINE g == [at |-> "sweep", e |-> Fiber, todo |-> tree]
  <2>1. g \in Frames /\ g.at = "sweep" /\ g.e = Fiber /\ g.todo = tree
    BY DEF Frames, Calls, TreeInv, TypeOK
  <2>2. Become(t, g)
    BY DEF Clear
  <2> HIDE DEF g
  <2>3. QED
    BY <1>1, <2>1, <2>2, Becoming DEF TreeInv
<1>3. /\ FrameFacts(Top(t)) /\ Top(t).todo = {} /\ Top(t).e = Fiber
      /\ fiber # "open"
  BY <1>1, TopFacts DEF FrameFacts, Owners, Releasers, FiberCalls
<1>4. stack' \in [Threads -> Seq(Frames)]
  BY <1>2 DEF Replaced, ReplacesTop
<1>5. UNCHANGED <<entries, children, onces, cleaned, fiber>> /\ tree' = {}
  BY DEF Clear
<1>6. /\ TypeOK' /\ EntriesFit' /\ Grows /\ Others(Fiber)
      /\ \A g \in Frames : FrameFacts(g) => FrameFacts(g)'
      /\ UNCHANGED <<registered, owner, cleaned>>
      /\ Fiber \notin Registered
  BY <1>3, <1>4, <1>5, FiberStep DEF TreeInv, TypeOK
<1>7. Moves(t, f)
  BY <1>1, <1>2, <1>3 DEF Moves, ReleaseCalls
<1>8. TakesRole(t, f)
  BY <1>1, <1>2, <1>3 DEF TakesRole, Roles, BodyCalls, Holding, FiberCalls
<1>9. FrameFacts(f)'
  <2>1. \A c \in tree : c <= registered /\ owner[c] = Fiber
    BY DEF TreeInv, EntriesFit
  <2>2. f.at \in FiberCalls /\ f.at \in Owners /\ f.at \notin BodyCalls
        /\ f.at \notin Holding
    BY <1>2 DEF BodyCalls, Holding, FiberCalls, Owners, Releasers
  <2> HIDE DEF BodyCalls, Holding, FiberCalls, Owners
  <2>3. QED
    BY <1>2, <1>3, <1>5, <1>6, <2>1, <2>2, RegisteredTyping
    DEF FrameFacts, TreeInv
<1>10. \A c \in Registered : Listed(c) =>
          Listed(c)' \/ (f.at \in Owners /\ f.e = owner[c] /\ c \in f.todo)
  BY <1>2, <1>5, <1>6 DEF Listed, Owners, Releasers
<1>11. QED
  BY <1>2, <1>3, <1>6, <1>7, <1>8, <1>9, <1>10, MoveInvariant

LEMMA SweepKeeps ==
    ASSUME TreeInv, NEW t \in Threads, Sweep(t)
    PROVE  TreeInv'
<1>1. stack[t] # <<>> /\ Top(t).at = "sweep"
  BY DEF Sweep, In
<1>2. CASE Top(t).todo # {}
  BY <1>1, <1>2, ReleaseNextKeeps DEF Sweep, Releasers
<1>3. CASE Top(t).todo = {}
  <2>1. FrameFacts(Top(t)) /\ Top(t).e = Fiber /\ fiber # "open" /\ tree = {}
    BY <1>1, TopFacts DEF FrameFacts, FiberCalls
  <2>2. Pops(t)
    BY <1>1, <1>3, Returning DEF Sweep, Pops, ReleaseCalls, TreeInv
  <2>3. stack' \in [Threads -> Seq(Frames)]
    BY <2>2 DEF Pops, Popped, PopsTop
  <2>4. UNCHANGED <<entries, children, onces, cleaned, tree>> /\ fiber' = "torn"
    BY <1>3 DEF Sweep, lists
  <2>5. /\ TypeOK' /\ EntriesFit' /\ Grows /\ Others(Fiber)
        /\ \A g \in Frames : FrameFacts(g) => FrameFacts(g)'
        /\ UNCHANGED <<registered, owner, cleaned>>
        /\ Fiber \notin Registered
    BY <2>1, <2>3, <2>4, FiberStep
  <2>6. \A c \in Registered : Listed(c) => Listed(c)'
    BY <2>4, <2>5 DEF Listed
  <2>7. QED
    BY <2>1, <2>2, <2>5, <2>6, PopInvariant
<1>4. QED
  BY <1>2, <1>3

LEMMA TreeInit ==
    ASSUME Init
    PROVE  TreeInv
<1>1. TypeOK
  <2>1. <<>> \in Seq(Frames)
    BY EmptySeq
  <2>2. QED
    BY <2>1 DEF Init, TypeOK, OnceStates
<1>2. \A t \in Threads : Len(stack[t]) = 0 /\ 1..Len(stack[t]) = {}
  <2> TAKE t \in Threads
  <2>1. stack[t] = <<>>
    BY DEF Init
  <2>2. Len(stack[t]) = 0
    BY <1>1, <2>1, Typing
  <2>3. QED
    BY <2>2
<1>3. Registered = {}
  BY DEF Init, Registered
<1>4. EntriesFit
  BY DEF Init, EntriesFit, EntryFacts, Blank
<1>5. CallsFit /\ OneInRole /\ Nesting /\ DetachLast /\ Asked
  BY <1>2 DEF CallsFit, OneInRole, Nesting, DetachLast, Asked
<1>6. AllDriven /\ Covered /\ OrderKept
  BY <1>3 DEF AllDriven, Covered, OrderKept
<1>7. QED
  BY <1>1, <1>4, <1>5, <1>6 DEF TreeInv

LEMMA TreeStutter ==
    ASSUME TreeInv, UNCHANGED vars
    PROVE  TreeInv'
<1>1. UNCHANGED <<registered, owner, tree, children, running, installed,
                  deferred, done, once, handle, fiber, cleaned, stack>>
  BY DEF vars, entries, lists, onces
<1>2. TypeOK' /\ EntriesFit'
  BY <1>1 DEF TreeInv, TypeOK, EntriesFit, EntryFacts, Blank
<1>3. CallsFit' /\ OneInRole' /\ Nesting' /\ DetachLast' /\ Asked'
  <2>1. CallsFit'
    BY <1>1 DEF TreeInv, CallsFit, FrameFacts
  <2>2. OneInRole'
    BY <1>1 DEF TreeInv, OneInRole, Roles
  <2>3. Nesting'
    BY <1>1 DEF TreeInv, Nesting
  <2>4. DetachLast' /\ Asked'
    BY <1>1 DEF TreeInv, DetachLast, Asked, Used
  <2>5. QED
    BY <2>1, <2>2, <2>3, <2>4
<1>4. AllDriven'
  BY <1>1 DEF TreeInv, AllDriven, Driven, Has, Released, Registered
<1>5. (\A c : Settled(c)' = Settled(c)) /\ Registered' = Registered
  BY <1>1 DEF Settled, Released, Panicking, Registered
<1>6. Covered'
  BY <1>1, <1>5 DEF TreeInv, Covered, Listed, TakenOver
<1>7. OrderKept'
  BY <1>1, <1>5 DEF TreeInv, OrderKept, Used
<1>8. QED
  BY <1>2, <1>3, <1>4, <1>6, <1>7 DEF TreeInv

LEMMA TreeNext ==
    ASSUME TreeInv, [Next]_vars
    PROVE  TreeInv'
<1>1. CASE UNCHANGED vars
  BY <1>1, TreeStutter
<1>2. CASE Stop
  BY <1>2, TreeStutter DEF Stop
<1>3. ASSUME NEW t \in Threads, Request(t)
      PROVE  TreeInv'
  <2>1. ASSUME NEW o \in Effects \cup {Fiber}, Register(t, o)
        PROVE  TreeInv'
    BY <2>1, RegisterKeeps
  <2>2. ASSUME NEW e \in Effects, CallHandle(t, e)
        PROVE  TreeInv'
    BY <2>2, CallHandleKeeps
  <2>3. CASE Dispose(t)
    BY <2>3, DisposeKeeps
  <2>4. QED
    BY <1>3, <2>1, <2>2, <2>3 DEF Request
<1>4. ASSUME NEW t \in Threads, Proceed(t)
      PROVE  TreeInv'
  <2>1. CASE BodyEnds(t)
    BY <2>1, BodyEndsKeeps
  <2>2. CASE FinishBody(t)
    BY <2>2, FinishBodyKeeps
  <2>3. CASE SetDispose(t)
    BY <2>3, SetDisposeKeeps
  <2>4. CASE PanicDetach(t)
    BY <2>4, PanicDetachKeeps
  <2>5. CASE Abandon(t)
    BY <2>5, AbandonKeeps
  <2>6. CASE Orphans(t)
    BY <2>6, OrphansKeeps
  <2>7. CASE EnterHandle(t)
    BY <2>7, EnterHandleKeeps
  <2>8. CASE Detach(t)
    BY <2>8, DetachKeeps
  <2>9. CASE RequestDispose(t)
    BY <2>9, RequestDisposeKeeps
  <2>10. CASE EnterOnce(t)
    BY <2>10, EnterOnceKeeps
  <2>11. CASE ClaimDispose(t)
    BY <2>11, ClaimDisposeKeeps
  <2>12. CASE CallDisposer(t)
    BY <2>12, CallDisposerKeeps
  <2>13. CASE UnwindChildren(t)
    BY <2>13, UnwindChildrenKeeps
  <2>14. CASE LeaveOnce(t)
    BY <2>14, LeaveOnceKeeps
  <2>15. CASE SetUnloading(t)
    BY <2>15, SetUnloadingKeeps
  <2>16. CASE Clear(t)
    BY <2>16, ClearKeeps
  <2>17. CASE Sweep(t)
    BY <2>17, SweepKeeps
  <2>18. QED
    BY <1>4, <2>1, <2>2, <2>3, <2>4, <2>5, <2>6, <2>7, <2>8, <2>9, <2>10,
       <2>11, <2>12, <2>13, <2>14, <2>15, <2>16, <2>17 DEF Proceed
<1>5. QED
  BY <1>1, <1>2, <1>3, <1>4 DEF Next

----------------------------------------------------------------------------
(* What follows. *)

\* At every moment each call under way knows the state of its entry, and what
\* is not finished has a goroutine that finishes it (disposable.go, tryEffect).
THEOREM TreeInvariant == Spec => []TreeInv
<1>1. Init => TreeInv
  BY TreeInit
<1>2. TreeInv /\ [Next]_vars => TreeInv'
  BY TreeNext
<1>3. QED
  BY <1>1, <1>2, PTL DEF Spec

\* No meeting of handle, owner, fiber and deferred release runs a cleanup
\* function twice (claimDispose, releaseOnce).
THEOREM EffectsCleanAtMostOnce == Spec => []AtMostOnce
<1>1. TreeInv => AtMostOnce
  <2> SUFFICES ASSUME TreeInv, NEW e \in Effects
               PROVE  cleaned[e] <= 1
    BY DEF AtMostOnce
  <2>1. cleaned[e] \in 0..1
    BY DEF TreeInv, EntriesFit, EntryFacts
  <2>2. QED
    BY <2>1
<1>2. QED
  BY <1>1, TreeInvariant, PTL

\* An effect that a call of its owner has taken over is one a goroutine is
\* about to release or is releasing.
LEMMA TakenOverIsInProgress ==
    ASSUME TreeInv, NEW c \in Registered, TakenOver(c)
    PROVE  InProgress(c)
<1>1. PICK t \in Threads : \E i \in 1..Len(stack[t]) :
        /\ stack[t][i].at \in Owners /\ stack[t][i].e = owner[c]
        /\ \/ c \in stack[t][i].todo
           \/ i < Len(stack[t]) /\ stack[t][i + 1].e = c
  BY DEF TakenOver
<1>2. PICK i \in 1..Len(stack[t]) :
        /\ stack[t][i].at \in Owners /\ stack[t][i].e = owner[c]
        /\ \/ c \in stack[t][i].todo
           \/ i < Len(stack[t]) /\ stack[t][i + 1].e = c
  BY <1>1
<1>3. CASE c \in stack[t][i].todo
  BY <1>3 DEF InProgress
<1>4. CASE i < Len(stack[t]) /\ stack[t][i + 1].e = c
  <2>1. PICK j \in 1..Len(stack[t]) : j = i + 1 /\ i < j
    BY <1>4, Typing DEF TreeInv
  <2>2. stack[t][i].at # "body"
    BY <1>2 DEF Owners, Releasers
  <2>3. stack[t][j].at \in ReleaseCalls
    BY <2>1, <2>2 DEF TreeInv, Nesting
  <2>4. stack[t][j].e = c /\ stack[t][j].at # "body" /\ stack[t][j].at # "handle"
    BY <1>4, <2>1, <2>3 DEF ReleaseCalls
  <2>5. QED
    BY <2>4 DEF InProgress
<1>5. QED
  BY <1>2, <1>3, <1>4

LEMMA PanickingIsInProgress ==
    ASSUME NEW c, Panicking(c)
    PROVE  InProgress(c)
<1>1. PICK t \in Threads : \E i \in 1..Len(stack[t]) :
        stack[t][i].e = c /\ stack[t][i].at = "abandon"
  BY DEF Panicking
<1>2. QED
  BY <1>1 DEF InProgress

\* A release that has returned has cleaned the effect, and everything nested
\* in it is released or left to the goroutine in its body (runDisposer).
THEOREM ReleasesAreComplete == Spec => []ReleaseIsComplete
<1>1. TreeInv => ReleaseIsComplete
  <2> SUFFICES ASSUME TreeInv, NEW e \in Registered
               PROVE  /\ handle[e] = "done" => once[e] = "done"
                      /\ once[e] = "done" =>
                           /\ cleaned[e] = 1
                           /\ \A c \in Registered :
                                owner[c] = e =>
                                  Released(c) \/ deferred[c] \/ Panicking(c)
    BY DEF ReleaseIsComplete
  <2>1. e \in Effects /\ EntryFacts(e)
    BY RegisteredTyping DEF TreeInv, EntriesFit
  <2>2. ASSUME once[e] = "done", NEW c \in Registered, owner[c] = e
        PROVE  Settled(c)
    <3>1. ~Listed(c)
      BY <2>1, <2>2 DEF Listed, EntryFacts
    <3>2. ASSUME NEW t \in Threads, NEW i \in 1..Len(stack[t]),
                 stack[t][i].at \in Owners, stack[t][i].e = e
          PROVE  FALSE
      <4>1. FrameFacts(stack[t][i])
        BY DEF TreeInv, CallsFit
      <4>2. stack[t][i].at \in {"orphans", "children", "cleanup"}
        BY <2>1, <3>2, <4>1 DEF FrameFacts, FiberCalls, Owners, Releasers
      <4>3. QED
        BY <2>1, <2>2, <3>2, <4>1, <4>2 DEF FrameFacts, Holding, EntryFacts
    <3>3. ~TakenOver(c)
      BY <2>2, <3>2 DEF TakenOver
    <3>4. QED
      BY <3>1, <3>3 DEF TreeInv, Covered
  <2>3. QED
    BY <2>1, <2>2 DEF EntryFacts, Settled
<1>2. QED
  BY <1>1, TreeInvariant, PTL

\* A live entry is where some release will find it: in the list of the fiber
\* or of a live owner, in the hands of a release, or deferred to the goroutine
\* that runs its body (tryEffect, abandon, claimDispose).
THEOREM NoEffectIsLost == Spec => []NoOrphan
<1>1. TreeInv => NoOrphan
  <2> SUFFICES ASSUME TreeInv, NEW e \in Registered
               PROVE
        \/ done[e] \/ deferred[e] \/ InProgress(e)
        \/ owner[e] = Fiber /\ e \in tree
        \/ owner[e] # Fiber /\ e \in children[owner[e]] /\ ~done[owner[e]]
    BY DEF NoOrphan
  <2>1. e \in Effects /\ EntryFacts(e)
    BY RegisteredTyping DEF TreeInv, EntriesFit
  <2>2. Settled(e) => done[e] \/ deferred[e] \/ InProgress(e)
    BY <2>1, PanickingIsInProgress DEF Settled, Released, EntryFacts
  <2>3. Listed(e) /\ owner[e] # Fiber =>
          e \in children[owner[e]] /\ ~done[owner[e]]
    <3>1. owner[e] # Fiber => owner[e] \in Effects
      BY <2>1 DEF TreeInv, TypeOK
    <3>2. QED
      BY <3>1 DEF Listed, TreeInv, EntriesFit, EntryFacts
  <2>4. QED
    BY <2>2, <2>3, TakenOverIsInProgress DEF TreeInv, Covered, Listed
<1>2. QED
  BY <1>1, TreeInvariant, PTL

\* Among the effects not released yet, the oldest has an owner that is still
\* live; when no call is under way, there is none (unload, tryEffect).
THEOREM TeardownsAreComplete == Spec => []TeardownIsComplete
<1>1. TreeInv => TeardownIsComplete
  <2> SUFFICES ASSUME TreeInv, fiber = "torn"
               PROVE
        /\ \A e \in Registered :
             owner[e] = Fiber => Released(e) \/ deferred[e] \/ InProgress(e)
        /\ Quiet => \A e \in Registered : Released(e)
    BY DEF TeardownIsComplete
  <2>1. tree = {}
    BY DEF TreeInv, EntriesFit
  <2>2. ASSUME NEW e \in Registered, owner[e] = Fiber
        PROVE  Released(e) \/ deferred[e] \/ InProgress(e)
    BY <2>1, <2>2, TakenOverIsInProgress, PanickingIsInProgress
    DEF TreeInv, Covered, Listed, Settled
  <2>3. ASSUME Quiet
        PROVE  \A e \in Registered : Released(e)
    <3> SUFFICES ASSUME \E e \in Registered : ~Released(e)
                 PROVE  FALSE
      OBVIOUS
    <3> DEFINE left == {e \in Registered : ~Released(e)}
    <3>1. left \subseteq Nat /\ left # {} /\ Registered \subseteq Effects
          /\ registered \in Nat
      BY RegisteredTyping DEF TreeInv
    <3>2. PICK e \in left : \A d \in left : e <= d
      BY <3>1, Least
    <3>3. \A t \in Threads : Len(stack[t]) = 0 /\ 1..Len(stack[t]) = {}
      <4> TAKE t \in Threads
      <4>1. stack[t] = <<>>
        BY <2>3 DEF Quiet
      <4>2. Len(stack[t]) = 0
        BY <4>1, Typing DEF TreeInv
      <4>3. QED
        BY <4>2
    <3>4. ~Panicking(e) /\ ~TakenOver(e) /\ \A C : ~Has(C, e)
      BY <3>3 DEF Panicking, TakenOver, Has
    <3>5. ~deferred[e]
      BY <3>2, <3>4 DEF TreeInv, AllDriven, Driven
    <3>6. Listed(e)
      BY <3>2, <3>4, <3>5 DEF TreeInv, Covered, Settled
    <3>7. owner[e] \in Effects /\ owner[e] < e /\ e \in children[owner[e]]
      BY <2>1, <3>1, <3>2, <3>6
      DEF Listed, TreeInv, TypeOK, EntriesFit, EntryFacts
    <3>8. owner[e] \in Registered
      BY <3>1, <3>2, <3>7 DEF Registered
    <3>9. Released(owner[e])
      BY <3>1, <3>2, <3>7, <3>8
    <3>10. done[owner[e]] /\ children[owner[e]] = {}
      BY <3>7, <3>9 DEF Released, TreeInv, EntriesFit, EntryFacts
    <3>11. QED
      BY <3>7, <3>10
  <2>4. QED
    BY <2>2, <2>3
<1>2. QED
  BY <1>1, TreeInvariant, PTL

\* An effect left to its owner is cleaned after the owner and after the
\* younger effects of the same owner (unwindChildren, disposableList.clear).
THEOREM OwnersReleaseInOrder == Spec => []OwnersOrder
<1>1. TreeInv => OwnersOrder
  <2> SUFFICES ASSUME TreeInv, NEW e \in Registered, cleaned[e] = 1,
                      LeftToOwner(e)
               PROVE
        /\ owner[e] # Fiber => cleaned[owner[e]] = 1 \/ ~installed[owner[e]]
        /\ \A y \in Registered :
             y > e /\ owner[y] = owner[e] =>
                Released(y) \/ deferred[y] \/ Panicking(y)
    BY DEF OwnersOrder
  <2>1. ~Used(e) /\ ~deferred[e]
    BY DEF LeftToOwner, Used
  <2>2. QED
    BY <2>1 DEF TreeInv, OrderKept, Settled
<1>2. QED
  BY <1>1, TreeInvariant, PTL

\* Whoever a waiting goroutine waits for, if it waits itself, waits for the
\* release of a younger effect.
LEMMA WaitsGrow ==
    ASSUME TreeInv, NEW t \in Threads, Waiting(t)
    PROVE  \E u \in Threads :
             /\ Blocks(u, t)
             /\ Waiting(u) => In(u, "once") /\ (In(t, "once") => Top(t).e < Top(u).e)
<1>1. stack[t] # <<>> /\ Top(t).at \in {"once", "handle"}
  BY DEF Waiting, In
<1>2. PICK e \in Registered : e = Top(t).e
  BY <1>1, TopFacts DEF FiberCalls
<1>3. PICK C \in {Holding, {"detach"}} :
        /\ Has(C, e)
        /\ C = IF In(t, "handle") THEN {"detach"} ELSE Holding
  <2>1. Driven(e)
    BY DEF TreeInv, AllDriven
  <2>2. QED
    BY <1>1, <1>2, <2>1 DEF Waiting, Driven, In
<1>4. PICK u \in Threads : \E i \in 1..Len(stack[u]) :
        stack[u][i].at \in C /\ stack[u][i].e = e
  BY <1>3 DEF Has
<1>5. PICK i \in 1..Len(stack[u]) : stack[u][i].at \in C /\ stack[u][i].e = e
  BY <1>4
<1>6. Blocks(u, t)
  BY <1>2, <1>3, <1>5 DEF Blocks, Holding
<1>7. ASSUME Waiting(u)
      PROVE  In(u, "once") /\ (In(t, "once") => Top(t).e < Top(u).e)
  <2>1. stack[u] # <<>> /\ Top(u).at \in {"once", "handle"}
    BY <1>7 DEF Waiting, In
  <2>2. PICK n \in 1..Len(stack[u]) : n = Len(stack[u]) /\ Top(u) = stack[u][n]
    BY <2>1, TopTyping DEF TreeInv
  <2>3. stack[u][i].at \in {"claim", "cleanup", "children", "onceDone", "detach"}
    BY <1>5 DEF Holding
  <2>4. i < n
    BY <2>1, <2>2, <2>3
  <2>5. /\ stack[u][i].at \in Releasers \cup {"body", "detach"}
        /\ stack[u][i].at # "body" => stack[u][n].at \in ReleaseCalls
        /\ stack[u][i].at \in Releasers => stack[u][i].e < stack[u][n].e
    BY <2>2, <2>4 DEF TreeInv, Nesting
  <2>6. In(u, "once")
    BY <2>1, <2>2, <2>3, <2>5 DEF In, ReleaseCalls
  <2>7. In(t, "once") => stack[u][i].at \in Releasers
    BY <1>1, <1>3, <1>5, <2>5 DEF In, Holding, Releasers
  <2>8. QED
    BY <1>2, <1>5, <2>2, <2>5, <2>6, <2>7
<1>8. QED
  BY <1>6, <1>7

\* Goroutines that waited only for each other would wait for ever younger
\* effects: releases, handles and teardowns never deadlock (releaseOnce, Once).
THEOREM EveryWaitEnds == Spec => []WaitsEnd
<1>1. TreeInv => WaitsEnd
  <2> SUFFICES ASSUME TreeInv, NEW S \in SUBSET Threads,
                      \A t \in S : Waiting(t), S # {},
                      \A t \in S : \A u \in Threads \ S : ~Blocks(u, t)
               PROVE  FALSE
    BY DEF WaitsEnd
  <2>1. \A t \in S : \E u \in S :
          In(u, "once") /\ (In(t, "once") => Top(t).e < Top(u).e)
    BY WaitsGrow
  <2> DEFINE waited == {Top(u).e : u \in {v \in S : In(v, "once")}}
  <2>2. waited \subseteq 0..MaxEffects
    BY TopFacts DEF In, Frames
  <2>3. waited # {}
    BY <2>1
  <2>4. PICK m \in waited : \A k \in waited : k <= m
    BY <2>2, <2>3, Greatest
  <2>5. PICK t \in S : In(t, "once") /\ Top(t).e = m
    BY <2>4
  <2>6. PICK u \in S : In(u, "once") /\ m < Top(u).e
    BY <2>1, <2>5
  <2>7. Top(u).e \in waited
    BY <2>6
  <2>8. QED
    BY <2>2, <2>4, <2>6, <2>7
<1>2. QED
  BY <1>1, TreeInvariant, PTL
=============================================================================
