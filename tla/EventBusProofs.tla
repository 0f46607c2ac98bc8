--------------------------- MODULE EventBusProofs ---------------------------
(***************************************************************************)
(* Proofs about EventBus, for every set of goroutines and listeners, and   *)
(* any number of dispatches: all its invariants.                           *)
(*                                                                         *)
(* The inductive invariant says what each place of a call knows of the     *)
(* listener the call is for; that a listener is added, installed, stored,  *)
(* released and unlisted by one call at a time; how calls nest on the      *)
(* stack of a goroutine; that what is under way has a goroutine that will  *)
(* finish it; and that the goroutines of Parallel form no circle.          *)
(***************************************************************************)
EXTENDS EventBus, SequenceTheorems, FiniteSetTheorems, TLAPS

----------------------------------------------------------------------------
(* Sequences that are used as stacks. *)

\* A stack in a call has a top, of the type of its frames.
LEMMA TopFrame ==
    ASSUME NEW S, NEW s \in Seq(S), s # <<>>
    PROVE  /\ Len(s) \in Nat \ {0}
           /\ Last(s) \in S
           /\ Last(s) = s[Len(s)]
<1>1. Len(s) \in Nat \ {0}
  BY EmptySeq
<1>2. Len(s) \in 1..Len(s)
  BY <1>1
<1>3. QED
  BY <1>1, <1>2, ElementOfSeq DEF Last

\* Popping leaves everything below the top as it was.
LEMMA PopFrame ==
    ASSUME NEW S, NEW s \in Seq(S), s # <<>>
    PROVE  /\ Front(s) \in Seq(S)
           /\ Len(Front(s)) = Len(s) - 1
           /\ \A i \in 1..(Len(s) - 1) : Front(s)[i] = s[i]
<1> DEFINE n == Len(s) - 1
<1>1. n \in Nat
  BY EmptySeq
<1>2. \A i \in 1..n : s[i] \in S
  BY <1>1, ElementOfSeq
<1> HIDE DEF n
<1>3. /\ SubSeq(s, 1, n) \in Seq(S)
      /\ Len(SubSeq(s, 1, n)) = IF 1 <= n THEN n - 1 + 1 ELSE 0
      /\ \A i \in 1..(n - 1 + 1) : SubSeq(s, 1, n)[i] = s[1 + i - 1]
  BY <1>1, <1>2, SubSeqProperties
<1>4. /\ Len(SubSeq(s, 1, n)) = n
      /\ \A i \in 1..n : SubSeq(s, 1, n)[i] = s[i]
  BY <1>1, <1>3
<1>5. Front(s) = SubSeq(s, 1, n)
  BY DEF Front, n
<1>6. QED
  BY <1>3, <1>4, <1>5, Zenon DEF n

\* A sequence of calls takes the place of the top.
LEMMA ReplaceFrames ==
    ASSUME NEW S, NEW s \in Seq(S), s # <<>>, NEW c \in Seq(S)
    PROVE  /\ Front(s) \o c \in Seq(S)
           /\ Len(Front(s) \o c) = Len(s) - 1 + Len(c)
           /\ \A i \in 1..(Len(s) - 1) : (Front(s) \o c)[i] = s[i]
           /\ \A i \in 1..Len(c) : (Front(s) \o c)[Len(s) - 1 + i] = c[i]
<1>1. /\ Len(s) \in Nat \ {0} /\ Len(c) \in Nat
      /\ Front(s) \in Seq(S) /\ Len(Front(s)) = Len(s) - 1
      /\ \A i \in 1..(Len(s) - 1) : Front(s)[i] = s[i]
  BY TopFrame, PopFrame, LenProperties
<1>2. /\ Front(s) \o c \in Seq(S)
      /\ Len(Front(s) \o c) = Len(Front(s)) + Len(c)
      /\ \A i \in 1..(Len(Front(s)) + Len(c)) : (Front(s) \o c)[i] =
           IF i <= Len(Front(s)) THEN Front(s)[i] ELSE c[i - Len(Front(s))]
  BY <1>1, ConcatProperties
<1>3. \A i \in 1..Len(c) :
        /\ Len(s) - 1 + i \in 1..(Len(Front(s)) + Len(c))
        /\ (Front(s) \o c)[Len(s) - 1 + i] = c[i]
  BY <1>1, <1>2
<1>4. \A i \in 1..(Len(s) - 1) : (Front(s) \o c)[i] = s[i]
  BY <1>1, <1>2
<1>5. QED
  BY <1>1, <1>2, <1>3, <1>4, Zenon

----------------------------------------------------------------------------
(* Numbers. *)

\* No bounded set holds zero and the successor of each of its numbers: the
\* successor would be an injection of a finite set into itself that misses
\* zero.
LEMMA NoFiniteChain ==
    ASSUME NEW n \in Nat, NEW N, N \subseteq 0..n, 0 \in N,
           \A k \in N : k + 1 \in N
    PROVE  FALSE
<1> DEFINE f == [k \in N |-> k + 1]
<1>1. f \in Injection(N, N)
  BY DEF Injection, IsInjective
<1>2. IsFiniteSet(N)
  <2>1. IsFiniteSet(0..n)
    BY FS_Interval
  <2>2. QED
    BY <2>1, FS_Subset
<1>3. f \in Surjection(N, N)
  BY <1>1, <1>2, FS_Injection
<1>4. \E k \in N : f[k] = 0
  BY <1>3 DEF Surjection
<1>5. QED
  BY <1>4

LEMMA Greatest ==
    ASSUME NEW n \in Nat, NEW N, N \subseteq 0..n, N # {}
    PROVE  \E m \in N : \A k \in N : k <= m
<1> SUFFICES ASSUME \A m \in N : \E k \in N : m < k
             PROVE  FALSE
  OBVIOUS
<1> DEFINE D == {x \in 0..n : \E y \in N : x <= y}
<1>1. \A x \in D : x + 1 \in D
  <2> TAKE x \in D
  <2>1. PICK y \in N : x <= y
    OBVIOUS
  <2>2. PICK z \in N : y < z
    OBVIOUS
  <2>3. x + 1 <= z /\ z \in 0..n
    BY <2>1, <2>2
  <2>4. QED
    BY <2>3
<1>2. D \subseteq 0..n
  OBVIOUS
<1>3. 0 \in D
  <2>1. PICK y \in N : y \in 0..n
    OBVIOUS
  <2>2. QED
    BY <2>1
<1> HIDE DEF D
<1>4. QED
  BY <1>1, <1>2, <1>3, NoFiniteChain

LEMMA Least ==
    ASSUME NEW N, N \subseteq Nat, N # {}
    PROVE  \E m \in N : \A k \in N : m <= k
<1>1. PICK n \in N : TRUE
  OBVIOUS
<1> DEFINE D == {x \in 0..n : n - x \in N}
<1>2. n \in Nat /\ D \subseteq 0..n /\ 0 \in D
  OBVIOUS
<1> HIDE DEF D
<1>3. PICK d \in D : \A k \in D : k <= d
  BY <1>2, Greatest
<1>4. n - d \in N /\ d \in 0..n
  BY <1>3 DEF D
<1>5. \A k \in N : k <= n => n - k \in D
  BY <1>2 DEF D
<1>6. \A k \in N : k <= n => n - k <= d
  BY <1>3, <1>5
<1>7. QED
  BY <1>2, <1>4, <1>6

----------------------------------------------------------------------------
(* Lists without repetition. *)

\* An element of a list goes, the others stay, once each.
LEMMA RemovingFirst ==
    ASSUME NEW S, NEW s \in Seq(S), IsInjective(s), NEW e
    PROVE  /\ RemoveFirst(s, e) \in Seq(S)
           /\ IsInjective(RemoveFirst(s, e))
           /\ ToSet(RemoveFirst(s, e)) = ToSet(s) \ {e}
<1> DEFINE n == Len(s)
<1>1. /\ n \in Nat /\ DOMAIN s = 1..n
      /\ \A i \in 1..n : s[i] \in S
  BY LenProperties, ElementOfSeq
<1>2. \A i, j \in 1..n : s[i] = s[j] => i = j
  BY <1>1 DEF IsInjective
<1>3. CASE \A i \in 1..n : s[i] # e
  <2>1. RemoveFirst(s, e) = s
    BY <1>3 DEF RemoveFirst
  <2>2. e \notin ToSet(s)
    BY <1>1, <1>3 DEF ToSet
  <2>3. QED
    BY <2>1, <2>2
<1>4. CASE \E i \in 1..n : s[i] = e
  <2>1. PICK m \in 1..n : s[m] = e
    BY <1>4
  <2>2. {i \in 1..n : s[i] = e} = {m}
    BY <1>2, <2>1
  <2>3. SelectInSeq(s, LAMBDA v : v = e) = m
    BY <1>1, <2>1, <2>2 DEF SelectInSeq, Min
  <2> DEFINE a == SubSeq(s, 1, m - 1)
             b == SubSeq(s, m + 1, n)
             r == RemoveFirst(s, e)
  <2>4. r = a \o b
    BY <1>4, <2>3 DEF RemoveFirst, RemoveAt
  <2>5. /\ a \in Seq(S) /\ Len(a) = m - 1
        /\ \A i \in 1..(m - 1) : a[i] = s[i]
    <3>1. /\ a \in Seq(S)
          /\ Len(a) = IF 1 <= m - 1 THEN (m - 1) - 1 + 1 ELSE 0
          /\ \A i \in 1..((m - 1) - 1 + 1) : a[i] = s[1 + i - 1]
      BY <1>1, <2>1, SubSeqProperties
    <3> HIDE DEF a
    <3>2. QED
      BY <2>1, <3>1, <1>1
  <2>6. /\ b \in Seq(S) /\ Len(b) = n - m
        /\ \A i \in 1..(n - m) : b[i] = s[m + i]
    <3>1. /\ b \in Seq(S)
          /\ Len(b) = IF m + 1 <= n THEN n - (m + 1) + 1 ELSE 0
          /\ \A i \in 1..(n - (m + 1) + 1) : b[i] = s[m + 1 + i - 1]
      BY <1>1, <2>1, SubSeqProperties
    <3> HIDE DEF b, n
    <3>2. QED
      BY <2>1, <3>1, <1>1
  <2> HIDE DEF a, b, r, n
  <2>7. /\ r \in Seq(S) /\ Len(r) = n - 1
        /\ \A i \in 1..(n - 1) : r[i] = IF i <= m - 1 THEN s[i] ELSE s[i + 1]
    <3>1. /\ r \in Seq(S) /\ Len(r) = Len(a) + Len(b)
          /\ \A i \in 1..(Len(a) + Len(b)) :
               r[i] = IF i <= Len(a) THEN a[i] ELSE b[i - Len(a)]
      BY <2>4, <2>5, <2>6, ConcatProperties
    <3>2. QED
      BY <1>1, <2>1, <2>5, <2>6, <3>1
  <2>8. DOMAIN r = 1..(n - 1)
    BY <2>7, LenProperties
  <2>9. IsInjective(r)
    <3> SUFFICES ASSUME NEW i \in 1..(n - 1), NEW j \in 1..(n - 1), r[i] = r[j]
                 PROVE  i = j
      BY <2>8 DEF IsInjective
    <3>1. i \in 1..n /\ i + 1 \in 1..n /\ j \in 1..n /\ j + 1 \in 1..n
      BY <1>1
    <3>2. QED
      BY <1>1, <1>2, <2>1, <2>7, <3>1
  <2>10. ToSet(r) = ToSet(s) \ {e}
    <3>1. ASSUME NEW x \in ToSet(r)
          PROVE  x \in ToSet(s) /\ x # e
      <4>1. PICK i \in 1..(n - 1) : x = r[i]
        BY <2>8 DEF ToSet
      <4>2. i \in 1..n /\ i + 1 \in 1..n
        BY <1>1
      <4>3. PICK j \in 1..n : x = s[j] /\ j # m
        BY <1>1, <2>1, <2>7, <4>1, <4>2
      <4>4. QED
        BY <1>1, <1>2, <2>1, <4>3 DEF ToSet
    <3>2. ASSUME NEW x \in ToSet(s), x # e
          PROVE  x \in ToSet(r)
      <4>1. PICK i \in 1..n : x = s[i]
        BY <1>1 DEF ToSet
      <4>2. i # m
        BY <2>1, <3>2, <4>1
      <4>3. \E j \in 1..(n - 1) : r[j] = x
        <5>1. CASE i < m
          BY <1>1, <2>1, <2>7, <4>1, <5>1
        <5>2. CASE i > m
          <6>1. i - 1 \in 1..(n - 1) /\ ~(i - 1 <= m - 1) /\ (i - 1) + 1 = i
            BY <1>1, <2>1, <5>2
          <6>2. r[i - 1] = s[i]
            BY <2>7, <6>1
          <6>3. QED
            BY <4>1, <6>1, <6>2
        <5>3. QED
          BY <1>1, <2>1, <4>2, <5>1, <5>2
      <4>4. QED
        BY <2>8, <4>3 DEF ToSet
    <3>3. QED
      BY <3>1, <3>2
  <2>11. QED
    BY <2>7, <2>9, <2>10 DEF r
<1>5. QED
  BY <1>3, <1>4

LEMMA RemovingFromEmpty == \A e : RemoveFirst(<<>>, e) = <<>>
<1>1. 1..Len(<<>>) = {}
  BY EmptySeq
<1>2. QED
  BY <1>1 DEF RemoveFirst

\* An element comes on a list that does not have it.
LEMMA Appending ==
    ASSUME NEW S, NEW s \in Seq(S), IsInjective(s), NEW e \in S, e \notin ToSet(s)
    PROVE  /\ Append(s, e) \in Seq(S)
           /\ IsInjective(Append(s, e))
           /\ ToSet(Append(s, e)) = ToSet(s) \cup {e}
<1> DEFINE n == Len(s)
           r == Append(s, e)
<1>1. n \in Nat /\ DOMAIN s = 1..n
  BY LenProperties
<1>2. /\ r \in Seq(S) /\ Len(r) = n + 1
      /\ \A i \in 1..n : r[i] = s[i]
      /\ r[n + 1] = e
  BY AppendProperties
<1>3. DOMAIN r = 1..(n + 1)
  BY <1>2, LenProperties
<1> HIDE DEF r, n
<1>4. \A i \in 1..(n + 1) : i \in 1..n \/ i = n + 1
  BY <1>1
<1>5. \A i \in 1..n : s[i] # e /\ i \in 1..(n + 1)
  BY <1>1 DEF ToSet
<1>6. IsInjective(r)
  <2>1. \A i, j \in 1..n : s[i] = s[j] => i = j
    BY <1>1 DEF IsInjective
  <2>2. QED
    BY <1>2, <1>3, <1>4, <1>5, <2>1 DEF IsInjective
<1>7. ToSet(r) = ToSet(s) \cup {e}
  <2>1. n + 1 \in 1..(n + 1)
    BY <1>1
  <2>2. QED
    BY <1>1, <1>2, <1>3, <1>4, <1>5, <2>1 DEF ToSet
<1>8. QED
  BY <1>2, <1>6, <1>7 DEF r

USE BusAssumption

----------------------------------------------------------------------------
(* The inductive invariant. *)

ReleaseCalls == {"request", "once", "remove", "onceDone"}
Holding == {"remove", "onceDone"}

\* Calls that are for no listener in particular.
OpenCalls == {"deliver", "returned", "join", "work", "teardown", "clear", "sweep"}
FiberCalls == {"teardown", "clear", "sweep"}

\* Calls that only a listener that has been on the bus can be in.
UseCalls == {"fn", "retire", "unhook", "cleanup", "handle", "unlist"}

\* Calls that call another one and go on when it returns.
Callers == {"check", "store", "install", "unlist", "sweep", "work", "returned",
            "fn"}

\* Calls of which a listener is in one at a time.
Roles == {{"add"}, {"install"}, {"store"}, {"unlist"}, Holding}

\* Some goroutine is in a call at C for l.
Has(C, l) == \E t \in Threads : \E i \in 1..Len(stack[t]) :
                stack[t][i].at \in C /\ stack[t][i].l = l

\* The listener has been registered; and it has been put on the bus.
Born(l) == installed[l] \/ Has({"install"}, l)
Added(l) == Born(l) /\ ~Has({"add"}, l)

\* How the fields of a listener and of its entry go together.
EntryFacts(l) ==
    /\ installed[l] <=> disposer[l] # None
    /\ disposer[l] = "noop" => deferred[l]
    /\ cleanup[l] # None => installed[l]
    /\ deferred[l] => fiber # "open" /\ listed = <<>>
    /\ releaseOnce[l] # "new" \/ handleOnce[l] # "new" => installed[l]
    /\ releaseOnce[l] = "done" => l \notin ToSet(hooks)
    /\ handleOnce[l] = "done" => l \notin ToSet(listed)
    /\ l \in ToSet(listed) \/ deferred[l] => Born(l)
    /\ l \in ToSet(hooks) \/ fired[l] \/ released[l] => Added(l)
    /\ l \in OnceListeners =>
         runs[l] \in 0..1 /\ (runs[l] = 1 => fired[l])

EntriesFit == \A l \in Listeners : EntryFacts(l)

\* What the place of a call says about the listener it is for.
FrameFacts(f) ==
    /\ f.at \in OpenCalls <=> f.l = None
    /\ f.l # None => Born(f.l)
    /\ f.at = "add" => f.l \notin ToSet(hooks)
    /\ f.at \in {"add", "install"} => ~installed[f.l]
    /\ f.at = "store" => cleanup[f.l] = None
    /\ f.at \in UseCalls => Added(f.l)
    /\ f.at \in {"handle", "unlist", "once"} \cup Holding => installed[f.l]
    /\ f.at \in {"unhook", "cleanup"} => released[f.l]
    /\ f.at = "cleanup" => f.l \notin ToSet(hooks)
    /\ f.at = "unlist" => handleOnce[f.l] = "running"
    /\ f.at \in Holding => releaseOnce[f.l] = "running"
    /\ f.at = "onceDone" => f.l \notin ToSet(hooks)
    /\ f.at \in FiberCalls => fiber # "open"
    /\ f.at = "sweep" => listed = <<>>
    /\ f.todo # <<>> => f.at \in {"deliver", "returned", "sweep"}
    /\ f.at \in {"deliver", "returned"} => \A l \in ToSet(f.todo) : Added(l)
    /\ \A l \in ToSet(f.todo) : Born(l)

CallsFit ==
    \A t \in Threads : \A i \in 1..Len(stack[t]) : FrameFacts(stack[t][i])

OneInRole ==
    \A C \in Roles : \A t, u \in Threads :
    \A i \in 1..Len(stack[t]), j \in 1..Len(stack[u]) :
        /\ stack[t][i].at \in C /\ stack[u][j].at \in C
        /\ stack[t][i].l = stack[u][j].l
        => t = u /\ i = j

\* A call and the one it waits for: a registration goes through its places, a
\* handle and a teardown release, and a listener may call anything else.
CallsOn(f, g) ==
    /\ f.at \in Callers
    /\ f.at = "check" => g.at = "store" /\ g.l = f.l
    /\ f.at = "store" => g.at \in {"install", "once", "remove", "onceDone"} /\ g.l = f.l
    /\ f.at = "install" => g.at = "add" /\ g.l = f.l
    /\ f.at = "unlist" => g.at \in ReleaseCalls /\ g.l = f.l
    /\ f.at = "sweep" => g.at \in ReleaseCalls
    /\ g.at \in ReleaseCalls \cup {"install"} =>
         f.at \in {"store", "unlist", "sweep"}
    /\ g.at \in {"store"} => f.at = "check"
    /\ g.at \in {"add"} => f.at = "install"

Nesting ==
    \A t \in Threads : \A i, j \in 1..Len(stack[t]) :
        j = i + 1 => CallsOn(stack[t][i], stack[t][j])

\* What is known when the call above has returned.
OnTop(f) ==
    /\ f.at = "install" => Added(f.l)
    /\ f.at = "store" => installed[f.l]
    /\ f.at = "check" => cleanup[f.l] # None
    /\ f.at = "unlist" => releaseOnce[f.l] = "done"

TopsFit ==
    \A t \in Threads : \A i \in 1..Len(stack[t]) :
        i = Len(stack[t]) => OnTop(stack[t][i])

\* A release has been asked for by the handle, or by a teardown.
Asked ==
    \A t \in Threads : \A i \in 1..Len(stack[t]) :
        stack[t][i].at \in ReleaseCalls =>
            (fiber # "open" /\ listed = <<>>) \/ (i > 1 /\ stack[t][i - 1].at = "unlist")

\* A teardown is about to release the entry.
Swept(l) == \E t \in Threads : \E i \in 1..Len(stack[t]) :
               stack[t][i].at = "sweep" /\ l \in ToSet(stack[t][i].todo)

\* What is under way has a goroutine that will finish it.
Driven(l) ==
    /\ releaseOnce[l] = "running" => Has(Holding, l)
    /\ handleOnce[l] = "running" => Has({"unlist"}, l)
    /\ Born(l) /\ cleanup[l] = None => Has({"store"}, l) /\ Has({"check"}, l)
    /\ l \in ToSet(hooks) \/ Has({"add"}, l) =>
         \/ l \in ToSet(listed) \/ Swept(l) \/ (deferred[l] /\ ~installed[l])
         \/ Has({"request", "once", "remove"}, l)
    /\ l \in ToSet(listed) =>
         \/ l \in ToSet(hooks) \/ (released[l] /\ Has({"check"}, l))
         \/ Has({"add", "unlist", "cleanup", "handle"}, l)
    /\ l \in OnceListeners /\ fired[l] /\ l \in ToSet(hooks) =>
         Has({"fn", "retire", "unhook"}, l)
    /\ released[l] /\ l \in ToSet(hooks) => Has({"unhook"}, l)

AllDriven == \A l \in Listeners : Driven(l)

\* Goroutines of Parallel serve one that waits for them, and none serves itself
\* through others.
GroupsFit ==
    /\ \A job \in spawned : In(job[1], "join") /\ Added(job[2])
    /\ \A t, u \in Threads : serving[u] = t => In(t, "join")
    /\ \A S \in SUBSET Threads :
         S = {} \/ \E t \in S : \A u \in S : serving[u] # t

BusInv ==
    /\ TypeOK /\ EntriesFit /\ CallsFit /\ OneInRole /\ Nesting /\ TopsFit
    /\ Asked /\ AllDriven /\ GroupsFit

----------------------------------------------------------------------------
(* Sequences of listeners. *)

\* A listener comes first on the bus.
LEMMA Prepending ==
    ASSUME NEW S, NEW s \in Seq(S), IsInjective(s), NEW e \in S, e \notin ToSet(s)
    PROVE  /\ <<e>> \o s \in Seq(S)
           /\ IsInjective(<<e>> \o s)
           /\ ToSet(<<e>> \o s) = ToSet(s) \cup {e}
<1> DEFINE n == Len(s)
           r == <<e>> \o s
<1>1. n \in Nat /\ DOMAIN s = 1..n
  BY LenProperties
<1>2. /\ r \in Seq(S) /\ Len(r) = n + 1
      /\ r[1] = e
      /\ \A i \in 2..(n + 1) : r[i] = s[i - 1]
  <2>1. <<e>> \in Seq(S) /\ Len(<<e>>) = 1 /\ <<e>>[1] = e
    OBVIOUS
  <2>2. /\ r \in Seq(S) /\ Len(r) = 1 + n
        /\ \A i \in 1..(1 + n) : r[i] = IF i <= 1 THEN <<e>>[i] ELSE s[i - 1]
    BY <2>1, ConcatProperties
  <2> HIDE DEF r, n
  <2>3. QED
    BY <1>1, <2>1, <2>2
<1>3. DOMAIN r = 1..(n + 1)
  BY <1>2, LenProperties
<1> HIDE DEF r, n
<1>4. \A i \in 1..(n + 1) : i = 1 \/ (i \in 2..(n + 1) /\ i - 1 \in 1..n)
  BY <1>1
<1>5. \A i \in 1..n : s[i] # e /\ i + 1 \in 2..(n + 1) /\ r[i + 1] = s[i]
  <2> TAKE i \in 1..n
  <2>1. s[i] # e
    BY <1>1 DEF ToSet
  <2>2. i + 1 \in 2..(n + 1) /\ (i + 1) - 1 = i
    BY <1>1
  <2>3. QED
    BY <1>2, <2>1, <2>2
<1>6. IsInjective(r)
  <2>1. \A i, j \in 1..n : s[i] = s[j] => i = j
    BY <1>1 DEF IsInjective
  <2> SUFFICES ASSUME NEW i \in 1..(n + 1), NEW j \in 1..(n + 1), r[i] = r[j]
               PROVE  i = j
    BY <1>3 DEF IsInjective
  <2>2. i # 1 /\ j # 1 => i - 1 = j - 1
    BY <1>2, <1>4, <2>1
  <2>3. QED
    BY <1>2, <1>4, <1>5, <2>2
<1>7. ToSet(r) = ToSet(s) \cup {e}
  <2>1. \A x \in ToSet(r) : x \in ToSet(s) \/ x = e
    BY <1>1, <1>2, <1>3, <1>4 DEF ToSet
  <2>2. \A x \in ToSet(s) : x \in ToSet(r)
    <3> TAKE x \in ToSet(s)
    <3>1. PICK i \in 1..n : x = s[i]
      BY <1>1 DEF ToSet
    <3>2. i + 1 \in 1..(n + 1) /\ r[i + 1] = x
      BY <1>1, <1>5, <3>1
    <3>3. QED
      BY <1>3, <3>2 DEF ToSet
  <2>3. e \in ToSet(r)
    <3>1. 1 \in 1..(n + 1)
      BY <1>1
    <3>2. QED
      BY <1>2, <1>3, <3>1 DEF ToSet
  <2>4. QED
    BY <2>1, <2>2, <2>3
<1>8. QED
  BY <1>2, <1>6, <1>7 DEF r

LEMMA AppendedSet ==
    ASSUME NEW S, NEW s \in Seq(S), NEW e \in S
    PROVE  /\ Append(s, e) \in Seq(S)
           /\ \A x \in ToSet(Append(s, e)) : x = e \/ x \in ToSet(s)
<1> DEFINE n == Len(s)
           r == Append(s, e)
<1>1. n \in Nat /\ DOMAIN s = 1..n
  BY LenProperties
<1>2. /\ r \in Seq(S) /\ Len(r) = n + 1
      /\ \A i \in 1..n : r[i] = s[i]
      /\ r[n + 1] = e
  BY AppendProperties
<1>3. DOMAIN r = 1..(n + 1)
  BY <1>2, LenProperties
<1> HIDE DEF r, n
<1>4. \A i \in 1..(n + 1) : i \in 1..n \/ i = n + 1
  BY <1>1
<1>5. \A x \in ToSet(r) : x = e \/ x \in ToSet(s)
  BY <1>1, <1>2, <1>3, <1>4 DEF ToSet
<1>6. QED
  BY <1>2, <1>5 DEF r

LEMMA MembersTyping ==
    ASSUME NEW S, NEW s \in Seq(S)
    PROVE  \A x \in ToSet(s) : x \in S
  BY LenProperties, ElementOfSeq DEF ToSet

LEMMA Reversing ==
    ASSUME NEW S, NEW s \in Seq(S)
    PROVE  Reverse(s) \in Seq(S) /\ ToSet(Reverse(s)) = ToSet(s)
<1> DEFINE n == Len(s)
<1>1. n \in Nat /\ DOMAIN s = 1..n /\ \A i \in 1..n : s[i] \in S
  BY LenProperties, ElementOfSeq
<1>2. \A i \in 1..n : (n - i) + 1 \in 1..n /\ (n - ((n - i) + 1)) + 1 = i
  BY <1>1
<1>3. Reverse(s) = [i \in 1..n |-> s[(n - i) + 1]]
  BY DEF Reverse
<1> HIDE DEF n
<1>4. Reverse(s) \in Seq(S)
  BY <1>1, <1>2, <1>3, IsASeq
<1>5. DOMAIN Reverse(s) = 1..n
  BY <1>3
<1>6. ToSet(Reverse(s)) = ToSet(s)
  <2>1. \A i \in 1..n : Reverse(s)[(n - i) + 1] = s[i]
    BY <1>2, <1>3
  <2>2. \A x \in ToSet(s) : x \in ToSet(Reverse(s))
    BY <1>1, <1>2, <1>5, <2>1 DEF ToSet
  <2>3. \A x \in ToSet(Reverse(s)) : x \in ToSet(s)
    BY <1>1, <1>2, <1>3, <1>5 DEF ToSet
  <2>4. QED
    BY <2>2, <2>3
<1>7. QED
  BY <1>4, <1>6

LEMMA EmptyToSet == ToSet(<<>>) = {}
  BY DEF ToSet

\* The next listener of a snapshot, and the rest.
LEMMA HeadAndTail ==
    ASSUME NEW S, NEW s \in Seq(S), s # <<>>
    PROVE  /\ Head(s) \in S /\ Tail(s) \in Seq(S)
           /\ ToSet(s) = {Head(s)} \cup ToSet(Tail(s))
<1> DEFINE n == Len(s)
           r == Tail(s)
<1>1. n \in Nat \ {0} /\ DOMAIN s = 1..n
  BY LenProperties, EmptySeq
<1>2. /\ Head(s) = s[1] /\ Head(s) \in S
      /\ r \in Seq(S) /\ Len(r) = n - 1
      /\ \A i \in 1..(n - 1) : r[i] = s[i + 1]
  BY <1>1, HeadTailProperties, ElementOfSeq
<1>3. DOMAIN r = 1..(n - 1)
  BY <1>2, LenProperties
<1> HIDE DEF r, n
<1>4. \A i \in 1..n : i = 1 \/ (i - 1 \in 1..(n - 1) /\ (i - 1) + 1 = i)
  BY <1>1
<1>5. \A i \in 1..(n - 1) : i + 1 \in 1..n
  BY <1>1
<1>6. \A x \in ToSet(s) : x = Head(s) \/ x \in ToSet(r)
  <2> TAKE x \in ToSet(s)
  <2>1. PICK i \in 1..n : x = s[i]
    BY <1>1 DEF ToSet
  <2>2. i # 1 => r[i - 1] = x
    BY <1>2, <1>4, <2>1
  <2>3. QED
    BY <1>2, <1>3, <1>4, <2>1, <2>2 DEF ToSet
<1>7. \A x \in ToSet(r) : x \in ToSet(s)
  BY <1>1, <1>2, <1>3, <1>5 DEF ToSet
<1>8. Head(s) \in ToSet(s)
  BY <1>1, <1>2 DEF ToSet
<1>9. QED
  BY <1>2, <1>6, <1>7, <1>8 DEF r

\* A scoped dispatch picks listeners of the bus.
LEMMA ScopedPicks ==
    ASSUME NEW S, NEW s \in Seq(S)
    PROVE  Scoped(s) \in Seq(S) /\ ToSet(Scoped(s)) \subseteq ToSet(s)
<1> DEFINE n == Len(s)
           Kept(prev, x) == IF x \in InScope THEN Append(prev, x) ELSE prev
           Loop(f, k) == f = [i \in 0..k |-> IF i = 0 THEN <<>> ELSE
                               IF s[i] \in InScope THEN Append(f[i - 1], s[i])
                               ELSE f[i - 1]]
<1>1. n \in Nat /\ DOMAIN s = 1..n /\ \A i \in 1..n : s[i] \in S
  BY LenProperties, ElementOfSeq
<1>2. \A i \in 1..n : s[i] \in ToSet(s)
  BY <1>1 DEF ToSet
<1>3. \E f : Loop(f, n)
  <2> SUFFICES ASSUME ~\E f : Loop(f, n)
               PROVE  FALSE
    OBVIOUS
  <2> DEFINE bad == {k \in 0..n : ~\E f : Loop(f, k)}
  <2> HIDE DEF Loop, n
  <2>1. bad \subseteq Nat /\ bad # {}
    <3>1. n \in 0..n
      BY <1>1
    <3>2. n \in bad
      BY <3>1
    <3> HIDE DEF bad
    <3>3. bad \subseteq 0..n
      BY DEF bad
    <3>4. QED
      BY <1>1, <3>2, <3>3
  <2>2. PICK m \in bad : \A k \in bad : m <= k
    BY <2>1, Least
  <2>3. Loop([i \in 0..0 |-> <<>>], 0)
    BY DEF Loop
  <2>4. m \in Nat \ {0} /\ m - 1 \in 0..n /\ m - 1 \notin bad
    BY <1>1, <2>2, <2>3
  <2>5. PICK f : Loop(f, m - 1)
    BY <2>4
  <2> DEFINE g == [i \in 0..m |-> IF i = m THEN Kept(f[m - 1], s[m]) ELSE f[i]]
             h == [i \in 0..m |-> IF i = 0 THEN <<>> ELSE
                     IF s[i] \in InScope THEN Append(g[i - 1], s[i])
                     ELSE g[i - 1]]
  <2>6. \A i \in 0..(m - 1) :
          f[i] = IF i = 0 THEN <<>> ELSE
                 IF s[i] \in InScope THEN Append(f[i - 1], s[i]) ELSE f[i - 1]
    BY <2>5 DEF Loop
  <2>7. \A i \in 0..m : g[i] = h[i]
    <3> TAKE i \in 0..m
    <3>1. CASE i = m
      <4>1. m - 1 \in 0..m /\ m - 1 # m /\ m # 0
        BY <2>4
      <4>2. g[m - 1] = f[m - 1]
        BY <4>1
      <4>3. QED
        BY <3>1, <4>1, <4>2
    <3>2. CASE i # m
      <4>1. i \in 0..(m - 1) /\ (i # 0 => i - 1 \in 0..m /\ i - 1 # m)
        BY <2>4, <3>2
      <4>2. g[i] = f[i] /\ (i # 0 => g[i - 1] = f[i - 1])
        BY <3>2, <4>1
      <4> HIDE DEF g
      <4>3. h[i] = IF i = 0 THEN <<>> ELSE
                   IF s[i] \in InScope THEN Append(g[i - 1], s[i]) ELSE g[i - 1]
        OBVIOUS
      <4> HIDE DEF h
      <4>4. QED
        BY <2>6, <4>1, <4>2, <4>3
    <3>3. QED
      BY <3>1, <3>2
  <2>8. DOMAIN g = 0..m /\ DOMAIN h = 0..m /\ g = [i \in 0..m |-> g[i]]
        /\ h = [i \in 0..m |-> h[i]]
    OBVIOUS
  <2> HIDE DEF g
  <2>9. g = h
    <3> HIDE DEF h
    <3>1. QED
      BY <2>7, <2>8
  <2>10. Loop(g, m)
    BY <2>9 DEF Loop
  <2>11. QED
    BY <2>2, <2>10
<1>4. PICK f : Loop(f, n) /\ Scoped(s) = f[n]
  <2> DEFINE out == CHOOSE f : Loop(f, n)
  <2>1. Loop(out, n)
    BY <1>3
  <2>2. Scoped(s) = out[n]
    BY DEF Scoped
  <2> HIDE DEF out
  <2>3. QED
    BY <2>1, <2>2
<1>5. \A i \in 0..n :
        f[i] = IF i = 0 THEN <<>> ELSE
               IF s[i] \in InScope THEN Append(f[i - 1], s[i]) ELSE f[i - 1]
  BY <1>4
<1> HIDE DEF n, Loop
<1>6. \A i \in 0..n : f[i] \in Seq(S) /\ \A x \in ToSet(f[i]) : x \in ToSet(s)
  <2> SUFFICES ASSUME NEW j \in 0..n,
                      ~(f[j] \in Seq(S) /\ \A x \in ToSet(f[j]) : x \in ToSet(s))
               PROVE  FALSE
    OBVIOUS
  <2> DEFINE bad == {k \in 0..n :
                ~(f[k] \in Seq(S) /\ \A x \in ToSet(f[k]) : x \in ToSet(s))}
  <2>1. bad \subseteq Nat /\ bad # {}
    <3>1. j \in bad
      OBVIOUS
    <3> HIDE DEF bad
    <3>2. bad \subseteq 0..n
      BY DEF bad
    <3>3. QED
      BY <1>1, <3>1, <3>2
  <2>2. PICK m \in bad : \A k \in bad : m <= k
    BY <2>1, Least
  <2>3. m # 0
    BY <1>5, <2>2, EmptyToSet, EmptySeq
  <2>4. m \in 1..n /\ m - 1 \in 0..n /\ m - 1 \notin bad
    BY <1>1, <2>2, <2>3
  <2>5. f[m - 1] \in Seq(S) /\ \A x \in ToSet(f[m - 1]) : x \in ToSet(s)
    BY <2>4
  <2>6. s[m] \in S /\ s[m] \in ToSet(s)
    BY <1>1, <1>2, <2>4
  <2>7. f[m] = IF s[m] \in InScope THEN Append(f[m - 1], s[m]) ELSE f[m - 1]
    BY <1>5, <2>2, <2>3
  <2>8. f[m] \in Seq(S) /\ \A x \in ToSet(f[m]) : x \in ToSet(s)
    BY <2>5, <2>6, <2>7, AppendedSet
  <2>9. QED
    BY <2>2, <2>8
<1>7. n \in 0..n
  BY <1>1
<1>8. QED
  BY <1>4, <1>6, <1>7

\* What a dispatch runs is on the bus.
LEMMA SelectedAreHooked ==
    ASSUME hooks \in Seq(Listeners), NEW c \in Selected
    PROVE  /\ c \in Seq(Listeners) /\ \A l \in ToSet(c) : l \in ToSet(hooks)
           /\ \A l \in ToSet(c) : l \in Listeners
<1>1. c \in Seq(Listeners) /\ \A l \in ToSet(c) : l \in ToSet(hooks)
  BY ScopedPicks DEF Selected
<1>2. \A l \in ToSet(c) : l \in Listeners
  BY <1>1, MembersTyping
<1>3. QED
  BY <1>1, <1>2

----------------------------------------------------------------------------
(* Stacks. *)

LEMMA Typing ==
    ASSUME TypeOK, NEW t \in Threads
    PROVE  /\ stack[t] \in Seq(Frames)
           /\ Len(stack[t]) \in Nat
           /\ stack[t] = <<>> <=> Len(stack[t]) = 0
           /\ \A i \in 1..Len(stack[t]) : stack[t][i] \in Frames
<1>1. stack[t] \in Seq(Frames)
  BY DEF TypeOK
<1>2. QED
  BY <1>1, ElementOfSeq, LenProperties, EmptySeq

LEMMA TopTyping ==
    ASSUME TypeOK, NEW t \in Threads, stack[t] # <<>>
    PROVE  /\ Len(stack[t]) \in Nat \ {0}
           /\ Len(stack[t]) \in 1..Len(stack[t])
           /\ Top(t) = stack[t][Len(stack[t])]
           /\ Top(t) \in Frames
<1>1. stack[t] \in Seq(Frames)
  BY DEF TypeOK
<1>2. QED
  BY <1>1, TopFrame DEF Top

\* The goroutine t keeps the lowest k of its calls, all but the top one at
\* least, and goes on with the calls c above them.
Changes(t, k, c) ==
    /\ stack' \in [Threads -> Seq(Frames)]
    /\ \A u \in Threads \ {t} : stack'[u] = stack[u]
    /\ k \in Nat /\ k \in {Len(stack[t]) - 1, Len(stack[t])}
    /\ Len(c) \in Nat /\ \A i \in 1..Len(c) : c[i] \in Frames
    /\ Len(stack'[t]) = k + Len(c)
    /\ \A i \in 1..k : stack'[t][i] = stack[t][i]
    /\ \A i \in 1..Len(c) : stack'[t][k + i] = c[i]

\* The call that ends is one at C for l, and so is one that begins.
Drops(t, k, C, l) == k < Len(stack[t]) /\ Top(t).at \in C /\ Top(t).l = l
Brings(c, C, l) == \E i \in 1..Len(c) : c[i].at \in C /\ c[i].l = l

LEMMA Continuing ==
    ASSUME TypeOK, NEW t \in Threads, stack[t] # <<>>, NEW c \in Seq(Frames),
           Continue(t, c)
    PROVE  Changes(t, Len(stack[t]) - 1, c)
<1> DEFINE n == Len(stack[t])
           new == Front(stack[t]) \o c
<1>1. /\ stack \in [Threads -> Seq(Frames)] /\ stack[t] \in Seq(Frames)
      /\ n \in Nat \ {0}
  BY TopTyping DEF TypeOK
<1>2. stack' = [stack EXCEPT ![t] = new]
  BY DEF Continue
<1>3. /\ new \in Seq(Frames)
      /\ Len(new) = n - 1 + Len(c)
      /\ \A i \in 1..(n - 1) : new[i] = stack[t][i]
      /\ \A i \in 1..Len(c) : new[n - 1 + i] = c[i]
  <2>1. PICK s \in Seq(Frames) : s = stack[t]
    BY <1>1
  <2>2. s # <<>>
    BY <2>1
  <2>3. /\ Front(s) \o c \in Seq(Frames)
        /\ Len(Front(s) \o c) = Len(s) - 1 + Len(c)
        /\ \A i \in 1..(Len(s) - 1) : (Front(s) \o c)[i] = s[i]
        /\ \A i \in 1..Len(c) : (Front(s) \o c)[Len(s) - 1 + i] = c[i]
    BY <2>2, ReplaceFrames
  <2>4. QED
    BY <2>1, <2>3
<1>4. Len(c) \in Nat /\ \A i \in 1..Len(c) : c[i] \in Frames
  BY LenProperties, ElementOfSeq
<1> HIDE DEF new, n
<1>5. /\ stack' \in [Threads -> Seq(Frames)] /\ stack'[t] = new
      /\ \A u \in Threads \ {t} : stack'[u] = stack[u]
  BY <1>1, <1>2, <1>3
<1>6. n - 1 \in Nat /\ n = Len(stack[t])
  BY <1>1 DEF n
<1>7. QED
  BY <1>3, <1>4, <1>5, <1>6 DEF Changes

LEMMA Calling ==
    ASSUME TypeOK, NEW t \in Threads, NEW c \in Seq(Frames), Call(t, c)
    PROVE  Changes(t, Len(stack[t]), c)
<1> DEFINE n == Len(stack[t])
           new == stack[t] \o c
<1>1. stack \in [Threads -> Seq(Frames)] /\ n \in Nat /\ stack[t] \in Seq(Frames)
  BY Typing DEF TypeOK
<1>2. stack' = [stack EXCEPT ![t] = new]
  BY DEF Call
<1>3. Len(c) \in Nat /\ \A i \in 1..Len(c) : c[i] \in Frames
  BY LenProperties, ElementOfSeq
<1>4. /\ new \in Seq(Frames)
      /\ Len(new) = n + Len(c)
      /\ \A i \in 1..(n + Len(c)) : new[i] =
            IF i <= n THEN stack[t][i] ELSE c[i - n]
  BY <1>1, ConcatProperties
<1> HIDE DEF new
<1>5. \A i \in 1..n : i \in 1..(n + Len(c)) /\ i <= n
  BY <1>1, <1>3
<1>6. \A i \in 1..Len(c) : /\ n + i \in 1..(n + Len(c)) /\ ~(n + i <= n)
                           /\ (n + i) - n = i
  BY <1>1, <1>3
<1>7. /\ stack' \in [Threads -> Seq(Frames)] /\ stack'[t] = new
      /\ \A u \in Threads \ {t} : stack'[u] = stack[u]
  BY <1>1, <1>2, <1>4
<1> HIDE DEF n
<1>8. n = Len(stack[t])
  BY DEF n
<1>9. /\ \A i \in 1..n : stack'[t][i] = stack[t][i]
      /\ \A i \in 1..Len(c) : stack'[t][n + i] = c[i]
  BY <1>4, <1>5, <1>6, <1>7
<1>10. QED
  BY <1>1, <1>3, <1>4, <1>7, <1>8, <1>9 DEF Changes

LEMMA Single == \A f : \E c : c = <<f>> /\ Len(c) = 1 /\ c[1] = f
<1> TAKE f
<1>1. Len(<<f>>) = 1 /\ <<f>>[1] = f
  OBVIOUS
<1>2. QED
  BY <1>1, Zenon

LEMMA Pair ==
    ASSUME NEW f, NEW g
    PROVE  \E c : c = <<f, g>> /\ Len(c) = 2 /\ c[1] = f /\ c[2] = g
<1>1. Len(<<f, g>>) = 2 /\ <<f, g>>[1] = f /\ <<f, g>>[2] = g
  OBVIOUS
<1>2. QED
  BY <1>1, Zenon

LEMMA FrameTyping ==
    ASSUME NEW at \in Calls, NEW l \in Listeners \cup {None}
    PROVE  /\ Frame(at, l) \in Frames
           /\ Frame(at, l).at = at /\ Frame(at, l).l = l
           /\ Frame(at, l).todo = <<>>
<1>1. <<>> \in Seq(Listeners)
  BY EmptySeq
<1>2. QED
  BY <1>1 DEF Frame, Frames

LEMMA Going ==
    ASSUME TypeOK, NEW t \in Threads, stack[t] # <<>>, NEW at \in Calls,
           Goto(t, at)
    PROVE  \E f \in Frames :
             /\ Changes(t, Len(stack[t]) - 1, <<f>>)
             /\ f.at = at /\ f.l = Top(t).l /\ f.todo = Top(t).todo
<1> DEFINE f == [Top(t) EXCEPT !.at = at]
<1>1. \A g \in Frames :
        /\ [g EXCEPT !.at = at] \in Frames
        /\ [g EXCEPT !.at = at].at = at
        /\ [g EXCEPT !.at = at].l = g.l
        /\ [g EXCEPT !.at = at].todo = g.todo
  BY DEF Frames
<1>2. f \in Frames /\ f.at = at /\ f.l = Top(t).l /\ f.todo = Top(t).todo
  BY <1>1, TopTyping
<1>3. Continue(t, <<f>>)
  BY DEF Goto
<1> HIDE DEF f
<1>4. <<f>> \in Seq(Frames)
  BY <1>2
<1>5. QED
  BY <1>2, <1>3, <1>4, Continuing

LEMMA Returning ==
    ASSUME TypeOK, NEW t \in Threads, stack[t] # <<>>, Return(t)
    PROVE  Changes(t, Len(stack[t]) - 1, <<>>)
<1>1. <<>> \in Seq(Frames)
  BY EmptySeq
<1>2. QED
  BY <1>1, Continuing DEF Return

----------------------------------------------------------------------------
(* What a step does to the calls under way. *)

\* A call on a stack after the step was there before, or has just begun.
LEMMA OldOrNew ==
    ASSUME TypeOK, NEW t \in Threads, NEW k, NEW c, Changes(t, k, c),
           NEW u \in Threads, NEW i \in 1..Len(stack'[u])
    PROVE  \/ /\ i \in 1..Len(stack[u]) /\ stack'[u][i] = stack[u][i]
              /\ u = t => i \in 1..k
           \/ /\ u = t /\ i - k \in 1..Len(c)
              /\ stack'[u][i] = c[i - k] /\ i = k + (i - k)
<1>1. CASE u # t
  BY <1>1 DEF Changes
<1>2. CASE u = t
  <2>1. /\ Len(stack[t]) \in Nat /\ k \in Nat /\ k <= Len(stack[t])
        /\ Len(c) \in Nat /\ Len(stack'[t]) = k + Len(c)
    BY Typing DEF Changes
  <2>2. CASE i <= k
    <3>1. i \in 1..k /\ i \in 1..Len(stack[t])
      BY <1>2, <2>1, <2>2
    <3>2. QED
      BY <1>2, <3>1 DEF Changes
  <2>3. CASE i > k
    <3>1. i - k \in 1..Len(c) /\ i = k + (i - k)
      BY <1>2, <2>1, <2>3
    <3>2. QED
      BY <1>2, <3>1 DEF Changes
  <2>4. QED
    BY <1>2, <2>1, <2>2, <2>3
<1>3. QED
  BY <1>1, <1>2

\* A call goes on, or it is the one on top that ends.
LEMMA KeptOrDropped ==
    ASSUME TypeOK, NEW t \in Threads, NEW k, NEW c, Changes(t, k, c),
           NEW u \in Threads, NEW i \in 1..Len(stack[u])
    PROVE  \/ i \in 1..Len(stack'[u]) /\ stack'[u][i] = stack[u][i]
           \/ /\ u = t /\ k < Len(stack[t]) /\ i = Len(stack[t])
              /\ stack[t] # <<>> /\ stack[u][i] = Top(t)
<1>1. CASE u # t
  BY <1>1 DEF Changes
<1>2. CASE u = t /\ i \in 1..k
  <2>1. i \in 1..Len(stack'[t]) /\ stack'[t][i] = stack[t][i]
    BY <1>2 DEF Changes
  <2>2. QED
    BY <1>2, <2>1
<1>3. CASE u = t /\ i \notin 1..k
  <2>1. /\ Len(stack[t]) \in Nat /\ k \in Nat
        /\ k \in {Len(stack[t]) - 1, Len(stack[t])}
    BY Typing DEF Changes
  <2>2. i = Len(stack[t]) /\ k < Len(stack[t]) /\ Len(stack[t]) # 0
    BY <1>3, <2>1
  <2>3. stack[t] # <<>>
    BY <2>2, Typing
  <2>4. QED
    BY <1>3, <2>2, <2>3, TopTyping
<1>4. QED
  BY <1>1, <1>2, <1>3

LEMMA HasSteps ==
    ASSUME TypeOK, NEW t \in Threads, NEW k, NEW c, Changes(t, k, c)
    PROVE  \A C, l :
             /\ Has(C, l) => Has(C, l)' \/ Drops(t, k, C, l)
             /\ Has(C, l)' => Has(C, l) \/ Brings(c, C, l)
             /\ Brings(c, C, l) => Has(C, l)'
<1> TAKE C, l
<1>1. ASSUME Has(C, l)
      PROVE  Has(C, l)' \/ Drops(t, k, C, l)
  <2>1. PICK u \in Threads : \E i \in 1..Len(stack[u]) :
               stack[u][i].at \in C /\ stack[u][i].l = l
    BY <1>1 DEF Has
  <2>2. PICK i \in 1..Len(stack[u]) : stack[u][i].at \in C /\ stack[u][i].l = l
    BY <2>1
  <2>3. CASE i \in 1..Len(stack'[u]) /\ stack'[u][i] = stack[u][i]
    BY <2>2, <2>3 DEF Has
  <2>4. CASE k < Len(stack[t]) /\ stack[u][i] = Top(t)
    BY <2>2, <2>4 DEF Drops
  <2>5. QED
    BY <2>3, <2>4, KeptOrDropped
<1>2. ASSUME Has(C, l)'
      PROVE  Has(C, l) \/ Brings(c, C, l)
  <2>1. PICK u \in Threads : \E i \in 1..Len(stack'[u]) :
               stack'[u][i].at \in C /\ stack'[u][i].l = l
    BY <1>2 DEF Has
  <2>2. PICK i \in 1..Len(stack'[u]) :
               stack'[u][i].at \in C /\ stack'[u][i].l = l
    BY <2>1
  <2>3. CASE i \in 1..Len(stack[u]) /\ stack'[u][i] = stack[u][i]
    BY <2>2, <2>3 DEF Has
  <2>4. CASE i - k \in 1..Len(c) /\ stack'[u][i] = c[i - k]
    BY <2>2, <2>4 DEF Brings
  <2>5. QED
    BY <2>3, <2>4, OldOrNew
<1>3. ASSUME Brings(c, C, l)
      PROVE  Has(C, l)'
  <2>1. PICK i \in 1..Len(c) : c[i].at \in C /\ c[i].l = l
    BY <1>3 DEF Brings
  <2>2. k + i \in 1..Len(stack'[t]) /\ stack'[t][k + i] = c[i]
    BY DEF Changes
  <2>3. QED
    BY <2>1, <2>2 DEF Has
<1>4. QED
  BY <1>1, <1>2, <1>3

\* The only call at C for l has ended.
LEMMA HasGone ==
    ASSUME TypeOK, OneInRole, NEW t \in Threads, NEW k, NEW c, Changes(t, k, c),
           NEW C \in Roles, NEW l, Drops(t, k, C, l), ~Brings(c, C, l)
    PROVE  ~Has(C, l)'
<1> SUFFICES ASSUME Has(C, l)'
             PROVE  FALSE
  OBVIOUS
<1>1. PICK u \in Threads : \E i \in 1..Len(stack'[u]) :
             stack'[u][i].at \in C /\ stack'[u][i].l = l
  BY DEF Has
<1>2. PICK i \in 1..Len(stack'[u]) :
             stack'[u][i].at \in C /\ stack'[u][i].l = l
  BY <1>1
<1>3. i \in 1..Len(stack[u]) /\ stack'[u][i] = stack[u][i] /\ (u = t => i \in 1..k)
  BY <1>2, OldOrNew DEF Brings
<1>4. /\ Len(stack[t]) \in Nat /\ k \in Nat /\ k < Len(stack[t])
      /\ stack[t] # <<>>
  BY Typing DEF Changes, Drops
<1>5. /\ Len(stack[t]) \in 1..Len(stack[t])
      /\ stack[t][Len(stack[t])].at \in C
      /\ stack[t][Len(stack[t])].l = l
  BY <1>4, TopTyping DEF Drops
<1>6. u = t /\ i = Len(stack[t])
  BY <1>2, <1>3, <1>5 DEF OneInRole
<1>7. QED
  BY <1>3, <1>4, <1>6

----------------------------------------------------------------------------
(* What a step keeps.  A step is for one listener e, or for none.          *)

\* What nothing takes back from a listener.
Grows(l) ==
    /\ Born(l) => Born(l)'
    /\ Added(l) => Added(l)'
    /\ installed[l] => installed'[l]
    /\ cleanup[l] # None => cleanup'[l] # None
    /\ releaseOnce[l] = "done" => releaseOnce'[l] = "done"

\* The fields of a listener and of its entry stay as they are, but a teardown
\* may take the entry out of the tree.
SameEntry(l) ==
    /\ fired'[l] = fired[l] /\ released'[l] = released[l]
    /\ cleanup'[l] = cleanup[l]
    /\ installed'[l] = installed[l] /\ deferred'[l] = deferred[l]
    /\ disposer'[l] = disposer[l]
    /\ releaseOnce'[l] = releaseOnce[l] /\ handleOnce'[l] = handleOnce[l]
    /\ runs'[l] = runs[l]
    /\ l \in ToSet(hooks') <=> l \in ToSet(hooks)
    /\ l \in ToSet(listed') => l \in ToSet(listed)

Others(e) ==
    /\ \A l \in Listeners : l # e => SameEntry(l)
    /\ fiber # "open" => fiber' # "open"
    /\ fiber # "open" /\ listed = <<>> => listed' = <<>>

\* The calls that end or begin are for e, or for no listener.
IsFor(t, k, c, e) ==
    /\ k < Len(stack[t]) => Top(t).l \in {e, None}
    /\ \A i \in 1..Len(c) : c[i].l \in {e, None}

LEMMA HasOthers ==
    ASSUME TypeOK, NEW t \in Threads, NEW k, NEW c, Changes(t, k, c),
           NEW e, IsFor(t, k, c, e)
    PROVE  \A l \in Listeners : l # e => \A C : Has(C, l)' <=> Has(C, l)
<1> SUFFICES ASSUME NEW l \in Listeners, l # e, NEW C
             PROVE  Has(C, l)' <=> Has(C, l)
  OBVIOUS
<1>1. l # None
  OBVIOUS
<1>2. ~Drops(t, k, C, l)
  BY <1>1 DEF Drops, IsFor
<1>3. ~Brings(c, C, l)
  BY <1>1 DEF Brings, IsFor
<1>4. QED
  BY <1>2, <1>3, HasSteps

LEMMA OthersGrow ==
    ASSUME TypeOK, NEW t \in Threads, NEW k, NEW c, Changes(t, k, c),
           NEW e, IsFor(t, k, c, e), Others(e)
    PROVE  \A l \in Listeners : l # e => Grows(l) /\ (Born(l)' => Born(l))
<1> SUFFICES ASSUME NEW l \in Listeners, l # e
             PROVE  Grows(l) /\ (Born(l)' => Born(l))
  OBVIOUS
<1>1. SameEntry(l)
  BY DEF Others
<1>2. /\ Has({"install"}, l)' <=> Has({"install"}, l)
      /\ Has({"add"}, l)' <=> Has({"add"}, l)
  BY HasOthers
<1>3. QED
  BY <1>1, <1>2 DEF Grows, SameEntry, Born, Added

LEMMA EntryStays ==
    ASSUME NEW l, EntryFacts(l), SameEntry(l), Grows(l),
           NEW e, Others(e)
    PROVE  EntryFacts(l)'
<1>1. /\ installed'[l] = installed[l] /\ disposer'[l] = disposer[l]
      /\ deferred'[l] = deferred[l] /\ cleanup'[l] = cleanup[l]
      /\ releaseOnce'[l] = releaseOnce[l] /\ handleOnce'[l] = handleOnce[l]
      /\ fired'[l] = fired[l] /\ released'[l] = released[l]
      /\ runs'[l] = runs[l]
      /\ l \in ToSet(hooks') <=> l \in ToSet(hooks)
      /\ l \in ToSet(listed') => l \in ToSet(listed)
      /\ Born(l) => Born(l)'
      /\ Added(l) => Added(l)'
      /\ fiber # "open" /\ listed = <<>> => fiber' # "open" /\ listed' = <<>>
  BY DEF SameEntry, Grows, Others
<1>2. QED
  BY <1>1 DEF EntryFacts

\* What a call knows of another listener, or of none, it goes on knowing.
LEMMA FrameStays ==
    ASSUME NEW e, Others(e), \A l \in Listeners : Grows(l),
           NEW g \in Frames, FrameFacts(g), g.l # e \/ g.l = None
    PROVE  FrameFacts(g)'
<1>1. \A l \in ToSet(g.todo) : l \in Listeners
  BY MembersTyping DEF Frames
<1>2. /\ \A l \in ToSet(g.todo) : Born(l) => Born(l)'
      /\ \A l \in ToSet(g.todo) : Added(l) => Added(l)'
  BY <1>1 DEF Grows
<1>3. CASE g.l = None
  <2>1. g.at \in OpenCalls
    BY <1>3 DEF FrameFacts
  <2>2. /\ g.at \notin UseCalls \cup Holding
        /\ g.at \notin {"add", "install", "store", "handle", "unlist", "once",
                        "unhook", "cleanup", "onceDone"}
    BY <2>1 DEF OpenCalls, UseCalls, Holding
  <2>3. /\ g.at \in FiberCalls => fiber' # "open"
        /\ g.at = "sweep" => listed' = <<>>
    BY DEF FrameFacts, Others, FiberCalls
  <2>4. OpenCalls' = OpenCalls /\ UseCalls' = UseCalls /\ Holding' = Holding
        /\ FiberCalls' = FiberCalls
    BY DEF OpenCalls, UseCalls, Holding, FiberCalls
  <2> HIDE DEF OpenCalls, UseCalls, Holding, FiberCalls
  <2>5. QED
    BY <1>2, <1>3, <2>1, <2>2, <2>3, <2>4 DEF FrameFacts
<1>4. CASE g.l # None
  <2>1. g.l \in Listeners /\ g.l # e
    BY <1>4 DEF Frames
  <2>2. SameEntry(g.l) /\ Grows(g.l)
    BY <2>1 DEF Others
  <2>3. g.at \notin OpenCalls
    BY <1>4 DEF FrameFacts
  <2>4. g.at \notin FiberCalls /\ g.at # "sweep"
    BY <2>3 DEF OpenCalls, FiberCalls
  <2>5. OpenCalls' = OpenCalls /\ UseCalls' = UseCalls /\ Holding' = Holding
        /\ FiberCalls' = FiberCalls
    BY DEF OpenCalls, UseCalls, Holding, FiberCalls
  <2> HIDE DEF OpenCalls, UseCalls, Holding, FiberCalls
  <2>6. QED
    BY <1>2, <1>4, <2>2, <2>3, <2>4, <2>5 DEF FrameFacts, SameEntry, Grows
<1>5. QED
  BY <1>3, <1>4

LEMMA DrivenStays ==
    ASSUME NEW l, Driven(l), SameEntry(l), Born(l)' => Born(l),
           \A C : Has(C, l)' <=> Has(C, l),
           l \in ToSet(listed) \/ Swept(l) =>
               \/ l \in ToSet(listed') \/ Swept(l)'
               \/ Has({"request", "once", "remove"}, l)'
    PROVE  Driven(l)'
<1>1. /\ Has(Holding, l)' <=> Has(Holding, l)
      /\ Has({"unlist"}, l)' <=> Has({"unlist"}, l)
      /\ Has({"store"}, l)' <=> Has({"store"}, l)
      /\ Has({"check"}, l)' <=> Has({"check"}, l)
      /\ Has({"add"}, l)' <=> Has({"add"}, l)
      /\ Has({"request", "once", "remove"}, l)' <=>
           Has({"request", "once", "remove"}, l)
      /\ Has({"add", "unlist", "cleanup", "handle"}, l)' <=>
           Has({"add", "unlist", "cleanup", "handle"}, l)
      /\ Has({"fn", "retire", "unhook"}, l)' <=> Has({"fn", "retire", "unhook"}, l)
      /\ Has({"unhook"}, l)' <=> Has({"unhook"}, l)
  OBVIOUS
<1>2. Holding' = Holding
  BY DEF Holding
<1> HIDE DEF Holding
<1>3. QED
  BY <1>1, <1>2 DEF Driven, SameEntry

\* The call on top, if it ends, has no role that g has.
Apart(t, k, g) ==
    k < Len(stack[t]) =>
        \A C \in Roles : ~(g.at \in C /\ Top(t).at \in C /\ g.l = Top(t).l)

LEMMA CallsStay ==
    ASSUME TypeOK, CallsFit, OneInRole,
           NEW t \in Threads, NEW k, NEW c, Changes(t, k, c),
           \A i \in 1..Len(c) : FrameFacts(c[i])',
           \A g \in Frames : Has({g.at}, g.l) /\ FrameFacts(g) /\ Apart(t, k, g)
                               => FrameFacts(g)'
    PROVE  CallsFit'
<1>1. ASSUME NEW u \in Threads, NEW i \in 1..Len(stack'[u])
      PROVE  FrameFacts(stack[u][i])'
  <2>1. CASE u = t /\ i - k \in 1..Len(c) /\ stack'[u][i] = c[i - k]
    <3>1. PICK j \in 1..Len(c) : stack'[u][i] = c[j]
      BY <2>1
    <3>2. PICK g : g = c[j] /\ FrameFacts(g)'
      <4>1. FrameFacts(c[j])'
        OBVIOUS
      <4>2. QED
        BY <4>1
    <3>3. stack'[u][i] = g
      BY <3>1, <3>2
    <3>4. QED
      BY <3>2, <3>3
  <2>2. CASE i \in 1..Len(stack[u]) /\ stack'[u][i] = stack[u][i]
             /\ (u = t => i \in 1..k)
    <3>1. PICK g \in Frames : g = stack[u][i]
      BY <2>2, Typing
    <3>2. FrameFacts(g) /\ Has({g.at}, g.l)
      BY <2>2, <3>1 DEF CallsFit, Has
    <3>3. Apart(t, k, g)
      <4> SUFFICES ASSUME k < Len(stack[t]), NEW C \in Roles,
                          g.at \in C, Top(t).at \in C, g.l = Top(t).l
                   PROVE  FALSE
        BY DEF Apart
      <4>1. Len(stack[t]) \in Nat /\ k \in Nat /\ Len(stack[t]) # 0
        BY Typing DEF Changes
      <4>2. stack[t] # <<>>
        BY <4>1, Typing
      <4>3. Len(stack[t]) \in 1..Len(stack[t]) /\ Top(t) = stack[t][Len(stack[t])]
        BY <4>2, TopTyping
      <4>4. u = t /\ i = Len(stack[t])
        BY <2>2, <3>1, <4>3 DEF OneInRole
      <4>5. QED
        BY <2>2, <4>1, <4>4
    <3>4. FrameFacts(g)'
      BY <3>2, <3>3
    <3>5. stack'[u][i] = g
      BY <2>2, <3>1
    <3>6. QED
      BY <3>4, <3>5
  <2>3. QED
    BY <2>1, <2>2, OldOrNew
<1>2. QED
  BY <1>1 DEF CallsFit

\* The calls that begin have a role the call that ends had, or nobody has.
TakesRoles(t, k, c) ==
    \A C \in Roles :
        /\ \A i \in 1..Len(c) : c[i].at \in C =>
              Drops(t, k, C, c[i].l) \/ ~Has(C, c[i].l)
        /\ \A i, j \in 1..Len(c) :
              c[i].at \in C /\ c[j].at \in C /\ c[i].l = c[j].l => i = j

LEMMA NewRole ==
    ASSUME TypeOK, OneInRole, NEW t \in Threads, NEW k, NEW c, Changes(t, k, c),
           TakesRoles(t, k, c), NEW C \in Roles, NEW n \in 1..Len(c),
           NEW v \in Threads, NEW j \in 1..Len(stack[v]), v = t => j \in 1..k,
           c[n].at \in C, stack[v][j].at \in C, c[n].l = stack[v][j].l
    PROVE  FALSE
<1>1. Has(C, c[n].l)
  BY DEF Has
<1>2. Drops(t, k, C, c[n].l)
  BY <1>1 DEF TakesRoles
<1>3. /\ Len(stack[t]) \in Nat /\ k \in Nat /\ k < Len(stack[t])
      /\ Len(stack[t]) # 0
  BY <1>2, Typing DEF Changes, Drops
<1>4. stack[t] # <<>>
  BY <1>3, Typing
<1>5. Len(stack[t]) \in 1..Len(stack[t]) /\ Top(t) = stack[t][Len(stack[t])]
  BY <1>4, TopTyping
<1>6. v = t /\ j = Len(stack[t])
  BY <1>2, <1>5 DEF OneInRole, Drops
<1>7. QED
  BY <1>3, <1>6

LEMMA RolesStay ==
    ASSUME TypeOK, OneInRole, NEW t \in Threads, NEW k, NEW c, Changes(t, k, c),
           TakesRoles(t, k, c)
    PROVE  OneInRole'
<1> SUFFICES ASSUME NEW C \in Roles, NEW u \in Threads, NEW v \in Threads,
                    NEW i \in 1..Len(stack'[u]), NEW j \in 1..Len(stack'[v]),
                    stack'[u][i].at \in C, stack'[v][j].at \in C,
                    stack'[u][i].l = stack'[v][j].l
             PROVE  u = v /\ i = j
  BY DEF OneInRole, Roles, Holding
<1> DEFINE Old(w, m) == /\ m \in 1..Len(stack[w]) /\ stack'[w][m] = stack[w][m]
                        /\ w = t => m \in 1..k
           New(w, m) == /\ w = t /\ m - k \in 1..Len(c)
                        /\ stack'[w][m] = c[m - k] /\ m = k + (m - k)
<1>1. (Old(u, i) \/ New(u, i)) /\ (Old(v, j) \/ New(v, j))
  BY OldOrNew
<1>2. CASE Old(u, i) /\ Old(v, j)
  BY <1>2 DEF OneInRole
<1>3. CASE New(u, i) /\ New(v, j)
  <2>1. i - k = j - k
    BY <1>3 DEF TakesRoles
  <2>2. QED
    BY <1>3, <2>1
<1>4. CASE New(u, i) /\ Old(v, j)
  BY <1>4, NewRole
<1>5. CASE Old(u, i) /\ New(v, j)
  BY <1>5, NewRole
<1>6. QED
  BY <1>1, <1>2, <1>3, <1>4, <1>5

\* The calls that begin nest in each other and in what is left.
Nests(t, k, c) ==
    \A i \in 1..Len(c) :
        /\ i > 1 => CallsOn(c[i - 1], c[i])
        /\ i = 1 /\ k < Len(stack[t]) =>
             \A f \in Frames : CallsOn(f, Top(t)) => CallsOn(f, c[1])
        /\ i = 1 /\ k = Len(stack[t]) /\ stack[t] # <<>> => CallsOn(Top(t), c[1])

\* The call below the top one, and the top one.
LEMMA Below ==
    ASSUME TypeOK, Nesting, NEW t \in Threads, NEW k, NEW c, Changes(t, k, c),
           k # 0
    PROVE  /\ k \in 1..Len(stack[t]) /\ stack[t] # <<>>
           /\ stack[t][k] \in Frames
           /\ k < Len(stack[t]) => CallsOn(stack[t][k], Top(t))
           /\ k = Len(stack[t]) => stack[t][k] = Top(t)
<1>1. /\ Len(stack[t]) \in Nat /\ k \in Nat
      /\ k \in {Len(stack[t]) - 1, Len(stack[t])}
  BY Typing DEF Changes
<1>2. k \in 1..Len(stack[t]) /\ Len(stack[t]) # 0
  BY <1>1
<1>3. stack[t] # <<>>
  BY <1>2, Typing
<1>4. Len(stack[t]) \in 1..Len(stack[t]) /\ Top(t) = stack[t][Len(stack[t])]
  BY <1>3, TopTyping
<1>5. k < Len(stack[t]) => Len(stack[t]) = k + 1
  BY <1>1
<1>6. QED
  BY <1>2, <1>3, <1>4, <1>5, Typing DEF Nesting

LEMMA NestingStays ==
    ASSUME TypeOK, Nesting, NEW t \in Threads, NEW k, NEW c, Changes(t, k, c),
           Nests(t, k, c)
    PROVE  Nesting'
<1> SUFFICES ASSUME NEW u \in Threads, NEW i \in 1..Len(stack'[u]),
                    NEW j \in 1..Len(stack'[u]), j = i + 1
             PROVE  CallsOn(stack'[u][i], stack'[u][j])
  BY DEF Nesting, CallsOn, Callers, ReleaseCalls
<1>1. CASE u # t
  BY <1>1 DEF Changes, Nesting
<1>2. CASE u = t
  <2>1. /\ Len(stack[t]) \in Nat /\ k \in Nat
        /\ k \in {Len(stack[t]) - 1, Len(stack[t])} /\ Len(c) \in Nat
        /\ Len(stack'[t]) = k + Len(c)
    BY Typing DEF Changes
  <2>2. CASE j <= k
    <3>1. i \in 1..k /\ j \in 1..k /\ i \in 1..Len(stack[t]) /\ j \in 1..Len(stack[t])
      BY <1>2, <2>1, <2>2
    <3>2. QED
      BY <1>2, <3>1 DEF Changes, Nesting
  <2>3. CASE i = k
    <3>1. 1 \in 1..Len(c) /\ k # 0 /\ j = k + 1
      BY <1>2, <2>1, <2>3
    <3>2. stack'[t][i] = stack[t][k] /\ stack'[t][j] = c[1]
      BY <2>3, <3>1 DEF Changes
    <3>3. /\ stack[t] # <<>> /\ stack[t][k] \in Frames
          /\ k < Len(stack[t]) => CallsOn(stack[t][k], Top(t))
          /\ k = Len(stack[t]) => stack[t][k] = Top(t)
      BY <3>1, Below
    <3>4. CallsOn(stack[t][k], c[1])
      BY <2>1, <3>1, <3>3 DEF Nests
    <3>5. QED
      BY <1>2, <3>2, <3>4
  <2>4. CASE i > k
    <3>1. /\ i - k \in 1..Len(c) /\ j - k \in 1..Len(c) /\ (j - k) - 1 = i - k
          /\ j - k > 1 /\ i = k + (i - k) /\ j = k + (j - k)
      BY <1>2, <2>1, <2>4
    <3>2. stack'[t][i] = c[i - k] /\ stack'[t][j] = c[j - k]
      BY <3>1 DEF Changes
    <3>3. CallsOn(c[(j - k) - 1], c[j - k])
      BY <3>1 DEF Nests
    <3>4. QED
      BY <1>2, <3>1, <3>2, <3>3
  <2>5. QED
    BY <1>2, <2>1, <2>2, <2>3, <2>4
<1>3. QED
  BY <1>1, <1>2

\* The call that comes on top knows what the one above it has left, if any.
Uncovers(t, k, c) ==
    /\ Len(c) # 0 => OnTop(c[Len(c)])'
    /\ Len(c) = 0 => \A f \in Frames :
         FrameFacts(f)' /\ CallsOn(f, Top(t)) => OnTop(f)'

LEMMA OnTopStays ==
    ASSUME NEW f \in Frames, FrameFacts(f), OnTop(f),
           \A l \in Listeners : Grows(l)
    PROVE  OnTop(f)'
<1>1. CASE f.l = None
  <2>1. f.at \notin {"install", "store", "check", "unlist"}
    BY <1>1 DEF FrameFacts, OpenCalls
  <2>2. QED
    BY <2>1 DEF OnTop
<1>2. CASE f.l # None
  <2>1. Grows(f.l)
    BY <1>2 DEF Frames
  <2>2. QED
    BY <2>1 DEF OnTop, Grows
<1>3. QED
  BY <1>1, <1>2

LEMMA TopsStay ==
    ASSUME TypeOK, CallsFit, CallsFit', Nesting, TopsFit,
           NEW t \in Threads, NEW k, NEW c, Changes(t, k, c),
           \A l \in Listeners : Grows(l),
           Uncovers(t, k, c), Len(c) = 0 => k < Len(stack[t])
    PROVE  TopsFit'
<1>1. ASSUME NEW u \in Threads, NEW i \in 1..Len(stack'[u]), i = Len(stack'[u])
      PROVE  OnTop(stack[u][i])'
  <2>1. CASE u # t
    <3>1. i \in 1..Len(stack[u]) /\ i = Len(stack[u]) /\ stack'[u] = stack[u]
      BY <1>1, <2>1 DEF Changes
    <3>2. PICK f \in Frames : f = stack[u][i]
      BY <3>1, Typing
    <3>3. FrameFacts(f) /\ OnTop(f)
      BY <3>1, <3>2 DEF CallsFit, TopsFit
    <3>4. OnTop(f)' /\ stack'[u][i] = f
      BY <3>1, <3>2, <3>3, OnTopStays
    <3>5. QED
      BY <3>4
  <2>2. CASE u = t /\ Len(c) # 0
    <3>1. Len(c) \in 1..Len(c) /\ i = k + Len(c)
      BY <1>1, <2>2 DEF Changes
    <3>2. PICK f : f = c[Len(c)] /\ OnTop(f)'
      BY <2>2 DEF Uncovers
    <3>3. stack'[u][i] = f
      BY <2>2, <3>1, <3>2 DEF Changes
    <3>4. QED
      BY <3>2, <3>3
  <2>3. CASE u = t /\ Len(c) = 0
    <3>1. i = k /\ k # 0 /\ i \in 1..k /\ k < Len(stack[t])
      BY <1>1, <2>3 DEF Changes
    <3>2. PICK f \in Frames : f = stack[t][k] /\ CallsOn(f, Top(t))
      BY <3>1, Below
    <3>3. stack'[u][i] = f
      BY <2>3, <3>1, <3>2 DEF Changes
    <3>4. FrameFacts(stack[u][i])'
      BY DEF CallsFit
    <3>5. FrameFacts(f)'
      BY <3>3, <3>4
    <3>6. OnTop(f)'
      BY <2>3, <3>2, <3>5 DEF Uncovers
    <3>7. QED
      BY <3>3, <3>6
  <2>4. QED
    BY <2>1, <2>2, <2>3
<1>2. QED
  BY <1>1 DEF TopsFit

\* A release that begins has been asked for.
Asks(t, k, c) ==
    \A i \in 1..Len(c) : c[i].at \in ReleaseCalls =>
        \/ fiber' # "open" /\ listed' = <<>>
        \/ i > 1 /\ c[i - 1].at = "unlist"
        \/ i = 1 /\ k < Len(stack[t]) /\ Top(t).at \in ReleaseCalls

LEMMA AskedStays ==
    ASSUME TypeOK, Asked, NEW t \in Threads, NEW k, NEW c, Changes(t, k, c),
           NEW e, Others(e), Asks(t, k, c)
    PROVE  Asked'
<1> SUFFICES ASSUME NEW u \in Threads, NEW i \in 1..Len(stack'[u]),
                    stack'[u][i].at \in ReleaseCalls
             PROVE  \/ fiber' # "open" /\ listed' = <<>>
                    \/ i > 1 /\ stack'[u][i - 1].at = "unlist"
  BY DEF Asked, ReleaseCalls
<1>1. fiber # "open" /\ listed = <<>> => fiber' # "open" /\ listed' = <<>>
  BY DEF Others
<1>2. /\ Len(stack[t]) \in Nat /\ k \in Nat
      /\ k \in {Len(stack[t]) - 1, Len(stack[t])} /\ Len(c) \in Nat
      /\ Len(stack'[t]) = k + Len(c)
  BY Typing DEF Changes
<1>3. CASE i \in 1..Len(stack[u]) /\ stack'[u][i] = stack[u][i]
           /\ (u = t => i \in 1..k)
  <2>1. \/ fiber # "open" /\ listed = <<>>
        \/ i > 1 /\ stack[u][i - 1].at = "unlist"
    BY <1>3 DEF Asked
  <2>2. i > 1 => stack'[u][i - 1] = stack[u][i - 1]
    <3>1. CASE u = t
      <4>1. i > 1 => i - 1 \in 1..k
        BY <1>2, <1>3, <3>1
      <4>2. QED
        BY <3>1, <4>1 DEF Changes
    <3>2. CASE u # t
      BY <3>2 DEF Changes
    <3>3. QED
      BY <3>1, <3>2
  <2>3. QED
    BY <1>1, <2>1, <2>2
<1>4. CASE u = t /\ i - k \in 1..Len(c) /\ stack'[u][i] = c[i - k]
  <2> DEFINE n == i - k
  <2>1. c[n].at \in ReleaseCalls /\ n \in 1..Len(c)
    BY <1>4
  <2>2. CASE fiber' # "open" /\ listed' = <<>>
    BY <2>2
  <2>3. CASE n > 1 /\ c[n - 1].at = "unlist"
    <3>1. n - 1 \in 1..Len(c) /\ i - 1 = k + (n - 1) /\ i > 1
      BY <1>2, <1>4, <2>3
    <3>2. stack'[t][i - 1] = c[n - 1]
      BY <3>1 DEF Changes
    <3>3. QED
      BY <1>4, <2>3, <3>1, <3>2
  <2>4. CASE n = 1 /\ k < Len(stack[t]) /\ Top(t).at \in ReleaseCalls
    <3>1. k + 1 = Len(stack[t]) /\ i = k + 1 /\ i \in 1..Len(stack[t])
          /\ Len(stack[t]) # 0
      BY <1>2, <1>4, <2>4
    <3>2. stack[t] # <<>>
      BY <3>1, Typing
    <3>3. stack[t][i] = Top(t)
      BY <3>1, <3>2, TopTyping
    <3>4. \/ fiber # "open" /\ listed = <<>>
          \/ i > 1 /\ stack[t][i - 1].at = "unlist"
      BY <2>4, <3>1, <3>3 DEF Asked
    <3>5. i > 1 => i - 1 \in 1..k
      BY <1>2, <3>1
    <3>6. i > 1 => stack'[t][i - 1] = stack[t][i - 1]
      BY <3>5 DEF Changes
    <3>7. QED
      BY <1>1, <1>4, <3>4, <3>6
  <2>5. QED
    BY <2>1, <2>2, <2>3, <2>4 DEF Asks
<1>5. QED
  BY <1>3, <1>4, OldOrNew

\* What a teardown is about to release stays with it, or is released.
LEMMA SweptSteps ==
    ASSUME TypeOK, NEW t \in Threads, NEW k, NEW c, Changes(t, k, c)
    PROVE  \A l :
             /\ Swept(l) => \/ Swept(l)'
                            \/ /\ k < Len(stack[t]) /\ Top(t).at = "sweep"
                               /\ l \in ToSet(Top(t).todo)
             /\ (\E i \in 1..Len(c) : c[i].at = "sweep" /\ l \in ToSet(c[i].todo))
                  => Swept(l)'
<1> TAKE l
<1>1. ASSUME Swept(l)
      PROVE  \/ Swept(l)'
             \/ /\ k < Len(stack[t]) /\ Top(t).at = "sweep"
                /\ l \in ToSet(Top(t).todo)
  <2>1. PICK u \in Threads : \E i \in 1..Len(stack[u]) :
               stack[u][i].at = "sweep" /\ l \in ToSet(stack[u][i].todo)
    BY <1>1 DEF Swept
  <2>2. PICK i \in 1..Len(stack[u]) :
               stack[u][i].at = "sweep" /\ l \in ToSet(stack[u][i].todo)
    BY <2>1
  <2>3. CASE i \in 1..Len(stack'[u]) /\ stack'[u][i] = stack[u][i]
    BY <2>2, <2>3 DEF Swept
  <2>4. CASE k < Len(stack[t]) /\ stack[u][i] = Top(t)
    BY <2>2, <2>4
  <2>5. QED
    BY <2>3, <2>4, KeptOrDropped
<1>2. ASSUME NEW i \in 1..Len(c), c[i].at = "sweep", l \in ToSet(c[i].todo)
      PROVE  Swept(l)'
  <2>1. k + i \in 1..Len(stack'[t]) /\ stack'[t][k + i] = c[i]
    BY DEF Changes
  <2>2. QED
    BY <1>2, <2>1 DEF Swept
<1>3. QED
  BY <1>1, <1>2

\* The entries in the tree stay there, or go to somebody who releases them.
StaysListed(e) ==
    \A l \in Listeners : l # e /\ (l \in ToSet(listed) \/ Swept(l)) =>
        \/ l \in ToSet(listed') \/ Swept(l)'
        \/ Has({"request", "once", "remove"}, l)'

\* What a step has to show.
LEMMA StepInvariant ==
    ASSUME BusInv, NEW t \in Threads, NEW k, NEW c, Changes(t, k, c),
           NEW e, IsFor(t, k, c, e), Others(e),
           TypeOK',
           e \in Listeners => Grows(e) /\ EntryFacts(e)' /\ Driven(e)',
           \A i \in 1..Len(c) : FrameFacts(c[i])',
           e \in Listeners => \A g \in Frames :
               Has({g.at}, e) /\ FrameFacts(g) /\ g.l = e /\ Apart(t, k, g)
                 => FrameFacts(g)',
           TakesRoles(t, k, c), Nests(t, k, c), Uncovers(t, k, c),
           Len(c) = 0 => k < Len(stack[t]), Asks(t, k, c),
           StaysListed(e),
           GroupsFit'
    PROVE  BusInv'
<1>1. /\ TypeOK /\ EntriesFit /\ CallsFit /\ OneInRole /\ Nesting /\ TopsFit
      /\ Asked /\ AllDriven
  BY DEF BusInv
<1>2. \A l \in Listeners : l # e => Grows(l) /\ (Born(l)' => Born(l))
  BY <1>1, OthersGrow
<1>3. \A l \in Listeners : Grows(l)
  BY <1>2
<1>4. EntriesFit'
  <2> SUFFICES ASSUME NEW l \in Listeners, l # e
               PROVE  EntryFacts(l)'
    BY DEF EntriesFit
  <2>1. SameEntry(l) /\ EntryFacts(l)
    BY <1>1 DEF Others, EntriesFit
  <2>2. QED
    BY <1>3, <2>1, EntryStays
<1>5. CallsFit'
  <2>1. ASSUME NEW g \in Frames, Has({g.at}, g.l), FrameFacts(g), Apart(t, k, g)
        PROVE  FrameFacts(g)'
    <3>1. CASE g.l = e /\ g.l # None
      <4>1. e \in Listeners
        BY <3>1 DEF Frames
      <4>2. QED
        BY <2>1, <3>1, <4>1
    <3>2. CASE g.l # e \/ g.l = None
      BY <1>3, <2>1, <3>2, FrameStays
    <3>3. QED
      BY <3>1, <3>2
  <2>2. QED
    BY <1>1, <2>1, CallsStay
<1>6. OneInRole'
  BY <1>1, RolesStay
<1>7. Nesting'
  BY <1>1, NestingStays
<1>8. TopsFit'
  BY <1>1, <1>3, <1>5, TopsStay
<1>9. Asked'
  BY <1>1, AskedStays
<1>10. AllDriven'
  <2> SUFFICES ASSUME NEW l \in Listeners, l # e
               PROVE  Driven(l)'
    BY DEF AllDriven
  <2>1. SameEntry(l) /\ Driven(l)
    BY <1>1 DEF Others, AllDriven
  <2>2. \A C : Has(C, l)' <=> Has(C, l)
    BY <1>1, HasOthers
  <2>3. QED
    BY <1>2, <2>1, <2>2, DrivenStays DEF StaysListed
<1>11. QED
  BY <1>4, <1>5, <1>6, <1>7, <1>8, <1>9, <1>10 DEF BusInv

LEMMA JoinStays ==
    ASSUME TypeOK, NEW t \in Threads, NEW k, NEW c, Changes(t, k, c),
           stack[t] # <<>> => Top(t).at # "join",
           NEW u \in Threads, In(u, "join")
    PROVE  In(u, "join")'
<1>1. u # t
  BY DEF In
<1>2. stack'[u] = stack[u]
  BY <1>1 DEF Changes
<1>3. QED
  BY <1>2 DEF In, Top

\* Who waits for the goroutines of Parallel goes on waiting.
LEMMA GroupsStay ==
    ASSUME TypeOK, GroupsFit, NEW t \in Threads, NEW k, NEW c, Changes(t, k, c),
           stack[t] # <<>> => Top(t).at # "join",
           \A l \in Listeners : Added(l) => Added(l)',
           spawned' = spawned, serving' = serving
    PROVE  GroupsFit'
<1>1. \A u \in Threads : In(u, "join") => In(u, "join")'
  BY JoinStays
<1>2. \A job \in spawned : job[1] \in Threads /\ job[2] \in Listeners
  BY DEF TypeOK
<1>3. \A job \in spawned : In(job[1], "join")' /\ Added(job[2])'
  <2> SUFFICES ASSUME NEW job \in spawned
               PROVE  In(job[1], "join")' /\ Added(job[2])'
    OBVIOUS
  <2>1. PICK u \in Threads, l \in Listeners : job[1] = u /\ job[2] = l
    BY <1>2
  <2>2. In(u, "join") /\ Added(l)
    BY <2>1 DEF GroupsFit
  <2>3. In(u, "join")' /\ Added(l)'
    BY <1>1, <2>2
  <2>4. QED
    BY <2>1, <2>3
<1>4. QED
  BY <1>1, <1>3 DEF GroupsFit

----------------------------------------------------------------------------
(* What a call knows. *)

LEMMA TopFacts ==
    ASSUME BusInv, NEW t \in Threads, stack[t] # <<>>
    PROVE  /\ Top(t) \in Frames /\ FrameFacts(Top(t)) /\ OnTop(Top(t))
           /\ Top(t).at \notin OpenCalls =>
                 /\ Top(t).l \in Listeners /\ Top(t).l # None
                 /\ EntryFacts(Top(t).l) /\ Driven(Top(t).l)
           /\ Top(t).at \in OpenCalls => Top(t).l = None
           /\ \A C : Top(t).at \in C => Has(C, Top(t).l)
<1>1. /\ TypeOK /\ EntriesFit /\ CallsFit /\ TopsFit /\ AllDriven
  BY DEF BusInv
<1>2. /\ Top(t) \in Frames /\ Len(stack[t]) \in 1..Len(stack[t])
      /\ Top(t) = stack[t][Len(stack[t])]
  BY <1>1, TopTyping
<1>3. FrameFacts(Top(t)) /\ OnTop(Top(t))
  BY <1>1, <1>2 DEF CallsFit, TopsFit
<1>4. \A C : Top(t).at \in C => Has(C, Top(t).l)
  BY <1>2 DEF Has
<1>5. Top(t).at \notin OpenCalls => Top(t).l \in Listeners /\ Top(t).l # None
  BY <1>2, <1>3 DEF FrameFacts, Frames
<1>6. Top(t).at \in OpenCalls => Top(t).l = None
  BY <1>3 DEF FrameFacts
<1>7. QED
  BY <1>1, <1>2, <1>3, <1>4, <1>5, <1>6 DEF EntriesFit, AllDriven

LEMMA HasFacts ==
    ASSUME BusInv, NEW C, NEW l, Has(C, l)
    PROVE  \E g \in Frames : g.at \in C /\ g.l = l /\ FrameFacts(g)
<1>1. TypeOK /\ CallsFit
  BY DEF BusInv
<1>2. PICK u \in Threads : \E i \in 1..Len(stack[u]) :
             stack[u][i].at \in C /\ stack[u][i].l = l
  BY DEF Has
<1>3. PICK i \in 1..Len(stack[u]) : stack[u][i].at \in C /\ stack[u][i].l = l
  BY <1>2
<1>4. stack[u][i] \in Frames /\ FrameFacts(stack[u][i])
  BY <1>1, Typing DEF CallsFit
<1>5. QED
  BY <1>3, <1>4

\* What the fields of a listener say about the calls it can be in.
LEMMA NoSuchCall ==
    ASSUME BusInv, NEW l \in Listeners
    PROVE  /\ installed[l] => ~Has({"add"}, l) /\ ~Has({"install"}, l)
           /\ cleanup[l] # None => ~Has({"store"}, l)
           /\ handleOnce[l] # "running" => ~Has({"unlist"}, l)
           /\ releaseOnce[l] # "running" => ~Has(Holding, l)
           /\ ~Born(l) => \A C : ~Has(C, l)
           /\ l \in ToSet(hooks) => ~Has({"add"}, l)
<1>1. installed[l] => ~Has({"add"}, l) /\ ~Has({"install"}, l)
  BY HasFacts DEF FrameFacts
<1>2. cleanup[l] # None => ~Has({"store"}, l)
  BY HasFacts DEF FrameFacts
<1>3. handleOnce[l] # "running" => ~Has({"unlist"}, l)
  BY HasFacts DEF FrameFacts
<1>4. releaseOnce[l] # "running" => ~Has(Holding, l)
  BY HasFacts DEF FrameFacts
<1>5. ASSUME ~Born(l), NEW C, Has(C, l)
      PROVE  FALSE
  <2>1. PICK g \in Frames : g.l = l /\ FrameFacts(g)
    BY <1>5, HasFacts
  <2>2. g.l # None
    BY <2>1
  <2>3. QED
    BY <1>5, <2>1, <2>2 DEF FrameFacts
<1>6. l \in ToSet(hooks) => ~Has({"add"}, l)
  BY HasFacts DEF FrameFacts
<1>7. QED
  BY <1>1, <1>2, <1>3, <1>4, <1>5, <1>6

\* A release is for a handle, or for a teardown or a registration that a
\* teardown overtook.
LEMMA ReleaseIsAsked ==
    ASSUME BusInv, NEW t \in Threads, stack[t] # <<>>, Top(t).at \in ReleaseCalls
    PROVE  \/ fiber # "open" /\ listed = <<>>
           \/ Has({"unlist"}, Top(t).l)
<1>1. TypeOK /\ Asked /\ Nesting
  BY DEF BusInv
<1>2. /\ Len(stack[t]) \in 1..Len(stack[t]) /\ Len(stack[t]) \in Nat
      /\ Top(t) = stack[t][Len(stack[t])]
  BY <1>1, TopTyping
<1> DEFINE n == Len(stack[t])
<1>3. \/ fiber # "open" /\ listed = <<>>
      \/ n > 1 /\ stack[t][n - 1].at = "unlist"
  BY <1>1, <1>2 DEF Asked
<1>4. CASE n > 1 /\ stack[t][n - 1].at = "unlist"
  <2>1. n - 1 \in 1..n /\ n = (n - 1) + 1
    BY <1>2, <1>4
  <2>2. CallsOn(stack[t][n - 1], stack[t][n])
    BY <1>1, <1>2, <2>1 DEF Nesting
  <2>3. stack[t][n - 1].l = Top(t).l
    BY <1>2, <1>4, <2>2 DEF CallsOn
  <2>4. QED
    BY <1>4, <2>1, <2>3 DEF Has
<1>5. QED
  BY <1>3, <1>4

----------------------------------------------------------------------------
(* Three kinds of step: the top call moves, returns, or a call comes. *)

LEMMA GoHas ==
    ASSUME TypeOK, NEW t \in Threads, stack[t] # <<>>, NEW f,
           Changes(t, Len(stack[t]) - 1, <<f>>), NEW e, f.l = e, Top(t).l = e
    PROVE  \A C :
             /\ Has(C, e) => Has(C, e)' \/ (Top(t).at \in C /\ f.at \notin C)
             /\ Has(C, e)' => Has(C, e) \/ f.at \in C
             /\ f.at \in C => Has(C, e)'
<1> TAKE C
<1>1. PICK c : c = <<f>> /\ Len(c) = 1 /\ c[1] = f
  BY Single
<1>2. Changes(t, Len(stack[t]) - 1, c)
  BY <1>1
<1>3. /\ Has(C, e) => Has(C, e)' \/ Drops(t, Len(stack[t]) - 1, C, e)
      /\ Has(C, e)' => Has(C, e) \/ Brings(c, C, e)
      /\ Brings(c, C, e) => Has(C, e)'
  BY <1>2, HasSteps
<1>4. Brings(c, C, e) <=> f.at \in C
  BY <1>1 DEF Brings
<1>5. QED
  BY <1>3, <1>4 DEF Drops

LEMMA ReturnHas ==
    ASSUME TypeOK, NEW t \in Threads, stack[t] # <<>>,
           Changes(t, Len(stack[t]) - 1, <<>>), NEW e
    PROVE  \A C :
             /\ Has(C, e) => Has(C, e)' \/ (Top(t).at \in C /\ Top(t).l = e)
             /\ Has(C, e)' => Has(C, e)
<1> TAKE C
<1>1. PICK c : c = <<>> /\ Len(c) = 0
  BY EmptySeq
<1>2. Changes(t, Len(stack[t]) - 1, c)
  BY <1>1
<1>3. /\ Has(C, e) => Has(C, e)' \/ Drops(t, Len(stack[t]) - 1, C, e)
      /\ Has(C, e)' => Has(C, e) \/ Brings(c, C, e)
  BY <1>2, HasSteps
<1>4. ~Brings(c, C, e)
  BY <1>1 DEF Brings
<1>5. QED
  BY <1>3, <1>4 DEF Drops

\* Nobody begins or ends to wait for goroutines of Parallel.
LEMMA SameGroups ==
    ASSUME BusInv, NEW t \in Threads, NEW k, NEW c, Changes(t, k, c),
           NEW e, IsFor(t, k, c, e), Others(e), e \in Listeners => Grows(e),
           stack[t] # <<>> => Top(t).at # "join", UNCHANGED group
    PROVE  GroupsFit'
<1>1. TypeOK /\ GroupsFit
  BY DEF BusInv
<1>2. \A l \in Listeners : Grows(l)
  BY <1>1, OthersGrow
<1>3. \A l \in Listeners : Added(l) => Added(l)'
  BY <1>2 DEF Grows
<1>4. spawned' = spawned /\ serving' = serving
  BY DEF group
<1>5. QED
  BY <1>1, <1>3, <1>4, GroupsStay

LEMMA GoInvariant ==
    ASSUME BusInv, NEW t \in Threads, stack[t] # <<>>, NEW f \in Frames,
           Changes(t, Len(stack[t]) - 1, <<f>>), f.l = Top(t).l,
           NEW e, Top(t).l = e, Others(e), TypeOK',
           e \in Listeners => Grows(e) /\ EntryFacts(e)' /\ Driven(e)',
           FrameFacts(f)',
           e \in Listeners => \A g \in Frames :
               /\ Has({g.at}, e) /\ FrameFacts(g) /\ g.l = e
               /\ \A C \in Roles : ~(g.at \in C /\ Top(t).at \in C)
               => FrameFacts(g)',
           \A C \in Roles : f.at \in C => Top(t).at \in C \/ ~Has(C, e),
           \A g \in Frames : CallsOn(g, Top(t)) => CallsOn(g, f),
           OnTop(f)',
           f.at \in ReleaseCalls =>
               Top(t).at \in ReleaseCalls \/ (fiber' # "open" /\ listed' = <<>>),
           StaysListed(e),
           Top(t).at # "join", UNCHANGED group
    PROVE  BusInv'
<1> DEFINE k == Len(stack[t]) - 1
<1>1. PICK c : c = <<f>> /\ Len(c) = 1 /\ c[1] = f
  BY Single
<1>2. Changes(t, k, c)
  BY <1>1
<1>3. Len(stack[t]) \in Nat \ {0} /\ TypeOK
  BY TopTyping DEF BusInv
<1>4. k < Len(stack[t]) /\ k # Len(stack[t])
  BY <1>3
<1>5. \A i \in 1..Len(c) : i = 1 /\ c[i] = f
  BY <1>1
<1> HIDE DEF k
<1>6. IsFor(t, k, c, e)
  BY <1>5 DEF IsFor
<1>7. \A i \in 1..Len(c) : FrameFacts(c[i])'
  <2> TAKE i \in 1..Len(c)
  <2>1. c[i] = f
    BY <1>5
  <2>2. QED
    BY <2>1
<1>8. e \in Listeners => \A g \in Frames :
          Has({g.at}, e) /\ FrameFacts(g) /\ g.l = e /\ Apart(t, k, g)
            => FrameFacts(g)'
  BY <1>4 DEF Apart
<1>9. TakesRoles(t, k, c)
  BY <1>4, <1>5 DEF TakesRoles, Drops
<1>10. Nests(t, k, c)
  BY <1>4, <1>5 DEF Nests
<1>11. Uncovers(t, k, c)
  <2>1. c[Len(c)] = f /\ Len(c) # 0
    BY <1>1
  <2>2. QED
    BY <2>1 DEF Uncovers
<1>12. Asks(t, k, c)
  BY <1>4, <1>5 DEF Asks
<1>13. GroupsFit'
  BY <1>2, <1>6, SameGroups
<1>14. Len(c) # 0
  BY <1>1
<1>15. QED
  BY <1>2, <1>6, <1>7, <1>8, <1>9, <1>10, <1>11, <1>12, <1>13, <1>14,
     StepInvariant

LEMMA ReturnInvariant ==
    ASSUME BusInv, NEW t \in Threads, stack[t] # <<>>,
           Changes(t, Len(stack[t]) - 1, <<>>),
           NEW e, Top(t).l = e, Others(e), TypeOK',
           e \in Listeners => Grows(e) /\ EntryFacts(e)' /\ Driven(e)',
           e \in Listeners => \A g \in Frames :
               /\ Has({g.at}, e) /\ FrameFacts(g) /\ g.l = e
               /\ \A C \in Roles : ~(g.at \in C /\ Top(t).at \in C)
               => FrameFacts(g)',
           \A f \in Frames : FrameFacts(f)' /\ CallsOn(f, Top(t)) => OnTop(f)',
           StaysListed(e),
           GroupsFit' \/ (Top(t).at # "join" /\ UNCHANGED group)
    PROVE  BusInv'
<1> DEFINE k == Len(stack[t]) - 1
<1>1. PICK c : c = <<>> /\ Len(c) = 0
  BY EmptySeq
<1>2. Changes(t, k, c)
  BY <1>1
<1>3. Len(stack[t]) \in Nat \ {0} /\ TypeOK
  BY TopTyping DEF BusInv
<1>4. k < Len(stack[t]) /\ k # Len(stack[t])
  BY <1>3
<1>5. 1..Len(c) = {}
  BY <1>1
<1> HIDE DEF k
<1>6. IsFor(t, k, c, e)
  BY <1>5 DEF IsFor
<1>7. \A i \in 1..Len(c) : FrameFacts(c[i])'
  BY <1>5
<1>8. e \in Listeners => \A g \in Frames :
          Has({g.at}, e) /\ FrameFacts(g) /\ g.l = e /\ Apart(t, k, g)
            => FrameFacts(g)'
  BY <1>4 DEF Apart
<1>9. TakesRoles(t, k, c) /\ Nests(t, k, c) /\ Asks(t, k, c)
  BY <1>5 DEF TakesRoles, Nests, Asks
<1>10. Uncovers(t, k, c)
  BY <1>1 DEF Uncovers
<1>11. GroupsFit'
  BY <1>2, <1>6, SameGroups
<1>12. QED
  BY <1>2, <1>4, <1>6, <1>7, <1>8, <1>9, <1>10, <1>11, StepInvariant

\* A call from outside, or from a listener.
LEMMA CallInvariant ==
    ASSUME BusInv, NEW t \in Threads, CanCall(t), NEW f \in Frames,
           Changes(t, Len(stack[t]), <<f>>),
           NEW e, f.l = e, Others(e), TypeOK',
           e \in Listeners => Grows(e) /\ EntryFacts(e)' /\ Driven(e)',
           FrameFacts(f)',
           e \in Listeners => \A g \in Frames :
               FrameFacts(g) /\ g.l = e => FrameFacts(g)',
           \A C \in Roles : f.at \notin C,
           f.at \notin ReleaseCalls \cup {"install", "store", "add"},
           OnTop(f)', StaysListed(e), GroupsFit'
    PROVE  BusInv'
<1> DEFINE k == Len(stack[t])
<1>1. PICK c : c = <<f>> /\ Len(c) = 1 /\ c[1] = f
  BY Single
<1>2. Changes(t, k, c)
  BY <1>1
<1>3. k \in Nat /\ TypeOK
  BY Typing DEF BusInv
<1>4. ~(k < Len(stack[t])) /\ k = Len(stack[t])
  BY <1>3
<1>5. \A i \in 1..Len(c) : i = 1 /\ c[i] = f
  BY <1>1
<1> HIDE DEF k
<1>6. IsFor(t, k, c, e)
  BY <1>4, <1>5 DEF IsFor
<1>7. \A i \in 1..Len(c) : FrameFacts(c[i])'
  <2> TAKE i \in 1..Len(c)
  <2>1. c[i] = f
    BY <1>5
  <2>2. QED
    BY <2>1
<1>8. TakesRoles(t, k, c)
  BY <1>5 DEF TakesRoles
<1>9. Nests(t, k, c)
  <2>1. stack[t] # <<>> => Top(t).at = "fn"
    BY DEF CanCall, In
  <2>2. stack[t] # <<>> => CallsOn(Top(t), f)
    BY <2>1 DEF CallsOn, Callers
  <2>3. QED
    BY <1>4, <1>5, <2>2 DEF Nests
<1>10. Uncovers(t, k, c)
  <2>1. c[Len(c)] = f /\ Len(c) # 0
    BY <1>1
  <2>2. QED
    BY <2>1 DEF Uncovers
<1>11. Asks(t, k, c)
  BY <1>5 DEF Asks
<1>12. Len(c) # 0
  BY <1>1
<1>13. QED
  BY <1>2, <1>6, <1>7, <1>8, <1>9, <1>10, <1>11, <1>12, StepInvariant

\* What it is to change no listener.
LEMMA SameFields ==
    ASSUME UNCHANGED <<hooks, flags, entry, runs>>,
           fiber # "open" => fiber' # "open"
    PROVE  (\A e : Others(e)) /\ \A l : SameEntry(l)
<1>1. /\ hooks' = hooks /\ fired' = fired /\ released' = released
      /\ cleanup' = cleanup /\ listed' = listed /\ installed' = installed
      /\ deferred' = deferred /\ disposer' = disposer
      /\ releaseOnce' = releaseOnce /\ handleOnce' = handleOnce
      /\ runs' = runs
  BY DEF flags, entry
<1>2. \A l : SameEntry(l)
  BY <1>1 DEF SameEntry
<1>3. QED
  BY <1>1, <1>2 DEF Others

LEMMA SameTyping ==
    ASSUME TypeOK, UNCHANGED <<hooks, flags, entry>>,
           stack' \in [Threads -> Seq(Frames)],
           fiber' \in {"open", "closing", "unloading", "torn"},
           dispatches' \in 0..MaxDispatches, runs' \in [Listeners -> Nat],
           spawned' \subseteq Threads \X Listeners,
           serving' \in [Threads -> Threads \cup {None}]
    PROVE  TypeOK'
<1>1. /\ hooks' = hooks /\ fired' = fired /\ released' = released
      /\ cleanup' = cleanup /\ listed' = listed /\ installed' = installed
      /\ deferred' = deferred /\ disposer' = disposer
      /\ releaseOnce' = releaseOnce /\ handleOnce' = handleOnce
  BY DEF flags, entry
<1>2. Frames' = Frames /\ Disposers' = Disposers /\ OnceStates' = OnceStates
  BY DEF Frames, Disposers, OnceStates, Calls
<1> HIDE DEF Frames, Disposers, OnceStates
<1>3. QED
  BY <1>1, <1>2 DEF TypeOK

\* The entry and the calls that make a listener what it is have not changed.
LEMMA SameGrows ==
    ASSUME NEW l, SameEntry(l), Has({"install"}, l) => Has({"install"}, l)',
           Has({"add"}, l)' => Has({"add"}, l)
    PROVE  Grows(l)
  BY DEF Grows, SameEntry, Born, Added

LEMMA SameListed ==
    ASSUME TypeOK, NEW t \in Threads, NEW k, NEW c, Changes(t, k, c),
           k < Len(stack[t]) => Top(t).at # "sweep",
           NEW e, \A l \in ToSet(listed) : l # e => l \in ToSet(listed')
    PROVE  StaysListed(e)
  BY SweptSteps DEF StaysListed

\* A step that is for no listener leaves every call what it knows.
LEMMA PlainFrames ==
    ASSUME Others(None), \A l \in Listeners : Grows(l)
    PROVE  \A g \in Frames : FrameFacts(g) => FrameFacts(g)'
  BY FrameStays

LEMMA PlainGrows ==
    ASSUME BusInv, NEW t \in Threads, NEW k, NEW c, Changes(t, k, c),
           IsFor(t, k, c, None), Others(None)
    PROVE  \A l \in Listeners : Grows(l)
<1>1. \A l \in Listeners : l # None
  OBVIOUS
<1>2. QED
  BY <1>1, OthersGrow DEF BusInv

----------------------------------------------------------------------------
(* The steps for no listener in particular. *)

LEMMA OpenFrameFits ==
    ASSUME NEW f \in Frames, f.at \in OpenCalls, f.l = None,
           f.at \in FiberCalls => fiber' # "open",
           f.at = "sweep" => listed' = <<>>,
           f.todo # <<>> => f.at \in {"deliver", "returned", "sweep"},
           f.at \in {"deliver", "returned"} => \A l \in ToSet(f.todo) : Added(l)',
           \A l \in ToSet(f.todo) : Born(l)'
    PROVE  FrameFacts(f)' /\ OnTop(f)'
<1>1. /\ f.at \notin UseCalls \cup Holding
      /\ f.at \notin {"add", "install", "store", "handle", "unlist", "once",
                      "unhook", "cleanup", "onceDone", "check"}
  BY DEF OpenCalls, UseCalls, Holding
<1>2. OpenCalls' = OpenCalls /\ UseCalls' = UseCalls /\ Holding' = Holding
      /\ FiberCalls' = FiberCalls
  BY DEF OpenCalls, UseCalls, Holding, FiberCalls
<1> HIDE DEF OpenCalls, UseCalls, Holding, FiberCalls
<1>3. FrameFacts(f)'
  BY <1>1, <1>2 DEF FrameFacts
<1>4. OnTop(f)'
  BY <1>1 DEF OnTop
<1>5. QED
  BY <1>3, <1>4

LEMMA OpenRoles ==
    ASSUME NEW f, f.at \in OpenCalls
    PROVE  /\ \A C \in Roles : f.at \notin C
           /\ f.at \notin ReleaseCalls \cup {"install", "store", "add"}
  BY DEF OpenCalls, Roles, Holding, ReleaseCalls

\* The step of a call for no listener that goes on as f.
LEMMA OpenGo ==
    ASSUME BusInv, NEW t \in Threads, stack[t] # <<>>, NEW f \in Frames,
           Changes(t, Len(stack[t]) - 1, <<f>>),
           Top(t).at \in OpenCalls, f.at \in OpenCalls, f.l = None,
           Others(None), TypeOK', StaysListed(None),
           f.at \in FiberCalls => fiber' # "open",
           f.at = "sweep" => listed' = <<>>,
           f.todo # <<>> => f.at \in {"deliver", "returned", "sweep"},
           f.at \in {"deliver", "returned"} => \A l \in ToSet(f.todo) : Added(l),
           \A l \in ToSet(f.todo) : Born(l),
           Top(t).at # "join", UNCHANGED group
    PROVE  BusInv'
<1>1. Top(t).l = None /\ Top(t) \in Frames
  BY TopFacts
<1>2. \A l \in ToSet(f.todo) : l \in Listeners
  BY MembersTyping DEF Frames
<1>3. IsFor(t, Len(stack[t]) - 1, <<f>>, None)
  BY <1>1 DEF IsFor
<1>4. \A l \in Listeners : Grows(l)
  BY <1>3, PlainGrows
<1>5. FrameFacts(f)' /\ OnTop(f)'
  <2>1. /\ f.at \in {"deliver", "returned"} => \A l \in ToSet(f.todo) : Added(l)'
        /\ \A l \in ToSet(f.todo) : Born(l)'
    BY <1>2, <1>4 DEF Grows
  <2>2. QED
    BY <2>1, OpenFrameFits
<1>6. \A C \in Roles : f.at \notin C
  BY OpenRoles
<1>7. f.at \notin ReleaseCalls
  BY DEF OpenCalls, ReleaseCalls
<1>8. \A g \in Frames : CallsOn(g, Top(t)) => CallsOn(g, f)
  BY <1>1 DEF CallsOn, OpenCalls, ReleaseCalls
<1>9. None \notin Listeners
  OBVIOUS
<1>10. QED
  BY <1>1, <1>5, <1>6, <1>7, <1>8, <1>9, GoInvariant

LEMMA OpenReturn ==
    ASSUME BusInv, NEW t \in Threads, stack[t] # <<>>,
           Changes(t, Len(stack[t]) - 1, <<>>), Top(t).at \in OpenCalls,
           Others(None), TypeOK', StaysListed(None),
           GroupsFit' \/ (Top(t).at # "join" /\ UNCHANGED group)
    PROVE  BusInv'
<1>1. Top(t).l = None
  BY TopFacts
<1>2. \A f : CallsOn(f, Top(t)) => f.at \notin {"check", "store", "install", "unlist"}
  BY DEF CallsOn, OpenCalls, ReleaseCalls
<1>3. \A f \in Frames : FrameFacts(f)' /\ CallsOn(f, Top(t)) => OnTop(f)'
  BY <1>2 DEF OnTop
<1>4. None \notin Listeners
  OBVIOUS
<1>5. QED
  BY <1>1, <1>3, <1>4, ReturnInvariant

LEMMA OpenCall ==
    ASSUME BusInv, NEW t \in Threads, CanCall(t), NEW f \in Frames,
           Changes(t, Len(stack[t]), <<f>>),
           f.at \in OpenCalls, f.l = None, Others(None), TypeOK',
           f.at \in FiberCalls => fiber' # "open", f.at # "sweep",
           f.todo # <<>> => f.at = "deliver",
           \A l \in ToSet(f.todo) : Added(l),
           listed' = listed,
           GroupsFit' \/ UNCHANGED group
    PROVE  BusInv'
<1>1. PICK c : c = <<f>> /\ Len(c) = 1 /\ c[1] = f
  BY Single
<1> DEFINE k == Len(stack[t])
<1>2. Changes(t, k, c) /\ TypeOK /\ k \in Nat
  BY <1>1, Typing DEF BusInv
<1>3. IsFor(t, k, c, None)
  BY <1>1, <1>2 DEF IsFor
<1>4. \A l \in Listeners : Grows(l)
  BY <1>2, <1>3, PlainGrows
<1>5. \A l \in ToSet(f.todo) : Added(l)' /\ Born(l)'
  <2>1. \A l \in ToSet(f.todo) : l \in Listeners
    BY MembersTyping DEF Frames
  <2>2. QED
    BY <1>4, <2>1 DEF Grows, Added
<1>6. FrameFacts(f)' /\ OnTop(f)'
  BY <1>5, OpenFrameFits
<1>7. /\ \A C \in Roles : f.at \notin C
      /\ f.at \notin ReleaseCalls \cup {"install", "store", "add"}
  BY OpenRoles
<1>8. StaysListed(None)
  BY <1>2, SameListed
<1>9. stack[t] # <<>> => Top(t).at # "join"
  BY DEF CanCall, In
<1>10. None \notin Listeners
  OBVIOUS
<1>11. GroupsFit'
  BY <1>2, <1>3, <1>9, <1>10, SameGroups
<1>12. QED
  BY <1>6, <1>7, <1>8, <1>10, <1>11, CallInvariant

\* What is on the bus has been added to it.
LEMMA SelectedAreAdded ==
    ASSUME BusInv, NEW c \in Selected
    PROVE  c \in Seq(Listeners) /\ \A l \in ToSet(c) : l \in Listeners /\ Added(l)
<1>1. hooks \in Seq(Listeners)
  BY DEF BusInv, TypeOK
<1>2. /\ c \in Seq(Listeners) /\ \A l \in ToSet(c) : l \in ToSet(hooks)
      /\ \A l \in ToSet(c) : l \in Listeners
  BY <1>1, SelectedAreHooked
<1>3. \A l \in Listeners : l \in ToSet(hooks) => Added(l)
  BY DEF BusInv, EntriesFit, EntryFacts
<1>4. QED
  BY <1>2, <1>3

LEMMA DeliveriesTyping ==
    ASSUME NEW c \in Seq(Listeners)
    PROVE  /\ Deliveries(c) \in Frames
           /\ Deliveries(c).at = "deliver" /\ Deliveries(c).l = None
           /\ Deliveries(c).todo = c
  BY DEF Deliveries, Frames, Calls

LEMMA DispatchKeeps ==
    ASSUME BusInv, NEW t \in Threads, Dispatch(t)
    PROVE  BusInv'
<1>1. PICK listeners \in Selected : Call(t, <<Deliveries(listeners)>>)
  BY DEF Dispatch
<1>2. /\ listeners \in Seq(Listeners)
      /\ \A l \in ToSet(listeners) : Added(l)
  BY SelectedAreAdded
<1>3. PICK f \in Frames : /\ f = Deliveries(listeners) /\ f.at = "deliver"
                          /\ f.l = None /\ f.todo = listeners
  BY <1>2, DeliveriesTyping
<1>4. TypeOK /\ <<f>> \in Seq(Frames) /\ Call(t, <<f>>)
  BY <1>1, <1>3 DEF BusInv
<1>5. Changes(t, Len(stack[t]), <<f>>)
  BY <1>4, Calling
<1>6. /\ UNCHANGED <<hooks, flags, entry, runs>> /\ fiber' = fiber
      /\ UNCHANGED group /\ dispatches' = dispatches + 1
      /\ dispatches < MaxDispatches /\ CanCall(t)
  BY DEF Dispatch
<1>7. Others(None) /\ listed' = listed
  BY <1>6, SameFields DEF entry
<1>8. TypeOK'
  <2>1. dispatches' \in 0..MaxDispatches
    BY <1>4, <1>6 DEF TypeOK
  <2>2. QED
    BY <1>4, <1>5, <1>6, <2>1, SameTyping DEF TypeOK, Changes, group
<1>9. f.at \in OpenCalls /\ f.at \notin FiberCalls /\ f.at # "sweep"
  BY <1>3 DEF OpenCalls, FiberCalls
<1>10. QED
  BY <1>2, <1>3, <1>5, <1>6, <1>7, <1>8, <1>9, OpenCall

LEMMA ParallelKeeps ==
    ASSUME BusInv, NEW t \in Threads, Parallel(t)
    PROVE  BusInv'
<1>1. PICK listeners \in Selected :
        spawned' = spawned \cup {<<t, l>> : l \in ToSet(listeners)}
  BY DEF Parallel
<1>2. \A l \in ToSet(listeners) : l \in Listeners /\ Added(l)
  BY SelectedAreAdded
<1>3. PICK f \in Frames : /\ f = Frame("join", None) /\ f.at = "join"
                          /\ f.l = None /\ f.todo = <<>>
  BY FrameTyping DEF Calls
<1>4. TypeOK /\ GroupsFit /\ <<f>> \in Seq(Frames) /\ Call(t, <<f>>)
  BY <1>3 DEF BusInv, Parallel
<1>5. Changes(t, Len(stack[t]), <<f>>)
  BY <1>4, Calling
<1>6. /\ UNCHANGED <<hooks, flags, entry, runs>> /\ fiber' = fiber
      /\ serving' = serving /\ dispatches' = dispatches + 1
      /\ dispatches < MaxDispatches /\ CanCall(t)
  BY DEF Parallel
<1>7. Others(None) /\ listed' = listed
  BY <1>6, SameFields DEF entry
<1>8. TypeOK'
  <2>1. dispatches' \in 0..MaxDispatches
    BY <1>4, <1>6 DEF TypeOK
  <2>2. spawned' \subseteq Threads \X Listeners
    BY <1>1, <1>2, <1>4 DEF TypeOK
  <2>3. QED
    BY <1>4, <1>5, <1>6, <2>1, <2>2, SameTyping DEF TypeOK, Changes
<1>9. f.at \in OpenCalls /\ f.at \notin FiberCalls /\ f.at # "sweep"
  BY <1>3 DEF OpenCalls, FiberCalls
<1>10. \A l \in ToSet(f.todo) : Added(l)
  BY <1>3, EmptyToSet
<1>11. GroupsFit'
  <2>1. PICK c : c = <<f>> /\ Len(c) = 1 /\ c[1] = f
    BY Single
  <2>2. Changes(t, Len(stack[t]), c)
    BY <1>5, <2>1
  <2>3. stack[t] # <<>> => Top(t).at # "join"
    BY <1>6 DEF CanCall, In
  <2>4. \A u \in Threads : In(u, "join") => In(u, "join")'
    BY <1>4, <2>2, <2>3, JoinStays
  <2>5. In(t, "join")'
    <3>1. /\ stack' \in [Threads -> Seq(Frames)]
          /\ Len(stack[t]) \in Nat /\ Len(stack'[t]) = Len(stack[t]) + 1
          /\ stack'[t][Len(stack[t]) + 1] = f
      BY <1>4, <2>1, <2>2, Typing DEF Changes
    <3>2. stack'[t] # <<>> /\ Last(stack'[t]) = f
      BY <3>1, EmptySeq DEF Last
    <3>3. QED
      BY <1>3, <3>2 DEF In, Top
  <2>6. \A l \in Listeners : Added(l) => Added(l)'
    <3>1. IsFor(t, Len(stack[t]), c, None)
      BY <1>3, <1>4, <2>1, Typing DEF IsFor
    <3>2. QED
      BY <1>7, <2>2, <3>1, PlainGrows DEF Grows
  <2>7. \A job \in spawned' : In(job[1], "join")' /\ Added(job[2])'
    <3> SUFFICES ASSUME NEW job \in spawned'
                 PROVE  In(job[1], "join")' /\ Added(job[2])'
      OBVIOUS
    <3>1. PICK u \in Threads, l \in Listeners : job = <<u, l>>
      BY <1>8 DEF TypeOK
    <3>2. In(u, "join")' /\ Added(l)'
      <4>1. CASE job \in spawned
        <5>1. job[1] = u /\ job[2] = l
          BY <3>1
        <5>2. In(u, "join") /\ Added(l)
          BY <1>4, <4>1, <5>1 DEF GroupsFit
        <5>3. QED
          BY <2>4, <2>6, <5>2
      <4>2. CASE u = t /\ l \in ToSet(listeners)
        BY <1>2, <2>5, <2>6, <4>2
      <4>3. QED
        BY <1>1, <3>1, <4>1, <4>2
    <3>3. job[1] = u /\ job[2] = l
      BY <3>1
    <3>4. QED
      BY <3>2, <3>3
  <2>8. \A u, v \in Threads : serving'[u] = v => In(v, "join")'
    BY <1>4, <1>6, <2>4 DEF GroupsFit
  <2>9. \A S \in SUBSET Threads :
          S = {} \/ \E u \in S : \A v \in S : serving'[v] # u
    BY <1>4, <1>6 DEF GroupsFit
  <2>10. QED
    BY <2>7, <2>8, <2>9 DEF GroupsFit
<1>12. QED
  BY <1>3, <1>5, <1>6, <1>7, <1>8, <1>9, <1>10, <1>11, OpenCall

\* A goroutine of Parallel begins to serve who started it; it serves nobody
\* yet, and nobody serves it.
LEMMA StartKeeps ==
    ASSUME BusInv, NEW u \in Threads, Start(u)
    PROVE  BusInv'
<1>1. PICK job \in spawned :
        /\ spawned' = spawned \ {job}
        /\ serving' = [serving EXCEPT ![u] = job[1]]
        /\ Call(u, <<Frame("work", None), Deliveries(<<job[2]>>)>>)
  BY DEF Start
<1>2. PICK t \in Threads, l \in Listeners : job = <<t, l>>
  BY DEF BusInv, TypeOK
<1>3. job[1] = t /\ job[2] = l
  BY <1>2
<1>4. In(t, "join") /\ Added(l) /\ Born(l)
  BY <1>3 DEF BusInv, GroupsFit, Added
<1>5. PICK f \in Frames : /\ f = Frame("work", None) /\ f.at = "work"
                          /\ f.l = None /\ f.todo = <<>>
  BY FrameTyping DEF Calls
<1>6. <<l>> \in Seq(Listeners) /\ ToSet(<<l>>) = {l}
  BY DEF ToSet
<1>7. PICK g \in Frames : /\ g = Deliveries(<<l>>) /\ g.at = "deliver"
                          /\ g.l = None /\ g.todo = <<l>>
  BY <1>6, DeliveriesTyping
<1>8. <<f, g>> \in Seq(Frames) /\ Call(u, <<f, g>>) /\ TypeOK
  BY <1>1, <1>3, <1>5, <1>7 DEF BusInv
<1>9. PICK c : c = <<f, g>> /\ Len(c) = 2 /\ c[1] = f /\ c[2] = g
  <2>1. Len(<<f, g>>) = 2 /\ <<f, g>>[1] = f /\ <<f, g>>[2] = g
    OBVIOUS
  <2>2. QED
    BY <2>1, Zenon
<1>10. stack[u] = <<>> /\ Len(stack[u]) = 0
  BY <1>8, Typing DEF Start
<1>11. Changes(u, 0, c)
  BY <1>8, <1>9, <1>10, Calling
<1>12. \A i \in 1..Len(c) : c[i] \in {f, g} /\ c[i].l = None
                            /\ c[i].at \in {"work", "deliver"}
  <2>1. 1..Len(c) = {1, 2}
    BY <1>9
  <2>2. QED
    BY <1>5, <1>7, <1>9, <2>1
<1>13. IsFor(u, 0, c, None)
  BY <1>10, <1>12 DEF IsFor
<1>14. UNCHANGED <<hooks, flags, entry, runs>> /\ fiber' = fiber
       /\ dispatches' = dispatches
  BY DEF Start, counts
<1>15. Others(None) /\ listed' = listed
  BY <1>14, SameFields DEF entry
<1>16. \A m \in Listeners : Grows(m)
  BY <1>11, <1>13, <1>15, PlainGrows
<1>17. TypeOK'
  <2>1. spawned' \subseteq Threads \X Listeners
        /\ serving' \in [Threads -> Threads \cup {None}]
    BY <1>1, <1>3, <1>8 DEF TypeOK
  <2>2. QED
    BY <1>8, <1>11, <1>14, <2>1, SameTyping DEF TypeOK, Changes
<1>18. FrameFacts(f)' /\ FrameFacts(g)' /\ OnTop(g)'
  <2>1. Added(l)' /\ Born(l)'
    BY <1>4, <1>16 DEF Grows
  <2>2. /\ f.at \in OpenCalls /\ f.at \notin FiberCalls
        /\ g.at \in OpenCalls /\ g.at \notin FiberCalls
    BY <1>5, <1>7 DEF OpenCalls, FiberCalls
  <2>3. FrameFacts(f)'
    BY <1>5, <2>2, OpenFrameFits, EmptyToSet
  <2>4. \A m \in ToSet(g.todo) : m = l
    BY <1>6, <1>7
  <2>5. FrameFacts(g)' /\ OnTop(g)'
    BY <1>7, <2>1, <2>2, <2>4, OpenFrameFits
  <2>6. QED
    BY <2>3, <2>5
<1>19. \A i \in 1..Len(c) : FrameFacts(c[i])'
  <2> TAKE i \in 1..Len(c)
  <2>1. CASE c[i] = f
    BY <1>18, <2>1
  <2>2. CASE c[i] = g
    BY <1>18, <2>2
  <2>3. QED
    BY <1>12, <2>1, <2>2
<1>20. TakesRoles(u, 0, c) /\ Asks(u, 0, c)
  BY <1>12 DEF TakesRoles, Asks, Roles, Holding, ReleaseCalls
<1>21. Nests(u, 0, c)
  <2>1. CallsOn(f, g)
    BY <1>5, <1>7 DEF CallsOn, Callers, ReleaseCalls
  <2>2. 1..Len(c) = {1, 2}
    BY <1>9
  <2>3. QED
    BY <1>9, <1>10, <2>1, <2>2 DEF Nests
<1>22. Uncovers(u, 0, c)
  <2>1. c[Len(c)] = g /\ Len(c) # 0
    BY <1>9
  <2>2. QED
    BY <1>18, <2>1 DEF Uncovers
<1>23. StaysListed(None)
  BY <1>8, <1>10, <1>11, <1>15, SameListed
<1>24. GroupsFit'
  <2>1. GroupsFit /\ spawned' \subseteq spawned
    BY <1>1 DEF BusInv
  <2>2. \A v \in Threads : In(v, "join") => In(v, "join")'
    BY <1>8, <1>10, <1>11, JoinStays
  <2>3. ASSUME NEW j \in spawned'
        PROVE  In(j[1], "join")' /\ Added(j[2])'
    <3>1. PICK v \in Threads, m \in Listeners : j[1] = v /\ j[2] = m
      BY <1>17 DEF TypeOK
    <3>2. In(v, "join") /\ Added(m)
      BY <2>1, <3>1 DEF GroupsFit
    <3>3. In(v, "join")' /\ Added(m)'
      BY <1>16, <2>2, <3>2 DEF Grows
    <3>4. QED
      BY <3>1, <3>3
  <2>4. \A v \in Threads : serving'[v] = IF v = u THEN t ELSE serving[v]
    BY <1>1, <1>3, <1>8 DEF TypeOK
  <2>5. \A v, w \in Threads : serving'[v] = w => In(w, "join")'
    BY <1>4, <2>1, <2>2, <2>4 DEF GroupsFit
  <2>6. \A v \in Threads : serving'[v] # u
    <3>1. ~In(u, "join")
      BY <1>10 DEF In
    <3>2. \A v \in Threads : serving[v] # u
      BY <2>1, <3>1 DEF GroupsFit
    <3>3. t # u
      BY <1>4, <3>1
    <3>4. QED
      BY <2>4, <3>2, <3>3
  <2>7. ASSUME NEW S \in SUBSET Threads, S # {}
        PROVE  \E w \in S : \A v \in S : serving'[v] # w
    <3>1. CASE u \in S
      BY <2>6, <3>1
    <3>2. CASE u \notin S
      BY <2>1, <2>4, <2>7, <3>2 DEF GroupsFit
    <3>3. QED
      BY <3>1, <3>2
  <2>8. QED
    BY <2>3, <2>5, <2>7 DEF GroupsFit
<1>25. None \notin Listeners /\ Len(c) # 0
  BY <1>9
<1>26. QED
  BY <1>11, <1>13, <1>15, <1>17, <1>19, <1>20, <1>21, <1>22, <1>23, <1>24,
     <1>25, StepInvariant

\* What a step that changes no listener, no event and no group shows.
LEMMA PlainStep ==
    ASSUME BusInv, NEW t \in Threads, NEW k, NEW c, Changes(t, k, c),
           UNCHANGED <<hooks, flags, entry, counts, group>>,
           fiber' \in {"open", "closing", "unloading", "torn"},
           fiber # "open" => fiber' # "open"
    PROVE  TypeOK' /\ Others(None) /\ listed' = listed
<1>1. UNCHANGED <<hooks, flags, entry, runs, dispatches, spawned, serving>>
  BY DEF counts, group
<1>2. Others(None) /\ listed' = listed
  BY <1>1, SameFields DEF entry
<1>3. TypeOK'
  BY <1>1, SameTyping DEF TypeOK, Changes, BusInv
<1>4. QED
  BY <1>2, <1>3

LEMMA DoneKeeps ==
    ASSUME BusInv, NEW u \in Threads, Done(u)
    PROVE  BusInv'
<1>1. stack[u] # <<>> /\ Top(u).at = "work" /\ TypeOK
  BY DEF Done, In, BusInv
<1>2. Changes(u, Len(stack[u]) - 1, <<>>)
  BY <1>1, Returning DEF Done
<1>3. UNCHANGED <<hooks, flags, entry, runs>> /\ fiber' = fiber
       /\ dispatches' = dispatches /\ spawned' = spawned
       /\ serving' = [serving EXCEPT ![u] = None]
  BY DEF Done, counts
<1>4. Others(None) /\ listed' = listed
  BY <1>3, SameFields DEF entry
<1>5. TypeOK'
  <2>1. serving' \in [Threads -> Threads \cup {None}]
    BY <1>1, <1>3 DEF TypeOK
  <2>2. QED
    BY <1>1, <1>2, <1>3, <2>1, SameTyping DEF TypeOK, Changes
<1>6. StaysListed(None)
  BY <1>1, <1>2, <1>4, SameListed
<1>7. GroupsFit'
  <2>1. PICK c : c = <<>> /\ Len(c) = 0
    BY EmptySeq
  <2>2. Changes(u, Len(stack[u]) - 1, c) /\ GroupsFit
    BY <1>2, <2>1 DEF BusInv
  <2>3. \A v \in Threads : In(v, "join") => In(v, "join")'
    BY <1>1, <2>2, JoinStays
  <2>4. \A l \in Listeners : Added(l) => Added(l)'
    <3>1. Top(u).l = None
      BY <1>1, TopFacts DEF OpenCalls
    <3>2. IsFor(u, Len(stack[u]) - 1, c, None)
      BY <2>1, <3>1 DEF IsFor
    <3>3. QED
      BY <1>4, <2>2, <3>2, PlainGrows DEF Grows
  <2>5. ASSUME NEW j \in spawned'
        PROVE  In(j[1], "join")' /\ Added(j[2])'
    <3>1. PICK v \in Threads, m \in Listeners : j[1] = v /\ j[2] = m
      BY <1>5 DEF TypeOK
    <3>2. In(v, "join") /\ Added(m)
      BY <1>3, <2>2, <3>1 DEF GroupsFit
    <3>3. In(v, "join")' /\ Added(m)'
      BY <2>3, <2>4, <3>2
    <3>4. QED
      BY <3>1, <3>3
  <2>6. \A v, w \in Threads : serving'[v] = w => serving[v] = w
    BY <1>1, <1>3 DEF TypeOK
  <2>7. \A v, w \in Threads : serving'[v] = w => In(w, "join")'
    BY <2>2, <2>3, <2>6 DEF GroupsFit
  <2>8. ASSUME NEW S \in SUBSET Threads, S # {}
        PROVE  \E w \in S : \A v \in S : serving'[v] # w
    BY <2>2, <2>6, <2>8 DEF GroupsFit
  <2>9. QED
    BY <2>5, <2>7, <2>8 DEF GroupsFit
<1>8. Top(u).at \in OpenCalls
  BY <1>1 DEF OpenCalls
<1>9. QED
  BY <1>1, <1>2, <1>4, <1>5, <1>6, <1>7, <1>8, OpenReturn

\* Nobody waits for t to return, nor t for anybody.
LEMMA JoinKeeps ==
    ASSUME BusInv, NEW t \in Threads, Join(t)
    PROVE  BusInv'
<1>1. stack[t] # <<>> /\ Top(t).at = "join" /\ TypeOK /\ ~Unfinished(t)
  BY DEF Join, In, BusInv
<1>2. Changes(t, Len(stack[t]) - 1, <<>>)
  BY <1>1, Returning DEF Join
<1>3. UNCHANGED <<hooks, flags, entry, counts, group>> /\ fiber' = fiber
  BY DEF Join
<1>4. TypeOK' /\ Others(None) /\ listed' = listed
  BY <1>1, <1>2, <1>3, PlainStep DEF TypeOK
<1>5. StaysListed(None)
  BY <1>1, <1>2, <1>4, SameListed
<1>6. GroupsFit'
  <2>1. PICK c : c = <<>> /\ Len(c) = 0
    BY EmptySeq
  <2>2. Changes(t, Len(stack[t]) - 1, c) /\ GroupsFit
    BY <1>2, <2>1 DEF BusInv
  <2>3. \A v \in Threads : v # t /\ In(v, "join") => In(v, "join")'
    BY <2>2 DEF Changes, In, Top
  <2>4. \A l \in Listeners : Added(l) => Added(l)'
    <3>1. Top(t).l = None
      BY <1>1, TopFacts DEF OpenCalls
    <3>2. IsFor(t, Len(stack[t]) - 1, c, None)
      BY <2>1, <3>1 DEF IsFor
    <3>3. QED
      BY <1>4, <2>2, <3>2, PlainGrows DEF Grows
  <2>5. spawned' = spawned /\ serving' = serving
    BY <1>3 DEF group
  <2>6. ASSUME NEW j \in spawned'
        PROVE  In(j[1], "join")' /\ Added(j[2])'
    <3>1. PICK v \in Threads, m \in Listeners : j[1] = v /\ j[2] = m
      BY <1>4 DEF TypeOK
    <3>2. In(v, "join") /\ Added(m) /\ v # t
      BY <1>1, <2>2, <2>5, <3>1 DEF GroupsFit, Unfinished
    <3>3. In(v, "join")' /\ Added(m)'
      BY <2>3, <2>4, <3>2
    <3>4. QED
      BY <3>1, <3>3
  <2>7. \A v, w \in Threads : serving'[v] = w => In(w, "join")'
    BY <1>1, <2>2, <2>3, <2>5 DEF GroupsFit, Unfinished
  <2>8. \A S \in SUBSET Threads :
          S = {} \/ \E w \in S : \A v \in S : serving'[v] # w
    BY <2>2, <2>5 DEF GroupsFit
  <2>9. QED
    BY <2>6, <2>7, <2>8 DEF GroupsFit
<1>7. Top(t).at \in OpenCalls
  BY <1>1 DEF OpenCalls
<1>8. QED
  BY <1>1, <1>2, <1>4, <1>5, <1>6, <1>7, OpenReturn

LEMMA ReturnedKeeps ==
    ASSUME BusInv, NEW t \in Threads, Returned(t)
    PROVE  BusInv'
<1>1. stack[t] # <<>> /\ Top(t).at = "returned" /\ TypeOK
  BY DEF Returned, In, BusInv
<1>2. UNCHANGED <<hooks, flags, entry, counts, group>> /\ fiber' = fiber
  BY DEF Returned
<1>3. Top(t).at \in OpenCalls /\ FrameFacts(Top(t)) /\ Top(t).l = None
  BY <1>1, TopFacts DEF OpenCalls
<1>4. CASE Return(t)
  <2>1. Changes(t, Len(stack[t]) - 1, <<>>)
    BY <1>1, <1>4, Returning
  <2>2. TypeOK' /\ Others(None) /\ listed' = listed
    BY <1>1, <1>2, <2>1, PlainStep DEF TypeOK
  <2>3. StaysListed(None)
    BY <1>1, <2>1, <2>2, SameListed
  <2>4. QED
    BY <1>1, <1>2, <1>3, <2>1, <2>2, <2>3, OpenReturn
<1>5. CASE Goto(t, "deliver")
  <2>1. PICK f \in Frames :
          /\ Changes(t, Len(stack[t]) - 1, <<f>>)
          /\ f.at = "deliver" /\ f.l = Top(t).l /\ f.todo = Top(t).todo
    BY <1>1, <1>5, Going DEF Calls
  <2>2. TypeOK' /\ Others(None) /\ listed' = listed
    BY <1>1, <1>2, <2>1, PlainStep DEF TypeOK
  <2>3. StaysListed(None)
    BY <1>1, <2>1, <2>2, SameListed
  <2>4. /\ \A l \in ToSet(f.todo) : Added(l)
        /\ \A l \in ToSet(f.todo) : Born(l)
    BY <1>1, <1>3, <2>1 DEF FrameFacts
  <2>5. /\ f.at \in OpenCalls /\ f.at \notin FiberCalls /\ f.at # "sweep"
        /\ f.l = None /\ Top(t).at # "join" /\ f.at \in {"deliver", "returned"}
    BY <1>1, <1>3, <2>1 DEF OpenCalls, FiberCalls
  <2>6. QED
    BY <1>1, <1>2, <1>3, <2>1, <2>2, <2>3, <2>4, <2>5, OpenGo
<1>6. QED
  BY <1>4, <1>5 DEF Returned

LEMMA PairHas ==
    ASSUME TypeOK, NEW t \in Threads, stack[t] # <<>>, NEW f, NEW g,
           Changes(t, Len(stack[t]) - 1, <<f, g>>)
    PROVE  \A C, l :
             /\ Has(C, l) => Has(C, l)' \/ (Top(t).at \in C /\ Top(t).l = l)
             /\ Has(C, l)' => \/ Has(C, l)
                              \/ f.at \in C /\ f.l = l
                              \/ g.at \in C /\ g.l = l
             /\ f.at \in C /\ f.l = l => Has(C, l)'
             /\ g.at \in C /\ g.l = l => Has(C, l)'
<1> TAKE C, l
<1>1. PICK c : c = <<f, g>> /\ Len(c) = 2 /\ c[1] = f /\ c[2] = g
  BY Pair
<1>2. Changes(t, Len(stack[t]) - 1, c)
  BY <1>1
<1>3. /\ Has(C, l) => Has(C, l)' \/ Drops(t, Len(stack[t]) - 1, C, l)
      /\ Has(C, l)' => Has(C, l) \/ Brings(c, C, l)
      /\ Brings(c, C, l) => Has(C, l)'
  BY <1>2, HasSteps
<1>4. 1..Len(c) = {1, 2}
  BY <1>1
<1>5. Brings(c, C, l) <=> (f.at \in C /\ f.l = l) \/ (g.at \in C /\ g.l = l)
  BY <1>1, <1>4 DEF Brings
<1>6. QED
  BY <1>3, <1>5 DEF Drops

\* The top call goes on as f and calls g.
LEMMA PairInvariant ==
    ASSUME BusInv, NEW t \in Threads, stack[t] # <<>>,
           NEW f \in Frames, NEW g \in Frames,
           Changes(t, Len(stack[t]) - 1, <<f, g>>),
           NEW e, Top(t).l \in {e, None}, f.l \in {e, None}, g.l \in {e, None},
           Others(e), TypeOK',
           e \in Listeners => Grows(e) /\ EntryFacts(e)' /\ Driven(e)',
           FrameFacts(f)', FrameFacts(g)',
           e \in Listeners => \A h \in Frames :
               FrameFacts(h) /\ h.l = e => FrameFacts(h)',
           \A C \in Roles : /\ f.at \in C => ~Has(C, f.l)
                            /\ g.at \notin C,
           \A h \in Frames : CallsOn(h, Top(t)) => CallsOn(h, f),
           CallsOn(f, g), OnTop(g)', f.at \notin ReleaseCalls,
           g.at \in ReleaseCalls =>
               f.at = "unlist" \/ (fiber' # "open" /\ listed' = <<>>),
           StaysListed(e), Top(t).at # "join", UNCHANGED group
    PROVE  BusInv'
<1> DEFINE k == Len(stack[t]) - 1
<1>1. PICK c : c = <<f, g>> /\ Len(c) = 2 /\ c[1] = f /\ c[2] = g
  BY Pair
<1>2. Changes(t, k, c)
  BY <1>1
<1>3. Len(stack[t]) \in Nat \ {0} /\ TypeOK
  BY TopTyping DEF BusInv
<1>4. k < Len(stack[t]) /\ k # Len(stack[t])
  BY <1>3
<1>5. \A i \in 1..Len(c) : \/ i = 1 /\ c[i] = f
                           \/ i = 2 /\ c[i] = g
  <2>1. 1..Len(c) = {1, 2}
    BY <1>1
  <2>2. QED
    BY <1>1, <2>1
<1> HIDE DEF k
<1>6. IsFor(t, k, c, e)
  BY <1>5 DEF IsFor
<1>7. \A i \in 1..Len(c) : FrameFacts(c[i])'
  <2> TAKE i \in 1..Len(c)
  <2>1. CASE c[i] = f
    BY <2>1
  <2>2. CASE c[i] = g
    BY <2>2
  <2>3. QED
    BY <1>5, <2>1, <2>2
<1>8. e \in Listeners => \A h \in Frames :
          FrameFacts(h) /\ h.l = e /\ Apart(t, k, h) => FrameFacts(h)'
  OBVIOUS
<1>9. TakesRoles(t, k, c)
  BY <1>5 DEF TakesRoles
<1>10. Nests(t, k, c)
  <2>1. CallsOn(c[1], c[2])
    BY <1>1
  <2>2. \A i \in 1..Len(c) : i > 1 => i = 2 /\ i - 1 = 1
    BY <1>5
  <2>3. \A i \in 1..Len(c) : i > 1 => CallsOn(c[i - 1], c[i])
    BY <2>1, <2>2
  <2>4. \A h \in Frames : CallsOn(h, Top(t)) => CallsOn(h, c[1])
    BY <1>1
  <2>5. QED
    BY <1>4, <2>3, <2>4 DEF Nests
<1>11. Uncovers(t, k, c)
  <2>1. c[Len(c)] = g /\ Len(c) # 0
    BY <1>1
  <2>2. QED
    BY <2>1 DEF Uncovers
<1>12. Asks(t, k, c)
  BY <1>1, <1>5 DEF Asks
<1>13. GroupsFit'
  BY <1>2, <1>6, SameGroups
<1>14. Len(c) # 0
  BY <1>1
<1>15. QED
  BY <1>2, <1>6, <1>7, <1>8, <1>9, <1>10, <1>11, <1>12, <1>13, <1>14,
     StepInvariant

LEMMA DispatchReturnsKeeps ==
    ASSUME BusInv, NEW t \in Threads, DispatchReturns(t)
    PROVE  BusInv'
<1>1. stack[t] # <<>> /\ Top(t).at = "deliver" /\ TypeOK
  BY DEF DispatchReturns, In, BusInv
<1>2. UNCHANGED <<hooks, flags, entry, counts, group>> /\ fiber' = fiber
      /\ Return(t)
  BY DEF DispatchReturns
<1>3. Changes(t, Len(stack[t]) - 1, <<>>)
  BY <1>1, <1>2, Returning
<1>4. TypeOK' /\ Others(None) /\ listed' = listed
  BY <1>1, <1>2, <1>3, PlainStep DEF TypeOK
<1>5. StaysListed(None)
  BY <1>1, <1>3, <1>4, SameListed
<1>6. Top(t).at \in OpenCalls /\ Top(t).at # "join"
  BY <1>1 DEF OpenCalls
<1>7. QED
  BY <1>1, <1>2, <1>3, <1>4, <1>5, <1>6, OpenReturn

LEMMA DisposeKeeps ==
    ASSUME BusInv, NEW t \in Threads, Dispose(t)
    PROVE  BusInv'
<1>1. PICK f \in Frames : /\ f = Frame("teardown", None) /\ f.at = "teardown"
                          /\ f.l = None /\ f.todo = <<>>
  BY FrameTyping DEF Calls
<1>2. TypeOK /\ <<f>> \in Seq(Frames) /\ Call(t, <<f>>)
  BY <1>1 DEF BusInv, Dispose
<1>3. Changes(t, Len(stack[t]), <<f>>)
  BY <1>2, Calling
<1>4. /\ UNCHANGED <<hooks, flags, entry, counts, group>>
      /\ fiber' = "closing" /\ CanCall(t)
  BY DEF Dispose
<1>5. TypeOK' /\ Others(None) /\ listed' = listed
  BY <1>3, <1>4, PlainStep
<1>6. f.at \in OpenCalls /\ f.at # "sweep"
  BY <1>1 DEF OpenCalls
<1>7. QED
  BY <1>1, <1>3, <1>4, <1>5, <1>6, EmptyToSet, OpenCall

LEMMA SetUnloadingKeeps ==
    ASSUME BusInv, NEW t \in Threads, SetUnloading(t)
    PROVE  BusInv'
<1>1. stack[t] # <<>> /\ Top(t).at = "teardown" /\ TypeOK
  BY DEF SetUnloading, In, BusInv
<1>2. /\ UNCHANGED <<hooks, flags, entry, counts, group>>
      /\ fiber' = "unloading" /\ Goto(t, "clear")
  BY DEF SetUnloading
<1>3. PICK f \in Frames :
        /\ Changes(t, Len(stack[t]) - 1, <<f>>)
        /\ f.at = "clear" /\ f.l = Top(t).l /\ f.todo = Top(t).todo
  BY <1>1, <1>2, Going DEF Calls
<1>4. Top(t).at \in OpenCalls /\ FrameFacts(Top(t)) /\ Top(t).l = None
  BY <1>1, TopFacts DEF OpenCalls
<1>5. f.todo = <<>>
  BY <1>1, <1>3, <1>4 DEF FrameFacts
<1>6. TypeOK' /\ Others(None) /\ listed' = listed
  BY <1>2, <1>3, PlainStep
<1>7. StaysListed(None)
  BY <1>1, <1>3, <1>6, SameListed
<1>8. f.at \in OpenCalls /\ f.at \notin {"deliver", "returned", "sweep", "join"}
  BY <1>3 DEF OpenCalls
<1>9. QED
  BY <1>1, <1>2, <1>3, <1>4, <1>5, <1>6, <1>7, <1>8, EmptyToSet, OpenGo

\* The entries leave the tree all at once, and are the teardown's to release.
LEMMA ClearKeeps ==
    ASSUME BusInv, NEW t \in Threads, Clear(t)
    PROVE  BusInv'
<1>1. stack[t] # <<>> /\ Top(t).at = "clear" /\ TypeOK
  BY DEF Clear, In, BusInv
<1> DEFINE rest == Reverse(listed)
<1>2. listed \in Seq(Listeners)
  BY <1>1 DEF TypeOK
<1>3. rest \in Seq(Listeners) /\ ToSet(rest) = ToSet(listed)
  BY <1>2, Reversing
<1> HIDE DEF rest
<1>4. PICK f \in Frames : /\ f = [at |-> "sweep", l |-> None, todo |-> rest]
                          /\ f.at = "sweep" /\ f.l = None /\ f.todo = rest
  <2> DEFINE r == [at |-> "sweep", l |-> None, todo |-> rest]
  <2>1. r \in Frames /\ r.at = "sweep" /\ r.l = None /\ r.todo = rest
    BY <1>3 DEF Frames, Calls
  <2> HIDE DEF r
  <2>2. \E g \in Frames : /\ g = r
                          /\ g.at = "sweep" /\ g.l = None /\ g.todo = rest
    BY <2>1
  <2>3. QED
    BY <2>2 DEF r
<1>5. <<f>> \in Seq(Frames) /\ Continue(t, <<f>>)
  BY <1>4 DEF Clear, rest
<1>6. Changes(t, Len(stack[t]) - 1, <<f>>)
  BY <1>1, <1>5, Continuing
<1>7. /\ UNCHANGED <<hooks, flags, installed, deferred, disposer, releaseOnce,
                     handleOnce, counts, group>>
      /\ fiber' = fiber /\ listed' = <<>>
  BY DEF Clear
<1>8. Top(t).at \in OpenCalls /\ Top(t).at \in FiberCalls /\ FrameFacts(Top(t))
  BY <1>1, TopFacts DEF OpenCalls, FiberCalls
<1>9. fiber # "open"
  BY <1>8 DEF FrameFacts
<1>10. Others(None)
  <2>1. \A l \in Listeners : SameEntry(l)
    BY <1>7, EmptyToSet DEF SameEntry, flags, counts
  <2>2. QED
    BY <1>7, <2>1 DEF Others
<1>11. TypeOK'
  <2>1. listed' \in Seq(Listeners) /\ IsInjective(listed')
    <3>1. <<>> \in Seq(Listeners) /\ DOMAIN <<>> = {}
      BY EmptySeq
    <3>2. QED
      BY <1>7, <3>1 DEF IsInjective
  <2>2. Frames' = Frames /\ Disposers' = Disposers /\ OnceStates' = OnceStates
    BY DEF Frames, Disposers, OnceStates, Calls
  <2>3. stack' \in [Threads -> Seq(Frames)]
    BY <1>6 DEF Changes
  <2> HIDE DEF Frames, Disposers, OnceStates
  <2>4. QED
    BY <1>1, <1>7, <2>1, <2>2, <2>3 DEF TypeOK, flags, counts, group
<1>12. StaysListed(None)
  <2>1. PICK c : c = <<f>> /\ Len(c) = 1 /\ c[1] = f
    BY Single
  <2>2. 1 \in 1..Len(c) /\ Changes(t, Len(stack[t]) - 1, c)
    BY <1>6, <2>1
  <2>3. \A l \in ToSet(listed) : Swept(l)'
    BY <1>1, <1>3, <1>4, <2>1, <2>2, SweptSteps
  <2>4. \A l : Swept(l) => Swept(l)'
    BY <1>1, <2>2, SweptSteps
  <2>5. QED
    BY <2>3, <2>4 DEF StaysListed
<1>13. \A l \in ToSet(f.todo) : Born(l)
  <2>1. \A l \in ToSet(f.todo) : l \in Listeners /\ l \in ToSet(listed)
    BY <1>2, <1>3, <1>4, MembersTyping
  <2>2. QED
    BY <2>1 DEF BusInv, EntriesFit, EntryFacts
<1>14. f.at \in OpenCalls /\ f.at \notin {"deliver", "returned"}
  BY <1>4 DEF OpenCalls
<1>15. QED
  BY <1>1, <1>4, <1>6, <1>7, <1>8, <1>9, <1>10, <1>11, <1>12, <1>13, <1>14, OpenGo

----------------------------------------------------------------------------
(* The steps for one listener. *)

\* What it takes for a call for a listener to fit.
LEMMA FrameFits ==
    ASSUME NEW f \in Frames, f.l # None, f.at \notin OpenCalls, f.todo = <<>>,
           Born(f.l)',
           f.at = "add" => f.l \notin ToSet(hooks'),
           f.at \in {"add", "install"} => ~installed'[f.l],
           f.at = "store" => cleanup'[f.l] = None,
           f.at \in UseCalls => Added(f.l)',
           f.at \in {"handle", "unlist", "once"} \cup Holding => installed'[f.l],
           f.at \in {"unhook", "cleanup"} => released'[f.l],
           f.at = "unlist" => handleOnce'[f.l] = "running",
           f.at \in Holding => releaseOnce'[f.l] = "running",
           f.at \in {"cleanup", "onceDone"} => f.l \notin ToSet(hooks')
    PROVE  FrameFacts(f)'
<1>1. OpenCalls' = OpenCalls /\ UseCalls' = UseCalls /\ Holding' = Holding
      /\ FiberCalls' = FiberCalls
  BY DEF OpenCalls, UseCalls, Holding, FiberCalls
<1>2. f.at \notin FiberCalls \cup {"sweep", "deliver", "returned"}
  BY DEF OpenCalls, FiberCalls
<1> HIDE DEF OpenCalls, UseCalls, Holding, FiberCalls
<1>3. ToSet(f.todo) = {}
  BY EmptyToSet
<1>4. QED
  BY <1>1, <1>2, <1>3 DEF FrameFacts

\* What it takes for it to go on fitting.
LEMMA FramesFit ==
    ASSUME NEW e \in Listeners, Grows(e),
           NEW g \in Frames, FrameFacts(g), g.l = e,
           g.at \in {"add", "cleanup", "onceDone"} =>
               (e \in ToSet(hooks') => e \in ToSet(hooks)),
           g.at \in {"add", "install"} => ~installed'[e],
           g.at = "store" => cleanup'[e] = None,
           released[e] => released'[e],
           g.at = "unlist" => handleOnce'[e] = "running",
           g.at \in Holding => releaseOnce'[e] = "running"
    PROVE  FrameFacts(g)'
<1>1. g.l # None /\ g.at \notin OpenCalls
  BY DEF FrameFacts
<1>2. g.todo = <<>>
  BY <1>1 DEF FrameFacts, OpenCalls
<1>3. Born(e)' /\ (g.at \in UseCalls => Added(e)')
      /\ (g.at \in {"handle", "unlist", "once"} \cup Holding => installed'[e])
  BY <1>1 DEF FrameFacts, Grows
<1>4. g.at \in {"unhook", "cleanup"} => released'[e]
  BY DEF FrameFacts
<1>5. /\ g.at = "add" => e \notin ToSet(hooks')
      /\ g.at \in {"cleanup", "onceDone"} => e \notin ToSet(hooks')
  BY DEF FrameFacts
<1> HIDE DEF OpenCalls, UseCalls, Holding
<1>6. QED
  BY <1>1, <1>2, <1>3, <1>4, <1>5, FrameFits

LEMMA SweepKeeps ==
    ASSUME BusInv, NEW t \in Threads, Sweep(t)
    PROVE  BusInv'
<1>1. stack[t] # <<>> /\ Top(t).at = "sweep" /\ TypeOK /\ Top(t) \in Frames
  BY TopFacts DEF Sweep, In, BusInv
<1>2. UNCHANGED <<hooks, flags, entry, counts, group>>
  BY DEF Sweep
<1>3. Top(t).at \in OpenCalls /\ Top(t).at \in FiberCalls /\ FrameFacts(Top(t))
      /\ Top(t).l = None
  BY <1>1, TopFacts DEF OpenCalls, FiberCalls
<1>4. fiber # "open" /\ listed = <<>> /\ \A l \in ToSet(Top(t).todo) : Born(l)
  BY <1>1, <1>3 DEF FrameFacts
<1>5. CASE Top(t).todo = <<>>
  <2>1. fiber' = "torn" /\ Return(t)
    BY <1>5 DEF Sweep
  <2>2. Changes(t, Len(stack[t]) - 1, <<>>)
    BY <1>1, <2>1, Returning
  <2>3. TypeOK' /\ Others(None) /\ listed' = listed
    BY <1>2, <2>1, <2>2, PlainStep
  <2>4. StaysListed(None)
    <3>1. \A l : Swept(l) => Swept(l)'
      BY <1>1, <1>5, <2>2, SweptSteps, EmptyToSet
    <3>2. QED
      BY <2>3, <3>1 DEF StaysListed
  <2>5. QED
    BY <1>1, <1>2, <1>3, <2>2, <2>3, <2>4, OpenReturn
<1>6. CASE Top(t).todo # <<>>
  <2>1. PICK e \in Listeners, rest \in Seq(Listeners) :
          /\ e = Head(Top(t).todo) /\ rest = Tail(Top(t).todo)
          /\ ToSet(Top(t).todo) = {e} \cup ToSet(rest)
    <3>1. Top(t).todo \in Seq(Listeners)
      BY <1>1 DEF Frames
    <3>2. /\ Head(Top(t).todo) \in Listeners /\ Tail(Top(t).todo) \in Seq(Listeners)
          /\ ToSet(Top(t).todo) =
               {Head(Top(t).todo)} \cup ToSet(Tail(Top(t).todo))
      BY <1>6, <3>1, HeadAndTail
    <3>3. QED
      BY <3>2, Zenon
  <2>2. PICK g \in Frames : /\ g = Frame("request", e) /\ g.at = "request"
                            /\ g.l = e /\ g.todo = <<>>
    BY <2>1, FrameTyping DEF Calls
  <2>3. PICK f \in Frames : /\ f = [Top(t) EXCEPT !.todo = Tail(@)]
                            /\ f.at = "sweep" /\ f.l = None /\ f.todo = rest
    <3>1. \A h \in Frames : Tail(h.todo) \in Seq(Listeners) =>
             /\ [h EXCEPT !.todo = Tail(@)] \in Frames
             /\ [h EXCEPT !.todo = Tail(@)].at = h.at
             /\ [h EXCEPT !.todo = Tail(@)].l = h.l
             /\ [h EXCEPT !.todo = Tail(@)].todo = Tail(h.todo)
      BY DEF Frames
    <3>2. QED
      BY <1>1, <1>3, <2>1, <3>1
  <2>4. fiber' = fiber /\ Continue(t, <<f, g>>)
    <3>1. /\ fiber' = fiber
          /\ Continue(t, <<[Top(t) EXCEPT !.todo = Tail(@)],
                           Frame("request", Head(Top(t).todo))>>)
      BY <1>6 DEF Sweep
    <3>2. g = Frame("request", Head(Top(t).todo))
      BY <2>1, <2>2
    <3>3. QED
      BY <2>3, <3>1, <3>2, Zenon
  <2>5. <<f, g>> \in Seq(Frames)
    BY <2>2, <2>3
  <2>6. Changes(t, Len(stack[t]) - 1, <<f, g>>)
    BY <1>1, <2>4, <2>5, Continuing
  <2>7. TypeOK' /\ listed' = listed
    BY <1>1, <1>2, <2>4, <2>6, PlainStep DEF TypeOK
  <2>8. (\A x : Others(x)) /\ \A l : SameEntry(l)
    BY <1>2, <2>4, SameFields DEF counts
  <2>9. \A C, l : /\ Has(C, l) => Has(C, l)' \/ (Top(t).at \in C /\ Top(t).l = l)
                  /\ Has(C, l)' => \/ Has(C, l)
                                   \/ f.at \in C /\ f.l = l
                                   \/ g.at \in C /\ g.l = l
                  /\ g.at \in C /\ g.l = l => Has(C, l)'
    BY <1>1, <2>6, PairHas
  <2>10. \A l \in Listeners : Grows(l)
    <3> TAKE l \in Listeners
    <3>1. l # None
      OBVIOUS
    <3>2. /\ Has({"install"}, l) => Has({"install"}, l)'
          /\ Has({"add"}, l)' => Has({"add"}, l)
      BY <1>3, <2>2, <2>3, <2>9, <3>1
    <3>3. QED
      BY <2>8, <3>2, SameGrows
  <2>11. EntryFacts(e)'
    BY <2>1, <2>8, <2>10, EntryStays DEF BusInv, EntriesFit
  <2>12. Driven(e)'
    <3>1. Driven(e) /\ e # None
      BY <2>1 DEF BusInv, AllDriven
    <3>2. \A C : Has(C, e) => Has(C, e)'
      BY <1>3, <2>9, <3>1
    <3>3. Has({"request", "once", "remove"}, e)'
      BY <2>2, <2>9
    <3>4. Born(e)' => Born(e)
      <4>1. Has({"install"}, e)' => Has({"install"}, e)
        BY <2>2, <2>3, <2>9
      <4>2. QED
        BY <2>1, <2>8, <4>1 DEF Born, SameEntry
    <3>5. e \notin ToSet(listed')
      BY <1>4, <2>7, EmptyToSet
    <3>6. Holding' = Holding
      BY DEF Holding
    <3> HIDE DEF Holding
    <3>7. QED
      BY <2>8, <3>1, <3>2, <3>3, <3>4, <3>5, <3>6 DEF Driven, SameEntry
  <2>13. Born(e)'
    BY <1>4, <2>1, <2>10 DEF Grows
  <2>14. FrameFacts(g)' /\ OnTop(g)'
    BY <2>1, <2>2, <2>13, FrameFits DEF OpenCalls, UseCalls, Holding, OnTop
  <2>15. FrameFacts(f)'
    <3>1. \A l \in ToSet(f.todo) : Born(l)'
      <4>1. \A l \in ToSet(f.todo) : l \in Listeners /\ Born(l)
        BY <1>4, <2>1, <2>3, MembersTyping
      <4>2. QED
        BY <2>10, <4>1 DEF Grows
    <3>2. QED
      BY <1>4, <2>3, <2>4, <2>7, <3>1, OpenFrameFits DEF OpenCalls
  <2>16. \A h \in Frames : FrameFacts(h) => FrameFacts(h)'
    BY <2>8, <2>10, PlainFrames
  <2>17. \A C \in Roles : f.at \notin C /\ g.at \notin C
    BY <2>2, <2>3 DEF Roles, Holding
  <2>18. /\ CallsOn(f, g) /\ f.at \notin ReleaseCalls
         /\ \A h \in Frames : CallsOn(h, Top(t)) => CallsOn(h, f)
    BY <1>1, <1>3, <2>2, <2>3 DEF CallsOn, Callers, ReleaseCalls
  <2>19. StaysListed(e)
    <3>1. PICK c : c = <<f, g>> /\ Len(c) = 2 /\ c[1] = f /\ c[2] = g
      <4>1. Len(<<f, g>>) = 2 /\ <<f, g>>[1] = f /\ <<f, g>>[2] = g
        OBVIOUS
      <4>2. QED
        BY <4>1, Zenon
    <3>2. Changes(t, Len(stack[t]) - 1, c) /\ 1 \in 1..Len(c)
      BY <2>6, <3>1
    <3>3. \A l : Swept(l) => Swept(l)' \/ l \in ToSet(Top(t).todo)
      BY <1>1, <3>2, SweptSteps
    <3>4. \A l : l \in ToSet(f.todo) => Swept(l)'
      <4>1. c[1].at = "sweep" /\ c[1].todo = f.todo
        BY <2>3, <3>1
      <4>2. QED
        BY <1>1, <3>2, <4>1, SweptSteps
    <3>5. QED
      BY <2>1, <2>3, <2>7, <3>3, <3>4 DEF StaysListed
  <2>20. UNCHANGED group /\ fiber' # "open" /\ listed' = <<>>
    BY <1>2, <1>4, <2>4, <2>7
  <2>21. QED
    <3>1. /\ Top(t).l \in {e, None} /\ f.l \in {e, None} /\ g.l \in {e, None}
          /\ Others(e) /\ Grows(e) /\ Top(t).at # "join"
      BY <1>1, <1>3, <2>1, <2>2, <2>3, <2>8, <2>10
    <3>2. QED
      BY <1>1, <2>6, <2>7, <2>11, <2>12, <2>14, <2>15, <2>16, <2>17, <2>18,
         <2>19, <2>20, <3>1, PairInvariant
<1>7. QED
  BY <1>5, <1>6

\* A step that changes nothing but the call: it goes on as f, or returns.
LEMMA StillGo ==
    ASSUME BusInv, NEW t \in Threads, stack[t] # <<>>, NEW f \in Frames,
           Changes(t, Len(stack[t]) - 1, <<f>>), f.l = Top(t).l,
           NEW e \in Listeners, Top(t).l = e,
           UNCHANGED <<hooks, flags, entry, counts, group>>, fiber' = fiber,
           Top(t).at \notin OpenCalls \cup {"install"}, f.at # "add",
           Driven(e)', FrameFacts(f)',
           \A C \in Roles : f.at \in C => Top(t).at \in C \/ ~Has(C, e),
           \A g \in Frames : CallsOn(g, Top(t)) => CallsOn(g, f),
           OnTop(f)', f.at \in ReleaseCalls => Top(t).at \in ReleaseCalls
    PROVE  BusInv'
<1>1. PICK c : c = <<f>> /\ Len(c) = 1 /\ c[1] = f
  BY Single
<1> DEFINE k == Len(stack[t]) - 1
<1>2. Changes(t, k, c) /\ TypeOK
  BY <1>1 DEF BusInv
<1>3. TypeOK' /\ listed' = listed
  BY <1>2, PlainStep DEF TypeOK
<1>4. (\A x : Others(x)) /\ \A l : SameEntry(l)
  BY SameFields DEF counts
<1>5. IsFor(t, k, c, e)
  BY <1>1 DEF IsFor
<1>6. Grows(e)
  <2>1. /\ Has({"install"}, e) => Has({"install"}, e)'
        /\ Has({"add"}, e)' => Has({"add"}, e)
    BY <1>2, GoHas
  <2>2. QED
    BY <1>4, <2>1, SameGrows
<1>7. \A l \in Listeners : Grows(l)
  BY <1>2, <1>4, <1>5, <1>6, OthersGrow
<1>8. EntryFacts(e)'
  BY <1>4, <1>6, EntryStays DEF BusInv, EntriesFit
<1>9. \A g \in Frames : FrameFacts(g) => FrameFacts(g)'
  BY <1>4, <1>7, PlainFrames
<1>10. StaysListed(e)
  <2>1. Top(t).at # "sweep"
    BY DEF OpenCalls
  <2>2. QED
    BY <1>2, <1>3, <2>1, SameListed
<1>11. Top(t).at # "join"
  BY DEF OpenCalls
<1>12. UNCHANGED group
  OBVIOUS
<1>13. QED
  BY <1>3, <1>4, <1>6, <1>8, <1>9, <1>10, <1>11, <1>12, GoInvariant

LEMMA StillReturn ==
    ASSUME BusInv, NEW t \in Threads, stack[t] # <<>>,
           Changes(t, Len(stack[t]) - 1, <<>>),
           NEW e \in Listeners, Top(t).l = e,
           UNCHANGED <<hooks, flags, entry, counts, group>>, fiber' = fiber,
           Top(t).at \notin OpenCalls \cup {"install"},
           Driven(e)',
           \A f \in Frames : FrameFacts(f)' /\ CallsOn(f, Top(t)) => OnTop(f)'
    PROVE  BusInv'
<1>1. PICK c : c = <<>> /\ Len(c) = 0
  BY EmptySeq
<1> DEFINE k == Len(stack[t]) - 1
<1>2. Changes(t, k, c) /\ TypeOK
  BY <1>1 DEF BusInv
<1>3. TypeOK' /\ listed' = listed
  BY <1>2, PlainStep DEF TypeOK
<1>4. (\A x : Others(x)) /\ \A l : SameEntry(l)
  BY SameFields DEF counts
<1>5. IsFor(t, k, c, e)
  BY <1>1 DEF IsFor
<1>6. Grows(e)
  <2>1. /\ Has({"install"}, e) => Has({"install"}, e)'
        /\ Has({"add"}, e)' => Has({"add"}, e)
    BY <1>2, ReturnHas
  <2>2. QED
    BY <1>4, <2>1, SameGrows
<1>7. \A l \in Listeners : Grows(l)
  BY <1>2, <1>4, <1>5, <1>6, OthersGrow
<1>8. EntryFacts(e)'
  BY <1>4, <1>6, EntryStays DEF BusInv, EntriesFit
<1>9. \A g \in Frames : FrameFacts(g) => FrameFacts(g)'
  BY <1>4, <1>7, PlainFrames
<1>10. StaysListed(e)
  <2>1. Top(t).at # "sweep"
    BY DEF OpenCalls
  <2>2. QED
    BY <1>2, <1>3, <2>1, SameListed
<1>11. Top(t).at # "join"
  BY DEF OpenCalls
<1>12. UNCHANGED group
  OBVIOUS
<1>13. QED
  BY <1>3, <1>4, <1>6, <1>8, <1>9, <1>10, <1>11, <1>12, ReturnInvariant

\* Calls that no call waits for the result of.
Unawaited == {"check", "deliver", "returned", "join", "work", "fn", "retire",
              "unhook", "cleanup", "handle", "unlist", "teardown", "clear", "sweep"}

LEMMA UnawaitedCalls ==
    ASSUME NEW g, g.at \in Unawaited, NEW f, CallsOn(f, g)
    PROVE  /\ OnTop(f)'
           /\ \A h : h.at \in Unawaited => CallsOn(f, h)
<1>1. f.at \notin {"check", "store", "install", "unlist", "sweep"}
      /\ f.at \in Callers
  BY DEF CallsOn, Unawaited, ReleaseCalls
<1>2. OnTop(f)'
  BY <1>1 DEF OnTop
<1>3. ASSUME NEW h, h.at \in Unawaited
      PROVE  CallsOn(f, h)
  BY <1>1, <1>3 DEF CallsOn, Unawaited, ReleaseCalls
<1>4. QED
  BY <1>2, <1>3

LEMMA ListenerReturnsKeeps ==
    ASSUME BusInv, NEW t \in Threads, ListenerReturns(t)
    PROVE  BusInv'
<1>1. stack[t] # <<>> /\ Top(t).at = "fn" /\ TypeOK
  BY DEF ListenerReturns, In, BusInv
<1>2. /\ UNCHANGED <<hooks, flags, entry, counts, group>> /\ fiber' = fiber
      /\ Top(t).at \notin OpenCalls \cup {"install"} /\ Top(t).at \in Unawaited
  BY <1>1 DEF ListenerReturns, OpenCalls, Unawaited
<1>3. PICK e \in Listeners : e = Top(t).l /\ e # None
  BY <1>1, <1>2, TopFacts
<1>4. FrameFacts(Top(t)) /\ EntryFacts(e) /\ Driven(e) /\ Top(t) \in Frames
  BY <1>1, <1>2, <1>3, TopFacts
<1>5. Born(e) /\ Added(e) /\ Top(t).todo = <<>>
  BY <1>1, <1>3, <1>4 DEF FrameFacts, UseCalls
<1>6. SameEntry(e) /\ listed' = listed
  BY <1>2, SameFields DEF counts, entry
<1>7. CASE e \in OnceListeners
  <2>1. PICK f \in Frames : /\ Changes(t, Len(stack[t]) - 1, <<f>>)
                            /\ f.at = "retire" /\ f.l = e /\ f.todo = <<>>
    BY <1>1, <1>3, <1>5, <1>7, Going DEF ListenerReturns, Calls, Subject
  <2>2. \A C : /\ Has(C, e) => Has(C, e)' \/ "fn" \in C
               /\ Has(C, e)' => Has(C, e) \/ "retire" \in C
               /\ "retire" \in C => Has(C, e)'
    BY <1>1, <1>3, <2>1, GoHas
  <2>3. Has({"fn", "retire", "unhook"}, e)'
    BY <2>2
  <2>4. /\ Has({"install"}, e) <=> Has({"install"}, e)'
        /\ Has({"add"}, e) <=> Has({"add"}, e)'
    BY <2>2
  <2>5. Born(e)' /\ Added(e)'
    BY <1>5, <1>6, <2>4 DEF Born, Added, SameEntry
  <2>6. Driven(e)'
    <3>1. \A C : "fn" \notin C => (Has(C, e) => Has(C, e)')
      BY <2>2
    <3>2. (Has(Holding, e) => Has(Holding, e)') /\ Holding' = Holding
      BY <3>1 DEF Holding
    <3> HIDE DEF Holding
    <3>3. Swept(e) => Swept(e)'
      <4>1. PICK c : c = <<f>> /\ Len(c) = 1 /\ c[1] = f
        BY Single
      <4>2. QED
        BY <1>1, <2>1, <4>1, SweptSteps
    <3>4. /\ Has({"unlist"}, e) => Has({"unlist"}, e)'
          /\ Has({"store"}, e) => Has({"store"}, e)'
          /\ Has({"check"}, e) => Has({"check"}, e)'
          /\ Has({"request", "once", "remove"}, e) =>
               Has({"request", "once", "remove"}, e)'
          /\ Has({"add", "unlist", "cleanup", "handle"}, e) =>
               Has({"add", "unlist", "cleanup", "handle"}, e)'
          /\ Has({"unhook"}, e) => Has({"unhook"}, e)'
      BY <3>1
    <3>5. QED
      BY <1>4, <1>5, <1>6, <2>3, <2>4, <3>2, <3>3, <3>4 DEF Driven, SameEntry
  <2>7. FrameFacts(f)' /\ OnTop(f)'
    BY <1>3, <2>1, <2>5, FrameFits DEF OpenCalls, UseCalls, Holding, OnTop
  <2>8. /\ \A C \in Roles : f.at \notin C
        /\ f.at \notin ReleaseCalls /\ f.at \in Unawaited
    BY <2>1 DEF Roles, Holding, ReleaseCalls, Unawaited
  <2>9. QED
    BY <1>1, <1>2, <1>3, <2>1, <2>6, <2>7, <2>8, UnawaitedCalls, StillGo
<1>8. CASE e \notin OnceListeners
  <2>1. Changes(t, Len(stack[t]) - 1, <<>>)
    BY <1>1, <1>3, <1>8, Returning DEF ListenerReturns, Subject
  <2>2. \A C : /\ "fn" \notin C => (Has(C, e) => Has(C, e)')
               /\ Has(C, e)' => Has(C, e)
    BY <1>1, <1>3, <2>1, ReturnHas
  <2>3. /\ Has({"install"}, e) <=> Has({"install"}, e)'
        /\ Has({"add"}, e) <=> Has({"add"}, e)'
    BY <2>2
  <2>4. Driven(e)'
    <3>1. Born(e) <=> Born(e)'
      BY <1>6, <2>3 DEF Born, SameEntry
    <3>2. (Has(Holding, e) => Has(Holding, e)') /\ Holding' = Holding
      BY <2>2 DEF Holding
    <3> HIDE DEF Holding
    <3>3. Swept(e) => Swept(e)'
      <4>1. PICK c : c = <<>> /\ Len(c) = 0
        BY EmptySeq
      <4>2. QED
        BY <1>1, <2>1, <4>1, SweptSteps
    <3>4. /\ Has({"unlist"}, e) => Has({"unlist"}, e)'
          /\ Has({"store"}, e) => Has({"store"}, e)'
          /\ Has({"check"}, e) => Has({"check"}, e)'
          /\ Has({"request", "once", "remove"}, e) =>
               Has({"request", "once", "remove"}, e)'
          /\ Has({"add", "unlist", "cleanup", "handle"}, e) =>
               Has({"add", "unlist", "cleanup", "handle"}, e)'
          /\ Has({"unhook"}, e) => Has({"unhook"}, e)'
      BY <2>2
    <3>5. QED
      BY <1>4, <1>6, <1>8, <2>3, <3>1, <3>2, <3>3, <3>4 DEF Driven, SameEntry
  <2>5. QED
    BY <1>1, <1>2, <1>3, <2>1, <2>4, UnawaitedCalls, StillReturn
<1>9. QED
  BY <1>7, <1>8

\* Whom a call that moves, or returns, leaves at its place.
LEMMA GoMoves ==
    ASSUME TypeOK, NEW t \in Threads, stack[t] # <<>>, NEW f,
           Changes(t, Len(stack[t]) - 1, <<f>>), NEW e, f.l = e, Top(t).l = e,
           Top(t).at # "sweep"
    PROVE  /\ \A C : Top(t).at \notin C \/ f.at \in C => (Has(C, e) => Has(C, e)')
           /\ \A C : f.at \notin C => (Has(C, e)' => Has(C, e))
           /\ \A C : f.at \in C => Has(C, e)'
           /\ \A l : Swept(l) => Swept(l)'
<1>1. PICK c : c = <<f>> /\ Len(c) = 1 /\ c[1] = f
  BY Single
<1>2. \A l : Swept(l) => Swept(l)'
  BY <1>1, SweptSteps
<1>3. \A C : /\ Has(C, e) => Has(C, e)' \/ (Top(t).at \in C /\ f.at \notin C)
             /\ Has(C, e)' => Has(C, e) \/ f.at \in C
             /\ f.at \in C => Has(C, e)'
  BY GoHas
<1>4. QED
  BY <1>2, <1>3

LEMMA ReturnMoves ==
    ASSUME TypeOK, NEW t \in Threads, stack[t] # <<>>,
           Changes(t, Len(stack[t]) - 1, <<>>), NEW e, Top(t).l = e,
           Top(t).at # "sweep"
    PROVE  /\ \A C : Top(t).at \notin C => (Has(C, e) => Has(C, e)')
           /\ \A C : Has(C, e)' => Has(C, e)
           /\ \A l : Swept(l) => Swept(l)'
<1>1. PICK c : c = <<>> /\ Len(c) = 0
  BY EmptySeq
<1>2. \A l : Swept(l) => Swept(l)'
  BY <1>1, SweptSteps
<1>3. \A C : /\ Has(C, e) => Has(C, e)' \/ (Top(t).at \in C /\ Top(t).l = e)
             /\ Has(C, e)' => Has(C, e)
  BY ReturnHas
<1>4. QED
  BY <1>2, <1>3

LEMMA LoadCleanupKeeps ==
    ASSUME BusInv, NEW t \in Threads, LoadCleanup(t)
    PROVE  BusInv'
<1>1. stack[t] # <<>> /\ Top(t).at = "cleanup" /\ TypeOK
  BY DEF LoadCleanup, In, BusInv
<1>2. /\ UNCHANGED <<hooks, flags, entry, counts, group>> /\ fiber' = fiber
      /\ Top(t).at \notin OpenCalls \cup {"install"} /\ Top(t).at \in Unawaited
      /\ Top(t).at # "sweep"
  BY <1>1 DEF LoadCleanup, OpenCalls, Unawaited
<1>3. PICK e \in Listeners : e = Top(t).l /\ e # None
  BY <1>1, <1>2, TopFacts
<1>4. FrameFacts(Top(t)) /\ EntryFacts(e) /\ Driven(e) /\ Top(t) \in Frames
  BY <1>1, <1>2, <1>3, TopFacts
<1>5. /\ Born(e) /\ Added(e) /\ Top(t).todo = <<>>
      /\ released[e] /\ e \notin ToSet(hooks)
  BY <1>1, <1>3, <1>4 DEF FrameFacts, UseCalls
<1>6. SameEntry(e) /\ listed' = listed
  BY <1>2, SameFields DEF counts, entry
<1>7. CASE cleanup[e] # None
  <2>1. PICK f \in Frames : /\ Changes(t, Len(stack[t]) - 1, <<f>>)
                            /\ f.at = "handle" /\ f.l = e /\ f.todo = <<>>
    <3>1. Goto(t, "handle") /\ "handle" \in Calls
      BY <1>3, <1>7 DEF LoadCleanup, Calls, Subject
    <3>2. PICK f \in Frames : /\ Changes(t, Len(stack[t]) - 1, <<f>>)
                              /\ f.at = "handle" /\ f.l = Top(t).l
                              /\ f.todo = Top(t).todo
      BY <1>1, <3>1, Going
    <3>3. QED
      BY <1>3, <1>5, <3>2
  <2>2. /\ \A C : "cleanup" \notin C \/ "handle" \in C =>
              (Has(C, e) => Has(C, e)')
        /\ \A C : "handle" \notin C => (Has(C, e)' => Has(C, e))
        /\ \A C : "handle" \in C => Has(C, e)'
        /\ Swept(e) => Swept(e)'
    BY <1>1, <1>2, <1>3, <2>1, GoMoves
  <2>3. /\ Has({"install"}, e) <=> Has({"install"}, e)'
        /\ Has({"add"}, e) <=> Has({"add"}, e)'
    BY <2>2
  <2>4. Born(e)' /\ Added(e)'
    BY <1>5, <1>6, <2>3 DEF Born, Added, SameEntry
  <2>5. Driven(e)'
    <3>1. (Has(Holding, e) => Has(Holding, e)') /\ Holding' = Holding
      BY <2>2 DEF Holding
    <3> HIDE DEF Holding
    <3>2. /\ Has({"unlist"}, e) => Has({"unlist"}, e)'
          /\ Has({"store"}, e) => Has({"store"}, e)'
          /\ Has({"check"}, e) => Has({"check"}, e)'
          /\ Has({"add", "unlist", "cleanup", "handle"}, e)'
      BY <2>2
    <3>3. ~Has({"add"}, e)'
      BY <2>4 DEF Added
    <3>4. QED
      BY <1>4, <1>5, <1>6, <2>3, <3>1, <3>2, <3>3 DEF Driven, SameEntry
  <2>6. installed'[e]
    BY <1>4, <1>6, <1>7 DEF EntryFacts, SameEntry
  <2>7. FrameFacts(f)' /\ OnTop(f)'
    BY <1>3, <2>1, <2>4, <2>6, FrameFits DEF OpenCalls, UseCalls, Holding, OnTop
  <2>8. /\ \A C \in Roles : f.at \notin C
        /\ f.at \notin ReleaseCalls /\ f.at \in Unawaited
    BY <2>1 DEF Roles, Holding, ReleaseCalls, Unawaited
  <2>9. QED
    BY <1>1, <1>2, <1>3, <2>1, <2>5, <2>7, <2>8, UnawaitedCalls, StillGo
<1>8. CASE cleanup[e] = None
  <2>1. Changes(t, Len(stack[t]) - 1, <<>>)
    BY <1>1, <1>3, <1>8, Returning DEF LoadCleanup, Subject
  <2>2. /\ \A C : "cleanup" \notin C => (Has(C, e) => Has(C, e)')
        /\ \A C : Has(C, e)' => Has(C, e)
    BY <1>1, <1>2, <1>3, <2>1, ReturnMoves
  <2>3. Driven(e)'
    <3>1. (Has(Holding, e) => Has(Holding, e)') /\ Holding' = Holding
      BY <2>2 DEF Holding
    <3> HIDE DEF Holding
    <3>2. /\ Has({"unlist"}, e) => Has({"unlist"}, e)'
          /\ Has({"store"}, e) => Has({"store"}, e)'
          /\ Has({"check"}, e) => Has({"check"}, e)'
          /\ Has({"add"}, e)' => Has({"add"}, e)
      BY <2>2
    <3>3. ~Has({"add"}, e)
      BY <1>5 DEF Added
    <3>4. Has({"check"}, e)
      BY <1>4, <1>5, <1>8 DEF Driven
    <3>5. QED
      BY <1>4, <1>5, <1>6, <3>1, <3>2, <3>3, <3>4 DEF Driven, SameEntry
  <2>4. QED
    BY <1>1, <1>2, <1>3, <2>1, <2>3, UnawaitedCalls, StillReturn
<1>9. QED
  BY <1>7, <1>8

LEMMA CheckReleasedKeeps ==
    ASSUME BusInv, NEW t \in Threads, CheckReleased(t)
    PROVE  BusInv'
<1>1. stack[t] # <<>> /\ Top(t).at = "check" /\ TypeOK
  BY DEF CheckReleased, In, BusInv
<1>2. /\ UNCHANGED <<hooks, flags, entry, counts, group>> /\ fiber' = fiber
      /\ Top(t).at \notin OpenCalls \cup {"install"} /\ Top(t).at \in Unawaited
      /\ Top(t).at # "sweep"
  BY <1>1 DEF CheckReleased, OpenCalls, Unawaited
<1>3. PICK e \in Listeners : e = Top(t).l /\ e # None
  BY <1>1, <1>2, TopFacts
<1>4. FrameFacts(Top(t)) /\ EntryFacts(e) /\ Driven(e) /\ Top(t) \in Frames
  BY <1>1, <1>2, <1>3, TopFacts
<1>5. /\ cleanup[e] # None /\ installed[e] /\ Top(t).todo = <<>>
  <2>1. cleanup[e] # None
    BY <1>1, <1>3, TopFacts DEF OnTop
  <2>2. QED
    BY <1>1, <1>4, <2>1 DEF FrameFacts, EntryFacts
<1>6. SameEntry(e) /\ listed' = listed
  BY <1>2, SameFields DEF counts, entry
<1>7. Born(e) /\ Added(e) /\ ~Has({"add"}, e)
  BY <1>5, NoSuchCall DEF Born, Added
<1>8. CASE released[e]
  <2>1. PICK f \in Frames : /\ Changes(t, Len(stack[t]) - 1, <<f>>)
                            /\ f.at = "handle" /\ f.l = e /\ f.todo = <<>>
    <3>1. Goto(t, "handle") /\ "handle" \in Calls
      BY <1>3, <1>8 DEF CheckReleased, Calls, Subject
    <3>2. PICK f \in Frames : /\ Changes(t, Len(stack[t]) - 1, <<f>>)
                              /\ f.at = "handle" /\ f.l = Top(t).l
                              /\ f.todo = Top(t).todo
      BY <1>1, <3>1, Going
    <3>3. QED
      BY <1>3, <1>5, <3>2
  <2>2. /\ \A C : "check" \notin C \/ "handle" \in C =>
              (Has(C, e) => Has(C, e)')
        /\ \A C : "handle" \notin C => (Has(C, e)' => Has(C, e))
        /\ \A C : "handle" \in C => Has(C, e)'
        /\ Swept(e) => Swept(e)'
    BY <1>1, <1>2, <1>3, <2>1, GoMoves
  <2>3. /\ Has({"install"}, e) <=> Has({"install"}, e)'
        /\ Has({"add"}, e) <=> Has({"add"}, e)'
    BY <2>2
  <2>4. Born(e)' /\ Added(e)'
    BY <1>6, <1>7, <2>3 DEF Born, Added, SameEntry
  <2>5. Driven(e)'
    <3>1. (Has(Holding, e) => Has(Holding, e)') /\ Holding' = Holding
      BY <2>2 DEF Holding
    <3> HIDE DEF Holding
    <3>2. /\ Has({"unlist"}, e) => Has({"unlist"}, e)'
          /\ Has({"request", "once", "remove"}, e) =>
               Has({"request", "once", "remove"}, e)'
          /\ Has({"add", "unlist", "cleanup", "handle"}, e)'
          /\ Has({"fn", "retire", "unhook"}, e) => Has({"fn", "retire", "unhook"}, e)'
          /\ Has({"unhook"}, e) => Has({"unhook"}, e)'
      BY <2>2
    <3>3. ~Has({"add"}, e)'
      BY <2>4 DEF Added
    <3>4. QED
      BY <1>4, <1>5, <1>6, <2>2, <2>3, <3>1, <3>2, <3>3 DEF Driven, SameEntry
  <2>6. FrameFacts(f)' /\ OnTop(f)'
    BY <1>3, <1>5, <1>6, <2>1, <2>4, FrameFits
       DEF OpenCalls, UseCalls, Holding, OnTop, SameEntry
  <2>7. /\ \A C \in Roles : f.at \notin C
        /\ f.at \notin ReleaseCalls /\ f.at \in Unawaited
    BY <2>1 DEF Roles, Holding, ReleaseCalls, Unawaited
  <2>8. QED
    BY <1>1, <1>2, <1>3, <2>1, <2>5, <2>6, <2>7, UnawaitedCalls, StillGo
<1>9. CASE ~released[e]
  <2>1. Changes(t, Len(stack[t]) - 1, <<>>)
    BY <1>1, <1>3, <1>9, Returning DEF CheckReleased, Subject
  <2>2. /\ \A C : "check" \notin C => (Has(C, e) => Has(C, e)')
        /\ \A C : Has(C, e)' => Has(C, e)
        /\ Swept(e) => Swept(e)'
    BY <1>1, <1>2, <1>3, <2>1, ReturnMoves
  <2>3. Driven(e)'
    <3>1. (Has(Holding, e) => Has(Holding, e)') /\ Holding' = Holding
      BY <2>2 DEF Holding
    <3> HIDE DEF Holding
    <3>2. /\ Has({"unlist"}, e) => Has({"unlist"}, e)'
          /\ Has({"request", "once", "remove"}, e) =>
               Has({"request", "once", "remove"}, e)'
          /\ Has({"add", "unlist", "cleanup", "handle"}, e) =>
               Has({"add", "unlist", "cleanup", "handle"}, e)'
          /\ Has({"fn", "retire", "unhook"}, e) => Has({"fn", "retire", "unhook"}, e)'
          /\ Has({"add"}, e)' => Has({"add"}, e)
      BY <2>2
    <3>3. QED
      BY <1>4, <1>5, <1>6, <1>7, <1>9, <2>2, <3>1, <3>2 DEF Driven, SameEntry
  <2>4. QED
    BY <1>1, <1>2, <1>3, <2>1, <2>3, UnawaitedCalls, StillReturn
<1>10. QED
  BY <1>8, <1>9

\* A call that moves within the places that nobody waits for.
LEMMA PlainGo ==
    ASSUME BusInv, NEW t \in Threads, stack[t] # <<>>, NEW f \in Frames,
           Changes(t, Len(stack[t]) - 1, <<f>>), f.todo = <<>>,
           NEW e \in Listeners, Top(t).l = e, f.l = e,
           Top(t).at \in Unawaited \ OpenCalls,
           f.at \in {"retire", "unhook", "cleanup", "handle"},
           Others(e), TypeOK', Added(e), installed'[e] = installed[e],
           cleanup'[e] = cleanup[e], releaseOnce'[e] = releaseOnce[e],
           handleOnce'[e] = handleOnce[e], released[e] => released'[e],
           e \in ToSet(hooks') => e \in ToSet(hooks),
           EntryFacts(e)', Driven(e)',
           f.at = "handle" => installed[e],
           f.at \in {"unhook", "cleanup"} => released'[e],
           f.at = "cleanup" => e \notin ToSet(hooks'),
           listed' = listed, UNCHANGED group
    PROVE  BusInv'
<1>1. TypeOK /\ e # None /\ Top(t).at \notin {"sweep", "join", "install", "add"}
  BY DEF BusInv, Unawaited, OpenCalls
<1>2. /\ Has({"install"}, e) => Has({"install"}, e)'
      /\ Has({"add"}, e)' => Has({"add"}, e)
  BY <1>1, GoHas
<1>3. Grows(e)
  BY <1>2 DEF Grows, Born, Added
<1>4. Added(e)' /\ Born(e)'
  BY <1>3 DEF Grows, Added
<1>5. FrameFacts(f)' /\ OnTop(f)'
  BY <1>1, <1>4, FrameFits DEF OpenCalls, UseCalls, Holding, OnTop
<1>6. ASSUME NEW g \in Frames, FrameFacts(g), g.l = e
      PROVE  FrameFacts(g)'
  <2>1. /\ g.at \in {"add", "install"} => ~installed'[e]
        /\ g.at = "store" => cleanup'[e] = None
        /\ g.at = "unlist" => handleOnce'[e] = "running"
        /\ g.at \in Holding => releaseOnce'[e] = "running"
    BY <1>6 DEF FrameFacts
  <2>2. QED
    BY <1>3, <1>6, <2>1, FramesFit
<1>7. /\ \A C \in Roles : f.at \notin C
      /\ f.at \notin ReleaseCalls /\ f.at \in Unawaited
  BY DEF Roles, Holding, ReleaseCalls, Unawaited
<1>8. \A g \in Frames : CallsOn(g, Top(t)) => CallsOn(g, f)
  BY <1>7, UnawaitedCalls
<1>9. StaysListed(e)
  <2>1. PICK c : c = <<f>> /\ Len(c) = 1 /\ c[1] = f
    BY Single
  <2>2. QED
    BY <1>1, <2>1, SameListed
<1>10. QED
  BY <1>1, <1>3, <1>5, <1>6, <1>7, <1>8, <1>9, GoInvariant

LEMMA RetireKeeps ==
    ASSUME BusInv, NEW t \in Threads, Retire(t)
    PROVE  BusInv'
<1>1. stack[t] # <<>> /\ Top(t).at = "retire" /\ TypeOK
  BY DEF Retire, In, BusInv
<1>2. /\ UNCHANGED <<hooks, fired, cleanup, entry, counts, group>> /\ fiber' = fiber
      /\ Top(t).at \notin OpenCalls \cup {"install", "sweep"}
      /\ Top(t).at \in Unawaited
  BY <1>1 DEF Retire, OpenCalls, Unawaited
<1>3. PICK e \in Listeners : e = Top(t).l /\ e # None
  BY <1>1, <1>2, TopFacts
<1>4. FrameFacts(Top(t)) /\ EntryFacts(e) /\ Driven(e) /\ Top(t) \in Frames
  BY <1>1, <1>2, <1>3, TopFacts
<1>5. Born(e) /\ Added(e) /\ Top(t).todo = <<>>
  BY <1>1, <1>3, <1>4 DEF FrameFacts, UseCalls
<1>6. CASE released[e]
  <2>1. released' = released /\ Return(t)
    BY <1>3, <1>6 DEF Retire, Subject
  <2>2. UNCHANGED <<hooks, flags, entry, counts, group>>
    BY <1>2, <2>1 DEF flags
  <2>3. SameEntry(e) /\ listed' = listed
    BY <1>2, <2>2, SameFields DEF counts, entry
  <2>4. Changes(t, Len(stack[t]) - 1, <<>>)
    BY <1>1, <2>1, Returning
  <2>5. /\ \A C : "retire" \notin C => (Has(C, e) => Has(C, e)')
        /\ \A C : Has(C, e)' => Has(C, e)
        /\ Swept(e) => Swept(e)'
    BY <1>1, <1>2, <1>3, <2>4, ReturnMoves
  <2>6. Driven(e)'
    <3>1. (Has(Holding, e) => Has(Holding, e)') /\ Holding' = Holding
      BY <2>5 DEF Holding
    <3> HIDE DEF Holding
    <3>2. /\ Has({"unlist"}, e) => Has({"unlist"}, e)'
          /\ Has({"store"}, e) => Has({"store"}, e)'
          /\ Has({"check"}, e) => Has({"check"}, e)'
          /\ Has({"request", "once", "remove"}, e) =>
               Has({"request", "once", "remove"}, e)'
          /\ Has({"add", "unlist", "cleanup", "handle"}, e) =>
               Has({"add", "unlist", "cleanup", "handle"}, e)'
          /\ Has({"unhook"}, e) => Has({"unhook"}, e)'
          /\ Has({"add"}, e)' => Has({"add"}, e)
          /\ Has({"install"}, e)' => Has({"install"}, e)
      BY <2>5
    <3>3. Has({"unhook"}, e)' => Has({"fn", "retire", "unhook"}, e)'
      BY DEF Has
    <3>4. Born(e)' => Born(e)
      BY <2>3, <3>2 DEF Born, SameEntry
    <3>5. QED
      BY <1>4, <1>6, <2>3, <2>5, <3>1, <3>2, <3>3, <3>4 DEF Driven, SameEntry
  <2>7. QED
    BY <1>1, <1>2, <1>3, <2>2, <2>4, <2>6, UnawaitedCalls, StillReturn
<1>7. CASE ~released[e]
  <2>1. released' = [released EXCEPT ![e] = TRUE] /\ Goto(t, "unhook")
    BY <1>3, <1>7 DEF Retire, Subject, Set
  <2>2. PICK f \in Frames : /\ Changes(t, Len(stack[t]) - 1, <<f>>)
                            /\ f.at = "unhook" /\ f.l = e /\ f.todo = <<>>
    <3>1. "unhook" \in Calls
      BY DEF Calls
    <3>2. PICK f \in Frames : /\ Changes(t, Len(stack[t]) - 1, <<f>>)
                              /\ f.at = "unhook" /\ f.l = Top(t).l
                              /\ f.todo = Top(t).todo
      BY <1>1, <2>1, <3>1, Going
    <3>3. QED
      BY <1>3, <1>5, <3>2
  <2>3. /\ \A C : "retire" \notin C \/ "unhook" \in C => (Has(C, e) => Has(C, e)')
        /\ \A C : "unhook" \notin C => (Has(C, e)' => Has(C, e))
        /\ \A C : "unhook" \in C => Has(C, e)'
        /\ Swept(e) => Swept(e)'
    BY <1>1, <1>2, <1>3, <2>2, GoMoves
  <2>4. /\ released'[e] /\ released' \in [Listeners -> BOOLEAN]
        /\ \A x \in Listeners : x # e => released'[x] = released[x]
    BY <1>1, <2>1 DEF TypeOK
  <2>5. /\ hooks' = hooks /\ fired' = fired /\ cleanup' = cleanup
        /\ listed' = listed /\ installed' = installed /\ deferred' = deferred
        /\ disposer' = disposer /\ releaseOnce' = releaseOnce
        /\ handleOnce' = handleOnce /\ runs' = runs /\ dispatches' = dispatches
        /\ spawned' = spawned /\ serving' = serving
    BY <1>2 DEF entry, counts, group
  <2>6. Others(e)
    BY <1>2, <2>4, <2>5 DEF Others, SameEntry
  <2>7. TypeOK'
    <3>1. stack' \in [Threads -> Seq(Frames)]
      BY <2>2 DEF Changes
    <3>2. Frames' = Frames /\ Disposers' = Disposers /\ OnceStates' = OnceStates
      BY DEF Frames, Disposers, OnceStates, Calls
    <3> HIDE DEF Frames, Disposers, OnceStates
    <3>3. QED
      BY <1>1, <1>2, <2>4, <2>5, <3>1, <3>2 DEF TypeOK
  <2>8. /\ Has({"install"}, e) <=> Has({"install"}, e)'
        /\ Has({"add"}, e) <=> Has({"add"}, e)'
    BY <2>3
  <2>9. Born(e)' /\ Added(e)'
    BY <1>5, <2>5, <2>8 DEF Born, Added
  <2>10. EntryFacts(e)'
    BY <1>2, <1>4, <2>5, <2>9 DEF EntryFacts
  <2>11. Driven(e)'
    <3>1. (Has(Holding, e) => Has(Holding, e)') /\ Holding' = Holding
      BY <2>3 DEF Holding
    <3> HIDE DEF Holding
    <3>2. /\ Has({"unlist"}, e) => Has({"unlist"}, e)'
          /\ Has({"store"}, e) => Has({"store"}, e)'
          /\ Has({"check"}, e) => Has({"check"}, e)'
          /\ Has({"request", "once", "remove"}, e) =>
               Has({"request", "once", "remove"}, e)'
          /\ Has({"add", "unlist", "cleanup", "handle"}, e) =>
               Has({"add", "unlist", "cleanup", "handle"}, e)'
          /\ Has({"unhook"}, e)' /\ Has({"fn", "retire", "unhook"}, e)'
      BY <2>3
    <3>3. QED
      BY <1>4, <1>5, <2>3, <2>4, <2>5, <2>8, <3>1, <3>2 DEF Driven
  <2>12. UNCHANGED group
    BY <1>2
  <2>13. QED
    BY <1>1, <1>2, <1>3, <1>5, <2>2, <2>4, <2>5, <2>6, <2>7, <2>10, <2>11,
       <2>12, PlainGo
<1>8. QED
  BY <1>6, <1>7

LEMMA UnhookKeeps ==
    ASSUME BusInv, NEW t \in Threads, Unhook(t)
    PROVE  BusInv'
<1>1. stack[t] # <<>> /\ Top(t).at = "unhook" /\ TypeOK
  BY DEF Unhook, In, BusInv
<1>2. /\ UNCHANGED <<flags, entry, counts, group>> /\ fiber' = fiber
      /\ Top(t).at \notin OpenCalls \cup {"install", "sweep"}
      /\ Top(t).at \in Unawaited
  BY <1>1 DEF Unhook, OpenCalls, Unawaited
<1>3. PICK e \in Listeners : e = Top(t).l /\ e # None
  BY <1>1, <1>2, TopFacts
<1>4. FrameFacts(Top(t)) /\ EntryFacts(e) /\ Driven(e) /\ Top(t) \in Frames
  BY <1>1, <1>2, <1>3, TopFacts
<1>5. Born(e) /\ Added(e) /\ Top(t).todo = <<>> /\ released[e]
  BY <1>1, <1>3, <1>4 DEF FrameFacts, UseCalls
<1>6. hooks' = RemoveFirst(hooks, e) /\ Goto(t, "cleanup")
  BY <1>3 DEF Unhook, Subject
<1>7. PICK f \in Frames : /\ Changes(t, Len(stack[t]) - 1, <<f>>)
                          /\ f.at = "cleanup" /\ f.l = e /\ f.todo = <<>>
  BY <1>1, <1>3, <1>5, <1>6, Going DEF Calls
<1>8. /\ \A C : "unhook" \notin C \/ "cleanup" \in C => (Has(C, e) => Has(C, e)')
      /\ \A C : "cleanup" \notin C => (Has(C, e)' => Has(C, e))
      /\ \A C : "cleanup" \in C => Has(C, e)'
      /\ Swept(e) => Swept(e)'
  BY <1>1, <1>2, <1>3, <1>7, GoMoves
<1>9. /\ hooks' \in Seq(Listeners) /\ IsInjective(hooks')
      /\ ToSet(hooks') = ToSet(hooks) \ {e}
  BY <1>1, <1>6, RemovingFirst DEF TypeOK
<1>10. /\ released' = released /\ fired' = fired /\ cleanup' = cleanup
       /\ listed' = listed /\ installed' = installed /\ deferred' = deferred
       /\ disposer' = disposer /\ releaseOnce' = releaseOnce
       /\ handleOnce' = handleOnce /\ runs' = runs /\ dispatches' = dispatches
       /\ spawned' = spawned /\ serving' = serving
  BY <1>2 DEF flags, entry, counts, group
<1>11. Others(e)
  BY <1>2, <1>9, <1>10 DEF Others, SameEntry
<1>12. TypeOK'
  <2>1. stack' \in [Threads -> Seq(Frames)]
    BY <1>7 DEF Changes
  <2>2. Frames' = Frames /\ Disposers' = Disposers /\ OnceStates' = OnceStates
    BY DEF Frames, Disposers, OnceStates, Calls
  <2> HIDE DEF Frames, Disposers, OnceStates
  <2>3. QED
    BY <1>1, <1>2, <1>9, <1>10, <2>1, <2>2 DEF TypeOK
<1>13. /\ Has({"install"}, e) <=> Has({"install"}, e)'
       /\ Has({"add"}, e) <=> Has({"add"}, e)'
  BY <1>8
<1>14. Born(e)' /\ Added(e)' /\ e \notin ToSet(hooks')
  BY <1>5, <1>9, <1>10, <1>13 DEF Born, Added
<1>15. EntryFacts(e)'
  BY <1>2, <1>4, <1>10, <1>14 DEF EntryFacts
<1>16. Driven(e)'
  <2>1. (Has(Holding, e) => Has(Holding, e)') /\ Holding' = Holding
    BY <1>8 DEF Holding
  <2> HIDE DEF Holding
  <2>2. /\ Has({"unlist"}, e) => Has({"unlist"}, e)'
        /\ Has({"store"}, e) => Has({"store"}, e)'
        /\ Has({"check"}, e) => Has({"check"}, e)'
        /\ Has({"add", "unlist", "cleanup", "handle"}, e)'
    BY <1>8
  <2>3. ~Has({"add"}, e)'
    BY <1>14 DEF Added
  <2>4. QED
    BY <1>4, <1>5, <1>10, <1>14, <2>1, <2>2, <2>3 DEF Driven
<1>17. UNCHANGED group
  BY <1>2
<1>18. QED
  BY <1>1, <1>2, <1>3, <1>5, <1>7, <1>9, <1>10, <1>11, <1>12, <1>14, <1>15,
     <1>16, <1>17, PlainGo

\* The next listener of the snapshot, and the dispatch without it.
LEMMA NextDelivery ==
    ASSUME BusInv, NEW t \in Threads, In(t, "deliver"), Top(t).todo # <<>>,
           NEW at \in {"deliver", "returned"}
    PROVE  \E e \in Listeners, f \in Frames :
             /\ e = Head(Top(t).todo) /\ Added(e)
             /\ f = [[Top(t) EXCEPT !.todo = Tail(@)] EXCEPT !.at = at]
             /\ f.at = at /\ f.l = None
             /\ \A l \in ToSet(f.todo) : l \in Listeners /\ Added(l)
<1>1. /\ stack[t] # <<>> /\ Top(t).at = "deliver" /\ Top(t) \in Frames
      /\ FrameFacts(Top(t)) /\ Top(t).l = None
  BY TopFacts DEF In, OpenCalls
<1>2. Top(t).todo \in Seq(Listeners)
  BY <1>1 DEF Frames
<1>3. PICK e \in Listeners, rest \in Seq(Listeners) :
        /\ e = Head(Top(t).todo) /\ rest = Tail(Top(t).todo)
        /\ ToSet(Top(t).todo) = {e} \cup ToSet(rest)
  <2>1. /\ Head(Top(t).todo) \in Listeners /\ Tail(Top(t).todo) \in Seq(Listeners)
        /\ ToSet(Top(t).todo) = {Head(Top(t).todo)} \cup ToSet(Tail(Top(t).todo))
    BY <1>2, HeadAndTail
  <2>2. QED
    BY <2>1, Zenon
<1>4. \A l \in ToSet(Top(t).todo) : Added(l)
  BY <1>1 DEF FrameFacts
<1>5. Added(e) /\ \A l \in ToSet(rest) : l \in Listeners /\ Added(l)
  BY <1>3, <1>4, MembersTyping
<1> DEFINE f == [[Top(t) EXCEPT !.todo = Tail(@)] EXCEPT !.at = at]
<1>6. at \in Calls
  BY DEF Calls
<1>7. \A g \in Frames : Tail(g.todo) \in Seq(Listeners) =>
         LET h == [[g EXCEPT !.todo = Tail(@)] EXCEPT !.at = at] IN
         h \in Frames /\ h.at = at /\ h.l = g.l /\ h.todo = Tail(g.todo)
  BY <1>6 DEF Frames
<1>8. f \in Frames /\ f.at = at /\ f.l = None /\ f.todo = rest
  BY <1>1, <1>3, <1>7
<1> HIDE DEF f
<1>9. \E h \in Frames : h = f
  BY <1>8
<1>10. QED
  BY <1>3, <1>5, <1>8, <1>9, Zenon DEF f

LEMMA DeliverKeeps ==
    ASSUME BusInv, NEW t \in Threads, Deliver(t)
    PROVE  BusInv'
<1>1. stack[t] # <<>> /\ Top(t).at = "deliver" /\ TypeOK /\ In(t, "deliver")
      /\ Top(t).todo # <<>> /\ Top(t) \in Frames
  BY TopFacts DEF Deliver, In, BusInv
<1>2. /\ UNCHANGED <<hooks, released, cleanup, entry, dispatches, group>>
      /\ fiber' = fiber /\ Top(t).at \in OpenCalls /\ Top(t).l = None
  BY <1>1, TopFacts DEF Deliver, OpenCalls
<1>3. /\ hooks' = hooks /\ released' = released /\ cleanup' = cleanup
      /\ listed' = listed /\ installed' = installed /\ deferred' = deferred
      /\ disposer' = disposer /\ releaseOnce' = releaseOnce
      /\ handleOnce' = handleOnce /\ dispatches' = dispatches
      /\ spawned' = spawned /\ serving' = serving
  BY <1>2 DEF entry, group
<1> DEFINE l == Head(Top(t).todo)
           rest == [Top(t) EXCEPT !.todo = Tail(@)]
<1>4. CASE /\ UNCHANGED <<fired, runs>>
           /\ Continue(t, <<rest>>)
  <2>1. PICK f \in Frames :
          /\ f = [[Top(t) EXCEPT !.todo = Tail(@)] EXCEPT !.at = "deliver"]
          /\ f.at = "deliver" /\ f.l = None
          /\ \A m \in ToSet(f.todo) : m \in Listeners /\ Added(m)
    BY <1>1, NextDelivery
  <2>2. f = rest
    BY <1>1, <2>1 DEF Frames
  <2>3. <<f>> \in Seq(Frames) /\ Continue(t, <<f>>)
    BY <1>4, <2>2
  <2>4. Changes(t, Len(stack[t]) - 1, <<f>>)
    BY <1>1, <2>3, Continuing
  <2>5. UNCHANGED <<hooks, flags, entry, counts, group>>
    BY <1>2, <1>4 DEF flags, counts
  <2>6. TypeOK' /\ Others(None) /\ listed' = listed
    BY <1>1, <1>2, <2>4, <2>5, PlainStep DEF TypeOK
  <2>7. StaysListed(None)
    <3>1. PICK c : c = <<f>> /\ Len(c) = 1 /\ c[1] = f
      BY Single
    <3>2. QED
      BY <1>1, <2>4, <2>6, <3>1, SameListed
  <2>8. \A m \in ToSet(f.todo) : Added(m) /\ Born(m)
    BY <2>1 DEF Added
  <2>9. f.at \in OpenCalls /\ f.at \notin FiberCalls /\ f.at # "sweep"
    BY <2>1 DEF OpenCalls, FiberCalls
  <2>10. QED
    BY <1>1, <1>2, <2>1, <2>4, <2>5, <2>6, <2>7, <2>8, <2>9, OpenGo
<1>5. CASE /\ Claimed(l)
           /\ runs' = [runs EXCEPT ![l] = @ + 1]
           /\ Continue(t, <<[rest EXCEPT !.at = "returned"], Frame("fn", l)>>)
  <2>1. PICK e \in Listeners, f \in Frames :
          /\ e = l /\ Added(e)
          /\ f = [rest EXCEPT !.at = "returned"]
          /\ f.at = "returned" /\ f.l = None
          /\ \A m \in ToSet(f.todo) : m \in Listeners /\ Added(m)
    BY <1>1, NextDelivery
  <2>2. PICK g \in Frames : /\ g = Frame("fn", e) /\ g.at = "fn"
                            /\ g.l = e /\ g.todo = <<>>
    BY FrameTyping DEF Calls
  <2>3. <<f, g>> \in Seq(Frames) /\ Continue(t, <<f, g>>)
    <3>1. g = Frame("fn", l)
      BY <2>1, <2>2
    <3>2. Continue(t, <<f, g>>)
      BY <1>5, <2>1, <3>1, Zenon
    <3>3. <<f, g>> \in Seq(Frames)
      OBVIOUS
    <3>4. QED
      BY <3>2, <3>3
  <2>4. Changes(t, Len(stack[t]) - 1, <<f, g>>)
    BY <1>1, <2>3, Continuing
  <2>5. /\ runs' = [runs EXCEPT ![e] = @ + 1]
        /\ e \in OnceListeners => ~fired[e] /\ fired' = [fired EXCEPT ![e] = TRUE]
        /\ e \notin OnceListeners => fired' = fired
    BY <1>5, <2>1 DEF Claimed, Set
  <2>6. /\ runs' \in [Listeners -> Nat] /\ runs'[e] = runs[e] + 1
        /\ fired' \in [Listeners -> BOOLEAN]
        /\ e \in OnceListeners => fired'[e]
        /\ fired'[e] => fired[e] \/ e \in OnceListeners
        /\ \A x \in Listeners : x # e => runs'[x] = runs[x] /\ fired'[x] = fired[x]
    <3>1. runs \in [Listeners -> Nat] /\ fired \in [Listeners -> BOOLEAN]
      BY <1>1 DEF TypeOK
    <3>2. /\ runs' \in [Listeners -> Nat] /\ runs'[e] = runs[e] + 1
          /\ \A x \in Listeners : x # e => runs'[x] = runs[x]
      BY <2>5, <3>1
    <3>3. CASE e \in OnceListeners
      BY <2>5, <3>1, <3>2, <3>3
    <3>4. CASE e \notin OnceListeners
      BY <2>5, <3>1, <3>2, <3>4
    <3>5. QED
      BY <3>3, <3>4
  <2>7. Others(e)
    BY <1>2, <1>3, <2>6 DEF Others, SameEntry
  <2>8. TypeOK'
    <3>1. stack' \in [Threads -> Seq(Frames)]
      BY <2>4 DEF Changes
    <3>2. Frames' = Frames /\ Disposers' = Disposers /\ OnceStates' = OnceStates
      BY DEF Frames, Disposers, OnceStates, Calls
    <3> HIDE DEF Frames, Disposers, OnceStates
    <3>3. QED
      BY <1>1, <1>2, <1>3, <2>6, <3>1, <3>2 DEF TypeOK
  <2>9. EntryFacts(e) /\ Driven(e) /\ e # None
    BY DEF BusInv, EntriesFit, AllDriven
  <2>10. \A C : /\ Has(C, e) => Has(C, e)'
                /\ Has(C, e)' => Has(C, e) \/ "fn" \in C
                /\ "fn" \in C => Has(C, e)'
    <3>1. \A C : /\ Has(C, e) => Has(C, e)' \/ (Top(t).at \in C /\ Top(t).l = e)
                 /\ Has(C, e)' => \/ Has(C, e)
                                  \/ f.at \in C /\ f.l = e
                                  \/ g.at \in C /\ g.l = e
                 /\ g.at \in C /\ g.l = e => Has(C, e)'
      BY <1>1, <2>4, PairHas
    <3>2. Top(t).l # e /\ f.l # e /\ g.l = e /\ g.at = "fn"
      BY <1>2, <2>1, <2>2, <2>9
    <3>3. QED
      BY <3>1, <3>2
  <2>11. /\ Has({"install"}, e) <=> Has({"install"}, e)'
         /\ Has({"add"}, e) <=> Has({"add"}, e)'
    BY <2>10
  <2>12. Grows(e) /\ Added(e)' /\ Born(e)'
    BY <1>3, <2>1, <2>11 DEF Grows, Born, Added
  <2>13. EntryFacts(e)'
    <3>1. e \in OnceListeners => runs'[e] \in 0..1
      <4>1. e \in OnceListeners => runs[e] = 0
        BY <2>5, <2>9 DEF EntryFacts
      <4>2. QED
        BY <2>6, <4>1
    <3>2. QED
      BY <1>2, <1>3, <2>6, <2>9, <2>12, <3>1 DEF EntryFacts, Added
  <2>14. \A x : Swept(x) => Swept(x)'
    <3>1. PICK c : c = <<f, g>> /\ Len(c) = 2 /\ c[1] = f /\ c[2] = g
      <4>1. Len(<<f, g>>) = 2 /\ <<f, g>>[1] = f /\ <<f, g>>[2] = g
        OBVIOUS
      <4>2. QED
        BY <4>1, Zenon
    <3>2. QED
      BY <1>1, <2>4, <3>1, SweptSteps
  <2>15. Driven(e)'
    <3>1. (Has(Holding, e) => Has(Holding, e)') /\ Holding' = Holding
      BY <2>10 DEF Holding
    <3> HIDE DEF Holding
    <3>2. /\ Has({"unlist"}, e) => Has({"unlist"}, e)'
          /\ Has({"store"}, e) => Has({"store"}, e)'
          /\ Has({"check"}, e) => Has({"check"}, e)'
          /\ Has({"request", "once", "remove"}, e) =>
               Has({"request", "once", "remove"}, e)'
          /\ Has({"add", "unlist", "cleanup", "handle"}, e) =>
               Has({"add", "unlist", "cleanup", "handle"}, e)'
          /\ Has({"unhook"}, e) => Has({"unhook"}, e)'
          /\ Has({"fn", "retire", "unhook"}, e)'
      BY <2>10
    <3>3. Born(e)' => Born(e)
      BY <1>3, <2>11 DEF Born
    <3>4. QED
      BY <1>3, <2>9, <2>11, <2>14, <3>1, <3>2, <3>3 DEF Driven
  <2>16. \A m \in Listeners : Grows(m)
    <3>1. PICK c : c = <<f, g>> /\ Len(c) = 2 /\ c[1] = f /\ c[2] = g
      <4>1. Len(<<f, g>>) = 2 /\ <<f, g>>[1] = f /\ <<f, g>>[2] = g
        OBVIOUS
      <4>2. QED
        BY <4>1, Zenon
    <3>2. 1..Len(c) = {1, 2}
      BY <3>1
    <3>3. IsFor(t, Len(stack[t]) - 1, c, e)
      BY <1>2, <2>1, <2>2, <3>1, <3>2 DEF IsFor
    <3>4. QED
      BY <1>1, <2>4, <2>7, <2>12, <3>1, <3>3, OthersGrow
  <2>17. FrameFacts(f)'
    <3>1. \A m \in ToSet(f.todo) : Added(m)' /\ Born(m)'
      BY <2>1, <2>16 DEF Grows, Added
    <3>2. /\ f.at \in OpenCalls /\ f.at \notin FiberCalls /\ f.at # "sweep"
          /\ f.at \in {"deliver", "returned"}
      BY <2>1 DEF OpenCalls, FiberCalls
    <3>3. QED
      BY <2>1, <3>1, <3>2, OpenFrameFits
  <2>18. FrameFacts(g)' /\ OnTop(g)'
    BY <2>2, <2>9, <2>12, FrameFits DEF OpenCalls, UseCalls, Holding, OnTop
  <2>19. ASSUME NEW h \in Frames, FrameFacts(h), h.l = e
         PROVE  FrameFacts(h)'
    <3>1. /\ h.at \in {"add", "install"} => ~installed'[e]
          /\ h.at = "store" => cleanup'[e] = None
          /\ h.at = "unlist" => handleOnce'[e] = "running"
          /\ h.at \in Holding => releaseOnce'[e] = "running"
      BY <1>3, <2>19 DEF FrameFacts
    <3>2. QED
      BY <1>3, <2>12, <2>19, <3>1, FramesFit
  <2>20. \A C \in Roles : f.at \notin C /\ g.at \notin C
    BY <2>1, <2>2 DEF Roles, Holding
  <2>21. /\ CallsOn(f, g) /\ f.at \notin ReleaseCalls /\ g.at \notin ReleaseCalls
         /\ \A h \in Frames : CallsOn(h, Top(t)) => CallsOn(h, f)
    BY <1>1, <1>2, <2>1, <2>2 DEF CallsOn, Callers, ReleaseCalls
  <2>22. StaysListed(e)
    BY <1>3, <2>14 DEF StaysListed
  <2>23. /\ Top(t).l \in {e, None} /\ f.l \in {e, None} /\ g.l \in {e, None}
         /\ Top(t).at # "join" /\ UNCHANGED group
    BY <1>1, <1>2, <2>1, <2>2
  <2>24. QED
    BY <1>1, <2>4, <2>7, <2>8, <2>12, <2>13, <2>15, <2>17, <2>18, <2>19,
       <2>20, <2>21, <2>22, <2>23, PairInvariant
<1>6. QED
  BY <1>4, <1>5 DEF Deliver

----------------------------------------------------------------------------
(* The disposer of an entry. *)

LEMMA CallDisposerKeeps ==
    ASSUME BusInv, NEW t \in Threads, NEW e \in Listeners, CallDisposer(t, e)
    PROVE  BusInv'
<1>1. PICK f \in Frames : /\ f = Frame("handle", e) /\ f.at = "handle"
                          /\ f.l = e /\ f.todo = <<>>
  BY FrameTyping DEF Calls
<1>2. TypeOK /\ <<f>> \in Seq(Frames) /\ Call(t, <<f>>)
  BY <1>1 DEF BusInv, CallDisposer
<1>3. Changes(t, Len(stack[t]), <<f>>)
  BY <1>2, Calling
<1>4. /\ UNCHANGED <<hooks, flags, entry, counts, group>>
      /\ fiber' = fiber /\ CanCall(t) /\ cleanup[e] # None
  BY DEF CallDisposer, Available
<1>5. TypeOK' /\ listed' = listed
  BY <1>2, <1>3, <1>4, PlainStep DEF TypeOK
<1>6. (\A x : Others(x)) /\ \A l : SameEntry(l)
  BY <1>4, SameFields DEF counts
<1>7. EntryFacts(e) /\ Driven(e) /\ e # None
  BY DEF BusInv, EntriesFit, AllDriven
<1>8. installed[e] /\ Born(e) /\ Added(e)
  <2>1. installed[e]
    BY <1>4, <1>7 DEF EntryFacts
  <2>2. QED
    BY <2>1, NoSuchCall DEF Born, Added
<1>9. PICK c : c = <<f>> /\ Len(c) = 1 /\ c[1] = f
  BY Single
<1> DEFINE k == Len(stack[t])
<1>10. Changes(t, k, c) /\ k \in Nat
  BY <1>2, <1>3, <1>9, Typing
<1>11. \A C : /\ Has(C, e) => Has(C, e)'
              /\ "handle" \notin C => (Has(C, e)' => Has(C, e))
              /\ "handle" \in C => Has(C, e)'
  <2> TAKE C
  <2>1. ~Drops(t, k, C, e)
    BY <1>10 DEF Drops
  <2>2. Brings(c, C, e) <=> "handle" \in C
    BY <1>1, <1>9 DEF Brings
  <2>3. QED
    BY <1>2, <1>10, <2>1, <2>2, HasSteps
<1>12. \A l : Swept(l) => Swept(l)'
  BY <1>2, <1>10, SweptSteps
<1>13. /\ Has({"install"}, e) <=> Has({"install"}, e)'
       /\ Has({"add"}, e) <=> Has({"add"}, e)'
  BY <1>11
<1>14. Grows(e) /\ Born(e)' /\ Added(e)' /\ installed'[e]
  BY <1>6, <1>8, <1>13 DEF Grows, Born, Added, SameEntry
<1>15. EntryFacts(e)'
  BY <1>6, <1>7, <1>14, EntryStays
<1>16. Driven(e)'
  <2>1. (Has(Holding, e) => Has(Holding, e)') /\ Holding' = Holding
    BY <1>11 DEF Holding
  <2> HIDE DEF Holding
  <2>2. /\ Has({"unlist"}, e) => Has({"unlist"}, e)'
        /\ Has({"store"}, e) => Has({"store"}, e)'
        /\ Has({"check"}, e) => Has({"check"}, e)'
        /\ Has({"request", "once", "remove"}, e) =>
             Has({"request", "once", "remove"}, e)'
        /\ Has({"add", "unlist", "cleanup", "handle"}, e)'
        /\ Has({"unhook"}, e) => Has({"unhook"}, e)'
        /\ Has({"fn", "retire", "unhook"}, e) => Has({"fn", "retire", "unhook"}, e)'
    BY <1>11
  <2>3. QED
    BY <1>5, <1>6, <1>7, <1>8, <1>12, <1>13, <2>1, <2>2 DEF Driven, SameEntry
<1>17. IsFor(t, k, c, e)
  BY <1>1, <1>9, <1>10 DEF IsFor
<1>18. \A l \in Listeners : Grows(l)
  BY <1>2, <1>6, <1>10, <1>14, <1>17, OthersGrow
<1>19. \A g \in Frames : FrameFacts(g) => FrameFacts(g)'
  BY <1>6, <1>18, PlainFrames
<1>20. FrameFacts(f)' /\ OnTop(f)'
  BY <1>1, <1>7, <1>14, FrameFits DEF OpenCalls, UseCalls, Holding, OnTop
<1>21. /\ \A C \in Roles : f.at \notin C
       /\ f.at \notin ReleaseCalls \cup {"install", "store", "add"}
  BY <1>1 DEF Roles, Holding, ReleaseCalls
<1>22. StaysListed(e)
  BY <1>5, <1>12 DEF StaysListed
<1>23. stack[t] # <<>> => Top(t).at # "join"
  BY <1>4 DEF CanCall, In
<1>24. GroupsFit'
  BY <1>4, <1>6, <1>10, <1>14, <1>17, <1>23, SameGroups
<1>25. QED
  BY <1>1, <1>3, <1>4, <1>5, <1>6, <1>14, <1>15, <1>16, <1>19, <1>20, <1>21,
     <1>22, <1>24, CallInvariant

\* A request that finds the entry installed goes on to its Once; a request that
\* does not comes from a teardown, and leaves the release to the registration.
LEMMA RequestDisposeKeeps ==
    ASSUME BusInv, NEW t \in Threads, RequestDispose(t)
    PROVE  BusInv'
<1>1. stack[t] # <<>> /\ Top(t).at = "request" /\ TypeOK
  BY DEF RequestDispose, In, BusInv
<1>2. /\ UNCHANGED <<hooks, flags, listed, installed, disposer, releaseOnce,
                     handleOnce, counts, group>>
      /\ fiber' = fiber
      /\ Top(t).at \notin OpenCalls \cup {"install", "sweep"}
      /\ Top(t).at \in ReleaseCalls
  BY <1>1 DEF RequestDispose, OpenCalls, ReleaseCalls
<1>3. PICK e \in Listeners : e = Top(t).l /\ e # None
  BY <1>1, <1>2, TopFacts
<1>4. FrameFacts(Top(t)) /\ EntryFacts(e) /\ Driven(e) /\ Top(t) \in Frames
  BY <1>1, <1>2, <1>3, TopFacts
<1>5. Born(e) /\ Top(t).todo = <<>>
  BY <1>1, <1>3, <1>4 DEF FrameFacts
<1>6. CASE installed[e]
  <2>1. deferred' = deferred /\ Goto(t, "once")
    BY <1>3, <1>6 DEF RequestDispose, Subject
  <2>2. UNCHANGED <<hooks, flags, entry, counts, group>>
    BY <1>2, <2>1 DEF entry
  <2>3. SameEntry(e) /\ listed' = listed
    BY <1>2, <2>2, SameFields DEF counts
  <2>4. PICK f \in Frames : /\ Changes(t, Len(stack[t]) - 1, <<f>>)
                            /\ f.at = "once" /\ f.l = e /\ f.todo = <<>>
    <3>1. "once" \in Calls
      BY DEF Calls
    <3>2. PICK f \in Frames : /\ Changes(t, Len(stack[t]) - 1, <<f>>)
                              /\ f.at = "once" /\ f.l = Top(t).l
                              /\ f.todo = Top(t).todo
      BY <1>1, <2>1, <3>1, Going
    <3>3. QED
      BY <1>3, <1>5, <3>2
  <2>5. /\ \A C : "request" \notin C \/ "once" \in C => (Has(C, e) => Has(C, e)')
        /\ \A C : "once" \notin C => (Has(C, e)' => Has(C, e))
        /\ Swept(e) => Swept(e)'
    BY <1>1, <1>2, <1>3, <2>4, GoMoves
  <2>6. Born(e)' /\ installed'[e]
    BY <1>6, <2>3 DEF Born, SameEntry
  <2>7. Driven(e)'
    <3>1. (Has(Holding, e) => Has(Holding, e)') /\ Holding' = Holding
      BY <2>5 DEF Holding
    <3> HIDE DEF Holding
    <3>2. /\ Has({"unlist"}, e) => Has({"unlist"}, e)'
          /\ Has({"store"}, e) => Has({"store"}, e)'
          /\ Has({"check"}, e) => Has({"check"}, e)'
          /\ Has({"request", "once", "remove"}, e) =>
               Has({"request", "once", "remove"}, e)'
          /\ Has({"add", "unlist", "cleanup", "handle"}, e) =>
               Has({"add", "unlist", "cleanup", "handle"}, e)'
          /\ Has({"unhook"}, e) => Has({"unhook"}, e)'
          /\ Has({"fn", "retire", "unhook"}, e) =>
               Has({"fn", "retire", "unhook"}, e)'
          /\ Has({"add"}, e)' => Has({"add"}, e)
      BY <2>5
    <3>3. QED
      BY <1>4, <1>5, <2>3, <2>5, <3>1, <3>2 DEF Driven, SameEntry
  <2>8. FrameFacts(f)' /\ OnTop(f)'
    BY <1>3, <2>4, <2>6, FrameFits DEF OpenCalls, UseCalls, Holding, OnTop
  <2>9. /\ \A C \in Roles : f.at \notin C
        /\ \A g \in Frames : CallsOn(g, Top(t)) => CallsOn(g, f)
    BY <1>1, <1>3, <2>4 DEF Roles, Holding, CallsOn, ReleaseCalls
  <2>10. QED
    BY <1>1, <1>2, <1>3, <2>2, <2>4, <2>7, <2>8, <2>9, StillGo
<1>7. CASE ~installed[e]
  <2>1. deferred' = [deferred EXCEPT ![e] = TRUE] /\ Return(t)
    BY <1>3, <1>7 DEF RequestDispose, Subject, Set
  <2>2. Changes(t, Len(stack[t]) - 1, <<>>)
    BY <1>1, <2>1, Returning
  <2>3. fiber # "open" /\ listed = <<>>
    <3>1. ~Has({"unlist"}, e)
      BY <1>7, HasFacts DEF FrameFacts
    <3>2. QED
      BY <1>1, <1>2, <1>3, <3>1, ReleaseIsAsked
  <2>4. /\ hooks' = hooks /\ fired' = fired /\ released' = released
        /\ cleanup' = cleanup /\ listed' = listed /\ installed' = installed
        /\ disposer' = disposer /\ releaseOnce' = releaseOnce
        /\ handleOnce' = handleOnce /\ runs' = runs /\ dispatches' = dispatches
        /\ spawned' = spawned /\ serving' = serving
    BY <1>2 DEF flags, counts, group
  <2>5. /\ deferred' \in [Listeners -> BOOLEAN] /\ deferred'[e]
        /\ \A x \in Listeners : x # e => deferred'[x] = deferred[x]
    BY <1>1, <2>1 DEF TypeOK
  <2>6. Others(e)
    BY <1>2, <2>4, <2>5 DEF Others, SameEntry
  <2>7. TypeOK'
    <3>1. stack' \in [Threads -> Seq(Frames)]
      BY <2>2 DEF Changes
    <3>2. Frames' = Frames /\ Disposers' = Disposers /\ OnceStates' = OnceStates
      BY DEF Frames, Disposers, OnceStates, Calls
    <3> HIDE DEF Frames, Disposers, OnceStates
    <3>3. QED
      BY <1>1, <1>2, <2>4, <2>5, <3>1, <3>2 DEF TypeOK
  <2>8. /\ \A C : "request" \notin C => (Has(C, e) => Has(C, e)')
        /\ \A C : Has(C, e)' => Has(C, e)
        /\ \A l : Swept(l) => Swept(l)'
    BY <1>1, <1>2, <1>3, <2>2, ReturnMoves
  <2>9. /\ Has({"install"}, e) <=> Has({"install"}, e)'
        /\ Has({"add"}, e) <=> Has({"add"}, e)'
    BY <2>8
  <2>10. Grows(e) /\ (Born(e) <=> Born(e)') /\ (Added(e) <=> Added(e)')
    BY <2>4, <2>9 DEF Grows, Born, Added
  <2>11. EntryFacts(e)'
    BY <1>2, <1>4, <1>5, <1>7, <2>3, <2>4, <2>5, <2>10 DEF EntryFacts
  <2>12. Driven(e)'
    <3>1. (Has(Holding, e) => Has(Holding, e)') /\ Holding' = Holding
      BY <2>8 DEF Holding
    <3> HIDE DEF Holding
    <3>2. /\ Has({"unlist"}, e) => Has({"unlist"}, e)'
          /\ Has({"store"}, e) => Has({"store"}, e)'
          /\ Has({"check"}, e) => Has({"check"}, e)'
          /\ Has({"unhook"}, e) => Has({"unhook"}, e)'
          /\ Has({"fn", "retire", "unhook"}, e) =>
               Has({"fn", "retire", "unhook"}, e)'
      BY <2>8
    <3>3. e \notin ToSet(listed')
      BY <2>3, <2>4, EmptyToSet
    <3>4. QED
      BY <1>4, <1>7, <2>4, <2>5, <2>10, <3>1, <3>2, <3>3 DEF Driven
  <2>13. ASSUME NEW g \in Frames, FrameFacts(g), g.l = e
         PROVE  FrameFacts(g)'
    <3>1. /\ g.at \in {"add", "install"} => ~installed'[e]
          /\ g.at = "store" => cleanup'[e] = None
          /\ g.at = "unlist" => handleOnce'[e] = "running"
          /\ g.at \in Holding => releaseOnce'[e] = "running"
      BY <2>4, <2>13 DEF FrameFacts
    <3>2. QED
      BY <2>4, <2>10, <2>13, <3>1, FramesFit
  <2>14. ASSUME NEW g \in Frames, FrameFacts(g)', CallsOn(g, Top(t))
         PROVE  OnTop(g)'
    <3>1. g.at \in {"unlist", "sweep"} /\ (g.at = "unlist" => g.l = e)
      BY <1>1, <1>2, <1>3, <2>14 DEF CallsOn
    <3>2. g.at = "unlist" => installed'[g.l]
      BY <2>14 DEF FrameFacts
    <3>3. g.at = "sweep"
      BY <1>7, <2>4, <3>1, <3>2
    <3>4. QED
      BY <3>3 DEF OnTop
  <2>15. StaysListed(e)
    BY <2>4, <2>8 DEF StaysListed
  <2>16. Top(t).at # "join" /\ UNCHANGED group
    BY <1>1, <1>2
  <2>17. QED
    BY <1>1, <1>3, <2>2, <2>6, <2>7, <2>10, <2>11, <2>12, <2>13, <2>14, <2>15,
       <2>16, ReturnInvariant
<1>8. QED
  BY <1>6, <1>7

LEMMA EnterOnceKeeps ==
    ASSUME BusInv, NEW t \in Threads, EnterOnce(t)
    PROVE  BusInv'
<1>1. stack[t] # <<>> /\ Top(t).at = "once" /\ TypeOK
  BY DEF EnterOnce, In, BusInv
<1>2. /\ UNCHANGED <<hooks, flags, listed, installed, deferred, disposer,
                     handleOnce, counts, group>>
      /\ fiber' = fiber
      /\ Top(t).at \notin OpenCalls \cup {"install", "sweep"}
      /\ Top(t).at \in ReleaseCalls
  BY <1>1 DEF EnterOnce, OpenCalls, ReleaseCalls
<1>3. PICK e \in Listeners : e = Top(t).l /\ e # None
  BY <1>1, <1>2, TopFacts
<1>4. FrameFacts(Top(t)) /\ EntryFacts(e) /\ Driven(e) /\ Top(t) \in Frames
  BY <1>1, <1>2, <1>3, TopFacts
<1>5. Born(e) /\ Top(t).todo = <<>> /\ installed[e]
  BY <1>1, <1>3, <1>4 DEF FrameFacts
<1>6. CASE releaseOnce[e] = "done" /\ releaseOnce' = releaseOnce /\ Return(t)
  <2>1. UNCHANGED <<hooks, flags, entry, counts, group>>
    BY <1>2, <1>6 DEF entry
  <2>2. SameEntry(e) /\ listed' = listed
    BY <1>2, <2>1, SameFields DEF counts
  <2>3. Changes(t, Len(stack[t]) - 1, <<>>)
    BY <1>1, <1>6, Returning
  <2>4. /\ \A C : "once" \notin C => (Has(C, e) => Has(C, e)')
        /\ \A C : Has(C, e)' => Has(C, e)
        /\ Swept(e) => Swept(e)'
    BY <1>1, <1>2, <1>3, <2>3, ReturnMoves
  <2>5. e \notin ToSet(hooks) /\ ~Has({"add"}, e)
    BY <1>4, <1>5, <1>6, NoSuchCall DEF EntryFacts
  <2>6. Driven(e)'
    <3>1. (Has(Holding, e) => Has(Holding, e)') /\ Holding' = Holding
      BY <2>4 DEF Holding
    <3> HIDE DEF Holding
    <3>2. /\ Has({"unlist"}, e) => Has({"unlist"}, e)'
          /\ Has({"store"}, e) => Has({"store"}, e)'
          /\ Has({"check"}, e) => Has({"check"}, e)'
          /\ Has({"add", "unlist", "cleanup", "handle"}, e) =>
               Has({"add", "unlist", "cleanup", "handle"}, e)'
          /\ Has({"add"}, e)' => Has({"add"}, e)
      BY <2>4
    <3>3. QED
      BY <1>4, <1>5, <2>2, <2>4, <2>5, <3>1, <3>2 DEF Driven, SameEntry
  <2>7. ASSUME NEW g \in Frames, FrameFacts(g)', CallsOn(g, Top(t))
        PROVE  OnTop(g)'
    <3>1. g.at \in {"store", "unlist", "sweep"} /\ (g.at # "sweep" => g.l = e)
      BY <1>1, <1>2, <1>3, <2>7 DEF CallsOn
    <3>2. QED
      BY <1>5, <1>6, <2>2, <3>1 DEF OnTop, SameEntry
  <2>8. QED
    BY <1>1, <1>2, <1>3, <2>1, <2>3, <2>6, <2>7, StillReturn
<1>7. CASE /\ releaseOnce[e] = "new"
           /\ releaseOnce' = [releaseOnce EXCEPT ![e] = "running"]
           /\ Goto(t, "remove")
  <2>1. PICK f \in Frames : /\ Changes(t, Len(stack[t]) - 1, <<f>>)
                            /\ f.at = "remove" /\ f.l = e /\ f.todo = <<>>
    <3>1. "remove" \in Calls
      BY DEF Calls
    <3>2. PICK f \in Frames : /\ Changes(t, Len(stack[t]) - 1, <<f>>)
                              /\ f.at = "remove" /\ f.l = Top(t).l
                              /\ f.todo = Top(t).todo
      BY <1>1, <1>7, <3>1, Going
    <3>3. QED
      BY <1>3, <1>5, <3>2
  <2>2. /\ hooks' = hooks /\ fired' = fired /\ released' = released
        /\ cleanup' = cleanup /\ listed' = listed /\ installed' = installed
        /\ deferred' = deferred /\ disposer' = disposer
        /\ handleOnce' = handleOnce /\ runs' = runs /\ dispatches' = dispatches
        /\ spawned' = spawned /\ serving' = serving
    BY <1>2 DEF flags, counts, group
  <2>3. /\ releaseOnce' \in [Listeners -> OnceStates] /\ releaseOnce'[e] = "running"
        /\ \A x \in Listeners : x # e => releaseOnce'[x] = releaseOnce[x]
    BY <1>1, <1>7 DEF TypeOK, OnceStates
  <2>4. Others(e)
    BY <1>2, <2>2, <2>3 DEF Others, SameEntry
  <2>5. TypeOK'
    <3>1. stack' \in [Threads -> Seq(Frames)]
      BY <2>1 DEF Changes
    <3>2. Frames' = Frames /\ Disposers' = Disposers /\ OnceStates' = OnceStates
      BY DEF Frames, Disposers, OnceStates, Calls
    <3> HIDE DEF Frames, Disposers, OnceStates
    <3>3. QED
      BY <1>1, <1>2, <2>2, <2>3, <3>1, <3>2 DEF TypeOK
  <2>6. /\ \A C : "once" \notin C \/ "remove" \in C => (Has(C, e) => Has(C, e)')
        /\ \A C : "remove" \notin C => (Has(C, e)' => Has(C, e))
        /\ \A C : "remove" \in C => Has(C, e)'
        /\ \A l : Swept(l) => Swept(l)'
    BY <1>1, <1>2, <1>3, <2>1, GoMoves
  <2>7. /\ Has({"install"}, e) <=> Has({"install"}, e)'
        /\ Has({"add"}, e) <=> Has({"add"}, e)'
    BY <2>6
  <2>8. Grows(e) /\ Born(e)' /\ (Added(e) <=> Added(e)')
    BY <1>5, <1>7, <2>2, <2>7 DEF Grows, Born, Added
  <2>9. EntryFacts(e)'
    BY <1>2, <1>4, <1>5, <2>2, <2>3, <2>8 DEF EntryFacts
  <2>10. Driven(e)'
    <3>1. Has(Holding, e)' /\ Holding' = Holding
      BY <2>6 DEF Holding
    <3> HIDE DEF Holding
    <3>2. /\ Has({"unlist"}, e) => Has({"unlist"}, e)'
          /\ Has({"store"}, e) => Has({"store"}, e)'
          /\ Has({"check"}, e) => Has({"check"}, e)'
          /\ Has({"request", "once", "remove"}, e)'
          /\ Has({"add", "unlist", "cleanup", "handle"}, e) =>
               Has({"add", "unlist", "cleanup", "handle"}, e)'
          /\ Has({"unhook"}, e) => Has({"unhook"}, e)'
          /\ Has({"fn", "retire", "unhook"}, e) =>
               Has({"fn", "retire", "unhook"}, e)'
      BY <2>6
    <3>3. QED
      BY <1>4, <1>5, <2>2, <3>1, <3>2 DEF Driven
  <2>11. FrameFacts(f)' /\ OnTop(f)'
    BY <1>3, <1>5, <2>1, <2>2, <2>3, <2>8, FrameFits
       DEF OpenCalls, UseCalls, Holding, OnTop
  <2>12. ASSUME NEW g \in Frames, FrameFacts(g), g.l = e
         PROVE  FrameFacts(g)'
    <3>1. /\ g.at \in {"add", "install"} => ~installed'[e]
          /\ g.at = "store" => cleanup'[e] = None
          /\ g.at = "unlist" => handleOnce'[e] = "running"
          /\ g.at \in Holding => releaseOnce'[e] = "running"
      BY <2>2, <2>3, <2>12 DEF FrameFacts
    <3>2. QED
      BY <2>2, <2>8, <2>12, <3>1, FramesFit
  <2>13. \A C \in Roles : f.at \in C => ~Has(C, e)
    <3>1. ~Has(Holding, e)
      BY <1>7, NoSuchCall
    <3>2. \A C \in Roles : f.at \in C => C = Holding
      BY <2>1 DEF Roles
    <3>3. QED
      BY <3>1, <3>2
  <2>14. \A g \in Frames : CallsOn(g, Top(t)) => CallsOn(g, f)
    BY <1>1, <1>3, <2>1 DEF CallsOn, ReleaseCalls
  <2>15. StaysListed(e)
    BY <2>2, <2>6 DEF StaysListed
  <2>16. Top(t).at # "join" /\ UNCHANGED group
    BY <1>1, <1>2
  <2>17. QED
    BY <1>1, <1>2, <1>3, <2>1, <2>4, <2>5, <2>8, <2>9, <2>10, <2>11, <2>12,
       <2>13, <2>14, <2>15, <2>16, GoInvariant
<1>8. QED
  BY <1>3, <1>6, <1>7 DEF EnterOnce, Subject

LEMMA RemoveListenerKeeps ==
    ASSUME BusInv, NEW t \in Threads, RemoveListener(t)
    PROVE  BusInv'
<1>1. stack[t] # <<>> /\ Top(t).at = "remove" /\ TypeOK
  BY DEF RemoveListener, In, BusInv
<1>2. /\ UNCHANGED <<flags, entry, counts, group>>
      /\ fiber' = fiber
      /\ Top(t).at \notin OpenCalls \cup {"install", "sweep"}
      /\ Top(t).at \in ReleaseCalls /\ Top(t).at \in Holding
  BY <1>1 DEF RemoveListener, OpenCalls, ReleaseCalls, Holding
<1>3. PICK e \in Listeners : e = Top(t).l /\ e # None
  BY <1>1, <1>2, TopFacts
<1>4. FrameFacts(Top(t)) /\ EntryFacts(e) /\ Driven(e) /\ Top(t) \in Frames
  BY <1>1, <1>2, <1>3, TopFacts
<1>5. Born(e) /\ Top(t).todo = <<>> /\ installed[e] /\ releaseOnce[e] = "running"
  BY <1>1, <1>2, <1>3, <1>4 DEF FrameFacts
<1>6. hooks' = RemoveFirst(hooks, e) /\ Goto(t, "onceDone")
  BY <1>3 DEF RemoveListener, Subject
<1>7. PICK f \in Frames : /\ Changes(t, Len(stack[t]) - 1, <<f>>)
                          /\ f.at = "onceDone" /\ f.l = e /\ f.todo = <<>>
  <2>1. "onceDone" \in Calls
    BY DEF Calls
  <2>2. PICK f \in Frames : /\ Changes(t, Len(stack[t]) - 1, <<f>>)
                            /\ f.at = "onceDone" /\ f.l = Top(t).l
                            /\ f.todo = Top(t).todo
    BY <1>1, <1>6, <2>1, Going
  <2>3. QED
    BY <1>3, <1>5, <2>2
<1>8. /\ hooks' \in Seq(Listeners) /\ IsInjective(hooks')
      /\ ToSet(hooks') = ToSet(hooks) \ {e}
  BY <1>1, <1>6, RemovingFirst DEF TypeOK
<1>9. /\ released' = released /\ fired' = fired /\ cleanup' = cleanup
      /\ listed' = listed /\ installed' = installed /\ deferred' = deferred
      /\ disposer' = disposer /\ releaseOnce' = releaseOnce
      /\ handleOnce' = handleOnce /\ runs' = runs /\ dispatches' = dispatches
      /\ spawned' = spawned /\ serving' = serving
  BY <1>2 DEF flags, entry, counts, group
<1>10. Others(e)
  BY <1>2, <1>8, <1>9 DEF Others, SameEntry
<1>11. TypeOK'
  <2>1. stack' \in [Threads -> Seq(Frames)]
    BY <1>7 DEF Changes
  <2>2. Frames' = Frames /\ Disposers' = Disposers /\ OnceStates' = OnceStates
    BY DEF Frames, Disposers, OnceStates, Calls
  <2> HIDE DEF Frames, Disposers, OnceStates
  <2>3. QED
    BY <1>1, <1>2, <1>8, <1>9, <2>1, <2>2 DEF TypeOK
<1>12. /\ \A C : "remove" \notin C \/ "onceDone" \in C => (Has(C, e) => Has(C, e)')
       /\ \A C : "onceDone" \notin C => (Has(C, e)' => Has(C, e))
       /\ \A C : "onceDone" \in C => Has(C, e)'
       /\ \A l : Swept(l) => Swept(l)'
  BY <1>1, <1>2, <1>3, <1>7, GoMoves
<1>13. /\ Has({"install"}, e) <=> Has({"install"}, e)'
       /\ Has({"add"}, e) <=> Has({"add"}, e)'
  BY <1>12
<1>14. Grows(e) /\ Born(e)' /\ (Added(e) <=> Added(e)') /\ e \notin ToSet(hooks')
  BY <1>5, <1>8, <1>9, <1>13 DEF Grows, Born, Added
<1>15. ~Has({"add"}, e)
  BY <1>5, NoSuchCall
<1>16. EntryFacts(e)'
  BY <1>2, <1>4, <1>9, <1>14 DEF EntryFacts
<1>17. Driven(e)'
  <2>1. Has(Holding, e)' /\ Holding' = Holding
    BY <1>12 DEF Holding
  <2> HIDE DEF Holding
  <2>2. /\ Has({"unlist"}, e) => Has({"unlist"}, e)'
        /\ Has({"store"}, e) => Has({"store"}, e)'
        /\ Has({"check"}, e) => Has({"check"}, e)'
    BY <1>12
  <2>3. e \in ToSet(listed') => Has({"add", "unlist", "cleanup", "handle"}, e)'
    <3>1. e \in ToSet(listed') => Has({"unlist"}, e)
      BY <1>1, <1>2, <1>3, <1>9, ReleaseIsAsked, EmptyToSet
    <3>2. Has({"unlist"}, e)' => Has({"add", "unlist", "cleanup", "handle"}, e)'
      BY DEF Has
    <3>3. QED
      BY <2>2, <3>1, <3>2
  <2>4. QED
    BY <1>4, <1>5, <1>9, <1>13, <1>14, <1>15, <2>1, <2>2, <2>3 DEF Driven
<1>18. FrameFacts(f)' /\ OnTop(f)'
  BY <1>3, <1>5, <1>7, <1>9, <1>14, FrameFits
     DEF OpenCalls, UseCalls, Holding, OnTop
<1>19. ASSUME NEW g \in Frames, FrameFacts(g), g.l = e
       PROVE  FrameFacts(g)'
  <2>1. /\ g.at \in {"add", "install"} => ~installed'[e]
        /\ g.at = "store" => cleanup'[e] = None
        /\ g.at = "unlist" => handleOnce'[e] = "running"
        /\ g.at \in Holding => releaseOnce'[e] = "running"
    BY <1>9, <1>19 DEF FrameFacts
  <2>2. QED
    BY <1>9, <1>14, <1>19, <2>1, FramesFit
<1>20. \A C \in Roles : f.at \in C => Top(t).at \in C
  BY <1>1, <1>7 DEF Roles, Holding
<1>21. \A g \in Frames : CallsOn(g, Top(t)) => CallsOn(g, f)
  BY <1>1, <1>3, <1>7 DEF CallsOn, ReleaseCalls
<1>22. StaysListed(e)
  BY <1>9, <1>12 DEF StaysListed
<1>23. Top(t).at # "join" /\ UNCHANGED group
  BY <1>1, <1>2
<1>24. QED
  BY <1>1, <1>2, <1>3, <1>7, <1>10, <1>11, <1>14, <1>16, <1>17, <1>18, <1>19,
     <1>20, <1>21, <1>22, <1>23, GoInvariant

LEMMA LeaveOnceKeeps ==
    ASSUME BusInv, NEW t \in Threads, LeaveOnce(t)
    PROVE  BusInv'
<1>1. stack[t] # <<>> /\ Top(t).at = "onceDone" /\ TypeOK
  BY DEF LeaveOnce, In, BusInv
<1>2. /\ UNCHANGED <<hooks, flags, listed, installed, deferred, disposer,
                     handleOnce, counts, group>>
      /\ fiber' = fiber /\ Return(t)
      /\ Top(t).at \notin OpenCalls \cup {"install", "sweep"}
      /\ Top(t).at \in ReleaseCalls /\ Top(t).at \in Holding
  BY <1>1 DEF LeaveOnce, OpenCalls, ReleaseCalls, Holding
<1>3. PICK e \in Listeners : e = Top(t).l /\ e # None
  BY <1>1, <1>2, TopFacts
<1>4. FrameFacts(Top(t)) /\ EntryFacts(e) /\ Driven(e) /\ Top(t) \in Frames
  BY <1>1, <1>2, <1>3, TopFacts
<1>5. /\ installed[e] /\ releaseOnce[e] = "running" /\ e \notin ToSet(hooks)
  BY <1>1, <1>2, <1>3, <1>4 DEF FrameFacts
<1>6. Changes(t, Len(stack[t]) - 1, <<>>)
  BY <1>1, <1>2, Returning
<1>7. releaseOnce' = [releaseOnce EXCEPT ![e] = "done"]
  BY <1>3 DEF LeaveOnce, Subject
<1>8. /\ hooks' = hooks /\ fired' = fired /\ released' = released
      /\ cleanup' = cleanup /\ listed' = listed /\ installed' = installed
      /\ deferred' = deferred /\ disposer' = disposer
      /\ handleOnce' = handleOnce /\ runs' = runs /\ dispatches' = dispatches
      /\ spawned' = spawned /\ serving' = serving
  BY <1>2 DEF flags, counts, group
<1>9. /\ releaseOnce' \in [Listeners -> OnceStates] /\ releaseOnce'[e] = "done"
      /\ \A x \in Listeners : x # e => releaseOnce'[x] = releaseOnce[x]
  BY <1>1, <1>7 DEF TypeOK, OnceStates
<1>10. Others(e)
  BY <1>2, <1>8, <1>9 DEF Others, SameEntry
<1>11. TypeOK'
  <2>1. stack' \in [Threads -> Seq(Frames)]
    BY <1>6 DEF Changes
  <2>2. Frames' = Frames /\ Disposers' = Disposers /\ OnceStates' = OnceStates
    BY DEF Frames, Disposers, OnceStates, Calls
  <2> HIDE DEF Frames, Disposers, OnceStates
  <2>3. QED
    BY <1>1, <1>2, <1>8, <1>9, <2>1, <2>2 DEF TypeOK
<1>12. /\ \A C : "onceDone" \notin C => (Has(C, e) => Has(C, e)')
       /\ \A C : Has(C, e)' => Has(C, e)
       /\ \A l : Swept(l) => Swept(l)'
  BY <1>1, <1>2, <1>3, <1>6, ReturnMoves
<1>13. /\ Has({"install"}, e) <=> Has({"install"}, e)'
       /\ Has({"add"}, e) <=> Has({"add"}, e)'
  BY <1>12
<1>14. Grows(e) /\ (Born(e) <=> Born(e)') /\ (Added(e) <=> Added(e)')
  BY <1>5, <1>8, <1>13 DEF Grows, Born, Added
<1>15. EntryFacts(e)'
  BY <1>2, <1>4, <1>5, <1>8, <1>9, <1>14 DEF EntryFacts
<1>16. Driven(e)'
  <2>1. Holding' = Holding
    BY DEF Holding
  <2> HIDE DEF Holding
  <2>2. /\ Has({"unlist"}, e) => Has({"unlist"}, e)'
        /\ Has({"store"}, e) => Has({"store"}, e)'
        /\ Has({"check"}, e) => Has({"check"}, e)'
        /\ Has({"add", "unlist", "cleanup", "handle"}, e) =>
             Has({"add", "unlist", "cleanup", "handle"}, e)'
        /\ ~Has({"add"}, e)'
    BY <1>5, <1>12, NoSuchCall
  <2>3. QED
    BY <1>4, <1>5, <1>8, <1>9, <1>14, <2>1, <2>2 DEF Driven
<1>17. ASSUME NEW g \in Frames, FrameFacts(g), g.l = e,
              \A C \in Roles : ~(g.at \in C /\ Top(t).at \in C)
       PROVE  FrameFacts(g)'
  <2>1. g.at \notin Holding
    BY <1>2, <1>17 DEF Roles
  <2>2. /\ g.at \in {"add", "install"} => ~installed'[e]
        /\ g.at = "store" => cleanup'[e] = None
        /\ g.at = "unlist" => handleOnce'[e] = "running"
    BY <1>8, <1>17 DEF FrameFacts
  <2>3. QED
    BY <1>8, <1>14, <1>17, <2>1, <2>2, FramesFit
<1>18. ASSUME NEW g \in Frames, FrameFacts(g)', CallsOn(g, Top(t))
       PROVE  OnTop(g)'
  <2>1. g.at \in {"store", "unlist", "sweep"} /\ (g.at # "sweep" => g.l = e)
    BY <1>1, <1>2, <1>3, <1>18 DEF CallsOn
  <2>2. QED
    BY <1>5, <1>8, <1>9, <2>1 DEF OnTop
<1>19. StaysListed(e)
  BY <1>8, <1>12 DEF StaysListed
<1>20. Top(t).at # "join" /\ UNCHANGED group
  BY <1>1, <1>2
<1>21. QED
  BY <1>1, <1>3, <1>6, <1>10, <1>11, <1>14, <1>15, <1>16, <1>17, <1>18, <1>19,
     <1>20, ReturnInvariant

LEMMA EnterHandleKeeps ==
    ASSUME BusInv, NEW t \in Threads, EnterHandle(t)
    PROVE  BusInv'
<1>1. stack[t] # <<>> /\ Top(t).at = "handle" /\ TypeOK
  BY DEF EnterHandle, In, BusInv
<1>2. /\ UNCHANGED <<hooks, flags, listed, installed, deferred, disposer,
                     releaseOnce, counts, group>>
      /\ fiber' = fiber
      /\ Top(t).at \notin OpenCalls \cup {"install", "sweep"}
      /\ Top(t).at \in Unawaited
  BY <1>1 DEF EnterHandle, OpenCalls, Unawaited
<1>3. PICK e \in Listeners : e = Top(t).l /\ e # None
  BY <1>1, <1>2, TopFacts
<1>4. FrameFacts(Top(t)) /\ EntryFacts(e) /\ Driven(e) /\ Top(t) \in Frames
  BY <1>1, <1>2, <1>3, TopFacts
<1>5. installed[e] /\ Born(e) /\ Added(e)
  BY <1>1, <1>3, <1>4 DEF FrameFacts, UseCalls
<1>6. CASE /\ disposer[e] = "noop" \/ handleOnce[e] = "done"
           /\ handleOnce' = handleOnce /\ Return(t)
  <2>1. UNCHANGED <<hooks, flags, entry, counts, group>>
    BY <1>2, <1>6 DEF entry
  <2>2. SameEntry(e) /\ listed' = listed
    BY <1>2, <2>1, SameFields DEF counts
  <2>3. Changes(t, Len(stack[t]) - 1, <<>>)
    BY <1>1, <1>6, Returning
  <2>4. /\ \A C : "handle" \notin C => (Has(C, e) => Has(C, e)')
        /\ \A C : Has(C, e)' => Has(C, e)
        /\ Swept(e) => Swept(e)'
    BY <1>1, <1>2, <1>3, <2>3, ReturnMoves
  <2>5. e \notin ToSet(listed) /\ ~Has({"add"}, e)
    BY <1>4, <1>5, <1>6, EmptyToSet DEF EntryFacts, Added
  <2>6. Driven(e)'
    <3>1. (Has(Holding, e) => Has(Holding, e)') /\ Holding' = Holding
      BY <2>4 DEF Holding
    <3> HIDE DEF Holding
    <3>2. /\ Has({"unlist"}, e) => Has({"unlist"}, e)'
          /\ Has({"store"}, e) => Has({"store"}, e)'
          /\ Has({"check"}, e) => Has({"check"}, e)'
          /\ Has({"request", "once", "remove"}, e) =>
               Has({"request", "once", "remove"}, e)'
          /\ Has({"unhook"}, e) => Has({"unhook"}, e)'
          /\ Has({"fn", "retire", "unhook"}, e) =>
               Has({"fn", "retire", "unhook"}, e)'
          /\ Has({"add"}, e)' => Has({"add"}, e)
      BY <2>4
    <3>3. QED
      BY <1>4, <1>5, <2>2, <2>4, <2>5, <3>1, <3>2 DEF Driven, SameEntry
  <2>7. QED
    BY <1>1, <1>2, <1>3, <2>1, <2>3, <2>6, UnawaitedCalls, StillReturn
<1>7. CASE /\ disposer[e] = "handle" /\ handleOnce[e] = "new"
           /\ handleOnce' = [handleOnce EXCEPT ![e] = "running"]
           /\ Continue(t, <<Frame("unlist", e), Frame("request", e)>>)
  <2>1. PICK f \in Frames : /\ f = Frame("unlist", e) /\ f.at = "unlist"
                            /\ f.l = e /\ f.todo = <<>>
    BY FrameTyping DEF Calls
  <2>2. PICK g \in Frames : /\ g = Frame("request", e) /\ g.at = "request"
                            /\ g.l = e /\ g.todo = <<>>
    BY FrameTyping DEF Calls
  <2>3. Continue(t, <<f, g>>) /\ <<f, g>> \in Seq(Frames)
    BY <1>7, <2>1, <2>2
  <2>4. Changes(t, Len(stack[t]) - 1, <<f, g>>)
    BY <1>1, <2>3, Continuing
  <2>5. /\ hooks' = hooks /\ fired' = fired /\ released' = released
        /\ cleanup' = cleanup /\ listed' = listed /\ installed' = installed
        /\ deferred' = deferred /\ disposer' = disposer
        /\ releaseOnce' = releaseOnce /\ runs' = runs /\ dispatches' = dispatches
        /\ spawned' = spawned /\ serving' = serving
    BY <1>2 DEF flags, counts, group
  <2>6. /\ handleOnce' \in [Listeners -> OnceStates] /\ handleOnce'[e] = "running"
        /\ \A x \in Listeners : x # e => handleOnce'[x] = handleOnce[x]
    BY <1>1, <1>7 DEF TypeOK, OnceStates
  <2>7. Others(e)
    BY <1>2, <2>5, <2>6 DEF Others, SameEntry
  <2>8. TypeOK'
    <3>1. stack' \in [Threads -> Seq(Frames)]
      BY <2>4 DEF Changes
    <3>2. Frames' = Frames /\ Disposers' = Disposers /\ OnceStates' = OnceStates
      BY DEF Frames, Disposers, OnceStates, Calls
    <3> HIDE DEF Frames, Disposers, OnceStates
    <3>3. QED
      BY <1>1, <1>2, <2>5, <2>6, <3>1, <3>2 DEF TypeOK
  <2>9. \A C : /\ Has(C, e) => Has(C, e)' \/ "handle" \in C
               /\ Has(C, e)' => Has(C, e) \/ "unlist" \in C \/ "request" \in C
               /\ "unlist" \in C \/ "request" \in C => Has(C, e)'
    BY <1>1, <1>3, <2>1, <2>2, <2>4, PairHas
  <2>10. /\ Has({"install"}, e) <=> Has({"install"}, e)'
         /\ Has({"add"}, e) <=> Has({"add"}, e)'
    BY <2>9
  <2>11. Grows(e) /\ Born(e)' /\ Added(e)' /\ installed'[e]
    BY <1>5, <2>5, <2>10 DEF Grows, Born, Added
  <2>12. EntryFacts(e)'
    BY <1>2, <1>4, <1>5, <2>5, <2>6, <2>11 DEF EntryFacts
  <2>13. \A x : Swept(x) => Swept(x)'
    <3>1. PICK c : c = <<f, g>> /\ Len(c) = 2 /\ c[1] = f /\ c[2] = g
      <4>1. Len(<<f, g>>) = 2 /\ <<f, g>>[1] = f /\ <<f, g>>[2] = g
        OBVIOUS
      <4>2. QED
        BY <4>1, Zenon
    <3>2. QED
      BY <1>1, <2>4, <3>1, SweptSteps
  <2>14. Driven(e)'
    <3>1. (Has(Holding, e) => Has(Holding, e)') /\ Holding' = Holding
      BY <2>9 DEF Holding
    <3> HIDE DEF Holding
    <3>2. /\ Has({"unlist"}, e)'
          /\ Has({"store"}, e) => Has({"store"}, e)'
          /\ Has({"check"}, e) => Has({"check"}, e)'
          /\ Has({"request", "once", "remove"}, e)'
          /\ Has({"add", "unlist", "cleanup", "handle"}, e)'
          /\ Has({"unhook"}, e) => Has({"unhook"}, e)'
          /\ Has({"fn", "retire", "unhook"}, e) =>
               Has({"fn", "retire", "unhook"}, e)'
      BY <2>9
    <3>3. QED
      BY <1>4, <1>5, <2>5, <3>1, <3>2 DEF Driven
  <2>15. FrameFacts(f)'
    BY <1>3, <2>1, <2>6, <2>11, FrameFits DEF OpenCalls, UseCalls, Holding
  <2>16. FrameFacts(g)' /\ OnTop(g)'
    BY <1>3, <2>2, <2>11, FrameFits DEF OpenCalls, UseCalls, Holding, OnTop
  <2>17. ASSUME NEW h \in Frames, FrameFacts(h), h.l = e
         PROVE  FrameFacts(h)'
    <3>1. /\ h.at \in {"add", "install"} => ~installed'[e]
          /\ h.at = "store" => cleanup'[e] = None
          /\ h.at = "unlist" => handleOnce'[e] = "running"
          /\ h.at \in Holding => releaseOnce'[e] = "running"
      BY <2>5, <2>6, <2>17 DEF FrameFacts
    <3>2. QED
      BY <2>5, <2>11, <2>17, <3>1, FramesFit
  <2>18. \A C \in Roles : (f.at \in C => ~Has(C, f.l)) /\ g.at \notin C
    <3>1. ~Has({"unlist"}, e)
      BY <1>7, NoSuchCall
    <3>2. \A C \in Roles : f.at \in C => C = {"unlist"}
      BY <2>1 DEF Roles, Holding
    <3>3. \A C \in Roles : g.at \notin C
      BY <2>2 DEF Roles, Holding
    <3>4. QED
      BY <2>1, <3>1, <3>2, <3>3
  <2>19. /\ CallsOn(f, g) /\ f.at \notin ReleaseCalls /\ f.at \in Unawaited
    BY <2>1, <2>2 DEF CallsOn, Callers, ReleaseCalls, Unawaited
  <2>20. \A h \in Frames : CallsOn(h, Top(t)) => CallsOn(h, f)
    BY <1>2, <2>19, UnawaitedCalls
  <2>21. StaysListed(e)
    BY <2>5, <2>13 DEF StaysListed
  <2>22. /\ Top(t).l \in {e, None} /\ f.l \in {e, None} /\ g.l \in {e, None}
         /\ Top(t).at # "join" /\ UNCHANGED group
    BY <1>1, <1>2, <1>3, <2>1, <2>2
  <2>23. QED
    BY <1>1, <2>1, <2>4, <2>7, <2>8, <2>11, <2>12, <2>14, <2>15, <2>16, <2>17,
       <2>18, <2>19, <2>20, <2>21, <2>22, PairInvariant
<1>8. QED
  BY <1>3, <1>6, <1>7 DEF EnterHandle, Subject

LEMMA UnlistKeeps ==
    ASSUME BusInv, NEW t \in Threads, Unlist(t)
    PROVE  BusInv'
<1>1. stack[t] # <<>> /\ Top(t).at = "unlist" /\ TypeOK
  BY DEF Unlist, In, BusInv
<1>2. /\ UNCHANGED <<hooks, flags, installed, deferred, disposer, releaseOnce,
                     counts, group>>
      /\ fiber' = fiber /\ Return(t)
      /\ Top(t).at \notin OpenCalls \cup {"install", "sweep"}
      /\ Top(t).at \in Unawaited
  BY <1>1 DEF Unlist, OpenCalls, Unawaited
<1>3. PICK e \in Listeners : e = Top(t).l /\ e # None
  BY <1>1, <1>2, TopFacts
<1>4. FrameFacts(Top(t)) /\ EntryFacts(e) /\ Driven(e) /\ Top(t) \in Frames
      /\ OnTop(Top(t))
  BY <1>1, <1>2, <1>3, TopFacts
<1>5. installed[e] /\ Added(e) /\ releaseOnce[e] = "done" /\ e \notin ToSet(hooks)
  BY <1>1, <1>3, <1>4 DEF FrameFacts, UseCalls, OnTop, EntryFacts
<1>6. Changes(t, Len(stack[t]) - 1, <<>>)
  BY <1>1, <1>2, Returning
<1>7. /\ listed' = RemoveFirst(listed, e)
      /\ handleOnce' = [handleOnce EXCEPT ![e] = "done"]
  BY <1>3 DEF Unlist, Subject
<1>8. /\ hooks' = hooks /\ fired' = fired /\ released' = released
      /\ cleanup' = cleanup /\ installed' = installed
      /\ deferred' = deferred /\ disposer' = disposer
      /\ releaseOnce' = releaseOnce /\ runs' = runs /\ dispatches' = dispatches
      /\ spawned' = spawned /\ serving' = serving
  BY <1>2 DEF flags, counts, group
<1>9. /\ handleOnce' \in [Listeners -> OnceStates] /\ handleOnce'[e] = "done"
      /\ \A x \in Listeners : x # e => handleOnce'[x] = handleOnce[x]
  BY <1>1, <1>7 DEF TypeOK, OnceStates
<1>10. /\ listed' \in Seq(Listeners) /\ IsInjective(listed')
       /\ ToSet(listed') = ToSet(listed) \ {e}
       /\ listed = <<>> => listed' = <<>>
  BY <1>1, <1>7, RemovingFirst, RemovingFromEmpty DEF TypeOK
<1>11. Others(e)
  BY <1>2, <1>8, <1>9, <1>10 DEF Others, SameEntry
<1>12. TypeOK'
  <2>1. stack' \in [Threads -> Seq(Frames)]
    BY <1>6 DEF Changes
  <2>2. Frames' = Frames /\ Disposers' = Disposers /\ OnceStates' = OnceStates
    BY DEF Frames, Disposers, OnceStates, Calls
  <2> HIDE DEF Frames, Disposers, OnceStates
  <2>3. QED
    BY <1>1, <1>2, <1>8, <1>9, <1>10, <2>1, <2>2 DEF TypeOK
<1>13. /\ \A C : "unlist" \notin C => (Has(C, e) => Has(C, e)')
       /\ \A C : Has(C, e)' => Has(C, e)
       /\ \A l : Swept(l) => Swept(l)'
  BY <1>1, <1>2, <1>3, <1>6, ReturnMoves
<1>14. /\ Has({"install"}, e) <=> Has({"install"}, e)'
       /\ Has({"add"}, e) <=> Has({"add"}, e)'
  BY <1>13
<1>15. Grows(e) /\ (Born(e) <=> Born(e)') /\ (Added(e) <=> Added(e)')
  BY <1>5, <1>8, <1>14 DEF Grows, Born, Added
<1>16. EntryFacts(e)'
  BY <1>2, <1>4, <1>5, <1>8, <1>9, <1>10, <1>15 DEF EntryFacts
<1>17. Driven(e)'
  <2>1. (Has(Holding, e) => Has(Holding, e)') /\ Holding' = Holding
    BY <1>13 DEF Holding
  <2> HIDE DEF Holding
  <2>2. /\ Has({"store"}, e) => Has({"store"}, e)'
        /\ Has({"check"}, e) => Has({"check"}, e)'
        /\ ~Has({"add"}, e)'
    BY <1>5, <1>13, NoSuchCall
  <2>3. QED
    BY <1>4, <1>5, <1>8, <1>9, <1>10, <1>15, <2>1, <2>2 DEF Driven
<1>18. ASSUME NEW g \in Frames, FrameFacts(g), g.l = e,
              \A C \in Roles : ~(g.at \in C /\ Top(t).at \in C)
       PROVE  FrameFacts(g)'
  <2>1. g.at # "unlist"
    BY <1>1, <1>18 DEF Roles
  <2>2. /\ g.at \in {"add", "install"} => ~installed'[e]
        /\ g.at = "store" => cleanup'[e] = None
        /\ g.at \in Holding => releaseOnce'[e] = "running"
    BY <1>8, <1>18 DEF FrameFacts
  <2>3. QED
    BY <1>8, <1>15, <1>18, <2>1, <2>2, FramesFit
<1>19. \A g \in Frames : FrameFacts(g)' /\ CallsOn(g, Top(t)) => OnTop(g)'
  BY <1>2, UnawaitedCalls
<1>20. StaysListed(e)
  BY <1>10, <1>13 DEF StaysListed
<1>21. Top(t).at # "join" /\ UNCHANGED group
  BY <1>1, <1>2
<1>22. QED
  BY <1>1, <1>3, <1>6, <1>11, <1>12, <1>15, <1>16, <1>17, <1>18, <1>19, <1>20,
     <1>21, ReturnInvariant

----------------------------------------------------------------------------
(* The registration of a listener. *)

LEMMA AddKeeps ==
    ASSUME BusInv, NEW t \in Threads, Add(t)
    PROVE  BusInv'
<1>1. stack[t] # <<>> /\ Top(t).at = "add" /\ TypeOK
  BY DEF Add, In, BusInv
<1>2. /\ UNCHANGED <<flags, entry, counts, group>>
      /\ fiber' = fiber /\ Return(t)
      /\ Top(t).at \notin OpenCalls \cup {"install", "sweep"}
  BY <1>1 DEF Add, OpenCalls
<1>3. PICK e \in Listeners : e = Top(t).l /\ e # None
  BY <1>1, <1>2, TopFacts
<1>4. FrameFacts(Top(t)) /\ EntryFacts(e) /\ Driven(e) /\ Top(t) \in Frames
      /\ Has({"add"}, e)
  BY <1>1, <1>2, <1>3, TopFacts
<1>5. ~installed[e] /\ e \notin ToSet(hooks) /\ Born(e) /\ ~Added(e)
  BY <1>1, <1>3, <1>4 DEF FrameFacts, Added
<1>6. Changes(t, Len(stack[t]) - 1, <<>>)
  BY <1>1, <1>2, Returning
<1>7. /\ hooks' \in Seq(Listeners) /\ IsInjective(hooks')
      /\ ToSet(hooks') = ToSet(hooks) \cup {e}
  <2>1. hooks' \in {<<e>> \o hooks, Append(hooks, e)}
    BY <1>3 DEF Add, Subject
  <2>2. hooks \in Seq(Listeners) /\ IsInjective(hooks)
    BY <1>1 DEF TypeOK
  <2>3. CASE hooks' = <<e>> \o hooks
    BY <1>5, <2>2, <2>3, Prepending
  <2>4. CASE hooks' = Append(hooks, e)
    BY <1>5, <2>2, <2>4, Appending
  <2>5. QED
    BY <2>1, <2>3, <2>4
<1>8. /\ released' = released /\ fired' = fired /\ cleanup' = cleanup
      /\ listed' = listed /\ installed' = installed /\ deferred' = deferred
      /\ disposer' = disposer /\ releaseOnce' = releaseOnce
      /\ handleOnce' = handleOnce /\ runs' = runs /\ dispatches' = dispatches
      /\ spawned' = spawned /\ serving' = serving
  BY <1>2 DEF flags, entry, counts, group
<1>9. Others(e)
  BY <1>2, <1>7, <1>8 DEF Others, SameEntry
<1>10. TypeOK'
  <2>1. stack' \in [Threads -> Seq(Frames)]
    BY <1>6 DEF Changes
  <2>2. Frames' = Frames /\ Disposers' = Disposers /\ OnceStates' = OnceStates
    BY DEF Frames, Disposers, OnceStates, Calls
  <2> HIDE DEF Frames, Disposers, OnceStates
  <2>3. QED
    BY <1>1, <1>2, <1>7, <1>8, <2>1, <2>2 DEF TypeOK
<1>11. /\ \A C : "add" \notin C => (Has(C, e) => Has(C, e)')
       /\ \A C : Has(C, e)' => Has(C, e)
       /\ \A l : Swept(l) => Swept(l)'
  BY <1>1, <1>2, <1>3, <1>6, ReturnMoves
<1>12. Has({"install"}, e) <=> Has({"install"}, e)'
  BY <1>11
<1>13. ~Has({"add"}, e)'
  <2>1. PICK c : c = <<>> /\ Len(c) = 0
    BY EmptySeq
  <2>2. Len(stack[t]) \in Nat \ {0}
    BY <1>1, TopTyping
  <2>3. Drops(t, Len(stack[t]) - 1, {"add"}, e)
    BY <1>1, <1>3, <2>2 DEF Drops
  <2>4. ~Brings(c, {"add"}, e)
    BY <2>1 DEF Brings
  <2>5. {"add"} \in Roles
    BY DEF Roles
  <2>6. QED
    BY <1>1, <1>6, <2>1, <2>3, <2>4, <2>5, HasGone DEF BusInv
<1>14. Grows(e) /\ (Born(e) <=> Born(e)') /\ Added(e)'
  BY <1>5, <1>8, <1>12, <1>13 DEF Grows, Born, Added
<1>15. releaseOnce[e] # "done" /\ ~fired[e] /\ ~released[e]
  BY <1>4, <1>5 DEF EntryFacts
<1>16. EntryFacts(e)'
  BY <1>2, <1>4, <1>8, <1>14, <1>15 DEF EntryFacts
<1>17. Driven(e)'
  <2>1. (Has(Holding, e) => Has(Holding, e)') /\ Holding' = Holding
    BY <1>11 DEF Holding
  <2> HIDE DEF Holding
  <2>2. /\ Has({"unlist"}, e) => Has({"unlist"}, e)'
        /\ Has({"store"}, e) => Has({"store"}, e)'
        /\ Has({"check"}, e) => Has({"check"}, e)'
        /\ Has({"request", "once", "remove"}, e) =>
             Has({"request", "once", "remove"}, e)'
    BY <1>11
  <2>3. e \in ToSet(hooks')
    BY <1>7
  <2>4. QED
    BY <1>4, <1>8, <1>11, <1>14, <1>15, <2>1, <2>2, <2>3 DEF Driven
<1>18. ASSUME NEW g \in Frames, FrameFacts(g), g.l = e,
              \A C \in Roles : ~(g.at \in C /\ Top(t).at \in C)
       PROVE  FrameFacts(g)'
  <2>1. g.at # "add"
    BY <1>1, <1>18 DEF Roles
  <2>2. g.at \notin {"cleanup", "onceDone"}
    BY <1>5, <1>18 DEF FrameFacts, UseCalls, Holding
  <2>3. /\ g.at \in {"add", "install"} => ~installed'[e]
        /\ g.at = "store" => cleanup'[e] = None
        /\ g.at = "unlist" => handleOnce'[e] = "running"
        /\ g.at \in Holding => releaseOnce'[e] = "running"
    BY <1>8, <1>18 DEF FrameFacts
  <2>4. QED
    BY <1>8, <1>14, <1>18, <2>1, <2>2, <2>3, FramesFit
<1>19. ASSUME NEW g \in Frames, CallsOn(g, Top(t))
       PROVE  OnTop(g)'
  <2>1. g.at = "install" /\ g.l = e
    BY <1>1, <1>3, <1>19 DEF CallsOn
  <2>2. QED
    BY <1>14, <2>1 DEF OnTop
<1>20. StaysListed(e)
  BY <1>8, <1>11 DEF StaysListed
<1>21. Top(t).at # "join" /\ UNCHANGED group
  BY <1>1, <1>2
<1>22. QED
  BY <1>1, <1>3, <1>6, <1>9, <1>10, <1>14, <1>16, <1>17, <1>18, <1>19, <1>20,
     <1>21, ReturnInvariant

LEMMA SetDisposeKeeps ==
    ASSUME BusInv, NEW t \in Threads, SetDispose(t)
    PROVE  BusInv'
<1>1. stack[t] # <<>> /\ Top(t).at = "install" /\ TypeOK
  BY DEF SetDispose, In, BusInv
<1>2. /\ UNCHANGED <<hooks, flags, listed, deferred, releaseOnce, handleOnce,
                     counts, group>>
      /\ fiber' = fiber
      /\ Top(t).at \notin OpenCalls \cup {"sweep"}
  BY <1>1 DEF SetDispose, OpenCalls
<1>3. PICK e \in Listeners : e = Top(t).l /\ e # None
  BY <1>1, <1>2, TopFacts
<1>4. FrameFacts(Top(t)) /\ EntryFacts(e) /\ Driven(e) /\ Top(t) \in Frames
      /\ OnTop(Top(t))
  BY <1>1, <1>2, <1>3, TopFacts
<1>5. ~installed[e] /\ Born(e) /\ Added(e) /\ Top(t).todo = <<>>
      /\ ~Has({"add"}, e)
  BY <1>1, <1>3, <1>4 DEF FrameFacts, OnTop, Added
<1>6. /\ hooks' = hooks /\ fired' = fired /\ released' = released
      /\ cleanup' = cleanup /\ listed' = listed /\ deferred' = deferred
      /\ releaseOnce' = releaseOnce /\ handleOnce' = handleOnce
      /\ runs' = runs /\ dispatches' = dispatches
      /\ spawned' = spawned /\ serving' = serving
  BY <1>2 DEF flags, counts, group
<1>7. PICK d \in Disposers :
        /\ disposer' = [disposer EXCEPT ![e] = d]
        /\ d # None /\ (d = "noop" <=> deferred[e])
        /\ IF deferred[e] THEN Goto(t, "once") ELSE Return(t)
  <2>1. "noop" # None /\ "handle" # None
    BY DEF None
  <2>2. QED
    BY <1>3, <2>1 DEF SetDispose, Subject, Disposers
<1>8. /\ installed' \in [Listeners -> BOOLEAN] /\ installed'[e]
      /\ disposer' \in [Listeners -> Disposers] /\ disposer'[e] = d
      /\ \A x \in Listeners : x # e => installed'[x] = installed[x]
      /\ \A x \in Listeners : x # e => disposer'[x] = disposer[x]
  <2>1. installed' = [installed EXCEPT ![e] = TRUE]
    BY <1>3 DEF SetDispose, Subject, Set
  <2>2. installed \in [Listeners -> BOOLEAN] /\ disposer \in [Listeners -> Disposers]
    BY <1>1 DEF TypeOK
  <2> HIDE DEF Disposers
  <2>3. QED
    BY <1>7, <2>1, <2>2
<1>9. Others(e)
  BY <1>2, <1>6, <1>8 DEF Others, SameEntry
<1>10. ASSUME stack' \in [Threads -> Seq(Frames)]
       PROVE  TypeOK'
  <2>1. Frames' = Frames /\ Disposers' = Disposers /\ OnceStates' = OnceStates
    BY DEF Frames, Disposers, OnceStates, Calls
  <2> HIDE DEF Frames, Disposers, OnceStates
  <2>2. QED
    BY <1>1, <1>2, <1>6, <1>8, <1>10, <2>1 DEF TypeOK
<1>11. ASSUME ~Has({"add"}, e)'
       PROVE  /\ Grows(e) /\ Born(e)' /\ Added(e)' /\ EntryFacts(e)'
  <2>1. Grows(e) /\ Born(e)' /\ Added(e)'
    BY <1>5, <1>6, <1>8, <1>11 DEF Grows, Born, Added
  <2>2. EntryFacts(e)'
    BY <1>2, <1>4, <1>6, <1>7, <1>8, <2>1 DEF EntryFacts
  <2>3. QED
    BY <2>1, <2>2
<1>12. ASSUME Grows(e), NEW g \in Frames, Has({g.at}, e), FrameFacts(g), g.l = e,
              \A C \in Roles : ~(g.at \in C /\ Top(t).at \in C)
       PROVE  FrameFacts(g)'
  <2>1. g.at # "install"
    BY <1>1, <1>12 DEF Roles
  <2>2. g.at # "add"
    BY <1>5, <1>12
  <2>3. /\ g.at = "store" => cleanup'[e] = None
        /\ g.at = "unlist" => handleOnce'[e] = "running"
        /\ g.at \in Holding => releaseOnce'[e] = "running"
    BY <1>6, <1>12 DEF FrameFacts
  <2>4. QED
    BY <1>6, <1>12, <2>1, <2>2, <2>3, FramesFit
<1>13. Top(t).at # "join" /\ UNCHANGED group
  BY <1>1, <1>2
<1>14. CASE deferred[e]
  <2>1. Goto(t, "once")
    BY <1>7, <1>14
  <2>2. PICK f \in Frames : /\ Changes(t, Len(stack[t]) - 1, <<f>>)
                            /\ f.at = "once" /\ f.l = e /\ f.todo = <<>>
    <3>1. "once" \in Calls
      BY DEF Calls
    <3>2. PICK f \in Frames : /\ Changes(t, Len(stack[t]) - 1, <<f>>)
                              /\ f.at = "once" /\ f.l = Top(t).l
                              /\ f.todo = Top(t).todo
      BY <1>1, <2>1, <3>1, Going
    <3>3. QED
      BY <1>3, <1>5, <3>2
  <2>3. /\ \A C : "install" \notin C \/ "once" \in C => (Has(C, e) => Has(C, e)')
        /\ \A C : "once" \notin C => (Has(C, e)' => Has(C, e))
        /\ \A C : "once" \in C => Has(C, e)'
        /\ \A l : Swept(l) => Swept(l)'
    BY <1>1, <1>2, <1>3, <2>2, GoMoves
  <2>4. ~Has({"add"}, e)'
    BY <1>5, <2>3
  <2>5. TypeOK'
    BY <1>10, <2>2 DEF Changes
  <2>6. Grows(e) /\ Born(e)' /\ Added(e)' /\ EntryFacts(e)'
    BY <1>11, <2>4
  <2>7. Driven(e)'
    <3>1. (Has(Holding, e) => Has(Holding, e)') /\ Holding' = Holding
      BY <2>3 DEF Holding
    <3> HIDE DEF Holding
    <3>2. /\ Has({"unlist"}, e) => Has({"unlist"}, e)'
          /\ Has({"store"}, e) => Has({"store"}, e)'
          /\ Has({"check"}, e) => Has({"check"}, e)'
          /\ Has({"request", "once", "remove"}, e)'
          /\ Has({"add", "unlist", "cleanup", "handle"}, e) =>
               Has({"add", "unlist", "cleanup", "handle"}, e)'
          /\ Has({"unhook"}, e) => Has({"unhook"}, e)'
          /\ Has({"fn", "retire", "unhook"}, e) =>
               Has({"fn", "retire", "unhook"}, e)'
      BY <2>3
    <3>3. QED
      BY <1>4, <1>5, <1>6, <3>1, <3>2 DEF Driven
  <2>8. FrameFacts(f)' /\ OnTop(f)'
    BY <1>3, <1>8, <2>2, <2>6, FrameFits DEF OpenCalls, UseCalls, Holding, OnTop
  <2>9. /\ \A C \in Roles : f.at \notin C
        /\ \A g \in Frames : CallsOn(g, Top(t)) => CallsOn(g, f)
    BY <1>1, <1>3, <2>2 DEF Roles, Holding, CallsOn, ReleaseCalls
  <2>10. StaysListed(e)
    BY <1>6, <2>3 DEF StaysListed
  <2>11. fiber' # "open" /\ listed' = <<>>
    BY <1>2, <1>4, <1>6, <1>14 DEF EntryFacts
  <2>12. QED
    BY <1>1, <1>3, <1>9, <1>12, <1>13, <2>2, <2>5, <2>6, <2>7, <2>8, <2>9,
       <2>10, <2>11, GoInvariant
<1>15. CASE ~deferred[e]
  <2>1. Return(t)
    BY <1>7, <1>15
  <2>2. Changes(t, Len(stack[t]) - 1, <<>>)
    BY <1>1, <2>1, Returning
  <2>3. /\ \A C : "install" \notin C => (Has(C, e) => Has(C, e)')
        /\ \A C : Has(C, e)' => Has(C, e)
        /\ \A l : Swept(l) => Swept(l)'
    BY <1>1, <1>2, <1>3, <2>2, ReturnMoves
  <2>4. ~Has({"add"}, e)'
    BY <1>5, <2>3
  <2>5. TypeOK'
    BY <1>10, <2>2 DEF Changes
  <2>6. Grows(e) /\ Born(e)' /\ Added(e)' /\ EntryFacts(e)'
    BY <1>11, <2>4
  <2>7. Driven(e)'
    <3>1. (Has(Holding, e) => Has(Holding, e)') /\ Holding' = Holding
      BY <2>3 DEF Holding
    <3> HIDE DEF Holding
    <3>2. /\ Has({"unlist"}, e) => Has({"unlist"}, e)'
          /\ Has({"store"}, e) => Has({"store"}, e)'
          /\ Has({"check"}, e) => Has({"check"}, e)'
          /\ Has({"request", "once", "remove"}, e) =>
               Has({"request", "once", "remove"}, e)'
          /\ Has({"add", "unlist", "cleanup", "handle"}, e) =>
               Has({"add", "unlist", "cleanup", "handle"}, e)'
          /\ Has({"unhook"}, e) => Has({"unhook"}, e)'
          /\ Has({"fn", "retire", "unhook"}, e) =>
               Has({"fn", "retire", "unhook"}, e)'
      BY <2>3
    <3>3. QED
      BY <1>4, <1>5, <1>6, <1>15, <2>3, <2>4, <3>1, <3>2 DEF Driven
  <2>8. ASSUME NEW g \in Frames, CallsOn(g, Top(t))
        PROVE  OnTop(g)'
    <3>1. g.at \in {"store", "sweep"} /\ (g.at = "store" => g.l = e)
      BY <1>1, <1>3, <2>8 DEF CallsOn, ReleaseCalls
    <3>2. QED
      BY <1>8, <3>1 DEF OnTop
  <2>9. StaysListed(e)
    BY <1>6, <2>3 DEF StaysListed
  <2>10. QED
    BY <1>1, <1>3, <1>9, <1>12, <1>13, <2>2, <2>5, <2>6, <2>7, <2>8, <2>9,
       ReturnInvariant
<1>16. QED
  BY <1>14, <1>15

LEMMA StoreCleanupKeeps ==
    ASSUME BusInv, NEW t \in Threads, StoreCleanup(t)
    PROVE  BusInv'
<1>1. stack[t] # <<>> /\ Top(t).at = "store" /\ TypeOK
  BY DEF StoreCleanup, In, BusInv
<1>2. /\ UNCHANGED <<hooks, fired, released, entry, counts, group>>
      /\ fiber' = fiber /\ Return(t)
      /\ Top(t).at \notin OpenCalls \cup {"install", "sweep"}
  BY <1>1 DEF StoreCleanup, OpenCalls
<1>3. PICK e \in Listeners : e = Top(t).l /\ e # None
  BY <1>1, <1>2, TopFacts
<1>4. FrameFacts(Top(t)) /\ EntryFacts(e) /\ Driven(e) /\ Top(t) \in Frames
      /\ OnTop(Top(t))
  BY <1>1, <1>2, <1>3, TopFacts
<1>5. installed[e] /\ disposer[e] # None /\ disposer[e] \in Disposers
  BY <1>1, <1>3, <1>4 DEF OnTop, EntryFacts, TypeOK
<1>6. Changes(t, Len(stack[t]) - 1, <<>>)
  BY <1>1, <1>2, Returning
<1>7. /\ hooks' = hooks /\ released' = released /\ fired' = fired
      /\ listed' = listed /\ installed' = installed /\ deferred' = deferred
      /\ disposer' = disposer /\ releaseOnce' = releaseOnce
      /\ handleOnce' = handleOnce /\ runs' = runs /\ dispatches' = dispatches
      /\ spawned' = spawned /\ serving' = serving
  BY <1>2 DEF entry, counts, group
<1>8. /\ cleanup' \in [Listeners -> Disposers] /\ cleanup'[e] # None
      /\ \A x \in Listeners : x # e => cleanup'[x] = cleanup[x]
  <2>1. cleanup' = [cleanup EXCEPT ![e] = disposer[e]]
    BY <1>3 DEF StoreCleanup, Subject
  <2>2. cleanup \in [Listeners -> Disposers]
    BY <1>1 DEF TypeOK
  <2> HIDE DEF Disposers
  <2>3. QED
    BY <1>5, <2>1, <2>2
<1>9. Others(e)
  BY <1>2, <1>7, <1>8 DEF Others, SameEntry
<1>10. TypeOK'
  <2>1. stack' \in [Threads -> Seq(Frames)]
    BY <1>6 DEF Changes
  <2>2. Frames' = Frames /\ Disposers' = Disposers /\ OnceStates' = OnceStates
    BY DEF Frames, Disposers, OnceStates, Calls
  <2> HIDE DEF Frames, Disposers, OnceStates
  <2>3. QED
    BY <1>1, <1>2, <1>7, <1>8, <2>1, <2>2 DEF TypeOK
<1>11. /\ \A C : "store" \notin C => (Has(C, e) => Has(C, e)')
       /\ \A C : Has(C, e)' => Has(C, e)
       /\ \A l : Swept(l) => Swept(l)'
  BY <1>1, <1>2, <1>3, <1>6, ReturnMoves
<1>12. /\ Has({"install"}, e) <=> Has({"install"}, e)'
       /\ Has({"add"}, e) <=> Has({"add"}, e)'
  BY <1>11
<1>13. Grows(e) /\ (Born(e) <=> Born(e)') /\ (Added(e) <=> Added(e)')
  BY <1>7, <1>8, <1>12 DEF Grows, Born, Added
<1>14. EntryFacts(e)'
  BY <1>2, <1>4, <1>5, <1>7, <1>13 DEF EntryFacts
<1>15. Driven(e)'
  <2>1. (Has(Holding, e) => Has(Holding, e)') /\ Holding' = Holding
    BY <1>11 DEF Holding
  <2> HIDE DEF Holding
  <2>2. /\ Has({"unlist"}, e) => Has({"unlist"}, e)'
        /\ Has({"check"}, e) => Has({"check"}, e)'
        /\ Has({"request", "once", "remove"}, e) =>
             Has({"request", "once", "remove"}, e)'
        /\ Has({"add", "unlist", "cleanup", "handle"}, e) =>
             Has({"add", "unlist", "cleanup", "handle"}, e)'
        /\ Has({"unhook"}, e) => Has({"unhook"}, e)'
        /\ Has({"fn", "retire", "unhook"}, e) =>
             Has({"fn", "retire", "unhook"}, e)'
    BY <1>11
  <2>3. QED
    BY <1>4, <1>7, <1>8, <1>11, <1>12, <2>1, <2>2 DEF Driven
<1>16. ASSUME NEW g \in Frames, FrameFacts(g), g.l = e,
              \A C \in Roles : ~(g.at \in C /\ Top(t).at \in C)
       PROVE  FrameFacts(g)'
  <2>1. g.at # "store"
    BY <1>1, <1>16 DEF Roles
  <2>2. /\ g.at \in {"add", "install"} => ~installed'[e]
        /\ g.at = "unlist" => handleOnce'[e] = "running"
        /\ g.at \in Holding => releaseOnce'[e] = "running"
    BY <1>7, <1>16 DEF FrameFacts
  <2>3. QED
    BY <1>7, <1>13, <1>16, <2>1, <2>2, FramesFit
<1>17. ASSUME NEW g \in Frames, CallsOn(g, Top(t))
       PROVE  OnTop(g)'
  <2>1. g.at = "check" /\ g.l = e
    BY <1>1, <1>3, <1>17 DEF CallsOn
  <2>2. QED
    BY <1>8, <2>1 DEF OnTop
<1>18. StaysListed(e)
  BY <1>7, <1>11 DEF StaysListed
<1>19. Top(t).at # "join" /\ UNCHANGED group
  BY <1>1, <1>2
<1>20. QED
  BY <1>1, <1>3, <1>6, <1>9, <1>10, <1>13, <1>14, <1>15, <1>16, <1>17, <1>18,
     <1>19, ReturnInvariant

\* A listener that is registered has not been on the bus, and nobody is in a
\* call for it.
LEMMA RegisterKeeps ==
    ASSUME BusInv, NEW t \in Threads, NEW e \in Listeners, Register(t, e)
    PROVE  BusInv'
<1>1. TypeOK /\ EntryFacts(e) /\ e # None /\ CanCall(t) /\ fiber = "open"
  BY DEF BusInv, EntriesFit, Register
<1>2. /\ UNCHANGED <<hooks, flags, installed, deferred, disposer, releaseOnce,
                     handleOnce, counts, group>>
      /\ fiber' = fiber
      /\ disposer[e] = None /\ e \notin ToSet(listed)
      /\ listed' = Append(listed, e)
  BY DEF Register
<1>3. \A C : ~Has(C, e)
  <2>1. \A u \in Threads : \A i \in 1..Len(stack[u]) : stack[u][i].l # e
    <3>1. \A u \in Threads : DOMAIN stack[u] = 1..Len(stack[u])
      BY <1>1, Typing, LenProperties
    <3>2. QED
      BY <3>1 DEF Register
  <2>2. QED
    BY <2>1 DEF Has
<1>4. ~installed[e] /\ ~Born(e) /\ ~Added(e)
  BY <1>1, <1>2, <1>3 DEF EntryFacts, Born, Added
<1>5. /\ cleanup[e] = None /\ releaseOnce[e] = "new" /\ handleOnce[e] = "new"
      /\ ~deferred[e] /\ ~fired[e] /\ ~released[e] /\ e \notin ToSet(hooks)
  BY <1>1, <1>4 DEF EntryFacts
<1>6. PICK a \in Frames : /\ a = Frame("check", e) /\ a.at = "check"
                          /\ a.l = e /\ a.todo = <<>>
  BY FrameTyping DEF Calls
<1>7. PICK b \in Frames : /\ b = Frame("store", e) /\ b.at = "store"
                          /\ b.l = e /\ b.todo = <<>>
  BY FrameTyping DEF Calls
<1>8. PICK f \in Frames : /\ f = Frame("install", e) /\ f.at = "install"
                          /\ f.l = e /\ f.todo = <<>>
  BY FrameTyping DEF Calls
<1>9. PICK g \in Frames : /\ g = Frame("add", e) /\ g.at = "add"
                          /\ g.l = e /\ g.todo = <<>>
  BY FrameTyping DEF Calls
<1>10. PICK c : /\ c = <<a, b, f, g>> /\ Len(c) = 4
                /\ c[1] = a /\ c[2] = b /\ c[3] = f /\ c[4] = g
  <2>1. /\ Len(<<a, b, f, g>>) = 4
        /\ <<a, b, f, g>>[1] = a /\ <<a, b, f, g>>[2] = b
        /\ <<a, b, f, g>>[3] = f /\ <<a, b, f, g>>[4] = g
    OBVIOUS
  <2>2. QED
    BY <2>1, Zenon
<1> DEFINE k == Len(stack[t])
<1>11. Changes(t, k, c) /\ k \in Nat
  <2>1. Call(t, c)
    BY <1>6, <1>7, <1>8, <1>9, <1>10, Zenon DEF Register
  <2>2. c \in Seq(Frames)
    BY <1>10
  <2>3. QED
    BY <1>1, <2>1, <2>2, Calling, Typing
<1>12. \A i \in 1..Len(c) : /\ c[i] \in Frames /\ c[i].l = e /\ c[i].todo = <<>>
                            /\ i = 1 => c[i].at = "check"
                            /\ i = 2 => c[i].at = "store"
                            /\ i = 3 => c[i].at = "install"
                            /\ i = 4 => c[i].at = "add"
                            /\ i \in {1, 2, 3, 4}
  BY <1>6, <1>7, <1>8, <1>9, <1>10
<1>13. \A C : /\ "check" \in C \/ "store" \in C \/ "install" \in C \/ "add" \in C
                   => Has(C, e)'
              /\ Has(C, e)' => \/ "check" \in C \/ "store" \in C
                               \/ "install" \in C \/ "add" \in C
  <2> TAKE C
  <2>1. Brings(c, C, e) <=> \/ "check" \in C \/ "store" \in C
                            \/ "install" \in C \/ "add" \in C
    <3>1. /\ "check" \in C \/ "store" \in C \/ "install" \in C \/ "add" \in C
               => Brings(c, C, e)
      BY <1>6, <1>7, <1>8, <1>9, <1>10 DEF Brings
    <3>2. Brings(c, C, e) => \/ "check" \in C \/ "store" \in C
                             \/ "install" \in C \/ "add" \in C
      BY <1>12 DEF Brings
    <3>3. QED
      BY <3>1, <3>2
  <2>2. QED
    BY <1>1, <1>3, <1>11, <2>1, HasSteps
<1>14. /\ listed' \in Seq(Listeners) /\ IsInjective(listed')
       /\ ToSet(listed') = ToSet(listed) \cup {e}
  BY <1>1, <1>2, Appending DEF TypeOK
<1>15. /\ hooks' = hooks /\ fired' = fired /\ released' = released
       /\ cleanup' = cleanup /\ installed' = installed /\ deferred' = deferred
       /\ disposer' = disposer /\ releaseOnce' = releaseOnce
       /\ handleOnce' = handleOnce /\ runs' = runs /\ dispatches' = dispatches
       /\ spawned' = spawned /\ serving' = serving
  BY <1>2 DEF flags, counts, group
<1>16. Others(e)
  BY <1>1, <1>2, <1>14, <1>15 DEF Others, SameEntry
<1>17. TypeOK'
  <2>1. stack' \in [Threads -> Seq(Frames)]
    BY <1>11 DEF Changes
  <2>2. Frames' = Frames /\ Disposers' = Disposers /\ OnceStates' = OnceStates
    BY DEF Frames, Disposers, OnceStates, Calls
  <2> HIDE DEF Frames, Disposers, OnceStates
  <2>3. QED
    BY <1>1, <1>2, <1>14, <1>15, <2>1, <2>2 DEF TypeOK
<1>18. Born(e)' /\ Grows(e)
  BY <1>4, <1>5, <1>13, <1>15 DEF Born, Grows
<1>19. EntryFacts(e)'
  BY <1>1, <1>2, <1>4, <1>5, <1>15, <1>18 DEF EntryFacts
<1>20. Driven(e)'
  <2>1. /\ Has({"store"}, e)' /\ Has({"check"}, e)'
        /\ Has({"add", "unlist", "cleanup", "handle"}, e)'
    BY <1>13
  <2>2. e \in ToSet(listed') /\ e \notin ToSet(hooks')
    BY <1>5, <1>14, <1>15
  <2>3. QED
    BY <1>5, <1>15, <2>1, <2>2 DEF Driven
<1>21. \A i \in 1..Len(c) : FrameFacts(c[i])'
  <2>1. FrameFacts(a)' /\ FrameFacts(b)' /\ FrameFacts(f)' /\ FrameFacts(g)'
    BY <1>1, <1>4, <1>5, <1>6, <1>7, <1>8, <1>9, <1>15, <1>18, FrameFits
       DEF OpenCalls, UseCalls, Holding
  <2>2. QED
    BY <1>10, <2>1
<1>22. IsFor(t, k, c, e)
  BY <1>11, <1>12 DEF IsFor
<1>23. \A h \in Frames : ~(Has({h.at}, e) /\ FrameFacts(h) /\ h.l = e
                            /\ Apart(t, k, h))
  BY <1>3
<1>24. TakesRoles(t, k, c)
  <2>1. \A C \in Roles : \A i, j \in 1..Len(c) :
            c[i].at \in C /\ c[j].at \in C => i = j
    BY <1>12 DEF Roles, Holding
  <2>2. QED
    BY <1>3, <1>12, <2>1 DEF TakesRoles
<1>25. Nests(t, k, c)
  <2>1. stack[t] # <<>> => Top(t).at = "fn"
    BY <1>1 DEF CanCall, In
  <2>2. CallsOn(a, b) /\ CallsOn(b, f) /\ CallsOn(f, g)
    BY <1>6, <1>7, <1>8, <1>9 DEF CallsOn, Callers, ReleaseCalls
  <2>3. stack[t] # <<>> => CallsOn(Top(t), a)
    BY <1>6, <2>1 DEF CallsOn, Callers, ReleaseCalls
  <2>4. \A i \in 1..Len(c) : i > 1 => CallsOn(c[i - 1], c[i])
    BY <1>10, <2>2
  <2>5. QED
    BY <1>10, <1>11, <2>3, <2>4 DEF Nests
<1>26. Uncovers(t, k, c)
  <2>1. OnTop(g)'
    BY <1>9 DEF OnTop
  <2>2. QED
    BY <1>10, <2>1 DEF Uncovers
<1>27. Asks(t, k, c)
  BY <1>12 DEF Asks, ReleaseCalls
<1>28. StaysListed(e)
  BY <1>1, <1>11, <1>14, SameListed
<1>29. GroupsFit'
  <2>1. stack[t] # <<>> => Top(t).at # "join"
    BY <1>1 DEF CanCall, In
  <2>2. UNCHANGED group
    BY <1>2
  <2>3. QED
    BY <1>11, <1>16, <1>18, <1>22, <2>1, <2>2, SameGroups
<1>30. Len(c) = 0 => k < Len(stack[t])
  BY <1>10
<1>31. QED
  BY <1>11, <1>16, <1>17, <1>18, <1>19, <1>20, <1>21, <1>22, <1>23, <1>24,
     <1>25, <1>26, <1>27, <1>28, <1>29, <1>30, StepInvariant

----------------------------------------------------------------------------
(* The invariant is inductive. *)

LEMMA BusInit ==
    ASSUME Init
    PROVE  BusInv
<1>1. ToSet(hooks) = {} /\ ToSet(listed) = {}
  BY EmptyToSet DEF Init
<1>2. TypeOK
  <2>1. \A S : <<>> \in Seq(S)
    BY EmptySeq
  <2>2. IsInjective(<<>>)
    BY DEF IsInjective
  <2> HIDE DEF Frames
  <2>3. QED
    BY <2>1, <2>2 DEF Init, TypeOK, OnceStates, Disposers
<1>3. \A t \in Threads : Len(stack[t]) = 0 /\ 1..Len(stack[t]) = {}
  <2> TAKE t \in Threads
  <2>1. stack[t] = <<>>
    BY DEF Init
  <2>2. Len(stack[t]) = 0
    BY <1>2, <2>1, Typing
  <2>3. QED
    BY <2>2
<1>4. \A C, l : ~Has(C, l)
  BY <1>3 DEF Has
<1>5. EntriesFit /\ AllDriven
  <2> SUFFICES ASSUME NEW l \in Listeners
               PROVE  EntryFacts(l) /\ Driven(l)
    BY DEF EntriesFit, AllDriven
  <2>1. /\ ~installed[l] /\ ~deferred[l] /\ ~fired[l] /\ ~released[l]
        /\ disposer[l] = None /\ cleanup[l] = None /\ runs[l] = 0
        /\ releaseOnce[l] = "new" /\ handleOnce[l] = "new"
    BY DEF Init
  <2>2. ~Born(l) /\ l \notin ToSet(hooks) /\ l \notin ToSet(listed)
    BY <1>1, <1>4, <2>1 DEF Born
  <2>3. EntryFacts(l)
    BY <2>1, <2>2 DEF EntryFacts, None
  <2>4. Driven(l)
    BY <1>4, <2>1, <2>2 DEF Driven
  <2>5. QED
    BY <2>3, <2>4
<1>6. CallsFit /\ OneInRole /\ Nesting /\ TopsFit /\ Asked
  BY <1>3 DEF CallsFit, OneInRole, Nesting, TopsFit, Asked
<1>7. GroupsFit
  <2>1. spawned = {} /\ \A u \in Threads : serving[u] = None /\ u # None
    BY DEF Init
  <2>2. QED
    BY <2>1 DEF GroupsFit
<1>8. QED
  BY <1>2, <1>5, <1>6, <1>7 DEF BusInv

LEMMA BusStutter ==
    ASSUME BusInv, UNCHANGED vars
    PROVE  BusInv'
<1>1. /\ UNCHANGED <<hooks, flags, entry, counts, group>>
      /\ fiber' = fiber /\ stack' = stack
  BY DEF vars
<1>2. (\A e : Others(e)) /\ \A l \in Listeners : SameEntry(l)
  BY <1>1, SameFields DEF counts
<1>3. listed' = listed /\ spawned' = spawned /\ serving' = serving
      /\ dispatches' = dispatches /\ runs' = runs
  BY <1>1 DEF entry, group, counts
<1>4. TypeOK'
  BY <1>1, <1>3, SameTyping DEF BusInv, TypeOK
<1>5. /\ \A C, l : Has(C, l)' <=> Has(C, l)
      /\ \A l : Swept(l)' <=> Swept(l)
  BY <1>1 DEF Has, Swept
<1>6. \A l \in Listeners : Grows(l) /\ (Born(l)' => Born(l))
  <2> TAKE l \in Listeners
  <2>1. /\ Has({"install"}, l) <=> Has({"install"}, l)'
        /\ Has({"add"}, l) <=> Has({"add"}, l)'
    BY <1>5
  <2>2. QED
    BY <1>2, <2>1 DEF Grows, Born, Added, SameEntry
<1>7. EntriesFit' /\ AllDriven'
  <2> SUFFICES ASSUME NEW l \in Listeners
               PROVE  EntryFacts(l)' /\ Driven(l)'
    BY DEF EntriesFit, AllDriven
  <2>1. EntryFacts(l) /\ Driven(l)
    BY DEF BusInv, EntriesFit, AllDriven
  <2>2. EntryFacts(l)'
    BY <1>2, <1>6, <2>1, EntryStays
  <2>3. Driven(l)'
    BY <1>2, <1>3, <1>5, <1>6, <2>1, DrivenStays
  <2>4. QED
    BY <2>2, <2>3
<1>8. CallsFit'
  <2> SUFFICES ASSUME NEW t \in Threads, NEW i \in 1..Len(stack[t])
               PROVE  FrameFacts(stack[t][i])'
    BY <1>1 DEF CallsFit
  <2>1. PICK f \in Frames : f = stack[t][i] /\ FrameFacts(f)
    BY Typing DEF BusInv, CallsFit
  <2>2. FrameFacts(f)'
    BY <1>2, <1>6, <2>1, PlainFrames
  <2>3. stack'[t][i] = f
    BY <1>1, <2>1
  <2>4. QED
    BY <2>2, <2>3
<1>9. OneInRole' /\ Nesting'
  BY <1>1 DEF BusInv, OneInRole, Roles, Holding, Nesting, CallsOn, Callers,
     ReleaseCalls
<1>10. TopsFit'
  <2> SUFFICES ASSUME NEW t \in Threads, NEW i \in 1..Len(stack[t]),
                      i = Len(stack[t])
               PROVE  OnTop(stack[t][i])'
    BY <1>1 DEF TopsFit
  <2>1. PICK f \in Frames : f = stack[t][i] /\ FrameFacts(f) /\ OnTop(f)
    BY Typing DEF BusInv, CallsFit, TopsFit
  <2>2. OnTop(f)'
    BY <1>6, <2>1, OnTopStays
  <2>3. stack'[t][i] = f
    BY <1>1, <2>1
  <2>4. QED
    BY <2>2, <2>3
<1>11. Asked'
  BY <1>1, <1>3 DEF BusInv, Asked, ReleaseCalls
<1>12. GroupsFit'
  <2>1. \A u \in Threads : In(u, "join") => In(u, "join")'
    BY <1>1 DEF In, Top
  <2>2. \A job \in spawned : job[1] \in Threads /\ job[2] \in Listeners
    BY DEF BusInv, TypeOK
  <2>3. \A job \in spawned' : In(job[1], "join")' /\ Added(job[2])'
    BY <1>3, <1>6, <2>1, <2>2 DEF BusInv, GroupsFit, Grows
  <2>4. \A t, u \in Threads : serving'[u] = t => In(t, "join")'
    BY <1>3, <2>1 DEF BusInv, GroupsFit
  <2>5. \A S \in SUBSET Threads :
          S = {} \/ \E t \in S : \A u \in S : serving'[u] # t
    BY <1>3 DEF BusInv, GroupsFit
  <2>6. QED
    BY <2>3, <2>4, <2>5 DEF GroupsFit
<1>13. QED
  BY <1>4, <1>7, <1>8, <1>9, <1>10, <1>11, <1>12 DEF BusInv

LEMMA BusNext ==
    ASSUME BusInv, [Next]_vars
    PROVE  BusInv'
<1>1. CASE UNCHANGED vars
  BY <1>1, BusStutter
<1>2. CASE \E t \in Threads : Request(t)
  <2>1. PICK t \in Threads : Request(t)
    BY <1>2
  <2>2. CASE Dispatch(t)
    BY <2>2, DispatchKeeps
  <2>3. CASE Parallel(t)
    BY <2>3, ParallelKeeps
  <2>4. CASE Dispose(t)
    BY <2>4, DisposeKeeps
  <2>5. CASE \E l \in Listeners : Register(t, l)
    BY <2>5, RegisterKeeps
  <2>6. CASE \E l \in Listeners : CallDisposer(t, l)
    BY <2>6, CallDisposerKeeps
  <2>7. QED
    BY <2>1, <2>2, <2>3, <2>4, <2>5, <2>6 DEF Request
<1>3. CASE \E t \in Threads : Proceed(t)
  <2>1. PICK t \in Threads : Proceed(t)
    BY <1>3
  <2>2. CASE Add(t) \/ SetDispose(t) \/ StoreCleanup(t) \/ CheckReleased(t)
    BY <2>2, AddKeeps, SetDisposeKeeps, StoreCleanupKeeps, CheckReleasedKeeps
  <2>3. CASE Start(t) \/ Done(t) \/ Join(t)
    BY <2>3, StartKeeps, DoneKeeps, JoinKeeps
  <2>4. CASE \/ Deliver(t) \/ ListenerReturns(t) \/ Returned(t)
             \/ DispatchReturns(t)
    BY <2>4, DeliverKeeps, ListenerReturnsKeeps, ReturnedKeeps,
       DispatchReturnsKeeps
  <2>5. CASE Retire(t) \/ Unhook(t) \/ LoadCleanup(t)
    BY <2>5, RetireKeeps, UnhookKeeps, LoadCleanupKeeps
  <2>6. CASE EnterHandle(t) \/ Unlist(t) \/ RequestDispose(t)
    BY <2>6, EnterHandleKeeps, UnlistKeeps, RequestDisposeKeeps
  <2>7. CASE EnterOnce(t) \/ RemoveListener(t) \/ LeaveOnce(t)
    BY <2>7, EnterOnceKeeps, RemoveListenerKeeps, LeaveOnceKeeps
  <2>8. CASE SetUnloading(t) \/ Clear(t) \/ Sweep(t)
    BY <2>8, SetUnloadingKeeps, ClearKeeps, SweepKeeps
  <2>9. QED
    BY <2>1, <2>2, <2>3, <2>4, <2>5, <2>6, <2>7, <2>8 DEF Proceed
<1>4. QED
  BY <1>1, <1>2, <1>3 DEF Next, Stop

\* At every moment each call under way knows the state of its listener, what is
\* not finished has a goroutine that finishes it, and the goroutines of Parallel
\* form no circle (on, claim, releaseOnce, parallelWith).
THEOREM BusInvariant == Spec => []BusInv
<1>1. Init => BusInv
  BY BusInit
<1>2. BusInv /\ [Next]_vars => BusInv'
  BY BusNext
<1>3. QED
  BY <1>1, <1>2, PTL DEF Spec

----------------------------------------------------------------------------
(* What follows. *)

\* A once-listener runs at most once, however many dispatches hold it in their
\* snapshot, nested ones included (claim).
THEOREM ListenersRunAtMostOnce == Spec => []OnceRunsOnce
<1>1. BusInv => OnceRunsOnce
  <2> SUFFICES ASSUME BusInv, NEW l \in OnceListeners
               PROVE  runs[l] <= 1
    BY DEF OnceRunsOnce
  <2>1. runs[l] \in 0..1
    BY DEF BusInv, EntriesFit, EntryFacts
  <2>2. QED
    BY <2>1
<1>2. QED
  BY <1>1, BusInvariant, PTL

\* When every call has returned nothing is being registered or released.
LEMMA QuietCalls ==
    ASSUME BusInv, Quiet, NEW l \in Listeners
    PROVE  /\ \A C : ~Has(C, l)
           /\ ~Swept(l)
           /\ l \in ToSet(hooks) <=> l \in ToSet(listed)
           /\ l \in OnceListeners /\ fired[l] => l \notin ToSet(hooks)
<1>1. \A t \in Threads : 1..Len(stack[t]) = {}
  <2> TAKE t \in Threads
  <2>1. Len(stack[t]) = 0
    BY Typing DEF BusInv, Quiet
  <2>2. QED
    BY <2>1
<1>2. (\A C : ~Has(C, l)) /\ ~Swept(l)
  BY <1>1 DEF Has, Swept
<1>3. Driven(l) /\ EntryFacts(l)
  BY DEF BusInv, AllDriven, EntriesFit
<1>4. deferred[l] => installed[l]
  BY <1>2, <1>3 DEF EntryFacts, Born
<1>5. l \in ToSet(hooks) => l \in ToSet(listed)
  BY <1>2, <1>3, <1>4 DEF Driven
<1>6. l \in ToSet(listed) => l \in ToSet(hooks)
  BY <1>2, <1>3 DEF Driven
<1>7. l \in OnceListeners /\ fired[l] => l \notin ToSet(hooks)
  BY <1>2, <1>3 DEF Driven
<1>8. QED
  BY <1>2, <1>5, <1>6, <1>7

\* A once-listener that has run is neither on the bus nor among the effects,
\* whichever of the dispatch and the registration came last (releaseOnce, on).
THEOREM RetirementIsComplete == Spec => []RetiredLeavesNothing
<1>1. BusInv => RetiredLeavesNothing
  BY QuietCalls DEF RetiredLeavesNothing
<1>2. QED
  BY <1>1, BusInvariant, PTL

\* The bus holds exactly the listeners whose effect is live (on, remove).
THEOREM BusFollowsTree == Spec => []BusMatchesTree
<1>1. BusInv => BusMatchesTree
  <2> SUFFICES ASSUME BusInv, Quiet
               PROVE  ToSet(hooks) = ToSet(listed)
    BY DEF BusMatchesTree
  <2>1. ToSet(hooks) \subseteq Listeners /\ ToSet(listed) \subseteq Listeners
    BY MembersTyping DEF BusInv, TypeOK
  <2>2. QED
    BY <2>1, QuietCalls
<1>2. QED
  BY <1>1, BusInvariant, PTL

\* Parallel returns only after the listeners it started have returned
\* (parallelWith).
THEOREM ParallelWaitsForAll == Spec => []ParallelJoins
<1>1. BusInv => ParallelJoins
  <2> SUFFICES ASSUME BusInv, NEW t \in Threads, NEW u \in Threads
               PROVE  /\ serving[u] = t => In(t, "join")
                      /\ \A l \in Listeners : <<t, l>> \in spawned => In(t, "join")
    BY DEF ParallelJoins
  <2>1. serving[u] = t => In(t, "join")
    BY DEF BusInv, GroupsFit
  <2>2. ASSUME NEW l \in Listeners, <<t, l>> \in spawned
        PROVE  In(t, "join")
    BY <2>2 DEF BusInv, GroupsFit
  <2>3. QED
    BY <2>1, <2>2
<1>2. QED
  BY <1>1, BusInvariant, PTL

\* A goroutine that is inside the Once of an entry calls nothing from there.
LEMMA HolderMoves ==
    ASSUME BusInv, NEW u \in Threads, NEW i \in 1..Len(stack[u]),
           stack[u][i].at \in Holding
    PROVE  stack[u] # <<>> /\ Top(u) = stack[u][i] /\ ~Waiting(u)
<1>1. stack[u] # <<>> /\ Len(stack[u]) \in Nat \ {0} /\ Top(u) = stack[u][Len(stack[u])]
  BY Typing, TopTyping DEF BusInv
<1>2. i = Len(stack[u])
  <2> SUFFICES ASSUME i + 1 \in 1..Len(stack[u])
               PROVE  FALSE
    BY <1>1
  <2>1. CallsOn(stack[u][i], stack[u][i + 1])
    BY DEF BusInv, Nesting
  <2>2. QED
    BY <2>1 DEF CallsOn, Callers, Holding
<1>3. QED
  BY <1>1, <1>2 DEF Waiting, In, Holding

\* Above the call of a handle that releases its entry there is at most one more,
\* and that is the release.
LEMMA HandleMoves ==
    ASSUME BusInv, NEW u \in Threads, NEW i \in 1..Len(stack[u]),
           stack[u][i].at = "unlist"
    PROVE  stack[u] # <<>> /\ Top(u).at \in {"unlist"} \cup ReleaseCalls
<1>1. stack[u] # <<>> /\ Len(stack[u]) \in Nat \ {0} /\ Top(u) = stack[u][Len(stack[u])]
  BY Typing, TopTyping DEF BusInv
<1>2. CASE i = Len(stack[u])
  BY <1>1, <1>2
<1>3. CASE i # Len(stack[u])
  <2>1. i + 1 \in 1..Len(stack[u])
    BY <1>1, <1>3
  <2>2. stack[u][i + 1].at \in ReleaseCalls
    BY <2>1 DEF BusInv, Nesting, CallsOn
  <2>3. i + 1 = Len(stack[u])
    <3> SUFFICES ASSUME i + 2 \in 1..Len(stack[u])
                 PROVE  FALSE
      BY <1>1, <2>1
    <3>1. CallsOn(stack[u][i + 1], stack[u][i + 2])
      BY <2>1 DEF BusInv, Nesting
    <3>2. QED
      BY <2>2, <3>1 DEF CallsOn, Callers, ReleaseCalls
  <2>4. QED
    BY <1>1, <2>2, <2>3
<1>4. QED
  BY <1>2, <1>3

\* Somebody blocks a goroutine that waits inside a Once.
LEMMA OnceIsBlocked ==
    ASSUME BusInv, NEW t \in Threads, In(t, "once"), Waiting(t)
    PROVE  \E u \in Threads : Blocks(u, t) /\ ~Waiting(u)
<1>1. stack[t] # <<>> /\ Top(t).at = "once" /\ Top(t).at \notin OpenCalls
      /\ releaseOnce[Subject(t)] = "running"
  BY DEF In, Waiting, OpenCalls
<1>2. Driven(Subject(t))
  BY <1>1, TopFacts DEF Subject
<1>3. PICK u \in Threads : \E i \in 1..Len(stack[u]) :
        stack[u][i].at \in Holding /\ stack[u][i].l = Subject(t)
  BY <1>1, <1>2 DEF Driven, Has
<1>4. DOMAIN stack[u] = 1..Len(stack[u])
  BY Typing, LenProperties DEF BusInv
<1>5. Blocks(u, t)
  BY <1>3, <1>4 DEF Blocks, Holding
<1>6. QED
  BY <1>3, <1>5, HolderMoves

LEMMA HandleIsBlocked ==
    ASSUME BusInv, NEW t \in Threads, In(t, "handle"), Waiting(t)
    PROVE  \E u \in Threads : Blocks(u, t) /\ (Waiting(u) => In(u, "once"))
<1>1. stack[t] # <<>> /\ Top(t).at = "handle" /\ Top(t).at \notin OpenCalls
      /\ handleOnce[Subject(t)] = "running"
  BY DEF In, Waiting, OpenCalls
<1>2. Driven(Subject(t))
  BY <1>1, TopFacts DEF Subject
<1>3. PICK u \in Threads : \E i \in 1..Len(stack[u]) :
        stack[u][i].at = "unlist" /\ stack[u][i].l = Subject(t)
  BY <1>1, <1>2 DEF Driven, Has
<1>4. DOMAIN stack[u] = 1..Len(stack[u])
  BY Typing, LenProperties DEF BusInv
<1>5. Blocks(u, t)
  BY <1>3, <1>4 DEF Blocks
<1>6. Waiting(u) => In(u, "once")
  BY <1>3, HandleMoves DEF Waiting, In, ReleaseCalls
<1>7. QED
  BY <1>5, <1>6

\* Among goroutines that wait, one waits for a goroutine that can move: a
\* dispatch that retires its listener, the registration it overtook, the handle,
\* a teardown and the goroutines of Parallel never wait in a circle
\* (releaseOnce, Once, parallelWith).
THEOREM EveryWaitOnTheBusEnds == Spec => []WaitsEnd
<1>1. BusInv => WaitsEnd
  <2> SUFFICES ASSUME BusInv, NEW S \in SUBSET Threads,
                      \A t \in S : Waiting(t), S # {},
                      \A t \in S : \A u \in Threads \ S : ~Blocks(u, t),
                      \A t \in S : ~\E job \in spawned :
                                       In(t, "join") /\ job[1] = t
               PROVE  FALSE
    BY DEF WaitsEnd
  <2>1. \A t \in S : ~In(t, "once")
    BY OnceIsBlocked
  <2>2. \A t \in S : ~In(t, "handle")
    BY <2>1, HandleIsBlocked
  <2>3. \A t \in S : In(t, "join") /\ Unfinished(t)
    BY <2>1, <2>2 DEF Waiting
  <2>4. PICK t \in S : \A u \in S : serving[u] # t
    BY DEF BusInv, GroupsFit
  <2>5. PICK u \in Threads : serving[u] = t
    BY <2>3 DEF Unfinished
  <2>6. Blocks(u, t)
    BY <2>3, <2>5 DEF Blocks
  <2>7. QED
    BY <2>4, <2>5, <2>6
<1>2. QED
  BY <1>1, BusInvariant, PTL
=============================================================================
