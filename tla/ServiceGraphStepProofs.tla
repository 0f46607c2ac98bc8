----------------------- MODULE ServiceGraphStepProofs -----------------------
(***************************************************************************)
(* Proofs about ServiceGraph, for every set of goroutines, fibers, names,  *)
(* scopes and bindings. An action is described once, by a lemma that says  *)
(* which calls take the place of the one on top of the stack (Step);       *)
(* whatever is said about calls is then proved from that, with one lemma   *)
(* per action. This module has those descriptions, what a step does to     *)
(* the calls under way, and the actions of the goroutine that drives a     *)
(* fiber, of those who ask for it and of those who tell of services, each  *)
(* of which keeps CoreInv (ServiceGraphInvariant).                         *)
(***************************************************************************)
EXTENDS ServiceGraphInvariant, SequenceTheorems, FiniteSetTheorems, TLAPS

----------------------------------------------------------------------------
(* Sequences that are used as stacks. *)

\* A stack in a call has a top, of the type of its frames.
LEMMA TopFrame ==
    ASSUME NEW S, NEW s \in Seq(S), s # <<>>
    PROVE  /\ Len(s) \in Nat \ {0}
           /\ Last(s) \in S
           /\ Last(s) = s[Len(s)]
<1>1. Len(s) \in Nat \ {0}
  BY EmptySeq
<1>2. Len(s) \in 1..Len(s)
  BY <1>1
<1>3. QED
  BY <1>1, <1>2, ElementOfSeq DEF Last

\* Popping leaves everything below the top as it was.
LEMMA PopFrame ==
    ASSUME NEW S, NEW s \in Seq(S), s # <<>>
    PROVE  /\ Front(s) \in Seq(S)
           /\ Len(Front(s)) = Len(s) - 1
           /\ \A i \in 1..(Len(s) - 1) : Front(s)[i] = s[i]
<1> DEFINE n == Len(s) - 1
<1>1. n \in Nat
  BY EmptySeq
<1>2. \A i \in 1..n : s[i] \in S
  BY <1>1, ElementOfSeq
<1> HIDE DEF n
<1>3. /\ SubSeq(s, 1, n) \in Seq(S)
      /\ Len(SubSeq(s, 1, n)) = IF 1 <= n THEN n - 1 + 1 ELSE 0
      /\ \A i \in 1..(n - 1 + 1) : SubSeq(s, 1, n)[i] = s[1 + i - 1]
  BY <1>1, <1>2, SubSeqProperties
<1>4. /\ Len(SubSeq(s, 1, n)) = n
      /\ \A i \in 1..n : SubSeq(s, 1, n)[i] = s[i]
  BY <1>1, <1>3
<1>5. Front(s) = SubSeq(s, 1, n)
  BY DEF Front, n
<1>6. QED
  BY <1>3, <1>4, <1>5, Zenon DEF n

\* A frame takes the place of the top.
LEMMA ReplaceFrame ==
    ASSUME NEW S, NEW s \in Seq(S), s # <<>>, NEW a \in S
    PROVE  /\ Append(Front(s), a) \in Seq(S)
           /\ Len(Append(Front(s), a)) = Len(s)
           /\ \A i \in 1..(Len(s) - 1) : Append(Front(s), a)[i] = s[i]
           /\ Append(Front(s), a)[Len(s)] = a
  BY PopFrame, TopFrame, AppendProperties

\* A sequence of calls takes the place of the top.
LEMMA ReplaceFrames ==
    ASSUME NEW S, NEW s \in Seq(S), s # <<>>, NEW c \in Seq(S)
    PROVE  /\ Front(s) \o c \in Seq(S)
           /\ Len(Front(s) \o c) = Len(s) - 1 + Len(c)
           /\ \A i \in 1..(Len(s) - 1) : (Front(s) \o c)[i] = s[i]
           /\ \A i \in 1..Len(c) : (Front(s) \o c)[Len(s) - 1 + i] = c[i]
<1>1. /\ Len(s) \in Nat \ {0} /\ Len(c) \in Nat
      /\ Front(s) \in Seq(S) /\ Len(Front(s)) = Len(s) - 1
      /\ \A i \in 1..(Len(s) - 1) : Front(s)[i] = s[i]
  BY TopFrame, PopFrame, LenProperties
<1>2. /\ Front(s) \o c \in Seq(S)
      /\ Len(Front(s) \o c) = Len(Front(s)) + Len(c)
      /\ \A i \in 1..(Len(Front(s)) + Len(c)) : (Front(s) \o c)[i] =
           IF i <= Len(Front(s)) THEN Front(s)[i] ELSE c[i - Len(Front(s))]
  BY <1>1, ConcatProperties
<1>3. \A i \in 1..Len(c) :
        /\ Len(s) - 1 + i \in 1..(Len(Front(s)) + Len(c))
        /\ (Front(s) \o c)[Len(s) - 1 + i] = c[i]
  BY <1>1, <1>2
<1>4. \A i \in 1..(Len(s) - 1) : (Front(s) \o c)[i] = s[i]
  BY <1>1, <1>2
<1>5. QED
  BY <1>1, <1>2, <1>3, <1>4, Zenon

----------------------------------------------------------------------------
(* Lists without repetition. *)

\* An element of a list goes, the others stay, once each.
LEMMA RemovingFirst ==
    ASSUME NEW S, NEW s \in Seq(S), IsInjective(s), NEW e
    PROVE  /\ RemoveFirst(s, e) \in Seq(S)
           /\ IsInjective(RemoveFirst(s, e))
           /\ ToSet(RemoveFirst(s, e)) = ToSet(s) \ {e}
<1> DEFINE n == Len(s)
<1>1. /\ n \in Nat /\ DOMAIN s = 1..n
      /\ \A i \in 1..n : s[i] \in S
  BY LenProperties, ElementOfSeq
<1>2. \A i, j \in 1..n : s[i] = s[j] => i = j
  BY <1>1 DEF IsInjective
<1>3. CASE \A i \in 1..n : s[i] # e
  <2>1. RemoveFirst(s, e) = s
    BY <1>3 DEF RemoveFirst
  <2>2. e \notin ToSet(s)
    BY <1>1, <1>3 DEF ToSet
  <2>3. QED
    BY <2>1, <2>2
<1>4. CASE \E i \in 1..n : s[i] = e
  <2>1. PICK m \in 1..n : s[m] = e
    BY <1>4
  <2>2. {i \in 1..n : s[i] = e} = {m}
    BY <1>2, <2>1
  <2>3. SelectInSeq(s, LAMBDA v : v = e) = m
    BY <1>1, <2>1, <2>2 DEF SelectInSeq, Min
  <2> DEFINE a == SubSeq(s, 1, m - 1)
             b == SubSeq(s, m + 1, n)
             r == RemoveFirst(s, e)
  <2>4. r = a \o b
    BY <1>4, <2>3 DEF RemoveFirst, RemoveAt
  <2>5. /\ a \in Seq(S) /\ Len(a) = m - 1
        /\ \A i \in 1..(m - 1) : a[i] = s[i]
    <3>1. /\ a \in Seq(S)
          /\ Len(a) = IF 1 <= m - 1 THEN (m - 1) - 1 + 1 ELSE 0
          /\ \A i \in 1..((m - 1) - 1 + 1) : a[i] = s[1 + i - 1]
      BY <1>1, <2>1, SubSeqProperties
    <3> HIDE DEF a
    <3>2. QED
      BY <2>1, <3>1, <1>1
  <2>6. /\ b \in Seq(S) /\ Len(b) = n - m
        /\ \A i \in 1..(n - m) : b[i] = s[m + i]
    <3>1. /\ b \in Seq(S)
          /\ Len(b) = IF m + 1 <= n THEN n - (m + 1) + 1 ELSE 0
          /\ \A i \in 1..(n - (m + 1) + 1) : b[i] = s[m + 1 + i - 1]
      BY <1>1, <2>1, SubSeqProperties
    <3> HIDE DEF b, n
    <3>2. QED
      BY <2>1, <3>1, <1>1
  <2> HIDE DEF a, b, r, n
  <2>7. /\ r \in Seq(S) /\ Len(r) = n - 1
        /\ \A i \in 1..(n - 1) : r[i] = IF i <= m - 1 THEN s[i] ELSE s[i + 1]
    <3>1. /\ r \in Seq(S) /\ Len(r) = Len(a) + Len(b)
          /\ \A i \in 1..(Len(a) + Len(b)) :
               r[i] = IF i <= Len(a) THEN a[i] ELSE b[i - Len(a)]
      BY <2>4, <2>5, <2>6, ConcatProperties
    <3>2. QED
      BY <1>1, <2>1, <2>5, <2>6, <3>1
  <2>8. DOMAIN r = 1..(n - 1)
    BY <2>7, LenProperties
  <2>9. IsInjective(r)
    <3> SUFFICES ASSUME NEW i \in 1..(n - 1), NEW j \in 1..(n - 1), r[i] = r[j]
                 PROVE  i = j
      BY <2>8 DEF IsInjective
    <3>1. i \in 1..n /\ i + 1 \in 1..n /\ j \in 1..n /\ j + 1 \in 1..n
      BY <1>1
    <3>2. QED
      BY <1>1, <1>2, <2>1, <2>7, <3>1
  <2>10. ToSet(r) = ToSet(s) \ {e}
    <3>1. ASSUME NEW x \in ToSet(r)
          PROVE  x \in ToSet(s) /\ x # e
      <4>1. PICK i \in 1..(n - 1) : x = r[i]
        BY <2>8 DEF ToSet
      <4>2. i \in 1..n /\ i + 1 \in 1..n
        BY <1>1
      <4>3. PICK j \in 1..n : x = s[j] /\ j # m
        BY <1>1, <2>1, <2>7, <4>1, <4>2
      <4>4. QED
        BY <1>1, <1>2, <2>1, <4>3 DEF ToSet
    <3>2. ASSUME NEW x \in ToSet(s), x # e
          PROVE  x \in ToSet(r)
      <4>1. PICK i \in 1..n : x = s[i]
        BY <1>1 DEF ToSet
      <4>2. i # m
        BY <2>1, <3>2, <4>1
      <4>3. \E j \in 1..(n - 1) : r[j] = x
        <5>1. CASE i < m
          BY <1>1, <2>1, <2>7, <4>1, <5>1
        <5>2. CASE i > m
          <6>1. i - 1 \in 1..(n - 1) /\ ~(i - 1 <= m - 1) /\ (i - 1) + 1 = i
            BY <1>1, <2>1, <5>2
          <6>2. r[i - 1] = s[i]
            BY <2>7, <6>1
          <6>3. QED
            BY <4>1, <6>1, <6>2
        <5>3. QED
          BY <1>1, <2>1, <4>2, <5>1, <5>2
      <4>4. QED
        BY <2>8, <4>3 DEF ToSet
    <3>3. QED
      BY <3>1, <3>2
  <2>11. QED
    BY <2>7, <2>9, <2>10 DEF r
<1>5. QED
  BY <1>3, <1>4

\* An element comes on a list that does not have it.
LEMMA Appending ==
    ASSUME NEW S, NEW s \in Seq(S), IsInjective(s), NEW e \in S, e \notin ToSet(s)
    PROVE  /\ Append(s, e) \in Seq(S)
           /\ IsInjective(Append(s, e))
           /\ ToSet(Append(s, e)) = ToSet(s) \cup {e}
<1> DEFINE n == Len(s)
           r == Append(s, e)
<1>1. n \in Nat /\ DOMAIN s = 1..n
  BY LenProperties
<1>2. /\ r \in Seq(S) /\ Len(r) = n + 1
      /\ \A i \in 1..n : r[i] = s[i]
      /\ r[n + 1] = e
  BY AppendProperties
<1>3. DOMAIN r = 1..(n + 1)
  BY <1>2, LenProperties
<1> HIDE DEF r, n
<1>4. \A i \in 1..(n + 1) : i \in 1..n \/ i = n + 1
  BY <1>1
<1>5. \A i \in 1..n : s[i] # e /\ i \in 1..(n + 1)
  BY <1>1 DEF ToSet
<1>6. IsInjective(r)
  <2>1. \A i, j \in 1..n : s[i] = s[j] => i = j
    BY <1>1 DEF IsInjective
  <2>2. QED
    BY <1>2, <1>3, <1>4, <1>5, <2>1 DEF IsInjective
<1>7. ToSet(r) = ToSet(s) \cup {e}
  <2>1. n + 1 \in 1..(n + 1)
    BY <1>1
  <2>2. QED
    BY <1>1, <1>2, <1>3, <1>4, <1>5, <2>1 DEF ToSet
<1>8. QED
  BY <1>2, <1>6, <1>7 DEF r

----------------------------------------------------------------------------
(* Stacks. *)

LEMMA Typing ==
    ASSUME TypeOK, NEW t \in Threads
    PROVE  /\ stack[t] \in Seq(Frames)
           /\ Len(stack[t]) \in Nat
           /\ stack[t] = <<>> <=> Len(stack[t]) = 0
           /\ \A i \in 1..Len(stack[t]) : stack[t][i] \in Frames
<1>1. stack[t] \in Seq(Frames)
  BY DEF TypeOK
<1>2. QED
  BY <1>1, ElementOfSeq, LenProperties, EmptySeq

LEMMA TopTyping ==
    ASSUME TypeOK, NEW t \in Threads, stack[t] # <<>>
    PROVE  /\ Len(stack[t]) \in Nat \ {0}
           /\ Len(stack[t]) \in 1..Len(stack[t])
           /\ Top(t) = stack[t][Len(stack[t])]
           /\ Top(t) \in Frames
<1>1. stack[t] \in Seq(Frames)
  BY DEF TypeOK
<1>2. QED
  BY <1>1, TopFrame DEF Top

\* The goroutine t keeps the lowest k of its calls, and goes on with the calls
\* c above them.
Changes(t, k, c) ==
    /\ stack' \in [Threads -> Seq(Frames)]
    /\ \A u \in Threads \ {t} : stack'[u] = stack[u]
    /\ k \in Nat /\ k <= Len(stack[t])
    /\ Len(c) \in Nat /\ \A i \in 1..Len(c) : c[i] \in Frames
    /\ Len(stack'[t]) = k + Len(c)
    /\ \A i \in 1..k : stack'[t][i] = stack[t][i]
    /\ \A i \in 1..Len(c) : stack'[t][k + i] = c[i]

\* The call on top is replaced by the calls c.
Step(t, c) == Changes(t, Len(stack[t]) - 1, c)

LEMMA Continuing ==
    ASSUME TypeOK, NEW t \in Threads, stack[t] # <<>>, NEW c \in Seq(Frames),
           Continue(t, c)
    PROVE  Step(t, c)
<1> DEFINE n == Len(stack[t])
           new == Front(stack[t]) \o c
<1>1. /\ stack \in [Threads -> Seq(Frames)] /\ stack[t] \in Seq(Frames)
      /\ n \in Nat \ {0}
  BY TopTyping DEF TypeOK
<1>2. stack' = [stack EXCEPT ![t] = new]
  BY DEF Continue
<1>3. /\ new \in Seq(Frames)
      /\ Len(new) = n - 1 + Len(c)
      /\ \A i \in 1..(n - 1) : new[i] = stack[t][i]
      /\ \A i \in 1..Len(c) : new[n - 1 + i] = c[i]
  <2>1. PICK s \in Seq(Frames) : s = stack[t]
    BY <1>1
  <2>2. s # <<>>
    BY <2>1
  <2>3. /\ Front(s) \o c \in Seq(Frames)
        /\ Len(Front(s) \o c) = Len(s) - 1 + Len(c)
        /\ \A i \in 1..(Len(s) - 1) : (Front(s) \o c)[i] = s[i]
        /\ \A i \in 1..Len(c) : (Front(s) \o c)[Len(s) - 1 + i] = c[i]
    BY <2>2, ReplaceFrames, SMTT(30)
  <2>4. QED
    BY <2>1, <2>3
<1>4. Len(c) \in Nat /\ \A i \in 1..Len(c) : c[i] \in Frames
  BY LenProperties, ElementOfSeq
<1> HIDE DEF new, n
<1>5. /\ stack' \in [Threads -> Seq(Frames)] /\ stack'[t] = new
      /\ \A u \in Threads \ {t} : stack'[u] = stack[u]
  BY <1>1, <1>2, <1>3
<1>6. n - 1 \in Nat /\ n - 1 <= n /\ n = Len(stack[t])
  BY <1>1 DEF n
<1>7. QED
  BY <1>3, <1>4, <1>5, <1>6 DEF Changes, Step

\* What a sequence of no call, of one or of two calls is.
IsNone(c) == Len(c) = 0
IsOne(c, g) == Len(c) = 1 /\ c[1] = g
IsTwo(c, g, h) == Len(c) = 2 /\ c[1] = g /\ c[2] = h

LEMMA Sequences ==
    /\ <<>> \in Seq(Frames) /\ IsNone(<<>>)
    /\ \A g \in Frames : <<g>> \in Seq(Frames) /\ IsOne(<<g>>, g)
    /\ \A g, h \in Frames : <<g, h>> \in Seq(Frames) /\ IsTwo(<<g, h>>, g, h)
<1>1. <<>> \in Seq(Frames) /\ IsNone(<<>>)
  BY EmptySeq DEF IsNone
<1>2. ASSUME NEW S, NEW g \in S PROVE <<g>> \in Seq(S) /\ IsOne(<<g>>, g)
  BY <1>2 DEF IsOne
<1>3. ASSUME NEW S, NEW g \in S, NEW h \in S
      PROVE  <<g, h>> \in Seq(S) /\ IsTwo(<<g, h>>, g, h)
  BY <1>3 DEF IsTwo
<1>4. QED
  BY <1>1, <1>2, <1>3

LEMMA Becoming ==
    ASSUME TypeOK, NEW t \in Threads, stack[t] # <<>>, NEW g \in Frames,
           Become(t, g)
    PROVE  \E c : Step(t, c) /\ IsOne(c, g)
<1>1. <<g>> \in Seq(Frames) /\ IsOne(<<g>>, g)
  BY Sequences
<1>2. Continue(t, <<g>>)
  BY DEF Become
<1>3. QED
  BY <1>1, <1>2, Continuing

LEMMA BecomingTwo ==
    ASSUME TypeOK, NEW t \in Threads, stack[t] # <<>>, NEW g \in Frames,
           NEW h \in Frames, Continue(t, <<g, h>>)
    PROVE  \E c : Step(t, c) /\ IsTwo(c, g, h)
<1>1. <<g, h>> \in Seq(Frames) /\ IsTwo(<<g, h>>, g, h)
  BY Sequences
<1>2. QED
  BY <1>1, Continuing

LEMMA Returning ==
    ASSUME TypeOK, NEW t \in Threads, stack[t] # <<>>, Return(t)
    PROVE  \E c : Step(t, c) /\ IsNone(c)
<1>1. <<>> \in Seq(Frames) /\ IsNone(<<>>)
  BY Sequences
<1>2. QED
  BY <1>1, Continuing DEF Return

\* Calls from outside.
LEMMA Entering ==
    ASSUME TypeOK, NEW t \in Threads, stack[t] = <<>>, NEW c \in Seq(Frames),
           stack' = [stack EXCEPT ![t] = c]
    PROVE  Changes(t, 0, c)
<1>1. /\ stack \in [Threads -> Seq(Frames)] /\ Len(stack[t]) = 0
  BY Typing DEF TypeOK
<1>2. Len(c) \in Nat /\ \A i \in 1..Len(c) : c[i] \in Frames
  BY LenProperties, ElementOfSeq
<1>3. /\ stack' \in [Threads -> Seq(Frames)] /\ stack'[t] = c
      /\ \A u \in Threads \ {t} : stack'[u] = stack[u]
  BY <1>1
<1>4. QED
  BY <1>1, <1>2, <1>3 DEF Changes

LEMMA Entering1 ==
    ASSUME TypeOK, NEW t \in Threads, stack[t] = <<>>, NEW g \in Frames,
           Enter(t, g)
    PROVE  \E c : Changes(t, 0, c) /\ IsOne(c, g)
<1>1. <<g>> \in Seq(Frames) /\ IsOne(<<g>>, g)
  BY Sequences
<1>2. QED
  BY <1>1, Entering DEF Enter

\* A call at the beginning of its place.
IsCall(g, at, f, b) ==
    /\ g.at = at /\ g.f = f /\ g.b = b
    /\ g.todo = {} /\ g.queue = <<>> /\ g.got = {}

\* The call h, gone on to another place.
Moved(g, h, at) ==
    /\ g.at = at /\ g.f = h.f /\ g.b = h.b /\ g.name = h.name /\ g.label = h.label
    /\ g.todo = h.todo /\ g.queue = h.queue /\ g.got = h.got /\ g.cont = h.cont

LEMMA FrameTyping ==
    ASSUME NEW at \in Places, NEW f \in Fibers
    PROVE  /\ Frame(at, f) \in Frames
           /\ IsCall(Frame(at, f), at, f, Vacant) /\ Frame(at, f).cont = "end"
<1>1. /\ (CHOOSE n \in Names : TRUE) \in Names
      /\ (CHOOSE l \in Labels : TRUE) \in Labels
  BY GraphAssumption
<1>2. "end" \in Places /\ <<>> \in Seq(Names)
  BY EmptySeq DEF Places
<1>3. QED
  BY <1>1, <1>2 DEF Frame, Frames, IsCall

LEMMA MovedTyping ==
    ASSUME NEW h \in Frames, NEW at \in Places
    PROVE  /\ [h EXCEPT !.at = at] \in Frames
           /\ Moved([h EXCEPT !.at = at], h, at)
  BY DEF Frames, Moved

LEMMA Going ==
    ASSUME TypeOK, NEW t \in Threads, stack[t] # <<>>, NEW at \in Places,
           Goto(t, at)
    PROVE  \E c : \E g \in Frames :
              Step(t, c) /\ IsOne(c, g) /\ Moved(g, Top(t), at)
<1> DEFINE g == At(t, at)
<1>1. Top(t) \in Frames
  BY TopTyping
<1>2. g \in Frames /\ Moved(g, Top(t), at)
  BY <1>1, MovedTyping DEF At
<1>3. Become(t, g)
  BY DEF Goto
<1> HIDE DEF g
<1>4. QED
  BY <1>2, <1>3, Becoming

LEMMA StartingAfresh ==
    ASSUME TypeOK, NEW t \in Threads, stack[t] # <<>>, NEW at \in Places,
           Afresh(t, at)
    PROVE  \E c : \E g \in Frames :
              /\ Step(t, c) /\ IsOne(c, g)
              /\ IsCall(g, at, Top(t).f, Vacant) /\ g.cont = "end"
<1>1. Top(t) \in Frames /\ Top(t).f \in Fibers
  BY TopTyping DEF Frames
<1>2. QED
  BY <1>1, FrameTyping, Becoming DEF Afresh, Self

----------------------------------------------------------------------------
(* What the operators the actions are made of do to the calls. *)

LEMMA UnloadingStep ==
    ASSUME TypeOK, NEW t \in Threads, stack[t] # <<>>, NEW back \in Places,
           Unloading(t, back)
    PROVE  \E c : \E g \in Frames :
              /\ Step(t, c) /\ IsOne(c, g)
              /\ IsCall(g, "unload", Top(t).f, Vacant) /\ g.cont = back
<1> DEFINE h == Frame("unload", Top(t).f)
           g == [h EXCEPT !.cont = back]
<1>1. Top(t).f \in Fibers /\ "unload" \in Places
  BY TopTyping DEF Frames, Places
<1>2. h \in Frames /\ IsCall(h, "unload", Top(t).f, Vacant)
  BY <1>1, FrameTyping
<1>3. Become(t, g)
  BY DEF Unloading, Self
<1> HIDE DEF h
<1>4. g \in Frames /\ IsCall(g, "unload", Top(t).f, Vacant) /\ g.cont = back
  BY <1>2 DEF Frames, IsCall
<1> HIDE DEF g
<1>5. QED
  BY <1>3, <1>4, Becoming

\* A look at the names of a queue, with what has been found.
IsLook(g, f, queue, got, back) ==
    /\ g.at = "fetch" /\ g.f = f /\ g.b = Vacant /\ g.todo = {}
    /\ g.queue = queue /\ g.got = got /\ g.cont = back

LEMMA ResolvingStep ==
    ASSUME TypeOK, NEW t \in Threads, stack[t] # <<>>, NEW back \in Places,
           Resolving(t, back)
    PROVE  \E c : \E g \in Frames :
              /\ Step(t, c) /\ IsOne(c, g)
              /\ IsLook(g, Top(t).f, Inject[Top(t).f], {}, back)
<1> DEFINE h == Frame("fetch", Top(t).f)
           g == [h EXCEPT !.queue = Inject[Top(t).f], !.cont = back]
<1>1. Top(t).f \in Fibers /\ "fetch" \in Places
  BY TopTyping DEF Frames, Places
<1>2. h \in Frames /\ IsCall(h, "fetch", Top(t).f, Vacant)
  BY <1>1, FrameTyping
<1>3. Become(t, g)
  BY DEF Resolving, Self
<1>4. Inject[Top(t).f] \in Seq(Names)
  BY <1>1, GraphAssumption
<1> HIDE DEF h
<1>5. g \in Frames /\ IsLook(g, Top(t).f, Inject[Top(t).f], {}, back)
  BY <1>2, <1>4 DEF Frames, IsCall, IsLook
<1> HIDE DEF g
<1>6. QED
  BY <1>3, <1>5, Becoming

IsLoading(g, f, new) ==
    /\ g.at = "load" /\ g.f = f /\ g.b = Vacant /\ g.todo = {}
    /\ g.queue = <<>> /\ g.got = new

\* Where the resolution of its names takes the driver, at h.
Outcome(g, h, new) ==
    \/ new # Inactive /\ h.cont = "reload" /\ IsLoading(g, h.f, new)
    \/ new = Inactive /\ h.cont = "reload" /\ IsCall(g, "end", h.f, Vacant)
    \/ /\ h.cont # "reload" /\ new = epoch[h.f]
       /\ IsCall(g, "end", h.f, Vacant)
    \/ /\ h.cont # "reload" /\ new # epoch[h.f] /\ new = Inactive
       /\ IsCall(g, "applyUnload", h.f, Vacant)
    \/ /\ h.cont # "reload" /\ new # epoch[h.f] /\ new # Inactive /\ live[h.f]
       /\ IsCall(g, "unload", h.f, Vacant) /\ g.cont = "reload"
    \/ /\ h.cont # "reload" /\ new # epoch[h.f] /\ new # Inactive /\ ~live[h.f]
       /\ IsLoading(g, h.f, new)

LEMMA ResolvedStep ==
    ASSUME TypeOK, NEW t \in Threads, stack[t] # <<>>, NEW new \in Epochs,
           Resolved(t, new)
    PROVE  \E c : \E g \in Frames :
              Step(t, c) /\ IsOne(c, g) /\ Outcome(g, Top(t), new)
<1> DEFINE f == Top(t).f
           h == Frame("load", f)
           g == [h EXCEPT !.got = new]
<1>1. /\ Top(t) \in Frames /\ f \in Fibers
      /\ "load" \in Places /\ "end" \in Places /\ "applyUnload" \in Places
      /\ "reload" \in Places
  BY TopTyping DEF Frames, Places
<1>2. h \in Frames /\ IsCall(h, "load", f, Vacant)
  BY <1>1, FrameTyping
<1>3. new # Inactive => g \in Frames /\ IsLoading(g, f, new)
  <2>1. new # Inactive => new \in SUBSET Bindings
    BY DEF Epochs
  <2> HIDE DEF h, f
  <2>2. QED
    BY <1>2, <2>1 DEF Frames, IsCall, IsLoading
<1>4. CASE Top(t).cont = "reload" /\ new = Inactive
  <2>1. Afresh(t, "end")
    BY <1>4 DEF Resolved
  <2>2. QED
    BY <1>1, <1>4, <2>1, StartingAfresh DEF Outcome
<1>5. CASE Top(t).cont = "reload" /\ new # Inactive
  <2>1. Become(t, g)
    BY <1>5 DEF Resolved, Self
  <2> HIDE DEF g
  <2>2. QED
    BY <1>3, <1>5, <2>1, Becoming DEF Outcome
<1>6. CASE Top(t).cont # "reload" /\ new = epoch[f]
  <2>1. Afresh(t, "end")
    BY <1>6 DEF Resolved, Self
  <2>2. QED
    BY <1>1, <1>6, <2>1, StartingAfresh DEF Outcome
<1>7. CASE Top(t).cont # "reload" /\ new # epoch[f] /\ new = Inactive
  <2>1. Afresh(t, "applyUnload")
    BY <1>7 DEF Resolved, Self
  <2>2. QED
    BY <1>1, <1>7, <2>1, StartingAfresh DEF Outcome
<1>8. CASE Top(t).cont # "reload" /\ new # epoch[f] /\ new # Inactive /\ live[f]
  <2>1. Unloading(t, "reload")
    BY <1>8 DEF Resolved, Self
  <2>2. QED
    BY <1>1, <1>8, <2>1, UnloadingStep DEF Outcome
<1>9. CASE Top(t).cont # "reload" /\ new # epoch[f] /\ new # Inactive /\ ~live[f]
  <2>1. Become(t, g)
    BY <1>9 DEF Resolved, Self
  <2> HIDE DEF g
  <2>2. QED
    BY <1>3, <1>9, <2>1, Becoming DEF Outcome
<1>10. QED
  BY <1>4, <1>5, <1>6, <1>7, <1>8, <1>9

\* The next name has resolved to b.
Taken(g, h, b) ==
    \/ Tail(h.queue) = <<>> /\ Outcome(g, h, h.got \cup {b})
    \/ /\ Tail(h.queue) # <<>>
       /\ g.at = "fetch" /\ g.f = h.f /\ g.b = Vacant /\ g.todo = h.todo
       /\ g.queue = Tail(h.queue) /\ g.got = h.got \cup {b} /\ g.cont = h.cont

LEMMA TookStep ==
    ASSUME TypeOK, NEW t \in Threads, stack[t] # <<>>, NEW b \in Bindings,
           Top(t).queue # <<>>, Took(t, b)
    PROVE  \E c : \E g \in Frames :
              Step(t, c) /\ IsOne(c, g) /\ Taken(g, Top(t), b)
<1> DEFINE got == Top(t).got \cup {b}
           rest == Tail(Top(t).queue)
           g == [At(t, "fetch") EXCEPT !.b = Vacant, !.got = got, !.queue = rest]
<1>1. /\ Top(t) \in Frames /\ Top(t).queue \in Seq(Names) /\ Top(t).got \subseteq Bindings
      /\ "fetch" \in Places
  BY TopTyping DEF Frames, Places
<1>2. got \in SUBSET Bindings /\ got \in Epochs /\ rest \in Seq(Names)
  BY <1>1, HeadTailProperties DEF Epochs
<1> HIDE DEF got, rest
<1>3. CASE rest = <<>>
  <2>1. Resolved(t, got)
    BY <1>3 DEF Took, got, rest
  <2>2. PICK c : \E k \in Frames :
              Step(t, c) /\ IsOne(c, k) /\ Outcome(k, Top(t), got)
    BY <1>2, <2>1, ResolvedStep
  <2>3. QED
    BY <1>3, <2>2 DEF Taken, got, rest
<1>4. CASE rest # <<>>
  <2>1. Become(t, g)
    BY <1>4 DEF Took, got, rest
  <2>2. g \in Frames /\ g.at = "fetch" /\ g.f = Top(t).f /\ g.b = Vacant
        /\ g.todo = Top(t).todo /\ g.queue = rest /\ g.got = got
        /\ g.cont = Top(t).cont
    BY <1>1, <1>2 DEF Frames, At
  <2> HIDE DEF g
  <2>3. PICK c : Step(t, c) /\ IsOne(c, g)
    BY <2>1, <2>2, Becoming
  <2>4. QED
    BY <1>4, <2>2, <2>3 DEF Taken, got, rest
<1>5. QED
  BY <1>3, <1>4

\* setState: whether a disposed fiber refuses the state.
Refuses(f, s) == disposed[f] /\ s \notin {"unloading", "disposed"}

\* The driver at h goes on at next, after the announcement if there is one.
Announces(c, h, s, next) ==
    \E g, k \in Frames :
       /\ Moved(g, h, next)
       /\ IF ~Refuses(h.f, s) /\ (state[h.f] = "active") # (s = "active")
          THEN IsTwo(c, g, k) /\ IsCall(k, "names", h.f, Vacant)
          ELSE IsOne(c, g)

LEMMA SetStateStep ==
    ASSUME TypeOK, NEW t \in Threads, stack[t] # <<>>, NEW s \in FiberStates,
           NEW next \in Places, SetState(t, s, next)
    PROVE  /\ \E c : Step(t, c) /\ Announces(c, Top(t), s, next)
           /\ state' = IF Refuses(Top(t).f, s) THEN state
                       ELSE [state EXCEPT ![Top(t).f] = s]
<1> DEFINE f == Top(t).f
           g == At(t, next)
           k == Frame("names", f)
<1>1. Top(t) \in Frames /\ f \in Fibers /\ "names" \in Places
  BY TopTyping DEF Frames, Places
<1>2. g \in Frames /\ Moved(g, Top(t), next)
  BY <1>1, MovedTyping DEF At
<1>3. k \in Frames /\ IsCall(k, "names", f, Vacant)
  BY <1>1, FrameTyping
<1>4. /\ state' = IF Refuses(f, s) THEN state ELSE [state EXCEPT ![f] = s]
      /\ IF ~Refuses(f, s) /\ (state[f] = "active") # (s = "active")
         THEN Continue(t, <<g, k>>) ELSE Become(t, g)
  BY Zenon DEF SetState, Refuses, Self, Goto
<1> HIDE DEF g, k, f
<1>5. CASE ~Refuses(f, s) /\ (state[f] = "active") # (s = "active")
  <2>1. Continue(t, <<g, k>>)
    BY <1>4, <1>5
  <2>2. PICK c : Step(t, c) /\ IsTwo(c, g, k)
    BY <1>2, <1>3, <2>1, BecomingTwo
  <2>3. Announces(c, Top(t), s, next)
    BY <1>2, <1>3, <1>5, <2>2 DEF Announces, f
  <2>4. QED
    BY <1>4, <2>2, <2>3 DEF f
<1>6. CASE ~(~Refuses(f, s) /\ (state[f] = "active") # (s = "active"))
  <2>1. Become(t, g)
    BY <1>4, <1>6
  <2>2. PICK c : Step(t, c) /\ IsOne(c, g)
    BY <1>2, <2>1, Becoming
  <2>3. Announces(c, Top(t), s, next)
    BY <1>2, <1>3, <1>6, <2>2 DEF Announces, f
  <2>4. QED
    BY <1>4, <2>2, <2>3 DEF f
<1>7. QED
  BY <1>5, <1>6

\* What is told about a name in a scope.
IsNotification(g, f, n, l) ==
    IsCall(g, "notify", f, Vacant) /\ g.name = n /\ g.label = l

LEMMA NotificationTyping ==
    ASSUME NEW f \in Fibers, NEW n \in Names, NEW l \in Labels
    PROVE  /\ Notification(f, n, l) \in Frames
           /\ IsNotification(Notification(f, n, l), f, n, l)
<1> DEFINE h == Frame("notify", f)
<1>1. "notify" \in Places
  BY DEF Places
<1>2. h \in Frames /\ IsCall(h, "notify", f, Vacant)
  BY <1>1, FrameTyping
<1> HIDE DEF h
<1>3. /\ [h EXCEPT !.name = n, !.label = l] \in Frames
      /\ IsNotification([h EXCEPT !.name = n, !.label = l], f, n, l)
  BY <1>2 DEF Frames, IsCall, IsNotification
<1>4. QED
  BY <1>3 DEF Notification, h

\* The order in which the members of a finite set are called is a sequence of
\* all of them.
LEMMA OrderOfAll ==
    ASSUME NEW S, IsFiniteSet(S), NEW o \in SetToSeqs(S)
    PROVE  /\ Len(o) \in Nat /\ DOMAIN o = 1..Len(o)
           /\ \A i \in 1..Len(o) : o[i] \in S
           /\ \A x \in S : \E i \in 1..Len(o) : o[i] = x
<1> DEFINE D == 1..Cardinality(S)
<1>1. Cardinality(S) \in Nat
  BY FS_CardinalityType
<1>2. o \in [D -> S] /\ \A i, j \in D : i # j => o[i] # o[j]
  BY DEF SetToSeqs
<1>3. Len(o) = Cardinality(S) /\ DOMAIN o = D
  <2>1. o \in Seq(S)
    <3> DEFINE n == Cardinality(S)
    <3>1. n \in Nat /\ o \in [1..n -> S]
      BY <1>1, <1>2
    <3> HIDE DEF n
    <3>2. QED
      BY <3>1, IsASeq
  <2>2. QED
    BY <1>1, <1>2, <2>1, LenProperties
<1>4. o \in Injection(D, S)
  BY <1>2 DEF Injection, IsInjective
<1>5. IsFiniteSet(D) /\ Cardinality(D) = Cardinality(S)
  BY <1>1, FS_Interval
<1>6. o \in Surjection(D, S)
  BY <1>4, <1>5, FS_Injection
<1>7. QED
  BY <1>1, <1>2, <1>3, <1>6 DEF Surjection

----------------------------------------------------------------------------
(* What each action does to the calls: those that take the place of h, the  *)
(* one on top.                                                              *)

Goes(c, h, at) == \E g \in Frames : IsOne(c, g) /\ Moved(g, h, at)
Opens(c, at, f) ==
    \E g \in Frames : IsOne(c, g) /\ IsCall(g, at, f, Vacant) /\ g.cont = "end"
Unloads1(c, f, back) ==
    \E g \in Frames : IsOne(c, g) /\ IsCall(g, "unload", f, Vacant) /\ g.cont = back
Looks(c, f, back) ==
    \E g \in Frames : IsOne(c, g) /\ IsLook(g, f, Inject[f], {}, back)
Turns(c, h, new) == \E g \in Frames : IsOne(c, g) /\ Outcome(g, h, new)
Takes(c, h, b) == \E g \in Frames : IsOne(c, g) /\ Taken(g, h, b)

\* The thread is in a call at this place.
IsAt(t, at) == stack[t] # <<>> /\ Top(t) \in Frames /\ Top(t).at = at

LEMMA InCall ==
    ASSUME TypeOK, NEW t \in Threads, NEW at, In(t, at)
    PROVE  IsAt(t, at)
  BY TopTyping DEF In, IsAt

LEMMA PlacesTyping ==
    {"force", "remove", "begin", "pass", "sync", "fetch", "check",
     "applyUnload", "reload", "load", "loading", "recheck",
     "giveBack", "gaveBack", "run", "activate", "active", "fail",
     "failed", "unload", "unloading", "clear", "unwind",
     "repending", "finalize", "end", "names", "notify",
     "probe", "reprobe", "update",
     "provide", "register", "refused", "pin", "tell", "install",
     "unlist", "request", "once", "unregister", "unpin"} \subseteq Places
  BY DEF Places

LEMMA ForceReloadStep ==
    ASSUME TypeOK, NEW t \in Threads, ForceReload(t)
    PROVE  IsAt(t, "force") /\ \E c : Step(t, c) /\ Goes(c, Top(t), "begin")
<1>1. In(t, "force") /\ Goto(t, "begin")
  BY DEF ForceReload
<1>2. IsAt(t, "force")
  BY <1>1, InCall
<1>3. QED
  BY <1>1, <1>2, PlacesTyping, Going DEF IsAt, Goes

LEMMA RemoveFiberStep ==
    ASSUME TypeOK, NEW t \in Threads, RemoveFiber(t)
    PROVE  IsAt(t, "remove") /\ \E c : Step(t, c) /\ Goes(c, Top(t), "begin")
<1>1. In(t, "remove") /\ Goto(t, "begin")
  BY DEF RemoveFiber
<1>2. IsAt(t, "remove")
  BY <1>1, InCall
<1>3. QED
  BY <1>1, <1>2, PlacesTyping, Going DEF IsAt, Goes

LEMMA BeginPassStep ==
    ASSUME TypeOK, NEW t \in Threads, BeginPass(t)
    PROVE  IsAt(t, "pass") /\ \E c : Step(t, c) /\ Goes(c, Top(t), "sync")
<1>1. In(t, "pass") /\ Goto(t, "sync")
  BY DEF BeginPass
<1>2. IsAt(t, "pass")
  BY <1>1, InCall
<1>3. QED
  BY <1>1, <1>2, PlacesTyping, Going DEF IsAt, Goes

LEMMA GiveBackStep ==
    ASSUME TypeOK, NEW t \in Threads, GiveBack(t)
    PROVE  IsAt(t, "giveBack") /\ \E c : Step(t, c) /\ Goes(c, Top(t), "gaveBack")
<1>1. In(t, "giveBack") /\ Goto(t, "gaveBack")
  BY DEF GiveBack
<1>2. IsAt(t, "giveBack")
  BY <1>1, InCall
<1>3. QED
  BY <1>1, <1>2, PlacesTyping, Going DEF IsAt, Goes

LEMMA PinStep ==
    ASSUME TypeOK, NEW t \in Threads, Pin(t)
    PROVE  IsAt(t, "pin") /\ \E c : Step(t, c) /\ Goes(c, Top(t), "tell")
<1>1. In(t, "pin") /\ Goto(t, "tell")
  BY DEF Pin
<1>2. IsAt(t, "pin")
  BY <1>1, InCall
<1>3. QED
  BY <1>1, <1>2, PlacesTyping, Going DEF IsAt, Goes

LEMMA BeginTransitionStep ==
    ASSUME TypeOK, NEW t \in Threads, BeginTransition(t)
    PROVE  /\ IsAt(t, "begin")
           /\ \E c :
              /\ Step(t, c)
              /\ \/ /\ busy[Top(t).f]
                    /\ IsNone(c)
                 \/ /\ ~busy[Top(t).f]
                    /\ Goes(c, Top(t), "pass")
<1>1. In(t, "begin")
  BY DEF BeginTransition
<1>2. IsAt(t, "begin") /\ Top(t).cont \in Places
  BY <1>1, InCall DEF IsAt, Frames
<1>3. CASE busy[Top(t).f]
  <2>1. Return(t)
    BY <1>3 DEF BeginTransition, Self
  <2>2. QED
    BY <1>2, <1>3, <2>1, PlacesTyping, Returning
       DEF IsAt
<1>4. CASE ~busy[Top(t).f]
  <2>1. Goto(t, "pass")
    BY <1>4 DEF BeginTransition, Self
  <2>2. QED
    BY <1>2, <1>4, <2>1, PlacesTyping, Going
       DEF IsAt, Goes
<1>5. QED
  BY <1>3, <1>4

LEMMA EndPassStep ==
    ASSUME TypeOK, NEW t \in Threads, EndPass(t)
    PROVE  /\ IsAt(t, "end")
           /\ \E c :
              /\ Step(t, c)
              /\ \/ /\ dirty[Top(t).f]
                    /\ Opens(c, "pass", Top(t).f)
                 \/ /\ ~dirty[Top(t).f]
                    /\ IsNone(c)
<1>1. In(t, "end")
  BY DEF EndPass
<1>2. IsAt(t, "end") /\ Top(t).cont \in Places
  BY <1>1, InCall DEF IsAt, Frames
<1>3. CASE dirty[Top(t).f]
  <2>1. Afresh(t, "pass")
    BY <1>3 DEF EndPass, Self
  <2>2. QED
    BY <1>2, <1>3, <2>1, PlacesTyping, StartingAfresh
       DEF IsAt, Opens
<1>4. CASE ~dirty[Top(t).f]
  <2>1. Return(t)
    BY <1>4 DEF EndPass, Self
  <2>2. QED
    BY <1>2, <1>4, <2>1, PlacesTyping, Returning
       DEF IsAt
<1>5. QED
  BY <1>3, <1>4

LEMMA SyncStep ==
    ASSUME TypeOK, NEW t \in Threads, Sync(t)
    PROVE  /\ IsAt(t, "sync")
           /\ \E c :
              /\ Step(t, c)
              /\ \/ /\ disposed[Top(t).f]
                    /\ Unloads1(c, Top(t).f, "end")
                 \/ /\ ~disposed[Top(t).f] /\ forceReload[Top(t).f]
                    /\ Unloads1(c, Top(t).f, "reload")
                 \/ /\ ~disposed[Top(t).f] /\ ~forceReload[Top(t).f]
                    /\ Looks(c, Top(t).f, "end")
<1>1. In(t, "sync")
  BY DEF Sync
<1>2. IsAt(t, "sync") /\ Top(t).cont \in Places
  BY <1>1, InCall DEF IsAt, Frames
<1>3. CASE disposed[Top(t).f]
  <2>1. Unloading(t, "end")
    BY <1>3 DEF Sync, Self
  <2>2. QED
    BY <1>2, <1>3, <2>1, PlacesTyping, UnloadingStep
       DEF IsAt, Unloads1
<1>4. CASE ~disposed[Top(t).f] /\ forceReload[Top(t).f]
  <2>1. Unloading(t, "reload")
    BY <1>4 DEF Sync, Self
  <2>2. QED
    BY <1>2, <1>4, <2>1, PlacesTyping, UnloadingStep
       DEF IsAt, Unloads1
<1>5. CASE ~disposed[Top(t).f] /\ ~forceReload[Top(t).f]
  <2>1. Resolving(t, "end")
    BY <1>5 DEF Sync, Self
  <2>2. QED
    BY <1>2, <1>5, <2>1, PlacesTyping, ResolvingStep
       DEF IsAt, Looks
<1>6. QED
  BY <1>3, <1>4, <1>5

LEMMA ApplyUnloadStep ==
    ASSUME TypeOK, NEW t \in Threads, ApplyUnload(t)
    PROVE  /\ IsAt(t, "applyUnload")
           /\ \E c :
              /\ Step(t, c)
              /\ \/ /\ disposed[Top(t).f]
                    /\ Opens(c, "end", Top(t).f)
                 \/ /\ ~disposed[Top(t).f]
                    /\ Unloads1(c, Top(t).f, "end")
<1>1. In(t, "applyUnload")
  BY DEF ApplyUnload
<1>2. IsAt(t, "applyUnload") /\ Top(t).cont \in Places
  BY <1>1, InCall DEF IsAt, Frames
<1>3. CASE disposed[Top(t).f]
  <2>1. Afresh(t, "end")
    BY <1>3 DEF ApplyUnload, Self, Forget
  <2>2. QED
    BY <1>2, <1>3, <2>1, PlacesTyping, StartingAfresh
       DEF IsAt, Opens
<1>4. CASE ~disposed[Top(t).f]
  <2>1. Unloading(t, "end")
    BY <1>4 DEF ApplyUnload, Self, Forget
  <2>2. QED
    BY <1>2, <1>4, <2>1, PlacesTyping, UnloadingStep
       DEF IsAt, Unloads1
<1>5. QED
  BY <1>3, <1>4

LEMMA ReloadStep ==
    ASSUME TypeOK, NEW t \in Threads, Reload(t)
    PROVE  /\ IsAt(t, "reload")
           /\ \E c :
              /\ Step(t, c)
              /\ \/ /\ disposed[Top(t).f]
                    /\ Opens(c, "end", Top(t).f)
                 \/ /\ ~disposed[Top(t).f]
                    /\ Looks(c, Top(t).f, "reload")
<1>1. In(t, "reload")
  BY DEF Reload
<1>2. IsAt(t, "reload") /\ Top(t).cont \in Places
  BY <1>1, InCall DEF IsAt, Frames
<1>3. CASE disposed[Top(t).f]
  <2>1. Afresh(t, "end")
    BY <1>3 DEF Reload, Self, Forget
  <2>2. QED
    BY <1>2, <1>3, <2>1, PlacesTyping, StartingAfresh
       DEF IsAt, Opens
<1>4. CASE ~disposed[Top(t).f]
  <2>1. Resolving(t, "reload")
    BY <1>4 DEF Reload, Self, Forget
  <2>2. QED
    BY <1>2, <1>4, <2>1, PlacesTyping, ResolvingStep
       DEF IsAt, Looks
<1>5. QED
  BY <1>3, <1>4

LEMMA LoadGenerationStep ==
    ASSUME TypeOK, NEW t \in Threads, LoadGeneration(t)
    PROVE  /\ IsAt(t, "load")
           /\ \E c :
              /\ Step(t, c)
              /\ \/ /\ disposed[Top(t).f]
                    /\ Opens(c, "end", Top(t).f)
                 \/ /\ ~disposed[Top(t).f]
                    /\ Goes(c, Top(t), "loading")
<1>1. In(t, "load")
  BY DEF LoadGeneration
<1>2. IsAt(t, "load") /\ Top(t).cont \in Places
  BY <1>1, InCall DEF IsAt, Frames
<1>3. CASE disposed[Top(t).f]
  <2>1. Afresh(t, "end")
    BY <1>3 DEF LoadGeneration, Self
  <2>2. QED
    BY <1>2, <1>3, <2>1, PlacesTyping, StartingAfresh
       DEF IsAt, Opens
<1>4. CASE ~disposed[Top(t).f]
  <2>1. Goto(t, "loading")
    BY <1>4 DEF LoadGeneration, Self
  <2>2. QED
    BY <1>2, <1>4, <2>1, PlacesTyping, Going
       DEF IsAt, Goes
<1>5. QED
  BY <1>3, <1>4

LEMMA ActivateStep ==
    ASSUME TypeOK, NEW t \in Threads, Activate(t)
    PROVE  /\ IsAt(t, "activate")
           /\ \E c :
              /\ Step(t, c)
              /\ \/ /\ disposed[Top(t).f]
                    /\ Unloads1(c, Top(t).f, "end")
                 \/ /\ ~disposed[Top(t).f]
                    /\ Goes(c, Top(t), "active")
<1>1. In(t, "activate")
  BY DEF Activate
<1>2. IsAt(t, "activate") /\ Top(t).cont \in Places
  BY <1>1, InCall DEF IsAt, Frames
<1>3. CASE disposed[Top(t).f]
  <2>1. Unloading(t, "end")
    BY <1>3 DEF Activate, Self
  <2>2. QED
    BY <1>2, <1>3, <2>1, PlacesTyping, UnloadingStep
       DEF IsAt, Unloads1
<1>4. CASE ~disposed[Top(t).f]
  <2>1. Goto(t, "active")
    BY <1>4 DEF Activate, Self
  <2>2. QED
    BY <1>2, <1>4, <2>1, PlacesTyping, Going
       DEF IsAt, Goes
<1>5. QED
  BY <1>3, <1>4

LEMMA UnloadStep ==
    ASSUME TypeOK, NEW t \in Threads, Unload(t)
    PROVE  /\ IsAt(t, "unload")
           /\ \E c :
              /\ Step(t, c)
              /\ \/ /\ live[Top(t).f]
                    /\ Goes(c, Top(t), "unloading")
                 \/ /\ ~live[Top(t).f] /\ disposed[Top(t).f]
                    /\ Goes(c, Top(t), "finalize")
                 \/ /\ ~live[Top(t).f] /\ ~disposed[Top(t).f]
                    /\ Goes(c, Top(t), Top(t).cont)
<1>1. In(t, "unload")
  BY DEF Unload
<1>2. IsAt(t, "unload") /\ Top(t).cont \in Places
  BY <1>1, InCall DEF IsAt, Frames
<1>3. CASE live[Top(t).f]
  <2>1. Goto(t, "unloading")
    BY <1>3 DEF Unload, Self
  <2>2. QED
    BY <1>2, <1>3, <2>1, PlacesTyping, Going
       DEF IsAt, Goes
<1>4. CASE ~live[Top(t).f] /\ disposed[Top(t).f]
  <2>1. Goto(t, "finalize")
    BY <1>4 DEF Unload, Self
  <2>2. QED
    BY <1>2, <1>4, <2>1, PlacesTyping, Going
       DEF IsAt, Goes
<1>5. CASE ~live[Top(t).f] /\ ~disposed[Top(t).f]
  <2>1. Goto(t, Top(t).cont)
    BY <1>5 DEF Unload, Self
  <2>2. QED
    BY <1>2, <1>5, <2>1, PlacesTyping, Going
       DEF IsAt, Goes
<1>6. QED
  BY <1>3, <1>4, <1>5

LEMMA UnloadedStep ==
    ASSUME TypeOK, NEW t \in Threads, Unloaded(t)
    PROVE  /\ IsAt(t, "unwind")
           /\ \E c :
              /\ Step(t, c)
              /\ \/ /\ disposed[Top(t).f]
                    /\ Goes(c, Top(t), "finalize")
                 \/ /\ ~disposed[Top(t).f]
                    /\ Goes(c, Top(t), "repending")
<1>1. In(t, "unwind")
  BY DEF Unloaded
<1>2. IsAt(t, "unwind") /\ Top(t).cont \in Places
  BY <1>1, InCall DEF IsAt, Frames
<1>3. CASE disposed[Top(t).f]
  <2>1. Goto(t, "finalize")
    BY <1>3 DEF Unloaded, Self
  <2>2. QED
    BY <1>2, <1>3, <2>1, PlacesTyping, Going
       DEF IsAt, Goes
<1>4. CASE ~disposed[Top(t).f]
  <2>1. Goto(t, "repending")
    BY <1>4 DEF Unloaded, Self
  <2>2. QED
    BY <1>2, <1>4, <2>1, PlacesTyping, Going
       DEF IsAt, Goes
<1>5. QED
  BY <1>3, <1>4

LEMMA RegisterStep ==
    ASSUME TypeOK, NEW t \in Threads, Register(t)
    PROVE  /\ IsAt(t, "register")
           /\ \E c :
              /\ Step(t, c)
              /\ \/ /\ slot[made[Top(t).b].label] # Vacant
                    /\ Goes(c, Top(t), "refused")
                 \/ /\ slot[made[Top(t).b].label] = Vacant
                    /\ Goes(c, Top(t), "pin")
<1>1. In(t, "register")
  BY DEF Register
<1>2. IsAt(t, "register") /\ Top(t).cont \in Places
  BY <1>1, InCall DEF IsAt, Frames
<1>3. CASE slot[made[Top(t).b].label] # Vacant
  <2>1. Goto(t, "refused")
    BY <1>3 DEF Register, Self
  <2>2. QED
    BY <1>2, <1>3, <2>1, PlacesTyping, Going
       DEF IsAt, Goes
<1>4. CASE slot[made[Top(t).b].label] = Vacant
  <2>1. Goto(t, "pin")
    BY <1>4 DEF Register, Self
  <2>2. QED
    BY <1>2, <1>4, <2>1, PlacesTyping, Going
       DEF IsAt, Goes
<1>5. QED
  BY <1>3, <1>4

LEMMA InstallStep ==
    ASSUME TypeOK, NEW t \in Threads, Install(t)
    PROVE  /\ IsAt(t, "install")
           /\ \E c :
              /\ Step(t, c)
              /\ \/ /\ Top(t).b \in deferred
                    /\ Goes(c, Top(t), "once")
                 \/ /\ Top(t).b \notin deferred
                    /\ IsNone(c)
<1>1. In(t, "install")
  BY DEF Install
<1>2. IsAt(t, "install") /\ Top(t).cont \in Places
  BY <1>1, InCall DEF IsAt, Frames
<1>3. CASE Top(t).b \in deferred
  <2>1. Goto(t, "once")
    BY <1>3 DEF Install, Self
  <2>2. QED
    BY <1>2, <1>3, <2>1, PlacesTyping, Going
       DEF IsAt, Goes
<1>4. CASE Top(t).b \notin deferred
  <2>1. Return(t)
    BY <1>4 DEF Install, Self
  <2>2. QED
    BY <1>2, <1>4, <2>1, PlacesTyping, Returning
       DEF IsAt
<1>5. QED
  BY <1>3, <1>4

LEMMA RequestDisposeStep ==
    ASSUME TypeOK, NEW t \in Threads, RequestDispose(t)
    PROVE  /\ IsAt(t, "request")
           /\ \E c :
              /\ Step(t, c)
              /\ \/ /\ Top(t).b \in installed
                    /\ Goes(c, Top(t), "once")
                 \/ /\ Top(t).b \notin installed
                    /\ IsNone(c)
<1>1. In(t, "request")
  BY DEF RequestDispose
<1>2. IsAt(t, "request") /\ Top(t).cont \in Places
  BY <1>1, InCall DEF IsAt, Frames
<1>3. CASE Top(t).b \in installed
  <2>1. Goto(t, "once")
    BY <1>3 DEF RequestDispose, Self
  <2>2. QED
    BY <1>2, <1>3, <2>1, PlacesTyping, Going
       DEF IsAt, Goes
<1>4. CASE Top(t).b \notin installed
  <2>1. Return(t)
    BY <1>4 DEF RequestDispose, Self
  <2>2. QED
    BY <1>2, <1>4, <2>1, PlacesTyping, Returning
       DEF IsAt
<1>5. QED
  BY <1>3, <1>4

LEMMA EnterOnceStep ==
    ASSUME TypeOK, NEW t \in Threads, EnterOnce(t)
    PROVE  /\ IsAt(t, "once")
           /\ \E c :
              /\ Step(t, c)
              /\ \/ /\ once[Top(t).b] = "new"
                    /\ Goes(c, Top(t), "unregister")
                 \/ /\ once[Top(t).b] = "done"
                    /\ IsNone(c)
<1>1. In(t, "once")
  BY DEF EnterOnce
<1>2. IsAt(t, "once") /\ Top(t).cont \in Places
  BY <1>1, InCall DEF IsAt, Frames
<1>3. CASE once[Top(t).b] = "new"
  <2>1. Goto(t, "unregister")
    BY <1>3 DEF EnterOnce, Self
  <2>2. QED
    BY <1>2, <1>3, <2>1, PlacesTyping, Going
       DEF IsAt, Goes
<1>4. CASE once[Top(t).b] = "done"
  <2>1. Return(t)
    BY <1>4 DEF EnterOnce, Self
  <2>2. QED
    BY <1>2, <1>4, <2>1, PlacesTyping, Returning
       DEF IsAt
<1>5. QED
  BY <1>3, <1>4 DEF EnterOnce

LEMMA SetActiveStep ==
    ASSUME TypeOK, NEW t \in Threads, SetActive(t)
    PROVE  /\ IsAt(t, "active")
           /\ \E c : Step(t, c) /\ Announces(c, Top(t), "active", "end")
           /\ state' = IF Refuses(Top(t).f, "active") THEN state
                       ELSE [state EXCEPT ![Top(t).f] = "active"]
<1>1. In(t, "active") /\ SetState(t, "active", "end")
  BY DEF SetActive
<1>2. IsAt(t, "active") /\ Top(t).cont \in Places /\ "active" \in FiberStates
  BY <1>1, InCall DEF IsAt, Frames, FiberStates
<1>3. QED
  BY <1>1, <1>2, PlacesTyping, SetStateStep DEF IsAt

LEMMA SetFailedStep ==
    ASSUME TypeOK, NEW t \in Threads, SetFailed(t)
    PROVE  /\ IsAt(t, "failed")
           /\ \E c : Step(t, c) /\ Announces(c, Top(t), "failed", "end")
           /\ state' = IF Refuses(Top(t).f, "failed") THEN state
                       ELSE [state EXCEPT ![Top(t).f] = "failed"]
<1>1. In(t, "failed") /\ SetState(t, "failed", "end")
  BY DEF SetFailed
<1>2. IsAt(t, "failed") /\ Top(t).cont \in Places /\ "failed" \in FiberStates
  BY <1>1, InCall DEF IsAt, Frames, FiberStates
<1>3. QED
  BY <1>1, <1>2, PlacesTyping, SetStateStep DEF IsAt

LEMMA SetUnloadingStep ==
    ASSUME TypeOK, NEW t \in Threads, SetUnloading(t)
    PROVE  /\ IsAt(t, "unloading")
           /\ \E c : Step(t, c) /\ Announces(c, Top(t), "unloading", "clear")
           /\ state' = IF Refuses(Top(t).f, "unloading") THEN state
                       ELSE [state EXCEPT ![Top(t).f] = "unloading"]
<1>1. In(t, "unloading") /\ SetState(t, "unloading", "clear")
  BY DEF SetUnloading
<1>2. IsAt(t, "unloading") /\ Top(t).cont \in Places /\ "unloading" \in FiberStates
  BY <1>1, InCall DEF IsAt, Frames, FiberStates
<1>3. QED
  BY <1>1, <1>2, PlacesTyping, SetStateStep DEF IsAt

LEMMA SetPendingStep ==
    ASSUME TypeOK, NEW t \in Threads, SetPending(t)
    PROVE  /\ IsAt(t, "repending")
           /\ \E c : Step(t, c) /\ Announces(c, Top(t), "pending", Top(t).cont)
           /\ state' = IF Refuses(Top(t).f, "pending") THEN state
                       ELSE [state EXCEPT ![Top(t).f] = "pending"]
<1>1. In(t, "repending") /\ SetState(t, "pending", Top(t).cont)
  BY DEF SetPending
<1>2. IsAt(t, "repending") /\ Top(t).cont \in Places /\ "pending" \in FiberStates
  BY <1>1, InCall DEF IsAt, Frames, FiberStates
<1>3. QED
  BY <1>1, <1>2, PlacesTyping, SetStateStep DEF IsAt

LEMMA FinalizeDisposeStep ==
    ASSUME TypeOK, NEW t \in Threads, FinalizeDispose(t)
    PROVE  /\ IsAt(t, "finalize")
           /\ \E c : Step(t, c) /\ Announces(c, Top(t), "disposed", Top(t).cont)
           /\ state' = IF Refuses(Top(t).f, "disposed") THEN state
                       ELSE [state EXCEPT ![Top(t).f] = "disposed"]
<1>1. In(t, "finalize") /\ SetState(t, "disposed", Top(t).cont)
  BY DEF FinalizeDispose
<1>2. IsAt(t, "finalize") /\ Top(t).cont \in Places /\ "disposed" \in FiberStates
  BY <1>1, InCall DEF IsAt, Frames, FiberStates
<1>3. QED
  BY <1>1, <1>2, PlacesTyping, SetStateStep DEF IsAt

LEMMA GaveBackStep ==
    ASSUME TypeOK, NEW t \in Threads, GaveBack(t)
    PROVE  /\ IsAt(t, "gaveBack")
           /\ \E c : Step(t, c) /\ Announces(c, Top(t), "pending", "end")
           /\ state' = IF Refuses(Top(t).f, "pending") THEN state
                       ELSE [state EXCEPT ![Top(t).f] = "pending"]
<1>1. In(t, "gaveBack") /\ SetState(t, "pending", "end")
  BY DEF GaveBack
<1>2. IsAt(t, "gaveBack") /\ Top(t).cont \in Places /\ "pending" \in FiberStates
  BY <1>1, InCall DEF IsAt, Frames, FiberStates
<1>3. QED
  BY <1>1, <1>2, PlacesTyping, SetStateStep DEF IsAt

\* Calls from outside.
Starts(t, c) == stack[t] = <<>> /\ Changes(t, 0, c)
StartsAt(c, at, f, b) == \E g \in Frames : IsOne(c, g) /\ IsCall(g, at, f, b)

LEMMA LoadStep ==
    ASSUME TypeOK, NEW t \in Threads, NEW f \in Fibers, Load(t, f)
    PROVE  \E c : Starts(t, c) /\ StartsAt(c, "begin", f, Vacant)
<1>1. stack[t] = <<>> /\ Enter(t, Frame("begin", f))
  BY DEF Load, Idle
<1>2. QED
  BY <1>1, PlacesTyping, FrameTyping, Entering1 DEF Starts, StartsAt

LEMMA RestartStep ==
    ASSUME TypeOK, NEW t \in Threads, NEW f \in Fibers, Restart(t, f)
    PROVE  \E c : Starts(t, c) /\ StartsAt(c, "force", f, Vacant)
<1>1. stack[t] = <<>> /\ Enter(t, Frame("force", f))
  BY DEF Restart, Idle
<1>2. QED
  BY <1>1, PlacesTyping, FrameTyping, Entering1 DEF Starts, StartsAt

LEMMA DisposeStep ==
    ASSUME TypeOK, NEW t \in Threads, NEW f \in Fibers, Dispose(t, f)
    PROVE  \E c : Starts(t, c) /\ StartsAt(c, "remove", f, Vacant)
<1>1. stack[t] = <<>> /\ Enter(t, Frame("remove", f))
  BY DEF Dispose, Idle
<1>2. QED
  BY <1>1, PlacesTyping, FrameTyping, Entering1 DEF Starts, StartsAt

\* A call of provide for a name.
IsProvide(g, f, n) == IsCall(g, "provide", f, Vacant) /\ g.name = n

LEMMA ProvideTyping ==
    ASSUME NEW f \in Fibers, NEW n \in Names
    PROVE  /\ [Frame("provide", f) EXCEPT !.name = n] \in Frames
           /\ IsProvide([Frame("provide", f) EXCEPT !.name = n], f, n)
<1> DEFINE h == Frame("provide", f)
<1>1. h \in Frames /\ IsCall(h, "provide", f, Vacant)
  BY PlacesTyping, FrameTyping
<1> HIDE DEF h
<1>2. [h EXCEPT !.name = n] \in Frames /\ IsProvide([h EXCEPT !.name = n], f, n)
  BY <1>1 DEF Frames, IsCall, IsProvide
<1>3. QED
  BY <1>2 DEF h

\* A call about a binding.
LEMMA BindingCallTyping ==
    ASSUME NEW at \in Places, NEW f \in Fibers, NEW b \in Bindings
    PROVE  /\ [Frame(at, f) EXCEPT !.b = b] \in Frames
           /\ IsCall([Frame(at, f) EXCEPT !.b = b], at, f, b)
<1> DEFINE h == Frame(at, f)
<1>1. h \in Frames /\ IsCall(h, at, f, Vacant)
  BY FrameTyping
<1> HIDE DEF h
<1>2. [h EXCEPT !.b = b] \in Frames /\ IsCall([h EXCEPT !.b = b], at, f, b)
  BY <1>1 DEF Frames, IsCall
<1>3. QED
  BY <1>2 DEF h

LEMMA ProvideAgainStep ==
    ASSUME TypeOK, NEW t \in Threads, NEW f \in Fibers, NEW n \in Names,
           ProvideAgain(t, f, n)
    PROVE  \E c : /\ Starts(t, c)
                  /\ \E g \in Frames : IsOne(c, g) /\ IsProvide(g, f, n)
<1>1. stack[t] = <<>> /\ Enter(t, [Frame("provide", f) EXCEPT !.name = n])
  BY DEF ProvideAgain, Idle
<1>2. QED
  BY <1>1, ProvideTyping, Entering1 DEF Starts

\* A binding that exists is described.
LEMMA MadeTyping ==
    ASSUME TypeOK, NEW b \in Known
    PROVE  /\ made[b] \in [provider : Fibers, name : Names, label : Labels]
           /\ made[b].provider \in Fibers /\ made[b].name \in Names
           /\ made[b].label \in Labels
           /\ Len(made) \in Nat
<1>1. made \in Seq([provider : Fibers, name : Names, label : Labels])
  BY DEF TypeOK
<1>2. made[b] \in [provider : Fibers, name : Names, label : Labels]
  BY <1>1, ElementOfSeq DEF Known
<1>3. QED
  BY <1>1, <1>2, LenProperties

LEMMA KnownDomain ==
    ASSUME TypeOK
    PROVE  DOMAIN made = Known /\ Len(made) \in Nat
<1>1. made \in Seq([provider : Fibers, name : Names, label : Labels])
  BY DEF TypeOK
<1>2. QED
  BY <1>1, LenProperties DEF Known

LEMMA WithdrawStep ==
    ASSUME TypeOK, NEW t \in Threads, NEW b \in Bindings, b \in Known,
           Withdraw(t, b)
    PROVE  \E c : /\ Starts(t, c)
                  /\ \E g, h \in Frames :
                       /\ IsTwo(c, g, h)
                       /\ IsCall(g, "unlist", made[b].provider, b)
                       /\ IsCall(h, "request", made[b].provider, b)
<1> DEFINE f == made[b].provider
           g == [Frame("unlist", f) EXCEPT !.b = b]
           h == [Frame("request", f) EXCEPT !.b = b]
<1>1. f \in Fibers
  BY MadeTyping
<1>2. /\ g \in Frames /\ IsCall(g, "unlist", f, b)
      /\ h \in Frames /\ IsCall(h, "request", f, b)
  BY <1>1, PlacesTyping, BindingCallTyping
<1>3. stack[t] = <<>> /\ stack' = [stack EXCEPT ![t] = <<g, h>>]
  BY DEF Withdraw, Idle
<1> HIDE DEF g, h
<1>4. <<g, h>> \in Seq(Frames) /\ IsTwo(<<g, h>>, g, h)
  BY <1>2, Sequences
<1>5. QED
  BY <1>2, <1>3, <1>4, Entering DEF Starts

LEMMA SetStep ==
    ASSUME TypeOK, NEW t \in Threads, NEW f \in Fibers, NEW n \in Names,
           Set(t, f, n)
    PROVE  \E c : /\ Starts(t, c)
                  /\ StartsAt(c, "update", f, slot[Place[f][n]])
                  /\ slot[Place[f][n]] # Vacant
<1>1. Place[f][n] \in Labels
  BY GraphAssumption
<1>2. slot[Place[f][n]] \in Bindings \cup {Vacant}
  BY <1>1 DEF TypeOK
<1>3. stack[t] = <<>> /\ slot[Place[f][n]] # Vacant
      /\ Enter(t, [Frame("update", f) EXCEPT !.b = slot[Place[f][n]]])
  BY DEF Set, Idle
<1>4. QED
  BY <1>2, <1>3, PlacesTyping, BindingCallTyping, Entering1 DEF Starts, StartsAt

----------------------------------------------------------------------------
(* ... the announcements. *)

Notifies(c, f, n, l) == \E g \in Frames : IsOne(c, g) /\ IsNotification(g, f, n, l)

LEMMA UpdateStep ==
    ASSUME TypeOK, NEW t \in Threads, Top(t).b \in Known, Update(t)
    PROVE  /\ IsAt(t, "update")
           /\ \E c : /\ Step(t, c)
                     /\ \/ /\ InSlot(Top(t).b)
                           /\ Notifies(c, Top(t).f, made[Top(t).b].name,
                                       made[Top(t).b].label)
                        \/ ~InSlot(Top(t).b) /\ IsNone(c)
<1>1. In(t, "update")
  BY DEF Update
<1>2. IsAt(t, "update") /\ Top(t).f \in Fibers
  BY <1>1, InCall DEF IsAt, Frames
<1> DEFINE b == Top(t).b
<1>3. made[b].name \in Names /\ made[b].label \in Labels
  BY MadeTyping
<1>4. CASE InSlot(b)
  <2>1. Become(t, Notification(Top(t).f, made[b].name, made[b].label))
    BY <1>4 DEF Update, Self, InSlot
  <2>2. QED
    BY <1>2, <1>3, <1>4, <2>1, NotificationTyping, Becoming DEF IsAt, Notifies
<1>5. CASE ~InSlot(b)
  <2>1. Return(t)
    BY <1>5 DEF Update, InSlot
  <2>2. QED
    BY <1>2, <1>5, <2>1, Returning DEF IsAt
<1>6. QED
  BY <1>4, <1>5

\* A call for each of the fibers that inject the name in the scope.
Injecting(n, l) == {f \in attached : n \in ToSet(Inject[f]) /\ Scope[f][n] = l}

LEMMA NotifyStep ==
    ASSUME TypeOK, NEW t \in Threads, Notify(t)
    PROVE  /\ IsAt(t, "notify")
           /\ \E c :
                /\ Step(t, c)
                /\ \A i \in 1..Len(c) : \E f \in Injecting(Top(t).name, Top(t).label) :
                      IsCall(c[i], "begin", f, Vacant)
                /\ \A f \in Injecting(Top(t).name, Top(t).label) : \E i \in 1..Len(c) :
                      IsCall(c[i], "begin", f, Vacant)
<1> DEFINE S == Injecting(Top(t).name, Top(t).label)
<1>1. IsAt(t, "notify")
  BY InCall DEF Notify
<1>2. PICK o \in SetToSeqs(S) : Continue(t, [i \in DOMAIN o |-> Frame("begin", o[i])])
  BY DEF Notify, ForEach, Injecting
<1>3. S \subseteq Fibers /\ IsFiniteSet(S)
  <2>1. attached \subseteq Fibers
    BY DEF TypeOK
  <2>2. S \subseteq Fibers
    BY <2>1 DEF Injecting
  <2>3. QED
    BY <2>2, FS_Subset, GraphAssumption
<1>4. /\ Len(o) \in Nat /\ DOMAIN o = 1..Len(o)
      /\ \A i \in 1..Len(o) : o[i] \in S
      /\ \A x \in S : \E i \in 1..Len(o) : o[i] = x
  BY <1>3, OrderOfAll
<1> HIDE DEF S
<1> DEFINE c == [i \in 1..Len(o) |-> Frame("begin", o[i])]
<1>5. \A i \in 1..Len(o) : c[i] \in Frames /\ IsCall(c[i], "begin", o[i], Vacant)
  BY <1>3, <1>4, PlacesTyping, FrameTyping
<1>6. c \in Seq(Frames) /\ Len(c) = Len(o)
  <2>1. \A i \in 1..Len(o) : Frame("begin", o[i]) \in Frames
    BY <1>3, <1>4, PlacesTyping, FrameTyping
  <2>2. c \in Seq(Frames)
    BY <1>4, <2>1, IsASeq
  <2>3. QED
    BY <1>4, <2>2, LenProperties
<1>7. Continue(t, c)
  BY <1>2, <1>4
<1> HIDE DEF c
<1>8. Step(t, c)
  BY <1>1, <1>6, <1>7, Continuing DEF IsAt
<1>9. \A i \in 1..Len(c) : \E f \in S : IsCall(c[i], "begin", f, Vacant)
  BY <1>4, <1>5, <1>6
<1>10. \A f \in S : \E i \in 1..Len(c) : IsCall(c[i], "begin", f, Vacant)
  <2>1. SUFFICES ASSUME NEW f \in S
                 PROVE  \E i \in 1..Len(c) : IsCall(c[i], "begin", f, Vacant)
    OBVIOUS
  <2>2. PICK i \in 1..Len(o) : o[i] = f
    BY <1>4
  <2>3. QED
    BY <1>5, <1>6, <2>2
<1>11. QED
  BY <1>1, <1>8, <1>9, <1>10 DEF S

LEMMA NotifyBegins ==
    ASSUME TypeOK, NEW t \in Threads, Notify(t)
    PROVE  \E c : Step(t, c) /\ \A i \in 1..Len(c) : c[i].at = "begin"
<1>1. PICK c : Step(t, c) /\ \A i \in 1..Len(c) :
                 \E f \in Injecting(Top(t).name, Top(t).label) :
                     IsCall(c[i], "begin", f, Vacant)
  BY NotifyStep
<1>2. \A i \in 1..Len(c) : c[i].at = "begin"
  BY <1>1 DEF IsCall
<1>3. QED
  BY <1>1, <1>2

LEMMA NotifyProvidedStep ==
    ASSUME TypeOK, SlotsFit, NEW t \in Threads, NotifyProvided(t)
    PROVE  /\ IsAt(t, "names")
           /\ \E c :
                /\ Step(t, c)
                /\ \A i \in 1..Len(c) : \E n \in Provided(Top(t).f) :
                      IsNotification(c[i], Top(t).f, n, Scope[Top(t).f][n])
                /\ \A n \in Provided(Top(t).f) : \E i \in 1..Len(c) :
                      IsNotification(c[i], Top(t).f, n, Scope[Top(t).f][n])
<1> DEFINE f == Top(t).f
           S == Provided(f)
<1>1. IsAt(t, "names")
  BY InCall DEF NotifyProvided
<1>2. PICK o \in SetToSeqs(S) :
         Continue(t, [i \in DOMAIN o |-> Notification(f, o[i], Scope[f][o[i]])])
  BY DEF NotifyProvided, ForEach, Self
<1>3. f \in Fibers
  BY <1>1 DEF IsAt, Frames
<1>4. S \subseteq Names /\ IsFiniteSet(S)
  <2>1. \A l \in Labels : slot[l] # Vacant => made[slot[l]].name \in Names
    BY MadeTyping DEF SlotsFit
  <2>2. S \subseteq Names
    BY <2>1 DEF Provided
  <2>3. QED
    BY <2>2, FS_Subset, GraphAssumption
<1>5. /\ Len(o) \in Nat /\ DOMAIN o = 1..Len(o)
      /\ \A i \in 1..Len(o) : o[i] \in S
      /\ \A x \in S : \E i \in 1..Len(o) : o[i] = x
  BY <1>4, OrderOfAll
<1> HIDE DEF S, f
<1> DEFINE c == [i \in 1..Len(o) |-> Notification(f, o[i], Scope[f][o[i]])]
<1>6. \A i \in 1..Len(o) : /\ Notification(f, o[i], Scope[f][o[i]]) \in Frames
                           /\ IsNotification(Notification(f, o[i], Scope[f][o[i]]),
                                             f, o[i], Scope[f][o[i]])
  <2> TAKE i \in 1..Len(o)
  <2>1. o[i] \in Names /\ Scope[f][o[i]] \in Labels
    BY <1>3, <1>4, <1>5, GraphAssumption
  <2>2. QED
    BY <1>3, <2>1, NotificationTyping
<1>7. c \in Seq(Frames) /\ Len(c) = Len(o)
  <2>1. c \in Seq(Frames)
    BY <1>5, <1>6, IsASeq
  <2>2. QED
    BY <1>5, <2>1, LenProperties
<1>8. \A i \in 1..Len(c) : IsNotification(c[i], f, o[i], Scope[f][o[i]])
  BY <1>6, <1>7
<1>9. Continue(t, c)
  BY <1>2, <1>5
<1> HIDE DEF c
<1>10. Step(t, c)
  BY <1>1, <1>7, <1>9, Continuing DEF IsAt
<1>11. \A i \in 1..Len(c) : \E n \in S : IsNotification(c[i], f, n, Scope[f][n])
  BY <1>5, <1>7, <1>8
<1>12. \A n \in S : \E i \in 1..Len(c) : IsNotification(c[i], f, n, Scope[f][n])
  <2> TAKE n \in S
  <2>1. PICK i \in 1..Len(o) : o[i] = n
    BY <1>5
  <2>2. QED
    BY <1>7, <1>8, <2>1
<1>13. QED
  BY <1>1, <1>10, <1>11, <1>12, Zenon DEF S, f

----------------------------------------------------------------------------
(* ... the look at the names. *)

\* The call h, at another place and about another binding.
IsAbout(g, h, at, b) ==
    /\ g.at = at /\ g.f = h.f /\ g.b = b /\ g.todo = h.todo
    /\ g.queue = h.queue /\ g.got = h.got /\ g.cont = h.cont
Finds(c, h, at, b) == \E g \in Frames : IsOne(c, g) /\ IsAbout(g, h, at, b)

LEMMA AboutTyping ==
    ASSUME NEW h \in Frames, NEW at \in Places, NEW b \in Bindings
    PROVE  /\ [[h EXCEPT !.at = at] EXCEPT !.b = b] \in Frames
           /\ IsAbout([[h EXCEPT !.at = at] EXCEPT !.b = b], h, at, b)
           /\ [[h EXCEPT !.at = at] EXCEPT !.b = b].name = h.name
           /\ [[h EXCEPT !.at = at] EXCEPT !.b = b].label = h.label
<1> DEFINE k == [h EXCEPT !.at = at]
<1>1. k \in Frames /\ Moved(k, h, at)
  BY MovedTyping
<1> HIDE DEF k
<1>2. /\ [k EXCEPT !.b = b] \in Frames /\ IsAbout([k EXCEPT !.b = b], h, at, b)
      /\ [k EXCEPT !.b = b].name = h.name /\ [k EXCEPT !.b = b].label = h.label
  BY <1>1 DEF Frames, Moved, IsAbout
<1>3. QED
  BY <1>2 DEF k

\* The binding under the label of a name.
Under(f, n) == slot[Scope[f][n]]

LEMMA FetchStep ==
    ASSUME TypeOK, NEW t \in Threads, Fetch(t)
    PROVE  /\ IsAt(t, "fetch")
           /\ \E c :
              /\ Step(t, c)
              /\ \/ /\ Top(t).queue = <<>>
                    /\ Turns(c, Top(t), Top(t).got)
                 \/ /\ Top(t).queue # <<>>
                    /\ Under(Top(t).f, Head(Top(t).queue)) # Vacant
                    /\ made[Under(Top(t).f, Head(Top(t).queue))].name = Head(Top(t).queue)
                    /\ Finds(c, Top(t), "check", Under(Top(t).f, Head(Top(t).queue)))
                 \/ /\ Top(t).queue # <<>>
                    /\ ~(/\ Under(Top(t).f, Head(Top(t).queue)) # Vacant
                         /\ made[Under(Top(t).f, Head(Top(t).queue))].name = Head(Top(t).queue))
                    /\ Turns(c, Top(t), Inactive)
<1>1. In(t, "fetch")
  BY DEF Fetch
<1>2. IsAt(t, "fetch") /\ Top(t) \in Frames /\ Top(t).f \in Fibers
      /\ Top(t).queue \in Seq(Names) /\ Top(t).got \in Epochs /\ Inactive \in Epochs
  BY <1>1, InCall DEF IsAt, Frames, Epochs
<1> DEFINE n == Head(Top(t).queue)
           b == Under(Top(t).f, n)
<1>3. CASE Top(t).queue = <<>>
  <2>1. Resolved(t, Top(t).got)
    BY <1>3 DEF Fetch
  <2>2. QED
    BY <1>2, <1>3, <2>1, ResolvedStep DEF IsAt, Turns
<1>4. CASE Top(t).queue # <<>> /\ b # Vacant /\ made[b].name = n
  <2>1. Become(t, [At(t, "check") EXCEPT !.b = b])
    BY <1>4 DEF Fetch, Self, Under
  <2>2. n \in Names
    BY <1>2, <1>4, HeadTailProperties
  <2>3. b \in Bindings
    BY <1>2, <1>4, <2>2, GraphAssumption DEF TypeOK, Under
  <2> DEFINE g == [At(t, "check") EXCEPT !.b = b]
  <2>4. g \in Frames /\ IsAbout(g, Top(t), "check", b)
    BY <1>2, <2>3, PlacesTyping, AboutTyping DEF At
  <2> HIDE DEF b, n, g
  <2>5. PICK c : Step(t, c) /\ IsOne(c, g)
    BY <1>2, <2>1, <2>4, Becoming DEF IsAt, g
  <2>6. Finds(c, Top(t), "check", b)
    BY <2>4, <2>5 DEF Finds
  <2>7. QED
    BY <1>2, <1>4, <2>5, <2>6 DEF b, n
<1>5. CASE Top(t).queue # <<>> /\ ~(b # Vacant /\ made[b].name = n)
  <2>1. Resolved(t, Inactive)
    BY <1>5 DEF Fetch, Self, Under
  <2>2. PICK c : \E g \in Frames :
                   Step(t, c) /\ IsOne(c, g) /\ Outcome(g, Top(t), Inactive)
    BY <1>2, <2>1, ResolvedStep DEF IsAt
  <2>3. Step(t, c) /\ Turns(c, Top(t), Inactive)
    BY <2>2 DEF Turns
  <2>4. QED
    BY <1>2, <1>5, <2>3
<1>6. QED
  BY <1>3, <1>4, <1>5

LEMMA CheckStep ==
    ASSUME TypeOK, NEW t \in Threads, Check(t), Top(t).b # Vacant, Top(t).queue # <<>>
    PROVE  /\ IsAt(t, "check")
           /\ \E c :
              /\ Step(t, c)
              /\ \/ /\ state[made[Top(t).b].provider] # "active"
                    /\ Turns(c, Top(t), Inactive)
                 \/ /\ state[made[Top(t).b].provider] = "active"
                    /\ made[Top(t).b].name \in Checked
                    /\ Goes(c, Top(t), "probe")
                 \/ /\ state[made[Top(t).b].provider] = "active"
                    /\ Takes(c, Top(t), Top(t).b)
<1>1. In(t, "check")
  BY DEF Check
<1>2. IsAt(t, "check") /\ Top(t).b \in Bindings /\ Inactive \in Epochs
  BY <1>1, InCall DEF IsAt, Frames, Epochs
<1>3. CASE state[made[Top(t).b].provider] # "active"
  <2>1. Resolved(t, Inactive)
    BY <1>3 DEF Check
  <2>2. QED
    BY <1>2, <1>3, <2>1, ResolvedStep DEF IsAt, Turns
<1>4. CASE state[made[Top(t).b].provider] = "active" /\ made[Top(t).b].name \in Checked
  <2>1. Goto(t, "probe")
    BY <1>4 DEF Check
  <2>2. QED
    BY <1>2, <1>4, <2>1, PlacesTyping, Going DEF IsAt, Goes
<1>5. CASE state[made[Top(t).b].provider] = "active" /\ made[Top(t).b].name \notin Checked
  <2>1. Took(t, Top(t).b)
    BY <1>5 DEF Check
  <2>2. QED
    BY <1>2, <1>5, <2>1, TookStep DEF IsAt, Takes
<1>6. QED
  BY <1>3, <1>4, <1>5

LEMMA ProbeStep ==
    ASSUME TypeOK, NEW t \in Threads, Probe(t), Top(t).b # Vacant, Top(t).queue # <<>>
    PROVE  /\ IsAt(t, "probe")
           /\ \E c :
              /\ Step(t, c)
              /\ \/ /\ Top(t).b \in silent
                    /\ Turns(c, Top(t), Inactive)
                 \/ /\ Top(t).b \notin silent
                    /\ Takes(c, Top(t), Top(t).b)
<1>1. In(t, "probe")
  BY DEF Probe
<1>2. IsAt(t, "probe") /\ Top(t).b \in Bindings /\ Inactive \in Epochs
  BY <1>1, InCall DEF IsAt, Frames, Epochs
<1>3. CASE Top(t).b \in silent
  <2>1. Resolved(t, Inactive)
    BY <1>3 DEF Probe
  <2>2. QED
    BY <1>2, <1>3, <2>1, ResolvedStep DEF IsAt, Turns
<1>4. CASE Top(t).b \notin silent
  <2>1. Took(t, Top(t).b)
    BY <1>4 DEF Probe
  <2>2. QED
    BY <1>2, <1>4, <2>1, TookStep DEF IsAt, Takes
<1>5. QED
  BY <1>3, <1>4

----------------------------------------------------------------------------
(* ... a generation. *)

\* The call h, at another place, with these bindings to do.
IsLeft(g, h, at, todo) ==
    /\ g.at = at /\ g.f = h.f /\ g.b \in {h.b, Vacant} /\ g.todo = todo
    /\ g.queue = h.queue /\ g.got = h.got /\ g.cont = h.cont
Leaves(c, h, at, todo) == \E g \in Frames : IsOne(c, g) /\ IsLeft(g, h, at, todo)

LEMMA SetLoadingStep ==
    ASSUME TypeOK, NEW t \in Threads, SetLoading(t)
    PROVE  /\ IsAt(t, "loading")
           /\ \E c :
              /\ Step(t, c)
              /\ \/ /\ disposed[Top(t).f] /\ state' = state
                    /\ Opens(c, "end", Top(t).f)
                 \/ /\ ~disposed[Top(t).f]
                    /\ state' = [state EXCEPT ![Top(t).f] = "loading"]
                    /\ Leaves(c, Top(t), "recheck", Top(t).got)
<1>1. In(t, "loading")
  BY DEF SetLoading
<1>2. IsAt(t, "loading") /\ Top(t) \in Frames
  BY <1>1, InCall DEF IsAt
<1>3. CASE disposed[Top(t).f]
  <2>1. Afresh(t, "end") /\ state' = state
    BY <1>3 DEF SetLoading, Self
  <2>2. QED
    BY <1>2, <1>3, <2>1, PlacesTyping, StartingAfresh DEF IsAt, Opens
<1>4. CASE ~disposed[Top(t).f]
  <2> DEFINE k == At(t, "recheck")
             g == [k EXCEPT !.todo = Top(t).got]
  <2>1. Become(t, g) /\ state' = [state EXCEPT ![Top(t).f] = "loading"]
    BY <1>4 DEF SetLoading, Self
  <2>2. k \in Frames /\ Moved(k, Top(t), "recheck") /\ Top(t).got \subseteq Bindings
    BY <1>2, PlacesTyping, MovedTyping DEF At, Frames
  <2> HIDE DEF k
  <2>3. g \in Frames /\ IsLeft(g, Top(t), "recheck", Top(t).got)
    BY <2>2 DEF Frames, Moved, IsLeft
  <2> HIDE DEF g
  <2>4. QED
    BY <1>2, <1>4, <2>1, <2>3, Becoming DEF IsAt, Leaves
<1>5. QED
  BY <1>3, <1>4

LEMMA RecheckStep ==
    ASSUME TypeOK, NEW t \in Threads, Recheck(t)
    PROVE  /\ IsAt(t, "recheck")
           /\ \E c : \E b \in Top(t).todo :
              /\ Step(t, c)
              /\ \/ Opens(c, "giveBack", Top(t).f)
                 \/ Finds(c, Top(t), "reprobe", b)
                 \/ Leaves(c, Top(t), "recheck", Top(t).todo \ {b})
<1>1. In(t, "recheck")
  BY DEF Recheck
<1>2. IsAt(t, "recheck") /\ Top(t) \in Frames /\ Top(t).todo \subseteq Bindings
  BY <1>1, InCall DEF IsAt, Frames
<1>3. PICK b \in Top(t).todo :
         IF state[made[b].provider] # "active" THEN Afresh(t, "giveBack")
         ELSE IF made[b].name \in Checked THEN Become(t, [At(t, "reprobe") EXCEPT !.b = b])
         ELSE Become(t, [Top(t) EXCEPT !.todo = @ \ {b}])
  BY DEF Recheck
<1>4. CASE Afresh(t, "giveBack")
  BY <1>2, <1>4, PlacesTyping, StartingAfresh DEF IsAt, Opens
<1>5. CASE Become(t, [At(t, "reprobe") EXCEPT !.b = b])
  <2> DEFINE g == [At(t, "reprobe") EXCEPT !.b = b]
  <2>1. g \in Frames /\ IsAbout(g, Top(t), "reprobe", b)
    BY <1>2, PlacesTyping, AboutTyping DEF At
  <2>2. Become(t, g)
    BY <1>5
  <2> HIDE DEF g
  <2>3. QED
    BY <1>2, <2>1, <2>2, Becoming DEF IsAt, Finds
<1>6. CASE Become(t, [Top(t) EXCEPT !.todo = @ \ {b}])
  <2> DEFINE g == [Top(t) EXCEPT !.todo = @ \ {b}]
  <2>1. g \in Frames /\ IsLeft(g, Top(t), "recheck", Top(t).todo \ {b})
    BY <1>2 DEF Frames, IsLeft, IsAt
  <2>2. Become(t, g)
    BY <1>6
  <2> HIDE DEF g
  <2>3. QED
    BY <1>2, <2>1, <2>2, Becoming DEF IsAt, Leaves
<1>7. QED
  BY <1>3, <1>4, <1>5, <1>6

LEMMA ReprobeStep ==
    ASSUME TypeOK, NEW t \in Threads, Reprobe(t)
    PROVE  /\ IsAt(t, "reprobe")
           /\ \E c :
              /\ Step(t, c)
              /\ \/ Opens(c, "giveBack", Top(t).f)
                 \/ Leaves(c, Top(t), "recheck", Top(t).todo \ {Top(t).b})
<1>1. In(t, "reprobe")
  BY DEF Reprobe
<1>2. IsAt(t, "reprobe") /\ Top(t) \in Frames
  BY <1>1, InCall DEF IsAt
<1>3. CASE Afresh(t, "giveBack")
  BY <1>2, <1>3, PlacesTyping, StartingAfresh DEF IsAt, Opens
<1>4. CASE Become(t, [At(t, "recheck") EXCEPT !.b = Vacant, !.todo = @ \ {Top(t).b}])
  <2> DEFINE k == At(t, "recheck")
             g == [k EXCEPT !.b = Vacant, !.todo = @ \ {Top(t).b}]
  <2>1. k \in Frames /\ Moved(k, Top(t), "recheck")
    BY <1>2, PlacesTyping, MovedTyping DEF At
  <2> HIDE DEF k
  <2>2. g \in Frames /\ IsLeft(g, Top(t), "recheck", Top(t).todo \ {Top(t).b})
    BY <2>1 DEF Frames, Moved, IsLeft
  <2>3. Become(t, g)
    BY <1>4 DEF k
  <2> HIDE DEF g
  <2>4. QED
    BY <1>2, <2>2, <2>3, Becoming DEF IsAt, Leaves
<1>5. QED
  BY <1>3, <1>4 DEF Reprobe

\* The body, with the names it is going to provide.
IsBody(g, f, queue) ==
    /\ g.at = "run" /\ g.f = f /\ g.b = Vacant /\ g.todo = {} /\ g.got = {}
    /\ g.queue = queue

LEMMA CommitStep ==
    ASSUME TypeOK, NEW t \in Threads, Commit(t)
    PROVE  /\ IsAt(t, "recheck") /\ Top(t).todo = {}
           /\ \E c : /\ Step(t, c)
                     /\ \E g \in Frames : /\ IsOne(c, g)
                                          /\ IsBody(g, Top(t).f, Offers[Top(t).f])
<1> DEFINE h == Frame("run", Top(t).f)
           g == [h EXCEPT !.queue = Offers[Top(t).f]]
<1>1. In(t, "recheck") /\ Top(t).todo = {} /\ Become(t, g)
  BY DEF Commit, Self
<1>2. IsAt(t, "recheck") /\ Top(t).f \in Fibers
  BY <1>1, InCall DEF IsAt, Frames
<1>3. h \in Frames /\ IsCall(h, "run", Top(t).f, Vacant) /\ Offers[Top(t).f] \in Seq(Names)
  BY <1>2, PlacesTyping, FrameTyping, GraphAssumption
<1> HIDE DEF h
<1>4. g \in Frames /\ IsBody(g, Top(t).f, Offers[Top(t).f])
  BY <1>3 DEF Frames, IsCall, IsBody
<1> HIDE DEF g
<1>5. QED
  BY <1>1, <1>2, <1>4, Becoming DEF IsAt

LEMMA RunBodyStep ==
    ASSUME TypeOK, NEW t \in Threads, RunBody(t)
    PROVE  /\ IsAt(t, "run")
           /\ \E c :
              /\ Step(t, c)
              /\ \/ /\ Top(t).queue # <<>>
                    /\ \E g, k \in Frames :
                         /\ IsTwo(c, g, k)
                         /\ g.at = "run" /\ g.f = Top(t).f /\ g.b = Top(t).b
                         /\ g.todo = Top(t).todo /\ g.got = Top(t).got
                         /\ g.queue = Tail(Top(t).queue)
                         /\ IsProvide(k, Top(t).f, Head(Top(t).queue))
                 \/ Goes(c, Top(t), "activate")
                 \/ Goes(c, Top(t), "fail")
<1>1. In(t, "run")
  BY DEF RunBody
<1>2. IsAt(t, "run") /\ Top(t) \in Frames /\ Top(t).f \in Fibers
      /\ Top(t).queue \in Seq(Names)
  BY <1>1, InCall DEF IsAt, Frames
<1>3. CASE Top(t).queue # <<>>
  <2> DEFINE g == [Top(t) EXCEPT !.queue = Tail(@)]
             k == [Frame("provide", Top(t).f) EXCEPT !.name = Head(Top(t).queue)]
  <2>1. Head(Top(t).queue) \in Names /\ Tail(Top(t).queue) \in Seq(Names)
    BY <1>2, <1>3, HeadTailProperties
  <2>2. /\ g \in Frames /\ g.at = "run" /\ g.f = Top(t).f /\ g.b = Top(t).b
        /\ g.todo = Top(t).todo /\ g.got = Top(t).got
        /\ g.queue = Tail(Top(t).queue)
    BY <1>2, <2>1 DEF Frames, IsAt
  <2>3. k \in Frames /\ IsProvide(k, Top(t).f, Head(Top(t).queue))
    BY <1>2, <2>1, ProvideTyping
  <2>4. Continue(t, <<g, k>>)
    BY <1>3 DEF RunBody, Self
  <2> HIDE DEF g, k
  <2>5. PICK c : Step(t, c) /\ IsTwo(c, g, k)
    BY <1>2, <2>2, <2>3, <2>4, BecomingTwo DEF IsAt
  <2>6. QED
    BY <1>2, <1>3, <2>2, <2>3, <2>5
<1>4. CASE Goto(t, "activate")
  BY <1>2, <1>4, PlacesTyping, Going DEF IsAt, Goes
<1>5. CASE Goto(t, "fail")
  BY <1>2, <1>5, PlacesTyping, Going DEF IsAt, Goes
<1>6. QED
  BY <1>3, <1>4, <1>5 DEF RunBody

LEMMA FailStep ==
    ASSUME TypeOK, NEW t \in Threads, Fail(t)
    PROVE  IsAt(t, "fail") /\ \E c : Step(t, c) /\ Unloads1(c, Top(t).f, "failed")
<1>1. In(t, "fail") /\ Unloading(t, "failed")
  BY DEF Fail
<1>2. IsAt(t, "fail")
  BY <1>1, InCall
<1>3. QED
  BY <1>1, <1>2, PlacesTyping, UnloadingStep DEF IsAt, Unloads1

\* A request to release each entry.
RequestFor(f, b) == [Frame("request", f) EXCEPT !.b = b]

LEMMA ClearStep ==
    ASSUME TypeOK, NEW t \in Threads, Clear(t)
    PROVE  /\ IsAt(t, "clear")
           /\ \E c :
              /\ Step(t, c)
              /\ Len(c) = Len(entries[Top(t).f]) + 1
              /\ Len(entries[Top(t).f]) \in Nat
              /\ Moved(c[1], Top(t), "unwind")
              /\ \A i \in 1..Len(entries[Top(t).f]) :
                   IsCall(c[i + 1], "request", Top(t).f, entries[Top(t).f][i])
<1> DEFINE f == Top(t).f
           s == entries[f]
           n == Len(s)
           k == At(t, "unwind")
           d == [i \in DOMAIN s |-> RequestFor(f, s[i])]
           c == <<k>> \o d
<1>1. IsAt(t, "clear") /\ Top(t) \in Frames /\ f \in Fibers
  BY InCall DEF Clear, IsAt, Frames
<1>2. Continue(t, <<k>> \o d)
  BY DEF Clear, Self, RequestFor
<1>3. s \in Seq(Bindings)
  BY <1>1 DEF TypeOK
<1>4. k \in Frames /\ Moved(k, Top(t), "unwind")
  BY <1>1, PlacesTyping, MovedTyping DEF At
<1>5. n \in Nat /\ DOMAIN s = 1..n /\ \A i \in 1..n : s[i] \in Bindings
  BY <1>3, LenProperties, ElementOfSeq
<1> HIDE DEF n, s, k, f
<1>6. \A i \in 1..n : /\ RequestFor(f, s[i]) \in Frames
                      /\ IsCall(RequestFor(f, s[i]), "request", f, s[i])
  BY <1>1, <1>5, PlacesTyping, BindingCallTyping DEF RequestFor
<1>7. d \in Seq(Frames) /\ Len(d) = n /\ \A i \in 1..n : IsCall(d[i], "request", f, s[i])
  <2>1. d = [i \in 1..n |-> RequestFor(f, s[i])]
    BY <1>5
  <2>2. [i \in 1..n |-> RequestFor(f, s[i])] \in Seq(Frames)
    BY <1>5, <1>6, IsASeq
  <2>3. QED
    BY <1>5, <1>6, <2>1, <2>2, LenProperties
<1> HIDE DEF d
<1>8. <<k>> \in Seq(Frames) /\ IsOne(<<k>>, k)
  BY <1>4, Sequences
<1>9. /\ c \in Seq(Frames) /\ Len(c) = 1 + n
      /\ \A i \in 1..(1 + n) : c[i] = IF i <= 1 THEN <<k>>[i] ELSE d[i - 1]
  BY <1>7, <1>8, ConcatProperties DEF IsOne
<1>10. c[1] = k
  BY <1>5, <1>8, <1>9 DEF IsOne
<1>11. \A i \in 1..n : c[i + 1] = d[i]
  BY <1>5, <1>9
<1> HIDE DEF c
<1>12. Step(t, c)
  BY <1>1, <1>2, <1>9, Continuing DEF IsAt, c
<1>13. /\ Len(c) = n + 1 /\ Moved(c[1], Top(t), "unwind")
       /\ \A i \in 1..n : IsCall(c[i + 1], "request", f, s[i])
  BY <1>4, <1>5, <1>7, <1>9, <1>10, <1>11
<1>14. QED
  BY <1>1, <1>5, <1>12, <1>13, Zenon DEF s, n, f

----------------------------------------------------------------------------
(* ... the services. *)

\* The call on top returns an error: the body that waits for it fails.
Fails(t, c) ==
    \/ Len(stack[t]) = 1 /\ Step(t, c) /\ IsNone(c)
    \/ /\ Len(stack[t]) - 1 \in 1..Len(stack[t])
       /\ Changes(t, Len(stack[t]) - 2, c)
       /\ stack[t][Len(stack[t]) - 1] \in Frames
       /\ stack[t][Len(stack[t]) - 1].at = "run"
       /\ stack[t][Len(stack[t]) - 1].f = Top(t).f
       /\ Goes(c, stack[t][Len(stack[t]) - 1], "fail")

LEMMA ReturnErrorStep ==
    ASSUME TypeOK, Nested, NEW t \in Threads, stack[t] # <<>>,
           Top(t).at \in Providing, ReturnError(t)
    PROVE  \E c : Fails(t, c)
<1> DEFINE n == Len(stack[t])
           callers == Front(stack[t])
           h == stack[t][n - 1]
           g == [Last(callers) EXCEPT !.at = "fail"]
           new == Append(Front(callers), g)
<1>1. /\ stack \in [Threads -> Seq(Frames)] /\ stack[t] \in Seq(Frames)
      /\ n \in Nat \ {0} /\ n \in 1..n /\ Top(t) = stack[t][n]
  BY TopTyping DEF TypeOK
<1>2. /\ callers \in Seq(Frames) /\ Len(callers) = n - 1
      /\ \A i \in 1..(n - 1) : callers[i] = stack[t][i]
  BY <1>1, PopFrame
<1>3. stack' = [stack EXCEPT ![t] = IF callers = <<>> THEN <<>> ELSE new]
  BY DEF ReturnError
<1> HIDE DEF callers, n
<1>4. CASE callers = <<>>
  <2>1. n = 1
    BY <1>1, <1>2, <1>4, EmptySeq
  <2>2. Return(t)
    <3>1. callers \o <<>> = <<>>
      BY <1>4, ConcatEmptySeq, EmptySeq
    <3>2. QED
      BY <1>3, <1>4, <3>1 DEF Return, Continue, callers
  <2>3. PICK c : Step(t, c) /\ IsNone(c)
    BY <2>2, Returning
  <2>4. QED
    BY <2>1, <2>3 DEF Fails, n
<1>5. CASE callers # <<>>
  <2>1. n - 1 \in Nat \ {0} /\ n - 1 \in 1..n
    BY <1>1, <1>2, <1>5, EmptySeq
  <2>2. Last(callers) = h /\ h \in Frames
    BY <1>2, <1>5, <2>1, TopFrame DEF n
  <2>3. h.at = "run" /\ h.f = Top(t).f
    <3>1. \A i, j \in 1..n : j = i + 1 /\ stack[t][j].at \in Providing =>
             stack[t][i].at = "run" /\ stack[t][i].f = stack[t][j].f
      BY DEF Nested, n
    <3>2. n = (n - 1) + 1 /\ stack[t][n].at \in Providing
      BY <1>1
    <3>3. QED
      BY <1>1, <2>1, <3>1, <3>2
  <2>4. g \in Frames /\ Moved(g, h, "fail")
    BY <2>2, PlacesTyping, MovedTyping
  <2> HIDE DEF g, h
  <2>5. /\ new \in Seq(Frames) /\ Len(new) = n - 1
        /\ \A i \in 1..(n - 1 - 1) : new[i] = callers[i]
        /\ new[n - 1] = g
    <3>1. PICK s \in Seq(Frames) : s = callers
      BY <1>2
    <3>2. s # <<>> /\ Len(s) = n - 1
      BY <1>2, <1>5, <3>1
    <3>3. /\ Append(Front(s), g) \in Seq(Frames)
          /\ Len(Append(Front(s), g)) = Len(s)
          /\ \A i \in 1..(Len(s) - 1) : Append(Front(s), g)[i] = s[i]
          /\ Append(Front(s), g)[Len(s)] = g
      BY <2>4, <3>2, ReplaceFrame, Zenon
    <3>4. QED
      BY <3>1, <3>2, <3>3
  <2> HIDE DEF new
  <2>6. stack' = [stack EXCEPT ![t] = new]
    BY <1>3, <1>5
  <2>7. /\ stack' \in [Threads -> Seq(Frames)] /\ stack'[t] = new
        /\ \A u \in Threads \ {t} : stack'[u] = stack[u]
    BY <1>1, <2>5, <2>6
  <2>8. <<g>> \in Seq(Frames) /\ IsOne(<<g>>, g)
    BY <2>4, Sequences
  <2>9. PICK c : IsOne(c, g)
    BY <2>8
  <2>10. /\ n - 2 \in Nat /\ n - 2 <= n /\ (n - 2) + 1 = n - 1 /\ n - 2 = n - 1 - 1
         /\ n = Len(stack[t])
    BY <1>1, <2>1 DEF n
  <2>11. /\ \A i \in 1..(n - 2) : stack'[t][i] = stack[t][i]
         /\ \A i \in 1..Len(c) : stack'[t][(n - 2) + i] = c[i]
         /\ \A i \in 1..Len(c) : c[i] \in Frames
         /\ Len(stack'[t]) = (n - 2) + Len(c) /\ Len(c) \in Nat
    BY <1>1, <1>2, <2>4, <2>5, <2>7, <2>9, <2>10 DEF IsOne
  <2> HIDE DEF n
  <2>12. Changes(t, Len(stack[t]) - 2, c)
    BY <2>7, <2>10, <2>11 DEF Changes
  <2>13. Goes(c, h, "fail")
    BY <2>4, <2>9 DEF Goes
  <2>14. QED
    BY <2>1, <2>2, <2>3, <2>10, <2>12, <2>13 DEF Fails, h
<1>6. QED
  BY <1>4, <1>5

LEMMA ProvideStep ==
    ASSUME TypeOK, Nested, NEW t \in Threads, Provide(t)
    PROVE  /\ IsAt(t, "provide")
           /\ \E c :
              \/ /\ Closed(Top(t).f) \/ Len(made) + 1 > MaxBindings
                 /\ UNCHANGED <<made, entries, stray>>
                 /\ Fails(t, c)
              \/ /\ ~Closed(Top(t).f) /\ Len(made) + 1 <= MaxBindings
                 /\ Step(t, c)
                 /\ \E g \in Frames : /\ IsOne(c, g) /\ g.name = Top(t).name
                                      /\ IsAbout(g, Top(t), "register", Len(made) + 1)
<1> DEFINE b == Len(made) + 1
<1>1. In(t, "provide")
  BY DEF Provide
<1>2. IsAt(t, "provide") /\ Top(t) \in Frames /\ stack[t] # <<>>
  BY <1>1, InCall DEF IsAt
<1>3. Len(made) \in Nat /\ MaxBindings \in Nat
  BY KnownDomain, GraphAssumption
<1>4. CASE Closed(Top(t).f) \/ b > MaxBindings
  <2>1. ReturnError(t) /\ UNCHANGED <<made, entries, stray>>
    BY <1>4 DEF Provide, Self
  <2>2. Top(t).at \in Providing
    BY <1>2 DEF IsAt, Providing
  <2>3. PICK c : Fails(t, c)
    BY <1>2, <2>1, <2>2, ReturnErrorStep
  <2>4. QED
    BY <1>2, <1>4, <2>1, <2>3
<1>5. CASE ~Closed(Top(t).f) /\ ~(b > MaxBindings)
  <2>1. Become(t, [At(t, "register") EXCEPT !.b = b])
    BY <1>5 DEF Provide, Self
  <2>2. b \in Bindings /\ b <= MaxBindings
    BY <1>3, <1>5 DEF Bindings
  <2> DEFINE k == At(t, "register")
             g == [k EXCEPT !.b = b]
  <2>3. k \in Frames /\ Moved(k, Top(t), "register")
    BY <1>2, PlacesTyping, MovedTyping DEF At
  <2> HIDE DEF b, k
  <2>4. g \in Frames /\ IsAbout(g, Top(t), "register", b) /\ g.name = Top(t).name
    BY <2>2, <2>3 DEF Frames, Moved, IsAbout
  <2> HIDE DEF g
  <2>5. PICK c : Step(t, c) /\ IsOne(c, g)
    BY <1>2, <2>1, <2>4, Becoming DEF g, k
  <2>6. QED
    BY <1>2, <1>5, <2>2, <2>4, <2>5 DEF b
<1>6. QED
  BY <1>4, <1>5

LEMMA RefusedStep ==
    ASSUME TypeOK, Nested, NEW t \in Threads, Refused(t)
    PROVE  IsAt(t, "refused") /\ \E c : Fails(t, c)
<1>1. In(t, "refused") /\ ReturnError(t)
  BY DEF Refused
<1>2. IsAt(t, "refused")
  BY <1>1, InCall
<1>3. Top(t).at \in Providing
  BY <1>2 DEF IsAt, Providing
<1>4. QED
  BY <1>1, <1>2, <1>3, ReturnErrorStep DEF IsAt

LEMMA TellStep ==
    ASSUME TypeOK, NEW t \in Threads, Top(t).b \in Known, Tell(t)
    PROVE  /\ IsAt(t, "tell")
           /\ \E c :
              /\ Step(t, c)
              /\ \/ /\ state[Top(t).f] = "active"
                    /\ \E g, k \in Frames :
                         /\ IsTwo(c, g, k) /\ Moved(g, Top(t), "install")
                         /\ IsNotification(k, Top(t).f, made[Top(t).b].name,
                                           made[Top(t).b].label)
                 \/ /\ state[Top(t).f] # "active"
                    /\ Goes(c, Top(t), "install")
<1>1. In(t, "tell")
  BY DEF Tell
<1>2. IsAt(t, "tell") /\ Top(t) \in Frames /\ Top(t).f \in Fibers
  BY <1>1, InCall DEF IsAt, Frames
<1> DEFINE b == Top(t).b
           g == At(t, "install")
           k == Notification(Top(t).f, made[b].name, made[b].label)
<1>3. made[b].name \in Names /\ made[b].label \in Labels
  BY MadeTyping
<1>4. CASE state[Top(t).f] = "active"
  <2>1. Continue(t, <<g, k>>)
    BY <1>4 DEF Tell, Self
  <2>2. g \in Frames /\ Moved(g, Top(t), "install")
    BY <1>2, PlacesTyping, MovedTyping DEF At
  <2>3. k \in Frames /\ IsNotification(k, Top(t).f, made[b].name, made[b].label)
    BY <1>2, <1>3, NotificationTyping
  <2> HIDE DEF g, k
  <2>4. PICK c : Step(t, c) /\ IsTwo(c, g, k)
    BY <1>2, <2>1, <2>2, <2>3, BecomingTwo DEF IsAt
  <2>5. QED
    BY <1>2, <1>4, <2>2, <2>3, <2>4
<1>5. CASE state[Top(t).f] # "active"
  <2>1. Goto(t, "install")
    BY <1>5 DEF Tell, Self
  <2>2. QED
    BY <1>2, <1>5, <2>1, PlacesTyping, Going DEF IsAt, Goes
<1>6. QED
  BY <1>4, <1>5

LEMMA UnregisterStep ==
    ASSUME TypeOK, NEW t \in Threads, Top(t).b \in Known, Unregister(t)
    PROVE  /\ IsAt(t, "unregister")
           /\ \E c :
              /\ Step(t, c)
              /\ \E g, k \in Frames :
                   /\ IsTwo(c, g, k) /\ Moved(g, Top(t), "unpin")
                   /\ IsNotification(k, Top(t).f, made[Top(t).b].name,
                                     made[Top(t).b].label)
<1> DEFINE b == Top(t).b
           g == At(t, "unpin")
           k == Notification(Top(t).f, made[b].name, made[b].label)
<1>1. In(t, "unregister") /\ Continue(t, <<g, k>>)
  BY DEF Unregister, Self
<1>2. IsAt(t, "unregister") /\ Top(t) \in Frames /\ Top(t).f \in Fibers
  BY <1>1, InCall DEF IsAt, Frames
<1>3. made[b].name \in Names /\ made[b].label \in Labels
  BY MadeTyping
<1>4. g \in Frames /\ Moved(g, Top(t), "unpin")
  BY <1>2, PlacesTyping, MovedTyping DEF At
<1>5. k \in Frames /\ IsNotification(k, Top(t).f, made[b].name, made[b].label)
  BY <1>2, <1>3, NotificationTyping
<1> HIDE DEF g, k
<1>6. PICK c : Step(t, c) /\ IsTwo(c, g, k)
  BY <1>1, <1>2, <1>4, <1>5, BecomingTwo DEF IsAt
<1>7. QED
  BY <1>2, <1>4, <1>5, <1>6

LEMMA UnpinStep ==
    ASSUME TypeOK, NEW t \in Threads, Unpin(t)
    PROVE  IsAt(t, "unpin") /\ \E c : Step(t, c) /\ IsNone(c)
<1>1. In(t, "unpin") /\ Return(t)
  BY DEF Unpin, LeaveOnce
<1>2. QED
  BY <1>1, InCall, Returning DEF IsAt

LEMMA UnlistStep ==
    ASSUME TypeOK, NEW t \in Threads, Unlist(t)
    PROVE  IsAt(t, "unlist") /\ \E c : Step(t, c) /\ IsNone(c)
<1>1. In(t, "unlist") /\ Return(t)
  BY DEF Unlist
<1>2. QED
  BY <1>1, InCall, Returning DEF IsAt

----------------------------------------------------------------------------
(* The calls under way, before and after a step.                            *)

LEMMA CallsOf ==
    \A g : g \in Calls <=> \E t \in Threads : \E i \in 1..Len(stack[t]) : g = stack[t][i]
  BY DEF Calls

\* The calls that are not above the lowest k of the goroutine t.
Rest(t, k) ==
    {g \in Calls : \E u \in Threads : \E i \in 1..Len(stack[u]) :
        (u = t => i <= k) /\ g = stack[u][i]}
Others(t) == Rest(t, Len(stack[t]) - 1)
New(c) == {c[i] : i \in 1..Len(c)}

LEMMA NewCalls ==
    /\ \A c : IsNone(c) => New(c) = {}
    /\ \A c, g : IsOne(c, g) => New(c) = {g}
    /\ \A c, g, h : IsTwo(c, g, h) => New(c) = {g, h}
<1>1. ASSUME NEW c, IsNone(c) PROVE New(c) = {}
  BY <1>1 DEF IsNone, New
<1>2. ASSUME NEW c, NEW g, IsOne(c, g) PROVE New(c) = {g}
  BY <1>2 DEF IsOne, New
<1>3. ASSUME NEW c, NEW g, NEW h, IsTwo(c, g, h) PROVE New(c) = {g, h}
  BY <1>3 DEF IsTwo, New
<1>4. QED
  BY <1>1, <1>2, <1>3

LEMMA CallsTyping ==
    ASSUME TypeOK
    PROVE  Calls \subseteq Frames
<1>1. SUFFICES ASSUME NEW g \in Calls PROVE g \in Frames
  OBVIOUS
<1>2. PICK t \in Threads : \E i \in 1..Len(stack[t]) : g = stack[t][i]
  BY CallsOf
<1>3. QED
  BY <1>2, Typing

LEMMA CallsStep ==
    ASSUME TypeOK, NEW t \in Threads, NEW k, NEW c, Changes(t, k, c)
    PROVE  /\ Calls = Rest(t, k) \cup {stack[t][i] : i \in (k + 1)..Len(stack[t])}
           /\ Calls' = Rest(t, k) \cup New(c)
           /\ New(c) \subseteq Frames
<1>1. /\ Len(stack[t]) \in Nat /\ k \in Nat /\ k <= Len(stack[t])
      /\ Len(c) \in Nat /\ Len(stack'[t]) = k + Len(c)
  BY Typing DEF Changes
<1>2. ASSUME NEW g \in Calls
      PROVE  g \in Rest(t, k) \cup {stack[t][i] : i \in (k + 1)..Len(stack[t])}
  <2>1. PICK u \in Threads : \E i \in 1..Len(stack[u]) : g = stack[u][i]
    BY CallsOf
  <2>2. PICK i \in 1..Len(stack[u]) : g = stack[u][i]
    BY <2>1
  <2>3. CASE u = t /\ i > k
    <3>1. i \in (k + 1)..Len(stack[t])
      BY <1>1, <2>2, <2>3
    <3>2. QED
      BY <2>2, <2>3, <3>1
  <2>4. CASE u = t => i <= k
    BY <2>2, <2>4 DEF Rest
  <2>5. QED
    BY <1>1, <2>3, <2>4
<1>3. ASSUME NEW i \in (k + 1)..Len(stack[t])
      PROVE  stack[t][i] \in Calls
  <2>1. i \in 1..Len(stack[t])
    BY <1>1
  <2>2. QED
    BY <2>1, CallsOf
<1>4. ASSUME NEW g \in Calls'
      PROVE  g \in Rest(t, k) \cup New(c)
  <2>1. PICK u \in Threads, i \in Int :
             i \in 1..Len(stack'[u]) /\ g = stack'[u][i]
    BY DEF Calls
  <2>2. CASE u # t
    <3>1. i \in 1..Len(stack[u]) /\ g = stack[u][i]
      BY <2>1, <2>2 DEF Changes
    <3>2. QED
      BY <2>2, <3>1, CallsOf DEF Rest
  <2>3. CASE u = t /\ i <= k
    <3>1. i \in 1..k /\ i \in 1..Len(stack[t])
      BY <1>1, <2>1, <2>3
    <3>2. g = stack[t][i]
      BY <2>1, <2>3, <3>1 DEF Changes
    <3>3. QED
      BY <2>3, <3>1, <3>2, CallsOf DEF Rest
  <2>4. CASE u = t /\ i > k
    <3>1. i - k \in 1..Len(c) /\ k + (i - k) = i
      BY <1>1, <2>1, <2>4
    <3>2. g = c[i - k]
      BY <2>1, <2>4, <3>1 DEF Changes
    <3>3. QED
      BY <3>1, <3>2 DEF New
  <2>5. QED
    BY <1>1, <2>2, <2>3, <2>4
<1>5. ASSUME NEW g \in Rest(t, k)
      PROVE  g \in Calls'
  <2>1. PICK u \in Threads, i \in Int :
             i \in 1..Len(stack[u]) /\ (u = t => i <= k) /\ g = stack[u][i]
    BY DEF Rest
  <2>2. CASE u # t
    BY <2>1, <2>2 DEF Changes, Calls
  <2>3. CASE u = t
    <3>1. i \in 1..k /\ i \in 1..Len(stack'[t])
      BY <1>1, <2>1, <2>3
    <3>2. stack'[t][i] = g
      BY <2>1, <2>3, <3>1 DEF Changes
    <3>3. QED
      BY <3>1, <3>2 DEF Calls
  <2>4. QED
    BY <2>2, <2>3
<1>6. ASSUME NEW i \in 1..Len(c)
      PROVE  c[i] \in Calls' /\ c[i] \in Frames
  <2>1. k + i \in 1..Len(stack'[t])
    BY <1>1
  <2>2. stack'[t][k + i] = c[i] /\ c[i] \in Frames
    BY DEF Changes
  <2>3. QED
    BY <2>1, <2>2 DEF Calls
<1>7. Rest(t, k) \subseteq Calls
  BY DEF Rest
<1>8. QED
  BY <1>2, <1>3, <1>4, <1>5, <1>6, <1>7 DEF New

\* A call of the program goes on.
LEMMA StepCalls ==
    ASSUME TypeOK, NEW t \in Threads, stack[t] # <<>>, NEW c, Step(t, c)
    PROVE  /\ Calls = Others(t) \cup {Top(t)}
           /\ Calls' = Others(t) \cup New(c)
           /\ New(c) \subseteq Frames
<1>1. Len(stack[t]) \in Nat \ {0} /\ Top(t) = stack[t][Len(stack[t])]
  BY TopTyping
<1>2. ((Len(stack[t]) - 1) + 1)..Len(stack[t]) = {Len(stack[t])}
  BY <1>1
<1>3. {stack[t][i] : i \in ((Len(stack[t]) - 1) + 1)..Len(stack[t])} = {Top(t)}
  BY <1>1, <1>2
<1>4. QED
  BY <1>3, CallsStep DEF Step, Others

\* A call from outside.
LEMMA StartCalls ==
    ASSUME TypeOK, NEW t \in Threads, NEW c, Starts(t, c)
    PROVE  /\ Calls = Rest(t, 0)
           /\ Calls' = Calls \cup New(c)
           /\ New(c) \subseteq Frames
<1>1. Len(stack[t]) = 0
  BY Typing DEF Starts
<1>2. {stack[t][i] : i \in (0 + 1)..Len(stack[t])} = {}
  BY <1>1
<1>3. QED
  BY <1>2, CallsStep DEF Starts

\* An error is returned to a body.
Below(t) == Rest(t, Len(stack[t]) - 2)
Caller(t) == stack[t][Len(stack[t]) - 1]

LEMMA FailCalls ==
    ASSUME TypeOK, NEW t \in Threads, stack[t] # <<>>, NEW c, Fails(t, c)
    PROVE  \/ Len(stack[t]) = 1 /\ Step(t, c) /\ IsNone(c)
           \/ /\ Changes(t, Len(stack[t]) - 2, c)
              /\ Calls = Below(t) \cup {Caller(t), Top(t)}
              /\ Calls' = Below(t) \cup New(c)
              /\ Caller(t) \in Frames /\ Caller(t).at = "run" /\ Caller(t).f = Top(t).f
              /\ Goes(c, Caller(t), "fail")
<1> DEFINE n == Len(stack[t])
<1>1. n \in Nat \ {0} /\ Top(t) = stack[t][n]
  BY TopTyping
<1>2. CASE Len(stack[t]) = 1 /\ Step(t, c) /\ IsNone(c)
  BY <1>2
<1>3. CASE /\ Len(stack[t]) - 1 \in 1..Len(stack[t])
           /\ Changes(t, Len(stack[t]) - 2, c)
           /\ Caller(t) \in Frames
           /\ Caller(t).at = "run" /\ Caller(t).f = Top(t).f
           /\ Goes(c, Caller(t), "fail")
  <2>1. ((n - 2) + 1)..n = {n - 1, n}
    BY <1>1, <1>3
  <2>2. {stack[t][i] : i \in ((n - 2) + 1)..n} = {Caller(t), Top(t)}
    BY <1>1, <2>1 DEF Caller
  <2>3. QED
    BY <1>3, <2>2, CallsStep DEF Below
<1>4. QED
  BY <1>2, <1>3 DEF Fails, Caller

----------------------------------------------------------------------------
(* What only one call may be at.                                            *)

\* The call on top is the only one of its kind.
LEMMA OwnerAlone ==
    ASSUME TypeOK, OneOwner, NEW t \in Threads, stack[t] # <<>>, Top(t).at \in Owning
    PROVE  \A g \in Others(t) : ~(g.at \in Owning /\ g.f = Top(t).f)
<1>1. SUFFICES ASSUME NEW g \in Others(t), g.at \in Owning, g.f = Top(t).f
               PROVE  FALSE
  OBVIOUS
<1>2. PICK u \in Threads, i \in Int :
             i \in 1..Len(stack[u]) /\ (u = t => i <= Len(stack[t]) - 1) /\ g = stack[u][i]
  BY DEF Others, Rest
<1>3. Len(stack[t]) \in Nat \ {0} /\ Len(stack[t]) \in 1..Len(stack[t])
      /\ Top(t) = stack[t][Len(stack[t])]
  BY TopTyping
<1>4. u = t /\ i = Len(stack[t])
  BY <1>1, <1>2, <1>3 DEF OneOwner
<1>5. QED
  BY <1>2, <1>3, <1>4

\* ... and so is the one that called it.
LEMMA CallerAlone ==
    ASSUME TypeOK, OneOwner, NEW t \in Threads, Len(stack[t]) - 1 \in 1..Len(stack[t]),
           Caller(t).at \in Owning
    PROVE  \A g \in Below(t) : ~(g.at \in Owning /\ g.f = Caller(t).f)
<1>1. SUFFICES ASSUME NEW g \in Below(t), g.at \in Owning, g.f = Caller(t).f
               PROVE  FALSE
  OBVIOUS
<1>2. PICK u \in Threads, i \in Int :
             i \in 1..Len(stack[u]) /\ (u = t => i <= Len(stack[t]) - 2) /\ g = stack[u][i]
  BY DEF Below, Rest
<1>3. Len(stack[t]) \in Nat
  BY Typing
<1>4. u = t /\ i = Len(stack[t]) - 1
  <2> DEFINE m == Len(stack[t]) - 1
  <2>1. m \in 1..Len(stack[t]) /\ stack[t][m] = Caller(t)
    BY DEF Caller
  <2> HIDE DEF m
  <2>2. /\ i \in 1..Len(stack[u]) /\ stack[u][i].at \in Owning
        /\ stack[t][m].at \in Owning /\ stack[u][i].f = stack[t][m].f
    BY <1>1, <1>2, <2>1
  <2>3. u = t /\ i = m
    BY <2>1, <2>2 DEF OneOwner
  <2>4. QED
    BY <2>3 DEF m
<1>5. QED
  BY <1>2, <1>3, <1>4

LEMMA CallAlone ==
    ASSUME TypeOK, NEW C, OneCall(C), NEW t \in Threads, stack[t] # <<>>, Top(t).at \in C
    PROVE  \A g \in Others(t) : ~(g.at \in C /\ g.b = Top(t).b)
<1>1. SUFFICES ASSUME NEW g \in Others(t), g.at \in C, g.b = Top(t).b
               PROVE  FALSE
  OBVIOUS
<1>2. PICK u \in Threads, i \in Int :
             i \in 1..Len(stack[u]) /\ (u = t => i <= Len(stack[t]) - 1) /\ g = stack[u][i]
  BY DEF Others, Rest
<1>3. Len(stack[t]) \in Nat \ {0} /\ Len(stack[t]) \in 1..Len(stack[t])
      /\ Top(t) = stack[t][Len(stack[t])]
  BY TopTyping
<1>4. u = t /\ i = Len(stack[t])
  <2> DEFINE m == Len(stack[t])
  <2>1. m \in 1..Len(stack[t]) /\ stack[t][m] = Top(t)
    BY <1>3
  <2> HIDE DEF m
  <2>2. /\ i \in 1..Len(stack[u]) /\ stack[u][i].at \in C
        /\ stack[t][m].at \in C /\ stack[u][i].b = stack[t][m].b
    BY <1>1, <1>2, <2>1
  <2>3. u = t /\ i = m
    BY <2>1, <2>2 DEF OneCall
  <2>4. QED
    BY <2>3 DEF m
<1>5. QED
  BY <1>2, <1>3, <1>4

\* Where a call comes from.
LEMMA WhereFrom ==
    ASSUME TypeOK, NEW t \in Threads, NEW k, NEW c, Changes(t, k, c),
           NEW u \in Threads, NEW i \in 1..Len(stack'[u])
    PROVE  \/ /\ i \in 1..Len(stack[u]) /\ stack'[u][i] = stack[u][i]
              /\ (u = t => i \in 1..k) /\ stack'[u][i] \in Rest(t, k)
           \/ /\ u = t /\ i - k \in 1..Len(c) /\ i = k + (i - k)
              /\ stack'[u][i] = c[i - k]
<1>1. /\ Len(stack[t]) \in Nat /\ k \in Nat /\ k <= Len(stack[t])
      /\ Len(c) \in Nat /\ Len(stack'[t]) = k + Len(c)
  BY Typing DEF Changes
<1>2. CASE u # t
  <2>1. stack'[u] = stack[u]
    BY <1>2 DEF Changes
  <2>2. stack[u][i] \in Rest(t, k)
    BY <1>2, <2>1, CallsOf DEF Rest
  <2>3. QED
    BY <1>2, <2>1, <2>2
<1>3. CASE u = t /\ i <= k
  <2>1. i \in 1..k /\ i \in 1..Len(stack[t])
    BY <1>1, <1>3
  <2>2. stack'[t][i] = stack[t][i]
    BY <2>1 DEF Changes
  <2>3. stack[t][i] \in Rest(t, k)
    BY <1>3, <2>1, CallsOf DEF Rest
  <2>4. QED
    BY <1>3, <2>1, <2>2, <2>3
<1>4. CASE u = t /\ i > k
  <2>1. i - k \in 1..Len(c) /\ i = k + (i - k)
    BY <1>1, <1>4
  <2>2. QED
    BY <1>4, <2>1 DEF Changes
<1>5. QED
  BY <1>1, <1>2, <1>3, <1>4

\* After the step, there is still one call at C for each binding.
OneCallNext(C) ==
    \A u, w \in Threads : \A i \in 1..Len(stack'[u]), j \in 1..Len(stack'[w]) :
        /\ stack'[u][i].at \in C /\ stack'[w][j].at \in C
        /\ stack'[u][i].b = stack'[w][j].b
        => u = w /\ i = j

\* The calls c are about different bindings, and not about those of the calls
\* that stay.
Distinct(C, c) ==
    \A i, j \in 1..Len(c) : c[i].at \in C /\ c[j].at \in C /\ c[i].b = c[j].b => i = j
Unmet(C, S, c) ==
    \A g \in S : \A i \in 1..Len(c) : ~(g.at \in C /\ c[i].at \in C /\ g.b = c[i].b)

LEMMA OneCallStep ==
    ASSUME TypeOK, NEW t \in Threads, NEW k, NEW c, Changes(t, k, c),
           NEW C, OneCall(C), Distinct(C, c), Unmet(C, Rest(t, k), c)
    PROVE  OneCallNext(C)
<1> USE DEF OneCallNext, Distinct, Unmet
<1> SUFFICES ASSUME NEW u \in Threads, NEW w \in Threads,
                    NEW i \in 1..Len(stack'[u]), NEW j \in 1..Len(stack'[w]),
                    stack'[u][i].at \in C, stack'[w][j].at \in C,
                    stack'[u][i].b = stack'[w][j].b
             PROVE  u = w /\ i = j
  OBVIOUS
<1>1. \/ i \in 1..Len(stack[u]) /\ stack'[u][i] = stack[u][i] /\ stack'[u][i] \in Rest(t, k)
      \/ u = t /\ i - k \in 1..Len(c) /\ i = k + (i - k) /\ stack'[u][i] = c[i - k]
  BY WhereFrom
<1>2. \/ j \in 1..Len(stack[w]) /\ stack'[w][j] = stack[w][j] /\ stack'[w][j] \in Rest(t, k)
      \/ w = t /\ j - k \in 1..Len(c) /\ j = k + (j - k) /\ stack'[w][j] = c[j - k]
  BY WhereFrom
<1>3. CASE /\ i \in 1..Len(stack[u]) /\ stack'[u][i] = stack[u][i]
           /\ j \in 1..Len(stack[w]) /\ stack'[w][j] = stack[w][j]
  BY <1>3 DEF OneCall
<1>4. CASE /\ u = t /\ i - k \in 1..Len(c) /\ i = k + (i - k) /\ stack'[u][i] = c[i - k]
           /\ w = t /\ j - k \in 1..Len(c) /\ j = k + (j - k) /\ stack'[w][j] = c[j - k]
  <2>1. i - k = j - k
    BY <1>4
  <2>2. QED
    BY <1>4, <2>1
<1>5. QED
  BY <1>1, <1>2, <1>3, <1>4

LEMMA KindsOfPlaces ==
    /\ Owning' = Owning
    /\ \A at \in Owning : at \notin Providing
    /\ "run" \in Owning /\ "fail" \in Owning
  BY DEF Owning, Looking, Loads, Unloads, Started, Providing

LEMMA OneOwnerStep ==
    ASSUME TypeOK, NEW t \in Threads, NEW k, NEW c, Changes(t, k, c), OneOwner,
           \A i, j \in 1..Len(c) :
              c[i].at \in Owning /\ c[j].at \in Owning /\ c[i].f = c[j].f => i = j,
           \A g \in Rest(t, k) : \A i \in 1..Len(c) :
              ~(g.at \in Owning /\ c[i].at \in Owning /\ g.f = c[i].f)
    PROVE  OneOwner'
<1> SUFFICES ASSUME NEW u \in Threads, NEW w \in Threads,
                    NEW i \in 1..Len(stack'[u]), NEW j \in 1..Len(stack'[w]),
                    stack'[u][i].at \in Owning, stack'[w][j].at \in Owning,
                    stack'[u][i].f = stack'[w][j].f
             PROVE  u = w /\ i = j
  <2> HIDE DEF Owning
  <2>1. QED
    BY KindsOfPlaces DEF OneOwner
<1>1. \/ i \in 1..Len(stack[u]) /\ stack'[u][i] = stack[u][i] /\ stack'[u][i] \in Rest(t, k)
      \/ u = t /\ i - k \in 1..Len(c) /\ i = k + (i - k) /\ stack'[u][i] = c[i - k]
  BY WhereFrom
<1>2. \/ j \in 1..Len(stack[w]) /\ stack'[w][j] = stack[w][j] /\ stack'[w][j] \in Rest(t, k)
      \/ w = t /\ j - k \in 1..Len(c) /\ j = k + (j - k) /\ stack'[w][j] = c[j - k]
  BY WhereFrom
<1>3. CASE /\ i \in 1..Len(stack[u]) /\ stack'[u][i] = stack[u][i]
           /\ j \in 1..Len(stack[w]) /\ stack'[w][j] = stack[w][j]
  BY <1>3 DEF OneOwner
<1>4. CASE /\ u = t /\ i - k \in 1..Len(c) /\ i = k + (i - k) /\ stack'[u][i] = c[i - k]
           /\ w = t /\ j - k \in 1..Len(c) /\ j = k + (j - k) /\ stack'[w][j] = c[j - k]
  <2>1. i - k = j - k
    BY <1>4
  <2>2. QED
    BY <1>4, <2>1
<1>5. QED
  BY <1>1, <1>2, <1>3, <1>4

----------------------------------------------------------------------------
(* The goroutine that drives a fiber.                                       *)

\* A place beyond the first k is one of those that follow them.
LEMMA Shifting ==
    \A k, n \in Nat : \A i \in Int :
        i > k /\ i <= k + n => i - k \in 1..n /\ k + (i - k) = i
  OBVIOUS

LEMMA NestedStep ==
    ASSUME TypeOK, Nested, NEW t \in Threads, NEW k, NEW c, Changes(t, k, c),
           \A i, j \in 1..Len(c) : j = i + 1 /\ c[j].at \in Providing =>
              c[i].at = "run" /\ c[i].f = c[j].f,
           1 \in 1..Len(c) /\ k > 0 /\ c[1].at \in Providing =>
              /\ k + 1 \in 1..Len(stack[t])
              /\ stack[t][k + 1].at \in Providing /\ stack[t][k + 1].f = c[1].f
    PROVE  Nested'
<1> SUFFICES ASSUME NEW u \in Threads, NEW i \in 1..Len(stack'[u]),
                    NEW j \in 1..Len(stack'[u]), j = i + 1,
                    stack'[u][j].at \in Providing
             PROVE  stack'[u][i].at = "run" /\ stack'[u][i].f = stack'[u][j].f
  BY DEF Nested, Providing
<1>1. Len(stack[t]) \in Nat /\ k \in Nat /\ k <= Len(stack[t])
      /\ Len(c) \in Nat /\ Len(stack'[t]) = k + Len(c)
  BY Typing DEF Changes
<1> HIDE DEF Providing
<1>2. ASSUME NEW w \in Threads
      PROVE  \A x, y \in 1..Len(stack[w]) : y = x + 1 /\ stack[w][y].at \in Providing =>
                stack[w][x].at = "run" /\ stack[w][x].f = stack[w][y].f
  BY DEF Nested
<1>3. CASE u # t
  <2>1. stack'[u] = stack[u]
    BY <1>3 DEF Changes
  <2>2. QED
    BY <1>2, <2>1
<1>4. CASE u = t /\ j <= k
  <2>1. /\ i \in 1..k /\ j \in 1..k
        /\ i \in 1..Len(stack[t]) /\ j \in 1..Len(stack[t])
    BY <1>1, <1>4
  <2>2. stack'[t][i] = stack[t][i] /\ stack'[t][j] = stack[t][j]
    BY <2>1 DEF Changes
  <2>3. QED
    BY <1>4, <1>2, <2>1, <2>2
<1>5. CASE u = t /\ j = k + 1
  <2>1. /\ i = k /\ k > 0 /\ 1 \in 1..Len(c) /\ i \in 1..k
        /\ i \in 1..Len(stack[t])
    BY <1>1, <1>5
  <2>2. stack'[t][i] = stack[t][i] /\ stack'[t][j] = c[1]
    BY <1>5, <2>1 DEF Changes
  <2>3. /\ j \in 1..Len(stack[t])
        /\ stack[t][j].at \in Providing /\ stack[t][j].f = c[1].f
    BY <1>5, <2>1, <2>2
  <2>4. QED
    BY <1>5, <1>2, <2>1, <2>2, <2>3
<1>6. CASE u = t /\ j > k + 1
  <2>1. i - k \in 1..Len(c) /\ k + (i - k) = i
    BY <1>1, <1>6, Shifting
  <2>2. j - k \in 1..Len(c) /\ k + (j - k) = j
    BY <1>1, <1>6, Shifting
  <2>3. j - k = (i - k) + 1
    BY <1>1, <1>6
  <2>4. stack'[t][i] = c[i - k] /\ stack'[t][j] = c[j - k]
    BY <2>1, <2>2 DEF Changes
  <2>5. QED
    BY <1>6, <2>1, <2>2, <2>3, <2>4
<1>7. QED
  BY <1>1, <1>3, <1>4, <1>5, <1>6

\* It goes on, and may make calls.
LEMMA OwnerGoesOn ==
    ASSUME TypeOK, CallInv, NEW t \in Threads, stack[t] # <<>>, NEW c, Step(t, c),
           Top(t).at \in Owning, busy' = busy,
           1 \in 1..Len(c), c[1].at \in Owning, c[1].f = Top(t).f,
           \A i \in 1..Len(c) : i > 1 =>
              /\ c[i].at \notin Owning
              /\ c[i].at \in Providing => i = 2 /\ c[1].at = "run" /\ c[i].f = c[1].f
    PROVE  CallInv'
<1>1. OneOwner /\ BusyOwned /\ Nested
  BY DEF CallInv
<1>2. Changes(t, Len(stack[t]) - 1, c) /\ Others(t) = Rest(t, Len(stack[t]) - 1)
      /\ Len(c) \in Nat
  BY DEF Step, Others, Changes
<1>3. OneOwner'
  <2>1. \A g \in Others(t) : ~(g.at \in Owning /\ g.f = Top(t).f)
    BY <1>1, OwnerAlone
  <2>2. \A i, j \in 1..Len(c) :
           c[i].at \in Owning /\ c[j].at \in Owning /\ c[i].f = c[j].f => i = j
    BY <1>2
  <2>3. \A g \in Others(t) : \A i \in 1..Len(c) :
           ~(g.at \in Owning /\ c[i].at \in Owning /\ g.f = c[i].f)
    BY <1>2, <2>1
  <2>4. QED
    BY <1>1, <1>2, <2>2, <2>3, OneOwnerStep
<1>4. BusyOwned'
  <2>1. /\ Calls = Others(t) \cup {Top(t)} /\ Calls' = Others(t) \cup New(c)
    BY StepCalls
  <2>2. Owning' = Owning
    BY KindsOfPlaces
  <2> HIDE DEF Owning
  <2>3. c[1] \in New(c) /\ \A g \in New(c) : g.at \in Owning => g.f = Top(t).f
    BY <1>2 DEF New
  <2>4. \A f \in Fibers : Has(Owning, f)' <=> Has(Owning, f)
    BY <2>1, <2>2, <2>3 DEF Has
  <2>5. QED
    BY <1>1, <2>2, <2>4 DEF BusyOwned
<1>5. Nested'
  <2>1. c[1].at \notin Providing
    BY KindsOfPlaces
  <2>2. \A i, j \in 1..Len(c) : j = i + 1 /\ c[j].at \in Providing =>
           c[i].at = "run" /\ c[i].f = c[j].f
    BY <1>2, <2>1
  <2>3. QED
    BY <1>1, <1>2, <2>1, <2>2, NestedStep
<1>6. QED
  BY <1>3, <1>4, <1>5 DEF CallInv

\* A goroutine that drives no fiber goes on.
LEMMA NoOwnerGoesOn ==
    ASSUME TypeOK, CallInv, NEW t \in Threads, stack[t] # <<>>, NEW c, Step(t, c),
           Top(t).at \notin Owning, busy' = busy,
           \A i \in 1..Len(c) :
              /\ c[i].at \notin Owning
              /\ c[i].at \in Providing => i = 1 /\ Top(t).at \in Providing /\ c[i].f = Top(t).f
    PROVE  CallInv'
<1>1. OneOwner /\ BusyOwned /\ Nested
  BY DEF CallInv
<1>2. /\ Changes(t, Len(stack[t]) - 1, c) /\ Len(c) \in Nat
      /\ Len(stack[t]) \in Nat \ {0} /\ Top(t) = stack[t][Len(stack[t])]
      /\ Len(stack[t]) - 1 + 1 = Len(stack[t]) /\ Len(stack[t]) \in 1..Len(stack[t])
  BY TopTyping DEF Step, Changes
<1>3. OneOwner'
  BY <1>1, <1>2, OneOwnerStep
<1>4. BusyOwned'
  <2>1. /\ Calls = Others(t) \cup {Top(t)} /\ Calls' = Others(t) \cup New(c)
    BY StepCalls
  <2>2. Owning' = Owning
    BY KindsOfPlaces
  <2> HIDE DEF Owning
  <2>3. \A g \in New(c) : g.at \notin Owning
    BY DEF New
  <2>4. \A f \in Fibers : Has(Owning, f)' <=> Has(Owning, f)
    BY <2>1, <2>2, <2>3 DEF Has
  <2>5. QED
    BY <1>1, <2>2, <2>4 DEF BusyOwned
<1>5. Nested'
  <2>1. \A i, j \in 1..Len(c) : j = i + 1 => c[j].at \notin Providing
    BY <1>2
  <2>2. QED
    BY <1>1, <1>2, <2>1, NestedStep
<1>6. QED
  BY <1>3, <1>4, <1>5 DEF CallInv

LEMMA NoOwnerStarts ==
    ASSUME TypeOK, CallInv, NEW t \in Threads, NEW c, Starts(t, c), busy' = busy,
           \A i \in 1..Len(c) :
              c[i].at \notin Owning /\ (c[i].at \in Providing => i = 1)
    PROVE  CallInv'
<1>1. OneOwner /\ BusyOwned /\ Nested
  BY DEF CallInv
<1>2. Changes(t, 0, c) /\ Len(c) \in Nat
  BY DEF Starts, Changes
<1>3. OneOwner'
  BY <1>1, <1>2, OneOwnerStep
<1>4. BusyOwned'
  <2>1. Calls' = Calls \cup New(c)
    BY StartCalls
  <2>2. Owning' = Owning
    BY KindsOfPlaces
  <2> HIDE DEF Owning
  <2>3. \A g \in New(c) : g.at \notin Owning
    BY DEF New
  <2>4. \A f \in Fibers : Has(Owning, f)' <=> Has(Owning, f)
    BY <2>1, <2>2, <2>3 DEF Has
  <2>5. QED
    BY <1>1, <2>2, <2>4 DEF BusyOwned
<1>5. Nested'
  <2>1. \A i, j \in 1..Len(c) : j = i + 1 => c[j].at \notin Providing
    BY <1>2
  <2>2. ~(0 > 0)
    OBVIOUS
  <2>3. QED
    BY <1>1, <1>2, <2>1, <2>2, NestedStep
<1>6. QED
  BY <1>3, <1>4, <1>5 DEF CallInv

\* A goroutine begins to drive a fiber that nobody drives.
LEMMA OwnerBegins ==
    ASSUME TypeOK, CallInv, NEW t \in Threads, stack[t] # <<>>, NEW c, Step(t, c),
           NEW g, IsOne(c, g), Top(t) \in Frames, Top(t).at \notin Owning,
           ~busy[Top(t).f], busy' = [busy EXCEPT ![Top(t).f] = TRUE],
           g.at \in Owning, g.f = Top(t).f
    PROVE  CallInv'
<1>1. OneOwner /\ BusyOwned /\ Nested
  BY DEF CallInv
<1>2. Changes(t, Len(stack[t]) - 1, c) /\ Others(t) = Rest(t, Len(stack[t]) - 1)
      /\ Len(c) = 1 /\ c[1] = g /\ Top(t).f \in Fibers
  BY DEF Step, Others, IsOne, Frames
<1>3. /\ Calls = Others(t) \cup {Top(t)} /\ Calls' = Others(t) \cup {g}
  BY StepCalls, NewCalls
<1>4. ~Has(Owning, Top(t).f)
  BY <1>1, <1>2 DEF BusyOwned
<1>5. OneOwner'
  <2>1. \A h \in Others(t) : ~(h.at \in Owning /\ h.f = g.f)
    BY <1>3, <1>4 DEF Has
  <2>2. \A i \in 1..Len(c) : i = 1 /\ c[i] = g
    BY <1>2
  <2> HIDE DEF Owning
  <2>3. \A h \in Rest(t, Len(stack[t]) - 1) : \A i \in 1..Len(c) :
           ~(h.at \in Owning /\ c[i].at \in Owning /\ h.f = c[i].f)
    BY <1>2, <2>1, <2>2
  <2>4. \A i, j \in 1..Len(c) :
           c[i].at \in Owning /\ c[j].at \in Owning /\ c[i].f = c[j].f => i = j
    BY <2>2
  <2>5. Changes(t, Len(stack[t]) - 1, c)
    BY <1>2
  <2>6. QED
    BY <1>1, <2>3, <2>4, <2>5, OneOwnerStep
<1>6. BusyOwned'
  <2>1. Owning' = Owning
    BY KindsOfPlaces
  <2> HIDE DEF Owning
  <2>2. \A f \in Fibers : Has(Owning, f)' <=> Has(Owning, f) \/ f = Top(t).f
    BY <1>3, <2>1 DEF Has
  <2>3. busy \in [Fibers -> BOOLEAN]
    BY DEF TypeOK
  <2>4. QED
    BY <1>1, <2>1, <2>2, <2>3 DEF BusyOwned
<1>7. Nested'
  <2>1. c[1].at \notin Providing
    BY <1>2, KindsOfPlaces
  <2>2. \A i, j \in 1..Len(c) : ~(j = i + 1)
    BY <1>2
  <2>3. QED
    BY <1>1, <1>2, <2>1, <2>2, NestedStep
<1>8. QED
  BY <1>5, <1>6, <1>7 DEF CallInv

\* ... and is done with it.
LEMMA OwnerEnds ==
    ASSUME TypeOK, CallInv, NEW t \in Threads, stack[t] # <<>>, NEW c, Step(t, c),
           IsNone(c), Top(t) \in Frames, Top(t).at \in Owning,
           busy' = [busy EXCEPT ![Top(t).f] = FALSE]
    PROVE  CallInv'
<1>1. OneOwner /\ BusyOwned /\ Nested
  BY DEF CallInv
<1>2. Changes(t, Len(stack[t]) - 1, c) /\ Others(t) = Rest(t, Len(stack[t]) - 1)
      /\ Len(c) = 0 /\ Top(t).f \in Fibers
  BY DEF Step, Others, IsNone, Frames
<1>3. /\ Calls = Others(t) \cup {Top(t)} /\ Calls' = Others(t)
  <2>1. New(c) = {}
    BY NewCalls
  <2>2. QED
    BY <2>1, StepCalls
<1>4. \A g \in Others(t) : ~(g.at \in Owning /\ g.f = Top(t).f)
  BY <1>1, OwnerAlone
<1>5. \A i \in 1..Len(c) : FALSE
  BY <1>2
<1>6. OneOwner'
  BY <1>1, <1>2, <1>5, OneOwnerStep
<1>7. BusyOwned'
  <2>1. Owning' = Owning
    BY KindsOfPlaces
  <2> HIDE DEF Owning
  <2>2. \A f \in Fibers : Has(Owning, f)' <=> Has(Owning, f) /\ f # Top(t).f
    BY <1>3, <1>4, <2>1 DEF Has
  <2>3. busy \in [Fibers -> BOOLEAN]
    BY DEF TypeOK
  <2>4. QED
    BY <1>1, <2>1, <2>2, <2>3 DEF BusyOwned
<1>8. Nested'
  BY <1>1, <1>2, <1>5, NestedStep
<1>9. QED
  BY <1>6, <1>7, <1>8 DEF CallInv

\* The body that drives a fiber fails.
LEMMA OwnerFails ==
    ASSUME TypeOK, CallInv, NEW t \in Threads, stack[t] # <<>>, NEW c, Fails(t, c),
           Top(t).at \notin Owning, busy' = busy
    PROVE  CallInv'
<1>1. OneOwner /\ BusyOwned /\ Nested
  BY DEF CallInv
<1>2. CASE Step(t, c) /\ IsNone(c)
  BY <1>2, NoOwnerGoesOn DEF IsNone
<1>3. CASE /\ Changes(t, Len(stack[t]) - 2, c)
           /\ Calls = Below(t) \cup {Caller(t), Top(t)}
           /\ Calls' = Below(t) \cup New(c)
           /\ Caller(t) \in Frames /\ Caller(t).at = "run" /\ Caller(t).f = Top(t).f
           /\ Goes(c, Caller(t), "fail") /\ Len(stack[t]) - 1 \in 1..Len(stack[t])
  <2>1. PICK g \in Frames : IsOne(c, g) /\ Moved(g, Caller(t), "fail")
    BY <1>3 DEF Goes
  <2>2. g.at = "fail" /\ g.f = Caller(t).f /\ Len(c) = 1 /\ c[1] = g /\ New(c) = {g}
    BY <2>1, NewCalls DEF Moved, IsOne
  <2>3. \A h \in Below(t) : ~(h.at \in Owning /\ h.f = Caller(t).f)
    BY <1>1, <1>3, KindsOfPlaces, CallerAlone
  <2>4. OneOwner'
    BY <1>1, <1>3, <2>2, <2>3, OneOwnerStep DEF Below
  <2>5. BusyOwned'
    <3>1. Owning' = Owning /\ "run" \in Owning /\ "fail" \in Owning
      BY KindsOfPlaces
    <3> HIDE DEF Owning
    <3>2. \A f \in Fibers : Has(Owning, f)' <=> Has(Owning, f)
      BY <1>3, <2>2, <3>1 DEF Has
    <3>3. QED
      BY <1>1, <3>1, <3>2 DEF BusyOwned
  <2>6. Nested'
    <3>1. c[1].at \notin Providing
      BY <2>2, KindsOfPlaces
    <3>2. \A i, j \in 1..Len(c) : j = i + 1 => c[j].at \notin Providing
      BY <2>2
    <3>3. QED
      BY <1>1, <1>3, <3>1, <3>2, NestedStep
  <2>7. QED
    BY <2>4, <2>5, <2>6 DEF CallInv
<1>4. Len(stack[t]) = 1 \/ Len(stack[t]) - 1 \in 1..Len(stack[t])
  BY DEF Fails
<1>5. QED
  BY <1>2, <1>3, <1>4, FailCalls DEF Fails, Caller

----------------------------------------------------------------------------
(* Bindings and the calls about them.                                       *)

LEMMA KindsOfCalls ==
    /\ Registering = {"register", "refused", "pin", "tell", "install"}
    /\ Releasing = {"unregister", "unpin"}
    /\ EntryCalls = {"register", "refused", "pin", "tell", "install", "unregister",
                     "unpin", "unlist", "request", "once"}
    /\ Registering' = Registering /\ Releasing' = Releasing
    /\ EntryCalls' = EntryCalls /\ LookedUp' = LookedUp /\ Claiming' = Claiming
  BY DEF Registering, Releasing, EntryCalls, Claiming, LookedUp

\* The places at which a call knows something of a binding or of a name.
Delicate == EntryCalls \cup LookedUp \cup {"update", "provide", "run"}

\* What is in its slot or released, and what the calls know, only depends on
\* these.
LEMMA BindSame ==
    ASSUME UNCHANGED <<slot, made, installed, once, loaded>>
    PROVE  /\ Known' = Known
           /\ \A b : InSlot(b)' <=> InSlot(b)
           /\ \A b : Seen(b)' <=> Seen(b)
           /\ \A g : CallFacts(g)' <=> CallFacts(g)
           /\ SlotsFit' <=> SlotsFit
           /\ MadeFit' <=> MadeFit
<1>1. Known' = Known
  BY DEF Known
<1>2. \A b : InSlot(b)' <=> InSlot(b)
  BY DEF InSlot
<1>3. \A b : Seen(b)' <=> Seen(b)
  BY <1>1, <1>2 DEF Seen
<1> HIDE DEF EntryCalls, Registering, Releasing, LookedUp, Claiming
<1>4. \A g : CallFacts(g)' <=> CallFacts(g)
  <2>1. \A g : ComesBack(g)' <=> ComesBack(g)
    BY DEF ComesBack, Looking, Unloads
  <2>2. QED
    BY <1>1, <1>2, <1>3, <2>1, KindsOfCalls DEF CallFacts
<1>5. (SlotsFit' <=> SlotsFit) /\ (MadeFit' <=> MadeFit)
  BY <1>1 DEF SlotsFit, MadeFit
<1>6. QED
  BY <1>1, <1>2, <1>3, <1>4, <1>5

LEMMA PlainCall ==
    ASSUME NEW g, NEW at, NEW f, f \in loaded, at \notin Delicate, IsCall(g, at, f, Vacant),
           ComesBack(g)
    PROVE  CallFacts(g)
<1>1. /\ at \notin EntryCalls \cup LookedUp \cup {"update", "provide", "run"}
      /\ at \notin Registering \cup Releasing \cup Claiming
      /\ at \notin {"register", "refused", "once", "unpin", "check", "probe"}
  BY KindsOfCalls DEF Delicate, Claiming, LookedUp
<1>2. g.at = at /\ g.f \in loaded /\ g.b = Vacant /\ g.got = {} /\ g.todo = {}
  BY DEF IsCall
<1>3. QED
  BY <1>1, <1>2 DEF CallFacts

LEMMA PlainMove ==
    ASSUME NEW g, NEW h, NEW at, CallFacts(h), at \notin Delicate,
           g.at = at, g.f = h.f, g.b \in {h.b, Vacant}, g.got \subseteq h.got,
           g.todo \subseteq h.todo \cup h.got, ComesBack(g)
    PROVE  CallFacts(g)
<1>1. /\ at \notin EntryCalls \cup LookedUp \cup {"update", "provide", "run"}
      /\ at \notin Registering \cup Releasing \cup Claiming
      /\ at \notin {"register", "refused", "once", "unpin", "check", "probe"}
  BY KindsOfCalls DEF Delicate, Claiming, LookedUp
<1>2. g.f \in loaded /\ (g.b # Vacant => g.b \in Known)
      /\ \A b \in g.got \cup g.todo : Seen(b)
  BY DEF CallFacts
<1>3. QED
  BY <1>1, <1>2 DEF CallFacts

LEMMA PlainLook ==
    ASSUME NEW g, NEW f, f \in loaded, g.f = f, g.b = Vacant, g.at \notin Delicate,
           g.todo = {}, \A b \in g.got : Seen(b), ComesBack(g)
    PROVE  CallFacts(g)
<1>1. /\ g.at \notin EntryCalls \cup LookedUp \cup {"update", "provide", "run"}
      /\ g.at \notin Registering \cup Releasing \cup Claiming
      /\ g.at \notin {"register", "refused", "once", "unpin", "check", "probe"}
  BY KindsOfCalls DEF Delicate, Claiming, LookedUp
<1>2. QED
  BY <1>1 DEF CallFacts

\* The one call of its kind about a binding goes on.
LEMMA OneCallKept ==
    ASSUME TypeOK, NEW C, OneCall(C), NEW t \in Threads, stack[t] # <<>>, NEW c, Step(t, c),
           \A i \in 1..Len(c) : c[i].at \in C =>
              i = 1 /\ Top(t).at \in C /\ c[i].b = Top(t).b
    PROVE  OneCallNext(C)
<1>1. Changes(t, Len(stack[t]) - 1, c) /\ Others(t) = Rest(t, Len(stack[t]) - 1)
  BY DEF Step, Others
<1>2. Unmet(C, Others(t), c)
  <2>1. CASE Top(t).at \in C
    BY <2>1, CallAlone DEF Unmet
  <2>2. CASE Top(t).at \notin C
    BY <2>2 DEF Unmet
  <2>3. QED
    BY <2>1, <2>2
<1>3. Distinct(C, c)
  BY DEF Distinct
<1>4. QED
  BY <1>1, <1>2, <1>3, OneCallStep

\* The calls a step goes on with, as far as bindings are concerned.
Fit(t, c) ==
    /\ \A i \in 1..Len(c) : CallFacts(c[i])
    /\ \A i \in 1..Len(c) : c[i].at \in Registering =>
          i = 1 /\ Top(t).at \in Registering /\ c[i].b = Top(t).b
    /\ \A i \in 1..Len(c) : c[i].at \in Releasing =>
          i = 1 /\ Top(t).at \in Releasing /\ c[i].b = Top(t).b

OneCalls == OneCall(Registering) /\ OneCall(Releasing)

LEMMA OneCallsKept ==
    ASSUME TypeOK, BindInv, NEW t \in Threads, stack[t] # <<>>, NEW c, Step(t, c),
           \A i \in 1..Len(c) : c[i].at \in Registering =>
              i = 1 /\ Top(t).at \in Registering /\ c[i].b = Top(t).b,
           \A i \in 1..Len(c) : c[i].at \in Releasing =>
              i = 1 /\ Top(t).at \in Releasing /\ c[i].b = Top(t).b
    PROVE  OneCalls'
<1> HIDE DEF Registering, Releasing
<1>1. Registering' = Registering /\ Releasing' = Releasing
  BY KindsOfCalls
<1>2. OneCall(Registering) /\ OneCall(Releasing)
  BY DEF BindInv
<1>3. OneCallNext(Registering) /\ OneCallNext(Releasing)
  BY <1>2, OneCallKept
<1>4. OneCall(Registering)' /\ OneCall(Releasing)'
  BY <1>1, <1>3 DEF OneCall, OneCallNext
<1>5. QED
  BY <1>3, <1>4 DEF OneCalls

LEMMA BindStep ==
    ASSUME TypeOK, BindInv, NEW t \in Threads, stack[t] # <<>>, NEW c, Step(t, c),
           UNCHANGED <<slot, made, installed, once, loaded>>,
           \A b \in Bindings : EntryFacts(b)', \A f \in Fibers : FiberFacts(f)',
           Fit(t, c)
    PROVE  BindInv'
<1>1. Calls = Others(t) \cup {Top(t)} /\ Calls' = Others(t) \cup New(c)
  BY StepCalls
<1>2. \A g \in Calls' : CallFacts(g)'
  <2>1. \A g \in Others(t) : CallFacts(g)
    BY <1>1 DEF BindInv
  <2>2. \A g \in New(c) : CallFacts(g)
    BY DEF Fit, New
  <2>3. QED
    BY <1>1, <2>1, <2>2, BindSame
<1>3. SlotsFit' /\ MadeFit'
  BY BindSame DEF BindInv
<1>4. OneCalls'
  BY OneCallsKept DEF Fit
<1>5. QED
  BY <1>2, <1>3, <1>4 DEF BindInv, OneCalls

\* The same entries, fibers and bindings.
BindVars == <<slot, made, entries, installed, deferred, once, epoch, pinned, attached,
              loaded>>

LEMMA FactsSame ==
    ASSUME BindInv, UNCHANGED BindVars
    PROVE  /\ UNCHANGED <<slot, made, installed, once, loaded>>
           /\ \A b \in Bindings : EntryFacts(b)'
           /\ \A f \in Fibers : FiberFacts(f)'
<1>1. UNCHANGED <<slot, made, entries, installed, deferred, once, epoch, pinned, attached,
                  loaded>>
  BY DEF BindVars
<1>2. \A b \in Bindings : EntryFacts(b)'
  BY <1>1, BindSame DEF BindInv, EntryFacts
<1>3. \A f \in Fibers : FiberFacts(f)'
  BY <1>1, BindSame DEF BindInv, FiberFacts
<1>4. QED
  BY <1>1, <1>2, <1>3

LEMMA BindQuiet ==
    ASSUME TypeOK, BindInv, NEW t \in Threads, stack[t] # <<>>, NEW c, Step(t, c),
           UNCHANGED BindVars, Fit(t, c)
    PROVE  BindInv'
  BY FactsSame, BindStep

LEMMA BindStarts ==
    ASSUME TypeOK, BindInv, NEW t \in Threads, NEW c, Starts(t, c),
           UNCHANGED <<slot, made, installed, once>>,
           \A b \in Bindings : EntryFacts(b)', \A f \in Fibers : FiberFacts(f)',
           \A g \in Calls : CallFacts(g)',
           \A i \in 1..Len(c) : CallFacts(c[i])',
           \A i \in 1..Len(c) : c[i].at \notin Registering \cup Releasing
    PROVE  BindInv'
<1>1. Calls' = Calls \cup New(c) /\ Changes(t, 0, c)
  BY StartCalls DEF Starts
<1>2. \A g \in Calls' : CallFacts(g)'
  <2>1. \A g \in New(c) : CallFacts(g)'
    BY DEF New
  <2>2. QED
    BY <1>1, <2>1
<1>3. SlotsFit' /\ MadeFit'
  BY DEF BindInv, SlotsFit, MadeFit, Known
<1> HIDE DEF Registering, Releasing
<1>4. Registering' = Registering /\ Releasing' = Releasing
  BY KindsOfCalls
<1>5. OneCall(Registering) /\ OneCall(Releasing)
  BY DEF BindInv
<1>6. OneCallNext(Registering) /\ OneCallNext(Releasing)
  <2>1. /\ Distinct(Registering, c) /\ Unmet(Registering, Rest(t, 0), c)
        /\ Distinct(Releasing, c) /\ Unmet(Releasing, Rest(t, 0), c)
    BY DEF Distinct, Unmet
  <2>2. QED
    BY <1>1, <1>5, <2>1, OneCallStep
<1>7. OneCall(Registering)' /\ OneCall(Releasing)'
  BY <1>4, <1>6 DEF OneCall, OneCallNext
<1>8. QED
  BY <1>2, <1>3, <1>7 DEF BindInv

LEMMA BindStartsQuietly ==
    ASSUME TypeOK, BindInv, NEW t \in Threads, NEW c, Starts(t, c),
           UNCHANGED BindVars, \A i \in 1..Len(c) : CallFacts(c[i]),
           \A i \in 1..Len(c) : c[i].at \notin Registering \cup Releasing
    PROVE  BindInv'
<1>1. UNCHANGED <<slot, made, installed, once, loaded>>
  BY FactsSame
<1>2. \A g \in Calls : CallFacts(g)'
  BY <1>1, BindSame DEF BindInv
<1>3. \A i \in 1..Len(c) : CallFacts(c[i])'
  BY <1>1, BindSame
<1>4. QED
  BY <1>1, <1>2, <1>3, FactsSame, BindStarts

----------------------------------------------------------------------------
(* What a driver goes on with.                                              *)

\* The places of a driver that say nothing of a binding or of a name, and the
\* places of the other calls that do not.
PlainOwning == Owning \ {"check", "probe", "reprobe", "run"}
PlainCalls == {"force", "remove", "begin", "names", "notify"}

LEMMA PlainPlaces ==
    /\ \A at \in PlainOwning :
         /\ at \in Owning /\ at \notin Providing /\ at \notin Delicate
         /\ at \notin Registering \cup Releasing
    /\ \A at \in PlainCalls :
         /\ at \notin Owning /\ at \notin Providing /\ at \notin Delicate
         /\ at \notin Registering \cup Releasing
         /\ at \notin Looking \cup Unloads
    /\ {"pass", "sync", "fetch", "applyUnload", "reload", "load", "loading", "recheck",
        "giveBack", "gaveBack", "activate", "active", "fail", "failed", "unload",
        "unloading", "clear", "unwind", "repending", "finalize", "end"} \subseteq PlainOwning
    /\ {"check", "probe", "reprobe", "run"} \subseteq Owning
    /\ \A at \in {"check", "probe", "reprobe", "run"} : at \notin Registering \cup Releasing
  BY DEF PlainOwning, PlainCalls, Owning, Providing, Delicate, EntryCalls, Registering,
         Releasing, Claiming, LookedUp, Looking, Loads, Unloads, Started

LEMMA TopFits ==
    ASSUME TypeOK, BindInv, NEW t \in Threads, stack[t] # <<>>
    PROVE  /\ CallFacts(Top(t)) /\ ComesBack(Top(t))
           /\ Top(t) \in Frames /\ Top(t).f \in loaded
           /\ Top(t) \in Calls
<1>1. Top(t) \in Frames /\ Top(t) \in Calls
  BY TopTyping, CallsOf
<1>2. CallFacts(Top(t))
  BY <1>1 DEF BindInv
<1>3. QED
  BY <1>1, <1>2 DEF CallFacts

\* The driver goes on, with calls that say nothing of a binding.
OwnerNext(t, c) ==
    /\ 1 \in 1..Len(c) /\ c[1].at \in Owning /\ c[1].f = Top(t).f
    /\ \A i \in 1..Len(c) : CallFacts(c[i])
    /\ \A i \in 1..Len(c) : c[i].at \notin Registering \cup Releasing
    /\ \A i \in 1..Len(c) : i > 1 => c[i].at \notin Owning \cup Providing

LEMMA DriverStep ==
    ASSUME TypeOK, CallInv, BindInv, NEW t \in Threads, stack[t] # <<>>,
           NEW c, Step(t, c), Top(t).at \in Owning, busy' = busy,
           UNCHANGED <<slot, made, installed, once, loaded>>,
           \A b \in Bindings : EntryFacts(b)', \A f \in Fibers : FiberFacts(f)',
           OwnerNext(t, c)
    PROVE  CallInv' /\ BindInv'
<1>1. CallInv'
  BY OwnerGoesOn DEF OwnerNext
<1>2. Fit(t, c)
  BY DEF OwnerNext, Fit
<1>3. QED
  BY <1>1, <1>2, BindStep

LEMMA QuietDriverStep ==
    ASSUME TypeOK, CallInv, BindInv, NEW t \in Threads, stack[t] # <<>>,
           NEW c, Step(t, c), Top(t).at \in Owning, busy' = busy,
           UNCHANGED BindVars, OwnerNext(t, c)
    PROVE  CallInv' /\ BindInv'
  BY FactsSame, DriverStep

LEMMA GoesNext ==
    ASSUME TypeOK, BindInv, NEW t \in Threads, stack[t] # <<>>, NEW c, NEW at \in PlainOwning,
           Goes(c, Top(t), at),
           at \notin Looking, at \in Unloads => Top(t).at \in Unloads
    PROVE  OwnerNext(t, c)
<1>1. PICK g \in Frames : IsOne(c, g) /\ Moved(g, Top(t), at)
  BY DEF Goes
<1>2. /\ CallFacts(Top(t)) /\ ComesBack(Top(t))
      /\ at \in Owning /\ at \notin Delicate /\ at \notin Registering \cup Releasing
  BY TopFits, PlainPlaces
<1>3. ComesBack(g)
  BY <1>1, <1>2 DEF ComesBack, Moved
<1>4. CallFacts(g)
  BY <1>1, <1>2, <1>3, PlainMove DEF Moved
<1>5. Len(c) = 1 /\ c[1] = g /\ g.at = at /\ g.f = Top(t).f
  BY <1>1 DEF IsOne, Moved
<1>6. QED
  BY <1>2, <1>4, <1>5 DEF OwnerNext

LEMMA OpensNext ==
    ASSUME TypeOK, BindInv, NEW t \in Threads, stack[t] # <<>>, NEW c, NEW at \in PlainOwning,
           Opens(c, at, Top(t).f)
    PROVE  OwnerNext(t, c)
<1>1. PICK g \in Frames : IsOne(c, g) /\ IsCall(g, at, Top(t).f, Vacant) /\ g.cont = "end"
  BY DEF Opens
<1>2. /\ Top(t).f \in loaded
      /\ at \in Owning /\ at \notin Delicate /\ at \notin Registering \cup Releasing
  BY TopFits, PlainPlaces
<1>3. CallFacts(g)
  BY <1>1, <1>2, PlainCall DEF ComesBack
<1>4. Len(c) = 1 /\ c[1] = g /\ g.at = at /\ g.f = Top(t).f
  BY <1>1 DEF IsOne, IsCall
<1>5. QED
  BY <1>2, <1>3, <1>4 DEF OwnerNext

LEMMA UnloadsNext ==
    ASSUME TypeOK, BindInv, NEW t \in Threads, stack[t] # <<>>, NEW c,
           NEW back \in {"reload", "failed", "end"}, Unloads1(c, Top(t).f, back)
    PROVE  OwnerNext(t, c)
<1>1. PICK g \in Frames : IsOne(c, g) /\ IsCall(g, "unload", Top(t).f, Vacant) /\ g.cont = back
  BY DEF Unloads1
<1>2. /\ Top(t).f \in loaded /\ "unload" \in PlainOwning
      /\ "unload" \in Owning /\ "unload" \notin Delicate
      /\ "unload" \notin Registering \cup Releasing
  BY TopFits, PlainPlaces
<1>3. ComesBack(g)
  BY <1>1 DEF ComesBack, IsCall, Looking
<1>4. CallFacts(g)
  BY <1>1, <1>2, <1>3, PlainCall
<1>5. Len(c) = 1 /\ c[1] = g /\ g.at = "unload" /\ g.f = Top(t).f
  BY <1>1 DEF IsOne, IsCall
<1>6. QED
  BY <1>2, <1>4, <1>5 DEF OwnerNext

LEMMA LooksNext ==
    ASSUME TypeOK, BindInv, NEW t \in Threads, stack[t] # <<>>, NEW c,
           NEW back \in {"reload", "end"}, Looks(c, Top(t).f, back)
    PROVE  OwnerNext(t, c)
<1>1. PICK g \in Frames : /\ IsOne(c, g)
                          /\ IsLook(g, Top(t).f, Inject[Top(t).f], {}, back)
  BY DEF Looks
<1>2. /\ Top(t).f \in loaded
      /\ "fetch" \in Owning /\ "fetch" \notin Delicate
      /\ "fetch" \notin Registering \cup Releasing
  BY TopFits, PlainPlaces
<1>3. ComesBack(g)
  BY <1>1 DEF ComesBack, IsLook, Unloads
<1>4. CallFacts(g)
  BY <1>1, <1>2, <1>3, PlainLook DEF IsLook
<1>5. Len(c) = 1 /\ c[1] = g /\ g.at = "fetch" /\ g.f = Top(t).f
  BY <1>1 DEF IsOne, IsLook
<1>6. QED
  BY <1>2, <1>4, <1>5 DEF OwnerNext

LEMMA AnnouncesNext ==
    ASSUME TypeOK, BindInv, NEW t \in Threads, stack[t] # <<>>, NEW c, NEW s,
           NEW at \in PlainOwning, Announces(c, Top(t), s, at),
           at \notin Looking, at \in Unloads => Top(t).at \in Unloads
    PROVE  OwnerNext(t, c)
<1>1. PICK g \in Frames, k \in Frames :
        /\ Moved(g, Top(t), at)
        /\ IsOne(c, g) \/ (IsTwo(c, g, k) /\ IsCall(k, "names", Top(t).f, Vacant))
  BY DEF Announces
<1>2. CASE IsOne(c, g)
  <2>1. Goes(c, Top(t), at)
    BY <1>1, <1>2 DEF Goes
  <2>2. QED
    BY <2>1, GoesNext
<1>3. CASE IsTwo(c, g, k) /\ IsCall(k, "names", Top(t).f, Vacant)
  <2>1. /\ CallFacts(Top(t)) /\ ComesBack(Top(t)) /\ Top(t).f \in loaded
        /\ at \in Owning /\ at \notin Delicate /\ at \notin Registering \cup Releasing
        /\ "names" \in PlainCalls
        /\ "names" \notin Delicate /\ "names" \notin Owning \cup Providing
        /\ "names" \notin Registering \cup Releasing
        /\ "names" \notin Looking \cup Unloads
    BY TopFits, PlainPlaces DEF PlainCalls
  <2>2. CallFacts(g)
    <3>1. ComesBack(g)
      BY <1>1, <2>1 DEF ComesBack, Moved
    <3>2. QED
      BY <1>1, <2>1, <3>1, PlainMove DEF Moved
  <2>3. CallFacts(k)
    <3>1. ComesBack(k)
      BY <1>3, <2>1 DEF ComesBack, IsCall
    <3>2. QED
      BY <1>3, <2>1, <3>1, PlainCall
  <2>4. /\ Len(c) = 2 /\ c[1] = g /\ c[2] = k /\ g.at = at /\ g.f = Top(t).f
        /\ k.at = "names"
    BY <1>1, <1>3 DEF IsTwo, Moved, IsCall
  <2>5. \A i \in 1..Len(c) : i = 1 \/ i = 2
    BY <2>4
  <2>6. QED
    BY <2>1, <2>2, <2>3, <2>4, <2>5 DEF OwnerNext
<1>4. QED
  BY <1>1, <1>2, <1>3

LEMMA OutcomeFits ==
    ASSUME NEW g \in Frames, NEW h, NEW new, CallFacts(h), h.at \in Looking,
           Outcome(g, h, new), new # Inactive => \A b \in new : Seen(b)
    PROVE  /\ CallFacts(g) /\ g.f = h.f
           /\ g.at \in {"load", "end", "applyUnload", "unload"}
<1>1. /\ h.f \in loaded /\ ComesBack(h)
      /\ {"load", "end", "applyUnload", "unload"} \subseteq PlainOwning
      /\ \A at \in PlainOwning : at \notin Delicate
  BY PlainPlaces DEF CallFacts
<1>2. CASE new # Inactive /\ IsLoading(g, h.f, new)
  <2>1. ComesBack(g)
    BY <1>2 DEF ComesBack, IsLoading, Looking, Unloads
  <2>2. g.at \notin Delicate
    BY <1>1, <1>2 DEF IsLoading
  <2>3. QED
    BY <1>1, <1>2, <2>1, <2>2, PlainLook DEF IsLoading
<1>3. CASE IsCall(g, "end", h.f, Vacant) \/ IsCall(g, "applyUnload", h.f, Vacant)
  <2>1. ComesBack(g)
    BY <1>3 DEF ComesBack, IsCall, Looking, Unloads
  <2>2. QED
    BY <1>1, <1>3, <2>1, PlainCall DEF IsCall
<1>4. CASE IsCall(g, "unload", h.f, Vacant) /\ g.cont = "reload"
  <2>1. ComesBack(g)
    BY <1>4 DEF ComesBack, IsCall, Looking
  <2>2. QED
    BY <1>1, <1>4, <2>1, PlainCall DEF IsCall
<1>5. QED
  BY <1>2, <1>3, <1>4 DEF Outcome

LEMMA TurnsNext ==
    ASSUME TypeOK, BindInv, NEW t \in Threads, stack[t] # <<>>, NEW c, NEW new,
           Turns(c, Top(t), new), Top(t).at \in Looking,
           new # Inactive => \A b \in new : Seen(b)
    PROVE  OwnerNext(t, c)
<1>1. PICK g \in Frames : IsOne(c, g) /\ Outcome(g, Top(t), new)
  BY DEF Turns
<1>2. CallFacts(Top(t))
  BY TopFits
<1>3. /\ CallFacts(g) /\ g.f = Top(t).f
      /\ g.at \in {"load", "end", "applyUnload", "unload"}
  BY <1>1, <1>2, OutcomeFits
<1>4. g.at \in Owning /\ g.at \notin Registering \cup Releasing
  BY <1>3, PlainPlaces
<1>5. Len(c) = 1 /\ c[1] = g
  BY <1>1 DEF IsOne
<1>6. QED
  BY <1>3, <1>4, <1>5 DEF OwnerNext

LEMMA TakesNext ==
    ASSUME TypeOK, BindInv, NEW t \in Threads, stack[t] # <<>>, NEW c,
           Takes(c, Top(t), Top(t).b), Top(t).at \in {"check", "probe"}
    PROVE  OwnerNext(t, c)
<1>1. PICK g \in Frames : IsOne(c, g) /\ Taken(g, Top(t), Top(t).b)
  BY DEF Takes
<1>2. CallFacts(Top(t)) /\ Top(t).at \in Looking /\ Top(t).at \in LookedUp
  BY TopFits DEF Looking, LookedUp
<1>3. \A b \in Top(t).got \cup {Top(t).b} : Seen(b)
  BY <1>2 DEF CallFacts
<1>4. CASE Outcome(g, Top(t), Top(t).got \cup {Top(t).b})
  <2>1. Turns(c, Top(t), Top(t).got \cup {Top(t).b})
    BY <1>1, <1>4 DEF Turns
  <2>2. QED
    BY <1>2, <1>3, <2>1, TurnsNext
<1>5. CASE /\ g.at = "fetch" /\ g.f = Top(t).f /\ g.b = Vacant /\ g.todo = Top(t).todo
           /\ g.got = Top(t).got \cup {Top(t).b} /\ g.cont = Top(t).cont
  <2>1. "fetch" \in Owning /\ "fetch" \notin Delicate /\ "fetch" \notin Registering \cup Releasing
    BY PlainPlaces
  <2>2. ComesBack(g)
    BY <1>2, <1>5 DEF CallFacts, ComesBack, Unloads
  <2>3. CallFacts(g)
    <3>1. \A b \in g.got \cup g.todo : Seen(b)
      BY <1>2, <1>3, <1>5 DEF CallFacts
    <3>2. /\ g.at \notin EntryCalls \cup LookedUp \cup {"update", "provide", "run"}
          /\ g.at \notin Registering \cup Releasing \cup Claiming
          /\ g.at \notin {"register", "refused", "once", "unpin", "check", "probe"}
      BY <1>5, <2>1, KindsOfCalls DEF Delicate, Claiming, LookedUp
    <3>3. g.f \in loaded /\ g.b = Vacant
      BY <1>2, <1>5 DEF CallFacts
    <3>4. QED
      BY <2>2, <3>1, <3>2, <3>3 DEF CallFacts
  <2>4. Len(c) = 1 /\ c[1] = g
    BY <1>1 DEF IsOne
  <2>5. QED
    BY <1>5, <2>1, <2>3, <2>4 DEF OwnerNext
<1>6. QED
  BY <1>1, <1>4, <1>5 DEF Taken

\* A call that drives no fiber goes on, with calls that say nothing of a
\* binding.
CallerNext(c) ==
    /\ \A i \in 1..Len(c) : CallFacts(c[i])
    /\ \A i \in 1..Len(c) : c[i].at \notin Registering \cup Releasing
    /\ \A i \in 1..Len(c) : c[i].at \notin Owning \cup Providing

LEMMA CallerStep ==
    ASSUME TypeOK, CallInv, BindInv, NEW t \in Threads, stack[t] # <<>>,
           NEW c, Step(t, c), Top(t).at \notin Owning, busy' = busy,
           UNCHANGED <<slot, made, installed, once, loaded>>,
           \A b \in Bindings : EntryFacts(b)', \A f \in Fibers : FiberFacts(f)',
           CallerNext(c)
    PROVE  CallInv' /\ BindInv'
<1>1. CallInv'
  BY NoOwnerGoesOn DEF CallerNext
<1>2. Fit(t, c)
  BY DEF CallerNext, Fit
<1>3. QED
  BY <1>1, <1>2, BindStep

LEMMA PlainCallFits ==
    ASSUME NEW g, NEW at \in PlainCalls, NEW f, f \in loaded, IsCall(g, at, f, Vacant)
    PROVE  /\ CallFacts(g)
           /\ g.at \notin Registering \cup Releasing
           /\ g.at \notin Owning \cup Providing
<1>1. /\ at \notin Delicate /\ at \notin Owning \cup Providing
      /\ at \notin Registering \cup Releasing /\ at \notin Looking \cup Unloads
  BY PlainPlaces
<1>2. ComesBack(g)
  BY <1>1 DEF ComesBack, IsCall
<1>3. QED
  BY <1>1, <1>2, PlainCall DEF IsCall

----------------------------------------------------------------------------
(* The calls and the bindings, action by action: the driver of a fiber.     *)

CoreInv == TypeOK /\ CallInv /\ BindInv

LEMMA BeginPassCore ==
    ASSUME CoreInv, NEW t \in Threads, BeginPass(t)
    PROVE  CoreInv'
<1>1. TypeOK /\ CallInv /\ BindInv
  BY DEF CoreInv
<1>2. stack[t] # <<>> /\ Top(t) \in Frames /\ Top(t).at = "pass" /\ Top(t).f \in Fibers
  BY <1>1, InCall DEF BeginPass, IsAt, Frames
<1>3. CallFacts(Top(t)) /\ ComesBack(Top(t))
  BY <1>1, <1>2, TopFits
<1>4. PICK c : Step(t, c) /\ Goes(c, Top(t), "sync")
  BY <1>1, BeginPassStep
<1>5. TypeOK'
  <2>1. stack' \in [Threads -> Seq(Frames)]
    BY <1>4 DEF Step, Changes
  <2>2. QED
    BY <1>1, <1>2, <2>1
       DEF TypeOK, BeginPass, registry, services, effects, generation, driver, calls
<1>6. OwnerNext(t, c)
  BY <1>1, <1>2, <1>3, <1>4, PlainPlaces, GoesNext DEF Looking, Unloads
<1>7. UNCHANGED BindVars /\ busy' = busy
  BY DEF BeginPass, BindVars, registry, services, effects, generation, driver, calls
<1>8. QED
  BY <1>1, <1>2, <1>4, <1>5, <1>6, <1>7, PlainPlaces, QuietDriverStep DEF CoreInv

LEMMA SyncCore ==
    ASSUME CoreInv, NEW t \in Threads, Sync(t)
    PROVE  CoreInv'
<1>1. TypeOK /\ CallInv /\ BindInv
  BY DEF CoreInv
<1>2. stack[t] # <<>> /\ Top(t) \in Frames /\ Top(t).at = "sync" /\ Top(t).f \in Fibers
  BY <1>1, InCall DEF Sync, IsAt, Frames
<1>3. CallFacts(Top(t)) /\ ComesBack(Top(t))
  BY <1>1, <1>2, TopFits
<1>4. PICK c : /\ Step(t, c)
               /\ \/ Unloads1(c, Top(t).f, "end")
                  \/ Unloads1(c, Top(t).f, "reload")
                  \/ Looks(c, Top(t).f, "end")
  BY <1>1, SyncStep
<1>5. TypeOK'
  <2>1. stack' \in [Threads -> Seq(Frames)]
    BY <1>4 DEF Step, Changes
  <2>2. QED
    BY <1>1, <1>2, <2>1 DEF TypeOK, Sync, registry, services, effects, generation, driver, calls
<1>6. OwnerNext(t, c)
  <2>1. CASE Unloads1(c, Top(t).f, "end")
    BY <1>1, <1>2, <1>3, <1>4, <2>1, PlainPlaces, UnloadsNext
  <2>2. CASE Unloads1(c, Top(t).f, "reload")
    BY <1>1, <1>2, <1>3, <1>4, <2>2, PlainPlaces, UnloadsNext
  <2>3. CASE Looks(c, Top(t).f, "end")
    BY <1>1, <1>2, <1>3, <1>4, <2>3, PlainPlaces, LooksNext
  <2>4. QED
    BY <1>4, <2>1, <2>2, <2>3
<1>7. UNCHANGED BindVars /\ busy' = busy
  BY DEF Sync, BindVars, registry, services, effects, generation, driver, calls
<1>8. QED
  BY <1>1, <1>2, <1>4, <1>5, <1>6, <1>7, PlainPlaces, QuietDriverStep DEF CoreInv

LEMMA LoadGenerationCore ==
    ASSUME CoreInv, NEW t \in Threads, LoadGeneration(t)
    PROVE  CoreInv'
<1>1. TypeOK /\ CallInv /\ BindInv
  BY DEF CoreInv
<1>2. stack[t] # <<>> /\ Top(t) \in Frames /\ Top(t).at = "load" /\ Top(t).f \in Fibers
  BY <1>1, InCall DEF LoadGeneration, IsAt, Frames
<1>3. CallFacts(Top(t)) /\ ComesBack(Top(t))
  BY <1>1, <1>2, TopFits
<1>4. PICK c : /\ Step(t, c)
               /\ \/ Opens(c, "end", Top(t).f)
                  \/ Goes(c, Top(t), "loading")
  BY <1>1, LoadGenerationStep
<1>5. live' \in [Fibers -> BOOLEAN]
  BY <1>1, <1>2 DEF TypeOK, LoadGeneration
<1>6. TypeOK'
  <2>1. stack' \in [Threads -> Seq(Frames)]
    BY <1>4 DEF Step, Changes
  <2>2. QED
    BY <1>1, <1>5, <2>1
       DEF TypeOK, LoadGeneration, registry, services, effects, generation, driver, calls
<1>7. OwnerNext(t, c)
  <2>1. CASE Opens(c, "end", Top(t).f)
    BY <1>1, <1>2, <1>3, <1>4, <2>1, PlainPlaces, OpensNext
  <2>2. CASE Goes(c, Top(t), "loading")
    BY <1>1, <1>2, <1>3, <1>4, <2>2, PlainPlaces, GoesNext DEF Looking, Unloads
  <2>3. QED
    BY <1>4, <2>1, <2>2
<1>8. UNCHANGED BindVars /\ busy' = busy
  BY DEF LoadGeneration, BindVars, registry, services, effects, generation, driver, calls
<1>9. QED
  BY <1>1, <1>2, <1>4, <1>6, <1>7, <1>8, PlainPlaces, QuietDriverStep DEF CoreInv

LEMMA ActivateCore ==
    ASSUME CoreInv, NEW t \in Threads, Activate(t)
    PROVE  CoreInv'
<1>1. TypeOK /\ CallInv /\ BindInv
  BY DEF CoreInv
<1>2. stack[t] # <<>> /\ Top(t) \in Frames /\ Top(t).at = "activate" /\ Top(t).f \in Fibers
  BY <1>1, InCall DEF Activate, IsAt, Frames
<1>3. CallFacts(Top(t)) /\ ComesBack(Top(t))
  BY <1>1, <1>2, TopFits
<1>4. PICK c : /\ Step(t, c)
               /\ \/ Unloads1(c, Top(t).f, "end")
                  \/ Goes(c, Top(t), "active")
  BY <1>1, ActivateStep
<1>5. TypeOK'
  <2>1. stack' \in [Threads -> Seq(Frames)]
    BY <1>4 DEF Step, Changes
  <2>2. QED
    BY <1>1, <1>2, <2>1 DEF TypeOK, Activate, registry, services, effects, generation, driver, calls
<1>6. OwnerNext(t, c)
  <2>1. CASE Unloads1(c, Top(t).f, "end")
    BY <1>1, <1>2, <1>3, <1>4, <2>1, PlainPlaces, UnloadsNext
  <2>2. CASE Goes(c, Top(t), "active")
    BY <1>1, <1>2, <1>3, <1>4, <2>2, PlainPlaces, GoesNext DEF Looking, Unloads
  <2>3. QED
    BY <1>4, <2>1, <2>2
<1>7. UNCHANGED BindVars /\ busy' = busy
  BY DEF Activate, BindVars, registry, services, effects, generation, driver, calls
<1>8. QED
  BY <1>1, <1>2, <1>4, <1>5, <1>6, <1>7, PlainPlaces, QuietDriverStep DEF CoreInv

LEMMA FailCore ==
    ASSUME CoreInv, NEW t \in Threads, Fail(t)
    PROVE  CoreInv'
<1>1. TypeOK /\ CallInv /\ BindInv
  BY DEF CoreInv
<1>2. stack[t] # <<>> /\ Top(t) \in Frames /\ Top(t).at = "fail" /\ Top(t).f \in Fibers
  BY <1>1, InCall DEF Fail, IsAt, Frames
<1>3. CallFacts(Top(t)) /\ ComesBack(Top(t))
  BY <1>1, <1>2, TopFits
<1>4. PICK c : Step(t, c) /\ Unloads1(c, Top(t).f, "failed")
  BY <1>1, FailStep
<1>5. TypeOK'
  <2>1. stack' \in [Threads -> Seq(Frames)]
    BY <1>4 DEF Step, Changes
  <2>2. QED
    BY <1>1, <1>2, <2>1 DEF TypeOK, Fail, registry, services, effects, generation, driver, calls
<1>6. OwnerNext(t, c)
  BY <1>1, <1>2, <1>3, <1>4, PlainPlaces, UnloadsNext
<1>7. UNCHANGED BindVars /\ busy' = busy
  BY DEF Fail, BindVars, registry, services, effects, generation, driver, calls
<1>8. QED
  BY <1>1, <1>2, <1>4, <1>5, <1>6, <1>7, PlainPlaces, QuietDriverStep DEF CoreInv

LEMMA UnloadCore ==
    ASSUME CoreInv, NEW t \in Threads, Unload(t)
    PROVE  CoreInv'
<1>1. TypeOK /\ CallInv /\ BindInv
  BY DEF CoreInv
<1>2. stack[t] # <<>> /\ Top(t) \in Frames /\ Top(t).at = "unload" /\ Top(t).f \in Fibers
  BY <1>1, InCall DEF Unload, IsAt, Frames
<1>3. CallFacts(Top(t)) /\ ComesBack(Top(t))
  BY <1>1, <1>2, TopFits
<1>4. PICK c : /\ Step(t, c)
               /\ \/ Goes(c, Top(t), "unloading")
                  \/ Goes(c, Top(t), "finalize")
                  \/ Goes(c, Top(t), Top(t).cont)
  BY <1>1, UnloadStep
<1>5. live' \in [Fibers -> BOOLEAN]
  BY <1>1, <1>2 DEF TypeOK, Unload
<1>6. TypeOK'
  <2>1. stack' \in [Threads -> Seq(Frames)]
    BY <1>4 DEF Step, Changes
  <2>2. QED
    BY <1>1, <1>5, <2>1 DEF TypeOK, Unload, registry, services, effects, generation, driver, calls
<1>7. OwnerNext(t, c)
  <2>1. CASE Goes(c, Top(t), "unloading")
    BY <1>1, <1>2, <1>3, <1>4, <2>1, PlainPlaces, GoesNext DEF Looking, Unloads
  <2>2. CASE Goes(c, Top(t), "finalize")
    BY <1>1, <1>2, <1>3, <1>4, <2>2, PlainPlaces, GoesNext DEF Looking, Unloads
  <2>3. CASE Goes(c, Top(t), Top(t).cont)
    BY <1>1, <1>2, <1>3, <1>4, <2>3, PlainPlaces, GoesNext DEF ComesBack, Unloads, Looking
  <2>4. QED
    BY <1>4, <2>1, <2>2, <2>3
<1>8. UNCHANGED BindVars /\ busy' = busy
  BY DEF Unload, BindVars, registry, services, effects, generation, driver, calls
<1>9. QED
  BY <1>1, <1>2, <1>4, <1>6, <1>7, <1>8, PlainPlaces, QuietDriverStep DEF CoreInv

LEMMA SetActiveCore ==
    ASSUME CoreInv, NEW t \in Threads, SetActive(t)
    PROVE  CoreInv'
<1>1. TypeOK /\ CallInv /\ BindInv
  BY DEF CoreInv
<1>2. stack[t] # <<>> /\ Top(t) \in Frames /\ Top(t).at = "active" /\ Top(t).f \in Fibers
  BY <1>1, InCall DEF SetActive, IsAt, Frames
<1>3. CallFacts(Top(t)) /\ ComesBack(Top(t))
  BY <1>1, <1>2, TopFits
<1>4. PICK c : Step(t, c) /\ Announces(c, Top(t), "active", "end")
  BY <1>1, SetActiveStep
<1>5. state' = IF Refuses(Top(t).f, "active") THEN state
             ELSE [state EXCEPT ![Top(t).f] = "active"]
  BY <1>1, <1>2, SetActiveStep
<1>6. TypeOK'
  <2>1. stack' \in [Threads -> Seq(Frames)]
    BY <1>4 DEF Step, Changes
  <2>2. QED
    BY <1>1, <1>2, <1>5, <2>1
       DEF TypeOK, SetActive, registry, services, effects, generation, driver, calls,
           FiberStates
<1>7. OwnerNext(t, c)
  BY <1>1, <1>2, <1>3, <1>4, PlainPlaces, AnnouncesNext DEF Looking, Unloads
<1>8. UNCHANGED BindVars /\ busy' = busy
  BY DEF SetActive, BindVars, registry, services, effects, generation, driver, calls
<1>9. QED
  BY <1>1, <1>2, <1>4, <1>6, <1>7, <1>8, PlainPlaces, QuietDriverStep DEF CoreInv

LEMMA SetFailedCore ==
    ASSUME CoreInv, NEW t \in Threads, SetFailed(t)
    PROVE  CoreInv'
<1>1. TypeOK /\ CallInv /\ BindInv
  BY DEF CoreInv
<1>2. stack[t] # <<>> /\ Top(t) \in Frames /\ Top(t).at = "failed" /\ Top(t).f \in Fibers
  BY <1>1, InCall DEF SetFailed, IsAt, Frames
<1>3. CallFacts(Top(t)) /\ ComesBack(Top(t))
  BY <1>1, <1>2, TopFits
<1>4. PICK c : Step(t, c) /\ Announces(c, Top(t), "failed", "end")
  BY <1>1, SetFailedStep
<1>5. state' = IF Refuses(Top(t).f, "failed") THEN state
             ELSE [state EXCEPT ![Top(t).f] = "failed"]
  BY <1>1, <1>2, SetFailedStep
<1>6. TypeOK'
  <2>1. stack' \in [Threads -> Seq(Frames)]
    BY <1>4 DEF Step, Changes
  <2>2. QED
    BY <1>1, <1>2, <1>5, <2>1
       DEF TypeOK, SetFailed, registry, services, effects, generation, driver, calls,
           FiberStates
<1>7. OwnerNext(t, c)
  BY <1>1, <1>2, <1>3, <1>4, PlainPlaces, AnnouncesNext DEF Looking, Unloads
<1>8. UNCHANGED BindVars /\ busy' = busy
  BY DEF SetFailed, BindVars, registry, services, effects, generation, driver, calls
<1>9. QED
  BY <1>1, <1>2, <1>4, <1>6, <1>7, <1>8, PlainPlaces, QuietDriverStep DEF CoreInv

LEMMA SetUnloadingCore ==
    ASSUME CoreInv, NEW t \in Threads, SetUnloading(t)
    PROVE  CoreInv'
<1>1. TypeOK /\ CallInv /\ BindInv
  BY DEF CoreInv
<1>2. stack[t] # <<>> /\ Top(t) \in Frames /\ Top(t).at = "unloading" /\ Top(t).f \in Fibers
  BY <1>1, InCall DEF SetUnloading, IsAt, Frames
<1>3. CallFacts(Top(t)) /\ ComesBack(Top(t))
  BY <1>1, <1>2, TopFits
<1>4. PICK c : Step(t, c) /\ Announces(c, Top(t), "unloading", "clear")
  BY <1>1, SetUnloadingStep
<1>5. state' = IF Refuses(Top(t).f, "unloading") THEN state
             ELSE [state EXCEPT ![Top(t).f] = "unloading"]
  BY <1>1, <1>2, SetUnloadingStep
<1>6. TypeOK'
  <2>1. stack' \in [Threads -> Seq(Frames)]
    BY <1>4 DEF Step, Changes
  <2>2. QED
    BY <1>1, <1>2, <1>5, <2>1
       DEF TypeOK, SetUnloading, registry, services, effects, generation, driver, calls,
           FiberStates
<1>7. OwnerNext(t, c)
  BY <1>1, <1>2, <1>3, <1>4, PlainPlaces, AnnouncesNext DEF Looking, Unloads
<1>8. UNCHANGED BindVars /\ busy' = busy
  BY DEF SetUnloading, BindVars, registry, services, effects, generation, driver, calls
<1>9. QED
  BY <1>1, <1>2, <1>4, <1>6, <1>7, <1>8, PlainPlaces, QuietDriverStep DEF CoreInv

LEMMA SetPendingCore ==
    ASSUME CoreInv, NEW t \in Threads, SetPending(t)
    PROVE  CoreInv'
<1>1. TypeOK /\ CallInv /\ BindInv
  BY DEF CoreInv
<1>2. stack[t] # <<>> /\ Top(t) \in Frames /\ Top(t).at = "repending" /\ Top(t).f \in Fibers
  BY <1>1, InCall DEF SetPending, IsAt, Frames
<1>3. CallFacts(Top(t)) /\ ComesBack(Top(t))
  BY <1>1, <1>2, TopFits
<1>4. PICK c : Step(t, c) /\ Announces(c, Top(t), "pending", Top(t).cont)
  BY <1>1, SetPendingStep
<1>5. state' = IF Refuses(Top(t).f, "pending") THEN state
             ELSE [state EXCEPT ![Top(t).f] = "pending"]
  BY <1>1, <1>2, SetPendingStep
<1>6. TypeOK'
  <2>1. stack' \in [Threads -> Seq(Frames)]
    BY <1>4 DEF Step, Changes
  <2>2. QED
    BY <1>1, <1>2, <1>5, <2>1
       DEF TypeOK, SetPending, registry, services, effects, generation, driver, calls,
           FiberStates
<1>7. OwnerNext(t, c)
  BY <1>1, <1>2, <1>3, <1>4, PlainPlaces, AnnouncesNext DEF ComesBack, Looking, Unloads
<1>8. UNCHANGED BindVars /\ busy' = busy
  BY DEF SetPending, BindVars, registry, services, effects, generation, driver, calls
<1>9. QED
  BY <1>1, <1>2, <1>4, <1>6, <1>7, <1>8, PlainPlaces, QuietDriverStep DEF CoreInv

LEMMA FinalizeDisposeCore ==
    ASSUME CoreInv, NEW t \in Threads, FinalizeDispose(t)
    PROVE  CoreInv'
<1>1. TypeOK /\ CallInv /\ BindInv
  BY DEF CoreInv
<1>2. stack[t] # <<>> /\ Top(t) \in Frames /\ Top(t).at = "finalize" /\ Top(t).f \in Fibers
  BY <1>1, InCall DEF FinalizeDispose, IsAt, Frames
<1>3. CallFacts(Top(t)) /\ ComesBack(Top(t))
  BY <1>1, <1>2, TopFits
<1>4. PICK c : Step(t, c) /\ Announces(c, Top(t), "disposed", Top(t).cont)
  BY <1>1, FinalizeDisposeStep
<1>5. state' = IF Refuses(Top(t).f, "disposed") THEN state
             ELSE [state EXCEPT ![Top(t).f] = "disposed"]
  BY <1>1, <1>2, FinalizeDisposeStep
<1>6. TypeOK'
  <2>1. stack' \in [Threads -> Seq(Frames)]
    BY <1>4 DEF Step, Changes
  <2>2. QED
    BY <1>1, <1>2, <1>5, <2>1
       DEF TypeOK, FinalizeDispose, registry, services, effects, generation, driver, calls,
           FiberStates
<1>7. OwnerNext(t, c)
  BY <1>1, <1>2, <1>3, <1>4, PlainPlaces, AnnouncesNext DEF ComesBack, Looking, Unloads
<1>8. UNCHANGED BindVars /\ busy' = busy
  BY DEF FinalizeDispose, BindVars, registry, services, effects, generation, driver, calls
<1>9. QED
  BY <1>1, <1>2, <1>4, <1>6, <1>7, <1>8, PlainPlaces, QuietDriverStep DEF CoreInv

LEMMA GaveBackCore ==
    ASSUME CoreInv, NEW t \in Threads, GaveBack(t)
    PROVE  CoreInv'
<1>1. TypeOK /\ CallInv /\ BindInv
  BY DEF CoreInv
<1>2. stack[t] # <<>> /\ Top(t) \in Frames /\ Top(t).at = "gaveBack" /\ Top(t).f \in Fibers
  BY <1>1, InCall DEF GaveBack, IsAt, Frames
<1>3. CallFacts(Top(t)) /\ ComesBack(Top(t))
  BY <1>1, <1>2, TopFits
<1>4. PICK c : Step(t, c) /\ Announces(c, Top(t), "pending", "end")
  BY <1>1, GaveBackStep
<1>5. state' = IF Refuses(Top(t).f, "pending") THEN state
             ELSE [state EXCEPT ![Top(t).f] = "pending"]
  BY <1>1, <1>2, GaveBackStep
<1>6. TypeOK'
  <2>1. dirty' \in [Fibers -> BOOLEAN]
    BY <1>1, <1>2 DEF TypeOK, GaveBack
  <2>2. state' \in [Fibers -> FiberStates]
    BY <1>1, <1>2, <1>5 DEF TypeOK, FiberStates
  <2>3. QED
    BY <1>1, <1>4, <2>1, <2>2 DEF TypeOK, Step, Changes, GaveBack, registry, services,
                                  effects, generation, driver, calls
<1>7. OwnerNext(t, c)
  BY <1>1, <1>2, <1>3, <1>4, PlainPlaces, AnnouncesNext DEF Looking, Unloads
<1>8. UNCHANGED BindVars /\ busy' = busy
  BY DEF GaveBack, BindVars, registry, services, effects, generation, driver, calls
<1>9. QED
  BY <1>1, <1>2, <1>4, <1>6, <1>7, <1>8, PlainPlaces, QuietDriverStep DEF CoreInv

LEMMA LeavesNext ==
    ASSUME TypeOK, BindInv, NEW t \in Threads, stack[t] # <<>>, NEW c, NEW todo,
           Leaves(c, Top(t), "recheck", todo), todo \subseteq Top(t).todo \cup Top(t).got
    PROVE  OwnerNext(t, c)
<1>1. PICK g \in Frames : IsOne(c, g) /\ IsLeft(g, Top(t), "recheck", todo)
  BY DEF Leaves
<1>2. /\ CallFacts(Top(t)) /\ "recheck" \in Owning /\ "recheck" \notin Delicate
      /\ "recheck" \notin Registering \cup Releasing
  BY TopFits, PlainPlaces
<1>3. ComesBack(g)
  BY <1>1 DEF ComesBack, IsLeft, Looking, Unloads
<1>4. CallFacts(g)
  BY <1>1, <1>2, <1>3, PlainMove DEF IsLeft
<1>5. Len(c) = 1 /\ c[1] = g /\ g.at = "recheck" /\ g.f = Top(t).f
  BY <1>1 DEF IsOne, IsLeft
<1>6. QED
  BY <1>2, <1>4, <1>5 DEF OwnerNext

\* A binding has been found in its slot, and its provider is asked.
LEMMA FindsNext ==
    ASSUME TypeOK, BindInv, NEW t \in Threads, stack[t] # <<>>, NEW c, NEW b \in Known,
           NEW at \in {"check", "reprobe"}, Finds(c, Top(t), at, b), Seen(b),
           at = "check" => Top(t).queue # <<>> /\ Top(t).at \in Looking
    PROVE  OwnerNext(t, c)
<1>1. PICK g \in Frames : IsOne(c, g) /\ IsAbout(g, Top(t), at, b)
  BY DEF Finds
<1>2. /\ CallFacts(Top(t)) /\ at \in Owning /\ at \notin Registering \cup Releasing
  BY TopFits, PlainPlaces
<1>3. ComesBack(g)
  BY <1>1, <1>2 DEF CallFacts, ComesBack, IsAbout, Looking, Unloads
<1>4. CallFacts(g)
  <2>1. /\ at \notin EntryCalls \cup {"update", "provide", "run"} /\ at \notin Claiming
        /\ at \notin {"register", "refused", "once", "unpin"}
    BY KindsOfCalls DEF Claiming
  <2>2. /\ g.at = at /\ g.f = Top(t).f /\ g.b = b /\ g.todo = Top(t).todo
        /\ g.queue = Top(t).queue /\ g.got = Top(t).got
    BY <1>1 DEF IsAbout
  <2>3. b # Vacant
    BY DEF Known, Vacant
  <2>4. g.f \in loaded /\ \A x \in g.got \cup g.todo : Seen(x)
    BY <1>2, <2>2 DEF CallFacts
  <2>5. QED
    BY <1>2, <1>3, <2>1, <2>2, <2>3, <2>4 DEF CallFacts, Looking
<1>5. Len(c) = 1 /\ c[1] = g /\ g.at = at /\ g.f = Top(t).f
  BY <1>1 DEF IsOne, IsAbout
<1>6. QED
  BY <1>2, <1>4, <1>5 DEF OwnerNext

\* ... and then its predicate.
LEMMA ProbesNext ==
    ASSUME TypeOK, BindInv, NEW t \in Threads, stack[t] # <<>>, NEW c,
           Top(t).at = "check", Goes(c, Top(t), "probe")
    PROVE  OwnerNext(t, c)
<1>1. PICK g \in Frames : IsOne(c, g) /\ Moved(g, Top(t), "probe")
  BY DEF Goes
<1>2. /\ CallFacts(Top(t)) /\ "probe" \in Owning /\ "probe" \notin Registering \cup Releasing
  BY TopFits, PlainPlaces
<1>3. CallFacts(g)
  <2>1. ComesBack(g)
    BY <1>1, <1>2 DEF CallFacts, ComesBack, Moved, Looking, Unloads
  <2>2. /\ "probe" \notin EntryCalls \cup {"update", "provide", "run"}
        /\ "probe" \notin Claiming /\ "check" \in LookedUp
        /\ "probe" \notin {"register", "refused", "once", "unpin"}
    BY KindsOfCalls DEF Claiming, LookedUp
  <2>3. /\ g.f \in loaded /\ g.b # Vacant /\ g.b \in Known /\ Seen(g.b) /\ g.queue # <<>>
        /\ \A x \in g.got \cup g.todo : Seen(x)
    BY <1>1, <1>2, <2>2 DEF CallFacts, Moved
  <2>4. g.at = "probe"
    BY <1>1 DEF Moved
  <2>5. QED
    BY <1>2, <2>1, <2>2, <2>3, <2>4 DEF CallFacts
<1>4. Len(c) = 1 /\ c[1] = g /\ g.at = "probe" /\ g.f = Top(t).f
  BY <1>1 DEF IsOne, Moved
<1>5. QED
  BY <1>2, <1>3, <1>4 DEF OwnerNext

\* What is in a slot has been seen.
LEMMA InSlotSeen ==
    ASSUME TypeOK, SlotsFit, NEW l \in Labels, slot[l] # Vacant
    PROVE  /\ slot[l] \in Known /\ InSlot(slot[l]) /\ Seen(slot[l])
           /\ made[slot[l]].label = l
  BY DEF SlotsFit, InSlot, Seen

LEMMA FetchCore ==
    ASSUME CoreInv, NEW t \in Threads, Fetch(t)
    PROVE  CoreInv'
<1>1. TypeOK /\ CallInv /\ BindInv
  BY DEF CoreInv
<1>2. /\ stack[t] # <<>> /\ Top(t) \in Frames /\ Top(t).at = "fetch" /\ Top(t).f \in Fibers
      /\ Top(t).queue \in Seq(Names)
  BY <1>1, InCall DEF Fetch, IsAt, Frames
<1>3. CallFacts(Top(t)) /\ "fetch" \in Looking
  BY <1>1, <1>2, TopFits DEF Looking
<1> DEFINE b == Under(Top(t).f, Head(Top(t).queue))
<1>4. PICK c : /\ Step(t, c)
               /\ \/ Turns(c, Top(t), Top(t).got)
                  \/ /\ Top(t).queue # <<>> /\ b # Vacant
                     /\ Finds(c, Top(t), "check", b)
                  \/ Turns(c, Top(t), Inactive)
  BY <1>1, FetchStep
<1>5. TypeOK'
  <2>1. stack' \in [Threads -> Seq(Frames)]
    BY <1>4 DEF Step, Changes
  <2>2. QED
    BY <1>1, <1>2, <2>1 DEF TypeOK, Fetch, registry, services, effects, generation, driver, calls
<1>6. OwnerNext(t, c)
  <2>1. CASE Turns(c, Top(t), Top(t).got)
    <3>1. \A x \in Top(t).got : Seen(x)
      BY <1>3 DEF CallFacts
    <3>2. QED
      BY <1>1, <1>2, <1>3, <2>1, <3>1, TurnsNext
  <2>2. CASE Top(t).queue # <<>> /\ b # Vacant /\ Finds(c, Top(t), "check", b)
    <3>1. Scope[Top(t).f][Head(Top(t).queue)] \in Labels
      BY <1>2, <2>2, HeadTailProperties, GraphAssumption
    <3>2. b \in Known /\ Seen(b)
      BY <1>1, <2>2, <3>1, InSlotSeen DEF BindInv, Under
    <3> HIDE DEF b
    <3>3. QED
      BY <1>1, <1>2, <1>3, <2>2, <3>2, FindsNext
  <2>3. CASE Turns(c, Top(t), Inactive)
    BY <1>1, <1>2, <1>3, <2>3, TurnsNext
  <2>4. QED
    BY <1>4, <2>1, <2>2, <2>3
<1>7. UNCHANGED BindVars /\ busy' = busy
  BY DEF Fetch, BindVars, registry, services, effects, generation, driver, calls
<1>8. QED
  BY <1>1, <1>2, <1>4, <1>5, <1>6, <1>7, PlainPlaces, QuietDriverStep DEF CoreInv

LEMMA CheckCore ==
    ASSUME CoreInv, NEW t \in Threads, Check(t)
    PROVE  CoreInv'
<1>1. TypeOK /\ CallInv /\ BindInv
  BY DEF CoreInv
<1>2. stack[t] # <<>> /\ Top(t) \in Frames /\ Top(t).at = "check" /\ Top(t).f \in Fibers
  BY <1>1, InCall DEF Check, IsAt, Frames
<1>3. CallFacts(Top(t)) /\ ComesBack(Top(t))
  BY <1>1, <1>2, TopFits
<1>4. PICK c : /\ Step(t, c)
               /\ \/ Turns(c, Top(t), Inactive)
                  \/ Goes(c, Top(t), "probe")
                  \/ Takes(c, Top(t), Top(t).b)
  BY <1>1, <1>2, <1>3, CheckStep DEF CallFacts, LookedUp
<1>5. TypeOK'
  <2>1. stack' \in [Threads -> Seq(Frames)]
    BY <1>4 DEF Step, Changes
  <2>2. QED
    BY <1>1, <1>2, <2>1 DEF TypeOK, Check, registry, services, effects, generation, driver, calls
<1>6. OwnerNext(t, c)
  <2>1. CASE Turns(c, Top(t), Inactive)
    BY <1>1, <1>2, <1>3, <1>4, <2>1, PlainPlaces, TurnsNext DEF Looking
  <2>2. CASE Goes(c, Top(t), "probe")
    BY <1>1, <1>2, <1>3, <1>4, <2>2, PlainPlaces, ProbesNext
  <2>3. CASE Takes(c, Top(t), Top(t).b)
    BY <1>1, <1>2, <1>3, <1>4, <2>3, PlainPlaces, TakesNext
  <2>4. QED
    BY <1>4, <2>1, <2>2, <2>3
<1>7. UNCHANGED BindVars /\ busy' = busy
  BY DEF Check, BindVars, registry, services, effects, generation, driver, calls
<1>8. QED
  BY <1>1, <1>2, <1>4, <1>5, <1>6, <1>7, PlainPlaces, QuietDriverStep DEF CoreInv

LEMMA ProbeCore ==
    ASSUME CoreInv, NEW t \in Threads, Probe(t)
    PROVE  CoreInv'
<1>1. TypeOK /\ CallInv /\ BindInv
  BY DEF CoreInv
<1>2. stack[t] # <<>> /\ Top(t) \in Frames /\ Top(t).at = "probe" /\ Top(t).f \in Fibers
  BY <1>1, InCall DEF Probe, IsAt, Frames
<1>3. CallFacts(Top(t)) /\ ComesBack(Top(t))
  BY <1>1, <1>2, TopFits
<1>4. PICK c : /\ Step(t, c)
               /\ \/ Turns(c, Top(t), Inactive)
                  \/ Takes(c, Top(t), Top(t).b)
  BY <1>1, <1>2, <1>3, ProbeStep DEF CallFacts, LookedUp
<1>5. TypeOK'
  <2>1. stack' \in [Threads -> Seq(Frames)]
    BY <1>4 DEF Step, Changes
  <2>2. QED
    BY <1>1, <1>2, <2>1 DEF TypeOK, Probe, registry, services, effects, generation, driver, calls
<1>6. OwnerNext(t, c)
  <2>1. CASE Turns(c, Top(t), Inactive)
    BY <1>1, <1>2, <1>3, <1>4, <2>1, PlainPlaces, TurnsNext DEF Looking
  <2>2. CASE Takes(c, Top(t), Top(t).b)
    BY <1>1, <1>2, <1>3, <1>4, <2>2, PlainPlaces, TakesNext
  <2>3. QED
    BY <1>4, <2>1, <2>2
<1>7. UNCHANGED BindVars /\ busy' = busy
  BY DEF Probe, BindVars, registry, services, effects, generation, driver, calls
<1>8. QED
  BY <1>1, <1>2, <1>4, <1>5, <1>6, <1>7, PlainPlaces, QuietDriverStep DEF CoreInv

LEMMA SetLoadingCore ==
    ASSUME CoreInv, NEW t \in Threads, SetLoading(t)
    PROVE  CoreInv'
<1>1. TypeOK /\ CallInv /\ BindInv
  BY DEF CoreInv
<1>2. stack[t] # <<>> /\ Top(t) \in Frames /\ Top(t).at = "loading" /\ Top(t).f \in Fibers
  BY <1>1, InCall DEF SetLoading, IsAt, Frames
<1>3. CallFacts(Top(t)) /\ ComesBack(Top(t))
  BY <1>1, <1>2, TopFits
<1>4. PICK c : /\ Step(t, c)
               /\ \/ Opens(c, "end", Top(t).f)
                  \/ Leaves(c, Top(t), "recheck", Top(t).got)
  BY <1>1, SetLoadingStep
<1>5. state' = state \/ state' = [state EXCEPT ![Top(t).f] = "loading"]
  BY <1>1, <1>2, SetLoadingStep
<1>6. TypeOK'
  <2>1. stack' \in [Threads -> Seq(Frames)]
    BY <1>4 DEF Step, Changes
  <2>2. QED
    BY <1>1, <1>2, <1>5, <2>1
       DEF TypeOK, SetLoading, registry, services, effects, generation, driver, calls,
           FiberStates
<1>7. OwnerNext(t, c)
  <2>1. CASE Opens(c, "end", Top(t).f)
    BY <1>1, <1>2, <1>3, <1>4, <2>1, PlainPlaces, OpensNext
  <2>2. CASE Leaves(c, Top(t), "recheck", Top(t).got)
    BY <1>1, <1>2, <1>3, <1>4, <2>2, PlainPlaces, LeavesNext
  <2>3. QED
    BY <1>4, <2>1, <2>2
<1>8. UNCHANGED BindVars /\ busy' = busy
  BY DEF SetLoading, BindVars, registry, services, effects, generation, driver, calls
<1>9. QED
  BY <1>1, <1>2, <1>4, <1>6, <1>7, <1>8, PlainPlaces, QuietDriverStep DEF CoreInv

LEMMA ReprobeCore ==
    ASSUME CoreInv, NEW t \in Threads, Reprobe(t)
    PROVE  CoreInv'
<1>1. TypeOK /\ CallInv /\ BindInv
  BY DEF CoreInv
<1>2. stack[t] # <<>> /\ Top(t) \in Frames /\ Top(t).at = "reprobe" /\ Top(t).f \in Fibers
  BY <1>1, InCall DEF Reprobe, IsAt, Frames
<1>3. CallFacts(Top(t)) /\ ComesBack(Top(t))
  BY <1>1, <1>2, TopFits
<1>4. PICK c : /\ Step(t, c)
               /\ \/ Opens(c, "giveBack", Top(t).f)
                  \/ Leaves(c, Top(t), "recheck", Top(t).todo \ {Top(t).b})
  BY <1>1, ReprobeStep
<1>5. TypeOK'
  <2>1. stack' \in [Threads -> Seq(Frames)]
    BY <1>4 DEF Step, Changes
  <2>2. QED
    BY <1>1, <1>2, <2>1 DEF TypeOK, Reprobe, registry, services, effects, generation, driver, calls
<1>6. OwnerNext(t, c)
  <2>1. CASE Opens(c, "giveBack", Top(t).f)
    BY <1>1, <1>2, <1>3, <1>4, <2>1, PlainPlaces, OpensNext
  <2>2. CASE Leaves(c, Top(t), "recheck", Top(t).todo \ {Top(t).b})
    BY <1>1, <1>2, <1>3, <1>4, <2>2, PlainPlaces, LeavesNext
  <2>3. QED
    BY <1>4, <2>1, <2>2
<1>7. UNCHANGED BindVars /\ busy' = busy
  BY DEF Reprobe, BindVars, registry, services, effects, generation, driver, calls
<1>8. QED
  BY <1>1, <1>2, <1>4, <1>5, <1>6, <1>7, PlainPlaces, QuietDriverStep DEF CoreInv

LEMMA RecheckCore ==
    ASSUME CoreInv, NEW t \in Threads, Recheck(t)
    PROVE  CoreInv'
<1>1. TypeOK /\ CallInv /\ BindInv
  BY DEF CoreInv
<1>2. stack[t] # <<>> /\ Top(t) \in Frames /\ Top(t).at = "recheck" /\ Top(t).f \in Fibers
  BY <1>1, InCall DEF Recheck, IsAt, Frames
<1>3. CallFacts(Top(t))
  BY <1>1, <1>2, TopFits
<1>4. PICK c : \E b \in Top(t).todo :
               /\ Step(t, c)
               /\ \/ Opens(c, "giveBack", Top(t).f)
                  \/ Finds(c, Top(t), "reprobe", b)
                  \/ Leaves(c, Top(t), "recheck", Top(t).todo \ {b})
  BY <1>1, RecheckStep
<1>5. PICK b \in Top(t).todo :
               /\ Step(t, c)
               /\ \/ Opens(c, "giveBack", Top(t).f)
                  \/ Finds(c, Top(t), "reprobe", b)
                  \/ Leaves(c, Top(t), "recheck", Top(t).todo \ {b})
  BY <1>4
<1>6. TypeOK'
  <2>1. stack' \in [Threads -> Seq(Frames)]
    BY <1>5 DEF Step, Changes
  <2>2. QED
    BY <1>1, <1>2, <2>1 DEF TypeOK, Recheck, registry, services, effects, generation, driver, calls
<1>7. OwnerNext(t, c)
  <2>1. CASE Opens(c, "giveBack", Top(t).f)
    BY <1>1, <1>2, <2>1, PlainPlaces, OpensNext
  <2>2. CASE Finds(c, Top(t), "reprobe", b)
    <3>1. Seen(b) /\ b \in Known
      BY <1>3 DEF CallFacts, Seen
    <3>2. QED
      BY <1>1, <1>2, <2>2, <3>1, FindsNext
  <2>3. CASE Leaves(c, Top(t), "recheck", Top(t).todo \ {b})
    BY <1>1, <1>2, <2>3, LeavesNext
  <2>4. QED
    BY <1>5, <2>1, <2>2, <2>3
<1>8. UNCHANGED BindVars /\ busy' = busy
  BY DEF Recheck, BindVars, registry, services, effects, generation, driver, calls
<1>9. QED
  BY <1>1, <1>2, <1>5, <1>6, <1>7, <1>8, PlainPlaces, QuietDriverStep DEF CoreInv

----------------------------------------------------------------------------
(* ... the steps of a driver that change what its fiber has resolved.       *)

LEMMA EntriesSame ==
    ASSUME BindInv, UNCHANGED <<slot, made, installed, deferred, once>>
    PROVE  \A b \in Bindings : EntryFacts(b)'
<1>1. Known' = Known /\ \A b : InSlot(b)' <=> InSlot(b)
  BY DEF Known, InSlot
<1>2. QED
  BY <1>1 DEF BindInv, EntryFacts

LEMMA FibersStep ==
    ASSUME BindInv, UNCHANGED <<slot, made, once>>,
           \A f \in Fibers : ToSet(entries'[f]) \subseteq ToSet(entries[f]),
           \A f \in Fibers : \A b \in (epoch'[f] \cup pinned'[f]) \ Inactive : Seen(b),
           \A f \in Fibers : f \in attached' \/ epoch'[f] # Inactive => f \in loaded'
    PROVE  \A f \in Fibers : FiberFacts(f)'
<1>1. Known' = Known /\ \A b : InSlot(b)' <=> InSlot(b)
  BY DEF Known, InSlot
<1>2. \A b : Seen(b)' <=> Seen(b)
  BY <1>1 DEF Seen
<1>3. \A f \in Fibers : \A b \in ToSet(entries[f]) : b \in Known /\ made[b].provider = f
  BY DEF BindInv, FiberFacts
<1>4. \A f \in Fibers : \A b \in ToSet(entries'[f]) : b \in Known' /\ made'[b].provider = f
  BY <1>1, <1>3
<1>5. QED
  BY <1>2, <1>4 DEF FiberFacts

LEMMA FibersNow ==
    ASSUME BindInv
    PROVE  /\ \A f \in Fibers : \A b \in (epoch[f] \cup pinned[f]) \ Inactive : Seen(b)
           /\ \A f \in Fibers : f \in attached \/ epoch[f] # Inactive => f \in loaded
  BY DEF BindInv, FiberFacts

LEMMA EntriesTyping ==
    ASSUME TypeOK, NEW f \in Fibers
    PROVE  entries[f] \in Seq(Bindings) /\ ToSet(entries[f]) \subseteq Bindings
<1>1. entries[f] \in Seq(Bindings)
  BY DEF TypeOK
<1>2. QED
  BY <1>1, LenProperties, ElementOfSeq DEF ToSet

LEMMA ApplyUnloadCore ==
    ASSUME CoreInv, NEW t \in Threads, ApplyUnload(t)
    PROVE  CoreInv'
<1>1. TypeOK /\ CallInv /\ BindInv
  BY DEF CoreInv
<1>2. stack[t] # <<>> /\ Top(t) \in Frames /\ Top(t).at = "applyUnload" /\ Top(t).f \in Fibers
  BY <1>1, InCall DEF ApplyUnload, IsAt, Frames
<1>3. CallFacts(Top(t)) /\ ComesBack(Top(t))
  BY <1>1, <1>2, TopFits
<1>4. PICK c : /\ Step(t, c)
               /\ \/ Opens(c, "end", Top(t).f)
                  \/ Unloads1(c, Top(t).f, "end")
  BY <1>1, <1>2, <1>3, ApplyUnloadStep
<1>5. TypeOK'
  <2>1. stack' \in [Threads -> Seq(Frames)]
    BY <1>4 DEF Step, Changes
  <2>2. epoch' \in [Fibers -> Epochs]
    BY <1>1, <1>2, <1>3 DEF ApplyUnload, TypeOK, Epochs, Forget, Self
  <2>3. QED
    BY <1>1, <2>1, <2>2
       DEF TypeOK, ApplyUnload, registry, services, effects, generation, driver, calls
<1>6. OwnerNext(t, c)
  <2>1. CASE Opens(c, "end", Top(t).f)
    BY <1>1, <1>2, <1>3, <1>4, <2>1, PlainPlaces, OpensNext
  <2>2. CASE Unloads1(c, Top(t).f, "end")
    BY <1>1, <1>2, <1>3, <1>4, <2>2, PlainPlaces, UnloadsNext
  <2>3. QED
    BY <1>4, <2>1, <2>2
<1>7. UNCHANGED <<slot, made, installed, deferred, once, loaded>> /\ busy' = busy
  BY DEF ApplyUnload, registry, services, effects, generation, driver, calls
<1>8. \A b \in Bindings : EntryFacts(b)'
  BY <1>1, <1>7, EntriesSame
<1>9. \A f \in Fibers : FiberFacts(f)'
  <2>1. \A f \in Fibers : ToSet(entries'[f]) \subseteq ToSet(entries[f])
    BY <1>1, <1>2, <1>3 DEF ApplyUnload, effects
  <2>2. \A f \in Fibers : \A b \in (epoch'[f] \cup pinned'[f]) \ Inactive : Seen(b)
    BY <1>1, <1>2, <1>3 , FibersNow DEF ApplyUnload, TypeOK, Forget, Self
  <2>3. \A f \in Fibers : f \in attached' \/ epoch'[f] # Inactive => f \in loaded'
    BY <1>1, <1>2, <1>3 , FibersNow DEF ApplyUnload, TypeOK, calls, Forget, Self
  <2>4. QED
    BY <1>1, <1>7, <2>1, <2>2, <2>3, FibersStep
<1>10. QED
  BY <1>1, <1>2, <1>4, <1>5, <1>6, <1>7, <1>8, <1>9, PlainPlaces, DriverStep DEF CoreInv

LEMMA ReloadCore ==
    ASSUME CoreInv, NEW t \in Threads, Reload(t)
    PROVE  CoreInv'
<1>1. TypeOK /\ CallInv /\ BindInv
  BY DEF CoreInv
<1>2. stack[t] # <<>> /\ Top(t) \in Frames /\ Top(t).at = "reload" /\ Top(t).f \in Fibers
  BY <1>1, InCall DEF Reload, IsAt, Frames
<1>3. CallFacts(Top(t)) /\ ComesBack(Top(t))
  BY <1>1, <1>2, TopFits
<1>4. PICK c : /\ Step(t, c)
               /\ \/ Opens(c, "end", Top(t).f)
                  \/ Looks(c, Top(t).f, "reload")
  BY <1>1, <1>2, <1>3, ReloadStep
<1>5. TypeOK'
  <2>1. stack' \in [Threads -> Seq(Frames)]
    BY <1>4 DEF Step, Changes
  <2>2. epoch' \in [Fibers -> Epochs]
    BY <1>1, <1>2, <1>3 DEF Reload, TypeOK, Epochs, Forget, Self
  <2>3. QED
    BY <1>1, <2>1, <2>2 DEF TypeOK, Reload, registry, services, effects, generation, driver, calls
<1>6. OwnerNext(t, c)
  <2>1. CASE Opens(c, "end", Top(t).f)
    BY <1>1, <1>2, <1>3, <1>4, <2>1, PlainPlaces, OpensNext
  <2>2. CASE Looks(c, Top(t).f, "reload")
    BY <1>1, <1>2, <1>3, <1>4, <2>2, PlainPlaces, LooksNext
  <2>3. QED
    BY <1>4, <2>1, <2>2
<1>7. UNCHANGED <<slot, made, installed, deferred, once, loaded>> /\ busy' = busy
  BY DEF Reload, registry, services, effects, generation, driver, calls
<1>8. \A b \in Bindings : EntryFacts(b)'
  BY <1>1, <1>7, EntriesSame
<1>9. \A f \in Fibers : FiberFacts(f)'
  <2>1. \A f \in Fibers : ToSet(entries'[f]) \subseteq ToSet(entries[f])
    BY <1>1, <1>2, <1>3 DEF Reload, effects
  <2>2. \A f \in Fibers : \A b \in (epoch'[f] \cup pinned'[f]) \ Inactive : Seen(b)
    BY <1>1, <1>2, <1>3 , FibersNow DEF Reload, TypeOK, Forget, Self
  <2>3. \A f \in Fibers : f \in attached' \/ epoch'[f] # Inactive => f \in loaded'
    BY <1>1, <1>2, <1>3 , FibersNow DEF Reload, TypeOK, calls, Forget, Self
  <2>4. QED
    BY <1>1, <1>7, <2>1, <2>2, <2>3, FibersStep
<1>10. QED
  BY <1>1, <1>2, <1>4, <1>5, <1>6, <1>7, <1>8, <1>9, PlainPlaces, DriverStep DEF CoreInv

LEMMA GiveBackCore ==
    ASSUME CoreInv, NEW t \in Threads, GiveBack(t)
    PROVE  CoreInv'
<1>1. TypeOK /\ CallInv /\ BindInv
  BY DEF CoreInv
<1>2. stack[t] # <<>> /\ Top(t) \in Frames /\ Top(t).at = "giveBack" /\ Top(t).f \in Fibers
  BY <1>1, InCall DEF GiveBack, IsAt, Frames
<1>3. CallFacts(Top(t)) /\ ComesBack(Top(t))
  BY <1>1, <1>2, TopFits
<1>4. PICK c : Step(t, c) /\ Goes(c, Top(t), "gaveBack")
  BY <1>1, <1>2, <1>3, GiveBackStep
<1>5. TypeOK'
  <2>1. stack' \in [Threads -> Seq(Frames)]
    BY <1>4 DEF Step, Changes
  <2>2. epoch' \in [Fibers -> Epochs]
    BY <1>1, <1>2, <1>3 DEF GiveBack, TypeOK, Epochs, Self
  <2>3. live' \in [Fibers -> BOOLEAN]
    BY <1>1, <1>2, <1>3 DEF GiveBack, TypeOK
  <2>4. stray' \subseteq Bindings
    BY <1>1, <1>2, <1>3 , EntriesTyping DEF GiveBack, TypeOK, Self
  <2>5. QED
    BY <1>1, <2>1, <2>2, <2>3, <2>4
       DEF TypeOK, GiveBack, registry, services, effects, generation, driver, calls
<1>6. OwnerNext(t, c)
  BY <1>1, <1>2, <1>3, <1>4, PlainPlaces, GoesNext DEF Looking, Unloads
<1>7. UNCHANGED <<slot, made, installed, deferred, once, loaded>> /\ busy' = busy
  BY DEF GiveBack, registry, services, effects, generation, driver, calls
<1>8. \A b \in Bindings : EntryFacts(b)'
  BY <1>1, <1>7, EntriesSame
<1>9. \A f \in Fibers : FiberFacts(f)'
  <2>1. \A f \in Fibers : ToSet(entries'[f]) \subseteq ToSet(entries[f])
    BY <1>1, <1>2, <1>3 DEF GiveBack, effects
  <2>2. \A f \in Fibers : \A b \in (epoch'[f] \cup pinned'[f]) \ Inactive : Seen(b)
    BY <1>1, <1>2, <1>3 , FibersNow DEF GiveBack, TypeOK, Self
  <2>3. \A f \in Fibers : f \in attached' \/ epoch'[f] # Inactive => f \in loaded'
    BY <1>1, <1>2, <1>3 , FibersNow DEF GiveBack, TypeOK, calls, Self
  <2>4. QED
    BY <1>1, <1>7, <2>1, <2>2, <2>3, FibersStep
<1>10. QED
  BY <1>1, <1>2, <1>4, <1>5, <1>6, <1>7, <1>8, <1>9, PlainPlaces, DriverStep DEF CoreInv

LEMMA UnloadedCore ==
    ASSUME CoreInv, NEW t \in Threads, Unloaded(t)
    PROVE  CoreInv'
<1>1. TypeOK /\ CallInv /\ BindInv
  BY DEF CoreInv
<1>2. stack[t] # <<>> /\ Top(t) \in Frames /\ Top(t).at = "unwind" /\ Top(t).f \in Fibers
  BY <1>1, InCall DEF Unloaded, IsAt, Frames
<1>3. CallFacts(Top(t)) /\ ComesBack(Top(t))
  BY <1>1, <1>2, TopFits
<1>4. PICK c : /\ Step(t, c)
               /\ \/ Goes(c, Top(t), "finalize")
                  \/ Goes(c, Top(t), "repending")
  BY <1>1, <1>2, <1>3, UnloadedStep
<1>5. TypeOK'
  <2>1. stack' \in [Threads -> Seq(Frames)]
    BY <1>4 DEF Step, Changes
  <2>2. pinned' \in [Fibers -> Epochs]
    BY <1>1, <1>2, <1>3 DEF Unloaded, TypeOK, Epochs, Self
  <2>3. QED
    BY <1>1, <2>1, <2>2 DEF TypeOK, Unloaded, registry, services, effects, generation, driver, calls
<1>6. OwnerNext(t, c)
  <2>1. CASE Goes(c, Top(t), "finalize")
    BY <1>1, <1>2, <1>3, <1>4, <2>1, PlainPlaces, GoesNext DEF Looking, Unloads
  <2>2. CASE Goes(c, Top(t), "repending")
    BY <1>1, <1>2, <1>3, <1>4, <2>2, PlainPlaces, GoesNext DEF Looking, Unloads
  <2>3. QED
    BY <1>4, <2>1, <2>2
<1>7. UNCHANGED <<slot, made, installed, deferred, once, loaded>> /\ busy' = busy
  BY DEF Unloaded, registry, services, effects, generation, driver, calls
<1>8. \A b \in Bindings : EntryFacts(b)'
  BY <1>1, <1>7, EntriesSame
<1>9. \A f \in Fibers : FiberFacts(f)'
  <2>1. \A f \in Fibers : ToSet(entries'[f]) \subseteq ToSet(entries[f])
    BY <1>1, <1>2, <1>3 DEF Unloaded, effects
  <2>2. \A f \in Fibers : \A b \in (epoch'[f] \cup pinned'[f]) \ Inactive : Seen(b)
    BY <1>1, <1>2, <1>3 , FibersNow DEF Unloaded, TypeOK, Self
  <2>3. \A f \in Fibers : f \in attached' \/ epoch'[f] # Inactive => f \in loaded'
    BY <1>1, <1>2, <1>3 , FibersNow DEF Unloaded, TypeOK, calls, Self, generation
  <2>4. QED
    BY <1>1, <1>7, <2>1, <2>2, <2>3, FibersStep
<1>10. QED
  BY <1>1, <1>2, <1>4, <1>5, <1>6, <1>7, <1>8, <1>9, PlainPlaces, DriverStep DEF CoreInv

LEMMA CommitCore ==
    ASSUME CoreInv, NEW t \in Threads, Commit(t)
    PROVE  CoreInv'
<1>1. TypeOK /\ CallInv /\ BindInv
  BY DEF CoreInv
<1>2. /\ stack[t] # <<>> /\ Top(t) \in Frames /\ Top(t).at = "recheck" /\ Top(t).f \in Fibers
      /\ Top(t).got \subseteq Bindings
  BY <1>1, InCall DEF Commit, IsAt, Frames
<1>3. CallFacts(Top(t)) /\ Top(t).f \in loaded /\ \A b \in Top(t).got : Seen(b)
  BY <1>1, <1>2, TopFits DEF CallFacts
<1>4. PICK c : /\ Step(t, c)
               /\ \E g \in Frames : IsOne(c, g) /\ IsBody(g, Top(t).f, Offers[Top(t).f])
  BY <1>1, CommitStep
<1>5. TypeOK'
  <2>1. stack' \in [Threads -> Seq(Frames)]
    BY <1>4 DEF Step, Changes
  <2>2. epoch' \in [Fibers -> Epochs] /\ pinned' \in [Fibers -> Epochs]
    BY <1>1, <1>2 DEF TypeOK, Epochs, Commit, Self
  <2>3. QED
    BY <1>1, <2>1, <2>2 DEF TypeOK, Commit, registry, services, effects, generation,
                            driver, calls
<1>6. OwnerNext(t, c)
  <2>1. PICK g \in Frames : IsOne(c, g) /\ IsBody(g, Top(t).f, Offers[Top(t).f])
    BY <1>4
  <2>2. /\ g.at = "run" /\ g.f = Top(t).f /\ g.b = Vacant /\ g.todo = {} /\ g.got = {}
        /\ g.queue = Offers[g.f] /\ Len(c) = 1 /\ c[1] = g
    BY <2>1 DEF IsBody, IsOne
  <2>3. /\ "run" \in Owning /\ "run" \notin Registering \cup Releasing \cup Claiming
        /\ "run" \notin EntryCalls \cup LookedUp \cup {"update", "provide"}
        /\ "run" \notin {"register", "refused", "once", "unpin", "check", "probe"}
        /\ "run" \notin Looking /\ "run" \notin Unloads
    BY PlainPlaces, KindsOfCalls DEF Claiming, LookedUp, Looking, Unloads
  <2>4. CallFacts(g)
    BY <1>3, <2>2, <2>3 DEF CallFacts, ComesBack
  <2>5. QED
    BY <2>2, <2>3, <2>4 DEF OwnerNext
<1>7. UNCHANGED <<slot, made, installed, deferred, once, loaded>> /\ busy' = busy
  BY DEF Commit, registry, services, effects, generation, driver, calls
<1>8. \A b \in Bindings : EntryFacts(b)'
  BY <1>1, <1>7, EntriesSame
<1>9. \A f \in Fibers : FiberFacts(f)'
  <2>1. \A f \in Fibers : ToSet(entries'[f]) \subseteq ToSet(entries[f])
    BY DEF Commit, effects
  <2>2. \A f \in Fibers : \A b \in (epoch'[f] \cup pinned'[f]) \ Inactive : Seen(b)
    BY <1>1, <1>2, <1>3, FibersNow DEF Commit, TypeOK, Self
  <2>3. \A f \in Fibers : f \in attached' \/ epoch'[f] # Inactive => f \in loaded'
    BY <1>1, <1>2, <1>3, FibersNow DEF Commit, TypeOK, Self, calls
  <2>4. QED
    BY <1>1, <1>7, <2>1, <2>2, <2>3, FibersStep
<1>10. QED
  BY <1>1, <1>2, <1>4, <1>5, <1>6, <1>7, <1>8, <1>9, PlainPlaces, DriverStep DEF CoreInv

\* What is left of a queue, and its first element, are of the queue.
LEMMA QueueParts ==
    ASSUME NEW S, NEW q \in Seq(S), q # <<>>
    PROVE  /\ Head(q) \in ToSet(q) /\ ToSet(Tail(q)) \subseteq ToSet(q)
           /\ Tail(q) \in Seq(S) /\ Head(q) \in S
<1>1. /\ Head(q) \in S /\ Tail(q) \in Seq(S) /\ Len(Tail(q)) = Len(q) - 1
      /\ \A i \in 1..Len(Tail(q)) : Tail(q)[i] = q[i + 1]
  BY HeadTailProperties
<1>2. Len(q) \in Nat \ {0} /\ DOMAIN q = 1..Len(q) /\ DOMAIN Tail(q) = 1..Len(Tail(q))
  BY <1>1, EmptySeq, LenProperties
<1>3. Head(q) = q[1] /\ 1 \in 1..Len(q)
  BY <1>2, HeadTailProperties
<1>4. \A i \in 1..Len(Tail(q)) : i + 1 \in 1..Len(q)
  BY <1>1, <1>2
<1>5. QED
  BY <1>1, <1>2, <1>3, <1>4 DEF ToSet

LEMMA ProvideFits ==
    ASSUME TypeOK, NEW k, NEW f, NEW n, IsProvide(k, f, n), f \in loaded,
           n \in ToSet(Offers[f])
    PROVE  CallFacts(k)
<1>1. /\ k.at = "provide" /\ k.f = f /\ k.b = Vacant /\ k.todo = {} /\ k.got = {}
      /\ k.name = n
  BY DEF IsProvide, IsCall
<1>2. /\ "provide" \notin Registering \cup Releasing \cup Claiming
      /\ "provide" \notin EntryCalls \cup LookedUp \cup {"update", "run"}
      /\ "provide" \notin {"register", "refused", "once", "unpin", "check", "probe"}
      /\ "provide" \notin Looking /\ "provide" \notin Unloads
  BY KindsOfCalls DEF Claiming, LookedUp, Looking, Unloads
<1>3. QED
  BY <1>1, <1>2 DEF CallFacts, ComesBack

LEMMA RunBodyCore ==
    ASSUME CoreInv, NEW t \in Threads, RunBody(t)
    PROVE  CoreInv'
<1>1. TypeOK /\ CallInv /\ BindInv
  BY DEF CoreInv
<1>2. /\ stack[t] # <<>> /\ Top(t) \in Frames /\ Top(t).at = "run" /\ Top(t).f \in Fibers
      /\ Top(t).queue \in Seq(Names)
  BY <1>1, InCall DEF RunBody, IsAt, Frames
<1>3. /\ CallFacts(Top(t)) /\ Top(t).f \in loaded
      /\ ToSet(Top(t).queue) \subseteq ToSet(Offers[Top(t).f])
  BY <1>1, <1>2, TopFits DEF CallFacts
<1>4. PICK c :
        /\ Step(t, c)
        /\ \/ /\ Top(t).queue # <<>>
              /\ \E g, k \in Frames :
                   /\ IsTwo(c, g, k)
                   /\ g.at = "run" /\ g.f = Top(t).f /\ g.b = Top(t).b
                   /\ g.todo = Top(t).todo /\ g.got = Top(t).got
                   /\ g.queue = Tail(Top(t).queue)
                   /\ IsProvide(k, Top(t).f, Head(Top(t).queue))
           \/ Goes(c, Top(t), "activate")
           \/ Goes(c, Top(t), "fail")
  BY <1>1, RunBodyStep
<1>5. TypeOK'
  <2>1. stack' \in [Threads -> Seq(Frames)]
    BY <1>4 DEF Step, Changes
  <2>2. QED
    BY <1>1, <2>1 DEF TypeOK, RunBody, registry, services, effects, generation,
                      driver, calls
<1>6. UNCHANGED BindVars /\ busy' = busy
  BY DEF RunBody, BindVars, registry, services, effects, generation, driver, calls
<1>7. CASE Goes(c, Top(t), "activate") \/ Goes(c, Top(t), "fail")
  <2>1. OwnerNext(t, c)
    <3>1. CASE Goes(c, Top(t), "activate")
      BY <1>1, <1>2, <3>1, PlainPlaces, GoesNext DEF Looking, Unloads
    <3>2. CASE Goes(c, Top(t), "fail")
      BY <1>1, <1>2, <3>2, PlainPlaces, GoesNext DEF Looking, Unloads
    <3>3. QED
      BY <1>7, <3>1, <3>2
  <2>2. QED
    BY <1>1, <1>2, <1>4, <1>5, <1>6, <2>1, PlainPlaces, QuietDriverStep DEF CoreInv
<1>8. ASSUME Top(t).queue # <<>>, NEW g \in Frames, NEW k \in Frames, IsTwo(c, g, k),
             g.at = "run", g.f = Top(t).f, g.b = Top(t).b,
             g.todo = Top(t).todo, g.got = Top(t).got, g.queue = Tail(Top(t).queue),
             IsProvide(k, Top(t).f, Head(Top(t).queue))
      PROVE  CoreInv'
  <2>1. /\ Head(Top(t).queue) \in ToSet(Offers[Top(t).f])
        /\ ToSet(g.queue) \subseteq ToSet(Offers[Top(t).f])
    BY <1>2, <1>3, <1>8, QueueParts
  <2>2. CallFacts(k)
    BY <1>1, <1>3, <1>8, <2>1, ProvideFits
  <2>3. /\ "run" \in Owning /\ "run" \notin Registering \cup Releasing \cup Claiming
        /\ "run" \notin EntryCalls \cup LookedUp \cup {"update", "provide"}
        /\ "run" \notin {"register", "refused", "once", "unpin", "check", "probe"}
        /\ "run" \notin Looking /\ "run" \notin Unloads
    BY PlainPlaces, KindsOfCalls DEF Claiming, LookedUp, Looking, Unloads
  <2>4. CallFacts(g)
    BY <1>2, <1>3, <1>8, <2>1, <2>3 DEF CallFacts, ComesBack
  <2>5. /\ Len(c) = 2 /\ c[1] = g /\ c[2] = k /\ k.at = "provide" /\ k.f = Top(t).f
    BY <1>8 DEF IsTwo, IsProvide, IsCall
  <2>6. \A i \in 1..Len(c) : i = 1 \/ i = 2
    BY <2>5
  <2>7. "provide" \notin Owning /\ "provide" \notin Registering \cup Releasing
    BY KindsOfPlaces, KindsOfCalls DEF Providing
  <2>8. Fit(t, c)
    BY <2>2, <2>3, <2>4, <2>5, <2>6, <2>7, <1>8 DEF Fit
  <2>9. BindInv'
    BY <1>1, <1>2, <1>4, <1>6, <2>8, BindQuiet
  <2>10. /\ 1 \in 1..Len(c) /\ c[1].at \in Owning /\ c[1].f = Top(t).f
         /\ \A i \in 1..Len(c) : i > 1 =>
              /\ c[i].at \notin Owning
              /\ c[i].at \in Providing => i = 2 /\ c[1].at = "run" /\ c[i].f = c[1].f
    BY <1>8, <2>3, <2>5, <2>6, <2>7
  <2>11. CallInv'
    BY <1>1, <1>2, <1>4, <1>6, <2>3, <2>10, OwnerGoesOn
  <2>12. QED
    BY <1>5, <2>9, <2>11 DEF CoreInv
<1>9. QED
  BY <1>4, <1>7, <1>8

LEMMA RequestFits ==
    ASSUME TypeOK, NEW k, NEW f, NEW b \in Known, IsCall(k, "request", f, b), f \in loaded,
           made[b].provider = f
    PROVE  CallFacts(k)
<1>1. k.at = "request" /\ k.f = f /\ k.b = b /\ k.todo = {} /\ k.got = {}
  BY DEF IsCall
<1>2. /\ "request" \notin Registering \cup Releasing \cup Claiming
      /\ "request" \notin LookedUp \cup {"update", "provide", "run"}
      /\ "request" \notin {"register", "refused", "once", "unpin", "check", "probe"}
      /\ "request" \notin Looking /\ "request" \notin Unloads
  BY KindsOfCalls DEF Claiming, LookedUp, Looking, Unloads
<1>3. b # Vacant
  BY DEF Known, Vacant
<1>4. QED
  BY <1>1, <1>2, <1>3 DEF CallFacts, ComesBack

LEMMA ClearCore ==
    ASSUME CoreInv, NEW t \in Threads, Clear(t)
    PROVE  CoreInv'
<1> DEFINE f == Top(t).f
           n == Len(entries[f])
<1>1. TypeOK /\ CallInv /\ BindInv
  BY DEF CoreInv
<1>2. stack[t] # <<>> /\ Top(t) \in Frames /\ Top(t).at = "clear" /\ f \in Fibers
  BY <1>1, InCall DEF Clear, IsAt, Frames
<1>3. CallFacts(Top(t)) /\ ComesBack(Top(t)) /\ f \in loaded
  BY <1>1, <1>2, TopFits
<1>4. PICK c : /\ Step(t, c)
               /\ Len(c) = n + 1 /\ n \in Nat
               /\ Moved(c[1], Top(t), "unwind")
               /\ \A i \in 1..n : IsCall(c[i + 1], "request", f, entries[f][i])
  BY <1>1, ClearStep
<1>5. \A i \in 1..n : /\ entries[f][i] \in ToSet(entries[f])
                      /\ entries[f][i] \in Known /\ made[entries[f][i]].provider = f
  <2>1. entries[f] \in Seq(Bindings)
    BY <1>1, <1>2, EntriesTyping
  <2>2. \A i \in 1..n : entries[f][i] \in ToSet(entries[f])
    BY <2>1, LenProperties DEF ToSet
  <2>3. \A b \in ToSet(entries[f]) : b \in Known /\ made[b].provider = f
    BY <1>1, <1>2 DEF BindInv, FiberFacts
  <2>4. QED
    BY <2>2, <2>3
<1>6. <<>> \in Seq(Bindings) /\ IsInjective(<<>>) /\ ToSet(<<>>) = {}
  BY EmptySeq, LenProperties DEF IsInjective, ToSet
<1>7. entries' = [entries EXCEPT ![f] = <<>>]
  BY DEF Clear, Self
<1> HIDE DEF f, n
<1>8. TypeOK'
  <2>1. stack' \in [Threads -> Seq(Frames)]
    BY <1>4 DEF Step, Changes
  <2>2. entries' \in [Fibers -> Seq(Bindings)] /\ \A g \in Fibers : IsInjective(entries'[g])
    BY <1>1, <1>2, <1>6, <1>7 DEF TypeOK
  <2>3. QED
    BY <1>1, <2>1, <2>2 DEF TypeOK, Clear, registry, services, effects, generation,
                            driver, calls
<1>9. OwnerNext(t, c)
  <2>1. /\ "unwind" \in Owning /\ "unwind" \notin Delicate
        /\ "unwind" \notin Registering \cup Releasing
        /\ "request" \notin Owning \cup Providing
        /\ "request" \notin Registering \cup Releasing
        /\ "unwind" \notin Looking /\ "clear" \in Unloads
    BY PlainPlaces, KindsOfCalls
       DEF Owning, Providing, Looking, Loads, Unloads, Started
  <2>2. CallFacts(c[1]) /\ c[1].at = "unwind" /\ c[1].f = Top(t).f
    <3>1. ComesBack(c[1])
      BY <1>2, <1>3, <1>4, <2>1 DEF ComesBack, Moved
    <3>2. QED
      BY <1>3, <1>4, <2>1, <3>1, PlainMove DEF Moved
  <2>3. \A i \in 1..n : CallFacts(c[i + 1]) /\ c[i + 1].at = "request"
    <3> TAKE i \in 1..n
    <3>1. IsCall(c[i + 1], "request", f, entries[f][i])
      BY <1>4
    <3>2. QED
      BY <1>1, <1>3, <1>5, <3>1, RequestFits DEF IsCall
  <2>4. \A i \in 1..Len(c) : i = 1 \/ (i - 1 \in 1..n /\ (i - 1) + 1 = i)
    BY <1>4
  <2>5. \A i \in 1..Len(c) : i > 1 => CallFacts(c[i]) /\ c[i].at = "request"
    BY <2>3, <2>4
  <2>6. 1 \in 1..Len(c) /\ \A i \in 1..Len(c) : i = 1 \/ i > 1
    BY <1>4
  <2>7. QED
    BY <2>1, <2>2, <2>5, <2>6 DEF OwnerNext
<1>10. UNCHANGED <<slot, made, installed, deferred, once, loaded>> /\ busy' = busy
  BY DEF Clear, registry, services, effects, generation, driver, calls
<1>11. \A b \in Bindings : EntryFacts(b)'
  BY <1>1, <1>10, EntriesSame
<1>12. \A g \in Fibers : FiberFacts(g)'
  <2>1. \A g \in Fibers : ToSet(entries'[g]) \subseteq ToSet(entries[g])
    BY <1>1, <1>2, <1>6, <1>7 DEF TypeOK
  <2>2. \A g \in Fibers : \A b \in (epoch'[g] \cup pinned'[g]) \ Inactive : Seen(b)
    BY <1>1, FibersNow DEF Clear, generation
  <2>3. \A g \in Fibers : g \in attached' \/ epoch'[g] # Inactive => g \in loaded'
    BY <1>1, FibersNow DEF Clear, generation, calls
  <2>4. QED
    BY <1>1, <1>10, <2>1, <2>2, <2>3, FibersStep
<1>13. QED
  BY <1>1, <1>2, <1>4, <1>8, <1>9, <1>10, <1>11, <1>12, PlainPlaces, DriverStep DEF CoreInv

----------------------------------------------------------------------------
(* ... those who ask for a transition, and those who tell of services.      *)

\* A goroutine that drives no fiber goes on, and no call is about to make or to
\* release a binding that was not.
LEMMA FitStep ==
    ASSUME TypeOK, CallInv, BindInv, NEW t \in Threads, stack[t] # <<>>,
           NEW c, Step(t, c), Top(t).at \notin Owning, busy' = busy,
           UNCHANGED <<slot, made, installed, once, loaded>>,
           \A b \in Bindings : EntryFacts(b)', \A f \in Fibers : FiberFacts(f)',
           \A i \in 1..Len(c) : c[i].at \notin Owning \cup Providing,
           Fit(t, c)
    PROVE  CallInv' /\ BindInv'
<1>1. CallInv'
  BY NoOwnerGoesOn
<1>2. QED
  BY <1>1, BindStep

LEMMA NothingFits ==
    ASSUME NEW t, NEW c, IsNone(c)
    PROVE  /\ Fit(t, c) /\ CallerNext(c)
           /\ \A i \in 1..Len(c) : FALSE
<1>1. \A i \in 1..Len(c) : FALSE
  BY DEF IsNone
<1>2. QED
  BY <1>1 DEF Fit, CallerNext

LEMMA PlainGoes ==
    ASSUME TypeOK, BindInv, NEW t \in Threads, stack[t] # <<>>, NEW c, NEW at \in PlainCalls,
           Goes(c, Top(t), at)
    PROVE  CallerNext(c)
<1>1. PICK g \in Frames : IsOne(c, g) /\ Moved(g, Top(t), at)
  BY DEF Goes
<1>2. /\ at \notin Owning /\ at \notin Providing /\ at \notin Delicate
      /\ at \notin Registering \cup Releasing
      /\ at \notin Looking \cup Unloads
  BY PlainPlaces
<1>3. CallFacts(g)
  <2>1. ComesBack(g)
    BY <1>1, <1>2 DEF ComesBack, Moved
  <2>2. CallFacts(Top(t))
    BY TopFits
  <2>3. QED
    BY <1>1, <1>2, <2>1, <2>2, PlainMove DEF Moved
<1>4. Len(c) = 1 /\ c[1] = g /\ g.at = at
  BY <1>1 DEF IsOne, Moved
<1>5. QED
  BY <1>2, <1>3, <1>4 DEF CallerNext

LEMMA OwningPlaces ==
    {"force", "remove", "begin", "names", "notify", "update", "provide", "register",
     "refused", "pin", "tell", "install", "unlist", "request", "once", "unregister",
     "unpin"} \cap Owning = {}
  BY DEF Owning, Looking, Loads, Unloads, Started

LEMMA ForceReloadCore ==
    ASSUME CoreInv, NEW t \in Threads, ForceReload(t)
    PROVE  CoreInv'
<1>1. TypeOK /\ CallInv /\ BindInv
  BY DEF CoreInv
<1>2. stack[t] # <<>> /\ Top(t) \in Frames /\ Top(t).at = "force" /\ Top(t).f \in Fibers
  BY <1>1, InCall DEF ForceReload, IsAt, Frames
<1>3. PICK c : Step(t, c) /\ Goes(c, Top(t), "begin")
  BY <1>1, ForceReloadStep
<1>4. TypeOK'
  <2>1. stack' \in [Threads -> Seq(Frames)]
    BY <1>3 DEF Step, Changes
  <2>2. forceReload' \in [Fibers -> BOOLEAN]
    BY <1>1, <1>2 DEF TypeOK, ForceReload, Self
  <2>3. QED
    BY <1>1, <2>1, <2>2 DEF TypeOK, ForceReload, registry, services, effects, generation,
                            driver, calls
<1>5. CallerNext(c)
  BY <1>1, <1>2, <1>3, PlainGoes DEF PlainCalls
<1>6. UNCHANGED BindVars /\ busy' = busy
  BY DEF ForceReload, BindVars, registry, services, effects, generation, driver, calls
<1>7. QED
  BY <1>1, <1>2, <1>3, <1>4, <1>5, <1>6, OwningPlaces, FactsSame, CallerStep DEF CoreInv

LEMMA RemoveFiberCore ==
    ASSUME CoreInv, NEW t \in Threads, RemoveFiber(t)
    PROVE  CoreInv'
<1>1. TypeOK /\ CallInv /\ BindInv
  BY DEF CoreInv
<1>2. stack[t] # <<>> /\ Top(t) \in Frames /\ Top(t).at = "remove" /\ Top(t).f \in Fibers
  BY <1>1, InCall DEF RemoveFiber, IsAt, Frames
<1>3. PICK c : Step(t, c) /\ Goes(c, Top(t), "begin")
  BY <1>1, RemoveFiberStep
<1>4. TypeOK'
  <2>1. stack' \in [Threads -> Seq(Frames)]
    BY <1>3 DEF Step, Changes
  <2>2. QED
    BY <1>1, <2>1 DEF TypeOK, RemoveFiber, registry, services, effects, generation,
                      driver, calls
<1>5. CallerNext(c)
  BY <1>1, <1>2, <1>3, PlainGoes DEF PlainCalls
<1>6. /\ UNCHANGED <<slot, made, installed, deferred, once, loaded>> /\ busy' = busy
      /\ UNCHANGED <<entries, epoch, pinned>> /\ attached' \subseteq attached
  BY DEF RemoveFiber, registry, services, effects, generation, driver, calls
<1>7. \A b \in Bindings : EntryFacts(b)'
  BY <1>1, <1>6, EntriesSame
<1>8. \A f \in Fibers : FiberFacts(f)'
  <2>1. \A f \in Fibers : f \in attached' \/ epoch'[f] # Inactive => f \in loaded'
    BY <1>1, <1>6, FibersNow
  <2>2. \A f \in Fibers : \A b \in (epoch'[f] \cup pinned'[f]) \ Inactive : Seen(b)
    BY <1>1, <1>6, FibersNow
  <2>3. QED
    BY <1>1, <1>6, <2>1, <2>2, FibersStep
<1>9. QED
  BY <1>1, <1>2, <1>3, <1>4, <1>5, <1>6, <1>7, <1>8, OwningPlaces, CallerStep DEF CoreInv

LEMMA BeginTransitionCore ==
    ASSUME CoreInv, NEW t \in Threads, BeginTransition(t)
    PROVE  CoreInv'
<1> DEFINE f == Top(t).f
<1>1. TypeOK /\ CallInv /\ BindInv
  BY DEF CoreInv
<1>2. stack[t] # <<>> /\ Top(t) \in Frames /\ Top(t).at = "begin" /\ f \in Fibers
  BY <1>1, InCall DEF BeginTransition, IsAt, Frames
<1>3. PICK c : /\ Step(t, c)
               /\ \/ busy[f] /\ IsNone(c)
                  \/ ~busy[f] /\ Goes(c, Top(t), "pass")
  BY <1>1, BeginTransitionStep
<1>4. TypeOK'
  <2>1. stack' \in [Threads -> Seq(Frames)]
    BY <1>3 DEF Step, Changes
  <2>2. busy' \in [Fibers -> BOOLEAN] /\ dirty' \in [Fibers -> BOOLEAN]
    BY <1>1, <1>2 DEF TypeOK, BeginTransition, Self
  <2>3. QED
    BY <1>1, <2>1, <2>2 DEF TypeOK, BeginTransition, registry, services, effects,
                            generation, driver, calls
<1>5. UNCHANGED BindVars
  BY DEF BeginTransition, BindVars, registry, services, effects, generation, driver, calls
<1>6. CASE busy[f]
  <2>1. busy' = busy /\ IsNone(c)
    BY <1>3, <1>6 DEF BeginTransition, Self
  <2>2. QED
    BY <1>1, <1>2, <1>3, <1>4, <1>5, <2>1, NothingFits, OwningPlaces, FactsSame, CallerStep
       DEF CoreInv
<1>7. CASE ~busy[f]
  <2>1. /\ busy' = [busy EXCEPT ![f] = TRUE] /\ Goes(c, Top(t), "pass")
    BY <1>3, <1>7 DEF BeginTransition, Self
  <2>2. PICK g \in Frames : IsOne(c, g) /\ Moved(g, Top(t), "pass")
    BY <2>1 DEF Goes
  <2>3. /\ "pass" \in Owning /\ "pass" \notin Delicate
        /\ "pass" \notin Registering \cup Releasing
        /\ "pass" \notin Looking \cup Unloads
    BY PlainPlaces DEF Looking, Unloads
  <2>4. CallInv'
    <3>1. g.at \in Owning /\ g.f = Top(t).f /\ Top(t).at \notin Owning
      BY <1>2, <2>2, <2>3, OwningPlaces DEF Moved
    <3>2. QED
      BY <1>1, <1>2, <1>3, <1>7, <2>1, <2>2, <3>1, OwnerBegins
  <2>5. Fit(t, c)
    <3>1. ComesBack(g)
      BY <2>2, <2>3 DEF ComesBack, Moved
    <3>2. CallFacts(g)
      BY <1>1, <1>2, <2>2, <2>3, <3>1, TopFits, PlainMove DEF Moved
    <3>3. Len(c) = 1 /\ c[1] = g /\ g.at = "pass"
      BY <2>2 DEF IsOne, Moved
    <3>4. QED
      BY <2>3, <3>2, <3>3 DEF Fit
  <2>6. QED
    BY <1>1, <1>2, <1>3, <1>4, <1>5, <2>4, <2>5, BindQuiet DEF CoreInv
<1>8. QED
  BY <1>6, <1>7

LEMMA EndPassCore ==
    ASSUME CoreInv, NEW t \in Threads, EndPass(t)
    PROVE  CoreInv'
<1> DEFINE f == Top(t).f
<1>1. TypeOK /\ CallInv /\ BindInv
  BY DEF CoreInv
<1>2. /\ stack[t] # <<>> /\ Top(t) \in Frames /\ Top(t).at = "end" /\ f \in Fibers
      /\ Top(t).at \in Owning
  BY <1>1, InCall, PlainPlaces DEF EndPass, IsAt, Frames
<1>3. PICK c : /\ Step(t, c)
               /\ \/ dirty[f] /\ Opens(c, "pass", f)
                  \/ ~dirty[f] /\ IsNone(c)
  BY <1>1, EndPassStep
<1>4. TypeOK'
  <2>1. stack' \in [Threads -> Seq(Frames)]
    BY <1>3 DEF Step, Changes
  <2>2. busy' \in [Fibers -> BOOLEAN]
    BY <1>1, <1>2 DEF TypeOK, EndPass, Self
  <2>3. QED
    BY <1>1, <2>1, <2>2 DEF TypeOK, EndPass, registry, services, effects,
                            generation, driver, calls
<1>5. UNCHANGED BindVars
  BY DEF EndPass, BindVars, registry, services, effects, generation, driver, calls
<1>6. CASE dirty[f]
  <2>1. busy' = busy /\ Opens(c, "pass", f)
    BY <1>3, <1>6 DEF EndPass, Self
  <2>2. OwnerNext(t, c)
    BY <1>1, <1>2, <2>1, PlainPlaces, OpensNext
  <2>3. QED
    BY <1>1, <1>2, <1>3, <1>4, <1>5, <2>1, <2>2, QuietDriverStep DEF CoreInv
<1>7. CASE ~dirty[f]
  <2>1. busy' = [busy EXCEPT ![f] = FALSE] /\ IsNone(c)
    BY <1>3, <1>7 DEF EndPass, Self
  <2>2. CallInv'
    BY <1>1, <1>2, <1>3, <2>1, OwnerEnds
  <2>3. BindInv'
    BY <1>1, <1>2, <1>3, <1>5, <2>1, NothingFits, BindQuiet
  <2>4. QED
    BY <1>4, <2>2, <2>3 DEF CoreInv
<1>8. QED
  BY <1>6, <1>7

LEMMA NotifyCore ==
    ASSUME CoreInv, NEW t \in Threads, Notify(t)
    PROVE  CoreInv'
<1>1. TypeOK /\ CallInv /\ BindInv
  BY DEF CoreInv
<1>2. stack[t] # <<>> /\ Top(t) \in Frames /\ Top(t).at = "notify"
  BY <1>1, InCall DEF Notify, IsAt
<1>3. PICK c : /\ Step(t, c)
               /\ \A i \in 1..Len(c) : \E f \in Injecting(Top(t).name, Top(t).label) :
                     IsCall(c[i], "begin", f, Vacant)
  BY <1>1, NotifyStep
<1>4. TypeOK'
  <2>1. stack' \in [Threads -> Seq(Frames)]
    BY <1>3 DEF Step, Changes
  <2>2. QED
    BY <1>1, <2>1 DEF TypeOK, Notify, registry, services, effects, generation,
                      driver, calls
<1>5. CallerNext(c)
  <2>1. \A i \in 1..Len(c) : /\ CallFacts(c[i])
                             /\ c[i].at \notin Registering \cup Releasing
                             /\ c[i].at \notin Owning \cup Providing
    <3> TAKE i \in 1..Len(c)
    <3>1. PICK f \in Injecting(Top(t).name, Top(t).label) : IsCall(c[i], "begin", f, Vacant)
      BY <1>3
    <3>2. f \in loaded
      BY <1>1, <3>1, FibersNow DEF Injecting, TypeOK
    <3>3. "begin" \in PlainCalls
      BY DEF PlainCalls
    <3>4. QED
      BY <3>1, <3>2, <3>3, PlainCallFits
  <2>2. QED
    BY <2>1 DEF CallerNext
<1>6. UNCHANGED BindVars /\ busy' = busy
  BY DEF Notify, BindVars, registry, services, effects, generation, driver, calls
<1>7. QED
  BY <1>1, <1>2, <1>3, <1>4, <1>5, <1>6, OwningPlaces, FactsSame, CallerStep DEF CoreInv

LEMMA NotifyProvidedCore ==
    ASSUME CoreInv, NEW t \in Threads, NotifyProvided(t)
    PROVE  CoreInv'
<1>1. TypeOK /\ CallInv /\ BindInv /\ SlotsFit
  BY DEF CoreInv, BindInv
<1>2. stack[t] # <<>> /\ Top(t) \in Frames /\ Top(t).at = "names"
  BY <1>1, InCall DEF NotifyProvided, IsAt
<1>3. PICK c : /\ Step(t, c)
               /\ \A i \in 1..Len(c) : \E n \in Provided(Top(t).f) :
                     IsNotification(c[i], Top(t).f, n, Scope[Top(t).f][n])
  BY <1>1, NotifyProvidedStep
<1>4. TypeOK'
  <2>1. stack' \in [Threads -> Seq(Frames)]
    BY <1>3 DEF Step, Changes
  <2>2. QED
    BY <1>1, <2>1 DEF TypeOK, NotifyProvided, registry, services, effects, generation,
                      driver, calls
<1>5. CallerNext(c)
  <2>1. \A i \in 1..Len(c) : /\ CallFacts(c[i])
                             /\ c[i].at \notin Registering \cup Releasing
                             /\ c[i].at \notin Owning \cup Providing
    <3> TAKE i \in 1..Len(c)
    <3>1. IsCall(c[i], "notify", Top(t).f, Vacant)
      BY <1>3 DEF IsNotification
    <3>2. Top(t).f \in loaded
      BY <1>1, <1>2, TopFits
    <3>3. "notify" \in PlainCalls
      BY DEF PlainCalls
    <3>4. QED
      BY <3>1, <3>2, <3>3, PlainCallFits
  <2>2. QED
    BY <2>1 DEF CallerNext
<1>6. UNCHANGED BindVars /\ busy' = busy
  BY DEF NotifyProvided, BindVars, registry, services, effects, generation, driver, calls
<1>7. QED
  BY <1>1, <1>2, <1>3, <1>4, <1>5, <1>6, OwningPlaces, FactsSame, CallerStep DEF CoreInv

LEMMA NotifiesNext ==
    ASSUME TypeOK, NEW c, NEW f, NEW n, NEW l, Notifies(c, f, n, l), f \in loaded
    PROVE  CallerNext(c)
<1>1. PICK g \in Frames : IsOne(c, g) /\ IsCall(g, "notify", f, Vacant)
  BY DEF Notifies, IsNotification
<1>2. Len(c) = 1 /\ c[1] = g /\ "notify" \in PlainCalls
  BY <1>1 DEF IsOne, PlainCalls
<1>3. /\ CallFacts(g) /\ g.at \notin Registering \cup Releasing
      /\ g.at \notin Owning \cup Providing
  BY <1>1, <1>2, PlainCallFits
<1>4. \A i \in 1..Len(c) : c[i] = g
  BY <1>2
<1>5. QED
  BY <1>3, <1>4 DEF CallerNext

LEMMA UpdateCore ==
    ASSUME CoreInv, NEW t \in Threads, Update(t)
    PROVE  CoreInv'
<1>1. TypeOK /\ CallInv /\ BindInv
  BY DEF CoreInv
<1>2. stack[t] # <<>> /\ Top(t) \in Frames /\ Top(t).at = "update"
  BY <1>1, InCall DEF Update, IsAt
<1>3. Top(t).b \in Known /\ Top(t).f \in loaded /\ Top(t).b \in Bindings
  <2>1. CallFacts(Top(t))
    BY <1>1, <1>2, TopFits
  <2>2. QED
    BY <1>2, <2>1 DEF CallFacts, Frames
<1>4. PICK c : /\ Step(t, c)
               /\ \/ Notifies(c, Top(t).f, made[Top(t).b].name, made[Top(t).b].label)
                  \/ IsNone(c)
  BY <1>1, <1>3, UpdateStep
<1>5. TypeOK'
  <2>1. stack' \in [Threads -> Seq(Frames)]
    BY <1>4 DEF Step, Changes
  <2>2. changed' \subseteq Bindings
    BY <1>1, <1>3 DEF TypeOK, Update
  <2>3. QED
    BY <1>1, <2>1, <2>2 DEF TypeOK, Update, registry, services, effects, generation,
                            driver, calls
<1>6. CallerNext(c)
  BY <1>1, <1>3, <1>4, NotifiesNext, NothingFits
<1>7. UNCHANGED BindVars /\ busy' = busy
  BY DEF Update, BindVars, registry, services, effects, generation, driver, calls
<1>8. QED
  BY <1>1, <1>2, <1>4, <1>5, <1>6, <1>7, OwningPlaces, FactsSame, CallerStep DEF CoreInv

----------------------------------------------------------------------------
(* ... the calls from outside, and what happens on no stack.                *)

\* What a call knows is kept as more is known of the bindings.
LEMMA CallFactsKept ==
    ASSUME NEW g, CallFacts(g), loaded \subseteq loaded', Known \subseteq Known',
           \A b \in Known : made'[b] = made[b],
           \A b \in Known : Seen(b) => Seen(b)',
           installed \subseteq installed',
           g.at \in Registering /\ g.b \notin installed => g.b \notin installed',
           g.at \in {"register", "refused", "unpin"} /\ ~InSlot(g.b) => ~InSlot(g.b)',
           g.at \in Claiming /\ InSlot(g.b) => InSlot(g.b)',
           g.at \in Releasing /\ once[g.b] = "running" => once'[g.b] = "running"
    PROVE  CallFacts(g)'
<1>1. /\ ComesBack(g)'
      /\ g.f \in loaded'
  BY DEF CallFacts, ComesBack, Looking, Unloads
<1>2. \A b : Seen(b) => b \in Known /\ Seen(b)'
  BY DEF Seen
<1>3. g.at \in EntryCalls \cup LookedUp \cup {"update"} => g.b \in Known
  BY DEF CallFacts
<1>4. /\ Registering \subseteq EntryCalls /\ Claiming \subseteq Registering
      /\ Releasing \subseteq EntryCalls /\ "once" \in EntryCalls
      /\ {"register", "refused"} \subseteq Registering /\ "unpin" \in Releasing
  BY KindsOfCalls DEF Claiming
<1> HIDE DEF EntryCalls, Registering, Releasing, LookedUp, Claiming
<1>5. \A b \in g.got \cup g.todo : Seen(b)'
  BY <1>2 DEF CallFacts
<1>6. /\ g.at \in EntryCalls => made'[g.b].provider = g.f
      /\ g.at \in Registering => g.b \notin installed' /\ made'[g.b].name = g.name
  BY <1>3, <1>4 DEF CallFacts
<1>7. /\ g.at \in {"register", "refused", "unpin"} => ~InSlot(g.b)'
      /\ g.at \in Claiming => InSlot(g.b)'
      /\ g.at \in Releasing => once'[g.b] = "running"
      /\ g.at \in LookedUp => Seen(g.b)'
      /\ g.at \in Releasing \cup {"once"} => g.b \in installed'
  BY <1>2, <1>4 DEF CallFacts
<1>8. /\ g.b # Vacant => g.b \in Known'
      /\ g.at \in EntryCalls \cup LookedUp \cup {"update"} => g.b # Vacant
      /\ g.at = "provide" => g.name \in ToSet(Offers[g.f])
      /\ g.at = "run" => ToSet(g.queue) \subseteq ToSet(Offers[g.f])
      /\ g.at \in {"check", "probe"} => g.queue # <<>>
  BY DEF CallFacts
<1>9. QED
  BY <1>1, <1>5, <1>6, <1>7, <1>8, KindsOfCalls DEF CallFacts

LEMMA PlainStarts ==
    ASSUME NEW c, NEW at \in PlainCalls, NEW f, f \in loaded, StartsAt(c, at, f, Vacant)
    PROVE  \A i \in 1..Len(c) : /\ CallFacts(c[i])
                                /\ c[i].at \notin Registering \cup Releasing
                                /\ c[i].at \notin Owning \cup Providing
<1>1. PICK g \in Frames : IsOne(c, g) /\ IsCall(g, at, f, Vacant)
  BY DEF StartsAt
<1>2. /\ CallFacts(g) /\ g.at \notin Registering \cup Releasing
      /\ g.at \notin Owning \cup Providing
  BY <1>1, PlainCallFits
<1>3. \A i \in 1..Len(c) : c[i] = g
  BY <1>1 DEF IsOne
<1>4. QED
  BY <1>2, <1>3

LEMMA LoadCore ==
    ASSUME CoreInv, NEW t \in Threads, NEW f \in Fibers, Load(t, f)
    PROVE  CoreInv'
<1>1. TypeOK /\ CallInv /\ BindInv
  BY DEF CoreInv
<1>2. PICK c : Starts(t, c) /\ StartsAt(c, "begin", f, Vacant)
  BY <1>1, LoadStep
<1>3. TypeOK'
  <2>1. stack' \in [Threads -> Seq(Frames)]
    BY <1>2 DEF Starts, Changes
  <2>2. QED
    BY <1>1, <2>1 DEF TypeOK, Load, registry, services, effects, generation, driver
<1>4. /\ UNCHANGED <<slot, made, entries, installed, deferred, once, epoch, pinned>>
      /\ busy' = busy
      /\ loaded' = loaded \cup {f} /\ attached' = attached \cup {f}
  BY DEF Load, registry, services, effects, generation, driver
<1>5. Known' = Known /\ (\A b : InSlot(b)' <=> InSlot(b)) /\ \A b : Seen(b)' <=> Seen(b)
  BY <1>4 DEF Known, InSlot, Seen
<1>6. PICK g \in Frames : IsOne(c, g) /\ IsCall(g, "begin", f, Vacant)
  BY <1>2 DEF StartsAt
<1>7. g.at = "begin" /\ \A i \in 1..Len(c) : c[i] = g
  BY <1>6 DEF IsOne, IsCall
<1>8. "begin" \notin Owning \cup Providing /\ "begin" \notin Registering \cup Releasing
  BY PlainPlaces DEF PlainCalls
<1>9. CallInv'
  BY <1>1, <1>2, <1>4, <1>7, <1>8, NoOwnerStarts
<1>10. CallFacts(g)'
  <2>1. /\ "begin" \notin EntryCalls \cup LookedUp \cup {"update", "provide", "run"}
        /\ "begin" \notin Registering \cup Releasing \cup Claiming
        /\ "begin" \notin {"register", "refused", "once", "unpin", "check", "probe"}
        /\ "begin" \notin Looking /\ "begin" \notin Unloads
    BY KindsOfCalls DEF Claiming, LookedUp, Looking, Unloads
  <2>2. g.f \in loaded' /\ g.b = Vacant /\ g.got = {} /\ g.todo = {}
    BY <1>4, <1>6 DEF IsCall
  <2>3. ComesBack(g)'
    BY <1>7, <2>1 DEF ComesBack, Looking, Unloads
  <2>4. QED
    BY <1>7, <2>1, <2>2, <2>3, KindsOfCalls DEF CallFacts
<1>11. \A h \in Calls : CallFacts(h)'
  <2> TAKE h \in Calls
  <2>1. CallFacts(h)
    BY <1>1 DEF BindInv
  <2>2. QED
    BY <1>4, <1>5, <2>1, CallFactsKept
<1>12. \A b \in Bindings : EntryFacts(b)'
  BY <1>1, <1>4, EntriesSame
<1>13. \A h \in Fibers : FiberFacts(h)'
  <2>1. \A h \in Fibers : h \in attached' \/ epoch'[h] # Inactive => h \in loaded'
    BY <1>1, <1>4, FibersNow
  <2>2. \A h \in Fibers : \A b \in (epoch'[h] \cup pinned'[h]) \ Inactive : Seen(b)
    BY <1>1, <1>4, FibersNow
  <2>3. QED
    BY <1>1, <1>4, <2>1, <2>2, FibersStep
<1>14. \A i \in 1..Len(c) : CallFacts(c[i])'
  BY <1>7, <1>10
<1>15. \A i \in 1..Len(c) : c[i].at \notin Registering \cup Releasing
  BY <1>7, <1>8
<1>16. BindInv'
  BY <1>1, <1>2, <1>4, <1>11, <1>12, <1>13, <1>14, <1>15, BindStarts
<1>17. QED
  BY <1>3, <1>9, <1>16 DEF CoreInv

\* A call from outside that changes nothing the calls rest on.
LEMMA StartStep ==
    ASSUME TypeOK, CallInv, BindInv, NEW t \in Threads, NEW c, Starts(t, c),
           UNCHANGED BindVars, busy' = busy,
           \A i \in 1..Len(c) : CallFacts(c[i]),
           \A i \in 1..Len(c) : c[i].at \notin Registering \cup Releasing,
           \A i \in 1..Len(c) : c[i].at \notin Owning,
           \A i \in 1..Len(c) : c[i].at \in Providing => i = 1
    PROVE  CallInv' /\ BindInv'
<1>1. CallInv'
  BY NoOwnerStarts
<1>2. BindInv'
  BY BindStartsQuietly
<1>3. QED
  BY <1>1, <1>2

LEMMA RestartCore ==
    ASSUME CoreInv, NEW t \in Threads, NEW f \in Fibers, Restart(t, f)
    PROVE  CoreInv'
<1>1. TypeOK /\ CallInv /\ BindInv
  BY DEF CoreInv
<1>2. PICK c : Starts(t, c) /\ StartsAt(c, "force", f, Vacant)
  BY <1>1, RestartStep
<1>3. TypeOK'
  <2>1. stack' \in [Threads -> Seq(Frames)]
    BY <1>2 DEF Starts, Changes
  <2>2. QED
    BY <1>1, <2>1, GraphAssumption DEF TypeOK, Restart, Asked, registry, services,
                                       effects, generation, driver
<1>4. UNCHANGED BindVars /\ busy' = busy /\ f \in loaded
  BY DEF Restart, BindVars, registry, services, effects, generation, driver
<1>5. \A i \in 1..Len(c) : /\ CallFacts(c[i])
                           /\ c[i].at \notin Registering \cup Releasing
                           /\ c[i].at \notin Owning \cup Providing
  BY <1>2, <1>4, PlainStarts DEF PlainCalls
<1>6. QED
  BY <1>1, <1>2, <1>3, <1>4, <1>5, StartStep DEF CoreInv

LEMMA DisposeCore ==
    ASSUME CoreInv, NEW t \in Threads, NEW f \in Fibers, Dispose(t, f)
    PROVE  CoreInv'
<1>1. TypeOK /\ CallInv /\ BindInv
  BY DEF CoreInv
<1>2. PICK c : Starts(t, c) /\ StartsAt(c, "remove", f, Vacant)
  BY <1>1, DisposeStep
<1>3. TypeOK'
  <2>1. stack' \in [Threads -> Seq(Frames)]
    BY <1>2 DEF Starts, Changes
  <2>2. disposed' \in [Fibers -> BOOLEAN] /\ dirty' \in [Fibers -> BOOLEAN]
    BY <1>1 DEF TypeOK, Dispose
  <2>3. QED
    BY <1>1, <2>1, <2>2, GraphAssumption DEF TypeOK, Dispose, Asked, registry,
                                             services, effects, generation, driver
<1>4. UNCHANGED BindVars /\ busy' = busy /\ f \in loaded
  BY DEF Dispose, BindVars, registry, services, effects, generation, driver
<1>5. \A i \in 1..Len(c) : /\ CallFacts(c[i])
                           /\ c[i].at \notin Registering \cup Releasing
                           /\ c[i].at \notin Owning \cup Providing
  BY <1>2, <1>4, PlainStarts DEF PlainCalls
<1>6. QED
  BY <1>1, <1>2, <1>3, <1>4, <1>5, StartStep DEF CoreInv

LEMMA ProvideAgainCore ==
    ASSUME CoreInv, NEW t \in Threads, NEW f \in Fibers, NEW n \in Names,
           ProvideAgain(t, f, n)
    PROVE  CoreInv'
<1>1. TypeOK /\ CallInv /\ BindInv
  BY DEF CoreInv
<1>2. PICK c : Starts(t, c) /\ \E g \in Frames : IsOne(c, g) /\ IsProvide(g, f, n)
  BY <1>1, ProvideAgainStep
<1>3. TypeOK'
  <2>1. stack' \in [Threads -> Seq(Frames)]
    BY <1>2 DEF Starts, Changes
  <2>2. QED
    BY <1>1, <2>1, GraphAssumption DEF TypeOK, ProvideAgain, Asked, registry,
                                       services, effects, generation, driver
<1>4. UNCHANGED BindVars /\ busy' = busy /\ f \in loaded /\ n \in ToSet(Offers[f])
  BY DEF ProvideAgain, Asked, BindVars, registry, services, effects, generation, driver
<1>5. PICK g \in Frames : IsOne(c, g) /\ IsProvide(g, f, n)
  BY <1>2
<1>6. CallFacts(g) /\ g.at = "provide" /\ Len(c) = 1 /\ c[1] = g
  BY <1>1, <1>4, <1>5, ProvideFits DEF IsProvide, IsCall, IsOne
<1>7. "provide" \notin Owning /\ "provide" \notin Registering \cup Releasing
  BY OwningPlaces, KindsOfCalls
<1>8. \A i \in 1..Len(c) : i = 1 /\ c[i] = g
  BY <1>6
<1>9. QED
  BY <1>1, <1>2, <1>3, <1>4, <1>6, <1>7, <1>8, StartStep DEF CoreInv

LEMMA SetCore ==
    ASSUME CoreInv, NEW t \in Threads, NEW f \in Fibers, NEW n \in Names, Set(t, f, n)
    PROVE  CoreInv'
<1> DEFINE b == slot[Place[f][n]]
<1>1. TypeOK /\ CallInv /\ BindInv
  BY DEF CoreInv
<1>2. PICK c : Starts(t, c) /\ StartsAt(c, "update", f, b) /\ b # Vacant
  BY <1>1, SetStep
<1>3. TypeOK'
  <2>1. stack' \in [Threads -> Seq(Frames)]
    BY <1>2 DEF Starts, Changes
  <2>2. Asked /\ UNCHANGED <<registry, effects, attached, generation, driver, loaded>>
    BY DEF Set
  <2>3. QED
    BY <1>1, <2>1, <2>2, GraphAssumption DEF TypeOK, Asked, registry, services,
                                             effects, generation, driver
<1>4. UNCHANGED BindVars /\ busy' = busy /\ f \in loaded
  BY DEF Set, Asked, BindVars, registry, services, effects, generation, driver
<1>5. b \in Known
  <2>1. Place[f][n] \in Labels
    BY GraphAssumption
  <2>2. QED
    BY <1>1, <1>2, <2>1 DEF BindInv, SlotsFit
<1> HIDE DEF b
<1>6. PICK g \in Frames : IsOne(c, g) /\ IsCall(g, "update", f, b)
  BY <1>2 DEF StartsAt
<1>7. /\ "update" \notin Owning \cup Providing
      /\ "update" \notin Registering \cup Releasing \cup Claiming
      /\ "update" \notin EntryCalls \cup LookedUp \cup {"provide", "run"}
      /\ "update" \notin {"register", "refused", "once", "unpin", "check", "probe"}
      /\ "update" \notin Looking /\ "update" \notin Unloads
  BY OwningPlaces, KindsOfCalls DEF Providing, Claiming, LookedUp, Looking, Unloads
<1>8. /\ g.at = "update" /\ g.f = f /\ g.b = b /\ g.got = {} /\ g.todo = {}
      /\ \A i \in 1..Len(c) : c[i] = g
  BY <1>6 DEF IsOne, IsCall
<1>9. CallFacts(g)
  BY <1>2, <1>4, <1>5, <1>7, <1>8 DEF CallFacts, ComesBack
<1>10. QED
  BY <1>1, <1>2, <1>3, <1>4, <1>7, <1>8, <1>9, StartStep DEF CoreInv

LEMMA WithdrawCore ==
    ASSUME CoreInv, NEW t \in Threads, NEW b \in Bindings, Withdraw(t, b)
    PROVE  CoreInv'
<1> DEFINE f == made[b].provider
<1>1. TypeOK /\ CallInv /\ BindInv
  BY DEF CoreInv
<1>2. b \in Known /\ b # Vacant /\ f \in Fibers
  <2>1. b \in Known
    BY <1>1 DEF Withdraw, BindInv, EntryFacts
  <2>2. QED
    BY <1>1, <2>1, MadeTyping DEF Known, Vacant
<1>3. PICK c : /\ Starts(t, c)
               /\ \E g, h \in Frames :
                    /\ IsTwo(c, g, h)
                    /\ IsCall(g, "unlist", f, b)
                    /\ IsCall(h, "request", f, b)
  BY <1>1, <1>2, WithdrawStep
<1>4. TypeOK'
  <2>1. stack' \in [Threads -> Seq(Frames)]
    BY <1>3 DEF Starts, Changes
  <2>2. Asked /\ UNCHANGED <<registry, effects, attached, generation, driver, loaded>>
    BY DEF Withdraw
  <2>3. QED
    BY <1>1, <2>1, <2>2, GraphAssumption DEF TypeOK, Asked, registry, services,
                                             effects, generation, driver
<1>5. UNCHANGED BindVars /\ busy' = busy /\ f \in loaded
  BY <1>2 DEF Withdraw, Asked, BindVars, registry, services, effects, generation, driver
<1>6. PICK g \in Frames, h \in Frames :
           IsTwo(c, g, h) /\ IsCall(g, "unlist", f, b) /\ IsCall(h, "request", f, b)
  BY <1>3
<1>7. CallFacts(h)
  BY <1>1, <1>2, <1>5, <1>6, RequestFits
<1>8. /\ "unlist" \notin Owning \cup Providing
      /\ "unlist" \notin Registering \cup Releasing \cup Claiming
      /\ "unlist" \notin LookedUp \cup {"update", "provide", "run"}
      /\ "unlist" \notin {"register", "refused", "once", "unpin", "check", "probe"}
      /\ "unlist" \notin Looking /\ "unlist" \notin Unloads
      /\ "request" \notin Owning \cup Providing
      /\ "request" \notin Registering \cup Releasing
  BY OwningPlaces, KindsOfCalls DEF Providing, Claiming, LookedUp, Looking, Unloads
<1>9. g.at = "unlist" /\ g.f = f /\ g.b = b /\ g.got = {} /\ g.todo = {} /\ h.at = "request"
  BY <1>6 DEF IsCall
<1>10. CallFacts(g)
  BY <1>2, <1>5, <1>8, <1>9 DEF CallFacts, ComesBack
<1>11. \A i \in 1..Len(c) : c[i] = g \/ c[i] = h
  BY <1>6 DEF IsTwo
<1>12. QED
  BY <1>1, <1>3, <1>4, <1>5, <1>7, <1>8, <1>9, <1>10, <1>11, StartStep DEF CoreInv

\* Nothing that the calls rest on changes.
LEMMA CoreSame ==
    ASSUME CoreInv, TypeOK', UNCHANGED <<BindVars, busy, stack>>
    PROVE  CoreInv'
<1>1. UNCHANGED <<slot, made, installed, once, loaded>> /\ UNCHANGED BindVars
      /\ stack' = stack /\ busy' = busy /\ CallInv /\ BindInv
  BY DEF BindVars, CoreInv
<1>2. Calls' = Calls
  BY <1>1 DEF Calls
<1>3. \A g \in Calls' : CallFacts(g)'
  BY <1>1, <1>2, BindSame DEF BindInv
<1>4. SlotsFit' /\ MadeFit'
  BY <1>1, BindSame DEF BindInv
<1>5. OneCall(Registering)' /\ OneCall(Releasing)'
  BY <1>1, KindsOfCalls DEF BindInv, OneCall
<1>6. BindInv'
  BY <1>1, <1>3, <1>4, <1>5, FactsSame DEF BindInv
<1>7. CallInv'
  <2>1. Owning' = Owning /\ Providing' = Providing
    BY KindsOfPlaces DEF Providing
  <2> HIDE DEF Owning, Providing
  <2>2. OneOwner' /\ Nested'
    BY <1>1, <2>1 DEF CallInv, OneOwner, Nested
  <2>3. \A f \in Fibers : Has(Owning, f)' <=> Has(Owning, f)
    BY <1>2, <2>1 DEF Has
  <2>4. BusyOwned'
    BY <1>1, <2>1, <2>3 DEF CallInv, BusyOwned
  <2>5. QED
    BY <2>2, <2>4 DEF CallInv
<1>8. QED
  BY <1>6, <1>7 DEF CoreInv

LEMMA WaverCore ==
    ASSUME CoreInv, NEW b \in Bindings, Waver(b)
    PROVE  CoreInv'
<1>1. TypeOK'
  BY GraphAssumption DEF CoreInv, TypeOK, Waver, Asked, effects, generation, driver,
                         SymDiff
<1>2. UNCHANGED <<BindVars, busy, stack>>
  BY DEF Waver, BindVars, effects, generation, driver
<1>3. QED
  BY <1>1, <1>2, CoreSame

LEMMA SameCore ==
    ASSUME CoreInv, UNCHANGED vars
    PROVE  CoreInv'
<1>1. TypeOK'
  BY DEF CoreInv, TypeOK, vars, registry, services, effects, generation, driver, calls
<1>2. UNCHANGED <<BindVars, busy, stack>>
  BY DEF vars, BindVars, registry, services, effects, generation, driver, calls
<1>3. QED
  BY <1>1, <1>2, CoreSame
=============================================================================
