-------------------------- MODULE WaterfallProofs --------------------------
(***************************************************************************)
(* Proofs about Waterfall, for every set of goroutines, every length of    *)
(* the chain, all values and every bound on calls of next.                 *)
(*                                                                         *)
(* The three promises follow from what the stacks can look like: a step    *)
(* that has started and not finished is in exactly one frame that runs it, *)
(* and the frames of a goroutine walk down the chain, so that the frame    *)
(* above a failed listener is the step after it.                           *)
(***************************************************************************)
EXTENDS Waterfall, SequenceTheorems, TLAPS

----------------------------------------------------------------------------
(* Sequences that are used as stacks. *)

\* A stack in a call has a top, of the type of its frames.
LEMMA TopFrame ==
    ASSUME NEW S, NEW s \in Seq(S), s # <<>>
    PROVE  /\ Len(s) \in Nat \ {0}
           /\ Last(s) \in S
           /\ Last(s) = s[Len(s)]
<1>1. Len(s) \in Nat \ {0}
  BY EmptySeq
<1>2. Len(s) \in 1..Len(s)
  BY <1>1
<1>3. QED
  BY <1>1, <1>2, ElementOfSeq DEF Last

\* Popping leaves everything below the top as it was.
LEMMA PopFrame ==
    ASSUME NEW S, NEW s \in Seq(S), s # <<>>
    PROVE  /\ Front(s) \in Seq(S)
           /\ Len(Front(s)) = Len(s) - 1
           /\ \A i \in 1..(Len(s) - 1) : Front(s)[i] = s[i]
<1> DEFINE n == Len(s) - 1
<1>1. n \in Nat
  BY EmptySeq
<1>2. \A i \in 1..n : s[i] \in S
  BY <1>1, ElementOfSeq
<1> HIDE DEF n
<1>3. /\ SubSeq(s, 1, n) \in Seq(S)
      /\ Len(SubSeq(s, 1, n)) = IF 1 <= n THEN n - 1 + 1 ELSE 0
      /\ \A i \in 1..(n - 1 + 1) : SubSeq(s, 1, n)[i] = s[1 + i - 1]
  BY <1>1, <1>2, SubSeqProperties
<1>4. /\ Len(SubSeq(s, 1, n)) = n
      /\ \A i \in 1..n : SubSeq(s, 1, n)[i] = s[i]
  BY <1>1, <1>3
<1>5. Front(s) = SubSeq(s, 1, n)
  BY DEF Front, n
<1>6. QED
  BY <1>3, <1>4, <1>5, Zenon DEF n

\* A frame takes the place of the top.
LEMMA ReplaceFrame ==
    ASSUME NEW S, NEW s \in Seq(S), s # <<>>, NEW a \in S
    PROVE  /\ Append(Front(s), a) \in Seq(S)
           /\ Len(Append(Front(s), a)) = Len(s)
           /\ \A i \in 1..(Len(s) - 1) : Append(Front(s), a)[i] = s[i]
           /\ Append(Front(s), a)[Len(s)] = a
  BY PopFrame, TopFrame, AppendProperties

\* A call goes on top.
LEMMA PushFrame ==
    ASSUME NEW S, NEW s \in Seq(S), NEW a \in S
    PROVE  /\ Append(s, a) \in Seq(S)
           /\ Len(Append(s, a)) = Len(s) + 1
           /\ \A i \in 1..Len(s) : Append(s, a)[i] = s[i]
           /\ Append(s, a)[Len(s) + 1] = a
  BY AppendProperties

\* A frame takes the place of the top and makes a call.
LEMMA ReplaceAndPush ==
    ASSUME NEW S, NEW s \in Seq(S), s # <<>>, NEW a \in S, NEW b \in S
    PROVE  /\ Append(Append(Front(s), a), b) \in Seq(S)
           /\ Len(Append(Append(Front(s), a), b)) = Len(s) + 1
           /\ \A i \in 1..(Len(s) - 1) :
                Append(Append(Front(s), a), b)[i] = s[i]
           /\ Append(Append(Front(s), a), b)[Len(s)] = a
           /\ Append(Append(Front(s), a), b)[Len(s) + 1] = b
<1>1. Len(s) \in Nat \ {0}
  BY TopFrame
<1>2. QED
  BY <1>1, ReplaceFrame, PushFrame

----------------------------------------------------------------------------
(* The stacks of a set T of goroutines, s before and z after a step of t,   *)
(* with frames in S.                                                        *)

\* The top frame of t, if there is one, has become a, with a call b above it.
CallsFrom(T, S, s, z, t, a, b) ==
    /\ z \in [T -> Seq(S)]
    /\ \A u \in T : Len(z[u]) = IF u = t THEN Len(s[t]) + 1 ELSE Len(s[u])
    /\ z[t][Len(s[t]) + 1] = b
    /\ \A u \in T : \A i \in 1..Len(s[u]) :
         z[u][i] = IF u = t /\ i = Len(s[t]) THEN a ELSE s[u][i]

LEMMA ReplaceTopAndCall ==
    ASSUME NEW T, NEW S, NEW s \in [T -> Seq(S)], NEW t \in T, s[t] # <<>>,
           NEW a \in S, NEW b \in S,
           NEW z, z = [s EXCEPT ![t] = Append(Append(Front(s[t]), a), b)]
    PROVE  CallsFrom(T, S, s, z, t, a, b)
<1> DEFINE new == Append(Append(Front(s[t]), a), b)
           n == Len(s[t])
<1>1. /\ new \in Seq(S) /\ Len(new) = n + 1 /\ n \in Nat \ {0}
      /\ \A i \in 1..(n - 1) : new[i] = s[t][i]
      /\ new[n] = a /\ new[n + 1] = b
  BY ReplaceAndPush, TopFrame
<1> HIDE DEF new, n
<1>2. /\ z \in [T -> Seq(S)] /\ z[t] = new
      /\ \A u \in T \ {t} : z[u] = s[u]
  BY <1>1 DEF new
<1>3. QED
  BY <1>1, <1>2 DEF CallsFrom, n

USE WaterfallAssumption

----------------------------------------------------------------------------
(* The inductive invariant. *)

\* The frame has taken the step upon itself and has not published its result.
Running(f) == f.at \in {"run", "fn", "next", "settle"}

\* A step is run by one goroutine, in one frame, and while it is started only.
OneRunner ==
    \A t, u \in Threads : \A i \in 1..Len(stack[t]), j \in 1..Len(stack[u]) :
        /\ Running(stack[t][i]) => phase[stack[t][i].s] = "started"
        /\ /\ Running(stack[t][i]) /\ Running(stack[u][j])
           /\ stack[t][i].s = stack[u][j].s
           => t = u /\ i = j

\* The stack of a goroutine walks down the chain: below the top are listeners
\* that called next, or whose next is called on their behalf.
WalksDown ==
    \A t \in Threads : \A i \in 1..Len(stack[t]) :
        LET f == stack[t][i] IN
        /\ f.at \in {"fn", "next"} => f.s # Final
        /\ i < Len(stack[t]) =>
             /\ f.at \in {"fn", "settle"} /\ f.s # Final
             /\ stack[t][i + 1].s = f.s + 1

\* A step that is new, or that is about to run, has neither run nor failed.
Fresh ==
    /\ \A s \in Steps : phase[s] = "new" => runs[s] = 0 /\ s \notin failed
    /\ \A t \in Threads : \A i \in 1..Len(stack[t]) :
         LET f == stack[t][i] IN
         /\ f.at = "run" => runs[f.s] = 0 /\ f.s \notin failed
         /\ f.at = "fn" => f.s \notin failed

\* A failed listener settles with the answer of the next step.
TakesAnswer ==
    \A t \in Threads :
        LET f == stack[t][Len(stack[t])] IN
        stack[t] # <<>> /\ f.at = "settle" /\ f.s \in failed =>
            phase[f.s + 1] = "finished" /\ f.value = result[f.s + 1]

WaterfallInv ==
    /\ TypeOK /\ OneRunner /\ WalksDown /\ Fresh /\ TakesAnswer
    /\ RunsOnce /\ SameAnswer /\ FailureIsTransparent

----------------------------------------------------------------------------
(* What an action does to the stacks. *)

LEMMA Typing ==
    ASSUME TypeOK, NEW t \in Threads
    PROVE  /\ stack[t] \in Seq(Frames)
           /\ Len(stack[t]) \in Nat
           /\ stack[t] = <<>> => Len(stack[t]) = 0
           /\ \A i \in 1..Len(stack[t]) : stack[t][i] \in Frames
<1>1. stack[t] \in Seq(Frames)
  BY DEF TypeOK
<1>2. QED
  BY <1>1, ElementOfSeq, LenProperties, EmptySeq

LEMMA TypingPrime ==
    ASSUME TypeOK', NEW t \in Threads
    PROVE  /\ stack'[t] \in Seq(Frames)
           /\ Len(stack'[t]) \in Nat
           /\ stack'[t] # <<>> => Len(stack'[t]) \in 1..Len(stack'[t])
<1>1. stack'[t] \in Seq(Frames)
  BY DEF TypeOK
<1>2. QED
  BY <1>1, LenProperties, EmptySeq

LEMMA TopTyping ==
    ASSUME TypeOK, NEW t \in Threads, stack[t] # <<>>
    PROVE  /\ Len(stack[t]) \in Nat \ {0}
           /\ Top(t) = stack[t][Len(stack[t])]
           /\ Top(t) \in Frames
<1>1. stack[t] \in Seq(Frames)
  BY DEF TypeOK
<1>2. QED
  BY <1>1, TopFrame DEF Top

\* The top frame of t has been replaced.
Replaced(t, f) ==
    /\ stack' \in [Threads -> Seq(Frames)]
    /\ \A u \in Threads : Len(stack'[u]) = Len(stack[u])
    /\ \A u \in Threads : \A i \in 1..Len(stack[u]) :
         stack'[u][i] = IF u = t /\ i = Len(stack[t]) THEN f ELSE stack[u][i]

LEMMA Replacing ==
    ASSUME TypeOK, NEW t \in Threads, stack[t] # <<>>, NEW f \in Frames,
           Become(t, f)
    PROVE  Replaced(t, f)
<1>1. stack \in [Threads -> Seq(Frames)] /\ stack[t] \in Seq(Frames)
  BY DEF TypeOK
<1>2. stack' = [stack EXCEPT ![t] = Append(Front(stack[t]), f)]
  BY DEF Become
<1> DEFINE new == Append(Front(stack[t]), f)
<1>3. /\ new \in Seq(Frames) /\ Len(new) = Len(stack[t])
      /\ \A i \in 1..(Len(stack[t]) - 1) : new[i] = stack[t][i]
      /\ new[Len(stack[t])] = f
  BY <1>1, ReplaceFrame
<1>4. Len(stack[t]) \in Nat \ {0}
  BY TopTyping
<1> HIDE DEF new
<1>5. /\ stack' \in [Threads -> Seq(Frames)] /\ stack'[t] = new
      /\ \A u \in Threads \ {t} : stack'[u] = stack[u]
  BY <1>1, <1>2, <1>3 DEF new
<1>6. QED
  BY <1>3, <1>4, <1>5 DEF Replaced

\* The top frame of t has been replaced, and has made a call.
Called(t, f, g) ==
    /\ stack' \in [Threads -> Seq(Frames)]
    /\ \A u \in Threads :
         Len(stack'[u]) = IF u = t THEN Len(stack[t]) + 1 ELSE Len(stack[u])
    /\ stack'[t][Len(stack[t]) + 1] = g
    /\ \A u \in Threads : \A i \in 1..Len(stack[u]) :
         stack'[u][i] = IF u = t /\ i = Len(stack[t]) THEN f ELSE stack[u][i]

LEMMA Calling ==
    ASSUME TypeOK, NEW t \in Threads, stack[t] # <<>>,
           NEW f \in Frames, NEW g \in Frames,
           stack' = [stack EXCEPT ![t] = Append(Append(Front(@), f), g)]
    PROVE  Called(t, f, g)
<1>1. stack \in [Threads -> Seq(Frames)]
  BY DEF TypeOK
<1>2. stack' = [stack EXCEPT ![t] = Append(Append(Front(stack[t]), f), g)]
  OBVIOUS
<1>3. CallsFrom(Threads, Frames, stack, stack', t, f, g)
  BY <1>1, <1>2, ReplaceTopAndCall
<1>4. QED
  BY <1>3 DEF Called, CallsFrom

\* The call on top of t has returned v to the frame below.
Answered(t, v) ==
    /\ stack' \in [Threads -> Seq(Frames)]
    /\ \A u \in Threads :
         Len(stack'[u]) = IF u = t THEN Len(stack[t]) - 1 ELSE Len(stack[u])
    /\ stack'[t] # <<>> => Len(stack'[t]) # 0
    /\ \A u \in Threads : \A i \in 1..Len(stack'[u]) :
         stack'[u][i] = IF u = t /\ i = Len(stack[t]) - 1
                        THEN [stack[u][i] EXCEPT !.value = v]
                        ELSE stack[u][i]

LEMMA Answering ==
    ASSUME TypeOK, NEW t \in Threads, stack[t] # <<>>, NEW v \in Results,
           Answer(t, v)
    PROVE  Answered(t, v)
<1>1. stack \in [Threads -> Seq(Frames)] /\ stack[t] \in Seq(Frames)
  BY DEF TypeOK
<1> DEFINE callers == Front(stack[t])
           new == IF callers = <<>> THEN <<>>
                  ELSE Append(Front(callers), [Last(callers) EXCEPT !.value = v])
           n == Len(stack[t])
<1>2. n \in Nat \ {0}
  BY TopTyping
<1>3. /\ callers \in Seq(Frames) /\ Len(callers) = n - 1
      /\ \A i \in 1..(n - 1) : callers[i] = stack[t][i]
  BY <1>1, PopFrame
<1>4. /\ stack' = [stack EXCEPT ![t] = new]
      /\ stack'[t] = new /\ \A u \in Threads \ {t} : stack'[u] = stack[u]
  BY <1>1 DEF Answer
<1> HIDE DEF callers, n
<1>5. /\ new \in Seq(Frames) /\ Len(new) = n - 1
      /\ \A i \in 1..(n - 1) :
           new[i] = IF i = n - 1 THEN [stack[t][i] EXCEPT !.value = v]
                    ELSE stack[t][i]
  <2>1. CASE callers = <<>>
    <3>1. Len(callers) = 0 /\ <<>> \in Seq(Frames) /\ Len(<<>>) = 0
      BY <2>1, EmptySeq
    <3>2. QED
      BY <1>2, <1>3, <2>1, <3>1
  <2>2. CASE callers # <<>>
    <3> DEFINE f == [Last(callers) EXCEPT !.value = v]
    <3>1. /\ Last(callers) \in Frames /\ Last(callers) = callers[n - 1]
          /\ n - 1 \in Nat \ {0}
      BY <1>3, <2>2, TopFrame
    <3>2. Last(callers) = stack[t][n - 1]
      BY <1>2, <1>3, <3>1
    <3>3. f \in Frames
      BY <3>1 DEF Frames
    <3>4. f = [stack[t][n - 1] EXCEPT !.value = v]
      BY <3>2
    <3> HIDE DEF f
    <3>5. /\ Append(Front(callers), f) \in Seq(Frames)
          /\ Len(Append(Front(callers), f)) = n - 1
          /\ \A i \in 1..(n - 1 - 1) : Append(Front(callers), f)[i] = callers[i]
          /\ Append(Front(callers), f)[n - 1] = f
      BY <1>3, <2>2, <3>3, ReplaceFrame
    <3>6. new = Append(Front(callers), f)
      BY <2>2 DEF f
    <3> HIDE DEF new
    <3>7. \A i \in 1..(n - 1) : i = n - 1 \/ i \in 1..(n - 1 - 1)
      BY <1>2
    <3>8. QED
      BY <1>3, <3>4, <3>5, <3>6, <3>7
  <2>3. QED
    BY <2>1, <2>2
<1> HIDE DEF new
<1>6. new # <<>> => Len(new) # 0
  BY <1>5, EmptySeq
<1>7. QED
  BY <1>1, <1>2, <1>4, <1>5, <1>6 DEF Answered, n

\* A goroutine that was in no call has entered one.
LEMMA Entering ==
    ASSUME TypeOK, NEW t \in Threads, stack[t] = <<>>, NEW g \in Frames,
           stack' = [stack EXCEPT ![t] = <<g>>]
    PROVE  Called(t, g, g)
<1>1. stack \in [Threads -> Seq(Frames)] /\ Len(stack[t]) = 0
  BY Typing DEF TypeOK
<1> DEFINE new == <<g>>
<1>2. new \in Seq(Frames) /\ Len(new) = 1 /\ new[1] = g
  OBVIOUS
<1> HIDE DEF new
<1>3. /\ stack' \in [Threads -> Seq(Frames)] /\ stack'[t] = new
      /\ \A u \in Threads \ {t} : stack'[u] = stack[u]
  BY <1>1, <1>2 DEF new
<1>4. QED
  BY <1>1, <1>2, <1>3 DEF Called

----------------------------------------------------------------------------
(* The steps that make a call. *)

LEMMA FrameTyping ==
    ASSUME NEW s \in Steps
    PROVE  Frame(s) \in Frames /\ Frame(s).at = "call" /\ Frame(s).s = s
  BY DEF Frame, Frames, Places, Results

\* A call of the next step, on top of a frame that keeps its step, leaves all
\* but the top of the caller as it was.
LEMMA CallKeeps ==
    ASSUME WaterfallInv, NEW t \in Threads, NEW f \in Frames, NEW s \in Steps,
           Called(t, f, Frame(s)),
           UNCHANGED <<phase, result, runs, failed, answers>>,
           kept' \subseteq Steps, begun' \in BOOLEAN,
           stack[t] # <<>> =>
               /\ f.s = Top(t).s /\ s = f.s + 1
               /\ \/ Top(t).at = "fn" /\ f.at = "fn"
                  \/ Top(t).at = "next" /\ f.at = "settle"
    PROVE  WaterfallInv'
<1> DEFINE n == Len(stack[t])
<1>1. /\ \A u \in Threads : Len(stack[u]) \in Nat
      /\ stack[t] = <<>> => n = 0
      /\ stack[t] # <<>> => n # 0 /\ Top(t) = stack[t][n]
  BY Typing, TopTyping DEF WaterfallInv
<1>2. Frame(s).at = "call" /\ Frame(s).s = s
  BY FrameTyping
<1>3. TypeOK'
  BY DEF WaterfallInv, TypeOK, Called
<1>4. \A u \in Threads : \A i \in 1..Len(stack'[u]) :
        \/ u = t /\ i = n + 1 /\ stack'[u][i] = Frame(s)
        \/ u = t /\ i = n /\ stack[t] # <<>> /\ stack'[u][i] = f
        \/ i \in 1..Len(stack[u]) /\ stack'[u][i] = stack[u][i] /\ (u = t => i < n)
  BY <1>1 DEF Called
<1>5. \A u \in Threads : \A i \in 1..Len(stack'[u]) :
        Running(stack'[u][i]) =>
            /\ i \in 1..Len(stack[u]) /\ Running(stack[u][i])
            /\ stack'[u][i].s = stack[u][i].s
  BY <1>1, <1>2, <1>4 DEF Running
<1>6. OneRunner'
  <2> SUFFICES ASSUME NEW u \in Threads, NEW v \in Threads,
                      NEW i \in 1..Len(stack'[u]), NEW j \in 1..Len(stack'[v])
               PROVE  /\ Running(stack'[u][i]) => phase'[stack'[u][i].s] = "started"
                      /\ /\ Running(stack'[u][i]) /\ Running(stack'[v][j])
                         /\ stack'[u][i].s = stack'[v][j].s
                         => u = v /\ i = j
    BY DEF OneRunner
  <2>1. Running(stack'[u][i]) =>
          /\ i \in 1..Len(stack[u]) /\ Running(stack[u][i])
          /\ stack'[u][i].s = stack[u][i].s
    BY <1>5
  <2>2. Running(stack'[v][j]) =>
          /\ j \in 1..Len(stack[v]) /\ Running(stack[v][j])
          /\ stack'[v][j].s = stack[v][j].s
    BY <1>5
  <2> HIDE DEF Running
  <2>3. phase' = phase
    OBVIOUS
  <2>4. Running(stack'[u][i]) => phase'[stack'[u][i].s] = "started"
    BY <2>1, <2>3 DEF WaterfallInv, OneRunner
  <2>5. QED
    BY <2>1, <2>2, <2>4 DEF WaterfallInv, OneRunner
<1>7. WalksDown'
  <2> SUFFICES ASSUME NEW u \in Threads, NEW i \in 1..Len(stack'[u])
               PROVE  LET g == stack'[u][i] IN
                      /\ g.at \in {"fn", "next"} => g.s # Final
                      /\ i < Len(stack'[u]) =>
                           /\ g.at \in {"fn", "settle"} /\ g.s # Final
                           /\ stack'[u][i + 1].s = g.s + 1
    BY DEF WalksDown
  <2>1. CASE u = t /\ i = n + 1
    BY <2>1, <1>1, <1>2, <1>4 DEF Called
  <2>2. CASE u = t /\ i = n
    BY <2>2, <1>1, <1>2, <1>4 DEF Called, WaterfallInv, WalksDown
  <2>3. CASE u = t /\ i < n
    <3>1. i \in 1..n /\ i + 1 \in 1..n /\ stack[t] # <<>> /\ n # 0
      BY <2>3, <1>1
    <3>2. /\ stack'[t][i] = stack[t][i]
          /\ stack'[t][i + 1].s = stack[t][i + 1].s
      BY <2>3, <3>1, <1>1 DEF Called
    <3>3. QED
      BY <2>3, <3>1, <3>2 DEF WaterfallInv, WalksDown
  <2>4. CASE u # t
    BY <2>4, <1>1, <1>4 DEF Called, WaterfallInv, WalksDown
  <2>5. QED
    BY <2>1, <2>2, <2>3, <2>4, <1>1, <1>4
<1>8. Fresh'
  <2>1. \A r \in Steps : phase'[r] = "new" => runs'[r] = 0 /\ r \notin failed'
    BY DEF WaterfallInv, Fresh
  <2>2. ASSUME NEW u \in Threads, NEW i \in 1..Len(stack'[u])
        PROVE  LET h == stack'[u][i] IN
               /\ h.at = "run" => runs'[h.s] = 0 /\ h.s \notin failed'
               /\ h.at = "fn" => h.s \notin failed'
    <3>1. CASE u = t /\ i = n + 1 /\ stack'[u][i] = Frame(s)
      BY <1>2, <3>1
    <3>2. CASE u = t /\ i = n /\ stack[t] # <<>> /\ stack'[u][i] = f
      <4>1. f.at \in {"fn", "settle"} /\ f.s = Top(t).s
            /\ (f.at = "fn" => Top(t).at = "fn")
        BY <3>2
      <4>2. f.at = "fn" => Top(t).s \notin failed
        <5>1. n \in 1..Len(stack[t])
          BY <1>1, <3>2
        <5>2. QED
          BY <1>1, <3>2, <4>1, <5>1 DEF WaterfallInv, Fresh
      <4>3. QED
        BY <3>2, <4>1, <4>2
    <3>3. CASE i \in 1..Len(stack[u]) /\ stack'[u][i] = stack[u][i]
      BY <3>3 DEF WaterfallInv, Fresh
    <3>4. QED
      BY <1>4, <3>1, <3>2, <3>3
  <2>3. QED
    BY <2>1, <2>2 DEF Fresh
<1>9. TakesAnswer'
  BY <1>1, <1>2 DEF WaterfallInv, TakesAnswer, Called
<1>10. RunsOnce' /\ SameAnswer' /\ FailureIsTransparent'
  BY DEF WaterfallInv, RunsOnce, SameAnswer, FailureIsTransparent
<1>11. QED
  BY <1>3, <1>6, <1>7, <1>8, <1>9, <1>10 DEF WaterfallInv

LEMMA BeginStep ==
    ASSUME WaterfallInv, NEW t \in Threads, Begin(t)
    PROVE  WaterfallInv'
<1>1. 1 \in Steps
  BY DEF Steps
<1>2. Called(t, Frame(1), Frame(1))
  BY <1>1, FrameTyping, Entering DEF Begin, WaterfallInv
<1>3. QED
  BY <1>1, <1>2, FrameTyping, CallKeeps DEF Begin, WaterfallInv, TypeOK

LEMMA ResumeStep ==
    ASSUME WaterfallInv, NEW t \in Threads, NEW s \in Steps, Resume(t, s)
    PROVE  WaterfallInv'
<1>1. Called(t, Frame(s), Frame(s))
  BY FrameTyping, Entering DEF Resume, WaterfallInv
<1>2. QED
  BY <1>1, FrameTyping, CallKeeps DEF Resume, WaterfallInv, TypeOK

\* The top of a stack, as the invariant sees it.
LEMMA TopFacts ==
    ASSUME WaterfallInv, NEW t \in Threads, stack[t] # <<>>
    PROVE  /\ Top(t) = stack[t][Len(stack[t])] /\ Top(t) \in Frames
           /\ Len(stack[t]) \in 1..Len(stack[t])
           /\ \A u \in Threads : Len(stack[u]) \in Nat
           /\ Top(t).s \in Steps
           /\ Top(t).at \in {"fn", "next"} =>
                Top(t).s # Final /\ Top(t).s + 1 \in Steps
           /\ Running(Top(t)) => phase[Top(t).s] = "started"
<1>1. /\ Top(t) = stack[t][Len(stack[t])] /\ Top(t) \in Frames
      /\ Len(stack[t]) \in 1..Len(stack[t])
      /\ \A u \in Threads : Len(stack[u]) \in Nat
  BY TopTyping, Typing DEF WaterfallInv
<1>2. Top(t).s \in Steps
  BY <1>1 DEF Frames
<1>3. Top(t).at \in {"fn", "next"} => Top(t).s # Final
  BY <1>1 DEF WaterfallInv, WalksDown
<1>4. Running(Top(t)) => phase[Top(t).s] = "started"
  BY <1>1 DEF WaterfallInv, OneRunner
<1>5. QED
  BY <1>1, <1>2, <1>3, <1>4 DEF Steps, Final

LEMMA CallNextStep ==
    ASSUME WaterfallInv, NEW t \in Threads, CallNext(t)
    PROVE  WaterfallInv'
<1> DEFINE f == [Top(t) EXCEPT !.asked = @ + 1]
           s == Top(t).s + 1
<1>1. stack[t] # <<>> /\ Top(t).at = "fn"
  BY DEF CallNext, In
<1>2. Top(t) \in Frames /\ s \in Steps
  BY <1>1, TopFacts
<1>3. f \in Frames /\ f.at = "fn" /\ f.s = Top(t).s
  BY <1>1, <1>2 DEF Frames, CallNext
<1>4. Called(t, f, Frame(s))
  BY <1>1, <1>2, <1>3, FrameTyping, Calling DEF CallNext, WaterfallInv
<1> HIDE DEF f
<1>5. QED
  BY <1>1, <1>2, <1>3, <1>4, CallKeeps DEF CallNext, WaterfallInv, TypeOK

LEMMA ContinueStep ==
    ASSUME WaterfallInv, NEW t \in Threads, Continue(t)
    PROVE  WaterfallInv'
<1> DEFINE f == [Top(t) EXCEPT !.at = "settle"]
           s == Top(t).s + 1
<1>1. stack[t] # <<>> /\ Top(t).at = "next"
  BY DEF Continue, In
<1>2. Top(t) \in Frames /\ s \in Steps
  BY <1>1, TopFacts
<1>3. f \in Frames /\ f.at = "settle" /\ f.s = Top(t).s
  BY <1>1, <1>2 DEF Frames, Places
<1>4. Called(t, f, Frame(s))
  BY <1>1, <1>2, <1>3, FrameTyping, Calling DEF Continue, WaterfallInv
<1> HIDE DEF f
<1>5. QED
  BY <1>1, <1>2, <1>3, <1>4, CallKeeps DEF Continue, WaterfallInv, TypeOK

----------------------------------------------------------------------------
(* The steps that stay in their frame. *)

\* A frame that goes on with its step keeps the shape of the stacks, and does
\* not become a second runner.
LEMMA ReplaceKeeps ==
    ASSUME WaterfallInv, NEW t \in Threads, stack[t] # <<>>, NEW f \in Frames,
           Replaced(t, f), f.s = Top(t).s,
           f.at \in {"fn", "next"} => f.s # Final
    PROVE  /\ WalksDown'
           /\ \A u \in Threads : \A i \in 1..Len(stack'[u]) :
                /\ i \in 1..Len(stack[u]) /\ stack'[u][i].s = stack[u][i].s
                /\ stack'[u][i] =
                     IF u = t /\ i = Len(stack[t]) THEN f ELSE stack[u][i]
           /\ phase' = phase /\ (Running(f) => Running(Top(t))) => OneRunner'
<1> DEFINE n == Len(stack[t])
<1>1. /\ \A u \in Threads : Len(stack[u]) \in Nat
      /\ n # 0 /\ n \in 1..n /\ Top(t) = stack[t][n]
  BY TopFacts
<1>2. \A u \in Threads : \A i \in 1..Len(stack'[u]) :
        /\ i \in 1..Len(stack[u]) /\ stack'[u][i].s = stack[u][i].s
        /\ stack'[u][i] = IF u = t /\ i = n THEN f ELSE stack[u][i]
  BY <1>1 DEF Replaced
<1>3. WalksDown'
  <2> SUFFICES ASSUME NEW u \in Threads, NEW i \in 1..Len(stack'[u])
               PROVE  LET g == stack'[u][i] IN
                      /\ g.at \in {"fn", "next"} => g.s # Final
                      /\ i < Len(stack'[u]) =>
                           /\ g.at \in {"fn", "settle"} /\ g.s # Final
                           /\ stack'[u][i + 1].s = g.s + 1
    BY DEF WalksDown
  <2>1. Len(stack'[u]) = Len(stack[u])
    BY DEF Replaced
  <2>2. CASE u = t /\ i = n
    BY <2>1, <2>2, <1>1, <1>2
  <2>3. CASE ~(u = t /\ i = n)
    <3>1. i \in 1..Len(stack[u]) /\ stack'[u][i] = stack[u][i]
      BY <1>2, <2>3
    <3>2. i < Len(stack[u]) => stack'[u][i + 1].s = stack[u][i + 1].s
      <4>1. i < Len(stack[u]) => i + 1 \in 1..Len(stack'[u])
        BY <1>1, <2>1
      <4>2. QED
        BY <4>1, <1>2
    <3>3. QED
      BY <3>1, <3>2, <2>1 DEF WaterfallInv, WalksDown
  <2>4. QED
    BY <2>2, <2>3
<1>4. ASSUME phase' = phase, Running(f) => Running(Top(t))
      PROVE  OneRunner'
  <2>1. \A u \in Threads : \A i \in 1..Len(stack'[u]) :
          /\ i \in 1..Len(stack[u]) /\ stack'[u][i].s = stack[u][i].s
          /\ Running(stack'[u][i]) => Running(stack[u][i])
    BY <1>1, <1>2, <1>4
  <2> SUFFICES ASSUME NEW u \in Threads, NEW v \in Threads,
                      NEW i \in 1..Len(stack'[u]), NEW j \in 1..Len(stack'[v])
               PROVE  /\ Running(stack'[u][i]) => phase'[stack'[u][i].s] = "started"
                      /\ /\ Running(stack'[u][i]) /\ Running(stack'[v][j])
                         /\ stack'[u][i].s = stack'[v][j].s
                         => u = v /\ i = j
    BY DEF OneRunner
  <2>2. /\ i \in 1..Len(stack[u]) /\ stack'[u][i].s = stack[u][i].s
        /\ Running(stack'[u][i]) => Running(stack[u][i])
        /\ j \in 1..Len(stack[v]) /\ stack'[v][j].s = stack[v][j].s
        /\ Running(stack'[v][j]) => Running(stack[v][j])
    BY <2>1
  <2>3. Running(stack'[u][i]) => phase'[stack'[u][i].s] = "started"
    BY <2>2, <1>4 DEF WaterfallInv, OneRunner
  <2>4. QED
    BY <2>2, <2>3 DEF WaterfallInv, OneRunner
<1>5. QED
  BY <1>2, <1>3, <1>4

LEMMA GotoFrame ==
    ASSUME WaterfallInv, NEW t \in Threads, stack[t] # <<>>, NEW at \in Places,
           Goto(t, at)
    PROVE  \E f \in Frames :
             Replaced(t, f) /\ f.at = at /\ f.s = Top(t).s
<1> DEFINE f == [Top(t) EXCEPT !.at = at]
<1>1. f \in Frames /\ f.at = at /\ f.s = Top(t).s
  BY TopFacts DEF Frames
<1>2. Replaced(t, f)
  BY <1>1, Replacing DEF Goto, WaterfallInv
<1>3. QED
  BY <1>1, <1>2

LEMMA SettlingFrame ==
    ASSUME WaterfallInv, NEW t \in Threads, stack[t] # <<>>, NEW v \in Results,
           Settling(t, v)
    PROVE  \E f \in Frames :
             Replaced(t, f) /\ f.at = "settle" /\ f.s = Top(t).s
<1> DEFINE f == [Top(t) EXCEPT !.at = "settle", !.value = v]
<1>1. f \in Frames /\ f.at = "settle" /\ f.s = Top(t).s
  BY TopFacts DEF Frames, Places
<1>2. Replaced(t, f)
  BY <1>1, Replacing DEF Settling, WaterfallInv
<1>3. QED
  BY <1>1, <1>2

\* The first caller of a step takes it upon itself.
LEMMA CallNewStep ==
    ASSUME WaterfallInv, NEW t \in Threads, In(t, "call"),
           phase[Top(t).s] = "new",
           phase' = [phase EXCEPT ![Top(t).s] = "started"], Goto(t, "run"),
           UNCHANGED <<result, kept, runs, failed, answers, begun>>
    PROVE  WaterfallInv'
<1> DEFINE n == Len(stack[t])
           s == Top(t).s
<1>1. /\ stack[t] # <<>> /\ Top(t).at = "call" /\ s \in Steps
      /\ Top(t) = stack[t][n] /\ n \in 1..n
  BY TopFacts DEF In
<1>2. PICK f \in Frames : Replaced(t, f) /\ f.at = "run" /\ f.s = s
  BY <1>1, GotoFrame DEF Places
<1>3. /\ WalksDown'
      /\ \A u \in Threads : \A i \in 1..Len(stack'[u]) :
           /\ i \in 1..Len(stack[u]) /\ stack'[u][i].s = stack[u][i].s
           /\ stack'[u][i] = IF u = t /\ i = n THEN f ELSE stack[u][i]
  BY <1>1, <1>2, ReplaceKeeps
<1>4. phase \in [Steps -> {"new", "started", "finished"}]
  BY DEF WaterfallInv, TypeOK
<1> HIDE DEF n, s
<1>5. TypeOK'
  BY <1>1, <1>2, <1>4 DEF WaterfallInv, TypeOK, Replaced, s
<1>6. \A u \in Threads : \A i \in 1..Len(stack[u]) :
        Running(stack[u][i]) => stack[u][i].s # s
  BY DEF WaterfallInv, OneRunner, s
<1>7. OneRunner'
  <2> SUFFICES ASSUME NEW u \in Threads, NEW v \in Threads,
                      NEW i \in 1..Len(stack'[u]), NEW j \in 1..Len(stack'[v])
               PROVE  /\ Running(stack'[u][i]) => phase'[stack'[u][i].s] = "started"
                      /\ /\ Running(stack'[u][i]) /\ Running(stack'[v][j])
                         /\ stack'[u][i].s = stack'[v][j].s
                         => u = v /\ i = j
    BY DEF OneRunner
  <2>1. /\ i \in 1..Len(stack[u]) /\ j \in 1..Len(stack[v])
        /\ stack'[u][i] = IF u = t /\ i = n THEN f ELSE stack[u][i]
        /\ stack'[v][j] = IF v = t /\ j = n THEN f ELSE stack[v][j]
    BY <1>3
  <2>2. /\ stack[u][i] \in Frames /\ stack[v][j] \in Frames
        /\ stack[u][i].s \in Steps /\ stack[v][j].s \in Steps
    BY <2>1, Typing DEF WaterfallInv, Frames
  <2>3. Running(stack'[u][i]) => phase'[stack'[u][i].s] = "started"
    BY <1>1, <1>2, <1>4, <2>1, <2>2 DEF WaterfallInv, OneRunner, s
  <2>4. QED
    BY <1>2, <1>6, <2>1, <2>3 DEF WaterfallInv, OneRunner
<1>8. Fresh'
  BY <1>1, <1>2, <1>3, <1>4 DEF WaterfallInv, Fresh, s
<1>9. TakesAnswer'
  BY <1>1, <1>2, <1>3, <1>4, <1>5 DEF WaterfallInv, TakesAnswer, Replaced, s
<1>10. RunsOnce' /\ SameAnswer' /\ FailureIsTransparent'
  BY <1>1, <1>4 DEF WaterfallInv, RunsOnce, SameAnswer, FailureIsTransparent, s, TypeOK
<1>11. QED
  BY <1>3, <1>5, <1>7, <1>8, <1>9, <1>10 DEF WaterfallInv

\* A caller that finds the step started waits for its result.
LEMMA CallWaitStep ==
    ASSUME WaterfallInv, NEW t \in Threads, In(t, "call"), Goto(t, "wait"),
           UNCHANGED <<phase, result, kept, runs, failed, answers, begun>>
    PROVE  WaterfallInv'
<1>1. stack[t] # <<>> /\ Top(t).at = "call"
  BY DEF In
<1>2. PICK f \in Frames : Replaced(t, f) /\ f.at = "wait" /\ f.s = Top(t).s
  BY <1>1, GotoFrame DEF Places
<1>3. /\ WalksDown' /\ OneRunner'
      /\ \A u \in Threads : \A i \in 1..Len(stack'[u]) :
           /\ i \in 1..Len(stack[u])
           /\ stack'[u][i] = IF u = t /\ i = Len(stack[t]) THEN f ELSE stack[u][i]
  BY <1>1, <1>2, ReplaceKeeps DEF Running
<1>4. TypeOK'
  BY <1>2 DEF WaterfallInv, TypeOK, Replaced
<1>5. Fresh'
  BY <1>2, <1>3 DEF WaterfallInv, Fresh
<1>6. TakesAnswer'
  BY <1>2, <1>3, <1>4 DEF WaterfallInv, TakesAnswer, Replaced
<1>7. RunsOnce' /\ SameAnswer' /\ FailureIsTransparent'
  BY DEF WaterfallInv, RunsOnce, SameAnswer, FailureIsTransparent
<1>8. QED
  BY <1>3, <1>4, <1>5, <1>6, <1>7 DEF WaterfallInv

\* The listener of a step runs, or is skipped.
LEMMA RunListenerStep ==
    ASSUME WaterfallInv, NEW t \in Threads, RunListener(t)
    PROVE  WaterfallInv'
<1> DEFINE n == Len(stack[t])
           s == Top(t).s
<1>1. /\ stack[t] # <<>> /\ Top(t).at = "run" /\ s # Final
      /\ s \in Steps /\ s \in 1..Size
      /\ Top(t) = stack[t][n] /\ n \in 1..n /\ phase[s] = "started"
  BY TopFacts DEF RunListener, In, Steps, Final, Running
<1>2. runs[s] = 0 /\ s \notin failed
  BY <1>1 DEF WaterfallInv, Fresh
<1>3. PICK f \in Frames :
        /\ Replaced(t, f) /\ f.s = s
        /\ \/ f.at = "fn" /\ Ran(s) /\ failed' = failed
           \/ f.at = "next" /\ runs' = runs /\ failed' = failed \cup {s}
  BY <1>1, GotoFrame DEF Places, RunListener
<1>4. /\ WalksDown' /\ OneRunner'
      /\ \A u \in Threads : \A i \in 1..Len(stack'[u]) :
           /\ i \in 1..Len(stack[u]) /\ stack'[u][i].s = stack[u][i].s
           /\ stack'[u][i] = IF u = t /\ i = n THEN f ELSE stack[u][i]
  BY <1>1, <1>3, ReplaceKeeps DEF Running, RunListener
<1>5. \A u \in Threads : \A i \in 1..Len(stack[u]) :
        Running(stack[u][i]) /\ ~(u = t /\ i = n) => stack[u][i].s # s
  BY <1>1 DEF WaterfallInv, OneRunner, Running
<1>6. runs \in [Steps -> Nat] /\ runs' \in [Steps -> Nat]
  BY <1>1, <1>3 DEF WaterfallInv, TypeOK, Ran
<1> HIDE DEF n, s
<1>7. TypeOK'
  BY <1>1, <1>3, <1>6 DEF WaterfallInv, TypeOK, Replaced, RunListener
<1>8. Fresh'
  <2>1. \A r \in Steps : phase'[r] = "new" => runs'[r] = 0 /\ r \notin failed'
    BY <1>1, <1>3, <1>6 DEF WaterfallInv, Fresh, RunListener, Ran
  <2> SUFFICES ASSUME NEW u \in Threads, NEW i \in 1..Len(stack'[u])
               PROVE  LET g == stack'[u][i] IN
                      /\ g.at = "run" => runs'[g.s] = 0 /\ g.s \notin failed'
                      /\ g.at = "fn" => g.s \notin failed'
    BY <2>1 DEF Fresh
  <2>2. CASE u = t /\ i = n
    BY <1>2, <1>3, <1>4, <2>2
  <2>3. CASE ~(u = t /\ i = n)
    <3>1. i \in 1..Len(stack[u]) /\ stack'[u][i] = stack[u][i]
      BY <1>4, <2>3
    <3>2. stack[u][i].s \in Steps
      BY <3>1, Typing DEF WaterfallInv, Frames
    <3>3. stack[u][i].at \in {"run", "fn"} => stack[u][i].s # s
      BY <1>5, <2>3, <3>1 DEF Running
    <3>4. QED
      BY <1>3, <1>6, <3>1, <3>2, <3>3 DEF WaterfallInv, Fresh, Ran
  <2>4. QED
    BY <2>2, <2>3
<1>9. TakesAnswer'
  <2> SUFFICES ASSUME NEW u \in Threads, stack'[u] # <<>>
               PROVE  LET g == stack'[u][Len(stack'[u])] IN
                      g.at = "settle" /\ g.s \in failed' =>
                        /\ phase'[g.s + 1] = "finished"
                        /\ g.value = result'[g.s + 1]
    BY DEF TakesAnswer
  <2>1. /\ Len(stack'[u]) \in 1..Len(stack'[u]) /\ stack[u] # <<>>
        /\ Len(stack'[u]) = Len(stack[u])
    BY <1>3, <1>7, Typing, TypingPrime, EmptySeq DEF Replaced, WaterfallInv
  <2>2. CASE u = t
    BY <1>3, <1>4, <2>1, <2>2 DEF n
  <2>3. CASE u # t
    <3>1. stack'[u][Len(stack'[u])] = stack[u][Len(stack[u])]
      BY <1>4, <2>1, <2>3
    <3>2. stack[u][Len(stack[u])].at = "settle" =>
            stack[u][Len(stack[u])].s # s
      BY <1>5, <2>1, <2>3 DEF Running
    <3>3. QED
      BY <1>3, <2>1, <3>1, <3>2 DEF WaterfallInv, TakesAnswer, RunListener
  <2>4. QED
    BY <2>2, <2>3
<1>10. RunsOnce'
  BY <1>1, <1>2, <1>3, <1>6 DEF WaterfallInv, RunsOnce, Ran
<1>11. SameAnswer'
  BY DEF WaterfallInv, SameAnswer, RunListener
<1>12. FailureIsTransparent'
  BY <1>1, <1>3 DEF WaterfallInv, FailureIsTransparent, RunListener
<1>13. QED
  BY <1>4, <1>7, <1>8, <1>9, <1>10, <1>11, <1>12 DEF WaterfallInv

\* A listener or final that has not failed settles: what it returned becomes the
\* value of its own frame, and no other frame runs its step.
LEMMA SettlingKeeps ==
    ASSUME WaterfallInv, NEW t \in Threads, stack[t] # <<>>, Running(Top(t)),
           Top(t).s \notin failed, NEW v \in Results, Settling(t, v),
           UNCHANGED <<phase, result, kept, failed, answers, begun>>
    PROVE  /\ OneRunner' /\ WalksDown' /\ TakesAnswer'
           /\ SameAnswer' /\ FailureIsTransparent'
           /\ runs' \in [Steps -> Nat] => TypeOK'
           /\ \A u \in Threads : \A i \in 1..Len(stack'[u]) :
                \/ stack'[u][i].at = "settle"
                \/ /\ i \in 1..Len(stack[u]) /\ stack'[u][i] = stack[u][i]
                   /\ Running(stack[u][i]) => stack[u][i].s # Top(t).s
<1> DEFINE n == Len(stack[t])
           s == Top(t).s
<1>1. /\ s \in Steps /\ Top(t) = stack[t][n] /\ n \in 1..n
      /\ \A u \in Threads : Len(stack[u]) \in Nat
  BY TopFacts
<1>2. PICK f \in Frames : Replaced(t, f) /\ f.at = "settle" /\ f.s = s
  BY SettlingFrame
<1>3. /\ WalksDown' /\ OneRunner'
      /\ \A u \in Threads : \A i \in 1..Len(stack'[u]) :
           /\ i \in 1..Len(stack[u])
           /\ stack'[u][i] = IF u = t /\ i = n THEN f ELSE stack[u][i]
  BY <1>2, ReplaceKeeps
<1>4. \A u \in Threads : \A i \in 1..Len(stack[u]) :
        Running(stack[u][i]) /\ ~(u = t /\ i = n) => stack[u][i].s # s
  BY <1>1 DEF WaterfallInv, OneRunner
<1> HIDE DEF n, s
<1>5. runs' \in [Steps -> Nat] => TypeOK'
  BY <1>2 DEF WaterfallInv, TypeOK, Replaced
<1>6. stack' \in [Threads -> Seq(Frames)]
  BY <1>2 DEF Replaced
<1>7. TakesAnswer'
  <2> SUFFICES ASSUME NEW u \in Threads, stack'[u] # <<>>
               PROVE  LET g == stack'[u][Len(stack'[u])] IN
                      g.at = "settle" /\ g.s \in failed' =>
                        /\ phase'[g.s + 1] = "finished"
                        /\ g.value = result'[g.s + 1]
    BY DEF TakesAnswer
  <2>1. /\ Len(stack'[u]) \in 1..Len(stack'[u])
        /\ Len(stack'[u]) = Len(stack[u])
    BY <1>2, <1>6, EmptySeq DEF Replaced
  <2>2. CASE u = t
    BY <1>2, <1>3, <2>1, <2>2 DEF n, s
  <2>3. CASE u # t
    <3>1. stack'[u][Len(stack'[u])] = stack[u][Len(stack[u])] /\ stack[u] # <<>>
      BY <1>3, <2>1, <2>3, EmptySeq
    <3>2. QED
      BY <3>1 DEF WaterfallInv, TakesAnswer
  <2>4. QED
    BY <2>2, <2>3
<1>8. SameAnswer' /\ FailureIsTransparent'
  BY DEF WaterfallInv, SameAnswer, FailureIsTransparent
<1>9. QED
  BY <1>2, <1>3, <1>4, <1>5, <1>7, <1>8 DEF s

LEMMA RunFinalStep ==
    ASSUME WaterfallInv, NEW t \in Threads, RunFinal(t)
    PROVE  WaterfallInv'
<1>1. /\ stack[t] # <<>> /\ Top(t).at = "run" /\ Top(t).s = Final
      /\ Running(Top(t)) /\ phase[Final] = "started"
  BY TopFacts DEF RunFinal, In, Running
<1>2. runs[Final] = 0 /\ Final \notin failed /\ Final \in Steps
  BY <1>1, TopFacts DEF WaterfallInv, Fresh
<1>3. PICK v \in Results : Settling(t, v)
  BY DEF RunFinal
<1>4. runs \in [Steps -> Nat] /\ runs' = [runs EXCEPT ![Final] = @ + 1]
  BY DEF WaterfallInv, TypeOK, RunFinal, Ran
<1>5. runs' \in [Steps -> Nat]
  BY <1>2, <1>4
<1>6. /\ OneRunner' /\ WalksDown' /\ TakesAnswer'
      /\ SameAnswer' /\ FailureIsTransparent' /\ TypeOK'
      /\ \A u \in Threads : \A i \in 1..Len(stack'[u]) :
           \/ stack'[u][i].at = "settle"
           \/ /\ i \in 1..Len(stack[u]) /\ stack'[u][i] = stack[u][i]
              /\ Running(stack[u][i]) => stack[u][i].s # Final
  BY <1>1, <1>2, <1>3, <1>5, SettlingKeeps DEF RunFinal
<1>7. Fresh'
  <2>1. \A r \in Steps : phase'[r] = "new" => runs'[r] = 0 /\ r \notin failed'
    BY <1>1, <1>4 DEF WaterfallInv, Fresh, RunFinal
  <2>2. \A u \in Threads : \A i \in 1..Len(stack[u]) : stack[u][i].s \in Steps
    BY Typing DEF WaterfallInv, Frames
  <2>3. QED
    BY <1>4, <1>6, <2>1, <2>2 DEF WaterfallInv, Fresh, RunFinal, Running
<1>8. RunsOnce'
  BY <1>2, <1>4 DEF WaterfallInv, RunsOnce
<1>9. QED
  BY <1>6, <1>7, <1>8 DEF WaterfallInv

LEMMA ListenerReturnsStep ==
    ASSUME WaterfallInv, NEW t \in Threads, ListenerReturns(t)
    PROVE  WaterfallInv'
<1>1. /\ stack[t] # <<>> /\ Top(t).at = "fn" /\ Running(Top(t))
  BY DEF ListenerReturns, In, Running
<1>2. Top(t).s \notin failed
  BY <1>1, TopFacts DEF WaterfallInv, Fresh
<1>3. PICK v \in Results : Settling(t, v)
  BY DEF ListenerReturns
<1>4. /\ OneRunner' /\ WalksDown' /\ TakesAnswer'
      /\ SameAnswer' /\ FailureIsTransparent' /\ TypeOK'
      /\ \A u \in Threads : \A i \in 1..Len(stack'[u]) :
           \/ stack'[u][i].at = "settle"
           \/ i \in 1..Len(stack[u]) /\ stack'[u][i] = stack[u][i]
  BY <1>1, <1>2, <1>3, SettlingKeeps DEF ListenerReturns, WaterfallInv, TypeOK
<1>5. Fresh' /\ RunsOnce'
  BY <1>4 DEF WaterfallInv, Fresh, RunsOnce, ListenerReturns
<1>6. QED
  BY <1>4, <1>5 DEF WaterfallInv

\* A listener that panics has failed, and goes on to call next.
LEMMA ListenerPanicsStep ==
    ASSUME WaterfallInv, NEW t \in Threads, ListenerPanics(t)
    PROVE  WaterfallInv'
<1> DEFINE n == Len(stack[t])
           s == Top(t).s
<1>1. /\ stack[t] # <<>> /\ Top(t).at = "fn" /\ s # Final
      /\ s \in Steps /\ s \in 1..Size
      /\ Top(t) = stack[t][n] /\ n \in 1..n /\ phase[s] = "started"
  BY TopFacts DEF ListenerPanics, In, Steps, Final, Running
<1>2. failed' = failed \cup {s} /\ UNCHANGED <<phase, result, runs, answers>>
  BY DEF ListenerPanics
<1>3. PICK f \in Frames : Replaced(t, f) /\ f.at = "next" /\ f.s = s
  BY <1>1, GotoFrame DEF Places, ListenerPanics
<1>4. /\ WalksDown' /\ OneRunner'
      /\ \A u \in Threads : \A i \in 1..Len(stack'[u]) :
           /\ i \in 1..Len(stack[u]) /\ stack'[u][i].s = stack[u][i].s
           /\ stack'[u][i] = IF u = t /\ i = n THEN f ELSE stack[u][i]
  BY <1>1, <1>2, <1>3, ReplaceKeeps DEF Running
<1>5. \A u \in Threads : \A i \in 1..Len(stack[u]) :
        Running(stack[u][i]) /\ ~(u = t /\ i = n) => stack[u][i].s # s
  BY <1>1 DEF WaterfallInv, OneRunner, Running
<1> HIDE DEF n, s
<1>6. TypeOK'
  BY <1>1, <1>2, <1>3 DEF WaterfallInv, TypeOK, Replaced, ListenerPanics
<1>7. Fresh'
  <2>1. \A r \in Steps : phase'[r] = "new" => runs'[r] = 0 /\ r \notin failed'
    BY <1>1, <1>2 DEF WaterfallInv, Fresh
  <2>2. ASSUME NEW u \in Threads, NEW i \in 1..Len(stack'[u])
        PROVE  LET g == stack'[u][i] IN
               /\ g.at = "run" => runs'[g.s] = 0 /\ g.s \notin failed'
               /\ g.at = "fn" => g.s \notin failed'
    <3>1. CASE u = t /\ i = n
      BY <1>3, <1>4, <3>1
    <3>2. CASE ~(u = t /\ i = n)
      <4>1. i \in 1..Len(stack[u]) /\ stack'[u][i] = stack[u][i]
        BY <1>4, <3>2
      <4>2. stack[u][i].at \in {"run", "fn"} => stack[u][i].s # s
        BY <1>5, <3>2, <4>1 DEF Running
      <4>3. QED
        BY <1>2, <4>1, <4>2 DEF WaterfallInv, Fresh
    <3>3. QED
      BY <3>1, <3>2
  <2>3. QED
    BY <2>1, <2>2 DEF Fresh
<1>8. TakesAnswer'
  <2> SUFFICES ASSUME NEW u \in Threads, stack'[u] # <<>>
               PROVE  LET g == stack'[u][Len(stack'[u])] IN
                      g.at = "settle" /\ g.s \in failed' =>
                        /\ phase'[g.s + 1] = "finished"
                        /\ g.value = result'[g.s + 1]
    BY DEF TakesAnswer
  <2>1. /\ Len(stack'[u]) \in 1..Len(stack'[u])
        /\ Len(stack'[u]) = Len(stack[u])
    BY <1>3, <1>6, TypingPrime DEF Replaced
  <2>2. CASE u = t
    BY <1>3, <1>4, <2>1, <2>2 DEF n
  <2>3. CASE u # t
    <3>1. /\ stack'[u][Len(stack'[u])] = stack[u][Len(stack[u])]
          /\ stack[u] # <<>>
      BY <1>4, <2>1, <2>3, EmptySeq
    <3>2. stack[u][Len(stack[u])].at = "settle" =>
            stack[u][Len(stack[u])].s # s
      BY <1>5, <2>1, <2>3 DEF Running
    <3>3. QED
      BY <1>2, <3>1, <3>2 DEF WaterfallInv, TakesAnswer
  <2>4. QED
    BY <2>2, <2>3
<1>9. RunsOnce' /\ SameAnswer'
  BY <1>2 DEF WaterfallInv, RunsOnce, SameAnswer
<1>10. FailureIsTransparent'
  BY <1>1, <1>2 DEF WaterfallInv, FailureIsTransparent
<1>11. QED
  BY <1>4, <1>6, <1>7, <1>8, <1>9, <1>10 DEF WaterfallInv

\* Handing out next changes no stack.
LEMMA KeepNextStep ==
    ASSUME WaterfallInv, NEW t \in Threads, KeepNext(t)
    PROVE  WaterfallInv'
<1>1. stack[t] # <<>> /\ Top(t).at = "fn"
  BY DEF KeepNext, In
<1>2. TypeOK'
  BY <1>1, TopFacts DEF KeepNext, WaterfallInv, TypeOK
<1>3. UNCHANGED <<phase, result, runs, failed, answers, stack>>
  BY DEF KeepNext
<1>4. OneRunner' /\ WalksDown'
  BY <1>3 DEF WaterfallInv, OneRunner, WalksDown
<1>5. Fresh' /\ TakesAnswer'
  BY <1>3 DEF WaterfallInv, Fresh, TakesAnswer
<1>6. RunsOnce' /\ SameAnswer' /\ FailureIsTransparent'
  BY <1>3 DEF WaterfallInv, RunsOnce, SameAnswer, FailureIsTransparent
<1>7. QED
  BY <1>2, <1>4, <1>5, <1>6 DEF WaterfallInv

LEMMA StutterStep ==
    ASSUME WaterfallInv, UNCHANGED vars
    PROVE  WaterfallInv'
<1>1. TypeOK' /\ OneRunner' /\ WalksDown'
  BY DEF vars, WaterfallInv, TypeOK, OneRunner, WalksDown
<1>2. Fresh' /\ TakesAnswer'
  BY DEF vars, WaterfallInv, Fresh, TakesAnswer
<1>3. RunsOnce' /\ SameAnswer' /\ FailureIsTransparent'
  BY DEF vars, WaterfallInv, RunsOnce, SameAnswer, FailureIsTransparent
<1>4. QED
  BY <1>1, <1>2, <1>3 DEF WaterfallInv

----------------------------------------------------------------------------
(* The steps that return an answer. *)

\* Popping a frame keeps the shape of the stacks; a failed listener below it
\* is handed the answer of the next step.
LEMMA AnswerKeeps ==
    ASSUME WaterfallInv, NEW t \in Threads, stack[t] # <<>>, NEW v \in Results,
           Answer(t, v), UNCHANGED <<kept, runs, failed, begun>>,
           phase' \in [Steps -> {"new", "started", "finished"}],
           result' \in [Steps -> Results],
           \A s \in Steps : phase[s] = "finished" =>
               phase'[s] = "finished" /\ result'[s] = result[s],
           phase'[Top(t).s] = "finished", result'[Top(t).s] = v,
           \A s \in Steps \ {Top(t).s} : phase'[s] = phase[s],
           \A u \in Threads : \A i \in 1..Len(stack[u]) :
               Running(stack[u][i]) /\ ~(u = t /\ i = Len(stack[t])) =>
                   stack[u][i].s # Top(t).s
    PROVE  TypeOK' /\ OneRunner' /\ WalksDown' /\ Fresh' /\ TakesAnswer'
<1> DEFINE n == Len(stack[t])
           s == Top(t).s
<1>1. /\ s \in Steps /\ Top(t) = stack[t][n] /\ n \in 1..n
      /\ \A u \in Threads : Len(stack[u]) \in Nat
  BY TopFacts
<1>2. Answered(t, v)
  BY Answering DEF WaterfallInv
<1>3. \A u \in Threads : \A i \in 1..Len(stack'[u]) :
        /\ i \in 1..Len(stack[u]) /\ ~(u = t /\ i = n)
        /\ stack'[u][i] = IF u = t /\ i = n - 1
                          THEN [stack[u][i] EXCEPT !.value = v] ELSE stack[u][i]
        /\ i \in Nat
  <2> SUFFICES ASSUME NEW u \in Threads, NEW i \in 1..Len(stack'[u])
               PROVE  /\ i \in 1..Len(stack[u]) /\ ~(u = t /\ i = n) /\ i \in Nat
    BY <1>2 DEF Answered
  <2>1. CASE u = t
    <3>1. Len(stack'[u]) = n - 1
      BY <1>2, <2>1 DEF Answered
    <3>2. QED
      BY <1>1, <2>1, <3>1
  <2>2. CASE u # t
    <3>1. Len(stack'[u]) = Len(stack[u])
      BY <1>2, <2>2 DEF Answered
    <3>2. QED
      BY <1>1, <2>2, <3>1
  <2>3. QED
    BY <2>1, <2>2
<1>4. \A u \in Threads : \A i \in 1..Len(stack[u]) :
        stack[u][i] \in Frames /\ stack[u][i].s \in Steps
  BY Typing DEF WaterfallInv, Frames
<1>5. \A u \in Threads : \A i \in 1..Len(stack'[u]) :
        /\ stack'[u][i].at = stack[u][i].at /\ stack'[u][i].s = stack[u][i].s
        /\ Running(stack[u][i]) => stack[u][i].s # s
        /\ Running(stack'[u][i]) <=> Running(stack[u][i])
  <2>1. \A g \in Frames : /\ [g EXCEPT !.value = v].at = g.at
                          /\ [g EXCEPT !.value = v].s = g.s
    BY DEF Frames
  <2> SUFFICES ASSUME NEW u \in Threads, NEW i \in 1..Len(stack'[u])
               PROVE  /\ stack'[u][i].at = stack[u][i].at
                      /\ stack'[u][i].s = stack[u][i].s
                      /\ Running(stack[u][i]) => stack[u][i].s # s
                      /\ Running(stack'[u][i]) <=> Running(stack[u][i])
    OBVIOUS
  <2>2. /\ i \in 1..Len(stack[u]) /\ ~(u = t /\ i = n)
        /\ stack[u][i] \in Frames
    BY <1>3, <1>4
  <2>3. stack'[u][i].at = stack[u][i].at /\ stack'[u][i].s = stack[u][i].s
    BY <1>3, <2>1, <2>2
  <2>4. Running(stack[u][i]) => stack[u][i].s # s
    BY <2>2
  <2>5. QED
    BY <2>3, <2>4 DEF Running
<1> HIDE DEF n, s
<1>6. TypeOK'
  <2>1. answers' \in [Steps -> SUBSET Results]
    BY <1>1 DEF Answer, WaterfallInv, TypeOK, s
  <2>2. QED
    BY <1>2, <2>1 DEF WaterfallInv, TypeOK, Answered
<1>7. OneRunner'
  <2> SUFFICES ASSUME NEW u \in Threads, NEW w \in Threads,
                      NEW i \in 1..Len(stack'[u]), NEW j \in 1..Len(stack'[w])
               PROVE  /\ Running(stack'[u][i]) => phase'[stack'[u][i].s] = "started"
                      /\ /\ Running(stack'[u][i]) /\ Running(stack'[w][j])
                         /\ stack'[u][i].s = stack'[w][j].s
                         => u = w /\ i = j
    BY DEF OneRunner
  <2>1. /\ i \in 1..Len(stack[u]) /\ j \in 1..Len(stack[w])
        /\ stack'[u][i].s = stack[u][i].s /\ stack'[w][j].s = stack[w][j].s
        /\ Running(stack'[u][i]) => Running(stack[u][i]) /\ stack[u][i].s # s
        /\ Running(stack'[w][j]) => Running(stack[w][j])
    BY <1>3, <1>5
  <2>2. QED
    BY <1>4, <2>1 DEF WaterfallInv, OneRunner, s
<1>8. WalksDown'
  <2> SUFFICES ASSUME NEW u \in Threads, NEW i \in 1..Len(stack'[u])
               PROVE  LET g == stack'[u][i] IN
                      /\ g.at \in {"fn", "next"} => g.s # Final
                      /\ i < Len(stack'[u]) =>
                           /\ g.at \in {"fn", "settle"} /\ g.s # Final
                           /\ stack'[u][i + 1].s = g.s + 1
    BY DEF WalksDown
  <2>1. /\ i \in 1..Len(stack[u]) /\ i \in Nat
        /\ stack'[u][i].at = stack[u][i].at /\ stack'[u][i].s = stack[u][i].s
    BY <1>3, <1>5
  <2>2. ASSUME i < Len(stack'[u])
        PROVE  i < Len(stack[u]) /\ stack'[u][i + 1].s = stack[u][i + 1].s
    <3>1. i + 1 \in 1..Len(stack'[u])
      BY <1>6, <2>1, <2>2, TypingPrime
    <3>2. stack'[u][i + 1].s = stack[u][i + 1].s
      BY <1>5, <3>1
    <3>3. i + 1 \in 1..Len(stack[u])
      BY <1>3, <3>1
    <3>4. QED
      BY <1>1, <2>1, <3>2, <3>3
  <2>3. QED
    BY <2>1, <2>2 DEF WaterfallInv, WalksDown
<1>9. Fresh'
  <2>1. \A r \in Steps : phase'[r] = "new" => runs'[r] = 0 /\ r \notin failed'
    BY <1>1 DEF WaterfallInv, Fresh, s
  <2> SUFFICES ASSUME NEW u \in Threads, NEW i \in 1..Len(stack'[u])
               PROVE  LET g == stack'[u][i] IN
                      /\ g.at = "run" => runs'[g.s] = 0 /\ g.s \notin failed'
                      /\ g.at = "fn" => g.s \notin failed'
    BY <2>1 DEF Fresh
  <2>2. /\ i \in 1..Len(stack[u])
        /\ stack'[u][i].at = stack[u][i].at /\ stack'[u][i].s = stack[u][i].s
    BY <1>3, <1>5
  <2>3. QED
    BY <2>2 DEF WaterfallInv, Fresh
<1>10. TakesAnswer'
  <2> SUFFICES ASSUME NEW u \in Threads, stack'[u] # <<>>
               PROVE  LET g == stack'[u][Len(stack'[u])] IN
                      g.at = "settle" /\ g.s \in failed' =>
                        /\ phase'[g.s + 1] = "finished"
                        /\ g.value = result'[g.s + 1]
    BY DEF TakesAnswer
  <2> DEFINE m == Len(stack'[u])
  <2>1. m \in 1..m /\ m \in 1..Len(stack[u]) /\ stack[u] # <<>>
    <3>1. m \in 1..m
      BY <1>6, TypingPrime
    <3>2. m \in 1..Len(stack[u]) /\ Len(stack[u]) \in Nat
      BY <1>1, <1>3, <3>1
    <3>3. QED
      BY <3>1, <3>2, EmptySeq
  <2>2. CASE u = t
    <3>1. m = n - 1 /\ n \in Nat
      BY <1>1, <1>2, <2>2 DEF Answered, n
    <3>2. stack[t][m].s + 1 = s
      BY <1>1, <2>1, <2>2, <3>1 DEF WaterfallInv, WalksDown, n, s
    <3>3. stack'[u][m].value = v /\ stack'[u][m].s = stack[t][m].s
      <4>1. PICK g \in Frames : g = stack[t][m]
        BY <1>4, <2>1, <2>2
      <4>2. stack'[u][m] = [g EXCEPT !.value = v]
        BY <1>3, <2>1, <2>2, <3>1, <4>1
      <4>3. [g EXCEPT !.value = v].value = v /\ [g EXCEPT !.value = v].s = g.s
        BY DEF Frames
      <4>4. QED
        BY <4>1, <4>2, <4>3
    <3>4. QED
      BY <3>2, <3>3 DEF s
  <2>3. CASE u # t
    <3>1. /\ m = Len(stack[u]) /\ stack'[u][m] = stack[u][m]
      BY <1>2, <2>1, <2>3 DEF Answered
    <3>2. \A r \in failed : r + 1 \in Steps
      BY DEF WaterfallInv, TypeOK, Steps
    <3>3. QED
      BY <2>1, <3>1, <3>2 DEF WaterfallInv, TakesAnswer
  <2>4. QED
    BY <2>2, <2>3
<1>11. QED
  BY <1>6, <1>7, <1>8, <1>9, <1>10

\* A caller that finds the step finished, or has waited for it.
LEMMA AnswerStep ==
    ASSUME WaterfallInv, NEW t \in Threads, In(t, "call") \/ In(t, "wait"),
           phase[Top(t).s] = "finished", Answer(t, result[Top(t).s]),
           UNCHANGED <<phase, result, kept, runs, failed, begun>>
    PROVE  WaterfallInv'
<1> DEFINE s == Top(t).s
<1>1. stack[t] # <<>> /\ s \in Steps /\ result[s] \in Results
  BY TopFacts DEF In, WaterfallInv, TypeOK
<1>2. \A u \in Threads : \A i \in 1..Len(stack[u]) :
        Running(stack[u][i]) => stack[u][i].s # s
  BY DEF WaterfallInv, OneRunner
<1>3. TypeOK' /\ OneRunner' /\ WalksDown' /\ Fresh' /\ TakesAnswer'
  BY <1>1, <1>2, AnswerKeeps DEF WaterfallInv, TypeOK
<1>4. SameAnswer'
  <2>1. answers \in [Steps -> SUBSET Results]
    BY DEF WaterfallInv, TypeOK
  <2>2. answers' = [answers EXCEPT ![s] = @ \cup {result[s]}]
    BY DEF Answer
  <2>3. QED
    BY <1>1, <2>1, <2>2 DEF WaterfallInv, SameAnswer
<1>5. RunsOnce' /\ FailureIsTransparent'
  BY DEF WaterfallInv, RunsOnce, FailureIsTransparent
<1>6. QED
  BY <1>3, <1>4, <1>5 DEF WaterfallInv

\* The runner publishes the result of its step, which nobody was given before.
LEMMA SettleStep ==
    ASSUME WaterfallInv, NEW t \in Threads, Settle(t)
    PROVE  WaterfallInv'
<1> DEFINE s == Top(t).s
           v == Top(t).value
<1>1. /\ stack[t] # <<>> /\ Top(t).at = "settle" /\ Running(Top(t))
      /\ phase[s] = "started" /\ s \in Steps /\ v \in Results
      /\ Top(t) = stack[t][Len(stack[t])]
  BY TopFacts DEF Settle, In, Running, Frames
<1>2. /\ phase \in [Steps -> {"new", "started", "finished"}]
      /\ result \in [Steps -> Results]
      /\ phase' = [phase EXCEPT ![s] = "finished"]
      /\ result' = [result EXCEPT ![s] = v]
  BY DEF Settle, WaterfallInv, TypeOK
<1>3. \A u \in Threads : \A i \in 1..Len(stack[u]) :
        Running(stack[u][i]) /\ ~(u = t /\ i = Len(stack[t])) =>
            stack[u][i].s # s
  BY <1>1, TopFacts DEF WaterfallInv, OneRunner
<1>4. Answer(t, v) /\ UNCHANGED <<kept, runs, failed, begun>>
  BY DEF Settle
<1> HIDE DEF s, v
<1>5. /\ phase' \in [Steps -> {"new", "started", "finished"}]
      /\ result' \in [Steps -> Results]
      /\ phase'[s] = "finished" /\ result'[s] = v
      /\ \A r \in Steps \ {s} : phase'[r] = phase[r] /\ result'[r] = result[r]
      /\ \A r \in Steps : phase[r] = "finished" =>
           phase'[r] = "finished" /\ result'[r] = result[r]
  BY <1>1, <1>2
<1>6. TypeOK' /\ OneRunner' /\ WalksDown' /\ Fresh' /\ TakesAnswer'
  BY <1>1, <1>3, <1>4, <1>5, AnswerKeeps DEF s
<1>7. RunsOnce'
  BY <1>4 DEF WaterfallInv, RunsOnce
<1>8. SameAnswer'
  <2>1. answers \in [Steps -> SUBSET Results]
    BY DEF WaterfallInv, TypeOK
  <2>2. answers' = [answers EXCEPT ![s] = @ \cup {v}]
    BY <1>4 DEF Answer, s
  <2>3. answers[s] = {}
    BY <1>1 DEF WaterfallInv, SameAnswer
  <2>4. QED
    BY <1>1, <1>5, <2>1, <2>2, <2>3 DEF WaterfallInv, SameAnswer
<1>9. FailureIsTransparent'
  <2> SUFFICES ASSUME NEW r \in failed, phase'[r] = "finished"
               PROVE  phase'[r + 1] = "finished" /\ result'[r] = result'[r + 1]
    BY <1>4 DEF FailureIsTransparent
  <2>1. r \in Steps /\ r + 1 \in Steps /\ r # r + 1
    BY DEF WaterfallInv, TypeOK, Steps
  <2>2. CASE r = s
    <3>1. phase[r + 1] = "finished" /\ v = result[r + 1]
      BY <1>1, <2>2 DEF WaterfallInv, TakesAnswer, s, v
    <3>2. QED
      BY <1>5, <2>1, <2>2, <3>1
  <2>3. CASE r # s
    <3>1. phase[r + 1] = "finished" /\ result[r] = result[r + 1]
      BY <1>5, <2>1, <2>3 DEF WaterfallInv, FailureIsTransparent
    <3>2. QED
      BY <1>5, <2>1, <2>3, <3>1
  <2>4. QED
    BY <2>2, <2>3
<1>10. QED
  BY <1>6, <1>7, <1>8, <1>9 DEF WaterfallInv

----------------------------------------------------------------------------
(* The theorems. *)

LEMMA WaterfallInit == Init => WaterfallInv
<1> SUFFICES ASSUME Init
             PROVE  WaterfallInv
  OBVIOUS
<1>1. TypeOK
  BY EmptySeq DEF Init, TypeOK, Results
<1>2. \A t \in Threads : stack[t] = <<>> /\ Len(stack[t]) = 0
  BY EmptySeq DEF Init
<1>3. OneRunner /\ WalksDown /\ Fresh /\ TakesAnswer
  BY <1>2 DEF OneRunner, WalksDown, Fresh, TakesAnswer, Init
<1>4. RunsOnce /\ SameAnswer /\ FailureIsTransparent
  BY DEF RunsOnce, SameAnswer, FailureIsTransparent, Init
<1>5. QED
  BY <1>1, <1>3, <1>4 DEF WaterfallInv

LEMMA WaterfallNext == WaterfallInv /\ [Next]_vars => WaterfallInv'
<1> SUFFICES ASSUME WaterfallInv, [Next]_vars
             PROVE  WaterfallInv'
  OBVIOUS
<1>1. ASSUME NEW t \in Threads, Begin(t)
      PROVE  WaterfallInv'
  BY <1>1, BeginStep
<1>2. ASSUME NEW t \in Threads, NEW s \in Steps, Resume(t, s)
      PROVE  WaterfallInv'
  BY <1>2, ResumeStep
<1>3. ASSUME NEW t \in Threads, CallStep(t)
      PROVE  WaterfallInv'
  <2>1. CASE phase[Top(t).s] = "finished" /\ phase' = phase
             /\ Answer(t, result[Top(t).s])
    BY <1>3, <2>1, AnswerStep DEF CallStep
  <2>2. CASE phase' = phase /\ Goto(t, "wait") /\ UNCHANGED answers
    BY <1>3, <2>2, CallWaitStep DEF CallStep
  <2>3. CASE /\ phase[Top(t).s] = "new"
             /\ phase' = [phase EXCEPT ![Top(t).s] = "started"]
             /\ Goto(t, "run") /\ UNCHANGED answers
    BY <1>3, <2>3, CallNewStep DEF CallStep
  <2>4. QED
    BY <1>3, <2>1, <2>2, <2>3 DEF CallStep
<1>4. ASSUME NEW t \in Threads, Await(t)
      PROVE  WaterfallInv'
  BY <1>4, AnswerStep DEF Await
<1>5. ASSUME NEW t \in Threads, Settle(t)
      PROVE  WaterfallInv'
  BY <1>5, SettleStep
<1>6. ASSUME NEW t \in Threads, RunListener(t)
      PROVE  WaterfallInv'
  BY <1>6, RunListenerStep
<1>7. ASSUME NEW t \in Threads, RunFinal(t)
      PROVE  WaterfallInv'
  BY <1>7, RunFinalStep
<1>8. ASSUME NEW t \in Threads, CallNext(t)
      PROVE  WaterfallInv'
  BY <1>8, CallNextStep
<1>9. ASSUME NEW t \in Threads, KeepNext(t)
      PROVE  WaterfallInv'
  BY <1>9, KeepNextStep
<1>10. ASSUME NEW t \in Threads, ListenerReturns(t)
       PROVE  WaterfallInv'
  BY <1>10, ListenerReturnsStep
<1>11. ASSUME NEW t \in Threads, ListenerPanics(t)
       PROVE  WaterfallInv'
  BY <1>11, ListenerPanicsStep
<1>12. ASSUME NEW t \in Threads, Continue(t)
       PROVE  WaterfallInv'
  BY <1>12, ContinueStep
<1>13. CASE UNCHANGED vars
  BY <1>13, StutterStep
<1>14. QED
  BY <1>1, <1>2, <1>3, <1>4, <1>5, <1>6, <1>7, <1>8, <1>9, <1>10, <1>11,
     <1>12, <1>13 DEF Next, Proceed, Stop

\* The state of a waterfall dispatch keeps its type, and the inductive
\* invariant: one runner per step, stacks that walk down the chain.
THEOREM WaterfallInvariant == Spec => []WaterfallInv
  BY WaterfallInit, WaterfallNext, PTL DEF Spec

\* "No listener or final can run twice" in one dispatch, whatever listeners do
\* with their next (waterfallStep.call).
THEOREM EveryStepRunsOnce == Spec => []RunsOnce
<1>1. WaterfallInv => RunsOnce
  BY DEF WaterfallInv
<1>2. QED
  BY <1>1, WaterfallInvariant, PTL

\* Every caller of a next gets the one result of its step, and none before the
\* step has finished (waterfallStep.call).
THEOREM CallersAgree == Spec => []SameAnswer
<1>1. WaterfallInv => SameAnswer
  BY DEF WaterfallInv
<1>2. QED
  BY <1>1, WaterfallInvariant, PTL

\* A listener that was skipped or panicked hands on the result of the rest of
\* the chain (waterfallStep.run).
THEOREM FailuresAreTransparent == Spec => []FailureIsTransparent
<1>1. WaterfallInv => FailureIsTransparent
  BY DEF WaterfallInv
<1>2. QED
  BY <1>1, WaterfallInvariant, PTL
=============================================================================
