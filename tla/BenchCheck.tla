----------------------------- MODULE BenchCheck -----------------------------
(***************************************************************************)
(* The benchmark gate (cmd/benchcheck): two outputs of go test -bench are  *)
(* parsed and compared, and the exit status says whether something         *)
(* regressed.                                                              *)
(*                                                                         *)
(* A step is one line of a file, or one stage of run.  Times are natural   *)
(* numbers; where the code halves (the median) the model doubles, and      *)
(* where it divides to get a percentage the model multiplies, so that a    *)
(* baseline of 0ns gives what the floating-point infinity gives.  A name   *)
(* is the sequence of its parts between dashes.                            *)
(***************************************************************************)
EXTENDS Integers, SequencesExt, TLC

CONSTANTS
    Lines,       \* the lines that occur in the files
    Numbers,     \* the parts of a name that are numbers
    Options,     \* settings of the flags
    NoPackage,   \* the package before the first pkg: line
    MaxBase, MaxCurrent   \* bounds: lines of the baseline, of the current run

ASSUME BenchAssumption ==
    /\ MaxBase \in Nat /\ MaxCurrent \in Nat
    /\ \A o \in Options : o.tolerance \in Nat /\ o.floor \in Nat

VARIABLES
    options,     \* the flags
    phase,       \* the file being read, or the stage of run
    text,        \* the lines read so far of each file
    parsed,      \* benchmarkFile and its collectors, for each file
    changes,     \* what compare found
    status       \* exit status, once there is one

vars == <<options, phase, text, parsed, changes, status>>

Files == {"base", "current"}
Running == -1
Bound == [base |-> MaxBase, current |-> MaxCurrent]

Bench == {l \in Lines : l.kind = "bench"}

\* normalizeName: a number at the end is taken for GOMAXPROCS and dropped.
NormalizeName(name) ==
    IF Len(name) > 1 /\ Last(name) \in Numbers THEN Front(name) ELSE name

Names == {NormalizeName(l.name) : l \in Bench}

\* Nothing collected yet.
EmptyFile ==
    [package |-> NoPackage, platform |-> NoPackage, order |-> <<>>,
     repeats |-> [n \in Names |-> [package |-> NoPackage, times |-> <<>>, allocs |-> <<>>]]]

Init ==
    /\ options \in Options
    /\ phase = "base"
    /\ text = [f \in Files |-> <<>>]
    /\ parsed = [f \in Files |-> EmptyFile]
    /\ changes = <<>>
    /\ status = Running

Exit(code) == status' = code /\ phase' = "exited"

----------------------------------------------------------------------------
(* parseBenchmarkFile. *)

\* A header applies to the lines that follow, a platform to the whole file.
Header(file, line) ==
    IF line.kind = "pkg" THEN [file EXCEPT !.package = line.value]
    ELSE [file EXCEPT !.platform = line.value]

\* One more repeat of a benchmark.
Collect(file, line) ==
    LET n == NormalizeName(line.name) IN
    IF file.repeats[n].times = <<>>
    THEN [file EXCEPT !.order = Append(@, n),
                      !.repeats[n] = [package |-> file.package, times |-> <<line.time>>,
                                      allocs |-> <<line.allocs>>]]
    ELSE [file EXCEPT !.repeats[n].times = Append(@, line.time),
                      !.repeats[n].allocs = Append(@, line.allocs)]

\* Mutant: a name of another package counts as one more repeat.
AcceptsAnyPackage(file, line) == TRUE

\* Two benchmarks of one name would be merged.
Accepts(file, line) ==
    LET n == NormalizeName(line.name) IN
    file.repeats[n].times = <<>> \/ file.repeats[n].package = file.package

ReadLine(line) ==
    /\ phase \in Files /\ Len(text[phase]) < Bound[phase]
    /\ text' = [text EXCEPT ![phase] = Append(@, line)]
    /\ \/ /\ line.kind \in {"pkg", "platform"}
          /\ parsed' = [parsed EXCEPT ![phase] = Header(@, line)]
          /\ UNCHANGED <<phase, status>>
       \/ /\ line.kind = "bench" /\ Accepts(parsed[phase], line)
          /\ parsed' = [parsed EXCEPT ![phase] = Collect(@, line)]
          /\ UNCHANGED <<phase, status>>
       \/ /\ line.kind = "bench" /\ ~Accepts(parsed[phase], line)
          /\ parsed' = parsed /\ Exit(2)
       \/ /\ line.kind = "bad"     \* a result line whose number does not parse
          /\ parsed' = parsed /\ Exit(2)
    /\ UNCHANGED <<options, changes>>

EndOfFile ==
    /\ phase \in Files
    /\ phase' = IF phase = "base" THEN "current" ELSE "check"
    /\ UNCHANGED <<options, text, parsed, changes, status>>

\* The result of a benchmark over its repeats, times doubled.
Doubled(times) ==
    LET sorted == SortSeq(times, <)
        middle == Len(times) \div 2
    IN  IF Len(times) % 2 = 1 THEN 2 * sorted[middle + 1]
        ELSE sorted[middle] + sorted[middle + 1]

Result(f, n) ==
    LET times == parsed[f].repeats[n].times IN
    [nsPerOp  |-> Doubled(times),
     bestNs   |-> 2 * Min(ToSet(times)),
     worstNs  |-> 2 * Max(ToSet(times)),
     allocsOp |-> Max(ToSet(parsed[f].repeats[n].allocs))]

----------------------------------------------------------------------------
(* compare. *)

Measured(f) == ToSet(parsed[f].order)

\* A difference of doubled times counts beyond the floor and the tolerance.
Beyond(difference, reference) ==
    /\ difference > 2 * options.floor
    /\ 100 * difference > options.tolerance * reference

\* Mutant: time is looked at first.
VerdictTimeFirst(n) ==
    IF n \notin Measured("base") THEN "new"
    ELSE IF n \notin Measured("current") THEN "missing"
    ELSE LET b == Result("base", n)
             c == Result("current", n)
         IN  IF Beyond(c.nsPerOp - b.worstNs, b.worstNs) THEN "slower"
             ELSE IF Beyond(b.bestNs - c.nsPerOp, b.bestNs) THEN "faster"
             ELSE IF c.allocsOp > b.allocsOp THEN "more allocs"
             ELSE "same"

Verdict(n) ==
    IF n \notin Measured("base") THEN "new"
    ELSE IF n \notin Measured("current") THEN "missing"
    ELSE LET b == Result("base", n)
             c == Result("current", n)
         IN  IF c.allocsOp > b.allocsOp THEN "more allocs"
             ELSE IF Beyond(c.nsPerOp - b.worstNs, b.worstNs) THEN "slower"
             ELSE IF Beyond(b.bestNs - c.nsPerOp, b.bestNs) THEN "faster"
             ELSE "same"

Ignored(n) == \E prefix \in options.ignore : IsPrefix(prefix, n)

Classify(n) == [name |-> n, verdict |-> Verdict(n), ignored |-> Ignored(n)]

\* Files without results and files of two platforms are not compared.
Refused ==
    \/ \E f \in Files : Measured(f) = {}
    \/ ~options.force /\ parsed["base"].platform # parsed["current"].platform

Compare ==
    /\ phase = "check"
    /\ IF Refused THEN changes' = changes /\ Exit(2)
       ELSE /\ LET names == parsed["base"].order \o
                            SelectSeq(parsed["current"].order,
                                      LAMBDA n : n \notin Measured("base"))
               IN  changes' = [i \in DOMAIN names |-> Classify(names[i])]
            /\ phase' = "report" /\ status' = status
    /\ UNCHANGED <<options, text, parsed>>

----------------------------------------------------------------------------
(* report, and the exit status. *)

\* Mutant: what -ignore excludes is counted all the same.
CountedIgnored(verdicts) == {c \in ToSet(changes) : c.verdict \in verdicts}

Counted(verdicts) == {c \in ToSet(changes) : ~c.ignored /\ c.verdict \in verdicts}

Report ==
    /\ phase = "report"
    /\ LET regressions == Counted(IF options.gateTime THEN {"more allocs", "slower"}
                                  ELSE {"more allocs"})
           missing == IF options.allowMissing THEN {} ELSE Counted({"missing"})
       IN  Exit(IF regressions \cup missing # {} THEN 1 ELSE 0)
    /\ UNCHANGED <<options, text, parsed, changes>>

Exited == phase = "exited" /\ UNCHANGED vars

Next ==
    \/ \E line \in Lines : ReadLine(line)
    \/ EndOfFile \/ Compare \/ Report \/ Exited

Spec == Init /\ [][Next]_vars

TypeOK ==
    /\ options \in Options /\ phase \in Files \cup {"check", "report", "exited"}
    /\ text \in [Files -> Seq(Lines)]
    /\ status \in {Running, 0, 1, 2}

----------------------------------------------------------------------------
(* What the exit status promises, in terms of the lines of the files. *)

\* The repeats of a benchmark, whatever GOMAXPROCS its lines were printed with.
Repeats(f, n) == {l \in ToSet(text[f]) \cap Bench : NormalizeName(l.name) = n}

Gated(n) == Repeats("base", n) # {} /\ ~Ignored(n)
Slower(c, b) == Beyond(2 * (c.time - b.time), 2 * b.time)

\* "The exit status is part of the interface: 0 when nothing regressed": no
\* benchmark of the baseline has gone, allocates more than it ever did, or, if
\* time is gated, has become slower in every repeat, unless a flag allows it
\* (classify, report).
NothingSlips ==
    status = 0 => \A n \in Names : Gated(n) =>
        /\ Repeats("current", n) # {} \/ options.allowMissing
        /\ \A c \in Repeats("current", n) : \E b \in Repeats("base", n) :
             c.allocs <= b.allocs
        /\ options.gateTime /\ Repeats("current", n) # {} =>
             \E c \in Repeats("current", n), b \in Repeats("base", n) : ~Slower(c, b)

\* "1 on a regression or a missing benchmark", and only then: noise below the
\* floor or the tolerance, a repeat inside the band of the baseline, new and
\* ignored benchmarks fail nothing (classify, report).
NoFalseAlarm ==
    status = 1 => \E n \in Names :
        /\ Gated(n)
        /\ \/ Repeats("current", n) = {} /\ ~options.allowMissing
           \/ \E c \in Repeats("current", n) : \A b \in Repeats("base", n) :
                \/ c.allocs > b.allocs
                \/ options.gateTime /\ Slower(c, b)

\* The header in force at line i of a file, and the last one of the file.
Headers(f, kind, i) == {j \in 1..i : text[f][j].kind = kind}
InForce(f, kind, i) ==
    IF Headers(f, kind, i) = {} THEN NoPackage
    ELSE text[f][Max(Headers(f, kind, i))].value

\* Only what belongs together is compared: otherwise the status is 2.  No
\* result stands for two benchmarks of one name, and the two files come from
\* one platform unless -force says otherwise (parseBenchmarkFile, run).
OnlyComparable ==
    status \in {0, 1} =>
        /\ \A f \in Files : \A i, j \in DOMAIN text[f] :
             text[f][i].kind = "bench" /\ text[f][j].kind = "bench"
             /\ NormalizeName(text[f][i].name) = NormalizeName(text[f][j].name) =>
                InForce(f, "pkg", i) = InForce(f, "pkg", j)
        /\ \/ options.force
           \/ InForce("base", "platform", Len(text["base"]))
                = InForce("current", "platform", Len(text["current"]))
=============================================================================
