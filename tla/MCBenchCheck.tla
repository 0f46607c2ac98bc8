---------------------------- MODULE MCBenchCheck ----------------------------
(* BenchCheck for TLC: two benchmarks, one of them printed with and without
   GOMAXPROCS, 100ns as the unit, an allocation more or less. *)
EXTENDS BenchCheck

CONSTANTS get, set, n8, core, loader, linux

Result1(name, time, allocs) ==
    [kind |-> "bench", name |-> name, time |-> time, allocs |-> allocs]

MCLines ==
    {Result1(<<get>>, 2, 0), Result1(<<get, n8>>, 3, 0), Result1(<<get>>, 6, 1),
     Result1(<<set>>, 0, 1), Result1(<<set, n8>>, 3, 0),
     [kind |-> "pkg", value |-> core], [kind |-> "pkg", value |-> loader],
     [kind |-> "platform", value |-> linux], [kind |-> "bad"]}

MCOptions ==
    [tolerance : {50}, floor : {1}, ignore : {{}, {<<set>>}},
     gateTime : BOOLEAN, force : BOOLEAN, allowMissing : BOOLEAN]
=============================================================================
