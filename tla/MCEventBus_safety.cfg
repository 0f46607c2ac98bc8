SPECIFICATION Spec
CONSTANTS
    Threads = {t1, t2, t3}
    Listeners = {once, plain}
    OnceListeners = {once}
    InScope = {once}
    MaxDispatches = 2
SYMMETRY Symmetry
INVARIANTS
    OnceRunsOnce
    RetiredLeavesNothing
    BusMatchesTree
    ParallelJoins
    WaitsEnd
