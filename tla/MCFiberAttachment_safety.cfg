SPECIFICATION Spec
CONSTANTS
    Threads = {t1, t2, t3}
    MaxFibers = 2
SYMMETRY Symmetry
INVARIANTS
    OneRuntime
    NoOrphanFiber
    SlotReleased
CHECK_DEADLOCK FALSE
