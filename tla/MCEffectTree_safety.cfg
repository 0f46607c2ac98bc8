SPECIFICATION Spec
CONSTANTS
    Threads = {t1, t2, t3}
    MaxEffects = 3
SYMMETRY Symmetry
INVARIANTS
    AtMostOnce
    ReleaseIsComplete
    TeardownIsComplete
    NoOrphan
    OwnersOrder
    WaitsEnd
