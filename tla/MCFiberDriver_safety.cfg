SPECIFICATION Spec
CONSTANTS
    Threads = {t1, t2, t3}
    Configs = {c1, c2}
    NoConfig = NoConfig
    MaxBindings = 3
    MaxStray = 1
SYMMETRY Symmetry
INVARIANTS
    SettlingInv
    SingleOwner
    OneGeneration
    EffectsUnderGeneration
    Settled
PROPERTIES
    DisposeWins
    RefinesLifecycle
CHECK_DEADLOCK FALSE
