SPECIFICATION Spec
CONSTANTS
    Threads = {t1, t2}
    Configs = {c1}
    NoConfig = NoConfig
    MaxBindings = 2
    MaxStray = 1
INVARIANT EveryEffectUnwound
CHECK_DEADLOCK FALSE
