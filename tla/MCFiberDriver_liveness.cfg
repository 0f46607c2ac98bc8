SPECIFICATION FairSpec
CONSTANTS
    Threads = {t1, t2}
    Configs = {c1}
    NoConfig = NoConfig
    MaxBindings = 2
    MaxStray = 0
PROPERTIES
    DisposeCompletes
    CallsReturn
CHECK_DEADLOCK FALSE
