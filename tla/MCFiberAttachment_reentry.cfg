SPECIFICATION Spec
CONSTANTS
    Threads = {t1, t2}
    MaxFibers = 1
INVARIANT NoReentrantRelease
CHECK_DEADLOCK FALSE
