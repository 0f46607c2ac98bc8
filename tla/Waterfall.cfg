SPECIFICATION FairSpec
CONSTANTS
    Threads = {t1, t2, t3}
    Size = 2
    Values = {v1}
    Nil = Nil
    MaxNext = 2
INVARIANTS
    RunsOnce
    SameAnswer
    FailureIsTransparent
PROPERTY CallsReturn
