SPECIFICATION FairSpec
CONSTANTS
    Threads = {t1, t2, t3}
    Size = 3
    None = None
INVARIANT TypeOK
INVARIANT NoneSkipped
INVARIANT StuckMeansMissed
PROPERTY InOrder
PROPERTY ProgramEnds
CHECK_DEADLOCK FALSE
