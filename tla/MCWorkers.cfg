SPECIFICATION FairSpec
CONSTANTS
    N = 2
    Handler = {h1, h2}
    PoolThread = {p1}
    NoJob = NoJob
INVARIANTS TypeOK NoDanglingUse
PROPERTIES ResumedWithResult OffloadedGoesOn TeardownEnds
CHECK_DEADLOCK FALSE
