SPECIFICATION FairSpec
CONSTANTS
    Worker = {w1, w2, w3}
    Caller = {owner, c1}
    Owner = owner
    Job = {j1, j2, j3}
    NoJob = NoJob
    NoThread = NoThread
INVARIANTS TypeOK WorkConserving StopNotLost
PROPERTIES ExecutorSpec AcceptedIsRun StopEndsWorkers
