SPECIFICATION FairSpec
CONSTANTS
    Fd = {f1}
    Coroutine = {c1, c2, c3}
    NoCoroutine = NoCoroutine
    NoWait = NoWait
    Exclusive = {}
INVARIANTS TypeOK WaitersAreKept EpollAgrees NoEdgeLost
PROPERTIES ReadyIsResumed
