SPECIFICATION FairSpec
CONSTANTS
    Poster = {p1, p2}
    LoopThread = loop
    Callback = {c1, c2, c3}
    Coroutine = {t1}
    NoCallback = NoCallback
    NoThread = NoThread
    MaxCount = 2
INVARIANTS TypeOK NoLostWakeup
PROPERTIES OnlyFinishedDestroyed PromiseSpec PostedIsTaken StopEndsRun FinishedIsDestroyed
