SPECIFICATION ProxyFairSpec
CONSTANTS
    Fd = {"client", "backend"}
    Coroutine = {"session", "up", "down"}
    NoCoroutine = NoCoroutine
    NoWait = NoWait
    Exclusive = {}
    MaxSent = 2
    BufferSize = 2
    MaxRoom = 1
INVARIANTS StreamIntact
PROPERTIES BytesArrive HangupClosesBoth FailureClosesClient
CHECK_DEADLOCK FALSE
