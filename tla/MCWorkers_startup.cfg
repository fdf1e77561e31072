SPECIFICATION Spec
CONSTANTS
    N = 2
    Handler = {h1, h2}
    PoolThread = {p1}
    NoJob = NoJob
PROPERTIES SocketsOfOneThread
CHECK_DEADLOCK FALSE
