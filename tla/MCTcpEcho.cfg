SPECIFICATION TcpSpec
CONSTANTS
    Acceptor = acceptor
    Listener = listener
    Connection = {f1, f2}
    Fd = {listener, f1, f2}
    Coroutine = {acceptor, f1, f2}
    NoCoroutine = NoCoroutine
    NoWait = NoWait
    Exclusive = {listener, f1, f2}
    MaxClients = 2
    MaxSent = 2
    BufferSize <- BufferSizes
    MaxRoom = 1
INVARIANTS EchoIntact ResumeMeansReady
PROPERTIES ClosedAfterEcho ClientsAreAccepted BytesAreEchoed
CHECK_DEADLOCK FALSE
