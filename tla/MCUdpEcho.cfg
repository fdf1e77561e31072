SPECIFICATION UdpSpec
CONSTANTS
    Socket = socket
    Fd = {socket}
    Loop = loop
    Handler = {h1, h2, h3}
    Coroutine = {loop, h1, h2, h3}
    Datagram = {d1, d2, d3}
    NoCoroutine = NoCoroutine
    NoWait = NoWait
    Exclusive = {}
    MaxRoom = 1
INVARIANTS DatagramInOnePlace LoopEchoIsFaithful
PROPERTIES LoopAnswersAll LoopKeepsReceiving
CHECK_DEADLOCK FALSE
