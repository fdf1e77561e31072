SPECIFICATION UdpSpec
CONSTANTS
    Socket = socket
    Fd = {socket}
    Loop = loop
    Handler = {h1, h2}
    Coroutine = {loop, h1, h2}
    Datagram = {d1, d2}
    NoCoroutine = NoCoroutine
    NoWait = NoWait
    Exclusive = {}
    MaxRoom = 1
INVARIANTS BatchEchoIsFaithful
CHECK_DEADLOCK FALSE
