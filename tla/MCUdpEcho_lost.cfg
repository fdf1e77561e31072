SPECIFICATION UdpSpec
CONSTANTS
    Socket = socket
    Fd = {socket}
    Loop = loop
    Handler = {h1, h2, h3}
    Coroutine = {loop, h1, h2, h3}
    Datagram = {d1, d2, d3}
    NoCoroutine = NoCoroutine
    NoWait = NoWait
    Exclusive = {}
    MaxRoom = 1
PROPERTIES SendCompletes
CHECK_DEADLOCK FALSE
