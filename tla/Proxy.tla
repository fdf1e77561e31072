--------------------------------- MODULE Proxy ---------------------------------
(***************************************************************************)
(* One session of examples/proxy-server/main.cpp on the event loop of      *)
(* Reactor: handle_session() connects to the backend, spawns one relay()   *)
(* and awaits another, and each relay() copies one direction with          *)
(* TcpSocket::async_read and async_write (include/coro_epoll/tcp.hpp).     *)
(* The two relays share both sockets; the first to end closes them.        *)
(***************************************************************************)
EXTENDS Reactor

CONSTANTS MaxSent,      \* bytes either peer sends in all
          BufferSize,   \* bytes of a relay's buffer
          MaxRoom       \* bytes the kernel buffers towards a peer

ASSUME ProxyAssumption ==
    /\ Fd = {"client", "backend"}
    /\ Coroutine = {"session", "up", "down"}
    /\ Exclusive = {}
    /\ MaxSent \in Nat /\ BufferSize \in Nat \ {0} /\ MaxRoom \in Nat \ {0}

Relay == {"up", "down"}

From(r) == IF r = "up" THEN "client" ELSE "backend"
To(r) == IF r = "up" THEN "backend" ELSE "client"

VARIABLES
    pc,         \* where each coroutine is
    buffer,     \* what each relay has read and not yet sent
    read,       \* how many bytes recv has returned from each socket
    sent,       \* peers: how many bytes each has sent; byte i is the number i
    ended,      \* peers: those that have shut down their side
    failed,     \* sockets with a pending error
    room,       \* kernel: how much more each socket accepts
    delivered   \* the bytes each socket has accepted, in order

relayVars == <<pc, buffer, read>>
peerVars == <<sent, ended, failed, room, delivered>>
proxyVars == <<relayVars, peerVars>>
allVars == <<vars, proxyVars>>

(* The accept loop has just spawned handle_session with a new socket, and  *)
(* spawn() resumes it at once.                                             *)
ProxyInit ==
    /\ IdleLoop
    /\ open = {"client"}
    /\ cond = [f \in Fd |-> IF f = "client" THEN {"out"} ELSE {}]
    /\ stack = <<"session">>
    /\ at = [c \in Coroutine |-> IF c = "session" THEN "user" ELSE "away"]
    /\ pc = [c \in Coroutine |-> IF c = "session" THEN "connect" ELSE "read"]
    /\ buffer = [r \in Relay |-> <<>>]
    /\ read = [f \in Fd |-> 0]
    /\ sent = [f \in Fd |-> 0]
    /\ ended = {} /\ failed = {}
    /\ room = [f \in Fd |-> IF f = "client" THEN MaxRoom ELSE 0]
    /\ delivered = [f \in Fd |-> <<>>]

--------------------------------------------------------------------------------
(* The peers and the kernel.                                               *)

Connected(f) == room[f] > 0 \/ delivered[f] # <<>>

PeerSends(f) ==
    /\ Connected(f) /\ f \notin ended \cup failed /\ sent[f] < MaxSent
    /\ BecomesReady(f, "in")
    /\ sent' = [sent EXCEPT ![f] = @ + 1]
    /\ UNCHANGED <<relayVars, ended, failed, room, delivered>>

PeerEnds(f) ==
    /\ Connected(f) /\ f \notin ended \cup failed
    /\ BecomesReady(f, "in")
    /\ ended' = ended \cup {f}
    /\ UNCHANGED <<relayVars, sent, failed, room, delivered>>

(* The peer makes room for all that is buffered, or the connection to the  *)
(* backend is established.                                                 *)
PeerReads(f) ==
    /\ room[f] < MaxRoom /\ f \notin failed
    /\ BecomesReady(f, "out")
    /\ room' = [room EXCEPT ![f] = MaxRoom]
    /\ UNCHANGED <<relayVars, sent, ended, failed, delivered>>

(* A reset, or a connect that fails.                                       *)
PeerFails(f) ==
    /\ f \notin failed
    /\ BecomesReady(f, "err")
    /\ failed' = failed \cup {f}
    /\ UNCHANGED <<relayVars, sent, ended, room, delivered>>

--------------------------------------------------------------------------------
(* handle_session() and async_connect_to()                                 *)

At(c, label) == Runs(c) /\ pc[c] = label
Goto(c, label) == pc' = [pc EXCEPT ![c] = label]

(* connect() fails at once, and the session with it.                       *)
Connect_Refused ==
    /\ At("session", "connect") /\ "backend" \notin open
    /\ Leave("session")
    /\ Goto("session", "failed")
    /\ UNCHANGED <<buffer, read, peerVars>>

(* EINPROGRESS; connect() that succeeds at once is PeerReads before this.  *)
Connect_Starts ==
    /\ At("session", "connect") /\ "backend" \notin open
    /\ Open("session", "backend")
    /\ UNCHANGED proxyVars

Connect_Waits ==
    /\ At("session", "connect") /\ "backend" \in open
    /\ Await("session", "backend", "out", FALSE)
    /\ Goto("session", "verify")
    /\ UNCHANGED <<buffer, read, peerVars>>

(* SO_ERROR, or an immediate success, decides.                             *)
Connect_Succeeds ==
    /\ At("session", "verify") \/ (At("session", "connect") /\ Connected("backend"))
    /\ "backend" \notin failed
    /\ Goto("session", "spawn")
    /\ UNCHANGED <<vars, buffer, read, peerVars>>

Connect_Fails ==
    /\ At("session", "verify") /\ "backend" \in failed
    /\ stack' = Tail(stack) /\ at' = [at EXCEPT !["session"] = "away"]
    /\ open' = open \ {"backend"} /\ cond' = [cond EXCEPT !["backend"] = {}]
    /\ Goto("session", "failed")
    /\ UNCHANGED <<stateVars, epollVars, wants, loopVars, resume, buffer, read, peerVars>>

(* loop.spawn(relay(client, backend)) runs it to its first suspension.     *)
SpawnUp ==
    /\ At("session", "spawn")
    /\ Enter("up")
    /\ Goto("session", "relay")
    /\ UNCHANGED <<buffer, read, peerVars>>

(* co_await relay(backend, client)                                         *)
AwaitDown ==
    /\ At("session", "relay")
    /\ stack' = <<"down">> \o Tail(stack)
    /\ at' = [at EXCEPT !["session"] = "away", !["down"] = "user"]
    /\ Goto("session", "relaying")
    /\ UNCHANGED <<stateVars, open, cond, epollVars, wants, loopVars, resume, buffer,
                   read, peerVars>>

--------------------------------------------------------------------------------
(* relay(), with async_read and async_write inlined                        *)

StillReady(f, d, yes) == cond' = [cond EXCEPT ![f] = IF yes THEN @ ELSE @ \ {d}]

Unread(f) == sent[f] - read[f]

(* recv returns what there is, at most the buffer.                         *)
Recv(r) ==
    LET f == From(r)
        n == IF Unread(f) < BufferSize THEN Unread(f) ELSE BufferSize
    IN  /\ At(r, "read") /\ f \in open \ failed /\ n > 0
        /\ buffer' = [buffer EXCEPT ![r] = [i \in 1 .. n |-> read[f] + i]]
        /\ read' = [read EXCEPT ![f] = @ + n]
        /\ StillReady(f, "in", n < Unread(f) \/ f \in ended)
        /\ Goto(r, "write")
        /\ UNCHANGED <<stateVars, open, epollVars, coVars, loopVars, resume, peerVars>>

Recv_Waits(r) ==
    LET f == From(r)
    IN  /\ At(r, "read") /\ f \notin failed \cup ended /\ Unread(f) = 0
        /\ Await(r, f, "in", FALSE)
        /\ UNCHANGED proxyVars

(* Deviation: a retry after EAGAIN starts from the front of the buffer.    *)
Send_Restarts(r) ==
    LET f == To(r)
        n == IF Len(buffer[r]) < room[f] THEN Len(buffer[r]) ELSE room[f]
    IN  /\ At(r, "write") /\ f \in open \ failed /\ n > 0
        /\ delivered' = [delivered EXCEPT ![f] = @ \o SubSeq(buffer[r], 1, n)]
        /\ buffer' = [buffer EXCEPT ![r] = IF n < Len(@) THEN @ ELSE <<>>]
        /\ room' = [room EXCEPT ![f] = @ - n]
        /\ StillReady(f, "out", n < room[f])
        /\ IF n = Len(buffer[r]) THEN Goto(r, "read") ELSE UNCHANGED pc
        /\ UNCHANGED <<stateVars, open, epollVars, coVars, loopVars, resume, read, sent,
                       ended, failed>>

(* send accepts what there is room for.                                    *)
Send(r) ==
    LET f == To(r)
        n == IF Len(buffer[r]) < room[f] THEN Len(buffer[r]) ELSE room[f]
    IN  /\ At(r, "write") /\ f \in open \ failed /\ n > 0
        /\ delivered' = [delivered EXCEPT ![f] = @ \o SubSeq(buffer[r], 1, n)]
        /\ buffer' = [buffer EXCEPT ![r] = SubSeq(@, n + 1, Len(@))]
        /\ room' = [room EXCEPT ![f] = @ - n]
        /\ StillReady(f, "out", n < room[f])
        /\ IF n = Len(buffer[r]) THEN Goto(r, "read") ELSE UNCHANGED pc
        /\ UNCHANGED <<stateVars, open, epollVars, coVars, loopVars, resume, read, sent,
                       ended, failed>>

Send_Waits(r) ==
    LET f == To(r)
    IN  /\ At(r, "write") /\ f \notin failed /\ room[f] = 0
        /\ Await(r, f, "out", FALSE)
        /\ UNCHANGED proxyVars

(* End of stream, an error, or EBADF because the other relay has closed    *)
(* the socket in the meantime.                                             *)
Over(r) ==
    \/ At(r, "read") /\ (From(r) \notin open \/ From(r) \in failed)
    \/ At(r, "read") /\ From(r) \in ended /\ Unread(From(r)) = 0
    \/ At(r, "write") /\ (To(r) \notin open \/ To(r) \in failed)

CloseSockets(sockets) ==
    /\ known' = known \ sockets /\ edge' = edge \ sockets
    /\ handle' = [f \in Fd |-> IF f \in sockets THEN NoHandles ELSE handle[f]]
    /\ registered' = registered \ sockets
    /\ interest' = [f \in Fd |-> IF f \in sockets THEN {} ELSE interest[f]]
    /\ et' = et \ sockets /\ ready' = ready \ sockets
    /\ open' = open \ sockets
    /\ cond' = [f \in Fd |-> IF f \in sockets THEN {} ELSE cond[f]]

(* relay() is done, and with "down" the session that awaits it.            *)
Finish(r) ==
    /\ stack' = Tail(stack) /\ at' = [at EXCEPT ![r] = "away"]
    /\ pc' = [c \in Coroutine |->
                 IF c = r \/ (c = "session" /\ r = "down") THEN "done" ELSE pc[c]]
    /\ UNCHANGED <<wants, loopVars, resume, buffer, read, peerVars>>

(* Deviation: relay() closes only the socket it reads from.                *)
CloseBoth_FromOnly(r) == Over(r) /\ CloseSockets({From(r)}) /\ Finish(r)

(* from->close(), to->close(): each remove()s its descriptor from the      *)
(* loop, with whatever handles states_ has for it.                         *)
CloseBoth(r) == Over(r) /\ CloseSockets(Fd) /\ Finish(r)

--------------------------------------------------------------------------------
(* run(): as in Reactor.  compact_finished_tasks destroys a session that   *)
(* could not connect, and with it the client's TcpSocket.                  *)

(* Deviation: finished coroutines are kept.                                *)
ProxyEndPass_Keeps == EndPass /\ UNCHANGED proxyVars

ProxyEndPass ==
    /\ UNCHANGED proxyVars
    /\ IF pc["session"] = "failed" /\ "client" \in open
       THEN /\ lpc \in {"top", "mid"} /\ Suspended
            /\ CloseSockets({"client"})
            /\ UNCHANGED <<coVars, loopVars, resume>>
       ELSE EndPass

LoopMoves ==
    \/ ProxyEndPass
    \/ /\ \/ Resume \/ NextIteration \/ (WaitReturns /\ ~wake')
          \/ \E f \in Fd : Dispatch(f) \/ DispatchUnknown(f)
       /\ UNCHANGED proxyVars

RelayStep(r) == Recv(r) \/ Recv_Waits(r) \/ Send(r) \/ Send_Waits(r) \/ CloseBoth(r)

SessionStep ==
    \/ Connect_Refused \/ Connect_Starts \/ Connect_Waits
    \/ Connect_Succeeds \/ Connect_Fails \/ SpawnUp \/ AwaitDown

PeerStep(f) == PeerSends(f) \/ PeerEnds(f) \/ PeerReads(f) \/ PeerFails(f)

ProxyNext ==
    \/ LoopMoves \/ SessionStep
    \/ \E r \in Relay : RelayStep(r)
    \/ \E f \in Fd : PeerStep(f)

ProxySpec == ProxyInit /\ [][ProxyNext]_allVars

(* The loop thread is scheduled, and both peers keep reading.              *)
ProxyFairness ==
    /\ WF_allVars(LoopMoves \/ SessionStep \/ \E r \in Relay : RelayStep(r))
    /\ \A f \in Fd : WF_allVars(PeerReads(f))

ProxyFairSpec == ProxySpec /\ ProxyFairness

--------------------------------------------------------------------------------
(* Neither relay loses, repeats or reorders a byte, however recv and send  *)
(* split the stream and whatever the other relay does to the sockets.      *)
StreamIntact ==
    \A r \in Relay :
        delivered[To(r)] \o buffer[r] = [i \in 1 .. read[From(r)] |-> i]

(* Every byte is passed on, however the two relays alternate on the two    *)
(* sockets, unless the session ends first.                                 *)
BytesArrive ==
    \A r \in Relay, n \in 1 .. MaxSent :
        sent[From(r)] = n /\ pc["session"] = "relaying" ~>
            Len(delivered[To(r)]) >= n \/ open = {}

(* A peer that ends or fails takes both connections down.                  *)
HangupClosesBoth ==
    \A f \in Fd : f \in ended \cup failed /\ pc["session"] = "relaying" ~> open = {}

(* A session that cannot connect closes its client, although nothing       *)
(* closes it but the destruction of the coroutine.                         *)
FailureClosesClient == pc["session"] = "failed" ~> "client" \notin open

(* main.cpp: "Tear down both sockets so the sibling relay task wakes up    *)
(* and exits."                                                             *)
SiblingExits ==
    pc["up"] = "done" \/ pc["down"] = "done" ~> pc["up"] = "done" /\ pc["down"] = "done"
================================================================================
