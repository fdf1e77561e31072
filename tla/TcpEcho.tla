-------------------------------- MODULE TcpEcho --------------------------------
(***************************************************************************)
(* One worker of the two TCP echo servers on the event loop of Reactor:    *)
(* accept_and_handle() spawns a handle_client() for every connection,      *)
(* which reads, passes what it has read through the thread pool and writes *)
(* it back.  examples/tcp-echo-server accepts and reads level-triggered,   *)
(* examples/tcp-echo-server-et accepts and reads edge-triggered.           *)
(* TcpServer and TcpSocket (include/coro_epoll/tcp.hpp) are inlined.       *)
(***************************************************************************)
EXTENDS Reactor, SequencesExt

CONSTANTS Acceptor,     \* the coroutine accept_and_handle, on ...
          Listener,     \* ... the listening socket
          Connection,   \* the other descriptors, and the coroutines
                        \* handle_client, each named after its socket
          MaxClients,   \* clients that connect, in all
          MaxSent,      \* bytes the clients of open connections send, in all
          BufferSize,   \* bytes of each handler's buffer; all are the same in
                        \* the code, which nothing here depends on
          MaxRoom       \* bytes the kernel buffers towards a client

ASSUME TcpAssumption ==
    /\ {Acceptor, Listener} \cap Connection = {}
    /\ Fd = {Listener} \cup Connection
    /\ Coroutine = {Acceptor} \cup Connection
    /\ MaxClients \in Nat /\ MaxSent \in Nat
    /\ BufferSize \in [Connection -> Nat \ {0}] /\ MaxRoom \in Nat \ {0}

VARIABLES
    batched,    \* it is the edge-triggered server
    stopped,    \* accept_and_handle has called loop.stop()
    pc,         \* where each coroutine is
    sockets,    \* accepted and not yet handed to a handler
    buffer,     \* what each handler has read and not yet written
    read,       \* how many bytes recv has returned on each connection
    clients,    \* how many clients have connected so far
    backlog,    \* kernel: how many of them are not yet accepted
    sent,       \* clients: how many bytes each has sent; byte i is the number i
    ended,      \* clients: those that have shut down their side
    failed,     \* connections with a pending error
    room,       \* kernel: how much more each connection accepts
    delivered   \* the bytes each connection has accepted, in order

serverVars == <<batched, stopped, pc, sockets, buffer, read>>
kernelVars == <<clients, backlog, sent, ended, failed, room, delivered>>
tcpVars == <<serverVars, kernelVars>>
allVars == <<vars, tcpVars>>

(* The acceptor has been posted by main() and is about to run.             *)
TcpInit ==
    /\ IdleLoop
    /\ open = {Listener}
    /\ cond = [f \in Fd |-> {}]
    /\ stack = <<Acceptor>>
    /\ at = [c \in Coroutine |-> IF c = Acceptor THEN "user" ELSE "away"]
    /\ batched \in BOOLEAN
    /\ stopped = FALSE
    /\ pc = [c \in Coroutine |->
                IF c # Acceptor THEN "read" ELSE IF batched THEN "wait" ELSE "accept"]
    /\ sockets = <<>>
    /\ buffer = [f \in Connection |-> <<>>]
    /\ read = [f \in Connection |-> 0]
    /\ clients = 0 /\ backlog = 0
    /\ sent = [f \in Connection |-> 0]
    /\ ended = {} /\ failed = {}
    /\ room = [f \in Connection |-> MaxRoom]
    /\ delivered = [f \in Connection |-> <<>>]

At(c, label) == Runs(c) /\ pc[c] = label
Goto(c, label) == pc' = [pc EXCEPT ![c] = label]

--------------------------------------------------------------------------------
(* The clients and the kernel.                                             *)

ClientConnects ==
    /\ clients < MaxClients
    /\ BecomesReady(Listener, "in")
    /\ clients' = clients + 1 /\ backlog' = backlog + 1
    /\ UNCHANGED <<serverVars, sent, ended, failed, room, delivered>>

Live(f) == f \in open \ (ended \cup failed)

ClientSends(f) ==
    /\ Live(f) /\ MapThenSumSet(LAMBDA g : sent[g], Connection) < MaxSent
    /\ BecomesReady(f, "in")
    /\ sent' = [sent EXCEPT ![f] = @ + 1]
    /\ UNCHANGED <<serverVars, clients, backlog, ended, failed, room, delivered>>

ClientEnds(f) ==
    /\ Live(f)
    /\ BecomesReady(f, "in")
    /\ ended' = ended \cup {f}
    /\ UNCHANGED <<serverVars, clients, backlog, sent, failed, room, delivered>>

ClientReads(f) ==
    /\ room[f] < MaxRoom /\ f \notin failed
    /\ BecomesReady(f, "out")
    /\ room' = [room EXCEPT ![f] = MaxRoom]
    /\ UNCHANGED <<serverVars, clients, backlog, sent, ended, failed, delivered>>

ClientFails(f) ==
    /\ f \notin failed
    /\ BecomesReady(f, "err")
    /\ failed' = failed \cup {f}
    /\ UNCHANGED <<serverVars, clients, backlog, sent, ended, room, delivered>>

StillReady(f, d, yes) == [cond EXCEPT ![f] = IF yes THEN @ ELSE @ \ {d}]

Unread(f) == sent[f] - read[f]

--------------------------------------------------------------------------------
(* accept_and_handle()                                                     *)

(* async_accept_et() waits before it accepts anything.                     *)
AcceptWaitsEdge ==
    /\ At(Acceptor, "wait")
    /\ Await(Acceptor, Listener, "in", TRUE)
    /\ Goto(Acceptor, "accept")
    /\ UNCHANGED <<batched, stopped, sockets, buffer, read, kernelVars>>

(* accept4 returns a new socket; async_accept_et() goes on accepting.      *)
Accept(f) ==
    /\ At(Acceptor, "accept") /\ backlog > 0 /\ f \notin open
    /\ open' = open \cup {f}
    /\ cond' = [StillReady(Listener, "in", backlog > 1) EXCEPT ![f] = {"out"}]
    /\ backlog' = backlog - 1
    /\ sockets' = Append(sockets, f)
    /\ IF batched THEN UNCHANGED pc ELSE Goto(Acceptor, "spawn")
    /\ UNCHANGED <<stateVars, epollVars, coVars, loopVars, resume,
                   batched, stopped, buffer, read, clients,
                   sent, ended, failed, room, delivered>>

(* Deviation: async_accept_fd() awaits writable().                         *)
AcceptAgain_Writable ==
    /\ At(Acceptor, "accept") /\ backlog = 0
    /\ IF batched THEN Goto(Acceptor, "spawn") /\ UNCHANGED vars
       ELSE Await(Acceptor, Listener, "out", FALSE) /\ UNCHANGED pc
    /\ UNCHANGED <<batched, stopped, sockets, buffer, read, kernelVars>>

(* EAGAIN                                                                  *)
AcceptAgain ==
    /\ At(Acceptor, "accept") /\ backlog = 0
    /\ IF batched THEN Goto(Acceptor, "spawn") /\ UNCHANGED vars
       ELSE Await(Acceptor, Listener, "in", FALSE) /\ UNCHANGED pc
    /\ UNCHANGED <<batched, stopped, sockets, buffer, read, kernelVars>>

(* Connections whose sockets are destroyed:                                *)
(* remove() and ::close().  What the kernel has on them goes, too.         *)
CloseAll(fds) ==
    /\ open' = open \ fds
    /\ cond' = [f \in Fd |-> IF f \in fds THEN {} ELSE cond[f]]
    /\ known' = known \ fds /\ edge' = edge \ fds
    /\ handle' = [f \in Fd |-> IF f \in fds THEN NoHandles ELSE handle[f]]
    /\ registered' = registered \ fds /\ et' = et \ fds /\ ready' = ready \ fds
    /\ interest' = [f \in Fd |-> IF f \in fds THEN {} ELSE interest[f]]
    /\ buffer' = [f \in Connection |-> IF f \in fds THEN <<>> ELSE buffer[f]]
    /\ read' = [f \in Connection |-> IF f \in fds THEN 0 ELSE read[f]]
    /\ sent' = [f \in Connection |-> IF f \in fds THEN 0 ELSE sent[f]]
    /\ ended' = ended \ fds /\ failed' = failed \ fds
    /\ room' = [f \in Connection |-> IF f \in fds THEN MaxRoom ELSE room[f]]
    /\ delivered' = [f \in Connection |-> IF f \in fds THEN <<>> ELSE delivered[f]]

(* Any other error, such as EMFILE: the exception destroys the sockets     *)
(* accepted so far and stops the loop.                                     *)
AcceptFails ==
    /\ At(Acceptor, "accept")
    /\ CloseAll(ToSet(sockets))
    /\ sockets' = <<>>
    /\ stopped' = TRUE
    /\ Goto(Acceptor, "done")
    /\ stack' = Tail(stack) /\ at' = [at EXCEPT ![Acceptor] = "away"]
    /\ UNCHANGED <<wants, loopVars, resume, batched, clients, backlog>>

(* Deviation: only the first socket of a batch gets a handler.             *)
SpawnHandler_First ==
    /\ At(Acceptor, "spawn") /\ sockets # <<>>
    /\ Enter(Head(sockets))
    /\ Goto(Head(sockets), "read")
    /\ sockets' = <<>>
    /\ UNCHANGED <<batched, stopped, buffer, read, kernelVars>>

(* spawn(handle_client(socket)), which runs to its first suspension.       *)
SpawnHandler ==
    /\ At(Acceptor, "spawn") /\ sockets # <<>>
    /\ Enter(Head(sockets))
    /\ Goto(Head(sockets), "read")
    /\ sockets' = Tail(sockets)
    /\ UNCHANGED <<batched, stopped, buffer, read, kernelVars>>

AllSpawned ==
    /\ At(Acceptor, "spawn") /\ sockets = <<>>
    /\ Goto(Acceptor, IF batched THEN "wait" ELSE "accept")
    /\ UNCHANGED <<vars, batched, stopped, sockets, buffer, read, kernelVars>>

--------------------------------------------------------------------------------
(* handle_client(), with async_read, async_read_et and async_write inlined *)

(* Deviation: async_read_et() always receives to the front of the buffer.  *)
Recv_AtFront(f) ==
    LET n == IF Unread(f) < BufferSize[f] - Len(buffer[f])
             THEN Unread(f) ELSE BufferSize[f] - Len(buffer[f])
    IN  /\ At(f, "read") /\ f \notin failed /\ n > 0
        /\ buffer' = [buffer EXCEPT ![f] = [i \in 1 .. n |-> read[f] + i]]
        /\ read' = [read EXCEPT ![f] = @ + n]
        /\ cond' = StillReady(f, "in", n < Unread(f) \/ f \in ended)
        /\ IF batched THEN UNCHANGED pc ELSE Goto(f, "submit")
        /\ UNCHANGED <<stateVars, open, epollVars, coVars, loopVars, resume,
                       batched, stopped, sockets, kernelVars>>

(* recv returns what there is and the buffer has space for;                *)
(* async_read_et() goes on receiving behind it.                            *)
Recv(f) ==
    LET n == IF Unread(f) < BufferSize[f] - Len(buffer[f])
             THEN Unread(f) ELSE BufferSize[f] - Len(buffer[f])
    IN  /\ At(f, "read") /\ f \notin failed /\ n > 0
        /\ buffer' = [buffer EXCEPT ![f] = @ \o [i \in 1 .. n |-> read[f] + i]]
        /\ read' = [read EXCEPT ![f] = @ + n]
        /\ cond' = StillReady(f, "in", n < Unread(f) \/ f \in ended)
        /\ IF batched THEN UNCHANGED pc ELSE Goto(f, "submit")
        /\ UNCHANGED <<stateVars, open, epollVars, coVars, loopVars, resume,
                       batched, stopped, sockets, kernelVars>>

(* EAGAIN with nothing read                                                *)
RecvWaits(f) ==
    /\ At(f, "read") /\ f \notin failed \cup ended /\ Unread(f) = 0 /\ buffer[f] = <<>>
    /\ Await(f, f, "in", batched)
    /\ UNCHANGED tcpVars

(* EAGAIN, the end of the stream, or recv with no space left (which is 0,  *)
(* too), after something has been read.                                    *)
RecvReturns(f) ==
    /\ At(f, "read") /\ f \notin failed /\ buffer[f] # <<>>
    /\ Unread(f) = 0 \/ Len(buffer[f]) = BufferSize[f]
    /\ Goto(f, "submit")
    /\ UNCHANGED <<vars, batched, stopped, sockets, buffer, read, kernelVars>>

(* co_await business_pool.submit(...)                                      *)
Submit(f) ==
    /\ At(f, "submit")
    /\ Leave(f)
    /\ Goto(f, "pool")
    /\ UNCHANGED <<batched, stopped, sockets, buffer, read, kernelVars>>

(* The pool's continuation is posted to the loop.                          *)
PoolDone(f) ==
    /\ pc[f] = "pool" /\ Suspended
    /\ Enter(f)
    /\ Goto(f, "write")
    /\ UNCHANGED <<batched, stopped, sockets, buffer, read, kernelVars>>

Send(f) ==
    LET n == IF Len(buffer[f]) < room[f] THEN Len(buffer[f]) ELSE room[f]
    IN  /\ At(f, "write") /\ f \notin failed /\ n > 0
        /\ delivered' = [delivered EXCEPT ![f] = @ \o SubSeq(buffer[f], 1, n)]
        /\ buffer' = [buffer EXCEPT ![f] = SubSeq(@, n + 1, Len(@))]
        /\ room' = [room EXCEPT ![f] = @ - n]
        /\ cond' = StillReady(f, "out", n < room[f])
        /\ IF n = Len(buffer[f]) THEN Goto(f, "read") ELSE UNCHANGED pc
        /\ UNCHANGED <<stateVars, open, epollVars, coVars, loopVars, resume,
                       batched, stopped, sockets, read, clients, backlog, sent,
                       ended, failed>>

SendWaits(f) ==
    /\ At(f, "write") /\ f \notin failed /\ room[f] = 0
    /\ Await(f, f, "out", FALSE)
    /\ UNCHANGED tcpVars

(* Deviation: async_read_et() returns 0 at the end of the stream, whatever *)
(* it has read.                                                            *)
HandlerEnds_AtEof(f) ==
    /\ \/ At(f, "read") /\ (f \in failed \/ (f \in ended /\ Unread(f) = 0))
       \/ At(f, "write") /\ f \in failed
    /\ Leave(f)
    /\ Goto(f, "done")
    /\ UNCHANGED <<batched, stopped, sockets, buffer, read, kernelVars>>

(* The end of the stream or an error.  The socket lives on in the frame.   *)
HandlerEnds(f) ==
    /\ \/ At(f, "read") /\ f \in failed
       \/ At(f, "read") /\ f \in ended /\ Unread(f) = 0 /\ buffer[f] = <<>>
       \/ At(f, "write") /\ f \in failed
    /\ Leave(f)
    /\ Goto(f, "done")
    /\ UNCHANGED <<batched, stopped, sockets, buffer, read, kernelVars>>

--------------------------------------------------------------------------------
(* run(), which ends after the batch in which stop() is called             *)

Finished == {f \in open \cap Connection : pc[f] = "done"}

(* compact_finished_tasks destroys the frames, and their sockets.          *)
Compact ==
    /\ lpc \in {"top", "mid"} /\ Suspended
    /\ CloseAll(Finished)
    /\ lpc' = IF lpc = "top" THEN "wait" ELSE "dispatch"
    /\ UNCHANGED <<coVars, batch, wake, resume, batched, stopped, pc, sockets,
                   clients, backlog>>

(* A wakeup event is a continuation posted, or stop().                     *)
LoopMoves ==
    \/ Compact
    \/ /\ \/ Resume \/ DispatchWakeup \/ (NextIteration /\ ~stopped)
          \/ WaitReturns /\ (wake' => stopped \/ \E f \in Connection : pc[f] = "pool")
          \/ \E f \in Fd : Dispatch(f)
       /\ UNCHANGED tcpVars

AcceptorStep ==
    \/ AcceptWaitsEdge \/ AcceptAgain \/ AcceptFails \/ SpawnHandler \/ AllSpawned
    \/ \E f \in Connection : Accept(f)

HandlerStep(f) ==
    \/ Recv(f) \/ RecvWaits(f) \/ RecvReturns(f) \/ Submit(f)
    \/ Send(f) \/ SendWaits(f) \/ HandlerEnds(f)

ClientStep(f) == ClientSends(f) \/ ClientEnds(f) \/ ClientReads(f) \/ ClientFails(f)

TcpNext ==
    \/ LoopMoves \/ AcceptorStep \/ ClientConnects
    \/ \E f \in Connection : HandlerStep(f) \/ PoolDone(f) \/ ClientStep(f)

(* The loop thread is scheduled, the pool posts every continuation, and    *)
(* clients keep reading.                                                   *)
TcpFairness ==
    /\ WF_allVars(LoopMoves \/ AcceptorStep \/ \E f \in Connection : HandlerStep(f))
    /\ \A f \in Connection : SF_allVars(PoolDone(f)) /\ WF_allVars(ClientReads(f))

TcpSpec == TcpInit /\ [][TcpNext]_allVars /\ TcpFairness

--------------------------------------------------------------------------------
(* A client gets back what it sent, in order, each byte once, however recv *)
(* and send split the stream and whichever connection had the descriptor   *)
(* before.                                                                 *)
EchoIntact ==
    \A f \in Connection : delivered[f] \o buffer[f] = [i \in 1 .. read[f] |-> i]

(* A connection that has not failed is closed only when all its client has *)
(* sent is echoed: a client may shut down its side and still get the rest. *)
(* (A failing accept destroys what it has accepted, and stops the loop.)   *)
ClosedAfterEcho ==
    [][\A f \in Connection :
           f \in open /\ f \notin open' /\ f \notin failed /\ ~stopped' =>
               Len(delivered[f]) = sent[f]]_allVars

(* Every client that connects is accepted, however many connect between    *)
(* two accepts, unless the loop stops.                                     *)
ClientsAreAccepted == backlog > 0 ~> backlog = 0 \/ stopped

(* What a client sends is echoed.                                          *)
BytesAreEchoed ==
    \A f \in Connection, n \in 1 .. MaxSent :
        f \in open /\ sent[f] = n ~>
            Len(delivered[f]) >= n \/ f \notin open \ failed \/ stopped
================================================================================
