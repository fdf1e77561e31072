-------------------------------- MODULE UdpEcho --------------------------------
(***************************************************************************)
(* The two UDP echo servers on the event loop of Reactor, with             *)
(* async_recv_from, async_recv_from_et and async_send_to of                *)
(* include/coro_epoll/udp.hpp inlined.  examples/udp-echo-server handles a *)
(* datagram at a time in one coroutine.  examples/udp-echo-server-et       *)
(* receives all there are into one buffer, edge-triggered, and spawns a    *)
(* coroutine for each, which all send on the same socket.                  *)
(***************************************************************************)
EXTENDS Reactor, SequencesExt

CONSTANTS Loop,         \* the coroutine udp_echo_loop
          Handler,      \* the coroutines handle_datagram
          Datagram,     \* what each of as many endpoints sends, of equal sizes
          Socket,
          MaxRoom       \* datagrams the kernel buffers for sending

ASSUME UdpAssumption ==
    /\ Fd = {Socket}
    /\ Loop \notin Handler /\ Coroutine = {Loop} \cup Handler
    /\ IsFiniteSet(Datagram) /\ Cardinality(Handler) = Cardinality(Datagram)
    /\ MaxRoom \in Nat \ {0}

VARIABLES
    batched,    \* it is the edge-triggered server
    stopped,    \* udp_echo_loop has called loop.stop()
    pc,         \* where each coroutine is
    buffer,     \* the datagrams that are in the receive buffer, at most one
    results,    \* the endpoints of the datagrams received and not yet handled
    job,        \* what each coroutine echoes, and to whom
    arrived,    \* the datagrams that have been sent to the socket
    queue,      \* kernel: those not yet received
    room,       \* kernel: how many more datagrams can be sent
    replies,    \* what has been sent
    dropped     \* those given up because recvfrom or sendto failed

udpVars == <<batched, stopped, pc, buffer, results, job, arrived, queue, room,
             replies, dropped>>
allVars == <<vars, udpVars>>

(* main() has bound the socket, and spawn() resumes the loop at once.      *)
UdpInit ==
    /\ IdleLoop
    /\ open = {Socket}
    /\ cond = [f \in Fd |-> {"out"}]
    /\ stack = <<Loop>>
    /\ at = [c \in Coroutine |-> IF c = Loop THEN "user" ELSE "away"]
    /\ batched \in BOOLEAN
    /\ stopped = FALSE
    /\ pc = [c \in Coroutine |-> IF c = Loop THEN "recv" ELSE "idle"]
    /\ buffer = {}
    /\ results = <<>>
    /\ job = [c \in Coroutine |-> {}]
    /\ arrived = {}
    /\ queue = <<>>
    /\ room = MaxRoom
    /\ replies = <<>>
    /\ dropped = {}

At(c, label) == Runs(c) /\ pc[c] = label
Goto(c, label) == pc' = [pc EXCEPT ![c] = label]

--------------------------------------------------------------------------------
(* The kernel.                                                             *)

Arrive(d) ==
    /\ d \notin arrived
    /\ BecomesReady(Socket, "in")
    /\ arrived' = arrived \cup {d}
    /\ queue' = Append(queue, d)
    /\ UNCHANGED <<batched, stopped, pc, buffer, results, job,
                  room, replies, dropped>>

(* What is buffered leaves the host.                                       *)
Transmit ==
    /\ room < MaxRoom
    /\ BecomesReady(Socket, "out")
    /\ room' = MaxRoom
    /\ UNCHANGED <<batched, stopped, pc, buffer, results, job,
                   arrived, queue, replies, dropped>>

StillReady(d, yes) == cond' = [cond EXCEPT ![Socket] = IF yes THEN @ ELSE @ \ {d}]

--------------------------------------------------------------------------------
(* udp_echo_loop                                                           *)

(* Deviation: async_recv_from() goes on receiving too.                     *)
Recv_Drains ==
    /\ At(Loop, "recv") /\ queue # <<>>
    /\ buffer' = {Head(queue)}
    /\ results' = Append(results, Head(queue))
    /\ queue' = Tail(queue)
    /\ StillReady("in", Tail(queue) # <<>>)
    /\ UNCHANGED <<stateVars, open, epollVars, coVars, loopVars, resume,
                   batched, stopped, pc, job, arrived, room, replies, dropped>>

(* recvfrom returns a datagram.  async_recv_from_et() goes on receiving,   *)
(* always to the front of the buffer; async_recv_from() returns.           *)
Recv ==
    /\ At(Loop, "recv") /\ queue # <<>>
    /\ buffer' = {Head(queue)}
    /\ results' = Append(results, Head(queue))
    /\ queue' = Tail(queue)
    /\ StillReady("in", Tail(queue) # <<>>)
    /\ IF batched THEN UNCHANGED pc ELSE Goto(Loop, "submit")
    /\ UNCHANGED <<stateVars, open, epollVars, coVars, loopVars, resume,
                   batched, stopped, job, arrived, room, replies, dropped>>

(* EAGAIN: a batch is returned, if there is one.                           *)
RecvBatch ==
    /\ At(Loop, "recv") /\ queue = <<>> /\ results # <<>>
    /\ Goto(Loop, "spawn")
    /\ UNCHANGED <<vars, batched, stopped, buffer, results, job,
                   arrived, queue, room, replies, dropped>>

RecvWaits ==
    /\ At(Loop, "recv") /\ queue = <<>> /\ results = <<>>
    /\ AddInterest(Loop, Socket, "in", batched)
    /\ UNCHANGED udpVars

(* Any other error: the exception destroys the batch received so far and   *)
(* ends udp_echo_loop, whose catch stops the loop.                         *)
RecvFails ==
    /\ At(Loop, "recv")
    /\ dropped' = dropped \cup ToSet(results)
    /\ results' = <<>>
    /\ stopped' = TRUE
    /\ Leave(Loop)
    /\ Goto(Loop, "done")
    /\ UNCHANGED <<batched, buffer, job, arrived, queue, room, replies>>

(* input is a copy of the buffer as it is now, for the endpoint of the     *)
(* result.                                                                 *)
NextJob(c) == job' = [job EXCEPT ![c] = {[to |-> Head(results), payload |-> p] : p \in buffer}]

(* The loop itself awaits the pool.                                        *)
Submit ==
    /\ At(Loop, "submit")
    /\ NextJob(Loop) /\ results' = Tail(results)
    /\ Leave(Loop)
    /\ Goto(Loop, "pool")
    /\ UNCHANGED <<batched, stopped, buffer,
                   arrived, queue, room, replies, dropped>>

(* A frame of its own; it makes no difference which.                       *)
NextHandler(h) == pc[h] = "idle" /\ h = CHOOSE o \in Handler : pc[o] = "idle"

(* Deviation: a handler is spawned for the first result only.              *)
SpawnHandler_First(h) ==
    /\ At(Loop, "spawn") /\ results # <<>>
    /\ NextHandler(h)
    /\ NextJob(h) /\ results' = <<>>
    /\ Goto(h, "pool")
    /\ UNCHANGED <<vars, batched, stopped, buffer,
                   arrived, queue, room, replies, dropped>>

(* spawn(handle_datagram(...)), which runs until it awaits the pool.       *)
SpawnHandler(h) ==
    /\ At(Loop, "spawn") /\ results # <<>>
    /\ NextHandler(h)
    /\ NextJob(h) /\ results' = Tail(results)
    /\ Goto(h, "pool")
    /\ UNCHANGED <<vars, batched, stopped, buffer,
                   arrived, queue, room, replies, dropped>>

AllSpawned ==
    /\ At(Loop, "spawn") /\ results = <<>>
    /\ Goto(Loop, "recv")
    /\ UNCHANGED <<vars, batched, stopped, buffer, results, job,
                   arrived, queue, room, replies, dropped>>

--------------------------------------------------------------------------------
(* async_send_to, in the loop coroutine or in a handler                    *)

(* The pool's continuation is posted to the loop.                          *)
PoolDone(c) ==
    /\ pc[c] = "pool" /\ Suspended
    /\ Enter(c)
    /\ Goto(c, "send")
    /\ UNCHANGED <<batched, stopped, buffer, results, job,
                   arrived, queue, room, replies, dropped>>

(* sendto succeeds: the loop receives again, a handler ends.               *)
Send(c) ==
    /\ At(c, "send") /\ room > 0
    /\ \E r \in job[c] : replies' = Append(replies, r)
    /\ job' = [job EXCEPT ![c] = {}]
    /\ room' = room - 1
    /\ StillReady("out", room > 1)
    /\ IF c = Loop THEN Goto(c, "recv") /\ UNCHANGED <<stack, at>>
       ELSE Goto(c, "done") /\ stack' = Tail(stack) /\ at' = [at EXCEPT ![c] = "away"]
    /\ UNCHANGED <<stateVars, open, epollVars, wants, loopVars, resume,
                   batched, stopped, buffer, results, arrived, queue, dropped>>

(* Deviation: async_send_to awaits readable().                             *)
SendWaits_Readable(c) ==
    /\ At(c, "send") /\ room = 0
    /\ AddInterest(c, Socket, "in", FALSE)
    /\ UNCHANGED udpVars

(* EAGAIN                                                                  *)
SendWaits(c) ==
    /\ At(c, "send") /\ room = 0
    /\ AddInterest(c, Socket, "out", FALSE)
    /\ UNCHANGED udpVars

(* Any other error: the exception ends udp_echo_loop, whose catch stops    *)
(* the loop, or a handler, in whose promise it stays.                      *)
SendFails(c) ==
    /\ At(c, "send")
    /\ dropped' = dropped \cup {r.to : r \in job[c]}
    /\ job' = [job EXCEPT ![c] = {}]
    /\ stopped' = (stopped \/ c = Loop)
    /\ Leave(c)
    /\ Goto(c, "done")
    /\ UNCHANGED <<batched, buffer, results, arrived, queue, room, replies>>

--------------------------------------------------------------------------------
(* run(), which ends after the batch in which stop() is called.  A wakeup  *)
(* event is a continuation posted, or stop().                              *)
LoopMoves ==
    /\ \/ EndPass \/ Resume \/ DispatchWakeup \/ (NextIteration /\ ~stopped)
       \/ WaitReturns /\ (wake' => stopped \/ \E c \in Coroutine : pc[c] = "pool")
       \/ \E f \in Fd : Dispatch(f)
    /\ UNCHANGED udpVars

CoroutineMoves ==
    \/ Recv \/ RecvBatch \/ RecvWaits \/ RecvFails \/ Submit \/ AllSpawned
    \/ \E h \in Handler : SpawnHandler(h)
    \/ \E c \in Coroutine : Send(c) \/ SendWaits(c) \/ SendFails(c)

UdpNext ==
    \/ \E d \in Datagram : Arrive(d)
    \/ Transmit
    \/ \E c \in Coroutine : PoolDone(c)
    \/ CoroutineMoves \/ LoopMoves

(* The loop thread is scheduled, the pool posts every continuation, and    *)
(* the host transmits.                                                     *)
UdpFairness ==
    /\ WF_allVars(CoroutineMoves \/ LoopMoves)
    /\ \A c \in Coroutine : SF_allVars(PoolDone(c))
    /\ WF_allVars(Transmit)

UdpSpec == UdpInit /\ [][UdpNext]_allVars /\ UdpFairness

--------------------------------------------------------------------------------
Indices(s, d) == {i \in DOMAIN s : s[i] = d}
Echoing(d) == {c \in Coroutine : \E r \in job[c] : r.to = d}
Answers(d) == {i \in DOMAIN replies : replies[i].to = d}

Places(d) ==
    ({"socket"} \X Indices(queue, d)) \cup ({"batch"} \X Indices(results, d))
        \cup ({"coroutine"} \X Echoing(d)) \cup ({"answered"} \X Answers(d))
        \cup ({"given up"} \X (dropped \cap {d}))

(* Every datagram is accounted for, and none is answered twice: each is in *)
(* the socket, in the batch, in the hands of one coroutine or answered, or *)
(* a failing recvfrom or sendto has cost the server this one.              *)
DatagramInOnePlace == \A d \in arrived : \E p \in Places(d) : Places(d) = {p}

EchoIsFaithful == \A i \in DOMAIN replies : replies[i].payload = replies[i].to

(* The sequential server echoes what the endpoint has sent, although it    *)
(* receives every datagram into the same buffer.                           *)
LoopEchoIsFaithful == ~batched => EchoIsFaithful

(* The sequential server answers every datagram (its README: "Each UDP     *)
(* datagram received is echoed back to the sender"), unless an error of    *)
(* recvfrom or sendto stops its loop.                                      *)
LoopAnswersAll ==
    \A d \in Datagram :
        d \in arrived /\ ~batched ~> stopped \/ Answers(d) # {}

(* The receiver is never lost: handlers that register for writing change   *)
(* the state of the socket, and its trigger mode, under its feet, and they *)
(* may fail.  Only an error of udp_echo_loop itself ends it.               *)
LoopKeepsReceiving ==
    \A d \in Datagram :
        d \in arrived ~> pc[Loop] = "done" \/ Indices(queue, d) = {}

(* The edge-triggered server echoes what the endpoint has sent (its        *)
(* README: each datagram is spawned "for concurrent processing and echo"). *)
BatchEchoIsFaithful == batched => EchoIsFaithful

(* A coroutine in async_send_to gets its datagram sent (README.md:         *)
(* "co_await until the datagram is sent"), or an exception, as long as the *)
(* loop runs.                                                              *)
SendCompletes == \A c \in Coroutine : pc[c] = "send" ~> pc[c] # "send" \/ stopped
================================================================================
