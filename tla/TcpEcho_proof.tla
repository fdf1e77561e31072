----------------------------- MODULE TcpEcho_proof -----------------------------
(***************************************************************************)
(* The echo servers, for any number of connections, clients and bytes, and *)
(* buffers of any size: a stream comes back unchanged, and a connection is *)
(* closed only when all of it has come back.                               *)
(***************************************************************************)
EXTENDS TcpEcho, Reactor_proof

TcpTypeOK ==
    /\ batched \in BOOLEAN /\ stopped \in BOOLEAN
    /\ pc \in [Coroutine -> {"wait", "accept", "spawn", "read", "submit", "pool",
                             "write", "done"}]
    /\ sockets \in Seq(Connection)
    /\ buffer \in [Connection -> Seq(Nat)] /\ read \in [Connection -> Nat]
    /\ clients \in Nat /\ backlog \in Nat
    /\ sent \in [Connection -> Nat]
    /\ ended \subseteq Connection /\ failed \subseteq Connection
    /\ room \in [Connection -> Nat]
    /\ delivered \in [Connection -> Seq(Nat)]

(* A coroutine waits for its own socket only.                              *)
Socket(c) == IF c = Acceptor THEN Listener ELSE c

OwnSocket ==
    \A c \in Coroutine : Waiting(c) => \E d \in Dir : wants[c] = <<Socket(c), d>>

(* A handler that has been spawned has an open socket, its own, until it   *)
(* has ended.                                                              *)
Handling ==
    \A f \in Connection :
        at[f] # "away" \/ pc[f] = "pool" =>
            f \in open /\ pc[f] # "done" /\ f \notin ToSet(sockets)

(* The sockets on their way from accept to a handler: the acceptor runs as *)
(* long as there are some.                                                 *)
Accepted ==
    /\ Listener \in open /\ ToSet(sockets) \subseteq open
    /\ \A i, j \in DOMAIN sockets : sockets[i] = sockets[j] => i = j
    /\ sockets # <<>> => OnStack(Acceptor)
    /\ pc[Acceptor] = "wait" \/ (pc[Acceptor] = "accept" /\ ~batched) => sockets = <<>>

(* A handler ends with an error, or when all is echoed.                    *)
DoneIsEchoed ==
    \A f \in open \cap Connection :
        pc[f] = "done" /\ f \notin failed \cup ToSet(sockets) =>
            f \in ended /\ read[f] = sent[f] /\ buffer[f] = <<>>

TcpInv == TcpTypeOK /\ OwnSocket /\ Handling /\ Accepted

LEMMA Names ==
    /\ Acceptor \in Coroutine /\ Acceptor \notin Connection
    /\ Listener \in Fd /\ Listener \notin Connection
    /\ \A f \in Connection : f \in Fd /\ f \in Coroutine /\ Socket(f) = f
    /\ Socket(Acceptor) = Listener
    /\ \A c \in Coroutine : c # Acceptor => c \in Connection
    /\ \A f \in Fd : f # Listener => f \in Connection
    /\ \A c, o \in Coroutine : Socket(c) = Socket(o) => c = o
BY TcpAssumption DEF Socket

LEMMA InitTcpInv == TcpInit => LoopInv /\ TcpInv /\ DoneIsEchoed
<1> SUFFICES ASSUME TcpInit PROVE LoopInv /\ TcpInv /\ DoneIsEchoed
    OBVIOUS
<1> USE Names DEF TcpInit
<1>1. <<>> \in Seq(Connection) /\ <<>> \in Seq(Nat) /\ <<Acceptor>> \in Seq(Coroutine)
  BY EmptySeq
<1>2. StackShape
  BY DEF StackShape
<1>3. LoopInv
  BY <1>1, <1>2, IdleIInv, ConstantsAssumption DEF LoopInv
<1>4. TcpTypeOK
  BY <1>1, TcpAssumption DEF TcpTypeOK
<1>5. OwnSocket
  BY DEF OwnSocket, Waiting
<1>6. Handling /\ Accepted /\ DoneIsEchoed
  BY DEF Handling, Accepted, DoneIsEchoed, ToSet
<1> QED  BY <1>3, <1>4, <1>5, <1>6 DEF TcpInv

(* Nobody waits for a socket whose handler runs, has ended or has not been *)
(* spawned.                                                                *)
LEMMA FreeSockets ==
    ASSUME TcpInv
    PROVE  /\ \A c \in Coroutine : at[c] \in {"away", "user"} => Free(Socket(c))
           /\ \A f \in Connection : f \notin open \/ pc[f] = "done" \/ f \in ToSet(sockets)
                  => Free(f)
<1>1. ASSUME NEW c \in Coroutine, at[c] \in {"away", "user"}
      PROVE  Free(Socket(c))
  BY <1>1, Names DEF TcpInv, OwnSocket, Free, Waiting
<1>2. ASSUME NEW f \in Connection, f \notin open \/ pc[f] = "done" \/ f \in ToSet(sockets)
      PROVE  Free(f)
  <2>1. at[f] = "away"
    BY <1>2 DEF TcpInv, Handling
  <2> QED  BY <1>1, <2>1, Names
<1> QED  BY <1>1, <1>2

--------------------------------------------------------------------------------
(* What the steps do to the reactor.                                       *)

LEMMA LoopStep == LoopInv /\ TcpInv /\ [TcpNext]_allVars => LoopInv'
<1> SUFFICES ASSUME LoopInv, TcpInv, [TcpNext]_allVars PROVE LoopInv'
    OBVIOUS
<1>0. IInv /\ Harvest /\ TypeOK /\ StackShape /\ ResumeShape /\ BatchShape
  BY DEF LoopInv, IInv, Shape
<1>a. ASSUME [Next]_vars PROVE LoopInv'
  BY <1>a, StepIInv, HarvestStep DEF LoopInv
<1>b. ASSUME NEW f \in Connection, NEW e \in Event, BecomesReady(f, e) PROVE LoopInv'
  BY <1>a, <1>b, Names DEF Next
<1>c. ASSUME NEW c \in Coroutine, NEW d \in Dir, NEW e \in BOOLEAN,
             Await(c, Socket(c), d, e)
      PROVE  LoopInv'
  <2>1. Socket(c) \in Fd
    BY Names
  <2> QED  BY <1>a, <1>c, <2>1 DEF Next, CoroutineStep
<1>d. ASSUME NEW c \in Coroutine, Leave(c) \/ Enter(c) PROVE LoopInv'
  BY <1>a, <1>d DEF Next, CoroutineStep
<1>e. Dir = {"in", "out"} /\ Event = Dir \cup {"err"} /\ cond \in [Fd -> SUBSET Event]
      /\ open \in SUBSET Fd
  BY <1>0 DEF Dir, Event, TypeOK
<1>1. CASE ClientConnects
  BY <1>1, <1>a, <1>e, Names DEF ClientConnects, Next
<1>2. ASSUME NEW f \in Connection, ClientStep(f) PROVE LoopInv'
  BY <1>2, <1>b, <1>e DEF ClientStep, ClientSends, ClientEnds, ClientReads, ClientFails
<1>3. CASE AcceptWaitsEdge
  BY <1>3, <1>c, <1>e, Names DEF AcceptWaitsEdge
<1>4. CASE AcceptAgain
  BY <1>4, <1>a, <1>c, <1>e, Names DEF AcceptAgain
<1>5. ASSUME NEW f \in Connection, Accept(f) PROVE LoopInv'
  <2>1. at[Acceptor] = "user"
    BY <1>0, <1>5, RunningIsUser, Names DEF Accept, At
  <2>2. Free(Listener) /\ Free(f)
    BY <1>5, <2>1, FreeSockets, Names DEF Accept
  <2>3. /\ cond' \in [Fd -> SUBSET Event] /\ open \subseteq open' /\ open' \in SUBSET Fd
        /\ \A g \in Fd : g = Listener \/ g = f \/ cond'[g] = cond[g]
        /\ UNCHANGED <<stateVars, epollVars, coVars, loopVars, resume>>
    BY <1>5, <1>e, Names DEF Accept, StillReady
  <2>4. \A g \in Fd : Free(g) \/ cond'[g] = cond[g]
    BY <2>2, <2>3
  <2> QED  BY <1>0, <2>3, <2>4, FreeReadinessStep DEF LoopInv
<1>6. CASE AcceptFails
  <2> DEFINE S == ToSet(sockets)
  <2>1. S \subseteq Connection /\ S \in SUBSET Fd
    BY Names DEF ToSet, TcpInv, TcpTypeOK
  <2>2. \A f \in S : Free(f)
    BY <2>1, FreeSockets
  <2>3. /\ Runs(Acceptor) /\ stack' = Tail(stack) /\ at' = [at EXCEPT ![Acceptor] = "away"]
        /\ UNCHANGED <<wants, lpc, batch, wake, resume>> /\ Closes(S)
    BY <1>6 DEF AcceptFails, At, CloseAll, Closes, loopVars
  <2>4. /\ at[Acceptor] = "user" /\ stack # <<>>
        /\ Tail(stack) \in Seq(Coroutine)
    BY <1>0, <2>3, RunningIsUser, HeadTailProperties, Names DEF TypeOK
  <2>5. Shape'
    BY <1>0, <2>3, PopShape, Names DEF Shape, BatchShape
  <2> HIDE DEF S
  <2> QED
    BY <1>0, <2>1, <2>2, <2>3, <2>4, <2>5, ClosesStep, Names DEF LoopInv, TypeOK
<1>7. CASE SpawnHandler
  <2>1. Head(sockets) \in Coroutine
    BY <1>7, Names DEF SpawnHandler, TcpInv, TcpTypeOK
  <2> QED  BY <1>7, <1>d, <2>1 DEF SpawnHandler
<1>8. CASE AllSpawned
  BY <1>8, <1>a DEF AllSpawned
<1>9. ASSUME NEW f \in Connection, Recv(f) \/ Send(f) PROVE LoopInv'
  <2>1. at[f] = "user"
    BY <1>0, <1>9, RunningIsUser, Names DEF Recv, Send, At
  <2>2. Free(f)
    BY <2>1, FreeSockets, Names
  <2>3. /\ cond' \in [Fd -> SUBSET Event] /\ open' = open
        /\ \A g \in Fd : g = f \/ cond'[g] = cond[g]
        /\ UNCHANGED <<stateVars, epollVars, coVars, loopVars, resume>>
    BY <1>9, <1>e, Names DEF Recv, Send, StillReady
  <2>4. \A g \in Fd : Free(g) \/ cond'[g] = cond[g]
    BY <2>2, <2>3
  <2> QED  BY <1>0, <1>e, <2>3, <2>4, FreeReadinessStep DEF LoopInv
<1>10. ASSUME NEW f \in Connection,
              RecvWaits(f) \/ RecvReturns(f) \/ Submit(f) \/ SendWaits(f) \/ HandlerEnds(f)
                  \/ PoolDone(f)
       PROVE  LoopInv'
  <2>1. CASE RecvWaits(f)
    BY <1>c, <1>e, <2>1, Names DEF RecvWaits, TcpInv, TcpTypeOK
  <2>2. CASE SendWaits(f)
    <3>1. f \in Coroutine /\ Await(f, Socket(f), "out", FALSE) /\ "out" \in Dir
      BY <1>e, <2>2, Names DEF SendWaits
    <3> QED  BY <1>c, <3>1
  <2>3. CASE RecvReturns(f)
    BY <1>a, <2>3 DEF RecvReturns
  <2>4. CASE Submit(f) \/ HandlerEnds(f) \/ PoolDone(f)
    BY <1>d, <2>4, Names DEF Submit, HandlerEnds, PoolDone
  <2> QED  BY <1>10, <2>1, <2>2, <2>3, <2>4
<1>11. CASE Compact
  <2>1. Finished \in SUBSET Fd /\ \A f \in Finished : f \in Connection /\ Free(f)
    BY <1>e, FreeSockets DEF Finished
  <2>2. /\ UNCHANGED <<stack, at, wants, batch, wake, resume>> /\ Closes(Finished)
        /\ lpc \in {"top", "mid"}
        /\ lpc' = IF lpc = "top" THEN "wait" ELSE "dispatch"
    BY <1>11 DEF Compact, CloseAll, Closes, coVars
  <2>3. Shape'
    BY <1>0, <2>2 DEF Shape, StackShape, ResumeShape, BatchShape
  <2> QED  BY <1>0, <2>1, <2>2, <2>3, ClosesStep DEF LoopInv, TypeOK
<1>12. CASE LoopMoves /\ ~Compact
  BY <1>12, <1>a DEF LoopMoves, Next, LoopAdvances
<1>13. CASE UNCHANGED allVars
  BY <1>13, <1>a DEF allVars
<1> QED
  BY <1>1, <1>2, <1>3, <1>4, <1>5, <1>6, <1>7, <1>8, <1>9, <1>10, <1>11, <1>12, <1>13
     DEF TcpNext, AcceptorStep, HandlerStep

--------------------------------------------------------------------------------
(* What they do to the servers.                                            *)

LEMMA TcpTypeStep == LoopInv /\ TcpTypeOK /\ [TcpNext]_allVars => TcpTypeOK'
<1> SUFFICES ASSUME LoopInv, TcpTypeOK, [TcpNext]_allVars PROVE TcpTypeOK'
    OBVIOUS
<1> USE TcpAssumption DEF TcpTypeOK, kernelVars, Goto
<1>1. CASE ClientConnects
  BY <1>1 DEF ClientConnects, serverVars
<1>2. ASSUME NEW f \in Connection, ClientStep(f) PROVE TcpTypeOK'
  <2>1. UNCHANGED <<serverVars, clients, backlog, delivered>>
    BY <1>2 DEF ClientStep, ClientSends, ClientEnds, ClientReads, ClientFails
  <2>2. sent' = sent \/ sent' = [sent EXCEPT ![f] = @ + 1]
    BY <1>2 DEF ClientStep, ClientSends, ClientEnds, ClientReads, ClientFails
  <2>3. room' = room \/ room' = [room EXCEPT ![f] = MaxRoom]
    BY <1>2 DEF ClientStep, ClientSends, ClientEnds, ClientReads, ClientFails
  <2>4. /\ ended' = ended \/ ended' = ended \cup {f}
        /\ failed' = failed \/ failed' = failed \cup {f}
    BY <1>2 DEF ClientStep, ClientSends, ClientEnds, ClientReads, ClientFails
  <2>5. sent' \in [Connection -> Nat]
    BY <2>2
  <2>6. room' \in [Connection -> Nat]
    BY <2>3
  <2>7. ended' \subseteq Connection /\ failed' \subseteq Connection
    BY <2>4
  <2> QED  BY <2>1, <2>5, <2>6, <2>7 DEF serverVars
<1>3. ASSUME NEW S, CloseAll(S)
      PROVE  /\ buffer' \in [Connection -> Seq(Nat)] /\ read' \in [Connection -> Nat]
             /\ sent' \in [Connection -> Nat]
             /\ ended' \subseteq Connection /\ failed' \subseteq Connection
             /\ room' \in [Connection -> Nat]
             /\ delivered' \in [Connection -> Seq(Nat)]
  <2>1. <<>> \in Seq(Nat)
    BY EmptySeq
  <2> QED  BY <1>3, <2>1 DEF CloseAll
<1>4. CASE AcceptFails
  <2>1. <<>> \in Seq(Connection)
    BY EmptySeq
  <2> QED  BY <1>4, <1>3, <2>1 DEF AcceptFails
<1>5. CASE Compact
  BY <1>5, <1>3 DEF Compact
<1>6. ASSUME NEW f \in Connection, Accept(f) PROVE TcpTypeOK'
  BY <1>6 DEF Accept
<1>7. CASE SpawnHandler
  <2>1. Tail(sockets) \in Seq(Connection)
    BY <1>7, HeadTailProperties DEF SpawnHandler
  <2> QED  BY <1>7, <2>1 DEF SpawnHandler
<1>8. CASE AcceptWaitsEdge \/ AcceptAgain \/ AllSpawned
  BY <1>8 DEF AcceptWaitsEdge, AcceptAgain, AllSpawned
<1>9. ASSUME NEW f \in Connection, Recv(f) PROVE TcpTypeOK'
  <2> DEFINE n == IF Unread(f) < BufferSize[f] - Len(buffer[f])
                  THEN Unread(f) ELSE BufferSize[f] - Len(buffer[f])
             more == [i \in 1 .. n |-> read[f] + i]
  <2>1. /\ n > 0 /\ buffer' = [buffer EXCEPT ![f] = @ \o more]
        /\ read' = [read EXCEPT ![f] = @ + n]
        /\ pc' = pc \/ pc' = [pc EXCEPT ![f] = "submit"]
        /\ UNCHANGED <<batched, stopped, sockets, kernelVars>>
    BY <1>9 DEF Recv
  <2>2. n \in Nat
    BY <2>1 DEF Unread
  <2> HIDE DEF n
  <2>3. more \in Seq(Nat)
    BY <2>2
  <2> HIDE DEF more
  <2>4. buffer[f] \o more \in Seq(Nat)
    BY <2>3
  <2>5. buffer' \in [Connection -> Seq(Nat)]
    BY <2>1, <2>4
  <2>6. read' \in [Connection -> Nat]
    BY <2>1, <2>2
  <2> QED  BY <2>1, <2>5, <2>6
<1>10. ASSUME NEW f \in Connection, Send(f) PROVE TcpTypeOK'
  <2> DEFINE n == IF Len(buffer[f]) < room[f] THEN Len(buffer[f]) ELSE room[f]
  <2>1. /\ delivered' = [delivered EXCEPT ![f] = @ \o SubSeq(buffer[f], 1, n)]
        /\ buffer' = [buffer EXCEPT ![f] = SubSeq(@, n + 1, Len(@))]
        /\ room' = [room EXCEPT ![f] = @ - n]
        /\ pc' = pc \/ pc' = [pc EXCEPT ![f] = "read"]
        /\ UNCHANGED <<batched, stopped, sockets, read, clients, backlog, sent, ended, failed>>
    BY <1>10 DEF Send
  <2>2. n \in 0 .. Len(buffer[f]) /\ room[f] - n \in Nat
    OBVIOUS
  <2> HIDE DEF n
  <2>3. /\ delivered[f] \o SubSeq(buffer[f], 1, n) \in Seq(Nat)
        /\ SubSeq(buffer[f], n + 1, Len(buffer[f])) \in Seq(Nat)
    BY <2>2, Sent
  <2> QED  BY <2>1, <2>2, <2>3
<1>11. ASSUME NEW f \in Connection,
              RecvWaits(f) \/ RecvReturns(f) \/ Submit(f) \/ SendWaits(f) \/ HandlerEnds(f)
                  \/ PoolDone(f)
       PROVE  TcpTypeOK'
  BY <1>11 DEF RecvWaits, RecvReturns, Submit, SendWaits, HandlerEnds, PoolDone,
               tcpVars, serverVars
<1>12. CASE UNCHANGED tcpVars
  BY <1>12 DEF tcpVars, serverVars
<1> QED
  BY <1>1, <1>2, <1>4, <1>5, <1>6, <1>7, <1>8, <1>9, <1>10, <1>11, <1>12
     DEF TcpNext, AcceptorStep, HandlerStep, LoopMoves, allVars

(* Only what suspends waits, and it waits for its own socket.              *)
LEMMA OwnSocketStep == LoopInv /\ TcpInv /\ [TcpNext]_allVars => OwnSocket'
<1> SUFFICES ASSUME LoopInv, TcpInv, [TcpNext]_allVars PROVE OwnSocket'
    OBVIOUS
<1>0. OwnSocket /\ TypeOK /\ IInv
  BY DEF TcpInv, LoopInv, IInv
<1>a. ASSUME \A c \in Coroutine : Waiting(c)' => Waiting(c) /\ wants'[c] = wants[c]
      PROVE  OwnSocket'
  BY <1>0, <1>a DEF OwnSocket
<1>b. ASSUME NEW c \in Coroutine, NEW d \in Dir, NEW e \in BOOLEAN,
             Await(c, Socket(c), d, e)
      PROVE  OwnSocket'
  BY <1>0, <1>b DEF Await, AddInterest, Suspend, OwnSocket, Waiting, TypeOK
<1>c. ASSUME NEW c \in Coroutine, Leave(c) \/ Enter(c) PROVE OwnSocket'
  BY <1>0, <1>a, <1>c DEF Leave, Enter, Waiting, TypeOK
<1>d. ASSUME UNCHANGED <<at, wants>> PROVE OwnSocket'
  BY <1>a, <1>d DEF Waiting
<1>e. {"in", "out"} = Dir
  BY DEF Dir
<1>1. CASE AcceptWaitsEdge
  BY <1>1, <1>b, <1>e, Names DEF AcceptWaitsEdge
<1>2. CASE AcceptAgain
  <2>1. CASE UNCHANGED vars
    BY <2>1, <1>d DEF vars, coVars
  <2>2. CASE Await(Acceptor, Listener, "in", FALSE)
    BY <2>2, <1>b, <1>e, Names
  <2> QED  BY <1>2, <2>1, <2>2 DEF AcceptAgain
<1>3. CASE AcceptFails
  BY <1>0, <1>3, <1>a, Names DEF AcceptFails, Waiting, TypeOK
<1>4. CASE SpawnHandler
  <2>1. Head(sockets) \in Coroutine
    BY <1>4, Names DEF SpawnHandler, TcpInv, TcpTypeOK
  <2> QED  BY <1>4, <1>c, <2>1 DEF SpawnHandler
<1>5. ASSUME NEW f \in Connection, HandlerStep(f) \/ PoolDone(f) PROVE OwnSocket'
  <2>1. CASE RecvWaits(f)
    <3>1. f \in Coroutine /\ Await(f, Socket(f), "in", batched) /\ batched \in BOOLEAN
      BY <2>1, Names DEF RecvWaits, TcpInv, TcpTypeOK
    <3> QED  BY <1>b, <1>e, <3>1
  <2>2. CASE SendWaits(f)
    <3>1. f \in Coroutine /\ Await(f, Socket(f), "out", FALSE)
      BY <2>2, Names DEF SendWaits
    <3> QED  BY <1>b, <1>e, <3>1
  <2>3. CASE Submit(f) \/ HandlerEnds(f) \/ PoolDone(f)
    BY <1>c, <2>3, Names DEF Submit, HandlerEnds, PoolDone
  <2>4. CASE Recv(f) \/ RecvReturns(f) \/ Send(f)
    BY <1>d, <2>4 DEF Recv, RecvReturns, Send, vars, coVars
  <2> QED  BY <1>5, <2>1, <2>2, <2>3, <2>4 DEF HandlerStep
<1>6. CASE LoopMoves /\ ~Compact
  BY <1>0, <1>6, <1>a, LoopOnlyResumes DEF LoopMoves
<1>7. CASE Compact
  BY <1>7, <1>d DEF Compact, coVars
<1>8. CASE ClientConnects \/ AllSpawned \/ UNCHANGED allVars
  BY <1>8, <1>d DEF ClientConnects, BecomesReady, AllSpawned, allVars, vars, coVars
<1>9. ASSUME NEW f \in Connection, Accept(f) \/ ClientStep(f) PROVE OwnSocket'
  BY <1>9, <1>d DEF Accept, ClientStep, ClientSends, ClientEnds, ClientReads, ClientFails,
     BecomesReady, coVars
<1> QED
  BY <1>1, <1>2, <1>3, <1>4, <1>5, <1>6, <1>7, <1>8, <1>9 DEF TcpNext, AcceptorStep

LEMMA ToSetIs ==
    ASSUME NEW S, NEW s \in Seq(S)
    PROVE  /\ \A e \in S : ToSet(Append(s, e)) = ToSet(s) \cup {e}
           /\ \A e : e \in ToSet(s) <=> \E i \in DOMAIN s : s[i] = e
           /\ s # <<>> => Head(s) \in ToSet(s) /\ ToSet(Tail(s)) \subseteq ToSet(s)
<1>1. ASSUME NEW e \in S PROVE ToSet(Append(s, e)) = ToSet(s) \cup {e}
  <2>1. /\ DOMAIN Append(s, e) = 1 .. Len(s) + 1 /\ DOMAIN s = 1 .. Len(s) /\ Len(s) \in Nat
        /\ \A i \in 1 .. Len(s) : Append(s, e)[i] = s[i]
        /\ Append(s, e)[Len(s) + 1] = e
    OBVIOUS
  <2>2. \A i \in 1 .. Len(s) + 1 : i \in 1 .. Len(s) \/ i = Len(s) + 1
    BY <2>1
  <2> QED  BY <2>1, <2>2 DEF ToSet
<1>2. ASSUME s # <<>> PROVE Head(s) \in ToSet(s) /\ ToSet(Tail(s)) \subseteq ToSet(s)
  <2>1. /\ Tail(s) \in Seq(S) /\ Len(Tail(s)) = Len(s) - 1
        /\ \A i \in 1 .. Len(Tail(s)) : Tail(s)[i] = s[i + 1]
    BY <1>2, HeadTailProperties
  <2>2. /\ Head(s) = s[1] /\ 1 \in DOMAIN s /\ DOMAIN s = 1 .. Len(s) /\ Len(s) \in Nat
        /\ DOMAIN Tail(s) = 1 .. Len(s) - 1
    BY <1>2, <2>1
  <2>3. \A i \in DOMAIN Tail(s) : i + 1 \in DOMAIN s /\ Tail(s)[i] = s[i + 1]
    BY <2>1, <2>2
  <2> QED  BY <2>2, <2>3 DEF ToSet
<1> QED  BY <1>1, <1>2 DEF ToSet

(* A handler's socket is opened before it is spawned, and closed after it  *)
(* has ended.                                                              *)
LEMMA HandlingStep == LoopInv /\ TcpInv /\ [TcpNext]_allVars => Handling'
<1> SUFFICES ASSUME LoopInv, TcpInv, [TcpNext]_allVars,
                    NEW f \in Connection, at'[f] # "away" \/ pc'[f] = "pool"
             PROVE  f \in open' /\ pc'[f] # "done" /\ f \notin ToSet(sockets')
    BY DEF Handling, ToSet
<1>0. /\ Handling /\ Accepted /\ TcpTypeOK /\ TypeOK /\ IInv /\ StackShape
      /\ f \in Coroutine /\ f \in Fd /\ f # Acceptor
  BY Names DEF TcpInv, LoopInv, IInv, Shape
<1>a. ASSUME at'[f] # "away" => at[f] # "away", open \subseteq open' , pc'[f] = pc[f],
             sockets' = sockets
      PROVE  f \in open' /\ pc'[f] # "done" /\ f \notin ToSet(sockets')
  BY <1>0, <1>a DEF Handling
<1>b. ASSUME NEW c \in Coroutine, Runs(c) PROVE at[c] = "user"
  BY <1>b, <1>0, RunningIsUser
<1>c. ASSUME NEW c \in Coroutine, NEW g \in Fd, NEW d \in Dir, NEW e \in BOOLEAN,
             Await(c, g, d, e), c = f => at[f] = "user"
      PROVE  open' = open /\ (at'[f] # "away" => at[f] # "away")
  BY <1>0, <1>c DEF Await, AddInterest, Suspend, TypeOK
<1>d. {"in", "out"} = Dir
  BY DEF Dir
<1>1. CASE AcceptWaitsEdge \/ AcceptAgain
  <2>1. Acceptor \in Coroutine /\ Listener \in Fd /\ TRUE \in BOOLEAN /\ FALSE \in BOOLEAN
    BY Names
  <2>2. pc'[f] = pc[f] /\ sockets' = sockets
    BY <1>0, <1>1 DEF AcceptWaitsEdge, AcceptAgain, Goto, TcpTypeOK
  <2>3. open' = open /\ (at'[f] # "away" => at[f] # "away")
    <3>1. CASE UNCHANGED vars
      BY <3>1 DEF vars, coVars
    <3>2. CASE ~ UNCHANGED vars
      BY <1>0, <1>1, <1>c, <1>d, <2>1, <3>2 DEF AcceptWaitsEdge, AcceptAgain
    <3> QED  BY <3>1, <3>2
  <2> QED  BY <1>a, <2>2, <2>3
<1>2. ASSUME NEW g \in Connection, Accept(g)
      PROVE  f \in open' /\ pc'[f] # "done" /\ f \notin ToSet(sockets')
  <2>1. /\ g \notin open /\ open' = open \cup {g} /\ sockets' = Append(sockets, g)
        /\ at'[f] = at[f] /\ pc'[f] = pc[f]
    BY <1>0, <1>2 DEF Accept, coVars, Goto, TcpTypeOK
  <2>2. f \in open /\ pc[f] # "done" /\ f \notin ToSet(sockets) /\ f # g
    BY <1>0, <2>1 DEF Handling
  <2>3. ToSet(sockets') = ToSet(sockets) \cup {g}
    BY <1>0, <2>1, ToSetIs DEF TcpTypeOK
  <2> QED  BY <2>1, <2>2, <2>3
<1>3. CASE AcceptFails
  <2>1. /\ open' = open \ ToSet(sockets) /\ sockets' = <<>>
        /\ at'[f] = at[f] /\ pc'[f] = pc[f]
    BY <1>0, <1>3 DEF AcceptFails, CloseAll, Goto, TcpTypeOK, TypeOK
  <2> QED  BY <1>0, <2>1 DEF Handling, ToSet
<1>4. CASE SpawnHandler
  <2> DEFINE h == Head(sockets)
  <2>1. /\ sockets # <<>> /\ sockets' = Tail(sockets) /\ open' = open
        /\ at' = [at EXCEPT ![h] = "user"] /\ pc' = [pc EXCEPT ![h] = "read"]
        /\ stack' = <<h>> \o stack
    BY <1>4 DEF SpawnHandler, Enter, Goto
  <2>2. /\ sockets \in Seq(Connection) /\ h \in ToSet(sockets)
        /\ ToSet(Tail(sockets)) \subseteq ToSet(sockets) /\ Tail(sockets) \in Seq(Connection)
    BY <1>0, <2>1, ToSetIs DEF TcpTypeOK
  <2>3. h \notin ToSet(Tail(sockets))
    <3>1. \A i, j \in DOMAIN sockets : sockets[i] = sockets[j] => i = j
      BY <1>0 DEF Accepted
    <3>2. \A i \in DOMAIN Tail(sockets) : Tail(sockets)[i] # h
      BY <2>1, <2>2, <3>1, PopRest
    <3> QED  BY <3>2 DEF ToSet
  <2>4. CASE f = h
    BY <1>0, <2>1, <2>2, <2>3, <2>4 DEF Accepted, TcpTypeOK
  <2>5. CASE f # h
    <3>1. at'[f] = at[f] /\ pc'[f] = pc[f]
      BY <1>0, <2>1, <2>5 DEF TcpTypeOK, TypeOK
    <3> QED  BY <1>0, <2>1, <2>2, <3>1 DEF Handling
  <2> QED  BY <2>4, <2>5
<1>5. ASSUME NEW g \in Connection, HandlerStep(g)
      PROVE  f \in open' /\ pc'[f] # "done" /\ f \notin ToSet(sockets')
  <2>0. g \in Fd /\ g \in Coroutine
    BY Names
  <2>1. Runs(g) /\ sockets' = sockets
    BY <1>5 DEF HandlerStep, Recv, RecvWaits, RecvReturns, Submit, Send, SendWaits,
                HandlerEnds, At, tcpVars, serverVars
  <2>2. open' = open
    BY <1>5 DEF HandlerStep, Recv, RecvWaits, RecvReturns, Submit, Send, SendWaits,
                HandlerEnds, Await, AddInterest, Leave, vars
  <2>3. f # g => pc'[f] = pc[f]
    BY <1>0, <1>5 DEF HandlerStep, Recv, RecvWaits, RecvReturns, Submit, Send, SendWaits,
                HandlerEnds, Goto, tcpVars, serverVars, TcpTypeOK
  <2>4. f # g => at'[f] = at[f]
    BY <1>0, <1>5, <2>0 DEF HandlerStep, Recv, RecvWaits, RecvReturns, Submit, Send, SendWaits,
                HandlerEnds, Await, AddInterest, Suspend, Leave, vars, coVars, TypeOK
  <2>5. CASE f # g
    BY <1>0, <2>1, <2>2, <2>3, <2>4, <2>5 DEF Handling
  <2>6. CASE f = g
    <3>1. at[f] = "user"
      BY <1>b, <2>0, <2>1, <2>6
    <3>2. f \in open /\ pc[f] # "done" /\ f \notin ToSet(sockets)
      BY <1>0, <3>1 DEF Handling
    <3>3. CASE HandlerEnds(f)
      BY <1>0, <3>3 DEF HandlerEnds, Leave, Goto, TypeOK, TcpTypeOK
    <3>4. CASE ~ HandlerEnds(f)
      <4>1. pc'[f] # "done"
        BY <1>0, <1>5, <2>6, <3>2, <3>4
           DEF HandlerStep, Recv, RecvWaits, RecvReturns, Submit, Send, SendWaits,
               Goto, tcpVars, serverVars, TcpTypeOK
      <4> QED  BY <2>1, <2>2, <3>2, <4>1
    <3> QED  BY <3>3, <3>4
  <2> QED  BY <2>5, <2>6
<1>6. ASSUME NEW g \in Connection, PoolDone(g)
      PROVE  f \in open' /\ pc'[f] # "done" /\ f \notin ToSet(sockets')
  <2>1. /\ pc[g] = "pool" /\ sockets' = sockets /\ open' = open
        /\ at' = [at EXCEPT ![g] = "user"] /\ pc' = [pc EXCEPT ![g] = "write"]
    BY <1>6 DEF PoolDone, Enter, Goto
  <2>2. CASE f = g
    BY <1>0, <2>1, <2>2 DEF Handling, TcpTypeOK
  <2>3. CASE f # g
    BY <1>0, <2>1, <2>3 DEF Handling, TcpTypeOK, TypeOK
  <2> QED  BY <2>2, <2>3
<1>7. CASE Compact
  <2>1. /\ at'[f] = at[f] /\ pc'[f] = pc[f] /\ sockets' = sockets
        /\ open' = open \ Finished
    BY <1>7 DEF Compact, CloseAll, coVars
  <2> QED  BY <1>0, <2>1 DEF Handling, Finished
<1>8. CASE LoopMoves /\ ~Compact
  BY <1>0, <1>8, <1>a, LoopOnlyResumes DEF LoopMoves, tcpVars, serverVars
<1>9. CASE AllSpawned
  BY <1>0, <1>9, <1>a DEF AllSpawned, Goto, vars, coVars, TcpTypeOK
<1>10. CASE ClientConnects \/ UNCHANGED allVars
  BY <1>10, <1>a DEF ClientConnects, BecomesReady, allVars, vars, coVars, tcpVars, serverVars
<1>11. ASSUME NEW g \in Connection, ClientStep(g)
      PROVE  f \in open' /\ pc'[f] # "done" /\ f \notin ToSet(sockets')
  BY <1>11, <1>a DEF ClientStep, ClientSends, ClientEnds, ClientReads, ClientFails,
     BecomesReady, coVars, serverVars
<1> QED
  BY <1>1, <1>2, <1>3, <1>4, <1>5, <1>6, <1>7, <1>8, <1>9, <1>10, <1>11
     DEF TcpNext, AcceptorStep

(* accept puts the sockets on the list, and the acceptor runs on until all *)
(* of them have a handler.                                                 *)
LEMMA AcceptedStep == LoopInv /\ TcpInv /\ [TcpNext]_allVars => Accepted'
<1> SUFFICES ASSUME LoopInv, TcpInv, [TcpNext]_allVars PROVE Accepted'
    OBVIOUS
<1>0. /\ Handling /\ Accepted /\ TcpTypeOK /\ TypeOK /\ IInv /\ StackShape
      /\ stack \in Seq(Coroutine) /\ sockets \in Seq(Connection)
      /\ Acceptor \in Coroutine /\ Acceptor \notin Connection /\ Listener \notin Connection
      /\ Listener \in Fd
  BY Names DEF TcpInv, LoopInv, IInv, Shape, TypeOK, TcpTypeOK
<1>a. ASSUME open \subseteq open', OnStack(Acceptor) => OnStack(Acceptor)',
             pc'[Acceptor] = pc[Acceptor], sockets' = sockets, batched' = batched
      PROVE  Accepted'
  BY <1>0, <1>a DEF Accepted
<1>b. ASSUME sockets' = <<>>, Listener \in open'
      PROVE  Accepted'
  BY <1>b DEF Accepted, ToSet
<1>c. stack' = stack => (OnStack(Acceptor) => OnStack(Acceptor)')
  BY DEF OnStack
<1>d. ASSUME Suspended PROVE sockets = <<>>
  BY <1>0, <1>d DEF Accepted, OnStack, Suspended
<1>1. CASE AcceptWaitsEdge \/ AcceptAgain
  <2>1. /\ sockets' = sockets /\ batched' = batched
        /\ open' = open
    BY <1>1 DEF AcceptWaitsEdge, AcceptAgain, Await, AddInterest, vars
  <2>2. CASE sockets = <<>>
    BY <1>0, <1>b, <2>1, <2>2 DEF Accepted
  <2>3. CASE sockets # <<>>
    <3>1. /\ UNCHANGED vars /\ batched /\ pc' = [pc EXCEPT ![Acceptor] = "spawn"]
      BY <1>0, <1>1, <2>3 DEF AcceptWaitsEdge, AcceptAgain, At, Goto, Accepted, TcpTypeOK
    <3> QED  BY <1>0, <1>c, <2>1, <3>1 DEF Accepted, vars, coVars, TcpTypeOK
  <2> QED  BY <2>2, <2>3
<1>2. ASSUME NEW f \in Connection, Accept(f) PROVE Accepted'
  <2>1. /\ f \notin open /\ open' = open \cup {f} /\ sockets' = Append(sockets, f)
        /\ batched' = batched /\ stack' = stack /\ Runs(Acceptor) /\ pc[Acceptor] = "accept"
        /\ pc' = IF batched THEN pc ELSE [pc EXCEPT ![Acceptor] = "spawn"]
    BY <1>2 DEF Accept, coVars, At, Goto
  <2>2. ToSet(sockets') \subseteq open'
    BY <1>0, <2>1, ToSetIs DEF Accepted
  <2>3. \A i, j \in DOMAIN sockets' : sockets'[i] = sockets'[j] => i = j
    <3>1. /\ DOMAIN sockets' = 1 .. Len(sockets) + 1 /\ DOMAIN sockets = 1 .. Len(sockets)
          /\ Len(sockets) \in Nat
          /\ \A i \in 1 .. Len(sockets) : sockets'[i] = sockets[i]
          /\ sockets'[Len(sockets) + 1] = f
      BY <1>0, <2>1
    <3>2. \A i \in 1 .. Len(sockets) : sockets'[i] # f
      BY <1>0, <2>1, <3>1 DEF Accepted, ToSet
    <3>3. \A i \in 1 .. Len(sockets) + 1 : i \in 1 .. Len(sockets) \/ i = Len(sockets) + 1
      BY <3>1
    <3> QED  BY <1>0, <3>1, <3>2, <3>3 DEF Accepted
  <2>4. OnStack(Acceptor)'
    BY <1>0, <2>1, <1>c DEF OnStack, Runs
  <2>5. pc'[Acceptor] # "wait" /\ (pc'[Acceptor] = "accept" => batched')
    BY <1>0, <2>1 DEF TcpTypeOK
  <2> QED  BY <1>0, <2>1, <2>2, <2>3, <2>4, <2>5 DEF Accepted
<1>3. CASE AcceptFails
  <2>1. ToSet(sockets) \subseteq Connection
    BY <1>0 DEF ToSet
  <2> QED  BY <1>0, <1>3, <1>b, <2>1 DEF AcceptFails, CloseAll, Accepted
<1>4. CASE SpawnHandler
  <2>1. /\ sockets # <<>> /\ sockets' = Tail(sockets) /\ open' = open
        /\ pc' = [pc EXCEPT ![Head(sockets)] = "read"] /\ batched' = batched
        /\ stack' = <<Head(sockets)>> \o stack /\ pc[Acceptor] = "spawn"
    BY <1>4 DEF SpawnHandler, Enter, Goto, At
  <2>2. Head(sockets) \in Connection /\ Head(sockets) \in Coroutine
    BY <1>0, <2>1, Names
  <2>3. \A i, j \in DOMAIN sockets' : sockets'[i] = sockets'[j] => i = j
    BY <1>0, <2>1, PopRest DEF Accepted
  <2>4. ToSet(sockets') \subseteq open'
    BY <1>0, <2>1, ToSetIs DEF Accepted
  <2>5. OnStack(Acceptor)'
    BY <1>0, <2>1, <2>2, PushKeeps DEF Accepted
  <2>6. pc'[Acceptor] = "spawn"
    BY <1>0, <2>1, <2>2 DEF TcpTypeOK
  <2> QED  BY <1>0, <2>1, <2>3, <2>4, <2>5, <2>6 DEF Accepted
<1>5. CASE AllSpawned
  BY <1>0, <1>5, <1>b DEF AllSpawned, Accepted, vars
<1>6. ASSUME NEW f \in Connection, HandlerStep(f) PROVE Accepted'
  <2>1. f \in Coroutine /\ f # Acceptor
    BY Names
  <2>2. /\ Runs(f) /\ sockets' = sockets /\ batched' = batched
        /\ stack' = stack \/ stack' = Tail(stack)
    BY <1>6 DEF HandlerStep, Recv, RecvWaits, RecvReturns, Submit, Send, SendWaits,
                HandlerEnds, At, tcpVars, serverVars, Await, AddInterest, Suspend, Leave,
                vars, coVars
  <2>3. open' = open /\ pc'[Acceptor] = pc[Acceptor]
    BY <1>0, <1>6, <2>1 DEF HandlerStep, Recv, RecvWaits, RecvReturns, Submit, Send, SendWaits,
                HandlerEnds, Await, AddInterest, Leave, vars, Goto, tcpVars, serverVars,
                TcpTypeOK
  <2>4. OnStack(Acceptor) => OnStack(Acceptor)'
    BY <1>0, <1>c, <2>1, <2>2, PopKeeps
  <2> QED  BY <1>a, <2>2, <2>3, <2>4
<1>7. ASSUME NEW f \in Connection, PoolDone(f) PROVE Accepted'
  BY <1>0, <1>7, <1>b, <1>d DEF PoolDone, Enter, Accepted
<1>8. CASE Compact
  <2>1. sockets' = <<>>
    BY <1>8, <1>d DEF Compact
  <2>2. Listener \in open'
    BY <1>0, <1>8 DEF Compact, CloseAll, Finished, Accepted
  <2> QED  BY <1>b, <2>1, <2>2
<1>9. CASE LoopMoves /\ ~Compact
  <2>1. /\ open' = open /\ sockets' = sockets /\ pc' = pc /\ batched' = batched
        /\ stack' = stack \/ stack = <<>>
    BY <1>0, <1>9, LoopOnlyResumes DEF LoopMoves, tcpVars, serverVars
  <2>2. CASE stack' = stack
    BY <1>a, <1>c, <2>1, <2>2
  <2>3. CASE stack = <<>>
    BY <1>0, <1>b, <1>d, <2>1, <2>3 DEF Suspended, Accepted
  <2> QED  BY <2>1, <2>2, <2>3
<1>10. CASE ClientConnects \/ UNCHANGED allVars
  BY <1>10, <1>a, <1>c DEF ClientConnects, BecomesReady, allVars, vars, coVars, tcpVars,
     serverVars
<1>11. ASSUME NEW f \in Connection, ClientStep(f) PROVE Accepted'
  BY <1>11, <1>a, <1>c DEF ClientStep, ClientSends, ClientEnds, ClientReads, ClientFails,
     BecomesReady, coVars, serverVars
<1> QED
  BY <1>1, <1>2, <1>3, <1>4, <1>5, <1>6, <1>7, <1>8, <1>9, <1>10, <1>11
     DEF TcpNext, AcceptorStep

(* After a handler has ended nothing is sent to it, and its buffer is kept *)
(* until its socket is closed.                                             *)
LEMMA DoneStep == LoopInv /\ TcpInv /\ DoneIsEchoed /\ [TcpNext]_allVars => DoneIsEchoed'
<1> SUFFICES ASSUME LoopInv, TcpInv, DoneIsEchoed, [TcpNext]_allVars,
                    NEW f \in Connection, f \in open', pc'[f] = "done",
                    f \notin failed', f \notin ToSet(sockets')
             PROVE  f \in ended' /\ read'[f] = sent'[f] /\ buffer'[f] = <<>>
    BY DEF DoneIsEchoed, ToSet
<1>0. /\ Handling /\ Accepted /\ TcpTypeOK /\ TypeOK /\ StackShape
      /\ sockets \in Seq(Connection)
      /\ f \in Coroutine /\ f \in Fd /\ f # Acceptor
  BY Names DEF TcpInv, LoopInv, IInv, Shape, TcpTypeOK
<1>a. ASSUME f \in open, pc[f] = "done", f \notin failed \cup ToSet(sockets),
             f \in ended => f \in ended' /\ read'[f] = read[f] /\ sent'[f] = sent[f]
                                /\ buffer'[f] = buffer[f]
      PROVE  f \in ended' /\ read'[f] = sent'[f] /\ buffer'[f] = <<>>
  BY <1>a DEF DoneIsEchoed
<1>1. CASE \/ AcceptWaitsEdge \/ AcceptAgain \/ AllSpawned \/ (LoopMoves /\ ~Compact)
           \/ ClientConnects \/ UNCHANGED allVars
  <2>1. /\ UNCHANGED <<sockets, buffer, read, sent, ended, failed>>
        /\ pc' = pc \/ \E label : pc' = [pc EXCEPT ![Acceptor] = label]
    BY <1>1 DEF AcceptWaitsEdge, AcceptAgain, AllSpawned, LoopMoves, ClientConnects,
                Goto, allVars, tcpVars, serverVars, kernelVars
  <2>2. open' = open
    BY <1>1, LoopOnlyResumes
       DEF LoopInv, AcceptWaitsEdge, AcceptAgain, AllSpawned, LoopMoves, ClientConnects,
           BecomesReady, Await, AddInterest, allVars, vars
  <2>3. pc'[f] = pc[f]
    BY <1>0, <2>1 DEF TcpTypeOK
  <2> QED  BY <1>a, <2>1, <2>2, <2>3
<1>2. ASSUME NEW g \in Connection, ClientStep(g)
      PROVE  f \in ended' /\ read'[f] = sent'[f] /\ buffer'[f] = <<>>
  <2>1. /\ UNCHANGED <<open, pc, sockets, buffer, read>>
        /\ ended \subseteq ended' /\ failed \subseteq failed'
    BY <1>2 DEF ClientStep, ClientSends, ClientEnds, ClientReads, ClientFails,
                BecomesReady, serverVars
  <2>2. f \in ended => sent'[f] = sent[f]
    BY <1>0, <1>2 DEF ClientStep, ClientSends, ClientEnds, ClientReads, ClientFails, Live,
                      TcpTypeOK
  <2> QED  BY <1>a, <2>1, <2>2
<1>3. ASSUME NEW g \in Connection, Accept(g)
      PROVE  f \in ended' /\ read'[f] = sent'[f] /\ buffer'[f] = <<>>
  <2>1. /\ open' = open \cup {g} /\ sockets' = Append(sockets, g)
        /\ UNCHANGED <<buffer, read, sent, ended, failed>> /\ pc'[f] = pc[f]
    BY <1>0, <1>3 DEF Accept, Goto, TcpTypeOK
  <2>2. ToSet(sockets') = ToSet(sockets) \cup {g}
    BY <1>0, <2>1, ToSetIs
  <2> QED  BY <1>a, <2>1, <2>2
<1>4. ASSUME NEW S, CloseAll(S), S = ToSet(sockets) \/ sockets = <<>>, pc'[f] = pc[f]
      PROVE  f \in ended' /\ read'[f] = sent'[f] /\ buffer'[f] = <<>>
  <2>1. f \in open /\ f \notin S /\ f \notin failed
    BY <1>4 DEF CloseAll
  <2>2. f \notin ToSet(sockets)
    BY <1>4, <2>1 DEF ToSet
  <2>3. /\ f \in ended => f \in ended' /\ read'[f] = read[f] /\ sent'[f] = sent[f]
        /\ buffer'[f] = buffer[f]
    BY <1>4, <2>1 DEF CloseAll
  <2> QED  BY <1>4, <1>a, <2>1, <2>2, <2>3
<1>5. CASE AcceptFails
  BY <1>0, <1>4, <1>5 DEF AcceptFails, Goto, TcpTypeOK
<1>6. CASE Compact
  <2>1. sockets = <<>>
    BY <1>0, <1>6 DEF Compact, Accepted, OnStack, Suspended
  <2> QED  BY <1>4, <1>6, <2>1 DEF Compact
<1>7. CASE SpawnHandler
  <2> DEFINE h == Head(sockets)
  <2>1. /\ sockets # <<>> /\ sockets' = Tail(sockets) /\ open' = open
        /\ pc' = [pc EXCEPT ![h] = "read"]
        /\ UNCHANGED <<buffer, read, sent, ended, failed>>
    BY <1>7 DEF SpawnHandler, Enter, Goto, kernelVars
  <2>2. f # h /\ pc'[f] = pc[f]
    BY <1>0, <2>1 DEF TcpTypeOK
  <2>3. f \notin ToSet(sockets)
    <3>1. /\ Len(Tail(sockets)) = Len(sockets) - 1 /\ DOMAIN sockets = 1 .. Len(sockets)
          /\ Len(sockets) \in Nat /\ DOMAIN Tail(sockets) = 1 .. Len(sockets) - 1
          /\ \A i \in 1 .. Len(sockets) - 1 : Tail(sockets)[i] = sockets[i + 1]
          /\ h = sockets[1]
      BY <1>0, <2>1, HeadTailProperties
    <3>2. ASSUME NEW i \in DOMAIN sockets, sockets[i] = f PROVE FALSE
      <4>1. i # 1 /\ i - 1 \in DOMAIN Tail(sockets) /\ Tail(sockets)[i - 1] = f
        BY <2>2, <3>1, <3>2
      <4> QED  BY <2>1, <4>1 DEF ToSet
    <3> QED  BY <3>2 DEF ToSet
  <2> QED  BY <1>a, <2>1, <2>2, <2>3
<1>8. ASSUME NEW g \in Connection, HandlerStep(g) \/ PoolDone(g)
      PROVE  f \in ended' /\ read'[f] = sent'[f] /\ buffer'[f] = <<>>
  <2>1. open' = open
    BY <1>8 DEF HandlerStep, Recv, RecvWaits, RecvReturns, Submit, Send, SendWaits,
                HandlerEnds, PoolDone, Enter, Await, AddInterest, Leave, vars
  <2>2. UNCHANGED <<sockets, sent, ended, failed>>
    BY <1>8 DEF HandlerStep, Recv, RecvWaits, RecvReturns, Submit, Send, SendWaits,
                HandlerEnds, PoolDone, tcpVars, serverVars, kernelVars
  <2>3. CASE f # g
    <3>1. pc'[f] = pc[f]
      BY <1>0, <1>8, <2>3 DEF HandlerStep, Recv, RecvWaits, RecvReturns, Submit, Send,
                SendWaits, HandlerEnds, PoolDone, Goto, tcpVars, serverVars, TcpTypeOK
    <3>2. read'[f] = read[f] /\ buffer'[f] = buffer[f]
      BY <1>0, <1>8, <2>3 DEF HandlerStep, Recv, RecvWaits, RecvReturns, Submit, Send,
                SendWaits, HandlerEnds, PoolDone, tcpVars, serverVars, TcpTypeOK
    <3> QED  BY <1>a, <2>1, <2>2, <3>1, <3>2
  <2>4. CASE f = g
    <3>1. PoolDone(f) \/ at[f] = "user"
      BY <1>0, <1>8, <2>4, RunningIsUser
         DEF HandlerStep, Recv, RecvWaits, RecvReturns, Submit, Send, SendWaits,
             HandlerEnds, At
    <3>2. pc[f] # "done"
      BY <1>0, <3>1 DEF Handling, PoolDone
    <3>3. HandlerEnds(f)
      BY <1>0, <1>8, <2>4, <3>2 DEF HandlerStep, Recv, RecvWaits, RecvReturns, Submit, Send,
                SendWaits, PoolDone, Goto, tcpVars, serverVars, TcpTypeOK
    <3>4. /\ f \in ended /\ Unread(f) = 0 /\ buffer[f] = <<>>
          /\ UNCHANGED <<read, buffer>>
      BY <2>2, <3>3 DEF HandlerEnds
    <3> QED  BY <1>0, <2>2, <3>4 DEF Unread, TcpTypeOK
  <2> QED  BY <2>3, <2>4
<1> QED
  BY <1>1, <1>2, <1>3, <1>5, <1>6, <1>7, <1>8 DEF TcpNext, AcceptorStep

(* recv appends to the buffer what follows, and send moves the front of    *)
(* the buffer to the client.                                               *)
LEMMA EchoStep == TcpTypeOK /\ EchoIntact /\ [TcpNext]_allVars => EchoIntact'
<1> SUFFICES ASSUME TcpTypeOK, EchoIntact, [TcpNext]_allVars, NEW f \in Connection
             PROVE  delivered'[f] \o buffer'[f] = Bytes(read'[f])
    BY DEF EchoIntact, Bytes
<1>0. /\ delivered[f] \in Seq(Nat) /\ buffer[f] \in Seq(Nat) /\ read[f] \in Nat
      /\ delivered[f] \o buffer[f] = Bytes(read[f])
  BY DEF TcpTypeOK, EchoIntact, Bytes
<1>1. ASSUME delivered'[f] = delivered[f], buffer'[f] = buffer[f], read'[f] = read[f]
      PROVE  delivered'[f] \o buffer'[f] = Bytes(read'[f])
  BY <1>0, <1>1
<1>2. ASSUME NEW S, CloseAll(S) PROVE delivered'[f] \o buffer'[f] = Bytes(read'[f])
  <2>1. CASE f \in S
    <3>1. <<>> \o <<>> = Bytes(0)
      BY DEF Bytes
    <3> QED  BY <1>2, <2>1, <3>1 DEF CloseAll
  <2>2. CASE f \notin S
    BY <1>1, <1>2, <2>2 DEF CloseAll
  <2> QED  BY <2>1, <2>2
<1>3. CASE Recv(f)
  <2> DEFINE n == IF Unread(f) < BufferSize[f] - Len(buffer[f])
                  THEN Unread(f) ELSE BufferSize[f] - Len(buffer[f])
             more == [i \in 1 .. n |-> read[f] + i]
  <2>1. /\ n > 0 /\ buffer' = [buffer EXCEPT ![f] = @ \o more]
        /\ read' = [read EXCEPT ![f] = @ + n] /\ delivered' = delivered
    BY <1>3 DEF Recv, kernelVars
  <2>2. n \in Nat
    <3>1. n > 0
      BY <2>1
    <3>2. Unread(f) \in Int /\ BufferSize[f] \in Nat /\ Len(buffer[f]) \in Nat
      BY <1>0, TcpAssumption DEF Unread, TcpTypeOK
    <3> QED  BY <3>1, <3>2
  <2> HIDE DEF n
  <2>3. delivered[f] \o (buffer[f] \o BytesAfter(read[f], n)) = Bytes(read[f] + n)
    BY <1>0, <2>2, Received
  <2> QED  BY <1>0, <2>1, <2>2, <2>3 DEF TcpTypeOK, BytesAfter
<1>4. CASE Send(f)
  <2> DEFINE n == IF Len(buffer[f]) < room[f] THEN Len(buffer[f]) ELSE room[f]
  <2>1. /\ delivered' = [delivered EXCEPT ![f] = @ \o SubSeq(buffer[f], 1, n)]
        /\ buffer' = [buffer EXCEPT ![f] = SubSeq(@, n + 1, Len(@))]
        /\ read' = read
    BY <1>4 DEF Send
  <2>2. n \in 0 .. Len(buffer[f])
    BY <1>0 DEF TcpTypeOK
  <2> HIDE DEF n
  <2>3. (delivered[f] \o SubSeq(buffer[f], 1, n)) \o SubSeq(buffer[f], n + 1, Len(buffer[f]))
            = delivered[f] \o buffer[f]
    BY <1>0, <2>2, Sent
  <2> QED  BY <1>0, <2>1, <2>3 DEF TcpTypeOK
<1>5. ASSUME NEW g \in Connection, Recv(g) \/ Send(g), g # f
      PROVE  delivered'[f] \o buffer'[f] = Bytes(read'[f])
  BY <1>1, <1>5 DEF Recv, Send, kernelVars, TcpTypeOK
<1>6. CASE AcceptFails \/ Compact
  BY <1>2, <1>6 DEF AcceptFails, Compact
<1>7. CASE UNCHANGED <<delivered, buffer, read>>
  BY <1>1, <1>7
<1> QED
  BY <1>3, <1>4, <1>5, <1>6, <1>7
     DEF TcpNext, AcceptorStep, HandlerStep, LoopMoves, AcceptWaitsEdge, AcceptAgain,
         SpawnHandler, AllSpawned, Accept, RecvWaits, RecvReturns, Submit, SendWaits,
         HandlerEnds, PoolDone, ClientConnects, ClientStep, ClientSends, ClientEnds,
         ClientReads, ClientFails, allVars, tcpVars, serverVars, kernelVars

--------------------------------------------------------------------------------
LEMMA TcpInvariance == TcpSpec => [](LoopInv /\ TcpInv /\ DoneIsEchoed /\ EchoIntact)
<1>1. TcpInit => EchoIntact
  <2>1. <<>> \o <<>> = Bytes(0)
    BY DEF Bytes
  <2> QED  BY <2>1 DEF TcpInit, EchoIntact, Bytes
<1>2. TcpInv => TcpTypeOK
  BY DEF TcpInv
<1>3. LoopInv /\ TcpInv /\ [TcpNext]_allVars => TcpInv'
  BY <1>2, TcpTypeStep, OwnSocketStep, HandlingStep, AcceptedStep DEF TcpInv
<1> QED
  BY <1>1, <1>2, <1>3, InitTcpInv, LoopStep, DoneStep, EchoStep, PTL DEF TcpSpec

(* Whatever recv, send and the buffer make of it, each client gets back    *)
(* the bytes it has sent, in order and each once: those that are not in    *)
(* the buffer any more.                                                    *)
THEOREM EchoedBytesAreIntact == TcpSpec => []EchoIntact
BY TcpInvariance, PTL

(* A connection without an error is closed only when its client has ended  *)
(* and all of it is echoed.                                                *)
THEOREM NothingIsCutOff == TcpSpec => ClosedAfterEcho
<1> DEFINE Body ==
        \A f \in Connection :
            f \in open /\ f \notin open' /\ f \notin failed /\ ~stopped' =>
                Len(delivered[f]) = sent[f]
<1>1. LoopInv /\ TcpInv /\ DoneIsEchoed /\ EchoIntact /\ TcpNext => Body
  <2> SUFFICES ASSUME LoopInv, TcpInv, DoneIsEchoed, EchoIntact, TcpNext,
                      NEW f \in Connection, f \in open, f \notin open', f \notin failed,
                      ~stopped'
               PROVE  Len(delivered[f]) = sent[f]
      OBVIOUS
  <2>1. Compact
    BY LoopOnlyResumes
       DEF LoopInv, TcpNext, AcceptorStep, HandlerStep, LoopMoves, AcceptWaitsEdge,
           AcceptAgain, AcceptFails, SpawnHandler, AllSpawned, Accept, Recv, RecvWaits,
           RecvReturns, Submit, Send, SendWaits, HandlerEnds, PoolDone, ClientConnects,
           ClientStep, ClientSends, ClientEnds, ClientReads, ClientFails, BecomesReady,
           Await, AddInterest, Enter, Leave, vars
  <2>2. pc[f] = "done" /\ sockets = <<>>
    BY <2>1 DEF Compact, CloseAll, Finished, TcpInv, Accepted, OnStack, Suspended
  <2>3. read[f] = sent[f] /\ buffer[f] = <<>>
    BY <2>2 DEF DoneIsEchoed, ToSet
  <2>4. delivered[f] \in Seq(Nat) /\ delivered[f] \o <<>> = Bytes(sent[f]) /\ sent[f] \in Nat
    BY <2>3 DEF EchoIntact, Bytes, TcpInv, TcpTypeOK
  <2>5. delivered[f] = Bytes(sent[f])
    BY <2>4
  <2> QED  BY <2>4, <2>5 DEF Bytes
<1>2. LoopInv /\ TcpInv /\ DoneIsEchoed /\ EchoIntact /\ [TcpNext]_allVars => [Body]_allVars
  BY <1>1
<1> QED
  BY <1>2, TcpInvariance, PTL DEF TcpSpec, ClosedAfterEcho

(* The servers use the event loop the way it asks for: a coroutine of      *)
(* theirs is resumed only when its socket is ready.                        *)
THEOREM TcpResumeMeansReady == TcpSpec => []ResumeMeansReady
BY TcpInvariance, HarvestSuffices, PTL DEF LoopInv

(* With the closing of finished connections, the reuse of their numbers    *)
(* and a failing accept, states_ and the epoll set still agree: no         *)
(* coroutine of the servers is dropped, and none misses its event.         *)
THEOREM TcpCoroutinesAreKept == TcpSpec => [](WaitersAreKept /\ EpollAgrees /\ NoEdgeLost)
<1>1. LoopInv => WaitersAreKept /\ EpollAgrees /\ NoEdgeLost
  BY DEF LoopInv, IInv
<1> QED
  BY <1>1, TcpInvariance, PTL
================================================================================
