-------------------------------- MODULE Workers --------------------------------
(***************************************************************************)
(* The life of a server process: main() of the tcp-echo-server examples    *)
(* with its WorkerGroup (include/coro_epoll/worker_group.hpp), its         *)
(* ThreadPool and its TcpServers, from the threads' start to the           *)
(* destructors at the end of main(), which run in reverse order.  The      *)
(* loops are what LoopMailbox shows them to be (callbacks run one at a     *)
(* time, in order, until stop() is seen), the pool is JobExecutor, and a   *)
(* coroutine of a worker is in one step between two suspensions, except    *)
(* the acceptor, whose object main() may destroy while it runs.            *)
(***************************************************************************)
EXTENDS Naturals, Sequences

CONSTANTS N,            \* worker_count
          Handler,      \* the coroutines handle_client; each submits one job
          PoolThread,
          NoJob

ASSUME ConstantsAssumption == N \in Nat \ {0} /\ NoJob \notin Handler

Loop == 0 .. N - 1      \* indices of loops_
Server == 1 .. N        \* those of servers, from 1, and of their acceptors

VARIABLES
    main,       \* where main() is
    threw,      \* listen() has thrown: servers are unwound while loops run
    nextIndex,  \* next_index_
    bound,      \* the loop each server was made for
    servers,    \* the TcpServers that are alive
    poolAlive, loopsAlive,
    pending,    \* pending_tasks_ of each loop
    stopped,    \* the loops whose stopped_ is set
    ended,      \* the loops whose run() has returned
    acceptor,   \* what each accept_and_handle does
    co,         \* what each handle_client does
    home,       \* the loop it runs on
    result,     \* the ThreadPoolStates with a value or an exception
    misused,    \* history: kinds of objects used after their destruction
    queue, running, finished, refused, closed, over     \* the pool

poolVars == <<queue, running, finished, refused, closed, over>>
objects == <<servers, poolAlive, loopsAlive, misused>>
setUp == <<threw, nextIndex, bound>>
loopVars == <<pending, stopped, ended>>
coVars == <<acceptor, co, home, result>>
vars == <<main, setUp, objects, loopVars, coVars, poolVars>>

Pool == INSTANCE JobExecutor WITH Job <- Handler, Runner <- PoolThread

(* The WorkerGroup and the pool have been constructed: all loops exist     *)
(* before the first thread runs one.                                       *)
Init ==
    /\ main = "listen" /\ threw = FALSE
    /\ nextIndex = 0 /\ bound = <<>>
    /\ servers = {} /\ poolAlive = TRUE /\ loopsAlive = TRUE /\ misused = {}
    /\ pending = [l \in Loop |-> <<>>]
    /\ stopped = {} /\ ended = {}
    /\ acceptor = [s \in Server |-> "none"]
    /\ co = [h \in Handler |-> "none"]
    /\ home = [h \in Handler |-> 0]
    /\ result = {}
    /\ Pool!Init

(* An access to an object, which is an error if it no longer exists.       *)
Touch(kind, alive) == misused' = IF alive THEN misused ELSE misused \cup {kind}

Post(l, callback) == pending' = [pending EXCEPT ![l] = Append(@, callback)]

--------------------------------------------------------------------------------
(* main()                                                                  *)

(* One turn of the start-up loop: next(), listen(), post().                *)
StartServer ==
    /\ main = "listen" /\ Len(bound) < N
    /\ nextIndex' = nextIndex + 1
    /\ bound' = Append(bound, nextIndex % N)
    /\ servers' = servers \cup {Len(bound) + 1}
    /\ Post(nextIndex % N, <<"accept", Len(bound) + 1>>)
    /\ UNCHANGED <<main, threw, poolAlive, loopsAlive, misused, stopped, ended,
                   coVars, poolVars>>

(* listen() throws, and the stack is unwound.                              *)
ListenThrows ==
    /\ main = "listen" /\ Len(bound) < N
    /\ threw' = TRUE
    /\ main' = "servers"
    /\ UNCHANGED <<nextIndex, bound, objects, loopVars, coVars, poolVars>>

AllStarted ==
    /\ main = "listen" /\ Len(bound) = N
    /\ main' = "join"
    /\ UNCHANGED <<setUp, objects, loopVars, coVars, poolVars>>

(* workers.join(), and the return of main().                               *)
Join ==
    /\ main = "join" /\ ended = Loop
    /\ main' = "servers"
    /\ UNCHANGED <<setUp, objects, loopVars, coVars, poolVars>>

(* ~TcpServer, first to last.                                              *)
DestroyServer ==
    /\ main = "servers"
    /\ IF servers = {}
       THEN main' = "pool" /\ UNCHANGED servers
       ELSE /\ servers' = {s \in servers : \E r \in servers : r < s}
            /\ UNCHANGED main
    /\ UNCHANGED <<setUp, poolAlive, loopsAlive, misused, loopVars, coVars, poolVars>>

(* ~ThreadPool                                                             *)
StopPool ==
    /\ main = "pool"
    /\ Pool!Close
    /\ main' = "poolJoin"
    /\ UNCHANGED <<setUp, objects, loopVars, coVars>>

(* Deviation: the destructor of the pool does not join its threads.        *)
JoinPool_Detached ==
    /\ main = "poolJoin"
    /\ poolAlive' = FALSE
    /\ main' = "stop"
    /\ UNCHANGED <<setUp, servers, loopsAlive, misused, loopVars, coVars, poolVars>>

JoinPool ==
    /\ main = "poolJoin"
    /\ Pool!WindUp
    /\ poolAlive' = FALSE
    /\ main' = "stop"
    /\ UNCHANGED <<setUp, servers, loopsAlive, misused, loopVars, coVars>>

(* Deviation: ~WorkerGroup joins without stop().                           *)
StopLoops_None ==
    /\ main = "stop"
    /\ main' = "loopJoin"
    /\ UNCHANGED <<setUp, objects, loopVars, coVars, poolVars>>

(* ~WorkerGroup: stop() every loop, join its thread, destroy the loops     *)
(* with the frames left in tasks_ and the callbacks left in pending_tasks_ *)
StopLoops ==
    /\ main = "stop"
    /\ IF stopped = Loop
       THEN main' = "loopJoin" /\ UNCHANGED stopped
       ELSE (\E l \in Loop \ stopped : stopped' = stopped \cup {l}) /\ UNCHANGED main
    /\ UNCHANGED <<setUp, objects, pending, ended, coVars, poolVars>>

DestroyLoops ==
    /\ main = "loopJoin" /\ ended = Loop
    /\ loopsAlive' = FALSE
    /\ pending' = [l \in Loop |-> <<>>]
    /\ main' = "done"
    /\ UNCHANGED <<setUp, servers, poolAlive, misused, stopped, ended, coVars, poolVars>>

--------------------------------------------------------------------------------
(* The thread of loop l, in run().                                         *)

Idle(l) == l \notin ended /\ \A s \in DOMAIN bound : bound[s] = l => acceptor[s] # "running"

(* A posted callback: spawn(accept_and_handle(...)), or the continuation   *)
(* of a job, upon which the handler writes and waits for more.             *)
RunCallback(l) ==
    /\ Idle(l) /\ pending[l] # <<>>
    /\ Touch("loop", loopsAlive)
    /\ pending' = [pending EXCEPT ![l] = Tail(@)]
    /\ LET kind == Head(pending[l])[1]
           who == Head(pending[l])[2]
       IN  \/ /\ kind = "accept"
              /\ acceptor' = [acceptor EXCEPT ![who] = "running"]
              /\ UNCHANGED co
           \/ /\ kind = "resume"
              /\ co' = [co EXCEPT ![who] = "waits"]
              /\ UNCHANGED acceptor
    /\ UNCHANGED <<main, setUp, servers, poolAlive, loopsAlive, stopped, ended, home,
                   result, poolVars>>

(* Deviation: run() returns when it has nothing to do.                     *)
RunReturns_Idle(l) ==
    /\ Idle(l) /\ pending[l] = <<>>
    /\ Touch("loop", loopsAlive)
    /\ ended' = ended \cup {l}
    /\ UNCHANGED <<main, setUp, servers, poolAlive, loopsAlive, pending, stopped, coVars,
                   poolVars>>

(* while (!stopped_)                                                       *)
RunReturns(l) ==
    /\ Idle(l) /\ l \in stopped
    /\ Touch("loop", loopsAlive)
    /\ ended' = ended \cup {l}
    /\ UNCHANGED <<main, setUp, servers, poolAlive, loopsAlive, pending, stopped, coVars,
                   poolVars>>

(* The listening socket is readable.                                       *)
AcceptorResumed(s) ==
    /\ s \in servers /\ acceptor[s] = "waiting" /\ Idle(bound[s])
    /\ acceptor' = [acceptor EXCEPT ![s] = "running"]
    /\ UNCHANGED <<main, setUp, objects, loopVars, co, home, result, poolVars>>

(* accept4 on the server's descriptor: a client, whose handler is spawned, *)
(* EAGAIN, or an error, upon which the loop is stopped.                    *)
Accepts(s, h) ==
    /\ acceptor[s] = "running" /\ co[h] = "none"
    /\ Touch("server", s \in servers)
    /\ co' = [co EXCEPT ![h] = "waits"]
    /\ home' = [home EXCEPT ![h] = bound[s]]
    /\ UNCHANGED <<main, setUp, servers, poolAlive, loopsAlive, loopVars, acceptor,
                   result, poolVars>>

AcceptorWaits(s) ==
    /\ acceptor[s] = "running"
    /\ Touch("server", s \in servers)
    /\ acceptor' = [acceptor EXCEPT ![s] = "waiting"]
    /\ UNCHANGED <<main, setUp, servers, poolAlive, loopsAlive, loopVars, co, home,
                   result, poolVars>>

AcceptorFails(s) ==
    /\ acceptor[s] = "running"
    /\ Touch("server", s \in servers)
    /\ acceptor' = [acceptor EXCEPT ![s] = "ended"]
    /\ stopped' = stopped \cup {bound[s]}
    /\ UNCHANGED <<main, setUp, servers, poolAlive, loopsAlive, pending, ended, co, home,
                   result, poolVars>>

(* The client has sent something: co_await business_pool.submit(...),      *)
(* where enqueue() throws if the pool is stopped and ends the handler.     *)
Submit(h) ==
    /\ co[h] = "waits" /\ h \notin Pool!Known /\ Idle(home[h])
    /\ Touch("pool", poolAlive)
    /\ \/ Pool!Accept(h) /\ co' = [co EXCEPT ![h] = "offloaded"]
       \/ Pool!Refuse(h) /\ co' = [co EXCEPT ![h] = "ended"]
    /\ UNCHANGED <<main, setUp, servers, poolAlive, loopsAlive, loopVars, acceptor, home,
                   result>>

(* The end of the stream, or an error on the socket.                       *)
HandlerEnds(h) ==
    /\ co[h] = "waits" /\ Idle(home[h])
    /\ co' = [co EXCEPT ![h] = "ended"]
    /\ UNCHANGED <<main, setUp, objects, loopVars, acceptor, home, result, poolVars>>

--------------------------------------------------------------------------------
(* Thread p of the pool, in the lambda of await_suspend.                   *)

(* Deviation: a stopped pool leaves the jobs that are queued.              *)
TakeJob_NotWhenStopped(p) ==
    /\ ~closed /\ Pool!Take(p)
    /\ UNCHANGED <<main, setUp, objects, loopVars, coVars>>

TakeJob(p) ==
    /\ Pool!Take(p)
    /\ UNCHANGED <<main, setUp, objects, loopVars, coVars>>

(* The function returns or throws, and its state holds the outcome.        *)
StoreResult(p) ==
    /\ running[p] # NoJob /\ running[p] \notin result
    /\ result' = result \cup {running[p]}
    /\ UNCHANGED <<main, setUp, objects, loopVars, acceptor, co, home, poolVars>>

(* Deviation: the continuation is posted before the function has run.      *)
PostResult_Early(p) ==
    /\ running[p] # NoJob
    /\ Touch("loop", loopsAlive)
    /\ Post(home[running[p]], <<"resume", running[p]>>)
    /\ Pool!Complete(p)
    /\ UNCHANGED <<main, setUp, servers, poolAlive, loopsAlive, stopped, ended, coVars>>

(* continuation_loop->post(...)                                            *)
PostResult(p) ==
    /\ running[p] # NoJob /\ running[p] \in result
    /\ Touch("loop", loopsAlive)
    /\ Post(home[running[p]], <<"resume", running[p]>>)
    /\ Pool!Complete(p)
    /\ UNCHANGED <<main, setUp, servers, poolAlive, loopsAlive, stopped, ended, coVars>>

--------------------------------------------------------------------------------
MainStep ==
    \/ StartServer \/ ListenThrows \/ AllStarted \/ Join \/ DestroyServer
    \/ StopPool \/ JoinPool \/ StopLoops \/ DestroyLoops

AcceptorStep(s) ==
    AcceptorWaits(s) \/ AcceptorFails(s) \/ \E h \in Handler : Accepts(s, h)

PoolStep(p) == TakeJob(p) \/ StoreResult(p) \/ PostResult(p)

Next ==
    \/ MainStep
    \/ \E l \in Loop : RunCallback(l) \/ RunReturns(l)
    \/ \E s \in Server : AcceptorResumed(s) \/ AcceptorStep(s)
    \/ \E h \in Handler : Submit(h) \/ HandlerEnds(h)
    \/ \E p \in PoolThread : PoolStep(p)

(* All threads are scheduled; a loop comes round to its callbacks and to   *)
(* the test of stopped_ however many events its sockets have.              *)
Fairness ==
    /\ WF_vars(MainStep)
    /\ \A l \in Loop : SF_vars(RunCallback(l) \/ RunReturns(l))
    /\ \A s \in Server : WF_vars(AcceptorStep(s))
    /\ \A p \in PoolThread : WF_vars(PoolStep(p))

Spec == Init /\ [][Next]_vars
FairSpec == Spec /\ Fairness

--------------------------------------------------------------------------------
(* Every variable ranges over the values of what it stands for.            *)
TypeOK ==
    /\ main \in {"listen", "join", "servers", "pool", "poolJoin", "stop", "loopJoin", "done"}
    /\ threw \in BOOLEAN /\ poolAlive \in BOOLEAN /\ loopsAlive \in BOOLEAN
    /\ nextIndex \in Nat /\ bound \in Seq(Loop) /\ Len(bound) <= N
    /\ servers \subseteq DOMAIN bound
    /\ misused \subseteq {"server", "pool", "loop"}
    /\ pending \in [Loop -> Seq(({"accept"} \X Server) \cup ({"resume"} \X Handler))]
    /\ stopped \subseteq Loop /\ ended \subseteq stopped
    /\ acceptor \in [Server -> {"none", "waiting", "running", "ended"}]
    /\ co \in [Handler -> {"none", "waits", "offloaded", "ended"}]
    /\ home \in [Handler -> Loop]
    /\ result \subseteq Handler
    /\ Pool!TypeOK

(* Once start-up has succeeded no coroutine uses a server or the pool      *)
(* after the destructors at the end of main() have run, whichever worker   *)
(* fails and whatever jobs are queued then.  (If listen() throws, the      *)
(* acceptors that run already may: the servers are destroyed first, and    *)
(* nobody has stopped the loops.)  A loop is never used after that, by its *)
(* own thread or by one of the pool, if listen() throws neither.           *)
NoDanglingUse ==
    /\ ~threw => misused = {}
    /\ "loop" \notin misused

(* co_await submit(...) returns the outcome of its own function, on the    *)
(* loop it was called on, once.                                            *)
ResumedWithResult ==
    [][\A h \in Handler : co[h] = "offloaded" /\ co'[h] # "offloaded" =>
           /\ h \in result /\ h \in finished
           /\ pending[home[h]] = <<<<"resume", h>>>> \o pending'[home[h]]]_vars

(* A handler that waits for the pool goes on, unless its worker has ended, *)
(* also while main() is in the destructor of the pool.                     *)
OffloadedGoesOn ==
    \A h \in Handler : co[h] = "offloaded" ~> co[h] # "offloaded" \/ home[h] \in ended

(* main() gets through its destructors, after a failed listen() too, unless *)
(* something has been used after its destruction.                          *)
TeardownEnds == main = "servers" ~> main = "done" \/ misused # {}

(* The descriptor of a server, and what the loop keeps in states_ for it,  *)
(* are taken down when the thread of the loop has ended: "each EventLoop   *)
(* ... runs on a dedicated thread ... so no locking is needed for socket   *)
(* state" (README.md:109).                                                 *)
SocketsOfOneThread == [][\A s \in servers \ servers' : bound[s] \in ended]_vars
================================================================================
