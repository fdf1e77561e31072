# Verification of cpp-coroutine-epoll

TLA+ models of the event loop, the thread pool, the sockets and the example
servers of this repository, the TLC configurations that check them, and TLAPS
proofs about the core components and the example servers. Every definition that
models code is tied to its source lines in `PROJECT.json` (`map`); paths below
are relative to `src/`, and header names stand for `include/coro_epoll/<name>`.

1. [The system](#1-the-system) — inventory: parts, state, operations, hazards
2. [The modules](#2-the-modules) — which module models what, and how
3. [The runs](#3-the-runs) — what TLC checks, on which bounds
4. [Fairness](#4-fairness)
5. [The proofs](#5-the-proofs)
6. [Where code and documentation disagree](#6-where-code-and-documentation-disagree)
7. [What is not modelled](#7-what-is-not-modelled)
8. [Plan](#8-plan)

## 1. The system

A header-only C++20 library (an epoll/kqueue event loop, `Task` coroutines, TCP
and UDP sockets, a thread pool) and six example servers. A server runs one
`EventLoop` per worker thread (`WorkerGroup`), a listening or bound socket per
worker (`SO_REUSEPORT`), and one `ThreadPool` for the work on each message.

| Part | Source | State | Operations |
|---|---|---|---|
| EventLoop, mailbox | `event_loop.hpp` | `stopped_`, `pending_tasks_`, `pending_mutex_`, the eventfd, `tasks_` | `post`, `stop` (any thread); `run`, `spawn`, the passes `drain_pending_tasks` and `compact_finished_tasks` |
| EventLoop, readiness | `event_loop.hpp` | `states_` (per descriptor: read handle, write handle, trigger mode), the epoll set | `readable`/`writable` and `_et`, `add_interest_impl`, `dispatch`, `update_or_remove`, `remove` |
| Task | `task.hpp` | coroutine frame, continuation, value or exception | `co_await`, final suspension, `await_resume`, destruction |
| ThreadPool | `thread_pool.hpp` | `tasks_`, `stopped_`, `mutex_`, `condition_`, `threads_` | `submit`, `enqueue`, `stop`, `join`, `worker_loop` |
| WorkerGroup | `worker_group.hpp` | loops, threads, `next_index_` | constructor, `next`, `stop`, `join` |
| TcpSocket, TcpServer | `tcp.hpp` | `fd_`, `loop_` | `async_read(_et)`, `async_write`, `async_accept(_fd,_et)`, `listen`, `close` |
| UdpSocket | `udp.hpp` | `fd_`, `loop_` | `bind`, `async_recv_from(_et)`, `async_send_to`, `close` |
| Examples | `examples/*/main.cpp` | locals of coroutines | TCP echo, UDP echo (each also edge-triggered), proxy, HTTP |

How they interact. Other threads reach a loop only through `post()` and
`stop()`: a queue under a mutex and an eventfd in the epoll set. A coroutine
reaches the loop by leaving its handle in `states_`, and gets the thread back
from `dispatch()`. The pool reaches a coroutine by posting its `resume` to the
loop that owns it. `spawn()` resumes the new coroutine at once, nested in the
one that calls it; a finished coroutine, with the sockets its frame owns, is
destroyed only by a later compaction.

What is hard here, and what makes each part correct (every hazard is listed at
its line in `PROJECT.json`, with the properties that cover it):

- *Mailbox.* A push or a stop between the pass and `epoll_wait` must not be
  slept on; the eventfd counter saturates and the failed write is ignored; a
  callback that throws takes the rest of its batch with it; compaction runs
  between events of one batch. Correct: no wakeup lost, callbacks once and in
  order, `stop()` ends `run()`, finished coroutines and no others destroyed.
- *Readiness.* An event is used after other events of its batch, and the
  callbacks of a wakeup, have closed, reopened and re-registered descriptors; an
  edge is reported once, for whichever direction, maybe before anyone waits; one
  `FdState` holds the trigger mode of both directions. Correct: `states_`, the
  epoll set and the suspended coroutines agree, no edge is lost, nobody is
  resumed twice.
- *Thread pool.* Notifications come after the unlock, workers wake spuriously,
  `stop()` races both ends. Correct: a queued job has a worker on its way,
  everyone sees the stop, every accepted job runs exactly once before `join()`
  returns.
- *Tasks.* Coroutines resume each other by nested calls, and a task may end
  inside the call that starts it. Correct: one runs at a time, an await nests
  like a call, and a frame lives until its outcome has been taken.
- *Process.* Main, pool and loop threads meet again when `main()` unwinds: jobs
  are queued, workers may have failed, continuations are about to be posted.
  Correct: a result is stored before its coroutine resumes, on its own loop;
  nothing is used after its destruction; the destructors finish.
- *Servers.* Partial sends and reads, full buffers, half-closed connections,
  two coroutines on one socket, a failing `accept`, reuse of descriptor numbers.
  Correct: a byte stream arrives unchanged, and connections end.

## 2. The modules

| Module | Models | Built on |
|---|---|---|
| `LoopMailbox` | `post`, `stop`, `run` with its passes, `tasks_` | |
| `CallbackQueue` | the promise of `post`/`run`; abstract | implemented by `LoopMailbox` |
| `Reactor` | `states_`, `dispatch`, and the kernel's epoll | |
| `ThreadPool` | `enqueue`, `stop`, `join`, `worker_loop` | |
| `JobExecutor` | the promise of the pool; abstract | implemented by `ThreadPool` |
| `Proxy` | a session of `proxy-server` on its loop | extends `Reactor` |
| `TcpEcho` | a worker of either TCP echo server | extends `Reactor` |
| `UdpEcho` | a worker of either UDP echo server | extends `Reactor` |
| `TaskChain` | `Task`: awaits, results, exceptions, frames | |
| `HttpServer` | a connection of `http-server` | extends `TaskChain` |
| `Workers` | `main()` of a server: `WorkerGroup`, servers, hand-over to the pool, teardown | instance of `JobExecutor` |
| `*_proof` | theorems (section 5) | the module of the name; `TcpEcho_proof` and `Proxy_proof` also on `Reactor_proof` |
| `MC*` | instances for TLC | the module of the name |

Operators whose names have a suffix and a comment `Deviation:` are wrong
variants of the action below them (a dropped guard, a missing reset, a swapped
order). The specifications never use them; each shows that some property
notices the mistake (`mutants` in `PROJECT.json`).

**LoopMailbox.** Variables are the members plus the progress of each thread:
`op[t]` is a thread inside `post()` (`pushed`, `woken`) or `stop()`
(`stopping`), `lpc` and `site` say where the loop thread is and whose pass it is
in. `post()` is three steps because the mutex is held across the push and the
write to the eventfd; `stop()` is two. The exchange of the queue in
`drain_pending_tasks` is one step under the mutex, each callback is a step of
its own with user code in between, which may post, stop, spawn and resume.
Exceptions: a callback's cuts the pass short, and its consequences depend on
where the pass is (at the top only `std::exception` is caught, in `dispatch`
everything is); a coroutine that ends with something that is no
`std::exception` ("poisoned") makes compaction throw. What is not caught ends
`run()` without a `stop()` (`lpc = "unwound"`). Events of descriptors
appear as resumptions of some suspended coroutine.

**Reactor.** `known`, `handle`, `edge` are `states_`; `registered`, `interest`,
`et`, `ready` are the kernel's epoll set and ready list, modelled from epoll's
documented behaviour (level-triggered entries are listed again while ready,
edge-triggered ones are not, `ADD`/`MOD` look at the descriptor at once);
`cond[f]` is what `f` is ready for. Coroutines are arbitrary: they drain, await,
open, close, spawn and leave in any order allowed by `Alone`. `Dispatch` is the
code of `dispatch` up to the first `resume()` — the handles are taken, the rest
re-registered or the state erased — and each `Resume` is a step, since what the
first coroutine does can change the world of the second. `EndPass` and `Enter`
stand for the passes over posted callbacks (detailed in `LoopMailbox`).
`Exclusive` is the set of descriptors used by one coroutine at a time (the
connections of the echo servers); on the others there may be a reader and a
writer at once (the proxy). `ResumeMeansReady` speaks of the exclusive ones
only, because `dispatch` resumes whoever waits when the event is dispatched,
also a coroutine that began to wait after it was harvested: with two coroutines
on a descriptor one may be resumed for an event that the other has used up. The
sockets retry; `async_connect_to` of the proxy does not.

**ThreadPool.** One worker program counter per wait-relevant point: before the
lock, predicate, about to block (still holding the lock), blocked, running,
returned. `enqueue` and `stop` are split at the unlock, before the
notification. `notify_one` picks any blocked worker or none if there is none;
spurious wakeups happen at any time.

**Proxy.** `Reactor` with its coroutines made concrete: the session connects,
spawns the relay client-to-backend and awaits the one back; both relays share
both sockets, and the first to end closes them under the other, with whatever
handle `states_` holds. Bytes are numbered, so that the stream delivered shows
loss, repetition and reordering. Peers send, shut down, read and fail at any
time.

**TcpEcho.** The acceptor and a handler per connection, level- or
edge-triggered (`batched`, chosen initially). Descriptor numbers are reused; a
handler's coroutine is named after its descriptor. Connections are closed where
the code closes them, in the compaction that destroys the finished handler. An
accept that fails (`EMFILE`) drops the batch and stops the loop. Data of a
client arrives after its accept: what comes earlier is seen by the handler's
first `recv` in either case.

**UdpEcho.** The sequential server's one coroutine, or the batch server's loop
with its handlers, all on one socket: here a stored write handle may be
overwritten, so `AddInterest` is used without the guard `Alone`. Datagrams are
of equal size, so that the buffer holds the last one received. `recvfrom` and
`sendto` may fail at every call with an error that is neither `EINTR` nor
`EAGAIN`: `RecvFails` gives up the batch received so far, `SendFails` the
datagram in hand; what ends `udp_echo_loop` stops its loop (`stopped`), what ends
a handler stays in its promise. `dropped` records the datagrams lost this way.
The frames of handlers are interchangeable, and `NextHandler` takes an idle one.
In both echo models `pool.submit` is a suspension that a posted continuation ends, and an
eventfd event means that such a continuation (or a stop) is posted.

**TaskChain.** `frame[c]` is the state of a coroutine, `continuation[c]` who
awaits it, `outcome[c]` its value or exception. `Call` is `await_suspend` (the
callee runs inside it), `Ended` the resumption of the continuation in the final
suspension, `Collect` the `await_resume` of a coroutine that runs again, with
the end of the temporary `Task`; `GoesOn` says that nothing else happens before
it. What a coroutine does otherwise is left to the module that extends this one.

**HttpServer.** `handle_client`, `parse_request`, `read_line`, `async_read` and
`async_write` are five frames of `TaskChain`, each with its locals; all actions
of the code are actions of `TaskChain` with something added. A request is a
sequence of members of `Symbol`: a space, CR and LF matter to the parser, any run
of other bytes is one symbol. `ResponsesMatch` finds the requests in the input by
the positions of its line ends (`LineEnds`, `Blanks`, `Complete`, `Answered`),
without reading it in order, and says from them how much is to be sent (`Owed`)
and which response stands where on the wire (`AsAsked`). Two things the code
does show in these definitions: the end
of the stream ends a line and the headers, so that a request cut off there is
answered as if it were complete; and a blank line, or a line that begins with a
space, where a request should start ends the connection like the end of the
stream (an empty method). The second is not what the comments of the code say
(section 6).

**Workers.** A process of a TCP echo server: `main` is the place in `main()`
(start-up, `join`, then one label per destructor), `bound` and `servers` the
listening sockets, `pending`, `stopped` and `ended` what `LoopMailbox` shows a
loop to be, `co` and `home` the handlers with their loops, `result` the shared
states that hold an outcome. The pool is the abstract `JobExecutor`, which
`ThreadPool` implements: `Submit` is accepted or refused by it, `StoreResult` and
`PostResult` are the two halves of the job's lambda, `RunCallback` resumes the
coroutine. `misused` records an object touched after its destruction, a loop by
its own thread included: after every callback `run()` looks at `stopped_` again.

## 3. The runs

| Run | Configuration | Shows | Distinct states |
|---|---|---|---|
| `mailbox` | `MCLoopMailbox.cfg` | wakeups, compaction, refinement of `CallbackQueue`, liveness | 266 142 |
| `pool` | `MCThreadPool.cfg` | work conservation, stop, refinement of `JobExecutor`, liveness | 41 341 |
| `reactor` | `MCReactor.cfg` | three coroutines on one descriptor: nobody forgotten, no edge lost, the ready are resumed | 12 873 |
| `proxy` | `MCProxy_relay.cfg` | byte streams, liveness and teardown of a session | 127 764 |
| `tcp_echo` | `MCTcpEcho.cfg` | echo exact and complete, accepts, closing, reuse; resumed means ready | 223 991 |
| `udp_echo` | `MCUdpEcho.cfg` | every datagram accounted for and none doubled, sequential echo faithful, liveness with failing calls | 94 290 |
| `workers` | `MCWorkers.cfg` | hand-over to the pool, teardown with failing workers | 17 979 |
| `http` | `MCHttpServer.cfg` | nesting of awaits, responses in order, liveness, hangup | 139 168 |
| `workers_startup`, `proxy_teardown`, `udp_echo_payload`, `udp_echo_lost` | `MC*_*.cfg` | violations: section 6 | |

Why the bounds are enough for the cases that matter:

- `mailbox`: two posting threads and the loop's own callbacks give every pair
  and triple of concurrent calls against a pass; three callbacks make a batch
  with one running, one behind it and one posted meanwhile; `MaxCount = 2` makes
  the eventfd saturate; one coroutine goes through spawn, suspend, resume,
  finish, poison and reuse of its slot.
- `pool`: three workers, three jobs and two callers allow two notifications in
  flight while a third worker blocks, and a stop between any two steps.
- `reactor`: a reader and a writer wait on one descriptor while a third
  coroutine starts, ends and takes the place of either. Events that close and
  reuse other descriptors of their batch are in `tcp_echo`, which checks
  `ResumeMeansReady` on the same actions, and in `proxy`.
- `proxy`: two bytes a side with room for one make every send of a full buffer
  partial; both directions wait on both sockets at once.
- `tcp_echo`: two clients on two descriptors arrive in one batch or one after
  the other on a reused number; one handler's buffer holds one byte (data
  remains when it is full) and the other's two with room for one (a send is
  partial). In the code all buffers have one size, which nothing depends on.
- `udp_echo`: a batch of two and a third datagram behind it; room for one send
  makes two of three handlers wait. Any `recvfrom` and any `sendto` may fail.
- `workers`: one worker can fail while the other serves; two handlers on one
  pool thread have one job running and one queued when the pool is stopped, on
  the same loop or on different ones.
- `http`: three pieces make up to three requests, with headers or cut off
  anywhere, CR and LF apart, blank lines, a line without a space; a response of
  two symbols with room for one makes every send partial.

`CHECK_DEADLOCK FALSE` is set for the server models, where a loop with no work
blocks in `epoll_wait` for good, and in `TcpEcho` and `UdpEcho` also ends when it
is stopped; a `Workers` process and an HTTP connection come to an end.
In `Reactor` a descriptor is closed only when nobody waits for it, so that every
event still finds its state; the early return of `dispatch` for one that does
not (`DispatchUnknown`) is a step of `Proxy`, where descriptors are closed under
a waiting coroutine.

## 4. Fairness

- *Loop.* Its thread is scheduled (weak fairness of the loop's steps).
  `epoll_wait` is only assumed to return when there is an event, and a run of
  `EINTR`s to end. In `Reactor`, where coroutines are arbitrary, they are
  assumed to suspend or end after finitely many steps, and posted callbacks of a
  pass to be finitely many; `epoll_wait` gets to every entry of its ready list,
  as the kernel rotates the list past the 128 it returns. In the server models
  the coroutines are the code's, and only weak fairness of the thread is assumed.
- *Callbacks.* User code gives the thread back (strong fairness of its return,
  because it may call `post` and `stop` any number of times before).
- *Mutexes.* A thread that asks for `pending_mutex_` or `mutex_` again and again
  gets it; a thread inside a call finishes it.
- *Pool in the server models.* A job submitted is run and its continuation
  posted (`AcceptedIsRun` in `ThreadPool`, `PostedIsTaken` in `LoopMailbox`).
  Strong fairness, since the continuation enters only between two suspensions.
- *Process.* All threads are scheduled, and a loop gets to its callbacks and to
  the test of `stopped_` whatever events its sockets have (strong fairness,
  since its coroutines step in between; `PostedIsTaken` and `StopEndsRun` in
  `LoopMailbox`).
- *HTTP.* The worker runs; a client reads what it is sent.
- *Outside.* Peers and the host drain what has been sent. Nothing forces anyone
  to connect, send, post, stop or shut down, nor a spurious wakeup.

## 5. The proofs

Proved by TLAPS for every value of the constants, assuming only the
named assumptions of the module:

| Theorem | Statement |
|---|---|
| `LoopMailbox_proof!TypeCorrect` | `TypeOK`, with the eventfd inside its counter and the mutex held only inside `post()` |
| `LoopMailbox_proof!NoWakeupLost` | `NoLostWakeup` |
| `LoopMailbox_proof!CompactionSafe` | `OnlyFinishedDestroyed`, an action property |
| `LoopMailbox_proof!MailboxRefinement` | `LoopMailbox` implements `CallbackQueue` |
| `LoopMailbox_proof!CallbacksInOrder`, `PostOrderIsKept` | callbacks run in order and once (`RunInPostOrder`): proved of the abstract queue, carried over by the refinement |
| `ThreadPool_proof!TypeCorrect`, `StopReachesWorkers`, `PoolIsWorkConserving`, `JoinFinishesJobs` | `TypeOK`, `StopNotLost`, `WorkConserving`, `JoinIsFinal` |
| `ThreadPool_proof!PoolRefinement` | `ThreadPool` implements `JobExecutor` |
| `ThreadPool_proof!JobsInOnePlace`, `PoolJobsInOnePlace` | a job is in one place (`JobInOnePlace`): abstract, and carried over |
| `Reactor_proof!TypeCorrect`, `NoCoroutineForgotten`, `StatesMatchEpoll`, `EdgesAreNotLost`, `NoSpuriousResume` | `TypeOK`, `WaitersAreKept`, `EpollAgrees`, `NoEdgeLost`, `ResumeMeansReady` |
| `TcpEcho_proof!EchoedBytesAreIntact` | `EchoIntact` |
| `TcpEcho_proof!NothingIsCutOff` | `ClosedAfterEcho`, an action property |
| `TcpEcho_proof!TcpCoroutinesAreKept`, `TcpResumeMeansReady` | `WaitersAreKept`, `EpollAgrees`, `NoEdgeLost` and `ResumeMeansReady`, of the echo servers |
| `UdpEcho_proof!DatagramsAreAccountedFor`, `SequentialEchoIsFaithful` | `DatagramInOnePlace`, `LoopEchoIsFaithful` |
| `Proxy_proof!RelayedBytesAreIntact` | `StreamIntact` |
| `Workers_proof!TypeCorrect`, `NothingDangles` | `TypeOK`, `NoDanglingUse` |
| `Workers_proof!OutcomeBeforeResumption` | `ResumedWithResult`, an action property |
| `HttpServer_proof!AwaitsNest` | `CallsNest`, for any coroutines that await each other in any order |
| `HttpServer_proof!ConnectionNests` | `CallsNest`, for the coroutines of an HTTP connection |
| `HttpServer_proof!RequestsAreAnsweredInOrder` | `ResponsesMatch` |

A theorem about an abstract module (`CallbacksInOrder`, `JobsInOnePlace`,
`AwaitsNest`) stands beside the module that makes use of it, and uses nothing of
that module but its instance of the abstract one.

The inductive invariants and why they are needed:

- *LoopMailbox.* `NoLostWakeup` speaks of the loop in `epoll_wait` only, and a
  step into `epoll_wait` could break it. `QueueSignalled` states it at every
  point of the loop: what is queued is signalled, by the eventfd, by a thread
  between push and write, or by the pass that has drained the eventfd and not
  yet swapped the queue. `StopSignalled` is its counterpart for a stop after
  the check at the top. `MutexHeld` gives the exclusion that push and swap need,
  `WaitsFromTop` says that only the pass at the top leads to `epoll_wait`, and
  `PassShape` what runs where.
- *ThreadPool.* `LockHeld` carries the failed predicate of a worker about to
  block (the lock is held, so it is still false when it blocks), `WorkerShape`
  ties the wait set and the job in hand to the program counter,
  `ReturnedIsFinal` says that a pool a worker has left stays stopped and empty.
  `WorkConserving` counts: one lemma for each effect of a step on the sets of
  awake workers and notifying callers.
- *Reactor.* The four properties only hold together: `WaitersAreKept` needs
  `EpollAgrees` to know that a state without handles is gone, `NoEdgeLost` needs
  the registered interest to cover whoever waits. `StackShape`, `ResumeShape`
  and `BatchShape` say that running, taken and waiting coroutines are different
  ones and that events exist only while they are dispatched. `NoSpuriousResume`
  adds `Harvest`: what an event of an exclusive descriptor says stays true until
  the coroutine it resumes runs, since nobody else touches that descriptor.
- *TcpEcho.* The reactor's invariant (`LoopInv`) holds here too, although a step
  of the servers is not always one of `Reactor`: an accept opens a socket, a
  `recv` or `send` changes what a socket is ready for, and a compaction closes
  several. `FreeReadinessStep` and `ClosesStep` say what is needed of such a
  step: the descriptors it touches are ones no coroutine waits for (`Free`).
  `OwnSocket` (a coroutine waits for its own socket only) and `Handling` (an
  active handler's socket is open and has been spawned) give that. With the
  arithmetic of `recv` and `send` on numbered bytes (`Received`, `Sent`),
  `EchoIntact` is inductive on top of it; `NothingIsCutOff` needs `DoneIsEchoed`
  as well: a handler is done, its connection not failed, only with an empty
  buffer, all read and the client at its end.
- *UdpEcho.* `Placed` says where each datagram is: once in exactly one of the
  socket, the batch, a coroutine's hands, the answers, and what a failed call has
  cost if it has arrived, and nowhere otherwise; every step moves datagrams from
  one place to the next. That this is a move rests on `Jobs`, which says at which of its program points
  a coroutine has a datagram in hand. For the sequential server `OneAtATime`
  ties the one buffer to the one datagram being answered; the batch server has
  nothing of the kind, which is why its echo is wrong (section 6).
- *Proxy.* A relay's `recv` overwrites its buffer, so `StreamIntact` needs that
  the buffer is empty whenever the relay reads (`ReadsIntoEmpty`). Nothing about
  the loop is needed: whoever is resumed, and whatever the other relay has closed,
  a relay moves bytes between its own two ends only.
- *Workers.* `NoDanglingUse` needs to know what each place in `main()` implies
  (`Phases`): before the servers go, all loops have ended (if start-up
  succeeded), so that no acceptor or handler runs; before the pool goes, its
  threads have been joined, so that no continuation is posted later
  (`OverIsIdle`); and the loops go last, after their threads have been joined
  (`LoopUseStep`), which holds for a failed start-up too. `PostedHome` and `RunsHome` tie an
  acceptor to the loop its server was made for, from the posted callback on.
  `OutcomeBeforeResumption` needs that a continuation is posted, to the loop of
  its handler, only with the result stored and the job done (`KnownIsSpawned`,
  `ResumesWithResult`).
- *TaskChain.* `CallsNest` is inductive as it stands: that continuations are
  injective, and that a frame which is free has none, are part of it because a
  step that reuses or frees a frame would break the rest. For `HttpServer` one
  lemma shows that each of its steps is a `ChainNext` step or leaves the chain
  alone.
- *HttpServer.* `ResponsesMatch` relates what is sent to positions of the whole
  stream, the coroutines know only the symbols read since the last call. Two
  invariants lie between. `Control`, on top of `CallsNest`, says who awaits whom
  and from where (`Nesting`), where a coroutine can be (`Places`) and what it has
  left when it is done (`Results`). `Tracking` names four numbers: `st`, where the
  request at hand starts, `ls`, where the line at hand starts, `q`, what has been
  read, and `w`, how much of the response is out. It says of each coroutine that
  is alive what its locals have to do with them: the `line` of `read_line` is
  what stands between `ls` and `q` (`ReaderTracks`), the `request` of
  `parse_request` is the first line after `st` and no blank line has come since
  (`ParserTracks`), what is on the wire answers the requests before `st` and `w`
  of that one (`Sent`). The numbers are quantified in the invariant, no history
  variable is added; at the end of the stream `q` runs past the input, over the
  two line ends that it stands for. That a client which sends more changes
  nothing of what has been read is a set of lemmas about streams that continue
  (`Continues`: `EndsStay`, `LinesStay`, `ReachedStays`, `EarlierStays`); that
  responses follow each other without a gap is arithmetic on `Rank`, what is
  owed before a request (`NextRequest`, `RankGrows`).

For the refinements the mapping is `queue <- local \o pending` (a batch under way
is still the front of the queue) for the mailbox and the identity for the pool;
the steps on locks, eventfd and notifications stutter.

Out of the prover's reach, and checked by TLC only: everything temporal that
rests on fairness (the liveness properties of all runs), and what recursive
definitions or inductions over data compute. Every invariant and every action
property of a passing run is stated by a theorem. `EpollAgrees` and
`NoEdgeLost` are stated of `Reactor` and of the TCP echo servers; they are not
claimed of `Proxy` and `UdpEcho`, which go beyond the discipline (`Alone`,
closing what nobody waits for) that the proofs in `Reactor_proof` rest on.

## 6. Where code and documentation disagree

Each of these is a run that ends in a counterexample (`findings` in
`PROJECT.json` quotes both sides).

- `workers_startup` / `SocketsOfOneThread`. README: a loop "runs on a dedicated
  thread", and its sockets need no locking. When `listen()` throws for a later
  worker, `main()` destroys the earlier servers while their loops run: `close()`
  changes `states_` from the wrong thread, and the acceptors keep a dangling
  reference. (After a complete start-up `NoDanglingUse` holds.)
- `udp_echo_payload` / `BatchEchoIsFaithful`. `async_recv_from_et` receives all
  datagrams of a batch to the front of one buffer; the edge-triggered UDP server
  sends every endpoint the last one.
- `udp_echo_lost` / `SendCompletes`. Of two handlers waiting to send on the one
  UDP socket, the second overwrites the handle of the first, which is never
  resumed.
- `proxy_teardown` / `SiblingExits`. The proxy says that closing both sockets
  wakes the sibling relay; `remove` forgets its handle instead, and it stays
  suspended until the loop is destroyed.

One more has no run of its own, because `ResponsesMatch` (run `http`) states
what the code does: by the comments at `examples/http-server/main.cpp:222` and
`231-232`, `handle_client` leaves its loop at the end of the stream or on an
error. A blank line, or a line that begins with a space, where a request should
start also gives an empty method, and the connection is closed without a
response (`Answered` ends at the first such line).

## 7. What is not modelled

- The kqueue branches: another kernel interface (a filter per direction, a
  pipe), of which only the Apple build is made.
- `epoll_ctl` failing for want of memory, `epoll_wait` failing with anything but
  `EINTR`, threads that cannot be created: each ends the loop or the process.
  That `epoll_ctl` cannot fail because `states_` and the epoll set disagree is
  `EpollAgrees`.
- `bind` and `UdpSocket::close`: the sockets of the UDP servers live from start-up to the end of the process, as the servers in
  `Workers`. `main()` of the UDP, proxy and HTTP servers has the same steps as
  the one in `Workers`. Moves of sockets and tasks.
- Stack depth: coroutines resume each other by nested calls, and a chain of
  awaits that complete at once deepens the stack. `TaskChain` says who runs, not
  on how many frames, and code that would use a frame after the nested `resume()`
  has returned is not seen.
- HTTP headers, which the server reads and no route looks at; argument parsing,
  static files, logging.
- Memory ordering of the atomics: steps are sequentially consistent.
  `stopped_` is the only atomic that two threads use without a lock, and the
  write to the eventfd follows it.
- What follows an uncaught exception in a worker thread (the end of the
  process).

## 8. Plan

The modules of section 2 were written in this order, most important first:
the mailbox, the pool, the reactor, the servers on it (`Proxy`, `UdpEcho`,
`TcpEcho`), the process (`Workers`), tasks and the HTTP server. What is left:

1. Proofs: what remains of the loop's guarantees when descriptors are closed
   under a waiting coroutine (`Proxy`) or a handle is overwritten (`UdpEcho`).
2. A kqueue variant of `Reactor`, against an abstract readiness that both
   implement.
3. The accept loop of the proxy.
