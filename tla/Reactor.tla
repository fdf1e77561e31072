-------------------------------- MODULE Reactor --------------------------------
(***************************************************************************)
(* EventLoop (include/coro_epoll/event_loop.hpp, Linux build): the part    *)
(* coroutines see.  readable() / writable() and their _et variants store a *)
(* handle in states_ and register with epoll; dispatch() takes the handles *)
(* an event is for, re-registers what is left and resumes them; remove()   *)
(* forgets a descriptor.  The kernel's side of epoll is part of the model. *)
(* The coroutines may do anything the sockets of tcp.hpp and udp.hpp allow *)
(* as long as no two wait for the same thing (see Alone).                  *)
(***************************************************************************)
EXTENDS Naturals, Sequences

CONSTANTS Fd,           \* descriptor numbers; a closed one is reused
          Coroutine,
          NoCoroutine,  \* the null coroutine_handle
          NoWait,
          Exclusive     \* the descriptors one coroutine at a time uses (those of
                        \* the echo and HTTP servers); the others may have a
                        \* reader and a writer

Dir == {"in", "out"}            \* EPOLLIN, EPOLLOUT
Event == Dir \cup {"err"}       \* EPOLLERR or EPOLLHUP

ASSUME ConstantsAssumption ==
    /\ NoCoroutine \notin Coroutine
    /\ NoWait \notin Fd \X Dir
    /\ Exclusive \subseteq Fd

VARIABLES
    known,      \* the keys of states_
    handle,     \* FdState::read_handle ("in") and write_handle ("out")
    edge,       \* the descriptors whose FdState::edge_trigger is set
    open,       \* kernel: the open descriptors
    cond,       \* kernel: what each descriptor is ready for
    registered, \* kernel: the descriptors in the epoll set
    interest,   \* kernel: the events each is registered for
    et,         \* kernel: those registered with EPOLLET
    ready,      \* kernel: the epoll ready list
    stack,      \* the coroutines whose code is running: a coroutine that
                \* another one spawns runs first (spawn resumes it at once)
    at,         \* what each coroutine is doing
    wants,      \* what it waits for: a descriptor and a direction
    lpc,        \* where run() is: "top" and "mid" are passes over the posted
                \* callbacks, at the top of the loop and for a wakeup event
    batch,      \* the events of epoll_wait not yet dispatched, per descriptor
    wake,       \* there is a wakeup event among them
    resume      \* read_handle and write_handle of dispatch(), not yet resumed

stateVars == <<known, handle, edge>>
epollVars == <<registered, interest, et, ready>>
coVars == <<stack, at, wants>>
loopVars == <<lpc, batch, wake>>
vars == <<stateVars, open, cond, epollVars, coVars, loopVars, resume>>

NoHandles == [d \in Dir |-> NoCoroutine]

(* A loop that has not started and that nobody waits on.                   *)
IdleLoop ==
    /\ known = {} /\ edge = {}
    /\ handle = [f \in Fd |-> NoHandles]
    /\ registered = {} /\ et = {} /\ ready = {}
    /\ interest = [f \in Fd |-> {}]
    /\ wants = [c \in Coroutine |-> NoWait]
    /\ lpc = "top"
    /\ batch = [f \in Fd |-> {}]
    /\ wake = FALSE
    /\ resume = <<>>

Init ==
    /\ IdleLoop
    /\ open = {}
    /\ cond = [f \in Fd |-> {}]
    /\ stack = <<>>
    /\ at = [c \in Coroutine |-> "away"]

(* run() itself is executing.                                              *)
Suspended == stack = <<>>

(* The code of c is executing.                                             *)
Runs(c) == stack # <<>> /\ Head(stack) = c

(* A coroutine whose handle is in states_ or in the hands of dispatch().   *)
Waiting(c) == at[c] \in {"waiting", "taken"}

--------------------------------------------------------------------------------
(* The kernel.                                                             *)

IsReady(f, d) == cond[f] \cap {d, "err"} # {}

(* EPOLL_CTL_ADD and EPOLL_CTL_MOD look at the descriptor at once, and put *)
(* it on the ready list if it is ready for what it is registered for.      *)
Register(f, events, edgeTriggered) ==
    /\ registered' = registered \cup {f}
    /\ interest' = [interest EXCEPT ![f] = events]
    /\ et' = IF edgeTriggered THEN et \cup {f} ELSE et \ {f}
    /\ ready' = IF cond[f] \cap (events \cup {"err"}) # {} THEN ready \cup {f} ELSE ready

(* EPOLL_CTL_DEL, and close() of the last reference.                       *)
Deregister(f) ==
    /\ registered' = registered \ {f}
    /\ interest' = [interest EXCEPT ![f] = {}]
    /\ et' = et \ {f}
    /\ ready' = ready \ {f}

(* Data, buffer space, an error, or more of it.                            *)
BecomesReady(f, e) ==
    /\ f \in open
    /\ cond' = [cond EXCEPT ![f] = @ \cup {e}]
    /\ ready' = IF f \in registered /\ e \in interest[f] \cup {"err"}
                THEN ready \cup {f} ELSE ready
    /\ UNCHANGED <<stateVars, open, registered, interest, et, coVars, loopVars, resume>>

--------------------------------------------------------------------------------
(* The coroutine that runs, between two suspensions.                       *)

(* No other coroutine waits for what c is about to use.                    *)
Alone(c, f, d) ==
    \A o \in Coroutine \ {c} :
        Waiting(o) => wants[o] # <<f, d>> /\ (f \in Exclusive => wants[o][1] # f)

(* recv, send or accept up to EAGAIN.                                      *)
Drain(c, f, d) ==
    /\ Runs(c) /\ f \in open /\ Alone(c, f, d) /\ d \in cond[f]
    /\ cond' = [cond EXCEPT ![f] = @ \ {d}]
    /\ UNCHANGED <<stateVars, open, epollVars, coVars, loopVars, resume>>

Suspend(c, f, d) ==
    /\ stack' = Tail(stack)
    /\ at' = [at EXCEPT ![c] = "waiting"]
    /\ wants' = [wants EXCEPT ![c] = <<f, d>>]

(* Deviation: no epoll_ctl for a descriptor that has a state.              *)
AddInterest_OnlyAdds(c, f, d, edgeTriggered) ==
    /\ known' = known \cup {f}
    /\ handle' = [handle EXCEPT ![f][d] = c]
    /\ edge' = IF edgeTriggered THEN edge \cup {f} ELSE edge \ {f}
    /\ IF f \in known THEN UNCHANGED epollVars ELSE Register(f, Dir, edgeTriggered)
    /\ Suspend(c, f, d)
    /\ UNCHANGED <<open, cond, loopVars, resume>>

(* Deviation: every registration starts from a new FdState.                *)
AddInterest_NewState(c, f, d, edgeTriggered) ==
    /\ known' = known \cup {f}
    /\ handle' = [handle EXCEPT ![f] = [NoHandles EXCEPT ![d] = c]]
    /\ edge' = IF edgeTriggered THEN edge \cup {f} ELSE edge \ {f}
    /\ Register(f, Dir, edgeTriggered)
    /\ Suspend(c, f, d)
    /\ UNCHANGED <<open, cond, loopVars, resume>>

(* add_interest_impl registers for both directions, whichever is awaited,  *)
(* and stores the handle over one that is there.  (An epoll_ctl that fails *)
(* to add f leaves everything as it was, and c runs on with an exception.) *)
AddInterest(c, f, d, edgeTriggered) ==
    /\ known' = known \cup {f}
    /\ handle' = [handle EXCEPT ![f][d] = c]
    /\ edge' = IF edgeTriggered THEN edge \cup {f} ELSE edge \ {f}
    /\ Register(f, Dir, edgeTriggered)
    /\ Suspend(c, f, d)
    /\ UNCHANGED <<open, cond, loopVars, resume>>

(* co_await readable(f), writable(f) or an _et variant.                    *)
Await(c, f, d, edgeTriggered) ==
    /\ Runs(c) /\ f \in open /\ Alone(c, f, d)
    /\ AddInterest(c, f, d, edgeTriggered)

(* c ends, or suspends on something else (another task, the thread pool).  *)
Leave(c) ==
    /\ Runs(c)
    /\ stack' = Tail(stack)
    /\ at' = [at EXCEPT ![c] = "away"]
    /\ UNCHANGED <<stateVars, open, cond, epollVars, wants, loopVars, resume>>

(* A new socket: listen, accept or connect.                                *)
Open(c, f) ==
    /\ Runs(c) /\ f \notin open
    /\ open' = open \cup {f}
    /\ UNCHANGED <<stateVars, cond, epollVars, coVars, loopVars, resume>>

(* close() of a socket nobody else waits for: remove(f), then ::close.     *)
(* The events of the current batch are not touched.                        *)
Close(c, f) ==
    /\ Runs(c) /\ f \in open
    /\ \A d \in Dir : Alone(c, f, d)
    /\ known' = known \ {f}
    /\ handle' = [handle EXCEPT ![f] = NoHandles]
    /\ edge' = edge \ {f}
    /\ Deregister(f)
    /\ open' = open \ {f}
    /\ cond' = [cond EXCEPT ![f] = {}]
    /\ UNCHANGED <<coVars, loopVars, resume>>

--------------------------------------------------------------------------------
(* run()                                                                   *)

(* c is spawned, or resumed by what it had left for: by a posted callback, *)
(* or by the coroutine that runs.                                          *)
Enter(c) ==
    /\ at[c] = "away"
    /\ Suspended => lpc \in {"top", "mid"}
    /\ stack' = <<c>> \o stack
    /\ at' = [at EXCEPT ![c] = "user"]
    /\ UNCHANGED <<stateVars, open, cond, epollVars, wants, loopVars, resume>>

EndPass ==
    /\ lpc \in {"top", "mid"} /\ Suspended
    /\ lpc' = IF lpc = "top" THEN "wait" ELSE "dispatch"
    /\ UNCHANGED <<stateVars, open, cond, epollVars, coVars, batch, wake, resume>>

Reported(f) == IF f \in ready THEN cond[f] \cap (interest[f] \cup {"err"}) ELSE {}

(* epoll_wait goes through the ready list, up to 128 entries of it: what   *)
(* is still ready is reported and, unless edge-triggered, stays listed.    *)
WaitReturns ==
    /\ lpc = "wait"
    /\ wake' \in BOOLEAN
    /\ \E seen \in SUBSET ready :
           /\ batch' = [f \in Fd |-> IF f \in seen THEN Reported(f) ELSE {}]
           /\ ready' = (ready \ seen) \cup {f \in seen \ et : Reported(f) # {}}
    /\ wake' \/ \E f \in Fd : batch'[f] # {}
    /\ lpc' = "dispatch"
    /\ UNCHANGED <<stateVars, open, cond, registered, interest, et, coVars, resume>>

(* EINTR                                                                   *)
WaitInterrupted ==
    /\ lpc = "wait"
    /\ lpc' = "top"
    /\ UNCHANGED <<stateVars, open, cond, epollVars, coVars, batch, wake, resume>>

Dispatching == lpc = "dispatch" /\ Suspended /\ resume = <<>>

DispatchWakeup ==
    /\ Dispatching /\ wake
    /\ wake' = FALSE
    /\ lpc' = "mid"
    /\ UNCHANGED <<stateVars, open, cond, epollVars, coVars, batch, resume>>

(* Deviation: a null handle is resumed too.                                *)
Taken_NoNullCheck(f, dirs) ==
    (IF "in" \in dirs THEN <<handle[f]["in"]>> ELSE <<>>)
        \o (IF "out" \in dirs THEN <<handle[f]["out"]>> ELSE <<>>)

(* The handles dispatch() exchanges out of the state, the reader first.    *)
Taken(f, dirs) ==
    LET Has(d) == d \in dirs /\ handle[f][d] # NoCoroutine
    IN  (IF Has("in") THEN <<handle[f]["in"]>> ELSE <<>>)
            \o (IF Has("out") THEN <<handle[f]["out"]>> ELSE <<>>)

(* What is left of the state of f once the handles for dirs are taken.     *)
Left(f, dirs) == {d \in Dir \ dirs : handle[f][d] # NoCoroutine}

Take(f, dirs) ==
    /\ batch' = [batch EXCEPT ![f] = {}]
    /\ resume' = Taken(f, dirs)
    /\ handle' = [handle EXCEPT ![f] = [d \in Dir |-> IF d \in dirs THEN NoCoroutine ELSE @[d]]]
    /\ at' = [c \in Coroutine |->
                 IF \E d \in dirs : handle[f][d] = c THEN "taken" ELSE at[c]]
    /\ UNCHANGED <<open, cond, stack, wants, lpc, wake>>

(* update_or_remove                                                        *)
UpdateOrRemove(f, dirs) ==
    IF Left(f, dirs) = {}
    THEN /\ known' = known \ {f}
         /\ edge' = edge \ {f}
         /\ Deregister(f)
    ELSE /\ Register(f, Left(f, dirs), f \in edge)
         /\ UNCHANGED <<known, edge>>

DirsOf(events) == {d \in Dir : events \cap {d, "err"} # {}}

(* Deviation: the state is erased whatever handle is left in it.           *)
Dispatch_Forgets(f) ==
    /\ Dispatching /\ batch[f] # {} /\ f \in known
    /\ batch' = [batch EXCEPT ![f] = {}]
    /\ resume' = Taken(f, DirsOf(batch[f]))
    /\ handle' = [handle EXCEPT ![f] = NoHandles]
    /\ at' = [c \in Coroutine |->
                 IF \E d \in DirsOf(batch[f]) : handle[f][d] = c THEN "taken" ELSE at[c]]
    /\ UNCHANGED <<open, cond, stack, wants, lpc, wake>>
    /\ known' = known \ {f}
    /\ edge' = edge \ {f}
    /\ Deregister(f)

(* Deviation: the state is erased, the descriptor stays in the epoll set.  *)
Dispatch_KeepsEpoll(f) ==
    /\ Dispatching /\ batch[f] # {} /\ f \in known
    /\ Take(f, DirsOf(batch[f]))
    /\ IF Left(f, DirsOf(batch[f])) = {}
       THEN known' = known \ {f} /\ edge' = edge \ {f} /\ UNCHANGED epollVars
       ELSE UpdateOrRemove(f, DirsOf(batch[f]))

(* Deviation: an error is reported to the reader only.                     *)
Dispatch_ErrorToReader(f) ==
    /\ Dispatching /\ batch[f] # {} /\ f \in known
    /\ LET dirs == {d \in Dir : d \in batch[f] \/ (d = "in" /\ "err" \in batch[f])}
       IN  Take(f, dirs) /\ UpdateOrRemove(f, dirs)

(* Deviation: any event resumes both coroutines.                           *)
Dispatch_Both(f) ==
    /\ Dispatching /\ batch[f] # {} /\ f \in known
    /\ Take(f, Dir) /\ UpdateOrRemove(f, Dir)

(* dispatch() of an event, up to the first resume().                       *)
Dispatch(f) ==
    /\ Dispatching /\ batch[f] # {} /\ f \in known
    /\ Take(f, DirsOf(batch[f]))
    /\ UpdateOrRemove(f, DirsOf(batch[f]))

(* dispatch() of an event whose descriptor has no state any more.  That    *)
(* needs a close() of a descriptor somebody waits for: Close, by Alone,    *)
(* leaves every event its state (the loop would be stuck otherwise, and    *)
(* TLC report a deadlock), and only Proxy takes this step.                 *)
DispatchUnknown(f) ==
    /\ Dispatching /\ batch[f] # {} /\ f \notin known
    /\ batch' = [batch EXCEPT ![f] = {}]
    /\ UNCHANGED <<stateVars, open, cond, epollVars, coVars, lpc, wake, resume>>

(* read_handle.resume() or write_handle.resume()                           *)
Resume ==
    /\ lpc = "dispatch" /\ Suspended /\ resume # <<>>
    /\ stack' = <<Head(resume)>>
    /\ at' = [at EXCEPT ![Head(resume)] = "user"]
    /\ wants' = [wants EXCEPT ![Head(resume)] = NoWait]
    /\ resume' = Tail(resume)
    /\ UNCHANGED <<stateVars, open, cond, epollVars, loopVars>>

NextIteration ==
    /\ Dispatching /\ ~wake /\ \A f \in Fd : batch[f] = {}
    /\ lpc' = "top"
    /\ UNCHANGED <<stateVars, open, cond, epollVars, coVars, batch, wake, resume>>

--------------------------------------------------------------------------------
CoroutineStep(c) ==
    \/ \E f \in Fd, d \in Dir :
           Drain(c, f, d) \/ \E edgeTriggered \in BOOLEAN : Await(c, f, d, edgeTriggered)
    \/ \E f \in Fd : Open(c, f) \/ Close(c, f)
    \/ Leave(c)

LoopAdvances ==
    \/ EndPass \/ DispatchWakeup \/ Resume \/ NextIteration
    \/ \E f \in Fd : Dispatch(f)

Next ==
    \/ \E f \in Fd, e \in Event : BecomesReady(f, e)
    \/ \E c \in Coroutine : CoroutineStep(c) \/ Enter(c)
    \/ LoopAdvances \/ WaitReturns \/ WaitInterrupted

Spec == Init /\ [][Next]_vars

(* A coroutine suspends or ends after finitely many steps, a pass runs     *)
(* finitely many callbacks, and epoll_wait, which is not interrupted for   *)
(* ever, goes round its ready list.                                        *)
Fairness ==
    /\ \A c \in Coroutine : SF_vars(Leave(c))
    /\ SF_vars(LoopAdvances)
    /\ \A f \in Fd : SF_vars(WaitReturns /\ batch'[f] # {})

FairSpec == Spec /\ Fairness

--------------------------------------------------------------------------------
(* Every variable ranges over the values of what it stands for.            *)
TypeOK ==
    /\ known \subseteq Fd /\ edge \subseteq known
    /\ handle \in [Fd -> [Dir -> Coroutine \cup {NoCoroutine}]]
    /\ open \subseteq Fd
    /\ cond \in [Fd -> SUBSET Event]
    /\ registered \subseteq open /\ et \subseteq registered /\ ready \subseteq registered
    /\ interest \in [Fd -> SUBSET Dir]
    /\ stack \in Seq(Coroutine)
    /\ at \in [Coroutine -> {"away", "user", "waiting", "taken"}]
    /\ wants \in [Coroutine -> (Fd \X Dir) \cup {NoWait}]
    /\ lpc \in {"top", "mid", "wait", "dispatch"}
    /\ batch \in [Fd -> SUBSET Event]
    /\ wake \in BOOLEAN
    /\ resume \in Seq(Coroutine)

(* No coroutine is forgotten and none is resumed twice: states_ holds the  *)
(* handle of exactly the coroutines that wait, where they wait.            *)
WaitersAreKept ==
    \A c \in Coroutine, f \in Fd, d \in Dir :
        handle[f][d] = c <=> at[c] = "waiting" /\ wants[c] = <<f, d>>

(* states_ and the epoll set agree: the same descriptors are in both, each *)
(* registered for every direction somebody waits for, and in the trigger   *)
(* mode of its state.  Nothing is left of a descriptor nobody waits for,   *)
(* so that a new socket of the same number is added, not modified.         *)
EpollAgrees ==
    /\ known = registered
    /\ edge = et
    /\ \A f \in Fd :
           /\ {d \in Dir : handle[f][d] # NoCoroutine} \subseteq interest[f]
           /\ f \in known <=> \E d \in Dir : handle[f][d] # NoCoroutine

(* No edge is lost, although an edge is reported once and may be reported  *)
(* for the other direction, or before anyone waits: a waiting coroutine    *)
(* whose descriptor is ready is on the ready list or in the batch.         *)
NoEdgeLost ==
    \A c \in Coroutine, f \in Fd, d \in Dir :
        at[c] = "waiting" /\ wants[c] = <<f, d>> /\ IsReady(f, d) =>
            f \in ready \/ batch[f] \cap {d, "err"} # {}

(* A coroutine is resumed only when what it waits for is there (README.md: *)
(* "Returns an awaiter that suspends until fd is readable"), as long as it *)
(* has the descriptor for itself.  With a reader and a writer it may not   *)
(* be: an event harvested before one of them starts to wait resumes it.    *)
ResumeMeansReady ==
    resume # <<>> /\ Suspended =>
        \E f \in Fd, d \in Dir :
            /\ wants[Head(resume)] = <<f, d>>
            /\ f \in Exclusive => IsReady(f, d)

(* A coroutine whose descriptor is ready is resumed.                       *)
ReadyIsResumed ==
    \A c \in Coroutine :
        /\ at[c] = "waiting"
        /\ \E f \in Fd, d \in Dir : wants[c] = <<f, d>> /\ IsReady(f, d)
        ~> at[c] = "user"
================================================================================
