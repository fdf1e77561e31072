------------------------------ MODULE LoopMailbox ------------------------------
(***************************************************************************)
(* EventLoop (include/coro_epoll/event_loop.hpp, Linux build): the part    *)
(* other threads see.  post() and stop() called from any thread, against   *)
(* run() with its drain_pending_tasks / compact_finished_tasks passes and  *)
(* its blocking epoll_wait on the eventfd.  What the loop does with the    *)
(* descriptors of sockets is in Reactor; here an fd event is the           *)
(* resumption of a coroutine the loop has spawned.                         *)
(***************************************************************************)
EXTENDS Naturals, Sequences

CONSTANTS Poster,       \* threads, other than the loop's own, that post and stop
          LoopThread,   \* the thread inside run()
          Callback,     \* std::function objects; each is posted at most once
          Coroutine,    \* slots of tasks_
          NoCallback,
          NoThread,     \* pending_mutex_ is free
          MaxCount      \* largest value of the eventfd counter (2^64 - 2)

ASSUME ConstantsAssumption ==
    /\ LoopThread \notin Poster
    /\ NoThread \notin Poster \cup {LoopThread}
    /\ NoCallback \notin Callback \cup Coroutine
    /\ MaxCount \in Nat \ {0}

Thread == Poster \cup {LoopThread}

Elements(seq) == {seq[i] : i \in DOMAIN seq}

VARIABLES
    stopped,    \* stopped_
    pending,    \* pending_tasks_
    mutex,      \* the holder of pending_mutex_
    eventfd,    \* the counter behind wakeup_fd_
    op,         \* op[t]: how far thread t is inside post() or stop()
    submitted,  \* history: callbacks pushed on pending_tasks_, in order
    lpc,        \* where the loop thread is inside run()
    site,       \* whose pass it is: the one at the top of run(), the dispatch
                \* of the wakeup fd, or (no pass) the dispatch of another fd
    batch,      \* the events of epoll_wait not yet dispatched
    local,      \* local_tasks of drain_pending_tasks, without its running front
    current,    \* the callback, or coroutine, whose code is running
    started,    \* history: callbacks run, in order
    failed,     \* history: callbacks that threw
    tasks       \* tasks_: what has become of the coroutine in each slot

callVars == <<op, submitted>>
runVars == <<local, current, started, failed>>
loopVars == <<lpc, site, batch, runVars, tasks>>
vars == <<stopped, pending, mutex, eventfd, callVars, loopVars>>

Init ==
    /\ stopped = FALSE
    /\ pending = <<>>
    /\ mutex = NoThread
    /\ eventfd = 0
    /\ op = [t \in Thread |-> "idle"]
    /\ submitted = <<>>
    /\ lpc = "next"
    /\ site = "run"
    /\ batch = <<>>
    /\ local = <<>>
    /\ current = NoCallback
    /\ started = <<>>
    /\ failed = {}
    /\ tasks = [c \in Coroutine |-> "absent"]

--------------------------------------------------------------------------------
(* post() and stop(), called from any thread.  The loop thread calls them  *)
(* only from the callbacks and coroutines it runs.                         *)

MayCall(t) == op[t] = "idle" /\ (t = LoopThread => lpc = "user")

Goto(t, label) == op' = [op EXCEPT ![t] = label]

(* write(wakeup_fd_, 1): at the counter's limit the write fails with       *)
(* EAGAIN, which wakeup() ignores.                                         *)
Wakeup == eventfd' = IF eventfd < MaxCount THEN eventfd + 1 ELSE eventfd

(* post() holds pending_mutex_ across the push and the wakeup.             *)
PostPush(t, c) ==
    /\ MayCall(t)
    /\ c \notin Elements(submitted)
    /\ mutex = NoThread
    /\ mutex' = t
    /\ pending' = Append(pending, c)
    /\ submitted' = Append(submitted, c)
    /\ Goto(t, "pushed")
    /\ UNCHANGED <<stopped, eventfd, loopVars>>

(* Deviation: post() that trusts the next pass at the top of run().        *)
PostWake_Silent(t) ==
    /\ op[t] = "pushed"
    /\ Goto(t, "woken")
    /\ UNCHANGED <<stopped, pending, mutex, eventfd, submitted, loopVars>>

PostWake(t) ==
    /\ op[t] = "pushed"
    /\ Wakeup
    /\ Goto(t, "woken")
    /\ UNCHANGED <<stopped, pending, mutex, submitted, loopVars>>

(* Deviation: post() returns without giving the mutex back.                *)
PostUnlock_Forgets(t) ==
    /\ op[t] = "woken"
    /\ Goto(t, "idle")
    /\ UNCHANGED <<stopped, pending, mutex, eventfd, submitted, loopVars>>

PostUnlock(t) ==
    /\ op[t] = "woken"
    /\ mutex' = NoThread
    /\ Goto(t, "idle")
    /\ UNCHANGED <<stopped, pending, eventfd, submitted, loopVars>>

StopFlag(t) ==
    /\ MayCall(t)
    /\ stopped' = TRUE
    /\ Goto(t, "stopping")
    /\ UNCHANGED <<pending, mutex, eventfd, submitted, loopVars>>

(* Deviation: stop() that only sets the flag.                              *)
StopWake_Silent(t) ==
    /\ op[t] = "stopping"
    /\ Goto(t, "idle")
    /\ UNCHANGED <<stopped, pending, mutex, eventfd, submitted, loopVars>>

StopWake(t) ==
    /\ op[t] = "stopping"
    /\ Wakeup
    /\ Goto(t, "idle")
    /\ UNCHANGED <<stopped, pending, mutex, submitted, loopVars>>

--------------------------------------------------------------------------------
(* run(): while (!stopped_) { pass; epoll_wait; dispatch each event }.     *)

CheckStopped ==
    /\ lpc = "next" /\ batch = <<>>
    /\ lpc' = IF stopped THEN "exited" ELSE "swap"
    /\ site' = "run"
    /\ UNCHANGED <<stopped, pending, mutex, eventfd, callVars, batch, runVars,
                   tasks>>

(* Deviation: every pass, not only the one of a wakeup event, drains the   *)
(* eventfd.                                                                *)
SwapPending_DrainsEventfd ==
    /\ lpc = "swap" /\ mutex = NoThread
    /\ local' = pending
    /\ pending' = <<>>
    /\ eventfd' = 0
    /\ lpc' = "loop"
    /\ UNCHANGED <<stopped, mutex, callVars, site, batch, current, started,
                   failed, tasks>>

(* The critical section of drain_pending_tasks.                            *)
SwapPending ==
    /\ lpc = "swap" /\ mutex = NoThread
    /\ local' = pending
    /\ pending' = <<>>
    /\ lpc' = "loop"
    /\ UNCHANGED <<stopped, mutex, eventfd, callVars, site, batch, current,
                   started, failed, tasks>>

(* Deviation: the front is not popped once it has run.                     *)
StartCallback_NoPop ==
    /\ lpc = "loop" /\ local # <<>>
    /\ current' = Head(local)
    /\ started' = Append(started, Head(local))
    /\ lpc' = "user"
    /\ UNCHANGED <<stopped, pending, mutex, eventfd, callVars, site, batch,
                   local, failed, tasks>>

StartCallback ==
    /\ lpc = "loop" /\ local # <<>>
    /\ current' = Head(local)
    /\ local' = Tail(local)
    /\ started' = Append(started, Head(local))
    /\ lpc' = "user"
    /\ UNCHANGED <<stopped, pending, mutex, eventfd, callVars, site, batch,
                   failed, tasks>>

(* A coroutine runs until it suspends, finishes (its exception, if any, is *)
(* kept in the promise), or finishes with one that is no std::exception.   *)
Runs(d) ==
    \E outcome \in {"suspended", "done", "poisoned"} :
        tasks' = [tasks EXCEPT ![d] = outcome]

Suspended == {d \in Coroutine : tasks[d] = "suspended"}

(* Code running on the loop thread spawns a coroutine, which runs at once, *)
(* or resumes one that waits, as the continuations of ThreadPool do.       *)
RunCoroutine ==
    /\ lpc = "user" /\ op[LoopThread] = "idle"
    /\ \E d \in Coroutine \ {current} : tasks[d] \in {"absent", "suspended"} /\ Runs(d)
    /\ UNCHANGED <<stopped, pending, mutex, eventfd, callVars, lpc, site, batch,
                   runVars>>

LeavesCallback ==
    /\ lpc = "user" /\ site # "event" /\ op[LoopThread] = "idle"
    /\ current' = NoCallback
    /\ UNCHANGED <<stopped, pending, mutex, eventfd, callVars, site, batch,
                   started, tasks>>

CallbackReturns ==
    /\ LeavesCallback
    /\ lpc' = "loop"
    /\ UNCHANGED <<local, failed>>

(* An exception leaves drain_pending_tasks: local_tasks dies with what is  *)
(* left in it, and compact_finished_tasks is skipped.  In a dispatch any   *)
(* exception is caught, at the top of run() only a std::exception is.      *)
CallbackThrows ==
    /\ LeavesCallback
    /\ local' = <<>>
    /\ failed' = failed \cup {current}
    /\ lpc' \in IF site = "run" THEN {"wait", "unwound"} ELSE {"next"}

(* Deviation: remove_if's new end is ignored and all of tasks_ goes.       *)
Compact_ClearsAll ==
    /\ lpc = "loop" /\ local = <<>>
    /\ tasks' = [d \in Coroutine |-> "absent"]
    /\ lpc' = IF site = "run" THEN "wait" ELSE "next"
    /\ UNCHANGED <<stopped, pending, mutex, eventfd, callVars, site, batch,
                   runVars>>

(* Deviation: compaction only after a wakeup event.                        *)
Compact_DispatchOnly ==
    /\ lpc = "loop" /\ local = <<>>
    /\ lpc' = IF site = "run" THEN "wait" ELSE "next"
    /\ tasks' = [d \in Coroutine |->
                    IF tasks[d] = "done" /\ site = "dispatch" THEN "absent" ELSE tasks[d]]
    /\ UNCHANGED <<stopped, pending, mutex, eventfd, callVars, site, batch,
                   runVars>>

(* compact_finished_tasks: rethrowing the exception of a poisoned task     *)
(* leaves the function before tasks_.erase.                                *)
Compact ==
    /\ lpc = "loop" /\ local = <<>>
    /\ IF \E d \in Coroutine : tasks[d] = "poisoned"
       THEN /\ lpc' = IF site = "run" THEN "unwound" ELSE "next"
            /\ UNCHANGED tasks
       ELSE /\ lpc' = IF site = "run" THEN "wait" ELSE "next"
            /\ tasks' = [d \in Coroutine |->
                            IF tasks[d] = "done" THEN "absent" ELSE tasks[d]]
    /\ UNCHANGED <<stopped, pending, mutex, eventfd, callVars, site, batch,
                   runVars>>

(* epoll_wait returns some of the events that are ready; the wakeup fd is  *)
(* level-triggered.  On EINTR it returns none.                             *)
WaitReturns ==
    /\ lpc = "wait"
    /\ batch' \in {<<>>, <<"wakeup">>, <<"fd">>,
                   <<"wakeup", "fd">>, <<"fd", "wakeup">>}
    /\ "wakeup" \in Elements(batch') => eventfd > 0
    /\ lpc' = "next"
    /\ UNCHANGED <<stopped, pending, mutex, eventfd, callVars, site, runVars,
                   tasks>>

(* drain_wakeup_fd reads until the counter is zero, then a pass follows.   *)
DispatchWakeup ==
    /\ lpc = "next" /\ batch # <<>> /\ Head(batch) = "wakeup"
    /\ batch' = Tail(batch)
    /\ eventfd' = 0
    /\ site' = "dispatch"
    /\ lpc' = "swap"
    /\ UNCHANGED <<stopped, pending, mutex, callVars, runVars, tasks>>

(* An fd event resumes the coroutine that waits for it, or, when no handle *)
(* is registered for it, nothing.                                          *)
DispatchFd ==
    /\ lpc = "next" /\ batch # <<>> /\ Head(batch) = "fd"
    /\ batch' = Tail(batch)
    /\ \/ current' \in Suspended /\ lpc' = "user" /\ site' = "event"
       \/ UNCHANGED <<current, lpc, site>>
    /\ UNCHANGED <<stopped, pending, mutex, eventfd, callVars, local, started,
                   failed, tasks>>

CoroutineYields ==
    /\ lpc = "user" /\ site = "event" /\ op[LoopThread] = "idle"
    /\ Runs(current)
    /\ current' = NoCallback
    /\ lpc' = "next"
    /\ UNCHANGED <<stopped, pending, mutex, eventfd, callVars, site, batch,
                   local, started, failed>>

--------------------------------------------------------------------------------
UserReturns == CallbackReturns \/ CallbackThrows \/ CoroutineYields

LoopStep ==
    \/ CheckStopped \/ SwapPending \/ StartCallback \/ RunCoroutine \/ UserReturns
    \/ Compact \/ WaitReturns \/ DispatchWakeup \/ DispatchFd

FinishesCall(t) == PostWake(t) \/ PostUnlock(t) \/ StopWake(t)

ThreadStep(t) ==
    \/ \E c \in Callback : PostPush(t, c)
    \/ StopFlag(t)
    \/ FinishesCall(t)

Next == LoopStep \/ \E t \in Thread : ThreadStep(t)

Spec == Init /\ [][Next]_vars

(* Every thread keeps being scheduled; a callback or a coroutine gives the *)
(* loop its thread back after finitely many calls (hence strong fairness); *)
(* epoll_wait does not return on its own, only for an event; nothing       *)
(* forces a thread to call post() or stop().                               *)
Fairness ==
    /\ WF_vars(LoopStep /\ (lpc = "wait" => eventfd > 0))
    /\ SF_vars(UserReturns)
    /\ \A t \in Thread : WF_vars(FinishesCall(t))

FairSpec == Spec /\ Fairness

--------------------------------------------------------------------------------
Ended == lpc \in {"exited", "unwound"}

(* Every variable ranges over the values of the member it stands for, and  *)
(* pending_mutex_ is only ever held by a thread inside post().             *)
TypeOK ==
    /\ stopped \in BOOLEAN
    /\ pending \in Seq(Callback)
    /\ mutex \in Thread \cup {NoThread}
    /\ eventfd \in 0 .. MaxCount
    /\ op \in [Thread -> {"idle", "pushed", "woken", "stopping"}]
    /\ submitted \in Seq(Callback)
    /\ lpc \in {"next", "swap", "loop", "user", "wait", "exited", "unwound"}
    /\ site \in {"run", "dispatch", "event"}
    /\ batch \in Seq({"wakeup", "fd"})
    /\ local \in Seq(Callback)
    /\ current \in Callback \cup Coroutine \cup {NoCallback}
    /\ started \in Seq(Callback)
    /\ failed \subseteq Callback
    /\ tasks \in [Coroutine -> {"absent", "suspended", "done", "poisoned"}]
    /\ mutex # NoThread => op[mutex] \in {"pushed", "woken"}

(* No wakeup is lost: a loop blocked in epoll_wait with callbacks queued,  *)
(* or with stop() requested, has the eventfd readable, or a thread between *)
(* its push (or its store to stopped_) and its write to the eventfd.       *)
NoLostWakeup ==
    lpc = "wait" /\ (pending # <<>> \/ stopped) =>
        \/ eventfd > 0
        \/ \E t \in Thread : op[t] \in {"pushed", "stopping"}

(* Compaction never destroys a coroutine that has not finished, whichever  *)
(* pass it runs in and whatever exceptions the others ended with.          *)
OnlyFinishedDestroyed ==
    [][\A d \in Coroutine : tasks[d] = "suspended" => tasks'[d] # "absent"]_tasks

(* A posted callback does not stay queued for ever: it is run, is lost to  *)
(* the exception of one ahead of it, or run() ends.                        *)
PostedIsTaken ==
    \A c \in Callback :
        c \in Elements(pending \o local) ~> (c \notin Elements(pending \o local) \/ Ended)

(* stop(), called from any thread at any moment, makes run() return.       *)
StopEndsRun == stopped ~> Ended

(* A finished coroutine is destroyed, and the sockets its frame owns are   *)
(* closed, unless a callback throws (the pass is cut short before          *)
(* compaction and the loop goes back to sleep) or run() ends.              *)
FinishedIsDestroyed ==
    \A d \in Coroutine :
        tasks[d] = "done" ~> (tasks[d] = "absent" \/ failed # {} \/ Ended)

(* LoopMailbox implements the promise stated in CallbackQueue.             *)
Promise == INSTANCE CallbackQueue WITH
               queue <- local \o pending,
               running <- IF lpc = "user" /\ site # "event" THEN current ELSE NoCallback,
               closed <- Ended

PromiseSpec == Promise!Spec

(* Callbacks run in the order of their post(), none of them twice,         *)
(* whatever exceptions have lost in between.                               *)
RunInPostOrder == Promise!RunInOrder
================================================================================
