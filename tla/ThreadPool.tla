------------------------------- MODULE ThreadPool -------------------------------
(***************************************************************************)
(* ThreadPool (include/coro_epoll/thread_pool.hpp): enqueue(), stop() and  *)
(* join() called from any thread, against the worker_loop() of each worker *)
(* thread, with the mutex and the condition variable.  A job is the lambda *)
(* await_suspend makes, and running it is one step.                        *)
(***************************************************************************)
EXTENDS Naturals, Sequences, FiniteSets

CONSTANTS Worker,       \* the threads of threads_
          Caller,       \* the threads that enqueue and stop
          Owner,        \* the one of them that joins
          Job,          \* each is enqueued at most once
          NoJob,
          NoThread      \* mutex_ is free

ASSUME ConstantsAssumption ==
    /\ IsFiniteSet(Worker) /\ Worker # {}
    /\ IsFiniteSet(Caller)
    /\ Owner \in Caller
    /\ Worker \cap Caller = {}
    /\ NoThread \notin Worker \cup Caller
    /\ NoJob \notin Job

Elements(seq) == {seq[i] : i \in DOMAIN seq}

VARIABLES
    mutex,      \* the worker that holds mutex_ between two of its steps
    stopped,    \* stopped_
    tasks,      \* tasks_
    waiting,    \* the workers blocked on condition_
    wpc,        \* where each worker is in worker_loop()
    running,    \* the local `task' of each worker
    cpc,        \* where each caller is in enqueue(), stop() or join()
    executed,   \* history: the jobs that have been run
    rejected,   \* history: the jobs for which enqueue() threw
    joined      \* join() has returned

shared == <<mutex, stopped, tasks>>
workers == <<waiting, wpc, running>>
history == <<executed, rejected, joined>>
vars == <<shared, workers, cpc, history>>

Init ==
    /\ mutex = NoThread
    /\ stopped = FALSE
    /\ tasks = <<>>
    /\ waiting = {}
    /\ wpc = [w \in Worker |-> "lock"]
    /\ running = [w \in Worker |-> NoJob]
    /\ cpc = [c \in Caller |-> "idle"]
    /\ executed = {}
    /\ rejected = {}
    /\ joined = FALSE

Known == Elements(tasks) \cup {running[w] : w \in Worker} \cup executed \cup rejected

--------------------------------------------------------------------------------
(* The callers.  What enqueue() and stop() do under mutex_ is one step.    *)

Goto(c, label) == cpc' = [cpc EXCEPT ![c] = label]

(* enqueue() up to the end of its block.                                   *)
Enqueue(c, j) ==
    /\ cpc[c] = "idle" /\ mutex = NoThread /\ j \notin Known
    /\ IF stopped
       THEN /\ rejected' = rejected \cup {j}
            /\ UNCHANGED <<tasks, cpc>>
       ELSE /\ tasks' = Append(tasks, j)
            /\ Goto(c, "notify_one")
            /\ UNCHANGED rejected
    /\ UNCHANGED <<mutex, stopped, workers, executed, joined>>

Wake(awake) ==
    /\ waiting' = waiting \ awake
    /\ wpc' = [w \in Worker |-> IF w \in awake THEN "lock" ELSE wpc[w]]

(* Deviation: one notification for the first job of a burst only.          *)
NotifyOne_FirstOnly(c) ==
    /\ cpc[c] = "notify_one"
    /\ IF waiting = {} \/ Len(tasks) # 1
       THEN UNCHANGED <<waiting, wpc>> ELSE \E w \in waiting : Wake({w})
    /\ Goto(c, "idle")
    /\ UNCHANGED <<shared, running, history>>

NotifyOne(c) ==
    /\ cpc[c] = "notify_one"
    /\ IF waiting = {} THEN UNCHANGED <<waiting, wpc>> ELSE \E w \in waiting : Wake({w})
    /\ Goto(c, "idle")
    /\ UNCHANGED <<shared, running, history>>

(* Deviation: stopped_ is set without the lock.                            *)
StopFlag_Unlocked(c) ==
    /\ cpc[c] = "idle"
    /\ stopped' = TRUE
    /\ Goto(c, "notify_all")
    /\ UNCHANGED <<mutex, tasks, workers, history>>

StopFlag(c) ==
    /\ cpc[c] = "idle" /\ mutex = NoThread
    /\ stopped' = TRUE
    /\ Goto(c, "notify_all")
    /\ UNCHANGED <<mutex, tasks, workers, history>>

(* Deviation: stop() wakes one worker.                                     *)
NotifyAll_One(c) ==
    /\ cpc[c] = "notify_all"
    /\ IF waiting = {} THEN UNCHANGED <<waiting, wpc>> ELSE \E w \in waiting : Wake({w})
    /\ Goto(c, "idle")
    /\ UNCHANGED <<shared, running, history>>

NotifyAll(c) ==
    /\ cpc[c] = "notify_all"
    /\ Wake(waiting)
    /\ Goto(c, "idle")
    /\ UNCHANGED <<shared, running, history>>

(* join() blocks until every worker has returned; threads joined before    *)
(* are no longer joinable, so that a second join() returns at once.        *)
JoinStarts ==
    /\ cpc[Owner] = "idle"
    /\ Goto(Owner, "join")
    /\ UNCHANGED <<shared, workers, history>>

JoinReturns ==
    /\ cpc[Owner] = "join"
    /\ \A w \in Worker : wpc[w] = "returned"
    /\ joined' = TRUE
    /\ Goto(Owner, "idle")
    /\ UNCHANGED <<shared, workers, executed, rejected>>

--------------------------------------------------------------------------------
(* worker_loop()                                                           *)

WorkerAt(w, label) == wpc' = [wpc EXCEPT ![w] = label]

(* Taking mutex_: on entry, after a job, or on waking up inside wait().    *)
Lock(w) ==
    /\ wpc[w] = "lock" /\ mutex = NoThread
    /\ mutex' = w
    /\ WorkerAt(w, "check")
    /\ UNCHANGED <<stopped, tasks, waiting, running, cpc, history>>

(* The predicate of wait() is false: about to block, the lock still held.  *)
CheckFails(w) ==
    /\ wpc[w] = "check" /\ ~stopped /\ tasks = <<>>
    /\ WorkerAt(w, "block")
    /\ UNCHANGED <<shared, waiting, running, cpc, history>>

(* wait() releases mutex_ and blocks in one step.                          *)
Block(w) ==
    /\ wpc[w] = "block"
    /\ mutex' = NoThread
    /\ waiting' = waiting \cup {w}
    /\ WorkerAt(w, "blocked")
    /\ UNCHANGED <<stopped, tasks, running, cpc, history>>

SpuriousWakeup(w) ==
    /\ w \in waiting
    /\ Wake({w})
    /\ UNCHANGED <<shared, running, cpc, history>>

(* Deviation: the worker returns as soon as the pool is stopped.           *)
Return_Abandons(w) ==
    /\ wpc[w] = "check" /\ stopped
    /\ mutex' = NoThread
    /\ WorkerAt(w, "returned")
    /\ UNCHANGED <<stopped, tasks, waiting, running, cpc, history>>

Return(w) ==
    /\ wpc[w] = "check" /\ stopped /\ tasks = <<>>
    /\ mutex' = NoThread
    /\ WorkerAt(w, "returned")
    /\ UNCHANGED <<stopped, tasks, waiting, running, cpc, history>>

(* Deviation: the newest job is taken first.                               *)
Pop_Newest(w) ==
    /\ wpc[w] = "check" /\ tasks # <<>>
    /\ running' = [running EXCEPT ![w] = tasks[Len(tasks)]]
    /\ tasks' = SubSeq(tasks, 1, Len(tasks) - 1)
    /\ mutex' = NoThread
    /\ WorkerAt(w, "run")
    /\ UNCHANGED <<stopped, waiting, cpc, history>>

(* Deviation: the predicate of wait() is not evaluated again when it       *)
(* wakes up, and the front of an empty queue is taken.                     *)
Pop_Unchecked(w) ==
    /\ wpc[w] = "check"
    /\ running' = [running EXCEPT ![w] = IF tasks = <<>> THEN NoJob ELSE Head(tasks)]
    /\ tasks' = IF tasks = <<>> THEN tasks ELSE Tail(tasks)
    /\ mutex' = NoThread
    /\ WorkerAt(w, "run")
    /\ UNCHANGED <<stopped, waiting, cpc, history>>

Pop(w) ==
    /\ wpc[w] = "check" /\ tasks # <<>>
    /\ running' = [running EXCEPT ![w] = Head(tasks)]
    /\ tasks' = Tail(tasks)
    /\ mutex' = NoThread
    /\ WorkerAt(w, "run")
    /\ UNCHANGED <<stopped, waiting, cpc, history>>

(* task() and, at the end of the iteration, its destruction.               *)
RunJob(w) ==
    /\ wpc[w] = "run"
    /\ executed' = executed \cup {running[w]}
    /\ running' = [running EXCEPT ![w] = NoJob]
    /\ WorkerAt(w, "lock")
    /\ UNCHANGED <<shared, waiting, cpc, rejected, joined>>

--------------------------------------------------------------------------------
CallerReturns(c) == NotifyOne(c) \/ NotifyAll(c) \/ (c = Owner /\ JoinReturns)

CallerStep(c) ==
    \/ \E j \in Job : Enqueue(c, j)
    \/ StopFlag(c)
    \/ CallerReturns(c)

WorkerStep(w) == CheckFails(w) \/ Block(w) \/ Return(w) \/ Pop(w) \/ RunJob(w)

Next ==
    \/ \E c \in Caller : CallerStep(c)
    \/ JoinStarts
    \/ \E w \in Worker : Lock(w) \/ WorkerStep(w) \/ SpuriousWakeup(w)

Spec == Init /\ [][Next]_vars

(* Threads keep being scheduled, jobs return, and a thread that keeps      *)
(* asking for mutex_ gets it in the end; no spurious wakeup is assumed.    *)
Fairness ==
    /\ \A w \in Worker : WF_vars(WorkerStep(w)) /\ SF_vars(Lock(w))
    /\ \A c \in Caller : WF_vars(CallerReturns(c))

FairSpec == Spec /\ Fairness

--------------------------------------------------------------------------------
(* Every variable ranges over the values of what it stands for.            *)
TypeOK ==
    /\ mutex \in Worker \cup {NoThread}
    /\ stopped \in BOOLEAN
    /\ tasks \in Seq(Job)
    /\ waiting \subseteq Worker
    /\ wpc \in [Worker -> {"lock", "check", "block", "blocked", "run", "returned"}]
    /\ running \in [Worker -> Job \cup {NoJob}]
    /\ cpc \in [Caller -> {"idle", "notify_one", "notify_all", "join"}]
    /\ executed \subseteq Job
    /\ rejected \subseteq Job
    /\ joined \in BOOLEAN

(* The workers on their way to the queue, and the callers between the push *)
(* and the notify_one of enqueue().                                        *)
Awake == {w \in Worker : wpc[w] \in {"lock", "check"}}
Notifying == {c \in Caller : cpc[c] = "notify_one"}

(* No worker sleeps while there is a job for it: as long as a worker is    *)
(* blocked, each queued job has a worker on its way to the queue or a      *)
(* notify_one that enqueue() has still to make (it comes after the unlock, *)
(* so other threads may have taken the job, or blocked, in between).       *)
WorkConserving ==
    waiting # {} => Len(tasks) <= Cardinality(Awake) + Cardinality(Notifying)

(* A worker that sleeps after stop() has a notify_all still to come.       *)
StopNotLost ==
    stopped /\ waiting # {} => \E c \in Caller : cpc[c] = "notify_all"

(* When join() has returned, nothing that enqueue() accepted is left over. *)
JoinIsFinal == joined => tasks = <<>> /\ \A w \in Worker : running[w] = NoJob

(* An accepted job is run, even if the pool is stopped with it queued.     *)
AcceptedIsRun == \A j \in Job : j \in Elements(tasks) ~> j \in executed

(* After stop() every worker thread returns, so that join() does.          *)
StopEndsWorkers == stopped ~> \A w \in Worker : wpc[w] = "returned"

(* ThreadPool implements the promise stated in JobExecutor.                *)
Executor == INSTANCE JobExecutor WITH
                queue <- tasks,
                Runner <- Worker,
                finished <- executed,
                refused <- rejected,
                closed <- stopped,
                over <- joined

ExecutorSpec == Executor!Spec

(* A job is in one place at a time: it is not queued twice, not taken by   *)
(* two workers, and neither run again nor run after enqueue() threw.       *)
JobInOnePlace == Executor!OnePlace
================================================================================
