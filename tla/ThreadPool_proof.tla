--------------------------- MODULE ThreadPool_proof ---------------------------
(***************************************************************************)
(* Safety of the thread pool for any number of workers, callers and jobs.  *)
(***************************************************************************)
EXTENDS ThreadPool, SequenceTheorems, FiniteSetTheorems, TLAPS

(* A worker holds mutex_ exactly between taking it and leaving the block,  *)
(* and what it saw when the predicate failed still holds when it blocks.   *)
LockHeld ==
    \A w \in Worker :
        /\ wpc[w] \in {"check", "block"} <=> mutex = w
        /\ wpc[w] = "block" => ~stopped /\ tasks = <<>>

(* A worker is in the wait set, or has a job in hand, where it should.     *)
WorkerShape ==
    \A w \in Worker :
        /\ w \in waiting <=> wpc[w] = "blocked"
        /\ running[w] # NoJob <=> wpc[w] = "run"

(* A worker only returns from a stopped pool with an empty queue, and such *)
(* a pool stays that way.                                                  *)
ReturnedIsFinal ==
    /\ \A w \in Worker : wpc[w] = "returned" => stopped /\ tasks = <<>>
    /\ joined => \A w \in Worker : wpc[w] = "returned"

IInv == TypeOK /\ LockHeld /\ WorkerShape /\ StopNotLost /\ ReturnedIsFinal

--------------------------------------------------------------------------------
LEMMA InitIInv == Init => IInv
<1> SUFFICES ASSUME Init PROVE IInv
    OBVIOUS
<1> USE ConstantsAssumption DEF Init
<1>1. TypeOK
  <2>1. <<>> \in Seq(Job)
    BY EmptySeq
  <2> QED
    BY <2>1 DEF TypeOK
<1>2. LockHeld /\ WorkerShape /\ StopNotLost /\ ReturnedIsFinal
  BY DEF LockHeld, WorkerShape, StopNotLost, ReturnedIsFinal
<1> QED
  BY <1>1, <1>2 DEF IInv

LEMMA TypeStep == TypeOK /\ WorkerShape /\ [Next]_vars => TypeOK'
<1> SUFFICES ASSUME TypeOK, WorkerShape, [Next]_vars PROVE TypeOK'
    OBVIOUS
<1> USE ConstantsAssumption DEF TypeOK, Goto, Wake, WorkerAt, shared, workers, history
<1>1. ASSUME NEW c \in Caller, NEW j \in Job, Enqueue(c, j) PROVE TypeOK'
  BY <1>1 DEF Enqueue
<1>2. ASSUME NEW c \in Caller, NotifyOne(c) PROVE TypeOK'
  BY <1>2 DEF NotifyOne
<1>3. ASSUME NEW c \in Caller, StopFlag(c) PROVE TypeOK'
  BY <1>3 DEF StopFlag
<1>4. ASSUME NEW c \in Caller, NotifyAll(c) PROVE TypeOK'
  BY <1>4 DEF NotifyAll
<1>5. CASE JoinStarts \/ JoinReturns
  BY <1>5 DEF JoinStarts, JoinReturns
<1>6. ASSUME NEW w \in Worker, Lock(w) \/ CheckFails(w) \/ Block(w) \/ Return(w)
      PROVE  TypeOK'
  BY <1>6 DEF Lock, CheckFails, Block, Return
<1>7. ASSUME NEW w \in Worker, Pop(w) PROVE TypeOK'
  BY <1>7 DEF Pop
<1>8. ASSUME NEW w \in Worker, RunJob(w) PROVE TypeOK'
  <2>1. running[w] \in Job
    BY <1>8 DEF RunJob, WorkerShape
  <2> QED
    BY <1>8, <2>1 DEF RunJob
<1>9. ASSUME NEW w \in Worker, SpuriousWakeup(w) PROVE TypeOK'
  BY <1>9 DEF SpuriousWakeup
<1>10. CASE UNCHANGED vars
  BY <1>10 DEF vars
<1> QED
  BY <1>1, <1>2, <1>3, <1>4, <1>5, <1>6, <1>7, <1>8, <1>9, <1>10
     DEF Next, CallerStep, CallerReturns, WorkerStep

(* While a worker has mutex_, no one else changes stopped_ or tasks_.       *)
LEMMA LockStep == TypeOK /\ WorkerShape /\ LockHeld /\ [Next]_vars => LockHeld'
<1> SUFFICES ASSUME TypeOK, WorkerShape, LockHeld, [Next]_vars PROVE LockHeld'
    OBVIOUS
<1> USE ConstantsAssumption DEF TypeOK, LockHeld, Goto, Wake, WorkerAt, shared, workers, history
<1>1. ASSUME NEW c \in Caller, NEW j \in Job, Enqueue(c, j) PROVE LockHeld'
  BY <1>1 DEF Enqueue, WorkerShape
<1>2. ASSUME NEW c \in Caller, NotifyOne(c) PROVE LockHeld'
  BY <1>2 DEF NotifyOne, WorkerShape
<1>3. ASSUME NEW c \in Caller, StopFlag(c) PROVE LockHeld'
  BY <1>3 DEF StopFlag, WorkerShape
<1>4. ASSUME NEW c \in Caller, NotifyAll(c) PROVE LockHeld'
  BY <1>4 DEF NotifyAll, WorkerShape
<1>5. CASE JoinStarts \/ JoinReturns
  BY <1>5 DEF JoinStarts, JoinReturns, WorkerShape
<1>6. ASSUME NEW w \in Worker, Lock(w) PROVE LockHeld'
  BY <1>6 DEF Lock, WorkerShape
<1>7. ASSUME NEW w \in Worker, CheckFails(w) PROVE LockHeld'
  BY <1>7 DEF CheckFails, WorkerShape
<1>8. ASSUME NEW w \in Worker, Block(w) PROVE LockHeld'
  BY <1>8 DEF Block, WorkerShape
<1>9. ASSUME NEW w \in Worker, Return(w) PROVE LockHeld'
  BY <1>9 DEF Return, WorkerShape
<1>10. ASSUME NEW w \in Worker, Pop(w) PROVE LockHeld'
  BY <1>10 DEF Pop, WorkerShape
<1>11. ASSUME NEW w \in Worker, RunJob(w) PROVE LockHeld'
  BY <1>11 DEF RunJob, WorkerShape
<1>12. ASSUME NEW w \in Worker, SpuriousWakeup(w) PROVE LockHeld'
  BY <1>12 DEF SpuriousWakeup, WorkerShape
<1>13. CASE UNCHANGED vars
  BY <1>13 DEF vars
<1> QED
  BY <1>1, <1>2, <1>3, <1>4, <1>5, <1>6, <1>7, <1>8, <1>9, <1>10, <1>11, <1>12, <1>13
     DEF Next, CallerStep, CallerReturns, WorkerStep

LEMMA ShapeStep == TypeOK /\ WorkerShape /\ [Next]_vars => WorkerShape'
<1> SUFFICES ASSUME TypeOK, WorkerShape, [Next]_vars PROVE WorkerShape'
    OBVIOUS
<1> USE ConstantsAssumption DEF TypeOK, WorkerShape, Goto, Wake, WorkerAt, shared, workers, history
<1>1. ASSUME NEW c \in Caller, NEW j \in Job, Enqueue(c, j) PROVE WorkerShape'
  BY <1>1 DEF Enqueue
<1>2. ASSUME NEW c \in Caller, NotifyOne(c) PROVE WorkerShape'
  BY <1>2 DEF NotifyOne
<1>3. ASSUME NEW c \in Caller, StopFlag(c) PROVE WorkerShape'
  BY <1>3 DEF StopFlag
<1>4. ASSUME NEW c \in Caller, NotifyAll(c) PROVE WorkerShape'
  BY <1>4 DEF NotifyAll
<1>5. CASE JoinStarts \/ JoinReturns
  BY <1>5 DEF JoinStarts, JoinReturns
<1>6. ASSUME NEW w \in Worker, Lock(w) PROVE WorkerShape'
  BY <1>6 DEF Lock
<1>7. ASSUME NEW w \in Worker, CheckFails(w) PROVE WorkerShape'
  BY <1>7 DEF CheckFails
<1>8. ASSUME NEW w \in Worker, Block(w) PROVE WorkerShape'
  BY <1>8 DEF Block
<1>9. ASSUME NEW w \in Worker, Return(w) PROVE WorkerShape'
  BY <1>9 DEF Return
<1>10. ASSUME NEW w \in Worker, Pop(w) PROVE WorkerShape'
  BY <1>10 DEF Pop
<1>11. ASSUME NEW w \in Worker, RunJob(w) PROVE WorkerShape'
  BY <1>11 DEF RunJob
<1>12. ASSUME NEW w \in Worker, SpuriousWakeup(w) PROVE WorkerShape'
  BY <1>12 DEF SpuriousWakeup
<1>13. CASE UNCHANGED vars
  BY <1>13 DEF vars
<1> QED
  BY <1>1, <1>2, <1>3, <1>4, <1>5, <1>6, <1>7, <1>8, <1>9, <1>10, <1>11, <1>12, <1>13
     DEF Next, CallerStep, CallerReturns, WorkerStep

(* A worker blocks only while the flag is down: stop() raises it under     *)
(* mutex_, so never between the test and the block.                        *)
LEMMA StopStep == TypeOK /\ LockHeld /\ WorkerShape /\ StopNotLost /\ [Next]_vars => StopNotLost'
<1> SUFFICES ASSUME TypeOK, LockHeld, WorkerShape, StopNotLost, [Next]_vars PROVE StopNotLost'
    OBVIOUS
<1> USE ConstantsAssumption DEF TypeOK, StopNotLost, Goto, Wake, WorkerAt, shared, workers, history
<1>1. ASSUME NEW c \in Caller, NEW j \in Job, Enqueue(c, j) PROVE StopNotLost'
  BY <1>1 DEF Enqueue, LockHeld, WorkerShape
<1>2. ASSUME NEW c \in Caller, NotifyOne(c) PROVE StopNotLost'
  BY <1>2 DEF NotifyOne, LockHeld, WorkerShape
<1>3. ASSUME NEW c \in Caller, StopFlag(c) PROVE StopNotLost'
  BY <1>3 DEF StopFlag, LockHeld, WorkerShape
<1>4. ASSUME NEW c \in Caller, NotifyAll(c) PROVE StopNotLost'
  BY <1>4 DEF NotifyAll, LockHeld, WorkerShape
<1>5. CASE JoinStarts \/ JoinReturns
  BY <1>5 DEF JoinStarts, JoinReturns, LockHeld, WorkerShape
<1>6. ASSUME NEW w \in Worker, Lock(w) PROVE StopNotLost'
  BY <1>6 DEF Lock, LockHeld, WorkerShape
<1>7. ASSUME NEW w \in Worker, CheckFails(w) PROVE StopNotLost'
  BY <1>7 DEF CheckFails, LockHeld, WorkerShape
<1>8. ASSUME NEW w \in Worker, Block(w) PROVE StopNotLost'
  BY <1>8 DEF Block, LockHeld, WorkerShape
<1>9. ASSUME NEW w \in Worker, Return(w) PROVE StopNotLost'
  BY <1>9 DEF Return, LockHeld, WorkerShape
<1>10. ASSUME NEW w \in Worker, Pop(w) PROVE StopNotLost'
  BY <1>10 DEF Pop, LockHeld, WorkerShape
<1>11. ASSUME NEW w \in Worker, RunJob(w) PROVE StopNotLost'
  BY <1>11 DEF RunJob, LockHeld, WorkerShape
<1>12. ASSUME NEW w \in Worker, SpuriousWakeup(w) PROVE StopNotLost'
  BY <1>12 DEF SpuriousWakeup, LockHeld, WorkerShape
<1>13. CASE UNCHANGED vars
  BY <1>13 DEF vars
<1> QED
  BY <1>1, <1>2, <1>3, <1>4, <1>5, <1>6, <1>7, <1>8, <1>9, <1>10, <1>11, <1>12, <1>13
     DEF Next, CallerStep, CallerReturns, WorkerStep

LEMMA ReturnedStep == TypeOK /\ WorkerShape /\ ReturnedIsFinal /\ [Next]_vars => ReturnedIsFinal'
<1> SUFFICES ASSUME TypeOK, WorkerShape, ReturnedIsFinal, [Next]_vars PROVE ReturnedIsFinal'
    OBVIOUS
<1> USE ConstantsAssumption DEF TypeOK, ReturnedIsFinal, Goto, Wake, WorkerAt, shared, workers, history
<1>1. ASSUME NEW c \in Caller, NEW j \in Job, Enqueue(c, j) PROVE ReturnedIsFinal'
  BY <1>1 DEF Enqueue, WorkerShape
<1>2. ASSUME NEW c \in Caller, NotifyOne(c) PROVE ReturnedIsFinal'
  BY <1>2 DEF NotifyOne, WorkerShape
<1>3. ASSUME NEW c \in Caller, StopFlag(c) PROVE ReturnedIsFinal'
  BY <1>3 DEF StopFlag, WorkerShape
<1>4. ASSUME NEW c \in Caller, NotifyAll(c) PROVE ReturnedIsFinal'
  BY <1>4 DEF NotifyAll, WorkerShape
<1>5. CASE JoinStarts \/ JoinReturns
  BY <1>5 DEF JoinStarts, JoinReturns, WorkerShape
<1>6. ASSUME NEW w \in Worker, Lock(w) PROVE ReturnedIsFinal'
  BY <1>6 DEF Lock, WorkerShape
<1>7. ASSUME NEW w \in Worker, CheckFails(w) PROVE ReturnedIsFinal'
  BY <1>7 DEF CheckFails, WorkerShape
<1>8. ASSUME NEW w \in Worker, Block(w) PROVE ReturnedIsFinal'
  BY <1>8 DEF Block, WorkerShape
<1>9. ASSUME NEW w \in Worker, Return(w) PROVE ReturnedIsFinal'
  BY <1>9 DEF Return, WorkerShape
<1>10. ASSUME NEW w \in Worker, Pop(w) PROVE ReturnedIsFinal'
  BY <1>10 DEF Pop, WorkerShape
<1>11. ASSUME NEW w \in Worker, RunJob(w) PROVE ReturnedIsFinal'
  BY <1>11 DEF RunJob, WorkerShape
<1>12. ASSUME NEW w \in Worker, SpuriousWakeup(w) PROVE ReturnedIsFinal'
  BY <1>12 DEF SpuriousWakeup, WorkerShape
<1>13. CASE UNCHANGED vars
  BY <1>13 DEF vars
<1> QED
  BY <1>1, <1>2, <1>3, <1>4, <1>5, <1>6, <1>7, <1>8, <1>9, <1>10, <1>11, <1>12, <1>13
     DEF Next, CallerStep, CallerReturns, WorkerStep

LEMMA Inductive == IInv /\ [Next]_vars => IInv'
BY TypeStep, LockStep, ShapeStep, StopStep, ReturnedStep DEF IInv

LEMMA Invariance == Spec => []IInv
BY InitIInv, Inductive, PTL DEF Spec

--------------------------------------------------------------------------------
(* Type correctness of the pool's state.                                   *)
THEOREM TypeCorrect == Spec => []TypeOK
BY Invariance, PTL DEF IInv

(* stop() never leaves a worker asleep, whatever it races with, because it *)
(* sets stopped_ under mutex_ and notifies everyone afterwards.            *)
THEOREM StopReachesWorkers == Spec => []StopNotLost
BY Invariance, PTL DEF IInv

(* When join() has returned no accepted job is queued or half done: stop() *)
(* drains the queue, enqueue() refuses what comes later.                   *)
THEOREM JoinFinishesJobs == Spec => []JoinIsFinal
<1>1. IInv => JoinIsFinal
  <2> SUFFICES ASSUME IInv, joined PROVE tasks = <<>> /\ \A w \in Worker : running[w] = NoJob
      BY DEF JoinIsFinal
  <2>1. \A w \in Worker : wpc[w] = "returned" /\ tasks = <<>> /\ running[w] = NoJob
    BY DEF IInv, ReturnedIsFinal, WorkerShape
  <2> QED
    BY <2>1, ConstantsAssumption
<1> QED
  BY <1>1, Invariance, PTL

--------------------------------------------------------------------------------
(* The two sets WorkConserving counts, and the steps that change them.     *)

LEMMA Counts ==
    ASSUME TypeOK
    PROVE  /\ IsFiniteSet(Awake) /\ Cardinality(Awake) \in Nat
           /\ IsFiniteSet(Notifying) /\ Cardinality(Notifying) \in Nat
           /\ Len(tasks) \in Nat
<1>1. Awake \in SUBSET Worker /\ Notifying \in SUBSET Caller
  BY DEF Awake, Notifying
<1>2. IsFiniteSet(Awake) /\ IsFiniteSet(Notifying)
  BY <1>1, ConstantsAssumption, FS_Subset
<1> QED
  BY <1>2, FS_CardinalityType DEF TypeOK

LEMMA CallerCounts ==
    ASSUME TypeOK, WorkerShape, LockHeld, WorkConserving,
           NEW c \in Caller, CallerStep(c) \/ JoinStarts
    PROVE  WorkConserving'
<1> USE ConstantsAssumption, Counts DEF Goto, Wake, shared, workers, history
<1>1. ASSUME NEW j \in Job, Enqueue(c, j) PROVE WorkConserving'
  <2>1. CASE stopped
    BY <1>1, <2>1 DEF Enqueue, WorkConserving, Awake, Notifying
  <2>2. CASE ~stopped
    <3>1. Notifying' = Notifying \cup {c} /\ c \notin Notifying
      BY <1>1, <2>2 DEF Enqueue, Notifying, TypeOK
    <3>2. Cardinality(Notifying') = Cardinality(Notifying) + 1
      BY <3>1, FS_AddElement
    <3>3. Awake' = Awake /\ waiting' = waiting
      BY <1>1 DEF Enqueue, Awake
    <3>4. Len(tasks') = Len(tasks) + 1
      BY <1>1, <2>2 DEF Enqueue, TypeOK
    <3> QED
      BY <3>2, <3>3, <3>4 DEF WorkConserving
  <2> QED
    BY <2>1, <2>2
<1>2. ASSUME NotifyOne(c) PROVE WorkConserving'
  <2>1. CASE waiting = {}
    BY <1>2, <2>1 DEF NotifyOne, WorkConserving
  <2>2. CASE waiting # {}
    <3>1. PICK w \in waiting : Wake({w})
      BY <1>2, <2>2 DEF NotifyOne
    <3>2. wpc[w] = "blocked" /\ w \in Worker
      BY <3>1 DEF WorkerShape, TypeOK
    <3>3. Awake' = Awake \cup {w} /\ w \notin Awake
      BY <3>1, <3>2 DEF Awake, TypeOK
    <3>4. Cardinality(Awake') = Cardinality(Awake) + 1
      BY <3>3, FS_AddElement
    <3>5. Notifying' = Notifying \ {c} /\ c \in Notifying
      BY <1>2 DEF NotifyOne, Notifying, TypeOK
    <3>6. Cardinality(Notifying') = Cardinality(Notifying) - 1
      BY <3>5, FS_RemoveElement
    <3>7. tasks' = tasks
      BY <1>2 DEF NotifyOne
    <3> QED
      BY <2>2, <3>4, <3>6, <3>7 DEF WorkConserving
  <2> QED
    BY <2>1, <2>2
<1>3. ASSUME StopFlag(c) \/ JoinStarts \/ (c = Owner /\ JoinReturns) PROVE WorkConserving'
  <2>1. Awake' = Awake /\ waiting' = waiting /\ tasks' = tasks
    BY <1>3 DEF StopFlag, JoinStarts, JoinReturns, Awake
  <2>2. Notifying' = Notifying
    BY <1>3 DEF StopFlag, JoinStarts, JoinReturns, Notifying, TypeOK
  <2> QED
    BY <2>1, <2>2 DEF WorkConserving
<1>4. ASSUME NotifyAll(c) PROVE WorkConserving'
  BY <1>4 DEF NotifyAll, WorkConserving
<1> QED
  BY <1>1, <1>2, <1>3, <1>4 DEF CallerStep, CallerReturns

LEMMA WorkerCounts ==
    ASSUME TypeOK, WorkerShape, LockHeld, WorkConserving, NEW w \in Worker,
           Lock(w) \/ WorkerStep(w) \/ SpuriousWakeup(w)
    PROVE  WorkConserving'
<1> USE ConstantsAssumption, Counts
    DEF Wake, WorkerAt, shared, workers, history
<1>1. Notifying' = Notifying
  BY DEF Lock, WorkerStep, SpuriousWakeup, CheckFails, Block, Return, Pop, RunJob, Notifying
<1>2. CASE Lock(w)
  <2>1. Awake' = Awake
    BY <1>2 DEF Lock, Awake, TypeOK
  <2> QED
    BY <1>1, <1>2, <2>1 DEF Lock, WorkConserving
<1>3. CASE CheckFails(w) \/ Block(w) \/ Return(w)
  <2>1. tasks' = <<>>
    BY <1>3 DEF CheckFails, Block, Return, LockHeld
  <2>2. Awake' \in SUBSET Worker
    BY DEF Awake
  <2>3. Cardinality(Awake') \in Nat
    BY <2>2, FS_Subset, FS_CardinalityType
  <2> QED
    BY <1>1, <2>1, <2>3 DEF WorkConserving
<1>4. CASE Pop(w)
  <2>1. Awake' = Awake \ {w} /\ w \in Awake
    BY <1>4 DEF Pop, Awake, TypeOK
  <2>2. Cardinality(Awake') = Cardinality(Awake) - 1
    BY <2>1, FS_RemoveElement
  <2>3. Len(tasks') = Len(tasks) - 1 /\ waiting' = waiting
    BY <1>4, HeadTailProperties DEF Pop, TypeOK
  <2> QED
    BY <1>1, <2>2, <2>3 DEF WorkConserving
<1>5. CASE RunJob(w) \/ SpuriousWakeup(w)
  <2>1. wpc[w] \in {"run", "blocked"}
    BY <1>5 DEF RunJob, SpuriousWakeup, WorkerShape
  <2>2. Awake' = Awake \cup {w} /\ w \notin Awake
    BY <1>5, <2>1 DEF RunJob, SpuriousWakeup, Awake, TypeOK
  <2>3. Cardinality(Awake') = Cardinality(Awake) + 1
    BY <2>2, FS_AddElement
  <2>4. tasks' = tasks /\ waiting' \subseteq waiting
    BY <1>5 DEF RunJob, SpuriousWakeup
  <2> QED
    BY <1>1, <2>3, <2>4 DEF WorkConserving
<1> QED
  BY <1>2, <1>3, <1>4, <1>5 DEF WorkerStep

(* No worker sleeps next to a job nobody is coming for, for any number of  *)
(* workers and callers: notify_one after the unlock, one per push, is      *)
(* enough although other threads may run in between.                       *)
THEOREM PoolIsWorkConserving == Spec => []WorkConserving
<1>1. Init => WorkConserving
  BY DEF Init, WorkConserving
<1>2. IInv /\ WorkConserving /\ [Next]_vars => WorkConserving'
  <2> SUFFICES ASSUME IInv, WorkConserving, [Next]_vars PROVE WorkConserving'
      OBVIOUS
  <2>1. CASE UNCHANGED vars
    BY <2>1 DEF WorkConserving, Awake, Notifying, vars, shared, workers
  <2> QED
    BY <2>1, CallerCounts, WorkerCounts, ConstantsAssumption DEF Next, IInv
<1> QED
  BY <1>1, <1>2, Invariance, PTL DEF Spec

--------------------------------------------------------------------------------
(* The refinement of JobExecutor.                                          *)
LEMMA CallerExecutor ==
    ASSUME IInv, NEW c \in Caller, CallerStep(c) \/ JoinStarts
    PROVE  [Executor!Next]_(Executor!vars)
<1> USE ConstantsAssumption
    DEF Executor!vars, Executor!Next, shared, workers, history
<1>1. ASSUME NEW j \in Job, Enqueue(c, j)
      PROVE  Executor!Accept(j) \/ Executor!Refuse(j)
  BY <1>1 DEF Enqueue, Executor!Accept, Executor!Refuse, Executor!Known,
     Executor!Elements, Known, Elements
<1>2. CASE NotifyOne(c) \/ NotifyAll(c) \/ JoinStarts
  BY <1>2 DEF NotifyOne, NotifyAll, JoinStarts
<1>3. CASE StopFlag(c)
  BY <1>3 DEF StopFlag, Executor!Close
<1>4. CASE JoinReturns
  <2>1. \A w \in Worker : stopped /\ tasks = <<>> /\ running[w] = NoJob
    BY <1>4 DEF JoinReturns, IInv, ReturnedIsFinal, WorkerShape
  <2> QED
    BY <1>4, <2>1 DEF JoinReturns, Executor!WindUp
<1> QED
  BY <1>1, <1>2, <1>3, <1>4 DEF CallerStep, CallerReturns

LEMMA WorkerExecutor ==
    ASSUME IInv, NEW w \in Worker,
           Lock(w) \/ WorkerStep(w) \/ SpuriousWakeup(w)
    PROVE  [Executor!Next]_(Executor!vars)
<1> USE ConstantsAssumption
    DEF Executor!vars, Executor!Next, WorkerAt, shared, workers, history
<1>1. CASE Lock(w) \/ CheckFails(w) \/ Block(w) \/ Return(w) \/ SpuriousWakeup(w)
  BY <1>1 DEF Lock, CheckFails, Block, Return, SpuriousWakeup
<1>2. CASE Pop(w)
  <2>1. running[w] = NoJob
    BY <1>2 DEF Pop, IInv, WorkerShape
  <2>2. Executor!Take(w)
    BY <1>2, <2>1 DEF Pop, Executor!Take
  <2> QED
    BY <2>2
<1>3. CASE RunJob(w)
  <2>1. running[w] # NoJob
    BY <1>3 DEF RunJob, IInv, WorkerShape
  <2>2. Executor!Complete(w)
    BY <1>3, <2>1 DEF RunJob, Executor!Complete
  <2> QED
    BY <2>2
<1> QED
  BY <1>1, <1>2, <1>3 DEF WorkerStep

(* The pool is a first-in first-out executor with one runner per thread:   *)
(* every accepted job is taken in order and run once, a job is refused     *)
(* only by a stopped pool, and join() returns from an empty one.           *)
THEOREM PoolRefinement == Spec => ExecutorSpec
<1>1. Init => Executor!Init
  BY ConstantsAssumption DEF Init, Executor!Init
<1>2. IInv /\ [Next]_vars => [Executor!Next]_(Executor!vars)
  <2> SUFFICES ASSUME IInv, [Next]_vars PROVE [Executor!Next]_(Executor!vars)
      OBVIOUS
  <2>1. CASE UNCHANGED vars
    BY <2>1 DEF vars, shared, workers, history, Executor!vars
  <2> QED
    BY <2>1, CallerExecutor, WorkerExecutor, ConstantsAssumption DEF Next
<1> QED
  BY <1>1, <1>2, Invariance, PTL DEF Spec, Executor!Spec, ExecutorSpec

--------------------------------------------------------------------------------
(* What the promise is worth.  Executor only renames the variables of      *)
(* JobExecutor, so that all of the following, up to JobsInOnePlace, is     *)
(* about JobExecutor and uses nothing of the pool.                         *)
LEMMA ExecutorTypeStep == Executor!TypeOK /\ [Executor!Next]_(Executor!vars) => Executor!TypeOK'
<1> SUFFICES ASSUME Executor!TypeOK, [Executor!Next]_(Executor!vars) PROVE Executor!TypeOK'
    OBVIOUS
<1> USE DEF Executor!TypeOK
<1>1. ASSUME NEW j \in Job, Executor!Accept(j) \/ Executor!Refuse(j) PROVE Executor!TypeOK'
  BY <1>1 DEF Executor!Accept, Executor!Refuse
<1>2. ASSUME NEW r \in Worker, Executor!Take(r) PROVE Executor!TypeOK'
  BY <1>2, HeadTailProperties DEF Executor!Take
<1>3. ASSUME NEW r \in Worker, Executor!Complete(r) PROVE Executor!TypeOK'
  <2>1. running[r] \in Job
    BY <1>3 DEF Executor!Complete
  <2> QED
    BY <1>3, <2>1 DEF Executor!Complete
<1>4. CASE Executor!Close \/ Executor!WindUp \/ UNCHANGED Executor!vars
  BY <1>4 DEF Executor!Close, Executor!WindUp, Executor!vars
<1> QED
  BY <1>1, <1>2, <1>3, <1>4 DEF Executor!Next

(* A job enters the queue only if it is nowhere, and from then on moves    *)
(* from one place to the next.                                             *)
LEMMA ExecutorOnePlaceStep ==
    ASSUME NoJob \notin Job, Executor!TypeOK, Executor!OnePlace, [Executor!Next]_(Executor!vars)
    PROVE  Executor!OnePlace'
<1> USE DEF Executor!TypeOK, Executor!OnePlace, Executor!Elements
<1>1. ASSUME NEW j \in Job, Executor!Accept(j) PROVE Executor!OnePlace'
  <2>1. /\ \A i \in DOMAIN tasks : tasks[i] # j
        /\ \A r \in Worker : running[r] # j
        /\ j \notin executed \cup rejected
    BY <1>1 DEF Executor!Accept, Executor!Known
  <2>2. /\ DOMAIN tasks' = 1 .. Len(tasks) + 1
        /\ \A i \in DOMAIN tasks : tasks'[i] = tasks[i]
        /\ tasks'[Len(tasks) + 1] = j
        /\ DOMAIN tasks = 1 .. Len(tasks)
    BY <1>1 DEF Executor!Accept
  <2>3. running' = running /\ executed' = executed /\ rejected' = rejected
    BY <1>1 DEF Executor!Accept
  <2>4. Executor!Elements(tasks') = Executor!Elements(tasks) \cup {j}
    BY <2>2
  <2>5. \A i, k \in DOMAIN tasks' : tasks'[i] = tasks'[k] => i = k
    BY <2>1, <2>2
  <2> HIDE DEF Executor!Elements
  <2>6. Executor!Elements(tasks') \cap (executed' \cup rejected') = {} /\ executed' \cap rejected' = {}
    BY <2>1, <2>3, <2>4
  <2>7. \A r \in Worker : running'[r] # NoJob =>
            running'[r] \notin Executor!Elements(tasks') \cup executed' \cup rejected'
    BY <2>1, <2>3, <2>4
  <2> QED
    BY <2>3, <2>5, <2>6, <2>7
<1>2. ASSUME NEW j \in Job, Executor!Refuse(j) PROVE Executor!OnePlace'
  BY <1>2 DEF Executor!Refuse, Executor!Known
<1>3. ASSUME NEW r \in Worker, Executor!Take(r) PROVE Executor!OnePlace'
  <2>1. /\ DOMAIN tasks' = 1 .. Len(tasks) - 1
        /\ \A i \in DOMAIN tasks' : i + 1 \in DOMAIN tasks /\ tasks'[i] = tasks[i + 1]
        /\ 1 \in DOMAIN tasks
    BY <1>3 DEF Executor!Take
  <2>2. \A i, k \in DOMAIN tasks' : tasks'[i] = tasks'[k] => i = k
    BY <2>1
  <2>3. Executor!Elements(tasks') \subseteq Executor!Elements(tasks) /\ tasks[1] \notin Executor!Elements(tasks')
    BY <2>1
  <2>4. \A s \in Worker : running'[s] = IF s = r THEN tasks[1] ELSE running[s]
    BY <1>3 DEF Executor!Take
  <2>5. tasks[1] \in Executor!Elements(tasks) /\ executed' = executed /\ rejected' = rejected
    BY <1>3, <2>1 DEF Executor!Take
  <2>6. \A s, t \in Worker : running'[s] # NoJob /\ running'[s] = running'[t] => s = t
    BY <2>4, <2>5
  <2>7. \A s \in Worker : running'[s] # NoJob =>
            running'[s] \notin Executor!Elements(tasks') \cup executed' \cup rejected'
    BY <2>3, <2>4, <2>5
  <2>8. Executor!Elements(tasks') \cap (executed' \cup rejected') = {} /\ executed' \cap rejected' = {}
    BY <2>3, <2>5
  <2> QED
    BY <2>2, <2>6, <2>7, <2>8
<1>4. ASSUME NEW r \in Worker, Executor!Complete(r) PROVE Executor!OnePlace'
  <2>1. \A s \in Worker : running'[s] = IF s = r THEN NoJob ELSE running[s]
    BY <1>4 DEF Executor!Complete
  <2>2. /\ tasks' = tasks /\ rejected' = rejected
        /\ executed' = executed \cup {running[r]} /\ running[r] # NoJob
    BY <1>4 DEF Executor!Complete
  <2> QED
    BY <2>1, <2>2
<1>5. CASE Executor!Close \/ Executor!WindUp \/ UNCHANGED Executor!vars
  BY <1>5 DEF Executor!Close, Executor!WindUp, Executor!vars
<1> QED
  BY <1>1, <1>2, <1>3, <1>4, <1>5 DEF Executor!Next

(* Executors keep every job in one place: enqueue() pushes each function   *)
(* object once and a worker moves it out of the queue.                     *)
THEOREM JobsInOnePlace ==
    ASSUME NoJob \notin Job
    PROVE  ExecutorSpec => []JobInOnePlace
<1>1. Executor!Init => Executor!TypeOK /\ Executor!OnePlace
  <2> SUFFICES ASSUME Executor!Init
               PROVE  Executor!TypeOK /\ Executor!OnePlace
      OBVIOUS
  <2>1. <<>> \in Seq(Job)
    BY EmptySeq
  <2>2. Executor!TypeOK
    BY <2>1 DEF Executor!Init, Executor!TypeOK
  <2>3. Executor!OnePlace
    BY DEF Executor!Init, Executor!OnePlace, Executor!Elements
  <2> QED
    BY <2>2, <2>3
<1>2. Executor!TypeOK /\ Executor!OnePlace /\ [Executor!Next]_(Executor!vars)
          => Executor!TypeOK' /\ Executor!OnePlace'
  BY ExecutorTypeStep, ExecutorOnePlaceStep
<1> QED
  BY <1>1, <1>2, PTL DEF ExecutorSpec, Executor!Spec, JobInOnePlace

(* Across lock, unlock and wakeup no job is duplicated or run twice.       *)
THEOREM PoolJobsInOnePlace == Spec => []JobInOnePlace
BY PoolRefinement, JobsInOnePlace, ConstantsAssumption
================================================================================
