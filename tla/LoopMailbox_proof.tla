--------------------------- MODULE LoopMailbox_proof ---------------------------
(***************************************************************************)
(* Safety of the loop's mailbox for any number of threads and callbacks.   *)
(***************************************************************************)
EXTENDS LoopMailbox, SequenceTheorems, TLAPS

(* pending_mutex_ is held exactly by the thread between its push and the   *)
(* end of its post().                                                      *)
MutexHeld == \A t \in Thread : op[t] \in {"pushed", "woken"} <=> mutex = t

(* What is queued has been, or is about to be, signalled; between draining *)
(* the eventfd and swapping the queue the pass itself is the signal.       *)
QueueSignalled ==
    pending # <<>> =>
        \/ eventfd > 0
        \/ \E t \in Thread : op[t] = "pushed"
        \/ lpc = "swap" /\ site = "dispatch"

(* A stop that came after the check at the top of run() is signalled.      *)
StopSignalled ==
    stopped /\ site = "run" /\ lpc \in {"swap", "loop", "user", "wait"} =>
        \/ eventfd > 0
        \/ \E t \in Thread : op[t] = "stopping"

(* Only the pass at the top of run() leads to epoll_wait.                  *)
WaitsFromTop == lpc = "wait" => site = "run"

(* Where a callback or a coroutine is running, and when a batch of         *)
(* callbacks is under way.                                                 *)
PassShape ==
    /\ lpc \in {"swap", "loop"} => site \in {"run", "dispatch"}
    /\ lpc = "user" => current \in IF site = "event" THEN Coroutine ELSE Callback
    /\ local # <<>> => lpc \in {"loop", "user"} /\ site # "event"

IInv ==
    /\ TypeOK
    /\ MutexHeld
    /\ QueueSignalled
    /\ StopSignalled
    /\ WaitsFromTop
    /\ PassShape

--------------------------------------------------------------------------------
LEMMA InitIInv == Init => IInv
<1> SUFFICES ASSUME Init PROVE IInv
    OBVIOUS
<1> USE ConstantsAssumption DEF Init
<1>1. TypeOK
  <2>1. <<>> \in Seq(Callback) /\ <<>> \in Seq({"wakeup", "fd"})
    BY EmptySeq
  <2>2. /\ mutex \in Thread \cup {NoThread}
        /\ eventfd \in 0 .. MaxCount
        /\ op \in [Thread -> {"idle", "pushed", "woken", "stopping"}]
        /\ tasks \in [Coroutine -> {"absent", "suspended", "done", "poisoned"}]
    OBVIOUS
  <2>3. /\ pending \in Seq(Callback) /\ submitted \in Seq(Callback)
        /\ local \in Seq(Callback) /\ started \in Seq(Callback)
        /\ batch \in Seq({"wakeup", "fd"})
    BY <2>1
  <2> QED
    BY <2>2, <2>3 DEF TypeOK
<1>2. MutexHeld
  BY DEF MutexHeld, Thread
<1>3. QueueSignalled /\ StopSignalled /\ WaitsFromTop /\ PassShape
  BY DEF QueueSignalled, StopSignalled, WaitsFromTop, PassShape
<1> QED
  BY <1>1, <1>2, <1>3 DEF IInv

(* Every step of the loop and of the threads keeps every variable in its   *)
(* range; the eventfd counter stays there because Wakeup stops at its      *)
(* limit, and what runs is known from PassShape.                           *)
LEMMA TypeStep == TypeOK /\ PassShape /\ [Next]_vars => TypeOK'
<1> SUFFICES ASSUME TypeOK, PassShape, [Next]_vars PROVE TypeOK'
    OBVIOUS
<1> USE ConstantsAssumption DEF TypeOK, Goto
<1>1. ASSUME NEW t \in Thread, NEW c \in Callback, PostPush(t, c) PROVE TypeOK'
  BY <1>1 DEF PostPush, MayCall, loopVars, runVars
<1>2. ASSUME NEW t \in Thread, PostWake(t) PROVE TypeOK'
  BY <1>2 DEF PostWake, Wakeup, loopVars, runVars
<1>3. ASSUME NEW t \in Thread, PostUnlock(t) PROVE TypeOK'
  BY <1>3 DEF PostUnlock, loopVars, runVars
<1>4. ASSUME NEW t \in Thread, StopFlag(t) PROVE TypeOK'
  BY <1>4 DEF StopFlag, MayCall, loopVars, runVars
<1>5. ASSUME NEW t \in Thread, StopWake(t) PROVE TypeOK'
  BY <1>5 DEF StopWake, Wakeup, loopVars, runVars
<1>6. CASE CheckStopped
  BY <1>6 DEF CheckStopped, callVars, runVars
<1>7. CASE SwapPending
  BY <1>7 DEF SwapPending, callVars
<1>8. CASE StartCallback
  BY <1>8 DEF StartCallback, callVars
<1>9. CASE RunCoroutine
  BY <1>9 DEF RunCoroutine, Runs, callVars, runVars
<1>10. CASE CallbackReturns
  BY <1>10 DEF CallbackReturns, LeavesCallback, callVars
<1>11. CASE CallbackThrows
  BY <1>11 DEF CallbackThrows, LeavesCallback, PassShape, callVars
<1>12. CASE CoroutineYields
  BY <1>12 DEF CoroutineYields, PassShape, Runs, callVars
<1>13. CASE Compact
  BY <1>13 DEF Compact, callVars, runVars
<1>14. CASE WaitReturns
  <2>1. batch' \in Seq({"wakeup", "fd"})
    <3>1. <<>> \in Seq({"wakeup", "fd"})
      BY EmptySeq
    <3>2. /\ <<"wakeup">> \in Seq({"wakeup", "fd"})
          /\ <<"fd">> \in Seq({"wakeup", "fd"})
          /\ <<"wakeup", "fd">> \in Seq({"wakeup", "fd"})
          /\ <<"fd", "wakeup">> \in Seq({"wakeup", "fd"})
      OBVIOUS
    <3> QED
      BY <1>14, <3>1, <3>2 DEF WaitReturns
  <2> QED
    BY <1>14, <2>1 DEF WaitReturns, callVars, runVars
<1>15. CASE DispatchWakeup
  BY <1>15 DEF DispatchWakeup, callVars, runVars
<1>16. CASE DispatchFd
  BY <1>16 DEF DispatchFd, Suspended, callVars
<1>17. CASE UNCHANGED vars
  BY <1>17 DEF vars, callVars, loopVars, runVars
<1> QED
  BY <1>1, <1>2, <1>3, <1>4, <1>5, <1>6, <1>7, <1>8, <1>9, <1>10, <1>11,
     <1>12, <1>13, <1>14, <1>15, <1>16, <1>17
     DEF Next, LoopStep, UserReturns, ThreadStep, FinishesCall

LEMMA MutexStep == TypeOK /\ MutexHeld /\ [Next]_vars => MutexHeld'
<1> SUFFICES ASSUME TypeOK, MutexHeld, [Next]_vars PROVE MutexHeld'
    OBVIOUS
<1> USE ConstantsAssumption DEF TypeOK, MutexHeld, Goto
<1>1. ASSUME NEW t \in Thread, NEW c \in Callback, PostPush(t, c) PROVE MutexHeld'
  BY <1>1 DEF PostPush, MayCall, Thread
<1>2. ASSUME NEW t \in Thread, PostWake(t) PROVE MutexHeld'
  BY <1>2 DEF PostWake
<1>3. ASSUME NEW t \in Thread, PostUnlock(t) PROVE MutexHeld'
  BY <1>3 DEF PostUnlock, Thread
<1>4. ASSUME NEW t \in Thread, StopFlag(t) PROVE MutexHeld'
  BY <1>4 DEF StopFlag, MayCall
<1>5. ASSUME NEW t \in Thread, StopWake(t) PROVE MutexHeld'
  BY <1>5 DEF StopWake
<1>6. CASE LoopStep \/ UNCHANGED vars
  BY <1>6 DEF LoopStep, UserReturns, CheckStopped, SwapPending, StartCallback,
     RunCoroutine, CallbackReturns, CallbackThrows, LeavesCallback, CoroutineYields,
     Compact, WaitReturns, DispatchWakeup, DispatchFd, vars, callVars
<1> QED
  BY <1>1, <1>2, <1>3, <1>4, <1>5, <1>6 DEF Next, ThreadStep, FinishesCall

(* The only step that makes the queue non-empty is a push, which is a      *)
(* promise to write; the only step that clears the eventfd leads to a swap *)
(* in the same dispatch, and the swap empties the queue.                   *)
LEMMA QueueStep == TypeOK /\ MutexHeld /\ QueueSignalled /\ [Next]_vars => QueueSignalled'
<1> SUFFICES ASSUME TypeOK, MutexHeld, QueueSignalled, [Next]_vars PROVE QueueSignalled'
    OBVIOUS
<1> USE ConstantsAssumption DEF TypeOK, QueueSignalled, Goto
<1>1. ASSUME NEW t \in Thread, NEW c \in Callback, PostPush(t, c) PROVE QueueSignalled'
  BY <1>1 DEF PostPush, MayCall
<1>2. ASSUME NEW t \in Thread, PostWake(t) PROVE QueueSignalled'
  BY <1>2 DEF PostWake, Wakeup
<1>3. ASSUME NEW t \in Thread, PostUnlock(t) PROVE QueueSignalled'
  BY <1>3 DEF PostUnlock, loopVars
<1>4. ASSUME NEW t \in Thread, StopFlag(t) PROVE QueueSignalled'
  BY <1>4 DEF StopFlag, MayCall, loopVars
<1>5. ASSUME NEW t \in Thread, StopWake(t) PROVE QueueSignalled'
  BY <1>5 DEF StopWake, Wakeup
<1>6. CASE CheckStopped
  BY <1>6 DEF CheckStopped, callVars
<1>7. CASE SwapPending
  BY <1>7 DEF SwapPending, callVars
<1>8. CASE StartCallback \/ RunCoroutine \/ Compact \/ UNCHANGED vars
  BY <1>8 DEF StartCallback, RunCoroutine, Compact, vars, callVars, loopVars
<1>9. CASE UserReturns
  BY <1>9 DEF UserReturns, CallbackReturns, CallbackThrows, LeavesCallback,
     CoroutineYields, callVars
<1>10. CASE WaitReturns
  BY <1>10 DEF WaitReturns, callVars
<1>11. CASE DispatchWakeup
  BY <1>11 DEF DispatchWakeup, callVars
<1>12. CASE DispatchFd
  BY <1>12 DEF DispatchFd, callVars
<1> QED
  BY <1>1, <1>2, <1>3, <1>4, <1>5, <1>6, <1>7, <1>8, <1>9, <1>10, <1>11, <1>12
     DEF Next, LoopStep, ThreadStep, FinishesCall

(* A stop signal can only be consumed by the dispatch of a wakeup event,   *)
(* and CheckStopped comes between that and the next epoll_wait.            *)
LEMMA StopStep ==
    TypeOK /\ WaitsFromTop /\ StopSignalled /\ [Next]_vars => StopSignalled' /\ WaitsFromTop'
<1> SUFFICES ASSUME TypeOK, WaitsFromTop, StopSignalled, [Next]_vars
             PROVE  StopSignalled' /\ WaitsFromTop'
    OBVIOUS
<1> USE ConstantsAssumption DEF TypeOK, StopSignalled, WaitsFromTop, Goto
<1> DEFINE Goal == StopSignalled' /\ WaitsFromTop'
<1>1. ASSUME NEW t \in Thread, NEW c \in Callback, PostPush(t, c) PROVE Goal
  BY <1>1 DEF PostPush, MayCall, loopVars
<1>2. ASSUME NEW t \in Thread, PostWake(t) PROVE Goal
  BY <1>2 DEF PostWake, Wakeup, loopVars
<1>3. ASSUME NEW t \in Thread, PostUnlock(t) PROVE Goal
  BY <1>3 DEF PostUnlock, loopVars
<1>4. ASSUME NEW t \in Thread, StopFlag(t) PROVE Goal
  BY <1>4 DEF StopFlag, MayCall, loopVars
<1>5. ASSUME NEW t \in Thread, StopWake(t) PROVE Goal
  BY <1>5 DEF StopWake, Wakeup, loopVars
<1>6. CASE CheckStopped
  BY <1>6 DEF CheckStopped, callVars
<1>7. CASE SwapPending
  BY <1>7 DEF SwapPending, callVars
<1>8. CASE StartCallback \/ RunCoroutine \/ UNCHANGED vars
  BY <1>8 DEF StartCallback, RunCoroutine, vars, callVars, loopVars
<1>9. CASE UserReturns
  BY <1>9 DEF UserReturns, CallbackReturns, CallbackThrows, LeavesCallback,
     CoroutineYields, callVars
<1>10. CASE Compact
  BY <1>10 DEF Compact, callVars
<1>11. CASE WaitReturns
  BY <1>11 DEF WaitReturns, callVars
<1>12. CASE DispatchWakeup
  BY <1>12 DEF DispatchWakeup, callVars
<1>13. CASE DispatchFd
  BY <1>13 DEF DispatchFd, callVars
<1> QED
  BY <1>1, <1>2, <1>3, <1>4, <1>5, <1>6, <1>7, <1>8, <1>9, <1>10, <1>11, <1>12, <1>13
     DEF Next, LoopStep, ThreadStep, FinishesCall

LEMMA ShapeStep == TypeOK /\ PassShape /\ [Next]_vars => PassShape'
<1> SUFFICES ASSUME TypeOK, PassShape, [Next]_vars PROVE PassShape'
    OBVIOUS
<1> USE ConstantsAssumption DEF TypeOK, PassShape
<1>1. ASSUME NEW t \in Thread, ThreadStep(t) PROVE PassShape'
  BY <1>1 DEF ThreadStep, FinishesCall, PostPush, PostWake, PostUnlock, StopFlag,
     StopWake, loopVars, runVars
<1>2. CASE CheckStopped
  BY <1>2 DEF CheckStopped, runVars
<1>3. CASE SwapPending
  BY <1>3 DEF SwapPending
<1>4. CASE StartCallback
  BY <1>4 DEF StartCallback
<1>5. CASE RunCoroutine \/ UNCHANGED vars
  BY <1>5 DEF RunCoroutine, vars, loopVars, runVars
<1>6. CASE UserReturns
  BY <1>6 DEF UserReturns, CallbackReturns, CallbackThrows, LeavesCallback,
     CoroutineYields
<1>7. CASE Compact
  BY <1>7 DEF Compact, runVars
<1>8. CASE WaitReturns
  BY <1>8 DEF WaitReturns, runVars
<1>9. CASE DispatchWakeup
  BY <1>9 DEF DispatchWakeup, runVars
<1>10. CASE DispatchFd
  BY <1>10 DEF DispatchFd, Suspended
<1> QED
  BY <1>1, <1>2, <1>3, <1>4, <1>5, <1>6, <1>7, <1>8, <1>9, <1>10 DEF Next, LoopStep

LEMMA Inductive == IInv /\ [Next]_vars => IInv'
BY TypeStep, MutexStep, QueueStep, StopStep, ShapeStep DEF IInv

LEMMA Invariance == Spec => []IInv
BY InitIInv, Inductive, PTL DEF Spec

--------------------------------------------------------------------------------
(* Type correctness of the mailbox, in particular that a stale `current'   *)
(* is never started and that wakeup() keeps the eventfd counter in range.  *)
THEOREM TypeCorrect == Spec => []TypeOK
BY Invariance, PTL DEF IInv

(* No wakeup of post() or stop() is lost, for any number of threads and    *)
(* callbacks: the order push-then-write in post() and stop(), and          *)
(* drain-eventfd-then-swap in dispatch(), are enough.                      *)
THEOREM NoWakeupLost == Spec => []NoLostWakeup
<1>1. IInv => NoLostWakeup
  BY DEF IInv, QueueSignalled, StopSignalled, WaitsFromTop, NoLostWakeup
<1> QED
  BY <1>1, Invariance, PTL

(* compact_finished_tasks destroys finished coroutines only.               *)
THEOREM CompactionSafe == Spec => OnlyFinishedDestroyed
<1> DEFINE Safe == \A d \in Coroutine : tasks[d] = "suspended" => tasks'[d] # "absent"
<1>1. TypeOK /\ [Next]_vars => [Safe]_tasks
  <2> SUFFICES ASSUME TypeOK, [Next]_vars, tasks' # tasks PROVE Safe
      OBVIOUS
  <2> USE DEF TypeOK
  <2>1. CASE RunCoroutine
    BY <2>1 DEF RunCoroutine, Runs
  <2>2. CASE CoroutineYields
    BY <2>2 DEF CoroutineYields, Runs
  <2>3. CASE Compact
    BY <2>3 DEF Compact
  <2>4. ASSUME NEW t \in Thread, ThreadStep(t) PROVE FALSE
    BY <2>4 DEF ThreadStep, FinishesCall, PostPush, PostWake, PostUnlock, StopFlag,
       StopWake, loopVars
  <2> QED
    BY <2>1, <2>2, <2>3, <2>4
       DEF Next, LoopStep, UserReturns, CheckStopped, SwapPending, StartCallback,
       CallbackReturns, CallbackThrows, LeavesCallback, WaitReturns, DispatchWakeup,
       DispatchFd, vars, loopVars
<1> QED
  BY <1>1, TypeCorrect, PTL DEF Spec, OnlyFinishedDestroyed

--------------------------------------------------------------------------------
(* What the loop does to its two queues, seen as one.                      *)

LEMMA PushAtBack ==
    ASSUME NEW S, NEW s \in Seq(S), NEW t \in Seq(S), NEW e \in S
    PROVE  s \o Append(t, e) = Append(s \o t, e)
<1>1. <<e>> \in Seq(S)
  OBVIOUS
<1>2. Append(t, e) = t \o <<e>>
  BY AppendIsConcat
<1>3. s \o t \in Seq(S)
  BY ConcatProperties
<1>4. Append(s \o t, e) = (s \o t) \o <<e>>
  BY <1>3, AppendIsConcat
<1>5. (s \o t) \o <<e>> = s \o (t \o <<e>>)
  BY <1>1, ConcatAssociative
<1> QED
  BY <1>2, <1>4, <1>5

LEMMA PopAtFront ==
    ASSUME NEW S, NEW s \in Seq(S), NEW t \in Seq(S), s # <<>>
    PROVE  /\ s \o t # <<>>
           /\ Head(s \o t) = Head(s)
           /\ Tail(s \o t) = Tail(s) \o t
OBVIOUS

LEMMA DropFront ==
    ASSUME NEW S, NEW s \in Seq(S), NEW t \in Seq(S)
    PROVE  /\ Len(s) \in 0 .. Len(s \o t)
           /\ SubSeq(s \o t, Len(s) + 1, Len(s \o t)) = t
<1>1. Len(s \o t) = Len(s) + Len(t) /\ Len(s) \in Nat /\ Len(t) \in Nat
  BY ConcatProperties
<1>2. CASE t = <<>>
  <2>1. Len(s \o t) = Len(s)
    BY <1>1, <1>2
  <2> QED
    BY <1>1, <1>2, <2>1, SubSeqEmpty
<1>3. CASE t # <<>>
  <2>1. Len(t) > 0
    BY <1>1, <1>3, EmptySeq
  <2>2. SubSeq(s \o t, Len(s) + 1, Len(s) + Len(t)) = SubSeq(t, 1, Len(t))
    BY <1>1, <2>1, SubSeqOfConcat2
  <2> QED
    BY <1>1, <2>2, SubSeqFull
<1> QED
  BY <1>2, <1>3

--------------------------------------------------------------------------------
(* The refinement mapping of Promise: the swap moves callbacks from one    *)
(* queue to the other, so that only their concatenation is visible; a      *)
(* callback that throws drops what is left of the batch.                   *)

Queue == local \o pending
Running == IF lpc = "user" /\ site # "event" THEN current ELSE NoCallback

LEMMA PromiseInit == Init => Promise!Init
<1> SUFFICES ASSUME Init PROVE Promise!Init
    OBVIOUS
<1>1. <<>> \o <<>> = <<>>
  BY EmptySeq, ConcatEmptySeq
<1> QED
  BY <1>1 DEF Init, Promise!Init, Ended

LEMMA ThreadPromise ==
    ASSUME TypeOK, NEW t \in Thread, ThreadStep(t)
    PROVE  [Promise!Next]_(Promise!vars)
<1> USE DEF ThreadStep, FinishesCall, Promise!vars, Ended, loopVars, runVars
<1>1. ASSUME NEW c \in Callback, PostPush(t, c) PROVE Promise!Submit(c)
  <2>1. local' \o pending' = Append(local \o pending, c)
    BY <1>1, PushAtBack DEF PostPush, TypeOK
  <2> QED
    BY <1>1, <2>1 DEF PostPush, Promise!Submit, Promise!Elements, Elements
<1>2. ASSUME PostWake(t) \/ PostUnlock(t) \/ StopFlag(t) \/ StopWake(t)
      PROVE  UNCHANGED Promise!vars
  BY <1>2 DEF PostWake, PostUnlock, StopFlag, StopWake
<1> QED
  BY <1>1, <1>2 DEF Promise!Next

LEMMA LoopPromise ==
    ASSUME TypeOK, PassShape, LoopStep
    PROVE  [Promise!Next]_(Promise!vars)
<1> USE ConstantsAssumption DEF Promise!vars, Promise!Next, Ended, callVars, runVars
<1>1. CASE CheckStopped
  BY <1>1 DEF CheckStopped, Promise!Close
<1>2. CASE SwapPending
  <2>1. local = <<>>
    BY <1>2 DEF SwapPending, PassShape
  <2>2. local' \o pending' = local \o pending
    BY <1>2, <2>1, ConcatEmptySeq DEF SwapPending, TypeOK
  <2> QED
    BY <1>2, <2>2 DEF SwapPending
<1>3. CASE StartCallback
  <2>1. /\ Queue # <<>>
        /\ Head(Queue) = Head(local)
        /\ Tail(Queue) = Tail(local) \o pending
    BY <1>3, PopAtFront DEF StartCallback, TypeOK, Queue
  <2>2. Running = NoCallback /\ Running' = Head(local)
    BY <1>3 DEF StartCallback, PassShape, Running
  <2>3. Promise!Start
    BY <1>3, <2>1, <2>2 DEF StartCallback, Promise!Start, Queue, Running
  <2> QED
    BY <2>3
<1>4. CASE RunCoroutine
  BY <1>4 DEF RunCoroutine
<1>5. CASE CallbackReturns
  <2>1. Running # NoCallback /\ Running' = NoCallback
    BY <1>5 DEF CallbackReturns, LeavesCallback, PassShape, Running
  <2>2. Promise!Finish
    BY <1>5, <2>1 DEF CallbackReturns, LeavesCallback, Promise!Finish, Running
  <2> QED
    BY <2>2
<1>6. CASE CallbackThrows
  <2>1. Running # NoCallback /\ Running' = NoCallback
    BY <1>6 DEF CallbackThrows, LeavesCallback, PassShape, Running
  <2>2. /\ Len(local) \in 0 .. Len(Queue)
        /\ SubSeq(Queue, Len(local) + 1, Len(Queue)) = pending
    BY DropFront DEF TypeOK, Queue
  <2>3. local' \o pending' = pending
    BY <1>6, ConcatEmptySeq DEF CallbackThrows, LeavesCallback, TypeOK
  <2>4. Ended' \in {Ended, TRUE}
    <3>1. Ended = FALSE
      BY <1>6 DEF CallbackThrows, LeavesCallback
    <3>2. Ended' = FALSE \/ Ended' = TRUE
      OBVIOUS
    <3> QED
      BY <3>1, <3>2
  <2>5. Promise!Fail(Len(local))
    BY <1>6, <2>1, <2>2, <2>3, <2>4
       DEF CallbackThrows, LeavesCallback, Promise!Fail, Running, Queue
  <2> QED
    BY <2>2, <2>5 DEF Queue
<1>7. CASE CoroutineYields
  BY <1>7 DEF CoroutineYields
<1>8. CASE Compact
  BY <1>8 DEF Compact, Promise!Close
<1>9. CASE WaitReturns
  BY <1>9 DEF WaitReturns
<1>10. CASE DispatchWakeup
  BY <1>10 DEF DispatchWakeup
<1>11. CASE DispatchFd
  BY <1>11 DEF DispatchFd
<1> QED
  BY <1>1, <1>2, <1>3, <1>4, <1>5, <1>6, <1>7, <1>8, <1>9, <1>10, <1>11
     DEF LoopStep, UserReturns

(* post() and run() together are a queue whose callbacks run one at a time *)
(* in posting order: what pending_tasks_, local_tasks and the swap under   *)
(* pending_mutex_ do is invisible from outside.                            *)
THEOREM MailboxRefinement == Spec => PromiseSpec
<1>1. TypeOK /\ PassShape /\ [Next]_vars => [Promise!Next]_(Promise!vars)
  <2>1. UNCHANGED vars => UNCHANGED Promise!vars
    BY DEF vars, callVars, loopVars, runVars, Promise!vars, Ended
  <2> QED
    BY <2>1, ThreadPromise, LoopPromise DEF Next
<1> QED
  BY <1>1, PromiseInit, Invariance, PTL DEF Spec, Promise!Spec, PromiseSpec, IInv

--------------------------------------------------------------------------------
(* The promise of post() and run() keeps callbacks in posting order.       *)

(* How many of the callbacks submitted have left the queue.                *)
Gone == Len(submitted) - Len(Queue)

(* What is queued is the last part of what was submitted.                  *)
QueueIsSuffix ==
    /\ Len(Queue) <= Len(submitted)
    /\ \A i \in 1 .. Len(Queue) : Queue[i] = submitted[Gone + i]

(* pos tells where in the submission order each started callback comes     *)
(* from.                                                                   *)
Explains(pos) ==
    /\ pos \in [DOMAIN started -> 1 .. Gone]
    /\ \A i \in DOMAIN started : submitted[pos[i]] = started[i]
    /\ \A i, j \in DOMAIN started : i < j => pos[i] < pos[j]

OrderInv ==
    /\ Queue \in Seq(Callback) /\ submitted \in Seq(Callback) /\ started \in Seq(Callback)
    /\ QueueIsSuffix
    /\ \E pos : Explains(pos)

(* What the steps of Promise do to the queue and to the two histories.     *)
Submits(c) ==
    /\ submitted' = Append(submitted, c) /\ Queue' = Append(Queue, c)
    /\ UNCHANGED started

Starts ==
    /\ Queue # <<>>
    /\ started' = Append(started, Head(Queue)) /\ Queue' = Tail(Queue)
    /\ UNCHANGED submitted

Drops(k) ==
    /\ Queue' = SubSeq(Queue, k + 1, Len(Queue))
    /\ UNCHANGED <<submitted, started>>

LEMMA PromiseSteps ==
    ASSUME [Promise!Next]_(Promise!vars)
    PROVE  \/ \E c \in Callback : Submits(c)
           \/ Starts
           \/ \E k \in 0 .. Len(Queue) : Drops(k)
           \/ UNCHANGED <<Queue, submitted, started>>
<1> USE DEF Queue
<1>1. ASSUME NEW c \in Callback, Promise!Submit(c) PROVE Submits(c)
  BY <1>1 DEF Promise!Submit, Submits
<1>2. CASE Promise!Start
  BY <1>2 DEF Promise!Start, Starts
<1>3. ASSUME NEW k \in 0 .. Len(Queue), Promise!Fail(k) PROVE Drops(k)
  BY <1>3 DEF Promise!Fail, Drops
<1>4. CASE Promise!Finish \/ Promise!Close \/ UNCHANGED Promise!vars
  BY <1>4 DEF Promise!Finish, Promise!Close, Promise!vars
<1> QED
  BY <1>1, <1>2, <1>3, <1>4 DEF Promise!Next

LEMMA OrderInit == Promise!Init => OrderInv
<1> SUFFICES ASSUME Promise!Init PROVE OrderInv
    OBVIOUS
<1>1. <<>> \in Seq(Callback) /\ Len(<<>>) = 0
  BY EmptySeq
<1>2. Queue = <<>> /\ submitted = <<>> /\ started = <<>>
  BY DEF Promise!Init, Queue
<1>3. QueueIsSuffix
  BY <1>1, <1>2 DEF QueueIsSuffix
<1>4. Explains(<<>>)
  BY <1>1, <1>2 DEF Explains, Gone
<1> QED
  BY <1>1, <1>2, <1>3, <1>4 DEF OrderInv

LEMMA OrderStep == OrderInv /\ [Promise!Next]_(Promise!vars) => OrderInv'
<1> SUFFICES ASSUME OrderInv, [Promise!Next]_(Promise!vars)
             PROVE  OrderInv'
    OBVIOUS
<1> USE DEF QueueIsSuffix, Gone
<1>0. /\ Queue \in Seq(Callback) /\ submitted \in Seq(Callback) /\ started \in Seq(Callback)
      /\ QueueIsSuffix
  BY DEF OrderInv
<1>a. PICK pos : Explains(pos)
  BY DEF OrderInv
<1>b. Len(Queue) \in Nat /\ Len(submitted) \in Nat /\ Len(started) \in Nat
  BY <1>0
<1>1. ASSUME NEW c \in Callback, Submits(c)
      PROVE  OrderInv'
  <2>1. /\ Len(Queue') = Len(Queue) + 1 /\ Len(submitted') = Len(submitted) + 1
        /\ \A i \in 1 .. Len(Queue) : Queue'[i] = Queue[i]
        /\ \A i \in 1 .. Len(submitted) : submitted'[i] = submitted[i]
        /\ Queue'[Len(Queue) + 1] = c /\ submitted'[Len(submitted) + 1] = c
    BY <1>1, <1>0 DEF Submits
  <2>2. QueueIsSuffix'
    <3>1. Gone' = Gone /\ Len(Queue') <= Len(submitted')
      BY <1>0, <1>b, <2>1
    <3>2. ASSUME NEW i \in 1 .. Len(Queue') PROVE Queue'[i] = submitted'[Gone + i]
      <4>1. CASE i \in 1 .. Len(Queue)
        <5>1. Gone + i \in 1 .. Len(submitted)
          BY <1>0, <1>b, <4>1
        <5>2. Queue[i] = submitted[Gone + i]
          BY <1>0, <4>1
        <5> HIDE DEF Gone
        <5> QED
          BY <2>1, <4>1, <5>1, <5>2
      <4>2. CASE i = Len(Queue) + 1
        BY <1>b, <2>1, <4>2
      <4> QED
        BY <1>b, <2>1, <4>1, <4>2
    <3> HIDE DEF Gone
    <3> QED
      BY <3>1, <3>2
  <2>3. Explains(pos)'
    BY <1>1, <1>a, <1>b, <2>1 DEF Submits, Explains
  <2>4. Queue' \in Seq(Callback) /\ submitted' \in Seq(Callback) /\ started' = started
    BY <1>0, <1>1 DEF Submits
  <2> HIDE DEF QueueIsSuffix, Gone
  <2> QED
    BY <1>0, <2>2, <2>3, <2>4 DEF OrderInv
<1>2. CASE Starts
  <2>1. /\ Len(Queue') = Len(Queue) - 1 /\ Len(Queue) > 0
        /\ \A i \in 1 .. Len(Queue') : Queue'[i] = Queue[i + 1]
        /\ started' = Append(started, Queue[1]) /\ submitted' = submitted
    BY <1>2, <1>0 DEF Starts
  <2>2. QueueIsSuffix'
    <3>1. Gone' = Gone + 1 /\ Len(Queue') <= Len(submitted')
      BY <1>0, <1>b, <2>1
    <3>2. ASSUME NEW i \in 1 .. Len(Queue') PROVE Queue'[i] = submitted'[Gone + 1 + i]
      BY <1>0, <1>b, <2>1
    <3> HIDE DEF Gone
    <3> QED
      BY <3>1, <3>2
  <2> DEFINE p == [i \in 1 .. Len(started) + 1 |->
                       IF i = Len(started) + 1 THEN Gone + 1 ELSE pos[i]]
  <2>3. DOMAIN started' = 1 .. Len(started) + 1 /\ DOMAIN started = 1 .. Len(started)
    BY <1>0, <2>1
  <2>4. Gone' = Gone + 1 /\ Gone \in Nat
    BY <1>0, <1>b, <2>1
  <2>5. \A i \in 1 .. Len(started) : started'[i] = started[i]
    BY <1>0, <2>1
  <2>6. started'[Len(started) + 1] = submitted[Gone + 1]
    BY <1>0, <1>b, <2>1
  <2>7. \A i \in 1 .. Len(started) : pos[i] \in 1 .. Gone
    BY <1>a, <2>3 DEF Explains
  <2> HIDE DEF Gone
  <2> PICK q : q = p
    OBVIOUS
  <2>8. q \in [DOMAIN started' -> 1 .. Gone']
    BY <1>b, <2>3, <2>4, <2>7
  <2>9. \A i \in DOMAIN started' : submitted'[q[i]] = started'[i]
    BY <1>a, <1>b, <2>1, <2>3, <2>5, <2>6 DEF Explains
  <2>10. \A i, j \in DOMAIN started' : i < j => q[i] < q[j]
    BY <1>a, <1>b, <2>3, <2>4, <2>7 DEF Explains
  <2>11. Explains(q)'
    BY <2>8, <2>9, <2>10 DEF Explains
  <2>12. Queue' \in Seq(Callback) /\ started' \in Seq(Callback)
    BY <1>0, <1>2, HeadTailProperties DEF Starts
  <2> HIDE DEF QueueIsSuffix
  <2> QED
    BY <1>0, <2>1, <2>2, <2>11, <2>12 DEF OrderInv
<1>3. ASSUME NEW k \in 0 .. Len(Queue), Drops(k)
      PROVE  OrderInv'
  <2>1. /\ Len(Queue') = Len(Queue) - k
        /\ \A i \in 1 .. Len(Queue') : Queue'[i] = Queue[k + i]
        /\ started' = started /\ submitted' = submitted
    <3>1. Queue' = SubSeq(Queue, k + 1, Len(Queue))
      BY <1>3 DEF Drops
    <3>2. \A i \in k + 1 .. Len(Queue) : Queue[i] \in Callback
      BY <1>0
    <3> QED
      BY <1>3, <1>b, <3>1, <3>2, SubSeqProperties DEF Drops
  <2>2. QueueIsSuffix'
    <3>1. Gone' = Gone + k /\ Len(Queue') <= Len(submitted')
      BY <1>0, <1>b, <2>1
    <3>2. ASSUME NEW i \in 1 .. Len(Queue') PROVE Queue'[i] = submitted[Gone + k + i]
      <4>1. k + i \in 1 .. Len(Queue) /\ Gone + (k + i) = Gone + k + i
        BY <1>b, <2>1
      <4> QED
        BY <1>0, <2>1, <4>1
    <3> HIDE DEF Gone
    <3> QED
      BY <2>1, <3>1, <3>2
  <2>3. Explains(pos)'
    BY <1>a, <1>b, <1>0, <2>1 DEF Explains
  <2>4. Queue' \in Seq(Callback)
    BY <1>0, <1>3, SubSeqProperties DEF Drops
  <2> HIDE DEF QueueIsSuffix, Gone
  <2> QED
    BY <1>0, <2>1, <2>2, <2>3, <2>4 DEF OrderInv
<1>4. CASE UNCHANGED <<Queue, submitted, started>>
  BY <1>0, <1>a, <1>4 DEF Explains, OrderInv
<1> QED
  BY <1>1, <1>2, <1>3, <1>4, PromiseSteps

(* Whatever run() loses to exceptions, the callbacks it does run come in   *)
(* the order of their post(), and none runs twice.                         *)
THEOREM CallbacksInOrder == PromiseSpec => []RunInPostOrder
<1>1. OrderInv => RunInPostOrder
  BY DEF OrderInv, Explains, RunInPostOrder, Promise!RunInOrder, Gone, Queue
<1> QED
  BY OrderInit, OrderStep, <1>1, PTL DEF PromiseSpec, Promise!Spec

(* Callbacks so run in the order of their post() across posting threads,   *)
(* swaps and exceptions.                                                   *)
THEOREM PostOrderIsKept == Spec => []RunInPostOrder
BY MailboxRefinement, CallbacksInOrder, PTL
================================================================================
