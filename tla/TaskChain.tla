------------------------------- MODULE TaskChain -------------------------------
(***************************************************************************)
(* Task<T> (include/coro_epoll/task.hpp): coroutines of one thread that    *)
(* co_await each other.  Awaiting a task resumes its coroutine from within *)
(* Awaiter::await_suspend, and a coroutine that ends resumes the one that  *)
(* awaits it from within FinalAwaiter::await_suspend; nothing follows      *)
(* either resume(), so that when a coroutine suspends the whole nest of    *)
(* calls returns to the event loop in that step.                           *)
(***************************************************************************)
EXTENDS Naturals

CONSTANTS Frame,    \* coroutines
          NoFrame

ASSUME FrameAssumption == NoFrame \notin Frame

VARIABLES
    frame,          \* the state of each coroutine and of its frame
    continuation,   \* promise_type::continuation
    outcome         \* promise_type::value or ::exception

chain == <<frame, continuation, outcome>>

Unset == [thrown |-> FALSE, value |-> <<>>]

ChainInit ==
    /\ frame = [f \in Frame |-> "none"]
    /\ continuation = [f \in Frame |-> NoFrame]
    /\ outcome = [f \in Frame |-> Unset]

Runs(c) == frame[c] = "running"

NoneRuns == \A c \in Frame : ~Runs(c)

(* c runs again with what d has left for it: await_resume() comes first.   *)
HasResult(c, d) == Runs(c) /\ frame[d] = "final" /\ continuation[d] = c

GoesOn(c) == Runs(c) /\ \A d \in Frame : ~HasResult(c, d)

--------------------------------------------------------------------------------
(* spawn(): the Task is stored in tasks_ and resumed, by a callback or by  *)
(* a coroutine that is not in Frame, such as the acceptor of a server.     *)
SpawnRoot(c) ==
    /\ NoneRuns /\ frame[c] = "none"
    /\ frame' = [frame EXCEPT ![c] = "running"]
    /\ UNCHANGED <<continuation, outcome>>

(* co_await of a new task: c is suspended, d runs until it suspends.       *)
Call(c, d) ==
    /\ GoesOn(c) /\ frame[d] = "none"
    /\ frame' = [frame EXCEPT ![c] = "awaiting", ![d] = "running"]
    /\ continuation' = [continuation EXCEPT ![d] = c]
    /\ UNCHANGED outcome

(* co_await of an event of the loop, and the event.                        *)
WaitForEvent(c) ==
    /\ GoesOn(c)
    /\ frame' = [frame EXCEPT ![c] = "waiting"]
    /\ UNCHANGED <<continuation, outcome>>

ResumeByLoop(c) ==
    /\ NoneRuns /\ frame[c] = "waiting"
    /\ frame' = [frame EXCEPT ![c] = "running"]
    /\ UNCHANGED <<continuation, outcome>>

(* Deviation: a coroutine that ends does not resume who awaits it.         *)
Ended_Silent(d) == [frame EXCEPT ![d] = "final"]

(* final_suspend(): the continuation, if there is one, is resumed.         *)
Ended(d) ==
    [c \in Frame |-> CASE c = d -> "final"
                       [] c = continuation[d] -> "running"
                       [] OTHER -> frame[c]]

Finish(d, result) ==
    /\ GoesOn(d)
    /\ outcome' = [outcome EXCEPT ![d] = result]
    /\ frame' = Ended(d)
    /\ UNCHANGED continuation

(* The destructor of a Task.                                               *)
Freed(d) ==
    /\ frame' = [frame EXCEPT ![d] = "none"]
    /\ continuation' = [continuation EXCEPT ![d] = NoFrame]
    /\ outcome' = [outcome EXCEPT ![d] = Unset]

(* await_resume(), after which the temporary Task is destroyed.            *)
Collect(c, d) == HasResult(c, d) /\ Freed(d)

(* The loop destroys what is done().                                       *)
DestroyRoot(c) ==
    /\ NoneRuns /\ frame[c] = "final" /\ continuation[c] = NoFrame
    /\ Freed(c)

ChainNext ==
    \E c \in Frame :
        \/ SpawnRoot(c) \/ WaitForEvent(c) \/ ResumeByLoop(c) \/ DestroyRoot(c)
        \/ \E d \in Frame : Call(c, d) \/ Collect(c, d)
        \/ \E result : Finish(c, result)

ChainSpec == ChainInit /\ [][ChainNext]_chain

--------------------------------------------------------------------------------
(* co_await nests like a call: one coroutine runs at a time, one that      *)
(* awaits a task has exactly one, alive and not yet done, the end of a     *)
(* task hands control to the coroutine that awaits it and to no other, and *)
(* a frame is not destroyed before its awaiter has taken the outcome.      *)
CallsNest ==
    /\ frame \in [Frame -> {"none", "running", "awaiting", "waiting", "final"}]
    /\ continuation \in [Frame -> Frame \cup {NoFrame}]
    /\ \A c, d \in Frame : Runs(c) /\ Runs(d) => c = d
    /\ \A c \in Frame : frame[c] = "awaiting" => \E d \in Frame : continuation[d] = c
    /\ \A c, d \in Frame : continuation[c] = continuation[d] /\ continuation[c] # NoFrame => c = d
    /\ \A d \in Frame : frame[d] = "none" => continuation[d] = NoFrame
    /\ \A d \in Frame : continuation[d] # NoFrame =>
           frame[continuation[d]] = IF frame[d] = "final" THEN "running" ELSE "awaiting"
================================================================================
