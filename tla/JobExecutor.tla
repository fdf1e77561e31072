------------------------------ MODULE JobExecutor ------------------------------
(***************************************************************************)
(* What a ThreadPool promises, with no mutex and no condition variable:    *)
(* jobs are accepted until the pool is closed, taken oldest first by the   *)
(* runners that are free, run to completion, and the pool is over only     *)
(* when it is closed and nothing accepted is left.  ThreadPool is shown to *)
(* implement this.                                                         *)
(***************************************************************************)
EXTENDS Naturals, Sequences

CONSTANTS Job, Runner, NoJob

VARIABLES queue,        \* accepted, not yet taken, oldest first
          running,      \* the job in the hands of each runner
          finished,     \* the jobs that have been run
          refused,      \* the jobs turned away
          closed,
          over          \* the pool has wound up

Elements(seq) == {seq[i] : i \in DOMAIN seq}

Known == Elements(queue) \cup {running[r] : r \in Runner} \cup finished \cup refused

vars == <<queue, running, finished, refused, closed, over>>

Init ==
    /\ queue = <<>>
    /\ running = [r \in Runner |-> NoJob]
    /\ finished = {} /\ refused = {}
    /\ closed = FALSE /\ over = FALSE

Accept(j) ==
    /\ ~closed /\ j \notin Known
    /\ queue' = Append(queue, j)
    /\ UNCHANGED <<running, finished, refused, closed, over>>

Refuse(j) ==
    /\ closed /\ j \notin Known
    /\ refused' = refused \cup {j}
    /\ UNCHANGED <<queue, running, finished, closed, over>>

Take(r) ==
    /\ queue # <<>> /\ running[r] = NoJob
    /\ running' = [running EXCEPT ![r] = Head(queue)]
    /\ queue' = Tail(queue)
    /\ UNCHANGED <<finished, refused, closed, over>>

Complete(r) ==
    /\ running[r] # NoJob
    /\ running' = [running EXCEPT ![r] = NoJob]
    /\ finished' = finished \cup {running[r]}
    /\ UNCHANGED <<queue, refused, closed, over>>

Close == closed' = TRUE /\ UNCHANGED <<queue, running, finished, refused, over>>

WindUp ==
    /\ closed /\ queue = <<>> /\ \A r \in Runner : running[r] = NoJob
    /\ over' = TRUE
    /\ UNCHANGED <<queue, running, finished, refused, closed>>

Next ==
    \/ \E j \in Job : Accept(j) \/ Refuse(j)
    \/ \E r \in Runner : Take(r) \/ Complete(r)
    \/ Close \/ WindUp

Spec == Init /\ [][Next]_vars

--------------------------------------------------------------------------------
TypeOK ==
    /\ queue \in Seq(Job)
    /\ running \in [Runner -> Job \cup {NoJob}]
    /\ finished \subseteq Job
    /\ refused \subseteq Job
    /\ closed \in BOOLEAN
    /\ over \in BOOLEAN

(* A job is in one place at a time: no job is queued twice, run twice, run *)
(* by two runners, or run after it was refused.                            *)
OnePlace ==
    LET InHand == {r \in Runner : running[r] # NoJob}
    IN  /\ \A i, k \in DOMAIN queue : queue[i] = queue[k] => i = k
        /\ \A r, s \in InHand : running[r] = running[s] => r = s
        /\ \A r \in InHand : running[r] \notin Elements(queue) \cup finished \cup refused
        /\ Elements(queue) \cap (finished \cup refused) = {}
        /\ finished \cap refused = {}
================================================================================
