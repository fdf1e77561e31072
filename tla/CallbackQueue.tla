----------------------------- MODULE CallbackQueue -----------------------------
(***************************************************************************)
(* What EventLoop::post() and EventLoop::run() promise together, with no   *)
(* lock, no eventfd and no batches: callbacks queue up in the order their  *)
(* post() took effect, the loop runs them one at a time from the front, a  *)
(* callback that throws may cost some of those queued behind it, and none  *)
(* starts once run() has ended.  LoopMailbox is shown to implement this.   *)
(***************************************************************************)
EXTENDS Naturals, Sequences

CONSTANTS Callback,     \* the std::function objects handed to post()
          NoCallback    \* no callback is running

VARIABLES queue,        \* posted and not yet started, oldest first
          submitted,    \* every callback ever posted, in order
          started,      \* the callbacks run so far, in the order they began
          running,      \* the callback being run
          closed        \* run() has returned or thrown

Elements(seq) == {seq[i] : i \in DOMAIN seq}

vars == <<queue, submitted, started, running, closed>>

Init ==
    /\ queue = <<>>
    /\ submitted = <<>>
    /\ started = <<>>
    /\ running = NoCallback
    /\ closed = FALSE

Submit(c) ==
    /\ c \notin Elements(submitted)
    /\ submitted' = Append(submitted, c)
    /\ queue' = Append(queue, c)
    /\ UNCHANGED <<started, running, closed>>

Start ==
    /\ ~closed
    /\ running = NoCallback
    /\ queue # <<>>
    /\ running' = Head(queue)
    /\ started' = Append(started, Head(queue))
    /\ queue' = Tail(queue)
    /\ UNCHANGED <<submitted, closed>>

Finish ==
    /\ running # NoCallback
    /\ running' = NoCallback
    /\ UNCHANGED <<queue, submitted, started, closed>>

(* The running callback throws: the k callbacks next in line are lost, and *)
(* the exception may end the loop.                                         *)
Fail(k) ==
    /\ running # NoCallback
    /\ running' = NoCallback
    /\ queue' = SubSeq(queue, k + 1, Len(queue))
    /\ closed' \in {closed, TRUE}
    /\ UNCHANGED <<submitted, started>>

Close ==
    /\ running = NoCallback
    /\ closed' = TRUE
    /\ UNCHANGED <<queue, submitted, started, running>>

Next ==
    \/ \E c \in Callback : Submit(c)
    \/ Start
    \/ Finish
    \/ \E k \in 0 .. Len(queue) : Fail(k)
    \/ Close

Spec == Init /\ [][Next]_vars

--------------------------------------------------------------------------------
TypeOK ==
    /\ queue \in Seq(Callback)
    /\ submitted \in Seq(Callback)
    /\ started \in Seq(Callback)
    /\ running \in Callback \cup {NoCallback}
    /\ closed \in BOOLEAN

(* Callbacks run in the order they were posted and none runs twice,        *)
(* whatever was lost in between: the callbacks started come from ever      *)
(* later positions of the submission order, all before what is queued.     *)
RunInOrder ==
    \E pos \in [DOMAIN started -> 1 .. Len(submitted) - Len(queue)] :
        /\ \A i \in DOMAIN started : submitted[pos[i]] = started[i]
        /\ \A i, j \in DOMAIN started : i < j => pos[i] < pos[j]

================================================================================
