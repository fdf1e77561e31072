----------------------------- MODULE Workers_proof -----------------------------
(***************************************************************************)
(* The order in which main() takes a server process down is safe.  While   *)
(* main() listens or joins every object exists; it leaves join() only when *)
(* all workers have ended, and then no acceptor and no handler runs; it    *)
(* destroys the loops only after the pool has been joined, and then no job *)
(* is left that could post to them.                                        *)
(***************************************************************************)
EXTENDS Workers, SequenceTheorems, TLAPS

Message == ({"accept"} \X Server) \cup ({"resume"} \X Handler)

(* spawn(accept_and_handle) is posted to the loop its server was made for. *)
PostedHome ==
    \A l \in Loop : \A i \in DOMAIN pending[l] :
        pending[l][i][1] = "accept" =>
            pending[l][i][2] \in DOMAIN bound /\ bound[pending[l][i][2]] = l

(* An acceptor runs on the thread of its loop, which has not returned.     *)
RunsHome ==
    \A s \in Server : acceptor[s] = "running" => s \in DOMAIN bound /\ bound[s] \notin ended

(* What main() has left behind at each point.                              *)
Phases ==
    /\ main \in {"listen", "join"} => servers = DOMAIN bound /\ ~threw
    /\ main \notin {"listen", "join"} /\ ~threw => ended = Loop
    /\ main \notin {"stop", "loopJoin", "done"} => poolAlive
    /\ main \in {"stop", "loopJoin", "done"} => over
    /\ main # "done" => loopsAlive
    /\ main = "done" => ended = Loop

(* A pool that has been joined has nothing left to do.                     *)
OverIsIdle ==
    over => closed /\ queue = <<>> /\ \A p \in PoolThread : running[p] = NoJob

IInv == TypeOK /\ PostedHome /\ RunsHome /\ Phases /\ OverIsIdle /\ NoDanglingUse

(* What the pool has seen is of a handler that has been spawned, so that   *)
(* it stays on its loop; and what the pool posts to a loop resumes one of  *)
(* that loop's handlers, with the outcome of its own function.             *)
KnownIsSpawned == \A h \in Handler : h \in Pool!Known => co[h] # "none"

ResumesWithResult ==
    \A l \in Loop : \A i \in DOMAIN pending[l] :
        pending[l][i][1] = "resume" =>
            /\ home[pending[l][i][2]] = l
            /\ pending[l][i][2] \in result \cap finished

LEMMA InitIInv == Init => IInv
<1> SUFFICES ASSUME Init
             PROVE  IInv
  OBVIOUS
<1> USE ConstantsAssumption DEF Init, Pool!Init
<1>1. 0 \in Loop
  BY DEF Loop
<1>2. <<>> \in Seq(Loop) /\ <<>> \in Seq(Message) /\ <<>> \in Seq(Handler)
  BY EmptySeq
<1>3. TypeOK
  BY <1>1, <1>2 DEF TypeOK, Pool!TypeOK, Message
<1> QED
  BY <1>3 DEF IInv, PostedHome, RunsHome, Phases, OverIsIdle, NoDanglingUse

(* The queue of the pool, and its threads.                                 *)
LEMMA PoolTypeStep == TypeOK /\ [Next]_vars => Pool!TypeOK'
<1> SUFFICES ASSUME TypeOK, [Next]_vars
             PROVE  Pool!TypeOK'
  OBVIOUS
<1> USE DEF TypeOK, Pool!TypeOK
<1>1. CASE UNCHANGED poolVars
  BY <1>1 DEF poolVars
<1>2. CASE StopPool \/ JoinPool
  BY <1>2 DEF StopPool, JoinPool, Pool!Close, Pool!WindUp
<1>3. ASSUME NEW h \in Handler, Submit(h)
      PROVE  Pool!TypeOK'
  <2>1. CASE Pool!Accept(h)
    <3>1. queue' \in Seq(Handler)
      BY <2>1 DEF Pool!Accept
    <3> QED  BY <2>1, <3>1 DEF Pool!Accept
  <2>2. CASE Pool!Refuse(h)
    BY <2>2 DEF Pool!Refuse
  <2> QED  BY <1>3, <2>1, <2>2 DEF Submit
<1>4. ASSUME NEW p \in PoolThread, TakeJob(p)
      PROVE  Pool!TypeOK'
  BY <1>4, HeadTailProperties DEF TakeJob, Pool!Take
<1>5. ASSUME NEW p \in PoolThread, PostResult(p)
      PROVE  Pool!TypeOK'
  <2>1. running[p] \in Handler
    BY <1>5 DEF PostResult
  <2> QED  BY <1>5, <2>1 DEF PostResult, Pool!Complete
<1>6. ASSUME [Next]_vars,
             ~(StopPool \/ JoinPool), \A h \in Handler : ~Submit(h),
             \A p \in PoolThread : ~TakeJob(p) /\ ~PostResult(p)
      PROVE  UNCHANGED poolVars
  BY <1>6 DEF Next, vars, MainStep, AcceptorStep, PoolStep, StartServer, ListenThrows,
              AllStarted, Join, DestroyServer, StopLoops, DestroyLoops, RunCallback,
              RunReturns, AcceptorResumed, Accepts, AcceptorWaits, AcceptorFails,
              HandlerEnds, StoreResult
<1> QED
  BY <1>1, <1>2, <1>3, <1>4, <1>5, <1>6

LEMMA TypeStep == TypeOK /\ RunsHome /\ [Next]_vars => TypeOK'
<1> SUFFICES ASSUME TypeOK, RunsHome, [Next]_vars
             PROVE  TypeOK'
  OBVIOUS
<1>pool. Pool!TypeOK'
  BY PoolTypeStep
<1> USE <1>pool, ConstantsAssumption DEF TypeOK, setUp, objects, loopVars, coVars, Touch
<1>1. CASE StartServer
  <2>1. nextIndex % N \in Loop /\ nextIndex + 1 \in Nat /\ Len(bound) + 1 \in Server
    BY <1>1 DEF StartServer, Loop, Server
  <2>2. /\ bound' = Append(bound, nextIndex % N) /\ bound' \in Seq(Loop)
        /\ Len(bound') <= N /\ servers' \subseteq DOMAIN bound'
    BY <1>1, <2>1 DEF StartServer
  <2>3. pending' \in [Loop -> Seq(Message)]
    BY <1>1, <2>1 DEF StartServer, Post, Message
  <2> QED  BY <1>1, <2>1, <2>2, <2>3 DEF StartServer, Message
<1>2. CASE ListenThrows \/ AllStarted \/ Join
  BY <1>2 DEF ListenThrows, AllStarted, Join
<1>3. CASE DestroyServer \/ StopPool \/ JoinPool
  BY <1>3 DEF DestroyServer, StopPool, JoinPool
<1>4. CASE StopLoops
  BY <1>4 DEF StopLoops
<1>5. CASE DestroyLoops
  <2>1. pending' \in [Loop -> Seq(Message)]
    BY <1>5, EmptySeq DEF DestroyLoops
  <2> QED  BY <1>5, <2>1 DEF DestroyLoops, Message
<1>6. ASSUME NEW l \in Loop, RunCallback(l)
      PROVE  TypeOK'
  <2>1. Head(pending[l]) \in Message /\ Tail(pending[l]) \in Seq(Message)
    BY <1>6, HeadTailProperties DEF RunCallback, Message
  <2>2. pending' \in [Loop -> Seq(Message)]
    BY <1>6, <2>1 DEF RunCallback, Message
  <2>3. CASE Head(pending[l])[1] = "accept"
    <3>1. Head(pending[l])[2] \in Server
      BY <2>1, <2>3 DEF Message
    <3> QED  BY <1>6, <2>2, <2>3, <3>1 DEF RunCallback, Message
  <2>4. CASE Head(pending[l])[1] = "resume"
    <3>1. Head(pending[l])[2] \in Handler
      BY <2>1, <2>4 DEF Message
    <3> QED  BY <1>6, <2>2, <2>4, <3>1 DEF RunCallback, Message
  <2> QED  BY <1>6, <2>3, <2>4 DEF RunCallback
<1>7. ASSUME NEW l \in Loop, RunReturns(l)
      PROVE  TypeOK'
  BY <1>7 DEF RunReturns
<1>8. ASSUME NEW s \in Server, AcceptorResumed(s) \/ AcceptorWaits(s)
      PROVE  TypeOK'
  BY <1>8 DEF AcceptorResumed, AcceptorWaits
<1>9. ASSUME NEW s \in Server, AcceptorFails(s) \/ \E h \in Handler : Accepts(s, h)
      PROVE  TypeOK'
  <2>1. bound[s] \in Loop
    BY <1>9 DEF AcceptorFails, Accepts, RunsHome
  <2> QED  BY <1>9, <2>1 DEF AcceptorFails, Accepts
<1>10. ASSUME NEW h \in Handler, Submit(h) \/ HandlerEnds(h)
       PROVE  TypeOK'
  <2>1. co' = [co EXCEPT ![h] = "offloaded"] \/ co' = [co EXCEPT ![h] = "ended"]
    BY <1>10 DEF Submit, HandlerEnds
  <2> QED  BY <1>10, <2>1 DEF Submit, HandlerEnds
<1>11. ASSUME NEW p \in PoolThread, TakeJob(p) \/ StoreResult(p)
       PROVE  TypeOK'
  <2>1. running[p] # NoJob => running[p] \in Handler
    BY DEF Pool!TypeOK
  <2> QED  BY <1>11, <2>1 DEF TakeJob, StoreResult
<1>12. ASSUME NEW p \in PoolThread, PostResult(p)
       PROVE  TypeOK'
  <2>1. running[p] \in Handler
    BY <1>12 DEF PostResult, Pool!TypeOK
  <2>2. pending' \in [Loop -> Seq(Message)]
    BY <1>12, <2>1 DEF PostResult, Post, Message
  <2> QED  BY <1>12, <2>1, <2>2 DEF PostResult, Message
<1>13. CASE UNCHANGED vars
  BY <1>13 DEF vars
<1> HIDE DEF TypeOK, setUp, objects, loopVars, coVars, Touch
<1> QED
  BY <1>1, <1>2, <1>3, <1>4, <1>5, <1>6, <1>7, <1>8, <1>9, <1>10, <1>11, <1>12, <1>13
  DEF Next, MainStep, AcceptorStep, PoolStep

(* Messages come from the start-up of the server they name.                *)
LEMMA PostedHomeStep == TypeOK /\ PostedHome /\ [Next]_vars => PostedHome'
<1> SUFFICES ASSUME TypeOK, PostedHome, [Next]_vars
             PROVE  PostedHome'
  OBVIOUS
<1> USE DEF PostedHome, TypeOK, Message
<1>1. CASE StartServer
  <2>1. nextIndex % N \in Loop
    BY ConstantsAssumption DEF Loop
  <2>2. /\ bound' = Append(bound, nextIndex % N)
        /\ pending' = [pending EXCEPT ![nextIndex % N] =
                          Append(@, <<"accept", Len(bound) + 1>>)]
    BY <1>1 DEF StartServer, Post
  <2>3. /\ \A r \in DOMAIN bound : r \in DOMAIN bound' /\ bound'[r] = bound[r]
        /\ Len(bound) + 1 \in DOMAIN bound' /\ bound'[Len(bound) + 1] = nextIndex % N
    BY <2>1, <2>2
  <2> QED  BY <2>1, <2>2, <2>3
<1>2. ASSUME NEW l \in Loop, RunCallback(l)
      PROVE  PostedHome'
  <2>1. /\ bound' = bound
        /\ pending' = [pending EXCEPT ![l] = Tail(@)]
        /\ pending[l] # <<>>
    BY <1>2 DEF RunCallback, setUp
  <2>2. \A i \in DOMAIN pending'[l] :
            i + 1 \in DOMAIN pending[l] /\ pending'[l][i] = pending[l][i + 1]
    BY <2>1
  <2> QED  BY <2>1, <2>2
<1>3. ASSUME NEW p \in PoolThread, PostResult(p)
      PROVE  PostedHome'
  <2>1. /\ bound' = bound /\ running[p] \in Handler
        /\ pending' = [pending EXCEPT ![home[running[p]]] =
                          Append(@, <<"resume", running[p]>>)]
    BY <1>3 DEF PostResult, Post, setUp, Pool!TypeOK
  <2>2. PICK l \in Loop : l = home[running[p]]
    BY <2>1
  <2>3. pending[l] \in Seq(Message) /\ <<"resume", running[p]>> \in Message
    BY <2>1
  <2>4. \A i \in DOMAIN pending'[l] :
            \/ i \in DOMAIN pending[l] /\ pending'[l][i] = pending[l][i]
            \/ pending'[l][i] = <<"resume", running[p]>>
    BY <2>1, <2>2, <2>3
  <2>5. \A k \in Loop \ {l} : pending'[k] = pending[k]
    BY <2>1, <2>2
  <2> QED  BY <2>1, <2>4, <2>5
<1>4. CASE DestroyLoops
  BY <1>4 DEF DestroyLoops, setUp
<1>5. ASSUME ~StartServer, ~DestroyLoops, \A l \in Loop : ~RunCallback(l),
             \A p \in PoolThread : ~PostResult(p)
      PROVE  UNCHANGED <<pending, bound>>
  BY <1>5 DEF Next, vars, MainStep, AcceptorStep, PoolStep, ListenThrows, AllStarted,
              Join, DestroyServer, StopPool, JoinPool, StopLoops, RunReturns,
              AcceptorResumed, Accepts, AcceptorWaits, AcceptorFails, Submit, HandlerEnds,
              TakeJob, StoreResult, setUp, loopVars, objects
<1> QED
  BY <1>1, <1>2, <1>3, <1>4, <1>5

(* A loop that returns has no acceptor running, and one that has returned  *)
(* starts none.                                                            *)
LEMMA RunsHomeStep == TypeOK /\ PostedHome /\ RunsHome /\ [Next]_vars => RunsHome'
<1> SUFFICES ASSUME TypeOK, PostedHome, RunsHome, [Next]_vars
             PROVE  RunsHome'
  OBVIOUS
<1> USE DEF RunsHome, TypeOK, setUp, loopVars, coVars
<1>1. CASE StartServer
  <2>1. \A r \in DOMAIN bound : r \in DOMAIN bound' /\ bound'[r] = bound[r]
    BY <1>1 DEF StartServer
  <2> QED  BY <1>1, <2>1 DEF StartServer
<1>2. ASSUME NEW l \in Loop, RunCallback(l)
      PROVE  RunsHome'
  <2>1. /\ Head(pending[l])[1] = "accept" =>
              /\ Head(pending[l])[2] \in DOMAIN bound
              /\ bound[Head(pending[l])[2]] = l
        /\ l \notin ended
    BY <1>2 DEF RunCallback, PostedHome, Idle
  <2> QED  BY <1>2, <2>1 DEF RunCallback
<1>3. ASSUME NEW l \in Loop, RunReturns(l)
      PROVE  RunsHome'
  BY <1>3 DEF RunReturns, Idle
<1>4. ASSUME NEW s \in Server, AcceptorResumed(s)
      PROVE  RunsHome'
  BY <1>4 DEF AcceptorResumed, Idle
<1>5. ASSUME NEW s \in Server, AcceptorWaits(s) \/ AcceptorFails(s)
      PROVE  RunsHome'
  BY <1>5 DEF AcceptorWaits, AcceptorFails
<1>6. ASSUME ~StartServer, \A l \in Loop : ~RunCallback(l) /\ ~RunReturns(l),
             \A s \in Server : ~AcceptorResumed(s) /\ ~AcceptorWaits(s) /\ ~AcceptorFails(s)
      PROVE  UNCHANGED <<bound, ended, acceptor>>
  BY <1>6 DEF Next, vars, MainStep, AcceptorStep, PoolStep, ListenThrows, AllStarted,
              Join, DestroyServer, StopPool, JoinPool, StopLoops, DestroyLoops, Accepts,
              Submit, HandlerEnds, TakeJob, StoreResult, PostResult
<1> QED
  BY <1>1, <1>2, <1>3, <1>4, <1>5, <1>6

(* A closed pool accepts nothing, so that it stays idle once it is.        *)
LEMMA OverIsIdleStep == TypeOK /\ OverIsIdle /\ [Next]_vars => OverIsIdle'
<1> SUFFICES ASSUME TypeOK, OverIsIdle, [Next]_vars
             PROVE  OverIsIdle'
  OBVIOUS
<1> USE DEF OverIsIdle
<1>1. CASE UNCHANGED poolVars
  BY <1>1 DEF poolVars
<1>2. CASE StopPool \/ JoinPool
  BY <1>2 DEF StopPool, JoinPool, Pool!Close, Pool!WindUp
<1>3. ASSUME NEW h \in Handler, Submit(h)
      PROVE  OverIsIdle'
  <2>1. CASE Pool!Accept(h)
    BY <2>1 DEF Pool!Accept
  <2>2. CASE Pool!Refuse(h)
    BY <2>2 DEF Pool!Refuse
  <2> QED  BY <1>3, <2>1, <2>2 DEF Submit
<1>4. ASSUME NEW p \in PoolThread, TakeJob(p)
      PROVE  OverIsIdle'
  BY <1>4 DEF TakeJob, Pool!Take
<1>5. ASSUME NEW p \in PoolThread, PostResult(p)
      PROVE  OverIsIdle'
  BY <1>5 DEF PostResult, Pool!Complete
<1>6. ASSUME ~(StopPool \/ JoinPool), \A h \in Handler : ~Submit(h),
             \A p \in PoolThread : ~TakeJob(p) /\ ~PostResult(p)
      PROVE  UNCHANGED poolVars
  BY <1>6 DEF Next, vars, MainStep, AcceptorStep, PoolStep, StartServer, ListenThrows,
              AllStarted, Join, DestroyServer, StopLoops, DestroyLoops, RunCallback,
              RunReturns, AcceptorResumed, Accepts, AcceptorWaits, AcceptorFails,
              HandlerEnds, StoreResult
<1> QED
  BY <1>1, <1>2, <1>3, <1>4, <1>5, <1>6

(* Each step of main() establishes what holds at its next point; the       *)
(* others leave main(), the objects and over alone, and ended only grows.  *)
LEMMA PhasesStep == TypeOK /\ Phases /\ [Next]_vars => Phases'
<1> SUFFICES ASSUME TypeOK, Phases, [Next]_vars
             PROVE  Phases'
  OBVIOUS
<1> USE DEF TypeOK, Phases, setUp, objects, loopVars, poolVars
<1>1. CASE StartServer
  <2>1. DOMAIN bound' = DOMAIN bound \cup {Len(bound) + 1}
    BY <1>1 DEF StartServer
  <2> QED  BY <1>1, <2>1 DEF StartServer
<1>2. CASE ListenThrows \/ AllStarted \/ Join \/ DestroyServer
  BY <1>2 DEF ListenThrows, AllStarted, Join, DestroyServer
<1>3. CASE StopPool \/ JoinPool
  BY <1>3 DEF StopPool, JoinPool, Pool!Close, Pool!WindUp
<1>4. CASE StopLoops \/ DestroyLoops
  BY <1>4 DEF StopLoops, DestroyLoops
<1>5. ASSUME NEW l \in Loop, RunReturns(l)
      PROVE  Phases'
  BY <1>5 DEF RunReturns
<1>6. ASSUME ~MainStep, \A l \in Loop : ~RunReturns(l)
      PROVE  UNCHANGED <<main, threw, bound, servers, poolAlive, loopsAlive, ended, over>>
  BY <1>6 DEF Next, vars, AcceptorStep, PoolStep, RunCallback, AcceptorResumed, Accepts,
              AcceptorWaits, AcceptorFails, Submit, HandlerEnds, TakeJob, StoreResult,
              PostResult, Pool!Accept, Pool!Refuse, Pool!Take, Pool!Complete
<1> HIDE DEF TypeOK
<1>7. CASE UNCHANGED <<main, threw, bound, servers, poolAlive, loopsAlive, ended, over>>
  BY <1>7
<1> HIDE DEF Phases
<1> QED
  BY <1>1, <1>2, <1>3, <1>4, <1>5, <1>6, <1>7 DEF MainStep

(* An object is used by an acceptor or a handler whose loop has not        *)
(* returned, by the thread of such a loop, or by a thread of the pool that *)
(* has a job.                                                              *)
LEMMA UseStep ==
    TypeOK /\ RunsHome /\ Phases /\ OverIsIdle /\ NoDanglingUse /\ [Next]_vars
        => (~threw' => misused' = {})
<1> SUFFICES ASSUME TypeOK, RunsHome, Phases, OverIsIdle, NoDanglingUse, [Next]_vars, ~threw'
             PROVE  misused' = {}
  OBVIOUS
<1>1. ~threw
  BY DEF Next, vars, MainStep, AcceptorStep, PoolStep, StartServer, ListenThrows, AllStarted,
         Join, DestroyServer, StopPool, JoinPool, StopLoops, DestroyLoops, RunCallback,
         RunReturns, AcceptorResumed, Accepts, AcceptorWaits, AcceptorFails, Submit,
         HandlerEnds, TakeJob, StoreResult, PostResult, setUp
<1>2. misused = {}
  BY <1>1 DEF NoDanglingUse
<1>3. ended # Loop => servers = DOMAIN bound /\ poolAlive
  BY <1>1 DEF Phases
<1>4. ASSUME NEW s \in Server, acceptor[s] = "running"
      PROVE  s \in servers
  <2>1. s \in DOMAIN bound /\ bound[s] \in Loop \ ended
    BY <1>4 DEF RunsHome, TypeOK
  <2> QED  BY <1>3, <2>1
<1>5. ASSUME NEW s \in Server, AcceptorWaits(s) \/ AcceptorFails(s) \/ \E h \in Handler : Accepts(s, h)
      PROVE  misused' = {}
  BY <1>2, <1>4, <1>5 DEF AcceptorWaits, AcceptorFails, Accepts, Touch
<1>6. ASSUME NEW h \in Handler, Submit(h)
      PROVE  misused' = {}
  <2>1. home[h] \in Loop \ ended
    BY <1>6 DEF Submit, Idle, TypeOK
  <2>2. poolAlive
    BY <1>3, <2>1
  <2> QED  BY <1>2, <1>6, <2>2 DEF Submit, Touch
<1>7. ASSUME NEW p \in PoolThread, PostResult(p)
      PROVE  misused' = {}
  <2>1. ~over
    BY <1>7 DEF PostResult, OverIsIdle
  <2>2. loopsAlive
    BY <2>1 DEF Phases
  <2> QED  BY <1>2, <1>7, <2>2 DEF PostResult, Touch
<1>8. ASSUME \A s \in Server : /\ ~AcceptorWaits(s) /\ ~AcceptorFails(s)
                               /\ \A h \in Handler : ~Accepts(s, h),
             \A h \in Handler : ~Submit(h), \A p \in PoolThread : ~PostResult(p),
             \A l \in Loop : ~RunCallback(l) /\ ~RunReturns(l)
      PROVE  UNCHANGED misused
  BY <1>8 DEF Next, vars, MainStep, AcceptorStep, PoolStep, StartServer, ListenThrows,
              AllStarted, Join, DestroyServer, StopPool, JoinPool, StopLoops, DestroyLoops,
              AcceptorResumed, HandlerEnds, TakeJob, StoreResult, objects
<1>9. ASSUME NEW l \in Loop, RunCallback(l) \/ RunReturns(l)
      PROVE  misused' = {}
  <2>1. loopsAlive
    BY <1>9 DEF RunCallback, RunReturns, Idle, Phases
  <2> QED  BY <1>2, <1>9, <2>1 DEF RunCallback, RunReturns, Touch
<1> QED
  BY <1>2, <1>5, <1>6, <1>7, <1>8, <1>9

(* The loops are destroyed last, after their threads have been joined.     *)
LEMMA LoopUseStep ==
    Phases /\ OverIsIdle /\ NoDanglingUse /\ [Next]_vars => "loop" \notin misused'
<1> SUFFICES ASSUME Phases, OverIsIdle, NoDanglingUse, [Next]_vars
             PROVE  "loop" \notin misused'
  OBVIOUS
<1>1. "loop" \notin misused
  BY DEF NoDanglingUse
<1>2. ASSUME NEW s \in Server,
             AcceptorWaits(s) \/ AcceptorFails(s) \/ \E h \in Handler : Accepts(s, h)
      PROVE  "loop" \notin misused'
  BY <1>1, <1>2 DEF AcceptorWaits, AcceptorFails, Accepts, Touch
<1>3. ASSUME NEW h \in Handler, Submit(h)
      PROVE  "loop" \notin misused'
  BY <1>1, <1>3 DEF Submit, Touch
<1>4. ASSUME NEW p \in PoolThread, PostResult(p)
      PROVE  "loop" \notin misused'
  <2>1. loopsAlive
    BY <1>4 DEF PostResult, OverIsIdle, Phases
  <2> QED  BY <1>1, <1>4, <2>1 DEF PostResult, Touch
<1>5. ASSUME NEW l \in Loop, RunCallback(l) \/ RunReturns(l)
      PROVE  "loop" \notin misused'
  <2>1. loopsAlive
    BY <1>5 DEF RunCallback, RunReturns, Idle, Phases
  <2> QED  BY <1>1, <1>5, <2>1 DEF RunCallback, RunReturns, Touch
<1>6. CASE MainStep \/ UNCHANGED vars
  BY <1>1, <1>6 DEF MainStep, StartServer, ListenThrows, AllStarted, Join, DestroyServer,
         StopPool, JoinPool, StopLoops, DestroyLoops, objects, vars
<1>7. ASSUME NEW s \in Server, AcceptorResumed(s)
      PROVE  "loop" \notin misused'
  BY <1>1, <1>7 DEF AcceptorResumed, objects
<1>8. ASSUME NEW h \in Handler, HandlerEnds(h)
      PROVE  "loop" \notin misused'
  BY <1>1, <1>8 DEF HandlerEnds, objects
<1>9. ASSUME NEW p \in PoolThread, TakeJob(p) \/ StoreResult(p)
      PROVE  "loop" \notin misused'
  BY <1>1, <1>9 DEF TakeJob, StoreResult, objects
<1> QED
  BY <1>2, <1>3, <1>4, <1>5, <1>6, <1>7, <1>8, <1>9 DEF Next, AcceptorStep, PoolStep

LEMMA StepIInv == IInv /\ [Next]_vars => IInv'
<1>1. IInv /\ [Next]_vars => NoDanglingUse'
  BY UseStep, LoopUseStep DEF IInv, NoDanglingUse
<1> QED
  BY <1>1, TypeStep, PostedHomeStep, RunsHomeStep, PhasesStep, OverIsIdleStep DEF IInv

(* Every variable of the server process stays in its type, for any number  *)
(* of workers, handlers and threads of the pool.                           *)
THEOREM TypeCorrect == Spec => []TypeOK
<1>1. IInv => TypeOK
  BY DEF IInv
<1> QED  BY InitIInv, StepIInv, <1>1, PTL DEF Spec

(* main() (tcp-echo-server/main.cpp:108-141) destroys servers, pool and    *)
(* loops in an order in which nothing is used after its destruction, once  *)
(* start-up has succeeded; a loop never is.                                *)
THEOREM NothingDangles == Spec => []NoDanglingUse
<1>1. IInv => NoDanglingUse
  BY DEF IInv
<1> QED  BY InitIInv, StepIInv, <1>1, PTL DEF Spec

--------------------------------------------------------------------------------
LEMMA KnownStep == TypeOK /\ KnownIsSpawned /\ [Next]_vars => KnownIsSpawned'
<1> SUFFICES ASSUME TypeOK, KnownIsSpawned, [Next]_vars
             PROVE  KnownIsSpawned'
  OBVIOUS
<1> USE DEF TypeOK, KnownIsSpawned
<1>a. ASSUME Pool!Known' \subseteq Pool!Known,
             \A h \in Handler : co[h] # "none" => co'[h] # "none"
      PROVE  KnownIsSpawned'
  BY <1>a
<1>b. ASSUME UNCHANGED poolVars
      PROVE  Pool!Known' = Pool!Known
  BY <1>b DEF poolVars, Pool!Known, Pool!Elements
<1>1. ASSUME NEW h \in Handler, Submit(h)
      PROVE  KnownIsSpawned'
  <2>1. Pool!Known' \subseteq Pool!Known \cup {h}
    <3>1. CASE Pool!Accept(h)
      <4>1. \A i \in DOMAIN queue' : queue'[i] = h \/ (i \in DOMAIN queue /\ queue'[i] = queue[i])
        BY <3>1 DEF Pool!Accept, Pool!TypeOK
      <4> QED  BY <3>1, <4>1 DEF Pool!Accept, Pool!Known, Pool!Elements
    <3>2. CASE Pool!Refuse(h)
      BY <3>2 DEF Pool!Refuse, Pool!Known, Pool!Elements
    <3> QED  BY <1>1, <3>1, <3>2 DEF Submit
  <2>2. co'[h] # "none" /\ \A o \in Handler \ {h} : co'[o] = co[o]
    BY <1>1 DEF Submit
  <2> QED  BY <2>1, <2>2
<1>2. ASSUME NEW p \in PoolThread, TakeJob(p)
      PROVE  KnownIsSpawned'
  <2>1. /\ queue # <<>> /\ queue' = Tail(queue) /\ co' = co
        /\ running' = [running EXCEPT ![p] = Head(queue)]
        /\ UNCHANGED <<finished, refused>>
    BY <1>2 DEF TakeJob, Pool!Take, coVars
  <2>2. /\ Head(queue) = queue[1] /\ 1 \in DOMAIN queue
        /\ \A i \in DOMAIN Tail(queue) : i + 1 \in DOMAIN queue /\ Tail(queue)[i] = queue[i + 1]
    BY <2>1 DEF Pool!TypeOK
  <2>3. Pool!Known' \subseteq Pool!Known
    BY <2>1, <2>2 DEF Pool!Known, Pool!Elements, Pool!TypeOK
  <2> QED  BY <1>a, <2>1, <2>3
<1>3. ASSUME NEW p \in PoolThread, PostResult(p)
      PROVE  KnownIsSpawned'
  <2>1. /\ running' = [running EXCEPT ![p] = NoJob] /\ co' = co
        /\ finished' = finished \cup {running[p]} /\ UNCHANGED <<queue, refused>>
    BY <1>3 DEF PostResult, Pool!Complete, coVars
  <2>2. Pool!Known' \subseteq Pool!Known \cup {NoJob}
    BY <2>1 DEF Pool!Known, Pool!Elements, Pool!TypeOK
  <2> QED  BY <2>1, <2>2, ConstantsAssumption
<1>4. CASE StopPool \/ JoinPool
  BY <1>4 DEF StopPool, JoinPool, Pool!Close, Pool!WindUp, Pool!Known, Pool!Elements, coVars
<1>5. ASSUME NEW l \in Loop, RunCallback(l)
      PROVE  KnownIsSpawned'
  BY <1>5, <1>a, <1>b DEF RunCallback
<1>6. ASSUME NEW s \in Server, NEW h \in Handler, Accepts(s, h)
      PROVE  KnownIsSpawned'
  BY <1>6, <1>a, <1>b DEF Accepts
<1>7. ASSUME NEW h \in Handler, HandlerEnds(h)
      PROVE  KnownIsSpawned'
  BY <1>7, <1>a, <1>b DEF HandlerEnds
<1>8. ASSUME ~(StopPool \/ JoinPool), \A h \in Handler : ~Submit(h) /\ ~HandlerEnds(h),
             \A p \in PoolThread : ~TakeJob(p) /\ ~PostResult(p),
             \A l \in Loop : ~RunCallback(l),
             \A s \in Server, h \in Handler : ~Accepts(s, h)
      PROVE  UNCHANGED <<co, poolVars>>
  BY <1>8 DEF Next, vars, MainStep, AcceptorStep, PoolStep, StartServer, ListenThrows,
              AllStarted, Join, DestroyServer, StopLoops, DestroyLoops, RunReturns,
              AcceptorResumed, AcceptorWaits, AcceptorFails, StoreResult, coVars
<1> QED
  BY <1>1, <1>2, <1>3, <1>4, <1>5, <1>6, <1>7, <1>8, <1>a, <1>b

(* A continuation is posted by the thread that has stored the outcome, to  *)
(* the loop of its handler; nobody moves the handler after that.           *)
LEMMA ResumesStep ==
    TypeOK /\ KnownIsSpawned /\ ResumesWithResult /\ [Next]_vars => ResumesWithResult'
<1> SUFFICES ASSUME TypeOK, KnownIsSpawned, ResumesWithResult, [Next]_vars
             PROVE  ResumesWithResult'
  OBVIOUS
<1>0. \A l \in Loop : pending[l] \in Seq(Message)
  BY DEF TypeOK, Message
<1>a. ASSUME \A l \in Loop : \A i \in DOMAIN pending'[l] :
                 pending'[l][i][1] = "resume" =>
                     \E k \in DOMAIN pending[l] : pending[l][k] = pending'[l][i],
             UNCHANGED home, result \subseteq result', finished \subseteq finished'
      PROVE  ResumesWithResult'
  BY <1>a DEF ResumesWithResult
<1>1. CASE StartServer
  <2>0. nextIndex % N \in Loop
    BY ConstantsAssumption DEF TypeOK, Loop
  <2>1. PICK l \in Loop : l = nextIndex % N
    BY <2>0
  <2>2. /\ pending' = [pending EXCEPT ![l] = Append(@, <<"accept", Len(bound) + 1>>)]
        /\ UNCHANGED <<home, result, finished>>
    BY <1>1, <2>1 DEF StartServer, Post, coVars, poolVars
  <2>3. \A i \in DOMAIN pending'[l] :
            \/ i \in DOMAIN pending[l] /\ pending'[l][i] = pending[l][i]
            \/ pending'[l][i] = <<"accept", Len(bound) + 1>>
    BY <1>0, <2>2 DEF TypeOK
  <2>4. \A k \in Loop \ {l} : pending'[k] = pending[k]
    BY <2>2
  <2>5. \A k \in Loop : \A i \in DOMAIN pending'[k] :
            pending'[k][i][1] = "resume" => i \in DOMAIN pending[k] /\ pending'[k][i] = pending[k][i]
    BY <2>3, <2>4
  <2> QED  BY <1>a, <2>2, <2>5
<1>2. ASSUME NEW l \in Loop, RunCallback(l)
      PROVE  ResumesWithResult'
  <2>1. /\ pending' = [pending EXCEPT ![l] = Tail(@)] /\ pending[l] # <<>>
        /\ UNCHANGED <<home, result, finished>>
    BY <1>2 DEF RunCallback, poolVars
  <2>2. \A i \in DOMAIN pending'[l] :
            i + 1 \in DOMAIN pending[l] /\ pending'[l][i] = pending[l][i + 1]
    BY <1>0, <2>1 DEF TypeOK
  <2>3. \A k \in Loop \ {l} : pending'[k] = pending[k]
    BY <2>1
  <2> QED  BY <1>a, <2>1, <2>2, <2>3
<1>3. ASSUME NEW p \in PoolThread, PostResult(p)
      PROVE  ResumesWithResult'
  <2>1. PICK h \in Handler : h = running[p]
    BY <1>3 DEF PostResult, TypeOK, Pool!TypeOK
  <2>2. PICK l \in Loop : l = home[h]
    BY DEF TypeOK
  <2>3. /\ pending' = [pending EXCEPT ![l] = Append(@, <<"resume", h>>)]
        /\ UNCHANGED <<home, result>> /\ h \in result
        /\ finished' = finished \cup {h}
    BY <1>3, <2>1, <2>2 DEF PostResult, Post, Pool!Complete, coVars
  <2>4. \A i \in DOMAIN pending'[l] :
            \/ i \in DOMAIN pending[l] /\ pending'[l][i] = pending[l][i]
            \/ pending'[l][i] = <<"resume", h>>
    BY <1>0, <2>3 DEF TypeOK
  <2>5. \A k \in Loop \ {l} : pending'[k] = pending[k]
    BY <2>3
  <2> QED  BY <2>2, <2>3, <2>4, <2>5 DEF ResumesWithResult
<1>4. ASSUME NEW s \in Server, NEW h \in Handler, Accepts(s, h)
      PROVE  ResumesWithResult'
  <2>1. /\ \A o \in Handler \ {h} : home'[o] = home[o]
        /\ UNCHANGED <<pending, result, finished>>
    BY <1>4 DEF Accepts, TypeOK, loopVars, poolVars
  <2>2. h \notin finished
    BY <1>4 DEF Accepts, KnownIsSpawned, Pool!Known
  <2>3. \A l \in Loop : \A i \in DOMAIN pending[l] :
            pending[l][i][1] = "resume" => pending[l][i][2] \in Handler
    BY <1>0 DEF Message
  <2> QED  BY <2>1, <2>2, <2>3 DEF ResumesWithResult
<1>5. ASSUME NEW p \in PoolThread, StoreResult(p)
      PROVE  ResumesWithResult'
  BY <1>5, <1>a DEF StoreResult, loopVars, poolVars
<1>6. CASE DestroyLoops
  BY <1>6, <1>a DEF DestroyLoops, coVars, poolVars
<1>7. ASSUME ~StartServer, ~DestroyLoops, \A l \in Loop : ~RunCallback(l),
             \A p \in PoolThread : ~PostResult(p) /\ ~StoreResult(p),
             \A s \in Server, h \in Handler : ~Accepts(s, h)
      PROVE  UNCHANGED <<pending, home, result, finished>>
  BY <1>7 DEF Next, vars, MainStep, AcceptorStep, PoolStep, ListenThrows, AllStarted, Join,
              DestroyServer, StopPool, JoinPool, StopLoops, RunReturns, AcceptorResumed,
              AcceptorWaits, AcceptorFails, Submit, HandlerEnds, TakeJob, loopVars, coVars,
              poolVars, Pool!Close, Pool!WindUp, Pool!Accept, Pool!Refuse, Pool!Take
<1> QED
  BY <1>1, <1>2, <1>3, <1>4, <1>5, <1>6, <1>7, <1>a

(* Only a callback of its loop changes what an offloaded handler does.     *)
LEMMA OffloadedStep ==
    ASSUME TypeOK, ResumesWithResult, [Next]_vars,
           NEW h \in Handler, co[h] = "offloaded", co'[h] # "offloaded"
    PROVE  /\ h \in result /\ h \in finished
           /\ pending[home[h]] = <<<<"resume", h>>>> \o pending'[home[h]]
<1>1. PICK l \in Loop : RunCallback(l)
  BY DEF TypeOK, Next, vars, MainStep, AcceptorStep, PoolStep, StartServer, ListenThrows,
         AllStarted, Join, DestroyServer, StopPool, JoinPool, StopLoops, DestroyLoops,
         RunReturns, AcceptorResumed, Accepts, AcceptorWaits, AcceptorFails, Submit,
         HandlerEnds, TakeJob, StoreResult, PostResult, coVars
<1>2. /\ pending[l] \in Seq(Message) /\ pending[l] # <<>>
      /\ pending' = [pending EXCEPT ![l] = Tail(@)]
      /\ Head(pending[l])[1] = "resume" /\ Head(pending[l])[2] = h
  BY <1>1 DEF RunCallback, TypeOK, Message
<1>3. Head(pending[l]) = pending[l][1] /\ 1 \in DOMAIN pending[l] /\ pending[l][1] \in Message
  BY <1>2
<1>4. home[h] = l /\ h \in result \cap finished
  BY <1>2, <1>3 DEF ResumesWithResult
<1>5. Head(pending[l]) = <<"resume", h>>
  BY <1>2, <1>3 DEF Message
<1>6. pending[l] = <<Head(pending[l])>> \o Tail(pending[l])
  BY <1>2
<1> QED  BY <1>2, <1>4, <1>5, <1>6 DEF TypeOK

(* co_await submit(...) (thread_pool.hpp) goes on when its own function    *)
(* has returned, as the next callback of the loop it was called on, for    *)
(* any number of workers, handlers and threads of the pool.                *)
THEOREM OutcomeBeforeResumption == Spec => ResumedWithResult
<1> DEFINE Posted == TypeOK /\ RunsHome /\ PostedHome /\ KnownIsSpawned /\ ResumesWithResult
           Resumed == \A h \in Handler : co[h] = "offloaded" /\ co'[h] # "offloaded" =>
                          /\ h \in result /\ h \in finished
                          /\ pending[home[h]] = <<<<"resume", h>>>> \o pending'[home[h]]
<1>1. Init => Posted
  <2> SUFFICES ASSUME Init
               PROVE  Posted
    OBVIOUS
  <2>1. TypeOK /\ RunsHome /\ PostedHome
    BY InitIInv DEF IInv
  <2>2. Pool!Known \subseteq {NoJob}
    BY DEF Init, Pool!Init, Pool!Known, Pool!Elements
  <2>3. ResumesWithResult
    BY DEF Init, ResumesWithResult
  <2> QED  BY <2>1, <2>2, <2>3, ConstantsAssumption DEF KnownIsSpawned
<1>2. Posted /\ [Next]_vars => Posted'
  BY TypeStep, RunsHomeStep, PostedHomeStep, KnownStep, ResumesStep
<1>3. Posted /\ [Next]_vars => [Resumed]_vars
  BY OffloadedStep
<1> QED  BY <1>1, <1>2, <1>3, PTL DEF Spec, ResumedWithResult
================================================================================
