----------------------------- MODULE Reactor_proof -----------------------------
(***************************************************************************)
(* For any number of descriptors and coroutines: states_, the epoll set    *)
(* and the coroutines agree, and no readiness is missed.                   *)
(***************************************************************************)
EXTENDS Reactor, SequenceTheorems, TLAPS

(* What runs is not waiting, and what dispatch() has taken out of states_  *)
(* is resumed once.                                                        *)
StackShape ==
    /\ \A i \in DOMAIN stack : at[stack[i]] = "user"
    /\ \A i, j \in DOMAIN stack : stack[i] = stack[j] => i = j

ResumeShape ==
    /\ \A i \in DOMAIN resume : at[resume[i]] = "taken"
    /\ \A i, j \in DOMAIN resume : resume[i] = resume[j] => i = j

(* There are events to dispatch only while run() is dispatching.           *)
BatchShape == lpc \in {"top", "wait"} => \A f \in Fd : batch[f] = {}

Shape == StackShape /\ ResumeShape /\ BatchShape

IInv == TypeOK /\ Shape /\ WaitersAreKept /\ EpollAgrees /\ NoEdgeLost

LEMMA InitIInv == Init => IInv
<1> SUFFICES ASSUME Init PROVE IInv
    OBVIOUS
<1> USE ConstantsAssumption DEF Init, IdleLoop, NoHandles
<1>1. <<>> \in Seq(Coroutine) /\ DOMAIN <<>> = {}
  BY EmptySeq
<1>2. TypeOK
  BY <1>1 DEF TypeOK, Dir, Event
<1>3. Shape
  BY <1>1 DEF Shape, StackShape, ResumeShape, BatchShape
<1>4. WaitersAreKept
  BY DEF WaitersAreKept
<1>5. EpollAgrees
  BY DEF EpollAgrees
<1>6. NoEdgeLost
  BY DEF NoEdgeLost
<1> QED
  BY <1>2, <1>3, <1>4, <1>5, <1>6 DEF IInv

--------------------------------------------------------------------------------
(* The top of the stack is a coroutine in user code.                       *)
LEMMA RunningIsUser ==
    ASSUME TypeOK, StackShape, NEW c \in Coroutine, Runs(c)
    PROVE  at[c] = "user" /\ stack # <<>> /\ Head(stack) = c
BY DEF TypeOK, StackShape, Runs

(* After a pop, what is left is other coroutines.                          *)
LEMMA PopRest ==
    ASSUME NEW S, NEW s \in Seq(S), s # <<>>,
           \A i, j \in DOMAIN s : s[i] = s[j] => i = j
    PROVE  /\ Tail(s) \in Seq(S)
           /\ \A i \in DOMAIN Tail(s) :
                  i + 1 \in DOMAIN s /\ Tail(s)[i] = s[i + 1] /\ Tail(s)[i] # Head(s)
           /\ \A i, j \in DOMAIN Tail(s) : Tail(s)[i] = Tail(s)[j] => i = j
<1>1. /\ Tail(s) \in Seq(S) /\ Len(Tail(s)) = Len(s) - 1
      /\ \A i \in 1 .. Len(Tail(s)) : Tail(s)[i] = s[i + 1]
  BY HeadTailProperties
<1>2. Head(s) = s[1] /\ 1 \in DOMAIN s
  OBVIOUS
<1> QED
  BY <1>1, <1>2

(* The handles taken are those of the coroutines that wait for dirs.       *)
LEMMA TakenHandles ==
    ASSUME TypeOK, WaitersAreKept, NEW f \in Fd, NEW dirs \in SUBSET Dir
    PROVE  /\ Taken(f, dirs) \in Seq(Coroutine)
           /\ \A i \in DOMAIN Taken(f, dirs) :
                  \E d \in dirs : handle[f][d] = Taken(f, dirs)[i]
           /\ \A i, j \in DOMAIN Taken(f, dirs) :
                  Taken(f, dirs)[i] = Taken(f, dirs)[j] => i = j
<1> DEFINE r == IF "in" \in dirs /\ handle[f]["in"] # NoCoroutine
                THEN <<handle[f]["in"]>> ELSE <<>>
           w == IF "out" \in dirs /\ handle[f]["out"] # NoCoroutine
                THEN <<handle[f]["out"]>> ELSE <<>>
<1>1. Taken(f, dirs) = r \o w
  BY DEF Taken
<1>2. handle[f]["in"] \in Coroutine \cup {NoCoroutine}
      /\ handle[f]["out"] \in Coroutine \cup {NoCoroutine}
  BY DEF TypeOK, Dir
<1>3. handle[f]["in"] # NoCoroutine => handle[f]["in"] # handle[f]["out"]
  <2> SUFFICES ASSUME handle[f]["in"] # NoCoroutine, handle[f]["in"] = handle[f]["out"]
               PROVE  FALSE
      OBVIOUS
  <2>1. PICK c \in Coroutine : c = handle[f]["in"]
    BY <1>2
  <2>2. wants[c] = <<f, "in">> /\ wants[c] = <<f, "out">>
    BY <2>1 DEF WaitersAreKept, Dir
  <2> QED
    BY <2>2
<1>4. CASE r = <<>> /\ w = <<>>
  BY <1>1, <1>4
<1>5. CASE r = <<handle[f]["in"]>> /\ w = <<>>
  BY <1>1, <1>2, <1>5
<1>6. CASE r = <<>> /\ w = <<handle[f]["out"]>>
  BY <1>1, <1>2, <1>6
<1>7. CASE r = <<handle[f]["in"]>> /\ w = <<handle[f]["out"]>>
  BY <1>1, <1>2, <1>3, <1>7
<1> QED
  BY <1>4, <1>5, <1>6, <1>7

LEMMA DirsOfIsDirs == \A events : DirsOf(events) \in SUBSET Dir
BY DEF DirsOf

--------------------------------------------------------------------------------
(* What the epoll operations do to the kernel's state, for Await, Close    *)
(* and Dispatch alike.                                                     *)
LEMMA TypeRegister ==
    ASSUME TypeOK, NEW f \in Fd, f \in open, NEW dirs \in SUBSET Dir,
           NEW edgeTriggered, Register(f, dirs, edgeTriggered)
    PROVE  /\ registered' \subseteq open
           /\ et' \subseteq registered'
           /\ ready' \subseteq registered'
           /\ interest' \in [Fd -> SUBSET Dir]
BY DEF TypeOK, Register

LEMMA TypeDeregister ==
    ASSUME TypeOK, NEW f \in Fd, Deregister(f)
    PROVE  /\ registered' \subseteq open \ {f}
           /\ et' \subseteq registered'
           /\ ready' \subseteq registered'
           /\ interest' \in [Fd -> SUBSET Dir]
BY DEF TypeOK, Deregister

LEMMA TypeStep == IInv /\ [Next]_vars => TypeOK'
<1> SUFFICES ASSUME IInv, [Next]_vars PROVE TypeOK'
    OBVIOUS
<1>0. /\ TypeOK /\ StackShape /\ ResumeShape /\ WaitersAreKept /\ EpollAgrees
      /\ {"in", "out"} = Dir
  BY DEF IInv, Shape, Dir
<1> USE DEF stateVars, coVars, loopVars
<1>1. ASSUME NEW f \in Fd, NEW e \in Event, BecomesReady(f, e) PROVE TypeOK'
  BY <1>0, <1>1 DEF TypeOK, BecomesReady
<1>2. ASSUME NEW c \in Coroutine, NEW f \in Fd, NEW d \in Dir, Drain(c, f, d)
      PROVE  TypeOK'
  BY <1>0, <1>2 DEF TypeOK, Drain, epollVars
<1>3. ASSUME NEW c \in Coroutine, NEW f \in Fd, NEW d \in Dir,
             NEW e \in BOOLEAN, Await(c, f, d, e)
      PROVE  TypeOK'
  <2>1. stack # <<>> /\ Tail(stack) \in Seq(Coroutine)
    BY <1>0, <1>3, HeadTailProperties DEF TypeOK, Await, AddInterest, Runs
  <2>2. Register(f, Dir, e) /\ f \in open
    BY <1>3 DEF Await, AddInterest
  <2>3. /\ registered' \subseteq open /\ et' \subseteq registered'
        /\ ready' \subseteq registered' /\ interest' \in [Fd -> SUBSET Dir]
    BY <1>0, <2>2, TypeRegister
  <2> QED
    BY <1>0, <1>3, <2>1, <2>3 DEF TypeOK, Await, AddInterest, Suspend
<1>4. ASSUME NEW c \in Coroutine, Leave(c) PROVE TypeOK'
  <2>1. stack # <<>> /\ Tail(stack) \in Seq(Coroutine)
    BY <1>0, <1>4, HeadTailProperties DEF TypeOK, Leave, Runs
  <2> QED
    BY <1>0, <1>4, <2>1 DEF TypeOK, Leave, epollVars
<1>5. ASSUME NEW c \in Coroutine, Enter(c) PROVE TypeOK'
  BY <1>0, <1>5 DEF TypeOK, Enter, epollVars
<1>6. ASSUME NEW c \in Coroutine, NEW f \in Fd, Open(c, f) PROVE TypeOK'
  BY <1>0, <1>6 DEF TypeOK, Open, epollVars
<1>7. ASSUME NEW c \in Coroutine, NEW f \in Fd, Close(c, f) PROVE TypeOK'
  <2>1. /\ registered' \subseteq open \ {f} /\ et' \subseteq registered'
        /\ ready' \subseteq registered' /\ interest' \in [Fd -> SUBSET Dir]
    BY <1>0, <1>7, TypeDeregister DEF Close
  <2> QED
    BY <1>0, <1>7, <2>1 DEF TypeOK, Close, NoHandles
<1>8. CASE EndPass \/ WaitInterrupted \/ DispatchWakeup \/ NextIteration
  BY <1>0, <1>8 DEF TypeOK, EndPass, WaitInterrupted, DispatchWakeup, NextIteration,
     epollVars
<1>9. CASE WaitReturns
  <2>1. \A f \in Fd : Reported(f) \in SUBSET Event
    BY <1>0 DEF TypeOK, Reported
  <2> QED
    BY <1>0, <1>9, <2>1 DEF TypeOK, WaitReturns
<1>10. ASSUME NEW f \in Fd, Dispatch(f) PROVE TypeOK'
  <2> DEFINE dirs == DirsOf(batch[f])
  <2>1. Take(f, dirs) /\ UpdateOrRemove(f, dirs) /\ f \in known /\ dirs \in SUBSET Dir
    BY <1>10, DirsOfIsDirs DEF Dispatch
  <2> HIDE DEF dirs
  <2>2. /\ batch' \in [Fd -> SUBSET Event]
        /\ handle' \in [Fd -> [Dir -> Coroutine \cup {NoCoroutine}]]
        /\ at' \in [Coroutine -> {"away", "user", "waiting", "taken"}]
        /\ UNCHANGED <<open, cond, stack, wants, lpc, wake>>
    BY <1>0, <2>1 DEF TypeOK, Take
  <2>3. resume' \in Seq(Coroutine)
    BY <1>0, <2>1, TakenHandles DEF Take
  <2>4. /\ known' \subseteq Fd /\ edge' \subseteq known'
        /\ registered' \subseteq open /\ et' \subseteq registered'
        /\ ready' \subseteq registered' /\ interest' \in [Fd -> SUBSET Dir]
    <3>1. CASE Left(f, dirs) = {}
      BY <1>0, <2>1, <3>1, TypeDeregister DEF UpdateOrRemove, TypeOK
    <3>2. CASE Left(f, dirs) # {}
      <4>1. f \in open /\ Left(f, dirs) \in SUBSET Dir
        BY <1>0, <2>1 DEF TypeOK, EpollAgrees, Left
      <4>2. Register(f, Left(f, dirs), f \in edge) /\ UNCHANGED <<known, edge>>
        BY <2>1, <3>2 DEF UpdateOrRemove
      <4> QED
        BY <1>0, <4>1, <4>2, TypeRegister DEF TypeOK
    <3> QED
      BY <3>1, <3>2
  <2> QED
    BY <1>0, <2>2, <2>3, <2>4 DEF TypeOK
<1>11. CASE Resume
  <2>1. /\ Head(resume) \in Coroutine
        /\ Tail(resume) \in Seq(Coroutine) /\ <<Head(resume)>> \in Seq(Coroutine)
    BY <1>0, <1>11, HeadTailProperties DEF TypeOK, Resume
  <2> QED
    BY <1>0, <1>11, <2>1 DEF TypeOK, Resume, epollVars
<1>12. CASE UNCHANGED vars
  BY <1>0, <1>12 DEF TypeOK, vars, epollVars
<1> QED
  BY <1>1, <1>2, <1>3, <1>4, <1>5, <1>6, <1>7, <1>8, <1>9, <1>10, <1>11, <1>12
     DEF Next, CoroutineStep, LoopAdvances

--------------------------------------------------------------------------------
(* await_suspend, or the end of a coroutine: what is under it on the stack *)
(* runs on.                                                                *)
LEMMA PopShape ==
    ASSUME TypeOK, StackShape, ResumeShape, NEW c \in Coroutine, Runs(c),
           stack' = Tail(stack), resume' = resume,
           NEW label \in {"away", "waiting"}, at' = [at EXCEPT ![c] = label]
    PROVE  StackShape' /\ ResumeShape'
<1>1. at[c] = "user" /\ stack # <<>> /\ Head(stack) = c
  BY RunningIsUser
<1>2. /\ \A i \in DOMAIN Tail(stack) :
            i + 1 \in DOMAIN stack /\ Tail(stack)[i] = stack[i + 1] /\ Tail(stack)[i] # c
      /\ \A i, j \in DOMAIN Tail(stack) : Tail(stack)[i] = Tail(stack)[j] => i = j
      /\ stack \in Seq(Coroutine)
  BY <1>1, PopRest DEF TypeOK, StackShape
<1>3. StackShape'
  BY <1>2 DEF TypeOK, StackShape
<1>4. ResumeShape'
  BY <1>1 DEF TypeOK, ResumeShape
<1> QED
  BY <1>3, <1>4

LEMMA ShapeStep == IInv /\ [Next]_vars => Shape'
<1> SUFFICES ASSUME IInv, [Next]_vars PROVE Shape'
    OBVIOUS
<1>0. /\ TypeOK /\ StackShape /\ ResumeShape /\ BatchShape /\ WaitersAreKept
  BY DEF IInv, Shape
<1> USE DEF stateVars, coVars, loopVars
<1>a. ASSUME UNCHANGED <<stack, at>> PROVE StackShape'
  BY <1>0, <1>a DEF StackShape
<1>b. ASSUME UNCHANGED <<resume, at>> PROVE ResumeShape'
  BY <1>0, <1>b DEF ResumeShape
<1>c. ASSUME UNCHANGED <<lpc, batch>> PROVE BatchShape'
  BY <1>0, <1>c DEF BatchShape
<1>1. ASSUME NEW c \in Coroutine, NEW f \in Fd, NEW d \in Dir,
             NEW e \in BOOLEAN, Await(c, f, d, e)
      PROVE  Shape'
  BY <1>0, <1>1, <1>c, PopShape DEF Await, AddInterest, Suspend, Shape
<1>2. ASSUME NEW c \in Coroutine, Leave(c) PROVE Shape'
  BY <1>0, <1>2, <1>c, PopShape DEF Leave, Shape
<1>3. ASSUME NEW c \in Coroutine, Enter(c) PROVE Shape'
  <2>1. /\ DOMAIN stack' = 1 .. Len(stack) + 1 /\ DOMAIN stack = 1 .. Len(stack)
        /\ Len(stack) \in Nat
        /\ stack'[1] = c /\ \A i \in DOMAIN stack : stack'[i + 1] = stack[i]
    BY <1>0, <1>3 DEF TypeOK, Enter
  <2>2. \A i \in DOMAIN stack' : i = 1 \/ (i - 1 \in DOMAIN stack /\ stack'[i] = stack[i - 1])
    BY <2>1
  <2>3. /\ \A i \in DOMAIN stack : stack[i] \in Coroutine /\ stack[i] # c
        /\ at' = [at EXCEPT ![c] = "user"]
    BY <1>0, <1>3 DEF TypeOK, Enter, StackShape
  <2>4. \A i \in DOMAIN stack' : at'[stack'[i]] = "user"
    BY <1>0, <2>1, <2>2, <2>3 DEF TypeOK, StackShape
  <2>5. \A i, j \in DOMAIN stack' : stack'[i] = stack'[j] => i = j
    BY <1>0, <2>1, <2>2, <2>3 DEF StackShape
  <2>6. ResumeShape'
    BY <1>0, <1>3 DEF TypeOK, ResumeShape, Enter
  <2> QED
    BY <1>3, <1>c, <2>4, <2>5, <2>6 DEF Shape, StackShape, Enter
<1>4. CASE EndPass
  BY <1>0, <1>4, <1>a, <1>b DEF EndPass, BatchShape, Shape
<1>5. CASE WaitReturns
  BY <1>5, <1>a, <1>b DEF WaitReturns, BatchShape, Shape
<1>6. CASE WaitInterrupted
  BY <1>0, <1>6, <1>a, <1>b DEF WaitInterrupted, BatchShape, Shape
<1>7. CASE DispatchWakeup
  BY <1>7, <1>a, <1>b DEF DispatchWakeup, BatchShape, Shape
<1>8. CASE NextIteration
  BY <1>8, <1>a, <1>b DEF NextIteration, BatchShape, Shape
<1>9. ASSUME NEW f \in Fd, Dispatch(f) PROVE Shape'
  <2> DEFINE dirs == DirsOf(batch[f])
  <2>1. Take(f, dirs) /\ lpc = "dispatch" /\ stack = <<>> /\ dirs \in SUBSET Dir
    BY <1>9, DirsOfIsDirs DEF Dispatch, Dispatching, Suspended
  <2> HIDE DEF dirs
  <2>2. stack' = <<>> /\ lpc' = "dispatch" /\ resume' = Taken(f, dirs)
    BY <2>1 DEF Take
  <2>3. ASSUME NEW i \in DOMAIN resume' PROVE at'[resume'[i]] = "taken"
    <3>1. PICK d \in dirs : handle[f][d] = resume'[i]
      BY <1>0, <2>1, <2>2, TakenHandles
    <3>2. resume'[i] \in Coroutine
      BY <1>0, <2>1, <2>2, TakenHandles
    <3> QED
      BY <2>1, <3>1, <3>2 DEF Take
  <2>4. \A i, j \in DOMAIN resume' : resume'[i] = resume'[j] => i = j
    BY <1>0, <2>1, <2>2, TakenHandles
  <2>5. StackShape' /\ BatchShape'
    BY <2>2 DEF StackShape, BatchShape
  <2> QED
    BY <2>3, <2>4, <2>5 DEF Shape, ResumeShape
<1>10. CASE Resume
  <2>1. /\ resume # <<>> /\ resume \in Seq(Coroutine) /\ Head(resume) \in Coroutine
        /\ stack' = <<Head(resume)>> /\ resume' = Tail(resume)
        /\ at' = [at EXCEPT ![Head(resume)] = "user"] /\ lpc = "dispatch"
    BY <1>0, <1>10, HeadTailProperties DEF TypeOK, Resume
  <2>2. /\ \A i \in DOMAIN Tail(resume) :
              /\ i + 1 \in DOMAIN resume /\ Tail(resume)[i] = resume[i + 1]
              /\ Tail(resume)[i] # Head(resume)
        /\ \A i, j \in DOMAIN Tail(resume) : Tail(resume)[i] = Tail(resume)[j] => i = j
    BY <1>0, <2>1, PopRest DEF ResumeShape
  <2>3. ResumeShape'
    BY <1>0, <2>1, <2>2 DEF TypeOK, ResumeShape
  <2>4. StackShape'
    BY <1>0, <2>1 DEF TypeOK, StackShape
  <2> QED
    BY <1>10, <1>c, <2>3, <2>4 DEF Shape, Resume
<1>11. ASSUME UNCHANGED <<stack, at, resume, lpc, batch>> PROVE Shape'
  BY <1>11, <1>a, <1>b, <1>c DEF Shape
<1> QED
  BY <1>1, <1>2, <1>3, <1>4, <1>5, <1>6, <1>7, <1>8, <1>9, <1>10, <1>11
     DEF Next, CoroutineStep, LoopAdvances, BecomesReady, Drain, Open, Close, vars

--------------------------------------------------------------------------------
(* A handle is stored by the coroutine that suspends, and leaves states_   *)
(* with the coroutine it is of.                                            *)
LEMMA WaitersStep == IInv /\ [Next]_vars => WaitersAreKept'
<1> SUFFICES ASSUME IInv, [Next]_vars PROVE WaitersAreKept'
    OBVIOUS
<1>0. TypeOK /\ StackShape /\ ResumeShape /\ WaitersAreKept
  BY DEF IInv, Shape
<1> USE DEF stateVars, coVars, loopVars, WaitersAreKept
<1>1. ASSUME NEW c \in Coroutine, NEW f \in Fd, NEW d \in Dir,
             NEW e \in BOOLEAN, Await(c, f, d, e)
      PROVE  WaitersAreKept'
  <2>1. at[c] = "user"
    BY <1>0, <1>1, RunningIsUser DEF Await, AddInterest
  <2>2. \A o \in Coroutine : handle[f][d] # o
    BY <1>0, <1>1, <2>1 DEF Await, AddInterest, Alone, Waiting
  <2>3. /\ handle' = [handle EXCEPT ![f][d] = c]
        /\ at' = [at EXCEPT ![c] = "waiting"] /\ wants' = [wants EXCEPT ![c] = <<f, d>>]
    BY <1>1 DEF Await, AddInterest, Suspend
  <2> SUFFICES ASSUME NEW o \in Coroutine, NEW g \in Fd, NEW k \in Dir
               PROVE  handle'[g][k] = o <=> at'[o] = "waiting" /\ wants'[o] = <<g, k>>
      OBVIOUS
  <2>4. handle'[g][k] = IF g = f /\ k = d THEN c ELSE handle[g][k]
    BY <1>0, <2>3 DEF TypeOK
  <2>5. /\ at'[o] = IF o = c THEN "waiting" ELSE at[o]
        /\ wants'[o] = IF o = c THEN <<f, d>> ELSE wants[o]
    BY <1>0, <2>3 DEF TypeOK
  <2>6. CASE o = c
    <3>1. handle[g][k] # c
      BY <1>0, <2>1
    <3> QED
      BY <2>4, <2>5, <2>6, <3>1
  <2>7. CASE o # c
    <3>1. ~ (at[o] = "waiting" /\ wants[o] = <<f, d>>)
      BY <1>0, <2>2
    <3> QED
      BY <1>0, <2>4, <2>5, <2>7, <3>1
  <2> QED
    BY <2>6, <2>7
<1>2. ASSUME NEW c \in Coroutine, Leave(c) PROVE WaitersAreKept'
  BY <1>0, <1>2, RunningIsUser DEF TypeOK, Leave
<1>3. ASSUME NEW c \in Coroutine, Enter(c) PROVE WaitersAreKept'
  BY <1>0, <1>3 DEF TypeOK, Enter
<1>4. ASSUME NEW c \in Coroutine, NEW f \in Fd, Close(c, f) PROVE WaitersAreKept'
  <2>1. at[c] = "user"
    BY <1>0, <1>4, RunningIsUser DEF Close
  <2>2. \A o \in Coroutine, d \in Dir : at[o] = "waiting" => wants[o] # <<f, d>>
    BY <1>4, <2>1 DEF Close, Alone, Waiting
  <2>3. handle' = [handle EXCEPT ![f] = NoHandles] /\ at' = at /\ wants' = wants
    BY <1>4 DEF Close
  <2> QED
    BY <1>0, <2>2, <2>3, ConstantsAssumption DEF TypeOK, NoHandles
<1>5. ASSUME NEW f \in Fd, Dispatch(f) PROVE WaitersAreKept'
  <2> DEFINE dirs == DirsOf(batch[f])
  <2>1. Take(f, dirs) /\ dirs \in SUBSET Dir
    BY <1>5, DirsOfIsDirs DEF Dispatch
  <2> HIDE DEF dirs
  <2> SUFFICES ASSUME NEW o \in Coroutine, NEW g \in Fd, NEW k \in Dir
               PROVE  handle'[g][k] = o <=> at'[o] = "waiting" /\ wants'[o] = <<g, k>>
      OBVIOUS
  <2>2. wants' = wants /\ at'[o] = IF \E d \in dirs : handle[f][d] = o THEN "taken" ELSE at[o]
    BY <2>1 DEF Take
  <2>3. handle'[g][k] = IF g = f /\ k \in dirs THEN NoCoroutine ELSE handle[g][k]
    BY <1>0, <2>1 DEF Take, TypeOK
  <2>4. CASE g = f /\ k \in dirs
    BY <1>0, <2>1, <2>2, <2>3, <2>4, ConstantsAssumption
  <2>5. CASE ~(g = f /\ k \in dirs)
    <3>1. handle[g][k] = o => \A d \in dirs : handle[f][d] # o
      BY <1>0, <2>1, <2>5
    <3> QED
      BY <1>0, <2>2, <2>3, <2>5, <3>1
  <2> QED
    BY <2>4, <2>5
<1>6. CASE Resume
  <2>1. Head(resume) \in Coroutine /\ at[Head(resume)] = "taken"
    BY <1>0, <1>6 DEF Resume, ResumeShape, TypeOK
  <2> QED
    BY <1>0, <1>6, <2>1 DEF Resume, TypeOK
<1>7. ASSUME UNCHANGED <<handle, at, wants>> PROVE WaitersAreKept'
  BY <1>0, <1>7
<1> QED
  BY <1>1, <1>2, <1>3, <1>4, <1>5, <1>6, <1>7
     DEF Next, CoroutineStep, LoopAdvances, BecomesReady, Drain, Open, EndPass,
         WaitReturns, WaitInterrupted, DispatchWakeup,
         NextIteration, vars

--------------------------------------------------------------------------------
LEMMA EpollStep == IInv /\ [Next]_vars => EpollAgrees'
<1> SUFFICES ASSUME IInv, [Next]_vars PROVE EpollAgrees'
    OBVIOUS
<1>0. TypeOK /\ EpollAgrees
  BY DEF IInv
<1> USE ConstantsAssumption DEF stateVars, coVars, loopVars, epollVars
<1>1. ASSUME NEW c \in Coroutine, NEW f \in Fd, NEW d \in Dir,
             NEW e \in BOOLEAN, Await(c, f, d, e)
      PROVE  EpollAgrees'
  <2>1. /\ known' = registered' /\ edge' = et'
        /\ known' = known \cup {f} /\ interest' = [interest EXCEPT ![f] = Dir]
        /\ handle' = [handle EXCEPT ![f][d] = c]
    BY <1>0, <1>1 DEF Await, AddInterest, Register, EpollAgrees
  <2>2. handle'[f][d] # NoCoroutine
    BY <1>0, <2>1 DEF TypeOK
  <2>3. \A g \in Fd \ {f} : handle'[g] = handle[g] /\ interest'[g] = interest[g]
    BY <1>0, <2>1 DEF TypeOK
  <2>4. interest'[f] = Dir
    BY <1>0, <2>1 DEF TypeOK
  <2> QED
    BY <1>0, <2>1, <2>2, <2>3, <2>4 DEF EpollAgrees
<1>2. ASSUME NEW c \in Coroutine, NEW f \in Fd, Close(c, f) PROVE EpollAgrees'
  BY <1>0, <1>2 DEF Close, Deregister, NoHandles, EpollAgrees, TypeOK
<1>3. ASSUME NEW f \in Fd, Dispatch(f) PROVE EpollAgrees'
  <2> DEFINE dirs == DirsOf(batch[f])
  <2>1. /\ Take(f, dirs) /\ UpdateOrRemove(f, dirs) /\ f \in known /\ dirs \in SUBSET Dir
    BY <1>3, DirsOfIsDirs DEF Dispatch
  <2> HIDE DEF dirs
  <2>2. /\ \A g \in Fd \ {f} : handle'[g] = handle[g]
        /\ \A d \in Dir : handle'[f][d] = IF d \in dirs THEN NoCoroutine ELSE handle[f][d]
    BY <1>0, <2>1 DEF Take, TypeOK
  <2>3. {d \in Dir : handle'[f][d] # NoCoroutine} = Left(f, dirs)
    BY <2>2 DEF Left
  <2>4. CASE Left(f, dirs) = {}
    <3>1. /\ known' = known \ {f} /\ edge' = edge \ {f}
          /\ registered' = registered \ {f} /\ et' = et \ {f}
          /\ interest' = [interest EXCEPT ![f] = {}]
      BY <2>1, <2>4 DEF UpdateOrRemove, Deregister
    <3> QED
      BY <1>0, <2>2, <2>3, <2>4, <3>1 DEF EpollAgrees, TypeOK
  <2>5. CASE Left(f, dirs) # {}
    <3>1. /\ known' = known /\ edge' = edge
          /\ registered' = registered /\ et' = et
          /\ interest' = [interest EXCEPT ![f] = Left(f, dirs)]
      BY <1>0, <2>1, <2>5 DEF UpdateOrRemove, Register, EpollAgrees
    <3>2. ASSUME NEW g \in Fd
          PROVE  /\ {d \in Dir : handle'[g][d] # NoCoroutine} \subseteq interest'[g]
                 /\ g \in known' <=> \E d \in Dir : handle'[g][d] # NoCoroutine
      <4>1. CASE g = f
        BY <1>0, <2>1, <2>3, <2>5, <3>1, <4>1 DEF TypeOK
      <4>2. CASE g # f
        BY <1>0, <2>2, <3>1, <4>2 DEF EpollAgrees, TypeOK
      <4> QED
        BY <4>1, <4>2
    <3> QED
      BY <1>0, <3>1, <3>2 DEF EpollAgrees
  <2> QED
    BY <2>4, <2>5
<1>4. ASSUME UNCHANGED <<known, edge, handle, registered, et, interest>>
      PROVE  EpollAgrees'
  BY <1>0, <1>4 DEF EpollAgrees
<1> QED
  BY <1>1, <1>2, <1>3, <1>4
     DEF Next, CoroutineStep, LoopAdvances, BecomesReady, Drain, Open, Leave, Enter,
         EndPass, WaitReturns, WaitInterrupted, DispatchWakeup,
         Resume, NextIteration, vars

--------------------------------------------------------------------------------
(* Whoever waits is in states_, and so registered for what it waits for.   *)
LEMMA WaiterIsRegistered ==
    ASSUME TypeOK, WaitersAreKept, EpollAgrees, NEW c \in Coroutine, NEW f \in Fd,
           NEW d \in Dir, at[c] = "waiting", wants[c] = <<f, d>>
    PROVE  f \in known /\ f \in registered /\ d \in interest[f] /\ handle[f][d] = c
BY ConstantsAssumption DEF WaitersAreKept, EpollAgrees

LEMMA EdgeStep == IInv /\ [Next]_vars => NoEdgeLost'
<1> SUFFICES ASSUME IInv, [Next]_vars,
                    NEW c \in Coroutine, NEW f \in Fd, NEW d \in Dir,
                    at'[c] = "waiting", wants'[c] = <<f, d>>, IsReady(f, d)'
             PROVE  f \in ready' \/ batch'[f] \cap {d, "err"} # {}
    BY DEF NoEdgeLost
<1>0. /\ TypeOK /\ StackShape /\ BatchShape /\ WaitersAreKept /\ EpollAgrees /\ NoEdgeLost
  BY DEF IInv, Shape
<1> USE DEF stateVars, coVars, loopVars, epollVars, IsReady
<1>a. ASSUME at[c] = "waiting", wants[c] = <<f, d>>, IsReady(f, d)
      PROVE  f \in ready \/ batch[f] \cap {d, "err"} # {}
  BY <1>0, <1>a DEF NoEdgeLost
<1>1. ASSUME NEW g \in Fd, NEW e \in Event, BecomesReady(g, e)
      PROVE  f \in ready' \/ batch'[f] \cap {d, "err"} # {}
  <2>1. f \in registered /\ d \in interest[f]
    BY <1>0, <1>1, WaiterIsRegistered DEF BecomesReady
  <2>2. CASE IsReady(f, d)
    BY <1>1, <1>a, <2>2 DEF BecomesReady
  <2>3. CASE ~IsReady(f, d)
    <3>1. g = f /\ e \in {d, "err"}
      BY <1>0, <1>1, <2>3 DEF TypeOK, BecomesReady
    <3> QED
      BY <1>1, <2>1, <3>1 DEF BecomesReady
  <2> QED
    BY <2>2, <2>3
<1>2. ASSUME NEW o \in Coroutine, NEW g \in Fd, NEW k \in Dir, Drain(o, g, k)
      PROVE  f \in ready' \/ batch'[f] \cap {d, "err"} # {}
  <2>1. IsReady(f, d)
    BY <1>0, <1>2 DEF TypeOK, Drain
  <2> QED
    BY <1>2, <1>a, <2>1 DEF Drain
<1>3. ASSUME NEW o \in Coroutine, NEW g \in Fd, NEW k \in Dir,
             NEW e \in BOOLEAN, Await(o, g, k, e)
      PROVE  f \in ready' \/ batch'[f] \cap {d, "err"} # {}
  <2>1. /\ at' = [at EXCEPT ![o] = "waiting"] /\ wants' = [wants EXCEPT ![o] = <<g, k>>]
        /\ cond' = cond /\ batch' = batch /\ Register(g, Dir, e)
    BY <1>3 DEF Await, AddInterest, Suspend
  <2>2. ready \subseteq ready' /\ (cond[g] \cap (Dir \cup {"err"}) # {} => g \in ready')
    BY <2>1 DEF Register
  <2>3. CASE c = o
    <3>1. f = g /\ d = k
      BY <1>0, <2>1, <2>3 DEF TypeOK
    <3> QED
      BY <2>1, <2>2, <3>1
  <2>4. CASE c # o
    BY <1>0, <1>a, <2>1, <2>2, <2>4 DEF TypeOK
  <2> QED
    BY <2>3, <2>4
<1>4. ASSUME NEW o \in Coroutine, NEW g \in Fd, Close(o, g)
      PROVE  f \in ready' \/ batch'[f] \cap {d, "err"} # {}
  <2>1. at[o] = "user" /\ at[c] = "waiting" /\ wants[c] = <<f, d>>
    BY <1>0, <1>4, RunningIsUser DEF Close
  <2>2. f # g
    BY <1>4, <2>1 DEF Close, Alone, Waiting
  <2>3. cond'[f] = cond[f]
    BY <1>0, <1>4, <2>2 DEF TypeOK, Close
  <2> QED
    BY <1>4, <1>a, <2>1, <2>2, <2>3 DEF Close, Deregister
<1>5. CASE WaitReturns
  <2>1. /\ at[c] = "waiting" /\ wants[c] = <<f, d>> /\ cond' = cond
        /\ f \in registered /\ d \in interest[f]
    BY <1>0, <1>5, WaiterIsRegistered DEF WaitReturns
  <2>2. f \in ready
    BY <1>0, <1>5, <1>a, <2>1 DEF WaitReturns, BatchShape
  <2>3. Reported(f) \cap {d, "err"} # {}
    BY <2>1, <2>2 DEF Reported
  <2> QED
    BY <1>5, <2>2, <2>3 DEF WaitReturns
<1>6. ASSUME NEW g \in Fd, Dispatch(g)
      PROVE  f \in ready' \/ batch'[f] \cap {d, "err"} # {}
  <2> DEFINE dirs == DirsOf(batch[g])
  <2>1. Take(g, dirs) /\ UpdateOrRemove(g, dirs) /\ dirs \in SUBSET Dir
    BY <1>6, DirsOfIsDirs DEF Dispatch
  <2>2. /\ batch' = [batch EXCEPT ![g] = {}] /\ cond' = cond /\ wants' = wants
        /\ at[c] = "waiting" /\ \A k \in dirs : handle[g][k] # c
    <3> HIDE DEF dirs
    <3> QED
      BY <1>0, <2>1 DEF Take, TypeOK
  <2>3. f \in known /\ handle[f][d] = c
    BY <1>0, <2>2, WaiterIsRegistered
  <2>4. f \in ready \/ batch[f] \cap {d, "err"} # {}
    BY <1>a, <2>2
  <2>5. CASE f # g
    <3>1. f \in ready => f \in ready'
      BY <2>1, <2>5 DEF UpdateOrRemove, Register, Deregister
    <3>2. batch'[f] = batch[f]
      BY <1>0, <2>2, <2>5 DEF TypeOK
    <3> QED
      BY <2>4, <3>1, <3>2
  <2>6. CASE f = g
    <3>1. d \notin dirs
      BY <2>2, <2>3, <2>6
    <3>2. f \in ready
      BY <2>4, <2>6, <3>1 DEF DirsOf
    <3>3. d \in Left(g, dirs)
      BY <2>3, <2>6, <3>1, ConstantsAssumption DEF Left
    <3>4. Register(g, Left(g, dirs), g \in edge)
      BY <2>1, <3>3 DEF UpdateOrRemove
    <3> QED
      BY <3>2, <3>4 DEF Register
  <2> QED
    BY <2>5, <2>6
<1>7. ASSUME NEW o \in Coroutine, Leave(o) \/ Enter(o)
      PROVE  f \in ready' \/ batch'[f] \cap {d, "err"} # {}
  BY <1>0, <1>7, <1>a DEF Leave, Enter, TypeOK
<1>8. CASE Resume
  <2>1. Head(resume) \in Coroutine
    BY <1>0, <1>8 DEF Resume, TypeOK
  <2> QED
    BY <1>0, <1>8, <1>a, <2>1 DEF Resume, TypeOK
<1>9. ASSUME UNCHANGED <<at, wants, cond, ready, batch>>
       PROVE  f \in ready' \/ batch'[f] \cap {d, "err"} # {}
  BY <1>9, <1>a
<1> QED
  BY <1>1, <1>2, <1>3, <1>4, <1>5, <1>6, <1>7, <1>8, <1>9
     DEF Next, CoroutineStep, LoopAdvances, Open, EndPass, WaitInterrupted,
         DispatchWakeup, NextIteration, vars

--------------------------------------------------------------------------------
LEMMA StepIInv == IInv /\ [Next]_vars => IInv'
BY TypeStep, ShapeStep, WaitersStep, EpollStep, EdgeStep DEF IInv

LEMMA Invariance == Spec => []IInv
BY InitIInv, StepIInv, PTL DEF Spec

(* Every variable of the reactor and of the kernel keeps its type.         *)
THEOREM TypeCorrect == Spec => []TypeOK
BY Invariance, PTL DEF IInv

(* No suspended coroutine is dropped from states_, and none is resumed     *)
(* twice, by batches, nested spawns, re-registration or reused numbers.    *)
THEOREM NoCoroutineForgotten == Spec => []WaitersAreKept
BY Invariance, PTL DEF IInv

(* After every step, dispatch() in particular, states_ and the epoll set   *)
(* hold the same descriptors, and no awaited direction is unregistered.    *)
THEOREM StatesMatchEpoll == Spec => []EpollAgrees
BY Invariance, PTL DEF IInv

(* One-shot registration loses no event, edge-triggered or not: EPOLL_CTL  *)
(* looks at the descriptor again, and dispatch() takes from an event       *)
(* everyone it is for.                                                     *)
THEOREM EdgesAreNotLost == Spec => []NoEdgeLost
BY Invariance, PTL DEF IInv

--------------------------------------------------------------------------------
(* Between its harvest and its dispatch an event belongs to a descriptor   *)
(* somebody waits for.  If nobody else uses that descriptor, what the      *)
(* event says stays true until the coroutine it resumes runs.              *)
Harvest ==
    /\ \A f \in Fd : batch[f] # {} => f \in known
    /\ \A f \in Exclusive : batch[f] \subseteq cond[f]
    /\ \A c \in Coroutine : at[c] = "taken" =>
           \E f \in Fd, d \in Dir :
               wants[c] = <<f, d>> /\ (f \in Exclusive => IsReady(f, d))

(* No coroutine can take away what a harvested event has reported to       *)
(* another, nor close the descriptor.                                      *)
LEMMA HarvestIsKept ==
    ASSUME IInv, Harvest, NEW c \in Coroutine, Runs(c), NEW f \in Fd,
           \/ f \in Exclusive /\ \E d \in Dir : Alone(c, f, d)
           \/ \A d \in Dir : Alone(c, f, d)
    PROVE  /\ batch[f] = {}
           /\ \A o \in Coroutine, d \in Dir : at[o] = "taken" => wants[o] # <<f, d>>
<1>0. at[c] = "user"
  BY RunningIsUser DEF IInv, Shape
<1>1. \A o \in Coroutine, d \in Dir : Waiting(o) => wants[o] # <<f, d>>
  BY <1>0 DEF Alone, Waiting
<1>2. f \notin known
  <2> SUFFICES ASSUME f \in known PROVE FALSE
      OBVIOUS
  <2>1. PICK d \in Dir : handle[f][d] # NoCoroutine
    BY DEF IInv, EpollAgrees
  <2>2. PICK o \in Coroutine : handle[f][d] = o
    BY <2>1 DEF IInv, TypeOK
  <2> QED
    BY <1>1, <2>2 DEF IInv, WaitersAreKept, Waiting
<1> QED
  BY <1>1, <1>2 DEF Harvest, Waiting

LEMMA HarvestStep == IInv /\ Harvest /\ [Next]_vars => Harvest'
<1> SUFFICES ASSUME IInv, Harvest, [Next]_vars PROVE Harvest'
    OBVIOUS
<1>0. /\ TypeOK /\ StackShape /\ ResumeShape /\ WaitersAreKept /\ EpollAgrees
      /\ Exclusive \subseteq Fd
  BY ConstantsAssumption DEF IInv, Shape
<1> USE DEF stateVars, coVars, loopVars, epollVars, IsReady
<1>1. ASSUME NEW f \in Fd, NEW e \in Event, BecomesReady(f, e) PROVE Harvest'
  <2>1. \A g \in Fd : cond[g] \subseteq cond'[g]
    BY <1>0, <1>1 DEF TypeOK, BecomesReady
  <2> QED
    BY <1>0, <1>1, <2>1 DEF Harvest, BecomesReady
<1>2. ASSUME NEW c \in Coroutine, NEW f \in Fd, NEW d \in Dir, Drain(c, f, d)
      PROVE  Harvest'
  <2>1. /\ Runs(c) /\ Alone(c, f, d) /\ cond' = [cond EXCEPT ![f] = @ \ {d}]
        /\ UNCHANGED <<batch, known, at, wants>>
    BY <1>2 DEF Drain
  <2>2. \A g \in Fd : g # f => cond'[g] = cond[g]
    BY <1>0, <2>1 DEF TypeOK
  <2>3. f \in Exclusive =>
            /\ batch[f] = {}
            /\ \A o \in Coroutine, k \in Dir : at[o] = "taken" => wants[o] # <<f, k>>
    BY <2>1, HarvestIsKept
  <2> QED
    BY <1>0, <2>1, <2>2, <2>3 DEF Harvest
<1>3. ASSUME NEW c \in Coroutine, NEW f \in Fd, NEW d \in Dir,
             NEW e \in BOOLEAN, Await(c, f, d, e)
      PROVE  Harvest'
  BY <1>0, <1>3 DEF Harvest, TypeOK, Await, AddInterest, Suspend
<1>4. ASSUME NEW c \in Coroutine, Leave(c) \/ Enter(c) PROVE Harvest'
  BY <1>0, <1>4 DEF Harvest, TypeOK, Leave, Enter
<1>5. ASSUME NEW c \in Coroutine, NEW f \in Fd, Close(c, f) PROVE Harvest'
  <2>1. /\ known' = known \ {f} /\ cond' = [cond EXCEPT ![f] = {}]
        /\ UNCHANGED <<batch, at, wants>>
    BY <1>5 DEF Close
  <2>2. /\ batch[f] = {}
        /\ \A o \in Coroutine, d \in Dir : at[o] = "taken" => wants[o] # <<f, d>>
    BY <1>5, HarvestIsKept DEF Close
  <2>3. \A g \in Fd : g # f => cond'[g] = cond[g]
    BY <1>0, <2>1 DEF TypeOK
  <2> QED
    BY <1>0, <2>1, <2>2, <2>3 DEF Harvest
<1>6. CASE WaitReturns
  <2>1. \A f \in Fd : batch'[f] # {} => batch'[f] = Reported(f)
    BY <1>6 DEF WaitReturns
  <2>2. \A f \in Fd : batch'[f] \subseteq cond[f] /\ (batch'[f] # {} => f \in known)
    BY <1>0, <2>1 DEF Reported, TypeOK, EpollAgrees
  <2> QED
    BY <1>0, <1>6, <2>2 DEF Harvest, WaitReturns
<1>7. ASSUME NEW f \in Fd, Dispatch(f) PROVE Harvest'
  <2> DEFINE dirs == DirsOf(batch[f])
  <2>1. /\ Take(f, dirs) /\ UpdateOrRemove(f, dirs) /\ dirs \in SUBSET Dir
        /\ \A d \in dirs : batch[f] \cap {d, "err"} # {}
    BY <1>7, DirsOfIsDirs DEF Dispatch, DirsOf
  <2> HIDE DEF dirs
  <2>2. /\ batch'[f] = {} /\ cond' = cond /\ wants' = wants
        /\ \A g \in Fd : g # f => batch'[g] = batch[g]
        /\ \A c \in Coroutine :
              at'[c] = IF \E d \in dirs : handle[f][d] = c THEN "taken" ELSE at[c]
    BY <1>0, <2>1 DEF Take, TypeOK
  <2>3. \A g \in Fd : g # f /\ g \in known => g \in known'
    BY <2>1 DEF UpdateOrRemove
  <2>4. ASSUME NEW c \in Coroutine, at'[c] = "taken"
        PROVE  \E g \in Fd, d \in Dir :
                   wants'[c] = <<g, d>> /\ (g \in Exclusive => IsReady(g, d)')
    <3>1. CASE \E d \in dirs : handle[f][d] = c
      <4>1. PICK d \in dirs : handle[f][d] = c
        BY <3>1
      <4>2. d \in Dir /\ wants[c] = <<f, d>>
        BY <1>0, <2>1, <4>1 DEF WaitersAreKept
      <4>3. f \in Exclusive => cond[f] \cap {d, "err"} # {}
        BY <2>1 DEF Harvest
      <4> QED
        BY <2>2, <4>2, <4>3
    <3>2. CASE ~ \E d \in dirs : handle[f][d] = c
      BY <2>2, <2>4, <3>2 DEF Harvest
    <3> QED
      BY <3>1, <3>2
  <2>5. \A g \in Exclusive : batch'[g] \subseteq cond'[g]
    BY <1>0, <2>2 DEF Harvest
  <2>6. \A g \in Fd : batch'[g] # {} => g \in known'
    BY <2>2, <2>3 DEF Harvest
  <2> QED
    BY <2>4, <2>5, <2>6 DEF Harvest
<1>8. CASE Resume
  <2>1. Head(resume) \in Coroutine
    BY <1>0, <1>8 DEF Resume, TypeOK
  <2> QED
    BY <1>0, <1>8, <2>1 DEF Harvest, Resume, TypeOK
<1>9. ASSUME UNCHANGED <<batch, known, cond, at, wants>> PROVE Harvest'
  BY <1>9 DEF Harvest
<1> QED
  BY <1>1, <1>2, <1>3, <1>4, <1>5, <1>6, <1>7, <1>8, <1>9
     DEF Next, CoroutineStep, LoopAdvances, Open, EndPass, WaitInterrupted,
         DispatchWakeup, NextIteration, vars

LEMMA HarvestSuffices == IInv /\ Harvest => ResumeMeansReady
<1> SUFFICES ASSUME IInv, Harvest, resume # <<>>
             PROVE  \E f \in Fd, d \in Dir :
                        /\ wants[Head(resume)] = <<f, d>>
                        /\ f \in Exclusive => IsReady(f, d)
    BY DEF ResumeMeansReady
<1>1. Head(resume) = resume[1] /\ 1 \in DOMAIN resume /\ Head(resume) \in Coroutine
  BY DEF IInv, TypeOK
<1>2. at[Head(resume)] = "taken"
  BY <1>1 DEF IInv, Shape, ResumeShape
<1> QED
  BY <1>1, <1>2 DEF Harvest

(* A coroutine that has its descriptor for itself is resumed only if the   *)
(* descriptor is ready, however late its event is dispatched, and whatever *)
(* numbers are closed and reused before.                                   *)
THEOREM NoSpuriousResume == Spec => []ResumeMeansReady
<1>1. Init => Harvest
  BY ConstantsAssumption DEF Init, IdleLoop, Harvest
<1> QED
  BY <1>1, HarvestSuffices, Invariance, HarvestStep, PTL DEF Spec

--------------------------------------------------------------------------------
(* For the servers that are built on the reactor (TcpEcho).  They start    *)
(* with a coroutine that runs, take several steps of the reactor at once,  *)
(* and close several descriptors, but use none that another coroutine      *)
(* waits for.                                                              *)

Free(f) == \A c \in Coroutine, d \in Dir : Waiting(c) => wants[c] # <<f, d>>

LoopInv == IInv /\ Harvest

LEMMA LoopInvStep == LoopInv /\ [Next]_vars => LoopInv'
BY StepIInv, HarvestStep DEF LoopInv

LEMMA IdleIInv ==
    ASSUME IdleLoop, open \in SUBSET Fd, cond \in [Fd -> SUBSET Event],
           stack \in Seq(Coroutine), at \in [Coroutine -> {"away", "user"}], StackShape
    PROVE  IInv /\ Harvest
<1> USE ConstantsAssumption DEF IdleLoop, NoHandles
<1>1. <<>> \in Seq(Coroutine) /\ DOMAIN <<>> = {}
  BY EmptySeq
<1>2. TypeOK
  BY <1>1 DEF TypeOK, Dir, Event
<1>3. Shape
  BY <1>1 DEF Shape, ResumeShape, BatchShape
<1>4. WaitersAreKept /\ NoEdgeLost
  BY DEF WaitersAreKept, NoEdgeLost
<1>5. EpollAgrees
  BY DEF EpollAgrees
<1>6. Harvest
  BY DEF Harvest
<1> QED  BY <1>2, <1>3, <1>4, <1>5, <1>6 DEF IInv

(* Nothing is left anywhere of a descriptor nobody waits for.              *)
LEMMA FreeIsForgotten ==
    ASSUME IInv, Harvest, NEW f \in Fd, Free(f)
    PROVE  /\ f \notin known /\ f \notin registered /\ batch[f] = {}
           /\ \A d \in Dir : handle[f][d] = NoCoroutine
<1>1. \A d \in Dir : handle[f][d] = NoCoroutine
  <2> SUFFICES ASSUME NEW d \in Dir, handle[f][d] # NoCoroutine
               PROVE  FALSE
    OBVIOUS
  <2>1. PICK c \in Coroutine : handle[f][d] = c
    BY DEF IInv, TypeOK
  <2> QED  BY <2>1 DEF IInv, WaitersAreKept, Free, Waiting
<1>2. f \notin known /\ f \notin registered
  BY <1>1 DEF IInv, EpollAgrees
<1> QED  BY <1>1, <1>2 DEF Harvest

(* accept, recv and send: the readiness of descriptors nobody waits for    *)
(* changes, and there may be new ones.                                     *)
LEMMA FreeReadinessStep ==
    ASSUME IInv, Harvest, UNCHANGED <<stateVars, epollVars, coVars, loopVars, resume>>,
           open \subseteq open', open' \in SUBSET Fd, cond' \in [Fd -> SUBSET Event],
           \A f \in Fd : Free(f) \/ cond'[f] = cond[f]
    PROVE  IInv' /\ Harvest'
<1> USE DEF stateVars, epollVars, coVars, loopVars
<1>1. TypeOK'
  BY DEF IInv, TypeOK
<1>2. Shape' /\ WaitersAreKept' /\ EpollAgrees'
  BY DEF IInv, Shape, StackShape, ResumeShape, BatchShape, WaitersAreKept, EpollAgrees
<1>3. NoEdgeLost'
  BY DEF IInv, NoEdgeLost, IsReady, Free, Waiting
<1>4. Harvest'
  <2>1. \A f \in Exclusive : batch'[f] \subseteq cond'[f]
    BY FreeIsForgotten, ConstantsAssumption DEF Harvest
  <2>2. ASSUME NEW c \in Coroutine, at[c] = "taken"
        PROVE  \E f \in Fd, d \in Dir :
                   wants[c] = <<f, d>> /\ (f \in Exclusive => IsReady(f, d)')
    BY <2>2 DEF Harvest, IsReady, Free, Waiting
  <2> QED  BY <2>1, <2>2 DEF Harvest
<1> QED  BY <1>1, <1>2, <1>3, <1>4 DEF IInv

(* remove() and ::close() of all of S.                                     *)
Closes(S) ==
    /\ open' = open \ S
    /\ cond' = [f \in Fd |-> IF f \in S THEN {} ELSE cond[f]]
    /\ known' = known \ S /\ edge' = edge \ S
    /\ handle' = [f \in Fd |-> IF f \in S THEN NoHandles ELSE handle[f]]
    /\ registered' = registered \ S /\ et' = et \ S /\ ready' = ready \ S
    /\ interest' = [f \in Fd |-> IF f \in S THEN {} ELSE interest[f]]

LEMMA ClosesStep ==
    ASSUME IInv, Harvest, NEW S \in SUBSET Fd, Closes(S), \A f \in S : Free(f),
           UNCHANGED <<wants, batch, wake, resume>>,
           lpc' \in {"top", "mid", "wait", "dispatch"}, Shape',
           stack' \in Seq(Coroutine), at' \in [Coroutine -> {"away", "user", "waiting", "taken"}],
           \A c \in Coroutine : at'[c] = at[c] \/ (at[c] = "user" /\ at'[c] = "away")
    PROVE  IInv' /\ Harvest'
<1>0. /\ TypeOK /\ WaitersAreKept /\ EpollAgrees /\ NoEdgeLost
      /\ \A f \in S : f \notin known /\ batch[f] = {}
                     /\ \A d \in Dir : handle[f][d] = NoCoroutine
      /\ \A c \in Coroutine : Waiting(c)' => at'[c] = at[c] /\ Waiting(c)
      /\ \A c \in Coroutine, f \in S, d \in Dir : Waiting(c) => wants[c] # <<f, d>>
  BY FreeIsForgotten DEF IInv, Free, Waiting
<1>1. \A f \in Fd : handle'[f] = handle[f]
  BY <1>0 DEF Closes, NoHandles, TypeOK
<1>2. TypeOK'
  BY <1>0, <1>1 DEF TypeOK, Closes
<1>3. WaitersAreKept'
  BY <1>0, <1>1 DEF WaitersAreKept, Waiting
<1>4. EpollAgrees'
  BY <1>0, <1>1 DEF EpollAgrees, Closes
<1>5. NoEdgeLost'
  <2> SUFFICES ASSUME NEW c \in Coroutine, NEW f \in Fd, NEW d \in Dir,
                      at'[c] = "waiting", wants[c] = <<f, d>>, IsReady(f, d)'
               PROVE  f \in ready' \/ batch[f] \cap {d, "err"} # {}
    BY DEF NoEdgeLost
  <2>1. at[c] = "waiting" /\ f \notin S
    BY <1>0 DEF Waiting
  <2>2. cond'[f] = cond[f] /\ (f \in ready => f \in ready')
    BY <2>1 DEF Closes
  <2> QED  BY <1>0, <2>1, <2>2 DEF NoEdgeLost, IsReady
<1>6. Harvest'
  <2>1. \A f \in Fd : batch'[f] # {} => f \in known'
    BY <1>0 DEF Harvest, Closes
  <2>2. \A f \in Exclusive : batch'[f] \subseteq cond'[f]
    BY <1>0, ConstantsAssumption DEF Harvest, Closes
  <2>3. ASSUME NEW c \in Coroutine, at'[c] = "taken"
        PROVE  \E f \in Fd, d \in Dir :
                   wants'[c] = <<f, d>> /\ (f \in Exclusive => IsReady(f, d)')
    <3>1. at[c] = "taken" /\ Waiting(c)
      BY <2>3, <1>0 DEF Waiting
    <3>2. PICK f \in Fd, d \in Dir : wants[c] = <<f, d>> /\ (f \in Exclusive => IsReady(f, d))
      BY <3>1 DEF Harvest
    <3>3. f \notin S
      BY <3>1, <3>2, <1>0
    <3> QED  BY <3>2, <3>3 DEF IsReady, Closes
  <2> QED  BY <2>1, <2>2, <2>3 DEF Harvest
<1> QED  BY <1>2, <1>3, <1>4, <1>5, <1>6 DEF IInv

(* run() suspends no coroutine, and resumes only those that wait.          *)
LEMMA LoopOnlyResumes ==
    ASSUME IInv, Resume \/ DispatchWakeup \/ NextIteration \/ WaitReturns
                     \/ \E f \in Fd : Dispatch(f)
    PROVE  /\ open' = open
           /\ \A c \in Coroutine :
                  /\ at'[c] # "away" => at[c] # "away"
                  /\ Waiting(c)' => Waiting(c) /\ wants'[c] = wants[c]
           /\ stack' = stack \/ stack = <<>>
<1>0. TypeOK /\ WaitersAreKept
  BY DEF IInv
<1>1. CASE Resume
  <2>1. Head(resume) \in Coroutine /\ resume[1] = Head(resume) /\ 1 \in DOMAIN resume
    BY <1>0, <1>1 DEF Resume, TypeOK
  <2>2. at[Head(resume)] = "taken"
    BY <2>1 DEF IInv, Shape, ResumeShape
  <2> QED  BY <1>0, <1>1, <2>1, <2>2 DEF Resume, TypeOK, Suspended, Waiting
<1>2. CASE DispatchWakeup \/ NextIteration \/ WaitReturns
  BY <1>2 DEF DispatchWakeup, NextIteration, WaitReturns, coVars, Waiting
<1>3. ASSUME NEW f \in Fd, Dispatch(f)
      PROVE  /\ open' = open
             /\ \A c \in Coroutine :
                    /\ at'[c] # "away" => at[c] # "away"
                    /\ Waiting(c)' => Waiting(c) /\ wants'[c] = wants[c]
             /\ stack' = stack \/ stack = <<>>
  <2> DEFINE dirs == DirsOf(batch[f])
  <2>1. Take(f, dirs) /\ dirs \in SUBSET Dir
    BY <1>3, DirsOfIsDirs DEF Dispatch
  <2> HIDE DEF dirs
  <2>2. ASSUME NEW c \in Coroutine
        PROVE  at'[c] = at[c] \/ (at[c] = "waiting" /\ at'[c] = "taken")
    BY <1>0, <2>1 DEF Take, WaitersAreKept
  <2>3. open' = open /\ wants' = wants /\ stack' = stack
    BY <2>1 DEF Take
  <2> QED  BY <2>2, <2>3 DEF Waiting
<1> QED  BY <1>1, <1>2, <1>3

(* A coroutine that runs or will run on when what it has spawned suspends. *)
OnStack(c) == \E i \in DOMAIN stack : stack[i] = c

LEMMA PushKeeps ==
    ASSUME stack \in Seq(Coroutine), NEW c \in Coroutine, stack' = <<c>> \o stack
    PROVE  \A o \in Coroutine : OnStack(o) => OnStack(o)'
<1>1. /\ DOMAIN stack' = 1 .. Len(stack) + 1 /\ DOMAIN stack = 1 .. Len(stack)
      /\ Len(stack) \in Nat
      /\ \A i \in DOMAIN stack : stack'[i + 1] = stack[i]
  OBVIOUS
<1>2. \A i \in DOMAIN stack : i + 1 \in DOMAIN stack'
  BY <1>1
<1> QED  BY <1>1, <1>2 DEF OnStack

LEMMA PopKeeps ==
    ASSUME stack \in Seq(Coroutine), NEW c \in Coroutine, Runs(c), stack' = Tail(stack)
    PROVE  \A o \in Coroutine \ {c} : OnStack(o) => OnStack(o)'
<1>1. /\ stack # <<>> /\ stack[1] = c
      /\ Len(Tail(stack)) = Len(stack) - 1 /\ Tail(stack) \in Seq(Coroutine)
      /\ \A i \in 1 .. Len(Tail(stack)) : Tail(stack)[i] = stack[i + 1]
  BY HeadTailProperties DEF Runs
<1>2. DOMAIN stack = 1 .. Len(stack) /\ DOMAIN stack' = 1 .. Len(stack) - 1 /\ Len(stack) \in Nat
  BY <1>1
<1>3. \A i \in DOMAIN stack : i # 1 => i - 1 \in DOMAIN stack' /\ stack'[i - 1] = stack[i]
  BY <1>1, <1>2
<1> QED  BY <1>1, <1>3 DEF OnStack

--------------------------------------------------------------------------------
(* For the byte streams of TcpEcho and Proxy: byte i is the number i.      *)
Bytes(n) == [i \in 1 .. n |-> i]

(* What recv() returns after the first r bytes.                            *)
BytesAfter(r, n) == [i \in 1 .. n |-> r + i]

LEMMA NatsAssociative == \A s, t, u \in Seq(Nat) : (s \o t) \o u = s \o (t \o u)
BY ConcatAssociative

(* recv() puts the next n bytes behind those that are in the buffer.       *)
LEMMA Received ==
    ASSUME NEW s \in Seq(Nat), NEW b \in Seq(Nat), NEW r \in Nat, NEW n \in Nat,
           s \o b = Bytes(r)
    PROVE  /\ b \o BytesAfter(r, n) \in Seq(Nat)
           /\ s \o (b \o BytesAfter(r, n)) = Bytes(r + n)
<1> DEFINE more == BytesAfter(r, n)
<1>1. more \in Seq(Nat) /\ Len(more) = n /\ \A i \in 1 .. n : more[i] = r + i
  BY DEF BytesAfter
<1> HIDE DEF more
<1>2. s \o (b \o more) = Bytes(r) \o more
  <2>1. (s \o b) \o more = s \o (b \o more)
    BY <1>1, NatsAssociative, Zenon
  <2> QED  BY <2>1
<1>3. Bytes(r) \in Seq(Nat) /\ Len(Bytes(r)) = r
  BY DEF Bytes
<1>4. Bytes(r) \o more \in Seq(Nat) /\ Len(Bytes(r) \o more) = r + n
  BY <1>1, <1>3
<1>5. Bytes(r + n) \in Seq(Nat) /\ Len(Bytes(r + n)) = r + n
  BY DEF Bytes
<1>6. ASSUME NEW i \in 1 .. r + n
      PROVE  (Bytes(r) \o more)[i] = Bytes(r + n)[i]
  <2>1. Bytes(r + n)[i] = i
    BY DEF Bytes
  <2>2. CASE i <= r
    BY <1>1, <1>3, <2>1, <2>2 DEF Bytes
  <2>3. CASE i > r
    <3>1. (Bytes(r) \o more)[i] = more[i - r] /\ i - r \in 1 .. n
      BY <1>1, <1>3, <2>3
    <3> QED  BY <1>1, <2>1, <3>1
  <2>4. i <= r \/ i > r
    OBVIOUS
  <2> QED  BY <2>2, <2>3, <2>4, Zenon
<1>7. Bytes(r) \o more = Bytes(r + n)
  <2>1. \A i \in 1 .. Len(Bytes(r) \o more) : (Bytes(r) \o more)[i] = Bytes(r + n)[i]
    BY <1>4, <1>6
  <2> QED  BY <1>4, <1>5, <2>1, SeqEqual
<1> QED  BY <1>1, <1>2, <1>7 DEF more

(* send() takes n bytes from the front of the buffer.                      *)
LEMMA Sent ==
    ASSUME NEW s \in Seq(Nat), NEW b \in Seq(Nat), NEW n \in 0 .. Len(b)
    PROVE  /\ s \o SubSeq(b, 1, n) \in Seq(Nat)
           /\ SubSeq(b, n + 1, Len(b)) \in Seq(Nat)
           /\ (s \o SubSeq(b, 1, n)) \o SubSeq(b, n + 1, Len(b)) = s \o b
           /\ n = Len(b) => SubSeq(b, n + 1, Len(b)) = <<>>
<1> DEFINE front == SubSeq(b, 1, n)
           rest == SubSeq(b, n + 1, Len(b))
<1>0. Len(b) \in Nat /\ n \in Nat /\ n <= Len(b) /\ DOMAIN b = 1 .. Len(b)
  BY LenProperties
<1>1. front \in Seq(Nat) /\ rest \in Seq(Nat)
  BY <1>0
<1>2. front \o rest = b
  <2>1. /\ 1 \in 1 .. Len(b) + 1 /\ n \in 1 - 1 .. Len(b) /\ Len(b) \in n .. Len(b)
    BY <1>0
  <2>2. front \o rest = SubSeq(b, 1, Len(b))
    BY <2>1, ConcatAdjacentSubSeq
  <2> QED  BY <2>2, SubSeqFull
<1>3. n = Len(b) => rest = <<>>
  BY <1>0, SubSeqEmpty
<1> HIDE DEF front, rest
<1>4. (s \o front) \o rest = s \o b /\ s \o front \in Seq(Nat)
  <2>1. (s \o front) \o rest = s \o (front \o rest)
    BY <1>1, NatsAssociative, Zenon
  <2> QED  BY <1>1, <1>2, <2>1
<1> QED  BY <1>1, <1>3, <1>4 DEF front, rest
================================================================================
