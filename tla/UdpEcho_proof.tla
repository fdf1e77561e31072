----------------------------- MODULE UdpEcho_proof -----------------------------
(***************************************************************************)
(* The UDP echo servers, for any number of datagrams and handlers: every   *)
(* datagram is accounted for and none is answered twice, whatever recvfrom *)
(* and sendto return, and the sequential server echoes what it has         *)
(* received, although it receives everything into one buffer.              *)
(***************************************************************************)
EXTENDS UdpEcho, SequenceTheorems, TLAPS

Reply == [to : Datagram, payload : Datagram]

UdpTypeOK ==
    /\ batched \in BOOLEAN
    /\ pc \in [Coroutine -> {"recv", "spawn", "submit", "idle", "pool", "send", "done"}]
    /\ buffer \subseteq Datagram
    /\ results \in Seq(Datagram)
    /\ job \in [Coroutine -> SUBSET Reply]
    /\ arrived \subseteq Datagram
    /\ queue \in Seq(Datagram)
    /\ replies \in Seq(Reply)
    /\ stopped \in BOOLEAN
    /\ dropped \subseteq Datagram

(* A coroutine has a datagram to echo from the time it is handed one until *)
(* it has sent the reply, and it is one datagram.                          *)
Jobs ==
    /\ \A c \in Coroutine : pc[c] \notin {"pool", "send"} => job[c] = {}
    /\ \A c \in Coroutine : \A r, s \in job[c] : r.to = s.to
    /\ results # <<>> => buffer # {}
    /\ pc[Loop] = "submit" => results # <<>>

Single(S) == \E x \in S : S = {x}

(* P is the place of a datagram, and Q to T are not.                       *)
Exactly(P, Q, R, S, T) == Single(P) /\ Q = {} /\ R = {} /\ S = {} /\ T = {}

GivenUp(d) == dropped \cap {d}

Somewhere(d) ==
    \/ Exactly(Indices(queue, d), Indices(results, d), Echoing(d), Answers(d), GivenUp(d))
    \/ Exactly(Indices(results, d), Indices(queue, d), Echoing(d), Answers(d), GivenUp(d))
    \/ Exactly(Echoing(d), Indices(queue, d), Indices(results, d), Answers(d), GivenUp(d))
    \/ Exactly(Answers(d), Indices(queue, d), Indices(results, d), Echoing(d), GivenUp(d))
    \/ Exactly(GivenUp(d), Indices(queue, d), Indices(results, d), Echoing(d), Answers(d))

Nowhere(d) ==
    /\ Indices(queue, d) = {} /\ Indices(results, d) = {}
    /\ Echoing(d) = {} /\ Answers(d) = {} /\ GivenUp(d) = {}

Placed ==
    \A d \in Datagram : IF d \in arrived THEN Somewhere(d) ELSE Nowhere(d)

(* The sequential server has received a datagram only in "submit", and it  *)
(* is the one in the buffer.                                               *)
OneAtATime ==
    ~batched =>
        /\ \/ pc[Loop] = "submit" /\ \E d \in Datagram : results = <<d>> /\ buffer = {d}
           \/ pc[Loop] \in {"recv", "pool", "send", "done"} /\ results = <<>>
        /\ \A c \in Coroutine : \A r \in job[c] : r.payload = r.to

UdpInv == UdpTypeOK /\ Jobs /\ Placed /\ OneAtATime /\ LoopEchoIsFaithful

LEMMA InitUdpInv == UdpInit => UdpInv
<1> SUFFICES ASSUME UdpInit PROVE UdpInv
    OBVIOUS
<1> USE DEF UdpInit
<1>1. <<>> \in Seq(Datagram) /\ <<>> \in Seq(Reply) /\ DOMAIN <<>> = {}
  BY EmptySeq
<1>2. UdpTypeOK /\ Jobs
  BY <1>1, UdpAssumption DEF UdpTypeOK, Jobs
<1>3. Placed
  BY <1>1 DEF Placed, Nowhere, Indices, Echoing, Answers, GivenUp
<1>4. OneAtATime /\ LoopEchoIsFaithful
  BY <1>1, UdpAssumption DEF OneAtATime, LoopEchoIsFaithful, EchoIsFaithful
<1> QED  BY <1>2, <1>3, <1>4 DEF UdpInv

--------------------------------------------------------------------------------
(* What queueing and dequeueing do to the places of a datagram.            *)

LEMMA Queued ==
    ASSUME NEW S, NEW s \in Seq(S), NEW e \in S, NEW d
    PROVE  /\ d = e => Indices(Append(s, e), d) = Indices(s, d) \cup {Len(s) + 1}
           /\ d # e => Indices(Append(s, e), d) = Indices(s, d)
<1>1. /\ DOMAIN Append(s, e) = 1 .. Len(s) + 1 /\ DOMAIN s = 1 .. Len(s) /\ Len(s) \in Nat
      /\ \A i \in 1 .. Len(s) : Append(s, e)[i] = s[i]
      /\ Append(s, e)[Len(s) + 1] = e
  OBVIOUS
<1>2. \A i : i \in 1 .. Len(s) + 1 <=> i \in 1 .. Len(s) \/ i = Len(s) + 1
  BY <1>1
<1> QED  BY <1>1, <1>2 DEF Indices

LEMMA Dequeued ==
    ASSUME NEW S, NEW s \in Seq(S), s # <<>>, NEW d
    PROVE  /\ d = Head(s) => /\ Indices(s, d) # {}
                             /\ Single(Indices(s, d)) => Indices(Tail(s), d) = {}
           /\ d # Head(s) => /\ Indices(s, d) = {} => Indices(Tail(s), d) = {}
                             /\ Single(Indices(s, d)) => Single(Indices(Tail(s), d))
<1>1. /\ DOMAIN s = 1 .. Len(s) /\ DOMAIN Tail(s) = 1 .. Len(s) - 1 /\ Len(s) \in Nat \ {0}
      /\ \A i \in 1 .. Len(s) - 1 : Tail(s)[i] = s[i + 1]
      /\ Head(s) = s[1]
  BY HeadTailProperties, EmptySeq
<1>2. \A i \in Indices(Tail(s), d) : i + 1 \in Indices(s, d) /\ i + 1 # 1 /\ i \in Nat
  BY <1>1 DEF Indices
<1>3. \A i \in Indices(s, d) : i # 1 => i - 1 \in Indices(Tail(s), d) /\ i \in Nat
  BY <1>1 DEF Indices
<1>4. 1 \in Indices(s, d) <=> d = Head(s)
  BY <1>1 DEF Indices
<1>5. ASSUME d # Head(s), Single(Indices(s, d)) PROVE Single(Indices(Tail(s), d))
  <2>1. PICK i \in Indices(s, d) : Indices(s, d) = {i}
    BY <1>5 DEF Single
  <2>2. i # 1 /\ i - 1 \in Indices(Tail(s), d) /\ i \in Nat
    BY <1>3, <1>4, <1>5
  <2>3. \A j \in Indices(Tail(s), d) : j + 1 = i /\ j \in Nat
    BY <1>2, <2>1
  <2>4. \A j \in Indices(Tail(s), d) : j = i - 1
    BY <2>2, <2>3
  <2> QED  BY <2>2, <2>4 DEF Single
<1>6. ASSUME d = Head(s), Single(Indices(s, d)) PROVE Indices(Tail(s), d) = {}
  BY <1>2, <1>4, <1>6 DEF Single
<1> QED  BY <1>2, <1>4, <1>5, <1>6

(* The coroutine that runs is not handed a datagram while it has one.      *)
LEMMA Handed ==
    ASSUME UdpTypeOK, Jobs, NEW c \in Coroutine, job[c] = {}, results # <<>>, NextJob(c),
           NEW d
    PROVE  /\ job' \in [Coroutine -> SUBSET Reply] /\ Head(results) \in Datagram
           /\ \A o \in Coroutine : o # c => job'[o] = job[o]
           /\ \A r \in job'[c] : r.to = Head(results) /\ r.payload \in buffer
           /\ d = Head(results) => Echoing(d)' = Echoing(d) \cup {c}
           /\ d # Head(results) => Echoing(d)' = Echoing(d)
<1>1. Head(results) \in Datagram
  BY DEF UdpTypeOK
<1> DEFINE handed == {[to |-> Head(results), payload |-> p] : p \in buffer}
<1>a. handed \in SUBSET Reply
  BY <1>1 DEF UdpTypeOK, Reply
<1>b. job' = [job EXCEPT ![c] = handed]
  BY DEF NextJob
<1> HIDE DEF handed
<1>2. /\ job' \in [Coroutine -> SUBSET Reply]
      /\ \A o \in Coroutine : o # c => job'[o] = job[o]
      /\ job'[c] = handed
  BY <1>a, <1>b DEF UdpTypeOK
<1>3. \A r \in job'[c] : r.to = Head(results) /\ r.payload \in buffer
  BY <1>2 DEF handed
<1>4. \E r \in job'[c] : r.to = Head(results)
  <2>1. PICK p \in buffer : TRUE
    BY DEF Jobs
  <2>2. [to |-> Head(results), payload |-> p] \in job'[c]
    BY <1>2, <2>1 DEF handed
  <2> QED  BY <2>2
<1>5. c \notin Echoing(d)
  BY DEF Echoing
<1> QED  BY <1>1, <1>2, <1>3, <1>4, <1>5 DEF Echoing

LEMMA PlacedStep == UdpTypeOK /\ Jobs /\ Placed /\ [UdpNext]_allVars => Placed'
<1> SUFFICES ASSUME UdpTypeOK, Jobs, Placed, [UdpNext]_allVars, NEW d \in Datagram
             PROVE  IF d \in arrived' THEN Somewhere(d)' ELSE Nowhere(d)'
    BY DEF Placed
<1>0. IF d \in arrived THEN Somewhere(d) ELSE Nowhere(d)
  BY DEF Placed
<1>a. ASSUME UNCHANGED <<queue, results, job, replies, arrived, dropped>>
      PROVE  IF d \in arrived' THEN Somewhere(d)' ELSE Nowhere(d)'
  BY <1>0, <1>a DEF Somewhere, Nowhere, Indices, Echoing, Answers, GivenUp
<1> DEFINE Q == Indices(queue, d)
           R == Indices(results, d)
           J == Echoing(d)
           A == Answers(d)
           G == GivenUp(d)
<1>b. ASSUME UNCHANGED job PROVE J' = J
  BY <1>b DEF Echoing
<1>c. ASSUME UNCHANGED replies PROVE A' = A
  BY <1>c DEF Answers
<1>d. ASSUME UNCHANGED dropped PROVE G' = G
  BY <1>d DEF GivenUp
<1>1. ASSUME NEW e \in Datagram, Arrive(e)
      PROVE  IF d \in arrived' THEN Somewhere(d)' ELSE Nowhere(d)'
  <2>1. /\ queue' = Append(queue, e) /\ arrived' = arrived \cup {e} /\ e \notin arrived
        /\ UNCHANGED <<results, job, replies, dropped>>
    BY <1>1 DEF Arrive
  <2>2. /\ d = e => Q' = Q \cup {Len(queue) + 1}
        /\ d # e => Q' = Q
    BY <2>1, Queued DEF UdpTypeOK
  <2>3. R' = R /\ J' = J /\ A' = A /\ G' = G
    BY <2>1, <1>b, <1>c, <1>d
  <2> HIDE DEF Q, R, J, A, G
  <2> QED
    BY <1>0, <2>1, <2>2, <2>3 DEF Somewhere, Nowhere, Exactly, Single, Q, R, J, A, G
<1>2. CASE Recv
  <2> DEFINE e == Head(queue)
  <2>1. /\ queue # <<>> /\ queue' = Tail(queue) /\ results' = Append(results, e)
        /\ UNCHANGED <<job, replies, arrived, dropped>>
    BY <1>2 DEF Recv
  <2>2. e \in Datagram
    BY <2>1 DEF UdpTypeOK
  <2>3. /\ d = e => R' = R \cup {Len(results) + 1}
        /\ d # e => R' = R
    BY <2>1, <2>2, Queued DEF UdpTypeOK
  <2>4. /\ d = e => Q # {} /\ (Single(Q) => Q' = {})
        /\ d # e => (Q = {} => Q' = {}) /\ (Single(Q) => Single(Q'))
    BY <2>1, Dequeued DEF UdpTypeOK
  <2>5. J' = J /\ A' = A /\ G' = G
    BY <2>1, <1>b, <1>c, <1>d
  <2> HIDE DEF Q, R, J, A, G, e
  <2> QED
    <3>1. CASE d = e
      <4>1. Single(Q) /\ R = {} /\ J = {} /\ A = {} /\ G = {} /\ d \in arrived
        BY <1>0, <2>4, <3>1 DEF Somewhere, Nowhere, Exactly, Q, R, J, A, G
      <4>2. Q' = {} /\ Single(R') /\ J' = {} /\ A' = {} /\ G' = {}
        BY <2>3, <2>4, <2>5, <3>1, <4>1 DEF Single
      <4> QED  BY <2>1, <4>1, <4>2 DEF Somewhere, Exactly, Single, Q, R, J, A, G
    <3>2. CASE d # e
      BY <1>0, <2>1, <2>3, <2>4, <2>5, <3>2
         DEF Somewhere, Nowhere, Exactly, Single, Q, R, J, A, G
    <3> QED  BY <3>1, <3>2
<1>3. ASSUME NEW c \in Coroutine, job[c] = {}, results # <<>>, NextJob(c),
             results' = Tail(results), UNCHANGED <<queue, replies, arrived, dropped>>
      PROVE  IF d \in arrived' THEN Somewhere(d)' ELSE Nowhere(d)'
  <2> DEFINE e == Head(results)
  <2>1. /\ d = e => J' = J \cup {c}
        /\ d # e => J' = J
    BY <1>3, Handed
  <2>2. /\ d = e => R # {} /\ (Single(R) => R' = {})
        /\ d # e => (R = {} => R' = {}) /\ (Single(R) => Single(R'))
    BY <1>3, Dequeued DEF UdpTypeOK
  <2>3. Q' = Q /\ A' = A /\ G' = G
    BY <1>3, <1>c, <1>d
  <2> HIDE DEF Q, R, J, A, G, e
  <2> QED
    BY <1>0, <1>3, <2>1, <2>2, <2>3 DEF Somewhere, Nowhere, Exactly, Single, Q, R, J, A, G
<1>4. CASE Submit
  <2>1. Loop \in Coroutine /\ job[Loop] = {} /\ results # <<>>
    BY <1>4, UdpAssumption DEF Submit, At, Jobs
  <2> QED  BY <1>3, <1>4, <2>1 DEF Submit
<1>5. ASSUME NEW h \in Handler, SpawnHandler(h)
      PROVE  IF d \in arrived' THEN Somewhere(d)' ELSE Nowhere(d)'
  <2>1. h \in Coroutine /\ job[h] = {}
    BY <1>5, UdpAssumption DEF SpawnHandler, NextHandler, Jobs
  <2> QED  BY <1>3, <1>5, <2>1 DEF SpawnHandler
<1>6. ASSUME NEW c \in Coroutine, Send(c)
      PROVE  IF d \in arrived' THEN Somewhere(d)' ELSE Nowhere(d)'
  <2>1. PICK r \in job[c] : replies' = Append(replies, r)
    BY <1>6 DEF Send
  <2>2. /\ job' = [job EXCEPT ![c] = {}] /\ UNCHANGED <<queue, results, arrived, dropped>>
    BY <1>6 DEF Send
  <2>3. r \in Reply /\ \A s \in job[c] : s.to = r.to
    BY <2>1 DEF UdpTypeOK, Jobs
  <2>4. /\ J' = J \ {c}
        /\ d = r.to => c \in J
        /\ d # r.to => c \notin J
    BY <2>1, <2>2, <2>3 DEF Echoing, UdpTypeOK
  <2>5. /\ d = r.to => A' = A \cup {Len(replies) + 1}
        /\ d # r.to => A' = A
    <3>1. /\ DOMAIN replies' = 1 .. Len(replies) + 1 /\ DOMAIN replies = 1 .. Len(replies)
          /\ Len(replies) \in Nat
          /\ \A i \in 1 .. Len(replies) : replies'[i] = replies[i]
          /\ replies'[Len(replies) + 1] = r
      BY <2>1, <2>3 DEF UdpTypeOK
    <3>2. \A i : i \in 1 .. Len(replies) + 1 <=> i \in 1 .. Len(replies) \/ i = Len(replies) + 1
      BY <3>1
    <3> QED  BY <3>1, <3>2 DEF Answers
  <2>6. Q' = Q /\ R' = R /\ G' = G
    BY <2>2, <1>d
  <2> HIDE DEF Q, R, J, A, G
  <2> QED
    <3>1. CASE d = r.to
      <4>1. Single(J) /\ Q = {} /\ R = {} /\ A = {} /\ G = {} /\ d \in arrived
        BY <1>0, <2>4, <3>1 DEF Somewhere, Nowhere, Exactly, Q, R, J, A, G
      <4>2. J' = {} /\ Q' = {} /\ R' = {} /\ G' = {} /\ Single(A')
        BY <2>4, <2>5, <2>6, <3>1, <4>1 DEF Single
      <4> QED  BY <2>2, <4>1, <4>2 DEF Somewhere, Exactly, Single, Q, R, J, A, G
    <3>2. CASE d # r.to
      <4>1. Q' = Q /\ R' = R /\ J' = J /\ A' = A /\ G' = G
        BY <2>4, <2>5, <2>6, <3>2
      <4> QED
        BY <1>0, <2>2, <4>1 DEF Somewhere, Nowhere, Exactly, Single, Q, R, J, A, G
    <3> QED  BY <3>1, <3>2
<1>7. ASSUME NEW c \in Coroutine, SendFails(c)
      PROVE  IF d \in arrived' THEN Somewhere(d)' ELSE Nowhere(d)'
  <2>1. /\ job' = [job EXCEPT ![c] = {}] /\ dropped' = dropped \cup {r.to : r \in job[c]}
        /\ UNCHANGED <<queue, results, arrived, replies>>
    BY <1>7 DEF SendFails
  <2>2. J' = J \ {c}
    BY <2>1 DEF Echoing, UdpTypeOK
  <2>3. /\ c \in J => G' = {d}
        /\ c \notin J => G' = G
    BY <2>1 DEF Echoing, GivenUp
  <2>4. Q' = Q /\ R' = R /\ A' = A
    BY <2>1, <1>c
  <2> HIDE DEF Q, R, J, A, G
  <2> QED
    <3>1. CASE c \in J
      <4>1. Single(J) /\ Q = {} /\ R = {} /\ A = {} /\ d \in arrived
        BY <1>0, <3>1 DEF Somewhere, Nowhere, Exactly, Q, R, J, A, G
      <4>2. J' = {} /\ Q' = {} /\ R' = {} /\ A' = {} /\ Single(G')
        BY <2>2, <2>3, <2>4, <3>1, <4>1 DEF Single
      <4> QED  BY <2>1, <4>1, <4>2 DEF Somewhere, Exactly, Single, Q, R, J, A, G
    <3>2. CASE c \notin J
      <4>1. Q' = Q /\ R' = R /\ J' = J /\ A' = A /\ G' = G
        BY <2>2, <2>3, <2>4, <3>2
      <4> QED
        BY <1>0, <2>1, <4>1 DEF Somewhere, Nowhere, Exactly, Single, Q, R, J, A, G
    <3> QED  BY <3>1, <3>2
<1>8. CASE RecvFails
  <2>1. /\ dropped' = dropped \cup ToSet(results) /\ results' = <<>>
        /\ UNCHANGED <<queue, job, arrived, replies>>
    BY <1>8 DEF RecvFails
  <2>2. R' = {}
    BY <2>1, EmptySeq DEF Indices
  <2>3. /\ R # {} => G' = {d}
        /\ R = {} => G' = G
    BY <2>1 DEF Indices, GivenUp, ToSet
  <2>4. Q' = Q /\ J' = J /\ A' = A
    BY <2>1, <1>b, <1>c
  <2> HIDE DEF Q, R, J, A, G
  <2> QED
    <3>1. CASE R # {}
      <4>1. Q = {} /\ J = {} /\ A = {} /\ d \in arrived
        BY <1>0, <3>1 DEF Somewhere, Nowhere, Exactly, Q, R, J, A, G
      <4>2. Q' = {} /\ R' = {} /\ J' = {} /\ A' = {} /\ Single(G')
        BY <2>2, <2>3, <2>4, <3>1, <4>1 DEF Single
      <4> QED  BY <2>1, <4>1, <4>2 DEF Somewhere, Exactly, Single, Q, R, J, A, G
    <3>2. CASE R = {}
      <4>1. Q' = Q /\ R' = R /\ J' = J /\ A' = A /\ G' = G
        BY <2>2, <2>3, <2>4, <3>2
      <4> QED
        BY <1>0, <2>1, <4>1 DEF Somewhere, Nowhere, Exactly, Single, Q, R, J, A, G
    <3> QED  BY <3>1, <3>2
<1>9. CASE UNCHANGED <<queue, results, job, replies, arrived, dropped>>
  BY <1>9, <1>a
<1> QED
  BY <1>1, <1>2, <1>4, <1>5, <1>6, <1>7, <1>8, <1>9
     DEF UdpNext, CoroutineMoves, LoopMoves, Transmit, PoolDone, RecvBatch, RecvWaits,
         AllSpawned, SendWaits, allVars, udpVars

LEMMA UdpTypeStep == UdpTypeOK /\ Jobs /\ [UdpNext]_allVars => UdpTypeOK'
<1> SUFFICES ASSUME UdpTypeOK, Jobs, [UdpNext]_allVars PROVE UdpTypeOK'
    OBVIOUS
<1> USE UdpAssumption DEF UdpTypeOK, Goto
<1>1. ASSUME NEW d \in Datagram, Arrive(d) PROVE UdpTypeOK'
  BY <1>1 DEF Arrive
<1>2. CASE Recv
  <2>1. Head(queue) \in Datagram /\ Tail(queue) \in Seq(Datagram)
    BY <1>2, HeadTailProperties DEF Recv
  <2> QED  BY <1>2, <2>1 DEF Recv
<1>3. ASSUME NEW c \in Coroutine, job[c] = {}, results # <<>>, NextJob(c),
             results' = Tail(results),
             UNCHANGED <<batched, stopped, buffer, arrived, queue, replies, dropped>>,
             pc' = [pc EXCEPT ![Loop] = "pool"] \/ pc' = [pc EXCEPT ![c] = "pool"]
      PROVE  UdpTypeOK'
  <2>1. job' \in [Coroutine -> SUBSET Reply]
    BY <1>3, Handed
  <2>2. Tail(results) \in Seq(Datagram)
    BY <1>3, HeadTailProperties
  <2> QED  BY <1>3, <2>1, <2>2
<1>4. CASE Submit
  BY <1>3, <1>4 DEF Submit, At, Jobs
<1>5. ASSUME NEW h \in Handler, SpawnHandler(h) PROVE UdpTypeOK'
  <2>1. h \in Coroutine /\ job[h] = {}
    BY <1>5 DEF SpawnHandler, NextHandler, Jobs
  <2> QED  BY <1>3, <1>5, <2>1 DEF SpawnHandler
<1>6. ASSUME NEW c \in Coroutine, Send(c) PROVE UdpTypeOK'
  <2>1. PICK r \in job[c] : replies' = Append(replies, r)
    BY <1>6 DEF Send
  <2>2. replies' \in Seq(Reply)
    BY <2>1
  <2> QED  BY <1>6, <2>2 DEF Send
<1>7. CASE Transmit \/ RecvBatch \/ RecvWaits \/ AllSpawned \/ LoopMoves \/ UNCHANGED allVars
  BY <1>7 DEF Transmit, RecvBatch, RecvWaits, AllSpawned, LoopMoves, allVars, udpVars
<1>8. ASSUME NEW c \in Coroutine, PoolDone(c) \/ SendWaits(c) PROVE UdpTypeOK'
  BY <1>8 DEF PoolDone, SendWaits, udpVars
<1>9. ASSUME NEW c \in Coroutine, SendFails(c) PROVE UdpTypeOK'
  <2>1. \A r \in job[c] : r.to \in Datagram
    BY DEF Reply
  <2>2. stopped' \in BOOLEAN
    BY <1>9 DEF SendFails
  <2> QED  BY <1>9, <2>1, <2>2 DEF SendFails
<1>10. CASE RecvFails
  <2>1. ToSet(results) \subseteq Datagram /\ <<>> \in Seq(Datagram)
    BY EmptySeq DEF ToSet
  <2> QED  BY <1>10, <2>1 DEF RecvFails
<1> QED
  BY <1>1, <1>2, <1>4, <1>5, <1>6, <1>7, <1>8, <1>9, <1>10 DEF UdpNext, CoroutineMoves

LEMMA JobsStep == UdpTypeOK /\ Jobs /\ [UdpNext]_allVars => Jobs'
<1> SUFFICES ASSUME UdpTypeOK, Jobs, [UdpNext]_allVars PROVE Jobs'
    OBVIOUS
<1>0. /\ \A c \in Coroutine : pc[c] \notin {"pool", "send"} => job[c] = {}
      /\ \A c \in Coroutine : \A r, s \in job[c] : r.to = s.to
      /\ results # <<>> => buffer # {}
      /\ pc[Loop] = "submit" => results # <<>>
  BY DEF Jobs
<1>1. CASE Recv
  <2>1. results' # <<>> /\ buffer' # {} /\ job' = job
    BY <1>1 DEF Recv, UdpTypeOK
  <2>2. \A c \in Coroutine : pc'[c] \in {"pool", "send"} <=> pc[c] \in {"pool", "send"}
    BY <1>1 DEF Recv, At, Goto, UdpTypeOK
  <2> QED  BY <1>0, <2>1, <2>2 DEF Jobs
<1>2. ASSUME NEW c \in Coroutine, job[c] = {}, results # <<>>, NextJob(c),
             results' = Tail(results), buffer' = buffer, Goto(c, "pool"),
             c = Loop \/ pc[Loop] = "spawn"
      PROVE  Jobs'
  <2>1. /\ \A o \in Coroutine : o # c => job'[o] = job[o] /\ pc'[o] = pc[o]
        /\ \A r \in job'[c] : r.to = Head(results)
        /\ pc'[c] = "pool"
    BY <1>2, Handed DEF Goto, UdpTypeOK
  <2>2. pc'[Loop] # "submit"
    BY <1>2, <2>1, UdpAssumption
  <2> QED  BY <1>0, <1>2, <2>1, <2>2 DEF Jobs
<1>3. CASE Submit
  BY <1>0, <1>2, <1>3, UdpAssumption DEF Submit, At
<1>4. ASSUME NEW h \in Handler, SpawnHandler(h) PROVE Jobs'
  <2>1. h \in Coroutine /\ job[h] = {}
    BY <1>0, <1>4, UdpAssumption DEF SpawnHandler, NextHandler
  <2> QED  BY <1>2, <1>4, <2>1 DEF SpawnHandler, At
<1>5. ASSUME NEW c \in Coroutine, Send(c) \/ SendFails(c) PROVE Jobs'
  <2>1. /\ job' = [job EXCEPT ![c] = {}] /\ UNCHANGED <<results, buffer>>
        /\ pc' = [pc EXCEPT ![c] = "recv"] \/ pc' = [pc EXCEPT ![c] = "done"]
    BY <1>5 DEF Send, SendFails, Goto
  <2>2. /\ \A o \in Coroutine : o # c => job'[o] = job[o] /\ pc'[o] = pc[o]
        /\ job'[c] = {} /\ pc'[c] # "submit"
    BY <2>1 DEF UdpTypeOK
  <2> QED  BY <1>0, <2>1, <2>2, UdpAssumption DEF Jobs
<1>6. ASSUME NEW c \in Coroutine, PoolDone(c) PROVE Jobs'
  <2>1. /\ pc[c] = "pool" /\ pc' = [pc EXCEPT ![c] = "send"]
        /\ UNCHANGED <<job, results, buffer>>
    BY <1>6 DEF PoolDone, Goto
  <2>2. \A o \in Coroutine : /\ pc'[o] \in {"pool", "send"} <=> pc[o] \in {"pool", "send"}
                             /\ pc'[o] = "submit" => pc[o] = "submit"
    BY <2>1 DEF UdpTypeOK
  <2> QED  BY <1>0, <2>1, <2>2, UdpAssumption DEF Jobs
<1>7. CASE RecvBatch \/ AllSpawned
  <2>1. \A c \in Coroutine : pc'[c] \in {"pool", "send"} <=> pc[c] \in {"pool", "send"}
    BY <1>7 DEF RecvBatch, AllSpawned, At, Goto, UdpTypeOK
  <2>2. pc'[Loop] # "submit" /\ UNCHANGED <<job, results, buffer>>
    BY <1>7, UdpAssumption DEF RecvBatch, AllSpawned, Goto, UdpTypeOK
  <2> QED  BY <1>0, <2>1, <2>2 DEF Jobs
<1>8. CASE UNCHANGED <<pc, job, results, buffer>>
  BY <1>8 DEF Jobs
<1>9. CASE RecvFails
  <2>1. /\ pc[Loop] = "recv" /\ pc' = [pc EXCEPT ![Loop] = "done"]
        /\ results' = <<>> /\ UNCHANGED <<job, buffer>>
    BY <1>9 DEF RecvFails, At, Goto
  <2>2. /\ \A c \in Coroutine : pc'[c] \in {"pool", "send"} <=> pc[c] \in {"pool", "send"}
        /\ pc'[Loop] # "submit"
    BY <2>1, UdpAssumption DEF UdpTypeOK
  <2> QED  BY <1>0, <2>1, <2>2 DEF Jobs
<1> QED
  BY <1>1, <1>3, <1>4, <1>5, <1>6, <1>7, <1>8, <1>9
     DEF UdpNext, CoroutineMoves, LoopMoves, Arrive, Transmit, RecvWaits, SendWaits,
         allVars, udpVars

(* The sequential server receives again only when it has sent the reply.   *)
LEMMA OneAtATimeStep ==
    UdpTypeOK /\ Jobs /\ OneAtATime /\ LoopEchoIsFaithful /\ [UdpNext]_allVars
        => OneAtATime' /\ LoopEchoIsFaithful'
<1> SUFFICES ASSUME UdpTypeOK, Jobs, OneAtATime, LoopEchoIsFaithful, [UdpNext]_allVars,
                    ~batched'
             PROVE  OneAtATime' /\ LoopEchoIsFaithful'
    BY DEF OneAtATime, LoopEchoIsFaithful
<1>0. /\ ~batched
      /\ \/ pc[Loop] = "submit" /\ \E d \in Datagram : results = <<d>> /\ buffer = {d}
         \/ pc[Loop] \in {"recv", "pool", "send", "done"} /\ results = <<>>
      /\ \A c \in Coroutine : \A r \in job[c] : r.payload = r.to
      /\ \A i \in DOMAIN replies : replies[i].payload = replies[i].to
      /\ Loop \in Coroutine /\ \A h \in Handler : h \in Coroutine /\ h # Loop
  <2>1. ~batched
    BY DEF UdpNext, Arrive, Transmit, PoolDone, CoroutineMoves, Recv, RecvBatch, RecvWaits,
           Submit, AllSpawned, SpawnHandler, Send, SendWaits, RecvFails, SendFails, LoopMoves, allVars, udpVars
  <2> QED
    BY <2>1, UdpAssumption DEF OneAtATime, LoopEchoIsFaithful, EchoIsFaithful
<1>a. ASSUME replies' = replies PROVE LoopEchoIsFaithful'
  BY <1>0, <1>a DEF LoopEchoIsFaithful, EchoIsFaithful
<1>1. CASE Recv
  <2>1. /\ queue # <<>> /\ results = <<>> /\ buffer' = {Head(queue)}
        /\ results' = Append(results, Head(queue)) /\ UNCHANGED <<job, replies>>
        /\ pc' = [pc EXCEPT ![Loop] = "submit"]
    BY <1>0, <1>1 DEF Recv, At, Goto
  <2>2. Head(queue) \in Datagram /\ results' = <<Head(queue)>> /\ pc'[Loop] = "submit"
    BY <1>0, <2>1 DEF UdpTypeOK
  <2> QED  BY <1>0, <1>a, <2>1, <2>2 DEF OneAtATime
<1>2. CASE Submit
  <2>1. /\ pc[Loop] = "submit" /\ NextJob(Loop) /\ results' = Tail(results)
        /\ replies' = replies /\ pc' = [pc EXCEPT ![Loop] = "pool"]
    BY <1>2 DEF Submit, At, Goto
  <2>2. PICK d \in Datagram : results = <<d>> /\ buffer = {d}
    BY <1>0, <2>1
  <2>3. job[Loop] = {} /\ results # <<>> /\ Head(results) = d /\ Tail(results) = <<>>
    BY <1>0, <2>1, <2>2 DEF Jobs
  <2>4. /\ \A o \in Coroutine : o # Loop => job'[o] = job[o]
        /\ \A r \in job'[Loop] : r.to = d /\ r.payload \in buffer
    BY <1>0, <2>1, <2>3, Handed
  <2>5. pc'[Loop] = "pool" /\ results' = <<>>
    BY <1>0, <2>1, <2>3 DEF UdpTypeOK
  <2> QED  BY <1>0, <1>a, <2>1, <2>2, <2>4, <2>5 DEF OneAtATime
<1>3. ASSUME NEW c \in Coroutine, Send(c) PROVE OneAtATime' /\ LoopEchoIsFaithful'
  <2>1. PICK r \in job[c] : replies' = Append(replies, r)
    BY <1>3 DEF Send
  <2>2. r \in Reply /\ r.payload = r.to
    BY <1>0, <2>1 DEF UdpTypeOK
  <2>3. LoopEchoIsFaithful'
    <3>1. /\ DOMAIN replies' = 1 .. Len(replies) + 1 /\ DOMAIN replies = 1 .. Len(replies)
          /\ Len(replies) \in Nat
          /\ \A i \in 1 .. Len(replies) : replies'[i] = replies[i]
          /\ replies'[Len(replies) + 1] = r
      BY <2>1, <2>2 DEF UdpTypeOK
    <3>2. \A i \in DOMAIN replies' : i \in DOMAIN replies \/ i = Len(replies) + 1
      BY <3>1
    <3> QED  BY <1>0, <2>2, <3>1, <3>2 DEF LoopEchoIsFaithful, EchoIsFaithful
  <2>4. /\ pc[c] = "send" /\ job' = [job EXCEPT ![c] = {}] /\ UNCHANGED <<results, buffer>>
        /\ pc' = [pc EXCEPT ![c] = IF c = Loop THEN "recv" ELSE "done"]
    BY <1>3 DEF Send, At, Goto
  <2>5. \A o \in Coroutine : \A q \in job'[o] : q \in job[o]
    BY <2>4 DEF UdpTypeOK
  <2>6. pc'[Loop] = IF c = Loop THEN "recv" ELSE pc[Loop]
    BY <1>0, <2>4 DEF UdpTypeOK
  <2> QED  BY <1>0, <2>3, <2>4, <2>5, <2>6 DEF OneAtATime
<1>4. ASSUME NEW c \in Coroutine, PoolDone(c) PROVE OneAtATime' /\ LoopEchoIsFaithful'
  <2>1. /\ pc[c] = "pool" /\ pc' = [pc EXCEPT ![c] = "send"]
        /\ UNCHANGED <<results, buffer, job, replies>>
    BY <1>4 DEF PoolDone, Goto
  <2>2. pc'[Loop] = IF c = Loop THEN "send" ELSE pc[Loop]
    BY <1>0, <2>1 DEF UdpTypeOK
  <2> QED  BY <1>0, <1>a, <2>1, <2>2 DEF OneAtATime
<1>5. CASE RecvBatch \/ AllSpawned \/ \E h \in Handler : SpawnHandler(h)
  BY <1>0, <1>5 DEF RecvBatch, AllSpawned, SpawnHandler, At
<1>6. CASE UNCHANGED <<pc, buffer, results, job, replies>>
  BY <1>0, <1>6, <1>a DEF OneAtATime
<1>7. CASE RecvFails
  <2>1. /\ pc' = [pc EXCEPT ![Loop] = "done"] /\ results' = <<>>
        /\ UNCHANGED <<job, buffer, replies>>
    BY <1>7 DEF RecvFails, Goto
  <2>2. pc'[Loop] = "done"
    BY <1>0, <2>1 DEF UdpTypeOK
  <2> QED  BY <1>0, <1>a, <2>1, <2>2 DEF OneAtATime
<1>8. ASSUME NEW c \in Coroutine, SendFails(c) PROVE OneAtATime' /\ LoopEchoIsFaithful'
  <2>1. /\ pc[c] = "send" /\ job' = [job EXCEPT ![c] = {}]
        /\ UNCHANGED <<results, buffer, replies>>
        /\ pc' = [pc EXCEPT ![c] = "done"]
    BY <1>8 DEF SendFails, At, Goto
  <2>2. \A o \in Coroutine : \A q \in job'[o] : q \in job[o]
    BY <2>1 DEF UdpTypeOK
  <2>3. pc'[Loop] = IF c = Loop THEN "done" ELSE pc[Loop]
    BY <1>0, <2>1 DEF UdpTypeOK
  <2> QED  BY <1>0, <1>a, <2>1, <2>2, <2>3 DEF OneAtATime
<1> QED
  BY <1>1, <1>2, <1>3, <1>4, <1>5, <1>6, <1>7, <1>8
     DEF UdpNext, CoroutineMoves, LoopMoves, Arrive, Transmit, RecvWaits, SendWaits,
         allVars, udpVars

--------------------------------------------------------------------------------
LEMMA UdpInvariance == UdpSpec => []UdpInv
BY InitUdpInv, UdpTypeStep, JobsStep, PlacedStep, OneAtATimeStep, PTL DEF UdpSpec, UdpInv

(* In either server, and whatever recvfrom and sendto return, a datagram   *)
(* never vanishes between recvfrom, the batch, the spawned handlers, the   *)
(* pool and sendto, and none is answered twice: what is not answered is on *)
(* its way, or given up by the very call that failed.                      *)
THEOREM DatagramsAreAccountedFor == UdpSpec => []DatagramInOnePlace
<1>1. UdpInv => DatagramInOnePlace
  <2> SUFFICES ASSUME UdpTypeOK, Placed, NEW d \in arrived
               PROVE  \E p \in Places(d) : Places(d) = {p}
      BY DEF UdpInv, DatagramInOnePlace
  <2>1. Somewhere(d)
    BY DEF Placed, UdpTypeOK
  <2>2. ASSUME NEW place, NEW S, Single(S), Places(d) = {place} \X S
        PROVE  \E p \in Places(d) : Places(d) = {p}
    <3>1. PICK x \in S : S = {x}
      BY <2>2 DEF Single
    <3>2. {place} \X S = {<<place, x>>}
      BY <3>1
    <3> QED  BY <2>2, <3>2
  <2>3. \A place : {place} \X {} = {}
    OBVIOUS
  <2>4. \/ Single(Indices(queue, d)) /\ Places(d) = {"socket"} \X Indices(queue, d)
        \/ Single(Indices(results, d)) /\ Places(d) = {"batch"} \X Indices(results, d)
        \/ Single(Echoing(d)) /\ Places(d) = {"coroutine"} \X Echoing(d)
        \/ Single(Answers(d)) /\ Places(d) = {"answered"} \X Answers(d)
        \/ Single(GivenUp(d)) /\ Places(d) = {"given up"} \X GivenUp(d)
    BY <2>1, <2>3 DEF Somewhere, Exactly, Places, GivenUp
  <2> QED  BY <2>2, <2>4
<1> QED  BY <1>1, UdpInvariance, PTL

(* The sequential server sends back what the endpoint has sent: the buffer *)
(* is copied before anything else is received into it.                     *)
THEOREM SequentialEchoIsFaithful == UdpSpec => []LoopEchoIsFaithful
BY UdpInvariance, PTL DEF UdpInv
================================================================================
