------------------------------ MODULE Proxy_proof ------------------------------
(***************************************************************************)
(* The relays of a session keep both byte streams intact, whatever sizes   *)
(* the buffers have and whatever recv() and send() return.                 *)
(***************************************************************************)
EXTENDS Proxy, Reactor_proof

Label == {"connect", "verify", "spawn", "relay", "relaying", "failed",
          "read", "write", "done"}

ProxyTypeOK ==
    /\ pc \in [Coroutine -> Label]
    /\ buffer \in [Relay -> Seq(Nat)]
    /\ read \in [Fd -> Nat] /\ sent \in [Fd -> Nat] /\ room \in [Fd -> Nat]
    /\ delivered \in [Fd -> Seq(Nat)]

(* relay() reads only when it has sent all it has read: its buffer, which  *)
(* recv() overwrites, holds nothing then.                                  *)
ReadsIntoEmpty == \A r \in Relay : pc[r] = "read" => buffer[r] = <<>>

ProxyInv == ProxyTypeOK /\ ReadsIntoEmpty /\ StreamIntact

LEMMA Ends ==
    /\ Relay \subseteq Coroutine /\ "session" \in Coroutine \ Relay
    /\ \A r \in Relay : From(r) \in Fd /\ To(r) \in Fd
    /\ \A r, s \in Relay : From(r) = From(s) \/ To(r) = To(s) => r = s
BY ProxyAssumption DEF Relay, From, To

LEMMA StreamIs ==
    StreamIntact <=> \A r \in Relay : delivered[To(r)] \o buffer[r] = Bytes(read[From(r)])
BY DEF StreamIntact, Bytes

LEMMA ProxyInitInv == ProxyInit => ProxyInv
<1> SUFFICES ASSUME ProxyInit PROVE ProxyInv
    OBVIOUS
<1>1. <<>> \in Seq(Nat) /\ <<>> \o <<>> = <<>> /\ Bytes(0) = <<>>
  <2>1. Bytes(0) \in Seq(Nat) /\ Len(Bytes(0)) = 0
    BY DEF Bytes
  <2> QED  BY <2>1, EmptySeq
<1>2. ProxyTypeOK
  BY <1>1, ProxyAssumption, Ends DEF ProxyInit, ProxyTypeOK, Label
<1>3. ReadsIntoEmpty
  BY DEF ProxyInit, ReadsIntoEmpty
<1>4. StreamIntact
  BY <1>1, Ends, StreamIs DEF ProxyInit
<1> QED  BY <1>2, <1>3, <1>4 DEF ProxyInv

(* Most steps touch no stream at all, and start no relay.                  *)
LEMMA StreamsRest ==
    ASSUME ProxyInv, UNCHANGED <<buffer, read, delivered>>,
           \A r \in Relay : pc'[r] = "read" => pc[r] = "read"
    PROVE  ReadsIntoEmpty' /\ StreamIntact'
BY DEF ProxyInv, ReadsIntoEmpty, StreamIntact

LEMMA ProxyStep == ProxyInv /\ [ProxyNext]_allVars => ProxyInv'
<1> SUFFICES ASSUME ProxyInv, [ProxyNext]_allVars PROVE ProxyInv'
    OBVIOUS
<1>0. ProxyTypeOK /\ ReadsIntoEmpty
      /\ \A r \in Relay : delivered[To(r)] \o buffer[r] = Bytes(read[From(r)])
  BY StreamIs DEF ProxyInv
<1>a. ASSUME UNCHANGED <<buffer, read, delivered>>, pc' \in [Coroutine -> Label],
             \A r \in Relay : pc'[r] = "read" => pc[r] = "read",
             sent' \in [Fd -> Nat], room' \in [Fd -> Nat]
      PROVE  ProxyInv'
  BY <1>0, <1>a, StreamsRest DEF ProxyTypeOK, ProxyInv
<1>1. ASSUME NEW f \in Fd, PeerStep(f) PROVE ProxyInv'
  <2>1. /\ UNCHANGED relayVars /\ delivered' = delivered
        /\ sent' = sent \/ sent' = [sent EXCEPT ![f] = @ + 1]
        /\ room' = room \/ room' = [room EXCEPT ![f] = MaxRoom]
    BY <1>1 DEF PeerStep, PeerSends, PeerEnds, PeerReads, PeerFails
  <2>2. sent' \in [Fd -> Nat]
    BY <1>0, <2>1 DEF ProxyTypeOK
  <2>3. room' \in [Fd -> Nat]
    BY <1>0, <2>1, ProxyAssumption DEF ProxyTypeOK
  <2> QED  BY <1>0, <1>a, <2>1, <2>2, <2>3 DEF relayVars, ProxyTypeOK
<1>2. CASE SessionStep
  <2>1. UNCHANGED <<buffer, read, sent, room, delivered>>
    BY <1>2 DEF SessionStep, Connect_Refused, Connect_Starts, Connect_Waits,
       Connect_Succeeds, Connect_Fails, SpawnUp, AwaitDown, proxyVars, relayVars, peerVars
  <2>2. pc' = pc \/ \E l \in Label \ {"read"} : Goto("session", l)
    BY <1>2 DEF SessionStep, Connect_Refused, Connect_Starts, Connect_Waits,
       Connect_Succeeds, Connect_Fails, SpawnUp, AwaitDown, proxyVars, relayVars, Label
  <2>3. /\ pc' \in [Coroutine -> Label]
        /\ \A r \in Relay : pc'[r] = pc[r]
    <3>1. ASSUME NEW l \in Label \ {"read"}, Goto("session", l)
          PROVE  /\ pc' \in [Coroutine -> Label]
                 /\ \A r \in Relay : pc'[r] = pc[r]
      <4>1. pc' = [pc EXCEPT !["session"] = l]
        BY <3>1 DEF Goto
      <4> QED  BY <1>0, <4>1, Ends DEF ProxyTypeOK
    <3> QED  BY <1>0, <2>2, <3>1 DEF ProxyTypeOK
  <2> QED  BY <1>0, <1>a, <2>1, <2>3 DEF ProxyTypeOK
<1>3. ASSUME NEW r \in Relay, Recv(r) PROVE ProxyInv'
  <2> DEFINE f == From(r)
             n == IF Unread(f) < BufferSize THEN Unread(f) ELSE BufferSize
  <2>1. /\ pc[r] = "read" /\ n > 0
        /\ buffer' = [buffer EXCEPT ![r] = BytesAfter(read[f], n)]
        /\ read' = [read EXCEPT ![f] = @ + n]
        /\ pc' = [pc EXCEPT ![r] = "write"]
        /\ UNCHANGED <<sent, room, delivered>>
    BY <1>3 DEF Recv, At, Goto, peerVars, BytesAfter
  <2>2. n \in Nat /\ f \in Fd
    BY <1>0, <2>1, ProxyAssumption, Ends DEF Unread, ProxyTypeOK
  <2> HIDE DEF n, f
  <2>3. buffer[r] = <<>> /\ read[f] \in Nat /\ delivered[To(r)] \in Seq(Nat)
    BY <1>0, <2>1, <2>2, Ends DEF ReadsIntoEmpty, ProxyTypeOK
  <2>4. /\ BytesAfter(read[f], n) \in Seq(Nat)
        /\ delivered[To(r)] \o BytesAfter(read[f], n) = Bytes(read[f] + n)
    <3> DEFINE more == BytesAfter(read[f], n)
    <3>1. more \in Seq(Nat)
      BY <2>2, <2>3 DEF BytesAfter
    <3>2. delivered[To(r)] \o <<>> = Bytes(read[f]) /\ <<>> \in Seq(Nat)
      BY <1>0, <2>3, EmptySeq DEF f
    <3>3. delivered[To(r)] \o (<<>> \o more) = Bytes(read[f] + n)
      <4> DEFINE s == delivered[To(r)]
                 t == read[f]
      <4>1. s \in Seq(Nat) /\ t \in Nat /\ s \o <<>> = Bytes(t)
        BY <2>3, <3>2
      <4> HIDE DEF s, t
      <4>2. s \o (<<>> \o BytesAfter(t, n)) = Bytes(t + n)
        BY <2>2, <3>2, <4>1, Received
      <4> QED  BY <4>2 DEF s, t
    <3> HIDE DEF more
    <3>4. <<>> \o more = more
      BY <3>1, ConcatEmptySeq
    <3> QED  BY <3>1, <3>3, <3>4 DEF more
  <2>5. ProxyTypeOK'
    <3>1. buffer' \in [Relay -> Seq(Nat)]
      BY <1>0, <2>1, <2>4 DEF ProxyTypeOK
    <3>2. read' \in [Fd -> Nat]
      BY <1>0, <2>1, <2>2 DEF ProxyTypeOK
    <3>3. pc' \in [Coroutine -> Label]
      BY <1>0, <2>1, Ends DEF ProxyTypeOK, Label
    <3> QED  BY <1>0, <2>1, <3>1, <3>2, <3>3 DEF ProxyTypeOK
  <2>6. ReadsIntoEmpty'
    BY <1>0, <2>1, Ends DEF ReadsIntoEmpty, ProxyTypeOK
  <2>7. ASSUME NEW s \in Relay
        PROVE  delivered'[To(s)] \o buffer'[s] = Bytes(read'[From(s)])
    <3>1. CASE s = r
      BY <1>0, <2>1, <2>2, <2>4, <3>1 DEF ProxyTypeOK, f
    <3>2. CASE s # r
      <4>1. From(s) # f /\ From(s) \in Fd
        BY <3>2, Ends DEF f
      <4>2. delivered' = delivered /\ buffer'[s] = buffer[s] /\ read'[From(s)] = read[From(s)]
        BY <1>0, <2>1, <3>2, <4>1 DEF ProxyTypeOK
      <4> QED  BY <1>0, <4>2
    <3> QED  BY <3>1, <3>2
  <2>8. StreamIntact'
    BY <2>7, StreamIs DEF StreamIntact, Bytes
  <2> QED  BY <2>5, <2>6, <2>8 DEF ProxyInv
<1>4. ASSUME NEW r \in Relay, Send(r) PROVE ProxyInv'
  <2> DEFINE f == To(r)
             n == IF Len(buffer[r]) < room[f] THEN Len(buffer[r]) ELSE room[f]
  <2>1. /\ pc[r] = "write" /\ n > 0
        /\ delivered' = [delivered EXCEPT ![f] = @ \o SubSeq(buffer[r], 1, n)]
        /\ buffer' = [buffer EXCEPT ![r] = SubSeq(@, n + 1, Len(@))]
        /\ room' = [room EXCEPT ![f] = @ - n]
        /\ IF n = Len(buffer[r]) THEN pc' = [pc EXCEPT ![r] = "read"] ELSE pc' = pc
        /\ UNCHANGED <<read, sent>>
    BY <1>4 DEF Send, At, Goto
  <2>2. /\ f \in Fd /\ buffer[r] \in Seq(Nat) /\ delivered[f] \in Seq(Nat) /\ room[f] \in Nat
    BY <1>0, Ends DEF ProxyTypeOK
  <2>3. n \in 0 .. Len(buffer[r]) /\ n \in Nat /\ room[f] - n \in Nat
    BY <2>2
  <2> HIDE DEF n, f
  <2>4. /\ delivered[f] \o SubSeq(buffer[r], 1, n) \in Seq(Nat)
        /\ SubSeq(buffer[r], n + 1, Len(buffer[r])) \in Seq(Nat)
        /\ (delivered[f] \o SubSeq(buffer[r], 1, n)) \o SubSeq(buffer[r], n + 1, Len(buffer[r]))
               = delivered[f] \o buffer[r]
        /\ n = Len(buffer[r]) => SubSeq(buffer[r], n + 1, Len(buffer[r])) = <<>>
    BY <2>2, <2>3, Sent
  <2>5. ProxyTypeOK'
    BY <1>0, <2>1, <2>2, <2>3, <2>4, Ends DEF ProxyTypeOK, Label
  <2>6. ReadsIntoEmpty'
    BY <1>0, <2>1, <2>4, Ends DEF ReadsIntoEmpty, ProxyTypeOK
  <2>7. ASSUME NEW s \in Relay
        PROVE  delivered'[To(s)] \o buffer'[s] = Bytes(read'[From(s)])
    <3>1. CASE s = r
      BY <1>0, <2>1, <2>2, <2>4, <3>1 DEF ProxyTypeOK, f
    <3>2. CASE s # r
      <4>1. To(s) # f /\ To(s) \in Fd
        BY <3>2, Ends DEF f
      <4>2. delivered'[To(s)] = delivered[To(s)] /\ buffer'[s] = buffer[s] /\ read' = read
        BY <1>0, <2>1, <3>2, <4>1 DEF ProxyTypeOK
      <4> QED  BY <1>0, <4>2
    <3> QED  BY <3>1, <3>2
  <2>8. StreamIntact'
    BY <2>7 DEF StreamIntact, Bytes
  <2> QED  BY <2>5, <2>6, <2>8 DEF ProxyInv
<1>5. ASSUME NEW r \in Relay, CloseBoth(r) PROVE ProxyInv'
  <2>1. /\ UNCHANGED <<buffer, read, sent, room, delivered>>
        /\ pc' = [c \in Coroutine |->
                     IF c = r \/ (c = "session" /\ r = "down") THEN "done" ELSE pc[c]]
    BY <1>5 DEF CloseBoth, Finish, peerVars
  <2>2. /\ pc' \in [Coroutine -> Label]
        /\ \A s \in Relay : pc'[s] = "read" => pc[s] = "read"
    BY <1>0, <2>1, Ends DEF ProxyTypeOK, Label
  <2> QED  BY <1>0, <1>a, <2>1, <2>2 DEF ProxyTypeOK
<1>6. CASE UNCHANGED proxyVars
  BY <1>0, <1>a, <1>6 DEF proxyVars, relayVars, peerVars, ProxyTypeOK
<1> QED
  BY <1>1, <1>2, <1>3, <1>4, <1>5, <1>6
     DEF ProxyNext, LoopMoves, ProxyEndPass, RelayStep, Recv_Waits, Send_Waits, allVars

(* Neither direction of a session loses, repeats or reorders a byte, for   *)
(* any buffer size and any split of the stream by recv() and send(), while *)
(* the other relay uses and closes the same two sockets.                   *)
THEOREM RelayedBytesAreIntact == ProxySpec => []StreamIntact
<1>1. ProxyInv => StreamIntact
  BY DEF ProxyInv
<1> QED
  BY ProxyInitInv, ProxyStep, <1>1, PTL DEF ProxySpec
================================================================================
