---------------------------- MODULE HttpServer_proof ---------------------------
(***************************************************************************)
(* co_await nests like a call.  First for any coroutines used as TaskChain *)
(* allows: what is said of ChainNext rests on FrameAssumption alone and on *)
(* nothing of the server.  Then for the coroutines of an HTTP connection:  *)
(* every step of the server is one of TaskChain, or leaves the chain as is *)
(*                                                                         *)
(* On that rests that every request is answered.  The invariant relates    *)
(* four positions to the state: st, where the request at hand starts in    *)
(* the stream of the client; ls, where the line at hand starts; q, what    *)
(* has been read; and w, how much of the response has been sent.  What the *)
(* coroutines have in their locals is what stands between these positions, *)
(* and what the client sends later changes none of it.                     *)
(***************************************************************************)
EXTENDS HttpServer, FiniteSetTheorems, SequenceTheorems, WellFoundedInduction, TLAPS

(* A new task has no continuation and nobody awaits it, so that it becomes *)
(* the one child of its caller.                                            *)
LEMMA CallNests ==
    ASSUME CallsNest, NEW c \in Frame, NEW d \in Frame, Call(c, d)
    PROVE  CallsNest'
<1>1. /\ c # d
      /\ \A e \in Frame : continuation[e] # c /\ continuation[e] # d
  BY FrameAssumption DEF CallsNest, Call, GoesOn, HasResult, Runs
<1>2. /\ frame' \in [Frame -> {"none", "running", "awaiting", "waiting", "final"}]
      /\ continuation' \in [Frame -> Frame \cup {NoFrame}]
  BY DEF CallsNest, Call
<1>3. /\ frame'[c] = "awaiting" /\ frame'[d] = "running"
      /\ \A e \in Frame \ {c, d} : frame'[e] = frame[e]
  BY <1>1 DEF CallsNest, Call
<1>4. /\ continuation'[d] = c
      /\ \A e \in Frame \ {d} : continuation'[e] = continuation[e]
  BY DEF CallsNest, Call
<1>5. (\A a, b \in Frame : Runs(a) /\ Runs(b) => a = b)'
  BY <1>3 DEF CallsNest, Call, GoesOn, Runs
<1>6. (\A a \in Frame : frame[a] = "awaiting" => \E b \in Frame : continuation[b] = a)'
  <2> SUFFICES ASSUME NEW a \in Frame, frame'[a] = "awaiting"
               PROVE  \E b \in Frame : continuation'[b] = a
    OBVIOUS
  <2>1. CASE a = c
    BY <2>1, <1>4
  <2>2. CASE a # c
    <3>1. PICK b \in Frame : continuation[b] = a
      BY <2>2, <1>3 DEF CallsNest
    <3>2. b # d
      BY <3>1, FrameAssumption DEF CallsNest, Call
    <3> QED  BY <3>1, <3>2, <1>4
  <2> QED  BY <2>1, <2>2
<1>7. (\A a, b \in Frame : continuation[a] = continuation[b] /\ continuation[a] # NoFrame => a = b)'
  BY <1>1, <1>4 DEF CallsNest
<1>8. (\A a \in Frame : frame[a] = "none" => continuation[a] = NoFrame)'
  BY <1>3, <1>4 DEF CallsNest, Call, GoesOn, Runs
<1>9. (\A a \in Frame : continuation[a] # NoFrame =>
           frame[continuation[a]] = IF frame[a] = "final" THEN "running" ELSE "awaiting")'
  <2> SUFFICES ASSUME NEW a \in Frame, continuation'[a] # NoFrame
               PROVE  frame'[continuation'[a]] = IF frame'[a] = "final" THEN "running" ELSE "awaiting"
    OBVIOUS
  <2>1. CASE a = d
    BY <2>1, <1>3, <1>4
  <2>2. CASE a # d
    <3>1. continuation'[a] = continuation[a] /\ continuation[a] \in Frame \ {c, d}
      BY <2>2, <1>1, <1>4 DEF CallsNest
    <3>2. frame[continuation[a]] = IF frame[a] = "final" THEN "running" ELSE "awaiting"
      BY <3>1, FrameAssumption DEF CallsNest
    <3>3. frame'[continuation[a]] = frame[continuation[a]]
      BY <3>1, <1>3
    <3>4. frame[a] # "final"
      BY <3>1, <3>2 DEF CallsNest, Call, GoesOn, Runs
    <3>5. frame'[a] # "final"
      BY <3>4, <2>2, <1>3
    <3> QED  BY <3>1, <3>2, <3>3, <3>4, <3>5
  <2> QED  BY <2>1, <2>2
<1> QED  BY <1>2, <1>5, <1>6, <1>7, <1>8, <1>9 DEF CallsNest

(* A coroutine that ends has no child left; its continuation, which waited *)
(* for it alone, is the one that runs.                                     *)
LEMMA FinishNests ==
    ASSUME CallsNest, NEW d \in Frame, NEW result, Finish(d, result)
    PROVE  CallsNest'
<1>1. \A e \in Frame : continuation[e] # d
  BY FrameAssumption DEF CallsNest, Finish, GoesOn, HasResult, Runs
<1>2. /\ continuation' = continuation
      /\ continuation[d] # d
  BY <1>1 DEF Finish
<1>3. /\ frame' \in [Frame -> {"none", "running", "awaiting", "waiting", "final"}]
      /\ frame'[d] = "final"
      /\ continuation[d] # NoFrame => frame'[continuation[d]] = "running"
      /\ \A e \in Frame \ {d, continuation[d]} : frame'[e] = frame[e]
  BY <1>2 DEF CallsNest, Finish, Ended
<1>4. continuation[d] # NoFrame => frame[continuation[d]] = "awaiting"
  BY DEF CallsNest, Finish, GoesOn, Runs
<1>5. (\A a, b \in Frame : Runs(a) /\ Runs(b) => a = b)'
  BY <1>3 DEF CallsNest, Finish, GoesOn, Runs
<1>6. (\A a \in Frame : frame[a] = "awaiting" => \E b \in Frame : continuation[b] = a)'
  <2> SUFFICES ASSUME NEW a \in Frame, frame'[a] = "awaiting"
               PROVE  \E b \in Frame : continuation[b] = a
    BY <1>2
  <2>1. frame[a] = "awaiting"
    BY <1>3, FrameAssumption
  <2> QED  BY <2>1 DEF CallsNest
<1>7. (\A a \in Frame : frame[a] = "none" => continuation[a] = NoFrame)'
  BY <1>2, <1>3, FrameAssumption DEF CallsNest
<1>8. (\A a \in Frame : continuation[a] # NoFrame =>
           frame[continuation[a]] = IF frame[a] = "final" THEN "running" ELSE "awaiting")'
  <2> SUFFICES ASSUME NEW a \in Frame, continuation[a] # NoFrame
               PROVE  frame'[continuation[a]] = IF frame'[a] = "final" THEN "running" ELSE "awaiting"
    BY <1>2
  <2>1. CASE a = d
    BY <2>1, <1>3
  <2>2. CASE a # d
    <3>1. continuation[a] \in Frame \ {d, continuation[d]}
      BY <2>2, <1>1 DEF CallsNest
    <3>2. frame'[continuation[a]] = IF frame[a] = "final" THEN "running" ELSE "awaiting"
      BY <3>1, <1>3 DEF CallsNest
    <3>3. CASE a = continuation[d]
      BY <3>2, <3>3, <1>3, <1>4, FrameAssumption
    <3>4. CASE a # continuation[d]
      BY <2>2, <3>2, <3>4, <1>3
    <3> QED  BY <3>3, <3>4
  <2> QED  BY <2>1, <2>2
<1> QED  BY <1>2, <1>3, <1>5, <1>6, <1>7, <1>8 DEF CallsNest

(* A frame that is destroyed is done, and nobody waits for it any more.    *)
LEMMA FreedNests ==
    ASSUME CallsNest, NEW d \in Frame, frame[d] = "final", Freed(d)
    PROVE  CallsNest'
<1>1. \A e \in Frame : continuation[e] # d
  BY FrameAssumption DEF CallsNest
<1>2. /\ continuation' \in [Frame -> Frame \cup {NoFrame}]
      /\ continuation'[d] = NoFrame
      /\ \A e \in Frame \ {d} : continuation'[e] = continuation[e]
  BY DEF CallsNest, Freed
<1>3. /\ frame' \in [Frame -> {"none", "running", "awaiting", "waiting", "final"}]
      /\ frame'[d] = "none"
      /\ \A e \in Frame \ {d} : frame'[e] = frame[e]
  BY DEF CallsNest, Freed
<1>4. (\A a, b \in Frame : Runs(a) /\ Runs(b) => a = b)'
  BY <1>3 DEF CallsNest, Runs
<1>5. (\A a \in Frame : frame[a] = "awaiting" => \E b \in Frame : continuation[b] = a)'
  <2> SUFFICES ASSUME NEW a \in Frame, frame'[a] = "awaiting"
               PROVE  \E b \in Frame : continuation'[b] = a
    OBVIOUS
  <2>1. frame[a] = "awaiting"
    BY <1>3
  <2>2. PICK b \in Frame : continuation[b] = a
    BY <2>1 DEF CallsNest
  <2>3. b # d
    BY <2>1, <2>2, FrameAssumption DEF CallsNest
  <2> QED  BY <2>2, <2>3, <1>2
<1>6. (\A a, b \in Frame : continuation[a] = continuation[b] /\ continuation[a] # NoFrame => a = b)'
  BY <1>2 DEF CallsNest
<1>7. (\A a \in Frame : frame[a] = "none" => continuation[a] = NoFrame)'
  BY <1>2, <1>3 DEF CallsNest
<1>8. (\A a \in Frame : continuation[a] # NoFrame =>
           frame[continuation[a]] = IF frame[a] = "final" THEN "running" ELSE "awaiting")'
  <2> SUFFICES ASSUME NEW a \in Frame, continuation'[a] # NoFrame
               PROVE  frame'[continuation'[a]] = IF frame'[a] = "final" THEN "running" ELSE "awaiting"
    OBVIOUS
  <2>1. a # d /\ continuation'[a] = continuation[a]
    BY <1>2
  <2>2. continuation[a] \in Frame \ {d}
    BY <2>1, <1>1 DEF CallsNest
  <2> QED  BY <2>1, <2>2, <1>3 DEF CallsNest
<1> QED  BY <1>2, <1>3, <1>4, <1>5, <1>6, <1>7, <1>8 DEF CallsNest

(* A coroutine with neither a child nor a result changes its own state     *)
(* only: it starts, waits for an event, or is resumed by the loop.         *)
LEMMA LeafNests ==
    ASSUME CallsNest, NEW c \in Frame,
           SpawnRoot(c) \/ WaitForEvent(c) \/ ResumeByLoop(c)
    PROVE  CallsNest'
<1>1. /\ \A e \in Frame : continuation[e] # c
      /\ frame[c] # "final"
  BY FrameAssumption DEF CallsNest, SpawnRoot, WaitForEvent, ResumeByLoop, GoesOn, HasResult, Runs
<1>2. /\ continuation' = continuation
      /\ frame' \in [Frame -> {"none", "running", "awaiting", "waiting", "final"}]
      /\ frame'[c] \in {"running", "waiting"}
      /\ \A e \in Frame \ {c} : frame'[e] = frame[e]
  BY DEF CallsNest, SpawnRoot, WaitForEvent, ResumeByLoop
<1>3. (\A a, b \in Frame : Runs(a) /\ Runs(b) => a = b)'
  BY <1>2 DEF CallsNest, SpawnRoot, WaitForEvent, ResumeByLoop, GoesOn, NoneRuns, Runs
<1>4. (\A a \in Frame : frame[a] = "awaiting" => \E b \in Frame : continuation[b] = a)'
  BY <1>2 DEF CallsNest
<1>5. (\A a \in Frame : frame[a] = "none" => continuation[a] = NoFrame)'
  BY <1>2 DEF CallsNest
<1>6. (\A a \in Frame : continuation[a] # NoFrame =>
           frame[continuation[a]] = IF frame[a] = "final" THEN "running" ELSE "awaiting")'
  <2> SUFFICES ASSUME NEW a \in Frame, continuation[a] # NoFrame
               PROVE  frame'[continuation[a]] = IF frame'[a] = "final" THEN "running" ELSE "awaiting"
    BY <1>2
  <2>1. continuation[a] \in Frame \ {c}
    BY <1>1 DEF CallsNest
  <2>2. frame'[a] = "final" <=> frame[a] = "final"
    BY <1>1, <1>2
  <2> QED  BY <2>1, <2>2, <1>2 DEF CallsNest
<1> QED  BY <1>2, <1>3, <1>4, <1>5, <1>6 DEF CallsNest

LEMMA InitNests == ChainInit => CallsNest
  BY FrameAssumption DEF ChainInit, CallsNest, Runs

LEMMA StepNests == CallsNest /\ [ChainNext]_chain => CallsNest'
<1> SUFFICES ASSUME CallsNest, [ChainNext]_chain
             PROVE  CallsNest'
  OBVIOUS
<1>1. CASE UNCHANGED chain
  BY <1>1 DEF CallsNest, chain, Runs
<1>2. ASSUME NEW c \in Frame, SpawnRoot(c) \/ WaitForEvent(c) \/ ResumeByLoop(c)
      PROVE  CallsNest'
  BY <1>2, LeafNests
<1>3. ASSUME NEW c \in Frame, DestroyRoot(c)
      PROVE  CallsNest'
  BY <1>3, FreedNests DEF DestroyRoot
<1>4. ASSUME NEW c \in Frame, NEW d \in Frame, Call(c, d)
      PROVE  CallsNest'
  BY <1>4, CallNests
<1>5. ASSUME NEW c \in Frame, NEW d \in Frame, Collect(c, d)
      PROVE  CallsNest'
  BY <1>5, FreedNests DEF Collect, HasResult
<1>6. ASSUME NEW c \in Frame, NEW result, Finish(c, result)
      PROVE  CallsNest'
  BY <1>6, FinishNests
<1> QED  BY <1>1, <1>2, <1>3, <1>4, <1>5, <1>6 DEF ChainNext

(* Coroutines that co_await tasks (task.hpp) are active one at a time, and *)
(* every task hands over to the one coroutine that awaits it.              *)
THEOREM AwaitsNest == ChainSpec => []CallsNest
<1>1. ChainInit => CallsNest
  BY InitNests
<1>2. CallsNest /\ [ChainNext]_chain => CallsNest'
  BY StepNests
<1> QED  BY <1>1, <1>2, PTL DEF ChainSpec

--------------------------------------------------------------------------------

(* The connection.                                                         *)
LEMMA ServerStepsChain == [Next]_vars => [ChainNext]_chain
<1> SUFFICES ASSUME [Next]_vars
             PROVE  [ChainNext]_chain
  OBVIOUS
<1> USE HttpAssumption
<1>1. CASE UNCHANGED vars
  BY <1>1 DEF vars
<1>2. CASE ClientStep \/ ClientReads
  BY <1>2 DEF ClientStep, ClientSends, ClientShutsDown, ClientResets, ClientReads
<1>3. CASE AcceptAndHandle \/ Compact
  BY <1>3 DEF AcceptAndHandle, Compact, ChainNext
<1>4. CASE CallParseRequest \/ CallAsyncWrite \/ CallReadLine \/ CallAsyncRead
  BY <1>4 DEF CallParseRequest, CallAsyncWrite, CallReadLine, CallAsyncRead, ChainNext
<1>5. CASE ParseRequestReturns \/ AsyncWriteReturns \/ HandleClientCatches
  BY <1>5 DEF ParseRequestReturns, AsyncWriteReturns, HandleClientCatches, ChainNext
<1>6. CASE \/ ReadLineReturns \/ AsyncReadReturns
           \/ PassesOn("parse_request", "read_line") \/ PassesOn("read_line", "async_read")
  BY <1>6 DEF ReadLineReturns, AsyncReadReturns, PassesOn, ChainNext
<1>7. CASE HandleClientEnds \/ ParseRequestEnds \/ ReadLineEnds \/ ReadLineThrows
  BY <1>7 DEF HandleClientEnds, ParseRequestEnds, ReadLineEnds, ReadLineThrows, ChainNext
<1>8. CASE Recv \/ Send
  BY <1>8 DEF Recv, Send, ChainNext
<1>9. CASE Readable \/ Writable
  BY <1>9 DEF Readable, Writable, ChainNext
<1> QED
  BY <1>1, <1>2, <1>3, <1>4, <1>5, <1>6, <1>7, <1>8, <1>9 DEF Next, WorkerStep

(* Whatever the client sends, and wherever recv(), send() or a malformed   *)
(* request throws, the coroutines of the connection (main.cpp:77-237) nest *)
(* like calls, and none outlives the one that awaits it.                   *)
THEOREM ConnectionNests == Spec => []CallsNest
<1>1. HttpInit => CallsNest
  BY InitNests DEF HttpInit
<1>2. CallsNest /\ [Next]_vars => CallsNest'
  BY ServerStepsChain, StepNests
<1> QED  BY <1>1, <1>2, PTL DEF Spec

--------------------------------------------------------------------------------
(* Streams: what a position stands for in them, and what stays when they   *)
(* continue.                                                               *)

(* Positions of a stream s: where a line starts, the line end that follows *)
(* such a place, a stretch without a blank line.                           *)
LineStarts(s) == LineEnds(s) \cup {0}
EndsLine(s, l, e) == e \in LineEnds(s) /\ l < e /\ \A x \in LineEnds(s) : x <= l \/ e <= x
EndsHeaders(s, st, b) == b \in Blanks(s) /\ st < b /\ \A x \in Blanks(s) : x <= st \/ b <= x

(* The stream s continues as t.                                            *)
Continues(s, t) == Len(s) <= Len(t) /\ \A i \in 1 .. Len(s) : s[i] = t[i]

(* A set of naturals that is not empty has a least element.                *)
LEMMA LeastNatural ==
    ASSUME NEW T \in SUBSET Nat, T # {}
    PROVE  \E x \in T : \A y \in T : x <= y
<1> DEFINE R == OpToRel(<, Nat)
<1>1. IsWellFoundedOn(R, Nat)
  BY NatLessThanWellFounded
<1>2. \A x, y \in Nat : y < x => <<y, x>> \in R
  BY DEF OpToRel
<1> HIDE DEF R
<1>3. PICK x \in T : \A y \in T : ~ (<<y, x>> \in R)
  BY <1>1, WFMin
<1>4. ASSUME NEW y \in T
      PROVE  x <= y
  <2>1. x \in Nat /\ y \in Nat
    OBVIOUS
  <2>2. ~ (y < x)
    BY <1>2, <1>3, <2>1
  <2> QED  BY <2>1, <2>2
<1> QED  BY <1>4

(* Min() is that element.                                                  *)
LEMMA MinIsLeast ==
    ASSUME NEW T \in SUBSET Nat, NEW x \in T, \A y \in T : x <= y
    PROVE  Min(T) = x
<1>1. \E z \in T : \A y \in T : z <= y
  OBVIOUS
<1>2. Min(T) \in T /\ \A y \in T : Min(T) <= y
  BY <1>1 DEF Min
<1>3. x \in Nat /\ Min(T) \in Nat
  BY <1>2
<1> QED  BY <1>2, <1>3

(* Where Space() finds a space, and what stands before it.                 *)
LEMMA Spaces ==
    ASSUME NEW text \in Seq(Symbol)
    PROVE  /\ Space(text) \in 0 .. Len(text)
           /\ Space(text) > 0 => (Before(text) = <<>> <=> Space(text) = 1)
<1> DEFINE I == {i \in 1 .. Len(text) : text[i] = "sp"}
<1>1. Space(text) = IF I # {} THEN Min(I) ELSE 0
  BY DEF Space, SelectInSeq
<1>2. I \in SUBSET Nat
  OBVIOUS
<1>3. Space(text) \in 0 .. Len(text)
  <2>1. CASE I = {}
    BY <1>1, <2>1
  <2>2. CASE I # {}
    <3>1. PICK x \in I : \A y \in I : x <= y
      BY <1>2, <2>2, LeastNatural
    <3>2. Min(I) = x
      BY <1>2, <3>1, MinIsLeast
    <3> QED  BY <1>1, <2>2, <3>2
  <2> QED  BY <2>1, <2>2
<1>4. ASSUME Space(text) > 0
      PROVE  Before(text) = <<>> <=> Space(text) = 1
  <2>1. Before(text) = SubSeq(text, 1, Space(text) - 1)
    BY <1>3, <1>4 DEF Before
  <2>2. Len(Before(text)) = Space(text) - 1
    BY <1>3, <1>4, <2>1
  <2>3. Space(text) = 1 => Before(text) = <<>>
    BY <1>3, <2>1
  <2>4. Before(text) = <<>> => Len(Before(text)) = 0
    OBVIOUS
  <2> QED  BY <1>3, <2>2, <2>3, <2>4
<1> QED  BY <1>3, <1>4

(* An empty text has none.                                                 *)
LEMMA NoSpace == Space(<<>>) = 0
<1>1. 1 .. Len(<<>>) = {}
  OBVIOUS
<1> QED  BY <1>1 DEF Space, SelectInSeq

(* A line end takes two symbols, so that no line is shorter than that.     *)
LEMMA EndsAreFar ==
    ASSUME NEW s \in Seq(Symbol), NEW l \in LineStarts(s), NEW e \in LineEnds(s), l < e
    PROVE  l + 2 <= e
  BY DEF LineStarts, LineEnds

(* A line that ends has a first line end.                                  *)
LEMMA LineHasEnd ==
    ASSUME NEW s \in Seq(Symbol), NEW l \in Nat, NEW h \in LineEnds(s), l < h
    PROVE  \E e \in LineEnds(s) : e <= h /\ EndsLine(s, l, e)
<1> DEFINE T == {e \in LineEnds(s) : l < e}
<1>1. T \in SUBSET Nat /\ h \in T
  BY DEF LineEnds
<1>2. PICK e \in T : \A x \in T : e <= x
  BY <1>1, LeastNatural
<1>3. \A x \in LineEnds(s) : x <= l \/ e <= x
  BY <1>1, <1>2 DEF LineEnds
<1> QED  BY <1>1, <1>2, <1>3 DEF EndsLine

(* FirstLine() is the text up to it.                                       *)
LEMMA FirstLineIs ==
    ASSUME NEW s \in Seq(Symbol), NEW l \in Nat, NEW e, EndsLine(s, l, e)
    PROVE  FirstLine(s, l) = SubSeq(s, l + 1, e - 2)
<1> DEFINE T == {x \in LineEnds(s) : x > l}
<1>1. T \in SUBSET Nat /\ e \in T
  BY DEF LineEnds, EndsLine
<1>2. \A x \in T : e <= x
  BY <1>1 DEF EndsLine, LineEnds
<1>3. Min(T) = e
  BY <1>1, <1>2, MinIsLeast
<1> QED  BY <1>3 DEF FirstLine

(* The text of a line, and how long it is.                                 *)
LEMMA LineIsText ==
    ASSUME NEW s \in Seq(Symbol), NEW l \in LineStarts(s), NEW e, EndsLine(s, l, e)
    PROVE  /\ l \in Nat /\ e \in Nat /\ l + 2 <= e /\ e <= Len(s)
           /\ SubSeq(s, l + 1, e - 2) \in Seq(Symbol)
           /\ Len(SubSeq(s, l + 1, e - 2)) = e - 2 - l
           /\ FirstLine(s, l) = SubSeq(s, l + 1, e - 2)
<1>1. l \in Nat /\ e \in Nat /\ l + 2 <= e /\ e <= Len(s)
  BY EndsAreFar DEF EndsLine, LineEnds, LineStarts
<1>2. FirstLine(s, l) = SubSeq(s, l + 1, e - 2)
  BY <1>1, FirstLineIs
<1> QED  BY <1>1, <1>2

(* A line end is that of a blank line when it follows another directly.    *)
LEMMA BlankIsEmpty ==
    ASSUME NEW s \in Seq(Symbol), NEW l \in LineStarts(s), NEW e, EndsLine(s, l, e)
    PROVE  e \in Blanks(s) <=> e = l + 2
<1>1. l \in Nat /\ e \in Nat /\ l + 2 <= e
  BY LineIsText
<1>2. e = l + 2 => e \in Blanks(s)
  BY <1>1 DEF Blanks, LineStarts, EndsLine
<1>3. ASSUME e \in Blanks(s), e # l + 2
      PROVE  FALSE
  <2>1. e - 2 > l /\ e - 2 \in LineEnds(s)
    BY <1>1, <1>3 DEF Blanks
  <2> QED  BY <1>1, <2>1 DEF EndsLine
<1> QED  BY <1>2, <1>3

(* FirstLine() is a text when there is a line end.                         *)
LEMMA FirstLineIsText ==
    ASSUME NEW s \in Seq(Symbol), NEW l \in LineStarts(s), NEW h \in LineEnds(s), l < h
    PROVE  FirstLine(s, l) \in Seq(Symbol)
<1>1. l \in Nat
  BY DEF LineStarts, LineEnds
<1>2. PICK e \in LineEnds(s) : EndsLine(s, l, e)
  BY <1>1, LineHasEnd
<1> QED  BY <1>2, LineIsText

(* A request starts where a line starts, and both within the stream.       *)
LEMMA StartsAreStarts ==
    ASSUME NEW s \in Seq(Symbol)
    PROVE  /\ Blanks(s) \subseteq LineEnds(s) /\ Starts(s) \subseteq LineStarts(s)
           /\ Starts(s) \subseteq 0 .. Len(s) /\ LineStarts(s) \subseteq 0 .. Len(s)
           /\ LineEnds(s) \subseteq LineStarts(s) /\ Blanks(s) \subseteq Starts(s)
  BY DEF Blanks, Starts, LineStarts, LineEnds

(* A first line with a space is no blank one, so that the end of the       *)
(* headers is another line end.                                            *)
LEMMA HeadersComplete ==
    ASSUME NEW s \in Seq(Symbol), NEW st \in Starts(s), NEW b \in Blanks(s), st < b,
           Space(FirstLine(s, st)) > 0
    PROVE  \E e \in LineEnds(s) : EndsLine(s, st, e) /\ st < e /\ e < b
<1>1. st \in LineStarts(s) /\ st \in Nat /\ b \in LineEnds(s) /\ b \in Nat
  BY StartsAreStarts
<1>2. PICK e \in LineEnds(s) : e <= b /\ EndsLine(s, st, e)
  BY <1>1, LineHasEnd
<1>3. e \in Nat
  BY DEF LineEnds
<1>4. CASE e = b
  <2>1. e = st + 2
    BY <1>1, <1>2, <1>4, BlankIsEmpty
  <2>2. FirstLine(s, st) = SubSeq(s, st + 1, st)
    BY <1>1, <1>2, <2>1, LineIsText
  <2>3. FirstLine(s, st) = <<>>
    BY <1>1, <2>2
  <2> QED  BY <2>3, NoSpace
<1> QED  BY <1>1, <1>2, <1>3, <1>4 DEF EndsLine
--------------------------------------------------------------------------------

(* What has arrived of a stream keeps its meaning when more arrives.       *)
LEMMA EndsStay ==
    ASSUME NEW s \in Seq(Symbol), NEW t \in Seq(Symbol), Continues(s, t)
    PROVE  /\ \A e : e \in LineEnds(s) <=> e \in LineEnds(t) /\ e <= Len(s)
           /\ \A e : e \in Blanks(s) <=> e \in Blanks(t) /\ e <= Len(s)
           /\ \A e : e \in LineStarts(s) <=> e \in LineStarts(t) /\ e <= Len(s)
           /\ \A e : e \in Starts(s) <=> e \in Starts(t) /\ e <= Len(s)
<1>1. \A e : e \in LineEnds(s) <=> e \in LineEnds(t) /\ e <= Len(s)
  BY DEF LineEnds, Continues
<1>2. \A e : e \in Blanks(s) <=> e \in Blanks(t) /\ e <= Len(s)
  <2>1. ASSUME NEW e \in LineEnds(t), e <= Len(s)
        PROVE  e - 2 \in LineEnds(s) <=> e - 2 \in LineEnds(t)
    <3>1. e \in Nat /\ e - 2 <= Len(s)
      BY <2>1 DEF LineEnds
    <3> QED  BY <1>1, <3>1
  <2> QED  BY <1>1, <2>1 DEF Blanks
<1> QED  BY <1>1, <1>2 DEF LineStarts, Starts

(* A line that has ended stays what it is when the stream continues.       *)
LEMMA LinesStay ==
    ASSUME NEW s \in Seq(Symbol), NEW t \in Seq(Symbol), Continues(s, t),
           NEW l \in LineStarts(t), NEW h \in LineEnds(t), l < h, h <= Len(s)
    PROVE  FirstLine(s, l) = FirstLine(t, l)
<1>1. l \in Nat /\ h \in LineEnds(s) /\ l \in LineStarts(s)
  <2>1. LineStarts(t) \subseteq 0 .. Len(t) /\ LineEnds(t) \subseteq LineStarts(t) /\ Len(s) \in Nat
    BY StartsAreStarts
  <2>2. l \in Nat /\ h \in Nat /\ l <= Len(s)
    BY <2>1
  <2> QED  BY <2>2, EndsStay
<1>2. PICK e \in LineEnds(s) : e <= h /\ EndsLine(s, l, e)
  BY <1>1, LineHasEnd
<1>3. e \in LineEnds(t) /\ e \in Nat /\ e <= Len(s)
  BY EndsStay DEF LineEnds
<1>4. EndsLine(t, l, e)
  <2>1. SUFFICES ASSUME NEW x \in LineEnds(t), ~ (x <= l)
                 PROVE  e <= x
    BY <1>2, <1>3 DEF EndsLine
  <2>2. CASE x <= Len(s)
    BY <1>2, <2>1, <2>2, EndsStay DEF EndsLine
  <2>3. CASE x > Len(s)
    BY <1>3, <2>3 DEF LineEnds
  <2> QED  BY <2>2, <2>3 DEF LineEnds
<1>5. /\ FirstLine(s, l) = SubSeq(s, l + 1, e - 2)
      /\ FirstLine(t, l) = SubSeq(t, l + 1, e - 2)
      /\ l + 2 <= e
  BY <1>1, <1>2, <1>4, LineIsText
<1>6. SubSeq(s, l + 1, e - 2) = SubSeq(t, l + 1, e - 2)
  BY <1>1, <1>3, <1>5 DEF Continues
<1> QED  BY <1>5, <1>6

(* A request that is complete stays so.                                    *)
LEMMA CompleteStays ==
    ASSUME NEW s \in Seq(Symbol), NEW t \in Seq(Symbol), Continues(s, t),
           NEW c \in Starts(s), Complete(s, c)
    PROVE  Complete(t, c)
<1>1. PICK e \in LineEnds(s), b \in Blanks(s) : c < e /\ e < b
  BY DEF Complete
<1>2. /\ e \in LineEnds(t) /\ b \in Blanks(t) /\ e <= Len(s) /\ c \in LineStarts(t)
  BY EndsStay, StartsAreStarts
<1>3. FirstLine(s, c) = FirstLine(t, c)
  BY <1>1, <1>2, LinesStay
<1> QED  BY <1>1, <1>2, <1>3 DEF Complete

(* A request that is followed by another one was complete by then.         *)
LEMMA CompleteBefore ==
    ASSUME NEW s \in Seq(Symbol), NEW t \in Seq(Symbol), Continues(s, t),
           NEW c \in Starts(t), Complete(t, c), NEW b \in Blanks(t), c < b, b <= Len(s)
    PROVE  Complete(s, c)
<1>1. Space(FirstLine(t, c)) > 1
  BY DEF Complete
<1>2. c \in LineStarts(t) /\ c \in Nat /\ b \in LineEnds(t) /\ b \in Nat
  BY StartsAreStarts
<1>3. FirstLine(t, c) \in Seq(Symbol)
  BY <1>2, FirstLineIsText
<1>4. Space(FirstLine(t, c)) > 0
  BY <1>1, <1>3, Spaces
<1>5. PICK e \in LineEnds(t) : c < e /\ e < b
  BY <1>4, HeadersComplete
<1>6. e \in LineEnds(s) /\ b \in Blanks(s)
  BY <1>2, <1>5, EndsStay DEF LineEnds
<1>7. FirstLine(s, c) = FirstLine(t, c)
  BY <1>2, LinesStay
<1> QED  BY <1>1, <1>5, <1>6, <1>7 DEF Complete

--------------------------------------------------------------------------------
(* The place of a request in the stream and in what is sent.               *)
Reached(s, st) == st \in Starts(s) /\ \A c \in Starts(s) : c < st => Complete(s, c)
Rank(s, st) == Size * Cardinality(Earlier(s, st))

(* All before st are complete: they stay so,                               *)
LEMMA ReachedStays ==
    ASSUME NEW s \in Seq(Symbol), NEW t \in Seq(Symbol), Continues(s, t),
           NEW st, Reached(s, st)
    PROVE  Reached(t, st)
<1>1. st \in Starts(t) /\ st <= Len(s) /\ st \in Nat
  BY EndsStay, StartsAreStarts DEF Reached
<1>2. ASSUME NEW c \in Starts(t), c < st
      PROVE  Complete(t, c)
  <2>1. c \in Nat
    BY StartsAreStarts
  <2>2. c <= Len(s)
    BY <1>1, <1>2, <2>1
  <2>3. c \in Starts(s)
    BY <2>2, EndsStay
  <2>4. Complete(s, c)
    BY <1>2, <2>3 DEF Reached
  <2> QED  BY <2>3, <2>4, CompleteStays
<1> QED  BY <1>1, <1>2 DEF Reached

(* and they were when the stream had come as far as st.                    *)
LEMMA ReachedBefore ==
    ASSUME NEW s \in Seq(Symbol), NEW t \in Seq(Symbol), Continues(s, t),
           NEW st, Reached(t, st), st <= Len(s)
    PROVE  Reached(s, st)
<1>1. st \in Starts(t) /\ st \in Starts(s) /\ st \in Nat
  BY EndsStay, StartsAreStarts DEF Reached
<1>2. ASSUME NEW c \in Starts(s), c < st
      PROVE  Complete(s, c)
  <2>1. c \in Starts(t) /\ c \in Nat
    BY EndsStay, StartsAreStarts
  <2>2. Complete(t, c)
    BY <1>2, <2>1 DEF Reached
  <2>3. st \in Blanks(t)
    BY <1>1, <1>2, <2>1 DEF Starts
  <2> QED  BY <1>2, <2>1, <2>2, <2>3, CompleteBefore
<1> QED  BY <1>1, <1>2 DEF Reached

(* The requests before one that is reached are those that start before it. *)
LEMMA EarlierIs ==
    ASSUME NEW s \in Seq(Symbol), NEW st, Reached(s, st)
    PROVE  /\ Earlier(s, st) = {c \in Starts(s) : c < st}
           /\ Complete(s, st) => st \in Answered(s)
           /\ ~Complete(s, st) => Answered(s) = Earlier(s, st)
<1>1. \A c \in Starts(s) : c \in Nat
  BY StartsAreStarts
<1>2. st \in Starts(s) /\ \A c \in Starts(s) : ~Complete(s, c) => st <= c
  BY <1>1 DEF Reached
<1>3. ASSUME NEW c \in Starts(s), c < st
      PROVE  c \in Answered(s)
  BY <1>1, <1>2, <1>3 DEF Answered
<1>4. Earlier(s, st) = {c \in Starts(s) : c < st}
  BY <1>3 DEF Earlier, Answered
<1>5. ASSUME Complete(s, st)
      PROVE  st \in Answered(s)
  BY <1>1, <1>2, <1>5 DEF Answered
<1>6. ASSUME ~Complete(s, st), NEW a \in Answered(s)
      PROVE  a \in Earlier(s, st)
  BY <1>2, <1>6 DEF Answered, Earlier
<1> QED  BY <1>4, <1>5, <1>6 DEF Earlier

(* They stay the same,                                                     *)
LEMMA EarlierStays ==
    ASSUME NEW s \in Seq(Symbol), NEW t \in Seq(Symbol), Continues(s, t),
           NEW st, Reached(s, st)
    PROVE  Earlier(s, st) = Earlier(t, st) /\ Rank(s, st) = Rank(t, st)
<1>1. Reached(t, st) /\ st <= Len(s) /\ st \in Nat
  BY ReachedStays, StartsAreStarts DEF Reached
<1>2. ASSUME NEW c, c < st
      PROVE  c \in Starts(s) <=> c \in Starts(t)
  <2>1. c \in Starts(t) => c \in Nat
    BY StartsAreStarts
  <2>2. c \in Starts(t) => c <= Len(s)
    BY <1>1, <1>2, <2>1
  <2> QED  BY <2>2, EndsStay
<1>3. Earlier(s, st) = {c \in Starts(s) : c < st} /\ Earlier(t, st) = {c \in Starts(t) : c < st}
  BY <1>1, EarlierIs
<1>4. Earlier(s, st) = Earlier(t, st)
  BY <1>2, <1>3
<1> QED  BY <1>4 DEF Rank

(* and each of them is reached and complete.                               *)
LEMMA EarlierReached ==
    ASSUME NEW s \in Seq(Symbol), NEW st, Reached(s, st), NEW a \in Earlier(s, st)
    PROVE  Reached(s, a) /\ Complete(s, a) /\ a < st /\ a \in Starts(s)
<1>1. a \in Starts(s) /\ a < st
  BY EarlierIs
<1>2. \A c \in Starts(s) : c \in Nat
  BY StartsAreStarts
<1>3. st \in Nat
  BY <1>2 DEF Reached
<1> QED  BY <1>1, <1>2, <1>3 DEF Reached

(* What is owed, and what is owed before a request, are naturals.          *)
LEMMA Ranks ==
    ASSUME NEW s \in Seq(Symbol), NEW st
    PROVE  /\ IsFiniteSet(Answered(s)) /\ IsFiniteSet(Earlier(s, st))
           /\ Cardinality(Answered(s)) \in Nat /\ Cardinality(Earlier(s, st)) \in Nat
           /\ Rank(s, st) \in Nat /\ Owed(s) \in Nat
<1>1. Len(s) \in Nat
  OBVIOUS
<1>2. IsFiniteSet(0 .. Len(s))
  BY <1>1, FS_Interval
<1>3. Answered(s) \subseteq 0 .. Len(s)
  BY StartsAreStarts DEF Answered
<1>4. IsFiniteSet(Answered(s)) /\ Cardinality(Answered(s)) \in Nat
  BY <1>2, <1>3, FS_Subset, FS_CardinalityType
<1>5. Earlier(s, st) \subseteq Answered(s)
  BY DEF Earlier
<1>6. IsFiniteSet(Earlier(s, st)) /\ Cardinality(Earlier(s, st)) \in Nat
  BY <1>4, <1>5, FS_Subset, FS_CardinalityType
<1>7. Size \in Nat
  BY HttpAssumption
<1>8. \A n \in Nat : Size * n \in Nat
  BY <1>7
<1> QED  BY <1>4, <1>6, <1>8 DEF Rank, Owed

(* How a multiple of Size grows.                                           *)
LEMMA Times ==
    ASSUME NEW m \in Nat, NEW n \in Nat, m <= n
    PROVE  Size * m <= Size * n /\ Size * (m + 1) = Size * m + Size
<1>1. Size \in Nat
  BY HttpAssumption
<1> QED  BY <1>1

(* The responses to the requests before the one at b include that to the   *)
(* one at a, when a is answered and comes before.                          *)
LEMMA RankGrows ==
    ASSUME NEW s \in Seq(Symbol), NEW a \in Answered(s), NEW b \in Nat, a < b
    PROVE  Rank(s, a) + Size <= Rank(s, b)
<1>1. a \in Nat /\ \A x \in Answered(s) : x \in Nat
  BY StartsAreStarts DEF Answered
<1>2. Earlier(s, a) \cup {a} \subseteq Earlier(s, b) /\ a \notin Earlier(s, a)
  <2>1. \A x \in Earlier(s, a) : x \in Answered(s) /\ x < a
    BY DEF Earlier
  <2>2. ASSUME NEW x \in Earlier(s, a)
        PROVE  x < b
    <3>1. x \in Nat /\ x < a
      BY <1>1, <2>1
    <3> QED  BY <1>1, <3>1
  <2>3. a \notin Earlier(s, a)
    BY <1>1, <2>1
  <2> QED  BY <2>1, <2>2, <2>3 DEF Earlier
<1>3. Cardinality(Earlier(s, a) \cup {a}) = Cardinality(Earlier(s, a)) + 1
  BY <1>2, Ranks, FS_AddElement
<1>4. Cardinality(Earlier(s, a) \cup {a}) <= Cardinality(Earlier(s, b))
  BY <1>2, Ranks, FS_Subset
<1>5. Cardinality(Earlier(s, a)) \in Nat /\ Cardinality(Earlier(s, b)) \in Nat
  BY Ranks
<1>6. /\ Size * (Cardinality(Earlier(s, a)) + 1) <= Size * Cardinality(Earlier(s, b))
      /\ Size * (Cardinality(Earlier(s, a)) + 1) = Size * Cardinality(Earlier(s, a)) + Size
  BY <1>3, <1>4, <1>5, Times
<1> QED  BY <1>6 DEF Rank

(* What is owed in all is at least what is owed up to any request.         *)
LEMMA RankOwed ==
    ASSUME NEW s \in Seq(Symbol), NEW a
    PROVE  /\ Rank(s, a) <= Owed(s)
           /\ a \in Answered(s) => Rank(s, a) + Size <= Owed(s)
<1>1. \A x \in Answered(s) : x \in Nat
  BY StartsAreStarts DEF Answered
<1>2. Cardinality(Earlier(s, a)) \in Nat /\ Cardinality(Answered(s)) \in Nat
  BY Ranks
<1>3. Earlier(s, a) \subseteq Answered(s)
  BY DEF Earlier
<1>4. Cardinality(Earlier(s, a)) <= Cardinality(Answered(s))
  BY <1>3, Ranks, FS_Subset
<1>5. ASSUME a \in Answered(s)
      PROVE  Cardinality(Earlier(s, a)) + 1 <= Cardinality(Answered(s))
  <2>1. Earlier(s, a) \cup {a} \subseteq Answered(s) /\ a \notin Earlier(s, a)
    BY <1>1, <1>5 DEF Earlier
  <2>2. Cardinality(Earlier(s, a) \cup {a}) = Cardinality(Earlier(s, a)) + 1
    BY <2>1, Ranks, FS_AddElement
  <2>3. Cardinality(Earlier(s, a) \cup {a}) <= Cardinality(Answered(s))
    BY <2>1, Ranks, FS_Subset
  <2> QED  BY <2>2, <2>3
<1>6. Rank(s, a) <= Owed(s)
  BY <1>2, <1>4, Times DEF Rank, Owed
<1>7. ASSUME a \in Answered(s)
      PROVE  Rank(s, a) + Size <= Owed(s)
  <2>1. /\ Size * (Cardinality(Earlier(s, a)) + 1) <= Size * Cardinality(Answered(s))
        /\ Size * (Cardinality(Earlier(s, a)) + 1) = Size * Cardinality(Earlier(s, a)) + Size
    BY <1>2, <1>5, <1>7, Times
  <2> QED  BY <2>1 DEF Rank, Owed
<1> QED  BY <1>6, <1>7

(* The blank line that ends a complete request starts the next one.        *)
LEMMA NextRequest ==
    ASSUME NEW s \in Seq(Symbol), NEW st, Reached(s, st), Complete(s, st),
           NEW b, EndsHeaders(s, st, b)
    PROVE  /\ Reached(s, b)
           /\ Earlier(s, b) = Earlier(s, st) \cup {st} /\ st \notin Earlier(s, st)
           /\ Rank(s, b) = Rank(s, st) + Size
<1>1. /\ st \in Starts(s) /\ b \in Blanks(s) /\ b \in Starts(s) /\ st < b
      /\ \A c \in Starts(s) : c \in Nat
  BY StartsAreStarts DEF Reached, EndsHeaders
<1>2. ASSUME NEW c \in Starts(s)
      PROVE  c < b <=> c < st \/ c = st
  <2>1. c \in Nat /\ st \in Nat /\ b \in Nat
    BY <1>1
  <2>2. CASE c \in Blanks(s)
    BY <1>1, <2>1, <2>2 DEF EndsHeaders
  <2>3. CASE c = 0
    BY <1>1, <2>1, <2>3
  <2> QED  BY <2>2, <2>3 DEF Starts
<1>3. Reached(s, b)
  BY <1>1, <1>2 DEF Reached
<1>4. /\ Earlier(s, b) = {c \in Starts(s) : c < b}
      /\ Earlier(s, st) = {c \in Starts(s) : c < st}
  BY <1>3, EarlierIs
<1>5. Earlier(s, b) = Earlier(s, st) \cup {st} /\ st \notin Earlier(s, st)
  BY <1>1, <1>2, <1>4
<1>6. Cardinality(Earlier(s, b)) = Cardinality(Earlier(s, st)) + 1
  BY <1>5, Ranks, FS_AddElement
<1>7. Rank(s, b) = Rank(s, st) + Size
  <2>1. Cardinality(Earlier(s, st)) \in Nat
    BY Ranks
  <2>2. Size * (Cardinality(Earlier(s, st)) + 1) = Size * Cardinality(Earlier(s, st)) + Size
    BY <2>1, Times
  <2> QED  BY <1>6, <2>2 DEF Rank
<1> QED  BY <1>3, <1>5, <1>7

--------------------------------------------------------------------------------
Page == {"index", "hello", "json", "404", "405"}

(* W are the responses to the requests before st and w of that to st.      *)
Sent(W, s, st, w) ==
    /\ w \in 0 .. Size
    /\ w > 0 => Complete(s, st)
    /\ Len(W) = Rank(s, st) + w
    /\ \A a \in Earlier(s, st) : \A i \in 1 .. Size :
           W[Rank(s, a) + i] = Route(Parse(FirstLine(s, a)))
    /\ \A i \in 1 .. w : W[Rank(s, st) + i] = Route(Parse(FirstLine(s, st)))

(* The request line of a complete request stays.                           *)
LEMMA CompleteLineStays ==
    ASSUME NEW s \in Seq(Symbol), NEW t \in Seq(Symbol), Continues(s, t),
           NEW c \in Starts(s), Complete(s, c)
    PROVE  FirstLine(s, c) = FirstLine(t, c)
<1>1. PICK e \in LineEnds(s) : c < e
  BY DEF Complete
<1>2. e \in LineEnds(t) /\ e <= Len(s) /\ c \in LineStarts(t)
  BY EndsStay, StartsAreStarts
<1> QED  BY <1>1, <1>2, LinesStay

(* What has been sent stays the answer to what has been asked,             *)
LEMMA SentStays ==
    ASSUME NEW s \in Seq(Symbol), NEW t \in Seq(Symbol), Continues(s, t),
           NEW st, Reached(s, st), NEW W, NEW w, Sent(W, s, st, w)
    PROVE  Sent(W, t, st, w)
<1>1. Earlier(s, st) = Earlier(t, st) /\ Rank(s, st) = Rank(t, st) /\ st \in Starts(s)
  BY EarlierStays DEF Reached
<1>2. w > 0 => Complete(t, st) /\ FirstLine(s, st) = FirstLine(t, st)
  BY <1>1, CompleteStays, CompleteLineStays DEF Sent
<1>3. ASSUME NEW a \in Earlier(t, st)
      PROVE  Rank(s, a) = Rank(t, a) /\ FirstLine(s, a) = FirstLine(t, a)
  <2>1. Reached(s, a) /\ Complete(s, a) /\ a \in Starts(s)
    BY <1>1, EarlierReached
  <2> QED  BY <2>1, EarlierStays, CompleteLineStays
<1>4. \A i \in 1 .. w : W[Rank(t, st) + i] = Route(Parse(FirstLine(t, st)))
  <2>1. CASE w > 0
    BY <1>1, <1>2, <2>1 DEF Sent
  <2>2. CASE ~ (w > 0)
    BY <2>2 DEF Sent
  <2> QED  BY <2>1, <2>2
<1> QED  BY <1>1, <1>2, <1>3, <1>4 DEF Sent

(* after a whole response it is so up to the next request,                 *)
LEMMA SentAll ==
    ASSUME NEW s \in Seq(Symbol), NEW st, Reached(s, st), Complete(s, st),
           NEW b, EndsHeaders(s, st, b), NEW W, Sent(W, s, st, Size)
    PROVE  Sent(W, s, b, 0)
<1>1. Earlier(s, b) = Earlier(s, st) \cup {st} /\ Rank(s, b) = Rank(s, st) + Size
  BY NextRequest
<1>2. Size \in Nat /\ Rank(s, st) \in Nat
  BY HttpAssumption, Ranks
<1>3. Len(W) = Rank(s, b) + 0
  BY <1>1, <1>2 DEF Sent
<1>4. ASSUME NEW a \in Earlier(s, b), NEW i \in 1 .. Size
      PROVE  W[Rank(s, a) + i] = Route(Parse(FirstLine(s, a)))
  BY <1>1, <1>4 DEF Sent
<1> QED  BY <1>2, <1>3, <1>4 DEF Sent

(* and after a part of it, further into the response.                      *)
LEMMA SentMore ==
    ASSUME NEW s \in Seq(Symbol), NEW st, Reached(s, st), Complete(s, st),
           NEW W \in Seq(Page), NEW w, Sent(W, s, st, w),
           NEW count \in 1 .. Size - w,
           NEW r, r = Response(Parse(FirstLine(s, st)))
    PROVE  /\ W \o SubSeq(r, w + 1, w + count) \in Seq(Page)
           /\ Sent(W \o SubSeq(r, w + 1, w + count), s, st, w + count)
<1> DEFINE value == Route(Parse(FirstLine(s, st)))
           V == SubSeq(r, w + 1, w + count)
<1>1. w \in Nat /\ Size \in Nat /\ count \in Nat /\ w + count <= Size /\ Rank(s, st) \in Nat
  BY HttpAssumption, Ranks DEF Sent
<1>2. value \in Page
  BY DEF Route, Page
<1>3. \A i \in 1 .. Size : r[i] = value
  BY DEF Response
<1> HIDE DEF value
<1>4. V \in Seq(Page) /\ Len(V) = count /\ \A i \in 1 .. count : V[i] = value
  <2>1. ASSUME NEW i \in w + 1 .. w + count
        PROVE  r[i] \in Page
    <3>1. i \in 1 .. Size
      BY <1>1
    <3> QED  BY <1>2, <1>3, <3>1
  <2>2. /\ V \in Seq(Page)
        /\ Len(V) = IF w + 1 <= w + count THEN w + count - (w + 1) + 1 ELSE 0
        /\ \A i \in 1 .. w + count - (w + 1) + 1 : V[i] = r[w + 1 + i - 1]
    BY <1>1, <2>1, SubSeqProperties
  <2>3. \A i \in 1 .. count : w + 1 + i - 1 \in 1 .. Size /\ i \in 1 .. w + count - (w + 1) + 1
    BY <1>1
  <2> HIDE DEF V
  <2>4. Len(V) = count
    BY <1>1, <2>2
  <2> QED  BY <1>3, <2>2, <2>3, <2>4
<1> HIDE DEF V
<1>5. /\ W \o V \in Seq(Page) /\ Len(W \o V) = Len(W) + count
      /\ \A i \in 1 .. Len(W) : (W \o V)[i] = W[i]
      /\ \A i \in 1 .. count : (W \o V)[Len(W) + i] = value
  BY <1>1, <1>4
<1>6. Len(W) = Rank(s, st) + w
  BY DEF Sent
<1>7. ASSUME NEW a \in Earlier(s, st), NEW i \in 1 .. Size
      PROVE  (W \o V)[Rank(s, a) + i] = Route(Parse(FirstLine(s, a)))
  <2>1. a \in Answered(s) /\ a < st /\ st \in Nat
    BY StartsAreStarts DEF Earlier, Reached
  <2>2. Rank(s, a) + Size <= Rank(s, st) /\ Rank(s, a) \in Nat
    BY <2>1, RankGrows, Ranks
  <2>3. Rank(s, a) + i \in 1 .. Len(W)
    BY <1>1, <1>6, <2>2
  <2> QED  BY <1>5, <2>3 DEF Sent
<1>8. ASSUME NEW i \in 1 .. w + count
      PROVE  (W \o V)[Rank(s, st) + i] = value
  <2>1. CASE i <= w
    <3>1. Rank(s, st) + i \in 1 .. Len(W) /\ i \in 1 .. w
      BY <1>1, <1>6, <2>1
    <3>2. W[Rank(s, st) + i] = value
      BY <3>1 DEF Sent, value
    <3> QED  BY <1>5, <3>1, <3>2
  <2>2. CASE i > w
    <3>1. i - w \in 1 .. count /\ Rank(s, st) + i = Len(W) + (i - w)
      BY <1>1, <1>6, <2>2
    <3> QED  BY <1>5, <3>1
  <2>3. i <= w \/ i > w
    BY <1>1
  <2> QED  BY <2>1, <2>2, <2>3
<1>9. /\ w + count \in 0 .. Size
      /\ Len(W \o V) = Rank(s, st) + (w + count)
  BY <1>1, <1>5, <1>6
<1>10. \A i \in 1 .. w + count : (W \o V)[Rank(s, st) + i] = Route(Parse(FirstLine(s, st)))
  BY <1>8 DEF value
<1>11. Sent(W \o V, s, st, w + count)
  BY <1>7, <1>9, <1>10 DEF Sent
<1> QED  BY <1>5, <1>11 DEF V

(* No more has been sent than is owed, and each part of it is as asked.    *)
LEMMA SentIsAsked ==
    ASSUME NEW s \in Seq(Symbol), NEW st, Reached(s, st), NEW w, Sent(wire, s, st, w)
    PROVE  Len(wire) <= Owed(s) /\ AsAsked(s)
<1>1. /\ w \in Nat /\ Size \in Nat /\ w <= Size /\ Len(wire) = Rank(s, st) + w
      /\ Rank(s, st) \in Nat /\ Owed(s) \in Nat
      /\ st \in Nat /\ \A a \in Answered(s) : a \in Nat
  <2>1. w \in Nat /\ Size \in Nat /\ w <= Size /\ Len(wire) = Rank(s, st) + w
    BY HttpAssumption DEF Sent
  <2>2. st \in Nat /\ \A a \in Answered(s) : a \in Nat
    BY StartsAreStarts DEF Reached, Answered
  <2> QED  BY <2>1, <2>2, Ranks
<1>2. Len(wire) <= Owed(s)
  <2>1. CASE w = 0
    BY <1>1, <2>1, RankOwed
  <2>2. CASE w > 0
    <3>1. st \in Answered(s)
      BY <2>2, EarlierIs DEF Sent
    <3> QED  BY <1>1, <3>1, RankOwed
  <2> QED  BY <1>1, <2>1, <2>2
<1>3. ASSUME NEW a \in Answered(s), NEW i \in 1 .. Size, Rank(s, a) + i <= Len(wire)
      PROVE  wire[Rank(s, a) + i] = Route(Parse(FirstLine(s, a)))
  <2>1. a \in Nat /\ Rank(s, a) \in Nat
    BY <1>1, Ranks
  <2>2. CASE a < st
    BY <2>2 DEF Sent, Earlier
  <2>3. CASE a = st
    <3>1. i \in 1 .. w
      BY <1>1, <1>3, <2>3
    <3> QED  BY <2>3, <3>1 DEF Sent
  <2>4. CASE a > st
    <3>1. st \in Answered(s)
      BY <2>4, <1>1, StartsAreStarts DEF Answered, Reached
    <3>2. Rank(s, st) + Size <= Rank(s, a)
      BY <2>1, <2>4, <3>1, RankGrows
    <3> QED  BY <1>1, <1>3, <2>1, <3>2
  <2> QED  BY <1>1, <2>1, <2>2, <2>3, <2>4
<1>4. AsAsked(s)
  BY <1>3 DEF AsAsked, Rank
<1> QED  BY <1>2, <1>4

--------------------------------------------------------------------------------
(* Who is alive, where it is, and what it has left.                        *)

Alive(c) == frame[c] # "none"

TypesOK ==
    /\ input \in Seq(Symbol) /\ position \in 0 .. Len(input) /\ total \in 0 .. Size
    /\ eof \in BOOLEAN /\ broken \in BOOLEAN
    /\ DOMAIN pc = Frame /\ DOMAIN outcome = Frame

(* Who awaits whom, and where each is while it does.                       *)
Caller(d) ==
    CASE d \in {"parse_request", "async_write"} -> "handle_client"
      [] d = "read_line" -> "parse_request"
      [] d = "async_read" -> "read_line"

AtCall(d) ==
    CASE d = "parse_request" -> {"parsing"}
      [] d = "async_write" -> {"writing"}
      [] d = "read_line" -> {"request line", "headers"}
      [] d = "async_read" -> {"reading"}

Nesting ==
    \A d \in Frame \ {"handle_client"} :
        Alive(d) => continuation[d] = Caller(d) /\ pc[Caller(d)] \in AtCall(d)

(* Where a coroutine can be, and what it has left when it is done.         *)
Places ==
    /\ pc["handle_client"] \in {"start", "parse", "parsing", "respond", "writing", "end"}
    /\ Alive("parse_request") => pc["parse_request"] \in {"request line", "headers", "return", "throw"}
    /\ Alive("read_line") => pc["read_line"] \in {"read", "reading", "return", "throw"}

Results ==
    /\ frame["handle_client"] = "final" => pc["handle_client"] = "end"
    /\ ~open => pc["handle_client"] = "end"
    /\ frame["parse_request"] = "final" =>
           /\ pc["parse_request"] \in {"return", "throw"}
           /\ outcome["parse_request"] = IF pc["parse_request"] = "throw" THEN Throws ELSE Returns(request)
    /\ frame["read_line"] = "final" =>
           /\ pc["read_line"] \in {"return", "throw"}
           /\ outcome["read_line"] = IF pc["read_line"] = "throw" THEN Throws ELSE Returns(line)
    /\ frame["async_write"] = "final" =>
           \/ outcome["async_write"] = Throws /\ broken
           \/ outcome["async_write"] = Returns(<<>>) /\ total = Size

Control == TypesOK /\ Nesting /\ Places /\ Results

(* What each step of TaskChain does to who is alive, and who is done.      *)
LEMMA CallEffect ==
    ASSUME CallsNest, NEW c \in Frame, NEW d \in Frame, Call(c, d)
    PROVE  /\ \A e \in Frame : frame'[e] # "none" <=> e = d \/ frame[e] # "none"
           /\ \A e \in Frame : frame'[e] = "final" <=> frame[e] = "final"
           /\ \A e \in Frame : frame'[e] = "waiting" <=> frame[e] = "waiting"
           /\ \A e \in Frame : continuation'[e] = IF e = d THEN c ELSE continuation[e]
           /\ \A e \in Frame : continuation[e] # c
           /\ outcome' = outcome
           /\ frame[c] = "running" /\ frame[d] = "none" /\ frame'[d] = "running"
  BY FrameAssumption DEF CallsNest, Call, GoesOn, HasResult, Runs

(* A coroutine that ends runs no more, and who awaits it does.             *)
LEMMA FinishEffect ==
    ASSUME CallsNest, NEW d \in Frame, NEW result, Finish(d, result)
    PROVE  /\ \A e \in Frame : frame'[e] # "none" <=> frame[e] # "none"
           /\ \A e \in Frame : frame'[e] = "final" <=> e = d \/ frame[e] = "final"
           /\ \A e \in Frame : frame'[e] = "waiting" <=> frame[e] = "waiting"
           /\ continuation' = continuation
           /\ \A e \in Frame : continuation[e] # d
           /\ DOMAIN outcome' = DOMAIN outcome
           /\ d \in DOMAIN outcome => outcome'[d] = result
           /\ \A e \in Frame \ {d} : outcome'[e] = outcome[e]
           /\ frame[d] = "running"
<1>1. \A e \in Frame : continuation[e] # d
  BY FrameAssumption DEF CallsNest, Finish, GoesOn, HasResult, Runs
<1>2. continuation[d] # NoFrame => frame[continuation[d]] = "awaiting"
  BY DEF CallsNest, Finish, GoesOn, Runs
<1>3. \A e \in Frame : frame'[e] = IF e = d THEN "final" ELSE IF e = continuation[d] THEN "running" ELSE frame[e]
  BY <1>1 DEF Finish, Ended
<1>4. frame[d] = "running"
  BY DEF Finish, GoesOn, Runs
<1>5. ASSUME NEW e \in Frame
      PROVE  /\ frame'[e] # "none" <=> frame[e] # "none"
             /\ frame'[e] = "final" <=> e = d \/ frame[e] = "final"
             /\ frame'[e] = "waiting" <=> frame[e] = "waiting"
  BY <1>2, <1>3, <1>4, FrameAssumption
<1>6. /\ DOMAIN outcome' = DOMAIN outcome
      /\ d \in DOMAIN outcome => outcome'[d] = result
      /\ continuation' = continuation
  BY DEF Finish
<1>7. \A e \in Frame \ {d} : outcome'[e] = outcome[e]
  BY DEF Finish
<1> QED  BY <1>1, <1>4, <1>5, <1>6, <1>7

(* A frame that is destroyed leaves the others as they are.                *)
LEMMA FreedEffect ==
    ASSUME CallsNest, NEW d \in Frame, Freed(d)
    PROVE  /\ \A e \in Frame : frame'[e] = IF e = d THEN "none" ELSE frame[e]
           /\ \A e \in Frame \ {d} : continuation'[e] = continuation[e]
           /\ DOMAIN outcome' = DOMAIN outcome
           /\ \A e \in Frame \ {d} : outcome'[e] = outcome[e]
  BY DEF CallsNest, Freed

(* So does a step between a coroutine and the loop.                        *)
LEMMA LeafEffect ==
    ASSUME CallsNest, NEW c \in Frame,
           SpawnRoot(c) \/ WaitForEvent(c) \/ ResumeByLoop(c)
    PROVE  /\ frame'[c] \in {"running", "waiting"} /\ frame[c] # "final"
           /\ \A e \in Frame \ {c} : frame'[e] = frame[e]
           /\ continuation' = continuation /\ outcome' = outcome
  BY DEF CallsNest, SpawnRoot, WaitForEvent, ResumeByLoop, GoesOn, Runs

(* A step of a coroutine that has none to await keeps who is alive.        *)
LEMMA KeptEffect ==
    ASSUME CallsNest, NEW d \in Frame,
           (\E result : Finish(d, result)) \/ WaitForEvent(d) \/ ResumeByLoop(d)
    PROVE  /\ DOMAIN outcome' = DOMAIN outcome
           /\ \A e \in Frame : frame'[e] # "none" <=> frame[e] # "none"
           /\ \A e \in Frame \ {d} : frame'[e] = "final" <=> frame[e] = "final"
           /\ \A e \in Frame \ {d} : outcome'[e] = outcome[e]
<1>1. CASE \E result : Finish(d, result)
  BY <1>1, FinishEffect
<1>2. CASE WaitForEvent(d) \/ ResumeByLoop(d)
  <2>1. frame[d] # "none"
    BY <1>2 DEF WaitForEvent, ResumeByLoop, GoesOn, Runs
  <2> QED  BY <1>2, <2>1, LeafEffect
<1> QED  BY <1>1, <1>2

(* Who is awaited is done exactly when its awaiter runs.                   *)
LEMMA Awaited ==
    ASSUME CallsNest, NEW c \in Frame, NEW d \in Frame, continuation[d] = c
    PROVE  frame[c] = IF frame[d] = "final" THEN "running" ELSE "awaiting"
  BY FrameAssumption DEF CallsNest

(* The coroutines and who awaits whom, one by one.                         *)
LEMMA Names ==
    /\ {"handle_client", "parse_request", "read_line", "async_read", "async_write"} = Frame
    /\ \A d \in Frame \ {"handle_client"} : Caller(d) \in Frame /\ Caller(d) # d
    /\ Caller("parse_request") = "handle_client" /\ Caller("read_line") = "parse_request"
    /\ Caller("async_read") = "read_line" /\ Caller("async_write") = "handle_client"
    /\ AtCall("parse_request") = {"parsing"} /\ AtCall("read_line") = {"request line", "headers"}
    /\ AtCall("async_read") = {"reading"} /\ AtCall("async_write") = {"writing"}
  BY HttpAssumption DEF Caller, AtCall

(* The caller of a coroutine alive is alive itself.                        *)
LEMMA Stack ==
    ASSUME CallsNest, Nesting, NEW d \in Frame \ {"handle_client"}, frame[d] # "none"
    PROVE  frame[Caller(d)] = IF frame[d] = "final" THEN "running" ELSE "awaiting"
<1>1. continuation[d] = Caller(d) /\ Caller(d) \in Frame
  BY Names DEF Nesting, Alive
<1> QED  BY <1>1, Awaited

(* The caller of a coroutine alive stays where it is.                      *)
LEMMA CallNesting ==
    ASSUME CallsNest, Nesting, NEW d \in Frame \ {"handle_client"}, Call(Caller(d), d),
           pc'[Caller(d)] \in AtCall(d), \A e \in Frame \ {Caller(d), d} : pc'[e] = pc[e]
    PROVE  Nesting'
<1> DEFINE c == Caller(d)
<1>1. c \in Frame
  BY Names
<1> HIDE DEF c
<1>2. /\ \A e \in Frame : frame'[e] # "none" <=> e = d \/ frame[e] # "none"
      /\ \A e \in Frame : continuation'[e] = IF e = d THEN c ELSE continuation[e]
      /\ \A e \in Frame : continuation[e] # c
      /\ frame[d] = "none"
  BY <1>1, CallEffect DEF c
<1>3. ASSUME NEW e \in Frame \ {"handle_client"}, frame'[e] # "none", e # d
      PROVE  continuation'[e] = Caller(e) /\ pc'[Caller(e)] \in AtCall(e)
  <2>1. continuation[e] = Caller(e) /\ pc[Caller(e)] \in AtCall(e)
    BY <1>2, <1>3 DEF Nesting, Alive
  <2>2. Caller(e) \in Frame /\ Caller(e) # c
    BY <1>2, <2>1, Names
  <2>3. Caller(e) # d
    BY <1>2, <1>3, <2>1, Stack
  <2> QED  BY <1>2, <1>3, <2>1, <2>2, <2>3 DEF c
<1>4. continuation'[d] = Caller(d) /\ pc'[Caller(d)] \in AtCall(d)
  BY <1>2 DEF c
<1> QED  BY <1>3, <1>4 DEF Nesting, Alive

(* The caller of one that is done may go elsewhere.                        *)
LEMMA ReturnNesting ==
    ASSUME CallsNest, Nesting, NEW c \in Frame, NEW d \in Frame, Collect(c, d),
           \A e \in Frame \ {c} : pc'[e] = pc[e]
    PROVE  Nesting'
<1>1. /\ \A e \in Frame : frame'[e] = IF e = d THEN "none" ELSE frame[e]
      /\ \A e \in Frame \ {d} : continuation'[e] = continuation[e]
      /\ continuation[d] = c
  BY FreedEffect DEF Collect, HasResult
<1>2. ASSUME NEW e \in Frame \ {"handle_client"}, frame'[e] # "none"
      PROVE  continuation'[e] = Caller(e) /\ pc'[Caller(e)] \in AtCall(e)
  <2>1. e # d /\ frame[e] # "none"
    BY <1>1, <1>2
  <2>2. continuation[e] = Caller(e) /\ pc[Caller(e)] \in AtCall(e)
    BY <2>1 DEF Nesting, Alive
  <2>3. Caller(e) \in Frame
    BY Names
  <2>4. Caller(e) # c
    BY <1>1, <2>1, <2>2, FrameAssumption DEF CallsNest
  <2> QED  BY <1>1, <2>1, <2>2, <2>3, <2>4
<1> QED  BY <1>2 DEF Nesting, Alive

(* A coroutine that stays where it is keeps the nesting.                   *)
LEMMA StayNesting ==
    ASSUME CallsNest, Nesting, pc' = pc,
           \/ \E d \in Frame : (\E result : Finish(d, result)) \/ WaitForEvent(d) \/ ResumeByLoop(d)
           \/ UNCHANGED chain
    PROVE  Nesting'
<1>1. continuation' = continuation /\ \A e \in Frame : frame'[e] # "none" <=> frame[e] # "none"
  <2>1. ASSUME NEW d \in Frame, NEW result, Finish(d, result)
        PROVE  continuation' = continuation /\ \A e \in Frame : frame'[e] # "none" <=> frame[e] # "none"
    BY <2>1, FinishEffect
  <2>2. ASSUME NEW d \in Frame, WaitForEvent(d) \/ ResumeByLoop(d)
        PROVE  continuation' = continuation /\ \A e \in Frame : frame'[e] # "none" <=> frame[e] # "none"
    <3>1. frame[d] # "none"
      BY <2>2 DEF WaitForEvent, ResumeByLoop, GoesOn, Runs
    <3> QED  BY <2>2, <3>1, LeafEffect
  <2>3. CASE UNCHANGED chain
    BY <2>3 DEF chain
  <2> QED  BY <2>1, <2>2, <2>3
<1> QED  BY <1>1 DEF Nesting, Alive

(* The root is spawned, and destroyed, when no other is alive.             *)
LEMMA RootNesting ==
    ASSUME CallsNest, Nesting,
           SpawnRoot("handle_client") \/ DestroyRoot("handle_client"),
           \A e \in Frame \ {"handle_client"} : pc'[e] = pc[e]
    PROVE  Nesting'
<1>1. ASSUME NEW e \in Frame \ {"handle_client"}
      PROVE  frame'[e] = frame[e] /\ continuation'[e] = continuation[e]
  <2>1. CASE SpawnRoot("handle_client")
    BY <2>1, LeafEffect, Names
  <2>2. CASE DestroyRoot("handle_client")
    BY <2>2, FreedEffect, Names DEF DestroyRoot
  <2> QED  BY <2>1, <2>2
<1>2. frame["handle_client"] \in {"none", "final"} /\ NoneRuns
  BY DEF SpawnRoot, DestroyRoot
<1>3. ASSUME NEW e \in Frame \ {"handle_client"}, frame[e] # "none"
      PROVE  Caller(e) \in Frame \ {"handle_client"}
  BY <1>2, <1>3, Stack, Names
<1> QED  BY <1>1, <1>3 DEF Nesting, Alive

(* What Goto() changes.                                                    *)
LEMMA GotoEffect ==
    ASSUME TypesOK, NEW c \in Frame, NEW label, Goto(c, label)
    PROVE  DOMAIN pc' = Frame /\ pc'[c] = label /\ \A e \in Frame \ {c} : pc'[e] = pc[e]
  BY DEF TypesOK, Goto

(* A call keeps Control.                                                   *)
LEMMA CallControl ==
    ASSUME CallsNest, Control,
           CallParseRequest \/ CallAsyncWrite \/ CallReadLine \/ CallAsyncRead
    PROVE  Control'
<1> USE DEF Control
<1>0. {"handle_client", "parse_request", "read_line", "async_read", "async_write"} = Frame /\ Size \in Nat
  BY HttpAssumption
<1>1. PICK d \in Frame \ {"handle_client"} :
          /\ Call(Caller(d), d)
          /\ DOMAIN pc' = Frame /\ pc'[Caller(d)] \in AtCall(d)
          /\ \A e \in Frame \ {Caller(d), d} : pc'[e] = pc[e]
          /\ d = "parse_request" => pc'[d] = "request line"
          /\ d = "read_line" => pc'[d] = "read"
          /\ Caller(d) = "handle_client" => pc["handle_client"] # "end"
          /\ UNCHANGED <<input, eof, broken, position, open>>
          /\ request' = request \/ d = "parse_request"
          /\ line' = line \/ d = "read_line"
          /\ total' = total \/ (d = "async_write" /\ total' = 0)
  <2>1. CASE CallParseRequest
    <3>1. /\ "parse_request" \in Frame \ {"handle_client"} /\ Caller("parse_request") = "handle_client"
          /\ AtCall("parse_request") = {"parsing"}
      BY Names
    <3>2. /\ Call("handle_client", "parse_request")
          /\ DOMAIN pc' = Frame /\ pc'["handle_client"] \in {"parsing"}
          /\ \A e \in Frame \ {"handle_client", "parse_request"} : pc'[e] = pc[e]
          /\ pc'["parse_request"] = "request line"
          /\ pc["handle_client"] # "end"
          /\ UNCHANGED <<input, eof, broken, position, open>> /\ line' = line /\ total' = total
      BY <1>0, <2>1 DEF CallParseRequest, Goto, TypesOK, network
    <3> QED  BY <3>1, <3>2
  <2>2. CASE CallAsyncWrite
    <3>1. /\ "async_write" \in Frame \ {"handle_client"} /\ Caller("async_write") = "handle_client"
          /\ AtCall("async_write") = {"writing"}
      BY Names
    <3>2. /\ Call("handle_client", "async_write")
          /\ DOMAIN pc' = Frame /\ pc'["handle_client"] \in {"writing"}
          /\ \A e \in Frame \ {"handle_client", "async_write"} : pc'[e] = pc[e]
          /\ pc["handle_client"] # "end"
          /\ UNCHANGED <<input, eof, broken, position, open>> /\ request' = request /\ line' = line /\ total' = 0
      BY <1>0, <2>2 DEF CallAsyncWrite, Goto, TypesOK, network
    <3> QED  BY <3>1, <3>2
  <2>3. CASE CallReadLine
    <3>1. /\ "read_line" \in Frame \ {"handle_client"} /\ Caller("read_line") = "parse_request"
          /\ AtCall("read_line") = {"request line", "headers"}
      BY Names
    <3>2. /\ Call("parse_request", "read_line")
          /\ DOMAIN pc' = Frame /\ pc'["parse_request"] \in {"request line", "headers"}
          /\ \A e \in Frame \ {"parse_request", "read_line"} : pc'[e] = pc[e]
          /\ pc'["read_line"] = "read"
          /\ UNCHANGED <<input, eof, broken, position, open>> /\ request' = request /\ total' = total
      BY <1>0, <2>3 DEF CallReadLine, Goto, TypesOK, network
    <3> QED  BY <3>1, <3>2
  <2>4. CASE CallAsyncRead
    <3>1. /\ "async_read" \in Frame \ {"handle_client"} /\ Caller("async_read") = "read_line"
          /\ AtCall("async_read") = {"reading"}
      BY Names
    <3>2. /\ Call("read_line", "async_read")
          /\ DOMAIN pc' = Frame /\ pc'["read_line"] \in {"reading"}
          /\ \A e \in Frame \ {"read_line", "async_read"} : pc'[e] = pc[e]
          /\ UNCHANGED <<input, eof, broken, position, open>> /\ request' = request /\ line' = line /\ total' = total
      BY <1>0, <2>4 DEF CallAsyncRead, Goto, TypesOK, network
    <3> QED  BY <3>1, <3>2
  <2> QED  BY <2>1, <2>2, <2>3, <2>4
<1>2. Caller(d) \in Frame /\ Caller(d) # d
  BY Names
<1>3. /\ outcome' = outcome /\ frame[Caller(d)] = "running" /\ frame[d] = "none"
      /\ \A e \in Frame : frame'[e] = "final" <=> frame[e] = "final"
      /\ \A e \in Frame \ {d} : frame'[e] # "none" <=> frame[e] # "none"
  <2>1. Call(Caller(d), d) /\ d \in Frame
    BY <1>1
  <2> QED  BY <1>2, <2>1, CallEffect
<1>4. TypesOK'
  <2>1. total' \in 0 .. Size
    <3>1. total' = total \/ total' = 0
      BY <1>1
    <3>2. total \in 0 .. Size /\ 0 \in 0 .. Size
      BY <1>0 DEF TypesOK
    <3> QED  BY <3>1, <3>2
  <2> QED  BY <1>1, <1>3, <2>1 DEF TypesOK
<1>5. Nesting'
  BY <1>1, CallNesting
<1>6. Places'
  <2>1. CASE Caller(d) = "handle_client"
    BY <1>0, <1>1, <1>3, <2>1, Names DEF Places, Alive
  <2>2. CASE Caller(d) # "handle_client"
    BY <1>0, <1>1, <1>3, <2>2, Names DEF Places, Alive
  <2> QED  BY <2>1, <2>2
<1>7. Results'
  <2>1. \A e \in Frame : frame'[e] = "final" => pc'[e] = pc[e] /\ e # d
    BY <1>1, <1>3
  <2>2. ~open' => pc'["handle_client"] = "end"
    <3>1. ~open => pc["handle_client"] = "end" /\ Caller(d) # "handle_client"
      BY <1>1 DEF Results
    <3> QED  BY <1>0, <1>1, <3>1
  <2> QED  BY <1>0, <1>1, <1>3, <2>1, <2>2 DEF Results
<1> QED  BY <1>4, <1>5, <1>6, <1>7

(* So does what a coroutine does with the result of the one it awaited,    *)
LEMMA ReturnControl ==
    ASSUME CallsNest, Control,
           \/ ParseRequestReturns \/ AsyncWriteReturns \/ HandleClientCatches
           \/ ReadLineReturns \/ AsyncReadReturns
           \/ PassesOn("parse_request", "read_line") \/ PassesOn("read_line", "async_read")
    PROVE  Control'
<1> USE DEF Control
<1>0. {"handle_client", "parse_request", "read_line", "async_read", "async_write"} = Frame
  BY HttpAssumption
<1>1. PICK c \in {"handle_client", "parse_request", "read_line"}, d \in Frame :
          /\ Collect(c, d) /\ (pc' = pc \/ \E label : Goto(c, label))
          /\ UNCHANGED <<input, eof, broken, position, open, total>>
          /\ request' = request \/ c = "parse_request"
          /\ line' = line \/ c = "read_line"
  <2>1. CASE ParseRequestReturns \/ AsyncWriteReturns \/ HandleClientCatches
    BY <1>0, <2>1 DEF ParseRequestReturns, AsyncWriteReturns, HandleClientCatches, network
  <2>2. CASE ReadLineReturns \/ PassesOn("parse_request", "read_line")
    BY <1>0, <2>2 DEF ReadLineReturns, PassesOn, network
  <2>3. CASE AsyncReadReturns \/ PassesOn("read_line", "async_read")
    BY <1>0, <2>3 DEF AsyncReadReturns, PassesOn, network
  <2> QED  BY <2>1, <2>2, <2>3
<1>2. DOMAIN pc' = Frame /\ \A e \in Frame \ {c} : pc'[e] = pc[e]
  BY <1>0, <1>1, GotoEffect DEF TypesOK
<1>3. /\ DOMAIN outcome' = DOMAIN outcome
      /\ frame[c] = "running" /\ frame[d] = "final" /\ frame'[d] = "none"
      /\ \A e \in Frame \ {d} : frame'[e] = frame[e] /\ outcome'[e] = outcome[e]
  BY <1>0, <1>1, FreedEffect DEF Collect, HasResult, Runs
<1>4. TypesOK'
  BY <1>0, <1>1, <1>2, <1>3 DEF TypesOK
<1>5. Nesting'
  BY <1>0, <1>1, <1>2, ReturnNesting
<1>6. Places'
  <2>1. /\ pc'["handle_client"] \in {"start", "parse", "parsing", "respond", "writing", "end"}
        /\ Alive("parse_request") => pc'["parse_request"] \in {"request line", "headers", "return", "throw"}
        /\ Alive("read_line") => pc'["read_line"] \in {"read", "reading", "return", "throw"}
    <3>1. CASE ParseRequestReturns \/ AsyncWriteReturns \/ HandleClientCatches
      BY <1>0, <3>1 DEF ParseRequestReturns, AsyncWriteReturns, HandleClientCatches, Goto, TypesOK, Places
    <3>2. CASE ReadLineReturns \/ PassesOn("parse_request", "read_line")
      BY <1>0, <3>2 DEF ReadLineReturns, PassesOn, Goto, TypesOK, Places
    <3>3. CASE AsyncReadReturns \/ PassesOn("read_line", "async_read")
      BY <1>0, <3>3 DEF AsyncReadReturns, PassesOn, Goto, TypesOK, Places
    <3> QED  BY <3>1, <3>2, <3>3
  <2>2. \A e \in Frame : frame'[e] # "none" => frame[e] # "none"
    BY <1>3
  <2> QED  BY <1>0, <2>1, <2>2 DEF Places, Alive
<1>7. Results'
  <2>1. \A e \in Frame : frame'[e] = "final" =>
            frame[e] = "final" /\ e # c /\ pc'[e] = pc[e] /\ outcome'[e] = outcome[e]
    BY <1>2, <1>3
  <2>2. ~open' => pc'["handle_client"] = "end"
    <3>1. CASE ParseRequestReturns \/ AsyncWriteReturns
      BY <3>1 DEF ParseRequestReturns, AsyncWriteReturns, Results
    <3>2. CASE HandleClientCatches
      BY <1>0, <3>2, GotoEffect DEF HandleClientCatches
    <3>3. CASE ~ (ParseRequestReturns \/ AsyncWriteReturns \/ HandleClientCatches)
      <4>1. pc' = pc \/ \E e \in Frame \ {"handle_client"} : \E label : Goto(e, label)
        BY <1>0, <3>3 DEF ReadLineReturns, PassesOn, AsyncReadReturns
      <4> QED  BY <1>0, <1>1, <4>1, GotoEffect DEF Results
    <3> QED  BY <3>1, <3>2, <3>3
  <2> QED  BY <1>0, <1>1, <2>1, <2>2 DEF Results
<1> QED  BY <1>4, <1>5, <1>6, <1>7

(* the end of a coroutine,                                                 *)
LEMMA EndControl ==
    ASSUME CallsNest, Control,
           HandleClientEnds \/ ParseRequestEnds \/ ReadLineEnds \/ ReadLineThrows
    PROVE  Control'
<1> USE DEF Control
<1>0. {"handle_client", "parse_request", "read_line", "async_read", "async_write"} = Frame
  BY HttpAssumption
<1> DEFINE Result(d) == CASE d = "handle_client" -> Unset
                          [] d # "handle_client" /\ pc[d] = "throw" -> Throws
                          [] d = "parse_request" /\ pc[d] # "throw" -> Returns(request)
                          [] d = "read_line" /\ pc[d] # "throw" -> Returns(line)
<1>1. PICK d \in {"handle_client", "parse_request", "read_line"} :
          /\ Finish(d, Result(d))
          /\ d = "handle_client" => pc[d] = "end"
          /\ d # "handle_client" => pc[d] \in {"return", "throw"}
  <2>1. CASE HandleClientEnds
    BY <2>1 DEF HandleClientEnds
  <2>2. CASE ParseRequestEnds
    BY <2>2 DEF ParseRequestEnds
  <2>3. CASE ReadLineEnds \/ ReadLineThrows
    BY <2>3 DEF ReadLineEnds, ReadLineThrows
  <2> QED  BY <2>1, <2>2, <2>3
<1>2. UNCHANGED <<input, eof, broken, position, open, pc, line, request, total>>
  BY DEF HandleClientEnds, ParseRequestEnds, ReadLineEnds, ReadLineThrows, network, locals
<1>3. /\ DOMAIN outcome' = DOMAIN outcome /\ outcome'[d] = Result(d)
      /\ \A e \in Frame : frame'[e] # "none" <=> frame[e] # "none"
      /\ \A e \in Frame \ {d} : (frame'[e] = "final" <=> frame[e] = "final") /\ outcome'[e] = outcome[e]
  BY <1>0, <1>1, FinishEffect DEF TypesOK
<1>4. TypesOK'
  BY <1>2, <1>3 DEF TypesOK
<1>5. Nesting'
  BY <1>0, <1>1, <1>2, StayNesting
<1>6. Places'
  BY <1>0, <1>2, <1>3 DEF Places, Alive
<1>7. Results'
  BY <1>0, <1>1, <1>2, <1>3 DEF Results
<1> QED  BY <1>4, <1>5, <1>6, <1>7

(* recv(),                                                                 *)
LEMMA ReadControl ==
    ASSUME CallsNest, Control, Recv \/ Readable
    PROVE  Control'
<1> USE DEF Control
<1>0. /\ {"handle_client", "parse_request", "read_line", "async_read", "async_write"} = Frame
      /\ Size \in Nat
  BY HttpAssumption
<1>1. /\ pc' = pc /\ network' = network /\ open' = open /\ locals' = locals
      /\ position' \in 0 .. Len(input)
  <2>1. network' = network /\ open' = open /\ locals' = locals
    BY DEF Recv, Readable
  <2>2. position' = position \/ (position' = position + 1 /\ position < Len(input))
    BY DEF Recv, Readable
  <2>3. position' \in 0 .. Len(input)
    BY <2>2 DEF TypesOK
  <2> QED  BY <2>1, <2>3 DEF locals
<1>2. \/ \E result : Finish("async_read", result)
      \/ WaitForEvent("async_read") \/ ResumeByLoop("async_read")
  BY DEF Recv, Readable
<1>3. /\ DOMAIN outcome' = DOMAIN outcome
      /\ \A e \in Frame : frame'[e] # "none" <=> frame[e] # "none"
      /\ \A e \in Frame \ {"async_read"} : frame'[e] = "final" <=> frame[e] = "final"
      /\ \A e \in Frame \ {"async_read"} : outcome'[e] = outcome[e]
  BY <1>0, <1>2, KeptEffect
<1>4. TypesOK'
  BY <1>0, <1>1, <1>3 DEF TypesOK, network, locals
<1>5. Nesting'
  BY <1>0, <1>1, <1>2, StayNesting
<1>6. Places'
  BY <1>0, <1>1, <1>3 DEF Places, Alive
<1>7. Results'
  BY <1>0, <1>1, <1>3 DEF Results, network, locals
<1> QED  BY <1>4, <1>5, <1>6, <1>7

(* send(),                                                                 *)
LEMMA WriteControl ==
    ASSUME CallsNest, Control, Send \/ Writable
    PROVE  Control'
<1> USE DEF Control
<1>0. /\ {"handle_client", "parse_request", "read_line", "async_read", "async_write"} = Frame
      /\ Size \in Nat
  BY HttpAssumption
<1>1. /\ pc' = pc /\ request' = request /\ line' = line /\ open' = open
      /\ input' = input /\ eof' = eof /\ broken' = broken /\ position' = position
  BY DEF Send, Writable, network, locals
<1>2. total' \in 0 .. Size
  BY <1>0 DEF Send, Writable, TypesOK, locals
<1>3. \/ /\ \E result : Finish("async_write", result)
         /\ total' = total
      \/ WaitForEvent("async_write") \/ ResumeByLoop("async_write")
      \/ UNCHANGED chain /\ frame["async_write"] = "running"
  BY DEF Send, Writable, locals, Runs
<1>4. /\ DOMAIN outcome' = DOMAIN outcome
      /\ \A e \in Frame : frame'[e] # "none" <=> frame[e] # "none"
      /\ \A e \in Frame \ {"async_write"} : frame'[e] = "final" <=> frame[e] = "final"
      /\ \A e \in Frame \ {"async_write"} : outcome'[e] = outcome[e]
  <2>1. CASE UNCHANGED chain
    BY <2>1 DEF chain
  <2>2. CASE ~ UNCHANGED chain
    BY <1>0, <1>3, <2>2, KeptEffect
  <2> QED  BY <2>1, <2>2
<1>5. frame'["async_write"] = "final" =>
          \/ outcome'["async_write"] = Throws /\ broken
          \/ outcome'["async_write"] = Returns(<<>>) /\ total' = Size
  <2>1. CASE broken /\ total < Size /\ Finish("async_write", Throws)
    BY <1>0, <2>1, FinishEffect DEF TypesOK
  <2>2. CASE total = Size /\ Finish("async_write", Returns(<<>>)) /\ total' = total
    BY <1>0, <2>2, FinishEffect DEF TypesOK
  <2>3. CASE WaitForEvent("async_write") \/ ResumeByLoop("async_write")
    <3>1. frame'["async_write"] # "final"
      BY <1>0, <2>3, LeafEffect
    <3> QED  BY <3>1
  <2>4. CASE UNCHANGED chain /\ frame["async_write"] = "running"
    BY <2>4 DEF chain
  <2>5. \/ broken /\ total < Size /\ Finish("async_write", Throws)
        \/ total = Size /\ Finish("async_write", Returns(<<>>)) /\ total' = total
        \/ WaitForEvent("async_write") \/ ResumeByLoop("async_write")
        \/ UNCHANGED chain /\ frame["async_write"] = "running"
    BY DEF Send, Writable, locals, Runs
  <2> QED  BY <2>1, <2>2, <2>3, <2>4, <2>5
<1>6. TypesOK'
  BY <1>1, <1>2, <1>4 DEF TypesOK
<1>7. Nesting'
  BY <1>0, <1>1, <1>3, StayNesting
<1>8. Places'
  BY <1>0, <1>1, <1>4 DEF Places, Alive
<1>9. Results'
  BY <1>0, <1>1, <1>4, <1>5 DEF Results
<1> QED  BY <1>6, <1>7, <1>8, <1>9

(* the start and the end of the connection,                                *)
LEMMA RootControl ==
    ASSUME CallsNest, Control, AcceptAndHandle \/ Compact
    PROVE  Control'
<1> USE DEF Control
<1>0. {"handle_client", "parse_request", "read_line", "async_read", "async_write"} = Frame
  BY HttpAssumption
<1>1. /\ DOMAIN pc' = Frame /\ pc'["handle_client"] \in {pc["handle_client"], "parse"}
      /\ \A e \in Frame \ {"handle_client"} : pc'[e] = pc[e]
      /\ network' = network /\ position' = position
      /\ request' = request /\ line' = line /\ total' = total
  BY <1>0 DEF AcceptAndHandle, Compact, TypesOK, Goto, locals
<1>2. SpawnRoot("handle_client") \/ DestroyRoot("handle_client")
  BY DEF AcceptAndHandle, Compact
<1>3. /\ DOMAIN outcome' = DOMAIN outcome
      /\ \A e \in Frame \ {"handle_client"} : frame'[e] = frame[e] /\ outcome'[e] = outcome[e]
      /\ frame'["handle_client"] # "final"
  <2>1. CASE SpawnRoot("handle_client")
    BY <1>0, <2>1 DEF SpawnRoot, CallsNest
  <2>2. CASE DestroyRoot("handle_client")
    BY <1>0, <2>2, FreedEffect DEF DestroyRoot
  <2> QED  BY <1>2, <2>1, <2>2
<1>4. ~open' => pc'["handle_client"] = "end"
  <2>1. CASE AcceptAndHandle
    BY <2>1 DEF AcceptAndHandle
  <2>2. CASE Compact
    BY <2>2 DEF Compact, DestroyRoot, locals, Results
  <2> QED  BY <2>1, <2>2
<1>5. TypesOK'
  BY <1>1, <1>3 DEF TypesOK, network
<1>6. Nesting'
  BY <1>1, <1>2, RootNesting
<1>7. Places'
  BY <1>0, <1>1, <1>3 DEF Places, Alive
<1>8. Results'
  BY <1>0, <1>1, <1>3, <1>4 DEF Results, network
<1> QED  BY <1>5, <1>6, <1>7, <1>8

(* and whatever the client does.                                           *)
LEMMA ClientControl ==
    ASSUME CallsNest, Control, ClientStep \/ ClientReads
    PROVE  Control'
<1> USE DEF Control
<1>1. /\ UNCHANGED <<chain, position, open, locals>>
      /\ input' \in Seq(Symbol) /\ Len(input) <= Len(input')
      /\ eof' \in BOOLEAN /\ broken' \in BOOLEAN /\ (broken => broken')
  <2>1. CASE ClientSends
    <3>1. PICK piece \in Piece : input' = input \o piece
      BY <2>1 DEF ClientSends
    <3>2. piece \in Seq(Symbol)
      BY HttpAssumption
    <3>3. input \o piece \in Seq(Symbol) /\ Len(input) <= Len(input \o piece)
      BY <3>2 DEF TypesOK
    <3> QED  BY <2>1, <3>1, <3>3 DEF ClientSends, TypesOK
  <2>2. CASE ClientShutsDown \/ ClientResets \/ ClientReads
    <3>1. UNCHANGED <<chain, position, open, locals>> /\ input' = input
      BY <2>2 DEF ClientShutsDown, ClientResets, ClientReads
    <3>2. eof' \in BOOLEAN /\ broken' \in BOOLEAN /\ (broken => broken')
      BY <2>2 DEF ClientShutsDown, ClientResets, ClientReads, TypesOK
    <3> QED  BY <3>1, <3>2 DEF TypesOK
  <2> QED  BY <2>1, <2>2 DEF ClientStep
<1>2. TypesOK'
  BY <1>1 DEF TypesOK, chain, locals
<1>3. Nesting'
  BY <1>1 DEF Nesting, Alive, chain, locals
<1>4. Places'
  BY <1>1 DEF Places, Alive, chain, locals
<1>5. Results'
  BY <1>1 DEF Results, chain, locals
<1> QED  BY <1>2, <1>3, <1>4, <1>5

--------------------------------------------------------------------------------
(* What has been read and sent, by positions of the stream.                *)

(* The stream s as it can be read at present.                              *)
IsStream(s) ==
    /\ s \in Seq(Symbol)
    /\ Len(s) = Len(input) + IF eof THEN 4 ELSE 0
    /\ \A i \in 1 .. Len(input) : s[i] = input[i]
    /\ eof => /\ s[Len(input) + 1] = "cr" /\ s[Len(input) + 2] = "lf"
              /\ s[Len(input) + 3] = "cr" /\ s[Len(input) + 4] = "lf"

(* q has been read of it: the end of input stands for two line ends.       *)
At(q) == q = position \/ (eof /\ position = Len(input) /\ q \in {Len(input) + 2, Len(input) + 4})

(* The line of read_line is what stands between l and h, and no end yet.   *)
Partial(s, l, h) ==
    /\ l <= h /\ \A e \in LineEnds(s) : e <= l \/ h < e
    /\ line = SubSeq(s, l + 1, h)

(* read_line reads the line that starts at ls, and is at q.                *)
ReaderTracks(s, ls, q) ==
    Alive("read_line") =>
        /\ pc["read_line"] \in {"read", "reading"} /\ frame["async_read"] # "final" => Partial(s, ls, q)
        /\ frame["async_read"] = "final" =>
               \/ outcome["async_read"] = Throws /\ broken
               \/ outcome["async_read"] = Returns(<<>>) /\ eof /\ position = Len(input) /\ Partial(s, ls, q)
               \/ outcome["async_read"] = Returns(<<s[q]>>) /\ q = position /\ ls < q /\ Partial(s, ls, q - 1)
        /\ frame["async_read"] = "waiting" => q = position
        /\ pc["read_line"] = "return" =>
               \/ EndsLine(s, ls, q) /\ line = SubSeq(s, ls + 1, q - 2)
               \/ eof /\ q = Len(s) /\ ls = q /\ line = <<>>
        /\ pc["read_line"] = "throw" => broken

(* The request that starts at st: its first line has been parsed; there is *)
(* no answer to it, nor ever will be; its headers have not ended at l.     *)
Asked(s, st) == request = Parse(FirstLine(s, st)) /\ Space(FirstLine(s, st)) > 0

Hopeless(s, st) ==
    \/ \E e \in LineEnds(s) : st < e /\ Space(FirstLine(s, st)) <= 1
    \/ eof /\ ~Complete(s, st)

InHeaders(s, st, l) == st < l /\ \A b \in Blanks(s) : b <= st \/ l < b

(* parse_request reads that request, and its lines up to ls.               *)
ParserTracks(s, st, ls, q) ==
    Alive("parse_request") =>
        /\ pc["parse_request"] \in {"request line", "headers", "return"} /\ ~Alive("read_line") => ls = q
        /\ pc["parse_request"] = "request line" => ls = st /\ request = NoRequest
        /\ pc["parse_request"] = "headers" => Asked(s, st) /\ InHeaders(s, st, ls)
        /\ pc["parse_request"] = "return" =>
               \/ request = NoRequest /\ Hopeless(s, st)
               \/ Asked(s, st) /\ EndsHeaders(s, st, ls)
        /\ pc["parse_request"] = "throw" => broken \/ Hopeless(s, st)

(* handle_client reads it and answers it, and has sent w of the response.  *)
ClientTracks(s, st, ls, q, w) ==
    /\ pc["handle_client"] \in {"start", "parse", "respond", "writing"} => ls = q
    /\ pc["handle_client"] \in {"start", "parse"} => ls = st
    /\ pc["handle_client"] \in {"start", "parse", "parsing", "respond"} => w = 0
    /\ pc["handle_client"] \in {"respond", "writing"} =>
           /\ Complete(s, st) /\ EndsHeaders(s, st, ls)
           /\ raw = Response(Parse(FirstLine(s, st)))
    /\ pc["handle_client"] = "writing" => w = total
    /\ pc["handle_client"] = "end" => broken \/ (Hopeless(s, st) /\ w = 0)

Place(s, st, ls, q) == Reached(s, st) /\ At(q) /\ ls \in LineStarts(s) /\ st <= ls /\ ls <= q

Tracks(s, st, ls, q, w) ==
    /\ Place(s, st, ls, q)
    /\ wire \in Seq(Page) /\ Sent(wire, s, st, w)
    /\ ReaderTracks(s, ls, q) /\ ParserTracks(s, st, ls, q) /\ ClientTracks(s, st, ls, q, w)

(* What has been read and sent is what the stream s asks for.              *)
Tracked(s) == \E st, ls, q, w : Tracks(s, st, ls, q, w)
Tracking == \E s : s = Stream /\ Tracked(s)

(* CrLf is a line end.                                                     *)
LEMMA LineBreak ==
    CrLf \in Seq(Symbol) /\ Len(CrLf) = 2 /\ CrLf[1] = "cr" /\ CrLf[2] = "lf"
  BY HttpAssumption DEF CrLf

(* What appending it does to a stream.                                     *)
LEMMA AddLineBreak ==
    ASSUME NEW t \in Seq(Symbol)
    PROVE  /\ t \o CrLf \in Seq(Symbol) /\ Len(t \o CrLf) = Len(t) + 2
           /\ \A i \in 1 .. Len(t) : (t \o CrLf)[i] = t[i]
           /\ (t \o CrLf)[Len(t) + 1] = "cr" /\ (t \o CrLf)[Len(t) + 2] = "lf"
<1>1. CrLf \in Seq(Symbol)
  BY LineBreak
<1>2. t \o CrLf \in Seq(Symbol) /\ Len(t \o CrLf) = Len(t) + Len(CrLf)
  BY <1>1
<1>3. \A i \in 1 .. Len(t) : (t \o CrLf)[i] = t[i]
  BY <1>1
<1>4. \A i \in 1 .. Len(CrLf) : (t \o CrLf)[Len(t) + i] = CrLf[i]
  BY <1>1
<1>5. Len(CrLf) = 2 /\ CrLf[1] = "cr" /\ CrLf[2] = "lf"
  BY LineBreak
<1>6. 1 \in 1 .. Len(CrLf) /\ 2 \in 1 .. Len(CrLf)
  BY <1>5
<1>7. (t \o CrLf)[Len(t) + 1] = CrLf[1] /\ (t \o CrLf)[Len(t) + 2] = CrLf[2]
  BY <1>4, <1>6
<1> QED  BY <1>2, <1>3, <1>5, <1>7

(* The end of input is read as two line ends, symbol by symbol.            *)
LEMMA StreamIs ==
    ASSUME TypesOK
    PROVE  IsStream(Stream)
<1>1. CASE eof
  <2> DEFINE t == input \o CrLf
  <2>1. input \in Seq(Symbol) /\ Len(input) \in Nat
    BY DEF TypesOK
  <2>2. /\ t \in Seq(Symbol) /\ Len(t) = Len(input) + 2
        /\ \A i \in 1 .. Len(input) : t[i] = input[i]
        /\ t[Len(input) + 1] = "cr" /\ t[Len(input) + 2] = "lf"
    BY <2>1, AddLineBreak
  <2>3. Stream = t \o CrLf
    BY <1>1 DEF Stream
  <2> HIDE DEF t
  <2>4. /\ t \o CrLf \in Seq(Symbol) /\ Len(t \o CrLf) = Len(t) + 2
        /\ \A i \in 1 .. Len(t) : (t \o CrLf)[i] = t[i]
        /\ (t \o CrLf)[Len(t) + 1] = "cr" /\ (t \o CrLf)[Len(t) + 2] = "lf"
    BY <2>2, AddLineBreak
  <2> QED  BY <1>1, <2>1, <2>2, <2>3, <2>4 DEF IsStream
<1>2. CASE ~eof
  BY <1>2 DEF IsStream, Stream, TypesOK
<1> QED  BY <1>1, <1>2

(* The last of them is a blank line.                                       *)
LEMMA EndOfInput ==
    ASSUME TypesOK, NEW s, IsStream(s), eof
    PROVE  /\ Len(input) + 2 \in LineEnds(s) /\ Len(input) + 4 \in Blanks(s)
           /\ Len(input) + 1 \notin LineEnds(s) /\ Len(input) + 3 \notin LineEnds(s)
<1> DEFINE n == Len(input)
<1>1. n \in Nat /\ Len(s) = n + 4
  BY DEF TypesOK, IsStream
<1>2. s[n + 1] = "cr" /\ s[n + 2] = "lf" /\ s[n + 3] = "cr" /\ s[n + 4] = "lf"
  BY DEF IsStream
<1> HIDE DEF n
<1>3. /\ n + 2 \in 2 .. Len(s) /\ (n + 2) - 1 = n + 1
      /\ n + 4 \in 2 .. Len(s) /\ (n + 4) - 1 = n + 3 /\ (n + 4) - 2 = n + 2
  BY <1>1
<1>4. n + 2 \in LineEnds(s) /\ n + 4 \in LineEnds(s)
  BY <1>2, <1>3 DEF LineEnds
<1>5. n + 1 \notin LineEnds(s) /\ n + 3 \notin LineEnds(s)
  BY <1>2 DEF LineEnds
<1>6. n + 4 \in Blanks(s)
  BY <1>3, <1>4 DEF Blanks
<1> QED  BY <1>4, <1>5, <1>6 DEF n

(* What read_line, parse_request and handle_client know of the stream stays*)
(* as long as they are where they were.                                    *)
LEMMA ReaderStays ==
    ASSUME NEW s, NEW ls, NEW q, ReaderTracks(s, ls, q),
           UNCHANGED <<input, position, eof, line>>, broken => broken',
           Alive("read_line")' => Alive("read_line") /\ pc'["read_line"] = pc["read_line"],
           frame'["async_read"] = "final" <=> frame["async_read"] = "final",
           frame'["async_read"] = "waiting" => frame["async_read"] = "waiting",
           frame'["async_read"] = "final" => outcome'["async_read"] = outcome["async_read"]
    PROVE  ReaderTracks(s, ls, q)'
  BY DEF ReaderTracks, Partial

LEMMA ParserStays ==
    ASSUME NEW s, NEW st, NEW ls, NEW q, ParserTracks(s, st, ls, q),
           UNCHANGED <<eof, request>>, broken => broken',
           Alive("parse_request")' =>
               /\ Alive("parse_request") /\ pc'["parse_request"] = pc["parse_request"]
               /\ Alive("read_line") => Alive("read_line")'
    PROVE  ParserTracks(s, st, ls, q)'
  BY DEF ParserTracks, Asked, Hopeless

LEMMA ClientStays ==
    ASSUME NEW s, NEW st, NEW ls, NEW q, NEW w, ClientTracks(s, st, ls, q, w),
           UNCHANGED <<eof, raw>>, broken => broken',
           pc'["handle_client"] = pc["handle_client"],
           pc["handle_client"] = "writing" => total' = total
    PROVE  ClientTracks(s, st, ls, q, w)'
  BY DEF ClientTracks, Hopeless

(* The positions are within the stream.                                    *)
LEMMA PlaceTypes ==
    ASSUME TypesOK, NEW s, IsStream(s), NEW st, NEW ls, NEW q, Place(s, st, ls, q)
    PROVE  /\ s \in Seq(Symbol) /\ Len(s) \in Nat /\ Len(input) \in Nat /\ position \in Nat
           /\ st \in Nat /\ ls \in Nat /\ q \in Nat /\ q <= Len(s)
           /\ st \in Starts(s) /\ st \in LineStarts(s)
<1>1. s \in Seq(Symbol) /\ Len(s) \in Nat /\ Len(input) \in Nat /\ position \in Nat /\ position <= Len(input)
  BY DEF IsStream, TypesOK
<1>2. q \in Nat /\ q <= Len(s)
  BY <1>1 DEF Place, At, IsStream, TypesOK
<1>3. st \in Starts(s) /\ ls \in LineStarts(s)
  BY DEF Place, Reached
<1> QED  BY <1>1, <1>2, <1>3, StartsAreStarts

(* They stay while the input does.                                         *)
LEMMA PlaceStays ==
    ASSUME NEW s, NEW st, NEW ls, NEW q, Place(s, st, ls, q), UNCHANGED <<input, eof, position>>
    PROVE  Place(s, st, ls, q)'
  BY DEF Place, At

(* So does everything when no local changes.                               *)
LEMMA QuietTracks ==
    ASSUME NEW s, NEW st, NEW ls, NEW q, NEW w, Tracks(s, st, ls, q, w),
           UNCHANGED <<input, eof, position, wire, pc, line, request, raw>>, broken => broken',
           pc["handle_client"] = "writing" => total' = total,
           Alive("read_line")' <=> Alive("read_line"),
           Alive("parse_request")' => Alive("parse_request"),
           frame'["async_read"] = "final" <=> frame["async_read"] = "final",
           frame'["async_read"] = "waiting" => frame["async_read"] = "waiting",
           frame'["async_read"] = "final" => outcome'["async_read"] = outcome["async_read"]
    PROVE  Tracks(s, st, ls, q, w)'
<1>1. Place(s, st, ls, q)'
  BY PlaceStays DEF Tracks
<1>2. wire' \in Seq(Page) /\ Sent(wire', s, st, w)
  BY DEF Tracks
<1>3. ReaderTracks(s, ls, q)' /\ ParserTracks(s, st, ls, q)'
  BY ReaderStays, ParserStays DEF Tracks
<1>4. ClientTracks(s, st, ls, q, w)'
  BY ClientStays DEF Tracks
<1> QED  BY <1>1, <1>2, <1>3, <1>4 DEF Tracks

(* That is the case when a coroutine ends or an event resumes it.          *)
LEMMA EndTracks ==
    ASSUME CallsNest, Control, NEW s, NEW st, NEW ls, NEW q, NEW w, Tracks(s, st, ls, q, w),
           \/ HandleClientEnds \/ ParseRequestEnds \/ ReadLineEnds \/ ReadLineThrows
           \/ Readable \/ Writable \/ Compact \/ ClientResets \/ ClientReads
    PROVE  Tracks(s, st, ls, q, w)'
<1>0. {"handle_client", "parse_request", "read_line", "async_read", "async_write"} = Frame
  BY HttpAssumption
<1>1. CASE HandleClientEnds \/ ParseRequestEnds \/ ReadLineEnds \/ ReadLineThrows
  <2>1. PICK d \in Frame \ {"async_read"} : \E result : Finish(d, result)
    BY <1>0, <1>1 DEF HandleClientEnds, ParseRequestEnds, ReadLineEnds, ReadLineThrows
  <2>2. /\ \A e \in Frame : frame'[e] # "none" <=> frame[e] # "none"
        /\ frame'["async_read"] = "final" <=> frame["async_read"] = "final"
        /\ frame'["async_read"] = "waiting" <=> frame["async_read"] = "waiting"
        /\ outcome'["async_read"] = outcome["async_read"]
    BY <1>0, <2>1, FinishEffect
  <2>3. UNCHANGED <<network, position, wire, locals>>
    BY <1>1 DEF HandleClientEnds, ParseRequestEnds, ReadLineEnds, ReadLineThrows
  <2> QED  BY <1>0, <2>2, <2>3, QuietTracks DEF network, locals, Alive
<1>2. CASE Readable \/ Writable
  <2>1. PICK d \in Frame : ResumeByLoop(d)
    BY <1>0, <1>2 DEF Readable, Writable
  <2>2. frame[d] = "waiting"
    BY <2>1 DEF ResumeByLoop
  <2>3. /\ \A e \in Frame : frame'[e] # "none" <=> frame[e] # "none"
        /\ frame'["async_read"] = "final" <=> frame["async_read"] = "final"
        /\ frame'["async_read"] = "waiting" => frame["async_read"] = "waiting"
        /\ outcome' = outcome
    BY <1>0, <2>1, <2>2, LeafEffect
  <2>4. UNCHANGED <<network, position, wire, locals>>
    BY <1>2 DEF Readable, Writable
  <2> QED  BY <1>0, <2>3, <2>4, QuietTracks DEF network, locals, Alive
<1>3. CASE Compact
  <2>1. \A e \in Frame \ {"handle_client"} : frame'[e] = frame[e] /\ outcome'[e] = outcome[e]
    BY <1>0, <1>3, FreedEffect DEF Compact, DestroyRoot
  <2>2. UNCHANGED <<network, position, wire, locals>>
    BY <1>3 DEF Compact
  <2> QED  BY <1>0, <2>1, <2>2, QuietTracks DEF network, locals, Alive
<1>4. CASE ClientResets \/ ClientReads
  <2>1. UNCHANGED <<chain, input, eof, position, wire, locals>> /\ (broken => broken')
    BY <1>4 DEF ClientResets, ClientReads
  <2> QED  BY <2>1, QuietTracks DEF chain, locals, Alive
<1> QED  BY <1>1, <1>2, <1>3, <1>4

--------------------------------------------------------------------------------

(* A coroutine that goes on, and has none to await, calls.                 *)
LEMMA CallTracks ==
    ASSUME CallsNest, Control, NEW s, IsStream(s), NEW st, NEW ls, NEW q, NEW w,
           Tracks(s, st, ls, q, w),
           CallParseRequest \/ CallReadLine \/ CallAsyncRead \/ CallAsyncWrite
    PROVE  Tracks(s, st, ls, q, w)'
<1> USE DEF Control
<1>0. {"handle_client", "parse_request", "read_line", "async_read", "async_write"} = Frame
  BY HttpAssumption
<1>1. /\ UNCHANGED <<network, position, wire>>
      /\ Place(s, st, ls, q) /\ wire \in Seq(Page) /\ Sent(wire, s, st, w)
      /\ ReaderTracks(s, ls, q) /\ ParserTracks(s, st, ls, q) /\ ClientTracks(s, st, ls, q, w)
  BY DEF CallParseRequest, CallReadLine, CallAsyncRead, CallAsyncWrite, Tracks
<1>2. Place(s, st, ls, q)' /\ wire' \in Seq(Page) /\ Sent(wire', s, st, w)
  BY <1>1, PlaceStays DEF network
<1>3. s \in Seq(Symbol) /\ ls \in Nat /\ q \in Nat
  BY <1>1, PlaceTypes
<1>4. CASE CallParseRequest
  <2>1. /\ \A e \in Frame \ {"parse_request"} : frame'[e] # "none" <=> frame[e] # "none"
        /\ \A e \in Frame : frame'[e] = "final" <=> frame[e] = "final"
        /\ outcome' = outcome /\ frame[ "parse_request"] = "none"
    BY <1>0, <1>4, CallEffect DEF CallParseRequest
  <2>2. ~Alive("read_line") /\ ~Alive("read_line")'
    BY <1>0, <2>1, Stack, Names DEF Alive
  <2>3. /\ pc["handle_client"] = "parse" /\ pc'["handle_client"] = "parsing"
        /\ pc'["parse_request"] = "request line" /\ request' = NoRequest
    BY <1>0, <1>4 DEF CallParseRequest, TypesOK
  <2>4. ReaderTracks(s, ls, q)'
    BY <2>2 DEF ReaderTracks
  <2>5. ParserTracks(s, st, ls, q)'
    BY <1>1, <2>3 DEF ParserTracks, ClientTracks
  <2>6. ClientTracks(s, st, ls, q, w)'
    BY <1>1, <2>3 DEF ClientTracks
  <2> QED  BY <1>2, <2>4, <2>5, <2>6 DEF Tracks
<1>5. CASE CallReadLine
  <2>1. /\ \A e \in Frame \ {"read_line"} : frame'[e] # "none" <=> frame[e] # "none"
        /\ \A e \in Frame : frame'[e] = "final" <=> frame[e] = "final"
        /\ \A e \in Frame : frame'[e] = "waiting" <=> frame[e] = "waiting"
        /\ outcome' = outcome /\ frame["read_line"] = "none" /\ frame["parse_request"] = "running"
    BY <1>0, <1>5, CallEffect DEF CallReadLine
  <2>2. frame["async_read"] = "none"
    BY <1>0, <2>1, Stack, Names
  <2>3. /\ pc'["read_line"] = "read" /\ line' = <<>>
        /\ \A e \in Frame \ {"read_line"} : pc'[e] = pc[e]
        /\ request' = request /\ raw' = raw /\ total' = total
        /\ pc["parse_request"] \in {"request line", "headers"}
    BY <1>0, <1>5 DEF CallReadLine, TypesOK, Goto
  <2>4. ls = q
    BY <1>1, <2>1, <2>3 DEF ParserTracks, Alive
  <2>5. ReaderTracks(s, ls, q)'
    <3>1. SubSeq(s, ls + 1, q) = <<>>
      BY <1>3, <2>4
    <3>2. ls <= q /\ \A e \in LineEnds(s) : e <= ls \/ q < e
      BY <1>3, <2>4 DEF LineEnds
    <3>3. frame'["async_read"] = "none"
      BY <1>0, <2>1, <2>2
    <3> QED  BY <2>3, <3>1, <3>2, <3>3 DEF ReaderTracks, Partial
  <2>6. ParserTracks(s, st, ls, q)'
    BY <1>0, <1>1, <2>1, <2>3 DEF ParserTracks, Alive, Asked, Hopeless, network
  <2>7. ClientTracks(s, st, ls, q, w)'
    BY <1>0, <1>1, <2>3, ClientStays DEF network
  <2> QED  BY <1>2, <2>5, <2>6, <2>7 DEF Tracks
<1>6. CASE CallAsyncRead
  <2>1. /\ \A e \in Frame \ {"async_read"} : frame'[e] # "none" <=> frame[e] # "none"
        /\ frame'["async_read"] = "running" /\ frame["async_read"] = "none"
        /\ frame["read_line"] = "running"
    BY <1>0, <1>6, CallEffect DEF CallAsyncRead
  <2>2. /\ pc["read_line"] = "read" /\ pc'["read_line"] = "reading"
        /\ \A e \in Frame \ {"read_line"} : pc'[e] = pc[e]
        /\ line' = line /\ request' = request /\ raw' = raw /\ total' = total
    BY <1>0, <1>6 DEF CallAsyncRead, TypesOK, Goto
  <2>3. ReaderTracks(s, ls, q)'
    BY <1>0, <1>1, <2>1, <2>2 DEF ReaderTracks, Alive, Partial
  <2>4. ParserTracks(s, st, ls, q)'
    BY <1>0, <1>1, <2>1, <2>2, ParserStays DEF Alive, network
  <2>5. ClientTracks(s, st, ls, q, w)'
    BY <1>0, <1>1, <2>2, ClientStays DEF network
  <2> QED  BY <1>2, <2>3, <2>4, <2>5 DEF Tracks
<1>7. CASE CallAsyncWrite
  <2>1. /\ \A e \in Frame \ {"async_write"} : frame'[e] # "none" <=> frame[e] # "none"
        /\ \A e \in Frame : frame'[e] = "final" <=> frame[e] = "final"
        /\ \A e \in Frame : frame'[e] = "waiting" <=> frame[e] = "waiting"
        /\ outcome' = outcome
    BY <1>0, <1>7, CallEffect DEF CallAsyncWrite
  <2>2. /\ pc["handle_client"] = "respond" /\ pc'["handle_client"] = "writing"
        /\ \A e \in Frame \ {"handle_client"} : pc'[e] = pc[e]
        /\ line' = line /\ request' = request /\ raw' = raw /\ total' = 0
    BY <1>0, <1>7 DEF CallAsyncWrite, TypesOK, Goto
  <2>3. ReaderTracks(s, ls, q)'
    BY <1>0, <1>1, <2>1, <2>2, ReaderStays DEF Alive, network
  <2>4. ParserTracks(s, st, ls, q)'
    BY <1>0, <1>1, <2>1, <2>2, ParserStays DEF Alive, network
  <2>5. ClientTracks(s, st, ls, q, w)'
    BY <1>1, <2>2 DEF ClientTracks
  <2> QED  BY <1>2, <2>3, <2>4, <2>5 DEF Tracks
<1> QED  BY <1>4, <1>5, <1>6, <1>7

(* How a text ends, read backwards.                                        *)
LEMMA Reversed ==
    ASSUME NEW t \in Seq(Symbol), Len(t) >= 2
    PROVE  /\ SubSeq(Reverse(t), 1, 2) \in Seq(Symbol) /\ Len(SubSeq(Reverse(t), 1, 2)) = 2
           /\ SubSeq(Reverse(t), 1, 2)[1] = t[Len(t)] /\ SubSeq(Reverse(t), 1, 2)[2] = t[Len(t) - 1]
<1> DEFINE r == Reverse(t)
<1>1. \A i \in 1 .. Len(t) : (Len(t) - i) + 1 \in 1 .. Len(t) /\ r[i] = t[(Len(t) - i) + 1]
  BY DEF Reverse
<1>2. \A i \in 1 .. Len(t) : t[i] \in Symbol
  OBVIOUS
<1> HIDE DEF r
<1>3. 1 \in 1 .. Len(t) /\ 2 \in 1 .. Len(t)
  OBVIOUS
<1>4. r[1] = t[Len(t)] /\ r[2] = t[Len(t) - 1]
  BY <1>1, <1>3
<1>5. \A i \in 1 .. 2 : r[i] \in Symbol
  BY <1>1, <1>2
<1>6. /\ SubSeq(r, 1, 2) \in Seq(Symbol)
      /\ Len(SubSeq(r, 1, 2)) = IF 1 <= 2 THEN 2 - 1 + 1 ELSE 0
      /\ \A i \in 1 .. 2 - 1 + 1 : SubSeq(r, 1, 2)[i] = r[1 + i - 1]
  BY <1>5, SubSeqProperties
<1>7. SubSeq(r, 1, 2)[1] = r[1] /\ SubSeq(r, 1, 2)[2] = r[2]
  BY <1>6
<1> QED  BY <1>4, <1>6, <1>7 DEF r

(* IsLine() looks at the last two symbols.                                 *)
LEMMA IsLineEnds ==
    ASSUME NEW t \in Seq(Symbol)
    PROVE  IsLine(t) <=> Len(t) >= 2 /\ t[Len(t) - 1] = "cr" /\ t[Len(t)] = "lf"
<1>1. CASE Len(t) >= 2
  <2> DEFINE a == SubSeq(Reverse(CrLf), 1, 2)
             b == SubSeq(Reverse(t), 1, 2)
  <2>1. a \in Seq(Symbol) /\ Len(a) = 2 /\ a[1] = "lf" /\ a[2] = "cr"
    <3>1. CrLf \in Seq(Symbol) /\ Len(CrLf) = 2
      BY LineBreak
    <3>2. Len(CrLf) >= 2
      BY <3>1
    <3>3. a \in Seq(Symbol) /\ Len(a) = 2 /\ a[1] = CrLf[Len(CrLf)] /\ a[2] = CrLf[Len(CrLf) - 1]
      BY <3>1, <3>2, Reversed
    <3> HIDE DEF a
    <3>4. Len(CrLf) - 1 = 1
      BY <3>1
    <3> QED  BY <3>1, <3>3, <3>4, LineBreak
  <2>2. b \in Seq(Symbol) /\ Len(b) = 2 /\ b[1] = t[Len(t)] /\ b[2] = t[Len(t) - 1]
    BY <1>1, Reversed
  <2>3. Len(Reverse(CrLf)) = 2 /\ Len(Reverse(t)) = Len(t)
    BY LineBreak DEF Reverse
  <2> HIDE DEF a, b
  <2>4. a = b <=> a[1] = b[1] /\ a[2] = b[2]
    BY <2>1, <2>2, SeqEqual
  <2>5. IsLine(t) <=> a = b
    BY <1>1, <2>3 DEF IsLine, IsSuffix, IsPrefix, a, b
  <2> QED  BY <1>1, <2>1, <2>2, <2>4, <2>5
<1>2. CASE ~ (Len(t) >= 2)
  BY <1>2 DEF IsLine
<1> QED  BY <1>1, <1>2

(* What read_line has in its local is a line as soon as a line end is read.*)
LEMMA IsLineAtEnd ==
    ASSUME NEW s \in Seq(Symbol), NEW l \in LineStarts(s), NEW q \in Nat, l < q, q <= Len(s)
    PROVE  IsLine(SubSeq(s, l + 1, q)) <=> q \in LineEnds(s)
<1> DEFINE t == SubSeq(s, l + 1, q)
<1>1. l \in Nat
  BY StartsAreStarts
<1>2. t \in Seq(Symbol) /\ Len(t) = q - l /\ \A i \in 1 .. q - l : t[i] = s[l + i]
  BY <1>1
<1> HIDE DEF t
<1>3. ASSUME q \in LineEnds(s)
      PROVE  q - l >= 2 /\ s[q - 1] = "cr" /\ s[q] = "lf"
  BY <1>1, <1>3, EndsAreFar DEF LineEnds
<1>4. ASSUME q - l >= 2, s[q - 1] = "cr", s[q] = "lf"
      PROVE  q \in LineEnds(s)
  BY <1>1, <1>4 DEF LineEnds
<1>5. q - l >= 2 => t[Len(t)] = s[q] /\ t[Len(t) - 1] = s[q - 1]
  <2>1. ASSUME q - l >= 2
        PROVE  q - l \in 1 .. q - l /\ q - l - 1 \in 1 .. q - l /\ l + (q - l) = q /\ l + (q - l - 1) = q - 1
    BY <1>1, <2>1
  <2> QED  BY <1>2, <2>1
<1>6. IsLine(t) <=> q \in LineEnds(s)
  BY <1>1, <1>2, <1>3, <1>4, <1>5, IsLineEnds
<1> QED  BY <1>6 DEF t

(* The text read grows by a symbol,                                        *)
LEMMA OneMore ==
    ASSUME NEW s \in Seq(Symbol), NEW l \in Nat, NEW q \in Nat, l < q, q <= Len(s)
    PROVE  SubSeq(s, l + 1, q - 1) \o <<s[q]>> = SubSeq(s, l + 1, q)
<1>1. l + 1 \in 1 .. Len(s) /\ q \in l + 1 .. Len(s)
  OBVIOUS
<1> QED  BY <1>1, SubSeqRecursiveSecond, Zenon

(* and is cut by two when it is a line.                                    *)
LEMMA TwoLess ==
    ASSUME NEW s \in Seq(Symbol), NEW l \in Nat, NEW q \in Nat, l + 2 <= q, q <= Len(s)
    PROVE  SubSeq(SubSeq(s, l + 1, q), 1, Len(SubSeq(s, l + 1, q)) - 2) = SubSeq(s, l + 1, q - 2)
<1>1. Len(SubSeq(s, l + 1, q)) = q - l
  OBVIOUS
<1>2. SubSeq(SubSeq(s, l + 1, q), 1, q - l - 2) = SubSeq(s, l + 1, q - 2)
  OBVIOUS
<1> QED  BY <1>1, <1>2

(* What taking a result does to the chain.                                 *)
LEMMA CollectEffect ==
    ASSUME CallsNest, NEW c \in Frame, NEW d \in Frame, Collect(c, d)
    PROVE  /\ frame[c] = "running" /\ frame[d] = "final" /\ frame'[d] = "none" /\ c # d
           /\ \A e \in Frame \ {d} : frame'[e] = frame[e] /\ outcome'[e] = outcome[e]
  BY FreedEffect DEF Collect, HasResult, Runs

(* An exception passes through the coroutines that await.                  *)
LEMMA ThrowTracks ==
    ASSUME CallsNest, Control, NEW s, NEW st, NEW ls, NEW q, NEW w, Tracks(s, st, ls, q, w),
           \/ PassesOn("parse_request", "read_line") \/ PassesOn("read_line", "async_read")
           \/ HandleClientCatches
    PROVE  Tracks(s, st, ls, q, w)'
<1> USE DEF Control
<1>0. {"handle_client", "parse_request", "read_line", "async_read", "async_write"} = Frame
  BY HttpAssumption
<1>1. /\ UNCHANGED <<network, position, wire, open, line, request, raw, total>>
      /\ Place(s, st, ls, q) /\ wire \in Seq(Page) /\ Sent(wire, s, st, w)
      /\ ReaderTracks(s, ls, q) /\ ParserTracks(s, st, ls, q) /\ ClientTracks(s, st, ls, q, w)
  BY DEF PassesOn, HandleClientCatches, Tracks
<1>2. Place(s, st, ls, q)' /\ wire' \in Seq(Page) /\ Sent(wire', s, st, w)
  BY <1>1, PlaceStays DEF network
<1>3. CASE PassesOn("read_line", "async_read")
  <2>1. /\ frame["read_line"] = "running" /\ frame["async_read"] = "final"
        /\ frame'["async_read"] = "none"
        /\ \A e \in Frame \ {"async_read"} : frame'[e] = frame[e] /\ outcome'[e] = outcome[e]
    BY <1>0, <1>3, CollectEffect DEF PassesOn
  <2>2. pc'["read_line"] = "throw" /\ \A e \in Frame \ {"read_line"} : pc'[e] = pc[e]
    BY <1>0, <1>3, GotoEffect DEF PassesOn
  <2>3. broken
    BY <1>1, <1>3, <2>1 DEF ReaderTracks, Alive, PassesOn, Throws, Returns
  <2>4. ReaderTracks(s, ls, q)'
    BY <1>1, <2>1, <2>2, <2>3 DEF ReaderTracks, network
  <2>5. ParserTracks(s, st, ls, q)'
    BY <1>0, <1>1, <2>1, <2>2, ParserStays DEF Alive, network
  <2>6. ClientTracks(s, st, ls, q, w)'
    BY <1>0, <1>1, <2>2, ClientStays DEF network
  <2> QED  BY <1>2, <2>4, <2>5, <2>6 DEF Tracks
<1>4. CASE PassesOn("parse_request", "read_line")
  <2>1. /\ frame["parse_request"] = "running" /\ frame["read_line"] = "final"
        /\ frame'["read_line"] = "none"
        /\ \A e \in Frame \ {"read_line"} : frame'[e] = frame[e] /\ outcome'[e] = outcome[e]
    BY <1>0, <1>4, CollectEffect DEF PassesOn
  <2>2. pc'["parse_request"] = "throw" /\ \A e \in Frame \ {"parse_request"} : pc'[e] = pc[e]
    BY <1>0, <1>4, GotoEffect DEF PassesOn
  <2>3. pc["read_line"] = "throw"
    BY <1>4, <2>1 DEF Results, PassesOn, Returns
  <2>4. broken
    BY <1>1, <2>1, <2>3 DEF ReaderTracks, Alive
  <2>5. ReaderTracks(s, ls, q)'
    BY <2>1 DEF ReaderTracks, Alive
  <2>6. ParserTracks(s, st, ls, q)'
    BY <1>1, <2>2, <2>4 DEF ParserTracks, network
  <2>7. ClientTracks(s, st, ls, q, w)'
    BY <1>0, <1>1, <2>2, ClientStays DEF network
  <2> QED  BY <1>2, <2>5, <2>6, <2>7 DEF Tracks
<1>5. CASE HandleClientCatches
  <2>1. PICK d \in {"parse_request", "async_write"} :
            outcome[d].thrown /\ Collect("handle_client", d) /\ Goto("handle_client", "end")
    BY <1>5 DEF HandleClientCatches
  <2>2. /\ frame[d] = "final" /\ frame'[d] = "none"
        /\ \A e \in Frame \ {d} : frame'[e] = frame[e] /\ outcome'[e] = outcome[e]
    BY <1>0, <2>1, CollectEffect
  <2>3. pc'["handle_client"] = "end" /\ \A e \in Frame \ {"handle_client"} : pc'[e] = pc[e]
    BY <1>0, <2>1, GotoEffect
  <2>4. ReaderTracks(s, ls, q)'
    BY <1>0, <1>1, <2>1, <2>2, <2>3, ReaderStays DEF Alive, network
  <2>5. broken \/ (Hopeless(s, st) /\ w = 0)
    <3>1. CASE d = "parse_request"
      <4>1. pc["parse_request"] = "throw"
        BY <2>1, <2>2, <3>1 DEF Results, Returns
      <4>2. pc["handle_client"] = "parsing"
        BY <1>0, <2>2, <3>1, Names DEF Nesting, Alive
      <4> QED  BY <1>1, <2>2, <3>1, <4>1, <4>2 DEF ParserTracks, ClientTracks, Alive
    <3>2. CASE d = "async_write"
      BY <2>1, <2>2, <3>2 DEF Results, Returns
    <3> QED  BY <3>1, <3>2
  <2>6. ParserTracks(s, st, ls, q)'
    BY <1>0, <1>1, <2>1, <2>2, <2>3, ParserStays DEF Alive, network
  <2>7. ClientTracks(s, st, ls, q, w)'
    <3>1. broken' \/ (Hopeless(s, st)' /\ w = 0)
      BY <1>1, <2>5 DEF Hopeless, network
    <3> QED  BY <2>3, <3>1 DEF ClientTracks
  <2> QED  BY <1>2, <2>4, <2>6, <2>7 DEF Tracks
<1> QED  BY <1>3, <1>4, <1>5

(* The first request starts where the stream does.                         *)
LEMMA AcceptTracks ==
    ASSUME CallsNest, Control, NEW s, NEW st, NEW ls, NEW q, NEW w, Tracks(s, st, ls, q, w),
           AcceptAndHandle
    PROVE  Tracks(s, st, ls, q, w)'
<1>0. {"handle_client", "parse_request", "read_line", "async_read", "async_write"} = Frame
  BY HttpAssumption
<1>1. /\ UNCHANGED <<network, position, wire, open, line, request, raw, total>>
      /\ Place(s, st, ls, q) /\ wire \in Seq(Page) /\ Sent(wire, s, st, w)
      /\ ReaderTracks(s, ls, q) /\ ParserTracks(s, st, ls, q) /\ ClientTracks(s, st, ls, q, w)
  BY DEF AcceptAndHandle, Tracks
<1>2. Place(s, st, ls, q)' /\ wire' \in Seq(Page) /\ Sent(wire', s, st, w)
  BY <1>1, PlaceStays DEF network
<1>3. \A e \in Frame \ {"handle_client"} : frame'[e] = frame[e] /\ outcome'[e] = outcome[e]
  BY <1>0, LeafEffect DEF AcceptAndHandle
<1>4. /\ pc["handle_client"] = "start" /\ pc'["handle_client"] = "parse"
      /\ \A e \in Frame \ {"handle_client"} : pc'[e] = pc[e]
  BY <1>0, GotoEffect DEF AcceptAndHandle, Control
<1>5. ReaderTracks(s, ls, q)'
  BY <1>0, <1>1, <1>3, <1>4, ReaderStays DEF Alive, network
<1>6. ParserTracks(s, st, ls, q)'
  BY <1>0, <1>1, <1>3, <1>4, ParserStays DEF Alive, network
<1>7. ClientTracks(s, st, ls, q, w)'
  BY <1>1, <1>4 DEF ClientTracks
<1> QED  BY <1>2, <1>5, <1>6, <1>7 DEF Tracks

(* What send() takes is what comes next of the response.                   *)
LEMMA SendTracks ==
    ASSUME CallsNest, Control, NEW s, IsStream(s), NEW st, NEW ls, NEW q, NEW w,
           Tracks(s, st, ls, q, w), Send
    PROVE  Tracked(s)'
<1> USE DEF Control
<1>0. /\ {"handle_client", "parse_request", "read_line", "async_read", "async_write"} = Frame
      /\ Size \in Nat
  BY HttpAssumption
<1>1. /\ Place(s, st, ls, q) /\ wire \in Seq(Page) /\ Sent(wire, s, st, w)
      /\ ReaderTracks(s, ls, q) /\ ParserTracks(s, st, ls, q) /\ ClientTracks(s, st, ls, q, w)
  BY DEF Tracks
<1>2. CASE (\E result : Finish("async_write", result)) \/ WaitForEvent("async_write")
  <2>1. UNCHANGED <<network, position, wire, open, locals>>
    <3>1. frame["async_write"] = "running" /\ frame'["async_write"] # "running"
      BY <1>0, <1>2, FinishEffect DEF WaitForEvent, CallsNest, GoesOn, Runs, Finish, Ended
    <3> QED  BY <3>1 DEF Send, chain
  <2>2. /\ \A e \in Frame : frame'[e] # "none" <=> frame[e] # "none"
        /\ frame'["async_read"] = "final" <=> frame["async_read"] = "final"
        /\ frame'["async_read"] = "waiting" => frame["async_read"] = "waiting"
        /\ outcome'["async_read"] = outcome["async_read"]
    <3>1. CASE \E result : Finish("async_write", result)
      BY <1>0, <3>1, FinishEffect
    <3>2. CASE WaitForEvent("async_write")
      <4>1. frame["async_write"] # "none"
        BY <3>2 DEF WaitForEvent, GoesOn, Runs
      <4> QED  BY <1>0, <3>2, <4>1, LeafEffect
    <3> QED  BY <1>2, <3>1, <3>2
  <2>3. Tracks(s, st, ls, q, w)'
    BY <1>0, <2>1, <2>2, QuietTracks DEF network, locals, Alive
  <2> QED  BY <2>3 DEF Tracked
<1>3. CASE ~ ((\E result : Finish("async_write", result)) \/ WaitForEvent("async_write"))
  <2>1. PICK count \in 1 .. Size - total :
            /\ wire' = wire \o SubSeq(raw, total + 1, total + count)
            /\ total' = total + count
    BY <1>3 DEF Send
  <2>2. /\ Runs("async_write")
        /\ UNCHANGED <<chain, input, pieces, eof, broken, position, open, pc, line, request, raw>>
    BY <1>3 DEF Send
  <2>3. pc["handle_client"] = "writing"
    BY <1>0, <2>2, Names DEF Nesting, Alive, Runs
  <2>4. w = total /\ Complete(s, st) /\ raw = Response(Parse(FirstLine(s, st)))
    BY <1>1, <2>3 DEF ClientTracks
  <2>5. s \in Seq(Symbol) /\ Reached(s, st)
    BY <1>1, PlaceTypes DEF Place
  <2>6. wire' \in Seq(Page) /\ Sent(wire', s, st, w + count)
    BY <1>1, <2>1, <2>4, <2>5, SentMore
  <2>7. Place(s, st, ls, q)'
    BY <1>1, <2>2, PlaceStays
  <2>8. ReaderTracks(s, ls, q)' /\ ParserTracks(s, st, ls, q)'
    BY <1>1, <2>2, ReaderStays, ParserStays DEF chain, Alive
  <2>9. ClientTracks(s, st, ls, q, w + count)'
    BY <1>1, <2>1, <2>2, <2>3, <2>4 DEF ClientTracks
  <2>10. Tracks(s, st, ls, q, w + count)'
    BY <2>6, <2>7, <2>8, <2>9 DEF Tracks
  <2> QED  BY <2>10 DEF Tracked
<1> QED  BY <1>2, <1>3

(* A response sent as a whole: the next request starts where it ended.     *)
LEMMA WrittenTracks ==
    ASSUME CallsNest, Control, NEW s, IsStream(s), NEW st, NEW ls, NEW q, NEW w,
           Tracks(s, st, ls, q, w), AsyncWriteReturns
    PROVE  Tracked(s)'
<1> USE DEF Control
<1>0. {"handle_client", "parse_request", "read_line", "async_read", "async_write"} = Frame
  BY HttpAssumption
<1>1. /\ UNCHANGED <<network, position, wire, open, line, request, raw, total>>
      /\ Place(s, st, ls, q) /\ wire \in Seq(Page) /\ Sent(wire, s, st, w)
      /\ ReaderTracks(s, ls, q) /\ ParserTracks(s, st, ls, q) /\ ClientTracks(s, st, ls, q, w)
  BY DEF AsyncWriteReturns, Tracks
<1>2. /\ frame["handle_client"] = "running" /\ frame["async_write"] = "final"
      /\ \A e \in Frame \ {"async_write"} : frame'[e] = frame[e] /\ outcome'[e] = outcome[e]
  BY <1>0, CollectEffect DEF AsyncWriteReturns
<1>3. /\ pc["handle_client"] = "writing" /\ pc'["handle_client"] = "parse"
      /\ \A e \in Frame \ {"handle_client"} : pc'[e] = pc[e]
  BY <1>0, GotoEffect DEF AsyncWriteReturns
<1>4. total = Size
  BY <1>2 DEF Results, AsyncWriteReturns, Throws
<1>5. w = Size /\ ls = q /\ Complete(s, st) /\ EndsHeaders(s, st, ls)
  BY <1>1, <1>3, <1>4 DEF ClientTracks
<1>6. s \in Seq(Symbol) /\ Reached(s, st) /\ ls \in Nat
  BY <1>1, PlaceTypes DEF Place
<1>7. Reached(s, ls) /\ Sent(wire, s, ls, 0)
  BY <1>1, <1>5, <1>6, NextRequest, SentAll
<1>8. Place(s, ls, ls, q)'
  BY <1>1, <1>6, <1>7 DEF Place, At, network
<1>9. ~Alive("parse_request")
  <2>1. Alive("parse_request") => pc["handle_client"] \in AtCall("parse_request")
    BY <1>0, Names DEF Nesting
  <2> QED  BY <1>3, <2>1, Names
<1>10. ReaderTracks(s, ls, q)'
  BY <1>0, <1>1, <1>2, <1>3, ReaderStays DEF Alive, network
<1>11. ParserTracks(s, ls, ls, q)'
  BY <1>0, <1>2, <1>9 DEF Alive, ParserTracks
<1>12. ClientTracks(s, ls, ls, q, 0)'
  BY <1>3, <1>5 DEF ClientTracks
<1>13. Tracks(s, ls, ls, q, 0)'
  BY <1>1, <1>7, <1>8, <1>10, <1>11, <1>12 DEF Tracks
<1> QED  BY <1>13 DEF Tracked

(* No method is taken for the end of the stream; there is none left then.  *)
LEMMA ParsedTracks ==
    ASSUME CallsNest, Control, NEW s, IsStream(s), NEW st, NEW ls, NEW q, NEW w,
           Tracks(s, st, ls, q, w), ParseRequestReturns
    PROVE  Tracks(s, st, ls, q, w)'
<1> USE DEF Control
<1>0. {"handle_client", "parse_request", "read_line", "async_read", "async_write"} = Frame
  BY HttpAssumption
<1>1. /\ UNCHANGED <<network, position, wire, open, line, request, total>>
      /\ Place(s, st, ls, q) /\ wire \in Seq(Page) /\ Sent(wire, s, st, w)
      /\ ReaderTracks(s, ls, q) /\ ParserTracks(s, st, ls, q) /\ ClientTracks(s, st, ls, q, w)
  BY DEF ParseRequestReturns, Tracks
<1>2. Place(s, st, ls, q)' /\ wire' \in Seq(Page) /\ Sent(wire', s, st, w)
  BY <1>1, PlaceStays DEF network
<1>3. /\ frame["handle_client"] = "running" /\ frame["parse_request"] = "final"
      /\ frame'["parse_request"] = "none"
      /\ \A e \in Frame \ {"parse_request"} : frame'[e] = frame[e] /\ outcome'[e] = outcome[e]
  BY <1>0, CollectEffect DEF ParseRequestReturns
<1>4. /\ pc["handle_client"] = "parsing" /\ pc'["handle_client"] \in {"end", "respond"}
      /\ \A e \in Frame \ {"handle_client"} : pc'[e] = pc[e]
  BY <1>0, GotoEffect DEF ParseRequestReturns
<1>5. pc["parse_request"] = "return" /\ outcome["parse_request"].value = request
  BY <1>3 DEF Results, ParseRequestReturns, Throws, Returns
<1>6. ~Alive("read_line")
  BY <1>0, <1>3, Stack, Names DEF Alive
<1>7. /\ ls = q /\ w = 0
      /\ \/ request = NoRequest /\ Hopeless(s, st)
         \/ Asked(s, st) /\ EndsHeaders(s, st, ls)
  BY <1>1, <1>3, <1>4, <1>5, <1>6 DEF ParserTracks, ClientTracks, Alive
<1>8. s \in Seq(Symbol) /\ st \in Starts(s) /\ st \in Nat /\ st \in LineStarts(s) /\ ls \in Nat
  BY <1>1, PlaceTypes
<1>9. ASSUME Asked(s, st), EndsHeaders(s, st, ls)
      PROVE  /\ \E e \in LineEnds(s) : EndsLine(s, st, e) /\ st < e /\ e < ls
             /\ request[1] = <<>> <=> Space(FirstLine(s, st)) = 1
             /\ Space(FirstLine(s, st)) \in Nat /\ Space(FirstLine(s, st)) > 0
  <2>1. ls \in Blanks(s) /\ st < ls
    BY <1>9 DEF EndsHeaders
  <2>2. \E e \in LineEnds(s) : EndsLine(s, st, e) /\ st < e /\ e < ls
    BY <1>8, <1>9, <2>1, HeadersComplete DEF Asked
  <2>3. FirstLine(s, st) \in Seq(Symbol)
    BY <1>8, <2>2, FirstLineIsText
  <2>4. Space(FirstLine(s, st)) \in Nat /\ Space(FirstLine(s, st)) > 0
    BY <1>9, <2>3, Spaces DEF Asked
  <2>5. Before(FirstLine(s, st)) = <<>> <=> Space(FirstLine(s, st)) = 1
    BY <2>3, <2>4, Spaces
  <2>6. request[1] = Before(FirstLine(s, st))
    BY <1>9 DEF Asked, Parse
  <2> QED  BY <2>2, <2>4, <2>5, <2>6
<1>10. ReaderTracks(s, ls, q)'
  BY <1>0, <1>3, <1>6 DEF ReaderTracks, Alive
<1>11. ParserTracks(s, st, ls, q)'
  BY <1>3 DEF ParserTracks, Alive
<1>12. CASE request[1] = <<>>
  <2>1. pc'["handle_client"] = "end"
    BY <1>0, <1>5, <1>12, GotoEffect DEF ParseRequestReturns
  <2>2. Hopeless(s, st)
    <3>1. CASE Asked(s, st) /\ EndsHeaders(s, st, ls)
      BY <1>9, <1>12, <3>1 DEF Hopeless
    <3> QED  BY <1>7, <3>1
  <2>3. Hopeless(s, st)'
    BY <1>1, <2>2 DEF Hopeless, network
  <2>4. ClientTracks(s, st, ls, q, w)'
    BY <1>7, <2>1, <2>3 DEF ClientTracks
  <2> QED  BY <1>2, <1>10, <1>11, <2>4 DEF Tracks
<1>13. CASE request[1] # <<>>
  <2>1. pc'["handle_client"] = "respond" /\ raw' = Response(request)
    BY <1>0, <1>5, <1>13, GotoEffect DEF ParseRequestReturns
  <2>2. Asked(s, st) /\ EndsHeaders(s, st, ls)
    BY <1>7, <1>13 DEF NoRequest
  <2>3. Complete(s, st)
    <3>1. Space(FirstLine(s, st)) > 1
      BY <1>9, <1>13, <2>2
    <3> QED  BY <1>9, <2>2, <3>1 DEF Complete, EndsHeaders
  <2>4. ClientTracks(s, st, ls, q, w)'
    BY <1>7, <2>1, <2>2, <2>3 DEF ClientTracks, Asked
  <2> QED  BY <1>2, <1>10, <1>11, <2>4 DEF Tracks
<1> QED  BY <1>12, <1>13

(* Equal texts have their space at the same place.                         *)
LEMMA SameText == ASSUME NEW a, NEW b, a = b PROVE Space(a) = Space(b)
  OBVIOUS

(* A line that read_line returns ends where it has read up to.             *)
LEMMA LineTracks ==
    ASSUME CallsNest, Control, NEW s, IsStream(s), NEW st, NEW ls, NEW q, NEW w,
           Tracks(s, st, ls, q, w), ReadLineReturns
    PROVE  Tracks(s, st, q, q, w)'
<1> USE DEF Control
<1>0. {"handle_client", "parse_request", "read_line", "async_read", "async_write"} = Frame
  BY HttpAssumption
<1>1. /\ UNCHANGED <<network, position, wire, open, line, raw, total>>
      /\ Place(s, st, ls, q) /\ wire \in Seq(Page) /\ Sent(wire, s, st, w)
      /\ ReaderTracks(s, ls, q) /\ ParserTracks(s, st, ls, q) /\ ClientTracks(s, st, ls, q, w)
  BY DEF ReadLineReturns, Tracks
<1>2. /\ frame["parse_request"] = "running" /\ frame["read_line"] = "final"
      /\ frame'["read_line"] = "none"
      /\ \A e \in Frame \ {"read_line"} : frame'[e] = frame[e] /\ outcome'[e] = outcome[e]
  BY <1>0, CollectEffect DEF ReadLineReturns
<1>3. pc["read_line"] = "return" /\ outcome["read_line"].value = line
  <2>1. ~ outcome["read_line"].thrown
    BY DEF ReadLineReturns
  <2>2. outcome["read_line"] = IF pc["read_line"] = "throw" THEN Throws ELSE Returns(line)
    BY <1>2 DEF Results
  <2>3. pc["read_line"] \in {"return", "throw"}
    BY <1>2 DEF Results
  <2> QED  BY <2>1, <2>2, <2>3 DEF Throws, Returns
<1>4. /\ pc["parse_request"] \in {"request line", "headers"}
      /\ pc["handle_client"] = "parsing" /\ pc'["handle_client"] = "parsing"
  <2>1. pc["parse_request"] \in {"request line", "headers"} /\ pc["handle_client"] = "parsing"
    BY <1>0, <1>2, Names DEF Nesting, Alive
  <2>2. pc' = pc \/ \E label : Goto("parse_request", label)
    BY DEF ReadLineReturns
  <2>3. pc'["handle_client"] = pc["handle_client"]
    BY <1>0, <2>2, GotoEffect
  <2> QED  BY <2>1, <2>3
<1>5. \/ EndsLine(s, ls, q) /\ line = SubSeq(s, ls + 1, q - 2)
      \/ eof /\ q = Len(s) /\ ls = q /\ line = <<>>
  BY <1>1, <1>2, <1>3 DEF ReaderTracks, Alive
<1>6. /\ s \in Seq(Symbol) /\ Len(s) \in Nat /\ Len(input) \in Nat
      /\ st \in Nat /\ ls \in Nat /\ q \in Nat /\ st <= ls /\ ls <= q
      /\ ls \in LineStarts(s) /\ At(q) /\ Reached(s, st)
  BY <1>1, PlaceTypes DEF Place
<1>7. LineEnds(s) \subseteq 0 .. Len(s) /\ Blanks(s) \subseteq LineEnds(s)
  BY <1>6, StartsAreStarts
<1>8. (Place(s, st, q, q) /\ wire \in Seq(Page) /\ Sent(wire, s, st, w))'
  <2>1. q \in LineStarts(s)
    BY <1>5, <1>6 DEF EndsLine, LineStarts
  <2> QED  BY <1>1, <1>6, <2>1 DEF Place, At, network
<1>9. ReaderTracks(s, q, q)'
  BY <1>2 DEF ReaderTracks, Alive
<1>10. ClientTracks(s, st, q, q, w)'
  BY <1>1, <1>4 DEF ClientTracks
<1>11. /\ pc["parse_request"] = "request line" => ls = st /\ request = NoRequest
       /\ pc["parse_request"] = "headers" =>
              Asked(s, st) /\ st < ls /\ \A b \in Blanks(s) : b <= st \/ ls < b
  BY <1>1, <1>2 DEF ParserTracks, Alive, InHeaders
<1>12. CASE EndsLine(s, ls, q) /\ line = SubSeq(s, ls + 1, q - 2)
  <2>1. /\ line \in Seq(Symbol) /\ Len(line) = q - 2 - ls /\ ls + 2 <= q
        /\ FirstLine(s, ls) = line /\ (q \in Blanks(s) <=> q = ls + 2)
    BY <1>6, <1>12, LineIsText, BlankIsEmpty
  <2>2. line = <<>> <=> q \in Blanks(s)
    BY <1>6, <2>1
  <2>3. /\ q \in LineEnds(s) /\ ls < q /\ st < q
        /\ \A x \in LineEnds(s) : x <= ls \/ q <= x
    BY <1>6, <1>12 DEF EndsLine
  <2>8. Space(line) \in Nat
    <3>1. Space(line) \in 0 .. Len(line)
      BY <2>1, Spaces
    <3> QED  BY <3>1
  <2>9. Space(FirstLine(s, st)) <= 1 => Hopeless(s, st)
    BY <2>3 DEF Hopeless
  <2>10. pc["parse_request"] = "request line" =>
             FirstLine(s, st) = line /\ Space(FirstLine(s, st)) = Space(line)
    BY <1>11, <2>1, SameText
  <2>4. CASE line = <<>>
    <3>1. pc'["parse_request"] = "return" /\ request' = request
      BY <1>0, <1>3, <2>4, GotoEffect DEF ReadLineReturns
    <3>2. CASE pc["parse_request"] = "request line"
      <4>1. Hopeless(s, st)
        <5>1. Space(FirstLine(s, st)) = Space(line)
          BY <2>10, <3>2
        <5>2. Space(line) = 0
          BY <2>4, NoSpace, SameText
        <5>3. Space(FirstLine(s, st)) <= 1
          BY <5>1, <5>2
        <5> QED  BY <2>9, <5>3
      <4>2. (request = NoRequest /\ Hopeless(s, st))'
        BY <1>1, <1>11, <3>1, <3>2, <4>1 DEF Hopeless, network
      <4>3. ParserTracks(s, st, q, q)'
        BY <3>1, <4>2 DEF ParserTracks
      <4> QED  BY <1>8, <1>9, <1>10, <4>3 DEF Tracks
    <3>3. CASE pc["parse_request"] = "headers"
      <4>1. EndsHeaders(s, st, q)
        <5>1. \A b \in Blanks(s) : b \in LineEnds(s) /\ b \in Nat
          BY <1>6, <1>7
        <5>2. q \in Blanks(s) /\ \A b \in Blanks(s) : b <= st \/ ls < b
          BY <1>11, <2>2, <2>4, <3>3
        <5>3. \A b \in Blanks(s) : b <= st \/ q <= b
          BY <1>6, <2>3, <5>1, <5>2
        <5> QED  BY <2>3, <5>2, <5>3 DEF EndsHeaders
      <4>2. Asked(s, st)'
        BY <1>11, <3>1, <3>3 DEF Asked
      <4>3. ParserTracks(s, st, q, q)'
        BY <3>1, <4>1, <4>2 DEF ParserTracks
      <4> QED  BY <1>8, <1>9, <1>10, <4>3 DEF Tracks
    <3> QED  BY <1>4, <3>2, <3>3
  <2>5. CASE line # <<>> /\ pc["parse_request"] = "headers"
    <3>1. pc' = pc /\ request' = request
      BY <1>3, <2>5 DEF ReadLineReturns
    <3>2. InHeaders(s, st, q)
      <4>1. \A b \in Blanks(s) : b \in LineEnds(s) /\ b \in Nat
        BY <1>6, <1>7
      <4>2. q \notin Blanks(s) /\ \A b \in Blanks(s) : b <= st \/ ls < b
        BY <1>11, <2>2, <2>5
      <4>3. \A b \in Blanks(s) : b <= st \/ q < b
        BY <1>6, <2>3, <4>1, <4>2
      <4> QED  BY <2>3, <4>3 DEF InHeaders
    <3>3. Asked(s, st)'
      BY <1>11, <2>5, <3>1 DEF Asked
    <3>4. ParserTracks(s, st, q, q)'
      BY <2>5, <3>1, <3>2, <3>3 DEF ParserTracks
    <3> QED  BY <1>8, <1>9, <1>10, <3>4 DEF Tracks
  <2>6. CASE line # <<>> /\ pc["parse_request"] = "request line" /\ Space(line) = 0
    <3>1. pc'["parse_request"] = "throw"
      BY <1>0, <1>3, <2>6, GotoEffect DEF ReadLineReturns
    <3>2. Hopeless(s, st)
      <4>1. Space(FirstLine(s, st)) = Space(line)
        BY <2>6, <2>10
      <4>2. Space(FirstLine(s, st)) = 0
        BY <2>6, <4>1
      <4>3. Space(FirstLine(s, st)) <= 1
        BY <4>2
      <4> QED  BY <2>9, <4>3
    <3>3. Hopeless(s, st)'
      BY <1>1, <3>2 DEF Hopeless, network
    <3>4. ParserTracks(s, st, q, q)'
      BY <3>1, <3>3 DEF ParserTracks
    <3> QED  BY <1>8, <1>9, <1>10, <3>4 DEF Tracks
  <2>7. CASE line # <<>> /\ pc["parse_request"] = "request line" /\ Space(line) # 0
    <3>1. pc'["parse_request"] = "headers" /\ request' = Parse(line)
      BY <1>0, <1>3, <2>7, GotoEffect DEF ReadLineReturns
    <3>2. InHeaders(s, st, q)
      <4>1. \A b \in Blanks(s) : b \in LineEnds(s) /\ b \in Nat
        BY <1>6, <1>7
      <4>2. st = ls /\ q \notin Blanks(s)
        BY <1>11, <2>2, <2>7
      <4>3. \A b \in Blanks(s) : b <= st \/ q < b
        BY <1>6, <2>3, <4>1, <4>2
      <4> QED  BY <2>3, <4>3 DEF InHeaders
    <3>3. Space(FirstLine(s, st)) > 0 /\ FirstLine(s, st) = line
      <4>1. Space(FirstLine(s, st)) = Space(line) /\ FirstLine(s, st) = line
        BY <2>7, <2>10
      <4>2. Space(line) # 0
        BY <2>7
      <4>3. Space(line) > 0
        BY <2>8, <4>2
      <4> QED  BY <4>1, <4>3
    <3>4. Asked(s, st)'
      BY <3>1, <3>3 DEF Asked
    <3>5. ParserTracks(s, st, q, q)'
      BY <3>1, <3>2, <3>4 DEF ParserTracks
    <3> QED  BY <1>8, <1>9, <1>10, <3>5 DEF Tracks
  <2> QED  BY <1>4, <2>4, <2>5, <2>6, <2>7
<1>13. CASE eof /\ q = Len(s) /\ ls = q /\ line = <<>>
  <2>1. pc'["parse_request"] = "return" /\ request' = request
    BY <1>0, <1>3, <1>13, GotoEffect DEF ReadLineReturns
  <2>2. pc["parse_request"] # "headers"
    <3>1. Len(s) \in Blanks(s)
      BY <1>13, EndOfInput DEF IsStream
    <3>2. ls \in Blanks(s) /\ ~ (ls < ls)
      BY <1>6, <1>13, <3>1
    <3>3. ~ (st < ls /\ ls <= st)
      BY <1>6
    <3> QED  BY <1>11, <3>2, <3>3
  <2>3. ls = st /\ request = NoRequest
    BY <1>4, <1>11, <2>2
  <2>4. ~Complete(s, st)
    BY <1>6, <1>7, <1>13, <2>3 DEF Complete
  <2>5. (request = NoRequest /\ Hopeless(s, st))'
    BY <1>1, <1>13, <2>1, <2>3, <2>4 DEF Hopeless, network
  <2>6. ParserTracks(s, st, q, q)'
    BY <2>1, <2>5 DEF ParserTracks
  <2> QED  BY <1>8, <1>9, <1>10, <2>6 DEF Tracks
<1> QED  BY <1>5, <1>12, <1>13

(* Who reads is read_line, for parse_request, for handle_client.           *)
LEMMA Reading ==
    ASSUME CallsNest, Nesting, Alive("read_line")
    PROVE  Alive("parse_request") /\ pc["handle_client"] = "parsing"
<1>1. /\ "parse_request" \in Frame \ {"handle_client"} /\ "read_line" \in Frame \ {"handle_client"}
      /\ Caller("parse_request") = "handle_client" /\ Caller("read_line") = "parse_request"
      /\ AtCall("parse_request") = {"parsing"}
  BY Names
<1>2. Alive("parse_request")
  BY <1>1, Stack DEF Alive
<1> QED  BY <1>1, <1>2 DEF Nesting

(* While it reads nobody else looks at how far it is.                      *)
LEMMA ReadingStays ==
    ASSUME NEW s, NEW st, NEW ls, NEW q, NEW w, NEW h,
           ParserTracks(s, st, ls, q), ClientTracks(s, st, ls, q, w),
           UNCHANGED <<network, request, raw, total>>, Alive("read_line")',
           pc["handle_client"] = "parsing", pc'["handle_client"] = pc["handle_client"],
           Alive("parse_request"), pc'["parse_request"] = pc["parse_request"]
    PROVE  ParserTracks(s, st, ls, h)' /\ ClientTracks(s, st, ls, h, w)'
  BY DEF ParserTracks, ClientTracks, Asked, Hopeless, network

(* The end of the stream stands for the end of the line.                   *)
LEMMA EndIsLine ==
    ASSUME TypesOK, NEW s, IsStream(s), NEW ls \in Nat, NEW q, At(q), q \in Nat,
           eof, position = Len(input), Partial(s, ls, q)
    PROVE  \E h \in Nat :
               /\ At(h) /\ q <= h
               /\ \/ EndsLine(s, ls, h) /\ line = SubSeq(s, ls + 1, h - 2)
                  \/ eof /\ h = Len(s) /\ ls = h /\ line = <<>>
<1> DEFINE n == Len(input)
<1>1. n \in Nat /\ Len(s) = n + 4 /\ s \in Seq(Symbol)
  BY DEF TypesOK, IsStream
<1>2. n + 2 \in LineEnds(s) /\ n + 4 \in LineEnds(s) /\ n + 1 \notin LineEnds(s) /\ n + 3 \notin LineEnds(s)
  BY <1>1, EndOfInput, StartsAreStarts
<1>3. q \in {n, n + 2, n + 4} /\ At(n + 2) /\ At(n + 4)
  BY DEF At
<1>4. LineEnds(s) \subseteq Nat /\ ls <= q /\ \A e \in LineEnds(s) : e <= ls \/ q < e
  BY <1>1 DEF LineEnds, Partial
<1>5. line = SubSeq(s, ls + 1, q)
  BY DEF Partial
<1> HIDE DEF n
<1>6. CASE q = n
  <2>1. EndsLine(s, ls, n + 2)
    BY <1>1, <1>2, <1>4, <1>6 DEF EndsLine
  <2>2. (n + 2) - 2 = q /\ q <= n + 2 /\ n + 2 \in Nat
    BY <1>1, <1>6
  <2> QED  BY <1>3, <1>5, <2>1, <2>2
<1>7. CASE q = n + 2
  <2>1. EndsLine(s, ls, n + 4)
    BY <1>1, <1>2, <1>4, <1>7 DEF EndsLine
  <2>2. (n + 4) - 2 = q /\ q <= n + 4 /\ n + 4 \in Nat
    BY <1>1, <1>7
  <2> QED  BY <1>3, <1>5, <2>1, <2>2
<1>8. CASE q = n + 4
  <2>1. ls = q
    BY <1>1, <1>2, <1>4, <1>8
  <2>2. SubSeq(s, ls + 1, q) = <<>>
    BY <1>1, <2>1
  <2> QED  BY <1>1, <1>3, <1>5, <1>8, <2>1, <2>2
<1> QED  BY <1>3, <1>6, <1>7, <1>8

(* What read_line makes of what it is given.                               *)
LEMMA BytesTrack ==
    ASSUME CallsNest, Control, NEW s, IsStream(s), NEW st, NEW ls, NEW q, NEW w,
           Tracks(s, st, ls, q, w), AsyncReadReturns
    PROVE  Tracked(s)'
<1> USE DEF Control
<1>0. {"handle_client", "parse_request", "read_line", "async_read", "async_write"} = Frame
  BY HttpAssumption
<1>1. /\ UNCHANGED <<network, position, wire, open, request, raw, total>>
      /\ Place(s, st, ls, q) /\ wire \in Seq(Page) /\ Sent(wire, s, st, w)
      /\ ReaderTracks(s, ls, q) /\ ParserTracks(s, st, ls, q) /\ ClientTracks(s, st, ls, q, w)
  BY DEF AsyncReadReturns, Tracks
<1>2. /\ frame["read_line"] = "running" /\ frame["async_read"] = "final"
      /\ frame'["async_read"] = "none" /\ frame'["read_line"] = "running"
      /\ \A e \in Frame \ {"async_read"} : frame'[e] = frame[e] /\ outcome'[e] = outcome[e]
  <2>1. /\ frame["read_line"] = "running" /\ frame["async_read"] = "final" /\ frame'["async_read"] = "none"
        /\ \A e \in Frame \ {"async_read"} : frame'[e] = frame[e] /\ outcome'[e] = outcome[e]
    BY <1>0, CollectEffect DEF AsyncReadReturns
  <2>2. "read_line" \in Frame \ {"async_read"}
    BY <1>0
  <2> QED  BY <2>1, <2>2
<1>3. /\ pc["read_line"] = "reading"
      /\ \A e \in Frame \ {"read_line"} : pc'[e] = pc[e]
  <2>1. \E label : Goto("read_line", label)
    BY DEF AsyncReadReturns
  <2> QED  BY <1>0, <2>1, GotoEffect DEF AsyncReadReturns
<1>4. Alive("parse_request") /\ pc["handle_client"] = "parsing"
  BY <1>2, Reading DEF Alive
<1>5. \A h : ParserTracks(s, st, ls, h)' /\ ClientTracks(s, st, ls, h, w)'
  <2> TAKE h
  <2>1. /\ UNCHANGED <<network, request, raw, total>> /\ Alive("read_line")'
        /\ pc'["handle_client"] = pc["handle_client"] /\ pc'["parse_request"] = pc["parse_request"]
    BY <1>0, <1>1, <1>2, <1>3 DEF Alive
  <2> QED  BY <1>1, <1>4, <2>1, ReadingStays
<1>6. /\ s \in Seq(Symbol) /\ Len(s) \in Nat /\ ls \in Nat /\ q \in Nat /\ q <= Len(s) /\ ls <= q
      /\ ls \in LineStarts(s) /\ At(q)
  BY <1>1, PlaceTypes DEF Place
<1>7. \A h \in Nat : At(h) /\ q <= h => (Place(s, st, ls, h) /\ wire \in Seq(Page) /\ Sent(wire, s, st, w))'
  BY <1>1, <1>6 DEF Place, At, network
<1>8. \/ outcome["async_read"] = Returns(<<>>) /\ eof /\ position = Len(input) /\ Partial(s, ls, q)
      \/ outcome["async_read"] = Returns(<<s[q]>>) /\ q = position /\ ls < q /\ Partial(s, ls, q - 1)
  BY <1>1, <1>2 DEF ReaderTracks, Alive, AsyncReadReturns, Throws
<1>9. CASE outcome["async_read"] = Returns(<<>>) /\ eof /\ position = Len(input) /\ Partial(s, ls, q)
  <2>1. PICK h \in Nat :
            /\ At(h) /\ q <= h
            /\ \/ EndsLine(s, ls, h) /\ line = SubSeq(s, ls + 1, h - 2)
               \/ eof /\ h = Len(s) /\ ls = h /\ line = <<>>
    BY <1>6, <1>9, EndIsLine
  <2>2. outcome["async_read"].value = <<>>
    BY <1>9 DEF Returns
  <2>3. Goto("read_line", "return") /\ line' = line
    BY <2>2 DEF AsyncReadReturns
  <2>4. pc'["read_line"] = "return"
    BY <1>0, <2>3, GotoEffect
  <2>5. ReaderTracks(s, ls, h)'
    BY <1>1, <1>2, <2>1, <2>3, <2>4 DEF ReaderTracks, network
  <2>6. Tracks(s, st, ls, h, w)'
    BY <1>5, <1>7, <2>1, <2>5 DEF Tracks
  <2> QED  BY <2>6 DEF Tracked
<1>10. CASE outcome["async_read"] = Returns(<<s[q]>>) /\ q = position /\ ls < q /\ Partial(s, ls, q - 1)
  <2> DEFINE text == SubSeq(s, ls + 1, q)
  <2>1. outcome["async_read"].value = <<s[q]>> /\ outcome["async_read"].value # <<>>
    BY <1>10 DEF Returns
  <2>2. line \o outcome["async_read"].value = text
    BY <1>6, <1>10, <2>1, OneMore DEF Partial
  <2>3. IsLine(text) <=> q \in LineEnds(s)
    BY <1>6, <1>10, IsLineAtEnd
  <2>4. LineEnds(s) \subseteq Nat /\ \A e \in LineEnds(s) : e <= ls \/ q - 1 < e
    BY <1>6, <1>10 DEF LineEnds, Partial
  <2> HIDE DEF text
  <2>5. CASE q \in LineEnds(s)
    <3>1. Goto("read_line", "return") /\ line' = SubSeq(text, 1, Len(text) - 2)
      BY <2>1, <2>2, <2>3, <2>5 DEF AsyncReadReturns
    <3>2. ls + 2 <= q
      BY <1>6, <1>10, <2>5, EndsAreFar
    <3>3. line' = SubSeq(s, ls + 1, q - 2)
      BY <1>6, <3>1, <3>2, TwoLess DEF text
    <3>4. EndsLine(s, ls, q)
      BY <1>6, <1>10, <2>4, <2>5 DEF EndsLine
    <3>5. pc'["read_line"] = "return"
      BY <1>0, <3>1, GotoEffect
    <3>6. ReaderTracks(s, ls, q)'
      BY <1>2, <3>3, <3>4, <3>5 DEF ReaderTracks
    <3>7. Tracks(s, st, ls, q, w)'
      BY <1>5, <1>6, <1>7, <3>6 DEF Tracks
    <3> QED  BY <3>7 DEF Tracked
  <2>6. CASE q \notin LineEnds(s)
    <3>1. Goto("read_line", "read") /\ line' = text
      BY <2>1, <2>2, <2>3, <2>6 DEF AsyncReadReturns
    <3>2. Partial(s, ls, q)'
      BY <1>6, <1>10, <2>4, <2>6, <3>1 DEF Partial, text
    <3>3. pc'["read_line"] = "read"
      BY <1>0, <3>1, GotoEffect
    <3>4. ReaderTracks(s, ls, q)'
      BY <1>2, <3>2, <3>3 DEF ReaderTracks
    <3>5. Tracks(s, st, ls, q, w)'
      BY <1>5, <1>6, <1>7, <3>4 DEF Tracks
    <3> QED  BY <3>5 DEF Tracked
  <2> QED  BY <2>5, <2>6
<1> QED  BY <1>8, <1>9, <1>10

(* recv() returns the next symbol, or the end of the stream when all is    *)
(* read.                                                                   *)
LEMMA RecvTracks ==
    ASSUME CallsNest, Control, NEW s, IsStream(s), NEW st, NEW ls, NEW q, NEW w,
           Tracks(s, st, ls, q, w), Recv
    PROVE  Tracked(s)'
<1> USE DEF Control
<1>0. {"handle_client", "parse_request", "read_line", "async_read", "async_write"} = Frame
  BY HttpAssumption
<1>1. /\ UNCHANGED <<network, wire, open, locals>>
      /\ Place(s, st, ls, q) /\ wire \in Seq(Page) /\ Sent(wire, s, st, w)
      /\ ReaderTracks(s, ls, q) /\ ParserTracks(s, st, ls, q) /\ ClientTracks(s, st, ls, q, w)
  BY DEF Recv, Tracks
<1>2. frame["async_read"] = "running"
  BY DEF Recv, Finish, WaitForEvent, GoesOn, Runs
<1>3. frame["read_line"] = "awaiting" /\ pc["read_line"] = "reading"
  BY <1>0, <1>2, Stack, Names DEF Nesting, Alive
<1>4. \A e \in Frame \ {"async_read"} : frame'[e] # "none" <=> frame[e] # "none"
  <2>1. (\E result : Finish("async_read", result)) \/ WaitForEvent("async_read")
    BY DEF Recv
  <2> QED  BY <1>0, <2>1, KeptEffect
<1>5. Alive("read_line") /\ Alive("read_line")' /\ Alive("parse_request") /\ pc["handle_client"] = "parsing"
  BY <1>0, <1>3, <1>4, Reading DEF Alive
<1>6. \A h : ParserTracks(s, st, ls, h)' /\ ClientTracks(s, st, ls, h, w)'
  BY <1>1, <1>5, ReadingStays DEF locals
<1>7. Partial(s, ls, q)
  BY <1>1, <1>2, <1>3, <1>5 DEF ReaderTracks
<1>8. /\ s \in Seq(Symbol) /\ Len(s) \in Nat /\ ls \in Nat /\ q \in Nat /\ q <= Len(s) /\ ls <= q
      /\ ls \in LineStarts(s) /\ At(q) /\ position \in Nat /\ Len(input) \in Nat
  BY <1>1, PlaceTypes DEF Place
<1>9. CASE position' = position /\ Finish("async_read", Throws) /\ broken
  <2>1. frame'["async_read"] = "final" /\ outcome'["async_read"] = Throws
    BY <1>0, <1>9, FinishEffect DEF TypesOK
  <2>2. ReaderTracks(s, ls, q)'
    BY <1>1, <1>3, <1>9, <2>1 DEF ReaderTracks, network, locals
  <2>3. Place(s, st, ls, q)'
    BY <1>1, <1>9, PlaceStays DEF network
  <2>4. Tracks(s, st, ls, q, w)'
    BY <1>1, <1>6, <2>2, <2>3 DEF Tracks
  <2> QED  BY <2>4 DEF Tracked
<1>10. CASE position < Len(input) /\ Finish("async_read", Returns(<<input[position + 1]>>)) /\ position' = position + 1
  <2>1. frame'["async_read"] = "final" /\ outcome'["async_read"] = Returns(<<input[position + 1]>>)
    BY <1>0, <1>10, FinishEffect DEF TypesOK
  <2>2. q = position /\ s[q + 1] = input[position + 1]
    BY <1>8, <1>10 DEF At, IsStream
  <2>3. (q + 1) - 1 = q /\ ls < q + 1 /\ q + 1 = position'
    BY <1>8, <1>10, <2>2
  <2>4. Partial(s, ls, (q + 1) - 1)'
    BY <1>1, <1>7, <2>3 DEF Partial, locals
  <2>5. ReaderTracks(s, ls, q + 1)'
    BY <1>3, <1>1, <2>1, <2>2, <2>3, <2>4 DEF ReaderTracks, locals
  <2>6. Place(s, st, ls, q + 1)'
    BY <1>1, <1>8, <2>3 DEF Place, At
  <2>7. Tracks(s, st, ls, q + 1, w)'
    BY <1>1, <1>6, <2>5, <2>6 DEF Tracks
  <2> QED  BY <2>7 DEF Tracked
<1>11. CASE position' = position /\ Finish("async_read", Returns(<<>>)) /\ eof /\ position = Len(input)
  <2>1. frame'["async_read"] = "final" /\ outcome'["async_read"] = Returns(<<>>)
    BY <1>0, <1>11, FinishEffect DEF TypesOK
  <2>2. Partial(s, ls, q)'
    BY <1>1, <1>7 DEF Partial, locals
  <2>3. ReaderTracks(s, ls, q)'
    BY <1>1, <1>3, <1>11, <2>1, <2>2 DEF ReaderTracks, network, locals
  <2>4. Place(s, st, ls, q)'
    BY <1>1, <1>11, PlaceStays DEF network
  <2>5. Tracks(s, st, ls, q, w)'
    BY <1>1, <1>6, <2>3, <2>4 DEF Tracks
  <2> QED  BY <2>5 DEF Tracked
<1>12. CASE position' = position /\ WaitForEvent("async_read") /\ ~eof
  <2>1. frame'["async_read"] # "final"
    BY <1>0, <1>12, LeafEffect
  <2>2. Partial(s, ls, q)'
    BY <1>1, <1>7 DEF Partial, locals
  <2>3. q = position
    BY <1>8, <1>12 DEF At
  <2>4. ReaderTracks(s, ls, q)'
    BY <1>1, <1>3, <1>12, <2>1, <2>2, <2>3 DEF ReaderTracks, network, locals
  <2>5. Place(s, st, ls, q)'
    BY <1>1, <1>12, PlaceStays DEF network
  <2>6. Tracks(s, st, ls, q, w)'
    BY <1>1, <1>6, <2>4, <2>5 DEF Tracks
  <2> QED  BY <2>6 DEF Tracked
<1>13. \/ position' = position /\ Finish("async_read", Throws) /\ broken
       \/ /\ position < Len(input) /\ Finish("async_read", Returns(<<input[position + 1]>>))
          /\ position' = position + 1
       \/ position' = position /\ Finish("async_read", Returns(<<>>)) /\ eof /\ position = Len(input)
       \/ position' = position /\ WaitForEvent("async_read") /\ ~eof
  BY DEF Recv
<1> QED  BY <1>9, <1>10, <1>11, <1>12, <1>13

(* Lines, headers and what is read of them stay when the client sends more.*)
LEMMA StreamGrows ==
    ASSUME NEW s \in Seq(Symbol), NEW t \in Seq(Symbol), Continues(s, t)
    PROVE  /\ \A l \in Nat : \A e : EndsLine(s, l, e) => EndsLine(t, l, e)
           /\ \A l \in Nat : \A b : EndsHeaders(s, l, b) => EndsHeaders(t, l, b)
           /\ \A st \in Nat, l \in Nat : l <= Len(s) /\ InHeaders(s, st, l) => InHeaders(t, st, l)
           /\ \A l \in LineStarts(s), e \in LineEnds(s) : l < e => FirstLine(s, l) = FirstLine(t, l)
           /\ \A l \in Nat, h \in Nat : h <= Len(s) => SubSeq(s, l + 1, h) = SubSeq(t, l + 1, h)
<1>1. /\ \A e : e \in LineEnds(s) <=> e \in LineEnds(t) /\ e <= Len(s)
      /\ \A e : e \in Blanks(s) <=> e \in Blanks(t) /\ e <= Len(s)
      /\ \A e : e \in LineStarts(s) <=> e \in LineStarts(t) /\ e <= Len(s)
  BY EndsStay
<1>2. /\ LineEnds(t) \subseteq Nat /\ Blanks(t) \subseteq Nat /\ Len(s) \in Nat /\ Len(s) <= Len(t)
  BY DEF LineEnds, Blanks, Continues
<1>3. ASSUME NEW l \in Nat, NEW e, EndsLine(s, l, e)
      PROVE  EndsLine(t, l, e)
  BY <1>1, <1>2, <1>3 DEF EndsLine
<1>4. ASSUME NEW l \in Nat, NEW b, EndsHeaders(s, l, b)
      PROVE  EndsHeaders(t, l, b)
  BY <1>1, <1>2, <1>4 DEF EndsHeaders
<1>5. ASSUME NEW st \in Nat, NEW l \in Nat, l <= Len(s), InHeaders(s, st, l)
      PROVE  InHeaders(t, st, l)
  BY <1>1, <1>2, <1>5 DEF InHeaders
<1>6. ASSUME NEW l \in LineStarts(s), NEW e \in LineEnds(s), l < e
      PROVE  FirstLine(s, l) = FirstLine(t, l)
  BY <1>1, <1>6, LinesStay
<1>7. ASSUME NEW l \in Nat, NEW h \in Nat, h <= Len(s)
      PROVE  SubSeq(s, l + 1, h) = SubSeq(t, l + 1, h)
  BY <1>2, <1>7 DEF Continues
<1> QED  BY <1>3, <1>4, <1>5, <1>6, <1>7

(* What a client sends, or the end of its stream, is more to read.         *)
LEMMA StreamContinues ==
    ASSUME Control, ClientSends \/ ClientShutsDown
    PROVE  Continues(Stream, Stream')
<1>1. CASE ClientSends
  <2>1. PICK piece \in Piece : input' = input \o piece
    BY <1>1 DEF ClientSends
  <2>2. piece \in Seq(Symbol) /\ input \in Seq(Symbol)
    BY HttpAssumption DEF Control, TypesOK
  <2>3. Stream = input /\ Stream' = input \o piece
    BY <1>1, <2>1 DEF ClientSends, Stream
  <2> QED  BY <2>2, <2>3 DEF Continues
<1>2. CASE ClientShutsDown
  <2>1. input \in Seq(Symbol) /\ CrLf \in Seq(Symbol) /\ Len(CrLf) = 2
    BY LineBreak DEF Control, TypesOK
  <2>2. Stream = input /\ Stream' = (input \o CrLf) \o CrLf
    BY <1>2 DEF ClientShutsDown, Stream
  <2>3. /\ input \o CrLf \in Seq(Symbol) /\ Len(input) <= Len(input \o CrLf)
        /\ \A i \in 1 .. Len(input) : (input \o CrLf)[i] = input[i]
    BY <2>1
  <2>4. /\ Len(input \o CrLf) <= Len((input \o CrLf) \o CrLf)
        /\ \A i \in 1 .. Len(input \o CrLf) : ((input \o CrLf) \o CrLf)[i] = (input \o CrLf)[i]
    BY <2>1, <2>3
  <2>5. \A i \in 1 .. Len(input) : i \in 1 .. Len(input \o CrLf)
    BY <2>1
  <2>6. Len(input) <= Len((input \o CrLf) \o CrLf)
    BY <2>1, <2>3
  <2> QED  BY <2>2, <2>3, <2>4, <2>5, <2>6 DEF Continues
<1> QED  BY <1>1, <1>2

(* All that is known of the stream stays when it continues.                *)
LEMMA StreamTracks ==
    ASSUME CallsNest, Control, ClientSends \/ ClientShutsDown,
           NEW s, s = Stream, NEW t, t = Stream', IsStream(s), IsStream(t)',
           NEW st, NEW ls, NEW q, NEW w, Tracks(s, st, ls, q, w)
    PROVE  Tracks(t, st, ls, q, w)'
<1>1. /\ UNCHANGED <<chain, position, wire, open, locals>> /\ ~eof /\ broken' = broken
      /\ Place(s, st, ls, q) /\ wire \in Seq(Page) /\ Sent(wire, s, st, w)
      /\ ReaderTracks(s, ls, q) /\ ParserTracks(s, st, ls, q) /\ ClientTracks(s, st, ls, q, w)
  BY DEF ClientSends, ClientShutsDown, Tracks
<1>2. s \in Seq(Symbol) /\ t \in Seq(Symbol) /\ Continues(s, t)
  BY StreamContinues DEF IsStream
<1>3. /\ Len(s) \in Nat /\ st \in Nat /\ ls \in Nat /\ q \in Nat /\ q <= Len(s) /\ st <= ls /\ ls <= q
      /\ st \in Starts(s) /\ st \in LineStarts(s) /\ ls \in LineStarts(s) /\ Reached(s, st) /\ At(q)
  BY <1>1, PlaceTypes DEF Control, Place
<1>4. /\ \A l \in Nat : \A e : EndsLine(s, l, e) => EndsLine(t, l, e)
      /\ \A l \in Nat : \A b : EndsHeaders(s, l, b) => EndsHeaders(t, l, b)
      /\ \A x \in Nat, l \in Nat : l <= Len(s) /\ InHeaders(s, x, l) => InHeaders(t, x, l)
      /\ \A l \in LineStarts(s), e \in LineEnds(s) : l < e => FirstLine(s, l) = FirstLine(t, l)
      /\ \A l \in Nat, h \in Nat : h <= Len(s) => SubSeq(s, l + 1, h) = SubSeq(t, l + 1, h)
  BY <1>2, StreamGrows
<1>5. Place(t, st, ls, q)'
  <2>1. Reached(t, st) /\ ls \in LineStarts(t)
    BY <1>2, <1>3, ReachedStays, EndsStay
  <2>2. At(q)'
    BY <1>1, <1>3 DEF At
  <2> QED  BY <1>3, <2>1, <2>2 DEF Place
<1>6. Sent(wire, t, st, w)
  BY <1>1, <1>2, <1>3, SentStays
<1>7. \A h \in Nat : h <= Len(s) /\ Partial(s, ls, h) => Partial(t, ls, h)'
  <2> TAKE h \in Nat
  <2> HAVE h <= Len(s) /\ Partial(s, ls, h)
  <2>1. \A e \in LineEnds(t) : e \in Nat /\ (e <= Len(s) => e \in LineEnds(s))
    BY <1>2, EndsStay DEF LineEnds
  <2>2. ls <= h /\ \A e \in LineEnds(t) : e <= ls \/ h < e
    BY <1>3, <2>1 DEF Partial
  <2>3. line' = SubSeq(t, ls + 1, h)
    BY <1>1, <1>3, <1>4 DEF Partial, locals
  <2> QED  BY <2>2, <2>3 DEF Partial
<1>8. ReaderTracks(t, ls, q)'
  <2> SUFFICES ASSUME Alive("read_line")'
               PROVE  ReaderTracks(t, ls, q)'
    BY DEF ReaderTracks
  <2>1. Alive("read_line") /\ frame' = frame /\ pc' = pc /\ outcome' = outcome /\ line' = line
    BY <1>1 DEF Alive, chain, locals
  <2>2. (pc["read_line"] \in {"read", "reading"} /\ frame["async_read"] # "final") => Partial(t, ls, q)'
    BY <1>1, <1>3, <1>7, <2>1 DEF ReaderTracks
  <2>3. frame["async_read"] = "final" =>
            \/ outcome["async_read"] = Throws /\ broken
            \/ outcome["async_read"] = Returns(<<t[q]>>) /\ q = position /\ ls < q /\ Partial(t, ls, q - 1)'
    <3>1. ASSUME q = position, ls < q, Partial(s, ls, q - 1)
          PROVE  Partial(t, ls, q - 1)' /\ s[q] = t[q]
      <4>1. q - 1 \in Nat /\ q - 1 <= Len(s) /\ q \in 1 .. Len(s)
        BY <1>3, <3>1
      <4> QED  BY <1>2, <1>7, <3>1, <4>1 DEF Continues
    <3> QED  BY <1>1, <2>1, <3>1 DEF ReaderTracks
  <2>4. /\ frame["async_read"] = "waiting" => q = position
        /\ pc["read_line"] = "throw" => broken
    BY <1>1, <2>1 DEF ReaderTracks
  <2>5. pc["read_line"] = "return" => EndsLine(t, ls, q) /\ line = SubSeq(t, ls + 1, q - 2)
    <3>1. ASSUME EndsLine(s, ls, q), line = SubSeq(s, ls + 1, q - 2)
          PROVE  EndsLine(t, ls, q) /\ line = SubSeq(t, ls + 1, q - 2)
      <4>1. q - 2 \in Nat /\ q - 2 <= Len(s)
        BY <1>2, <1>3, <3>1, LineIsText
      <4> QED  BY <1>3, <1>4, <3>1, <4>1
    <3> QED  BY <1>1, <2>1, <3>1 DEF ReaderTracks
  <2> QED  BY <1>1, <2>1, <2>2, <2>3, <2>4, <2>5 DEF ReaderTracks
<1>9. Hopeless(s, st) => Hopeless(t, st)'
  <2>1. \A e \in LineEnds(s) : e \in LineEnds(t)
    BY <1>2, EndsStay
  <2> QED  BY <1>1, <1>3, <1>4, <2>1 DEF Hopeless
<1>10. ASSUME NEW e \in LineEnds(s), st < e
       PROVE  FirstLine(s, st) = FirstLine(t, st) /\ (Asked(s, st) => Asked(t, st)')
  <2>1. FirstLine(s, st) = FirstLine(t, st)
    BY <1>3, <1>4, <1>10
  <2>2. request' = request
    BY <1>1 DEF locals
  <2> QED  BY <2>1, <2>2 DEF Asked
<1>11. ASSUME EndsHeaders(s, st, ls)
       PROVE  /\ EndsHeaders(t, st, ls) /\ FirstLine(s, st) = FirstLine(t, st)
              /\ Asked(s, st) => Asked(t, st)'
  <2>1. ls \in LineEnds(s) /\ st < ls
    BY <1>2, <1>11, StartsAreStarts DEF EndsHeaders
  <2> QED  BY <1>3, <1>4, <1>10, <1>11, <2>1
<1>12. ParserTracks(t, st, ls, q)'
  <2>1. ASSUME Asked(s, st), InHeaders(s, st, ls)
        PROVE  Asked(t, st)' /\ InHeaders(t, st, ls)
    <3>1. ls \in LineEnds(s) /\ st < ls
      BY <1>3, <2>1 DEF InHeaders, LineStarts
    <3>2. ls <= Len(s)
      BY <1>3
    <3> QED  BY <1>3, <1>4, <1>10, <2>1, <3>1, <3>2
  <2>2. frame' = frame /\ pc' = pc /\ request' = request
    BY <1>1 DEF chain, locals
  <2> QED  BY <1>1, <1>9, <1>11, <2>1, <2>2 DEF ParserTracks, Alive
<1>13. ClientTracks(t, st, ls, q, w)'
  <2>1. Complete(s, st) => Complete(t, st)
    BY <1>2, <1>3, CompleteStays
  <2>2. pc' = pc /\ raw' = raw /\ total' = total
    BY <1>1 DEF locals
  <2> QED  BY <1>1, <1>9, <1>11, <2>1, <2>2 DEF ClientTracks
<1> QED  BY <1>1, <1>5, <1>6, <1>8, <1>12, <1>13 DEF Tracks

(* Every step keeps Control, which holds at first.                         *)
LEMMA StepControl ==
    ASSUME CallsNest, Control, Next
    PROVE  Control'
<1>1. CASE ClientStep \/ ClientReads
  BY <1>1, ClientControl
<1>2. CASE CallParseRequest \/ CallAsyncWrite \/ CallReadLine \/ CallAsyncRead
  BY <1>2, CallControl
<1>3. CASE \/ ParseRequestReturns \/ AsyncWriteReturns \/ ReadLineReturns \/ AsyncReadReturns
           \/ PassesOn("parse_request", "read_line") \/ PassesOn("read_line", "async_read")
           \/ HandleClientCatches
  BY <1>3, ReturnControl
<1>4. CASE HandleClientEnds \/ ParseRequestEnds \/ ReadLineEnds \/ ReadLineThrows
  BY <1>4, EndControl
<1>5. CASE Recv \/ Readable \/ Send \/ Writable
  BY <1>5, ReadControl, WriteControl
<1>6. CASE AcceptAndHandle \/ Compact
  BY <1>6, RootControl
<1> QED  BY <1>1, <1>2, <1>3, <1>4, <1>5, <1>6 DEF Next, WorkerStep

LEMMA InitControl == HttpInit => Control
<1> SUFFICES ASSUME HttpInit
             PROVE  Control
  OBVIOUS
<1>0. {"handle_client", "parse_request", "read_line", "async_read", "async_write"} = Frame /\ Size \in Nat
  BY HttpAssumption
<1>1. /\ frame = [f \in Frame |-> "none"] /\ DOMAIN outcome = Frame /\ pc = [f \in Frame |-> "start"]
      /\ input = <<>> /\ position = 0 /\ total = 0 /\ eof = FALSE /\ broken = FALSE /\ open = TRUE
  BY DEF HttpInit, ChainInit
<1>2. TypesOK
  <2>1. DOMAIN pc = Frame /\ eof \in BOOLEAN /\ broken \in BOOLEAN
    BY <1>1
  <2>2. input \in Seq(Symbol) /\ Len(input) = 0
    BY <1>1
  <2>3. position \in 0 .. Len(input) /\ total \in 0 .. Size
    BY <1>0, <1>1, <2>2
  <2> QED  BY <1>1, <2>1, <2>2, <2>3 DEF TypesOK
<1>3. Nesting /\ Places /\ Results
  BY <1>0, <1>1 DEF Nesting, Places, Results, Alive
<1> QED  BY <1>2, <1>3 DEF Control

(* Nothing has been read or sent at first.                                 *)
LEMMA InitTracking == HttpInit => Tracking
<1> SUFFICES ASSUME HttpInit
             PROVE  Tracking
  OBVIOUS
<1>0. /\ {"handle_client", "parse_request", "read_line", "async_read", "async_write"} = Frame
      /\ Size \in Nat
  BY HttpAssumption
<1>1. /\ frame = [f \in Frame |-> "none"] /\ pc = [f \in Frame |-> "start"]
      /\ position = 0 /\ wire = <<>> /\ Stream = <<>>
  BY DEF HttpInit, ChainInit, Stream
<1> DEFINE s == <<>>
<1>2. s \in Seq(Symbol) /\ Len(s) = 0
  OBVIOUS
<1> HIDE DEF s
<1>3. LineEnds(s) = {} /\ Starts(s) = {0} /\ LineStarts(s) = {0}
  BY <1>2 DEF LineEnds, Blanks, Starts, LineStarts
<1>4. Reached(s, 0)
  BY <1>3 DEF Reached
<1>5. Earlier(s, 0) = {}
  <2>1. Earlier(s, 0) = {c \in Starts(s) : c < 0}
    BY <1>2, <1>4, EarlierIs
  <2> QED  BY <1>3, <2>1
<1>6. Rank(s, 0) = 0
  BY <1>0, <1>5, FS_EmptySet DEF Rank
<1>7. Sent(wire, s, 0, 0)
  BY <1>0, <1>1, <1>5, <1>6 DEF Sent
<1>8. Place(s, 0, 0, 0)
  BY <1>1, <1>3, <1>4 DEF Place, At
<1>9. wire \in Seq(Page)
  BY <1>1
<1>10. ReaderTracks(s, 0, 0) /\ ParserTracks(s, 0, 0, 0)
  BY <1>0, <1>1 DEF ReaderTracks, ParserTracks, Alive
<1>11. ClientTracks(s, 0, 0, 0, 0)
  BY <1>0, <1>1 DEF ClientTracks
<1>12. Tracks(s, 0, 0, 0, 0)
  BY <1>7, <1>8, <1>9, <1>10, <1>11 DEF Tracks
<1> QED  BY <1>1, <1>12 DEF Tracking, Tracked, s

(* A request with no method, or cut off without one, is never complete:    *)
LEMMA HopelessIs ==
    ASSUME NEW s \in Seq(Symbol), NEW st \in LineStarts(s), Hopeless(s, st)
    PROVE  ~Complete(s, st)
<1>1. ASSUME NEW e \in LineEnds(s), st < e, Space(FirstLine(s, st)) <= 1
      PROVE  ~Complete(s, st)
  <2>1. FirstLine(s, st) \in Seq(Symbol)
    BY <1>1, FirstLineIsText
  <2>2. Space(FirstLine(s, st)) \in Nat
    BY <2>1, Spaces
  <2>3. ~ (Space(FirstLine(s, st)) > 1)
    BY <1>1, <2>2
  <2> QED  BY <2>3 DEF Complete
<1> QED  BY <1>1 DEF Hopeless

(* nothing is owed for it, nor for anything after it.                      *)
LEMMA OwedIs ==
    ASSUME NEW s \in Seq(Symbol), NEW st, Reached(s, st), ~Complete(s, st)
    PROVE  Owed(s) = Rank(s, st)
  BY EarlierIs DEF Owed, Rank

(* What is tracked is what ResponsesMatch says.                            *)
LEMMA TracksMatch == CallsNest /\ Control /\ Tracking => ResponsesMatch
<1> SUFFICES ASSUME CallsNest, Control, Tracking
             PROVE  ResponsesMatch
  OBVIOUS
<1> USE DEF Control
<1>0. {"handle_client", "parse_request", "read_line", "async_read", "async_write"} = Frame
  BY HttpAssumption
<1>1. PICK s, st, ls, q, w : s = Stream /\ Tracks(s, st, ls, q, w)
  BY DEF Tracking, Tracked
<1>2. IsStream(s)
  BY <1>1, StreamIs
<1>3. /\ Place(s, st, ls, q) /\ Sent(wire, s, st, w)
      /\ ReaderTracks(s, ls, q) /\ ParserTracks(s, st, ls, q) /\ ClientTracks(s, st, ls, q, w)
  BY <1>1 DEF Tracks
<1>4. /\ s \in Seq(Symbol) /\ Len(s) \in Nat /\ st \in Nat /\ ls \in Nat /\ q \in Nat /\ q <= Len(s)
      /\ st <= ls /\ ls <= q /\ st \in LineStarts(s) /\ Reached(s, st)
      /\ input \in Seq(Symbol) /\ position \in 0 .. Len(input)
  BY <1>2, <1>3, PlaceTypes DEF Place, TypesOK
<1>5. Len(wire) <= Owed(s) /\ AsAsked(s)
  BY <1>3, <1>4, SentIsAsked
<1>6. Len(wire) = Rank(s, st) + w /\ Rank(s, st) \in Nat
  BY <1>3, <1>4, Ranks DEF Sent
<1>7. ASSUME frame["async_read"] = "waiting"
      PROVE  Len(wire) = Owed(SubSeq(input, 1, position))
  <2> DEFINE p == SubSeq(input, 1, position)
  <2>1. frame["read_line"] = "awaiting" /\ pc["read_line"] = "reading"
    BY <1>0, <1>7, Stack, Names DEF Nesting, Alive
  <2>2. /\ Alive("read_line") /\ Alive("parse_request") /\ pc["handle_client"] = "parsing"
        /\ pc["parse_request"] \in {"request line", "headers"}
    BY <1>0, <2>1, Reading, Names DEF Nesting, Alive
  <2>3. w = 0 /\ q = position /\ \A e \in LineEnds(s) : e <= ls \/ q < e
    BY <1>3, <1>7, <2>1, <2>2 DEF ReaderTracks, ClientTracks, Partial
  <2>4. p \in Seq(Symbol) /\ Len(p) = position /\ \A i \in 1 .. position : p[i] = input[i]
    BY <1>4
  <2> HIDE DEF p
  <2>5. Continues(p, s)
    BY <1>2, <1>4, <2>3, <2>4 DEF Continues, IsStream
  <2>6. Reached(p, st)
    BY <1>4, <2>3, <2>4, <2>5, ReachedBefore
  <2>7. \A b \in Blanks(s) : b <= st \/ q < b
    <3>1. \A b \in Blanks(s) : b \in LineEnds(s) /\ b \in Nat
      BY <1>4, StartsAreStarts DEF LineEnds
    <3>2. ls = st \/ \A b \in Blanks(s) : b <= st \/ ls < b
      BY <1>3, <2>2 DEF ParserTracks, InHeaders
    <3> QED  BY <1>4, <2>3, <3>1, <3>2
  <2>8. \A b \in Blanks(p) : b \in Blanks(s) /\ b \in Nat /\ b <= q
    <3>1. \A b : b \in Blanks(p) => b \in Blanks(s) /\ b <= Len(p)
      BY <1>4, <2>4, <2>5, EndsStay
    <3>2. \A b \in Blanks(s) : b \in Nat
      BY <1>4 DEF Blanks, LineEnds
    <3> QED  BY <2>3, <2>4, <3>1, <3>2
  <2>9. \A b \in Blanks(p) : b <= st
    BY <1>4, <2>7, <2>8
  <2>10. ~Complete(p, st)
    <3>1. \A e \in LineEnds(p), b \in Blanks(p) : ~ (st < e /\ e < b)
      <4>1. \A e \in LineEnds(p) : e \in Nat
        BY <2>4 DEF LineEnds
      <4> QED  BY <1>4, <2>8, <2>9, <4>1
    <3> QED  BY <3>1 DEF Complete
  <2>11. Owed(p) = Rank(s, st)
    BY <1>4, <2>4, <2>5, <2>6, <2>10, OwedIs, EarlierStays
  <2> QED  BY <1>6, <2>3, <2>11 DEF p
<1>8. ASSUME ~open, ~broken
      PROVE  Len(wire) = Owed(s)
  <2>1. Hopeless(s, st) /\ w = 0
    BY <1>3, <1>8 DEF Results, ClientTracks
  <2>2. Owed(s) = Rank(s, st)
    BY <1>4, <2>1, HopelessIs, OwedIs
  <2> QED  BY <1>6, <2>1, <2>2
<1> QED  BY <1>1, <1>5, <1>7, <1>8 DEF ResponsesMatch

(* Every step goes on from what has been read and sent before.             *)
LEMMA StepTracking ==
    ASSUME CallsNest, Control, Control', Tracking, Next
    PROVE  Tracking'
<1>1. PICK s, st, ls, q, w : s = Stream /\ Tracks(s, st, ls, q, w)
  BY DEF Tracking, Tracked
<1>2. IsStream(s)
  BY <1>1, StreamIs DEF Control
<1>3. CASE ClientSends \/ ClientShutsDown
  <2>1. PICK t : t = Stream'
    OBVIOUS
  <2>2. IsStream(Stream)'
    BY StreamIs, PTL DEF Control
  <2>3. IsStream(t)'
    BY <2>1, <2>2 DEF IsStream
  <2>4. Tracks(t, st, ls, q, w)'
    BY <1>1, <1>2, <1>3, <2>1, <2>3, StreamTracks
  <2> QED  BY <2>1, <2>4 DEF Tracking, Tracked
<1>4. CASE ~ (ClientSends \/ ClientShutsDown)
  <2>1. s = Stream'
    <3>1. UNCHANGED <<input, eof>>
      BY <1>4 DEF Next, ClientStep, WorkerStep, ClientReads, ClientResets, AcceptAndHandle, CallParseRequest,
         ParseRequestReturns, CallAsyncWrite, AsyncWriteReturns, HandleClientCatches, HandleClientEnds,
         CallReadLine, ReadLineReturns, ParseRequestEnds, CallAsyncRead, AsyncReadReturns, ReadLineEnds,
         ReadLineThrows, PassesOn, Recv, Send, Readable, Writable, Compact, network
    <3> QED  BY <1>1, <3>1 DEF Stream
  <2>2. CASE \/ HandleClientEnds \/ ParseRequestEnds \/ ReadLineEnds \/ ReadLineThrows
             \/ Readable \/ Writable \/ Compact \/ ClientResets \/ ClientReads
    <3>1. Tracks(s, st, ls, q, w)'
      BY <1>1, <2>2, EndTracks
    <3> QED  BY <2>1, <3>1 DEF Tracking, Tracked
  <2>3. CASE CallParseRequest \/ CallReadLine \/ CallAsyncRead \/ CallAsyncWrite
    <3>1. Tracks(s, st, ls, q, w)'
      BY <1>1, <1>2, <2>3, CallTracks
    <3> QED  BY <2>1, <3>1 DEF Tracking, Tracked
  <2>4. CASE \/ PassesOn("parse_request", "read_line") \/ PassesOn("read_line", "async_read")
             \/ HandleClientCatches
    <3>1. Tracks(s, st, ls, q, w)'
      BY <1>1, <2>4, ThrowTracks
    <3> QED  BY <2>1, <3>1 DEF Tracking, Tracked
  <2>5. CASE AcceptAndHandle \/ ParseRequestReturns
    <3>1. Tracks(s, st, ls, q, w)'
      BY <1>1, <1>2, <2>5, AcceptTracks, ParsedTracks
    <3> QED  BY <2>1, <3>1 DEF Tracking, Tracked
  <2>6. CASE ReadLineReturns
    <3>1. Tracks(s, st, q, q, w)'
      BY <1>1, <1>2, <2>6, LineTracks
    <3> QED  BY <2>1, <3>1 DEF Tracking, Tracked
  <2>7. CASE Send \/ AsyncWriteReturns \/ AsyncReadReturns \/ Recv
    <3>1. Tracked(s)'
      BY <1>1, <1>2, <2>7, SendTracks, WrittenTracks, BytesTrack, RecvTracks
    <3> QED  BY <2>1, <3>1 DEF Tracking
  <2> QED  BY <1>4, <2>2, <2>3, <2>4, <2>5, <2>6, <2>7 DEF Next, ClientStep, WorkerStep
<1> QED  BY <1>3, <1>4

LEMMA StillTracking ==
    ASSUME Control, Tracking, UNCHANGED vars
    PROVE  Control' /\ Tracking'
<1>1. /\ UNCHANGED <<frame, continuation, outcome, input, eof, broken, position, wire, open>>
      /\ UNCHANGED <<pc, line, request, raw, total>>
  BY DEF vars, chain, network, locals
<1>2. Control'
  BY <1>1 DEF Control, TypesOK, Nesting, Places, Results, Alive
<1>3. PICK s, st, ls, q, w : s = Stream /\ Tracks(s, st, ls, q, w)
  BY DEF Tracking, Tracked
<1>4. Tracks(s, st, ls, q, w)'
  BY <1>1, <1>3, QuietTracks DEF Alive
<1>5. s = Stream'
  BY <1>1, <1>3 DEF Stream
<1> QED  BY <1>2, <1>4, <1>5 DEF Tracking, Tracked

(* Every request of the connection is answered once, in order and by its   *)
(* route; nothing is owed when recv() has nothing more (main.cpp:77-237),  *)
(* nor when handle_client has ended without an error.                      *)
THEOREM RequestsAreAnsweredInOrder == Spec => []ResponsesMatch
<1> DEFINE Inv == CallsNest /\ Control /\ Tracking
<1>1. HttpInit => Inv
  BY InitNests, InitControl, InitTracking DEF HttpInit
<1>2. Inv /\ [Next]_vars => Inv'
  <2> SUFFICES ASSUME Inv, [Next]_vars
               PROVE  Inv'
    OBVIOUS
  <2>1. CallsNest'
    BY ServerStepsChain, StepNests
  <2>2. CASE Next
    <3>1. Control'
      BY <2>2, StepControl
    <3> QED  BY <2>1, <2>2, <3>1, StepTracking
  <2>3. CASE UNCHANGED vars
    BY <2>1, <2>3, StillTracking
  <2> QED  BY <2>2, <2>3
<1>3. Inv => ResponsesMatch
  BY TracksMatch
<1> QED  BY <1>1, <1>2, <1>3, PTL DEF Spec
================================================================================
