------------------------------- MODULE HttpServer ------------------------------
(***************************************************************************)
(* examples/http-server/main.cpp: handle_client for one connection, with   *)
(* parse_request, read_line and the two operations of TcpSocket it is made *)
(* of, as a chain of tasks.  A byte that matters to the parser is a symbol *)
(* of its own ("sp", "cr", "lf"); any other symbol is a run of bytes that  *)
(* holds none of these.  Headers are read and not kept: no route looks at  *)
(* them.                                                                   *)
(***************************************************************************)
EXTENDS TaskChain, SequencesExt

CONSTANTS Symbol,       \* what a stream is made of
          Piece,        \* what the client sends at a time
          MaxPieces,    \* bound on how often
          Size,         \* the length of a response
          Room          \* what the socket takes before the client reads

ASSUME HttpAssumption ==
    /\ Frame = {"handle_client", "parse_request", "read_line", "async_read", "async_write"}
    /\ {"cr", "lf"} \subseteq Symbol /\ Piece \subseteq Seq(Symbol)
    /\ Size \in Nat

VARIABLES
    input,      \* everything the client has sent
    pieces,     \* in so many pieces
    eof,        \* the client has shut down its side
    broken,     \* the connection has been reset
    position,   \* what recv() has returned
    wire,       \* everything send() has accepted
    unread,     \* how much of it the client has not read
    open,       \* TcpSocket::fd_ >= 0
    pc,         \* where each coroutine is
    line,       \* the local of read_line
    request,    \* that of parse_request
    raw,        \* the response
    total       \* the local of async_write

network == <<input, pieces, eof, broken, unread>>
locals == <<pc, line, request, raw, total>>
vars == <<chain, network, position, wire, open, locals>>

NoRequest == <<<<>>, <<>>>>
CrLf == <<"cr", "lf">>

HttpInit ==
    /\ ChainInit
    /\ input = <<>> /\ pieces = 0 /\ eof = FALSE /\ broken = FALSE
    /\ position = 0 /\ wire = <<>> /\ unread = 0 /\ open = TRUE
    /\ pc = [f \in Frame |-> "start"]
    /\ line = <<>> /\ request = NoRequest /\ raw = <<>> /\ total = 0

Goto(f, label) == pc' = [pc EXCEPT ![f] = label]
Returns(value) == [thrown |-> FALSE, value |-> value]
Throws == [thrown |-> TRUE, value |-> <<>>]

--------------------------------------------------------------------------------
(* The parser and the routes.                                              *)

Space(text) == SelectInSeq(text, LAMBDA symbol : symbol = "sp")
Before(text) == IF Space(text) = 0 THEN text ELSE SubSeq(text, 1, Space(text) - 1)
After(text) == SubSeq(text, Space(text) + 1, Len(text))

(* METHOD SP PATH [SP VERSION]                                             *)
Parse(text) == <<Before(text), Before(After(text))>>

(* handle_route()                                                          *)
Route(r) ==
    IF r[1] # <<"GET">> THEN "405"
    ELSE CASE r[2] = <<"/">>      -> "index"
           [] r[2] = <<"/hello">> -> "hello"
           [] r[2] = <<"/json">>  -> "json"
           [] OTHER               -> "404"

Response(r) == [i \in 1 .. Size |-> Route(r)]

--------------------------------------------------------------------------------
(* The client.                                                             *)

ClientSends ==
    /\ ~eof /\ ~broken /\ pieces < MaxPieces
    /\ \E piece \in Piece : input' = input \o piece
    /\ pieces' = pieces + 1
    /\ UNCHANGED <<chain, eof, broken, position, wire, unread, open, locals>>

ClientShutsDown ==
    /\ ~eof /\ ~broken
    /\ eof' = TRUE
    /\ UNCHANGED <<chain, input, pieces, broken, position, wire, unread, open, locals>>

ClientResets ==
    /\ ~broken
    /\ broken' = TRUE
    /\ UNCHANGED <<chain, input, pieces, eof, position, wire, unread, open, locals>>

ClientReads ==
    /\ unread > 0
    /\ unread' = 0
    /\ UNCHANGED <<chain, input, pieces, eof, broken, position, wire, open, locals>>

--------------------------------------------------------------------------------
(* handle_client                                                           *)

AcceptAndHandle ==
    /\ open /\ pc["handle_client"] = "start"
    /\ SpawnRoot("handle_client")
    /\ Goto("handle_client", "parse")
    /\ UNCHANGED <<network, position, wire, open, line, request, raw, total>>

CallParseRequest ==
    /\ pc["handle_client"] = "parse"
    /\ Call("handle_client", "parse_request")
    /\ pc' = [pc EXCEPT !["handle_client"] = "parsing", !["parse_request"] = "request line"]
    /\ request' = NoRequest
    /\ UNCHANGED <<network, position, wire, open, line, raw, total>>

(* No method stands for the end of the stream.                             *)
ParseRequestReturns ==
    /\ pc["handle_client"] = "parsing" /\ ~outcome["parse_request"].thrown
    /\ Collect("handle_client", "parse_request")
    /\ LET r == outcome["parse_request"].value
       IN  IF r[1] = <<>> THEN Goto("handle_client", "end") /\ UNCHANGED raw
           ELSE Goto("handle_client", "respond") /\ raw' = Response(r)
    /\ UNCHANGED <<network, position, wire, open, line, request, total>>

CallAsyncWrite ==
    /\ pc["handle_client"] = "respond"
    /\ Call("handle_client", "async_write")
    /\ Goto("handle_client", "writing")
    /\ total' = 0
    /\ UNCHANGED <<network, position, wire, open, line, request, raw>>

AsyncWriteReturns ==
    /\ pc["handle_client"] = "writing" /\ ~outcome["async_write"].thrown
    /\ Collect("handle_client", "async_write")
    /\ Goto("handle_client", "parse")
    /\ UNCHANGED <<network, position, wire, open, line, request, raw, total>>

(* await_resume() rethrows; handle_client catches and ends.                *)
HandleClientCatches ==
    \E d \in {"parse_request", "async_write"} :
        /\ outcome[d].thrown
        /\ Collect("handle_client", d)
        /\ Goto("handle_client", "end")
        /\ UNCHANGED <<network, position, wire, open, line, request, raw, total>>

HandleClientEnds ==
    /\ pc["handle_client"] = "end"
    /\ Finish("handle_client", Unset)
    /\ UNCHANGED <<network, position, wire, open, locals>>

(* compact_finished_tasks() destroys the frame, and with it the socket.    *)
Compact ==
    /\ DestroyRoot("handle_client")
    /\ open' = FALSE
    /\ UNCHANGED <<network, position, wire, locals>>

--------------------------------------------------------------------------------
(* parse_request                                                           *)

CallReadLine ==
    /\ pc["parse_request"] \in {"request line", "headers"}
    /\ Call("parse_request", "read_line")
    /\ Goto("read_line", "read")
    /\ line' = <<>>
    /\ UNCHANGED <<network, position, wire, open, request, raw, total>>

(* An empty request line, or a header line that is empty, ends it; a       *)
(* request line without a space is an exception.                           *)
ReadLineReturns ==
    /\ ~outcome["read_line"].thrown
    /\ Collect("parse_request", "read_line")
    /\ LET text == outcome["read_line"].value
       IN  CASE text = <<>> ->
                  Goto("parse_request", "return") /\ UNCHANGED request
             [] text # <<>> /\ pc["parse_request"] = "headers" ->
                  UNCHANGED <<pc, request>>
             [] text # <<>> /\ pc["parse_request"] = "request line" /\ Space(text) = 0 ->
                  Goto("parse_request", "throw") /\ UNCHANGED request
             [] OTHER ->
                  Goto("parse_request", "headers") /\ request' = Parse(text)
    /\ UNCHANGED <<network, position, wire, open, line, raw, total>>

ParseRequestEnds ==
    /\ pc["parse_request"] \in {"return", "throw"}
    /\ Finish("parse_request", IF pc["parse_request"] = "throw" THEN Throws ELSE Returns(request))
    /\ UNCHANGED <<network, position, wire, open, locals>>

--------------------------------------------------------------------------------
(* read_line                                                               *)

CallAsyncRead ==
    /\ pc["read_line"] = "read"
    /\ Call("read_line", "async_read")
    /\ Goto("read_line", "reading")
    /\ UNCHANGED <<network, position, wire, open, line, request, raw, total>>

(* Deviation: a line ends at a line feed.                                  *)
IsLine_LineFeed(text) == text # <<>> /\ text[Len(text)] = "lf"

IsLine(text) == Len(text) >= 2 /\ IsSuffix(CrLf, text)

(* Deviation: the end of the stream is not looked at.                      *)
AsyncReadReturns_NoEof ==
    /\ pc["read_line"] = "reading" /\ ~outcome["async_read"].thrown
    /\ Collect("read_line", "async_read")
    /\ LET text == line \o outcome["async_read"].value
       IN  IF IsLine(text)
           THEN line' = SubSeq(text, 1, Len(text) - 2) /\ Goto("read_line", "return")
           ELSE line' = text /\ Goto("read_line", "read")
    /\ UNCHANGED <<network, position, wire, open, request, raw, total>>

(* A count of 0 is the end of the stream, and ends the line.               *)
AsyncReadReturns ==
    /\ pc["read_line"] = "reading" /\ ~outcome["async_read"].thrown
    /\ Collect("read_line", "async_read")
    /\ LET text == line \o outcome["async_read"].value
       IN  CASE outcome["async_read"].value = <<>> ->
                  Goto("read_line", "return") /\ UNCHANGED line
             [] outcome["async_read"].value # <<>> /\ IsLine(text) ->
                  Goto("read_line", "return") /\ line' = SubSeq(text, 1, Len(text) - 2)
             [] OTHER ->
                  Goto("read_line", "read") /\ line' = text
    /\ UNCHANGED <<network, position, wire, open, request, raw, total>>

ReadLineEnds ==
    /\ pc["read_line"] = "return"
    /\ Finish("read_line", Returns(line))
    /\ UNCHANGED <<network, position, wire, open, locals>>

(* parse_request and read_line let exceptions pass: they end with what     *)
(* await_resume() throws, in the step that destroys the task awaited.      *)
PassesOn(c, d) ==
    /\ pc[c] # "throw" /\ outcome[d].thrown
    /\ Collect(c, d)
    /\ Goto(c, "throw")
    /\ UNCHANGED <<network, position, wire, open, line, request, raw, total>>

ReadLineThrows ==
    /\ pc["read_line"] = "throw"
    /\ Finish("read_line", Throws)
    /\ UNCHANGED <<network, position, wire, open, locals>>

--------------------------------------------------------------------------------
(* async_read and async_write                                              *)

(* After a reset recv() may still return what has been received.           *)
Recv ==
    \/ /\ broken
       /\ Finish("async_read", Throws)
       /\ UNCHANGED <<network, position, wire, open, locals>>
    \/ /\ position < Len(input)
       /\ Finish("async_read", Returns(<<input[position + 1]>>))
       /\ position' = position + 1
       /\ UNCHANGED <<network, wire, open, locals>>
    \/ /\ ~broken /\ position = Len(input) /\ eof
       /\ Finish("async_read", Returns(<<>>))
       /\ UNCHANGED <<network, position, wire, open, locals>>
    \/ /\ ~broken /\ position = Len(input) /\ ~eof
       /\ WaitForEvent("async_read")
       /\ UNCHANGED <<network, position, wire, open, locals>>

Readable ==
    /\ broken \/ eof \/ position < Len(input)
    /\ ResumeByLoop("async_read")
    /\ UNCHANGED <<network, position, wire, open, locals>>

(* send() takes some of what is left, as much as fits at most.             *)
Send ==
    \/ /\ broken /\ total < Size
       /\ Finish("async_write", Throws)
       /\ UNCHANGED <<network, position, wire, open, locals>>
    \/ /\ ~broken /\ total < Size /\ unread < Room
       /\ Runs("async_write")
       /\ \E count \in 1 .. Size - total :
            /\ unread + count <= Room
            /\ wire' = wire \o SubSeq(raw, total + 1, total + count)
            /\ unread' = unread + count
            /\ total' = total + count
       /\ UNCHANGED <<chain, input, pieces, eof, broken, position, open, pc, line, request, raw>>
    \/ /\ ~broken /\ total < Size /\ unread = Room
       /\ WaitForEvent("async_write")
       /\ UNCHANGED <<network, position, wire, open, locals>>
    \/ /\ total = Size
       /\ Finish("async_write", Returns(<<>>))
       /\ UNCHANGED <<network, position, wire, open, locals>>

(* Deviation: async_write waits for the socket to be readable.             *)
Writable_Readable ==
    /\ broken \/ eof \/ position < Len(input)
    /\ ResumeByLoop("async_write")
    /\ UNCHANGED <<network, position, wire, open, locals>>

Writable ==
    /\ broken \/ unread < Room
    /\ ResumeByLoop("async_write")
    /\ UNCHANGED <<network, position, wire, open, locals>>

--------------------------------------------------------------------------------
ClientStep == ClientSends \/ ClientShutsDown \/ ClientResets

WorkerStep ==
    \/ AcceptAndHandle \/ CallParseRequest \/ ParseRequestReturns
    \/ CallAsyncWrite \/ AsyncWriteReturns \/ HandleClientCatches \/ HandleClientEnds
    \/ CallReadLine \/ ReadLineReturns \/ ParseRequestEnds
    \/ CallAsyncRead \/ AsyncReadReturns \/ ReadLineEnds \/ ReadLineThrows
    \/ PassesOn("parse_request", "read_line") \/ PassesOn("read_line", "async_read")
    \/ Recv \/ Send \/ Readable \/ Writable \/ Compact

Next == ClientStep \/ ClientReads \/ WorkerStep

(* The worker runs, and a client reads what it is sent.                    *)
Spec == HttpInit /\ [][Next]_vars
FairSpec == Spec /\ WF_vars(WorkerStep) /\ WF_vars(ClientReads)

--------------------------------------------------------------------------------
(* What a stream of requests is worth, without reading it in order: a line *)
(* ends where CR LF stands; a blank line ends a request, and the next one  *)
(* starts there.  It is answered when its first line has a method and it   *)
(* is complete, as all before it are.                                      *)
LineEnds(s) == {i \in 2 .. Len(s) : s[i - 1] = "cr" /\ s[i] = "lf"}

Blanks(s) == {e \in LineEnds(s) : e - 2 \in LineEnds(s) \cup {0}}
Starts(s) == Blanks(s) \cup {0}

FirstLine(s, start) == SubSeq(s, start + 1, Min({e \in LineEnds(s) : e > start}) - 2)

Complete(s, start) ==
    /\ \E e \in LineEnds(s), b \in Blanks(s) : start < e /\ e < b
    /\ Space(FirstLine(s, start)) > 1

Answered(s) ==
    LET cutOff == {start \in Starts(s) : ~Complete(s, start)}
    IN  {start \in Starts(s) : \A c \in cutOff : start < c}

Earlier(s, start) == {a \in Answered(s) : a < start}

(* The end of the stream stands for the end of the line and of the         *)
(* headers: a request cut off by it is answered as if it were complete.    *)
Stream == IF eof THEN input \o CrLf \o CrLf ELSE input

(* What is sent are responses of one length each: the one to the request   *)
(* that starts at a comes after those to the earlier ones.                 *)
Owed(s) == Size * Cardinality(Answered(s))

AsAsked(s) ==
    \A a \in Answered(s) : \A i \in 1 .. Size :
        LET k == Size * Cardinality(Earlier(s, a)) + i
        IN  k <= Len(wire) => wire[k] = Route(Parse(FirstLine(s, a)))

(* Every request is answered once, in order and according to its route:    *)
(* nothing is sent that was not asked for, nothing is owed when the        *)
(* coroutine waits for more, nor when it has ended without an error.       *)
ResponsesMatch ==
    /\ Len(wire) <= Owed(Stream) /\ AsAsked(Stream)
    /\ frame["async_read"] = "waiting" => Len(wire) = Owed(SubSeq(input, 1, position))
    /\ ~open /\ ~broken => Len(wire) = Owed(Stream)

(* A complete request is answered, unless the connection is reset.         *)
RequestsAreAnswered ==
    \A k \in 1 .. MaxPieces :
        Cardinality(Answered(Stream)) >= k ~> Len(wire) >= k * Size \/ broken

(* The connection is closed after the client has hung up.                  *)
HangupCloses == eof \/ broken ~> ~open
================================================================================
