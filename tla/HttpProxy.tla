------------------------------ MODULE HttpProxy ------------------------------
(***************************************************************************)
(* One connection of HTTPProxy::handle_tcp (http_proxy.cc), the recording  *)
(* proxy of recordshell: requests of the client are parsed and passed on   *)
(* to the server, responses are parsed, passed back and saved in a file    *)
(* together with the request in current_pair.  The four actions of the     *)
(* Poller run as in DnsProxy; the network cuts both streams anywhere.      *)
(*                                                                         *)
(* The client and the server follow a script, a sequence of exchanges; the *)
(* client may send a request before the last one is answered (pipelining). *)
(* The server answers the requests it got, in their order.                 *)
(***************************************************************************)
EXTENDS HttpParser, Poller, SequencesExt

CONSTANT Scripts     \* the sequences of exchanges that may take place: records
                     \* of a request and the response to it

Messages == [first_line : Symbols, headers : Seq(Symbols), body : Seq(Symbols)]

\* The symbols of a message, and of messages one after the other.
Serialized(m) ==
    <<m.first_line>> \o CRLF
        \o FlattenSeq([i \in DOMAIN m.headers |-> <<m.headers[i]>> \o CRLF])
        \o CRLF \o m.body

Stream(messages) ==
    FlattenSeq([k \in DOMAIN messages |-> Serialized(messages[k])])
-----------------------------------------------------------------------------
\* A message that says how long its body is says so truly.
LengthIsTrue(m) ==
    \A i \in DOMAIN m.headers :
        m.headers[i][1] = "len" => m.headers[i][2] = Len(m.body)

\* end stands at the end of s and nowhere before.
EndsAtLast(s, end) ==
    /\ Len(s) >= Len(end)
    /\ \A i \in 0..(Len(s) - Len(end)) :
          SubSeq(s, i + 1, i + Len(end)) = end <=> i = Len(s) - Len(end)

\* s is a body in chunks: starts are the offsets of the lines with their sizes;
\* the line with size 0 is followed by the trailer, up to a blank line.
IsChunked(s, trailers) ==
    \E starts \in SUBSET (0..Len(s)) :
        /\ 0 \in starts
        /\ \A i \in starts :
              LET size == s[i + 1][2]
                  data == i + 3 IN
              /\ s[i + 1][1] = "size" /\ size + 2 < UInt32Range
              /\ data <= Len(s) /\ SubSeq(s, i + 2, data) = CRLF
              /\ IF size = 0
                 THEN EndsAtLast(DropFirst(s, data),
                                 IF trailers THEN CRLF \o CRLF ELSE CRLF)
                 ELSE /\ size \in Nat /\ data + size + 2 \in starts
                      /\ SubSeq(s, data + size + 1, data + size + 2) = CRLF

WellFormedRequest(m) ==
    /\ m \in Messages
    /\ \/ m.first_line[1] \in {"GET", "HEAD"} /\ m.body = <<>>
       \/ m.first_line[1] = "POST" /\ HasHeader(m, "len") /\ LengthIsTrue(m)

IsBodiless(x) ==
    x.request.first_line[1] = "HEAD" \/ x.response.first_line[1] \in {"204", "304"}

\* Only the end of the connection ends the response.
EndsWithConnection(x) ==
    /\ ~IsBodiless(x) /\ ~ChunkedLast(x.response)
    /\ Encoded(x.response) \/ ~HasHeader(x.response, "len")

\* The response x.response to x.request.
WellFormedResponse(x) ==
    LET m == x.response IN
    /\ m \in Messages /\ m.first_line[1] \in {"200", "204", "304"}
    /\ IF IsBodiless(x) THEN m.body = <<>>
       ELSE IF ChunkedLast(m) THEN IsChunked(m.body, HasHeader(m, "trailer"))
       ELSE IF EndsWithConnection(x) THEN ~HasHeader(m, "byteranges")
       ELSE LengthIsTrue(m)

\* Both sides send what the code handles, as the protocol says it.
ASSUME ScriptAssumption ==
    \A s \in Scripts :
        /\ s \in Seq([request : Messages, response : Messages]) /\ s # <<>>
        /\ \A k \in DOMAIN s :
              /\ WellFormedRequest(s[k].request)
              /\ WellFormedResponse(s[k])
              /\ EndsWithConnection(s[k]) => k = Len(s)

\* The first n requests of every script, and the first n responses, as streams
\* (constants, so that TLC computes them once).
RequestStreams ==
    [s \in Scripts |->
        [n \in 0..Len(s) |-> Stream([k \in 1..n |-> s[k].request])]]
ResponseStreams ==
    [s \in Scripts |->
        [n \in 0..Len(s) |-> Stream([k \in 1..n |-> s[k].response])]]
-----------------------------------------------------------------------------
VARIABLES
    script,
    started,           \* the requests the client has begun to send
    sent,              \* symbols that arrived at the proxy from either side
    taken,             \* symbols it has read of them
    closed,            \* the sides that have ended their streams
    fd_eof,            \* the sides whose end the proxy has read
    request_parser, response_parser,
    current_pair,      \* the request of the pair, or NoRequest
    to_server,         \* the requests passed on
    to_client,         \* the responses passed back
    files,             \* the pairs saved
    overtaken          \* kept by the model: the exchanges whose request was not
                       \* in current_pair any more when the response came

worldVars == <<script, started, sent, closed>>
proxyVars == <<taken, fd_eof, request_parser, response_parser, current_pair,
               to_server, to_client, files, overtaken>>
vars == <<poller, outcome, worldVars, proxyVars>>

Sides == {"client", "server"}
Fd(i) == IF i \in {1, 3} THEN "server" ELSE "client"

Exchanges == Len(script)
Requests(n) == RequestStreams[script][n]
Responses(n) == ResponseStreams[script][n]

NoRequest == NewMessage

Init ==
    /\ PollerInit
    /\ script \in Scripts
    /\ started = 1
    /\ sent = [s \in Sides |-> 0]
    /\ taken = [s \in Sides |-> 0]
    /\ closed = {} /\ fd_eof = {}
    /\ request_parser = NewParser("request")
    /\ response_parser = NewParser("response")
    /\ current_pair = NoRequest
    /\ to_server = <<>> /\ to_client = <<>> /\ files = <<>>
    /\ overtaken = {}
-----------------------------------------------------------------------------
\* What either side has sent, as far as it may have arrived.
Written(s) == IF s = "client" THEN Requests(started)
              ELSE Responses(Len(to_server))

\* The client begins the next request.
NextRequest ==
    /\ outcome = "running"
    /\ started < Exchanges /\ "client" \notin closed
    /\ started' = started + 1
    /\ UNCHANGED <<poller, outcome, proxyVars, script, sent, closed>>

\* One more symbol arrives at the proxy.
Arrives(s) ==
    /\ outcome = "running"
    /\ sent[s] < Len(Written(s)) /\ s \notin closed
    /\ sent' = [sent EXCEPT ![s] = @ + 1]
    /\ UNCHANGED <<poller, outcome, proxyVars, script, started, closed>>

\* The client may end its stream at any time, the server does so after its last
\* response.
Closes(s) ==
    /\ outcome = "running" /\ s \notin closed
    /\ s = "server" => Len(to_server) = Exchanges /\ sent[s] = Len(Written(s))
    /\ closed' = closed \cup {s}
    /\ UNCHANGED <<poller, outcome, proxyVars, script, started, sent>>
-----------------------------------------------------------------------------
\* A descriptor is not read once either side has ended.
Interested ==
    {i \in Actions :
        CASE i \in {1, 2} -> fd_eof = {}
          [] i = 3 -> request_parser.complete # <<>>
          [] i = 4 -> response_parser.complete # <<>>}

ReadyNow ==
    {i \in Actions : i \in {1, 2} =>
        sent[Fd(i)] > taken[Fd(i)] \/ Fd(i) \in closed}

LoopPolls ==
    /\ Poll(Interested)
    /\ UNCHANGED <<worldVars, proxyVars>>

LoopWakes ==
    /\ PollReturns(ReadyNow, {})
    /\ UNCHANGED <<worldVars, proxyVars>>

\* The symbols that read() returns: all there are, none at the end.
Buffer(s) == SubSeq(Written(s), taken[s] + 1, sent[s])

Reads(s) ==
    /\ fd_eof' = IF Buffer(s) = <<>> THEN fd_eof \cup {s} ELSE fd_eof
    /\ taken' = [taken EXCEPT ![s] = sent[s]]

ReadResponses ==
    /\ Callback(1, FALSE)
    /\ Reads("server")
    /\ response_parser' = parse(response_parser, Buffer("server"))
    /\ ~response_parser'.failed
    /\ UNCHANGED <<worldVars, request_parser, current_pair, to_server, to_client,
                   files, overtaken>>

ReadRequests ==
    /\ Callback(2, FALSE)
    /\ Reads("client")
    /\ request_parser' = parse(request_parser, Buffer("client"))
    /\ ~request_parser'.failed
    /\ UNCHANGED <<worldVars, response_parser, current_pair, to_server, to_client,
                   files, overtaken>>

\* The Exception that parse() throws ends the thread.
ParseFails(i) ==
    /\ CallbackThrows(i)
    /\ \/ i = 1 /\ parse(response_parser, Buffer("server")).failed
       \/ i = 2 /\ parse(request_parser, Buffer("client")).failed
    /\ UNCHANGED <<worldVars, proxyVars>>

\* A completed request goes to the server and into current_pair, from where it
\* drives those that were sent before and have no response yet.
ForwardRequest ==
    /\ Callback(3, FALSE)
    /\ LET request == Head(request_parser.complete) IN
       /\ to_server' = Append(to_server, request)
       /\ response_parser' = new_request_arrived(response_parser, request)
       /\ current_pair' = request
    /\ overtaken' = overtaken \cup ((Len(to_client) + 1)..Len(to_server))
    /\ request_parser' = pop(request_parser)
    /\ UNCHANGED <<worldVars, taken, fd_eof, to_client, files>>

\* Mutant of ForwardResponse: the pair is not cleared, and not checked.
ForwardResponseKeepsPair ==
    /\ Callback(4, FALSE)
    /\ LET response == Head(response_parser.complete) IN
       /\ to_client' = Append(to_client, response)
       /\ files' = Append(files, [request |-> IF files = <<>> THEN current_pair
                                              ELSE files[1].request,
                                  response |-> response])
    /\ response_parser' = pop(response_parser)
    /\ UNCHANGED <<worldVars, taken, fd_eof, request_parser, current_pair,
                   to_server, overtaken>>

\* A completed response goes to the client, and reqres_to_protobuf saves it with
\* the request in current_pair.  Without one it throws, when the response has
\* been sent and the file created.
ForwardResponse ==
    /\ Reaches(4)
    /\ LET response == Head(response_parser.complete) IN
       /\ to_client' = Append(to_client, response)
       /\ files' = Append(files, [request |-> current_pair, response |-> response])
       /\ \/ /\ current_pair # NoRequest
             /\ Callback(4, FALSE)
             /\ current_pair' = NoRequest
             /\ response_parser' = pop(response_parser)
          \/ /\ current_pair = NoRequest
             /\ CallbackThrows(4)
             /\ UNCHANGED <<current_pair, response_parser>>
    /\ UNCHANGED <<worldVars, taken, fd_eof, request_parser, to_server, overtaken>>

Loop ==
    \/ LoopPolls \/ LoopWakes
    \/ ReadResponses \/ ReadRequests
    \/ \E i \in {1, 2} : ParseFails(i)
    \/ ForwardRequest \/ ForwardResponse

Next ==
    \/ NextRequest
    \/ \E s \in Sides : Arrives(s) \/ Closes(s)
    \/ Loop

\* The thread is scheduled, and what was sent arrives.  The client sends all of
\* its requests, the server closes when that ends its response.
ServerMustClose == Closes("server") /\ EndsWithConnection(script[Exchanges])

Fairness ==
    /\ WF_vars(Loop)
    /\ \A s \in Sides : WF_vars(Arrives(s))
    /\ WF_vars(NextRequest)
    /\ WF_vars(ServerMustClose)

Spec == Init /\ [][Next]_vars /\ Fairness
-----------------------------------------------------------------------------
SameMessage(m, original) ==
    /\ m.first_line = original.first_line
    /\ m.headers = original.headers
    /\ m.body = original.body

\* The parsers find the messages that were sent, each when its last symbol has
\* been read (or the end of the stream, for a response that ends with it) and
\* not before, wherever reads cut the streams: between CR and LF, in a chunk's
\* size or in its trailer.
FramedAsSent ==
    /\ LET found == to_server \o request_parser.complete IN
       /\ \A i \in DOMAIN found :
             i <= Exchanges /\ SameMessage(found[i], script[i].request)
       /\ \A k \in 1..Exchanges :
             k <= Len(found) <=> Len(Requests(k)) <= taken["client"]
    /\ LET found == to_client \o response_parser.complete IN
       outcome # "exception" =>
          /\ \A i \in DOMAIN found :
                i <= Exchanges /\ SameMessage(found[i], script[i].response)
          /\ \A k \in 1..Exchanges :
                k <= Len(found) <=>
                   /\ Len(Responses(k)) <= taken["server"]
                   /\ EndsWithConnection(script[k]) => "server" \in fd_eof

\* The response saved in the k-th file is the server's to the k-th request, also when
\* the client pipelines; the request saved with it is the one it answers, up to the
\* first exchange that another request overtook in current_pair, as they were sent.
PairsMatch ==
    \A i \in DOMAIN files :
        /\ i <= Exchanges
        /\ SameMessage(files[i].response, script[i].response)
        /\ (\A k \in 1..i : k \notin overtaken) =>
              SameMessage(files[i].request, script[i].request)

\* The end of the client's stream was read before the last response, which is then
\* read no more.
HungUp ==
    /\ "client" \in closed
    /\ "client" \in fd_eof \/ outcome = "exception"
    /\ Len(to_client \o response_parser.complete) < Exchanges

\* Every exchange is passed on, answered and saved, in pieces of any size, with
\* or without a body, and also when the client sends a request before it has the
\* response to the one before, unless the proxy passes a request on before that
\* response, or the client hangs up.
EveryExchangeRecorded ==
    <>(Len(files) = Exchanges \/ overtaken # {} \/ HungUp)
=============================================================================
