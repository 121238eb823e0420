----------------------------- MODULE HttpParser -----------------------------
(***************************************************************************)
(* HTTPMessageSequence (http_message_sequence.hh) with the two kinds of    *)
(* messages it is used for, HTTPRequest and HTTPResponse, and the parsers  *)
(* of a response's body (chunked_parser.cc, body_parser.hh).               *)
(*                                                                         *)
(* A stream is a sequence of symbols <<kind, n>>: a line is one symbol for *)
(* its text, then CR and LF; a byte of a body is a symbol.  The texts are  *)
(* those the code tells apart: methods and status codes (with the number   *)
(* of the exchange); 200 stands for every other code.  The headers len     *)
(* (Content-Length: n), chunked and encoding (a Transfer-Encoding whose    *)
(* last coding is chunked, or another), trailer, and byteranges (Content-  *)
(* Type: multipart/byteranges); the size n of a chunk, and any other line  *)
(* or byte.                                                                *)
(***************************************************************************)
EXTENDS Integers, Sequences, FiniteSetsExt

CONSTANT UInt32Range    \* the size of a chunk is a uint32_t: modulo 2^32

ASSUME RangeAssumption == UInt32Range \in Nat \ {0}

Kinds == {"CR", "LF", "GET", "HEAD", "POST", "100", "200", "204", "304", "len",
          "chunked", "encoding", "trailer", "byteranges", "size", "other"}
Symbols == Kinds \X Int

CR == <<"CR", 0>>
LF == <<"LF", 0>>
CRLF == <<CR, LF>>

\* string::find, 0 for npos
Find(s, needle) ==
    LET found == {i \in 1..(Len(s) - Len(needle) + 1) :
                     SubSeq(s, i, i + Len(needle) - 1) = needle}
    IN  IF found = {} THEN 0 ELSE Min(found)

\* The element of a set with one element.  What is used more than once is bound
\* with it below, so that it is computed once.
The(S) == CHOOSE x \in S : TRUE

DropFirst(s, n) == SubSeq(s, n + 1, Len(s))

-----------------------------------------------------------------------------
\* ChunkedBodyParser; complete is what read() acknowledges when the body ends
\* in its input, and -1, for npos, before.
NewChunks(trailers) ==
    [buffer |-> <<>>, state |-> "CHUNK_HDR", size |-> 0, acked |-> 0,
     parsed |-> 0, trailers |-> trailers, complete |-> -1]

Consume(c, n) == [c EXCEPT !.parsed = @ + n, !.buffer = DropFirst(@, n)]

\* Mutant of ChunkEnd: one CRLF always ends the trailer.
ChunkEndAtOnce(c) == CRLF

\* What ends the body after the last chunk.
ChunkEnd(c) == IF c.trailers THEN CRLF \o CRLF ELSE CRLF

\* An Exception, or an assertion that fails, leaves the state "FAILED".
Fail(c) == [c EXCEPT !.state = "FAILED"]

\* A line with anything but a size makes get_chunk_size throw.
SizeLineRead(c, eol) ==
    LET size == c.buffer[1][2] % UInt32Range IN
    IF eol # 2 \/ c.buffer[1][1] # "size" THEN Fail(c)
    ELSE [Consume(c, eol + 1) EXCEPT
             !.size = size, !.state = IF size = 0 THEN "TRAILER" ELSE "CHUNK"]

\* Of the chunk and its CRLF, which is asserted.
Ahead(c) == (c.size + 2) % UInt32Range

ChunkRead(c) ==
    IF c.size + 2 <= Len(c.buffer) /\ SubSeq(c.buffer, c.size + 1, c.size + 2) = CRLF
    THEN [Consume(c, Ahead(c)) EXCEPT !.state = "CHUNK_HDR"]
    ELSE Fail(c)

\* compute_ack_size, which asserts that the end was not acknowledged before.
TrailerRead(c, parsed) ==
    IF parsed > c.acked
    THEN [c EXCEPT !.parsed = parsed, !.complete = parsed - c.acked]
    ELSE Fail(c)

\* A round of the loop of ChunkedBodyParser::read.  It changes nothing when the
\* buffer holds too little, or when the body has ended.
ReadChunk(c) ==
    LET eol == Find(c.buffer, CRLF)
        end == Find(c.buffer, ChunkEnd(c))
    IN  CASE c.state = "CHUNK_HDR" /\ eol # 0 -> SizeLineRead(c, eol)
          [] c.state = "CHUNK" /\ c.buffer # <<>> /\ Len(c.buffer) >= Ahead(c) ->
               ChunkRead(c)
          [] c.state = "TRAILER" /\ c.complete = -1 /\ end # 0 ->
               TrailerRead(c, c.parsed + (end - 1) + Len(ChunkEnd(c)))
          [] OTHER -> c

\* The loop: a line takes three symbols or more and a chunk follows each, so that
\* there are no more rounds than symbols before one changes nothing.
ReadAllChunks(c) ==
    LET after[n \in 0..Len(c.buffer)] ==
            IF n = 0 THEN c ELSE The({ReadChunk(b) : b \in {after[n - 1]}})
    IN  after[Len(c.buffer)]

\* ChunkedBodyParser::read
ReadChunks(c, input) ==
    The({IF r.complete = -1 THEN [r EXCEPT !.acked = @ + Len(input)] ELSE r :
            r \in {ReadAllChunks([c EXCEPT !.buffer = @ \o input])}})

-----------------------------------------------------------------------------
\* HTTPMessage; size is expected_body_size_, Unknown when it is not known, and
\* chunks the body parser, with the state "RULE5" for a Rule5BodyParser.
Unknown == -1

NewMessage ==
    [state |-> "FIRST_LINE_PENDING", first_line |-> <<"other", 0>>, headers |-> <<>>,
     body |-> <<>>, size |-> Unknown, request_was_head |-> FALSE,
     chunks |-> NewChunks(FALSE)]

HasHeader(m, name) == \E i \in DOMAIN m.headers : m.headers[i][1] = name
ContentLength(m) ==
    m.headers[Min({i \in DOMAIN m.headers : m.headers[i][1] = "len"})][2]

\* What Transfer-Encoding says, in the first header of that name.
Encodings(m) == {i \in DOMAIN m.headers : m.headers[i][1] \in {"chunked", "encoding"}}
Encoded(m) == Encodings(m) # {}
ChunkedLast(m) == Encoded(m) /\ m.headers[Min(Encodings(m))][1] = "chunked"

\* Rules 2 to 5 of RFC 2616 decide for such a response.
HasBody(m) == m.first_line[1] = "200" /\ ~m.request_was_head

\* What it throws an Exception for: requests of other methods, a POST whose body is
\* chunked, and by rule 4 a response in byte ranges without its length.
Unsupported(m, kind) ==
    \/ /\ kind = "request"
       /\ m.first_line[1] \notin {"GET", "HEAD"}
       /\ m.first_line[1] = "POST" => ~HasHeader(m, "len")
    \/ /\ kind = "response" /\ HasBody(m)
       /\ ~ChunkedLast(m) /\ (Encoded(m) \/ ~HasHeader(m, "len"))
       /\ HasHeader(m, "byteranges")

\* calculate_expected_body_size, of requests and of responses.
calculate_expected_body_size(m) ==
    CASE \/ m.first_line[1] \in {"GET", "HEAD", "100", "204", "304"}
         \/ m.request_was_head ->
            [m EXCEPT !.size = 0]
      [] m.first_line[1] = "POST" ->
            [m EXCEPT !.size = ContentLength(m)]
      [] HasBody(m) ->
            CASE ChunkedLast(m) ->
                    [m EXCEPT !.chunks = NewChunks(HasHeader(m, "trailer"))]
              [] ~Encoded(m) /\ HasHeader(m, "len") ->
                    [m EXCEPT !.size = ContentLength(m)]
              [] OTHER ->
                    [m EXCEPT !.chunks.state = "RULE5"]

\* read_in_body: the message after it and the symbols it takes.  A body of known
\* size ...
ReadSized(m, s) ==
    LET n == Min({m.size - Len(m.body), Len(s)})
        body == m.body \o SubSeq(s, 1, n)
    IN  [message |-> [m EXCEPT !.body = body,
                               !.state = IF Len(body) = m.size THEN "COMPLETE"
                                         ELSE @],
         taken |-> n]

\* ... and one whose end chunks, a body parser that has read s, has found or not.
ReadParsed(m, s, chunks) ==
    LET n == IF chunks.complete = -1 THEN Len(s) ELSE chunks.complete
    IN  [message |-> [m EXCEPT !.chunks = chunks,
                               !.body = @ \o SubSeq(s, 1, n),
                               !.state = IF chunks.complete = -1 THEN @
                                         ELSE "COMPLETE"],
         taken |-> n]

read_in_body(m, s) ==
    IF m.size # Unknown THEN ReadSized(m, s)
    ELSE The({ReadParsed(m, s, chunks) :
                chunks \in {IF m.chunks.state = "RULE5" THEN m.chunks
                            ELSE ReadChunks(m.chunks, s)}})

-----------------------------------------------------------------------------
\* HTTPMessageSequence.  heads is the response parser's requests_were_head_;
\* failed stands for an Exception.
NewParser(kind) ==
    [kind |-> kind, buffer |-> <<>>, message |-> NewMessage, complete |-> <<>>,
     heads |-> <<>>, failed |-> FALSE]

HaveLine(p) == Find(p.buffer, CRLF) # 0

\* The text of the first line, <<>> for a blank one.
Line(p) == SubSeq(p.buffer, 1, Find(p.buffer, CRLF) - 1)
PopLine(p) == [p EXCEPT !.buffer = DropFirst(@, Find(@, CRLF) + 1)]

\* FIRST_LINE_PENDING, with initialize_new_message of the two parsers.
FirstLine(p) ==
    IF p.kind = "response" /\ p.heads = <<>>
    THEN [p EXCEPT !.failed = TRUE]     \* response without matching request
    ELSE [PopLine(p) EXCEPT
            !.message.first_line = Line(p)[1],
            !.message.request_was_head = p.kind = "response" /\ Head(p.heads),
            !.message.state = "HEADERS_PENDING",
            !.heads = IF p.kind = "response" THEN Tail(@) ELSE @]

\* HEADERS_PENDING, with add_header and done_with_headers.
HeaderLine(p) ==
    IF Line(p) # <<>>
    THEN [PopLine(p) EXCEPT !.message.headers = Append(@, Line(p)[1])]
    ELSE IF Unsupported(p.message, p.kind)
    THEN [p EXCEPT !.failed = TRUE]
    ELSE [PopLine(p) EXCEPT
            !.message = calculate_expected_body_size(
                            [@ EXCEPT !.state = "BODY_PENDING"])]

\* BODY_PENDING
ReadBody(p) ==
    The({[p EXCEPT !.message = r.message, !.buffer = DropFirst(@, r.taken),
                   !.failed = r.message.chunks.state = "FAILED"] :
            r \in {read_in_body(p.message, p.buffer)}})

\* COMPLETE
NextMessage(p) ==
    [p EXCEPT !.complete = Append(@, p.message), !.message = NewMessage]

\* parsing_step().  One that returns false leaves nothing to do to a further
\* step, which then changes nothing.
parsing_step(p) ==
    CASE p.failed -> p
      [] ~p.failed /\ p.message.state = "FIRST_LINE_PENDING" ->
            IF HaveLine(p) THEN FirstLine(p) ELSE p
      [] ~p.failed /\ p.message.state = "HEADERS_PENDING" ->
            IF HaveLine(p) THEN HeaderLine(p) ELSE p
      [] ~p.failed /\ p.message.state = "BODY_PENDING" -> ReadBody(p)
      [] ~p.failed /\ p.message.state = "COMPLETE" -> NextMessage(p)

\* The loop around parsing_step().  A line takes two symbols or more, so that
\* two steps more than the buffer has symbols leave nothing to do.
ParseLoop(p) ==
    LET after[n \in 0..(Len(p.buffer) + 2)] ==
            IF n = 0 THEN p ELSE The({parsing_step(q) : q \in {after[n - 1]}})
    IN  after[Len(p.buffer) + 2]

\* Mutant of Eof: the end of the stream never completes a body.
EofIgnored(p) ==
    IF p.message.state \in {"FIRST_LINE_PENDING", "BODY_PENDING"} THEN p
    ELSE [p EXCEPT !.failed = TRUE]

\* eof() of the message in progress.
Eof(p) ==
    CASE p.message.state = "FIRST_LINE_PENDING" -> p
      [] p.message.state = "BODY_PENDING" /\ p.message.size = Unknown ->
            [p EXCEPT !.message.state = "COMPLETE"]
      [] OTHER -> [p EXCEPT !.failed = TRUE]

\* parse( buf ), where an empty buf is the end of the stream.
parse(p, buf) ==
    ParseLoop([(IF buf = <<>> THEN Eof(p) ELSE p) EXCEPT !.buffer = @ \o buf])

new_request_arrived(p, request) ==
    [p EXCEPT !.heads = Append(@, request.first_line[1] = "HEAD")]

pop(p) == [p EXCEPT !.complete = Tail(@)]
=============================================================================
