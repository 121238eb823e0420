---------------------------- MODULE MCHttpProxy ----------------------------
(* Exchanges with every kind of body, two or three per connection.           *)
EXTENDS HttpProxy

Message(first_line, headers, body) ==
    [first_line |-> first_line, headers |-> headers, body |-> body]

Len1 == <<"len", 1>>
InChunks == <<"chunked", 0>>
Body(n) == [i \in 1..n |-> <<"other", 0>>]

\* A chunk that holds a CRLF, and the last one.
Chunks == <<<<"size", 2>>>> \o CRLF \o CRLF \o CRLF \o <<<<"size", 0>>>> \o CRLF

Get(k) == Message(<<"GET", k>>, <<>>, <<>>)
HeadOnly(k) == Message(<<"HEAD", k>>, <<>>, <<>>)
Post(k) == Message(<<"POST", k>>, <<Len1>>, Body(1))

Sized(k) == Message(<<"200", k>>, <<Len1>>, Body(1))
HeadersOnly(k) == Message(<<"200", k>>, <<Len1>>, <<>>)
Chunked(k) == Message(<<"200", k>>, <<InChunks>>, Chunks \o CRLF)
WithTrailer(k) == Message(<<"200", k>>, <<InChunks, <<"trailer", 0>>>>,
                          Chunks \o <<<<"other", 1>>>> \o CRLF \o CRLF)
Empty(k) == Message(<<"204", k>>, <<>>, <<>>)
NotModified(k) == Message(<<"304", k>>, <<Len1>>, <<>>)
UntilClose(k) == Message(<<"200", k>>, <<>>, Body(1))
Encoding(k) == Message(<<"200", k>>, <<Len1, <<"encoding", 0>>>>, Body(2))

Exchange(request, response) == [request |-> request, response |-> response]

MCScripts ==
    {<<Exchange(HeadOnly(1), HeadersOnly(1)), Exchange(Get(2), Chunked(2))>>,
     <<Exchange(Get(1), WithTrailer(1)), Exchange(Post(2), UntilClose(2))>>,
     <<Exchange(Post(1), Empty(1)), Exchange(Get(2), Sized(2))>>,
     <<Exchange(Get(1), NotModified(1)), Exchange(Get(2), Empty(2)),
       Exchange(Get(3), Encoding(3))>>}
=============================================================================
