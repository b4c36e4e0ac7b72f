---------------------------- MODULE MCHttpServer ----------------------------
(* The location service's web server, two clients, and the ride service's. *)
EXTENDS HttpClient, MultipartParser, HttpContent, TLC
LOCAL INSTANCE SequencesExt

CONSTANTS c1, c2, w1, w2

Plain == [method |-> "GET", path |-> <<"location", "501">>, long |-> FALSE,
          accept |-> <<"media", "blank">>, ranges |-> None, close |-> FALSE, old |-> FALSE,
          expect |-> FALSE, body |-> "none", fails |-> FALSE]
Update == [Plain EXCEPT !.method = "POST", !.path = <<"location", "update">>,
                        !.body = "whole"]

\* Requests a client may send first, and what is interesting about each.
Firsts == {
    Plain,
    [Plain EXCEPT !.close = TRUE],
    [Plain EXCEPT !.old = TRUE, !.ranges = << <<0, 1>> >>],
    [Plain EXCEPT !.ranges = << <<0, 5>>, <<7, 9>> >>],
    [Plain EXCEPT !.ranges = << <<2, 1>> >>],
    [Plain EXCEPT !.method = "TRACE", !.long = TRUE],
    [Plain EXCEPT !.method = "HEAD", !.fails = TRUE],
    [Update EXCEPT !.expect = TRUE],
    [Update EXCEPT !.accept = <<"media", "empty">>],
    [Update EXCEPT !.long = TRUE, !.close = TRUE],
    [Update EXCEPT !.method = "TRACE"],
    [Update EXCEPT !.body = "cut"],
    [Update EXCEPT !.body = "unsized"]}

\* Others follow the first, unless its body would not be told from them.
Script(first, kind) ==
    IF first.body \in {"cut", "unsized"} THEN <<first>>
    ELSE IF kind = "waiting" \/ first.long THEN <<first, Update>>
    ELSE <<first, Update, Plain>>

\* A client that does not wait is of interest when a body may be left behind.
Kinds(first) == IF first = Plain \/ first.long THEN {"waiting", "pipelining"}
                ELSE {"waiting"}

\* The second client connects and stays silent.
MCClients == UNION {
    {c1 :> [kind |-> kind, sends |-> Script(first, kind)] @@
     c2 :> [kind |-> "waiting", sends |-> <<>>] : kind \in Kinds(first)} :
    first \in Firsts} \cup {
    c1 :> [kind |-> "library", sends |-> << [Plain EXCEPT !.close = TRUE] >>] @@
    c2 :> [kind |-> "waiting", sends |-> <<>>]}

\* Positions -1 (absent) to 2; lists of up to three ranges of every form, of four of
\* a few forms, and of one more than RangeMaxCount that need not repeat more than
\* two; lengths up to 4.
Positions == (-1 .. 2) \X (-1 .. 2)
Few == {<<0, 1>>, <<1, 2>>, <<2, 2>>, <<0, -1>>}
Single == {<<0, 0>>, <<1, 1>>, <<2, 2>>}
MCRangeLists == UNION {[1 .. k -> Positions] : k \in 1 .. 3}
                \cup [1 .. 4 -> Few] \cup [1 .. RangeMaxCount + 1 -> Single]
MCLengths == 0 .. 4

\* Contents that are empty, end with half a boundary, or hold one where no line
\* begins; a part with one header line.
Contents == {<<>>, <<"x">>, Crlf, Crlf \o Dashes, <<"x">> \o Dashes \o <<"b">>,
             Crlf \o Crlf \o <<"-">>}
ContentPart(content) == [lines |-> << <<"h", ":">> >>, content |-> content]

\* Header lines: none, two, as long as the limit, longer, longer behind another.
Line(n) == [i \in 1 .. n |-> IF i = 2 THEN ":" ELSE "h"]
Headers == {<<>>, <<Line(2), Line(3)>>, <<Line(PartLineMax)>>, <<Line(PartLineMax + 1)>>,
            <<Line(2), Line(PartLineMax + 1)>>}

\* Bytes with a meaning somewhere, and two without.
Bytes == {Nul, Tab, Lf, Cr, Space, Quote, Hash, Percent, Ampersand, 39, Plus, 47, 48, 50,
          53, Semicolon, Equals, Question, 97, 117, 255}
One == {<<c>> : c \in Byte}
Key == <<97>>

TextsArrive ==
    /\ \A c \in Byte : LineArrives(<<47, c>>, <<>>)
    /\ \A c, d, e \in Bytes : LineArrives(<<47, c, d, e>>, <<>>)
    /\ \A v \in One \cup {<<>>} : LineArrives(<<47>>, << <<Key, v>> >>)
    /\ \A c, d, e \in Bytes :
          c # e => LineArrives(<<47, 97>>, << <<Key, <<c, d>> >>, <<Key, <<e, d>> >>,
                                              <<<<98, 45>>, <<c>> >> >>)
    /\ \A name \in {Key, <<76>> \o Tail(LocationName)} :
       \A c, d, e \in {Tab, Space, Percent, 50, 97, 200} : \A after \in {<<>>, Key, Eol} :
          HeadersArrive(SetHeader(<<>>, name, <<c, d, e>>), after)
    /\ \A k \in 0 .. HeaderMaxCount + 1 :
          HeadersArrive([i \in 1 .. k |-> <<Key, Tail(<<i, 99, 99>>)>>], Key)

\* Bodies of up to three bytes, in up to two chunks, and one longer than fifteen.
ChunkBytes == {Cr, Lf, 48}
Bodies == SeqOf(ChunkBytes, 3) \cup {[i \in 1 .. PayloadMax + 1 |-> 97]}
Chunkings == SeqOf(SeqOf(ChunkBytes, 2), 2) \cup {<<[i \in 1 .. 17 |-> 97], Zero>>}
Trailers == {<<>>, << <<Key, Key>> >>}

Messages ==
    {Sized(body) : body \in Bodies}
    \cup UNION {{Chunked(pieces, trailers, turns) : turns \in 0 .. Len(pieces) + 1} :
               pieces \in Chunkings, trailers \in Trailers}
    \cup {FormOf(<< <<Key, <<c, d>> >>, <<Key, <<e>> >> >>) :
               c \in Bytes, d \in Bytes, e \in {Percent, 50}}

BodiesCome ==
    /\ \A message \in Messages : Arrives(message)
    /\ \A c \in Bytes \ {Cr, Lf}, d \in {Quote, Semicolon, Equals, Percent, 97} :
          PartIsNamed(<<c, d>>, <<d, 97, c>>)
    /\ \A content \in Contents, epilogue \in {<<>>, <<"x">> \o Crlf} :
          PartsAreWhole(<<ContentPart(content)>>, epilogue)
    /\ \A content \in Contents :
          PartsAreWhole(<<ContentPart(content), ContentPart(<<"x">>)>>, <<>>)
    /\ \A lines \in Headers : PartsAreWhole(<<[lines |-> lines, content |-> <<"x">>]>>, <<>>)

-----------------------------------------------------------------------------
(* Properties of inputs, which the first states show *)

\* Targets, parameters and headers mean to the handler what they mean to the client
\* (write_request and parse_request_line, write_headers and read_headers).
TextArrives == WebInit => TextsArrive

\* Bodies come through, by their length, in chunks or in parts, or are refused
\* (write_content_chunked, read_content, MultipartFormDataParser::parse).
BodiesComeThrough == WebInit => BodiesCome

\* Every documented call reaches the handler the documents mean by it.  The calls
\* that name a ride by the identifier generateRideId gave it match no pattern
\* (httpRideServer.cpp:69, :99), and the proximity search is taken for a look-up of
\* a user called nearby (httpLocationServer.cpp:52, :61).
CallsReachTheirHandlers ==
    WebInit => /\ Astray(RideRoutes, RideCalls) = {}
               /\ Astray(LocationRoutes, LocationCalls) = {}
               /\ Astray(UserRoutes, UserCalls) = {}
=============================================================================
