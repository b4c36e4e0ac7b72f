------------------------------ MODULE HttpContent ------------------------------
(***************************************************************************)
(* The body of a message: how the HTTP library writes one in chunks and    *)
(* how it reads one, by its length, in chunks, or to the end of the        *)
(* stream, and how a form's fields and the parts of a multipart body are   *)
(* named in it.  What the library makes of a message's headers is a        *)
(* record: coding (Content-Encoding), chunked, and length (a set of the    *)
(* stated length, {} without one, {-1} for one that is no number).         *)
(***************************************************************************)
EXTENDS HttpText
LOCAL INSTANCE SequencesExt
LOCAL INSTANCE FiniteSetsExt

CONSTANTS
    PayloadMax,  \* payload_max_length_
    FormMax      \* CPPHTTPLIB_FORM_URL_ENCODED_PAYLOAD_MAX_LENGTH

-----------------------------------------------------------------------------
(* Writing in chunks *)

\* A number below 16^7 in hexadecimal.
ToHex(n) ==
    LET count == Min({k \in 1 .. 7 : n < 16 ^ k} \cup {7})
    IN  [i \in 1 .. count |-> HexDigit((n \div 16 ^ (count - i)) % 16, 97)]

Zero == <<48>>

Chunk(piece) == ToHex(Len(piece)) \o Eol \o piece \o Eol

\* What done writes: trailers are headers after the last chunk.
DoneMarker(trailers) == Zero \o Eol \o WriteHeaders(trailers)

\* The provider hands over a piece in each call, and says in another that it is
\* done.  It is called no more after an empty piece, or once the server stops,
\* and then nobody tells the reader that the body is at its end.
WriteChunked(pieces, trailers, turns) ==
    LET empty == {i \in DOMAIN pieces : pieces[i] = <<>>}
        made == Min(empty \cup {turns, Len(pieces) + 1})
    IN  FlattenSeq([i \in 1 .. Min({made, Len(pieces)}) |->
                       IF i \in empty THEN <<>> ELSE Chunk(pieces[i])])
            \o (IF made > Len(pieces) THEN DoneMarker(trailers) ELSE <<>>)

-----------------------------------------------------------------------------
(* Reading *)

Complete(content, rest) ==
    [ok |-> TRUE, content |-> content, rest |-> rest, trailers |-> <<>>, status |-> 200]
Refused(status) == [Complete(<<>>, StreamOf(<<>>, TRUE)) EXCEPT !.ok = FALSE, !.status = status]

\* Variant: the end of the stream ends a body.
ReadUpToLength(stream, length) ==
    LET n == Min({length, Len(stream.bytes)})
    IN  IF n = length \/ stream.ends
        THEN Complete(SubSeq(stream.bytes, 1, n), After(stream, n + 1))
        ELSE Refused(400)

\* The end of the stream, or silence, before the length is a failure.
ReadWithLength(stream, length) ==
    IF length <= Len(stream.bytes)
    THEN Complete(SubSeq(stream.bytes, 1, length), After(stream, length + 1))
    ELSE Refused(400)

ReadWithoutLength(stream) ==
    IF stream.ends THEN Complete(stream.bytes, After(stream, Len(stream.bytes) + 1))
    ELSE Refused(400)

\* More than any stream holds.
Endless == 1000000

\* strtoul, base 16: blanks, a sign and 0x may come first.  Without digits there is
\* no number; a negative one is huge.
WhiteSpace == {Space, Tab, Lf, Cr, 11, 12}

IsPrefixed(s, i) == IsHexAt(s, i + 2, 1) /\ s[i] = 48 /\ s[i + 1] \in {88, 120}

ValueOf(number, negative) ==
    LET nonzero == {i \in DOMAIN number : number[i] # 48}
    IN  IF number = <<>> THEN {}
        ELSE IF nonzero = {} THEN {0}
        ELSE IF negative \/ Len(number) - Min(nonzero) > 3 THEN {Endless}
        ELSE {FromHex(number)}

\* The digits from position i on.
DigitsAt(s, i) ==
    SubSeq(s, i, Min({k \in i .. Len(s) : s[k] \notin HexDigits} \cup {Len(s) + 1}) - 1)

Unprefixed(s, i, negative) ==
    ValueOf(DigitsAt(s, IF IsPrefixed(s, i) THEN i + 2 ELSE i), negative)

Unsigned(s, i) ==
    LET signed == i <= Len(s) /\ s[i] \in {43, 45}
    IN  Unprefixed(s, IF signed THEN i + 1 ELSE i, signed /\ s[i] = 45)

ChunkLength(line) ==
    LET s == UpToNul(line)
    IN  Unsigned(s, Min({i \in DOMAIN s : s[i] \notin WhiteSpace} \cup {Len(s) + 1}))

\* The trailers end with an empty line, or with the stream right after the last
\* chunk's line; those that are headers join the message's.
ReadTrailers(complete) ==
    LET Lines[s \in Stream, trailers \in Seq(Seq(Byte) \X Seq(Byte)),
              lines \in 0 .. HeaderMaxCount] ==
            LET Ended(read) == IF read.ok THEN read.line = Eol ELSE lines = 0
                Kept(parsed) == IF parsed.ok THEN <<parsed.header>> ELSE <<>>
                Trailers(line) == trailers \o Kept(ParseHeader(SubSeq(line, 1, Len(line) - 2)))
                Taken(read) ==
                    IF Ended(read)
                    THEN [complete EXCEPT !.rest = read.rest, !.trailers = trailers]
                    ELSE IF ~read.ok \/ Len(read.line) > HeaderMaxLength \/ lines >= HeaderMaxCount
                    THEN Refused(400)
                    ELSE Lines[read.rest, Trailers(read.line), lines + 1]
            IN  Taken(GetLine(s))
    IN  Lines[complete.rest, <<>>, 0]

ReadChunked(stream) ==
    LET Chunks[s \in Stream, content \in Seq(Byte)] ==
            LET Ended(end, piece) ==
                    IF end.ok /\ end.line = Eol THEN Chunks[end.rest, content \o piece]
                    ELSE Refused(400)
                Filled(body) ==
                    IF body.ok THEN Ended(GetLine(body.rest), body.content) ELSE Refused(400)
                Stated(length, rest) ==
                    IF length = {} THEN Refused(400)
                    ELSE IF length = {0} THEN ReadTrailers(Complete(content, rest))
                    ELSE Filled(ReadWithLength(rest, CHOOSE n \in length : TRUE))
                Begun(size) ==
                    IF size.ok THEN Stated(ChunkLength(size.line), size.rest)
                    ELSE Refused(400)
            IN  Begun(GetLine(s))
    IN  Chunks[stream, <<>>]

\* Neither zlib nor Brotli nor zstd is compiled in.
Undecodable == {"gzip", "deflate", "br", "zstd"}

ReadContentOf(message, stream) ==
    LET length == CHOOSE n \in message.length : TRUE
    IN  IF message.coding \in Undecodable THEN Refused(415)
        ELSE IF message.chunked THEN ReadChunked(stream)
        ELSE IF message.length = {} THEN ReadWithoutLength(stream)
        ELSE IF length = -1 THEN Refused(400)
        ELSE IF length > PayloadMax THEN Refused(413)
        ELSE ReadWithLength(stream, length)

\* A form's fields become parameters.
WithFields(read, form) ==
    IF read.ok /\ form /\ Len(read.content) > FormMax THEN Refused(413)
    ELSE read @@ [params |-> IF read.ok /\ form THEN ParseQueryText(read.content) ELSE <<>>]

ReadRequestContent(message, form, stream) == WithFields(ReadContentOf(message, stream), form)

-----------------------------------------------------------------------------
(* Multipart bodies: the boundary and the disposition of a part *)

Quote == 34
Semicolon == 59
BoundaryKeyword == <<98, 111, 117, 110, 100, 97, 114, 121, 61>>  \* boundary=
NameKey == <<110, 97, 109, 101>>                                 \* name
FilenameKey == <<102, 105, 108, 101>> \o NameKey                 \* filename
Utf8Quotes == <<117, 116, 102, 45, 56, 39, 39>>                  \* utf-8''

TrimQuotes(s) ==
    IF Len(s) >= 2 /\ Head(s) = Quote /\ Last(s) = Quote THEN SubSeq(s, 2, Len(s) - 1) ELSE s

\* The boundary a content type states, empty when it states none.
ParseBoundary(type) ==
    LET n == Len(BoundaryKeyword)
        found == {i \in 1 .. Len(type) - n + 1 : SubSeq(type, i, i + n - 1) = BoundaryKeyword}
    IN  IF found = {} THEN <<>>
        ELSE TrimQuotes(Divide(SubSeq(type, Min(found) + n, Len(type)), Semicolon)[1])

\* Pairs of a name and a value; of several equals signs the last counts.
ParamOf(field) ==
    <<TrimQuotes(field[1]), IF Len(field) = 1 THEN <<>> ELSE TrimQuotes(Last(field))>>

ParseDispositionParams(s) ==
    LET Fields(pieces) == SelectSeq([i \in DOMAIN pieces |-> SplitAt(pieces[i], Equals)],
                                    LAMBDA field : field # <<>>)
        Params(fields) == [i \in DOMAIN fields |-> ParamOf(fields[i])]
    IN  Params(Fields(Distinct(SplitAt(s, Semicolon))))

ValuesOf(params, key) ==
    LET of == SelectSeq(params, LAMBDA p : p[1] = key) IN [i \in DOMAIN of |-> of[i][2]]

\* utf-8'' comes before the text of such a filename.
IsUtf8(value) == Len(value) > Len(Utf8Quotes) /\ IsPrefix(Utf8Quotes, Lower(value))

FirstOf(values) == IF values = <<>> THEN <<>> ELSE values[1]

\* What a part's Content-Disposition says after form-data; a filename in UTF-8
\* replaces the other.
ParseDisposition(s) ==
    LET Named(names, filenames, encoded) ==
            [ok |-> names # <<>> /\ (encoded # <<>> => IsUtf8(encoded[1])),
             name |-> FirstOf(names),
             filename |->
                 IF encoded # <<>> /\ IsUtf8(encoded[1])
                 THEN DecodeUrl(SubSeq(encoded[1], Len(Utf8Quotes) + 1, Len(encoded[1])), FALSE)
                 ELSE FirstOf(filenames)]
        Of(params) == Named(ValuesOf(params, NameKey), ValuesOf(params, FilenameKey),
                            ValuesOf(params, Append(FilenameKey, 42)))
    IN  Of(ParseDispositionParams(s))

Quoted(key, value) == key \o <<Equals, Quote>> \o value \o <<Quote>>

\* What a client writes.
WriteBoundary(boundary) == BoundaryKeyword \o boundary

WriteDisposition(name, filename) ==
    Quoted(NameKey, name)
        \o (IF filename = <<>> THEN <<>>
            ELSE <<Semicolon, Space>> \o Quoted(FilenameKey, filename))

IsBoundary(boundary) == ToSet(boundary) \subseteq Alphanumeric \cup {45, 95}

-----------------------------------------------------------------------------
(* Properties *)

\* A message a client writes: its headers, its text on the wire, whether the writer
\* came to its end, and what a handler should see of it.
Chunked(pieces, trailers, turns) ==
    [coding |-> "", chunked |-> TRUE, length |-> {}, form |-> FALSE,
     text |-> WriteChunked(pieces, trailers, turns),
     ended |-> turns > Len(pieces) /\ <<>> \notin ToSet(pieces),
     body |-> FlattenSeq(pieces), trailers |-> trailers, params |-> <<>>]

Sized(body) ==
    [coding |-> "", chunked |-> FALSE, length |-> {Len(body)}, form |-> FALSE, text |-> body,
     ended |-> TRUE, body |-> body, trailers |-> <<>>, params |-> <<>>]

FormOf(params) ==
    [Sized(ParamsToQueryStr(params)) EXCEPT !.form = TRUE, !.params = params]

TooLong(message) ==
    \E length \in message.length :
        length > PayloadMax \/ (message.form /\ length > FormMax)

\* A body comes through whole, however it is cut into chunks, with its trailers or
\* its parameters, and what follows it on the stream is left there; one that is too
\* long is refused.  Of a text that stops short nothing comes through, unless only
\* the end is missing that comes after the last chunk's line (the comment in
\* read_content_chunked).
Arrives(message) ==
    LET text == message.text
        Whole(read) ==
            /\ read.ok <=> message.ended
            /\ message.ended => /\ read.content = message.body
                                /\ read.trailers = message.trailers
                                /\ read.params = message.params
                                /\ read.rest.bytes = GetMethod
        Right(read, n) ==
            IF n < Len(text) THEN read.ok => message.ended /\ read.content = message.body
            ELSE IF TooLong(message) THEN read.status = 413 ELSE Whole(read)
        Follows(n) == IF n = Len(text) /\ message.ended THEN GetMethod ELSE <<>>
    IN  \A n \in 0 .. Len(text) : \A ends \in BOOLEAN :
            Right(ReadRequestContent(message, message.form,
                                     StreamOf(SubSeq(text, 1, n) \o Follows(n), ends)), n)

\* A part keeps its names, unless one has a semicolon or an equals sign in it, which
\* the quotes do not protect; and a valid boundary is understood.
PartIsNamed(name, filename) ==
    /\ {Semicolon, Equals} \cap ToSet(name \o filename) = {} =>
          ParseDisposition(WriteDisposition(name, filename)) =
              [ok |-> TRUE, name |-> name, filename |-> filename]
    /\ IsBoundary(name) => ParseBoundary(WriteBoundary(name)) = name
=============================================================================
