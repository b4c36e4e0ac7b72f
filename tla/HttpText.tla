-------------------------------- MODULE HttpText --------------------------------
(***************************************************************************)
(* The text of a request: how the HTTP library writes a target, its        *)
(* parameters and its headers, and how it reads them.  A text is a         *)
(* sequence of bytes.                                                      *)
(***************************************************************************)
EXTENDS Integers, Sequences
LOCAL INSTANCE SequencesExt
LOCAL INSTANCE FiniteSetsExt

CONSTANTS
    LineMax,          \* CPPHTTPLIB_MAX_LINE_LENGTH
    HeaderMaxLength,  \* CPPHTTPLIB_HEADER_MAX_LENGTH
    HeaderMaxCount    \* CPPHTTPLIB_HEADER_MAX_COUNT

Byte == 0 .. 255
Nul == 0
Tab == 9
Lf == 10
Cr == 13
Space == 32
Hash == 35
Percent == 37
Ampersand == 38
Plus == 43
Colon == 58
Equals == 61
Question == 63

Eol == <<Cr, Lf>>

Digits == 48 .. 57
Uppers == 65 .. 90
Lowers == 97 .. 122
Alphanumeric == Digits \cup Uppers \cup Lowers

-----------------------------------------------------------------------------
(* namespace fields *)

TokenChar == Alphanumeric \cup {33, 35, 36, 37, 38, 39, 42, 43, 45, 46, 94, 95, 96, 124, 126}

IsToken(s) == s # <<>> /\ ToSet(s) \subseteq TokenChar

FieldVchar == 33 .. 126 \cup 128 .. 255

IsFieldValue(s) ==
    s # <<>> =>
        /\ {Head(s), Last(s)} \subseteq FieldVchar
        /\ ToSet(s) \subseteq FieldVchar \cup {Space, Tab}

-----------------------------------------------------------------------------
(* Hexadecimal numbers, UTF-8 *)

HexDigits == Digits \cup 65 .. 70 \cup 97 .. 102

HexValue(c) == IF c \in Digits THEN c - 48 ELSE IF c \in Uppers THEN c - 55 ELSE c - 87

HexDigit(v, ten) == IF v < 10 THEN 48 + v ELSE ten + v - 10

FromHex(digits) == FoldLeft(LAMBDA v, c : v * 16 + HexValue(c), 0, digits)

\* count digits from position i on; the text ends with a NUL.
IsHexAt(s, i, count) ==
    i + count - 1 <= Len(s) /\ \A k \in i .. i + count - 1 : s[k] \in HexDigits

ToUtf8(code) ==
    LET Tail6(shift) == 128 + ((code \div shift) % 64)
    IN  CASE code < 128 -> <<code>>
          [] code \in 128 .. 2047 -> <<192 + code \div 64, Tail6(1)>>
          [] code \in 2048 .. 55295 \/ code \in 57344 .. 65535 ->
                <<224 + code \div 4096, Tail6(64), Tail6(1)>>
          [] code \in 65536 .. 1114111 ->
                <<240 + code \div 262144, Tail6(4096), Tail6(64), Tail6(1)>>
          [] OTHER -> <<>>

-----------------------------------------------------------------------------
(* Encoding and decoding *)

\* %XX
Escape(c) == <<Percent, HexDigit(c \div 16, 65), HexDigit(c % 16, 65)>>

EscapeAll(s, plain) ==
    FlattenSeq([i \in DOMAIN s |-> IF s[i] \in plain THEN <<s[i]>> ELSE Escape(s[i])])

EncodeQueryParam(value) ==
    EscapeAll(value, Alphanumeric \cup {33, 39, 40, 41, 42, 45, 46, 95, 126})

UpToNul(s) == SubSeq(s, 1, Min({i \in DOMAIN s : s[i] = Nul} \cup {Len(s) + 1}) - 1)

\* Variant: ends of lines go as they are.
EncodeButEols(s) == EscapeAll(UpToNul(s), 1 .. 127 \ {Space, Plus, 39, 44, 59})

EncodeUrl(s) == EscapeAll(UpToNul(s), 1 .. 127 \ {Space, Plus, Cr, Lf, 39, 44, 59})

\* %XX stands for a byte and %uXXXX for a character; anything else for itself.
DecodeUrl(s, plusIsSpace) ==
    LET From[i \in 1 .. Len(s) + 1] ==
            IF i > Len(s) THEN <<>>
            ELSE IF s[i] = Percent /\ IsHexAt(s, i + 1, 2)
            THEN <<FromHex(SubSeq(s, i + 1, i + 2))>> \o From[i + 3]
            ELSE IF s[i] = Percent /\ i < Len(s) /\ s[i + 1] = 117 /\ IsHexAt(s, i + 2, 4)
            THEN ToUtf8(FromHex(SubSeq(s, i + 2, i + 5))) \o From[i + 6]
            ELSE <<IF plusIsSpace /\ s[i] = Plus THEN Space ELSE s[i]>> \o From[i + 1]
    IN  From[1]

Blank == {Space, Tab}

Trim(s) ==
    LET shown == {i \in DOMAIN s : s[i] \notin Blank}
    IN  IF shown = {} THEN <<>> ELSE SubSeq(s, Min(shown), Max(shown))

\* The pieces between the delimiters, without blanks around them; empty ones are
\* dropped.
Between(s, cuts) ==
    [k \in 1 .. Len(cuts) - 1 |-> Trim(SubSeq(s, cuts[k] + 1, cuts[k + 1] - 1))]

SplitAt(s, d) ==
    SelectSeq(Between(s, SetToSortSeq({i \in DOMAIN s : s[i] = d} \cup {0, Len(s) + 1}, <)),
              LAMBDA piece : piece # <<>>)

Distinct(pieces) ==
    FoldLeft(LAMBDA seen, piece : IF Contains(seen, piece) THEN seen ELSE Append(seen, piece),
             <<>>, pieces)

\* What is before the first delimiter, and what is after it.
Divide(s, d) ==
    LET at == Min({i \in DOMAIN s : s[i] = d} \cup {Len(s) + 1})
    IN  <<SubSeq(s, 1, at - 1), SubSeq(s, at + 1, Len(s))>>

-----------------------------------------------------------------------------
(* Parameters: pairs of a key and a value *)

JoinWith(pieces, d) ==
    FoldLeft(LAMBDA text, piece : IF text = <<>> THEN piece ELSE text \o <<d>> \o piece,
             <<>>, pieces)

\* Keys go as they are.
ParamsToQueryStr(params) ==
    JoinWith([i \in DOMAIN params |->
                 params[i][1] \o <<Equals>> \o EncodeQueryParam(params[i][2])], Ampersand)

\* What has been seen before is skipped, and so is a value without a key.
PairsOf(pieces) ==
    SelectSeq([i \in DOMAIN pieces |-> Divide(pieces[i], Equals)],
              LAMBDA pair : pair[1] # <<>>)

Decoded(pairs) ==
    [i \in DOMAIN pairs |-> <<DecodeUrl(pairs[i][1], TRUE), DecodeUrl(pairs[i][2], TRUE)>>]

ParseQueryText(s) == Decoded(PairsOf(Distinct(SplitAt(s, Ampersand))))

\* A path that has a query already, and nothing but one line after it, gets more.
HasQuery(path) ==
    LET at == Len(Divide(path, Question)[1]) + 1
    IN  at \in 2 .. Len(path) /\ \A i \in at .. Len(path) : path[i] \notin {Cr, Lf}

AppendQueryParams(path, params) ==
    path \o <<IF HasQuery(path) THEN Ampersand ELSE Question>> \o ParamsToQueryStr(params)

-----------------------------------------------------------------------------
(* The request line *)

GetMethod == <<71, 69, 84>>
PostMethod == <<80, 79, 83, 84>>
RequestMethods == {GetMethod, PostMethod, <<72, 69, 65, 68>>, <<80, 85, 84>>, <<68, 69, 76, 69, 84, 69>>,
    <<67, 79, 78, 78, 69, 67, 84>>, <<79, 80, 84, 73, 79, 78, 83>>, <<84, 82, 65, 67, 69>>,
    <<80, 65, 84, 67, 72>>, <<80, 82, 73>>}

Http11 == <<72, 84, 84, 80, 47, 49, 46, 49>>
Http10 == <<72, 84, 84, 80, 47, 49, 46, 48>>

\* The client encodes the path with its parameters.
WriteRequestLine(method, path, params) ==
    LET target == IF params = <<>> THEN path ELSE AppendQueryParams(path, params)
    IN  method \o <<Space>> \o EncodeUrl(target) \o <<Space>> \o Http11 \o Eol

NoRequest == [ok |-> FALSE, method |-> <<>>, path |-> <<>>, params |-> <<>>]

ParseFields(fields) ==
    LET Target(method, parts) ==
            [ok |-> TRUE, method |-> method, path |-> DecodeUrl(parts[1], FALSE),
             params |-> ParseQueryText(parts[2])]
    IN  IF Len(fields) = 3 /\ fields[1] \in RequestMethods /\ fields[3] \in {Http11, Http10}
        THEN Target(fields[1], Divide(Divide(fields[2], Hash)[1], Question))
        ELSE NoRequest

ParseRequestLine(line) ==
    LET Parsed(s) == IF Len(s) >= 2 /\ SubSeq(s, Len(s) - 1, Len(s)) = Eol
                     THEN ParseFields(SplitAt(SubSeq(s, 1, Len(s) - 2), Space))
                     ELSE NoRequest
    IN  Parsed(UpToNul(line))

-----------------------------------------------------------------------------
(* Streams and lines *)

\* bytes: what arrives; ends: the peer closes its end then, or else is silent.
StreamOf(bytes, ends) == [bytes |-> bytes, ends |-> ends]
Stream == [bytes : Seq(Byte), ends : BOOLEAN]

After(stream, i) == [stream EXCEPT !.bytes = SubSeq(@, i, Len(@))]

\* The end of the stream ends a line, unless the line is empty.
GetLine(stream) ==
    LET text == stream.bytes
        eols == {i \in 2 .. Len(text) : text[i - 1] = Cr /\ text[i] = Lf}
        end == Min(eols \cup {Len(text)})
    IN  [ok |-> IF eols # {} THEN end <= LineMax
                ELSE stream.ends /\ end > 0 /\ end < LineMax,
         line |-> SubSeq(text, 1, end),
         rest |-> After(stream, Min({end, LineMax}) + 1)]

EndsWithCrlf(line) == Len(line) >= 2 /\ SubSeq(line, Len(line) - 1, Len(line)) = Eol

-----------------------------------------------------------------------------
(* Headers: pairs of a name and a value *)

\* set_header drops what is no name or value.
SetHeader(headers, name, value) ==
    IF IsToken(name) /\ IsFieldValue(value) THEN Append(headers, <<name, value>>) ELSE headers

WriteHeaders(headers) ==
    FoldLeft(LAMBDA text, h : text \o h[1] \o <<Colon, Space>> \o h[2] \o Eol, <<>>, headers)
        \o Eol

\* location and referer, in any case.
LocationName == <<108, 111, 99, 97, 116, 105, 111, 110>>
RefererName == <<114, 101, 102, 101, 114, 101, 114>>
Lower(s) == [i \in DOMAIN s |-> IF s[i] \in Uppers THEN s[i] + 32 ELSE s[i]]

HeaderOf(name, value) ==
    [ok |-> IsToken(name) /\ IsFieldValue(value),
     header |-> <<name, IF Lower(name) \in {LocationName, RefererName} THEN value
                        ELSE DecodeUrl(value, FALSE)>>]

ParseHeader(text) ==
    LET Parsed(halves) == HeaderOf(halves[1], Trim(halves[2]))
        Split(line) == IF Colon \in ToSet(line) THEN Parsed(Divide(line, Colon))
                       ELSE [ok |-> FALSE, header |-> <<>>]
    IN  Split(SubSeq(text, 1, Max({i \in DOMAIN text : text[i] \notin Blank} \cup {0})))

\* A line that only the end of the stream ends is skipped, and then there is no
\* empty line.
ReadHeaders(stream) ==
    LET Into[s \in Stream, headers \in Seq(Seq(Byte) \X Seq(Byte))] ==
            LET Ended(read) == read.ok /\ read.line = Eol
                Fits(read) == /\ read.ok
                              /\ EndsWithCrlf(read.line)
                              /\ Len(read.line) <= HeaderMaxLength
                              /\ Len(headers) < HeaderMaxCount
                Parsed(read, parsed) ==
                    IF Fits(read) /\ parsed.ok
                    THEN Into[read.rest, Append(headers, parsed.header)]
                    ELSE [ok |-> Ended(read), headers |-> headers, rest |-> read.rest]
                Taken(read) == Parsed(read, ParseHeader(SubSeq(read.line, 1, Len(read.line) - 2)))
            IN  Taken(GetLine(s))
    IN  Into[stream, <<>>]

-----------------------------------------------------------------------------
(* Properties *)

\* A client's path and parameters are what the handler gets; a path is not when it
\* has a per cent sign, which is decoded without being encoded, a question mark or
\* a hash, ends at a NUL, or ends with a tab, which is not encoded.
LineArrives(path, params) ==
    LET plain == ToSet(path) \cap {Nul, Hash, Percent, Question} = {} /\ Last(path) # Tab
        Whole(read, line) == read.ok /\ read.line = line
        Right(line) == /\ Whole(GetLine(StreamOf(line, FALSE)), line)
                       /\ ParseRequestLine(line) = [ok |-> TRUE, method |-> GetMethod,
                                                    path |-> path, params |-> params]
    IN  plain => Right(WriteRequestLine(GetMethod, path, params))

\* Headers arrive, unless there are too many or one is too long, and what follows
\* them is left; a value with a per cent sign is decoded without being encoded,
\* but for Location and Referer.
HeadersArrive(headers, after) ==
    LET fits == /\ Len(headers) <= HeaderMaxCount
                /\ \A i \in DOMAIN headers :
                      Len(headers[i][1] \o headers[i][2]) + 4 <= HeaderMaxLength
        AsIs(h) == Lower(h[1]) \in {LocationName, RefererName} \/ Percent \notin ToSet(h[2])
        Right(read) ==
            /\ read.ok <=> fits
            /\ read.ok => /\ Len(read.headers) = Len(headers)
                          /\ \A i \in DOMAIN headers :
                                AsIs(headers[i]) => read.headers[i] = headers[i]
                          /\ read.rest.bytes = after
    IN  Right(ReadHeaders(StreamOf(WriteHeaders(headers) \o after, FALSE)))
=============================================================================
