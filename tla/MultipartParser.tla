---------------------------- MODULE MultipartParser ----------------------------
(***************************************************************************)
(* The HTTP library's parser of multipart/form-data bodies.  It is fed the *)
(* pieces in which a body comes out of the socket, hands the content of a  *)
(* part on as soon as it cannot be the beginning of a boundary, and keeps  *)
(* the rest.  Characters are strings; "b" is the whole boundary text.      *)
(***************************************************************************)
EXTENDS Naturals, Sequences
LOCAL INSTANCE SequencesExt
LOCAL INSTANCE FiniteSetsExt

CONSTANT PartLineMax  \* CPPHTTPLIB_HEADER_MAX_LENGTH, of a part's header line

Crlf == <<"\r", "\n">>
Dashes == <<"-", "-">>
DashBoundaryCrlf == Dashes \o <<"b">> \o Crlf
CrlfDashBoundary == Crlf \o Dashes \o <<"b">>

-----------------------------------------------------------------------------
(* Writing *)

\* A part begins with a boundary and its headers.
ItemBegin(part) ==
    Dashes \o <<"b">> \o Crlf
        \o FoldLeft(LAMBDA head, line : head \o line \o Crlf, <<>>, part.lines)
        \o Crlf

Finish == Dashes \o <<"b">> \o Dashes \o Crlf

SerializeFormdata(parts) ==
    FoldLeft(LAMBDA text, part : text \o ItemBegin(part) \o part.content \o Crlf, <<>>, parts)
        \o Finish

-----------------------------------------------------------------------------
(* Reading *)

Text == Seq(STRING)
Parser == [state : {"preamble", "entry", "headers", "lines", "body", "boundary"}, buf : Text,
           lines : Seq(Text), parts : Seq([lines : Seq(Text), content : Text]),
           valid : BOOLEAN, refused : BOOLEAN, waits : BOOLEAN]

\* The object as read_content_core makes it: what is valid is known at the end.
Fresh == [state |-> "preamble", buf |-> <<>>, lines |-> <<>>, parts |-> <<>>,
          valid |-> FALSE, refused |-> FALSE, waits |-> FALSE]

\* The offset of s in the buffer, or the buffer's length.
BufFind(buf, s) ==
    Min({i \in 0 .. Len(buf) - Len(s) : SubSeq(buf, i + 1, i + Len(s)) = s} \cup {Len(buf)})

BufErase(m, n) == [m EXCEPT !.buf = SubSeq(@, n + 1, Len(@))]

Waits(m) == [m EXCEPT !.waits = TRUE]
Refuses(m) == [m EXCEPT !.refused = TRUE, !.valid = FALSE]

\* parse_header asks for a name and a colon.
IsHeader(line) == Contains(line, ":") /\ line[1] # ":"

InitialBoundary(m) ==
    LET pos == BufFind(m.buf, DashBoundaryCrlf)
    IN  IF pos = Len(m.buf) THEN Waits(m)
        ELSE [BufErase(m, pos + Len(DashBoundaryCrlf)) EXCEPT !.state = "entry"]

NewEntry(m) == [m EXCEPT !.state = "headers", !.lines = <<>>]

\* Variant: lines of any length.
EnterAnyHeaders(m) == [m EXCEPT !.state = "lines"]

\* The length is looked at once, before the first of the lines that have come; of
\* a line that has not come whole, as far as it has.
EnterHeaders(m) ==
    IF BufFind(m.buf, Crlf) > PartLineMax THEN Refuses(m) ELSE [m EXCEPT !.state = "lines"]

\* The empty line ends the headers and begins a part.
HeaderLine(m) ==
    LET pos == BufFind(m.buf, Crlf)
        line == SubSeq(m.buf, 1, pos)
    IN  CASE pos = Len(m.buf) -> Waits(m)
          [] pos = 0 /\ m.buf # <<>> ->
                [BufErase(m, Len(Crlf)) EXCEPT
                    !.state = "body", !.parts = Append(@, [lines |-> m.lines, content |-> <<>>])]
          [] pos \in 1 .. Len(m.buf) - 1 /\ ~IsHeader(line) -> Refuses(m)
          [] OTHER -> [BufErase(m, pos + Len(Crlf)) EXCEPT !.lines = Append(@, line)]

\* The content callback appends to the last part.
Content(m, n) ==
    [BufErase(m, n) EXCEPT !.parts[Len(m.parts)].content = @ \o SubSeq(m.buf, 1, n)]

\* As much as a boundary needs stays in the buffer.
Body(m) ==
    LET pos == BufFind(m.buf, CrlfDashBoundary)
    IN  CASE Len(CrlfDashBoundary) > Len(m.buf) -> Waits(m)
          [] Len(CrlfDashBoundary) <= Len(m.buf) /\ pos < Len(m.buf) ->
                [BufErase(Content(m, pos), Len(CrlfDashBoundary)) EXCEPT !.state = "boundary"]
          [] OTHER -> Waits(Content(m, Len(m.buf) - Len(CrlfDashBoundary)))

\* The closing boundary takes with it what has come after it so far, and the parser
\* stays where it is.
Boundary(m) ==
    CASE Len(m.buf) < 2 -> Waits(m)
      [] Len(m.buf) >= 2 /\ IsPrefix(Crlf, m.buf) ->
            [BufErase(m, Len(Crlf)) EXCEPT !.state = "entry"]
      [] Len(m.buf) >= 2 /\ IsPrefix(Dashes, m.buf) ->
            [m EXCEPT !.buf = <<>>, !.valid = TRUE]
      [] OTHER -> Waits(m)

Step(m) ==
    CASE m.state = "preamble" -> InitialBoundary(m)
      [] m.state = "entry" -> NewEntry(m)
      [] m.state = "headers" -> EnterHeaders(m)
      [] m.state = "lines" -> HeaderLine(m)
      [] m.state = "body" -> Body(m)
      [] m.state = "boundary" -> Boundary(m)

Steps(m) ==
    LET To[n \in Parser] == IF n.buf = <<>> \/ n.waits \/ n.refused THEN n ELSE To[Step(n)]
    IN  To[m]

Parse(m, piece) ==
    IF m.refused THEN m
    ELSE Steps([m EXCEPT !.buf = @ \o piece, !.waits = FALSE,
                         !.state = IF @ = "lines" THEN "headers" ELSE @])

\* What the handler is given, or whether it is 400 instead.
Parsed(pieces) ==
    LET end == FoldLeft(Parse, Fresh, pieces)
    IN  [accepted |-> end.valid, parts |-> end.parts]

-----------------------------------------------------------------------------
(* Properties *)

\* The ways in which a text can come in up to three pieces.
Pieces(text) ==
    UNION {{<<SubSeq(text, 1, i), SubSeq(text, i + 1, j), SubSeq(text, j + 1, Len(text))>> :
        j \in i .. Len(text)} : i \in 0 .. Len(text)}

LinesOf(parts) == UNION {ToSet(parts[i].lines) : i \in DOMAIN parts}
FirstLines(parts) == {parts[i].lines[1] : i \in {j \in DOMAIN parts : parts[j].lines # <<>>}}

\* A body means the same however the socket cuts it up.  Two things may make it
\* refused by some cuts: a text after the closing boundary's line, which is ignored
\* when it comes with the boundary and taken for another part when it comes later,
\* and a header line as long as the limit, which is counted with half its end, or
\* not at all behind another line.  A part whose first line is longer is refused
\* always (parse, states 2 to 4).
PartsAreWhole(parts, epilogue) ==
    \A pieces \in Pieces(SerializeFormdata(parts) \o epilogue) :
        /\ \/ Parsed(pieces) = [accepted |-> TRUE, parts |-> parts]
           \/ /\ ~Parsed(pieces).accepted
              /\ epilogue # <<>> \/ \E line \in LinesOf(parts) : Len(line) >= PartLineMax
        /\ (\E line \in FirstLines(parts) : Len(line) > PartLineMax) => ~Parsed(pieces).accepted
=============================================================================
