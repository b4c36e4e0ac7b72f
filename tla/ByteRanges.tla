----------------------------- MODULE ByteRanges -----------------------------
(***************************************************************************)
(* The byte ranges of the HTTP library: what a Range header is parsed to,  *)
(* which ranges of a body of some length are refused, and which parts of   *)
(* the body the others are merged to.                                      *)
(***************************************************************************)
EXTENDS Integers, FiniteSets, SequencesExt

CONSTANTS
    RangeMaxCount,     \* CPPHTTPLIB_RANGE_MAX_COUNT
    RangeLists,        \* the lists of ranges clients ask for
    Lengths            \* the lengths of bodies

Absent == -1  \* the position a range leaves out

ASSUME RangesAssumption ==
    /\ RangeMaxCount \in Nat
    /\ RangeLists \subseteq Seq((Nat \cup {Absent}) \X (Nat \cup {Absent}))
    /\ Lengths \subseteq Nat

\* first-last, first- or -last; an element of another form is <<>>.
IsRange(element) ==
    /\ element # <<>>
    /\ element # <<Absent, Absent>>
    /\ Absent \in {element[1], element[2]} \/ element[1] <= element[2]

ParsesAsRanges(elements) ==
    /\ elements # <<>>
    /\ \A i \in DOMAIN elements : IsRange(elements[i])

\* The positions a range stands for in a body of the length.
Resolve(range, length) ==
    LET first == IF range[1] = Absent THEN length - range[2] ELSE range[1]
        last == IF Absent \in {range[1], range[2]} \/ range[2] >= length
                THEN length - 1 ELSE range[2]
    IN  <<first, last>>

Within(range, length) ==
    0 <= range[1] /\ range[1] <= range[2] /\ range[2] < length

Overlap(r, s) == ~(r[2] < s[1] \/ r[1] > s[2])

\* How many ranges overlap one before them.
Overlapping(ranges) ==
    Cardinality({i \in DOMAIN ranges :
                    \E j \in 1 .. i - 1 : Overlap(ranges[i], ranges[j])})

ResolveAll(ranges, length) ==
    [i \in DOMAIN ranges |-> Resolve(ranges[i], length)]

RangeError(ranges, length) ==
    LET resolved == ResolveAll(ranges, length)
    IN  \/ Len(ranges) > RangeMaxCount
        \/ \E i \in DOMAIN resolved : ~Within(resolved[i], length)
        \/ Overlapping(resolved) > 2

\* Variant: the later range's end is kept.
JoinToLast(parts, range) ==
    LET prev == Last(parts)
    IN  IF parts # <<>> /\ range[1] <= prev[2] + 1 /\ range # prev
        THEN Append(Front(parts), <<prev[1], range[2]>>)
        ELSE Append(parts, range)

\* A range joins the one before it when they overlap or touch, unless they are
\* the same.
Join(parts, range) ==
    LET prev == Last(parts)
    IN  IF parts # <<>> /\ range[1] <= prev[2] + 1 /\ range # prev
        THEN Append(Front(parts), <<prev[1], Max({prev[2], range[2]})>>)
        ELSE Append(parts, range)

\* std::sort by the first positions.
SortedByFirst(ranges) ==
    LET sorted == CHOOSE order \in Surjection(DOMAIN ranges, DOMAIN ranges) :
                      \A i, j \in DOMAIN ranges : i < j =>
                          ranges[order[i]][1] <= ranges[order[j]][1]
    IN  [i \in DOMAIN ranges |-> ranges[sorted[i]]]

CoalesceRanges(ranges, length) ==
    LET resolved == ResolveAll(ranges, length)
    IN  IF Len(resolved) <= 1 THEN resolved
        ELSE FoldLeft(Join, <<>>, SortedByFirst(resolved))

OffsetAndLength(range) == <<range[1], range[2] - range[1] + 1>>

\* Byte i of a body is i; what a part carries, and what its Content-Range says.
BodyOf(length) == [i \in 1 .. length |-> i - 1]

ContentRange(offset, count, length) == [first |-> offset, last |-> offset + count - 1, of |-> length]

PartOf(range, length) ==
    LET offset == OffsetAndLength(range)[1]
        count == OffsetAndLength(range)[2]
    IN  [contentRange |-> ContentRange(offset, count, length),
         bytes |-> SubSeq(BodyOf(length), offset + 1, offset + count)]

\* The body of an answer: whole, one part, or the parts of a multipart body.  A
\* handler that sets no status gets 206 when there are ranges.
ApplyRanges(ranges, length, status) ==
    LET set == IF status # -1 THEN status ELSE IF ranges = <<>> THEN 200 ELSE 206
        parts == CoalesceRanges(ranges, length)
    IN  CASE ranges # <<>> /\ set \in 200 .. 299 /\ RangeError(ranges, length) ->
                [status |-> 416, whole |-> FALSE, parts |-> <<>>]
          [] set = 206 /\ ranges # <<>> /\ ~RangeError(ranges, length) ->
                [status |-> 206, whole |-> FALSE,
                 parts |-> [i \in DOMAIN parts |-> PartOf(parts[i], length)]]
          [] OTHER -> [status |-> set, whole |-> TRUE, parts |-> <<>>]

-----------------------------------------------------------------------------
(* Properties *)

\* The bytes a range asks for, by RFC 9110 as range_error quotes it, of a body
\* that is long enough.
Asked(range, length) ==
    {byte \in 0 .. length - 1 :
        IF range[1] = Absent THEN byte >= length - range[2]
        ELSE byte >= range[1] /\ (range[2] = Absent \/ byte <= range[2])}

\* The first position of a range lies in the body.
Satisfiable(range, length) ==
    IF range[1] = Absent THEN range[2] \in 1 .. length ELSE range[1] < length

\* How many ranges ask for a byte that one before them asks for.
Repeating(ranges, length) ==
    Cardinality({i \in DOMAIN ranges :
                    \E j \in 1 .. i - 1 :
                        Asked(ranges[i], length) \cap Asked(ranges[j], length) # {}})

\* Ranges are refused when there are too many, one cannot be satisfied or more than
\* two repeat bytes, and only then; what is served otherwise is in order, inside
\* the body, and exactly what was asked for, and every part says what it is
\* (range_error, coalesce_ranges, apply_ranges).  A handler that sets the status
\* serves all.
ServesWhatIsAsked(ranges, length) ==
    LET answer == ApplyRanges(ranges, length, -1)
        parts == answer.parts
        Says(part) == part.contentRange.first .. part.contentRange.last
        Sent(part) == {part.bytes[k] : k \in DOMAIN part.bytes}
    IN  /\ answer.status = 416 <=>
              \/ Len(ranges) > RangeMaxCount
              \/ \E i \in DOMAIN ranges : ~Satisfiable(ranges[i], length)
              \/ Repeating(ranges, length) > 2
        /\ answer.status # 416 =>
              /\ UNION {Sent(parts[i]) : i \in DOMAIN parts} =
                    UNION {Asked(ranges[i], length) : i \in DOMAIN ranges}
              /\ \A i \in DOMAIN parts :
                    parts[i].bytes # <<>> /\ Sent(parts[i]) = Says(parts[i])
              /\ \A i \in 1 .. Len(parts) - 1 :
                    /\ parts[i].contentRange.first <= parts[i + 1].contentRange.first
                    /\ parts[i].contentRange.last <= parts[i + 1].contentRange.last
        /\ ApplyRanges(ranges, length, 200).parts = <<>>

RangesServed ==
    \A ranges \in RangeLists, length \in Lengths :
        ParsesAsRanges(ranges) => ServesWhatIsAsked(ranges, length)
=============================================================================
