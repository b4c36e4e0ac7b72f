------------------------------- MODULE RideFares -------------------------------
(***************************************************************************)
(* What parseFareAmount makes of the field "fare" of a completion.  A      *)
(* number is taken as it is; a text is stripped to digits and one point.   *)
(* Amounts are in millionths, texts are sequences of characters.           *)
(***************************************************************************)
EXTENDS Integers, Sequences
LOCAL INSTANCE SequencesExt

NoFare == -1  \* std::nullopt: the completion settles nothing

Digits == [c \in {"0", "1", "2"} |-> CASE c = "0" -> 0 [] c = "1" -> 1 [] c = "2" -> 2]
IsDigit(c) == c \in DOMAIN Digits

Separator(c) == c \in {".", ","}

\* Variant: a point only.
AppendPointOnly(kept, c) ==
    IF IsDigit(c) \/ (c = "." /\ ~Contains(kept, ".")) THEN Append(kept, c) ELSE kept

AppendNormalized(kept, c) ==
    CASE IsDigit(c) -> Append(kept, c)
      [] Separator(c) /\ ~Contains(kept, ".") -> Append(kept, ".")
      [] OTHER -> kept

\* std::stod of digits and at most one point, which fails without a digit.
Amount(digits, decimals) ==
    FoldLeft(LAMBDA n, c : 10 * n + Digits[c], 0, digits) * 10 ^ (6 - decimals)

Stod(kept) ==
    LET point == SelectInSeq(kept, LAMBDA c : c = ".")
        digits == SelectSeq(kept, IsDigit)
    IN  IF digits = <<>> THEN NoFare
        ELSE Amount(digits, IF point = 0 THEN 0 ELSE Len(kept) - point)

\* kind: missing (or neither number nor text), number or text.
ParseFareAmount(fare) ==
    CASE fare.kind = "missing" -> NoFare
      [] fare.kind = "number" -> IF fare.value < 0 THEN NoFare ELSE fare.value
      [] fare.kind = "text" -> Stod(FoldLeft(AppendNormalized, <<>>, fare.value))

-----------------------------------------------------------------------------
(* Properties *)

\* What the writer of a text means: a sign, a currency, digits, and a fraction
\* after the last separator.
Written == [sign : {<<>>, <<"-">>}, currency : {<<>>, <<"$">>},
            groups : {<< <<"2">> >>, << <<"1">>, <<"0", "2", "0">> >>},
            fraction : {<<>>, <<".", "0">>, <<",", "1", "2">>}]

Text(w) == w.sign \o w.currency
              \o FoldLeft(LAMBDA text, group : text \o <<",">> \o group, Head(w.groups), Tail(w.groups))
              \o w.fraction

Meant(w) ==
    IF w.sign # <<>> THEN NoFare
    ELSE Amount(FlattenSeq(w.groups) \o SelectSeq(w.fraction, IsDigit),
                IF w.fraction = <<>> THEN 0 ELSE Len(w.fraction) - 1)

\* A fare is read as it is written, the documented "$23.50" too, unless its text
\* has a sign, which is dropped, or separates thousands: then the first separator
\* is the point (parseFareAmount, docs/system_validation_scenarios.md:71).
ReadAsWritten(w) ==
    (ParseFareAmount([kind |-> "text", value |-> Text(w)]) = Meant(w))
        <=> (w.sign = <<>> /\ Len(w.groups) = 1)
=============================================================================
