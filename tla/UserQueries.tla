------------------------------ MODULE UserQueries ------------------------------
(***************************************************************************)
(* UserManager's queries, each one statement on the table users: the whole *)
(* list, the list by pages, the counts by role, whether a name is taken,   *)
(* and the search by a part of a name.  A table here maps the numbers of   *)
(* its accounts to their names and roles; a name is a sequence of          *)
(* characters.                                                             *)
(***************************************************************************)
EXTENDS Integers, SequencesExt

CONSTANTS
    Characters,
    Texts,      \* the names accounts are made with, and what clients search for
    Walks,      \* what the table is when a client asks for page after page
    PageSizes   \* the limits of such clients

\* Numbers are the database's AUTO_INCREMENT: one that appears is larger than those
\* it finds.  So it is for accounts that signups make, one committed after the other:
\* left out are signups that commit in another order than they drew their numbers in,
\* and an update that gives an account another user_id.
NumbersGrow(tables) ==
    \A k, l \in DOMAIN tables :
        k < l => \A i \in DOMAIN tables[l] \ DOMAIN tables[k], j \in DOMAIN tables[k] : j < i

ASSUME QueriesAssumption ==
    /\ Texts \subseteq Seq(Characters)
    /\ PageSizes \subseteq 1 .. 100
    /\ \A tables \in Walks :
          /\ Len(tables) \in Nat \ {0} /\ DOMAIN tables = 1 .. Len(tables)
          /\ \A k \in DOMAIN tables :
                /\ IsFiniteSet(DOMAIN tables[k]) /\ DOMAIN tables[k] \subseteq Nat
                /\ tables[k] \in [DOMAIN tables[k] -> [name : Texts, role : {"rider", "driver"}]]
          /\ NumbersGrow(tables)

-----------------------------------------------------------------------------
(* GET /users, GET /users/paginated *)

GetAllUsers(rows) == {[id |-> i, user |-> rows[i]] : i \in DOMAIN rows}

\* A parameter is the set of the number it reads as, {} when it is missing or no
\* number.
ParsePaginationParam(param, default) ==
    IF param = {} THEN default ELSE CHOOSE n \in param : TRUE

Offset(param) == Max({ParsePaginationParam(param, 0), 0})
Limit(param) == Min({Max({ParsePaginationParam(param, 25), 1}), 100})

\* LIMIT limit OFFSET offset of numbers, which come in the order of their ranks.
Page(numbers, Rank(_), offset, limit) ==
    [k \in 1 .. Min({limit, Max({Cardinality(numbers) - offset, 0})}) |->
        CHOOSE n \in numbers : Rank(n) = offset + k]

\* Variant: the newest first.
NewestFirst(rows, offset, limit) ==
    Page(DOMAIN rows, LAMBDA n : Cardinality({m \in DOMAIN rows : m >= n}), offset, limit)

\* ORDER BY user_id.
GetUsersPaginated(rows, offset, limit) ==
    Page(DOMAIN rows, LAMBDA n : Cardinality({m \in DOMAIN rows : m <= n}),
         Max({offset, 0}), IF limit <= 0 THEN 25 ELSE limit)

UsersPage(rows, offset, limit) ==
    GetUsersPaginated(rows, Offset(offset), Limit(limit))

-----------------------------------------------------------------------------
(* Text in a statement *)

\* Texts that are taken for no text at all.
NullLike == {<<"N", "U", "L", "L">>, <<"n", "u", "l", "l">>, <<"'", "'">>, <<"\"", "\"">>}

Escaped(escaped, c) ==
    IF c \in {"\\", "'", "\""} THEN escaped \o <<"\\", c>> ELSE Append(escaped, c)

EscapeString(text) == IF text \in NullLike THEN <<>> ELSE FoldLeft(Escaped, <<>>, text)

\* What the database makes of the text between two quotes: an escaped wildcard
\* keeps its backslash.
ReadOn(read, c) ==
    IF read.escape
    THEN [escape |-> FALSE,
          text |-> read.text \o (IF c \in {"%", "_"} THEN <<"\\", c>> ELSE <<c>>)]
    ELSE IF c = "\\" THEN [read EXCEPT !.escape = TRUE]
    ELSE [read EXCEPT !.text = Append(@, c)]

Literal(text) == FoldLeft(ReadOn, [escape |-> FALSE, text |-> <<>>], text).text

\* The table of accounts made with the names.
Stored(rows) == [i \in DOMAIN rows |-> [rows[i] EXCEPT !.name = Literal(EscapeString(@))]]

-----------------------------------------------------------------------------
(* GET /users/stats, GET /user/exists *)

GetUserStats(rows) ==
    LET roles == {rows[i].role : i \in DOMAIN rows}
    IN  [counts |-> [r \in roles |-> Cardinality({i \in DOMAIN rows : rows[i].role = r})],
         total |-> Cardinality(DOMAIN rows)]

\* The status, and whether the name is taken when one is given.
UserExists(rows, username) ==
    IF username = <<>> THEN [status |-> 400]
    ELSE [status |-> 200,
          taken |-> \E i \in DOMAIN rows : rows[i].name = Literal(EscapeString(username))]

-----------------------------------------------------------------------------
(* GET /user/search *)

\* LIKE: how much of the name each prefix of the pattern may match.
MatchOn(name, state, c) ==
    LET Next(at) == {p + 1 : p \in {q \in at : q < Len(name) /\ name[q + 1] = c}}
    IN  IF state.escape THEN [escape |-> FALSE, at |-> Next(state.at)]
        ELSE IF c = "\\" THEN [state EXCEPT !.escape = TRUE]
        ELSE [state EXCEPT !.at =
                CASE c = "%" -> {q \in 0 .. Len(name) : \E p \in @ : p <= q}
                  [] c = "_" -> {p + 1 : p \in {q \in @ : q < Len(name)}}
                  [] OTHER -> Next(@)]

Like(name, pattern) ==
    Len(name) \in FoldLeft(LAMBDA state, c : MatchOn(name, state, c),
                           [escape |-> FALSE, at |-> {0}], pattern).at

SearchUsersByUsername(rows, username) ==
    LET pattern == Literal(<<"%">> \o EscapeString(username) \o <<"%">>)
    IN  {i \in DOMAIN rows : Like(rows[i].name, pattern)}

-----------------------------------------------------------------------------
(* Properties *)

\* A client asks for page after page, each at the offset after the one before, while
\* accounts come and go; tables is what the table was at each page.  No account is
\* shown twice, they come in order, and of those that were there all the time no more
\* are missed than were deleted.
WalkShowsAccounts(tables, limit) ==
    LET page == [k \in DOMAIN tables |-> UsersPage(tables[k], {(k - 1) * limit}, {limit})]
        shown == UNION {Range(page[k]) : k \in DOMAIN tables}
        always == {i \in DOMAIN tables[1] : \A k \in DOMAIN tables : i \in DOMAIN tables[k]}
        deleted == DOMAIN tables[1] \ DOMAIN tables[Len(tables)]
    IN  /\ \A k, l \in DOMAIN tables : \A i \in DOMAIN page[k], j \in DOMAIN page[l] :
              k < l \/ (k = l /\ i < j) => page[k][i] < page[l][j]
        /\ Len(page[Len(tables)]) < limit =>
              Cardinality(always \ shown) <= Cardinality(deleted)

\* A search finds every name the text is a part of, and, unless the text has a
\* wildcard in it or is taken for none, no other.  A backslash is lost to the
\* pattern.
SearchFindsName(name, text) ==
    LET finds == SearchUsersByUsername([i \in {1} |-> [name |-> name]], text) = {1}
        part == \E i \in 0 .. Len(name) - Len(text) :
                    SubSeq(name, i + 1, i + Len(text)) = text
    IN  "\\" \notin Range(text) =>
            /\ part => finds
            /\ finds /\ Range(text) \cap {"%", "_"} = {} /\ text \notin NullLike => part

\* The counts, the list and the names taken are of the same accounts.
QueriesAgree(rows) ==
    LET stats == GetUserStats(rows)
        listed == GetAllUsers(rows)
    IN  /\ stats.total = Cardinality(listed)
        /\ SumFunctionOnSet(stats.counts, DOMAIN stats.counts) = stats.total
        /\ \A entry \in listed :
              entry.user.name # <<>> =>
                  /\ UserExists(rows, entry.user.name).taken
                  /\ "\\" \notin Range(entry.user.name) =>
                        entry.id \in SearchUsersByUsername(rows, entry.user.name)

\* A walk through the pages shows the accounts, the search finds the names it is asked
\* for, and the queries on one table agree.
QueriesAnswer ==
    /\ \A tables \in Walks, limit \in PageSizes : WalkShowsAccounts(tables, limit)
    /\ \A name, text \in Texts : SearchFindsName(name, text)
    /\ \A tables \in Walks : \A k \in DOMAIN tables : QueriesAgree(Stored(tables[k]))
=============================================================================
