------------------------------ MODULE LocationStore ------------------------------
(***************************************************************************)
(* LocationManager's RouteHandler: worker threads that keep the table      *)
(* locations.  An update or a deletion is several statements, and nothing  *)
(* holds them together: each is an action.  The table has no unique key on *)
(* rider_id.                                                               *)
(***************************************************************************)
EXTENDS NearbySearch

CONSTANTS
    Threads,     \* worker threads of the HTTP server
    Users,       \* user ids, positive
    Positions,   \* positions clients send
    Names,       \* names clients give, perhaps Null
    Centres,     \* where searches are centred
    Radii,       \* radii of searches
    Databases,   \* which database the process may run with: "mysql", "stub"
    DbFaults,    \* TRUE: a statement of a real one may fail
    MaxRows,     \* bound: no first update begins while the table is this long
    MaxHidden,   \* bound: failed look-ups of updates about one user who has rows
    Null,        \* the name column is NULL or empty, or an empty name is given
    None,        \* no call, answer, row, place or name
    Unsure       \* what IsDirectory says of a user it promises nothing about

Place == [at : Positions, name : Names \cup {Null}]

Call == [op : {"update"}, user : Users, at : Positions,
         name : Names \cup {None}]
          \cup [op : {"get", "delete"}, user : Users]

ASSUME StoreAssumption ==
    /\ \A p \in Positions \cup Centres : Valid(p)
    /\ Radii \subseteq Int
    /\ Databases \subseteq {"mysql", "stub"}
    /\ DbFaults \in BOOLEAN
    /\ MaxRows \in Nat /\ MaxHidden \in Nat
    /\ IsFiniteSet(Threads)
    /\ None \notin Names \cup {Null} \cup Place \cup Call
    /\ None \notin [status : Nat, place : Place \cup {None}]
    /\ Unsure # None /\ Unsure \notin Place

VARIABLES
    database,   \* the one in use
    riders,     \* users the foreign key of rider_id allows: nobody writes riders
    rows,       \* table locations
    pc,         \* the step each thread takes next
    call,       \* the call it serves, or None
    found,      \* whether its first fetch returned a record
    answer,     \* None, or the response
    doubted,    \* history: users two calls about whom have overlapped, or
                \* about whom a statement has failed
    hidden,     \* history: how often a failed look-up of an update has hidden
                \* the rows a user had
    alone       \* history: no other call about the user has overlapped this one

vars == <<database, riders, rows, pc, call, found, answer, doubted, hidden, alone>>

Answer(status, place) == [status |-> status, place |-> place]

Init ==
    /\ database \in Databases
    /\ riders \in SUBSET Users
    /\ rows = {}
    /\ pc = [t \in Threads |-> "idle"]
    /\ call = [t \in Threads |-> None]
    /\ found = [t \in Threads |-> FALSE]
    /\ answer = [t \in Threads |-> None]
    /\ doubted = {}
    /\ hidden = [u \in Users |-> 0]
    /\ alone = [t \in Threads |-> TRUE]

RowsOf(u) == {r \in rows : r.user = u}

PlaceOf(r) == [at |-> r.at, name |-> r.name]

Goto(t, from, to) == pc[t] = from /\ pc' = [pc EXCEPT ![t] = to]

Respond(t, from, response) ==
    /\ Goto(t, from, "answer")
    /\ answer' = [answer EXCEPT ![t] = response]

\* What fetchLocationRecord may return: any row (LIMIT 1, no ORDER BY), or none.
\* fetchRows has no rows to give for a SELECT that failed either, and the
\* handlers cannot tell.
FetchLocationRecord(u) ==
    {PlaceOf(r) : r \in RowsOf(u)} \cup (IF RowsOf(u) = {} \/ DbFaults THEN {None} ELSE {})

Misread(u, place) == place = None /\ RowsOf(u) # {}

NoteMisread(u, place) ==
    doubted' = IF Misread(u, place) THEN doubted \cup {u} ELSE doubted

-----------------------------------------------------------------------------
(* A call comes and is answered *)

About(u) == {t \in Threads : call[t] # None /\ call[t].user = u}

Accept(t, c) ==
    /\ c.op = "update" /\ RowsOf(c.user) = {} => Cardinality(rows) < MaxRows
    /\ Goto(t, "idle", "look")
    /\ call' = [call EXCEPT ![t] = c]
    /\ doubted' = IF About(c.user) = {} THEN doubted ELSE doubted \cup {c.user}
    /\ alone' = [x \in Threads |-> IF x \in About(c.user) THEN FALSE
                                   ELSE IF x = t THEN About(c.user) = {} ELSE alone[x]]
    /\ UNCHANGED <<database, riders, rows, found, answer, hidden>>

\* Not JSON, no object, no positive id, no place in range, no readable name.
Refuse(t) ==
    /\ Respond(t, "idle", Answer(400, None))
    /\ UNCHANGED <<database, riders, rows, call, found, doubted, hidden, alone>>

\* Variant: the next update inherits what this one found.
ReplyOnly(t) ==
    /\ Goto(t, "answer", "idle")
    /\ call' = [call EXCEPT ![t] = None]
    /\ answer' = [answer EXCEPT ![t] = None]
    /\ alone' = [alone EXCEPT ![t] = TRUE]
    /\ UNCHANGED <<database, riders, rows, found, doubted, hidden>>

Reply(t) ==
    /\ Goto(t, "answer", "idle")
    /\ call' = [call EXCEPT ![t] = None]
    /\ found' = [found EXCEPT ![t] = FALSE]
    /\ answer' = [answer EXCEPT ![t] = None]
    /\ alone' = [alone EXCEPT ![t] = TRUE]
    /\ UNCHANGED <<database, riders, rows, doubted, hidden>>

-----------------------------------------------------------------------------
(* handleLocationUpdate *)

LookForUpdate(t) ==
    /\ Goto(t, "look", "write")
    /\ call[t].op = "update"
    /\ \E place \in FetchLocationRecord(call[t].user) :
          /\ found' = [found EXCEPT ![t] = place # None]
          /\ IF Misread(call[t].user, place)
             THEN /\ hidden[call[t].user] < MaxHidden
                  /\ hidden' = [hidden EXCEPT ![call[t].user] = @ + 1]
             ELSE UNCHANGED hidden
          /\ NoteMisread(call[t].user, place)
    /\ UNCHANGED <<database, riders, rows, call, answer, alone>>

\* What the rows become by a statement: the compiled database only logs it.
Executed(statement) == IF database = "stub" THEN rows ELSE statement

\* INSERT: the key tells rows apart and nothing else.
Insert(c) ==
    LET key == CHOOSE k \in 1 .. Cardinality(rows) + 1 : \A r \in rows : r.id # k
    IN  rows \cup {[id |-> key, user |-> c.user, at |-> c.at,
                    name |-> IF c.name = None THEN Null ELSE c.name]}

\* Variants: a row more; one of the rows; a name not given is cleared.
UpdateByInserting(c) == Insert(c)
UpdateOne(c) ==
    LET some == CHOOSE r \in RowsOf(c.user) : TRUE
        written == [some EXCEPT !.at = c.at, !.name = IF c.name = None THEN @ ELSE c.name]
    IN  IF RowsOf(c.user) = {} THEN rows ELSE (rows \ {some}) \cup {written}
UpdateClearing(c) ==
    {IF r.user # c.user THEN r
     ELSE [r EXCEPT !.at = c.at, !.name = IF c.name = None THEN Null ELSE c.name] : r \in rows}

\* UPDATE ... WHERE rider_id: every row of the user.
Update(c) ==
    {IF r.user # c.user THEN r
     ELSE [r EXCEPT !.at = c.at, !.name = IF c.name = None THEN @ ELSE c.name] : r \in rows}

Persist(t) ==
    /\ Goto(t, "write", "reload")
    /\ found[t] \/ call[t].user \in riders \/ database = "stub"
    /\ rows' = Executed(IF found[t] THEN Update(call[t]) ELSE Insert(call[t]))
    /\ UNCHANGED <<database, riders, call, found, answer, doubted, hidden, alone>>

\* The statement fails, or the foreign key refuses the row.
FailToPersist(t) ==
    /\ database = "mysql"
    /\ Respond(t, "write", Answer(500, None))
    /\ \/ ~found[t] /\ call[t].user \notin riders /\ UNCHANGED doubted
       \/ DbFaults /\ doubted' = doubted \cup {call[t].user}
    /\ UNCHANGED <<database, riders, rows, call, found, hidden, alone>>

\* Variant: the answer is made of the request.
ReloadNothing(t) ==
    /\ Respond(t, "reload", Answer(IF found[t] THEN 200 ELSE 201,
                                   [at |-> call[t].at, name |-> call[t].name]))
    /\ UNCHANGED <<database, riders, rows, call, found, doubted, hidden, alone>>

Reload(t) ==
    /\ pc[t] = "reload"
    /\ \E place \in FetchLocationRecord(call[t].user) :
          /\ Respond(t, "reload", Answer(IF place = None THEN 500
                                         ELSE IF found[t] THEN 200 ELSE 201, place))
          /\ NoteMisread(call[t].user, place)
    /\ UNCHANGED <<database, riders, rows, call, found, hidden, alone>>

-----------------------------------------------------------------------------
(* handleGetLocationByUserId, handleDeleteLocation, handleFindNearby *)

LookForGet(t) ==
    /\ pc[t] = "look" /\ call[t].op = "get"
    /\ \E place \in FetchLocationRecord(call[t].user) :
          /\ Respond(t, "look", Answer(IF place = None THEN 404 ELSE 200, place))
          /\ NoteMisread(call[t].user, place)
    /\ UNCHANGED <<database, riders, rows, call, found, hidden, alone>>

LookForDelete(t) ==
    /\ pc[t] = "look" /\ call[t].op = "delete"
    /\ \E place \in FetchLocationRecord(call[t].user) :
          /\ IF place = None
             THEN Respond(t, "look", Answer(404, None))
             ELSE Goto(t, "look", "remove") /\ UNCHANGED answer
          /\ NoteMisread(call[t].user, place)
    /\ UNCHANGED <<database, riders, rows, call, found, hidden, alone>>

Remove(t) ==
    /\ \/ /\ Respond(t, "remove", Answer(200, None))
          /\ rows' = Executed(rows \ RowsOf(call[t].user))
          /\ UNCHANGED doubted
       \/ /\ DbFaults
          /\ Respond(t, "remove", Answer(500, None))
          /\ doubted' = doubted \cup {call[t].user}
          /\ UNCHANGED rows
    /\ UNCHANGED <<database, riders, call, found, hidden, alone>>

\* One statement; the role is only repeated in the answer.  When the statement
\* fails the answer is a list of nobody, and 200 as well.
FindNearby(t, centre, radius) ==
    /\ \E seen \in {rows} \cup (IF DbFaults THEN {{}} ELSE {}) :
          Respond(t, "idle", [status |-> 200, found |-> Nearby(seen, centre, radius)])
    /\ UNCHANGED <<database, riders, rows, call, found, doubted, hidden, alone>>

-----------------------------------------------------------------------------
ThreadStep(t) ==
    \/ LookForUpdate(t) \/ Persist(t) \/ FailToPersist(t) \/ Reload(t)
    \/ LookForGet(t) \/ LookForDelete(t) \/ Remove(t)
    \/ Reply(t)

Next ==
    \E t \in Threads :
        \/ ThreadStep(t) \/ Refuse(t)
        \/ \E c \in Call : Accept(t, c)
        \/ \E centre \in Centres, radius \in Radii : FindNearby(t, centre, radius)

Spec == Init /\ [][Next]_vars

-----------------------------------------------------------------------------
(* Properties *)

\* Types; a thread has found a record only while it serves a call.
TypeOK ==
    /\ database \in Databases /\ riders \subseteq Users
    /\ rows \subseteq [id : Nat \ {0}, user : Users, at : Positions, name : Names \cup {Null}]
    /\ pc \in [Threads -> {"idle", "look", "write", "reload", "remove", "answer"}]
    /\ call \in [Threads -> Call \cup {None}]
    /\ found \in [Threads -> BOOLEAN]
    /\ doubted \subseteq Users /\ hidden \in [Users -> 0 .. MaxHidden]
    /\ alone \in [Threads -> BOOLEAN]
    /\ \A t \in Threads : /\ pc[t] \in {"look", "write", "reload", "remove"} => call[t] # None
                          /\ pc[t] = "idle" => call[t] = None /\ ~found[t]

\* A user gets a second row in two ways: from a first update that raced another
\* (the look-up and the INSERT of handleLocationUpdate), or from an update whose
\* look-up failed and was taken for a user without a row.  So there are never
\* more rows of a user, and inserts on their way, than worker threads and failed
\* look-ups of updates together, however long the store is used.
Inserting(u) ==
    {t \in Threads : pc[t] = "write" /\ call[t].user = u /\ ~found[t]}

RowsBounded ==
    \A u \in Users :
        Cardinality(RowsOf(u)) + Cardinality(Inserting(u)) <= Cardinality(Threads) + hidden[u]

\* An update answered as stored, which no other call about the user overlapped,
\* has reached every row of the user, so that whatever row a look-up is given it
\* says what the client was told, also after races and failures made several
\* rows.  It is so of every update answered 200; one answered 201 may have
\* inserted a row beside those a failed look-up hid from it.
UpdateReachesEveryRow ==
    \A t \in Threads :
        pc[t] = "answer" /\ call[t] # None /\ call[t].op = "update" /\ alone[t]
            /\ \/ answer[t].status = 200
               \/ answer[t].status = 201 /\ hidden[call[t].user] = 0
        => \A r \in RowsOf(call[t].user) : r.at = call[t].at /\ answer[t].place.at = r.at

\* The compiled database keeps nothing: no update is ever answered as stored,
\* because handleLocationUpdate reads the row again.
StubStoresNothing ==
    \A t \in Threads :
        database = "stub" /\ pc[t] = "answer" /\ call[t] # None => answer[t].status \in {404, 500}

\* A search finds the places within the radius, the nearest first, and misses
\* only those the width of handleFindNearby's BETWEEN cuts off; round a centre
\* on the equator these are the places across the antimeridian.
SearchExact ==
    \A centre \in Centres, radius \in Radii :
        ExpectedSearch(rows, centre, radius, Nearby(rows, centre, radius))

-----------------------------------------------------------------------------
\* A call that clashed with none takes effect when its last statement that
\* matters has run: an update by its write, whose answer is then settled.
Doubtful(u) == database = "stub" \/ u \in doubted

Settled(t) ==
    CASE call[t] = None -> None
      [] call[t] # None /\ Doubtful(call[t].user) -> Unsure
      [] pc[t] = "reload" /\ ~Doubtful(call[t].user) ->
            Answer(IF found[t] THEN 200 ELSE 201,
                   PlaceOf(CHOOSE r \in RowsOf(call[t].user) : TRUE))
      [] OTHER -> answer[t]

\* The place of a user alone: the one row.
StoredPlace(u) ==
    IF Doubtful(u) THEN Unsure
    ELSE IF RowsOf(u) = {} THEN None
    ELSE PlaceOf(CHOOSE r \in RowsOf(u) : TRUE)

Directory == INSTANCE LocationDirectory WITH
    stored <- [u \in Users |-> StoredPlace(u)],
    calls <- call,
    outcomes <- [t \in Threads |-> Settled(t)]

\* With a real database, LocationManager is a directory: one place per user who
\* is alone, every answer the effect of the calls before it.
IsDirectory == Directory!DirectorySpec
=============================================================================
