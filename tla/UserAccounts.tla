------------------------------ MODULE UserAccounts ------------------------------
(***************************************************************************)
(* UserManager: worker threads that serve the account calls with single    *)
(* statements on the table users, and the tokens they issue.  Tokens are   *)
(* not kept anywhere: whoever has one the secret signed and whose expiry   *)
(* has not passed is logged in.  An orderly stop drops the database.       *)
(***************************************************************************)
EXTENDS UserQueries

CONSTANTS
    Threads,       \* worker threads of the HTTP server
    Usernames, Emails,
    Passwords,     \* passwords; the hash of one stands for it
    Changes,       \* the columns updates name, with their values; None: not named
    Mixes,         \* the account calls clients make and what they do with tokens, and
                   \* whether time passes and the process restarts; one per behaviour
    MaxAccounts,   \* bound: accounts made while a database lives
    Lifetime,      \* seconds a token is valid
    MaxTime,       \* bound: the clock
    MaxRestarts,   \* bound: restarts of the process
    DbFaults,      \* TRUE: a statement may fail, and one that reads finds no row then
    None           \* no row, call, answer, owner, value

Ids == 1 .. MaxAccounts

\* user_id, who it is for (history: the number of the account), expiry.
Token == [subject : Ids, owner : Nat, expiry : Nat]

AccountCalls ==
    [op : {"signup"}, username : Usernames, email : Emails, password : Passwords,
     role : {"rider", "none"}]
        \cup [op : {"login"}, username : Usernames, password : Passwords]
        \cup [op : {"password"}, id : Ids, old : Passwords, new : Passwords]
        \cup [op : {"update"}, id : Ids, change : Changes]
        \cup [op : {"delete"}, id : Ids]

TokenOps == {"me", "refresh", "introspect"}
TokenCalls == [op : TokenOps, token : Token]

ASSUME AccountsAssumption ==
    /\ Changes \subseteq [user_id : Ids \cup {None}, username : Usernames \cup {None},
                          email : Emails \cup {None}, password : Passwords \cup {None}]
    /\ Mixes \subseteq [calls : SUBSET AccountCalls, tokens : SUBSET TokenOps,
                        events : SUBSET {"time", "restart"}]
    /\ MaxAccounts \in Nat /\ Lifetime \in Nat /\ MaxTime \in Nat /\ MaxRestarts \in Nat
    /\ DbFaults \in BOOLEAN
    /\ None \notin Passwords \cup AccountCalls
    /\ None \notin [username : Usernames, email : Emails, password : Passwords]
    /\ None \notin [username : Usernames, email : Emails, password : Passwords, owner : Nat]
    /\ None \notin [status : Nat, id : Nat \cup {None}]

VARIABLES
    mix,         \* the calls clients make, and what else happens
    users,       \* table users, by user_id
    nextId,      \* its AUTO_INCREMENT
    made,        \* history: accounts made since the beginning
    moved,       \* history: accounts an update has given another user_id
    pc, call, answer,
    taken,       \* a signup has found its name or email in the table
    row,         \* the user_id or owner a thread has read and goes on with
    past,        \* history: see AccountDirectory
    tokens,      \* the tokens clients have
    clock,       \* the system clock
    announced,   \* accounts a user_created event was produced for
    restarts,
    dropped,     \* history: accounts made when the database was last dropped
    crashed      \* history: accounts made when the process last crashed

lives == <<restarts, dropped, crashed>>
table == <<users, nextId, made, moved>>
threads == <<pc, call, answer, taken, row, past>>
vars == <<mix, table, threads, tokens, clock, announced, lives>>

Answer(status, id) == [status |-> status, id |-> id]

ThreadsInit ==
    /\ pc = [t \in Threads |-> "idle"]
    /\ call = [t \in Threads |-> None]
    /\ answer = [t \in Threads |-> None]
    /\ taken = [t \in Threads |-> FALSE]
    /\ row = [t \in Threads |-> None]
    /\ past = [t \in Threads |-> {}]

Init ==
    /\ mix \in Mixes
    /\ users = [i \in Ids |-> None]
    /\ nextId = 1
    /\ made = 0
    /\ moved = {}
    /\ ThreadsInit
    /\ tokens = {}
    /\ clock = 0
    /\ announced = {}
    /\ restarts = 0
    /\ dropped = 0
    /\ crashed = 0

PasswordNow(rows, i) == {IF rows[i] = None THEN None ELSE rows[i].password}

Goto(t, from, to) == pc[t] = from /\ pc' = [pc EXCEPT ![t] = to]

Respond(t, from, response) ==
    Goto(t, from, "answer") /\ answer' = [answer EXCEPT ![t] = response]

\* A statement leaves rows behind; what password changes have seen grows.
Write(rows) ==
    /\ users' = rows
    /\ past' = [x \in Threads |->
                  IF call[x] # None /\ call[x].op = "password"
                  THEN past[x] \cup PasswordNow(rows, call[x].id) ELSE past[x]]

-----------------------------------------------------------------------------
(* A call comes and is answered *)

FirstStep(op) ==
    CASE op = "signup" -> "name" [] op = "login" -> "fetch" [] op = "password" -> "read"
      [] op = "update" -> "update" [] op = "delete" -> "delete"
      [] OTHER -> "verify"

Accept(t, c) ==
    /\ c \in mix.calls \/ c.op \in mix.tokens
    /\ Goto(t, "idle", FirstStep(c.op))
    /\ call' = [call EXCEPT ![t] = c]
    /\ past' = [past EXCEPT ![t] = IF c.op = "password" THEN PasswordNow(users, c.id) ELSE {}]
    /\ UNCHANGED <<mix, table, answer, taken, row, tokens, clock, announced, lives>>

\* No JSON, fields missing; logout, which does nothing.
AnswerAtOnce(t, status) ==
    /\ Respond(t, "idle", Answer(status, None))
    /\ UNCHANGED <<mix, table, call, taken, row, past, tokens, clock, announced, lives>>

Reply(t) ==
    /\ Goto(t, "answer", "idle")
    /\ call' = [call EXCEPT ![t] = None]
    /\ answer' = [answer EXCEPT ![t] = None]
    /\ taken' = [taken EXCEPT ![t] = FALSE]
    /\ row' = [row EXCEPT ![t] = None]
    /\ past' = [past EXCEPT ![t] = {}]
    /\ UNCHANGED <<mix, table, tokens, clock, announced, lives>>

-----------------------------------------------------------------------------
(* POST /signup: the availability checks, handleNewUser's, the INSERT, the event *)

Has(field, value) == \E i \in Ids : users[i] # None /\ users[i][field] = value

\* A query that fails finds nothing.
LookFor(t, field, from, to) ==
    /\ Goto(t, from, to)
    /\ \/ taken' = [taken EXCEPT ![t] = @ \/ Has(field, call[t][field])]
       \/ DbFaults /\ UNCHANGED taken
    /\ UNCHANGED <<mix, table, call, answer, row, past, tokens, clock, announced, lives>>

CheckUserAvailability(t) ==
    LookFor(t, "username", "name", "email") \/ LookFor(t, "email", "email", "available")

\* handleNewUser asks again, for the email only when the name is free.
RefuseTaken(t) ==
    /\ pc[t] \in {"available", "email2", "insert"}
    /\ taken[t]
    /\ Respond(t, pc[t], Answer(409, None))
    /\ UNCHANGED <<mix, table, call, taken, row, past, tokens, clock, announced, lives>>

CheckNewUser(t) ==
    /\ ~taken[t]
    /\ LookFor(t, "username", "available", "email2") \/ LookFor(t, "email", "email2", "insert")

\* Variant: no unique keys.
UniqueAlways(c) == c.op = "signup"

\* The unique keys of the table.
Unique(c) == ~Has("username", c.username) /\ ~Has("email", c.email)

\* Variants: a free number, a late one.
FirstFree(next) == CHOOSE i \in Ids : users[i] = None /\ \A j \in 1 .. i - 1 : users[j] # None
NewIdLate(next) == next + 1

NewId(next) == next

AddUserToDB(t) ==
    LET c == call[t]
        id == NewId(nextId)
    IN  /\ pc[t] = "insert" /\ ~taken[t]
        /\ c.role = "rider" /\ Unique(c)
        /\ nextId \in Ids
        /\ Goto(t, "insert", "announce")
        /\ Write([users EXCEPT ![id] = [username |-> c.username, email |-> c.email,
                                        password |-> c.password, owner |-> made + 1]])
        /\ nextId' = nextId + 1
        /\ made' = made + 1
        /\ row' = [row EXCEPT ![t] = made + 1]
        /\ UNCHANGED <<mix, moved, call, answer, taken, tokens, clock, announced, lives>>

\* A role that is none, the unique keys, a statement that fails.
FailToAdd(t) ==
    /\ pc[t] = "insert" /\ ~taken[t]
    /\ call[t].role = "none" \/ ~Unique(call[t]) \/ DbFaults
    /\ Respond(t, "insert", Answer(409, None))
    /\ UNCHANGED <<mix, table, call, taken, row, past, tokens, clock, announced, lives>>

\* Variant: without an event.
AnnounceNothing(t) ==
    /\ Respond(t, "announce", Answer(201, None))
    /\ UNCHANGED <<mix, table, call, taken, row, past, tokens, clock, announced, lives>>

ProduceNewUser(t) ==
    /\ Respond(t, "announce", Answer(201, None))
    /\ announced' = announced \cup {row[t]}
    /\ UNCHANGED <<mix, table, call, taken, row, past, tokens, clock, lives>>

-----------------------------------------------------------------------------
(* POST /login *)

Owners(c) ==
    {i \in Ids : users[i] # None /\ users[i].username = c.username
                    /\ users[i].password = c.password}

\* No such user, a query that fails, another password: all 401.
Login(t) ==
    /\ pc[t] = "fetch"
    /\ \/ /\ Owners(call[t]) = {} \/ DbFaults
          /\ Respond(t, "fetch", Answer(401, None))
          /\ UNCHANGED row
       \/ /\ Goto(t, "fetch", "issue")
          /\ \E i \in Owners(call[t]) :
                row' = [row EXCEPT ![t] = [subject |-> i, owner |-> users[i].owner]]
          /\ UNCHANGED answer
    /\ UNCHANGED <<mix, table, call, taken, past, tokens, clock, announced, lives>>

\* generateToken reads the clock.
GenerateToken(t) ==
    /\ Respond(t, "issue", Answer(200, row[t].subject))
    /\ tokens' = tokens \cup {[subject |-> row[t].subject, owner |-> row[t].owner,
                               expiry |-> clock + Lifetime]}
    /\ UNCHANGED <<mix, table, call, taken, row, past, clock, announced, lives>>

-----------------------------------------------------------------------------
(* PATCH /user/:id/password, PUT and PATCH /user/:id, DELETE /user/:id *)

\* Variant: the password is not compared.
ReadNoPassword(t) ==
    /\ Goto(t, "read", "write")
    /\ UNCHANGED <<mix, table, call, answer, taken, row, past, tokens, clock, announced, lives>>

\* A row that is not found, or not read, has no "password_hash": the exception
\* the conversion throws ends as 500.
ReadPassword(t) ==
    LET i == call[t].id
    IN  /\ pc[t] = "read"
        /\ \/ /\ users[i] = None \/ DbFaults
              /\ Respond(t, "read", Answer(500, None))
           \/ /\ users[i] # None /\ users[i].password # call[t].old
              /\ Respond(t, "read", Answer(400, None))
           \/ /\ users[i] # None /\ users[i].password = call[t].old
              /\ Goto(t, "read", "write")
              /\ UNCHANGED answer
        /\ UNCHANGED <<mix, table, call, taken, row, past, tokens, clock, announced, lives>>

\* An UPDATE of no row succeeds.
UpdateUserPassword(t) ==
    LET c == call[t]
    IN  /\ Respond(t, "write", Answer(200, None))
        /\ Write(IF users[c.id] = None THEN users
                 ELSE [users EXCEPT ![c.id].password = c.new])
        /\ UNCHANGED <<mix, nextId, made, moved, call, taken, row, tokens, clock, announced, lives>>

Value(change, column, old) == IF change[column] = None THEN old ELSE change[column]

Changed(account, change) ==
    [username |-> Value(change, "username", account.username),
     email |-> Value(change, "email", account.email),
     password |-> Value(change, "password", account.password),
     owner |-> account.owner]

\* The primary key and the unique keys against the other rows.
Clash(c) ==
    \E i \in Ids \ {c.id} :
        /\ users[i] # None
        /\ \/ i = c.change.user_id
           \/ users[i].username = c.change.username
           \/ users[i].email = c.change.email

NamesNothing(change) == \A column \in DOMAIN change : change[column] = None

\* The columns are the client's, user_id included; AUTO_INCREMENT stays ahead
\* of it.  SET without a column is no statement, an UPDATE of no row succeeds.
UpdateUserById(t) ==
    LET c == call[t]
        to == Value(c.change, "user_id", c.id)
    IN  /\ pc[t] = "update"
        /\ \/ /\ NamesNothing(c.change) \/ (users[c.id] # None /\ Clash(c))
              /\ Respond(t, "update", Answer(400, None))
              /\ UNCHANGED <<table, past>>
           \/ /\ ~NamesNothing(c.change) /\ users[c.id] = None
              /\ Respond(t, "update", Answer(200, None))
              /\ UNCHANGED <<table, past>>
           \/ /\ ~NamesNothing(c.change) /\ users[c.id] # None /\ ~Clash(c)
              /\ Respond(t, "update", Answer(200, None))
              /\ Write([users EXCEPT ![c.id] = None, ![to] = Changed(users[c.id], c.change)])
              /\ nextId' = IF to < nextId THEN nextId ELSE to + 1
              /\ moved' = IF to = c.id THEN moved ELSE moved \cup {users[c.id].owner}
              /\ UNCHANGED made
        /\ UNCHANGED <<mix, call, taken, row, tokens, clock, announced, lives>>

\* A DELETE of no row succeeds.
DeleteUserById(t) ==
    /\ Respond(t, "delete", Answer(200, None))
    /\ Write([users EXCEPT ![call[t].id] = None])
    /\ UNCHANGED <<mix, nextId, made, moved, call, taken, row, tokens, clock, announced, lives>>

FailStatement(t) ==
    /\ DbFaults
    /\ pc[t] \in {"write", "update", "delete"}
    /\ Respond(t, pc[t], Answer(IF pc[t] = "delete" THEN 404 ELSE 400, None))
    /\ UNCHANGED <<mix, table, call, taken, row, past, tokens, clock, announced, lives>>

-----------------------------------------------------------------------------
(* GET /user/me, POST /user/refresh-token, POST /user/token/introspect *)

\* Variant: the signature is enough, as for extractSubject.
VerifySignature(token) == token.subject \in Ids

VerifyToken(token) == token.expiry >= clock

AfterVerify(op) == IF op = "me" THEN "profile" ELSE "issue"

Verify(t) ==
    LET token == call[t].token
    IN  /\ pc[t] = "verify"
        /\ CASE ~VerifyToken(token) -> Respond(t, "verify", Answer(401, None)) /\ UNCHANGED row
             [] VerifyToken(token) /\ call[t].op = "introspect" ->
                   Respond(t, "verify", Answer(200, token.subject)) /\ UNCHANGED row
             [] OTHER -> /\ Goto(t, "verify", AfterVerify(call[t].op))
                         /\ row' = [row EXCEPT ![t] = [subject |-> token.subject,
                                                       owner |-> token.owner]]
                         /\ UNCHANGED answer
        /\ UNCHANGED <<mix, table, call, taken, past, tokens, clock, announced, lives>>

\* The profile of the subject; null, with status 200, when none is found.
GetMe(t) ==
    LET i == row[t].subject
    IN  /\ pc[t] = "profile"
        /\ \/ /\ users[i] # None
              /\ Respond(t, "profile", Answer(200, users[i].owner))
           \/ /\ users[i] = None \/ DbFaults
              /\ Respond(t, "profile", Answer(200, None))
        /\ UNCHANGED <<mix, table, call, taken, row, past, tokens, clock, announced, lives>>

-----------------------------------------------------------------------------
(* Time and restarts *)

Tick ==
    /\ clock < MaxTime
    /\ "time" \in mix.events
    /\ clock' = clock + 1
    /\ UNCHANGED <<mix, table, threads, tokens, announced, lives>>

\* stopApplication: the server joins its workers and the database is dropped;
\* the secret is the configuration's, and tokens stay with the clients.
StopAndStart ==
    /\ restarts < MaxRestarts /\ "restart" \in mix.events
    /\ \A t \in Threads : pc[t] = "idle"
    /\ restarts' = restarts + 1
    /\ users' = [i \in Ids |-> None]
    /\ nextId' = 1
    /\ dropped' = made
    /\ UNCHANGED <<mix, crashed, made, moved, threads, tokens, clock, announced>>

\* Without stopApplication the database stays.
CrashAndStart ==
    /\ restarts < MaxRestarts /\ "restart" \in mix.events
    /\ restarts' = restarts + 1
    /\ pc' = [t \in Threads |-> "idle"]
    /\ call' = [t \in Threads |-> None]
    /\ answer' = [t \in Threads |-> None]
    /\ taken' = [t \in Threads |-> FALSE]
    /\ row' = [t \in Threads |-> None]
    /\ past' = [t \in Threads |-> {}]
    /\ crashed' = made
    /\ UNCHANGED <<mix, dropped, table, tokens, clock, announced>>

-----------------------------------------------------------------------------
ThreadStep(t) ==
    \/ CheckUserAvailability(t) \/ RefuseTaken(t) \/ CheckNewUser(t)
    \/ AddUserToDB(t) \/ FailToAdd(t) \/ ProduceNewUser(t)
    \/ Login(t) \/ GenerateToken(t)
    \/ ReadPassword(t) \/ UpdateUserPassword(t)
    \/ UpdateUserById(t) \/ DeleteUserById(t) \/ FailStatement(t)
    \/ Verify(t) \/ GetMe(t)
    \/ Reply(t)

Presented == {[op |-> op, token |-> token] : op \in TokenOps, token \in tokens}

Next ==
    \/ \E t \in Threads :
          \/ ThreadStep(t)
          \/ \E c \in AccountCalls \cup Presented : Accept(t, c)
          \/ \E status \in {200, 400} : AnswerAtOnce(t, status)
    \/ Tick \/ StopAndStart \/ CrashAndStart

Spec == Init /\ [][Next]_vars

-----------------------------------------------------------------------------
(* Properties *)

\* Types; the numbers of the table run ahead of its rows.
TypeOK ==
    /\ nextId \in 1 .. MaxAccounts + 1
    /\ \A i \in Ids : users[i] # None => i < nextId /\ users[i].owner \in 1 .. made
    /\ pc \in [Threads -> {"idle", "name", "email", "available", "email2", "insert", "announce",
                           "fetch", "issue", "read", "write", "update", "delete", "verify",
                           "profile", "answer"}]
    /\ taken \in [Threads -> BOOLEAN]
    /\ tokens \subseteq Token
    /\ announced \subseteq 1 .. made /\ moved \subseteq 1 .. made
    /\ clock \in 0 .. MaxTime /\ restarts \in 0 .. MaxRestarts
    /\ dropped \in 0 .. made /\ crashed \in 0 .. made

\* A username and an email belong to one account each, though signups that race
\* pass all four checks together (the INSERT of addUserToDB).
NamesBelongToOneAccount ==
    \A i, j \in Ids :
        i # j /\ users[i] # None /\ users[j] # None =>
            users[i].username # users[j].username /\ users[i].email # users[j].email

\* Every account in the table was announced by a user_created event, or its
\* signup is about to do so, unless a crash came between the INSERT and the event
\* (handleNewUser).
AccountsAnnounced ==
    \A i \in Ids :
        users[i] # None /\ users[i].owner > crashed =>
            \/ users[i].owner \in announced
            \/ \E t \in Threads : pc[t] = "announce" /\ row[t] = users[i].owner

\* Within one life of the database a token shows the profile of the account it
\* was issued to, none, or that of an account an update has moved to the number it
\* names (PUT /user/:id sets any column): AUTO_INCREMENT alone, whatever is deleted,
\* moved and made, brings no other account there (GET /user/me looks the subject
\* up by user_id).
ProfilesAreOwn ==
    \A t \in Threads :
        pc[t] = "answer" /\ call[t] # None /\ call[t].op = "me" /\ answer[t].status = 200
            /\ call[t].token.owner > dropped
        => answer[t].id \in {None, call[t].token.owner} \cup moved

\* A session that has lapsed, the last token of the account expired and none on
\* its way, comes back by a login only: refreshes keep a session up for ever, but
\* cannot revive it (refreshToken verifies first, and reads the clock twice).
Lapsed(owner) ==
    /\ \A token \in tokens : token.owner = owner => token.expiry < clock
    /\ \A t \in Threads : pc[t] = "issue" => row[t].owner # owner

SessionsStayLapsed ==
    [][\A owner \in 1 .. made : Lapsed(owner) /\ ~Lapsed(owner)' =>
          \E t \in Threads : pc[t] = "fetch" /\ pc'[t] = "issue" /\ row'[t].owner = owner]_vars

-----------------------------------------------------------------------------
\* Tokens are not the directory's business.
Outcome(t) ==
    CASE pc[t] = "announce" -> Answer(201, None)
      [] pc[t] = "issue" /\ call[t].op = "login" -> Answer(200, row[t].subject)
      [] taken[t] -> Answer(409, None)
      [] OTHER -> answer[t]

Accounts ==
    [i \in Ids |-> IF users[i] = None THEN None
                   ELSE [username |-> users[i].username, email |-> users[i].email,
                         password |-> users[i].password]]

Serving == [t \in Threads |-> IF call[t] \in AccountCalls THEN call[t] ELSE None]

Outcomes == [t \in Threads |-> IF call[t] \in AccountCalls THEN Outcome(t) ELSE None]

Directory == INSTANCE AccountDirectory WITH
    Calls <- AccountCalls, Faults <- DbFaults,
    accounts <- Accounts, calls <- Serving, outcomes <- Outcomes

\* However calls overlap, UserManager is a directory of accounts: every answer
\* is right at some moment of its call.
IsAccountDirectory == Directory!DirectorySpec

\* However accounts come and go, a walk through the pages shows them, the search
\* finds the names it is asked for, and the queries agree: a fact about inputs, which
\* the first states show (getUsersPaginated, searchUsersByUsername, getUserStats,
\* checkUserAvailability).
QueriesShowAccounts == Init => QueriesAnswer
=============================================================================
