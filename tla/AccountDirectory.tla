---------------------------- MODULE AccountDirectory ----------------------------
(***************************************************************************)
(* What UserManager's account calls promise, however they overlap: names   *)
(* and emails belong to one account, each call takes effect at one moment  *)
(* between its start and its answer.  The exception is the change of a     *)
(* password, which only promises that the old password given was the       *)
(* account's at some moment of the call.                                   *)
(***************************************************************************)
EXTENDS Naturals

CONSTANTS Threads, Ids, Calls, Faults, None

VARIABLES
    accounts,   \* username, email and password of each account, or None
    calls,      \* the call each thread serves, or None
    outcomes,   \* None until the call takes effect, then its answer
    past        \* the passwords (or None) the account a thread's password
                \* change names has had since the call began

directory == <<accounts, calls, outcomes, past>>

Answer(status, id) == [status |-> status, id |-> id]

DirectoryInit ==
    /\ accounts = [i \in Ids |-> None]
    /\ calls = [t \in Threads |-> None]
    /\ outcomes = [t \in Threads |-> None]
    /\ past = [t \in Threads |-> {}]

PasswordsOf(table, i) == {IF table[i] = None THEN None ELSE table[i].password}

Begin(t, c) ==
    /\ calls[t] = None
    /\ calls' = [calls EXCEPT ![t] = c]
    /\ past' = [past EXCEPT ![t] = IF c.op = "password" THEN PasswordsOf(accounts, c.id) ELSE {}]
    /\ UNCHANGED <<accounts, outcomes>>

\* The call of t takes effect: it leaves table behind and will be answered so.
Become(t, table, answer) ==
    /\ accounts' = table
    /\ outcomes' = [outcomes EXCEPT ![t] = answer]
    /\ past' = [x \in Threads |->
                  IF calls[x] # None /\ calls[x].op = "password"
                  THEN past[x] \cup PasswordsOf(table, calls[x].id) ELSE {}]
    /\ UNCHANGED calls

Taken(c, but) ==
    \E i \in Ids \ but : accounts[i] # None
                            /\ (accounts[i].username = c.username \/ accounts[i].email = c.email)

Signup(t, c) ==
    \/ /\ c.role = "none" \/ Taken(c, {})
       /\ Become(t, accounts, Answer(409, None))
    \/ /\ c.role # "none" /\ ~Taken(c, {})
       /\ \E i \in Ids :
             /\ accounts[i] = None
             /\ Become(t, [accounts EXCEPT ![i] = [username |-> c.username, email |-> c.email,
                                                   password |-> c.password]],
                       Answer(201, None))

Owners(c) ==
    {i \in Ids : accounts[i] # None /\ accounts[i].username = c.username
                    /\ accounts[i].password = c.password}

Login(t, c) ==
    \/ \E i \in Owners(c) : Become(t, accounts, Answer(200, i))
    \/ Owners(c) = {} /\ Become(t, accounts, Answer(401, None))

ChangePassword(t, c) ==
    \/ /\ c.old \in past[t]
       /\ Become(t, IF accounts[c.id] = None THEN accounts
                    ELSE [accounts EXCEPT ![c.id].password = c.new], Answer(200, None))
    \/ past[t] \ {c.old, None} # {} /\ Become(t, accounts, Answer(400, None))
    \/ None \in past[t] /\ Become(t, accounts, Answer(500, None))

Set(change, column, old) == IF change[column] = None THEN old ELSE change[column]

Amended(account, change) ==
    [username |-> Set(change, "username", account.username),
     email |-> Set(change, "email", account.email),
     password |-> Set(change, "password", account.password)]

Refused(c) ==
    \E i \in Ids \ {c.id} :
        /\ accounts[i] # None
        /\ \/ i = c.change.user_id
           \/ accounts[i].username = c.change.username \/ accounts[i].email = c.change.email

Empty(change) == \A column \in DOMAIN change : change[column] = None

\* An account that is not there is changed successfully.
Amend(t, c) ==
    \/ /\ Empty(c.change) \/ (accounts[c.id] # None /\ Refused(c))
       /\ Become(t, accounts, Answer(400, None))
    \/ /\ ~Empty(c.change) /\ accounts[c.id] # None /\ ~Refused(c)
       /\ Become(t, [accounts EXCEPT ![c.id] = None,
                                     ![Set(c.change, "user_id", c.id)] =
                                        Amended(accounts[c.id], c.change)],
                 Answer(200, None))
    \/ /\ ~Empty(c.change) /\ accounts[c.id] = None
       /\ Become(t, accounts, Answer(200, None))

\* What a deletion of an account that is not there is answered is left open: the
\* handler and the documentation have 404 for it, the DELETE of no row succeeds.
Delete(t, c) ==
    \E status \in {200} \cup (IF accounts[c.id] = None THEN {404} ELSE {}) :
        Become(t, [accounts EXCEPT ![c.id] = None], Answer(status, None))

\* A statement that fails: so is each call answered then.
FailedAs(op) ==
    CASE op = "signup" -> {409} [] op = "login" -> {401} [] op = "password" -> {400, 500}
      [] op = "update" -> {400} [] OTHER -> {404}

Fail(t, c) ==
    Faults /\ \E status \in FailedAs(c.op) : Become(t, accounts, Answer(status, None))

Serve(t) ==
    /\ calls[t] # None
    /\ outcomes[t] = None
    /\ LET c == calls[t]
       IN  \/ c.op = "signup" /\ Signup(t, c)
           \/ c.op = "login" /\ Login(t, c)
           \/ c.op = "password" /\ ChangePassword(t, c)
           \/ c.op = "update" /\ Amend(t, c)
           \/ c.op = "delete" /\ Delete(t, c)
           \/ Fail(t, c)

Finish(t) ==
    /\ outcomes[t] # None
    /\ calls' = [calls EXCEPT ![t] = None]
    /\ outcomes' = [outcomes EXCEPT ![t] = None]
    /\ past' = [past EXCEPT ![t] = {}]
    /\ UNCHANGED accounts

\* A crash loses the calls, an orderly restart the accounts too.
Restart(table) ==
    /\ table = accounts \/ \A i \in Ids : table[i] = None
    /\ accounts' = table
    /\ calls' = [t \in Threads |-> None]
    /\ outcomes' = [t \in Threads |-> None]
    /\ past' = [t \in Threads |-> {}]

DirectoryNext ==
    \/ \E t \in Threads : Serve(t) \/ Finish(t) \/ \E c \in Calls : Begin(t, c)
    \/ Restart(accounts) \/ Restart([i \in Ids |-> None])

DirectorySpec == DirectoryInit /\ [][DirectoryNext]_directory
=============================================================================
