---------------------------- MODULE UserAccountsProofs ----------------------------
(***************************************************************************)
(* Proofs about UserManager's accounts and tokens, for any number of       *)
(* threads and accounts, any names, passwords and clocks, and any behaviour *)
(* of the database.                                                        *)
(***************************************************************************)
EXTENDS UserAccounts, SetInduction, SequenceTheorems, TLAPS

CallsTo(ops) == {c \in AccountCalls \cup [op : {"me", "refresh", "introspect"}, token : tokens] :
                    c.op \in ops}

Account == [username : Usernames, email : Emails, password : Passwords, owner : Nat]

Bearer == [subject : Ids, owner : Nat]

\* Every step of a call has the call and the locals it works on.
StepsTyped ==
    \A t \in Threads :
        /\ pc[t] = "idle" => call[t] = None
        /\ pc[t] \in {"name", "email", "available", "email2", "insert", "announce"} =>
              call[t] \in CallsTo({"signup"})
        /\ pc[t] = "announce" => row[t] \in 1 .. made
        /\ pc[t] = "fetch" => call[t] \in CallsTo({"login"})
        /\ pc[t] \in {"read", "write"} => call[t] \in CallsTo({"password"})
        /\ pc[t] = "update" => call[t] \in CallsTo({"update"})
        /\ pc[t] = "delete" => call[t] \in CallsTo({"delete"})
        /\ pc[t] = "verify" => call[t] \in CallsTo({"me", "refresh", "introspect"})
        /\ pc[t] = "profile" =>
              /\ call[t] \in CallsTo({"me"})
              /\ row[t] = [subject |-> call[t].token.subject, owner |-> call[t].token.owner]
        /\ pc[t] = "issue" => row[t] \in Bearer

\* The domains of the functions, and rows that are accounts.
TableTyped ==
    /\ users \in [Ids -> Account \cup {None}]
    /\ made \in Nat
    /\ call = [t \in Threads |-> call[t]]
    /\ answer = [t \in Threads |-> answer[t]]
    /\ row = [t \in Threads |-> row[t]]

TypeInv == TypeOK /\ TableTyped /\ StepsTyped

-----------------------------------------------------------------------------
(* Types *)

LEMMA AccountsTypeInit == Init => TypeInv
  BY AccountsAssumption
  DEF Init, ThreadsInit, TypeInv, TypeOK, TableTyped, StepsTyped, Ids

\* A step that only answers a call keeps the types.
LEMMA AnsweringKeepsTypes ==
  ASSUME TypeInv, NEW t \in Threads, pc' = [pc EXCEPT ![t] = "answer"],
         NEW response, answer' = [answer EXCEPT ![t] = response],
         UNCHANGED <<table, call, taken, row, tokens, clock, announced, lives>>
  PROVE  TypeInv'
<1>1. TypeOK'
  BY DEF TypeInv, TypeOK, table, lives
<1>2. TableTyped'
  BY DEF TypeInv, TableTyped, table, lives
<1>3. StepsTyped'
  BY DEF TypeInv, StepsTyped, TypeOK, CallsTo, table, lives
<1> QED
  BY <1>1, <1>2, <1>3 DEF TypeInv

\* A call of a kind goes to the step that serves it.
LEMMA AcceptKeepsTypes ==
  ASSUME TypeInv, NEW t \in Threads, NEW c \in AccountCalls \cup Presented, Accept(t, c)
  PROVE  TypeInv'
<1>1. c \in AccountCalls \cup [op : {"me", "refresh", "introspect"}, token : tokens]
  BY DEF Presented, TokenOps
<1>2. c \in CallsTo({c.op})
  BY <1>1 DEF CallsTo
<1>3. c.op \in {"signup", "login", "password", "update", "delete", "me", "refresh", "introspect"}
  BY <1>1 DEF AccountCalls
<1>4. /\ pc' = [pc EXCEPT ![t] = FirstStep(c.op)]
      /\ call' = [call EXCEPT ![t] = c]
      /\ UNCHANGED <<users, nextId, made, moved, answer, taken, row, tokens, clock,
                     announced, restarts, dropped, crashed>>
  BY DEF Accept, Goto, table, lives
<1>5. TypeOK'
  BY <1>3, <1>4 DEF TypeInv, TypeOK, FirstStep
<1>6. TableTyped'
  BY <1>4 DEF TypeInv, TableTyped
<1>7. ASSUME NEW u \in Threads, u # t
      PROVE  pc'[u] = pc[u] /\ call'[u] = call[u]
  BY <1>4, <1>7 DEF TypeInv, TableTyped, TypeOK
<1>8. pc'[t] = FirstStep(c.op) /\ call'[t] = c
  BY <1>4 DEF TypeInv, TableTyped, TypeOK
<1>9. StepsTyped'
  BY <1>2, <1>3, <1>4, <1>7, <1>8 DEF TypeInv, StepsTyped, FirstStep, CallsTo
<1> QED
  BY <1>5, <1>6, <1>9 DEF TypeInv

\* An answered call leaves nothing behind.
LEMMA ReplyKeepsTypes ==
  ASSUME TypeInv, NEW t \in Threads, Reply(t)
  PROVE  TypeInv'
<1> USE DEF Reply, Goto
<1>1. TypeOK'
  BY AccountsAssumption DEF TypeInv, TypeOK, TableTyped, StepsTyped, table, lives
<1>2. TableTyped'
  BY DEF TypeInv, TypeOK, TableTyped, StepsTyped, table, lives
<1>3. StepsTyped'
  BY ZenonT(40) DEF TypeInv, TypeOK, TableTyped, StepsTyped, CallsTo, table, lives
<1> QED
  BY <1>1, <1>2, <1>3 DEF TypeInv

\* A signup looks for its name or its email.
LEMMA LookingKeepsTypes ==
  ASSUME TypeInv, NEW t \in Threads, NEW field, NEW from \in {"name", "email", "available", "email2"},
         NEW to \in {"email", "available", "email2", "insert"}, LookFor(t, field, from, to)
  PROVE  TypeInv'
<1> USE DEF LookFor, Goto
<1>1. TypeOK'
  BY AccountsAssumption DEF TypeInv, TypeOK, TableTyped, StepsTyped, table, lives
<1>2. TableTyped'
  BY DEF TypeInv, TypeOK, TableTyped, StepsTyped, table, lives
<1>3. StepsTyped'
  BY DEF TypeInv, TypeOK, TableTyped, StepsTyped, CallsTo, table, lives
<1> QED
  BY <1>1, <1>2, <1>3 DEF TypeInv

\* The fields of a call, by its kind.
LEMMA FieldsOfCalls ==
  /\ \A c \in CallsTo({"signup"}) :
        c.username \in Usernames /\ c.email \in Emails /\ c.password \in Passwords
  /\ \A c \in CallsTo({"password"}) : c.id \in Ids /\ c.new \in Passwords
  /\ \A c \in CallsTo({"update"}) : c.id \in Ids /\ c.change \in Changes
  /\ \A c \in CallsTo({"delete"}) : c.id \in Ids
  /\ \A c \in CallsTo({"me", "refresh", "introspect"}) : c.token \in tokens
  /\ \A c \in CallsTo({"me"}) : c.op = "me"
<1>1. \A c \in CallsTo({"signup"}) :
          c.username \in Usernames /\ c.email \in Emails /\ c.password \in Passwords
  BY DEF CallsTo, AccountCalls
<1>2. \A c \in CallsTo({"password"}) : c.id \in Ids /\ c.new \in Passwords
  BY DEF CallsTo, AccountCalls
<1>3. \A c \in CallsTo({"update"}) : c.id \in Ids /\ c.change \in Changes
  BY DEF CallsTo, AccountCalls
<1>4. \A c \in CallsTo({"delete"}) : c.id \in Ids
  BY DEF CallsTo, AccountCalls
<1>5. ASSUME NEW c \in CallsTo({"me", "refresh", "introspect"})
      PROVE  c.token \in tokens
  <2>1. c.op \in {"me", "refresh", "introspect"}
    BY DEF CallsTo
  <2>2. \A d \in AccountCalls : d.op \in {"signup", "login", "password", "update", "delete"}
    BY DEF AccountCalls
  <2>3. c \in [op : {"me", "refresh", "introspect"}, token : tokens]
    BY <2>1, <2>2 DEF CallsTo
  <2> QED
    BY <2>3
<1>6. \A c \in CallsTo({"me"}) : c.op = "me"
  BY DEF CallsTo
<1> QED
  BY <1>1, <1>2, <1>3, <1>4, <1>5, <1>6

\* The INSERT of a signup adds an account, numbered next.
LEMMA AddingKeepsTypes ==
  ASSUME TypeInv, NEW t \in Threads, AddUserToDB(t)
  PROVE  TypeInv'
<1> DEFINE c == call[t]
           new == [username |-> c.username, email |-> c.email, password |-> c.password,
                   owner |-> made + 1]
<1>1. made \in Nat /\ made' = made + 1 /\ nextId \in Ids /\ nextId' = nextId + 1
  BY DEF AddUserToDB, TypeInv, TableTyped
<1>2. new \in Account
  <2>1. c \in CallsTo({"signup"})
    BY DEF AddUserToDB, TypeInv, StepsTyped
  <2>2. c.username \in Usernames /\ c.email \in Emails /\ c.password \in Passwords
    BY <2>1, FieldsOfCalls
  <2> QED
    BY <1>1, <2>2 DEF Account
<1>3. users' = [users EXCEPT ![nextId] = new]
  BY DEF AddUserToDB, Write, NewId
<1>4. /\ pc[t] = "insert" /\ pc' = [pc EXCEPT ![t] = "announce"]
      /\ row' = [row EXCEPT ![t] = made + 1]
      /\ UNCHANGED <<moved, call, answer, taken, tokens, clock, announced, restarts,
                     dropped, crashed>>
  BY DEF AddUserToDB, Goto, lives
<1>5. TypeOK'
  <2>1. \A i \in Ids : users'[i] # None => i < nextId' /\ users'[i].owner \in 1 .. made'
    BY <1>1, <1>2, <1>3, AccountsAssumption, SMTT(30)
    DEF TypeInv, TypeOK, TableTyped, Ids, Account
  <2>2. nextId' \in 1 .. MaxAccounts + 1
    BY <1>1, AccountsAssumption DEF Ids
  <2> QED
    BY <1>1, <1>4, <2>1, <2>2 DEF TypeInv, TypeOK
<1>6. TableTyped'
  BY <1>1, <1>2, <1>3, <1>4 DEF TypeInv, TableTyped
<1>7. StepsTyped'
  BY <1>1, <1>4 DEF TypeInv, StepsTyped, TypeOK, TableTyped, CallsTo
<1> QED
  BY <1>5, <1>6, <1>7 DEF TypeInv

\* A statement that writes a field of an account or removes one keeps the types.
LEMMA WritingKeepsTypes ==
  ASSUME TypeInv, NEW t \in Threads, NEW i \in Ids, NEW account \in Account \cup {None},
         account # None => users[i] # None /\ account.owner = users[i].owner,
         users' = [users EXCEPT ![i] = account],
         pc' = [pc EXCEPT ![t] = "answer"],
         NEW response, answer' = [answer EXCEPT ![t] = response],
         UNCHANGED <<nextId, made, moved, call, taken, row, tokens, clock, announced, lives>>
  PROVE  TypeInv'
<1>1. TypeOK'
  BY DEF TypeInv, TypeOK, TableTyped, lives
<1>2. TableTyped'
  BY DEF TypeInv, TableTyped, lives
<1>3. StepsTyped'
  BY DEF TypeInv, StepsTyped, TypeOK, CallsTo, lives
<1> QED
  BY <1>1, <1>2, <1>3 DEF TypeInv

\* The event of a signup is of the account it made.
LEMMA AnnouncingKeepsTypes ==
  ASSUME TypeInv, NEW t \in Threads, ProduceNewUser(t)
  PROVE  TypeInv'
<1> USE DEF ProduceNewUser, Respond, Goto
<1>1. TypeOK'
  BY AccountsAssumption DEF TypeInv, TypeOK, TableTyped, StepsTyped, table, lives
<1>2. TableTyped'
  BY DEF TypeInv, TypeOK, TableTyped, StepsTyped, table, lives
<1>3. StepsTyped'
  BY DEF TypeInv, TypeOK, TableTyped, StepsTyped, CallsTo, table, lives
<1> QED
  BY <1>1, <1>2, <1>3 DEF TypeInv

\* A login finds an account of the table.
LEMMA LoginKeepsTypes ==
  ASSUME TypeInv, NEW t \in Threads, Login(t)
  PROVE  TypeInv'
<1> USE DEF Login, Respond, Goto, Owners, Bearer, Account
<1>1. TypeOK'
  BY AccountsAssumption DEF TypeInv, TypeOK, TableTyped, StepsTyped, table, lives
<1>2. TableTyped'
  BY DEF TypeInv, TypeOK, TableTyped, StepsTyped, table, lives
<1>3. StepsTyped'
  BY DEF TypeInv, TypeOK, TableTyped, StepsTyped, CallsTo, table, lives
<1> QED
  BY <1>1, <1>2, <1>3 DEF TypeInv

\* A token is issued to who was found.
LEMMA IssuingKeepsTypes ==
  ASSUME TypeInv, NEW t \in Threads, GenerateToken(t)
  PROVE  TypeInv'
<1> USE DEF GenerateToken, Respond, Goto, Bearer, Token
<1>1. TypeOK'
  BY AccountsAssumption DEF TypeInv, TypeOK, TableTyped, StepsTyped, table, lives
<1>2. TableTyped'
  BY DEF TypeInv, TypeOK, TableTyped, StepsTyped, table, lives
<1>3. StepsTyped'
  BY DEF TypeInv, TypeOK, TableTyped, StepsTyped, CallsTo, table, lives
<1> QED
  BY <1>1, <1>2, <1>3 DEF TypeInv

\* The hash is read.
LEMMA ReadingKeepsTypes ==
  ASSUME TypeInv, NEW t \in Threads, ReadPassword(t)
  PROVE  TypeInv'
<1> USE DEF ReadPassword, Respond, Goto
<1>1. TypeOK'
  BY AccountsAssumption DEF TypeInv, TypeOK, TableTyped, StepsTyped, table, lives
<1>2. TableTyped'
  BY DEF TypeInv, TypeOK, TableTyped, StepsTyped, table, lives
<1>3. StepsTyped'
  BY DEF TypeInv, TypeOK, TableTyped, StepsTyped, CallsTo, table, lives
<1> QED
  BY <1>1, <1>2, <1>3 DEF TypeInv

\* A password change writes a password.
LEMMA PasswordKeepsTypes ==
  ASSUME TypeInv, NEW t \in Threads, UpdateUserPassword(t)
  PROVE  TypeInv'
<1> DEFINE c == call[t]
<1>1. c.id \in Ids /\ c.new \in Passwords
  BY FieldsOfCalls DEF UpdateUserPassword, Respond, Goto, TypeInv, StepsTyped
<1>2. /\ pc' = [pc EXCEPT ![t] = "answer"]
      /\ answer' = [answer EXCEPT ![t] = Answer(200, None)]
      /\ UNCHANGED <<nextId, made, moved, call, taken, row, tokens, clock, announced, lives>>
  BY DEF UpdateUserPassword, Respond, Goto
<1>3. CASE users[c.id] = None
  <2>1. users' = users
    BY <1>3 DEF UpdateUserPassword, Write
  <2> QED
    BY <1>2, <2>1, AnsweringKeepsTypes DEF table
<1>4. CASE users[c.id] # None
  <2> DEFINE changed == [users[c.id] EXCEPT !.password = c.new]
  <2>1. users[c.id] \in Account
    BY <1>1, <1>4 DEF TypeInv, TableTyped
  <2>2. changed \in Account /\ changed.owner = users[c.id].owner
    BY <1>1, <2>1 DEF Account
  <2>3. users' = [users EXCEPT ![c.id] = changed]
    BY <1>4 DEF UpdateUserPassword, Write
  <2> QED
    BY <1>1, <1>2, <1>4, <2>2, <2>3, WritingKeepsTypes
<1> QED
  BY <1>3, <1>4

\* An update leaves the table alone, or finds its row, changes it, and may move it to
\* a number that is free.
Moves(id, to, account) ==
    /\ users[id] # None /\ (to = id \/ users[to] = None)
    /\ account.owner = users[id].owner
    /\ users' = [users EXCEPT ![id] = None, ![to] = account]
    /\ nextId' = IF to < nextId THEN nextId ELSE to + 1
    /\ moved' = IF to = id THEN moved ELSE moved \cup {users[id].owner}
    /\ UNCHANGED made

LEMMA ChangedAccount ==
  ASSUME NEW account \in Account, NEW change \in Changes
  PROVE  Changed(account, change) \in Account
<1>1. change \in [user_id : Ids \cup {None}, username : Usernames \cup {None},
                  email : Emails \cup {None}, password : Passwords \cup {None}]
  BY AccountsAssumption
<1>2. /\ Value(change, "username", account.username) \in Usernames
      /\ Value(change, "email", account.email) \in Emails
      /\ Value(change, "password", account.password) \in Passwords
  BY <1>1 DEF Value, Account
<1> QED
  BY <1>2 DEF Changed, Account

LEMMA UpdateMoves ==
  ASSUME TypeInv, NEW t \in Threads, UpdateUserById(t)
  PROVE  LET c == call[t]
             to == Value(c.change, "user_id", c.id)
         IN  /\ c.id \in Ids /\ to \in Ids
             /\ \/ UNCHANGED <<users, nextId, made, moved>>
                \/ /\ ~Clash(c)
                   /\ Changed(users[c.id], c.change) \in Account
                   /\ Moves(c.id, to, Changed(users[c.id], c.change))
<1> DEFINE c == call[t]
           to == Value(c.change, "user_id", c.id)
           account == Changed(users[c.id], c.change)
<1>1. c.id \in Ids /\ c.change \in Changes
  BY FieldsOfCalls DEF UpdateUserById, TypeInv, StepsTyped
<1>2. c.change.user_id \in Ids \cup {None}
  BY <1>1, AccountsAssumption
<1>3. to \in Ids
  BY <1>1, <1>2 DEF Value
<1>4. \/ UNCHANGED <<users, nextId, made, moved>>
      \/ /\ users[c.id] # None /\ ~Clash(c)
         /\ users' = [users EXCEPT ![c.id] = None, ![to] = account]
         /\ nextId' = IF to < nextId THEN nextId ELSE to + 1
         /\ moved' = IF to = c.id THEN moved ELSE moved \cup {users[c.id].owner}
         /\ UNCHANGED made
  BY DEF UpdateUserById, Write, table
<1>5. CASE UNCHANGED <<users, nextId, made, moved>>
  BY <1>1, <1>3, <1>5
<1>6. CASE ~UNCHANGED <<users, nextId, made, moved>>
  <2>1. users[c.id] \in Account
    BY <1>1, <1>4, <1>6 DEF TypeInv, TableTyped
  <2>2. account \in Account /\ account.owner = users[c.id].owner
    BY <1>1, <2>1, ChangedAccount DEF Changed
  <2>3. to = c.id \/ users[to] = None
    BY <1>3, <1>4, <1>6 DEF Clash, Value
  <2> QED
    BY <1>1, <1>3, <1>4, <1>6, <2>2, <2>3 DEF Moves
<1> QED
  BY <1>5, <1>6

LEMMA UpdateKeepsTypes ==
  ASSUME TypeInv, NEW t \in Threads, UpdateUserById(t)
  PROVE  TypeInv'
<1> DEFINE c == call[t]
           to == Value(c.change, "user_id", c.id)
           account == Changed(users[c.id], c.change)
<1>1. /\ UNCHANGED <<call, taken, row, tokens, clock, announced, lives>>
      /\ pc' = [pc EXCEPT ![t] = "answer"]
      /\ \E status : answer' = [answer EXCEPT ![t] = Answer(status, None)]
  BY DEF UpdateUserById, Respond, Goto
<1>2. CASE UNCHANGED <<users, nextId, made, moved>>
  BY <1>1, <1>2, AnsweringKeepsTypes DEF table
<1>3. CASE ~UNCHANGED <<users, nextId, made, moved>>
  <2>1. /\ c.id \in Ids /\ to \in Ids /\ account \in Account
        /\ Moves(c.id, to, account)
    BY <1>3, UpdateMoves
  <2>2. /\ nextId \in 1 .. MaxAccounts + 1 /\ made \in Nat /\ made' = made
        /\ nextId' \in 1 .. MaxAccounts + 1 /\ nextId' >= nextId /\ to < nextId'
    BY <2>1, AccountsAssumption DEF Moves, TypeInv, TypeOK, TableTyped, Ids
  <2>3. users[c.id].owner \in 1 .. made
    BY <2>1 DEF Moves, TypeInv, TypeOK
  <2>4. ASSUME NEW i \in Ids, users'[i] # None
        PROVE  i < nextId' /\ users'[i].owner \in 1 .. made'
    <3>1. CASE i = to
      BY <2>1, <2>2, <2>3, <3>1 DEF Moves, TypeInv, TableTyped
    <3>2. CASE i # to
      <4>1. users'[i] = users[i]
        BY <2>1, <2>4, <3>2 DEF Moves, TypeInv, TableTyped
      <4>2. i < nextId /\ users[i].owner \in 1 .. made
        BY <2>4, <4>1 DEF TypeInv, TypeOK
      <4> QED
        BY <2>2, <4>1, <4>2 DEF Ids
    <3> QED
      BY <3>1, <3>2
  <2>5. moved' \subseteq 1 .. made'
    BY <2>1, <2>2, <2>3 DEF Moves, TypeInv, TypeOK
  <2>6. TypeOK'
    BY <1>1, <2>2, <2>4, <2>5 DEF TypeInv, TypeOK, lives
  <2>7. TableTyped'
    BY <1>1, <2>1, <2>2 DEF Moves, TypeInv, TableTyped
  <2>8. StepsTyped'
    BY <1>1, <2>2 DEF TypeInv, StepsTyped, TypeOK, CallsTo
  <2> QED
    BY <2>6, <2>7, <2>8 DEF TypeInv
<1> QED
  BY <1>2, <1>3

\* A deletion leaves no account.
LEMMA DeletingKeepsTypes ==
  ASSUME TypeInv, NEW t \in Threads, DeleteUserById(t)
  PROVE  TypeInv'
<1> USE DEF DeleteUserById, Respond, Goto, Write, AccountCalls
<1>1. TypeOK'
  BY AccountsAssumption DEF TypeInv, TypeOK, TableTyped, StepsTyped, table, lives
<1>2. TableTyped'
  BY DEF TypeInv, TypeOK, TableTyped, StepsTyped, table, lives
<1>3. StepsTyped'
  BY DEF TypeInv, TypeOK, TableTyped, StepsTyped, CallsTo, table, lives
<1> QED
  BY <1>1, <1>2, <1>3 DEF TypeInv

\* A token that is valid is who it is for.
LEMMA VerifyingKeepsTypes ==
  ASSUME TypeInv, NEW t \in Threads, Verify(t)
  PROVE  TypeInv'
<1> USE DEF Verify, Respond, Goto, AfterVerify, Bearer, Token, AccountCalls
<1>1. TypeOK'
  BY AccountsAssumption DEF TypeInv, TypeOK, TableTyped, StepsTyped, table, lives
<1>2. TableTyped'
  BY DEF TypeInv, TypeOK, TableTyped, StepsTyped, table, lives
<1>3. StepsTyped'
  BY DEF TypeInv, TypeOK, TableTyped, StepsTyped, CallsTo, table, lives
<1> QED
  BY <1>1, <1>2, <1>3 DEF TypeInv

\* Time and restarts keep the types.
LEMMA LivesKeepTypes ==
  ASSUME TypeInv, Tick \/ StopAndStart \/ CrashAndStart
  PROVE  TypeInv'
<1> USE AccountsAssumption DEF TypeInv, TypeOK, TableTyped, StepsTyped, table, threads, lives
<1>1. CASE Tick
  BY <1>1 DEF Tick, CallsTo
<1>2. CASE StopAndStart
  BY <1>2 DEF StopAndStart, CallsTo, Ids
<1>3. CASE CrashAndStart
  BY <1>3 DEF CrashAndStart, CallsTo
<1> QED
  BY <1>1, <1>2, <1>3

LEMMA AccountsTypeStep == TypeInv /\ [Next]_vars => TypeInv'
<1> SUFFICES ASSUME TypeInv, [Next]_vars PROVE TypeInv'
  OBVIOUS
<1>1. ASSUME NEW t \in Threads, ThreadStep(t) PROVE TypeInv'
  <2>1. CASE CheckUserAvailability(t) \/ CheckNewUser(t)
    BY <2>1, LookingKeepsTypes DEF CheckUserAvailability, CheckNewUser
  <2>2. CASE RefuseTaken(t) \/ FailToAdd(t)
    BY <2>2, AnsweringKeepsTypes DEF RefuseTaken, FailToAdd, Respond, Goto, table
  <2>3. CASE FailStatement(t) \/ GetMe(t)
    BY <2>3, AnsweringKeepsTypes DEF FailStatement, GetMe, Respond, Goto, table
  <2>4. CASE AddUserToDB(t) \/ ProduceNewUser(t)
    BY <2>4, AddingKeepsTypes, AnnouncingKeepsTypes
  <2>5. CASE Login(t) \/ GenerateToken(t) \/ Verify(t)
    BY <2>5, LoginKeepsTypes, IssuingKeepsTypes, VerifyingKeepsTypes
  <2>6. CASE ReadPassword(t) \/ UpdateUserPassword(t)
    BY <2>6, ReadingKeepsTypes, PasswordKeepsTypes
  <2>7. CASE UpdateUserById(t) \/ DeleteUserById(t) \/ Reply(t)
    BY <2>7, UpdateKeepsTypes, DeletingKeepsTypes, ReplyKeepsTypes
  <2> QED
    BY <1>1, <2>1, <2>2, <2>3, <2>4, <2>5, <2>6, <2>7 DEF ThreadStep
<1>2. ASSUME NEW t \in Threads, NEW c \in AccountCalls \cup Presented, Accept(t, c)
      PROVE  TypeInv'
  BY <1>2, AcceptKeepsTypes
<1>3. ASSUME NEW t \in Threads, NEW status \in {200, 400}, AnswerAtOnce(t, status)
      PROVE  TypeInv'
  BY <1>3, AnsweringKeepsTypes DEF AnswerAtOnce, Respond, Goto, table
<1>4. CASE Tick \/ StopAndStart \/ CrashAndStart
  BY <1>4, LivesKeepTypes
<1>5. CASE UNCHANGED vars
  BY <1>5
  DEF TypeInv, TypeOK, TableTyped, StepsTyped, CallsTo, vars, table, threads, lives
<1> QED
  BY <1>1, <1>2, <1>3, <1>4, <1>5 DEF Next

LEMMA AccountsTyping == Spec => []TypeInv
  BY AccountsTypeInit, AccountsTypeStep, PTL DEF Spec

\* Every step of every call finds what it works on, and the numbers of the table
\* run ahead of its rows.
THEOREM AccountsTypeCorrect == Spec => []TypeOK
<1>1. TypeInv => TypeOK
  BY DEF TypeInv
<1> QED
  BY <1>1, AccountsTyping, PTL
-----------------------------------------------------------------------------
(* What steps leave alone *)

\* A thread's step is its own.
ThreadActs(t) ==
    \/ ThreadStep(t)
    \/ \E c \in AccountCalls \cup Presented : Accept(t, c)
    \/ \E status \in {200, 400} : AnswerAtOnce(t, status)

LEMMA OthersWait ==
  ASSUME TypeInv, NEW t \in Threads, ThreadActs(t), NEW u \in Threads, u # t
  PROVE  /\ pc'[u] = pc[u] /\ call'[u] = call[u]
         /\ row'[u] = row[u] /\ answer'[u] = answer[u]
<1>1. /\ \E to : pc' = [pc EXCEPT ![t] = to]
      /\ call' = call \/ \E c : call' = [call EXCEPT ![t] = c]
      /\ row' = row \/ \E r : row' = [row EXCEPT ![t] = r]
      /\ answer' = answer \/ \E a : answer' = [answer EXCEPT ![t] = a]
  <2>1. CASE ThreadStep(t)
    <3>1. CASE CheckUserAvailability(t) \/ CheckNewUser(t) \/ RefuseTaken(t) \/ FailToAdd(t)
      BY <3>1 DEF CheckUserAvailability, CheckNewUser, LookFor, RefuseTaken, FailToAdd,
                  Respond, Goto
    <3>2. CASE AddUserToDB(t) \/ ProduceNewUser(t) \/ GenerateToken(t) \/ Login(t)
      BY <3>2 DEF AddUserToDB, ProduceNewUser, GenerateToken, Login, Respond, Goto
    <3>3. CASE ReadPassword(t) \/ UpdateUserPassword(t)
      BY <3>3 DEF ReadPassword, UpdateUserPassword, Respond, Goto
    <3>4. CASE UpdateUserById(t) \/ DeleteUserById(t) \/ FailStatement(t)
      BY <3>4 DEF UpdateUserById, DeleteUserById, FailStatement, Respond, Goto
    <3>5. CASE Verify(t) \/ GetMe(t) \/ Reply(t)
      BY <3>5 DEF Verify, GetMe, Reply, Respond, Goto
    <3> QED
      BY <2>1, <3>1, <3>2, <3>3, <3>4, <3>5 DEF ThreadStep
  <2>2. CASE \E c \in AccountCalls \cup Presented : Accept(t, c)
    BY <2>2 DEF Accept, Goto
  <2>3. CASE \E status \in {200, 400} : AnswerAtOnce(t, status)
    BY <2>3 DEF AnswerAtOnce, Respond, Goto
  <2> QED
    BY <2>1, <2>2, <2>3 DEF ThreadActs
<1> QED
  BY <1>1 DEF TypeInv, TypeOK, TableTyped

\* The calls that write the table are four.
LEMMA WhoWrites ==
  ASSUME NEW t \in Threads, ThreadActs(t)
  PROVE  \/ UNCHANGED <<users, nextId, made, moved>>
         \/ AddUserToDB(t) \/ UpdateUserPassword(t)
         \/ UpdateUserById(t) \/ DeleteUserById(t)
  BY DEF ThreadActs, ThreadStep, CheckUserAvailability, CheckNewUser, LookFor, RefuseTaken,
         FailToAdd, ProduceNewUser, GenerateToken, Login, ReadPassword, FailStatement,
         Verify, GetMe, Reply, Accept, AnswerAtOnce, table

\* A step is a thread's, the clock's, or a restart.
LEMMA NextByActor ==
  ASSUME [Next]_vars
  PROVE  \/ \E t \in Threads : ThreadActs(t)
         \/ Tick \/ StopAndStart \/ CrashAndStart \/ UNCHANGED vars
  BY DEF Next, ThreadActs

\* Where a thread stands changes nobody's life.
LEMMA ThreadsKeepLives ==
  ASSUME NEW t \in Threads, ThreadActs(t)
  PROVE  UNCHANGED <<restarts, dropped, crashed, clock>>
  BY DEF ThreadActs, ThreadStep, CheckUserAvailability, CheckNewUser, LookFor, RefuseTaken,
         FailToAdd, AddUserToDB, ProduceNewUser, GenerateToken, Login, ReadPassword,
         UpdateUserPassword, UpdateUserById, DeleteUserById, FailStatement,
         Verify, GetMe, Reply, Accept, AnswerAtOnce, lives

\* What a statement of a call leaves of each account: a row that is there afterwards
\* was there, with its owner, or is one that was moved, or the one just made.
LEMMA AccountsStay ==
  ASSUME TypeInv, NEW t \in Threads, ThreadActs(t), NEW i \in Ids, users'[i] # None
  PROVE  \/ AddUserToDB(t) /\ i = nextId /\ users'[i].owner = made + 1
         \/ \E j \in Ids : /\ users[j] # None /\ users'[i].owner = users[j].owner
                           /\ i = j \/ users[j].owner \in moved'
<1>1. CASE UNCHANGED <<users, nextId, made, moved>>
  BY <1>1
<1>2. CASE AddUserToDB(t)
  BY <1>2 DEF AddUserToDB, Write, NewId, TypeInv, TableTyped
<1>3. CASE UpdateUserPassword(t)
  <2>1. call[t].id \in Ids
    BY <1>3, FieldsOfCalls DEF UpdateUserPassword, Respond, Goto, TypeInv, StepsTyped
  <2>2. \/ users' = users
        \/ /\ users[call[t].id] # None
           /\ users' = [users EXCEPT ![call[t].id].password = call[t].new]
    BY <1>3 DEF UpdateUserPassword, Write
  <2>3. users[i] # None /\ users'[i].owner = users[i].owner
    BY <2>1, <2>2 DEF TypeInv, TableTyped, Account
  <2> QED
    BY <2>3
<1>4. CASE UpdateUserById(t) /\ ~UNCHANGED <<users, nextId, made, moved>>
  <2> DEFINE c == call[t]
             to == Value(c.change, "user_id", c.id)
             account == Changed(users[c.id], c.change)
  <2>1. c.id \in Ids /\ to \in Ids /\ account \in Account /\ Moves(c.id, to, account)
    BY <1>4, UpdateMoves
  <2> QED
    BY <2>1, SMTT(30) DEF Moves, TypeInv, TableTyped
<1>5. CASE DeleteUserById(t)
  BY <1>5 DEF DeleteUserById, Write, TypeInv, TableTyped
<1> QED
  BY <1>1, <1>2, <1>3, <1>4, <1>5, WhoWrites

LEMMA MovedStay ==
  ASSUME TypeInv, NEW t \in Threads, ThreadActs(t)
  PROVE  moved \subseteq moved'
<1>1. CASE UpdateUserById(t)
  BY <1>1, UpdateMoves DEF Moves
<1>2. CASE AddUserToDB(t) \/ UpdateUserPassword(t) \/ DeleteUserById(t)
  BY <1>2 DEF AddUserToDB, UpdateUserPassword, DeleteUserById
<1> QED
  BY <1>1, <1>2, WhoWrites

-----------------------------------------------------------------------------
(* Names *)

LEMMA NamesInit == Init => NamesBelongToOneAccount
  BY DEF Init, NamesBelongToOneAccount

LEMMA NamesStep == TypeInv /\ NamesBelongToOneAccount /\ [Next]_vars => NamesBelongToOneAccount'
<1> SUFFICES ASSUME TypeInv, NamesBelongToOneAccount, [Next]_vars
             PROVE  NamesBelongToOneAccount'
  OBVIOUS
<1> USE DEF NamesBelongToOneAccount
<1>1. ASSUME NEW t \in Threads, ThreadActs(t) PROVE NamesBelongToOneAccount'
  <2> DEFINE c == call[t]
  <2>1. CASE AddUserToDB(t)
    BY <2>1 DEF AddUserToDB, Write, NewId, Unique, Has, TypeInv, TableTyped
  <2>2. CASE UpdateUserPassword(t)
    <3>1. c.id \in Ids
      BY <2>2, FieldsOfCalls DEF UpdateUserPassword, Respond, Goto, TypeInv, StepsTyped
    <3>2. \/ users' = users
          \/ users[c.id] # None /\ users' = [users EXCEPT ![c.id].password = c.new]
      BY <2>2 DEF UpdateUserPassword, Write
    <3> QED
      BY <3>1, <3>2 DEF TypeInv, TableTyped, Account
  <2>3. CASE UpdateUserById(t)
    <3> DEFINE to == Value(c.change, "user_id", c.id)
               account == Changed(users[c.id], c.change)
    <3>1. CASE UNCHANGED <<users, nextId, made, moved>>
      BY <3>1
    <3>2. CASE ~UNCHANGED <<users, nextId, made, moved>>
      <4>1. /\ c.id \in Ids /\ to \in Ids /\ ~Clash(c)
            /\ account \in Account /\ Moves(c.id, to, account)
        BY <2>3, <3>2, UpdateMoves
      <4>2. c.change \in Changes /\ users[c.id] \in Account
        BY <2>3, <4>1, FieldsOfCalls
        DEF Moves, UpdateUserById, TypeInv, StepsTyped, TableTyped
      <4>3. ASSUME NEW i \in Ids \ {c.id}, users[i] # None
            PROVE  users[i].username # account.username /\ users[i].email # account.email
        <5>1. /\ account.username = Value(c.change, "username", users[c.id].username)
              /\ account.email = Value(c.change, "email", users[c.id].email)
          BY DEF Changed
        <5>2. /\ users[i].username # users[c.id].username
              /\ users[i].email # users[c.id].email
          BY <4>1, <4>3 DEF Moves
        <5>3. /\ users[i].username # c.change.username
              /\ users[i].email # c.change.email
          BY <4>1, <4>3 DEF Clash
        <5> QED
          BY <5>1, <5>2, <5>3 DEF Value
      <4>4. users' = [users EXCEPT ![c.id] = None, ![to] = account]
        BY <4>1 DEF Moves
      <4> QED
        BY <4>1, <4>3, <4>4, SMTT(30) DEF TypeInv, TableTyped
    <3> QED
      BY <3>1, <3>2
  <2>4. CASE DeleteUserById(t)
    BY <2>4 DEF DeleteUserById, Write, TypeInv, TableTyped
  <2> QED
    BY <1>1, <2>1, <2>2, <2>3, <2>4, WhoWrites
<1>2. CASE StopAndStart
  BY <1>2 DEF StopAndStart
<1>3. CASE Tick \/ CrashAndStart \/ UNCHANGED vars
  BY <1>3 DEF Tick, CrashAndStart, vars, table
<1> QED
  BY <1>1, <1>2, <1>3, NextByActor

\* However signups and updates race, a username and an email belong to one account.
THEOREM NamesStayApart == Spec => []NamesBelongToOneAccount
  BY NamesInit, NamesStep, AccountsTyping, PTL DEF Spec

-----------------------------------------------------------------------------
(* Announcements *)

LEMMA AnnouncedInit == Init => AccountsAnnounced
  BY DEF Init, AccountsAnnounced

LEMMA AnnouncedStep == TypeInv /\ AccountsAnnounced /\ [Next]_vars => AccountsAnnounced'
<1> SUFFICES ASSUME TypeInv, AccountsAnnounced, [Next]_vars, NEW i \in Ids,
                    users'[i] # None, users'[i].owner > crashed'
             PROVE  \/ users'[i].owner \in announced'
                    \/ \E t \in Threads : pc'[t] = "announce" /\ row'[t] = users'[i].owner
  BY DEF AccountsAnnounced
<1>1. ASSUME NEW t \in Threads, ThreadActs(t)
      PROVE  \/ users'[i].owner \in announced'
             \/ \E u \in Threads : pc'[u] = "announce" /\ row'[u] = users'[i].owner
  <2>1. CASE AddUserToDB(t) /\ i = nextId /\ users'[i].owner = made + 1
    <3>1. pc'[t] = "announce" /\ row'[t] = made + 1
      BY <2>1 DEF AddUserToDB, Goto, TypeInv, TypeOK, TableTyped
    <3> QED
      BY <2>1, <3>1
  <2>2. CASE \E j \in Ids : users[j] # None /\ users'[i].owner = users[j].owner
    <3> PICK j \in Ids : users[j] # None /\ users'[i].owner = users[j].owner
      BY <2>2
    <3>1. \/ users[j].owner \in announced
          \/ \E u \in Threads : pc[u] = "announce" /\ row[u] = users[j].owner
      BY <1>1, <2>2, ThreadsKeepLives DEF AccountsAnnounced
    <3>2. announced \subseteq announced'
      BY <1>1 DEF ThreadActs, ThreadStep, CheckUserAvailability, CheckNewUser, LookFor,
                  RefuseTaken, FailToAdd, AddUserToDB, ProduceNewUser, GenerateToken, Login,
                  ReadPassword, UpdateUserPassword, UpdateUserById, DeleteUserById,
                  FailStatement, Verify, GetMe, Reply, Accept, AnswerAtOnce
    <3>3. ASSUME NEW u \in Threads, pc[u] = "announce", row[u] = users[j].owner
          PROVE  \/ users'[i].owner \in announced'
                 \/ \E v \in Threads : pc'[v] = "announce" /\ row'[v] = users'[i].owner
      <4>1. CASE u # t
        BY <1>1, <2>2, <3>3, <4>1, OthersWait
      <4>2. CASE u = t
        <5>1. ProduceNewUser(t)
          BY <1>1, <3>3, <4>2
          DEF ThreadActs, ThreadStep, CheckUserAvailability, CheckNewUser, LookFor,
              RefuseTaken, FailToAdd, AddUserToDB, GenerateToken, Login,
              ReadPassword, UpdateUserPassword, UpdateUserById, DeleteUserById,
              FailStatement, Verify, GetMe, Reply, Accept, AnswerAtOnce, Goto, Respond
        <5> QED
          BY <2>2, <3>3, <4>2, <5>1, SMTT(30) DEF ProduceNewUser
      <4> QED
        BY <4>1, <4>2
    <3> QED
      BY <2>2, <3>1, <3>2, <3>3
  <2> QED
    BY <1>1, <2>1, <2>2, AccountsStay
<1>2. CASE StopAndStart
  BY <1>2 DEF StopAndStart
<1>3. CASE CrashAndStart
  <2>1. users'[i].owner <= crashed'
    BY <1>3 DEF CrashAndStart, table, TypeInv, TypeOK, TableTyped
  <2>2. users'[i].owner \in Nat /\ crashed' \in Nat
    BY <1>3 DEF CrashAndStart, table, TypeInv, TypeOK, TableTyped
  <2> QED
    BY <2>1, <2>2
<1>4. CASE Tick \/ UNCHANGED vars
  BY <1>4 DEF Tick, vars, table, threads, lives, AccountsAnnounced
<1> QED
  BY <1>1, <1>2, <1>3, <1>4, NextByActor

\* Every account is announced, or about to be, unless a crash came in between.
THEOREM AccountsGetAnnounced == Spec => []AccountsAnnounced
  BY AnnouncedInit, AnnouncedStep, AccountsTyping, PTL DEF Spec

-----------------------------------------------------------------------------
(* Profiles *)

\* Numbers are not given twice while a database lives: who has one's number is its
\* owner, or an account that was moved, or nobody.
Identified(bearer) ==
    /\ bearer.owner <= made
    /\ bearer.owner > dropped =>
          /\ bearer.subject < nextId
          /\ users[bearer.subject] # None =>
                users[bearer.subject].owner \in {bearer.owner} \cup moved

OwnersInv ==
    /\ \A token \in tokens : Identified(token)
    /\ \A t \in Threads : pc[t] = "issue" =>
          Identified(row[t]) /\ call[t] \in CallsTo({"login", "refresh"})

LEMMA OwnersInit == Init => OwnersInv
  BY DEF Init, ThreadsInit, OwnersInv

\* Rows come and go, and a number still tells whose it is.
LEMMA NumbersStay ==
  ASSUME TypeInv, [Next]_vars, NEW bearer, bearer.subject \in Ids, bearer.owner \in Nat,
         Identified(bearer)
  PROVE  Identified(bearer)'
<1>0. nextId \in Int /\ made \in Nat /\ dropped \in Nat
  BY DEF TypeInv, TypeOK, TableTyped
<1>1. ASSUME NEW t \in Threads, ThreadActs(t) PROVE Identified(bearer)'
  <2>1. dropped' = dropped
    BY <1>1, ThreadsKeepLives
  <2>2. nextId' >= nextId /\ made' >= made /\ nextId' \in Int /\ made' \in Nat
    <3>1. CASE UpdateUserById(t)
      <4>1. /\ Value(call[t].change, "user_id", call[t].id) \in Ids
            /\ made' = made
            /\ \/ nextId' = nextId
               \/ nextId' = IF Value(call[t].change, "user_id", call[t].id) < nextId THEN nextId
                            ELSE Value(call[t].change, "user_id", call[t].id) + 1
        BY <3>1, UpdateMoves DEF Moves
      <4> QED
        BY <1>0, <4>1 DEF Ids
    <3>2. CASE ~UpdateUserById(t)
      <4>1. \/ nextId' = nextId /\ made' = made
            \/ nextId' = nextId + 1 /\ made' = made + 1
        BY <1>1, <3>2, WhoWrites DEF AddUserToDB, UpdateUserPassword, DeleteUserById
      <4> QED
        BY <1>0, <4>1
    <3> QED
      BY <3>1, <3>2
  <2>3. CASE users'[bearer.subject] # None
    <3>1. ASSUME bearer.owner > dropped
          PROVE  users'[bearer.subject].owner \in {bearer.owner} \cup moved'
      <4>1. bearer.subject # nextId
        BY <1>0, <3>1 DEF Identified, Ids
      <4>2. PICK j \in Ids : /\ users[j] # None /\ users'[bearer.subject].owner = users[j].owner
                             /\ bearer.subject = j \/ users[j].owner \in moved'
        BY <1>1, <2>3, <4>1, AccountsStay
      <4>3. moved \subseteq moved'
        BY <1>1, MovedStay
      <4> QED
        BY <3>1, <4>2, <4>3 DEF Identified
    <3> QED
      BY <1>0, <2>1, <2>2, <3>1 DEF Identified, Ids
  <2>4. CASE users'[bearer.subject] = None
    BY <1>0, <2>1, <2>2, <2>4 DEF Identified, Ids
  <2> QED
    BY <2>3, <2>4
<1>2. CASE StopAndStart
  BY <1>0, <1>2 DEF StopAndStart, Identified
<1>3. CASE Tick \/ CrashAndStart \/ UNCHANGED vars
  BY <1>3 DEF Tick, CrashAndStart, vars, table, lives, Identified
<1> QED
  BY <1>1, <1>2, <1>3, NextByActor

\* Who comes to the step that issues a token, and how tokens come.
LEMMA WhoIssues ==
  ASSUME TypeInv, NEW t \in Threads, ThreadActs(t)
  PROVE  /\ pc'[t] = "issue" => Login(t) \/ Verify(t)
         /\ tokens' # tokens => GenerateToken(t)
<1> USE DEF TypeInv, TypeOK
<1>1. CASE ThreadStep(t)
  BY <1>1
  DEF ThreadStep, CheckUserAvailability, CheckNewUser, LookFor, RefuseTaken, FailToAdd,
      AddUserToDB, ProduceNewUser, GenerateToken, ReadPassword, UpdateUserPassword,
      UpdateUserById, DeleteUserById, FailStatement, Verify, Login, GetMe, Reply,
      Goto, Respond
<1>2. CASE \E c \in AccountCalls \cup Presented : Accept(t, c)
  BY <1>2 DEF Accept, Goto, FirstStep
<1>3. CASE \E status \in {200, 400} : AnswerAtOnce(t, status)
  BY <1>3 DEF AnswerAtOnce, Goto, Respond
<1> QED
  BY <1>1, <1>2, <1>3, SMTT(30) DEF ThreadActs

\* A token is for the account the login found, or for that of the token shown.
LEMMA IssuedRow ==
  ASSUME TypeInv, OwnersInv, NEW t \in Threads, Login(t) \/ Verify(t), pc'[t] = "issue"
  PROVE  /\ row'[t] \in Bearer /\ Identified(row'[t])
         /\ call'[t] \in CallsTo({"login", "refresh"})'
         /\ \/ Login(t) /\ pc[t] = "fetch"
            \/ \E token \in tokens : VerifyToken(token) /\ token.owner = row'[t].owner
<1>1. CASE Login(t)
  <2>1. call[t] \in CallsTo({"login"}) /\ call' = call /\ tokens' = tokens /\ pc[t] = "fetch"
    BY <1>1 DEF Login, TypeInv, StepsTyped
  <2>2. PICK i \in Ids : /\ users[i] # None
                         /\ row'[t] = [subject |-> i, owner |-> users[i].owner]
    BY <1>1, <2>1 DEF Login, Respond, Goto, Owners, TypeInv, TypeOK, TableTyped
  <2>3. users[i].owner \in 1 .. made /\ i < nextId
    BY <2>2 DEF TypeInv, TypeOK
  <2>4. made \in Nat
    BY DEF TypeInv, TableTyped
  <2>5. row'[t] \in Bearer /\ Identified(row'[t])
    BY <2>2, <2>3, <2>4 DEF Bearer, Identified
  <2>6. call'[t] \in CallsTo({"login", "refresh"})'
    BY <2>1 DEF CallsTo
  <2> QED
    BY <1>1, <2>1, <2>5, <2>6
<1>2. CASE Verify(t)
  <2> DEFINE token == call[t].token
  <2>1. call[t] \in CallsTo({"me", "refresh", "introspect"}) /\ call' = call /\ tokens' = tokens
    BY <1>2 DEF Verify, TypeInv, StepsTyped
  <2>2. token \in tokens /\ token \in Token
    BY <2>1, FieldsOfCalls DEF TypeInv, TypeOK
  <2>3. /\ VerifyToken(token) /\ call[t].op # "introspect"
        /\ pc' = [pc EXCEPT ![t] = AfterVerify(call[t].op)]
        /\ row' = [row EXCEPT ![t] = [subject |-> token.subject, owner |-> token.owner]]
    BY <1>2 DEF Verify, Respond, Goto, TypeInv, TypeOK
  <2>4. call[t].op # "me" /\ row'[t] = [subject |-> token.subject, owner |-> token.owner]
    BY <2>3 DEF AfterVerify, TypeInv, TypeOK, TableTyped
  <2>5. row'[t] \in Bearer /\ Identified(row'[t])
    BY <2>2, <2>4 DEF Bearer, Token, OwnersInv, Identified
  <2>6. call'[t] \in CallsTo({"login", "refresh"})'
    BY <2>1, <2>3, <2>4 DEF CallsTo
  <2> QED
    BY <2>2, <2>3, <2>4, <2>5, <2>6
<1> QED
  BY <1>1, <1>2

LEMMA OwnersStep == TypeInv /\ OwnersInv /\ [Next]_vars => OwnersInv'
<1> SUFFICES ASSUME TypeInv, OwnersInv, [Next]_vars PROVE OwnersInv'
  OBVIOUS
<1>1. \A token \in tokens : Identified(token)'
  BY NumbersStay DEF OwnersInv, Token, TypeInv, TypeOK
<1>2. ASSUME NEW bearer \in Bearer, Identified(bearer) PROVE Identified(bearer)'
  BY <1>2, NumbersStay DEF Bearer
<1>3. ASSUME NEW t \in Threads, pc[t] = "issue" PROVE row[t] \in Bearer /\ Identified(row[t])
  BY <1>3 DEF TypeInv, StepsTyped, OwnersInv
<1>4. ASSUME NEW t \in Threads, ThreadActs(t) PROVE OwnersInv'
  <2>1. ASSUME NEW token \in tokens' PROVE Identified(token)'
    <3>1. CASE token \in tokens
      BY <1>1, <3>1
    <3>2. CASE token \notin tokens
      <4>1. /\ pc[t] = "issue"
            /\ token.subject = row[t].subject /\ token.owner = row[t].owner
        BY <1>4, <2>1, <3>2, WhoIssues DEF GenerateToken, Respond, Goto
      <4>2. row' = row
        BY <1>4, <2>1, <3>2, WhoIssues DEF GenerateToken
      <4>3. Identified(row[t])'
        BY <1>2, <1>3, <4>1, <4>2 DEF Identified
      <4> QED
        BY <4>1, <4>2, <4>3 DEF Identified
    <3> QED
      BY <3>1, <3>2
  <2>2. ASSUME NEW u \in Threads, pc'[u] = "issue"
        PROVE  Identified(row[u])' /\ call'[u] \in CallsTo({"login", "refresh"})'
    <3>1. CASE u = t
      <4>1. Login(t) \/ Verify(t)
        BY <1>4, <2>2, <3>1, WhoIssues
      <4>2. row'[t] \in Bearer /\ Identified(row'[t]) /\ call'[t] \in CallsTo({"login", "refresh"})'
        BY <2>2, <3>1, <4>1, IssuedRow
      <4> DEFINE bearer == row'[t]
      <4>3. /\ made' = made /\ dropped' = dropped /\ nextId' = nextId
            /\ users' = users /\ moved' = moved
        BY <4>1 DEF Login, Verify, table, lives
      <4> QED
        BY <3>1, <4>2, <4>3 DEF Identified
    <3>2. CASE u # t
      <4>1. pc[u] = "issue" /\ row'[u] = row[u] /\ call'[u] = call[u]
        BY <1>4, <2>2, <3>2, OthersWait
      <4>2. Identified(row[u])'
        BY <1>2, <1>3, <4>1 DEF Identified
      <4>3. call[u] \in CallsTo({"login", "refresh"})
        BY <4>1 DEF OwnersInv
      <4>4. tokens \subseteq tokens'
        BY <1>4, WhoIssues DEF GenerateToken
      <4>5. call'[u] \in CallsTo({"login", "refresh"})'
        BY <4>1, <4>3, <4>4 DEF CallsTo
      <4> QED
        BY <4>2, <4>5
    <3> QED
      BY <3>1, <3>2
  <2> QED
    BY <2>1, <2>2 DEF OwnersInv
<1>5. CASE CrashAndStart
  BY <1>1, <1>5 DEF CrashAndStart, OwnersInv
<1>6. CASE StopAndStart
  BY <1>1, <1>6 DEF StopAndStart, threads, OwnersInv
<1>7. CASE Tick \/ UNCHANGED vars
  BY <1>7 DEF Tick, vars, table, threads, lives, OwnersInv, Identified, CallsTo
<1> QED
  BY <1>4, <1>5, <1>6, <1>7, NextByActor

LEMMA AccountsOwners == Spec => []OwnersInv
  BY OwnersInit, OwnersStep, AccountsTyping, PTL DEF Spec

LEMMA ProfilesInit == Init => ProfilesAreOwn
  BY DEF Init, ThreadsInit, ProfilesAreOwn

LEMMA ProfilesStep == TypeInv /\ OwnersInv /\ ProfilesAreOwn /\ [Next]_vars => ProfilesAreOwn'
<1> SUFFICES ASSUME TypeInv, OwnersInv, ProfilesAreOwn, [Next]_vars PROVE ProfilesAreOwn'
  OBVIOUS
<1>1. ASSUME NEW t \in Threads, ThreadActs(t) PROVE ProfilesAreOwn'
  <2> SUFFICES ASSUME NEW u \in Threads, pc'[u] = "answer", call'[u] # None,
                      call'[u].op = "me", answer'[u].status = 200,
                      call'[u].token.owner > dropped'
               PROVE  answer'[u].id \in {None, call'[u].token.owner} \cup moved'
    BY DEF ProfilesAreOwn
  <2>1. dropped' = dropped
    BY <1>1, ThreadsKeepLives
  <2>2. CASE u # t
    BY <1>1, <2>1, <2>2, OthersWait, MovedStay DEF ProfilesAreOwn
  <2>3. CASE u = t
    <3>1. GetMe(t)
      <4> USE DEF Respond, Goto, Answer, TypeInv, TypeOK, TableTyped, StepsTyped
      <4>1. ~(CheckUserAvailability(t) \/ CheckNewUser(t) \/ Reply(t) \/ AddUserToDB(t))
        BY <2>3 DEF CheckUserAvailability, CheckNewUser, LookFor, Reply, AddUserToDB
      <4>2. ~(RefuseTaken(t) \/ FailToAdd(t) \/ ProduceNewUser(t))
        BY <2>3 DEF RefuseTaken, FailToAdd, ProduceNewUser, CallsTo
      <4>3. ~(GenerateToken(t) \/ Login(t))
        BY <2>3 DEF GenerateToken, Login, CallsTo, OwnersInv
      <4>4. ~(ReadPassword(t) \/ UpdateUserPassword(t) \/ UpdateUserById(t))
        BY <2>3 DEF ReadPassword, UpdateUserPassword, UpdateUserById, CallsTo
      <4>5. ~(DeleteUserById(t) \/ FailStatement(t))
        BY <2>3 DEF DeleteUserById, FailStatement, CallsTo
      <4>6. ~Verify(t)
        BY <2>3 DEF Verify, AfterVerify
      <4>7. ~ \E c \in AccountCalls \cup Presented : Accept(t, c)
        BY <2>3 DEF Accept, FirstStep
      <4>8. ~ \E status \in {200, 400} : AnswerAtOnce(t, status)
        BY <2>3 DEF AnswerAtOnce
      <4> QED
        BY <1>1, <4>1, <4>2, <4>3, <4>4, <4>5, <4>6, <4>7, <4>8 DEF ThreadActs, ThreadStep
    <3> DEFINE token == call[t].token
    <3>2. /\ pc[t] = "profile" /\ call' = call
          /\ row[t] = [subject |-> token.subject, owner |-> token.owner]
          /\ call[t] \in CallsTo({"me"})
      BY <3>1 DEF GetMe, Respond, Goto, TypeInv, StepsTyped
    <3>3. token \in tokens
      BY <3>2, FieldsOfCalls DEF CallsTo
    <3>4. Identified(token)
      BY <3>3 DEF OwnersInv
    <3>5. /\ moved' = moved
          /\ \/ answer'[t].id = None
             \/ /\ users[token.subject] # None
                /\ answer'[t].id = users[token.subject].owner
      BY <3>1, <3>2 DEF GetMe, Respond, Answer, TypeInv, TableTyped, table
    <3> QED
      BY <2>1, <2>3, <3>2, <3>4, <3>5 DEF Identified
  <2> QED
    BY <2>2, <2>3
<1>2. CASE StopAndStart
  BY <1>2 DEF StopAndStart, threads, ProfilesAreOwn
<1>3. CASE CrashAndStart
  BY <1>3 DEF CrashAndStart, ProfilesAreOwn
<1>4. CASE Tick \/ UNCHANGED vars
  BY <1>4 DEF Tick, vars, table, threads, lives, ProfilesAreOwn
<1> QED
  BY <1>1, <1>2, <1>3, <1>4, NextByActor

\* Within one life of the database, a token shows its own account's profile, none, or
\* that of an account an update has moved.
THEOREM ProfilesStayOwn == Spec => []ProfilesAreOwn
  BY ProfilesInit, ProfilesStep, AccountsTyping, AccountsOwners, PTL DEF Spec

-----------------------------------------------------------------------------
(* Sessions *)

\* What is lapsed comes back by a login only.
LEMMA LapsedStep ==
  TypeInv /\ OwnersInv /\ [Next]_vars =>
     [\A owner \in 1 .. made : Lapsed(owner) /\ ~Lapsed(owner)' =>
          \E t \in Threads : pc[t] = "fetch" /\ pc'[t] = "issue" /\ row'[t].owner = owner]_vars
<1> SUFFICES ASSUME TypeInv, OwnersInv, [Next]_vars, NEW owner \in 1 .. made,
                    Lapsed(owner), ~Lapsed(owner)'
             PROVE  \E t \in Threads :
                       pc[t] = "fetch" /\ pc'[t] = "issue" /\ row'[t].owner = owner
  OBVIOUS
<1>0. clock \in Int /\ tokens \subseteq Token
  BY DEF TypeInv, TypeOK
<1>1. PICK t \in Threads : ThreadActs(t)
  <2>1. ~Tick
    BY <1>0 DEF Tick, threads, Lapsed, Token
  <2>2. ~StopAndStart
    BY DEF StopAndStart, threads, Lapsed
  <2>3. ~CrashAndStart
    BY DEF CrashAndStart, Lapsed
  <2>4. ~UNCHANGED vars
    BY DEF vars, threads, Lapsed
  <2> QED
    BY <2>1, <2>2, <2>3, <2>4, NextByActor
<1>2. clock' = clock
  BY <1>1, ThreadsKeepLives
<1>3. tokens' = tokens
  <2> SUFFICES ASSUME tokens' # tokens PROVE FALSE
    OBVIOUS
  <2>1. GenerateToken(t)
    BY <1>1, WhoIssues
  <2>2. row[t].owner # owner
    BY <2>1 DEF GenerateToken, Respond, Goto, Lapsed
  <2>3. pc' = [pc EXCEPT ![t] = "answer"] /\ row' = row
    BY <2>1 DEF GenerateToken, Respond, Goto
  <2>4. \A token \in tokens' : token \in tokens \/ token.owner = row[t].owner
    BY <2>1 DEF GenerateToken
  <2> QED
    BY <1>2, <2>2, <2>3, <2>4 DEF Lapsed, TypeInv, TypeOK
<1>4. PICK u \in Threads : pc'[u] = "issue" /\ row'[u].owner = owner
  BY <1>2, <1>3 DEF Lapsed
<1>5. u = t
  BY <1>1, <1>4, OthersWait DEF Lapsed
<1>6. Login(t) \/ Verify(t)
  BY <1>1, <1>4, <1>5, WhoIssues
<1>7. \A token \in tokens : token.owner = owner => ~VerifyToken(token)
  BY <1>0 DEF Lapsed, VerifyToken, Token
<1>8. pc[t] = "fetch"
  BY <1>4, <1>5, <1>6, <1>7, IssuedRow
<1> QED
  BY <1>4, <1>5, <1>8

\* Refreshing cannot revive a session that has lapsed.
THEOREM LapsedStaysLapsed == Spec => SessionsStayLapsed
<1>1. TypeInv /\ OwnersInv /\ [Next]_vars =>
         [\A owner \in 1 .. made : Lapsed(owner) /\ ~Lapsed(owner)' =>
             \E t \in Threads : pc[t] = "fetch" /\ pc'[t] = "issue" /\ row'[t].owner = owner]_vars
  BY LapsedStep
<1> QED
  BY <1>1, AccountsTyping, AccountsOwners, PTL DEF Spec, SessionsStayLapsed

-----------------------------------------------------------------------------
(* The directory of accounts *)

\* What the table shows of a row, and of all of them.
Shown(r) ==
    IF r = None THEN None
    ELSE [username |-> r.username, email |-> r.email, password |-> r.password]

TableShown(rows) == [i \in Ids |-> Shown(rows[i])]

Table == [Ids -> Account \cup {None}]

\* What a call has come to: which step may have found its signup refused, what a
\* change of password has seen, and when there is an answer.
CallInv(t) ==
    /\ call[t] # None =>
          call[t] \in AccountCalls \/ call[t].op \in {"me", "refresh", "introspect"}
    /\ IF call[t] # None /\ call[t].op = "password"
       THEN PasswordNow(users, call[t].id) \subseteq past[t] ELSE past[t] = {}
    /\ pc[t] = "write" => call[t].old \in past[t]
    /\ taken[t] => /\ pc[t] \in {"email", "available", "email2", "insert", "answer"}
                   /\ call[t] \in AccountCalls /\ call[t].op = "signup"
    /\ taken[t] /\ pc[t] = "answer" => answer[t] = Answer(409, None)
    /\ pc[t] = "answer" <=> answer[t] # None

CallsInv ==
    /\ past = [t \in Threads |-> past[t]]
    /\ \A t \in Threads : CallInv(t)

LEMMA ShownRows ==
  ASSUME NEW rows \in Table, NEW i \in Ids
  PROVE  /\ TableShown(rows)[i] = Shown(rows[i])
         /\ Shown(rows[i]) = None <=> rows[i] = None
         /\ rows[i] # None =>
               /\ Shown(rows[i]).username = rows[i].username
               /\ Shown(rows[i]).email = rows[i].email
               /\ Shown(rows[i]).password = rows[i].password
               /\ rows[i].password \in Passwords /\ rows[i].password # None
<1>1. rows[i] # None =>
         Shown(rows[i]) \in [username : Usernames, email : Emails, password : Passwords]
  BY DEF Table, Shown, Account
<1>2. TableShown(rows)[i] = Shown(rows[i])
  BY DEF TableShown
<1>3. Shown(rows[i]) = None <=> rows[i] = None
  BY <1>1, AccountsAssumption DEF Shown
<1>4. rows[i] # None => rows[i].password \in Passwords /\ rows[i].password # None
  BY AccountsAssumption DEF Table, Account
<1> QED
  BY <1>2, <1>3, <1>4 DEF Shown

LEMMA TableIsShown == Accounts = TableShown(users)
  BY DEF Accounts, TableShown, Shown

LEMMA TableIsShownNext == Accounts' = TableShown(users')
  BY DEF Accounts, TableShown, Shown

LEMMA PasswordsShown ==
  ASSUME NEW rows \in Table, NEW i \in Ids
  PROVE  Directory!PasswordsOf(TableShown(rows), i) = PasswordNow(rows, i)
  BY ShownRows DEF Directory!PasswordsOf, PasswordNow

\* An account's row changes, and what is shown of it.
LEMMA ShownChange ==
  ASSUME NEW rows \in Table, NEW i \in Ids, NEW r
  PROVE  TableShown([rows EXCEPT ![i] = r]) = [TableShown(rows) EXCEPT ![i] = Shown(r)]
<1> DEFINE new == [rows EXCEPT ![i] = r]
<1>1. \A j \in Ids : new[j] = IF j = i THEN r ELSE rows[j]
  BY DEF Table
<1> HIDE DEF new
<1>2. \A j \in Ids : Shown(new[j]) = IF j = i THEN Shown(r) ELSE Shown(rows[j])
  BY <1>1
<1>3. TableShown(new) = [j \in Ids |-> IF j = i THEN Shown(r) ELSE Shown(rows[j])]
  BY <1>2 DEF TableShown
<1>4. [TableShown(rows) EXCEPT ![i] = Shown(r)]
         = [j \in Ids |-> IF j = i THEN Shown(r) ELSE Shown(rows[j])]
  BY DEF TableShown
<1> QED
  BY <1>3, <1>4 DEF new

LEMMA CallKinds ==
  /\ \A c \in AccountCalls : c # None
        /\ c.op \in {"signup", "login", "password", "update", "delete"}
  /\ \A ops \in SUBSET {"signup", "login", "password", "update", "delete"} :
        \A c \in CallsTo(ops) : c \in AccountCalls /\ c.op \in ops
  /\ \A ops \in SUBSET {"me", "refresh", "introspect"} :
        \A c \in CallsTo(ops) : c \notin AccountCalls /\ c.op \in ops
  /\ \A c \in Presented : c \notin AccountCalls /\ c.op \in {"me", "refresh", "introspect"}
<1>1. \A c \in AccountCalls : c.op \in {"signup", "login", "password", "update", "delete"}
  BY DEF AccountCalls
<1>2. \A c \in AccountCalls : c # None
  BY AccountsAssumption
<1>3. \A c \in [op : {"me", "refresh", "introspect"}, token : tokens] :
         c.op \in {"me", "refresh", "introspect"}
  OBVIOUS
<1>4. \A c \in Presented : c.op \in {"me", "refresh", "introspect"}
  BY DEF Presented, TokenOps
<1>5. \A ops \in SUBSET {"signup", "login", "password", "update", "delete"} :
        \A c \in CallsTo(ops) : c \in AccountCalls /\ c.op \in ops
  BY <1>3 DEF CallsTo
<1>6. \A ops \in SUBSET {"me", "refresh", "introspect"} :
        \A c \in CallsTo(ops) : c \notin AccountCalls /\ c.op \in ops
  BY <1>1 DEF CallsTo
<1> QED
  BY <1>1, <1>2, <1>4, <1>5, <1>6

LEMMA AnswersAreSome ==
  ASSUME NEW status \in Nat, NEW id \in Nat \cup {None}
  PROVE  Answer(status, id) # None
  BY AccountsAssumption DEF Answer

LEMMA RefusalsAreSome ==
  \A status \in {200, 201, 400, 401, 404, 409, 500} : Answer(status, None) # None
<1> SUFFICES ASSUME NEW status \in {200, 201, 400, 401, 404, 409, 500}
             PROVE  Answer(status, None) # None
  OBVIOUS
<1>1. status \in Nat
  OBVIOUS
<1> QED
  BY <1>1, AccountsAssumption DEF Answer

\* What the step of a thread does to the rest of the state it shares.
LEMMA SharedStep ==
  ASSUME TypeInv, NEW t \in Threads, ThreadActs(t)
  PROVE  /\ taken' = taken \/ \E b : taken' = [taken EXCEPT ![t] = b]
         /\ \/ Write(users') /\ call' = call
            \/ /\ users' = users
               /\ past' = past \/ \E p : past' = [past EXCEPT ![t] = p]
  <1> USE DEF LookFor
  <1>1. CASE AddUserToDB(t)
    BY <1>1 DEF AddUserToDB, Write
  <1>2. CASE UpdateUserPassword(t)
    BY <1>2 DEF UpdateUserPassword, Write
  <1>3. CASE UpdateUserById(t)
    <2>1. /\ taken' = taken /\ call' = call
          /\ (\E rows : Write(rows)) \/ (users' = users /\ past' = past)
      BY <1>3 DEF UpdateUserById, table
    <2> QED
      BY <2>1 DEF Write
  <1>4. CASE DeleteUserById(t)
    BY <1>4 DEF DeleteUserById, Write
  <1>5. CASE ThreadStep(t) /\ ~(AddUserToDB(t) \/ UpdateUserPassword(t)
                                \/ UpdateUserById(t) \/ DeleteUserById(t))
    BY <1>5 DEF ThreadStep, CheckUserAvailability, CheckNewUser, RefuseTaken,
         FailToAdd, ProduceNewUser, GenerateToken, Login, ReadPassword, FailStatement,
         Verify, GetMe, Reply, table
  <1>6. CASE \E c \in AccountCalls \cup Presented : Accept(t, c)
    BY <1>6 DEF Accept, table
  <1>7. CASE \E status \in {200, 400} : AnswerAtOnce(t, status)
    BY <1>7 DEF AnswerAtOnce, table
  <1> QED
    BY <1>1, <1>2, <1>3, <1>4, <1>5, <1>6, <1>7 DEF ThreadActs

\* A call keeps its invariant while another moves on.
LEMMA OthersKeepCall ==
  ASSUME TypeInv, CallsInv, NEW t \in Threads, ThreadActs(t), NEW u \in Threads, u # t
  PROVE  CallInv(u)' /\ taken'[u] = taken[u] /\ Outcome(u)' = Outcome(u)
<1>1. pc'[u] = pc[u] /\ call'[u] = call[u] /\ row'[u] = row[u] /\ answer'[u] = answer[u]
  BY OthersWait
<1>2. taken'[u] = taken[u]
  BY SharedStep DEF TypeInv, TypeOK
<1>3. CallInv(u)
  BY DEF CallsInv
<1>6. \/ users' = users /\ past'[u] = past[u]
      \/ Write(users')
  BY SharedStep DEF CallsInv
<1> DEFINE changes == call[u] # None /\ call[u].op = "password"
<1>4. IF changes THEN PasswordNow(users, call[u].id) \subseteq past[u] ELSE past[u] = {}
  BY <1>3 DEF CallInv
<1>5. /\ IF changes THEN PasswordNow(users', call[u].id) \subseteq past'[u] ELSE past'[u] = {}
      /\ past[u] \subseteq past'[u]
  <2>1. CASE users' = users /\ past'[u] = past[u]
    BY <1>4, <2>1
  <2>2. CASE Write(users')
    <3>1. past'[u] = IF changes THEN past[u] \cup PasswordNow(users', call[u].id) ELSE past[u]
      BY <2>2 DEF Write
    <3> QED
      BY <1>4, <3>1
  <2> QED
    BY <2>1, <2>2, <1>6
<1>8. CallInv(u)'
  BY <1>1, <1>2, <1>3, <1>5 DEF CallInv, PasswordNow
<1>7. Outcome(u)' = Outcome(u)
  BY <1>1, <1>2 DEF Outcome
<1> QED
  BY <1>2, <1>7, <1>8

\* The step of a call that writes is answered or goes on with what it has.
LEMMA WritingKeepsCall ==
  ASSUME TypeInv, CallsInv, NEW t \in Threads, Write(users'), call' = call, taken' = taken,
         ~taken[t], pc'[t] # "write", pc'[t] = "answer" <=> answer'[t] # None
  PROVE  CallInv(t)' /\ past' = [x \in Threads |-> past'[x]]
<1>1. CallInv(t)
  BY DEF CallsInv
<1>2. past' = [x \in Threads |-> past'[x]]
  BY DEF Write
<1>3. ~taken'[t]
  OBVIOUS
<1>4. IF call'[t] # None /\ call'[t].op = "password"
      THEN PasswordNow(users', call'[t].id) \subseteq past'[t] ELSE past'[t] = {}
  BY <1>1 DEF CallInv, Write
<1> QED
  BY <1>1, <1>2, <1>3, <1>4 DEF CallInv, PasswordNow

\* So is one that does not, unless it finds its signup refused.
LEMMA WaitingKeepsCall ==
  ASSUME TypeInv, CallsInv, NEW t \in Threads, users' = users, call' = call, past' = past,
         taken[t] <=> taken'[t],
         pc'[t] = "write" => call[t].old \in past[t],
         pc'[t] = "answer" <=> answer'[t] # None,
         taken[t] => /\ pc'[t] \in {"email", "available", "email2", "insert", "answer"}
                     /\ pc'[t] = "answer" => answer'[t] = Answer(409, None)
  PROVE  CallInv(t)' /\ past' = [x \in Threads |-> past'[x]]
<1>1. CallInv(t) /\ past = [x \in Threads |-> past[x]]
  BY DEF CallsInv
<1> QED
  BY <1>1 DEF CallInv, PasswordNow

LEMMA AcceptKeepsCall ==
  ASSUME TypeInv, CallsInv, NEW t \in Threads, NEW c \in AccountCalls \cup Presented, Accept(t, c)
  PROVE  CallInv(t)' /\ past' = [x \in Threads |-> past'[x]]
<1>1. CallInv(t) /\ past = [x \in Threads |-> past[x]] /\ pc[t] = "idle" /\ call[t] = None
  BY DEF CallsInv, Accept, Goto, TypeInv, StepsTyped
<1>2. /\ call'[t] = c /\ users' = users /\ pc'[t] = FirstStep(c.op)
      /\ answer' = answer /\ taken' = taken
      /\ past' = [past EXCEPT ![t] = IF c.op = "password" THEN PasswordNow(users, c.id) ELSE {}]
  BY DEF Accept, Goto, table, TypeInv, TypeOK, TableTyped
<1>3. /\ c \in AccountCalls => c # None
      /\ c.op \in {"signup", "login", "password", "update", "delete", "me", "refresh", "introspect"}
      /\ c \in AccountCalls \/ c.op \in {"me", "refresh", "introspect"}
  BY CallKinds
<1>4. pc'[t] \in {"name", "fetch", "read", "update", "delete", "verify"}
  BY <1>2, <1>3 DEF FirstStep
<1>5. past'[t] = IF c.op = "password" THEN PasswordNow(users', c.id) ELSE {}
  BY <1>1, <1>2 DEF PasswordNow
<1>6. past' = [x \in Threads |-> past'[x]]
  BY <1>1, <1>2
<1>7. c # None \/ c.op # "password"
  BY <1>3
<1>8. c.op = "password" => c # None
  BY <1>3
<1>9. IF c # None /\ c.op = "password" THEN PasswordNow(users', c.id) \subseteq past'[t]
      ELSE past'[t] = {}
  BY <1>5, <1>8
<1> QED
  BY <1>1, <1>2, <1>3, <1>4, <1>6, <1>9 DEF CallInv, PasswordNow

LEMMA ReplyKeepsCall ==
  ASSUME TypeInv, CallsInv, NEW t \in Threads, Reply(t)
  PROVE  CallInv(t)' /\ past' = [x \in Threads |-> past'[x]]
<1>1. past = [x \in Threads |-> past[x]]
  BY DEF CallsInv
<1>2. /\ call'[t] = None /\ pc'[t] = "idle" /\ answer'[t] = None /\ ~taken'[t] /\ past'[t] = {}
      /\ past' = [x \in Threads |-> past'[x]]
  BY <1>1 DEF Reply, Goto, TypeInv, TypeOK, TableTyped
<1> QED
  BY <1>2 DEF CallInv

LEMMA LookingKeepsCall ==
  ASSUME TypeInv, CallsInv, NEW t \in Threads, CheckUserAvailability(t) \/ CheckNewUser(t)
  PROVE  CallInv(t)' /\ past' = [x \in Threads |-> past'[x]]
<1>1. /\ CallInv(t) /\ past = [x \in Threads |-> past[x]]
      /\ pc[t] \in {"name", "email", "available", "email2"}
      /\ pc'[t] \in {"email", "available", "email2", "insert"}
      /\ users' = users /\ call' = call /\ past' = past /\ answer' = answer
  BY DEF CallsInv, CheckUserAvailability, CheckNewUser, LookFor, Goto, table, TypeInv, TypeOK
<1>2. call[t] \in AccountCalls /\ call[t].op = "signup"
  <2>1. call[t] \in CallsTo({"signup"})
    BY <1>1 DEF TypeInv, StepsTyped
  <2> QED
    BY <2>1, CallKinds
<1> QED
  BY <1>1, <1>2 DEF CallInv, PasswordNow

LEMMA StepKeepsCall ==
  ASSUME TypeInv, OwnersInv, CallsInv, NEW t \in Threads, ThreadActs(t)
  PROVE  CallInv(t)' /\ past' = [x \in Threads |-> past'[x]]
<1>0. /\ CallInv(t) /\ past = [x \in Threads |-> past[x]]
      /\ pc[t] # "answer" => answer[t] = None
  BY DEF CallsInv, CallInv
<1>1. CASE CheckUserAvailability(t) \/ CheckNewUser(t)
  BY <1>1, LookingKeepsCall
<1>2. CASE Reply(t)
  BY <1>2, ReplyKeepsCall
<1>3. CASE \E c \in AccountCalls \cup Presented : Accept(t, c)
  BY <1>3, AcceptKeepsCall
<1>4. CASE \E status \in {200, 400} : AnswerAtOnce(t, status)
  <2>1. PICK status \in {200, 400} : AnswerAtOnce(t, status)
    BY <1>4
  <2>2. /\ pc[t] = "idle" /\ pc'[t] = "answer" /\ answer'[t] = Answer(status, None)
        /\ users' = users /\ call' = call /\ past' = past /\ taken' = taken
    BY <2>1 DEF AnswerAtOnce, Respond, Goto, table, TypeInv, TypeOK, TableTyped
  <2>3. answer'[t] # None
    BY <2>2, RefusalsAreSome
  <2>4. ~taken[t]
    BY <1>0, <2>2 DEF CallInv
  <2> QED
    BY <2>2, <2>3, <2>4, WaitingKeepsCall
<1>5. CASE RefuseTaken(t) \/ FailToAdd(t)
  <2>1. /\ pc'[t] = "answer" /\ answer'[t] = Answer(409, None)
        /\ users' = users /\ call' = call /\ past' = past /\ taken' = taken
    BY <1>5 DEF RefuseTaken, FailToAdd, Respond, Goto, table, TypeInv, TypeOK, TableTyped
  <2>2. answer'[t] # None
    BY <2>1, RefusalsAreSome
  <2> QED
    BY <2>1, <2>2, WaitingKeepsCall
<1>6. CASE ProduceNewUser(t) \/ FailStatement(t)
  <2>1. /\ pc'[t] = "answer" /\ pc[t] \in {"announce", "write", "update", "delete"}
        /\ \E status \in {201, 400, 404} : answer'[t] = Answer(status, None)
        /\ users' = users /\ call' = call /\ past' = past /\ taken' = taken
    BY <1>6 DEF ProduceNewUser, FailStatement, Respond, Goto, table, TypeInv, TypeOK, TableTyped
  <2>2. answer'[t] # None
    BY <2>1, RefusalsAreSome
  <2>3. ~taken[t]
    BY <1>0, <2>1 DEF CallInv
  <2> QED
    BY <2>1, <2>2, <2>3, WaitingKeepsCall
<1>7. CASE GenerateToken(t) \/ GetMe(t)
  <2>1. /\ pc'[t] = "answer" /\ pc[t] \in {"issue", "profile"}
        /\ answer'[t].id \in Nat \cup {None} /\ answer'[t] = Answer(200, answer'[t].id)
        /\ users' = users /\ call' = call /\ past' = past /\ taken' = taken
    <3>1. CASE GenerateToken(t)
      <4>1. pc[t] = "issue" /\ row[t].subject \in Nat
        <5>1. pc[t] = "issue"
          BY <3>1 DEF GenerateToken, Respond, Goto
        <5>2. row[t] \in Bearer
          BY <5>1 DEF TypeInv, StepsTyped
        <5> QED
          BY <5>1, <5>2 DEF Bearer, Ids
      <4> QED
        BY <3>1, <4>1 DEF GenerateToken, Respond, Goto, table, TypeInv, TypeOK, TableTyped, Answer
    <3>2. CASE GetMe(t)
      <4> DEFINE i == row[t].subject
      <4>1. pc[t] = "profile" /\ i \in Ids
        <5>1. pc[t] = "profile"
          BY <3>2 DEF GetMe, Respond, Goto
        <5>2. /\ call[t] \in CallsTo({"me"})
              /\ row[t] = [subject |-> call[t].token.subject, owner |-> call[t].token.owner]
          BY <5>1 DEF TypeInv, StepsTyped
        <5>3. call[t].token \in tokens
          BY <5>2, FieldsOfCalls DEF CallsTo
        <5> QED
          BY <5>1, <5>2, <5>3 DEF TypeInv, TypeOK, Token
      <4>2. users[i] # None => users[i].owner \in Nat
        BY <4>1 DEF TypeInv, TableTyped, Account
      <4>3. /\ pc'[t] = "answer"
            /\ \E id \in Nat \cup {None} : answer'[t] = Answer(200, id)
            /\ users' = users /\ call' = call /\ past' = past /\ taken' = taken
        BY <3>2, <4>2 DEF GetMe, Respond, Goto, table, TypeInv, TypeOK, TableTyped
      <4> QED
        BY <4>1, <4>2, <4>3 DEF Answer
    <3> QED
      BY <1>7, <3>1, <3>2
  <2>2. answer'[t] # None
    BY <2>1, AnswersAreSome, ZenonT(40)
  <2>3. ~taken[t]
    BY <1>0, <2>1 DEF CallInv
  <2> QED
    BY <2>1, <2>2, <2>3, WaitingKeepsCall
<1>8. CASE Login(t)
  <2>1. /\ pc[t] = "fetch" /\ users' = users /\ call' = call /\ past' = past /\ taken' = taken
        /\ \/ pc'[t] = "issue" /\ answer'[t] = answer[t]
           \/ pc'[t] = "answer" /\ answer'[t] = Answer(401, None)
    BY <1>8 DEF Login, Respond, Goto, table, TypeInv, TypeOK, TableTyped
  <2>2. ~taken[t]
    BY <1>0, <2>1 DEF CallInv
  <2> QED
    BY <1>0, <2>1, <2>2, WaitingKeepsCall, RefusalsAreSome, AnswersAreSome
<1>9. CASE Verify(t)
  <2>1. /\ pc[t] = "verify" /\ users' = users /\ call' = call /\ past' = past /\ taken' = taken
        /\ \/ pc'[t] \in {"profile", "issue"} /\ answer'[t] = answer[t]
           \/ pc'[t] = "answer" /\ answer'[t] = Answer(401, None)
           \/ pc'[t] = "answer" /\ answer'[t] = Answer(200, call[t].token.subject)
    BY <1>9 DEF Verify, AfterVerify, Respond, Goto, table, TypeInv, TypeOK, TableTyped
  <2>2. ~taken[t]
    BY <1>0, <2>1 DEF CallInv
  <2>3. call[t].token.subject \in Nat
    <3>1. call[t] \in CallsTo({"me", "refresh", "introspect"})
      BY <2>1 DEF TypeInv, StepsTyped
    <3>2. call[t].token \in Token
      BY <3>1, FieldsOfCalls DEF TypeInv, TypeOK
    <3> QED
      BY <3>2 DEF Token, Ids
  <2> QED
    BY <1>0, <2>1, <2>2, <2>3, WaitingKeepsCall, RefusalsAreSome, AnswersAreSome
<1>10. CASE ReadPassword(t)
  <2> DEFINE i == call[t].id
  <2>1. /\ pc[t] = "read" /\ users' = users /\ call' = call /\ past' = past /\ taken' = taken
        /\ \/ pc'[t] = "write" /\ users[i] # None /\ users[i].password = call[t].old
              /\ answer'[t] = answer[t]
           \/ pc'[t] = "answer" /\ answer'[t] = Answer(500, None)
           \/ pc'[t] = "answer" /\ answer'[t] = Answer(400, None)
    BY <1>10 DEF ReadPassword, Respond, Goto, table, TypeInv, TypeOK, TableTyped
  <2>2. ~taken[t]
    BY <1>0, <2>1 DEF CallInv
  <2>3. call[t] # None /\ call[t].op = "password"
    <3>1. call[t] \in CallsTo({"password"})
      BY <2>1 DEF TypeInv, StepsTyped
    <3> QED
      BY <3>1, CallKinds
  <2>4. pc'[t] = "write" => call[t].old \in past[t]
    BY <1>0, <2>1, <2>3 DEF CallInv, PasswordNow
  <2> QED
    BY <1>0, <2>1, <2>2, <2>4, WaitingKeepsCall, RefusalsAreSome, AnswersAreSome
<1>11. CASE AddUserToDB(t)
  <2>1. /\ pc[t] = "insert" /\ ~taken[t] /\ pc'[t] = "announce" /\ answer' = answer
        /\ Write(users') /\ call' = call /\ taken' = taken
    BY <1>11 DEF AddUserToDB, Write, Goto, TypeInv, TypeOK
  <2> QED
    BY <1>0, <2>1, WritingKeepsCall
<1>12. CASE UpdateUserPassword(t) \/ DeleteUserById(t)
  <2>1. /\ pc[t] \in {"write", "update", "delete"} /\ pc'[t] = "answer" /\ call' = call
        /\ taken' = taken /\ Write(users')
        /\ \E status \in {200, 400} : answer'[t] = Answer(status, None)
    <3>1. CASE UpdateUserPassword(t)
      BY <3>1 DEF UpdateUserPassword, Write, Respond, Goto, TypeInv, TypeOK, TableTyped
    <3>2. CASE DeleteUserById(t)
      BY <3>2 DEF DeleteUserById, Write, Respond, Goto, TypeInv, TypeOK, TableTyped
    <3> QED
      BY <1>12, <3>1, <3>2
  <2>2. ~taken[t]
    BY <1>0, <2>1 DEF CallInv
  <2> QED
    BY <2>1, <2>2, WritingKeepsCall, RefusalsAreSome
<1>13. CASE UpdateUserById(t)
  <2>1. /\ pc[t] = "update" /\ pc'[t] = "answer" /\ call' = call /\ taken' = taken
        /\ \E status \in {200, 400} : answer'[t] = Answer(status, None)
        /\ Write(users') \/ (users' = users /\ past' = past)
    <3>1. /\ call' = call /\ taken' = taken
          /\ \E status \in {200, 400} : Respond(t, "update", Answer(status, None))
          /\ (\E rows : Write(rows)) \/ (users' = users /\ past' = past)
      BY <1>13 DEF UpdateUserById, table
    <3>2. Write(users') \/ (users' = users /\ past' = past)
      BY <3>1 DEF Write
    <3> QED
      BY <3>1, <3>2 DEF Respond, Goto, TypeInv, TypeOK, TableTyped
  <2>2. ~taken[t]
    BY <1>0, <2>1 DEF CallInv
  <2> QED
    BY <2>1, <2>2, WritingKeepsCall, WaitingKeepsCall, RefusalsAreSome
<1> QED
  BY <1>1, <1>2, <1>3, <1>4, <1>5, <1>6, <1>7, <1>8, <1>9, <1>10, <1>11, <1>12, <1>13
  DEF ThreadActs, ThreadStep

LEMMA CallsInit == Init => CallsInv
  BY DEF Init, ThreadsInit, CallsInv, CallInv

LEMMA CallsStep == TypeInv /\ OwnersInv /\ CallsInv /\ [Next]_vars => CallsInv'
<1> SUFFICES ASSUME TypeInv, OwnersInv, CallsInv, [Next]_vars PROVE CallsInv'
  OBVIOUS
<1>1. ASSUME NEW t \in Threads, ThreadActs(t) PROVE CallsInv'
  <2>1. CallInv(t)' /\ past' = [x \in Threads |-> past'[x]]
    BY <1>1, StepKeepsCall
  <2>2. \A u \in Threads \ {t} : CallInv(u)'
    BY <1>1, OthersKeepCall
  <2> QED
    BY <2>1, <2>2 DEF CallsInv
<1>2. CASE CrashAndStart
  BY <1>2 DEF CrashAndStart, CallsInv, CallInv
<1>3. CASE StopAndStart
  <2>1. ASSUME NEW u \in Threads PROVE CallInv(u)'
    <3>1. CallInv(u) /\ call[u] = None
      BY <1>3 DEF StopAndStart, CallsInv, TypeInv, StepsTyped
    <3>2. UNCHANGED <<pc, call, answer, taken, past>>
      BY <1>3 DEF StopAndStart, threads
    <3> QED
      BY <3>1, <3>2 DEF CallInv
  <2> QED
    BY <1>3, <2>1 DEF CallsInv, StopAndStart, threads
<1>4. CASE Tick \/ UNCHANGED vars
  BY <1>4 DEF Tick, vars, table, threads, CallsInv, CallInv, PasswordNow
<1> QED
  BY <1>1, <1>2, <1>3, <1>4, NextByActor

LEMMA AccountCallsKept == Spec => []CallsInv
  BY CallsInit, CallsStep, AccountsTyping, AccountsOwners, PTL DEF Spec

\* Steps of calls that are the directory's business, and the others.
LEMMA ServedCall ==
  ASSUME NEW t \in Threads, call[t] \in AccountCalls
  PROVE  Serving[t] = call[t] /\ Serving[t] # None /\ Outcomes[t] = Outcome(t)
  BY CallKinds DEF Serving, Outcomes

LEMMA ChangesNameAccounts ==
  ASSUME CallsInv, NEW x \in Threads, call[x] # None, call[x].op = "password"
  PROVE  call[x] \in AccountCalls /\ call[x].id \in Ids
<1>1. call[x] \in AccountCalls
  BY DEF CallsInv, CallInv
<1>2. \A c \in AccountCalls : c.op = "password" => c.id \in Ids
  BY DEF AccountCalls
<1> QED
  BY <1>1, <1>2

LEMMA TableTypes ==
  /\ TypeInv => users \in Table
  /\ TypeInv' => users' \in Table
  BY DEF TypeInv, TableTyped, Table

\* A statement leaves its table to the directory, and what the changes of password
\* have seen.
LEMMA TableBecomes ==
  ASSUME TypeInv, TypeInv', CallsInv, NEW t \in Threads, call' = call, Write(users'),
         NEW a, Outcomes' = [Outcomes EXCEPT ![t] = a]
  PROVE  Directory!Become(t, TableShown(users'), a)
<1>1. PICK rows \in Table : rows = users'
  BY TableTypes
<1>2. Accounts' = TableShown(rows)
  BY <1>1, TableIsShownNext
<1>3. ASSUME NEW x \in Threads
      PROVE  past'[x] = IF Serving[x] # None /\ Serving[x].op = "password"
                        THEN past[x] \cup Directory!PasswordsOf(TableShown(rows), Serving[x].id)
                        ELSE {}
  <2>1. CASE call[x] # None /\ call[x].op = "password"
    <3>1. call[x] \in AccountCalls /\ call[x].id \in Ids
      BY <2>1, ChangesNameAccounts
    <3>2. Serving[x] = call[x]
      BY <3>1 DEF Serving
    <3>3. past'[x] = past[x] \cup PasswordNow(rows, call[x].id)
      BY <1>1, <2>1 DEF Write
    <3>4. Directory!PasswordsOf(TableShown(rows), call[x].id) = PasswordNow(rows, call[x].id)
      BY <3>1, PasswordsShown
    <3> QED
      BY <2>1, <3>2, <3>3, <3>4
  <2>2. CASE ~(call[x] # None /\ call[x].op = "password")
    <3>1. past[x] = {} /\ past'[x] = past[x]
      BY <2>2 DEF CallsInv, CallInv, Write
    <3>2. ~(Serving[x] # None /\ Serving[x].op = "password")
      BY <2>2 DEF Serving
    <3> QED
      BY <3>1, <3>2
  <2> QED
    BY <2>1, <2>2
<1>4. past' = [x \in Threads |->
                 IF Serving[x] # None /\ Serving[x].op = "password"
                 THEN past[x] \cup Directory!PasswordsOf(TableShown(rows), Serving[x].id)
                 ELSE {}]
  <2>1. past' = [x \in Threads |-> past'[x]]
    BY DEF Write
  <2> QED
    BY <1>3, <2>1
<1>5. Serving' = Serving
  BY DEF Serving
<1> QED
  BY <1>1, <1>2, <1>4, <1>5 DEF Directory!Become

\* Where nothing is written, what they have seen is all there is to see.
LEMMA NothingWritten ==
  ASSUME CallsInv, users' = users, call' = call, past' = past
  PROVE  Write(users')
<1>1. ASSUME NEW x \in Threads
      PROVE  past[x] = IF call[x] # None /\ call[x].op = "password"
                       THEN past[x] \cup PasswordNow(users, call[x].id) ELSE past[x]
  BY DEF CallsInv, CallInv
<1>2. past = [x \in Threads |-> past[x]]
  BY DEF CallsInv
<1>3. past' = [x \in Threads |-> IF call[x] # None /\ call[x].op = "password"
                                 THEN past[x] \cup PasswordNow(users', call[x].id) ELSE past[x]]
  BY <1>1, <1>2
<1> QED
  BY <1>3 DEF Write

LEMMA OutcomesNext ==
  ASSUME TypeInv, CallsInv, NEW t \in Threads, ThreadActs(t), call' = call,
         call[t] \in AccountCalls, NEW a, Outcome(t)' = a
  PROVE  Outcomes' = [Outcomes EXCEPT ![t] = a]
<1>1. \A x \in Threads : Outcomes'[x] = IF x = t THEN a ELSE Outcomes[x]
  <2> SUFFICES ASSUME NEW x \in Threads
               PROVE  Outcomes'[x] = IF x = t THEN a ELSE Outcomes[x]
    OBVIOUS
  <2>1. x # t => Outcome(x)' = Outcome(x)
    BY OthersKeepCall
  <2> QED
    BY <2>1 DEF Outcomes
<1>2. Outcomes' = [x \in Threads |-> Outcomes'[x]]
  BY DEF Outcomes
<1>3. Outcomes = [x \in Threads |-> Outcomes[x]]
  BY DEF Outcomes
<1> QED
  BY <1>1, <1>2, <1>3

\* The step at which a call takes effect.
LEMMA CallSettles ==
  ASSUME TypeInv, TypeInv', CallsInv, NEW t \in Threads, ThreadActs(t), call' = call,
         call[t] \in AccountCalls, NEW a, Outcome(t)' = a,
         Write(users') \/ (users' = users /\ past' = past)
  PROVE  Directory!Become(t, TableShown(users'), a)
  BY OutcomesNext, NothingWritten, TableBecomes

\* The steps at which none does.
LEMMA NothingSettles ==
  ASSUME TypeInv, CallsInv, NEW t \in Threads, ThreadActs(t), UNCHANGED <<users, past, call>>,
         call[t] \in AccountCalls => Outcome(t)' = Outcome(t)
  PROVE  UNCHANGED Directory!directory
<1>1. Accounts' = Accounts /\ Serving' = Serving
  BY DEF Accounts, Serving
<1>2. ASSUME NEW x \in Threads PROVE Outcomes'[x] = Outcomes[x]
  <2>1. x # t => Outcome(x)' = Outcome(x)
    BY OthersKeepCall
  <2> QED
    BY <2>1 DEF Outcomes
<1>3. Outcomes' = Outcomes
  <2>1. Outcomes' = [x \in Threads |-> Outcomes'[x]] /\ Outcomes = [x \in Threads |-> Outcomes[x]]
    BY DEF Outcomes
  <2> QED
    BY <1>2, <2>1
<1> QED
  BY <1>1, <1>3 DEF Directory!directory

LEMMA CallOutcome ==
  ASSUME CallsInv, NEW t \in Threads
  PROVE  /\ pc[t] \notin {"announce", "issue", "answer"} =>
               Outcome(t) = IF taken[t] THEN Answer(409, None) ELSE None
         /\ pc[t] = "answer" => Outcome(t) = answer[t]
         /\ pc[t] = "announce" => Outcome(t) = Answer(201, None)
         /\ pc[t] = "issue" /\ call[t].op = "login" => Outcome(t) = Answer(200, row[t].subject)
<1>1. /\ taken[t] /\ pc[t] = "answer" => answer[t] = Answer(409, None)
      /\ pc[t] # "answer" => answer[t] = None
      /\ taken[t] => pc[t] \notin {"announce", "issue"}
  BY DEF CallsInv, CallInv
<1> QED
  BY <1>1 DEF Outcome

LEMMA CallOutcomeNext ==
  ASSUME TypeInv, OwnersInv, CallsInv, NEW t \in Threads, ThreadActs(t)
  PROVE  /\ pc'[t] \notin {"announce", "issue", "answer"} =>
               Outcome(t)' = IF taken'[t] THEN Answer(409, None) ELSE None
         /\ pc'[t] = "answer" => Outcome(t)' = answer'[t]
         /\ pc'[t] = "announce" => Outcome(t)' = Answer(201, None)
         /\ pc'[t] = "issue" /\ call'[t].op = "login" => Outcome(t)' = Answer(200, row'[t].subject)
<1>1. CallInv(t)'
  BY StepKeepsCall
<1>2. /\ taken'[t] /\ pc'[t] = "answer" => answer'[t] = Answer(409, None)
      /\ pc'[t] # "answer" => answer'[t] = None
      /\ taken'[t] => pc'[t] \notin {"announce", "issue"}
  BY <1>1 DEF CallInv
<1> QED
  BY <1>2 DEF Outcome

\* A name or an email that is found belongs to an account of the directory.
LEMMA HasIsTaken ==
  ASSUME TypeInv, NEW c
  PROVE  Has("username", c.username) \/ Has("email", c.email) <=> Directory!Taken(c, {})
<1>1. users \in Table /\ Accounts = TableShown(users)
  BY TableTypes, TableIsShown
<1>2. \A i \in Ids : /\ Accounts[i] # None <=> users[i] # None
                     /\ users[i] # None => /\ Accounts[i].username = users[i].username
                                           /\ Accounts[i].email = users[i].email
  BY <1>1, ShownRows
<1> QED
  BY <1>2 DEF Has, Directory!Taken

\* The lookups of a signup settle it when they find its name or email.
LEMMA LookingSettles ==
  ASSUME TypeInv, TypeInv', OwnersInv, CallsInv, NEW t \in Threads,
         CheckUserAvailability(t) \/ CheckNewUser(t)
  PROVE  Directory!Serve(t) \/ UNCHANGED Directory!directory
<1>1. /\ ThreadActs(t)
      /\ pc[t] \in {"name", "email", "available", "email2"}
      /\ pc'[t] \in {"email", "available", "email2", "insert"}
      /\ users' = users /\ call' = call /\ past' = past
  BY DEF ThreadActs, ThreadStep, CheckUserAvailability, CheckNewUser, LookFor, Goto, table, TypeInv, TypeOK
<1>2. call[t] \in AccountCalls /\ call[t].op = "signup"
  <2>1. call[t] \in CallsTo({"signup"})
    BY <1>1 DEF TypeInv, StepsTyped
  <2> QED
    BY <2>1, CallKinds
<1>3. /\ Outcome(t) = IF taken[t] THEN Answer(409, None) ELSE None
      /\ Outcome(t)' = IF taken'[t] THEN Answer(409, None) ELSE None
  BY <1>1, CallOutcome, CallOutcomeNext
<1>4. taken'[t] <=> taken[t] \/ (taken'[t] /\ (Has("username", call[t].username)
                                                  \/ Has("email", call[t].email)))
  BY DEF CheckUserAvailability, CheckNewUser, LookFor, TypeInv, TypeOK
<1>5. CASE taken'[t] <=> taken[t]
  BY <1>1, <1>3, <1>5, NothingSettles
<1>6. CASE ~(taken'[t] <=> taken[t])
  <2>1. ~taken[t] /\ taken'[t] /\ Directory!Taken(call[t], {})
    BY <1>4, <1>6, HasIsTaken DEF TypeInv, TypeOK
  <2>2. Directory!Become(t, TableShown(users'), Answer(409, None))
    BY <1>1, <1>2, <1>3, <2>1, CallSettles
  <2>3. TableShown(users') = Accounts
    BY <1>1, TableIsShown
  <2>4. Directory!Answer(409, None) = Answer(409, None)
    BY DEF Directory!Answer, Answer
  <2>5. Directory!Signup(t, call[t])
    BY <2>1, <2>2, <2>3, <2>4 DEF Directory!Signup
  <2> QED
    BY <1>2, <1>3, <2>1, <2>5, ServedCall DEF Directory!Serve
<1> QED
  BY <1>5, <1>6

LEMMA SameAnswers ==
  \A status, id : Directory!Answer(status, id) = Answer(status, id)
  BY DEF Directory!Answer, Answer

\* The INSERT settles a signup: the account is made, or the unique keys, the role
\* or the statement refuse it.
LEMMA AddingSettles ==
  ASSUME TypeInv, TypeInv', OwnersInv, CallsInv, NEW t \in Threads, AddUserToDB(t)
  PROVE  Directory!Serve(t)
<1> DEFINE c == call[t]
           new == [username |-> c.username, email |-> c.email, password |-> c.password,
                   owner |-> made + 1]
<1>1. /\ ThreadActs(t) /\ pc[t] = "insert" /\ pc'[t] = "announce" /\ ~taken[t]
      /\ call' = call /\ Write(users') /\ users' = [users EXCEPT ![nextId] = new]
      /\ nextId \in Ids /\ Unique(c) /\ c.role = "rider"
  BY DEF ThreadActs, ThreadStep, AddUserToDB, NewId, Write, Goto, TypeInv, TypeOK
<1>2. c \in AccountCalls /\ c.op = "signup"
  <2>1. c \in CallsTo({"signup"})
    BY <1>1 DEF TypeInv, StepsTyped
  <2> QED
    BY <2>1, CallKinds
<1>3. Outcome(t) = None /\ Outcome(t)' = Answer(201, None)
  BY <1>1, CallOutcome, CallOutcomeNext
<1>4. Directory!Become(t, TableShown(users'), Answer(201, None))
  BY <1>1, <1>2, <1>3, CallSettles
<1>5. users \in Table /\ Accounts = TableShown(users)
  BY TableTypes, TableIsShown
<1>6. TableShown(users') = [Accounts EXCEPT ![nextId] = Shown(new)]
  BY <1>1, <1>5, ShownChange
<1>7. new # None /\ Shown(new) = [username |-> c.username, email |-> c.email,
                                  password |-> c.password]
  <2>1. c.username \in Usernames /\ c.email \in Emails /\ c.password \in Passwords
    <3>1. c \in CallsTo({"signup"})
      BY <1>1 DEF TypeInv, StepsTyped
    <3> QED
      BY <3>1, FieldsOfCalls
  <2>2. made + 1 \in Nat
    BY DEF TypeInv, TableTyped
  <2>3. new # None
    BY <2>1, <2>2, AccountsAssumption
  <2> QED
    BY <2>3 DEF Shown
<1>8. Accounts[nextId] = None
  <2>1. users[nextId] = None
    BY <1>1 DEF TypeInv, TypeOK
  <2> QED
    BY <1>1, <1>5, <2>1, ShownRows
<1>9. ~Directory!Taken(c, {})
  BY <1>1, HasIsTaken DEF Unique
<1> HIDE DEF new
<1>10. Directory!Become(t, [Accounts EXCEPT ![nextId] = [username |-> c.username,
                                                      email |-> c.email,
                                                      password |-> c.password]],
                        Directory!Answer(201, None))
  BY <1>4, <1>6, <1>7, SameAnswers
<1>11. c.role # "none"
  BY <1>1
<1>12. Directory!Signup(t, c)
  BY <1>1, <1>8, <1>9, <1>10, <1>11 DEF Directory!Signup
<1> QED
  BY <1>2, <1>3, <1>12, ServedCall DEF Directory!Serve

LEMMA RefusingSettles ==
  ASSUME TypeInv, TypeInv', OwnersInv, CallsInv, NEW t \in Threads, FailToAdd(t)
  PROVE  Directory!Serve(t)
<1> DEFINE c == call[t]
<1>1. /\ ThreadActs(t) /\ pc[t] = "insert" /\ pc'[t] = "answer" /\ ~taken[t]
      /\ answer'[t] = Answer(409, None)
      /\ users' = users /\ call' = call /\ past' = past
      /\ c.role = "none" \/ ~Unique(c) \/ DbFaults
  BY DEF ThreadActs, ThreadStep, FailToAdd, Respond, Goto, table, TypeInv, TypeOK, TableTyped
<1>2. c \in AccountCalls /\ c.op = "signup"
  <2>1. c \in CallsTo({"signup"})
    BY <1>1 DEF TypeInv, StepsTyped
  <2> QED
    BY <2>1, CallKinds
<1>3. Outcome(t) = None /\ Outcome(t)' = Answer(409, None)
  BY <1>1, CallOutcome, CallOutcomeNext
<1>4. Directory!Become(t, Accounts, Answer(409, None))
  BY <1>1, <1>2, <1>3, CallSettles, TableIsShown
<1>5. ~Unique(c) <=> Directory!Taken(c, {})
  BY HasIsTaken DEF Unique
<1>6. CASE c.role = "none" \/ ~Unique(c)
  <2>1. Directory!Signup(t, c)
    BY <1>4, <1>5, <1>6, SameAnswers DEF Directory!Signup
  <2> QED
    BY <1>2, <1>3, <2>1, ServedCall DEF Directory!Serve
<1>7. CASE DbFaults
  <2>1. Directory!Fail(t, c)
    BY <1>2, <1>4, <1>7, SameAnswers DEF Directory!Fail, Directory!FailedAs
  <2> QED
    BY <1>2, <1>3, <2>1, ServedCall DEF Directory!Serve
<1> QED
  BY <1>1, <1>6, <1>7

\* A login settles when it has searched the table: for the account it found.
LEMMA LoginSettles ==
  ASSUME TypeInv, TypeInv', OwnersInv, CallsInv, NEW t \in Threads, Login(t)
  PROVE  Directory!Serve(t)
<1> DEFINE c == call[t]
<1>1. /\ ThreadActs(t) /\ pc[t] = "fetch"
      /\ users' = users /\ call' = call /\ past' = past /\ taken' = taken
  BY DEF ThreadActs, ThreadStep, Login, table
<1>2. c \in AccountCalls /\ c.op = "login"
  <2>1. c \in CallsTo({"login"})
    BY <1>1 DEF TypeInv, StepsTyped
  <2> QED
    BY <2>1, CallKinds
<1>3. Outcome(t) = None
  <2>1. ~taken[t]
    BY <1>1 DEF CallsInv, CallInv
  <2> QED
    BY <1>1, <2>1, CallOutcome
<1>4. Owners(c) = Directory!Owners(c)
  <2>1. users \in Table /\ Accounts = TableShown(users)
    BY TableTypes, TableIsShown
  <2>2. \A i \in Ids : /\ Accounts[i] # None <=> users[i] # None
                       /\ users[i] # None => /\ Accounts[i].username = users[i].username
                                             /\ Accounts[i].password = users[i].password
    BY <2>1, ShownRows
  <2> QED
    BY <2>2 DEF Owners, Directory!Owners
<1>5. CASE (Owners(c) = {} \/ DbFaults) /\ Respond(t, "fetch", Answer(401, None))
  <2>1. pc'[t] = "answer" /\ answer'[t] = Answer(401, None)
    BY <1>5 DEF Respond, Goto, TypeInv, TypeOK, TableTyped
  <2>2. Outcome(t)' = Answer(401, None)
    BY <1>1, <2>1, CallOutcomeNext
  <2>3. Directory!Become(t, Accounts, Answer(401, None))
    BY <1>1, <1>2, <1>3, <2>2, CallSettles, TableIsShown
  <2>4. CASE Owners(c) = {}
    <3>1. Directory!Login(t, c)
      BY <1>4, <2>3, <2>4, SameAnswers DEF Directory!Login
    <3> QED
      BY <1>2, <1>3, <3>1, ServedCall DEF Directory!Serve
  <2>5. CASE DbFaults
    <3>1. Directory!Fail(t, c)
      BY <1>2, <2>3, <2>5, SameAnswers DEF Directory!Fail, Directory!FailedAs
    <3> QED
      BY <1>2, <1>3, <3>1, ServedCall DEF Directory!Serve
  <2> QED
    BY <1>5, <2>4, <2>5
<1>6. CASE /\ Goto(t, "fetch", "issue")
           /\ \E i \in Owners(c) : row' = [row EXCEPT ![t] = [subject |-> i, owner |-> users[i].owner]]
  <2>1. pc'[t] = "issue"
    BY <1>6 DEF Goto, TypeInv, TypeOK
  <2>2. PICK i \in Owners(c) : row'[t] = [subject |-> i, owner |-> users[i].owner]
    BY <1>6 DEF TypeInv, TableTyped
  <2>3. Outcome(t)' = Answer(200, i)
    BY <1>1, <1>2, <2>1, <2>2, CallOutcomeNext
  <2>4. Directory!Become(t, Accounts, Answer(200, i))
    BY <1>1, <1>2, <1>3, <2>3, CallSettles, TableIsShown
  <2>5. Directory!Login(t, c)
    BY <1>4, <2>2, <2>4, SameAnswers DEF Directory!Login
  <2> QED
    BY <1>2, <1>3, <2>5, ServedCall DEF Directory!Serve
<1> QED
  BY <1>5, <1>6 DEF Login

\* A change of password reads the hash: no account, another password, or it goes on.
LEMMA PasswordReadSettles ==
  ASSUME TypeInv, TypeInv', OwnersInv, CallsInv, NEW t \in Threads, ReadPassword(t)
  PROVE  Directory!Serve(t) \/ UNCHANGED Directory!directory
<1> DEFINE c == call[t]
<1>1. /\ ThreadActs(t) /\ pc[t] = "read"
      /\ users' = users /\ call' = call /\ past' = past /\ taken' = taken
  BY DEF ThreadActs, ThreadStep, ReadPassword, table
<1>2. c \in AccountCalls /\ c.op = "password" /\ c # None /\ c.id \in Ids
  <2>1. c \in CallsTo({"password"})
    BY <1>1 DEF TypeInv, StepsTyped
  <2> QED
    BY <2>1, CallKinds, FieldsOfCalls
<1>3. ~taken[t] /\ Outcome(t) = None
  <2>1. ~taken[t]
    BY <1>1 DEF CallsInv, CallInv
  <2> QED
    BY <1>1, <2>1, CallOutcome
<1>4. PasswordNow(users, c.id) \subseteq past[t]
  BY <1>2 DEF CallsInv, CallInv
<1>5. CASE (users[c.id] = None \/ DbFaults) /\ Respond(t, "read", Answer(500, None))
  <2>1. pc'[t] = "answer" /\ answer'[t] = Answer(500, None)
    BY <1>5 DEF Respond, Goto, TypeInv, TypeOK, TableTyped
  <2>2. Outcome(t)' = Answer(500, None)
    BY <1>1, <2>1, CallOutcomeNext
  <2>3. Directory!Become(t, Accounts, Answer(500, None))
    BY <1>1, <1>2, <1>3, <2>2, CallSettles, TableIsShown
  <2>4. CASE users[c.id] = None
    <3>1. None \in past[t]
      BY <1>4, <2>4 DEF PasswordNow
    <3>2. Directory!ChangePassword(t, c)
      BY <2>3, <3>1, SameAnswers DEF Directory!ChangePassword
    <3> QED
      BY <1>2, <1>3, <3>2, ServedCall DEF Directory!Serve
  <2>5. CASE DbFaults
    <3>1. Directory!Fail(t, c)
      BY <1>2, <2>3, <2>5, SameAnswers DEF Directory!Fail, Directory!FailedAs
    <3> QED
      BY <1>2, <1>3, <3>1, ServedCall DEF Directory!Serve
  <2> QED
    BY <1>5, <2>4, <2>5
<1>6. CASE /\ users[c.id] # None /\ users[c.id].password # c.old
           /\ Respond(t, "read", Answer(400, None))
  <2>1. pc'[t] = "answer" /\ answer'[t] = Answer(400, None)
    BY <1>6 DEF Respond, Goto, TypeInv, TypeOK, TableTyped
  <2>2. Outcome(t)' = Answer(400, None)
    BY <1>1, <2>1, CallOutcomeNext
  <2>3. Directory!Become(t, Accounts, Answer(400, None))
    BY <1>1, <1>2, <1>3, <2>2, CallSettles, TableIsShown
  <2>4. users[c.id].password \in past[t] \ {c.old, None}
    <3>1. users[c.id].password # None
      BY <1>2, <1>6, ShownRows, TableTypes
    <3> QED
      BY <1>4, <1>6, <3>1 DEF PasswordNow
  <2>5. Directory!ChangePassword(t, c)
    BY <2>3, <2>4, SameAnswers DEF Directory!ChangePassword
  <2> QED
    BY <1>2, <1>3, <2>5, ServedCall DEF Directory!Serve
<1>7. CASE users[c.id] # None /\ users[c.id].password = c.old /\ Goto(t, "read", "write")
  <2>1. pc'[t] = "write"
    BY <1>7 DEF Goto, TypeInv, TypeOK
  <2>2. Outcome(t)' = None
    BY <1>1, <1>3, <2>1, CallOutcomeNext
  <2> QED
    BY <1>1, <1>3, <2>2, NothingSettles
<1> QED
  BY <1>5, <1>6, <1>7 DEF ReadPassword

\* Its UPDATE settles it, for the password it gave was the account's.
LEMMA PasswordSettles ==
  ASSUME TypeInv, TypeInv', OwnersInv, CallsInv, NEW t \in Threads, UpdateUserPassword(t)
  PROVE  Directory!Serve(t)
<1>0. PICK c : c = call[t]
  OBVIOUS
<1>1. /\ ThreadActs(t) /\ pc[t] = "write" /\ pc'[t] = "answer" /\ call' = call
      /\ answer'[t] = Answer(200, None) /\ Write(users')
      /\ users' = IF users[c.id] = None THEN users ELSE [users EXCEPT ![c.id].password = c.new]
  BY <1>0 DEF ThreadActs, ThreadStep, UpdateUserPassword, Write, Respond, Goto, TypeInv, TypeOK,
              TableTyped
<1>2. c \in AccountCalls /\ c.op = "password" /\ c.id \in Ids /\ c.new \in Passwords
  <2>1. c \in CallsTo({"password"})
    BY <1>0, <1>1 DEF TypeInv, StepsTyped
  <2> QED
    BY <2>1, CallKinds, FieldsOfCalls
<1>3. Outcome(t) = None /\ Outcome(t)' = Answer(200, None)
  <2>1. ~taken[t]
    BY <1>1 DEF CallsInv, CallInv
  <2> QED
    BY <1>1, <2>1, CallOutcome, CallOutcomeNext
<1>4. c.old \in past[t]
  BY <1>0, <1>1 DEF CallsInv, CallInv
<1>5. Directory!Become(t, TableShown(users'), Answer(200, None))
  BY <1>0, <1>1, <1>2, <1>3, CallSettles
<1>6. TableShown(users') = IF Accounts[c.id] = None THEN Accounts
                           ELSE [Accounts EXCEPT ![c.id].password = c.new]
  <2>1. users \in Table /\ Accounts = TableShown(users)
    BY TableTypes, TableIsShown
  <2>2. Accounts[c.id] = Shown(users[c.id]) /\ (Shown(users[c.id]) = None <=> users[c.id] = None)
    BY <1>2, <2>1, ShownRows
  <2>3. CASE users[c.id] = None
    BY <1>1, <2>1, <2>2, <2>3
  <2>4. CASE users[c.id] # None
    <3>1. PICK r \in Account : r = users[c.id] /\ r # None
      BY <1>2, <2>1, <2>4 DEF Table
    <3>2. PICK s : s = [r EXCEPT !.password = c.new]
      OBVIOUS
    <3>3. users' = [users EXCEPT ![c.id] = s]
      BY <1>1, <2>4, <3>1, <3>2
    <3>4. s \in Account /\ s # None
      BY <1>2, <3>1, <3>2, AccountsAssumption DEF Account
    <3>5. Shown(s) = [Shown(r) EXCEPT !.password = c.new]
      BY <3>1, <3>2, <3>4 DEF Shown, Account
    <3>6. TableShown(users') = [Accounts EXCEPT ![c.id] = Shown(s)]
      BY <1>2, <2>1, <3>3, ShownChange
    <3>7. Accounts[c.id] = Shown(r)
      BY <2>2, <3>1
    <3> QED
      BY <2>2, <2>4, <3>5, <3>6, <3>7
  <2> QED
    BY <2>3, <2>4
<1>7. Directory!ChangePassword(t, c)
  BY <1>4, <1>5, <1>6, SameAnswers DEF Directory!ChangePassword
<1> QED
  BY <1>0, <1>2, <1>3, <1>7, ServedCall DEF Directory!Serve

\* A DELETE settles a deletion, whether or not there is an account.
LEMMA DeletingSettles ==
  ASSUME TypeInv, TypeInv', OwnersInv, CallsInv, NEW t \in Threads, DeleteUserById(t)
  PROVE  Directory!Serve(t)
<1>0. PICK c : c = call[t]
  OBVIOUS
<1>1. /\ ThreadActs(t) /\ pc[t] = "delete" /\ pc'[t] = "answer" /\ call' = call
      /\ answer'[t] = Answer(200, None) /\ Write(users')
      /\ users' = [users EXCEPT ![c.id] = None]
  BY <1>0 DEF ThreadActs, ThreadStep, DeleteUserById, Write, Respond, Goto, TypeInv, TypeOK,
              TableTyped
<1>2. c \in AccountCalls /\ c.op = "delete" /\ c.id \in Ids
  <2>1. c \in CallsTo({"delete"})
    BY <1>0, <1>1 DEF TypeInv, StepsTyped
  <2> QED
    BY <2>1, CallKinds, FieldsOfCalls
<1>3. Outcome(t) = None /\ Outcome(t)' = Answer(200, None)
  <2>1. ~taken[t]
    BY <1>1 DEF CallsInv, CallInv
  <2> QED
    BY <1>1, <2>1, CallOutcome, CallOutcomeNext
<1>4. Directory!Become(t, TableShown(users'), Answer(200, None))
  BY <1>0, <1>1, <1>2, <1>3, CallSettles
<1>5. TableShown(users') = [Accounts EXCEPT ![c.id] = None]
  <2>1. users \in Table /\ Accounts = TableShown(users)
    BY TableTypes, TableIsShown
  <2>2. TableShown(users') = [Accounts EXCEPT ![c.id] = Shown(None)]
    BY <1>1, <1>2, <2>1, ShownChange
  <2>3. Shown(None) = None
    BY DEF Shown
  <2> QED
    BY <2>2, <2>3
<1>6. Directory!Delete(t, c)
  BY <1>4, <1>5, SameAnswers DEF Directory!Delete
<1> QED
  BY <1>0, <1>2, <1>3, <1>6, ServedCall DEF Directory!Serve

\* A statement that fails leaves the directory alone and refuses the call.
LEMMA FailingSettles ==
  ASSUME TypeInv, TypeInv', OwnersInv, CallsInv, NEW t \in Threads, FailStatement(t)
  PROVE  Directory!Serve(t)
<1> DEFINE c == call[t]
<1>1. /\ ThreadActs(t) /\ pc[t] \in {"write", "update", "delete"} /\ pc'[t] = "answer"
      /\ users' = users /\ call' = call /\ past' = past /\ DbFaults
  BY DEF ThreadActs, ThreadStep, FailStatement, Respond, Goto, table, TypeInv, TypeOK
<1>2. PICK status : /\ status = IF pc[t] = "delete" THEN 404 ELSE 400
                    /\ answer'[t] = Answer(status, None)
  BY DEF FailStatement, Respond, TypeInv, TableTyped
<1>3. c \in AccountCalls /\ status \in Directory!FailedAs(c.op)
  <2>1. CASE pc[t] = "write"
    <3>1. c \in CallsTo({"password"})
      BY <2>1 DEF TypeInv, StepsTyped
    <3>2. c \in AccountCalls /\ c.op = "password"
      BY <3>1, CallKinds
    <3> QED
      BY <1>2, <2>1, <3>2 DEF Directory!FailedAs
  <2>2. CASE pc[t] = "update"
    <3>1. c \in CallsTo({"update"})
      BY <2>2 DEF TypeInv, StepsTyped
    <3>2. c \in AccountCalls /\ c.op = "update"
      BY <3>1, CallKinds
    <3> QED
      BY <1>2, <2>2, <3>2 DEF Directory!FailedAs
  <2>3. CASE pc[t] = "delete"
    <3>1. c \in CallsTo({"delete"})
      BY <2>3 DEF TypeInv, StepsTyped
    <3>2. c \in AccountCalls /\ c.op = "delete"
      BY <3>1, CallKinds
    <3> QED
      BY <1>2, <2>3, <3>2 DEF Directory!FailedAs
  <2> QED
    BY <1>1, <2>1, <2>2, <2>3
<1>4. Outcome(t) = None /\ Outcome(t)' = Answer(status, None)
  <2>1. ~taken[t]
    BY <1>1 DEF CallsInv, CallInv
  <2> QED
    BY <1>1, <1>2, <2>1, CallOutcome, CallOutcomeNext
<1>5. Directory!Become(t, Accounts, Answer(status, None))
  BY <1>1, <1>3, <1>4, CallSettles, TableIsShown
<1>6. Directory!Fail(t, c)
  BY <1>1, <1>3, <1>5, SameAnswers DEF Directory!Fail
<1> QED
  BY <1>3, <1>4, <1>6, ServedCall DEF Directory!Serve

\* An update settles with its statement: a clash of keys refuses it.
LEMMA UpdatingSettles ==
  ASSUME TypeInv, TypeInv', OwnersInv, CallsInv, NEW t \in Threads, UpdateUserById(t)
  PROVE  Directory!Serve(t)
<1>0. PICK c : c = call[t]
  OBVIOUS
<1> DEFINE to == Value(c.change, "user_id", c.id)
           new == Changed(users[c.id], c.change)
<1>1. ThreadActs(t) /\ pc[t] = "update" /\ call' = call
  BY DEF ThreadActs, ThreadStep, UpdateUserById
<1>2. c \in AccountCalls /\ c.op = "update" /\ c.id \in Ids /\ c.change \in Changes
  <2>1. c \in CallsTo({"update"})
    BY <1>0, <1>1 DEF TypeInv, StepsTyped
  <2> QED
    BY <2>1, CallKinds, FieldsOfCalls
<1>3. Outcome(t) = None
  <2>1. ~taken[t]
    BY <1>1 DEF CallsInv, CallInv
  <2> QED
    BY <1>1, <2>1, CallOutcome
<1>4. ASSUME NEW status, Respond(t, "update", Answer(status, None)),
             Write(users') \/ (users' = users /\ past' = past)
      PROVE  Directory!Become(t, TableShown(users'), Directory!Answer(status, None))
  <2>1. pc'[t] = "answer" /\ answer'[t] = Answer(status, None)
    BY <1>4 DEF Respond, Goto, TypeInv, TypeOK, TableTyped
  <2>2. Outcome(t)' = Answer(status, None)
    BY <1>1, <2>1, CallOutcomeNext
  <2> QED
    BY <1>0, <1>1, <1>2, <1>3, <1>4, <2>2, CallSettles, SameAnswers
<1>5. users \in Table /\ Accounts = TableShown(users)
  BY TableTypes, TableIsShown
<1>6. \A i \in Ids : /\ Accounts[i] # None <=> users[i] # None
                     /\ users[i] # None => /\ Accounts[i].username = users[i].username
                                           /\ Accounts[i].email = users[i].email
                                           /\ Accounts[i].password = users[i].password
  BY <1>5, ShownRows
<1>7. Clash(c) <=> Directory!Refused(c)
  BY <1>6 DEF Clash, Directory!Refused
<1>8. NamesNothing(c.change) <=> Directory!Empty(c.change)
  BY DEF NamesNothing, Directory!Empty
<1>9. Directory!Amend(t, c) => Directory!Serve(t)
  BY <1>0, <1>2, <1>3, ServedCall DEF Directory!Serve
<1>10. CASE /\ NamesNothing(c.change) \/ (users[c.id] # None /\ Clash(c))
            /\ Respond(t, "update", Answer(400, None)) /\ UNCHANGED <<table, past>>
  <2>1. users' = users /\ past' = past
    BY <1>10 DEF table
  <2>2. Directory!Become(t, Accounts, Directory!Answer(400, None))
    BY <1>4, <1>5, <1>10, <2>1
  <2> QED
    BY <1>2, <1>6, <1>7, <1>8, <1>9, <1>10, <2>2 DEF Directory!Amend
<1>11. CASE /\ ~NamesNothing(c.change) /\ users[c.id] = None
            /\ Respond(t, "update", Answer(200, None)) /\ UNCHANGED <<table, past>>
  <2>1. users' = users /\ past' = past
    BY <1>11 DEF table
  <2>2. Directory!Become(t, Accounts, Directory!Answer(200, None))
    BY <1>4, <1>5, <1>11, <2>1
  <2> QED
    BY <1>2, <1>6, <1>8, <1>9, <1>11, <2>2 DEF Directory!Amend
<1>12. CASE /\ ~NamesNothing(c.change) /\ users[c.id] # None /\ ~Clash(c)
            /\ Respond(t, "update", Answer(200, None))
            /\ Write([users EXCEPT ![c.id] = None, ![to] = new])
  <2>1. users' = [users EXCEPT ![c.id] = None, ![to] = new] /\ Write(users')
    BY <1>12 DEF Write
  <2>2. users[c.id] \in Account
    BY <1>2, <1>5, <1>12 DEF Table
  <2>3. to \in Ids /\ to = Directory!Set(c.change, "user_id", c.id)
    BY <1>2, AccountsAssumption DEF Value, Directory!Set
  <2>4. new \in Account /\ new # None /\ Shown(new) = Directory!Amended(Accounts[c.id], c.change)
    <3>1. new \in Account
      BY <1>2, <2>2, ChangedAccount
    <3>2. new # None
      BY <3>1, AccountsAssumption DEF Account
    <3>3. Shown(new) = [username |-> new.username, email |-> new.email,
                        password |-> new.password]
      BY <3>2 DEF Shown
    <3> HIDE DEF to
    <3>4. /\ new.username = Directory!Set(c.change, "username", Accounts[c.id].username)
          /\ new.email = Directory!Set(c.change, "email", Accounts[c.id].email)
          /\ new.password = Directory!Set(c.change, "password", Accounts[c.id].password)
      BY <1>2, <1>6, <1>12 DEF Changed, Value, Directory!Set
    <3> QED
      BY <3>1, <3>2, <3>3, <3>4 DEF Directory!Amended
  <2> HIDE DEF to, new
  <2>5. TableShown(users') = [Accounts EXCEPT ![c.id] = None, ![to] = Shown(new)]
    <3>1. PICK gone : gone = [users EXCEPT ![c.id] = None]
      OBVIOUS
    <3>2. gone \in Table /\ users' = [gone EXCEPT ![to] = new]
      BY <1>2, <1>5, <2>1, <2>3, <3>1 DEF Table
    <3>3. TableShown(gone) = [Accounts EXCEPT ![c.id] = Shown(None)]
      BY <1>2, <1>5, <3>1, ShownChange
    <3>4. TableShown(users') = [TableShown(gone) EXCEPT ![to] = Shown(new)]
      BY <2>3, <3>2, ShownChange
    <3>5. Shown(None) = None
      BY DEF Shown
    <3> QED
      BY <3>3, <3>4, <3>5
  <2>6. Directory!Become(t, [Accounts EXCEPT ![c.id] = None, ![to] = Shown(new)],
                         Directory!Answer(200, None))
    BY <1>4, <1>12, <2>1, <2>5
  <2>7. Accounts[c.id] # None /\ ~Directory!Refused(c) /\ ~Directory!Empty(c.change)
    BY <1>2, <1>6, <1>7, <1>8, <1>12
  <2> QED
    BY <2>3, <2>4, <2>6, <2>7, <1>9 DEF Directory!Amend
<1> QED
  BY <1>0, <1>10, <1>11, <1>12 DEF UpdateUserById

\* A signup that is refused already, the event of one that is made, the token of a
\* login that has its account: what they answer was settled before.
LEMMA AnsweringSettlesNothing ==
  ASSUME TypeInv, OwnersInv, CallsInv, NEW t \in Threads,
         RefuseTaken(t) \/ ProduceNewUser(t) \/ GenerateToken(t)
  PROVE  UNCHANGED Directory!directory
<1>1. /\ ThreadActs(t) /\ pc'[t] = "answer"
      /\ users' = users /\ call' = call /\ past' = past
  BY DEF ThreadActs, ThreadStep, RefuseTaken, ProduceNewUser, GenerateToken, Respond, Goto,
         table, TypeInv, TypeOK
<1>2. Outcome(t)' = answer'[t]
  BY <1>1, CallOutcomeNext
<1>3. CASE RefuseTaken(t)
  <2>1. Outcome(t) = Answer(409, None) /\ answer'[t] = Answer(409, None)
    BY <1>3, CallOutcome DEF RefuseTaken, Respond, TypeInv, TableTyped
  <2> QED
    BY <1>1, <1>2, <2>1, NothingSettles
<1>4. CASE ProduceNewUser(t)
  <2>1. pc[t] = "announce" /\ answer'[t] = Answer(201, None)
    BY <1>4 DEF ProduceNewUser, Respond, Goto, TypeInv, TableTyped
  <2> QED
    BY <1>1, <1>2, <2>1, CallOutcome, NothingSettles
<1>5. CASE GenerateToken(t)
  <2>1. pc[t] = "issue" /\ answer'[t] = Answer(200, row[t].subject)
    BY <1>5 DEF GenerateToken, Respond, Goto, TypeInv, TableTyped
  <2>2. call[t] \in CallsTo({"login", "refresh"})
    BY <2>1 DEF OwnersInv
  <2>3. call[t] \in AccountCalls => call[t].op = "login"
    BY <2>2, CallKinds DEF CallsTo
  <2> QED
    BY <1>1, <1>2, <2>1, <2>3, CallOutcome, NothingSettles
<1> QED
  BY <1>3, <1>4, <1>5

\* Calls with tokens, and those answered at once, are not the directory's.
LEMMA TokensSettleNothing ==
  ASSUME TypeInv, OwnersInv, CallsInv, NEW t \in Threads,
         Verify(t) \/ GetMe(t) \/ \E status \in {200, 400} : AnswerAtOnce(t, status)
  PROVE  UNCHANGED Directory!directory
<1>1. /\ ThreadActs(t) /\ pc[t] \in {"verify", "profile", "idle"}
      /\ users' = users /\ call' = call /\ past' = past
  BY DEF ThreadActs, ThreadStep, Verify, GetMe, AnswerAtOnce, Respond, Goto, table
<1>2. call[t] \notin AccountCalls
  <2>1. \/ call[t] \in CallsTo({"me", "refresh", "introspect"})
        \/ call[t] \in CallsTo({"me"})
        \/ call[t] = None
    BY <1>1, ZenonT(40) DEF TypeInv, StepsTyped
  <2> QED
    BY <2>1, CallKinds
<1> QED
  BY <1>1, <1>2, NothingSettles

\* The answer reaches the client.
LEMMA ReplyFinishes ==
  ASSUME TypeInv, OwnersInv, CallsInv, NEW t \in Threads, Reply(t)
  PROVE  Directory!Finish(t) \/ UNCHANGED Directory!directory
<1>1. /\ ThreadActs(t) /\ pc[t] = "answer" /\ users' = users
      /\ call' = [call EXCEPT ![t] = None] /\ past' = [past EXCEPT ![t] = {}]
      /\ call'[t] = None
  BY DEF ThreadActs, ThreadStep, Reply, Goto, table, TypeInv, TableTyped
<1>2. Accounts' = Accounts
  BY <1>1 DEF Accounts
<1>3. ASSUME NEW x \in Threads
      PROVE  /\ Serving'[x] = IF x = t THEN None ELSE Serving[x]
             /\ Outcomes'[x] = IF x = t THEN None ELSE Outcomes[x]
  <2>1. x # t => Outcome(x)' = Outcome(x) /\ call'[x] = call[x]
    BY <1>1, OthersKeepCall, OthersWait
  <2>2. None \notin AccountCalls
    BY AccountsAssumption
  <2> QED
    BY <1>1, <2>1, <2>2 DEF Serving, Outcomes
<1>4. /\ Serving' = [x \in Threads |-> Serving'[x]] /\ Serving = [x \in Threads |-> Serving[x]]
      /\ Outcomes' = [x \in Threads |-> Outcomes'[x]] /\ Outcomes = [x \in Threads |-> Outcomes[x]]
  BY DEF Serving, Outcomes
<1>5. CASE call[t] \in AccountCalls
  <2>1. Outcomes[t] # None
    <3>1. Outcome(t) # None
      BY <1>1, CallOutcome DEF CallsInv, CallInv
    <3> QED
      BY <1>5, <3>1, ServedCall
  <2>2. /\ Serving' = [Serving EXCEPT ![t] = None]
        /\ Outcomes' = [Outcomes EXCEPT ![t] = None]
    BY <1>3, <1>4
  <2> QED
    BY <1>1, <1>2, <2>1, <2>2 DEF Directory!Finish
<1>6. CASE call[t] \notin AccountCalls
  <2>1. Serving[t] = None /\ Outcomes[t] = None
    BY <1>6 DEF Serving, Outcomes
  <2>2. Serving' = Serving /\ Outcomes' = Outcomes
    BY <1>3, <1>4, <2>1
  <2>3. past' = past
    <3>1. past[t] = {} /\ past = [x \in Threads |-> past[x]]
      BY <1>6 DEF CallsInv, CallInv
    <3> QED
      BY <1>1, <3>1
  <2> QED
    BY <1>2, <2>2, <2>3 DEF Directory!directory
<1> QED
  BY <1>5, <1>6

\* A call comes; those with tokens do not come to the directory.
LEMMA AcceptBegins ==
  ASSUME TypeInv, OwnersInv, CallsInv, NEW t \in Threads,
         NEW c \in AccountCalls \cup Presented, Accept(t, c)
  PROVE  (c \in AccountCalls /\ Directory!Begin(t, c)) \/ UNCHANGED Directory!directory
<1>1. /\ ThreadActs(t) /\ pc[t] = "idle" /\ call[t] = None /\ users' = users /\ taken' = taken
      /\ call' = [call EXCEPT ![t] = c] /\ call'[t] = c
      /\ past' = [past EXCEPT ![t] = IF c.op = "password" THEN PasswordNow(users, c.id) ELSE {}]
      /\ pc'[t] = FirstStep(c.op)
  BY DEF ThreadActs, Accept, Goto, table, TypeInv, TypeOK, TableTyped, StepsTyped
<1>2. /\ c.op \in {"signup", "login", "password", "update", "delete", "me", "refresh", "introspect"}
      /\ c \in AccountCalls \/ c.op \in {"me", "refresh", "introspect"}
      /\ None \notin AccountCalls
  BY CallKinds
<1>3. Outcome(t)' = None
  <2>1. pc'[t] \notin {"announce", "issue", "answer"}
    BY <1>1, <1>2 DEF FirstStep
  <2>2. ~taken[t]
    BY <1>1 DEF CallsInv, CallInv
  <2> QED
    BY <1>1, <2>1, <2>2, CallOutcomeNext
<1>4. Accounts' = Accounts
  BY <1>1 DEF Accounts
<1>5. ASSUME NEW x \in Threads
      PROVE  /\ Serving'[x] = IF x = t /\ c \in AccountCalls THEN c ELSE Serving[x]
             /\ Outcomes'[x] = Outcomes[x]
  <2>1. x # t => Outcome(x)' = Outcome(x) /\ call'[x] = call[x]
    BY <1>1, OthersKeepCall, OthersWait
  <2> QED
    BY <1>1, <1>2, <1>3, <2>1 DEF Serving, Outcomes
<1>6. /\ Serving' = [x \in Threads |-> Serving'[x]] /\ Serving = [x \in Threads |-> Serving[x]]
      /\ Outcomes' = [x \in Threads |-> Outcomes'[x]] /\ Outcomes = [x \in Threads |-> Outcomes[x]]
  BY DEF Serving, Outcomes
<1>7. Outcomes' = Outcomes
  BY <1>5, <1>6
<1>8. CASE c \in AccountCalls
  <2>1. Serving' = [Serving EXCEPT ![t] = c] /\ Serving[t] = None
    <3>1. Serving' = [Serving EXCEPT ![t] = c]
      BY <1>5, <1>6, <1>8
    <3>2. Serving[t] = None
      BY <1>1, <1>2 DEF Serving
    <3> QED
      BY <3>1, <3>2
  <2>2. c.op = "password" => Directory!PasswordsOf(Accounts, c.id) = PasswordNow(users, c.id)
    <3>1. c.op = "password" => c.id \in Ids
      BY <1>8 DEF AccountCalls
    <3> QED
      BY <3>1, PasswordsShown, TableTypes, TableIsShown
  <2>3. past' = [past EXCEPT ![t] = IF c.op = "password"
                                    THEN Directory!PasswordsOf(Accounts, c.id) ELSE {}]
    BY <1>1, <2>2
  <2> QED
    BY <1>4, <1>7, <1>8, <2>1, <2>3 DEF Directory!Begin
<1>9. CASE c \notin AccountCalls
  <2>1. Serving' = Serving
    BY <1>5, <1>6, <1>9
  <2>2. past' = past
    <3>1. past[t] = {} /\ past = [x \in Threads |-> past[x]]
      BY <1>1 DEF CallsInv, CallInv
    <3>2. c.op # "password"
      BY <1>2, <1>9
    <3> QED
      BY <1>1, <3>1, <3>2
  <2> QED
    BY <1>4, <1>7, <2>1, <2>2 DEF Directory!directory
<1> QED
  BY <1>8, <1>9

\* Restarts: of a server that has no call, with a new database; after a crash, with
\* the old one.
LEMMA RestartLoses ==
  ASSUME TypeInv, CallsInv, StopAndStart \/ CrashAndStart
  PROVE  Directory!Restart(Accounts) \/ Directory!Restart([i \in Ids |-> None])
<1>1. None \notin AccountCalls
  BY AccountsAssumption
<1>2. CASE CrashAndStart
  <2>1. /\ users' = users /\ call' = [t \in Threads |-> None] /\ past' = [t \in Threads |-> {}]
    BY <1>2 DEF CrashAndStart, table
  <2>2. /\ Serving' = [t \in Threads |-> None] /\ Outcomes' = [t \in Threads |-> None]
        /\ Accounts' = Accounts
    BY <1>1, <2>1 DEF Serving, Outcomes, Accounts
  <2>3. Directory!Restart(Accounts)
    BY <2>1, <2>2 DEF Directory!Restart
  <2> QED
    BY <2>3
<1>3. CASE StopAndStart
  <2>1. /\ users' = [i \in Ids |-> None] /\ call' = call /\ past' = past
        /\ \A t \in Threads : call[t] = None /\ past[t] = {}
    BY <1>3 DEF StopAndStart, threads, TypeInv, StepsTyped, CallsInv, CallInv
  <2>2. past' = [t \in Threads |-> {}]
    BY <2>1 DEF CallsInv
  <2>3. Serving' = [t \in Threads |-> None] /\ Outcomes' = [t \in Threads |-> None]
    BY <1>1, <2>1 DEF Serving, Outcomes
  <2>4. Accounts' = [i \in Ids |-> None]
    BY <2>1 DEF Accounts
  <2>5. Directory!Restart([i \in Ids |-> None])
    BY <2>2, <2>3, <2>4 DEF Directory!Restart
  <2> QED
    BY <2>5
<1> QED
  BY <1>2, <1>3

LEMMA AccountsDirectoryInit == Init => Directory!DirectoryInit
<1> SUFFICES ASSUME Init PROVE Directory!DirectoryInit
  OBVIOUS
<1>1. None \notin AccountCalls
  BY AccountsAssumption
<1> QED
  BY <1>1 DEF Init, ThreadsInit, Accounts, Serving, Outcomes, Directory!DirectoryInit

LEMMA AccountsDirectoryStep ==
  TypeInv /\ TypeInv' /\ OwnersInv /\ CallsInv /\ [Next]_vars
     => [Directory!DirectoryNext]_(Directory!directory)
<1> SUFFICES ASSUME TypeInv, TypeInv', OwnersInv, CallsInv, [Next]_vars
             PROVE  Directory!DirectoryNext \/ UNCHANGED Directory!directory
  OBVIOUS
<1>1. ASSUME NEW t \in Threads, ThreadStep(t)
      PROVE  Directory!Serve(t) \/ Directory!Finish(t) \/ UNCHANGED Directory!directory
  <2>1. CASE CheckUserAvailability(t) \/ CheckNewUser(t) \/ AddUserToDB(t) \/ FailToAdd(t)
    BY <2>1, LookingSettles, AddingSettles, RefusingSettles
  <2>2. CASE RefuseTaken(t) \/ ProduceNewUser(t) \/ GenerateToken(t)
    BY <2>2, AnsweringSettlesNothing
  <2>3. CASE Login(t) \/ ReadPassword(t) \/ UpdateUserPassword(t)
    BY <2>3, LoginSettles, PasswordReadSettles, PasswordSettles
  <2>4. CASE UpdateUserById(t) \/ DeleteUserById(t) \/ FailStatement(t)
    BY <2>4, UpdatingSettles, DeletingSettles, FailingSettles
  <2>5. CASE Verify(t) \/ GetMe(t) \/ Reply(t)
    BY <2>5, TokensSettleNothing, ReplyFinishes
  <2> QED
    BY <1>1, <2>1, <2>2, <2>3, <2>4, <2>5 DEF ThreadStep
<1>2. ASSUME NEW t \in Threads, ThreadActs(t)
      PROVE  Directory!DirectoryNext \/ UNCHANGED Directory!directory
  <2>1. CASE ThreadStep(t)
    BY <1>1, <2>1 DEF Directory!DirectoryNext
  <2>2. CASE \E c \in AccountCalls \cup Presented : Accept(t, c)
    BY <2>2, AcceptBegins DEF Directory!DirectoryNext
  <2>3. CASE \E status \in {200, 400} : AnswerAtOnce(t, status)
    BY <2>3, TokensSettleNothing
  <2> QED
    BY <1>2, <2>1, <2>2, <2>3 DEF ThreadActs
<1>3. CASE StopAndStart \/ CrashAndStart
  BY <1>3, RestartLoses DEF Directory!DirectoryNext
<1>4. CASE Tick \/ UNCHANGED vars
  <2>1. UNCHANGED <<users, threads>>
    BY <1>4 DEF Tick, vars, table
  <2> QED
    BY <2>1 DEF threads, Directory!directory, Accounts, Serving, Outcomes, Outcome
<1> QED
  BY <1>2, <1>3, <1>4, NextByActor

\* However calls overlap, UserManager is a directory of accounts: every answer is
\* right at some moment of its call.
THEOREM AccountsAreDirectory == Spec => IsAccountDirectory
<1>1. TypeInv /\ TypeInv' /\ OwnersInv /\ CallsInv /\ [Next]_vars
         => [Directory!DirectoryNext]_(Directory!directory)
  BY AccountsDirectoryStep
<1> QED
  BY <1>1, AccountsDirectoryInit, AccountsTyping, AccountsOwners, AccountCallsKept, PTL
  DEF Spec, IsAccountDirectory, Directory!DirectorySpec

-----------------------------------------------------------------------------
(* Pages *)

RankOf(S, n) == Cardinality({m \in S : m <= n})

LEMMA RankGrows ==
  ASSUME NEW S, IsFiniteSet(S), S \subseteq Nat, NEW m \in S, NEW n \in S
  PROVE  /\ RankOf(S, n) \in 1 .. Cardinality(S)
         /\ m < n <=> RankOf(S, m) < RankOf(S, n)
<1> DEFINE Low(x) == {y \in S : y <= x}
<1>1. \A x : IsFiniteSet(Low(x)) /\ Cardinality(Low(x)) \in Nat
               /\ Cardinality(Low(x)) <= Cardinality(S)
  <2> TAKE x
  <2>1. Low(x) \in SUBSET S
    OBVIOUS
  <2> HIDE DEF Low
  <2> QED
    BY <2>1, FS_Subset, FS_CardinalityType
<1>2. Cardinality(S) \in Nat
  BY FS_CardinalityType
<1>3. \A x \in S : x \in Nat /\ Cardinality(Low(x)) # 0
  <2> TAKE x \in S
  <2>1. x \in Nat /\ x \in Low(x)
    OBVIOUS
  <2> HIDE DEF Low
  <2> QED
    BY <1>1, <2>1, FS_EmptySet
<1>4. ASSUME NEW x \in S, NEW y \in S, x < y
      PROVE  Cardinality(Low(x)) < Cardinality(Low(y))
  <2>1. x \in Nat /\ y \in Nat
    OBVIOUS
  <2>2. Low(x) \in SUBSET Low(y)
    <3>1. \A z \in Low(x) : z \in S /\ z \in Nat /\ z <= x
      OBVIOUS
    <3>2. \A z \in Low(x) : z <= y
      BY <1>4, <2>1, <3>1
    <3> QED
      BY <3>1, <3>2
  <2>3. y \in Low(y) /\ y \notin Low(x)
    BY <1>4, <2>1
  <2> HIDE DEF Low
  <2>4. Low(x) # Low(y)
    BY <2>3
  <2>5. Cardinality(Low(x)) <= Cardinality(Low(y)) /\ Cardinality(Low(y)) # Cardinality(Low(x))
    BY <1>1, <2>2, <2>4, FS_Subset
  <2> QED
    BY <1>1, <2>5
<1>5. RankOf(S, m) = Cardinality(Low(m)) /\ RankOf(S, n) = Cardinality(Low(n))
  BY DEF RankOf
<1> HIDE DEF Low
<1>6. m < n => RankOf(S, m) < RankOf(S, n)
  BY <1>4, <1>5
<1>7. ~(m < n) => ~(RankOf(S, m) < RankOf(S, n))
  <2> SUFFICES ASSUME ~(m < n) PROVE ~(RankOf(S, m) < RankOf(S, n))
    OBVIOUS
  <2>1. m = n \/ n < m
    BY <1>3
  <2>2. CASE m = n
    BY <1>1, <1>5, <2>2
  <2>3. CASE n < m
    BY <1>1, <1>4, <1>5, <2>3
  <2> QED
    BY <2>1, <2>2, <2>3
<1>8. RankOf(S, n) \in 1 .. Cardinality(S)
  BY <1>1, <1>2, <1>3, <1>5
<1> QED
  BY <1>6, <1>7, <1>8

LEMMA RanksReached ==
  ASSUME NEW S, IsFiniteSet(S), S \subseteq Nat, NEW r \in 1 .. Cardinality(S)
  PROVE  \E n \in S : RankOf(S, n) = r
<1> DEFINE rank == [n \in S |-> RankOf(S, n)]
<1> PICK c : c = Cardinality(S)
  OBVIOUS
<1>1. c \in Nat /\ IsFiniteSet(1 .. c) /\ Cardinality(1 .. c) = c
  BY FS_CardinalityType, FirstNumbers
<1>2. \A n \in S : RankOf(S, n) \in 1 .. c
  BY RankGrows
<1>3. ASSUME NEW m \in S, NEW n \in S, m # n PROVE RankOf(S, m) # RankOf(S, n)
  <2>1. m \in Nat /\ n \in Nat
    OBVIOUS
  <2>2. m < n \/ n < m
    BY <1>3, <2>1
  <2>3. RankOf(S, m) < RankOf(S, n) \/ RankOf(S, n) < RankOf(S, m)
    BY <2>2, RankGrows
  <2>4. RankOf(S, m) \in Nat /\ RankOf(S, n) \in Nat
    BY <1>1, <1>2
  <2> QED
    BY <2>3, <2>4
<1>4. rank \in Injection(S, 1 .. c)
  BY <1>2, <1>3 DEF Injection, IsInjective
<1>5. rank \in Surjection(S, 1 .. c)
  <2> HIDE DEF rank
  <2> QED
    BY <1>1, <1>4, FS_Injection
<1>6. PICK n \in S : rank[n] = r
  <2> HIDE DEF rank
  <2> QED
    BY <1>5 DEF Surjection
<1> QED
  BY <1>6

\* What a page holds.
IsPage(page, S, offset, limit) ==
    /\ Len(page) \in 0 .. limit /\ page \in [1 .. Len(page) -> S]
    /\ \A k \in 1 .. Len(page) : RankOf(S, page[k]) = offset + k
    /\ \A n \in S : n \in Range(page) <=>
          offset < RankOf(S, n) /\ RankOf(S, n) <= offset + limit
    /\ Len(page) = limit <=> offset + limit <= Cardinality(S)

OldestFirst(S, offset, limit) ==
    Page(S, LAMBDA n : Cardinality({m \in S : m <= n}), offset, limit)

LEMMA PageHolds ==
  ASSUME NEW S, IsFiniteSet(S), S \subseteq Nat, NEW offset \in Nat, NEW limit \in Nat \ {0},
         NEW page, page = OldestFirst(S, offset, limit)
  PROVE  IsPage(page, S, offset, limit)
<1> PICK c : c = Cardinality(S)
  OBVIOUS
<1> PICK len : len = Min({limit, Max({c - offset, 0})})
  OBVIOUS
<1>1. c \in Nat
  BY FS_CardinalityType
<1>2. PICK room : room = Max({c - offset, 0})
  OBVIOUS
<1>3. (room = c - offset \/ room = 0) /\ room >= c - offset /\ room >= 0
  <2>1. \E x \in {c - offset, 0} : \A y \in {c - offset, 0} : x >= y
    BY <1>1
  <2> QED
    BY <1>2, <2>1 DEF Max
<1>4. room \in Nat
  BY <1>1, <1>3
<1>5. (len = limit \/ len = room) /\ len <= limit /\ len <= room
  <2>1. \E x \in {limit, room} : \A y \in {limit, room} : x <= y
    BY <1>4
  <2> QED
    BY <1>2, <2>1 DEF Min
<1>6. page = [k \in 1 .. len |-> CHOOSE n \in S : RankOf(S, n) = offset + k]
  BY DEF OldestFirst, Page, RankOf
<1>7. len \in Nat /\ len \in 0 .. limit
  BY <1>4, <1>5
<1>8. Len(page) = len /\ DOMAIN page = 1 .. len
  BY <1>6, <1>7
<1>9. \A k \in 1 .. len : offset + k \in 1 .. c
  BY <1>1, <1>3, <1>4, <1>5, <1>7
<1>10. \A k \in 1 .. len : page[k] \in S /\ RankOf(S, page[k]) = offset + k
  <2> TAKE k \in 1 .. len
  <2> PICK r : r = offset + k
    OBVIOUS
  <2>1. \E n \in S : RankOf(S, n) = r
    BY <1>9, RanksReached
  <2> QED
    BY <1>6, <2>1
<1>11. len = limit <=> offset + limit <= c
  BY <1>1, <1>3, <1>4, <1>5, <1>7
<1>12. ASSUME NEW n \in S
       PROVE  n \in Range(page) <=> offset < RankOf(S, n) /\ RankOf(S, n) <= offset + limit
  <2> PICK r : r = RankOf(S, n)
    OBVIOUS
  <2>1. r \in 1 .. c
    BY RankGrows
  <2>2. ASSUME n \in Range(page) PROVE offset < r /\ r <= offset + limit
    <3>1. PICK k \in 1 .. len : page[k] = n
      BY <1>8, <2>2 DEF Range
    <3>2. r = offset + k
      BY <1>10, <3>1
    <3> QED
      BY <1>7, <3>2
  <2>3. ASSUME offset < r, r <= offset + limit PROVE n \in Range(page)
    <3> PICK k : k = r - offset
      OBVIOUS
    <3>1. k \in 1 .. len
      BY <1>1, <1>3, <1>4, <1>5, <1>7, <2>1, <2>3
    <3>2. RankOf(S, page[k]) = r /\ page[k] \in S
      <4>1. offset + k = r
        BY <2>1
      <4> QED
        BY <1>10, <3>1, <4>1
    <3>3. page[k] = n
      <4>1. page[k] \in Nat /\ n \in Nat
        BY <3>2
      <4>2. ~(page[k] < n) /\ ~(n < page[k])
        <5> PICK z : z = page[k]
          OBVIOUS
        <5>1. z \in S /\ RankOf(S, z) = RankOf(S, n) /\ RankOf(S, n) \in Int
          BY <2>1, <3>2
        <5>2. z < n <=> RankOf(S, z) < RankOf(S, n)
          BY <5>1, RankGrows
        <5>3. n < z <=> RankOf(S, n) < RankOf(S, z)
          BY <5>1, RankGrows
        <5> QED
          BY <5>1, <5>2, <5>3
      <4> QED
        BY <4>1, <4>2
    <3> QED
      BY <1>8, <3>1, <3>3 DEF Range
  <2> QED
    BY <2>2, <2>3
<1> QED
  BY <1>6, <1>7, <1>8, <1>10, <1>11, <1>12 DEF IsPage

-----------------------------------------------------------------------------
(* Walks *)

\* The tables at the pages of a walk, and the pages.
IsWalk(T, page, P, L) ==
    /\ \A k \in 1 .. P : /\ IsFiniteSet(T[k]) /\ T[k] \subseteq Nat
                         /\ IsPage(page[k], T[k], (k - 1) * L, L)
    /\ \A k, l \in 1 .. P : k < l => \A i \in T[l] \ T[k], j \in T[k] : j < i

\* What lies below an account comes to be no more.
LEMMA RankSinks ==
  ASSUME NEW P \in Nat, NEW T, NEW page, NEW L, IsWalk(T, page, P, L),
         NEW k \in 1 .. P, NEW l \in 1 .. P, k <= l, NEW x \in T[k], NEW y \in T[l], y <= x
  PROVE  RankOf(T[l], y) <= RankOf(T[k], x)
<1> PICK A, B : A = {z \in T[l] : z <= y} /\ B = {z \in T[k] : z <= x}
  OBVIOUS
<1>1. /\ IsFiniteSet(T[k]) /\ T[k] \subseteq Nat /\ T[l] \subseteq Nat
      /\ k < l => \A i \in T[l] \ T[k], j \in T[k] : j < i
  BY DEF IsWalk
<1>2. ASSUME NEW z \in A PROVE z \in B
  <2>1. z \in T[l] /\ z \in Nat /\ y \in Nat /\ x \in Nat /\ z <= y
    BY <1>1
  <2>2. z <= x
    BY <2>1
  <2>3. z \in T[k]
    <3>1. CASE k = l
      BY <2>1, <3>1
    <3>2. CASE k < l
      <4>1. z \notin T[k] => x < z
        BY <1>1, <2>1, <3>2
      <4> QED
        BY <2>1, <2>2, <4>1
    <3> QED
      BY <3>1, <3>2
  <2> QED
    BY <2>2, <2>3
<1>3. A \in SUBSET B /\ B \in SUBSET T[k]
  BY <1>2
<1>4. IsFiniteSet(B)
  BY <1>1, <1>3, FS_Subset
<1>5. Cardinality(A) <= Cardinality(B)
  BY <1>3, <1>4, FS_Subset
<1> QED
  BY <1>5 DEF RankOf

LEMMA Multiples ==
  ASSUME NEW k \in Nat, NEW l \in Nat, k <= l, NEW L \in Nat
  PROVE  k * L \in Nat /\ l * L \in Nat /\ k * L <= l * L /\ (k + 1) * L = k * L + L
  OBVIOUS

\* The pages are one list in order.
LEMMA WalkInOrder ==
  ASSUME NEW P \in Nat, NEW T, NEW page, NEW L \in Nat \ {0}, IsWalk(T, page, P, L),
         NEW k \in 1 .. P, NEW l \in 1 .. P,
         NEW i \in 1 .. Len(page[k]), NEW j \in 1 .. Len(page[l]), k < l \/ (k = l /\ i < j)
  PROVE  page[k][i] < page[l][j]
<1> PICK x, y : x = page[k][i] /\ y = page[l][j]
  OBVIOUS
<1>1. /\ IsFiniteSet(T[k]) /\ T[k] \subseteq Nat /\ T[l] \subseteq Nat
      /\ IsPage(page[k], T[k], (k - 1) * L, L) /\ IsPage(page[l], T[l], (l - 1) * L, L)
  BY DEF IsWalk
<1>2. /\ x \in T[k] /\ RankOf(T[k], x) = (k - 1) * L + i /\ Len(page[k]) \in 0 .. L
      /\ y \in T[l] /\ RankOf(T[l], y) = (l - 1) * L + j /\ Len(page[l]) \in 0 .. L
  BY <1>1 DEF IsPage
<1>3. x \in Nat /\ y \in Nat
  BY <1>1, <1>2
<1>4. CASE k < l
  <2>1. (k - 1) * L \in Nat /\ (l - 1) * L \in Nat /\ k * L <= (l - 1) * L
    BY <1>4, Multiples, k \in Nat, l - 1 \in Nat, k - 1 \in Nat, k <= l - 1, k - 1 <= k
  <2>2. k * L = (k - 1) * L + L
    <3>1. k - 1 \in Nat /\ (k - 1) + 1 = k
      OBVIOUS
    <3> QED
      BY <3>1, Multiples
  <2>3. RankOf(T[k], x) < RankOf(T[l], y)
    <3> PICK a, b, c, m : a = (k - 1) * L /\ b = (l - 1) * L /\ c = k * L /\ m = Len(page[k])
      OBVIOUS
    <3>1. a \in Nat /\ b \in Nat /\ c \in Nat /\ m \in 0 .. L /\ i \in 1 .. m /\ j \in Nat /\ 1 <= j
      BY <1>2, <2>1, k \in Nat, Multiples
    <3>2. a + i < b + j
      <4>1. c <= b /\ c = a + L
        BY <2>1, <2>2
      <4>2. i \in Int /\ i <= m /\ m <= L
        BY <3>1
      <4> QED
        BY <3>1, <4>1, <4>2, SMTT(30)
    <3> QED
      BY <1>2, <3>2
  <2>4. ~(y <= x)
    <3>1. y <= x => RankOf(T[l], y) <= RankOf(T[k], x)
      BY <1>2, <1>4, RankSinks
    <3> QED
      BY <1>2, <2>1, <2>3, <3>1
  <2> QED
    BY <1>3, <2>4, SMTT(30)
<1>5. CASE k = l /\ i < j
  <2>1. (k - 1) * L \in Int
    OBVIOUS
  <2>2. RankOf(T[k], x) < RankOf(T[k], y)
    BY <1>2, <1>5, <2>1
  <2> QED
    BY <1>1, <1>2, <1>5, <2>2, RankGrows
<1> QED
  BY <1>4, <1>5

\* A page shows as many accounts as it is long.
LEMMA PageSize ==
  ASSUME NEW S, IsFiniteSet(S), S \subseteq Nat, NEW offset \in Nat, NEW limit \in Nat,
         NEW page, IsPage(page, S, offset, limit)
  PROVE  IsFiniteSet(Range(page)) /\ Cardinality(Range(page)) = Len(page)
<1> PICK len : len = Len(page)
  OBVIOUS
<1>1. /\ len \in 0 .. limit /\ page \in [1 .. len -> S]
      /\ \A k \in 1 .. len : RankOf(S, page[k]) = offset + k
  BY DEF IsPage
<1>2. len \in Nat
  BY <1>1
<1>3. IsFiniteSet(1 .. len) /\ Cardinality(1 .. len) = len
  BY <1>2, FirstNumbers
<1>4. page \in [1 .. len -> Range(page)]
  BY <1>1 DEF Range
<1>5. \A i, j \in 1 .. len : i # j => page[i] # page[j]
  <2> TAKE i, j \in 1 .. len
  <2>1. RankOf(S, page[i]) = offset + i /\ RankOf(S, page[j]) = offset + j
    BY <1>1
  <2>2. offset + i = offset + j => i = j
    OBVIOUS
  <2> QED
    BY <2>1, <2>2
<1>6. page \in Injection(1 .. len, Range(page))
  BY <1>4, <1>5 DEF Injection, IsInjective
<1>7. page \in Surjection(1 .. len, Range(page))
  BY <1>1, <1>4 DEF Surjection, Range
<1>8. IsFiniteSet(Range(page)) /\ Cardinality(Range(page)) <= len
  BY <1>3, <1>7, FS_Surjection
<1>9. len <= Cardinality(Range(page))
  BY <1>3, <1>6, <1>8, FS_Injection
<1> QED
  BY <1>2, <1>8, <1>9, FS_CardinalityType

ShownBy(page, k) == UNION {Range(page[j]) : j \in 1 .. k}

\* Full pages show a page more each.
LEMMA FullPages ==
  ASSUME NEW P \in Nat, NEW T, NEW page, NEW L \in Nat \ {0}, IsWalk(T, page, P, L),
         NEW n \in 0 .. P, \A k \in 1 .. n : Len(page[k]) = L
  PROVE  IsFiniteSet(ShownBy(page, n)) /\ Cardinality(ShownBy(page, n)) = n * L
<1> DEFINE Good == {k \in 0 .. n : /\ IsFiniteSet(ShownBy(page, k))
                                   /\ Cardinality(ShownBy(page, k)) = k * L}
<1>1. 0 \in Good
  <2>1. ShownBy(page, 0) = {}
    BY DEF ShownBy
  <2>2. 0 * L = 0 /\ 0 \in 0 .. n
    OBVIOUS
  <2> QED
    BY <2>1, <2>2, FS_EmptySet
<1>2. ASSUME NEW k \in 0 .. n - 1, k \in Good PROVE k + 1 \in Good
  <2> PICK m, a : m = k + 1 /\ a = k * L
    OBVIOUS
  <2>1. m \in 1 .. n /\ m \in 1 .. P /\ m \in 0 .. n /\ m - 1 = k /\ a \in Nat /\ m * L = a + L
    BY Multiples
  <2>2. /\ IsFiniteSet(T[m]) /\ T[m] \subseteq Nat /\ IsPage(page[m], T[m], a, L)
    BY <2>1 DEF IsWalk
  <2> DEFINE U == ShownBy(page, k)
             V == Range(page[m])
  <2>3. ShownBy(page, m) = U \cup V
    <3>1. 1 .. m = (1 .. k) \cup {m}
      BY <2>1
    <3> QED
      BY <3>1 DEF ShownBy
  <2>4. IsFiniteSet(U) /\ Cardinality(U) = a
    BY <1>2
  <2>5. IsFiniteSet(V) /\ Cardinality(V) = L
    BY <2>1, <2>2, PageSize
  <2>6. U \cap V = {}
    <3> SUFFICES ASSUME NEW x \in U, x \in V PROVE FALSE
      OBVIOUS
    <3>1. PICK l \in 1 .. k : x \in Range(page[l])
      BY DEF ShownBy
    <3>2. l \in 1 .. P /\ l < m /\ l \in 1 .. n
      BY <2>1, <3>1
    <3>3. IsPage(page[l], T[l], (l - 1) * L, L) /\ T[m] \subseteq Nat
      BY <2>2, <3>2 DEF IsWalk
    <3>4. DOMAIN page[l] = 1 .. Len(page[l]) /\ DOMAIN page[m] = 1 .. Len(page[m])
      BY <2>2, <3>3 DEF IsPage
    <3>5. PICK i \in 1 .. Len(page[l]) : page[l][i] = x
      BY <3>1, <3>4 DEF Range
    <3>6. PICK j \in 1 .. Len(page[m]) : page[m][j] = x
      BY <3>4 DEF Range
    <3>7. x < x
      BY <2>1, <3>2, <3>5, <3>6, WalkInOrder
    <3>8. x \in Nat
      BY <2>2, <3>6 DEF IsPage
    <3> QED
      BY <3>7, <3>8
  <2> HIDE DEF U, V
  <2>7. IsFiniteSet(U \cup V) /\ Cardinality(U \cup V) = a + L
    BY <2>1, <2>4, <2>5, <2>6, ApartTogether
  <2> QED
    BY <2>1, <2>3, <2>7
<1>3. n \in Good
  <2> HIDE DEF Good
  <2> QED
    BY <1>1, <1>2, Upward, n \in 0 .. n, n \in Nat
<1> QED
  BY <1>3

\* Who is never shown, though he is there all the time.
Missed(T, page, P) ==
    {i \in T[1] : \A k \in 1 .. P : i \in T[k] /\ i \notin Range(page[k])}

\* A walk that comes to an end misses no more of them than were deleted.
LEMMA WalkMissesFew ==
  ASSUME NEW P \in Nat \ {0}, NEW T, NEW page, NEW L \in Nat \ {0}, IsWalk(T, page, P, L),
         Len(page[P]) < L
  PROVE  Cardinality(Missed(T, page, P)) <= Cardinality(T[1] \ T[P])
<1> DEFINE M == Missed(T, page, P)
<1>1. 1 \in 1 .. P /\ P \in 1 .. P
  OBVIOUS
<1>2. \A k \in 1 .. P : /\ IsFiniteSet(T[k]) /\ T[k] \subseteq Nat
                        /\ IsPage(page[k], T[k], (k - 1) * L, L)
  BY DEF IsWalk
<1>3. /\ M \in SUBSET T[1] /\ IsFiniteSet(M) /\ M \subseteq Nat
      /\ IsFiniteSet(T[1] \ T[P]) /\ Cardinality(T[1] \ T[P]) \in Nat
  <2>1. M \in SUBSET T[1] /\ T[1] \ T[P] \in SUBSET T[1]
    BY DEF Missed
  <2> HIDE DEF M
  <2> QED
    BY <1>1, <1>2, <2>1, FS_Subset, FS_CardinalityType
<1>4. CASE M = {}
  BY <1>3, <1>4, FS_EmptySet
<1>5. CASE M # {}
  \* The largest of them, and the first page that ought to have come past him.
  <2>1. PICK x \in M : \A y \in M : y <= x
    <3> DEFINE d == [y \in M |-> y]
    <3>1. \A y \in M : d[y] \in Int
      BY <1>3
    <3> HIDE DEF M
    <3>2. \E x \in M : \A y \in M : d[y] <= d[x]
      <4> HIDE DEF d
      <4> QED
        BY <1>3, <1>5, <3>1, Farthest
    <3> QED
      BY <3>2
  <2>2. /\ x \in Nat /\ x \in T[1]
        /\ \A k \in 1 .. P : x \in T[k] /\ x \notin Range(page[k])
    BY <1>3, <2>1 DEF Missed
  <2> DEFINE rank == [k \in 1 .. P |-> RankOf(T[k], x)]
             Past == {k \in 1 .. P : rank[k] <= k * L}
  <2>3. \A k \in 1 .. P : rank[k] \in 1 .. Cardinality(T[k]) /\ Cardinality(T[k]) \in Nat
    BY <1>2, <2>2, RankGrows, FS_CardinalityType
  <2>4. \A k, l \in 1 .. P : k <= l => rank[l] <= rank[k]
    <3> TAKE k, l \in 1 .. P
    <3>1. x \in T[k] /\ x \in T[l] /\ x <= x
      BY <2>2
    <3> QED
      BY <3>1, RankSinks
  <2>5. P \in Past
    <3>1. (P - 1) * L + L = P * L
      <4>1. P - 1 \in Nat /\ (P - 1) + 1 = P
        OBVIOUS
      <4> QED
        BY <4>1, Multiples
    <3> PICK a, b, c : a = (P - 1) * L /\ b = P * L /\ c = Cardinality(T[P])
      OBVIOUS
    <3>2. ~(a + L <= c)
      BY <1>1, <1>2 DEF IsPage
    <3>3. a \in Int /\ b \in Int /\ c \in Int /\ rank[P] \in 1 .. c /\ a + L = b
      BY <1>1, <2>3, <3>1
    <3>4. rank[P] <= b
      BY <3>2, <3>3
    <3> QED
      BY <1>1, <3>4
  <2>6. PICK k \in Past : \A l \in Past : k <= l
    <3>1. Past \subseteq Nat /\ Past # {}
      BY <2>5
    <3> HIDE DEF Past
    <3> QED
      BY <3>1, LeastNumber
  <2> PICK n, a : n = k - 1 /\ a = n * L
    OBVIOUS
  <2>7. k \in 1 .. P /\ n \in Nat /\ n < k /\ a \in Nat /\ k * L = a + L /\ k = n + 1
    <3>1. k \in 1 .. P /\ n \in Nat /\ n + 1 = k
      OBVIOUS
    <3> QED
      BY <3>1, Multiples
  <2>8. rank[k] <= a
    <3>1. rank[k] <= a + L
      BY <2>6, <2>7
    <3>2. ~(a < rank[k] /\ rank[k] <= a + L)
      BY <1>2, <2>2, <2>7 DEF IsPage
    <3> QED
      BY <2>3, <2>7, <3>1, <3>2
  <2>9. n \in 1 .. P
    <3>1. n # 0
      <4> SUFFICES ASSUME n = 0 PROVE FALSE
        OBVIOUS
      <4>1. a = 0
        OBVIOUS
      <4> QED
        BY <2>3, <2>7, <2>8, <4>1
    <3> QED
      BY <2>7, <3>1
  <2>10. a < rank[n]
    <3>1. n \notin Past
      BY <2>6, <2>7, <2>9
    <3>2. ~(rank[n] <= a)
      BY <2>9, <3>1
    <3> QED
      BY <2>3, <2>7, <2>9, <3>2
  <2> HIDE DEF Past
  \* The pages before it are full of accounts below him, which were there from the start.
  <2>11. ASSUME NEW l \in 1 .. n
         PROVE  /\ Len(page[l]) = L
                /\ \A y \in Range(page[l]) : y \in T[1] /\ y \in Nat /\ y <= x
    <3> PICK b, e : b = l * L /\ e = (l - 1) * L
      OBVIOUS
    <3>1. l \in 1 .. P /\ l <= n
      BY <2>9
    <3>2. b \in Nat /\ e \in Nat /\ b <= a /\ b = e + L
      <4>1. l \in Nat /\ l - 1 \in Nat /\ (l - 1) + 1 = l
        OBVIOUS
      <4>2. b \in Nat /\ b <= a /\ e \in Nat
        BY <2>7, <3>1, <4>1, Multiples
      <4>3. b = e + L
        BY <4>1, Multiples
      <4> QED
        BY <4>2, <4>3
    <3>3. b < rank[l] /\ rank[l] \in Nat
      <4>1. rank[n] <= rank[l] /\ rank[n] \in Int /\ rank[l] \in Nat
        BY <2>3, <2>4, <2>9, <3>1
      <4> QED
        BY <2>7, <2>10, <3>2, <4>1
    <3>4. IsFiniteSet(T[l]) /\ T[l] \subseteq Nat /\ IsPage(page[l], T[l], e, L)
      BY <1>2, <3>1
    <3>5. Len(page[l]) = L
      <4>1. e + L <= Cardinality(T[l])
        BY <2>3, <3>1, <3>2, <3>3
      <4> QED
        BY <3>4, <4>1 DEF IsPage
    <3>6. ASSUME NEW y \in Range(page[l]) PROVE y \in T[1] /\ y \in Nat /\ y <= x
      <4>1. y \in T[l]
        BY <3>4 DEF IsPage, Range
      <4>2. RankOf(T[l], y) <= b /\ RankOf(T[l], y) \in Nat
        <5>1. RankOf(T[l], y) <= e + L
          BY <3>4, <4>1 DEF IsPage
        <5>2. RankOf(T[l], y) \in Nat
          BY <3>4, <4>1, RankGrows, FS_CardinalityType
        <5> QED
          BY <3>2, <5>1, <5>2
      <4>3. y < x
        <5>1. RankOf(T[l], y) < RankOf(T[l], x)
          BY <3>1, <3>2, <3>3, <4>2
        <5>2. x \in T[l]
          BY <2>2, <3>1
        <5> QED
          BY <3>4, <4>1, <5>1, <5>2, RankGrows
      <4>4. y \in Nat
        BY <3>4, <4>1
      <4>5. y \in T[1]
        <5>1. CASE l = 1
          BY <4>1, <5>1
        <5>2. CASE 1 < l
          <6>1. y \notin T[1] => x < y
            BY <1>1, <2>2, <3>1, <4>1, <5>2 DEF IsWalk
          <6> QED
            BY <2>2, <4>3, <4>4, <6>1
        <5> QED
          BY <3>1, <5>1, <5>2
      <4> QED
        BY <2>2, <4>3, <4>4, <4>5
    <3> QED
      BY <3>5, <3>6
  \* So there are no more accounts below him when that page is read than were shown by
  \* then, and who is missed makes up for one deleted.
  <2> DEFINE U == ShownBy(page, n)
             B == {y \in T[1] : y <= x}
             Remaining == B \cap T[k]
             Gone == B \ T[k]
  <2>12. IsFiniteSet(U) /\ Cardinality(U) = a
    <3>1. n \in 0 .. P /\ \A l \in 1 .. n : Len(page[l]) = L
      BY <2>9, <2>11
    <3>2. IsFiniteSet(ShownBy(page, n)) /\ Cardinality(ShownBy(page, n)) = n * L
      BY <3>1, FullPages
    <3> QED
      BY <3>2
  <2>13. U \in SUBSET B /\ M \in SUBSET B /\ M \cap U = {}
    <3>1. \A y \in U : \E l \in 1 .. n : y \in Range(page[l])
      BY DEF ShownBy
    <3>2. \A l \in 1 .. n : l \in 1 .. P
      BY <2>9
    <3>3. \A y \in M : y \in T[1] /\ y <= x /\ \A l \in 1 .. P : y \notin Range(page[l])
      BY <2>1 DEF Missed
    <3> HIDE DEF U, M
    <3> QED
      BY <2>11, <3>1, <3>2, <3>3
  <2>14. Gone \in SUBSET (T[1] \ T[P])
    <3> SUFFICES ASSUME NEW y \in Gone PROVE y \notin T[P]
      OBVIOUS
    <3>1. y \in T[1] /\ y \in Nat /\ y <= x /\ y \notin T[k]
      BY <1>1, <1>2
    <3>2. CASE k = P
      BY <3>1, <3>2
    <3>3. CASE k < P
      <4>1. y \in T[P] => x < y
        BY <1>1, <2>2, <2>7, <3>1, <3>3 DEF IsWalk
      <4> QED
        BY <2>2, <3>1, <4>1
    <3> QED
      BY <2>7, <3>2, <3>3
  <2>15. Remaining \in SUBSET {y \in T[k] : y <= x}
    OBVIOUS
  <2>16. IsFiniteSet(Remaining) /\ IsFiniteSet(Gone) /\ IsFiniteSet(B) /\ Remaining \cap Gone = {}
         /\ B = Remaining \cup Gone
    <3>1. B \in SUBSET T[1] /\ Remaining \in SUBSET B /\ Gone \in SUBSET B
      OBVIOUS
    <3>2. IsFiniteSet(B)
      <4> HIDE DEF B
      <4> QED
        BY <1>1, <1>2, <3>1, FS_Subset
    <3>3. Remaining \cap Gone = {} /\ B = Remaining \cup Gone
      OBVIOUS
    <3> HIDE DEF B, Remaining, Gone
    <3> QED
      BY <3>1, <3>2, <3>3, FS_Subset
  <2>17. Cardinality(Remaining) <= a /\ Cardinality(Remaining) \in Nat
    <3> DEFINE Low == {y \in T[k] : y <= x}
    <3>1. Cardinality(Low) = rank[k]
      BY <2>7 DEF RankOf
    <3>2. IsFiniteSet(Low)
      <4>1. Low \in SUBSET T[k]
        OBVIOUS
      <4> HIDE DEF Low
      <4> QED
        BY <1>2, <2>7, <4>1, FS_Subset
    <3> HIDE DEF Low, Remaining
    <3>3. Cardinality(Remaining) <= Cardinality(Low) /\ Cardinality(Remaining) \in Nat
      BY <2>15, <2>16, <3>2, FS_Subset, FS_CardinalityType DEF Low
    <3> QED
      BY <2>3, <2>7, <2>8, <3>1, <3>3
  <2> HIDE DEF U, B, Remaining, Gone, M, rank
  <2>18. Cardinality(B) = Cardinality(Remaining) + Cardinality(Gone) /\ Cardinality(Gone) \in Nat
    BY <2>16, ApartTogether, FS_CardinalityType
  <2>19. Cardinality(M) + a <= Cardinality(B) /\ Cardinality(M) \in Nat
    <3>1. IsFiniteSet(M \cup U) /\ Cardinality(M \cup U) = Cardinality(M) + Cardinality(U)
      BY <1>3, <2>12, <2>13, ApartTogether
    <3>2. M \cup U \in SUBSET B
      BY <2>13
    <3>3. Cardinality(M \cup U) <= Cardinality(B)
      BY <2>16, <3>2, FS_Subset
    <3> QED
      BY <1>3, <2>12, <3>1, <3>3, FS_CardinalityType
  <2>20. Cardinality(Gone) <= Cardinality(T[1] \ T[P])
    BY <1>3, <2>14, FS_Subset
  <2>21. Cardinality(M) <= Cardinality(Gone)
    BY <2>7, <2>17, <2>18, <2>19
  <2>22. Cardinality(M) \in Int /\ Cardinality(Gone) \in Int /\ Cardinality(T[1] \ T[P]) \in Int
    BY <1>3, <2>18, <2>19
  <2> QED
    BY <2>20, <2>21, <2>22 DEF M
<1> QED
  BY <1>4, <1>5

\* A client's parameters come through as they are.
LEMMA ParametersRead ==
  ASSUME NEW o \in Nat, NEW l \in 1 .. 100
  PROVE  Max({o, 0}) = o /\ Offset({o}) = o /\ Limit({l}) = l
<1>1. \A n : ParsePaginationParam({n}, 0) = n /\ ParsePaginationParam({n}, 25) = n
  BY DEF ParsePaginationParam
<1>2. Max({o, 0}) = o
  <2>1. o \in {o, 0} /\ \A y \in {o, 0} : o >= y
    OBVIOUS
  <2>2. Max({o, 0}) \in {o, 0} /\ \A y \in {o, 0} : Max({o, 0}) >= y
    BY <2>1 DEF Max
  <2> QED
    BY <2>2
<1>3. Max({l, 1}) = l
  <2>1. l \in {l, 1} /\ \A y \in {l, 1} : l >= y
    OBVIOUS
  <2>2. Max({l, 1}) \in {l, 1} /\ \A y \in {l, 1} : Max({l, 1}) >= y
    BY <2>1 DEF Max
  <2> QED
    BY <2>2
<1>4. Min({l, 100}) = l
  <2>1. l \in {l, 100} /\ \A y \in {l, 100} : l <= y
    OBVIOUS
  <2>2. Min({l, 100}) \in {l, 100} /\ \A y \in {l, 100} : Min({l, 100}) <= y
    BY <2>1 DEF Min
  <2> QED
    BY <2>2
<1> QED
  BY <1>1, <1>2, <1>3, <1>4 DEF Offset, Limit

\* Every walk shows the accounts.
LEMMA WalksShowAccounts ==
  ASSUME NEW tables \in Walks, NEW limit \in PageSizes
  PROVE  WalkShowsAccounts(tables, limit)
<1> DEFINE P == Len(tables)
           T == [k \in 1 .. P |-> DOMAIN tables[k]]
           page == [k \in DOMAIN tables |-> UsersPage(tables[k], {(k - 1) * limit}, {limit})]
           shown == UNION {Range(page[k]) : k \in DOMAIN tables}
           always == {i \in DOMAIN tables[1] : \A k \in DOMAIN tables : i \in DOMAIN tables[k]}
           deleted == DOMAIN tables[1] \ DOMAIN tables[Len(tables)]
<1>1. /\ limit \in 1 .. 100 /\ limit \in Nat \ {0}
      /\ P \in Nat \ {0} /\ DOMAIN tables = 1 .. P
      /\ \A k \in 1 .. P : IsFiniteSet(DOMAIN tables[k]) /\ DOMAIN tables[k] \subseteq Nat
      /\ \A k, l \in 1 .. P : k < l =>
            \A i \in DOMAIN tables[l] \ DOMAIN tables[k], j \in DOMAIN tables[k] : j < i
  <2>1. limit \in 1 .. 100 /\ limit \in Nat \ {0}
    <3>1. limit \in 1 .. 100
      BY QueriesAssumption
    <3> QED
      BY <3>1
  <2>2. /\ P \in Nat \ {0} /\ DOMAIN tables = 1 .. P
        /\ \A k \in 1 .. P : IsFiniteSet(DOMAIN tables[k]) /\ DOMAIN tables[k] \subseteq Nat
        /\ NumbersGrow(tables)
    BY QueriesAssumption
  <2> HIDE DEF P
  <2> QED
    BY <2>1, <2>2 DEF NumbersGrow
<1> HIDE DEF P
<1>2. \A k \in 1 .. P : IsPage(page[k], T[k], (k - 1) * limit, limit)
  <2> TAKE k \in 1 .. P
  <2> PICK o : o = (k - 1) * limit
    OBVIOUS
  <2>1. o \in Nat
    <3>1. k - 1 \in Nat /\ limit \in Nat
      BY <1>1
    <3> QED
      BY <3>1, Multiples
  <2>2. page[k] = GetUsersPaginated(tables[k], o, limit)
    <3>1. page[k] = UsersPage(tables[k], {o}, {limit})
      BY <1>1
    <3> QED
      BY <1>1, <2>1, <3>1, ParametersRead DEF UsersPage
  <2>3. Max({o, 0}) = o /\ ~(limit <= 0)
    <3>1. Max({o, 0}) = o
      BY <1>1, <2>1, ParametersRead
    <3>2. ~(limit <= 0)
      BY <1>1
    <3> QED
      BY <3>1, <3>2
  <2> PICK S, p : S = DOMAIN tables[k] /\ p = page[k]
    OBVIOUS
  <2>4. p = OldestFirst(S, o, limit)
    <3>1. GetUsersPaginated(tables[k], o, limit) = OldestFirst(DOMAIN tables[k], o, limit)
      BY <2>3 DEF GetUsersPaginated, OldestFirst
    <3> QED
      BY <2>2, <3>1
  <2>5. IsPage(p, S, o, limit)
    BY <1>1, <2>1, <2>4, PageHolds
  <2> QED
    BY <2>5
<1>3. IsWalk(T, page, P, limit)
  BY <1>1, <1>2 DEF IsWalk
<1>4. \A k \in 1 .. P : DOMAIN page[k] = 1 .. Len(page[k])
  BY <1>2 DEF IsPage
<1> HIDE DEF page
<1>5. ASSUME NEW k \in DOMAIN tables, NEW l \in DOMAIN tables,
             NEW i \in DOMAIN page[k], NEW j \in DOMAIN page[l], k < l \/ (k = l /\ i < j)
      PROVE  page[k][i] < page[l][j]
  <2>1. k \in 1 .. P /\ l \in 1 .. P /\ i \in 1 .. Len(page[k]) /\ j \in 1 .. Len(page[l])
    BY <1>1, <1>4
  <2> HIDE DEF T
  <2> QED
    BY <1>1, <1>3, <1>5, <2>1, WalkInOrder
<1>6. ASSUME Len(page[Len(tables)]) < limit
      PROVE  Cardinality(always \ shown) <= Cardinality(deleted)
  <2>1. Len(page[P]) < limit
    BY <1>6 DEF P
  <2>2. Cardinality(Missed(T, page, P)) <= Cardinality(T[1] \ T[P])
    <3> HIDE DEF T
    <3> QED
      BY <1>1, <1>3, <2>1, WalkMissesFew
  <2>3. T[1] \ T[P] = deleted
    BY <1>1 DEF P
  <2>4. Missed(T, page, P) = always \ shown
    <3>1. \A i : i \in shown <=> \E k \in 1 .. P : i \in Range(page[k])
      BY <1>1
    <3>2. \A i : i \in always <=> \A k \in 1 .. P : i \in T[k]
      BY <1>1
    <3>3. \A i : i \in Missed(T, page, P) <=>
                    \A k \in 1 .. P : i \in T[k] /\ i \notin Range(page[k])
      BY <1>1 DEF Missed
    <3> HIDE DEF T, shown, always
    <3> QED
      BY <3>1, <3>2, <3>3
  <2> QED
    BY <2>2, <2>3, <2>4
<1> QED
  BY <1>5, <1>6 DEF WalkShowsAccounts, page

\* The characters of names and of patterns.
Chars == Characters \cup {"\\", "%"}

-----------------------------------------------------------------------------
(* Text *)

LEMMA EscapedType ==
  ASSUME NEW e \in Seq(Chars), NEW c \in Chars
  PROVE  Escaped(e, c) \in Seq(Chars)
<1>1. "\\" \in Chars
  BY DEF Chars
<1>2. <<"\\", c>> \in Seq(Chars)
  BY <1>1
<1>3. e \o <<"\\", c>> \in Seq(Chars) /\ Append(e, c) \in Seq(Chars)
  BY <1>2, ConcatProperties, AppendProperties
<1> QED
  BY <1>3 DEF Escaped

EscapeOf(s) == FoldLeft(Escaped, <<>>, s)

Reads == [escape : BOOLEAN, text : Seq(Chars)]
Unread == [escape |-> FALSE, text |-> <<>>]

ReadOf(s) == FoldLeft(ReadOn, Unread, s)

LEMMA ReadOnType ==
  ASSUME NEW r \in Reads, NEW c \in Chars
  PROVE  ReadOn(r, c) \in Reads
<1>1. "\\" \in Chars
  BY DEF Chars
<1>2. <<"\\", c>> \in Seq(Chars) /\ <<c>> \in Seq(Chars)
  BY <1>1
<1>3. r.text \in Seq(Chars) /\ r.escape \in BOOLEAN
  BY DEF Reads
<1>4. /\ r.text \o <<"\\", c>> \in Seq(Chars) /\ r.text \o <<c>> \in Seq(Chars)
      /\ Append(r.text, c) \in Seq(Chars)
  BY <1>2, <1>3, ConcatProperties, AppendProperties
<1>5. CASE r.escape
  <2>0. PICK more : more = r.text \o (IF c \in {"%", "_"} THEN <<"\\", c>> ELSE <<c>>)
    OBVIOUS
  <2>1. ReadOn(r, c) = [escape |-> FALSE, text |-> more]
    BY <1>5, <2>0 DEF ReadOn
  <2>2. more \in Seq(Chars)
    BY <1>4, <2>0
  <2> QED
    BY <2>1, <2>2 DEF Reads
<1>6. CASE ~r.escape
  <2>1. ReadOn(r, c) = IF c = "\\" THEN [r EXCEPT !.escape = TRUE]
                      ELSE [r EXCEPT !.text = Append(@, c)]
    BY <1>6 DEF ReadOn
  <2> QED
    BY <1>4, <2>1 DEF Reads
<1> QED
  BY <1>5, <1>6

Places(name) == [escape : BOOLEAN, at : SUBSET (0 .. Len(name))]
Unmatched == [escape |-> FALSE, at |-> {0}]

MatchOf(name, s) == FoldLeft(LAMBDA x, c : MatchOn(name, x, c), Unmatched, s)

LEMMA MatchOnType ==
  ASSUME NEW name \in Seq(Chars), NEW r \in Places(name), NEW c
  PROVE  MatchOn(name, r, c) \in Places(name)
<1> DEFINE Further(at) == {p + 1 : p \in {q \in at : q < Len(name) /\ name[q + 1] = c}}
           Skip(at) == {p + 1 : p \in {q \in at : q < Len(name)}}
           Far(at) == {q \in 0 .. Len(name) : \E p \in at : p <= q}
           n == Len(name)
<1>1. r.at \in SUBSET (0 .. n) /\ r.escape \in BOOLEAN /\ n \in Nat
  BY LenProperties DEF Places
<1> HIDE DEF n
<1>2. /\ Further(r.at) \in SUBSET (0 .. n) /\ Skip(r.at) \in SUBSET (0 .. n)
      /\ Far(r.at) \in SUBSET (0 .. n)
  BY <1>1 DEF n
<1> DEFINE far == CASE c = "%" -> Far(r.at) [] c = "_" -> Skip(r.at) [] OTHER -> Further(r.at)
<1>3. MatchOn(name, r, c) = IF r.escape THEN [escape |-> FALSE, at |-> Further(r.at)]
                            ELSE IF c = "\\" THEN [r EXCEPT !.escape = TRUE]
                            ELSE [r EXCEPT !.at = far]
  BY DEF MatchOn
<1>4. far \in SUBSET (0 .. n)
  BY <1>2
<1> HIDE DEF far, Further, Skip, Far
<1>5. CASE r.escape
  <2> DEFINE a == Further(r.at)
  <2>1. MatchOn(name, r, c) = [escape |-> FALSE, at |-> a] /\ a \in SUBSET (0 .. n)
    BY <1>2, <1>3, <1>5
  <2> HIDE DEF a
  <2> QED
    BY <2>1 DEF Places, n
<1>6. CASE ~r.escape
  <2>1. MatchOn(name, r, c) = IF c = "\\" THEN [r EXCEPT !.escape = TRUE]
                             ELSE [r EXCEPT !.at = far]
    BY <1>3, <1>6
  <2> QED
    BY <1>4, <2>1 DEF Places, n
<1> QED
  BY <1>5, <1>6

LEMMA EscapeRuns ==
  ASSUME NEW s \in Seq(Chars)
  PROVE  \E r : /\ r[0] = <<>>
                /\ \A k \in 1 .. Len(s) : r[k] = Escaped(r[k - 1], s[k])
                /\ EscapeOf(s) = r[Len(s)]
<1> DEFINE m == Len(s)
           step == [p \in Seq(Chars) \X (1 .. m) |-> Escaped(p[1], s[p[2]])]
           Iterates(g) ==
               g = [T \in SUBSET (1 .. m) |->
                       IF T = {} THEN <<>> ELSE Escaped(g[T \ {Top(T)}], s[Top(T)])]
           g == CHOOSE g : Iterates(g)
<1>1. DOMAIN s = 1 .. m /\ m \in Nat
  BY LenProperties
<1>2. EscapeOf(s) = g[1 .. m]
  BY <1>1 DEF EscapeOf, FoldLeft, MapThenFoldSet, Max, Top
<1>3. \A x \in Seq(Chars), i \in 1 .. m :
         step[<<x, i>>] = Escaped(x, s[i]) /\ Escaped(x, s[i]) \in Seq(Chars)
  <2> TAKE x \in Seq(Chars), i \in 1 .. m
  <2>1. s[i] \in Chars
    BY <1>1, ElementOfSeq
  <2> QED
    BY <2>1, EscapedType
<1>4. <<>> \in Seq(Chars)
  BY EmptySeq, LenProperties DEF Chars
<1> HIDE DEF m, step
<1>5. Iterates(g)
  <2>1. PICK h : IsFold(h, step, <<>>, m)
    BY <1>1, FoldsExist
  <2>2. \A T \in SUBSET (1 .. m) : h[T] \in Seq(Chars)
    <3>1. \A x \in Seq(Chars), i \in 1 .. m : step[<<x, i>>] \in Seq(Chars)
      BY <1>3
    <3> QED
      BY <1>1, <1>4, <2>1, <3>1, FoldsStayIn
  <2>3. ASSUME NEW T \in SUBSET (1 .. m)
        PROVE  FoldedSoFar(h, step, <<>>, T) =
                  IF T = {} THEN <<>> ELSE Escaped(h[T \ {Top(T)}], s[Top(T)])
    <3>1. CASE T = {}
      BY <3>1 DEF FoldedSoFar
    <3>2. CASE T # {}
      <4>1. Top(T) \in 1 .. m /\ T \ {Top(T)} \in SUBSET (1 .. m)
        BY <1>1, <3>2, TopIsLargest
      <4>2. step[<<h[T \ {Top(T)}], Top(T)>>] = Escaped(h[T \ {Top(T)}], s[Top(T)])
        BY <1>3, <2>2, <4>1
      <4> QED
        BY <3>2, <4>2 DEF FoldedSoFar
    <3> QED
      BY <3>1, <3>2
  <2>4. Iterates(h)
    BY <2>1, <2>3 DEF IsFold
  <2> HIDE DEF Iterates
  <2> QED
    BY <2>4
<1> HIDE DEF g
<1> DEFINE r == [k \in 0 .. m |-> g[1 .. k]]
<1>6. \A k \in 1 .. m : r[k] = Escaped(r[k - 1], s[k])
  <2> TAKE k \in 1 .. m
  <2>1. /\ 1 .. k \in SUBSET (1 .. m) /\ 1 .. k # {}
        /\ Top(1 .. k) = k /\ (1 .. k) \ {k} = 1 .. k - 1
    BY <1>1, TopOfInterval
  <2>2. g[1 .. k] = Escaped(g[1 .. k - 1], s[k])
    BY <1>5, <2>1
  <2>3. k \in 0 .. m /\ k - 1 \in 0 .. m
    BY <1>1
  <2> QED
    BY <2>2, <2>3
<1>7. r[0] = <<>>
  <2>1. 0 \in 0 .. m /\ 1 .. 0 = {} /\ {} \in SUBSET (1 .. m)
    BY <1>1
  <2> QED
    BY <1>5, <2>1
<1>8. r[m] = g[1 .. m]
  BY <1>1
<1> HIDE DEF r
<1> QED
  BY <1>2, <1>6, <1>7, <1>8 DEF m

LEMMA EscapeSteps ==
  ASSUME NEW s \in Seq(Chars), NEW c \in Chars
  PROVE  /\ EscapeOf(s) \in Seq(Chars)
         /\ EscapeOf(Append(s, c)) = Escaped(EscapeOf(s), c)
<1> PICK m, t : m = Len(s) /\ t = Append(s, c)
  OBVIOUS
<1>1. /\ m \in Nat /\ DOMAIN s = 1 .. m
      /\ t \in Seq(Chars) /\ Len(t) = m + 1 /\ t[m + 1] = c /\ \A k \in 1 .. m : t[k] = s[k]
  BY LenProperties, AppendProperties
<1>2. PICK r : /\ r[0] = <<>> /\ \A k \in 1 .. m : r[k] = Escaped(r[k - 1], s[k])
               /\ EscapeOf(s) = r[m]
  BY EscapeRuns
<1>3. PICK q : /\ q[0] = <<>> /\ \A k \in 1 .. m + 1 : q[k] = Escaped(q[k - 1], t[k])
               /\ EscapeOf(t) = q[m + 1]
  <2>1. \E q : /\ q[0] = <<>> /\ \A k \in 1 .. Len(t) : q[k] = Escaped(q[k - 1], t[k])
               /\ EscapeOf(t) = q[Len(t)]
    <3> t \in Seq(Chars)
      BY <1>1
    <3> QED
      BY EscapeRuns
  <2> QED
    BY <1>1, <2>1
<1> DEFINE Good == {k \in 0 .. m : r[k] \in Seq(Chars) /\ q[k] = r[k]}
<1>4. 0 \in Good
  <2>1. <<>> \in Seq(Chars)
    BY EmptySeq, LenProperties DEF Chars
  <2>2. 0 \in 0 .. m
    BY <1>1
  <2> QED
    BY <1>2, <1>3, <2>1, <2>2
<1>5. ASSUME NEW k \in 0 .. m - 1, k \in Good PROVE k + 1 \in Good
  <2> PICK n : n = k + 1
    OBVIOUS
  <2>1. n \in 1 .. m /\ n \in 1 .. m + 1 /\ n - 1 = k /\ n \in 0 .. m
    BY <1>1
  <2>2. r[n] = Escaped(r[k], s[n]) /\ q[n] = Escaped(q[k], s[n]) /\ s[n] \in Chars
    BY <1>1, <1>2, <1>3, <2>1, ElementOfSeq
  <2>3. r[k] \in Seq(Chars) /\ q[k] = r[k]
    BY <1>5
  <2>4. r[n] \in Seq(Chars) /\ q[n] = r[n]
    BY <2>2, <2>3, EscapedType
  <2> QED
    BY <2>1, <2>4
<1>6. m \in Good
  <2> HIDE DEF Good
  <2> QED
    BY <1>1, <1>4, <1>5, Upward, m \in 0 .. m
<1>7. q[m + 1] = Escaped(q[m], c)
  <2>1. m + 1 \in 1 .. m + 1 /\ (m + 1) - 1 = m
    BY <1>1
  <2> QED
    BY <1>1, <1>3, <2>1
<1> QED
  BY <1>2, <1>3, <1>6, <1>7

LEMMA EscapeOfNothing ==
  EscapeOf(<<>>) = <<>>
<1>1. <<>> \in Seq(Chars) /\ Len(<<>>) = 0
  BY EmptySeq
<1> PICK s : s = <<>>
  OBVIOUS
<1> QED
  BY <1>1, EscapeRuns

LEMMA ReadRuns ==
  ASSUME NEW s \in Seq(Chars)
  PROVE  \E r : /\ r[0] = Unread
                /\ \A k \in 1 .. Len(s) : r[k] = ReadOn(r[k - 1], s[k])
                /\ ReadOf(s) = r[Len(s)]
<1> DEFINE m == Len(s)
           step == [p \in Reads \X (1 .. m) |-> ReadOn(p[1], s[p[2]])]
           Iterates(g) ==
               g = [T \in SUBSET (1 .. m) |->
                       IF T = {} THEN Unread ELSE ReadOn(g[T \ {Top(T)}], s[Top(T)])]
           g == CHOOSE g : Iterates(g)
<1>1. DOMAIN s = 1 .. m /\ m \in Nat
  BY LenProperties
<1>2. ReadOf(s) = g[1 .. m]
  BY <1>1 DEF ReadOf, FoldLeft, MapThenFoldSet, Max, Top
<1>3. \A x \in Reads, i \in 1 .. m :
         step[<<x, i>>] = ReadOn(x, s[i]) /\ ReadOn(x, s[i]) \in Reads
  <2> TAKE x \in Reads, i \in 1 .. m
  <2>1. s[i] \in Chars
    BY <1>1, ElementOfSeq
  <2> QED
    BY <2>1, ReadOnType
<1>4. Unread \in Reads
  BY EmptySeq, LenProperties DEF Reads, Unread
<1> HIDE DEF m, step
<1>5. Iterates(g)
  <2>1. PICK h : IsFold(h, step, Unread, m)
    BY <1>1, FoldsExist
  <2>2. \A T \in SUBSET (1 .. m) : h[T] \in Reads
    <3>1. \A x \in Reads, i \in 1 .. m : step[<<x, i>>] \in Reads
      BY <1>3
    <3> QED
      BY <1>1, <1>4, <2>1, <3>1, FoldsStayIn
  <2>3. ASSUME NEW T \in SUBSET (1 .. m)
        PROVE  FoldedSoFar(h, step, Unread, T) =
                  IF T = {} THEN Unread ELSE ReadOn(h[T \ {Top(T)}], s[Top(T)])
    <3>1. CASE T = {}
      BY <3>1 DEF FoldedSoFar
    <3>2. CASE T # {}
      <4>1. Top(T) \in 1 .. m /\ T \ {Top(T)} \in SUBSET (1 .. m)
        BY <1>1, <3>2, TopIsLargest
      <4>2. step[<<h[T \ {Top(T)}], Top(T)>>] = ReadOn(h[T \ {Top(T)}], s[Top(T)])
        BY <1>3, <2>2, <4>1
      <4> QED
        BY <3>2, <4>2 DEF FoldedSoFar
    <3> QED
      BY <3>1, <3>2
  <2>4. Iterates(h)
    BY <2>1, <2>3 DEF IsFold
  <2> HIDE DEF Iterates
  <2> QED
    BY <2>4
<1> HIDE DEF g
<1> DEFINE r == [k \in 0 .. m |-> g[1 .. k]]
<1>6. \A k \in 1 .. m : r[k] = ReadOn(r[k - 1], s[k])
  <2> TAKE k \in 1 .. m
  <2>1. /\ 1 .. k \in SUBSET (1 .. m) /\ 1 .. k # {}
        /\ Top(1 .. k) = k /\ (1 .. k) \ {k} = 1 .. k - 1
    BY <1>1, TopOfInterval
  <2>2. g[1 .. k] = ReadOn(g[1 .. k - 1], s[k])
    BY <1>5, <2>1
  <2>3. k \in 0 .. m /\ k - 1 \in 0 .. m
    BY <1>1
  <2> QED
    BY <2>2, <2>3
<1>7. r[0] = Unread
  <2>1. 0 \in 0 .. m /\ 1 .. 0 = {} /\ {} \in SUBSET (1 .. m)
    BY <1>1
  <2> QED
    BY <1>5, <2>1
<1>8. r[m] = g[1 .. m]
  BY <1>1
<1> HIDE DEF r
<1> QED
  BY <1>2, <1>6, <1>7, <1>8 DEF m

LEMMA ReadSteps ==
  ASSUME NEW s \in Seq(Chars), NEW c \in Chars
  PROVE  /\ ReadOf(s) \in Reads
         /\ ReadOf(Append(s, c)) = ReadOn(ReadOf(s), c)
<1> PICK m, t : m = Len(s) /\ t = Append(s, c)
  OBVIOUS
<1>1. /\ m \in Nat /\ DOMAIN s = 1 .. m
      /\ t \in Seq(Chars) /\ Len(t) = m + 1 /\ t[m + 1] = c /\ \A k \in 1 .. m : t[k] = s[k]
  BY LenProperties, AppendProperties
<1>2. PICK r : /\ r[0] = Unread /\ \A k \in 1 .. m : r[k] = ReadOn(r[k - 1], s[k])
               /\ ReadOf(s) = r[m]
  BY ReadRuns
<1>3. PICK q : /\ q[0] = Unread /\ \A k \in 1 .. m + 1 : q[k] = ReadOn(q[k - 1], t[k])
               /\ ReadOf(t) = q[m + 1]
  <2>1. \E q : /\ q[0] = Unread /\ \A k \in 1 .. Len(t) : q[k] = ReadOn(q[k - 1], t[k])
               /\ ReadOf(t) = q[Len(t)]
    <3> t \in Seq(Chars)
      BY <1>1
    <3> QED
      BY ReadRuns
  <2> QED
    BY <1>1, <2>1
<1> DEFINE Good == {k \in 0 .. m : r[k] \in Reads /\ q[k] = r[k]}
<1>4. 0 \in Good
  <2>1. Unread \in Reads
    BY EmptySeq, LenProperties DEF Reads, Unread
  <2>2. 0 \in 0 .. m
    BY <1>1
  <2> QED
    BY <1>2, <1>3, <2>1, <2>2
<1>5. ASSUME NEW k \in 0 .. m - 1, k \in Good PROVE k + 1 \in Good
  <2> PICK n : n = k + 1
    OBVIOUS
  <2>1. n \in 1 .. m /\ n \in 1 .. m + 1 /\ n - 1 = k /\ n \in 0 .. m
    BY <1>1
  <2>2. r[n] = ReadOn(r[k], s[n]) /\ q[n] = ReadOn(q[k], s[n]) /\ s[n] \in Chars
    BY <1>1, <1>2, <1>3, <2>1, ElementOfSeq
  <2>3. r[k] \in Reads /\ q[k] = r[k]
    BY <1>5
  <2>4. r[n] \in Reads /\ q[n] = r[n]
    BY <2>2, <2>3, ReadOnType
  <2> QED
    BY <2>1, <2>4
<1>6. m \in Good
  <2> HIDE DEF Good
  <2> QED
    BY <1>1, <1>4, <1>5, Upward, m \in 0 .. m
<1>7. q[m + 1] = ReadOn(q[m], c)
  <2>1. m + 1 \in 1 .. m + 1 /\ (m + 1) - 1 = m
    BY <1>1
  <2> QED
    BY <1>1, <1>3, <2>1
<1> QED
  BY <1>2, <1>3, <1>6, <1>7

LEMMA ReadOfNothing ==
  ReadOf(<<>>) = Unread
<1>1. <<>> \in Seq(Chars) /\ Len(<<>>) = 0
  BY EmptySeq
<1> PICK s : s = <<>>
  OBVIOUS
<1> QED
  BY <1>1, ReadRuns

LEMMA MatchRuns ==
  ASSUME NEW name \in Seq(Chars), NEW s \in Seq(Chars)
  PROVE  \E r : /\ r[0] = Unmatched
                /\ \A k \in 1 .. Len(s) : r[k] = MatchOn(name, r[k - 1], s[k])
                /\ MatchOf(name, s) = r[Len(s)]
<1> DEFINE m == Len(s)
           step == [p \in Places(name) \X (1 .. m) |-> MatchOn(name, p[1], s[p[2]])]
           Iterates(g) ==
               g = [T \in SUBSET (1 .. m) |->
                       IF T = {} THEN Unmatched ELSE MatchOn(name, g[T \ {Top(T)}], s[Top(T)])]
           g == CHOOSE g : Iterates(g)
<1>1. DOMAIN s = 1 .. m /\ m \in Nat
  BY LenProperties
<1>2. MatchOf(name, s) = g[1 .. m]
  BY <1>1 DEF MatchOf, FoldLeft, MapThenFoldSet, Max, Top
<1>3. \A x \in Places(name), i \in 1 .. m :
         step[<<x, i>>] = MatchOn(name, x, s[i]) /\ MatchOn(name, x, s[i]) \in Places(name)
  <2> TAKE x \in Places(name), i \in 1 .. m
  <2>1. s[i] \in Chars
    BY <1>1, ElementOfSeq
  <2> QED
    BY <2>1, MatchOnType
<1>4. Unmatched \in Places(name)
  BY EmptySeq, LenProperties DEF Places, Unmatched
<1> HIDE DEF m, step
<1>5. Iterates(g)
  <2>1. PICK h : IsFold(h, step, Unmatched, m)
    BY <1>1, FoldsExist
  <2>2. \A T \in SUBSET (1 .. m) : h[T] \in Places(name)
    <3>1. \A x \in Places(name), i \in 1 .. m : step[<<x, i>>] \in Places(name)
      BY <1>3
    <3> QED
      BY <1>1, <1>4, <2>1, <3>1, FoldsStayIn
  <2>3. ASSUME NEW T \in SUBSET (1 .. m)
        PROVE  FoldedSoFar(h, step, Unmatched, T) =
                  IF T = {} THEN Unmatched ELSE MatchOn(name, h[T \ {Top(T)}], s[Top(T)])
    <3>1. CASE T = {}
      BY <3>1 DEF FoldedSoFar
    <3>2. CASE T # {}
      <4>1. Top(T) \in 1 .. m /\ T \ {Top(T)} \in SUBSET (1 .. m)
        BY <1>1, <3>2, TopIsLargest
      <4>2. step[<<h[T \ {Top(T)}], Top(T)>>] = MatchOn(name, h[T \ {Top(T)}], s[Top(T)])
        BY <1>3, <2>2, <4>1
      <4> QED
        BY <3>2, <4>2 DEF FoldedSoFar
    <3> QED
      BY <3>1, <3>2
  <2>4. Iterates(h)
    BY <2>1, <2>3 DEF IsFold
  <2> HIDE DEF Iterates
  <2> QED
    BY <2>4
<1> HIDE DEF g
<1> DEFINE r == [k \in 0 .. m |-> g[1 .. k]]
<1>6. \A k \in 1 .. m : r[k] = MatchOn(name, r[k - 1], s[k])
  <2> TAKE k \in 1 .. m
  <2>1. /\ 1 .. k \in SUBSET (1 .. m) /\ 1 .. k # {}
        /\ Top(1 .. k) = k /\ (1 .. k) \ {k} = 1 .. k - 1
    BY <1>1, TopOfInterval
  <2>2. g[1 .. k] = MatchOn(name, g[1 .. k - 1], s[k])
    BY <1>5, <2>1
  <2>3. k \in 0 .. m /\ k - 1 \in 0 .. m
    BY <1>1
  <2> QED
    BY <2>2, <2>3
<1>7. r[0] = Unmatched
  <2>1. 0 \in 0 .. m /\ 1 .. 0 = {} /\ {} \in SUBSET (1 .. m)
    BY <1>1
  <2> QED
    BY <1>5, <2>1
<1>8. r[m] = g[1 .. m]
  BY <1>1
<1> HIDE DEF r
<1> QED
  BY <1>2, <1>6, <1>7, <1>8 DEF m

LEMMA MatchSteps ==
  ASSUME NEW name \in Seq(Chars), NEW s \in Seq(Chars), NEW c \in Chars
  PROVE  /\ MatchOf(name, s) \in Places(name)
         /\ MatchOf(name, Append(s, c)) = MatchOn(name, MatchOf(name, s), c)
<1> PICK m, t : m = Len(s) /\ t = Append(s, c)
  OBVIOUS
<1>1. /\ m \in Nat /\ DOMAIN s = 1 .. m
      /\ t \in Seq(Chars) /\ Len(t) = m + 1 /\ t[m + 1] = c /\ \A k \in 1 .. m : t[k] = s[k]
  BY LenProperties, AppendProperties
<1>2. PICK r : /\ r[0] = Unmatched /\ \A k \in 1 .. m : r[k] = MatchOn(name, r[k - 1], s[k])
               /\ MatchOf(name, s) = r[m]
  BY MatchRuns
<1>3. PICK q : /\ q[0] = Unmatched /\ \A k \in 1 .. m + 1 : q[k] = MatchOn(name, q[k - 1], t[k])
               /\ MatchOf(name, t) = q[m + 1]
  <2>1. \E q : /\ q[0] = Unmatched /\ \A k \in 1 .. Len(t) : q[k] = MatchOn(name, q[k - 1], t[k])
               /\ MatchOf(name, t) = q[Len(t)]
    <3> t \in Seq(Chars)
      BY <1>1
    <3> QED
      BY MatchRuns, ZenonT(40)
  <2> QED
    BY <1>1, <2>1
<1> DEFINE Good == {k \in 0 .. m : r[k] \in Places(name) /\ q[k] = r[k]}
<1>4. 0 \in Good
  <2>1. Unmatched \in Places(name)
    BY EmptySeq, LenProperties DEF Places, Unmatched
  <2>2. 0 \in 0 .. m
    BY <1>1
  <2> QED
    BY <1>2, <1>3, <2>1, <2>2
<1>5. ASSUME NEW k \in 0 .. m - 1, k \in Good PROVE k + 1 \in Good
  <2> PICK n : n = k + 1
    OBVIOUS
  <2>1. n \in 1 .. m /\ n \in 1 .. m + 1 /\ n - 1 = k /\ n \in 0 .. m
    BY <1>1
  <2>2. r[n] = MatchOn(name, r[k], s[n]) /\ q[n] = MatchOn(name, q[k], s[n]) /\ s[n] \in Chars
    BY <1>1, <1>2, <1>3, <2>1, ElementOfSeq
  <2>3. r[k] \in Places(name) /\ q[k] = r[k]
    BY <1>5
  <2>4. r[n] \in Places(name) /\ q[n] = r[n]
    BY <2>2, <2>3, MatchOnType
  <2> QED
    BY <2>1, <2>4
<1>6. m \in Good
  <2> HIDE DEF Good
  <2> QED
    BY <1>1, <1>4, <1>5, Upward, m \in 0 .. m
<1>7. q[m + 1] = MatchOn(name, q[m], c)
  <2>1. m + 1 \in 1 .. m + 1 /\ (m + 1) - 1 = m
    BY <1>1
  <2> QED
    BY <1>1, <1>3, <2>1
<1> QED
  BY <1>2, <1>3, <1>6, <1>7

LEMMA MatchOfNothing ==
  ASSUME NEW name \in Seq(Chars)
  PROVE  MatchOf(name, <<>>) = Unmatched
<1>1. <<>> \in Seq(Chars) /\ Len(<<>>) = 0
  BY EmptySeq
<1> PICK s : s = <<>>
  OBVIOUS
<1> QED
  BY <1>1, MatchRuns

LEMMA AppendFurther ==
  ASSUME NEW S, NEW s \in Seq(S), NEW t \in Seq(S), NEW c \in S
  PROVE  s \o Append(t, c) = Append(s \o t, c)
<1>1. <<c>> \in Seq(S) /\ s \o t \in Seq(S)
  BY ConcatProperties
<1>2. Append(t, c) = t \o <<c>> /\ Append(s \o t, c) = (s \o t) \o <<c>>
  BY <1>1, AppendIsConcat
<1> QED
  BY <1>1, <1>2, ConcatAssociative

LEMMA OneAndOne ==
  ASSUME NEW S, NEW b \in S, NEW c \in S
  PROVE  Append(<<b>>, c) = <<b, c>>
<1> PICK s, t : s = Append(<<b>>, c) /\ t = <<b, c>>
  OBVIOUS
<1>1. <<b>> \in Seq(S) /\ Len(<<b>>) = 1 /\ <<b>>[1] = b
  OBVIOUS
<1>2. s \in Seq(S) /\ Len(s) = 2 /\ s[1] = b /\ s[2] = c
  <2> PICK u : u = <<b>>
    OBVIOUS
  <2>1. u \in Seq(S) /\ Len(u) = 1 /\ u[1] = b /\ s = Append(u, c)
    BY <1>1
  <2> QED
    BY <2>1, AppendProperties
<1>3. t \in Seq(S) /\ Len(t) = 2 /\ t[1] = b /\ t[2] = c
  OBVIOUS
<1>4. \A i \in 1 .. Len(s) : s[i] = t[i]
  BY <1>2, <1>3
<1>5. s = t
  BY <1>2, <1>3, <1>4, SeqEqual
<1> QED
  BY <1>5

LEMMA TwoMore ==
  ASSUME NEW S, NEW s \in Seq(S), NEW b \in S, NEW c \in S
  PROVE  s \o <<b, c>> = Append(Append(s, b), c)
<1>1. <<b>> \in Seq(S) /\ <<c>> \in Seq(S) /\ <<b, c>> = <<b>> \o <<c>>
  <2>1. <<b>> \in Seq(S) /\ <<c>> \in Seq(S)
    OBVIOUS
  <2>2. <<b, c>> = Append(<<b>>, c)
    BY OneAndOne
  <2> QED
    BY <2>1, <2>2, AppendIsConcat
<1>2. s \o <<b>> \in Seq(S) /\ s \o <<b, c>> = (s \o <<b>>) \o <<c>>
  BY <1>1, ConcatAssociative, ConcatProperties
<1> QED
  BY <1>2, AppendIsConcat

LEMMA OneFurther ==
  ASSUME NEW S, NEW s \in Seq(S), NEW k \in 0 .. Len(s) - 1
  PROVE  /\ SubSeq(s, 1, k) \in Seq(S) /\ s[k + 1] \in S
         /\ SubSeq(s, 1, k + 1) = Append(SubSeq(s, 1, k), s[k + 1])
<1> PICK m, n : m = Len(s) /\ n = k + 1
  OBVIOUS
<1>1. m \in Nat /\ n \in 1 .. m /\ n - 1 = k /\ 1 \in 1 .. m /\ k \in Int /\ 1 \in Int
  BY LenProperties
<1>2. s[n] \in S /\ \A i \in 1 .. k : s[i] \in S
  <2>1. \A i \in 1 .. k : i \in 1 .. m
    BY <1>1
  <2> QED
    BY <1>1, <2>1, ElementOfSeq
<1>3. SubSeq(s, 1, k) \in Seq(S)
  BY <1>1, <1>2, SubSeqProperties
<1>4. SubSeq(s, 1, n) = SubSeq(s, 1, k) \o <<s[n]>>
  BY <1>1, SubSeqRecursiveSecond
<1> QED
  BY <1>2, <1>3, <1>4, AppendIsConcat

\* What is read when no escape is open.
SoFar(v) == [escape |-> FALSE, text |-> v]

\* The database undoes what EscapeString does.
LEMMA EscapeUndone ==
  ASSUME NEW w \in Seq(Chars), NEW v \in Seq(Chars), ReadOf(w) = SoFar(v),
         NEW s \in Seq(Chars)
  PROVE  EscapeOf(s) \in Seq(Chars) /\ ReadOf(w \o EscapeOf(s)) = SoFar(v \o s)
<1> DEFINE m == Len(s)
           Good == {k \in 0 .. m :
                      /\ EscapeOf(SubSeq(s, 1, k)) \in Seq(Chars)
                      /\ ReadOf(w \o EscapeOf(SubSeq(s, 1, k))) =
                            SoFar(v \o SubSeq(s, 1, k))}
<1>1. m \in Nat
  BY LenProperties
<1>2. 0 \in Good
  <2>1. SubSeq(s, 1, 0) = <<>> /\ 0 \in 0 .. m
    BY <1>1, SubSeqEmpty
  <2>2. EscapeOf(<<>>) = <<>> /\ <<>> \in Seq(Chars)
    BY EscapeOfNothing, EmptySeq
  <2>3. w \o <<>> = w /\ v \o <<>> = v
    BY ConcatProperties
  <2> QED
    BY <2>1, <2>2, <2>3
<1>3. ASSUME NEW k \in 0 .. m - 1, k \in Good PROVE k + 1 \in Good
  <2>0. PICK u, c, e : u = SubSeq(s, 1, k) /\ c = s[k + 1] /\ e = EscapeOf(u)
    OBVIOUS
  <2>1. u \in Seq(Chars) /\ c \in Chars /\ SubSeq(s, 1, k + 1) = Append(u, c) /\ k + 1 \in 0 .. m
    BY <1>1, <2>0, OneFurther
  <2>2. e \in Seq(Chars) /\ ReadOf(w \o e) = SoFar(v \o u)
    BY <1>3, <2>0
  <2>3. EscapeOf(Append(u, c)) = Escaped(e, c)
    BY <2>0, <2>1, EscapeSteps
  <2>4. w \o e \in Seq(Chars) /\ "\\" \in Chars /\ Append(w \o e, "\\") \in Seq(Chars)
    BY <2>2, ConcatProperties, AppendProperties DEF Chars
  <2>5. v \o Append(u, c) = Append(v \o u, c) /\ v \o u \in Seq(Chars)
           /\ w \o Append(e, c) = Append(w \o e, c)
    <3>1. v \o Append(u, c) = Append(v \o u, c)
      BY <2>1, AppendFurther, SMTT(30)
    <3>2. w \o Append(e, c) = Append(w \o e, c)
      <4>1. e \in Seq(Chars) /\ c \in Chars
        BY <2>1, <2>2
      <4> QED
        BY <4>1, AppendFurther, SMTT(30)
    <3>3. v \o u \in Seq(Chars)
      BY <2>1, ConcatProperties
    <3> QED
      BY <3>1, <3>2, <3>3
  <2>6. CASE c \in {"\\", "'", "\""}
    <3>1. Escaped(e, c) = e \o <<"\\", c>>
      BY <2>6 DEF Escaped
    <3>2. e \o <<"\\", c>> = Append(Append(e, "\\"), c) /\ Append(e, "\\") \in Seq(Chars)
      BY <2>1, <2>2, <2>4, TwoMore, AppendProperties
    <3>3. w \o (e \o <<"\\", c>>) = Append(Append(w \o e, "\\"), c)
      <4>1. w \o Append(Append(e, "\\"), c) = Append(w \o Append(e, "\\"), c)
        BY <2>1, <3>2, AppendFurther, SMTT(30)
      <4>2. w \o Append(e, "\\") = Append(w \o e, "\\")
        BY <2>2, <2>4, AppendFurther
      <4> QED
        BY <3>2, <4>1, <4>2
    <3>4. ReadOf(Append(w \o e, "\\")) = [escape |-> TRUE, text |-> v \o u]
      <4>1. ReadOf(Append(w \o e, "\\")) = ReadOn(SoFar(v \o u), "\\")
        BY <2>2, <2>4, ReadSteps
      <4> QED
        BY <4>1 DEF ReadOn, SoFar
    <3>5. ReadOf(Append(Append(w \o e, "\\"), c)) = SoFar(Append(v \o u, c))
      <4>1. ReadOf(Append(Append(w \o e, "\\"), c)) = ReadOn([escape |-> TRUE, text |-> v \o u], c)
        BY <2>1, <2>4, <3>4, ReadSteps
      <4>2. (v \o u) \o <<c>> = Append(v \o u, c)
        BY <2>1, <2>5, AppendIsConcat
      <4>3. c \notin {"%", "_"}
        BY <2>6
      <4> QED
        BY <4>1, <4>2, <4>3 DEF ReadOn, SoFar
    <3>6. Escaped(e, c) \in Seq(Chars)
      BY <2>1, <2>2, EscapedType
    <3> QED
      BY <2>0, <2>1, <2>3, <2>5, <3>1, <3>3, <3>5, <3>6
  <2>7. CASE c \notin {"\\", "'", "\""}
    <3>1. Escaped(e, c) = Append(e, c)
      BY <2>7 DEF Escaped
    <3>2. w \o Append(e, c) = Append(w \o e, c)
      BY <2>5
    <3>3. ReadOf(Append(w \o e, c)) = ReadOn(SoFar(v \o u), c)
      BY <2>1, <2>2, <2>4, ReadSteps
    <3>4. ReadOn(SoFar(v \o u), c) = SoFar(Append(v \o u, c))
      BY <2>7 DEF ReadOn, SoFar
    <3>5. Escaped(e, c) \in Seq(Chars)
      BY <2>1, <2>2, EscapedType
    <3> QED
      BY <2>0, <2>1, <2>3, <2>5, <3>1, <3>2, <3>3, <3>4, <3>5
  <2> QED
    BY <2>6, <2>7
<1>4. m \in Good
  <2> HIDE DEF Good
  <2> QED
    BY <1>1, <1>2, <1>3, Upward, m \in 0 .. m
<1>5. SubSeq(s, 1, m) = s
  BY SubSeqFull
<1> QED
  BY <1>4, <1>5

\* A name is stored as it is, or not at all.
LEMMA NamesKept ==
  ASSUME NEW s \in Seq(Chars)
  PROVE  Literal(EscapeString(s)) = IF s \in NullLike THEN <<>> ELSE s
<1>1. ReadOf(<<>>) = Unread /\ <<>> \in Seq(Chars)
  BY ReadOfNothing, EmptySeq
<1>2. Literal(<<>>) = <<>>
  BY <1>1 DEF Literal, ReadOf, Unread
<1>3. <<>> \o s = s /\ EscapeOf(s) \in Seq(Chars)
         /\ ReadOf(<<>> \o EscapeOf(s)) = SoFar(<<>> \o s)
  <2>0. PICK w : w = <<>>
    OBVIOUS
  <2>1. ReadOf(w) = SoFar(w) /\ w \in Seq(Chars)
    BY <1>1, <2>0 DEF Unread, SoFar
  <2>2. EscapeOf(s) \in Seq(Chars) /\ ReadOf(w \o EscapeOf(s)) = SoFar(w \o s)
    BY <2>1, EscapeUndone
  <2>3. <<>> \o s = s
    BY ConcatProperties
  <2> QED
    BY <2>0, <2>2, <2>3
<1>4. <<>> \o EscapeOf(s) = EscapeOf(s)
  BY <1>3, ConcatProperties
<1>5. Literal(EscapeOf(s)) = s
  <2>1. Literal(EscapeOf(s)) = ReadOf(EscapeOf(s)).text
    BY DEF Literal, ReadOf, Unread
  <2> QED
    BY <1>3, <1>4, <2>1 DEF SoFar
<1> QED
  BY <1>2, <1>5 DEF EscapeString, EscapeOf

\* The pattern of a search.
LEMMA PatternIs ==
  ASSUME NEW s \in Seq(Chars)
  PROVE  /\ Append(<<"%">> \o s, "%") \in Seq(Chars) /\ <<"%">> \o s \in Seq(Chars)
         /\ Literal(<<"%">> \o EscapeString(s) \o <<"%">>) =
               IF s \in NullLike THEN <<"%", "%">> ELSE Append(<<"%">> \o s, "%")
<1>1. "%" \in Chars /\ <<"%">> \in Seq(Chars) /\ <<"%", "%">> \in Seq(Chars) /\ <<>> \in Seq(Chars)
  BY DEF Chars
<1>2. ReadOf(<<"%">>) = SoFar(<<"%">>)
  <2>1. Append(<<>>, "%") = <<"%">> /\ ReadOf(<<>>) = Unread
    BY ReadOfNothing
  <2>2. ReadOf(<<"%">>) = ReadOn(Unread, "%")
    BY <1>1, <2>1, ReadSteps
  <2> QED
    BY <2>1, <2>2 DEF ReadOn, Unread, SoFar
<1>3. ASSUME NEW e \in Seq(Chars), NEW v \in Seq(Chars),
             ReadOf(<<"%">> \o e) = SoFar(v)
      PROVE  Literal(<<"%">> \o e \o <<"%">>) = Append(v, "%")
  <2>1. <<"%">> \o e \in Seq(Chars)
    BY <1>1, ConcatProperties
  <2>2. <<"%">> \o e \o <<"%">> = Append(<<"%">> \o e, "%")
    BY <1>1, <2>1, AppendIsConcat
  <2>3. ReadOf(Append(<<"%">> \o e, "%")) = ReadOn(SoFar(v), "%")
    BY <1>1, <1>3, <2>1, ReadSteps
  <2>4. ReadOn(SoFar(v), "%").text = Append(v, "%")
    BY DEF ReadOn, SoFar
  <2> QED
    BY <2>2, <2>3, <2>4 DEF Literal, ReadOf, Unread
<1>4. <<"%">> \o s \in Seq(Chars) /\ Append(<<"%">> \o s, "%") \in Seq(Chars)
  BY <1>1, ConcatProperties, AppendProperties
<1>5. CASE s \in NullLike
  <2>1. EscapeString(s) = <<>> /\ <<"%">> \o <<>> = <<"%">> /\ Append(<<"%">>, "%") = <<"%", "%">>
    <3>1. <<"%">> \o <<>> = <<"%">>
      BY <1>1, ConcatProperties
    <3>2. Append(<<"%">>, "%") = <<"%", "%">>
      BY <1>1, OneAndOne
    <3> QED
      BY <1>5, <3>1, <3>2 DEF EscapeString
  <2>2. Literal(<<"%">> \o <<>> \o <<"%">>) = <<"%", "%">>
    BY <1>1, <1>2, <1>3, <2>1
  <2> QED
    BY <1>4, <1>5, <2>1, <2>2
<1>6. CASE s \notin NullLike
  <2>1. EscapeString(s) = EscapeOf(s)
    BY <1>6 DEF EscapeString, EscapeOf
  <2>2. EscapeOf(s) \in Seq(Chars)
           /\ ReadOf(<<"%">> \o EscapeOf(s)) = SoFar(<<"%">> \o s)
    <3>0. PICK w : w = <<"%">>
      OBVIOUS
    <3>1. ReadOf(w) = SoFar(w) /\ w \in Seq(Chars)
      BY <1>1, <1>2, <3>0
    <3>2. EscapeOf(s) \in Seq(Chars) /\ ReadOf(w \o EscapeOf(s)) = SoFar(w \o s)
      BY <3>1, EscapeUndone
    <3> QED
      BY <3>0, <3>2
  <2>3. Literal(<<"%">> \o EscapeOf(s) \o <<"%">>) = Append(<<"%">> \o s, "%")
    BY <1>3, <1>4, <2>2
  <2> QED
    BY <1>4, <1>6, <2>1, <2>3
<1> QED
  BY <1>4, <1>5, <1>6

\* A character that is no backslash takes a place on, when it stands there or is a
\* wildcard; no other character does.
Advances(name, r, c, next) ==
    /\ ~next.escape
    /\ \A p \in r.at : p < Len(name) /\ (c \in {"%", "_"} \/ name[p + 1] = c) =>
          p + 1 \in next.at
    /\ c \notin {"%", "_"} => \A q \in next.at :
          \E p \in r.at : q = p + 1 /\ p < Len(name) /\ name[p + 1] = c
    /\ c = "%" => next.at = {q \in 0 .. Len(name) : \E p \in r.at : p <= q}

LEMMA OneMatched ==
  ASSUME NEW name \in Seq(Chars), NEW r \in Places(name), ~r.escape, NEW c, c # "\\"
  PROVE  Advances(name, r, c, MatchOn(name, r, c))
<1>0. PICK n : n = Len(name)
  OBVIOUS
<1> DEFINE Further(at) == {p + 1 : p \in {q \in at : q < n /\ name[q + 1] = c}}
           Skip(at) == {p + 1 : p \in {q \in at : q < n}}
           Far(at) == {q \in 0 .. n : \E p \in at : p <= q}
           far == CASE c = "%" -> Far(r.at) [] c = "_" -> Skip(r.at) [] OTHER -> Further(r.at)
<1>1. r.at \in SUBSET (0 .. n) /\ n \in Nat
  BY <1>0, LenProperties DEF Places
<1>2. MatchOn(name, r, c) = [r EXCEPT !.at = far]
  BY <1>0 DEF MatchOn
<1> HIDE DEF far
<1>3. ~MatchOn(name, r, c).escape /\ MatchOn(name, r, c).at = far
  BY <1>2 DEF Places
<1>4. /\ c = "%" => far = Far(r.at)
      /\ c = "_" => far = Skip(r.at)
      /\ c \notin {"%", "_"} => far = Further(r.at)
  BY DEF far
<1>5. ASSUME NEW p \in r.at, p < n, c \in {"%", "_"} \/ name[p + 1] = c
      PROVE  p + 1 \in far
  <2>1. p \in 0 .. n /\ p + 1 \in 0 .. n /\ p <= p + 1
    <3>1. p \in 0 .. n
      BY <1>1
    <3>2. p < n
      BY <1>5
    <3> QED
      BY <1>1, <3>1, <3>2
  <2>2. CASE c = "%"
    <3>1. p + 1 \in Far(r.at)
      BY <2>1
    <3> QED
      BY <1>4, <2>2, <3>1
  <2>3. CASE c = "_"
    <3>1. p + 1 \in Skip(r.at)
      BY <1>5
    <3> QED
      BY <1>4, <2>3, <3>1
  <2>4. CASE c \notin {"%", "_"}
    <3>1. p + 1 \in Further(r.at)
      BY <1>5, <2>4
    <3> QED
      BY <1>4, <2>4, <3>1
  <2> QED
    BY <2>2, <2>3, <2>4
<1>6. ASSUME c \notin {"%", "_"}, NEW q \in far
      PROVE  \E p \in r.at : q = p + 1 /\ p < n /\ name[p + 1] = c
  BY <1>4, <1>6
<1> QED
  BY <1>0, <1>3, <1>4, <1>5, <1>6 DEF Advances

\* How far the name can be matched by a wildcard and the text.
Reached(name, s, next) ==
    /\ next.at \in SUBSET (0 .. Len(name))
    /\ ~next.escape
    /\ \A i \in 0 .. Len(name) - Len(s) :
          (\A j \in 1 .. Len(s) : name[i + j] = s[j]) => i + Len(s) \in next.at
    /\ Range(s) \cap {"%", "_"} = {} =>
          \A q \in next.at :
              q >= Len(s) /\ \A j \in 1 .. Len(s) : name[(q - Len(s)) + j] = s[j]

LEMMA TextMatched ==
  ASSUME NEW name \in Seq(Chars), NEW s \in Seq(Chars), "\\" \notin Range(s)
  PROVE  Reached(name, s, MatchOf(name, <<"%">> \o s))
<1> DEFINE At(k) == MatchOf(name, <<"%">> \o SubSeq(s, 1, k))
           There(i) == \A j \in 1 .. Len(s) : name[i + j] = s[j]
           Plain == Range(s) \cap {"%", "_"} = {}
           Good == {k \in 0 .. Len(s) :
                      /\ At(k) \in Places(name) /\ ~At(k).escape
                      /\ \A i \in 0 .. Len(name) - Len(s) : There(i) => i + k \in At(k).at
                      /\ Plain => \A q \in At(k).at :
                            q >= k /\ \A j \in 1 .. k : name[(q - k) + j] = s[j]}
<1>0. PICK m, n, w : m = Len(s) /\ n = Len(name) /\ w = <<"%">>
  OBVIOUS
<1>1. m \in Nat /\ n \in Nat /\ w \in Seq(Chars) /\ DOMAIN s = 1 .. m /\ "%" \in Chars
  BY <1>0, LenProperties DEF Chars
<1>2. 0 \in Good
  <2>1. SubSeq(s, 1, 0) = <<>>
    BY SubSeqEmpty
  <2>2. w \o <<>> = w /\ w = Append(<<>>, "%") /\ <<>> \in Seq(Chars)
    BY <1>0, <1>1, ConcatProperties, EmptySeq
  <2>3. MatchOf(name, <<>>) = Unmatched /\ Unmatched \in Places(name)
    BY <1>0, <1>1, MatchOfNothing DEF Unmatched, Places
  <2>4. MatchOf(name, w) = MatchOn(name, Unmatched, "%")
    BY <1>1, <2>2, <2>3, MatchSteps
  <2>5. MatchOn(name, Unmatched, "%") \in Places(name)
    BY <2>3, MatchOnType
  <2>6. /\ ~MatchOn(name, Unmatched, "%").escape
        /\ MatchOn(name, Unmatched, "%").at =
              {q \in 0 .. Len(name) : \E p \in Unmatched.at : p <= q}
    <3>1. ~Unmatched.escape
      BY DEF Unmatched
    <3>2. Advances(name, Unmatched, "%", MatchOn(name, Unmatched, "%"))
      BY <2>3, <3>1, OneMatched
    <3> QED
      BY <3>2 DEF Advances
  <2>7. MatchOn(name, Unmatched, "%").at = 0 .. n
    <3>1. Unmatched.at = {0}
      BY DEF Unmatched
    <3>2. \A q \in 0 .. n : \E p \in {0} : p <= q
      BY <1>1
    <3> QED
      BY <1>0, <2>6, <3>1, <3>2
  <2>8. At(0) = MatchOn(name, Unmatched, "%")
    BY <1>0, <2>1, <2>2, <2>4
  <2>9. \A i \in 0 .. Len(name) - Len(s) : i + 0 \in 0 .. n
    BY <1>0, <1>1
  <2>10. \A q \in 0 .. n : q >= 0 /\ \A j \in 1 .. 0 : name[(q - 0) + j] = s[j]
    BY <1>1
  <2>11. 0 \in 0 .. Len(s)
    BY <1>0, <1>1
  <2> HIDE DEF At
  <2> QED
    BY <2>5, <2>6, <2>7, <2>8, <2>9, <2>10, <2>11
<1>3. ASSUME NEW k \in 0 .. m - 1, k \in Good PROVE k + 1 \in Good
  <2>0. PICK u, c, r, l : u = SubSeq(s, 1, k) /\ c = s[k + 1] /\ r = At(k) /\ l = k + 1
    OBVIOUS
  <2>1. u \in Seq(Chars) /\ c \in Chars /\ SubSeq(s, 1, l) = Append(u, c)
    BY <1>0, <2>0, OneFurther
  <2>2. l \in 1 .. m /\ l \in 0 .. m /\ l - 1 = k /\ c = s[l] /\ k \in Nat
    BY <1>1, <2>0
  <2>3. c # "\\" /\ (Plain => c \notin {"%", "_"})
    BY <1>1, <2>2 DEF Range
  <2>4. /\ r \in Places(name) /\ ~r.escape
        /\ \A i \in 0 .. n - m : There(i) => i + k \in r.at
        /\ Plain => \A q \in r.at : q >= k /\ \A j \in 1 .. k : name[(q - k) + j] = s[j]
    BY <1>0, <1>3, <2>0
  <2>5. At(l) = MatchOn(name, r, c)
    <3>1. w \o u \in Seq(Chars) /\ w \o Append(u, c) = Append(w \o u, c)
      BY <1>1, <2>1, AppendFurther, ConcatProperties
    <3>2. MatchOf(name, Append(w \o u, c)) = MatchOn(name, MatchOf(name, w \o u), c)
      BY <2>1, <3>1, MatchSteps
    <3> QED
      BY <1>0, <2>0, <2>1, <3>1, <3>2
  <2> HIDE DEF At, Plain
  <2>6. /\ ~At(l).escape
        /\ \A p \in r.at : p < n /\ (c \in {"%", "_"} \/ name[p + 1] = c) => p + 1 \in At(l).at
        /\ c \notin {"%", "_"} => \A q \in At(l).at :
              \E p \in r.at : q = p + 1 /\ p < n /\ name[p + 1] = c
    <3>1. Advances(name, r, c, At(l))
      BY <2>3, <2>4, <2>5, OneMatched
    <3> QED
      BY <1>0, <3>1 DEF Advances
  <2>7. At(l) \in Places(name)
    BY <2>4, <2>5, MatchOnType
  <2>8. ASSUME NEW i \in 0 .. n - m, There(i) PROVE i + l \in At(l).at
    <3>0. PICK p : p = i + k
      OBVIOUS
    <3>1. p \in r.at /\ p < n /\ p + 1 = i + l /\ i + l = p + 1
      BY <1>1, <2>2, <2>4, <2>8, <3>0
    <3>2. name[i + l] = c
      BY <1>0, <2>2, <2>8
    <3> QED
      BY <2>6, <3>1, <3>2
  <2>9. ASSUME Plain, NEW q \in At(l).at
        PROVE  q >= l /\ \A j \in 1 .. l : name[(q - l) + j] = s[j]
    <3>1. PICK p \in r.at : q = p + 1 /\ p < n /\ name[p + 1] = c
      BY <2>3, <2>6, <2>9
    <3>2. p >= k /\ p \in Nat /\ \A j \in 1 .. k : name[(p - k) + j] = s[j]
      <4>1. r.at \in SUBSET (0 .. n)
        BY <1>0, <2>4 DEF Places
      <4> QED
        BY <1>1, <2>4, <2>9, <4>1
    <3>3. q - l = p - k /\ q >= l
      BY <2>2, <3>1, <3>2
    <3>4. ASSUME NEW j \in 1 .. l PROVE name[(q - l) + j] = s[j]
      <4>1. CASE j \in 1 .. k
        BY <3>2, <3>3, <4>1
      <4>2. CASE j = l
        <5>1. (q - l) + l = p + 1
          BY <2>2, <3>1, <3>2
        <5> QED
          BY <2>2, <3>1, <4>2, <5>1
      <4>3. j \in 1 .. k \/ j = l
        BY <2>2
      <4> QED
        BY <4>1, <4>2, <4>3
    <3> QED
      BY <3>3, <3>4
  <2>10. l \in Good
    BY <1>0, <2>2, <2>6, <2>7, <2>8, <2>9
  <2> QED
    BY <2>0, <2>10
<1>4. m \in Good
  <2>1. 0 \in Good /\ \A k \in 0 .. m - 1 : k \in Good => k + 1 \in Good
    BY <1>2, <1>3
  <2> HIDE DEF Good
  <2> QED
    BY <1>1, <2>1, Upward, m \in 0 .. m
<1>5. SubSeq(s, 1, m) = s
  BY <1>0, SubSeqFull
<1>6. At(m) = MatchOf(name, <<"%">> \o s)
  BY <1>5
<1> HIDE DEF At
<1>7. At(m).at \in SUBSET (0 .. n)
  BY <1>0, <1>4 DEF Places
<1>8. Reached(name, s, At(m))
  BY <1>0, <1>4, <1>7 DEF Reached
<1> QED
  BY <1>6, <1>8

PatternOf(text) == Literal(<<"%">> \o EscapeString(text) \o <<"%">>)

PartOf(name, text) ==
    \E i \in 0 .. Len(name) - Len(text) : SubSeq(name, i + 1, i + Len(text)) = text

LEMMA PartIs ==
  ASSUME NEW name \in Seq(Chars), NEW text \in Seq(Chars),
         NEW i \in 0 .. Len(name) - Len(text)
  PROVE  SubSeq(name, i + 1, i + Len(text)) = text
            <=> \A j \in 1 .. Len(text) : name[i + j] = text[j]
<1> PICK m, n, u : m = Len(text) /\ n = Len(name) /\ u = SubSeq(name, i + 1, i + m)
  OBVIOUS
<1>1. m \in Nat /\ n \in Nat /\ i \in Nat /\ i + 1 \in Int /\ i + m \in Int /\ i + m <= n
      /\ (i + m) - (i + 1) + 1 = m
  BY LenProperties
<1>2. \A k \in i + 1 .. i + m : name[k] \in Chars
  <2> TAKE k \in i + 1 .. i + m
  <2>1. k \in 1 .. n
    BY <1>1
  <2> QED
    BY <2>1, ElementOfSeq
<1>3. /\ u \in Seq(Chars) /\ Len(u) = IF i + 1 <= i + m THEN m ELSE 0
      /\ \A j \in 1 .. m : u[j] = name[(i + 1) + j - 1]
  BY <1>1, <1>2, SubSeqProperties
<1>4. Len(u) = m
  BY <1>1, <1>3
<1>5. \A j \in 1 .. m : u[j] = name[i + j]
  <2> TAKE j \in 1 .. m
  <2>1. (i + 1) + j - 1 = i + j
    BY <1>1
  <2> QED
    BY <1>3, <2>1
<1>6. (\A j \in 1 .. m : u[j] = text[j]) => u = text
  BY <1>3, <1>4, SeqEqual
<1> QED
  BY <1>5, <1>6

LEMMA SearchAnswers ==
  ASSUME NEW name \in Seq(Chars), NEW text \in Seq(Chars), "\\" \notin Range(text)
  PROVE  /\ PartOf(name, text) => Like(name, PatternOf(text))
         /\ Like(name, PatternOf(text)) /\ Range(text) \cap {"%", "_"} = {}
               /\ text \notin NullLike => PartOf(name, text)
<1>0. PICK m, n : m = Len(text) /\ n = Len(name)
  OBVIOUS
<1>1. /\ Append(<<"%">> \o text, "%") \in Seq(Chars) /\ <<"%">> \o text \in Seq(Chars)
      /\ PatternOf(text) = IF text \in NullLike THEN <<"%", "%">> ELSE Append(<<"%">> \o text, "%")
  BY PatternIs DEF PatternOf
<1>2. \A p : Like(name, p) <=> n \in MatchOf(name, p).at
  BY <1>0 DEF Like, MatchOf, Unmatched
<1>3. m \in Nat /\ n \in Nat /\ "%" \in Chars /\ <<>> \in Seq(Chars)
  BY <1>0, LenProperties DEF Chars
\* After a first wildcard a second finds the end of the name from wherever it stands.
<1>4. ASSUME NEW t \in Seq(Chars),
             MatchOf(name, t).at \in SUBSET (0 .. n), ~MatchOf(name, t).escape
      PROVE  n \in MatchOf(name, Append(t, "%")).at <=> MatchOf(name, t).at # {}
  <2>1. /\ MatchOf(name, t) \in Places(name)
        /\ MatchOf(name, Append(t, "%")) = MatchOn(name, MatchOf(name, t), "%")
    BY <1>3, MatchSteps
  <2>2. Advances(name, MatchOf(name, t), "%", MatchOf(name, Append(t, "%")))
    BY <1>4, <2>1, OneMatched
  <2>3. MatchOf(name, Append(t, "%")).at = {q \in 0 .. n : \E p \in MatchOf(name, t).at : p <= q}
    BY <1>0, <2>2 DEF Advances
  <2>4. \A p \in MatchOf(name, t).at : p <= n
    BY <1>3, <1>4
  <2> QED
    BY <1>3, <2>3, <2>4
<1>5. CASE text \in NullLike
  <2>0. PICK w : w = <<"%">>
    OBVIOUS
  <2>1. w \in Seq(Chars) /\ w = w \o <<>> /\ <<"%", "%">> = Append(w, "%")
    BY <1>3, <2>0, OneAndOne, ConcatProperties
  <2>2. /\ MatchOf(name, w).at \in SUBSET (0 .. n) /\ ~MatchOf(name, w).escape
        /\ 0 \in MatchOf(name, w).at
    <3>1. "\\" \notin Range(<<>>) /\ Len(<<>>) = 0
      BY DEF Range
    <3>2. PICK e : e = <<>>
      OBVIOUS
    <3>3. /\ MatchOf(name, <<"%">> \o e).at \in SUBSET (0 .. Len(name))
          /\ ~MatchOf(name, <<"%">> \o e).escape
          /\ \A i \in 0 .. Len(name) - Len(e) :
                (\A j \in 1 .. Len(e) : name[i + j] = e[j]) =>
                    i + Len(e) \in MatchOf(name, <<"%">> \o e).at
      <4>1. Reached(name, e, MatchOf(name, <<"%">> \o e))
        BY <1>3, <3>1, <3>2, TextMatched
      <4> QED
        BY <4>1 DEF Reached
    <3>4. 0 \in 0 .. Len(name) - Len(e) /\ 1 .. Len(e) = {} /\ 0 + Len(e) = 0
      BY <1>0, <1>3, <3>1, <3>2
    <3> QED
      BY <1>0, <2>0, <2>1, <3>2, <3>3, <3>4
  <2>3. Like(name, <<"%", "%">>)
    BY <1>2, <1>4, <2>1, <2>2
  <2> QED
    BY <1>1, <1>5, <2>3
<1>6. CASE text \notin NullLike
  <2>0. PICK t, at : t = <<"%">> \o text /\ at = MatchOf(name, t).at
    OBVIOUS
  <2>1. /\ at \in SUBSET (0 .. n) /\ ~MatchOf(name, t).escape
        /\ \A i \in 0 .. n - m : (\A j \in 1 .. m : name[i + j] = text[j]) => i + m \in at
        /\ Range(text) \cap {"%", "_"} = {} =>
              \A q \in at : q >= m /\ \A j \in 1 .. m : name[(q - m) + j] = text[j]
    <3>1. Reached(name, text, MatchOf(name, t))
      BY <2>0, TextMatched
    <3> QED
      BY <1>0, <2>0, <3>1 DEF Reached
  <2>2. Like(name, PatternOf(text)) <=> at # {}
    BY <1>1, <1>2, <1>4, <1>6, <2>0, <2>1
  <2>3. PartOf(name, text) => at # {}
    <3> SUFFICES ASSUME PartOf(name, text) PROVE at # {}
      OBVIOUS
    <3>1. PICK i \in 0 .. n - m : SubSeq(name, i + 1, i + m) = text
      BY <1>0 DEF PartOf
    <3>2. \A j \in 1 .. m : name[i + j] = text[j]
      <4>1. /\ name \in Seq(Chars) /\ text \in Seq(Chars) /\ i \in 0 .. Len(name) - Len(text)
            /\ SubSeq(name, i + 1, i + Len(text)) = text
        BY <1>0, <3>1
      <4>2. SubSeq(name, i + 1, i + Len(text)) = text
               <=> \A j \in 1 .. Len(text) : name[i + j] = text[j]
        BY <4>1, PartIs
      <4> QED
        BY <1>0, <4>1, <4>2
    <3> QED
      BY <2>1, <3>2
  <2>4. ASSUME at # {}, Range(text) \cap {"%", "_"} = {} PROVE PartOf(name, text)
    <3>1. PICK q \in at : q >= m /\ \A j \in 1 .. m : name[(q - m) + j] = text[j]
      BY <2>1, <2>4
    <3>2. PICK i : i = q - m
      OBVIOUS
    <3>3. i \in 0 .. n - m
      <4>1. q \in 0 .. n
        BY <2>1
      <4> QED
        BY <1>3, <3>1, <3>2, <4>1
    <3>4. SubSeq(name, i + 1, i + m) = text
      <4>1. /\ name \in Seq(Chars) /\ text \in Seq(Chars) /\ i \in 0 .. Len(name) - Len(text)
            /\ \A j \in 1 .. Len(text) : name[i + j] = text[j]
        BY <1>0, <3>1, <3>2, <3>3
      <4>2. SubSeq(name, i + 1, i + Len(text)) = text
               <=> \A j \in 1 .. Len(text) : name[i + j] = text[j]
        BY <4>1, PartIs
      <4> QED
        BY <1>0, <4>1, <4>2
    <3> QED
      BY <1>0, <3>3, <3>4 DEF PartOf
  <2> QED
    BY <2>2, <2>3, <2>4
<1> QED
  BY <1>5, <1>6

LEMMA SearchesFindNames ==
  ASSUME NEW name \in Seq(Chars), NEW text \in Seq(Chars)
  PROVE  SearchFindsName(name, text)
<1>1. SearchUsersByUsername([i \in {1} |-> [name |-> name]], text) = {1}
         <=> Like(name, PatternOf(text))
  BY DEF SearchUsersByUsername, PatternOf
<1>2. "\\" \notin Range(text) =>
         /\ PartOf(name, text) => Like(name, PatternOf(text))
         /\ Like(name, PatternOf(text)) /\ Range(text) \cap {"%", "_"} = {}
               /\ text \notin NullLike => PartOf(name, text)
  BY SearchAnswers
<1> HIDE DEF NullLike
<1> QED
  BY <1>1, <1>2 DEF SearchFindsName, PartOf

-----------------------------------------------------------------------------
(* Queries on one table *)

LEMMA CountsAddUp ==
  ASSUME NEW rows, IsFiniteSet(DOMAIN rows)
  PROVE  LET stats == GetUserStats(rows)
         IN  SumFunctionOnSet(stats.counts, DOMAIN stats.counts) = Cardinality(DOMAIN rows)
<1> DEFINE roles == {rows[i].role : i \in DOMAIN rows}
           Of(R) == {i \in DOMAIN rows : rows[i].role \in R}
           counts == [r \in roles |-> Cardinality({i \in DOMAIN rows : rows[i].role = r})]
           Good == {R \in SUBSET roles : SumFunctionOnSet(counts, R) = Cardinality(Of(R))}
<1>1. IsFiniteSet(roles)
  <2> DEFINE role == [i \in DOMAIN rows |-> rows[i].role]
  <2>1. role \in Surjection(DOMAIN rows, roles)
    BY DEF Surjection
  <2> HIDE DEF role, roles
  <2> QED
    BY <2>1, FS_Surjection
<1>2. \A R \in SUBSET roles : IsFiniteSet(Of(R)) /\ Cardinality(Of(R)) \in Nat
  <2> TAKE R \in SUBSET roles
  <2>1. Of(R) \in SUBSET DOMAIN rows
    OBVIOUS
  <2> HIDE DEF Of
  <2> QED
    BY <2>1, FS_Subset, FS_CardinalityType
<1>3. \A r \in roles : counts[r] = Cardinality(Of({r})) /\ counts[r] \in Int
  <2> TAKE r \in roles
  <2>1. {i \in DOMAIN rows : rows[i].role = r} = Of({r}) /\ {r} \in SUBSET roles
    OBVIOUS
  <2>2. counts[r] = Cardinality(Of({r}))
    BY <2>1
  <2>3. Cardinality(Of({r})) \in Nat
    <3> HIDE DEF Of
    <3> QED
      BY <1>2, <2>1
  <2> QED
    BY <2>2, <2>3
<1> HIDE DEF counts
<1>4. ASSUME NEW R \in SUBSET roles, \A r \in R : R \ {r} \in Good PROVE R \in Good
  <2>1. CASE R = {}
    <3>1. Of({}) = {}
      OBVIOUS
    <3>2. SumFunctionOnSet(counts, {}) = 0 /\ Cardinality({}) = 0
      BY SumOfNone, FS_EmptySet
    <3> QED
      BY <2>1, <3>1, <3>2
  <2>2. CASE R # {}
    <3> PICK r \in R : TRUE
      BY <2>2
    <3>1. R \ {r} \in SUBSET roles /\ SumFunctionOnSet(counts, R \ {r}) = Cardinality(Of(R \ {r}))
      BY <1>4
    <3>2. Of(R) = Of(R \ {r}) \cup Of({r}) /\ Of(R \ {r}) \cap Of({r}) = {} /\ {r} \in SUBSET roles
      OBVIOUS
    <3> HIDE DEF Of, roles, Good
    <3>3. Cardinality(Of(R)) = Cardinality(Of(R \ {r})) + Cardinality(Of({r}))
      BY <1>2, <3>1, <3>2, ApartTogether
    <3>4. SumFunctionOnSet(counts, R) = counts[r] + SumFunctionOnSet(counts, R \ {r})
      <4>1. IsFiniteSet(R) /\ \A x \in R : counts[x] \in Int
        BY <1>1, <1>3, FS_Subset
      <4> QED
        BY <4>1, SumOfRest
    <3>5. SumFunctionOnSet(counts, R) = Cardinality(Of(R))
      <4>1. counts[r] = Cardinality(Of({r}))
        BY <1>3 DEF roles
      <4>2. Cardinality(Of({r})) \in Nat /\ Cardinality(Of(R \ {r})) \in Nat
        BY <1>2, <3>1, <3>2
      <4> QED
        BY <3>1, <3>3, <3>4, <4>1, <4>2
    <3> QED
      BY <3>5 DEF Good
  <2> QED
    BY <2>1, <2>2
<1>5. roles \in Good
  <2> HIDE DEF Good, roles
  <2>1. \A R \in SUBSET roles : R \in Good
    BY <1>1, <1>4, OneLess
  <2> QED
    BY <2>1
<1>6. Of(roles) = DOMAIN rows /\ DOMAIN counts = roles
  BY DEF counts
<1>7. GetUserStats(rows).counts = counts
  BY DEF GetUserStats, counts
<1> HIDE DEF Of, roles
<1> QED
  BY <1>5, <1>6, <1>7

LEMMA QueriesAgreeOnTable ==
  ASSUME NEW rows, IsFiniteSet(DOMAIN rows),
         \A i \in DOMAIN rows : rows[i].name \in Seq(Chars) /\ rows[i].name \notin NullLike
  PROVE  QueriesAgree(rows)
<1> DEFINE stats == GetUserStats(rows)
           listed == GetAllUsers(rows)
<1>1. stats.total = Cardinality(DOMAIN rows)
  BY DEF GetUserStats
<1>2. Cardinality(listed) = Cardinality(DOMAIN rows)
  <2> DEFINE entry == [i \in DOMAIN rows |-> [id |-> i, user |-> rows[i]]]
  <2>1. entry \in [DOMAIN rows -> listed] /\ \A e \in listed : \E i \in DOMAIN rows : entry[i] = e
    BY DEF GetAllUsers
  <2>2. \A i, j \in DOMAIN rows : entry[i] = entry[j] => i = j
    <3> TAKE i, j \in DOMAIN rows
    <3>1. entry[i].id = i /\ entry[j].id = j
      OBVIOUS
    <3> QED
      BY <3>1
  <2> HIDE DEF entry, listed
  <2>3. entry \in Injection(DOMAIN rows, listed) /\ entry \in Surjection(DOMAIN rows, listed)
    BY <2>1, <2>2 DEF Injection, IsInjective, Surjection
  <2>4. /\ IsFiniteSet(listed) /\ Cardinality(listed) <= Cardinality(DOMAIN rows)
        /\ Cardinality(DOMAIN rows) <= Cardinality(listed)
    BY <2>3, FS_Surjection, FS_Injection
  <2>5. Cardinality(listed) \in Nat /\ Cardinality(DOMAIN rows) \in Nat
    BY <2>4, FS_CardinalityType
  <2> QED
    BY <2>4, <2>5
<1>3. SumFunctionOnSet(stats.counts, DOMAIN stats.counts) = Cardinality(DOMAIN rows)
  BY CountsAddUp
<1>4. ASSUME NEW i \in DOMAIN rows, rows[i].name # <<>>
      PROVE  /\ UserExists(rows, rows[i].name).taken
             /\ "\\" \notin Range(rows[i].name) => i \in SearchUsersByUsername(rows, rows[i].name)
  <2> PICK name : name = rows[i].name
    OBVIOUS
  <2>1. name \in Seq(Chars) /\ name \notin NullLike
    OBVIOUS
  <2>2. Literal(EscapeString(name)) = name
    BY <2>1, NamesKept
  <2>3. UserExists(rows, name).taken
           <=> \E j \in DOMAIN rows : rows[j].name = Literal(EscapeString(name))
    BY <1>4 DEF UserExists
  <2>4. UserExists(rows, name).taken
    BY <2>2, <2>3
  <2>5. ASSUME "\\" \notin Range(name) PROVE i \in SearchUsersByUsername(rows, name)
    <3>1. PartOf(name, name)
      <4> PICK m : m = Len(name)
        OBVIOUS
      <4>1. m \in Nat /\ 0 \in 0 .. m - m /\ \A j \in 1 .. m : name[0 + j] = name[j]
        BY <2>1, LenProperties
      <4>2. SubSeq(name, 0 + 1, 0 + m) = name
        BY <2>1, <4>1, PartIs
      <4> QED
        BY <4>1, <4>2 DEF PartOf
    <3>2. Like(name, PatternOf(name))
      BY <2>1, <2>5, <3>1, SearchAnswers
    <3> QED
      BY <3>2 DEF SearchUsersByUsername, PatternOf
  <2> QED
    BY <2>4, <2>5
<1>5. \A e \in listed : e.id \in DOMAIN rows /\ e.user = rows[e.id]
  BY DEF GetAllUsers
<1> HIDE DEF listed
<1>6. \A e \in listed : e.user.name # <<>> =>
         /\ UserExists(rows, e.user.name).taken
         /\ "\\" \notin Range(e.user.name) => e.id \in SearchUsersByUsername(rows, e.user.name)
  BY <1>4, <1>5
<1> HIDE DEF stats
<1> QED
  BY <1>1, <1>2, <1>3, <1>6 DEF QueriesAgree, stats, listed

LEMMA StoredNames ==
  ASSUME NEW rows, rows \in [DOMAIN rows -> [name : Texts, role : {"rider", "driver"}]]
  PROVE  /\ DOMAIN Stored(rows) = DOMAIN rows
         /\ \A i \in DOMAIN rows :
               Stored(rows)[i].name \in Seq(Chars) /\ Stored(rows)[i].name \notin NullLike
<1> SUFFICES ASSUME NEW i \in DOMAIN rows
             PROVE  Stored(rows)[i].name \in Seq(Chars) /\ Stored(rows)[i].name \notin NullLike
  BY DEF Stored
<1> PICK account : account = rows[i]
  OBVIOUS
<1>1. account \in [name : Texts, role : {"rider", "driver"}]
  OBVIOUS
<1>2. account.name \in Seq(Chars)
  <2>1. account.name \in Seq(Characters)
    BY <1>1, QueriesAssumption
  <2>2. Seq(Characters) \subseteq Seq(Chars)
    BY DEF Chars
  <2> QED
    BY <2>1, <2>2
<1>3. Stored(rows)[i].name = Literal(EscapeString(account.name))
  BY <1>1 DEF Stored
<1>4. <<>> \in Seq(Chars) /\ <<>> \notin NullLike
  BY EmptySeq DEF NullLike
<1>5. Literal(EscapeString(account.name)) =
         IF account.name \in NullLike THEN <<>> ELSE account.name
  BY <1>2, NamesKept
<1> QED
  BY <1>2, <1>3, <1>4, <1>5

\* The walks, searches and counts, for all the names, tables and limits there may be.
LEMMA QueriesAnswerAll == QueriesAnswer
<1>1. ASSUME NEW tables \in Walks, NEW k \in DOMAIN tables PROVE QueriesAgree(Stored(tables[k]))
  <2> PICK rows : rows = tables[k]
    OBVIOUS
  <2>1. /\ IsFiniteSet(DOMAIN rows)
        /\ rows \in [DOMAIN rows -> [name : Texts, role : {"rider", "driver"}]]
    BY QueriesAssumption
  <2> QED
    BY <2>1, StoredNames, QueriesAgreeOnTable
<1>2. \A name, text \in Texts : SearchFindsName(name, text)
  <2> TAKE name, text \in Texts
  <2>1. name \in Seq(Characters) /\ text \in Seq(Characters)
    BY QueriesAssumption
  <2>2. Seq(Characters) \subseteq Seq(Chars)
    BY DEF Chars
  <2> QED
    BY <2>1, <2>2, SearchesFindNames
<1>3. \A tables \in Walks, limit \in PageSizes : WalkShowsAccounts(tables, limit)
  BY WalksShowAccounts
<1> QED
  BY <1>1, <1>2, <1>3 DEF QueriesAnswer

\* What the queries answer fits the accounts: clients that go through the pages while
\* accounts come and go are shown every account once and in order, and miss no more than
\* were deleted; a search finds the names its text is a part of, and no other; and the
\* counts, the list and the names taken are of the same accounts.
THEOREM QueriesAnswered == Spec => []QueriesShowAccounts
<1>1. QueriesShowAccounts
  BY QueriesAnswerAll DEF QueriesShowAccounts
<1> QED
  BY <1>1, PTL
=============================================================================
