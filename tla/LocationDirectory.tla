--------------------------- MODULE LocationDirectory ---------------------------
(***************************************************************************)
(* What LocationManager promises about a user: one place, stored by an     *)
(* update, returned by a lookup, dropped by a deletion, each call taking   *)
(* effect at one moment between its start and its answer.  It holds while  *)
(* the calls about the user do not overlap and no statement about him      *)
(* fails, a look-up included; a user of whom either happened is Unsure for *)
(* good.                                                                   *)
(***************************************************************************)
CONSTANTS
    Threads, Users, Positions, Names,
    Null,      \* a place without a name
    None,      \* no call, no answer, no place, no name given
    Unsure     \* no promise

VARIABLES
    riders,    \* users that may have a place
    stored,    \* the place of each user, None, or Unsure
    calls,     \* the call each thread serves, or None
    outcomes   \* None until the call takes effect, then its answer

directory == <<riders, stored, calls, outcomes>>

Place == [at : Positions, name : Names \cup {Null}]

Call == [op : {"update"}, user : Users, at : Positions,
         name : Names \cup {None}]
          \cup [op : {"get", "delete"}, user : Users]

Answer(status, place) == [status |-> status, place |-> place]

DirectoryInit ==
    /\ riders \in SUBSET Users
    /\ stored \in [Users -> {None, Unsure}]
    /\ calls = [t \in Threads |-> None]
    /\ outcomes = [t \in Threads |-> None]

Begin(t, call) ==
    /\ calls[t] = None
    /\ stored[call.user] # Unsure
    /\ calls' = [calls EXCEPT ![t] = call]
    /\ UNCHANGED <<stored, outcomes>>

\* An update that gives no name keeps the one that is stored.
NewPlace(old, call) ==
    [at |-> call.at,
     name |-> IF call.name # None THEN call.name
              ELSE IF old = None THEN Null ELSE old.name]

Served(t, place, status) ==
    /\ stored' = [stored EXCEPT ![calls[t].user] = place]
    /\ outcomes' = [outcomes EXCEPT ![t] = Answer(status, place)]
    /\ UNCHANGED calls

Store(t, old) ==
    /\ calls[t].op = "update"
    /\ IF calls[t].user \in riders
       THEN Served(t, NewPlace(old, calls[t]), IF old = None THEN 201 ELSE 200)
       ELSE /\ outcomes' = [outcomes EXCEPT ![t] = Answer(500, None)]
            /\ UNCHANGED <<stored, calls>>

Get(t, old) ==
    /\ calls[t].op = "get"
    /\ Served(t, old, IF old = None THEN 404 ELSE 200)

Drop(t, old) ==
    /\ calls[t].op = "delete"
    /\ Served(t, None, IF old = None THEN 404 ELSE 200)

Serve(t) ==
    /\ calls[t] # None
    /\ outcomes[t] = None
    /\ LET old == stored[calls[t].user]
       IN  old # Unsure /\ (Store(t, old) \/ Get(t, old) \/ Drop(t, old))

Finish(t) ==
    /\ calls[t] # None
    /\ outcomes[t] # None
    /\ calls' = [calls EXCEPT ![t] = None]
    /\ outcomes' = [outcomes EXCEPT ![t] = None]
    /\ UNCHANGED stored

\* Nothing is known any more of u, nor of the calls about u.
Doubt(u) ==
    /\ stored' = [stored EXCEPT ![u] = Unsure]
    /\ outcomes' = [t \in Threads |->
                      IF calls'[t] # None /\ calls'[t].user = u THEN Unsure
                      ELSE outcomes[t]]

Clash(t, call) ==
    /\ calls[t] = None
    /\ stored[call.user] = Unsure \/ \E x \in Threads : calls[x] # None /\ calls[x].user = call.user
    /\ calls' = [calls EXCEPT ![t] = call]
    /\ Doubt(call.user)

Fail(t) ==
    /\ calls[t] # None
    /\ Doubt(calls[t].user)
    /\ UNCHANGED calls

DirectoryNext ==
    \E t \in Threads :
        \/ Serve(t) \/ Finish(t) \/ Fail(t)
        \/ \E call \in Call : Begin(t, call) \/ Clash(t, call)

DirectorySpec == DirectoryInit /\ [][DirectoryNext /\ UNCHANGED riders]_directory
=============================================================================
