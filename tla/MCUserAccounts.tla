----------------------------- MODULE MCUserAccounts -----------------------------
(* Values of the constants of UserAccounts for TLC, tables and texts for its *)
(* queries.                                                                  *)
EXTENDS UserAccounts, TLC

CONSTANTS ann, bob, mail, post, p, q

SignUp(username, email, role) ==
    [op |-> "signup", username |-> username, email |-> email, password |-> p, role |-> role]

LogIn(username, password) == [op |-> "login", username |-> username, password |-> password]

NewPassword(id, old, new) == [op |-> "password", id |-> id, old |-> old, new |-> new]

NoColumn == [user_id |-> None, username |-> None, email |-> None, password |-> None]

MCChanges ==
    {NoColumn, [NoColumn EXCEPT !.username = ann, !.password = q],
     [NoColumn EXCEPT !.email = post], [NoColumn EXCEPT !.user_id = 2, !.username = bob],
     [NoColumn EXCEPT !.user_id = 1]}

Updates(ids, changes) == [op : {"update"}, id : ids, change : changes]

Deletions(ids) == [op : {"delete"}, id : ids]

MCMixes ==
    {[calls |-> {SignUp(ann, mail, "rider"), NewPassword(1, p, q), NewPassword(1, q, p),
                 NewPassword(2, p, q), NewPassword(2, q, q)} \cup Deletions({1}),
      tokens |-> {}, events |-> {"restart"}],
     [calls |-> {SignUp(ann, mail, "rider"), SignUp(bob, post, "rider"), SignUp(bob, mail, "rider"),
                 SignUp(ann, post, "none"), LogIn(ann, p), LogIn(bob, q)}
                 \cup Updates({1, 2}, MCChanges),
      tokens |-> {}, events |-> {}],
     [calls |-> {SignUp(ann, mail, "rider"), LogIn(ann, p)} \cup Deletions({1, 2}),
      tokens |-> {"me"}, events |-> {"restart"}],
     [calls |-> {SignUp(ann, mail, "rider"), SignUp(bob, post, "rider"), LogIn(ann, p)}
                \cup Deletions({1}) \cup Updates({1, 2}, {c \in MCChanges : c.user_id # None}),
      tokens |-> {"me"}, events |-> {}],
     [calls |-> {SignUp(ann, mail, "rider"), SignUp(bob, post, "rider"), LogIn(ann, p), LogIn(bob, p)},
      tokens |-> {"refresh", "introspect"}, events |-> {"time"}]}

Symmetry == Permutations(Threads)

MCCharacters == {"a", "b", "%", "_", "'", "\\", "N", "U", "L"}
MCTexts == SeqOf({"a", "b", "%", "_", "'", "\\"}, 2) \cup SeqOf({"a", "b", "%"}, 3)
           \cup {<<"N", "U", "L", "L">>}

\* The numbers of the accounts at each page.
Histories(pages, ids) == [1 .. pages -> SUBSET ids]

Rows(ids) == [i \in ids |-> [name |-> CASE i = 1 -> <<"a", "_">> [] i = 2 -> <<"'", "'">>
                                         [] OTHER -> <<"b">>,
                             role |-> IF i < 3 THEN "rider" ELSE "driver"]]

MCWalks == {tables \in {[k \in DOMAIN h |-> Rows(h[k])] :
                           h \in Histories(3, 1 .. 4) \cup Histories(4, 1 .. 3)} :
              NumbersGrow(tables)}
=============================================================================
